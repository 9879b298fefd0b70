---------------------------- MODULE PredictionRules ----------------------------
(***************************************************************************)
(* The rules that take an investigation from a hypothesis to its status,   *)
(* all of them functions of the state: what is predicted                   *)
(* (prediction-derivation.ts, prediction-templates.ts), which requests are *)
(* planned to find out (investigation-planning.ts,                         *)
(* investigation-routes.ts), how evidence settles a prediction             *)
(* (prediction-evaluation.ts) and what it makes of its hypothesis          *)
(* (evaluation.ts).                                                        *)
(*                                                                         *)
(* Ids that hash their content are the content: a planned test is known by *)
(* its request, a prediction by its hypothesis and template, a rule's      *)
(* assessment by its prediction and evidence.  Evidence ids come from the  *)
(* content too, so what an id stands for is a constant.                    *)
(***************************************************************************)
EXTENDS Naturals, Sequences, FiniteSets, SequencesExt

CONSTANTS
    Evidence,  \* evidence id -> [observedAt, reliability, facts]
    None

-----------------------------------------------------------------------------
(* What can be measured. *)

\* Form, subject, window and the form's discriminant; subjects are normalized.
Quantity(form, subject, window, of) ==
    [form |-> form, subject |-> subject, window |-> window, of |-> of]

Counted(q, count, coverage) == [of |-> q, count |-> count, coverage |-> coverage]
Stated(q, state) == [of |-> q, state |-> state]

\* Mutant: nothing seen is nothing there.
SeenAtFaceValue(fact) ==
    IF "state" \in DOMAIN fact THEN fact.state
    ELSE IF fact.count > 0 THEN "present" ELSE "absent"

\* observedPresence: a zero proves absence only under complete coverage.
Seen(fact) ==
    IF "state" \in DOMAIN fact THEN fact.state
    ELSE IF fact.count > 0 THEN "present"
    ELSE IF fact.coverage = "complete" THEN "absent" ELSE "unknown"

-----------------------------------------------------------------------------
(* derivePredictions. *)

\* A template of the table, of one quantity that has one value if the
\* hypothesis is true and another one if it is false.
Template(key, form, window, of, ifTrue, ifFalse) ==
    [key |-> key, form |-> form, window |-> window, of |-> of,
     ifTrue |-> ifTrue, ifFalse |-> ifFalse]

\* By mechanism, the hyphens written as underscores.
PREDICTION_TEMPLATES == [
    deployment_regression |-> <<
        Template("deployment-before-onset", "deployment-in-window",
                 "pre-onset", "any", "present", "absent"),
        Template("error-rate-elevated", "signal-state",
                 "incident", "error-rate", "elevated", "normal")>>,
    connection_pool_exhaustion |-> <<
        Template("pool-at-limit", "signal-state",
                 "incident", "connection-pool", "at-limit", "normal")>>,
    cache_stampede |-> <<
        Template("workers-at-limit", "signal-state",
                 "incident", "worker-saturation", "at-limit", "normal"),
        Template("refill-activity", "log-class-in-window",
                 "incident", "activity", "present", "absent")>>]

Predict(h, t) ==
    LET q == Quantity(t.form, h.cause.component, t.window, t.of)
    IN  [hypothesis |-> h.id, key |-> t.key, status |-> "untested",
         ifTrue |-> <<[of |-> q, value |-> t.ifTrue]>>,
         ifFalse |-> <<[of |-> q, value |-> t.ifFalse]>>]

Predicted(h, predictions) ==
    \/ h.cause = None
    \/ \E i \in DOMAIN predictions : predictions[i].hypothesis = h.id
    \/ h.cause.mechanism \notin DOMAIN PREDICTION_TEMPLATES

DerivePredictions(hypotheses, predictions) ==
    FlattenSeq([i \in DOMAIN hypotheses |->
        LET h == hypotheses[i]
        IN  IF Predicted(h, predictions) THEN <<>>
            ELSE LET ts == PREDICTION_TEMPLATES[h.cause.mechanism]
                 IN  [j \in DOMAIN ts |-> Predict(h, ts[j])]])

-----------------------------------------------------------------------------
(* planInvestigation. *)

\* INVESTIGATION_ROUTES: the tool that measures a quantity; latency is refused.
Tool(q) ==
    CASE q.form = "deployment-in-window" -> "deployments"
      [] q.form = "log-class-in-window" -> "logs"
      [] q.form = "signal-state" /\ q.of = "dependency-health" -> "dependencies"
      [] q.form = "signal-state" /\ q.of \in {"error-rate", "connection-pool",
                                              "worker-saturation"} -> "metrics"
      [] OTHER -> None

\* The input maps every part of the quantity: a request is a quantity asked of
\* a tool.
Request(q) == [tool |-> Tool(q), input |-> q]
RequestsOf(p) ==
    LET expected == p.ifTrue \o p.ifFalse
    IN  [i \in DOMAIN expected |-> Request(expected[i].of)]

\* Mutant: a request counts as made once its test has been executed.
CarriedOut(tests) ==
    {tests[i].request : i \in {j \in DOMAIN tests : tests[j].status = "executed"}}

Carried(tests) == {tests[i].request : i \in DOMAIN tests}

\* What the predictions still need, in their order; each request is made once.
Wanted(predictions) ==
    FlattenSeq([i \in DOMAIN predictions |->
        IF predictions[i].status = "untested"
        THEN RequestsOf(predictions[i]) ELSE <<>>])

PlanInvestigation(predictions, tests) ==
    LET wanted == Wanted(predictions)
    IN  FlattenSeq([i \in DOMAIN wanted |->
            IF \/ wanted[i].tool = None
               \/ wanted[i] \in Carried(tests)
               \/ \E j \in 1..(i - 1) : wanted[j] = wanted[i]
            THEN <<>>
            ELSE <<[id |-> wanted[i], request |-> wanted[i], status |-> "planned"]>>])

-----------------------------------------------------------------------------
(* evaluatePredictionObservations. *)

\* Evidence observed after the cut is not read.
ReadAt(items, asOf) == {e \in items : Evidence[e].observedAt <= asOf}

\* matchFact, on a fact about the observation's quantity.
FactVerdict(o, fact) ==
    CASE Seen(fact) = "unknown" -> "unknown"
      [] Seen(fact) = o.value -> "holds"
      [] OTHER -> "contradicts"

\* The evidence with a fact of this verdict, for one observation or for all.
Showing(verdict, o, items) ==
    {e \in items : \E f \in Evidence[e].facts :
                       f.of = o.of /\ FactVerdict(o, f) = verdict}
Every(verdict, expected, items) ==
    UNION {Showing(verdict, expected[i], items) : i \in DOMAIN expected}
Conflicting(expected, items) ==
    \E i \in DOMAIN expected :
        /\ Showing("holds", expected[i], items) # {}
        /\ Showing("contradicts", expected[i], items) # {}

Untestable == [status |-> "untestable", by |-> {}]
Refuted(by) == [status |-> "refuted", by |-> by]

\* The first rule that applies; ifFalse is read before ifTrue.
Verdict(p, items) ==
    IF Conflicting(p.ifFalse, items) THEN Untestable
    ELSE IF Every("holds", p.ifFalse, items) # {}
    THEN Refuted(Every("holds", p.ifFalse, items))
    ELSE IF Every("unknown", p.ifFalse, items) # {} THEN Untestable
    ELSE IF Conflicting(p.ifTrue, items) THEN Untestable
    ELSE IF Every("contradicts", p.ifTrue, items) # {}
    THEN Refuted(Every("contradicts", p.ifTrue, items))
    ELSE IF Every("unknown", p.ifTrue, items) # {} THEN Untestable
    ELSE IF /\ p.ifTrue # <<>>
            /\ \A i \in DOMAIN p.ifTrue : Showing("holds", p.ifTrue[i], items) # {}
    THEN [status |-> "confirmed", by |-> Every("holds", p.ifTrue, items)]
    ELSE [status |-> p.status, by |-> {}]

\* A decided prediction is final.
Decided(p) == p.status \in {"confirmed", "refuted"}

PredictionId(p) == <<p.hypothesis, p.key>>

\* One assessment for each piece of evidence that contributed.
RuleAssessments(p, verdict, asOf) ==
    {[id |-> <<PredictionId(p), e>>, evidence |-> e, hypothesis |-> p.hypothesis,
      prediction |-> PredictionId(p), strength |-> "medium",
      effect |-> IF verdict.status = "confirmed" THEN "supports"
                 ELSE "contradicts",
      producedBy |-> "rule", at |-> asOf] : e \in verdict.by}

\* upsertById, of a set.
Upsert(current, update) ==
    {a \in current : \A b \in update : b.id # a.id} \cup update

EvaluatedPredictions(predictions, items) ==
    [i \in DOMAIN predictions |->
        IF Decided(predictions[i]) THEN predictions[i]
        ELSE [predictions[i] EXCEPT !.status = Verdict(predictions[i], items).status]]

EvaluatedAssessments(predictions, items, asOf) ==
    UNION {RuleAssessments(predictions[i], Verdict(predictions[i], items), asOf) :
              i \in {j \in DOMAIN predictions : ~Decided(predictions[j])}}

-----------------------------------------------------------------------------
(* deriveHypothesisStatus, under STATUS_RULES v0.2. *)

Material(a) == a.strength \in {"medium", "high"}

HypothesisStatus(id, predictions, assessments) ==
    LET own == {predictions[i] : i \in {j \in DOMAIN predictions :
                                          predictions[j].hypothesis = id}}
        About(effect) == {a \in assessments :
                            a.hypothesis = id /\ a.effect = effect}
        rejected == \E a \in About("contradicts"), p \in own :
                        /\ a.prediction = PredictionId(p)
                        /\ p.status = "refuted"
                        /\ Evidence[a.evidence].reliability = "high"
        supports == {a.evidence : a \in {b \in About("supports") : Material(b)}}
        confirmed == \E p \in own : p.status = "confirmed"
    IN  IF rejected THEN "rejected"
        ELSE IF \E a \in About("contradicts") : Material(a) THEN "weakened"
        ELSE IF Cardinality(supports) < 2 THEN "candidate"
        ELSE IF confirmed THEN "supported" ELSE "corroborated"

=============================================================================
