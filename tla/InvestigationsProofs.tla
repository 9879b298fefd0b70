------------------------ MODULE InvestigationsProofs -------------------------
(***************************************************************************)
(* What an investigation holds, for any evidence, roles, recordings and    *)
(* budgets and any number of attempts; and that a decision answers the     *)
(* conclusion it was given for.                                            *)
(*                                                                         *)
(* A run may come back from any of its checkpoints, so no invariant of the *)
(* state alone is inductive.  PipelineInv says what the path of            *)
(* checkpoints is: what the ledger makes of its first state, node by node  *)
(* and, inside execute_investigation, test by test (Told).  A run that     *)
(* came back walks the same path, alike but for the stamps of its model's  *)
(* readings (Alike), and asks the ledger nothing new before its end; so    *)
(* are the checkpoints of every attempt (PutOnPath) and what roles were    *)
(* shown (Requested), where a stamp may have a request refused.  What      *)
(* holds of each state on the path (Sound) is then shown once, node by     *)
(* node, without the run.                                                  *)
(***************************************************************************)
EXTENDS Investigations, FiniteSetTheorems, SequenceTheorems, TLAPS

LEMMA LeastOf ==
    ASSUME NEW T, T \subseteq Nat, T # {}
    PROVE  \E x \in T : \A y \in T : x <= y
<1> DEFINE R == {ss \in Nat \X Nat : ss[1] < ss[2]}
<1>1. IsWellFoundedOn(R, Nat)
  BY NatLessThanWellFounded DEF OpToRel
<1> HIDE DEF R
<1>2. \E x \in T : \A y \in T : ~ (<<y, x>> \in R)
  BY <1>1, WFMin
<1>3. \A x, y \in Nat : <<y, x>> \in R <=> y < x
  BY DEF R
<1>4. PICK x \in T : \A y \in T : ~ (<<y, x>> \in R)
  BY <1>2
<1>5. \A y \in T : ~ (y < x) /\ y \in Nat /\ x \in Nat
  BY <1>3, <1>4
<1>6. \A y \in T : x <= y
  BY <1>5
<1> QED
  BY <1>6

\* Where the elements of a flattened sequence come from: o is one to one.
Origin(o, flat, seqs, n) ==
    /\ \A p \in DOMAIN flat :
          /\ o[p][1] \in 1..n
          /\ o[p][2] \in DOMAIN seqs[o[p][1]]
          /\ flat[p] = seqs[o[p][1]][o[p][2]]
    /\ \A p, q \in DOMAIN flat :
          o[p][1] = o[q][1] /\ o[p][2] = o[q][2] => p = q

FlattenStep(f, n, seqs) ==
    f = [i \in 1..n |-> IF i = 1 THEN seqs[i] ELSE f[i - 1] \o seqs[i]]

LEMMA FlattenExists ==
    ASSUME NEW seqs
    PROVE  \A n \in Nat : \E f : FlattenStep(f, n, seqs)
<1> DEFINE T == {n \in Nat : ~ \E f : FlattenStep(f, n, seqs)}
<1>1. SUFFICES ASSUME T # {} PROVE FALSE
  OBVIOUS
<1>2. PICK n \in T : \A y \in T : n <= y
  BY <1>1, LeastOf
<1>3. FlattenStep([i \in 1..0 |-> 0], 0, seqs)
  BY DEF FlattenStep
<1>4. n \in Nat /\ n # 0
  BY <1>2, <1>3
<1>5. n - 1 \in Nat /\ n - 1 \notin T
  BY <1>2, <1>4
<1>6. PICK g : FlattenStep(g, n - 1, seqs)
  BY <1>5
<1> DEFINE h == [i \in 1..n |-> IF i = 1 THEN seqs[i] ELSE g[i - 1] \o seqs[i]]
<1>7. \A i \in 1..(n - 1) : h[i] = g[i]
  <2> TAKE i \in 1..(n - 1)
  <2>1. g[i] = IF i = 1 THEN seqs[i] ELSE g[i - 1] \o seqs[i]
    BY <1>6 DEF FlattenStep
  <2> QED
    BY <2>1, <1>4
<1>8. FlattenStep(h, n, seqs)
  <2>1. \A i \in 1..n : i # 1 => i - 1 \in 1..(n - 1)
    BY <1>4
  <2>2. \A i \in 1..n : i # 1 => g[i - 1] = h[i - 1]
    BY <1>7, <2>1
  <2> QED
    BY <2>2 DEF FlattenStep
<1> QED
  BY <1>8, <1>2

LEMMA FlattenUnfolds ==
    ASSUME NEW S, NEW seqs \in Seq(Seq(S)), Len(seqs) # 0
    PROVE  \E f : FlattenStep(f, Len(seqs), seqs) /\ FlattenSeq(seqs) = f[Len(seqs)]
<1> DEFINE flatten == CHOOSE f : f = [i \in 1..Len(seqs) |->
              IF i = 1 THEN seqs[i] ELSE f[i - 1] \o seqs[i]]
<1>1. FlattenSeq(seqs) = flatten[Len(seqs)]
  BY Zenon DEF FlattenSeq
<1>2. \E f : f = [i \in 1..Len(seqs) |->
              IF i = 1 THEN seqs[i] ELSE f[i - 1] \o seqs[i]]
  <2>1. Len(seqs) \in Nat
    OBVIOUS
  <2>2. \E f : FlattenStep(f, Len(seqs), seqs)
    BY <2>1, FlattenExists
  <2> QED
    BY <2>2 DEF FlattenStep
<1>3. FlattenStep(flatten, Len(seqs), seqs)
  BY <1>2, Zenon DEF FlattenStep
<1> QED
  BY <1>1, <1>3

\* A flattened sequence has the elements of its parts, each where it was.
LEMMA FlattenOrigin ==
    ASSUME NEW S, NEW seqs \in Seq(Seq(S))
    PROVE  /\ FlattenSeq(seqs) \in Seq(S)
           /\ \E o : Origin(o, FlattenSeq(seqs), seqs, Len(seqs))
<1>1. CASE Len(seqs) = 0
  <2>1. FlattenSeq(seqs) = <<>>
    BY <1>1 DEF FlattenSeq
  <2>2. Origin(<<>>, <<>>, seqs, Len(seqs))
    BY DEF Origin
  <2> QED
    BY <2>1, <2>2
<1>2. CASE Len(seqs) # 0
  <2>1. PICK f : FlattenStep(f, Len(seqs), seqs) /\ FlattenSeq(seqs) = f[Len(seqs)]
    BY <1>2, FlattenUnfolds
  <2> DEFINE Fine(n) == f[n] \in Seq(S) /\ \E o : Origin(o, f[n], seqs, n)
             T == {n \in 1..Len(seqs) : ~Fine(n)}
  <2>2. SUFFICES ASSUME T # {} PROVE FALSE
    <3>1. Len(seqs) \in 1..Len(seqs)
      BY <1>2
    <3>2. Fine(Len(seqs)) =>
            /\ FlattenSeq(seqs) \in Seq(S)
            /\ \E o : Origin(o, FlattenSeq(seqs), seqs, Len(seqs))
      BY <2>1
    <3> HIDE DEF Fine
    <3> QED
      BY <3>1, <3>2
  <2> HIDE DEF Fine
  <2>3. PICK n \in T : \A y \in T : n <= y
    <3>1. T \subseteq Nat
      OBVIOUS
    <3> HIDE DEF T
    <3> QED
      BY <3>1, <2>2, LeastOf
  <2>4. n \in 1..Len(seqs) /\ f[n] = IF n = 1 THEN seqs[n] ELSE f[n - 1] \o seqs[n]
    <3>1. n \in 1..Len(seqs)
      BY <2>3
    <3> QED
      BY <2>1, <3>1 DEF FlattenStep
  <2>5. seqs[n] \in Seq(S)
    BY <2>4
  <2>6. n # 1
    <3>1. SUFFICES ASSUME n = 1 PROVE FALSE
      OBVIOUS
    <3>2. f[n] = seqs[n]
      BY <2>4, <3>1
    <3>3. Origin([p \in DOMAIN seqs[1] |-> <<1, p>>], seqs[1], seqs, 1)
      BY DEF Origin
    <3> QED
      BY <3>1, <3>2, <3>3, <2>3, <2>5 DEF Fine
  <2>7. Fine(n - 1)
    <3>1. n - 1 \in 1..Len(seqs) /\ ~(n <= n - 1)
      BY <2>4, <2>6
    <3> QED
      BY <3>1, <2>3
  <2> DEFINE flat == f[n - 1]  last == seqs[n]
  <2>8. f[n] = flat \o last /\ flat \in Seq(S) /\ last \in Seq(S)
    BY <2>4, <2>5, <2>6, <2>7 DEF Fine
  <2>9. PICK o : Origin(o, flat, seqs, n - 1)
    BY <2>7 DEF Fine
  <2> HIDE DEF flat
  <2> DEFINE both == flat \o last
             w == [p \in DOMAIN both |->
                      IF p <= Len(flat) THEN o[p] ELSE <<n, p - Len(flat)>>]
  <2>10. \A p \in DOMAIN both :
            \/ /\ p \in DOMAIN flat /\ both[p] = flat[p] /\ w[p] = o[p]
               /\ w[p][1] # n
            \/ /\ p - Len(flat) \in DOMAIN last /\ both[p] = last[p - Len(flat)]
               /\ w[p] = <<n, p - Len(flat)>> /\ w[p][2] = p - Len(flat)
    <3> TAKE p \in DOMAIN both
    <3>1. Len(flat) \in Nat /\ p \in Nat
      BY <2>8
    <3>2. CASE p <= Len(flat)
      <4>1. p \in DOMAIN flat /\ both[p] = flat[p] /\ w[p] = o[p]
        BY <2>8, <3>2
      <4>2. o[p][1] \in 1..(n - 1) /\ n \in Nat
        BY <4>1, <2>9, <2>4 DEF Origin
      <4> QED
        BY <4>1, <4>2
    <3>3. CASE ~(p <= Len(flat))
      BY <2>8, <3>1, <3>3
    <3> QED
      BY <3>2, <3>3
  <2>11. Origin(w, both, seqs, n)
    <3>1. \A p \in DOMAIN both : /\ w[p][1] \in 1..n
                                 /\ w[p][2] \in DOMAIN seqs[w[p][1]]
                                 /\ both[p] = seqs[w[p][1]][w[p][2]]
      <4> TAKE p \in DOMAIN both
      <4> HIDE DEF w, both
      <4> USE DEF last
      <4>1. CASE w[p][1] # n
        <5>1. p \in DOMAIN flat /\ both[p] = flat[p] /\ w[p] = o[p]
          BY <4>1, <2>10
        <5> QED
          BY <5>1, <2>9, <2>4 DEF Origin
      <4>2. CASE w[p][1] = n
        <5>1. /\ p - Len(flat) \in DOMAIN seqs[n]
              /\ both[p] = seqs[n][p - Len(flat)] /\ w[p] = <<n, p - Len(flat)>>
          BY <4>2, <2>10
        <5> QED
          BY <5>1, <2>4
      <4> QED
        BY <4>1, <4>2
    <3>2. \A p, q \in DOMAIN both :
              w[p][1] = w[q][1] /\ w[p][2] = w[q][2] => p = q
      <4> TAKE p, q \in DOMAIN both
      <4> HAVE w[p][1] = w[q][1] /\ w[p][2] = w[q][2]
      <4> HIDE DEF w, last, both
      <4>1. CASE w[p][1] # n
        <5>1. p \in DOMAIN flat /\ q \in DOMAIN flat /\ o[p] = w[p] /\ o[q] = w[q]
          BY <4>1, <2>10
        <5> QED
          BY <5>1, <2>9 DEF Origin
      <4>2. CASE w[p][1] = n
        <5>1. p - Len(flat) = q - Len(flat) /\ Len(flat) \in Nat /\ p \in Nat /\ q \in Nat
          <6>1. w[p][2] = p - Len(flat) /\ w[q][2] = q - Len(flat)
            BY <4>2, <2>10
          <6>2. Len(flat) \in Nat /\ DOMAIN both \subseteq Nat
            BY <2>8 DEF both
          <6> QED
            BY <6>1, <6>2
        <5> QED
          BY <5>1
      <4> QED
        BY <4>1, <4>2
    <3> QED
      BY <3>1, <3>2 DEF Origin
  <2>12. Fine(n)
    BY <2>8, <2>11 DEF Fine
  <2> QED
    BY <2>3, <2>12
<1> QED
  BY <1>1, <1>2

-----------------------------------------------------------------------------
(* What is predicted and planned. *)

Explained == {h \in Hypothesis : /\ h.cause # None
                                 /\ h.cause.mechanism \in DOMAIN PREDICTION_TEMPLATES}
Templates(h) == PREDICTION_TEMPLATES[h.cause.mechanism]
Measure(h, t) == Quantity(t.form, h.cause.component, t.window, t.of)

PredictionStatus == {"untested", "untestable", "confirmed", "refuted"}
PredictionOf(h, t, status) ==
    [hypothesis |-> h.id, key |-> t.key, status |-> status,
     ifTrue |-> <<[of |-> Measure(h, t), value |-> t.ifTrue]>>,
     ifFalse |-> <<[of |-> Measure(h, t), value |-> t.ifFalse]>>]
Prediction ==
    UNION {{PredictionOf(h, t, v) : t \in Range(Templates(h)), v \in PredictionStatus} :
           h \in Explained}

LEMMA TemplatesDiffer ==
    ASSUME NEW m \in DOMAIN PREDICTION_TEMPLATES
    PROVE  LET ts == PREDICTION_TEMPLATES[m]
           IN  /\ ts \in Seq(Range(ts))
               /\ \A i, j \in DOMAIN ts : ts[i].key = ts[j].key => i = j
               /\ \A i \in DOMAIN ts : /\ ts[i].ifTrue # ts[i].ifFalse
                                       /\ ts[i].ifTrue # "unknown"
                                       /\ ts[i].ifFalse # "unknown"
<1>1. m \in {"deployment_regression", "connection_pool_exhaustion", "cache_stampede"}
  BY DEF PREDICTION_TEMPLATES
<1>2. CASE m = "deployment_regression"
  BY <1>2 DEF PREDICTION_TEMPLATES, Template, Range
<1>3. CASE m = "connection_pool_exhaustion"
  BY <1>3 DEF PREDICTION_TEMPLATES, Template, Range
<1>4. CASE m = "cache_stampede"
  BY <1>4 DEF PREDICTION_TEMPLATES, Template, Range
<1> QED
  BY <1>1, <1>2, <1>3, <1>4

LEMMA PredictionIs ==
    ASSUME NEW p \in Prediction
    PROVE  \E h \in Explained : \E t \in Range(Templates(h)), v \in PredictionStatus :
              p = PredictionOf(h, t, v)
BY DEF Prediction

LEMMA MeasuresArePlannable ==
    ASSUME NEW h \in Explained, NEW t \in Range(Templates(h))
    PROVE  Request(Measure(h, t)) \in Plannable
BY DEF Plannable, Explained, Templates, Measure

LEMMA TwoInSequence ==
    ASSUME NEW a, NEW b
    PROVE  <<a>> \o <<b>> = <<a, b>>
<1>1. <<a>> \in Seq({a, b}) /\ <<b>> \in Seq({a, b}) /\ <<a, b>> \in Seq({a, b})
  OBVIOUS
<1>2. Len(<<a>> \o <<b>>) = 2 /\ \A i \in 1..2 : (<<a>> \o <<b>>)[i] = <<a, b>>[i]
  BY <1>1
<1>3. <<a>> \o <<b>> \in Seq({a, b})
  BY <1>1
<1> QED
  BY <1>1, <1>2, <1>3, SeqEqual

LEMMA RequestsArePlannable ==
    ASSUME NEW p \in Prediction
    PROVE  RequestsOf(p) \in Seq(Plannable)
<1>1. PICK h \in Explained :
          \E t \in Range(Templates(h)), v \in PredictionStatus : p = PredictionOf(h, t, v)
  BY PredictionIs
<1>2. PICK t \in Range(Templates(h)), v \in PredictionStatus : p = PredictionOf(h, t, v)
  BY <1>1
<1> DEFINE q == Measure(h, t)
           expected == p.ifTrue \o p.ifFalse
<1>3. p.ifTrue = <<[of |-> q, value |-> t.ifTrue]>> /\ p.ifFalse = <<[of |-> q, value |-> t.ifFalse]>>
  BY <1>2 DEF PredictionOf
<1>4. Request(q) \in Plannable
  BY MeasuresArePlannable
<1> HIDE DEF q
<1>5. expected = <<[of |-> q, value |-> t.ifTrue], [of |-> q, value |-> t.ifFalse]>>
  BY <1>3, TwoInSequence
<1>6. DOMAIN expected = 1..2 /\ \A i \in 1..2 : expected[i].of = q
  BY <1>5
<1>7. RequestsOf(p) = [i \in 1..2 |-> Request(q)]
  BY <1>6, Zenon DEF RequestsOf
<1> QED
  BY <1>4, <1>7

LEMMA WantedIsPlannable ==
    ASSUME NEW predictions \in Seq(Prediction)
    PROVE  Wanted(predictions) \in Seq(Plannable)
<1> DEFINE parts == [i \in DOMAIN predictions |->
        IF predictions[i].status = "untested" THEN RequestsOf(predictions[i]) ELSE <<>>]
<1>1. \A i \in DOMAIN predictions : RequestsOf(predictions[i]) \in Seq(Plannable)
  BY RequestsArePlannable
<1>2. parts \in Seq(Seq(Plannable))
  <2>1. \A i \in DOMAIN predictions : parts[i] \in Seq(Plannable)
    BY <1>1
  <2>2. DOMAIN parts = DOMAIN predictions /\ parts = [i \in DOMAIN parts |-> parts[i]]
    OBVIOUS
  <2> HIDE DEF parts
  <2> QED
    BY <2>1, <2>2
<1> HIDE DEF parts
<1>3. FlattenSeq(parts) \in Seq(Plannable)
  BY <1>2, FlattenOrigin
<1> QED
  BY <1>3 DEF Wanted, parts

PlannedTest == [id : Plannable, request : Plannable, status : {"planned"}]

\* The planner asks for what was not asked for, each thing once.
LEMMA PlansAreNew ==
    ASSUME NEW predictions \in Seq(Prediction), NEW tests
    PROVE  LET plan == PlanInvestigation(predictions, tests)
           IN  /\ plan \in Seq(PlannedTest)
               /\ \A i \in DOMAIN plan : /\ plan[i].id = plan[i].request
                                         /\ plan[i].request \notin Carried(tests)
               /\ \A i, j \in DOMAIN plan :
                      plan[i].request = plan[j].request => i = j
<1> DEFINE wanted == Wanted(predictions)
           Skip(i) == \/ wanted[i].tool = None
                      \/ wanted[i] \in Carried(tests)
                      \/ \E j \in 1..(i - 1) : wanted[j] = wanted[i]
           test(r) == [id |-> r, request |-> r, status |-> "planned"]
           parts == [i \in DOMAIN wanted |-> IF Skip(i) THEN <<>> ELSE <<test(wanted[i])>>]
           plan == FlattenSeq(parts)
<1>1. PlanInvestigation(predictions, tests) = plan
  BY Zenon DEF PlanInvestigation
<1>2. wanted \in Seq(Plannable)
  BY WantedIsPlannable
<1> HIDE DEF wanted
<1>3. \A i \in DOMAIN wanted : test(wanted[i]) \in PlannedTest
  BY <1>2 DEF PlannedTest
<1> HIDE DEF test, Skip
<1>4. parts \in Seq(Seq(PlannedTest))
  <2>1. \A i \in DOMAIN wanted : parts[i] \in Seq(PlannedTest)
    BY <1>3
  <2>2. DOMAIN parts = DOMAIN wanted /\ parts = [i \in DOMAIN parts |-> parts[i]]
    OBVIOUS
  <2> HIDE DEF parts
  <2> QED
    BY <2>1, <2>2, <1>2
<1>5. PICK o : Origin(o, plan, parts, Len(parts))
  BY <1>4, FlattenOrigin
<1>6. plan \in Seq(PlannedTest)
  BY <1>4, FlattenOrigin
<1>7. Len(parts) = Len(wanted) /\ DOMAIN wanted = 1..Len(wanted)
  BY <1>2
<1> HIDE DEF plan
<1>8. \A p \in DOMAIN plan : /\ o[p][1] \in DOMAIN wanted /\ ~Skip(o[p][1])
                             /\ o[p][2] = 1
                             /\ plan[p] = test(wanted[o[p][1]])
  <2> TAKE p \in DOMAIN plan
  <2>1. /\ o[p][1] \in DOMAIN wanted /\ o[p][2] \in DOMAIN parts[o[p][1]]
        /\ plan[p] = parts[o[p][1]][o[p][2]]
    BY <1>5, <1>7 DEF Origin
  <2>2. CASE Skip(o[p][1])
    <3>1. parts[o[p][1]] = <<>>
      BY <2>1, <2>2
    <3> QED
      BY <3>1, <2>1
  <2>3. CASE ~Skip(o[p][1])
    <3>1. parts[o[p][1]] = <<test(wanted[o[p][1]])>>
      BY <2>1, <2>3
    <3> HIDE DEF parts
    <3> QED
      BY <3>1, <2>1, <2>3
  <2> QED
    BY <2>2, <2>3
<1>9. \A p \in DOMAIN plan : /\ plan[p].id = wanted[o[p][1]]
                             /\ plan[p].request = wanted[o[p][1]]
  BY <1>8 DEF test
<1>10. \A p \in DOMAIN plan : plan[p].request \notin Carried(tests)
  BY <1>8, <1>9 DEF Skip
<1>11. ASSUME NEW p \in DOMAIN plan, NEW q \in DOMAIN plan,
              plan[p].request = plan[q].request, p # q
       PROVE  FALSE
  <2>1. o[p][1] # o[q][1]
    <3>1. ~(o[p][1] = o[q][1] /\ o[p][2] = o[q][2])
      BY <1>5, <1>11 DEF Origin
    <3> QED
      BY <3>1, <1>8
  <2> QED
    <3>1. o[p][1] \in 1..Len(wanted) /\ o[q][1] \in 1..Len(wanted) /\ Len(wanted) \in Nat
      BY <1>2, <1>7, <1>8
    <3>2. wanted[o[p][1]] = wanted[o[q][1]]
      BY <1>9, <1>11
    <3>3. o[p][1] \in 1..(o[q][1] - 1) \/ o[q][1] \in 1..(o[p][1] - 1)
      BY <2>1, <3>1
    <3> QED
      BY <3>2, <3>3, <1>8 DEF Skip
<1>12. \A p, q \in DOMAIN plan : plan[p].request = plan[q].request => p = q
  BY <1>11
<1> QED
  BY <1>1, <1>6, <1>9, <1>10, <1>12

\* Hypotheses that have no predictions yet get new ones, each once.
LEMMA PredictionsAreNew ==
    ASSUME NEW hypotheses \in Seq(Hypothesis),
           \A i, j \in DOMAIN hypotheses :
               hypotheses[i].id = hypotheses[j].id => i = j,
           NEW predictions
    PROVE  LET new == DerivePredictions(hypotheses, predictions)
           IN  /\ new \in Seq(Prediction)
               /\ \A i \in DOMAIN new :
                      /\ new[i].status = "untested"
                      /\ \A j \in DOMAIN predictions :
                            predictions[j].hypothesis # new[i].hypothesis
               /\ \A i, j \in DOMAIN new :
                      PredictionId(new[i]) = PredictionId(new[j]) => i = j
<1> DEFINE Done(h) == Predicted(h, predictions)
           Whole(h) == [j \in DOMAIN Templates(h) |-> Predict(h, Templates(h)[j])]
           parts == [i \in DOMAIN hypotheses |->
                        IF Done(hypotheses[i]) THEN <<>> ELSE Whole(hypotheses[i])]
           new == FlattenSeq(parts)
<1>1. DerivePredictions(hypotheses, predictions) = new
  BY Zenon DEF DerivePredictions, Templates
<1>2. ASSUME NEW i \in DOMAIN hypotheses, ~Done(hypotheses[i])
      PROVE  /\ hypotheses[i] \in Explained
             /\ Whole(hypotheses[i]) \in Seq(Prediction)
  <2> DEFINE h == hypotheses[i]
             ts == Templates(h)
  <2>1. h \in Explained
    BY <1>2 DEF Explained, Predicted
  <2>2. ts \in Seq(Range(ts))
    BY <2>1, TemplatesDiffer DEF Explained, Templates
  <2>3. ASSUME NEW j \in DOMAIN ts PROVE Predict(h, ts[j]) \in Prediction
    <3>1. ts[j] \in Range(ts)
      BY DEF Range
    <3>2. Predict(h, ts[j]) = PredictionOf(h, ts[j], "untested")
      BY DEF Predict, PredictionOf, Measure
    <3>3. "untested" \in PredictionStatus
      BY DEF PredictionStatus
    <3> HIDE DEF h
    <3> QED
      BY <2>1, <3>1, <3>2, <3>3 DEF Prediction
  <2> HIDE DEF h, ts
  <2>4. [j \in DOMAIN ts |-> Predict(h, ts[j])] \in Seq(Prediction)
    BY <2>2, <2>3
  <2> QED
    BY <2>1, <2>4 DEF h, ts
<1> HIDE DEF Done
<1>3. parts \in Seq(Seq(Prediction))
  <2>1. \A i \in DOMAIN hypotheses : parts[i] \in Seq(Prediction)
    <3> TAKE i \in DOMAIN hypotheses
    <3>1. CASE Done(hypotheses[i])
      BY <3>1
    <3>2. CASE ~Done(hypotheses[i])
      <4>1. parts[i] = Whole(hypotheses[i])
        BY <3>2
      <4> HIDE DEF Whole, parts
      <4> QED
        BY <4>1, <3>2, <1>2
    <3> QED
      BY <3>1, <3>2
  <2>2. DOMAIN parts = DOMAIN hypotheses /\ parts = [i \in DOMAIN parts |-> parts[i]]
    OBVIOUS
  <2> HIDE DEF parts
  <2> QED
    BY <2>1, <2>2
<1>4. PICK o : Origin(o, new, parts, Len(parts))
  BY <1>3, FlattenOrigin
<1>5. new \in Seq(Prediction)
  BY <1>3, FlattenOrigin
<1>6. Len(parts) = Len(hypotheses) /\ DOMAIN hypotheses = 1..Len(hypotheses)
  <2> HIDE DEF Whole
  <2> QED
    OBVIOUS
<1> HIDE DEF new
<1>7. ASSUME NEW p \in DOMAIN new
      PROVE  /\ o[p][1] \in DOMAIN hypotheses
             /\ ~Done(hypotheses[o[p][1]])
             /\ o[p][2] \in DOMAIN Templates(hypotheses[o[p][1]])
             /\ new[p] = Predict(hypotheses[o[p][1]],
                                 Templates(hypotheses[o[p][1]])[o[p][2]])
  <2> DEFINE h == hypotheses[o[p][1]]
  <2>1. /\ o[p][1] \in DOMAIN hypotheses /\ o[p][2] \in DOMAIN parts[o[p][1]]
        /\ new[p] = parts[o[p][1]][o[p][2]]
    <3> HIDE DEF parts
    <3> QED
      BY <1>4, <1>6 DEF Origin
  <2>2. ~Done(h)
    BY <2>1
  <2>3. parts[o[p][1]] = Whole(h)
    BY <2>1, <2>2
  <2> QED
    BY <2>1, <2>2, <2>3
<1>8. \A p \in DOMAIN new :
         /\ new[p].status = "untested"
         /\ new[p].hypothesis = hypotheses[o[p][1]].id
         /\ new[p].key = Templates(hypotheses[o[p][1]])[o[p][2]].key
  BY <1>7 DEF Predict
<1>9. \A p \in DOMAIN new : \A j \in DOMAIN predictions :
         predictions[j].hypothesis # new[p].hypothesis
  BY <1>7, <1>8 DEF Done, Predicted
<1>10. ASSUME NEW p \in DOMAIN new, NEW q \in DOMAIN new,
              PredictionId(new[p]) = PredictionId(new[q])
       PROVE  p = q
  <2>1. new[p].hypothesis = new[q].hypothesis /\ new[p].key = new[q].key
    BY <1>10 DEF PredictionId
  <2>2. o[p][1] = o[q][1]
    BY <2>1, <1>7, <1>8
  <2> DEFINE h == hypotheses[o[p][1]]
  <2>3. h \in Explained
    BY <1>7, <1>2
  <2>4. \A i, j \in DOMAIN Templates(h) :
           Templates(h)[i].key = Templates(h)[j].key => i = j
    BY <2>3, TemplatesDiffer DEF Explained, Templates
  <2>5. o[p][2] = o[q][2]
    <3>1. /\ o[p][2] \in DOMAIN Templates(h) /\ o[q][2] \in DOMAIN Templates(h)
          /\ new[p].key = Templates(h)[o[p][2]].key
          /\ new[q].key = Templates(h)[o[q][2]].key
      BY <2>2, <1>7, <1>8
    <3> HIDE DEF h
    <3> QED
      BY <3>1, <2>1, <2>4
  <2> QED
    BY <2>2, <2>5, <1>4 DEF Origin
<1> QED
  BY <1>1, <1>5, <1>8, <1>9, <1>10

-----------------------------------------------------------------------------
(* States that differ in the time their readings are stamped with. *)

Assessed(a) ==
    /\ a = [id |-> a.id, evidence |-> a.evidence, hypothesis |-> a.hypothesis,
            prediction |-> a.prediction, strength |-> a.strength,
            effect |-> a.effect, producedBy |-> a.producedBy, at |-> a.at]
    /\ a.producedBy \in {"rule", "llm"}

Shaped(s) ==
    /\ s = [node |-> s.node, hypotheses |-> s.hypotheses,
            predictions |-> s.predictions, tests |-> s.tests, trials |-> s.trials,
            evidence |-> s.evidence, assessments |-> s.assessments,
            laps |-> s.laps, rounds |-> s.rounds]
    /\ \A a \in s.assessments : Assessed(a)

SameReading(a, b) ==
    /\ a.id = b.id /\ a.evidence = b.evidence /\ a.hypothesis = b.hypothesis
    /\ a.prediction = b.prediction /\ a.strength = b.strength
    /\ a.effect = b.effect /\ a.producedBy = b.producedBy
    /\ a.producedBy = "rule" => a.at = b.at

SameReadings(A, B) ==
    /\ \A a \in A : Assessed(a) /\ \E b \in B : SameReading(a, b)
    /\ \A b \in B : Assessed(b) /\ \E a \in A : SameReading(a, b)

Alike(s, t) ==
    /\ Shaped(s) /\ Shaped(t)
    /\ s.node = t.node /\ s.hypotheses = t.hypotheses
    /\ s.predictions = t.predictions /\ s.tests = t.tests
    /\ s.trials = t.trials /\ s.evidence = t.evidence
    /\ s.laps = t.laps /\ s.rounds = t.rounds
    /\ SameReadings(s.assessments, t.assessments)

LEMMA AlikeItself ==
    ASSUME NEW s, Shaped(s)
    PROVE  Alike(s, s)
BY DEF Alike, Shaped, SameReadings, SameReading

LEMMA AlikeTurned ==
    ASSUME NEW s, NEW t, Alike(s, t)
    PROVE  Alike(t, s)
<1>1. SameReadings(t.assessments, s.assessments)
  BY DEF Alike, SameReadings, SameReading
<1> QED
  BY <1>1 DEF Alike

LEMMA AlikeChained ==
    ASSUME NEW s, NEW t, NEW u, Alike(s, t), Alike(t, u)
    PROVE  Alike(s, u)
<1>1. SameReadings(s.assessments, u.assessments)
  BY DEF Alike, SameReadings, SameReading
<1> QED
  BY <1>1 DEF Alike

LEMMA AlikeUnstamped ==
    ASSUME NEW s, NEW t, Alike(s, t)
    PROVE  Unstamped(s) = Unstamped(t)
<1> DEFINE Bare(a) == IF a.producedBy = "llm" THEN [a EXCEPT !.at = 0] ELSE a
<1>1. \A a, b : Assessed(a) /\ Assessed(b) /\ SameReading(a, b) => Bare(a) = Bare(b)
  BY DEF Assessed, SameReading
<1>2. SameReadings(s.assessments, t.assessments)
  BY DEF Alike
<1> DEFINE A == {Bare(a) : a \in s.assessments}  B == {Bare(a) : a \in t.assessments}
<1> HIDE DEF Bare
<1>3. A = B
  BY <1>1, <1>2 DEF SameReadings
<1>4. Unstamped(s) = [s EXCEPT !.assessments = A] /\ Unstamped(t) = [t EXCEPT !.assessments = B]
  BY DEF Unstamped, Bare
<1> HIDE DEF A, B
<1> QED
  BY <1>3, <1>4 DEF Alike, Shaped

LEMMA UpsertOfAlike ==
    ASSUME NEW A, NEW B, NEW C, NEW D, SameReadings(A, B), SameReadings(C, D)
    PROVE  SameReadings(Upsert(A, C), Upsert(B, D))
<1>1. ASSUME NEW a \in Upsert(A, C) PROVE Assessed(a) /\ \E b \in Upsert(B, D) : SameReading(a, b)
  <2>1. CASE a \in C
    BY <2>1 DEF Upsert, SameReadings
  <2>2. CASE a \in A /\ \A c \in C : c.id # a.id
    <3>1. PICK b \in B : SameReading(a, b)
      BY <2>2 DEF SameReadings
    <3>2. \A d \in D : d.id # b.id
      BY <2>2, <3>1 DEF SameReadings, SameReading
    <3> QED
      BY <2>2, <3>1, <3>2 DEF Upsert, SameReadings
  <2> QED
    BY <1>1, <2>1, <2>2 DEF Upsert
<1>2. ASSUME NEW b \in Upsert(B, D) PROVE Assessed(b) /\ \E a \in Upsert(A, C) : SameReading(a, b)
  <2>1. CASE b \in D
    BY <2>1 DEF Upsert, SameReadings
  <2>2. CASE b \in B /\ \A c \in D : c.id # b.id
    <3>1. PICK a \in A : SameReading(a, b)
      BY <2>2 DEF SameReadings
    <3>2. \A d \in C : d.id # a.id
      BY <2>2, <3>1 DEF SameReadings, SameReading
    <3> QED
      BY <2>2, <3>1, <3>2 DEF Upsert, SameReadings
  <2> QED
    BY <1>2, <2>1, <2>2 DEF Upsert
<1> QED
  BY <1>1, <1>2 DEF SameReadings

LEMMA MovedAlike ==
    ASSUME NEW s, NEW t, Alike(s, t), NEW n
    PROVE  Alike([s EXCEPT !.node = n], [t EXCEPT !.node = n])
BY DEF Alike, Shaped

LEMMA DerivedAlike ==
    ASSUME NEW s, NEW t, Alike(s, t)
    PROVE  Alike(Derived(s), Derived(t))
<1> DEFINE ps == s.predictions \o DerivePredictions(s.hypotheses, s.predictions)
<1>1. /\ Derived(s) = [s EXCEPT !.predictions = ps, !.node = "plan_investigation"]
      /\ Derived(t) = [t EXCEPT !.predictions = ps, !.node = "plan_investigation"]
  BY DEF Derived, Alike
<1> HIDE DEF ps
<1> QED
  BY <1>1 DEF Alike, Shaped

LEMMA WithPlanAlike ==
    ASSUME NEW s, NEW t, Alike(s, t)
    PROVE  Alike(WithPlan(s), WithPlan(t))
<1> DEFINE ts == s.tests \o PlanInvestigation(s.predictions, s.tests)
           n == s.laps + 1
<1>1. /\ WithPlan(s) = [s EXCEPT !.tests = ts, !.laps = n, !.node = "execute_investigation"]
      /\ WithPlan(t) = [t EXCEPT !.tests = ts, !.laps = n, !.node = "execute_investigation"]
  BY DEF WithPlan, Alike
<1> HIDE DEF ts, n
<1> DEFINE u == WithPlan(s)
           v == WithPlan(t)
<1>2. /\ u.node = v.node /\ u.hypotheses = v.hypotheses
      /\ u.predictions = v.predictions /\ u.tests = v.tests
      /\ u.trials = v.trials /\ u.evidence = v.evidence
      /\ u.laps = v.laps /\ u.rounds = v.rounds
      /\ u.assessments = s.assessments /\ v.assessments = t.assessments
  BY <1>1 DEF Alike, Shaped
<1>3. Shaped(u) /\ Shaped(v)
  <2>1. ASSUME NEW x, Shaped(x), NEW y,
               y = [x EXCEPT !.tests = ts, !.laps = n, !.node = "execute_investigation"]
        PROVE  Shaped(y)
    <3> DEFINE a == [x EXCEPT !.tests = ts]
               b == [a EXCEPT !.laps = n]
               c == [b EXCEPT !.node = "execute_investigation"]
    <3>0. y = c
      BY <2>1
    <3>1. Shaped(a)
      BY <2>1 DEF Shaped
    <3> HIDE DEF a
    <3>2. Shaped(b)
      BY <3>1 DEF Shaped
    <3> HIDE DEF b
    <3>3. Shaped(c)
      BY <3>2 DEF Shaped
    <3> HIDE DEF c
    <3> QED
      BY <3>0, <3>3
  <2>2. Shaped(s) /\ Shaped(t)
    BY DEF Alike
  <2>3. /\ u = [s EXCEPT !.tests = ts, !.laps = n, !.node = "execute_investigation"]
        /\ v = [t EXCEPT !.tests = ts, !.laps = n, !.node = "execute_investigation"]
    BY <1>1
  <2> HIDE DEF u, v
  <2> QED
    BY <2>1, <2>2, <2>3
<1> HIDE DEF u, v
<1>4. Alike(u, v)
  BY <1>2, <1>3 DEF Alike
<1> QED
  BY <1>4 DEF u, v

LEMMA EvaluatedAlike ==
    ASSUME NEW s, NEW t, Alike(s, t), NEW cut
    PROVE  Alike(Evaluated(s, cut), Evaluated(t, cut))
<1> DEFINE read == ReadAt(DOMAIN s.evidence, cut)
           now == EvaluatedAssessments(s.predictions, read, cut)
<1>1. SameReadings(now, now)
  <2>1. \A a \in now : Assessed(a)
    BY DEF EvaluatedAssessments, RuleAssessments, Assessed
  <2> HIDE DEF now
  <2> QED
    BY <2>1 DEF SameReadings, SameReading
<1>2. SameReadings(Upsert(s.assessments, now), Upsert(t.assessments, now))
  BY <1>1, UpsertOfAlike DEF Alike
<1> DEFINE u == Upsert(s.assessments, now)  v == Upsert(t.assessments, now)
           ps == EvaluatedPredictions(s.predictions, read)
<1>3. /\ Evaluated(s, cut) = [s EXCEPT !.predictions = ps, !.assessments = u,
                                       !.node = "interpret_residual_evidence"]
      /\ Evaluated(t, cut) = [t EXCEPT !.predictions = ps, !.assessments = v,
                                       !.node = "interpret_residual_evidence"]
  BY DEF Evaluated, Alike
<1>4. (\A a \in u : Assessed(a)) /\ \A a \in v : Assessed(a)
  BY <1>2 DEF SameReadings
<1>5. SameReadings(u, v)
  BY <1>2
<1> HIDE DEF u, v, ps
<1>6. /\ Shaped(Evaluated(s, cut)) /\ Shaped(Evaluated(t, cut))
      /\ Evaluated(s, cut).assessments = u /\ Evaluated(t, cut).assessments = v
      /\ Evaluated(s, cut).node = Evaluated(t, cut).node
      /\ Evaluated(s, cut).predictions = Evaluated(t, cut).predictions
  BY <1>3, <1>4 DEF Alike, Shaped
<1>7. /\ Evaluated(s, cut).hypotheses = s.hypotheses
      /\ Evaluated(s, cut).tests = s.tests /\ Evaluated(s, cut).trials = s.trials
      /\ Evaluated(s, cut).evidence = s.evidence
      /\ Evaluated(s, cut).laps = s.laps /\ Evaluated(s, cut).rounds = s.rounds
  BY <1>3 DEF Alike, Shaped
<1>8. /\ Evaluated(t, cut).hypotheses = t.hypotheses
      /\ Evaluated(t, cut).tests = t.tests /\ Evaluated(t, cut).trials = t.trials
      /\ Evaluated(t, cut).evidence = t.evidence
      /\ Evaluated(t, cut).laps = t.laps /\ Evaluated(t, cut).rounds = t.rounds
  BY <1>3 DEF Alike, Shaped
<1> QED
  BY <1>5, <1>6, <1>7, <1>8 DEF Alike

LEMMA ReferredAlike ==
    ASSUME NEW s, NEW t, Alike(s, t)
    PROVE  Alike(Referred(s), Referred(t))
<1>1. \A a : Refers(s, a) <=> Refers(t, a)
  BY DEF Alike, Refers, HypothesisIds
<1>2. \A a, b : SameReading(a, b) => (Refers(s, a) <=> Refers(s, b))
  BY DEF SameReading, Refers
<1>3. (\A a \in s.assessments : Refers(s, a)) <=> (\A a \in t.assessments : Refers(t, a))
  BY <1>1, <1>2 DEF Alike, SameReadings
<1> QED
  BY <1>3, MovedAlike DEF Referred, Failed

LEMMA InterpretedAlike ==
    ASSUME NEW s, NEW t, Alike(s, t), NEW reading, NEW x, NEW y
    PROVE  Alike(Interpreted(s, reading, x), Interpreted(t, reading, y))
<1>1. \A a : Refers(s, a) <=> Refers(t, a)
  BY DEF Alike, Refers, HypothesisIds
<1>2. \A a : NoRuleHolds(s, a) <=> NoRuleHolds(t, a)
  BY DEF Alike, SameReadings, SameReading, NoRuleHolds
<1>3. CASE \A a \in reading : Refers(s, a) /\ NoRuleHolds(s, a)
  <2>1. SameReadings(Stamped(reading, x), Stamped(reading, y))
    <3> DEFINE At(a, time) ==
                 [id |-> a.id, evidence |-> a.evidence, hypothesis |-> a.hypothesis,
                  prediction |-> a.prediction, effect |-> a.effect,
                  strength |-> a.strength, producedBy |-> "llm", at |-> time]
    <3>1. \A a : /\ Assessed(At(a, x)) /\ Assessed(At(a, y))
                /\ SameReading(At(a, x), At(a, y))
      BY DEF Assessed, SameReading
    <3>2. /\ Stamped(reading, x) = {At(a, x) : a \in reading}
          /\ Stamped(reading, y) = {At(a, y) : a \in reading}
      BY DEF Stamped
    <3> HIDE DEF At
    <3> QED
      BY <3>1, <3>2 DEF SameReadings
  <2> DEFINE u == Upsert(s.assessments, Stamped(reading, x))
             v == Upsert(t.assessments, Stamped(reading, y))
  <2>2. SameReadings(u, v)
    BY <2>1, UpsertOfAlike DEF Alike
  <2>3. /\ Interpreted(s, reading, x) = [s EXCEPT !.assessments = u, !.node = "derive_hypothesis_state"]
        /\ Interpreted(t, reading, y) = [t EXCEPT !.assessments = v, !.node = "derive_hypothesis_state"]
    BY <1>1, <1>2, <1>3 DEF Interpreted
  <2>4. (\A a \in u : Assessed(a)) /\ \A a \in v : Assessed(a)
    BY <2>2 DEF SameReadings
  <2> HIDE DEF u, v
  <2> QED
    BY <2>2, <2>3, <2>4 DEF Alike, Shaped
<1>4. CASE ~ \A a \in reading : Refers(s, a) /\ NoRuleHolds(s, a)
  BY <1>1, <1>2, <1>4, MovedAlike DEF Interpreted, Failed
<1> QED
  BY <1>3, <1>4

LEMMA ChallengedAlike ==
    ASSUME NEW s, NEW t, Alike(s, t), NEW proposal
    PROVE  Alike(Challenged(s, proposal), Challenged(t, proposal))
<1>1. FreshIds(s, proposal) <=> FreshIds(t, proposal)
  BY DEF Alike, FreshIds, HypothesisIds
<1>2. CASE Discriminates(proposal) /\ FreshIds(s, proposal)
  BY <1>1, <1>2 DEF Challenged, Alike, Shaped
<1>3. CASE ~(Discriminates(proposal) /\ FreshIds(s, proposal))
  BY <1>1, <1>3, MovedAlike DEF Challenged, Failed
<1> QED
  BY <1>2, <1>3

LEMMA WithTrialAlike ==
    ASSUME NEW s, NEW t, Alike(s, t), NEW i, NEW answer
    PROVE  /\ Planned(s) = Planned(t) /\ NextTest(s) = NextTest(t)
           /\ TrialKey(s) = TrialKey(t)
           /\ \A test : TrialOf(s, test, answer) = TrialOf(t, test, answer)
           /\ Alike(WithTrial(s, i, answer), WithTrial(t, i, answer))
<1>1. Planned(s) = Planned(t) /\ NextTest(s) = NextTest(t)
  BY DEF Alike, Planned, NextTest
<1>2. \A test : Attempt(s, test) = Attempt(t, test)
  BY DEF Alike, Attempt
<1>3. TrialKey(s) = TrialKey(t)
  BY <1>1, <1>2 DEF TrialKey, Alike
<1>4. \A test : TrialOf(s, test, answer) = TrialOf(t, test, answer)
  BY <1>2 DEF TrialOf, NewEvidence, Alike
<1> DEFINE trial == TrialOf(s, s.tests[i], answer)
           credited == Credited(trial)
<1>5. WithTrial(s, i, answer) = [s EXCEPT !.tests[i].status = StatusOf(answer),
              !.trials = @ \cup {trial}, !.evidence = Extended(@, credited)]
  BY DEF WithTrial
<1>6. WithTrial(t, i, answer) = [t EXCEPT !.tests[i].status = StatusOf(answer),
              !.trials = @ \cup {trial}, !.evidence = Extended(@, credited)]
  BY <1>4 DEF WithTrial, Alike
<1> DEFINE ts == [s.tests EXCEPT ![i].status = StatusOf(answer)]
           us == s.trials \cup {trial}
           es == Extended(s.evidence, credited)
<1> HIDE DEF trial, credited
<1>7. /\ WithTrial(s, i, answer) = [s EXCEPT !.tests = ts, !.trials = us, !.evidence = es]
      /\ WithTrial(t, i, answer) = [t EXCEPT !.tests = ts, !.trials = us, !.evidence = es]
  <2> DEFINE v == StatusOf(answer)
  <2> HIDE DEF v
  <2> QED
    BY <1>5, <1>6 DEF Alike, Shaped, v
<1> HIDE DEF ts, us, es
<1>8. Alike(WithTrial(s, i, answer), WithTrial(t, i, answer))
  BY <1>7 DEF Alike, Shaped
<1> QED
  BY <1>1, <1>3, <1>4, <1>8

-----------------------------------------------------------------------------
(* What holds of every state of an investigation. *)

TestStatus == {"planned", "executed", "unavailable", "failed"}
Test == [id : Chosen \cup Plannable, request : Asked, status : TestStatus]

\* A test's id is a hash of its request, or somebody made it up.
Named(t) == t.id \in Chosen \/ t.id = t.request

Tested(tests, trials) ==
    /\ tests \in Seq(Test)
    /\ \A i \in DOMAIN tests : Named(tests[i])
    /\ \A i, j \in DOMAIN tests : tests[i].id = tests[j].id => i = j
    /\ \A i, j \in DOMAIN tests :
          i < j /\ tests[i].request = tests[j].request => tests[j].id # tests[j].request
    /\ \A t \in trials : \E i \in DOMAIN tests :
          /\ tests[i].id = t.test
          /\ tests[i].status # "planned"
          /\ tests[i].status = StatusOf(t)
    /\ \A i \in DOMAIN tests :
          tests[i].status # "planned" => \E t \in trials : t.test = tests[i].id
    /\ \A t, u \in trials : t.test = u.test => t = u

Believed(hypotheses, predictions) ==
    /\ hypotheses \in Seq(Hypothesis)
    /\ \A i, j \in DOMAIN hypotheses : hypotheses[i].id = hypotheses[j].id => i = j
    /\ predictions \in Seq(Prediction)
    /\ \A i, j \in DOMAIN predictions :
          PredictionId(predictions[i]) = PredictionId(predictions[j]) => i = j

\* New tests that keep the tests in order.
Fits(tests, more) ==
    /\ more \in Seq(Test)
    /\ \A i \in DOMAIN more :
          /\ Named(more[i]) /\ more[i].status = "planned"
          /\ \A j \in DOMAIN tests : tests[j].id # more[i].id
          /\ more[i].id = more[i].request =>
                \A j \in DOMAIN tests : tests[j].request # more[i].request
    /\ \A i, j \in DOMAIN more : i # j => more[i].id # more[j].id
    /\ \A i, j \in DOMAIN more :
          i < j /\ more[i].request = more[j].request => more[j].id # more[j].request

LEMMA TestsAreAdded ==
    ASSUME NEW tests, NEW trials, Tested(tests, trials), NEW more, Fits(tests, more)
    PROVE  Tested(tests \o more, trials)
<1> DEFINE all == tests \o more
           n == Len(tests)
<1>1. /\ tests \in Seq(Test) /\ more \in Seq(Test)
      /\ n \in Nat /\ DOMAIN tests = 1..n /\ DOMAIN more = 1..Len(more) /\ Len(more) \in Nat
  BY DEF Tested, Fits
<1>2. all \in Seq(Test) /\ DOMAIN all = 1..(n + Len(more))
  BY <1>1
<1>3. /\ \A i \in DOMAIN tests : i \in DOMAIN all /\ all[i] = tests[i]
      /\ \A i \in DOMAIN all :
            \/ i \in DOMAIN tests /\ all[i] = tests[i]
            \/ i > n /\ i - n \in DOMAIN more /\ all[i] = more[i - n]
  BY <1>1
<1> HIDE DEF all, n
<1>4. \A i \in DOMAIN all : Named(all[i])
  BY <1>3 DEF Tested, Fits
<1>5. \A i, j \in DOMAIN all : all[i].id = all[j].id => i = j
  <2> TAKE i, j \in DOMAIN all
  <2> HAVE all[i].id = all[j].id
  <2>1. CASE i \in DOMAIN tests /\ j \in DOMAIN tests
    BY <2>1, <1>3, <1>1 DEF Tested
  <2>2. CASE i > n /\ i - n \in DOMAIN more /\ j \in DOMAIN tests
    BY <2>2, <1>3, <1>1 DEF Fits
  <2>3. CASE j > n /\ j - n \in DOMAIN more /\ i \in DOMAIN tests
    BY <2>3, <1>3, <1>1 DEF Fits
  <2>4. CASE i > n /\ i - n \in DOMAIN more /\ j > n /\ j - n \in DOMAIN more
    <3>1. all[i] = more[i - n] /\ all[j] = more[j - n]
      BY <2>4, <1>3, <1>1
    <3>2. i - n = j - n
      BY <3>1, <2>4 DEF Fits
    <3> QED
      BY <3>2, <1>1, <1>2
  <2> QED
    BY <2>1, <2>2, <2>3, <2>4, <1>3
<1>6. \A i, j \in DOMAIN all :
         i < j /\ all[i].request = all[j].request => all[j].id # all[j].request
  <2> TAKE i, j \in DOMAIN all
  <2> HAVE i < j /\ all[i].request = all[j].request
  <2>1. CASE i \in DOMAIN tests /\ j \in DOMAIN tests
    BY <2>1, <1>3, <1>1 DEF Tested
  <2>2. CASE i > n /\ i - n \in DOMAIN more /\ j \in DOMAIN tests
    BY <2>2, <1>1, <1>2
  <2>3. CASE j > n /\ j - n \in DOMAIN more /\ i \in DOMAIN tests
    BY <2>3, <1>3, <1>1 DEF Fits
  <2>4. CASE i > n /\ i - n \in DOMAIN more /\ j > n /\ j - n \in DOMAIN more
    <3>1. all[i] = more[i - n] /\ all[j] = more[j - n] /\ i - n < j - n
      BY <2>4, <1>3, <1>1, <1>2
    <3> QED
      BY <3>1, <2>4 DEF Fits
  <2> QED
    BY <2>1, <2>2, <2>3, <2>4, <1>3
<1>7. \A t \in trials : \E i \in DOMAIN all :
         all[i].id = t.test /\ all[i].status # "planned" /\ all[i].status = StatusOf(t)
  <2> TAKE t \in trials
  <2>1. PICK i \in DOMAIN tests : /\ tests[i].id = t.test /\ tests[i].status # "planned"
                                  /\ tests[i].status = StatusOf(t)
    BY DEF Tested
  <2> QED
    BY <2>1, <1>3
<1>8. \A i \in DOMAIN all : all[i].status # "planned" => \E t \in trials : t.test = all[i].id
  BY <1>3 DEF Tested, Fits
<1> QED
  BY <1>2, <1>4, <1>5, <1>6, <1>7, <1>8 DEF Tested, all

LEMMA PlanFits ==
    ASSUME NEW tests, NEW trials, Tested(tests, trials),
           NEW predictions \in Seq(Prediction)
    PROVE  Fits(tests, PlanInvestigation(predictions, tests))
<1> DEFINE plan == PlanInvestigation(predictions, tests)
<1>1. /\ plan \in Seq(PlannedTest)
      /\ \A i \in DOMAIN plan : plan[i].id = plan[i].request /\ plan[i].request \notin Carried(tests)
      /\ \A i, j \in DOMAIN plan : plan[i].request = plan[j].request => i = j
  BY PlansAreNew
<1> HIDE DEF plan
<1>2. PlannedTest \subseteq Test
  BY DEF PlannedTest, Test, Asked, TestStatus
<1>3. plan \in Seq(Test) /\ \A i \in DOMAIN plan : plan[i] \in PlannedTest /\ i \in Nat
  BY <1>1, <1>2
<1>4. \A i \in DOMAIN plan : plan[i].id \in Plannable /\ plan[i].status = "planned"
  BY <1>3 DEF PlannedTest
<1>5. \A i \in DOMAIN plan : \A j \in DOMAIN tests : tests[j].request # plan[i].request
  BY <1>1 DEF Carried
<1>6. \A i \in DOMAIN plan : \A j \in DOMAIN tests : tests[j].id # plan[i].id
  <2>1. \A i \in DOMAIN plan : plan[i].id \notin Chosen
    BY <1>4, ChosenAssumption DEF Asked
  <2> QED
    BY <2>1, <1>1, <1>5 DEF Tested, Named
<1>7. \A i, j \in DOMAIN plan : i < j => i # j
  BY <1>3
<1> QED
  BY <1>1, <1>3, <1>4, <1>5, <1>6, <1>7 DEF Fits, Named, plan

LEMMA ProposalFits ==
    ASSUME NEW s, NEW proposal \in Answerable(s), FreshIds(s, proposal)
    PROVE  Fits(s.tests, proposal.tests)
<1> DEFINE more == proposal.tests
<1>1. more \in Seq([id : Chosen \cup Plannable, request : Asked, status : {"planned"}])
  BY ProposalsAssumption DEF Answerable
<1>2. [id : Chosen \cup Plannable, request : Asked, status : {"planned"}] \subseteq Test
  BY DEF Test, TestStatus
<1>3. \A i \in DOMAIN more : more[i].id \in Chosen
  BY DEF Answerable, FreshIds
<1>4. \A i \in DOMAIN more : /\ \A j \in DOMAIN s.tests : s.tests[j].id # more[i].id
                             /\ \A j \in DOMAIN more : i # j => more[i].id # more[j].id
  BY DEF FreshIds
<1> HIDE DEF more
<1>5. more \in Seq(Test) /\ \A i \in DOMAIN more : more[i].status = "planned" /\ more[i].request \in Asked
  <2> DEFINE T == [id : Chosen \cup Plannable, request : Asked, status : {"planned"}]
  <2>1. more \in Seq(T) /\ T \subseteq Test
    BY <1>1, <1>2
  <2>2. \A t \in T : t.status = "planned" /\ t.request \in Asked
    OBVIOUS
  <2> HIDE DEF T
  <2> QED
    BY <2>1, <2>2
<1>6. \A i \in DOMAIN more : more[i].id # more[i].request
  BY <1>3, <1>5, ChosenAssumption
<1> QED
  BY <1>3, <1>4, <1>5, <1>6 DEF Fits, Named, more

LEMMA BeliefsAreAdded ==
    ASSUME NEW hypotheses, NEW predictions, Believed(hypotheses, predictions)
    PROVE  LET new == DerivePredictions(hypotheses, predictions)
           IN  /\ Believed(hypotheses, predictions \o new)
               /\ new \in Seq(Prediction)
               /\ \A i \in DOMAIN new : new[i].status = "untested"
<1> DEFINE new == DerivePredictions(hypotheses, predictions)
           all == predictions \o new
           n == Len(predictions)
<1>1. /\ new \in Seq(Prediction)
      /\ \A i \in DOMAIN new :
            /\ new[i].status = "untested"
            /\ \A j \in DOMAIN predictions : predictions[j].hypothesis # new[i].hypothesis
      /\ \A i, j \in DOMAIN new : PredictionId(new[i]) = PredictionId(new[j]) => i = j
  BY PredictionsAreNew DEF Believed
<1> HIDE DEF new
<1>2. /\ predictions \in Seq(Prediction) /\ n \in Nat /\ DOMAIN predictions = 1..n
      /\ DOMAIN new = 1..Len(new) /\ Len(new) \in Nat
  BY <1>1 DEF Believed
<1>3. all \in Seq(Prediction) /\ DOMAIN all = 1..(n + Len(new))
  BY <1>1, <1>2
<1>4. \A i \in DOMAIN all :
            \/ i \in DOMAIN predictions /\ all[i] = predictions[i]
            \/ i > n /\ i - n \in DOMAIN new /\ all[i] = new[i - n]
  BY <1>1, <1>2
<1> HIDE DEF all, n
<1>5. \A i, j \in DOMAIN all : PredictionId(all[i]) = PredictionId(all[j]) => i = j
  <2> TAKE i, j \in DOMAIN all
  <2> HAVE PredictionId(all[i]) = PredictionId(all[j])
  <2>0. all[i].hypothesis = all[j].hypothesis
    BY DEF PredictionId
  <2>1. CASE i \in DOMAIN predictions /\ j \in DOMAIN predictions
    BY <2>1, <1>4, <1>2 DEF Believed
  <2>2. CASE i > n /\ i - n \in DOMAIN new /\ j \in DOMAIN predictions
    BY <2>2, <2>0, <1>4, <1>2, <1>1
  <2>3. CASE j > n /\ j - n \in DOMAIN new /\ i \in DOMAIN predictions
    BY <2>3, <2>0, <1>4, <1>2, <1>1
  <2>4. CASE i > n /\ i - n \in DOMAIN new /\ j > n /\ j - n \in DOMAIN new
    <3>1. all[i] = new[i - n] /\ all[j] = new[j - n]
      BY <2>4, <1>4, <1>2
    <3>2. i - n = j - n
      BY <3>1, <2>4, <1>1
    <3> QED
      BY <3>2, <1>2, <1>3
  <2> QED
    BY <2>1, <2>2, <2>3, <2>4, <1>4
<1> QED
  BY <1>1, <1>3, <1>5 DEF Believed, all, new

\* What a rule's assessment of a decided prediction rests on.
Rests(p, a, cut) ==
    LET Value == {Seen(f) : f \in {g \in Evidence[a.evidence].facts :
                                      g.of = p.ifTrue[1].of}}
    IN  /\ Evidence[a.evidence].observedAt <= cut
        /\ \A v \in Value : v # "absent" \/
              \E f \in Evidence[a.evidence].facts :
                  /\ f.of = p.ifTrue[1].of
                  /\ "count" \in DOMAIN f
                  /\ f.count = 0 /\ f.coverage = "complete"
        /\ p.status = "confirmed" =>
              a.effect = "supports" /\ p.ifTrue[1].value \in Value
        /\ p.status = "refuted" =>
              a.effect = "contradicts" /\ Value \ {p.ifTrue[1].value, "unknown"} # {}

\* A rule's assessment is of a decided prediction, under the id of the two.
Judged(predictions, assessments, cut) ==
    /\ \A a \in assessments : a.producedBy = "rule" =>
          /\ a.id = <<a.prediction, a.evidence>>
          /\ \E i \in DOMAIN predictions :
                /\ a.prediction = PredictionId(predictions[i])
                /\ a.hypothesis = predictions[i].hypothesis
                /\ Decided(predictions[i])
                /\ Rests(predictions[i], a, cut)
    /\ \A i \in DOMAIN predictions : Decided(predictions[i]) =>
          \E a \in assessments :
              a.producedBy = "rule" /\ a.prediction = PredictionId(predictions[i])

LEMMA SeenIs ==
    ASSUME NEW e \in DOMAIN Evidence, NEW f \in Evidence[e].facts, Seen(f) = "absent"
    PROVE  "count" \in DOMAIN f /\ f.count = 0 /\ f.coverage = "complete"
<1>1. CASE "state" \in DOMAIN f /\ f.state \in {"normal", "elevated", "at-limit"}
  BY <1>1 DEF Seen
<1>2. CASE /\ {"state", "count", "coverage"} \cap DOMAIN f = {"count", "coverage"}
           /\ f.count \in Nat
  BY <1>2 DEF Seen
<1> QED
  BY <1>1, <1>2, EvidenceAssumption

LEMMA FactVerdictIs ==
    ASSUME NEW o, NEW f, o.value # "unknown"
    PROVE  /\ FactVerdict(o, f) = "holds" <=> Seen(f) = o.value
           /\ FactVerdict(o, f) = "unknown" <=> Seen(f) = "unknown"
           /\ FactVerdict(o, f) = "contradicts" <=>
                 Seen(f) # "unknown" /\ Seen(f) # o.value
BY DEF FactVerdict

\* What a verdict is given by.
LEMMA VerdictsRest ==
    ASSUME NEW p \in Prediction, ~Decided(p), NEW items, NEW cut,
           NEW v, v = Verdict(p, ReadAt(items, cut)),
           items \subseteq DOMAIN Evidence
    PROVE  /\ v.status \in PredictionStatus
           /\ v.by # {} <=> v.status \in {"confirmed", "refuted"}
           /\ \A a \in RuleAssessments(p, v, cut) :
                 Rests([p EXCEPT !.status = v.status], a, cut)
<1>1. PICK h \in Explained :
          \E t \in Range(Templates(h)), x \in PredictionStatus : p = PredictionOf(h, t, x)
  BY PredictionIs
<1>2. PICK t \in Range(Templates(h)), x \in PredictionStatus : p = PredictionOf(h, t, x)
  BY <1>1
<1> DEFINE q == Measure(h, t)
           yes == [of |-> q, value |-> t.ifTrue]
           no == [of |-> q, value |-> t.ifFalse]
           read == ReadAt(items, cut)
<1>3. /\ t.ifTrue # t.ifFalse /\ t.ifTrue # "unknown" /\ t.ifFalse # "unknown"
  <2>1. PICK i \in DOMAIN Templates(h) : t = Templates(h)[i]
    BY DEF Range
  <2>2. h.cause.mechanism \in DOMAIN PREDICTION_TEMPLATES
    BY DEF Explained
  <2> QED
    BY <2>1, <2>2, TemplatesDiffer DEF Templates
<1>4. p.ifTrue = <<yes>> /\ p.ifFalse = <<no>> /\ p.status = x
  BY <1>2 DEF PredictionOf
<1>5. read \subseteq DOMAIN Evidence /\ \A e \in read : Evidence[e].observedAt <= cut
  BY DEF ReadAt
<1> HIDE DEF read
<1>6. /\ \A verdict : Every(verdict, p.ifTrue, read) = Showing(verdict, yes, read)
      /\ \A verdict : Every(verdict, p.ifFalse, read) = Showing(verdict, no, read)
  <2> HIDE DEF yes, no
  <2> QED
    BY <1>4 DEF Every
<1> DEFINE On(o, e) == {Seen(f) : f \in {g \in Evidence[e].facts : g.of = o.of}}
<1>7. /\ \A e \in Showing("holds", yes, read) : e \in read /\ t.ifTrue \in On(yes, e)
      /\ \A e \in Showing("holds", no, read) : e \in read /\ t.ifFalse \in On(yes, e)
      /\ \A e \in Showing("contradicts", yes, read) :
            e \in read /\ On(yes, e) \ {t.ifTrue, "unknown"} # {}
  <2>1. yes.of = q /\ no.of = q /\ yes.value = t.ifTrue /\ no.value = t.ifFalse
    OBVIOUS
  <2> HIDE DEF yes, no, q
  <2>2. \A f : FactVerdict(yes, f) = "holds" => Seen(f) = t.ifTrue
    BY <2>1, <1>3, FactVerdictIs
  <2>3. \A f : FactVerdict(no, f) = "holds" => Seen(f) = t.ifFalse
    BY <2>1, <1>3, FactVerdictIs
  <2>4. \A f : FactVerdict(yes, f) = "contradicts" => Seen(f) \notin {t.ifTrue, "unknown"}
    BY <2>1, <1>3, FactVerdictIs
  <2> QED
    BY <2>1, <2>2, <2>3, <2>4 DEF Showing
<1> DEFINE refuting == Showing("holds", no, read)
           denying == Showing("contradicts", yes, read)
           holding == Showing("holds", yes, read)
<1> HIDE DEF On, yes, no
<1>8. \/ v.status \notin {"confirmed", "refuted"} /\ v.status \in PredictionStatus /\ v.by = {}
      \/ v.status = "refuted" /\ v.by = refuting /\ refuting # {}
      \/ v.status = "refuted" /\ v.by = denying /\ denying # {}
      \/ v.status = "confirmed" /\ v.by = holding /\ holding # {}
  <2>1. x \notin {"confirmed", "refuted"} /\ p.status = x
    BY <1>4 DEF Decided
  <2>2. p.ifTrue # <<>> /\ DOMAIN p.ifTrue = {1} /\ p.ifTrue[1] = yes
    BY <1>4
  <2> HIDE DEF refuting, denying, holding
  <2>3. Every("holds", p.ifFalse, read) = refuting /\ Every("contradicts", p.ifTrue, read) = denying
        /\ Every("holds", p.ifTrue, read) = holding
    BY <1>6 DEF refuting, denying, holding
  <2>4. (\A i \in DOMAIN p.ifTrue : Showing("holds", p.ifTrue[i], read) # {}) <=> holding # {}
    BY <2>2 DEF holding
  <2>5. v = Verdict(p, read)
    BY DEF read
  <2> QED
    BY <2>1, <2>2, <2>3, <2>4, <2>5 DEF Verdict, Untestable, Refuted, PredictionStatus
<1>9. ASSUME NEW a \in RuleAssessments(p, v, cut)
      PROVE  Rests([p EXCEPT !.status = v.status], a, cut)
  <2> DEFINE d == [p EXCEPT !.status = v.status]
             e == a.evidence
  <2>1. d.ifTrue = <<yes>> /\ d.status = v.status /\ d.ifTrue[1].of = q /\ d.ifTrue[1].value = t.ifTrue
    BY <1>2, <1>4 DEF PredictionOf, yes
  <2>2. e \in v.by /\ a.effect = IF v.status = "confirmed" THEN "supports" ELSE "contradicts"
    BY <1>9 DEF RuleAssessments
  <2>3. e \in read /\ e \in DOMAIN Evidence /\ Evidence[e].observedAt <= cut
    BY <1>5, <1>7, <1>8, <2>2
  <2> DEFINE Value == {Seen(f) : f \in {g \in Evidence[e].facts : g.of = q}}
  <2>4. \A w \in Value : w # "absent" \/
              \E f \in Evidence[e].facts :
                  f.of = q /\ "count" \in DOMAIN f /\ f.count = 0 /\ f.coverage = "complete"
    BY <2>3, SeenIs
  <2>5. Value = On(yes, e)
    BY DEF On, yes
  <2> HIDE DEF Value, q
  <2>6. v.status = "confirmed" => a.effect = "supports" /\ t.ifTrue \in Value
    BY <2>2, <2>5, <1>7, <1>8
  <2>7. v.status = "refuted" => a.effect = "contradicts" /\ Value \ {t.ifTrue, "unknown"} # {}
    BY <2>2, <2>5, <1>3, <1>7, <1>8
  <2> HIDE DEF d
  <2>8. {Seen(f) : f \in {g \in Evidence[a.evidence].facts : g.of = d.ifTrue[1].of}} = Value
    BY <2>1 DEF Value
  <2>9. Rests(d, a, cut)
    BY <2>1, <2>3, <2>4, <2>6, <2>7, <2>8 DEF Rests
  <2> QED
    BY <2>9 DEF d
<1> QED
  BY <1>8, <1>9 DEF PredictionStatus

Sound(s, cut) ==
    /\ Shaped(s)
    /\ Believed(s.hypotheses, s.predictions)
    /\ Tested(s.tests, s.trials)
    /\ OneStory(s.trials, s.evidence)
    /\ DOMAIN s.evidence \subseteq DOMAIN Evidence
    /\ Judged(s.predictions, s.assessments, cut)
    /\ s.laps \in Nat /\ s.rounds \in Nat

\* Decisions of s that t has too.
Final(s, t) ==
    \A i \in DOMAIN s.predictions : Decided(s.predictions[i]) =>
        /\ i \in DOMAIN t.predictions /\ t.predictions[i] = s.predictions[i]
        /\ \A a \in s.assessments \cup t.assessments :
              a.producedBy = "rule" /\ a.prediction = PredictionId(s.predictions[i]) =>
                  a \in s.assessments /\ a \in t.assessments

LEMMA SoundAlike ==
    ASSUME NEW s, NEW t, NEW cut, Sound(s, cut), Alike(t, s)
    PROVE  Sound(t, cut)
<1>1. \A a, b : Assessed(a) /\ Assessed(b) /\ SameReading(a, b) /\ a.producedBy = "rule" => a = b
  BY DEF Assessed, SameReading
<1>2. \A a : a.producedBy = "rule" => (a \in s.assessments <=> a \in t.assessments)
  BY <1>1 DEF Alike, SameReadings, SameReading
<1>3. Judged(t.predictions, t.assessments, cut)
  BY <1>2 DEF Judged, Sound, Alike
<1> QED
  BY <1>3 DEF Sound, Alike

LEMMA MovedSound ==
    ASSUME NEW s, NEW cut, Sound(s, cut), NEW n
    PROVE  Sound([s EXCEPT !.node = n], cut) /\ Final(s, [s EXCEPT !.node = n])
<1>1. Sound([s EXCEPT !.node = n], cut)
  BY DEF Sound, Shaped
<1>2. Final(s, [s EXCEPT !.node = n])
  BY DEF Sound, Shaped, Final
<1> QED
  BY <1>1, <1>2

LEMMA JudgedWithMore ==
    ASSUME NEW predictions \in Seq(Prediction), NEW new \in Seq(Prediction),
           \A i \in DOMAIN new : new[i].status = "untested",
           NEW assessments, NEW cut, Judged(predictions, assessments, cut)
    PROVE  /\ Judged(predictions \o new, assessments, cut)
           /\ \A i \in DOMAIN predictions :
                  i \in DOMAIN (predictions \o new) /\ (predictions \o new)[i] = predictions[i]
<1> DEFINE all == predictions \o new
           n == Len(predictions)
<1>1. /\ \A i \in DOMAIN predictions : i \in DOMAIN all /\ all[i] = predictions[i]
      /\ \A i \in DOMAIN all :
            \/ i \in DOMAIN predictions /\ all[i] = predictions[i]
            \/ i - n \in DOMAIN new /\ all[i] = new[i - n]
  OBVIOUS
<1> HIDE DEF all, n
<1>2. \A i \in DOMAIN all : Decided(all[i]) => i \in DOMAIN predictions /\ all[i] = predictions[i]
  BY <1>1 DEF Decided
<1>3. Judged(all, assessments, cut)
  <2>1. ASSUME NEW a \in assessments, a.producedBy = "rule"
        PROVE  /\ a.id = <<a.prediction, a.evidence>>
               /\ \E i \in DOMAIN all :
                     /\ a.prediction = PredictionId(all[i])
                     /\ a.hypothesis = all[i].hypothesis
                     /\ Decided(all[i])
                     /\ Rests(all[i], a, cut)
    <3>1. PICK i \in DOMAIN predictions :
                     /\ a.prediction = PredictionId(predictions[i])
                     /\ a.hypothesis = predictions[i].hypothesis
                     /\ Decided(predictions[i])
                     /\ Rests(predictions[i], a, cut)
      BY <2>1 DEF Judged
    <3>2. i \in DOMAIN all /\ all[i] = predictions[i]
      BY <1>1
    <3> QED
      BY <2>1, <3>1, <3>2 DEF Judged
  <2>2. \A i \in DOMAIN all : Decided(all[i]) =>
          \E a \in assessments : a.producedBy = "rule" /\ a.prediction = PredictionId(all[i])
    BY <1>2 DEF Judged
  <2> QED
    BY <2>1, <2>2 DEF Judged
<1> QED
  BY <1>1, <1>3 DEF all

LEMMA DerivedSound ==
    ASSUME NEW s, NEW cut, Sound(s, cut)
    PROVE  Sound(Derived(s), cut) /\ Final(s, Derived(s))
<1> DEFINE new == DerivePredictions(s.hypotheses, s.predictions)
           all == s.predictions \o new
<1>1. /\ Believed(s.hypotheses, all) /\ new \in Seq(Prediction)
      /\ \A i \in DOMAIN new : new[i].status = "untested"
  BY BeliefsAreAdded DEF Sound
<1> HIDE DEF new
<1>2. /\ Judged(all, s.assessments, cut)
      /\ \A i \in DOMAIN s.predictions : i \in DOMAIN all /\ all[i] = s.predictions[i]
  BY <1>1, JudgedWithMore DEF Sound, Believed
<1>3. Derived(s) = [s EXCEPT !.predictions = all, !.node = "plan_investigation"]
  BY DEF Derived, new
<1> HIDE DEF all
<1> DEFINE t == Derived(s)
<1>4. /\ Shaped(t) /\ t.predictions = all /\ t.hypotheses = s.hypotheses /\ t.tests = s.tests
      /\ t.trials = s.trials /\ t.evidence = s.evidence /\ t.assessments = s.assessments
      /\ t.laps = s.laps /\ t.rounds = s.rounds
  BY <1>3 DEF Sound, Shaped
<1> HIDE DEF t
<1>5. Sound(t, cut) /\ Final(s, t)
  BY <1>1, <1>2, <1>4 DEF Sound, Final
<1> QED
  BY <1>5 DEF t

LEMMA WithPlanSound ==
    ASSUME NEW s, NEW cut, Sound(s, cut)
    PROVE  Sound(WithPlan(s), cut) /\ Final(s, WithPlan(s))
<1> DEFINE all == s.tests \o PlanInvestigation(s.predictions, s.tests)
           laps == s.laps + 1
           t == WithPlan(s)
<1>1. Tested(all, s.trials)
  BY PlanFits, TestsAreAdded DEF Sound, Believed
<1>2. t = [s EXCEPT !.tests = all, !.laps = laps, !.node = "execute_investigation"]
  BY DEF WithPlan
<1>3. laps \in Nat
  BY DEF Sound
<1> HIDE DEF all, laps, t
<1>4. /\ Shaped(t) /\ t.predictions = s.predictions /\ t.hypotheses = s.hypotheses
      /\ t.tests = all /\ t.trials = s.trials /\ t.evidence = s.evidence
      /\ t.assessments = s.assessments /\ t.laps = laps /\ t.rounds = s.rounds
  BY <1>2 DEF Sound, Shaped
<1>5. Sound(t, cut) /\ Final(s, t)
  BY <1>1, <1>3, <1>4 DEF Sound, Final
<1> QED
  BY <1>5 DEF t

LEMMA ReferredSound ==
    ASSUME NEW s, NEW cut, Sound(s, cut)
    PROVE  Sound(Referred(s), cut) /\ Final(s, Referred(s))
BY MovedSound DEF Referred, Failed

LEMMA InterpretedSound ==
    ASSUME NEW s, NEW cut, Sound(s, cut), NEW reading, NEW time
    PROVE  /\ Sound(Interpreted(s, reading, time), cut)
           /\ Final(s, Interpreted(s, reading, time))
<1>1. CASE \A a \in reading : Refers(s, a) /\ NoRuleHolds(s, a)
  <2> DEFINE stamped == Stamped(reading, time)
             all == Upsert(s.assessments, stamped)
             t == Interpreted(s, reading, time)
  <2>1. /\ \A a \in stamped : a.producedBy = "llm" /\ Assessed(a)
        /\ \A a \in stamped : \E b \in reading : a.id = b.id
    BY DEF Stamped, Assessed
  <2> HIDE DEF stamped
  <2>2. \A a : a.producedBy = "rule" => (a \in all <=> a \in s.assessments)
    BY <2>1, <1>1 DEF Upsert, NoRuleHolds
  <2>3. \A a \in all : Assessed(a)
    BY <2>1 DEF Upsert, Sound, Shaped
  <2>4. Judged(s.predictions, all, cut)
    <3> HIDE DEF all
    <3> QED
      BY <2>2 DEF Judged, Sound
  <2>5. t = [s EXCEPT !.assessments = all, !.node = "derive_hypothesis_state"]
    BY <1>1 DEF Interpreted, stamped
  <2> HIDE DEF all, t
  <2>6. /\ Shaped(t) /\ t.predictions = s.predictions /\ t.hypotheses = s.hypotheses
        /\ t.tests = s.tests /\ t.trials = s.trials /\ t.evidence = s.evidence
        /\ t.assessments = all /\ t.laps = s.laps /\ t.rounds = s.rounds
    BY <2>3, <2>5 DEF Sound, Shaped
  <2>7. Sound(t, cut) /\ Final(s, t)
    BY <2>2, <2>4, <2>6 DEF Sound, Final
  <2> QED
    BY <2>7 DEF t
<1>2. CASE ~ \A a \in reading : Refers(s, a) /\ NoRuleHolds(s, a)
  BY <1>2, MovedSound DEF Interpreted, Failed
<1> QED
  BY <1>1, <1>2

LEMMA ChallengedSound ==
    ASSUME NEW s, NEW cut, Sound(s, cut), NEW proposal \in Answerable(s)
    PROVE  Sound(Challenged(s, proposal), cut) /\ Final(s, Challenged(s, proposal))
<1>1. CASE Discriminates(proposal) /\ FreshIds(s, proposal)
  <2> DEFINE hypotheses == Append(s.hypotheses, proposal.alternative)
             new == DerivePredictions(hypotheses, s.predictions)
             predictions == s.predictions \o new
             tests == s.tests \o proposal.tests
             all == tests \o PlanInvestigation(predictions, tests)
             rounds == s.rounds + 1
             t == Challenged(s, proposal)
  <2>1. Believed(hypotheses, s.predictions)
    <3>1. proposal.alternative \in Hypothesis
      <4>1. proposal \in Proposals
        BY DEF Answerable
      <4>2. proposal.alternative \in {p.alternative : p \in Proposals}
        BY <4>1
      <4> QED
        BY <4>2 DEF Hypothesis
    <3>2. \A i \in DOMAIN s.hypotheses : s.hypotheses[i].id # proposal.alternative.id
      <4>1. \A i \in DOMAIN s.hypotheses : s.hypotheses[i].id \in HypothesisIds(s)
        BY DEF HypothesisIds
      <4> QED
        BY <4>1, <1>1 DEF FreshIds
    <3> QED
      BY <3>1, <3>2 DEF Sound, Believed
  <2>2. /\ Believed(hypotheses, predictions) /\ new \in Seq(Prediction)
        /\ \A i \in DOMAIN new : new[i].status = "untested"
    <3> HIDE DEF hypotheses
    <3> QED
      BY <2>1, BeliefsAreAdded
  <2> HIDE DEF new, hypotheses
  <2>3. /\ Judged(predictions, s.assessments, cut)
        /\ \A i \in DOMAIN s.predictions :
              i \in DOMAIN predictions /\ predictions[i] = s.predictions[i]
    BY <2>2, JudgedWithMore DEF Sound, Believed
  <2> HIDE DEF predictions
  <2>4. Tested(tests, s.trials)
    BY <1>1, ProposalFits, TestsAreAdded DEF Sound
  <2> HIDE DEF tests
  <2>5. Tested(all, s.trials)
    BY <2>2, <2>4, PlanFits, TestsAreAdded DEF Believed
  <2>6. rounds \in Nat
    BY DEF Sound
  <2>7. t = [s EXCEPT !.hypotheses = hypotheses, !.predictions = predictions,
                      !.tests = all, !.rounds = rounds, !.node = "execute_investigation"]
    BY <1>1 DEF Challenged, hypotheses, new, predictions, tests
  <2> HIDE DEF all, rounds, t
  <2>8. /\ Shaped(t) /\ t.predictions = predictions /\ t.hypotheses = hypotheses
        /\ t.tests = all /\ t.trials = s.trials /\ t.evidence = s.evidence
        /\ t.assessments = s.assessments /\ t.laps = s.laps /\ t.rounds = rounds
    BY <2>7 DEF Sound, Shaped
  <2>9. Sound(t, cut) /\ Final(s, t)
    BY <2>2, <2>3, <2>5, <2>6, <2>8 DEF Sound, Final
  <2> QED
    BY <2>9 DEF t
<1>2. CASE ~(Discriminates(proposal) /\ FreshIds(s, proposal))
  BY <1>2, MovedSound DEF Challenged, Failed
<1> QED
  BY <1>1, <1>2

LEMMA EvaluatedJudged ==
    ASSUME NEW hypotheses, NEW predictions, Believed(hypotheses, predictions),
           NEW assessments, NEW cut, Judged(predictions, assessments, cut),
           NEW items, items \subseteq DOMAIN Evidence
    PROVE  LET read == ReadAt(items, cut)
               after == EvaluatedPredictions(predictions, read)
               now == EvaluatedAssessments(predictions, read, cut)
               all == Upsert(assessments, now)
           IN  /\ Believed(hypotheses, after)
               /\ Judged(after, all, cut)
               /\ \A a \in now : Assessed(a)
               /\ \A i \in DOMAIN predictions : Decided(predictions[i]) =>
                      /\ i \in DOMAIN after /\ after[i] = predictions[i]
                      /\ \A a \in assessments \cup all :
                            a.producedBy = "rule" /\ a.prediction = PredictionId(predictions[i])
                                => a \in assessments /\ a \in all
<1> DEFINE read == ReadAt(items, cut)
           after == EvaluatedPredictions(predictions, read)
           now == EvaluatedAssessments(predictions, read, cut)
           all == Upsert(assessments, now)
           V(i) == Verdict(predictions[i], read)
<1>0. predictions \in Seq(Prediction) /\ \A i \in DOMAIN predictions : predictions[i] \in Prediction
  BY DEF Believed
<1>1. ASSUME NEW i \in DOMAIN predictions, ~Decided(predictions[i])
      PROVE  /\ V(i).status \in PredictionStatus
             /\ V(i).by # {} <=> V(i).status \in {"confirmed", "refuted"}
             /\ \A a \in RuleAssessments(predictions[i], V(i), cut) :
                   Rests([predictions[i] EXCEPT !.status = V(i).status], a, cut)
             /\ after[i] = [predictions[i] EXCEPT !.status = V(i).status]
  <2>1. after[i] = [predictions[i] EXCEPT !.status = V(i).status]
    BY <1>1 DEF EvaluatedPredictions
  <2> DEFINE v == V(i)
  <2>2. v = Verdict(predictions[i], ReadAt(items, cut))
    OBVIOUS
  <2> HIDE DEF v
  <2>3. /\ v.status \in PredictionStatus
        /\ v.by # {} <=> v.status \in {"confirmed", "refuted"}
        /\ \A a \in RuleAssessments(predictions[i], v, cut) :
              Rests([predictions[i] EXCEPT !.status = v.status], a, cut)
    BY <1>0, <1>1, <2>2, VerdictsRest
  <2> QED
    BY <2>1, <2>3 DEF v
<1> HIDE DEF V, read
<1>2. DOMAIN after = DOMAIN predictions
      /\ \A i \in DOMAIN predictions : Decided(predictions[i]) => after[i] = predictions[i]
  BY DEF EvaluatedPredictions
<1>3. \A i \in DOMAIN predictions :
         /\ after[i] \in Prediction /\ PredictionId(after[i]) = PredictionId(predictions[i])
         /\ after[i].hypothesis = predictions[i].hypothesis
  <2> TAKE i \in DOMAIN predictions
  <2>1. CASE Decided(predictions[i])
    BY <1>0, <1>2, <2>1
  <2>2. CASE ~Decided(predictions[i])
    <3> DEFINE w == V(i).status
    <3>1. w \in PredictionStatus /\ after[i] = [predictions[i] EXCEPT !.status = w]
      BY <1>1, <2>2
    <3> HIDE DEF w, after
    <3>2. PICK h \in Explained :
              \E t \in Range(Templates(h)), x \in PredictionStatus :
                  predictions[i] = PredictionOf(h, t, x)
      BY <1>0, PredictionIs
    <3>3. PICK t \in Range(Templates(h)), x \in PredictionStatus :
              predictions[i] = PredictionOf(h, t, x)
      BY <3>2
    <3>4. /\ after[i] = PredictionOf(h, t, w)
          /\ after[i].hypothesis = predictions[i].hypothesis /\ after[i].key = predictions[i].key
      BY <3>1, <3>3 DEF PredictionOf
    <3>5. after[i] \in Prediction
      BY <3>1, <3>4 DEF Prediction
    <3> QED
      BY <3>4, <3>5 DEF PredictionId
  <2> QED
    BY <2>1, <2>2
<1>4. after \in Seq(Prediction)
  <2>1. after = [i \in DOMAIN predictions |-> after[i]]
    BY DEF EvaluatedPredictions
  <2> HIDE DEF after
  <2> QED
    BY <2>1, <1>0, <1>3
<1>5. Believed(hypotheses, after)
  <2> HIDE DEF after
  <2> QED
    BY <1>2, <1>3, <1>4 DEF Believed
<1>6. \A a : a \in now <=>
         \E i \in DOMAIN predictions :
             ~Decided(predictions[i]) /\ a \in RuleAssessments(predictions[i], V(i), cut)
  BY DEF EvaluatedAssessments, V
<1>7. \A i \in DOMAIN predictions : \A a \in RuleAssessments(predictions[i], V(i), cut) :
         /\ Assessed(a) /\ a.producedBy = "rule" /\ a.evidence \in V(i).by
         /\ a.id = <<a.prediction, a.evidence>>
         /\ a.prediction = PredictionId(predictions[i])
         /\ a.hypothesis = predictions[i].hypothesis
  BY DEF RuleAssessments, Assessed
<1> HIDE DEF after, now
<1>8. \A a \in now : \E i \in DOMAIN after :
         /\ ~Decided(predictions[i])
         /\ a.id = <<a.prediction, a.evidence>>
         /\ a.prediction = PredictionId(after[i])
         /\ a.hypothesis = after[i].hypothesis
         /\ Decided(after[i])
         /\ Rests(after[i], a, cut)
  <2> TAKE a \in now
  <2>1. PICK i \in DOMAIN predictions :
             ~Decided(predictions[i]) /\ a \in RuleAssessments(predictions[i], V(i), cut)
    BY <1>6
  <2>2. V(i).by # {} /\ a \in RuleAssessments(predictions[i], V(i), cut)
    BY <2>1, <1>7
  <2>3. after[i].status = V(i).status
    <3>1. predictions[i] \in Prediction
      BY <1>0
    <3>2. "status" \in DOMAIN predictions[i]
      BY <3>1, PredictionIs DEF PredictionOf
    <3> QED
      BY <3>2, <1>1, <2>1
  <2>4. Decided(after[i])
    BY <2>1, <2>2, <2>3, <1>1 DEF Decided
  <2>5. Rests(after[i], a, cut)
    BY <2>1, <1>1
  <2> QED
    BY <2>1, <2>4, <2>5, <1>2, <1>3, <1>7
<1>9. \A a \in all : a.producedBy = "rule" =>
         /\ a.id = <<a.prediction, a.evidence>>
         /\ \E i \in DOMAIN after :
                /\ a.prediction = PredictionId(after[i])
                /\ a.hypothesis = after[i].hypothesis
                /\ Decided(after[i])
                /\ Rests(after[i], a, cut)
  <2> TAKE a \in all
  <2> HAVE a.producedBy = "rule"
  <2>1. CASE a \in now
    BY <2>1, <1>8
  <2>2. CASE a \in assessments
    BY <2>2, <1>2, <1>3 DEF Judged
  <2> QED
    BY <2>1, <2>2 DEF Upsert
<1>10. ASSUME NEW i \in DOMAIN predictions, Decided(predictions[i]),
              NEW a, a.producedBy = "rule", a.prediction = PredictionId(predictions[i])
       PROVE  a \notin now /\ (a \in assessments <=> a \in all)
  <2>1. \A b \in now : b.prediction # a.prediction
    BY <1>10, <1>8, <1>2, <1>3 DEF Believed
  <2>2. ASSUME a \in assessments PROVE \A b \in now : b.id # a.id
    <3>1. a.id = <<a.prediction, a.evidence>>
      BY <2>2, <1>10 DEF Judged
    <3>2. \A b \in now : b.id = <<b.prediction, b.evidence>>
      BY <1>8
    <3>3. \A x, y, z, w : <<x, y>> = <<z, w>> => x = z
      OBVIOUS
    <3> QED
      BY <3>1, <3>2, <3>3, <2>1
  <2> QED
    BY <2>1, <2>2 DEF Upsert
<1>11. ASSUME NEW i \in DOMAIN after, Decided(after[i])
       PROVE  \E a \in all : a.producedBy = "rule" /\ a.prediction = PredictionId(after[i])
  <2>1. CASE Decided(predictions[i])
    <3>1. PICK a \in assessments :
              a.producedBy = "rule" /\ a.prediction = PredictionId(predictions[i])
      BY <2>1, <1>2, <1>11 DEF Judged
    <3>2. a \in all
      BY <2>1, <3>1, <1>2, <1>10
    <3> QED
      BY <3>1, <3>2, <1>2, <1>3
  <2>2. CASE ~Decided(predictions[i])
    <3>1. i \in DOMAIN predictions
      BY <1>2
    <3>2. V(i).status \in {"confirmed", "refuted"}
      <4>1. "status" \in DOMAIN predictions[i]
        BY <3>1, <1>0, PredictionIs DEF PredictionOf
      <4>2. after[i].status = V(i).status
        BY <4>1, <3>1, <2>2, <1>1
      <4> QED
        BY <4>2, <1>11 DEF Decided
    <3>3. PICK e \in V(i).by : TRUE
      BY <3>1, <3>2, <2>2, <1>1
    <3>4. PICK a : a \in RuleAssessments(predictions[i], V(i), cut)
      BY <3>3 DEF RuleAssessments
    <3>5. a \in all
      BY <3>1, <3>4, <2>2, <1>6 DEF Upsert
    <3> QED
      BY <3>1, <3>4, <3>5, <1>3, <1>7
  <2> QED
    BY <2>1, <2>2
<1>12. Judged(after, all, cut)
  BY <1>9, <1>11 DEF Judged
<1>13. \A a \in now : Assessed(a)
  BY <1>6, <1>7
<1> HIDE DEF all
<1>14. \A i \in DOMAIN predictions : Decided(predictions[i]) =>
          /\ i \in DOMAIN after /\ after[i] = predictions[i]
          /\ \A a \in assessments \cup all :
                a.producedBy = "rule" /\ a.prediction = PredictionId(predictions[i])
                    => a \in assessments /\ a \in all
  BY <1>2, <1>10
<1> QED
  BY <1>5, <1>12, <1>13, <1>14 DEF all, now, after, read

LEMMA EvaluatedSound ==
    ASSUME NEW s, NEW cut, Sound(s, cut)
    PROVE  Sound(Evaluated(s, cut), cut) /\ Final(s, Evaluated(s, cut))
<1> DEFINE read == ReadAt(DOMAIN s.evidence, cut)
           after == EvaluatedPredictions(s.predictions, read)
           now == EvaluatedAssessments(s.predictions, read, cut)
           all == Upsert(s.assessments, now)
           t == Evaluated(s, cut)
<1>1. /\ Believed(s.hypotheses, after)
      /\ Judged(after, all, cut)
      /\ \A a \in now : Assessed(a)
      /\ \A i \in DOMAIN s.predictions : Decided(s.predictions[i]) =>
             /\ i \in DOMAIN after /\ after[i] = s.predictions[i]
             /\ \A a \in s.assessments \cup all :
                   a.producedBy = "rule" /\ a.prediction = PredictionId(s.predictions[i])
                       => a \in s.assessments /\ a \in all
  BY EvaluatedJudged DEF Sound
<1>2. t = [s EXCEPT !.predictions = after, !.assessments = all,
                    !.node = "interpret_residual_evidence"]
  BY DEF Evaluated
<1> HIDE DEF after, now
<1>3. \A a \in all : Assessed(a)
  BY <1>1 DEF Upsert, Sound, Shaped
<1> HIDE DEF all, t
<1>4. /\ Shaped(t) /\ t.predictions = after /\ t.hypotheses = s.hypotheses
      /\ t.tests = s.tests /\ t.trials = s.trials /\ t.evidence = s.evidence
      /\ t.assessments = all /\ t.laps = s.laps /\ t.rounds = s.rounds
  BY <1>2, <1>3 DEF Sound, Shaped
<1>5. Sound(t, cut)
  BY <1>1, <1>4 DEF Sound
<1>6. Final(s, t)
  BY <1>1, <1>4 DEF Final
<1> QED
  BY <1>5, <1>6 DEF t

Answered(answer) ==
    answer.status \in {"ok", "unavailable", "error"} /\ answer.output \subseteq DOMAIN Evidence

LEMMA NextIsPlanned ==
    ASSUME NEW s, s.tests \in Seq(Test), Planned(s) # {}
    PROVE  NextTest(s) \in Planned(s)
<1>1. Planned(s) \subseteq Nat
  BY DEF Planned
<1>2. \E i \in Planned(s) : \A j \in Planned(s) : i <= j
  BY <1>1, LeastOf
<1> QED
  BY <1>2, Zenon DEF NextTest

LEMMA StatusIsDone ==
    ASSUME NEW answer, answer.status \in {"ok", "unavailable", "error"}
    PROVE  StatusOf(answer) \in TestStatus \ {"planned"}
BY DEF StatusOf, TestStatus

LEMMA TestsAreDone ==
    ASSUME NEW tests, NEW trials, Tested(tests, trials),
           NEW i \in DOMAIN tests, tests[i].status = "planned",
           NEW trial, trial.test = tests[i].id,
           NEW v, v = StatusOf(trial), v \in TestStatus \ {"planned"}
    PROVE  /\ Tested([tests EXCEPT ![i].status = v], trials \cup {trial})
           /\ \A t \in trials : t.test # trial.test
<1> DEFINE done == [tests EXCEPT ![i].status = v]
           all == trials \cup {trial}
<1>1. /\ tests \in Seq(Test) /\ tests[i] \in Test
  BY DEF Tested
<1>2. /\ DOMAIN done = DOMAIN tests
      /\ \A j \in DOMAIN tests : j # i => done[j] = tests[j]
      /\ done[i] = [tests[i] EXCEPT !.status = v]
  BY <1>1
<1>3. done[i] \in Test /\ done[i].id = tests[i].id /\ done[i].request = tests[i].request /\ done[i].status = v
  BY <1>1, <1>2 DEF Test
<1>4. done \in Seq(Test)
  BY <1>1, <1>3
<1> HIDE DEF done
<1>5. \A j \in DOMAIN tests : done[j].id = tests[j].id /\ done[j].request = tests[j].request
  BY <1>2, <1>3
<1>6. \A t \in trials : t.test # trial.test
  BY DEF Tested
<1>7. \A t \in all : \E j \in DOMAIN done :
         done[j].id = t.test /\ done[j].status # "planned" /\ done[j].status = StatusOf(t)
  <2> TAKE t \in all
  <2>1. CASE t = trial
    BY <2>1, <1>2, <1>3
  <2>2. CASE t \in trials
    <3>1. PICK j \in DOMAIN tests : /\ tests[j].id = t.test /\ tests[j].status # "planned"
                                    /\ tests[j].status = StatusOf(t)
      BY <2>2 DEF Tested
    <3> QED
      BY <3>1, <1>2
  <2> QED
    BY <2>1, <2>2
<1>8. \A j \in DOMAIN done : done[j].status # "planned" => \E t \in all : t.test = done[j].id
  <2> TAKE j \in DOMAIN done
  <2>1. CASE j = i
    BY <2>1, <1>3
  <2>2. CASE j # i
    BY <2>2, <1>2 DEF Tested
  <2> QED
    BY <2>1, <2>2
<1>9. \A t, u \in all : t.test = u.test => t = u
  BY <1>6 DEF Tested
<1>10. /\ \A j \in DOMAIN done : Named(done[j])
       /\ \A j, k \in DOMAIN done : done[j].id = done[k].id => j = k
       /\ \A j, k \in DOMAIN done :
             j < k /\ done[j].request = done[k].request => done[k].id # done[k].request
  BY <1>2, <1>5 DEF Tested, Named
<1> QED
  BY <1>4, <1>6, <1>7, <1>8, <1>9, <1>10 DEF Tested, done

LEMMA StoryGoesOn ==
    ASSUME NEW trials, NEW evidence, OneStory(trials, evidence),
           NEW trial, trial.evidence \cap DOMAIN evidence = {}
    PROVE  /\ OneStory(trials \cup {trial}, Extended(evidence, Credited(trial)))
           /\ Extended(Credited(trial), evidence) = Extended(evidence, Credited(trial))
           /\ DOMAIN Extended(evidence, Credited(trial)) = DOMAIN evidence \cup trial.evidence
<1> DEFINE all == Extended(evidence, Credited(trial))
<1>1. /\ DOMAIN all = DOMAIN evidence \cup trial.evidence
      /\ \A e \in DOMAIN evidence : all[e] = evidence[e]
      /\ \A e \in trial.evidence : all[e] = <<trial.test, trial.attempt>>
  BY DEF Extended, Credited
<1>2. Extended(Credited(trial), evidence) = all
  BY DEF Extended, Credited
<1> HIDE DEF all
<1>3. OneStory(trials \cup {trial}, all)
  <2>1. \A t \in trials \cup {trial} : \A e \in t.evidence :
           e \in DOMAIN all /\ all[e] = <<t.test, t.attempt>>
    BY <1>1 DEF OneStory
  <2>2. \A e \in DOMAIN all : \E t \in trials \cup {trial} :
           e \in t.evidence /\ all[e] = <<t.test, t.attempt>>
    BY <1>1 DEF OneStory
  <2> QED
    BY <2>1, <2>2 DEF OneStory
<1> QED
  BY <1>1, <1>2, <1>3 DEF all

LEMMA WithTrialSound ==
    ASSUME NEW s, NEW cut, Sound(s, cut), Planned(s) # {}, NEW answer, Answered(answer)
    PROVE  LET i == NextTest(s)
               trial == TrialOf(s, s.tests[i], answer)
               t == WithTrial(s, i, answer)
           IN  /\ Sound(t, cut)
               /\ trial.test = s.tests[i].id
               /\ t.node = s.node /\ t.laps = s.laps /\ t.rounds = s.rounds
               /\ t.hypotheses = s.hypotheses /\ t.predictions = s.predictions
               /\ t.assessments = s.assessments
               /\ t.trials = s.trials \cup {trial}
               /\ t.evidence = Extended(s.evidence, Credited(trial))
               /\ Extended(Credited(trial), s.evidence) = t.evidence
               /\ \A u \in s.trials : u.test # trial.test
<1> DEFINE i == NextTest(s)
           trial == TrialOf(s, s.tests[i], answer)
           v == StatusOf(answer)
           tests == [s.tests EXCEPT ![i].status = v]
           trials == s.trials \cup {trial}
           evidence == Extended(s.evidence, Credited(trial))
           t == WithTrial(s, i, answer)
<1>1. i \in DOMAIN s.tests /\ s.tests[i].status = "planned"
  BY NextIsPlanned DEF Planned, Sound, Tested
<1>2. trial.test = s.tests[i].id /\ trial.status = answer.status
      /\ trial.evidence = answer.output \ DOMAIN s.evidence
  BY DEF TrialOf, NewEvidence
<1>3. v = StatusOf(trial) /\ v \in TestStatus \ {"planned"}
  BY <1>2, StatusIsDone DEF StatusOf, Answered
<1> HIDE DEF i, trial
<1>4. Tested(tests, trials) /\ \A u \in s.trials : u.test # trial.test
  <2>1. Tested(s.tests, s.trials)
    BY DEF Sound
  <2> HIDE DEF v
  <2> QED
    BY <1>1, <1>2, <1>3, <2>1, TestsAreDone
<1>5. /\ OneStory(trials, evidence)
      /\ Extended(Credited(trial), s.evidence) = evidence
      /\ DOMAIN evidence = DOMAIN s.evidence \cup trial.evidence
  <2>1. trial.evidence \cap DOMAIN s.evidence = {}
    BY <1>2
  <2> QED
    BY <2>1, StoryGoesOn DEF Sound
<1>6. t = [s EXCEPT !.tests = tests, !.trials = trials, !.evidence = evidence]
  <2>1. t = [s EXCEPT !.tests[i].status = v, !.trials = @ \cup {trial},
                      !.evidence = Extended(@, Credited(trial))]
    BY DEF WithTrial, trial
  <2> DEFINE credited == Credited(trial)
  <2> HIDE DEF t, v, credited
  <2> QED
    BY <2>1 DEF Sound, Shaped, credited
<1> HIDE DEF tests, trials, evidence, t
<1>7. /\ Shaped(t) /\ t.predictions = s.predictions /\ t.hypotheses = s.hypotheses
      /\ t.tests = tests /\ t.trials = trials /\ t.evidence = evidence /\ t.node = s.node
      /\ t.assessments = s.assessments /\ t.laps = s.laps /\ t.rounds = s.rounds
  BY <1>6 DEF Sound, Shaped
<1>8. Sound(t, cut)
  BY <1>2, <1>4, <1>5, <1>7 DEF Sound, Answered
<1> QED
  BY <1>2, <1>4, <1>5, <1>7, <1>8 DEF t, i, trial, trials, evidence

-----------------------------------------------------------------------------
(* The path of a run is what its ledger makes of its first state. *)

Order(node) ==
    CASE node = "derive_predictions" -> 1
      [] node = "execute_investigation" -> 3
      [] node = "evaluate_predictions" -> 4
      [] node = "interpret_residual_evidence" -> 5
      [] node = "derive_hypothesis_state" -> 6
      [] node = "termination_check" -> 7
      [] node = "challenge_hypothesis" -> 8
      [] node = "plan_investigation" -> 9
      [] OTHER -> 10

Nodes == {"derive_predictions", "plan_investigation", "execute_investigation",
          "evaluate_predictions", "interpret_residual_evidence",
          "derive_hypothesis_state", "termination_check", "challenge_hypothesis",
          "propose_conclusion", "failed"}

\* A lap or a round starts the order over.
Rank(s) == 10 * (s.laps + s.rounds) + Order(s.node)

\* What the ledger has a node make of its state.
Follows(L, cut, s, t) ==
    \/ s.node = "derive_predictions" /\ Alike(t, Derived(s))
    \/ s.node = "plan_investigation" /\ Alike(t, WithPlan(s))
    \/ s.node = "evaluate_predictions" /\ Alike(t, Evaluated(s, cut))
    \/ s.node = "derive_hypothesis_state" /\ Alike(t, Referred(s))
    \/ /\ s.node = "interpret_residual_evidence"
       /\ Position(s) \in DOMAIN L
       /\ Alike(t, Interpreted(s, L[Position(s)], 0))
    \/ /\ s.node = "termination_check"
       /\ Position(s) \in DOMAIN L
       /\ Alike(t, [s EXCEPT !.node = L[Position(s)]])
    \/ /\ s.node = "challenge_hypothesis"
       /\ Position(s) \in DOMAIN L
       /\ L[Position(s)] \in Answerable(s)
       /\ Alike(t, Challenged(s, L[Position(s)]))

\* The states that execute_investigation goes through, from s to f.
Walked(C, f, L, R, s, cut) ==
    /\ s \in C /\ f \in C
    /\ \A w \in C :
          /\ Sound(w, cut)
          /\ w.node = "execute_investigation"
          /\ w.laps = s.laps /\ w.rounds = s.rounds
          /\ w.hypotheses = s.hypotheses /\ w.predictions = s.predictions
          /\ w.assessments = s.assessments
          /\ w.trials \subseteq R.trials
          /\ \/ w = f
             \/ /\ Planned(w) # {}
                /\ TrialKey(w) \in DOMAIN L
                /\ WithTrial(w, NextTest(w), L[TrialKey(w)]) \in C

Among(D, C) == \A d \in D : \E w \in C : Alike(d, w)

\* From a checkpoint to the next, and what was executed from the last.
Leads(L, R, cut, s, t, D) ==
    IF s.node = "execute_investigation"
    THEN \E C, f : /\ Walked(C, f, L, R, s, cut)
                   /\ Among(D, C)
                   /\ Planned(f) = {}
                   /\ Alike(t, [f EXCEPT !.node = "evaluate_predictions"])
    ELSE Follows(L, cut, s, t)

Ahead(L, R, cut, s, D) ==
    IF s.node = "execute_investigation"
    THEN \E C, f : /\ Walked(C, f, L, R, s, cut)
                   /\ Among(D, C)
                   /\ R.trials = f.trials /\ R.evidence = f.evidence
    ELSE R.trials = s.trials /\ R.evidence = s.evidence

Drafts(p, d, k) == {x \in {d} : p = k}

Kept(L, R, P) ==
    \A key \in DOMAIN L :
        \/ key[1] = "tool.trial" /\ \E t \in R.trials : t.test = key[2]
        \/ \E k \in DOMAIN P : k < Len(P) /\ key = Position(P[k])

Laid(R, P, cut) ==
    /\ \E S : P \in Seq(S)
    /\ Len(P) \in Nat \ {0}
    /\ \A k \in DOMAIN P :
          Sound(P[k], cut) /\ P[k].node \in Nodes /\ P[k].trials \subseteq R.trials
    /\ \A j, k \in DOMAIN P : j < k => Rank(P[j]) < Rank(P[k])

\* The ledger, the rows, the path, and where on it the run is with its draft.
Told(L, R, P, cut, p, d, s) ==
    /\ Laid(R, P, cut)
    /\ Kept(L, R, P)
    /\ \A k \in DOMAIN P : k < Len(P) => Leads(L, R, cut, P[k], P[k + 1], Drafts(p, d, k))
    /\ Ahead(L, R, cut, P[Len(P)], Drafts(p, d, Len(P)))
    /\ p \in DOMAIN P
    /\ Alike(s, P[p])
    /\ s.node # "execute_investigation" => d = s

Grown(L, M) == DOMAIN L \subseteq DOMAIN M /\ \A key \in DOMAIN L : M[key] = L[key]

LEMMA FollowsGrown ==
    ASSUME NEW L, NEW M, Grown(L, M), NEW cut, NEW s, NEW t, Follows(L, cut, s, t)
    PROVE  Follows(M, cut, s, t)
BY DEF Follows, Grown

LEMMA WalkedGrown ==
    ASSUME NEW L, NEW M, Grown(L, M), NEW R, NEW Q, R.trials \subseteq Q.trials,
           NEW cut, NEW s, NEW C, NEW f, Walked(C, f, L, R, s, cut)
    PROVE  Walked(C, f, M, Q, s, cut)
BY DEF Walked, Grown

LEMMA LeadsGrown ==
    ASSUME NEW L, NEW M, Grown(L, M), NEW R, NEW Q, R.trials \subseteq Q.trials,
           NEW cut, NEW s, NEW t, NEW D, Leads(L, R, cut, s, t, D)
    PROVE  Leads(M, Q, cut, s, t, D)
BY FollowsGrown, WalkedGrown DEF Leads

LEMMA LeadsAnew ==
    ASSUME NEW L, NEW R, NEW cut, NEW s, NEW t, NEW D, Leads(L, R, cut, s, t, D)
    PROVE  /\ Leads(L, R, cut, s, t, {})
           /\ \A x : Alike(x, s) => Leads(L, R, cut, s, t, {x})
<1>1. CASE s.node = "execute_investigation"
  <2>1. PICK C, f : /\ Walked(C, f, L, R, s, cut)
                    /\ Planned(f) = {}
                    /\ Alike(t, [f EXCEPT !.node = "evaluate_predictions"])
    BY <1>1 DEF Leads
  <2>2. Among({}, C) /\ \A x : Alike(x, s) => Among({x}, C)
    BY <2>1 DEF Among, Walked
  <2> QED
    BY <1>1, <2>1, <2>2 DEF Leads
<1>2. CASE s.node # "execute_investigation"
  BY <1>2 DEF Leads
<1> QED
  BY <1>1, <1>2

LEMMA AheadAnew ==
    ASSUME NEW L, NEW R, NEW cut, NEW s, NEW D, Ahead(L, R, cut, s, D)
    PROVE  /\ Ahead(L, R, cut, s, {})
           /\ \A x : Alike(x, s) => Ahead(L, R, cut, s, {x})
<1>1. CASE s.node = "execute_investigation"
  <2>1. PICK C, f : /\ Walked(C, f, L, R, s, cut)
                    /\ R.trials = f.trials /\ R.evidence = f.evidence
    BY <1>1 DEF Ahead
  <2>2. Among({}, C) /\ \A x : Alike(x, s) => Among({x}, C)
    BY <2>1 DEF Among, Walked
  <2> QED
    BY <1>1, <2>1, <2>2 DEF Ahead
<1>2. CASE s.node # "execute_investigation"
  BY <1>2 DEF Ahead
<1> QED
  BY <1>1, <1>2

LEMMA RankIsInt ==
    ASSUME NEW s, NEW cut, Sound(s, cut)
    PROVE  Rank(s) \in Int
<1>1. Order(s.node) \in Int
  BY DEF Order
<1> QED
  BY <1>1 DEF Sound, Rank

\* The run is where it has been before.
LEMMA ResumesAt ==
    ASSUME NEW L, NEW R, NEW P, NEW cut, NEW p, NEW d, NEW s,
           Told(L, R, P, cut, p, d, s),
           NEW q \in DOMAIN P, NEW t, Alike(t, P[q])
    PROVE  Told(L, R, P, cut, q, t, t)
<1>1. \A k \in DOMAIN P : k = q \/ Drafts(q, t, k) = {}
  BY DEF Drafts
<1>2. Drafts(q, t, q) = {t}
  BY DEF Drafts
<1>3. ASSUME NEW k \in DOMAIN P, k < Len(P)
      PROVE  Leads(L, R, cut, P[k], P[k + 1], Drafts(q, t, k))
  <2>1. /\ Leads(L, R, cut, P[k], P[k + 1], {})
        /\ Alike(t, P[k]) => Leads(L, R, cut, P[k], P[k + 1], {t})
    BY <1>3, LeadsAnew DEF Told
  <2>2. CASE k = q
    BY <1>2, <2>1, <2>2
  <2>3. CASE k # q
    BY <1>1, <2>1, <2>3
  <2> QED
    BY <2>2, <2>3
<1>4. Len(P) \in DOMAIN P
  BY DEF Told, Laid
<1>5. Ahead(L, R, cut, P[Len(P)], Drafts(q, t, Len(P)))
  BY <1>1, <1>2, <1>4, AheadAnew DEF Told
<1> QED
  BY <1>3, <1>5 DEF Told

\* A state is added to the path.
LEMMA GoesOn ==
    ASSUME NEW L, NEW R, NEW P, NEW cut, NEW p, NEW d, NEW s,
           Told(L, R, P, cut, p, d, s), p = Len(P),
           NEW M, Grown(L, M), DOMAIN M \subseteq DOMAIN L \cup {Position(P[p])},
           NEW t, Sound(t, cut), t.node \in Nodes, Rank(P[p]) < Rank(t),
           t.trials = R.trials, t.evidence = R.evidence,
           Leads(M, R, cut, P[p], t, {})
    PROVE  Told(M, R, Append(P, t), cut, p + 1, t, t)
<1> DEFINE Q == Append(P, t)
<1>1. PICK S : P \in Seq(S)
  BY DEF Told, Laid
<1>2. /\ Q \in Seq(S \cup {t}) /\ Len(Q) = p + 1 /\ p \in Nat \ {0}
      /\ DOMAIN P = 1..p /\ DOMAIN Q = 1..(p + 1)
      /\ \A k \in DOMAIN P : Q[k] = P[k]
      /\ Q[p + 1] = t
  BY <1>1 DEF Told, Laid
<1> HIDE DEF Q
<1>3. \A k \in DOMAIN Q : k = p + 1 \/ k \in DOMAIN P
  BY <1>2
<1>4. Laid(R, Q, cut)
  <2>1. \E T : Q \in Seq(T)
    BY <1>2
  <2>2. \A k \in DOMAIN Q :
           Sound(Q[k], cut) /\ Q[k].node \in Nodes /\ Q[k].trials \subseteq R.trials
    BY <1>2, <1>3 DEF Told, Laid
  <2>3. ASSUME NEW j \in DOMAIN Q, NEW k \in DOMAIN Q, j < k PROVE Rank(Q[j]) < Rank(Q[k])
    <3>1. j \in DOMAIN P
      BY <1>2, <2>3
    <3>2. CASE k \in DOMAIN P
      BY <3>1, <3>2, <2>3, <1>2 DEF Told, Laid
    <3>3. CASE k = p + 1
      <4>1. Rank(P[j]) < Rank(P[p]) \/ j = p
        BY <3>1, <1>2 DEF Told, Laid
      <4>2. Rank(P[j]) \in Int /\ Rank(P[p]) \in Int /\ Rank(t) \in Int
        BY <3>1, <1>2, RankIsInt DEF Told, Laid
      <4> QED
        BY <4>1, <4>2, <3>1, <3>3, <1>2
    <3> QED
      BY <3>2, <3>3, <1>3
  <2> QED
    BY <1>2, <2>1, <2>2, <2>3 DEF Laid
<1>5. Kept(M, R, Q)
  BY <1>2 DEF Kept, Told
<1>6. \A k \in DOMAIN P : Drafts(p + 1, t, k) = {}
  BY <1>2 DEF Drafts
<1>7. ASSUME NEW k \in DOMAIN Q, k < Len(Q)
      PROVE  Leads(M, R, cut, Q[k], Q[k + 1], Drafts(p + 1, t, k))
  <2>1. CASE k = p
    <3>1. Q[k] = P[p] /\ Q[k + 1] = t /\ Drafts(p + 1, t, k) = {}
      BY <2>1, <1>2, <1>6
    <3> QED
      BY <3>1
  <2>2. CASE k # p
    <3>1. k \in DOMAIN P /\ k < Len(P) /\ k + 1 \in DOMAIN P
      BY <2>2, <1>2, <1>7
    <3>2. Leads(L, R, cut, P[k], P[k + 1], Drafts(p, d, k))
      BY <3>1 DEF Told
    <3>3. Leads(M, R, cut, P[k], P[k + 1], {})
      BY <3>2, LeadsGrown, LeadsAnew
    <3>4. Q[k] = P[k] /\ Q[k + 1] = P[k + 1] /\ Drafts(p + 1, t, k) = {}
      BY <3>1, <1>2, <1>6
    <3> QED
      BY <3>3, <3>4
  <2> QED
    BY <2>1, <2>2
<1>8. Alike(t, t)
  BY AlikeItself DEF Sound
<1>9. Ahead(M, R, cut, Q[Len(Q)], Drafts(p + 1, t, Len(Q)))
  <2>1. Drafts(p + 1, t, Len(Q)) = {t}
    BY <1>2 DEF Drafts
  <2>2. CASE t.node = "execute_investigation"
    <3>1. Walked({t}, t, M, R, t, cut)
      BY <2>2 DEF Walked
    <3> QED
      BY <3>1, <2>1, <2>2, <1>2, <1>8 DEF Ahead, Among
  <2>3. CASE t.node # "execute_investigation"
    BY <2>3, <1>2 DEF Ahead
  <2> QED
    BY <2>2, <2>3
<1>10. Alike(t, Q[p + 1]) /\ p + 1 \in DOMAIN Q
  BY <1>2, <1>8
<1> QED
  BY <1>4, <1>5, <1>7, <1>9, <1>10 DEF Told, Q

-----------------------------------------------------------------------------
(* Steps of execute_investigation. *)

\* Where a draft stands among the states the node goes through.
LEMMA DraftStands ==
    ASSUME NEW L, NEW R, NEW P, NEW cut, NEW p, NEW d, NEW s,
           Told(L, R, P, cut, p, d, s), s.node = "execute_investigation",
           NEW C, NEW f, Walked(C, f, L, R, P[p], cut), Among(Drafts(p, d, p), C)
    PROVE  \E w \in C :
               /\ Alike(d, w) /\ Sound(w, cut)
               /\ Planned(w) = Planned(d) /\ TrialKey(w) = TrialKey(d)
               /\ \/ w = f
                  \/ /\ Planned(d) # {} /\ TrialKey(d) \in DOMAIN L
                     /\ \E v \in C : Alike(WithTrial(d, NextTest(d), L[TrialKey(d)]), v)
<1>1. PICK w \in C : Alike(d, w)
  BY DEF Among, Drafts
<1>2. /\ Planned(d) = Planned(w) /\ NextTest(d) = NextTest(w) /\ TrialKey(d) = TrialKey(w)
      /\ \A answer : Alike(WithTrial(d, NextTest(d), answer), WithTrial(w, NextTest(d), answer))
  BY <1>1, WithTrialAlike
<1>3. Sound(w, cut)
  BY <1>1 DEF Walked
<1>4. \/ w = f
      \/ /\ Planned(w) # {}
         /\ TrialKey(w) \in DOMAIN L
         /\ WithTrial(w, NextTest(w), L[TrialKey(w)]) \in C
  BY <1>1 DEF Walked
<1>5. CASE w = f
  BY <1>1, <1>2, <1>3, <1>5
<1>6. CASE w # f
  <2>1. /\ Planned(d) # {} /\ TrialKey(d) \in DOMAIN L
        /\ WithTrial(w, NextTest(d), L[TrialKey(d)]) \in C
    BY <1>2, <1>4, <1>6
  <2>2. Alike(WithTrial(d, NextTest(d), L[TrialKey(d)]), WithTrial(w, NextTest(d), L[TrialKey(d)]))
    BY <1>2
  <2> QED
    BY <1>1, <1>2, <1>3, <2>1, <2>2
<1> QED
  BY <1>5, <1>6

\* A test that is planned has no result yet.
LEMMA PlannedIsNew ==
    ASSUME NEW L, NEW R, NEW P, NEW cut, Laid(R, P, cut), Kept(L, R, P),
           NEW f, Sound(f, cut), R.trials = f.trials, Planned(f) # {}
    PROVE  TrialKey(f) \notin DOMAIN L
<1> DEFINE i == NextTest(f)
           key == TrialKey(f)
<1>1. i \in DOMAIN f.tests /\ f.tests[i].status = "planned"
  BY NextIsPlanned DEF Planned, Sound, Tested
<1>2. key[1] = "tool.trial" /\ key[2] = f.tests[i].id
  BY DEF TrialKey
<1>3. ASSUME NEW t \in R.trials PROVE t.test # key[2]
  BY <1>1, <1>2, <1>3 DEF Sound, Tested
<1>4. ASSUME NEW k \in DOMAIN P PROVE key # Position(P[k])
  <2>1. P[k].node \in Nodes
    BY DEF Laid
  <2>2. Position(P[k])[1] = P[k].node
    BY DEF Position
  <2> HIDE DEF key
  <2> QED
    BY <2>1, <2>2, <1>2 DEF Nodes
<1> QED
  BY <1>3, <1>4 DEF Kept

LEMMA ExecutesAtNode ==
    ASSUME NEW L, NEW R, NEW P, NEW cut, NEW p, NEW d, NEW s,
           Told(L, R, P, cut, p, d, s), s.node = "execute_investigation"
    PROVE  /\ P[p].node = "execute_investigation"
           /\ p \in 1..Len(P) /\ Len(P) \in Nat /\ DOMAIN P = 1..Len(P)
      /\ Len(P) \in DOMAIN P /\ (p = Len(P) \/ p < Len(P))
           /\ Len(P) \in DOMAIN P /\ (p = Len(P) \/ p < Len(P))
           /\ Sound(P[p], cut)
<1>1. P[p].node = s.node
  BY DEF Told, Alike
<1> QED
  BY <1>1 DEF Told, Laid

\* What the ledger has is done again.
LEMMA TestReturns ==
    ASSUME NEW L, NEW R, NEW P, NEW cut, NEW p, NEW d, NEW s,
           Told(L, R, P, cut, p, d, s), s.node = "execute_investigation",
           Planned(d) # {}, TrialKey(d) \in DOMAIN L
    PROVE  Told(L, R, P, cut, p, WithTrial(d, NextTest(d), L[TrialKey(d)]), s)
<1> DEFINE x == WithTrial(d, NextTest(d), L[TrialKey(d)])
<1>1. /\ P[p].node = "execute_investigation"
      /\ p \in 1..Len(P) /\ Len(P) \in Nat /\ DOMAIN P = 1..Len(P)
      /\ Len(P) \in DOMAIN P /\ (p = Len(P) \/ p < Len(P))
  BY ExecutesAtNode
<1>2. \A k \in DOMAIN P : k # p => Drafts(p, d, k) = {} /\ Drafts(p, x, k) = {}
  BY DEF Drafts
<1>3. Drafts(p, x, p) = {x}
  BY DEF Drafts
<1>4. CASE p # Len(P)
  <2>0. p < Len(P)
    BY <1>1, <1>4
  <2>1. PICK C, f : /\ Walked(C, f, L, R, P[p], cut)
                    /\ Among(Drafts(p, d, p), C)
                    /\ Planned(f) = {}
                    /\ Alike(P[p + 1], [f EXCEPT !.node = "evaluate_predictions"])
    BY <1>1, <2>0 DEF Told, Leads
  <2>2. \E v \in C : Alike(x, v)
    BY <2>1, DraftStands
  <2>3. Leads(L, R, cut, P[p], P[p + 1], {x})
    BY <1>1, <2>1, <2>2 DEF Leads, Among
  <2> HIDE DEF x
  <2>4. \A k \in DOMAIN P : k < Len(P) => Leads(L, R, cut, P[k], P[k + 1], Drafts(p, x, k))
    BY <1>2, <1>3, <2>3 DEF Told
  <2>5. Ahead(L, R, cut, P[Len(P)], Drafts(p, x, Len(P)))
    <3>1. Len(P) \in DOMAIN P
      BY <1>1
    <3>2. Ahead(L, R, cut, P[Len(P)], Drafts(p, d, Len(P)))
      BY DEF Told
    <3> QED
      BY <1>2, <1>4, <3>1, <3>2
  <2>6. Laid(R, P, cut) /\ Kept(L, R, P) /\ p \in DOMAIN P /\ Alike(s, P[p])
    BY DEF Told
  <2>7. Told(L, R, P, cut, p, x, s)
    BY <2>4, <2>5, <2>6 DEF Told
  <2> QED
    BY <2>7 DEF x
<1>5. CASE p = Len(P)
  <2>1. PICK C, f : /\ Walked(C, f, L, R, P[p], cut)
                    /\ Among(Drafts(p, d, p), C)
                    /\ R.trials = f.trials /\ R.evidence = f.evidence
    BY <1>1, <1>5 DEF Told, Ahead
  <2>2. Sound(f, cut)
    BY <2>1 DEF Walked
  <2>3. Planned(f) # {} => TrialKey(f) \notin DOMAIN L
    BY <2>1, <2>2, PlannedIsNew DEF Told
  <2>4. \E v \in C : Alike(x, v)
    BY <2>1, <2>3, DraftStands
  <2>5. Ahead(L, R, cut, P[p], {x})
    BY <1>1, <2>1, <2>4 DEF Ahead, Among
  <2> HIDE DEF x
  <2>6. \A k \in DOMAIN P : k < Len(P) => Leads(L, R, cut, P[k], P[k + 1], Drafts(p, x, k))
    <3> SUFFICES ASSUME NEW k \in DOMAIN P, k < Len(P)
                 PROVE  Leads(L, R, cut, P[k], P[k + 1], Drafts(p, x, k))
      OBVIOUS
    <3>1. Leads(L, R, cut, P[k], P[k + 1], Drafts(p, d, k))
      BY DEF Told
    <3>2. k # p
      BY <1>1, <1>5
    <3> QED
      BY <1>2, <3>1, <3>2
  <2>7. Ahead(L, R, cut, P[Len(P)], Drafts(p, x, Len(P)))
    BY <1>3, <1>5, <2>5
  <2>8. Laid(R, P, cut) /\ Kept(L, R, P) /\ p \in DOMAIN P /\ Alike(s, P[p])
    BY DEF Told
  <2>9. Told(L, R, P, cut, p, x, s)
    BY <2>6, <2>7, <2>8 DEF Told
  <2> QED
    BY <2>9 DEF x
<1> QED
  BY <1>1, <1>4, <1>5

LEMMA RunsAtTheEnd ==
    ASSUME NEW L, NEW R, NEW P, NEW cut, NEW p, NEW d, NEW s,
           Told(L, R, P, cut, p, d, s), s.node = "execute_investigation",
           Planned(d) # {}, TrialKey(d) \notin DOMAIN L
    PROVE  p = Len(P)
<1>1. /\ P[p].node = "execute_investigation"
      /\ p \in 1..Len(P) /\ Len(P) \in Nat /\ DOMAIN P = 1..Len(P)
      /\ Len(P) \in DOMAIN P /\ (p = Len(P) \/ p < Len(P))
  BY ExecutesAtNode
<1> SUFFICES ASSUME p < Len(P) PROVE FALSE
  BY <1>1
<1>2. PICK C, f : /\ Walked(C, f, L, R, P[p], cut)
                  /\ Among(Drafts(p, d, p), C)
                  /\ Planned(f) = {}
  BY <1>1 DEF Told, Leads
<1>3. PICK w \in C :
         /\ Planned(w) = Planned(d)
         /\ w = f \/ TrialKey(d) \in DOMAIN L
  BY <1>2, DraftStands
<1> QED
  BY <1>2, <1>3

\* What it does not have is executed at the end of the path only, and kept.
LEMMA TestIsRun ==
    ASSUME NEW L, NEW R, NEW P, NEW cut, NEW p, NEW d, NEW s,
           Told(L, R, P, cut, p, d, s), s.node = "execute_investigation",
           Planned(d) # {}, TrialKey(d) \notin DOMAIN L,
           NEW answer, Answered(answer),
           NEW M, M = Extended(L, [k \in {TrialKey(d)} |-> answer]),
           NEW trial, trial = TrialOf(d, d.tests[NextTest(d)], answer),
           NEW Q, Q = [trials |-> R.trials \cup {trial},
                       evidence |-> Extended(Credited(trial), R.evidence)]
    PROVE  Told(M, Q, P, cut, p, WithTrial(d, NextTest(d), answer), s)
<1> DEFINE x == WithTrial(d, NextTest(d), answer)
           i == NextTest(d)
           key == TrialKey(d)
<1>1. /\ P[p].node = "execute_investigation"
      /\ p \in 1..Len(P) /\ Len(P) \in Nat /\ DOMAIN P = 1..Len(P)
      /\ Len(P) \in DOMAIN P /\ (p = Len(P) \/ p < Len(P))
  BY ExecutesAtNode
<1>2. \A k \in DOMAIN P : k # p => Drafts(p, d, k) = {} /\ Drafts(p, x, k) = {}
  BY DEF Drafts
<1>3. Drafts(p, x, p) = {x}
  BY DEF Drafts
<1>4. p = Len(P)
  BY RunsAtTheEnd
<1>5. PICK C, f : /\ Walked(C, f, L, R, P[p], cut)
                  /\ Among(Drafts(p, d, p), C)
                  /\ R.trials = f.trials /\ R.evidence = f.evidence
  BY <1>1, <1>4 DEF Told, Ahead
<1>6. Alike(d, f) /\ Sound(f, cut) /\ Planned(f) # {} /\ TrialKey(f) = key
  BY <1>5, DraftStands
<1>7. /\ NextTest(f) = i /\ d.tests = f.tests
      /\ trial = TrialOf(f, f.tests[i], answer)
      /\ Alike(x, WithTrial(f, i, answer))
  <2>1. /\ NextTest(f) = i
        /\ \A test : TrialOf(d, test, answer) = TrialOf(f, test, answer)
        /\ \A n : Alike(WithTrial(d, n, answer), WithTrial(f, n, answer))
    BY <1>6, WithTrialAlike
  <2>2. d.tests = f.tests
    BY <1>6 DEF Alike
  <2> QED
    BY <2>1, <2>2
<1> DEFINE g == WithTrial(f, i, answer)
<1>8. /\ Sound(g, cut)
      /\ trial.test = f.tests[i].id
      /\ g.node = f.node /\ g.laps = f.laps /\ g.rounds = f.rounds
      /\ g.hypotheses = f.hypotheses /\ g.predictions = f.predictions
      /\ g.assessments = f.assessments
      /\ g.trials = f.trials \cup {trial}
      /\ Extended(Credited(trial), f.evidence) = g.evidence
  BY <1>6, <1>7, WithTrialSound
<1>9. Grown(L, M) /\ DOMAIN M = DOMAIN L \cup {key} /\ M[key] = answer
  BY DEF Grown, Extended
<1>10. key[1] = "tool.trial" /\ key[2] = trial.test
  BY <1>7, <1>8 DEF TrialKey
<1> HIDE DEF x, g, i, key
<1>11. R.trials \subseteq Q.trials /\ Q.trials = g.trials /\ Q.evidence = g.evidence /\ trial \in Q.trials
  BY <1>5, <1>8
<1>12. Walked(C \cup {g}, g, M, Q, P[p], cut)
  <2>1. Walked(C, f, M, Q, P[p], cut)
    BY <1>5, <1>9, <1>11, WalkedGrown
  <2>2. /\ Planned(f) # {} /\ TrialKey(f) \in DOMAIN M
        /\ WithTrial(f, NextTest(f), M[TrialKey(f)]) = g
    BY <1>6, <1>7, <1>9 DEF g
  <2>3. /\ f.node = "execute_investigation"
        /\ f.laps = P[p].laps /\ f.rounds = P[p].rounds
        /\ f.hypotheses = P[p].hypotheses /\ f.predictions = P[p].predictions
        /\ f.assessments = P[p].assessments
    BY <2>1 DEF Walked
  <2>4. /\ Sound(g, cut) /\ g.node = "execute_investigation"
        /\ g.laps = P[p].laps /\ g.rounds = P[p].rounds
        /\ g.hypotheses = P[p].hypotheses /\ g.predictions = P[p].predictions
        /\ g.assessments = P[p].assessments
        /\ g.trials \subseteq Q.trials
    BY <1>8, <1>11, <2>3
  <2>5. ASSUME NEW w \in C PROVE
          /\ Sound(w, cut)
          /\ w.node = "execute_investigation"
          /\ w.laps = P[p].laps /\ w.rounds = P[p].rounds
          /\ w.hypotheses = P[p].hypotheses /\ w.predictions = P[p].predictions
          /\ w.assessments = P[p].assessments
          /\ w.trials \subseteq Q.trials
          /\ \/ /\ Planned(w) # {}
                /\ TrialKey(w) \in DOMAIN M
                /\ WithTrial(w, NextTest(w), M[TrialKey(w)]) \in C \cup {g}
    BY <2>1, <2>2 DEF Walked
  <2>6. P[p] \in C
    BY <2>1 DEF Walked
  <2> QED
    BY <2>4, <2>5, <2>6 DEF Walked
<1>13. Ahead(M, Q, cut, P[p], {x})
  <2>1. Among({x}, C \cup {g})
    BY <1>7 DEF Among, g
  <2> QED
    BY <1>1, <1>11, <1>12, <2>1 DEF Ahead
<1>14. ASSUME NEW k \in DOMAIN P, k < Len(P)
       PROVE  Leads(M, Q, cut, P[k], P[k + 1], Drafts(p, x, k))
  <2>1. Leads(L, R, cut, P[k], P[k + 1], {})
    BY <1>14, LeadsAnew DEF Told
  <2>2. Drafts(p, x, k) = {}
    BY <1>2, <1>4, <1>14
  <2> QED
    BY <2>1, <2>2, <1>9, <1>11, LeadsGrown
<1>15. Kept(M, Q, P)
  <2> SUFFICES ASSUME NEW k \in DOMAIN M
               PROVE  \/ k[1] = "tool.trial" /\ \E t \in Q.trials : t.test = k[2]
                      \/ \E n \in DOMAIN P : n < Len(P) /\ k = Position(P[n])
    BY DEF Kept
  <2>1. CASE k = key
    BY <2>1, <1>10, <1>11
  <2>2. CASE k \in DOMAIN L
    BY <2>2, <1>11 DEF Told, Kept
  <2> QED
    BY <2>1, <2>2, <1>9
<1>16. Laid(Q, P, cut)
  BY <1>11 DEF Told, Laid
<1> QED
  BY <1>3, <1>4, <1>13, <1>14, <1>15, <1>16 DEF Told, x

\* Nothing is planned any more.
LEMMA ExecutionIsOver ==
    ASSUME NEW L, NEW R, NEW P, NEW cut, NEW p, NEW d, NEW s,
           Told(L, R, P, cut, p, d, s), s.node = "execute_investigation",
           Planned(d) = {}, NEW t, t = [d EXCEPT !.node = "evaluate_predictions"]
    PROVE  /\ p < Len(P) => Told(L, R, P, cut, p + 1, t, t)
           /\ p = Len(P) => Told(L, R, Append(P, t), cut, p + 1, t, t)
<1>1. /\ P[p].node = "execute_investigation"
      /\ p \in 1..Len(P) /\ Len(P) \in Nat /\ DOMAIN P = 1..Len(P)
      /\ Len(P) \in DOMAIN P /\ (p = Len(P) \/ p < Len(P))
      /\ Sound(P[p], cut)
  BY ExecutesAtNode
<1>2. CASE p < Len(P)
  <2>1. PICK C, f : /\ Walked(C, f, L, R, P[p], cut)
                    /\ Among(Drafts(p, d, p), C)
                    /\ Planned(f) = {}
                    /\ Alike(P[p + 1], [f EXCEPT !.node = "evaluate_predictions"])
    BY <1>1, <1>2 DEF Told, Leads
  <2>2. Alike(d, f)
    BY <2>1, DraftStands
  <2>3. Alike(t, P[p + 1])
    BY <2>1, <2>2, MovedAlike, AlikeTurned, AlikeChained
  <2>4. p + 1 \in DOMAIN P
    BY <1>1, <1>2 DEF Told, Laid
  <2> QED
    BY <1>2, <2>3, <2>4, ResumesAt
<1>3. CASE p = Len(P)
  <2>1. PICK C, f : /\ Walked(C, f, L, R, P[p], cut)
                    /\ Among(Drafts(p, d, p), C)
                    /\ R.trials = f.trials /\ R.evidence = f.evidence
    BY <1>1, <1>3 DEF Told, Ahead
  <2>2. Alike(d, f) /\ Sound(f, cut) /\ Planned(f) = {}
    BY <2>1, DraftStands
  <2>3. Alike(t, [f EXCEPT !.node = "evaluate_predictions"])
    BY <2>2, MovedAlike
  <2>4. Leads(L, R, cut, P[p], t, {})
    BY <1>1, <2>1, <2>2, <2>3 DEF Leads, Among
  <2>5. Sound(d, cut)
    BY <2>2, SoundAlike
  <2>6. Sound(t, cut)
    BY <2>5, MovedSound
  <2>7. /\ t.node = "evaluate_predictions" /\ t.trials = d.trials /\ t.evidence = d.evidence
        /\ t.laps = d.laps /\ t.rounds = d.rounds
    BY <2>5 DEF Sound, Shaped
  <2>8. /\ d.trials = f.trials /\ d.evidence = f.evidence
        /\ d.laps = f.laps /\ d.rounds = f.rounds
    BY <2>2 DEF Alike
  <2>9. f.laps = P[p].laps /\ f.rounds = P[p].rounds
    BY <2>1 DEF Walked
  <2>10. Rank(P[p]) < Rank(t)
    <3>1. Order(P[p].node) = 3 /\ Order(t.node) = 4
      BY <1>1, <2>7 DEF Order
    <3>2. t.laps = P[p].laps /\ t.rounds = P[p].rounds /\ t.laps \in Nat /\ t.rounds \in Nat
      BY <2>6, <2>7, <2>8, <2>9 DEF Sound
    <3> QED
      BY <3>1, <3>2 DEF Rank
  <2>11. Grown(L, L) /\ t.node \in Nodes
    BY <2>7 DEF Grown, Nodes
  <2>12. t.trials = R.trials /\ t.evidence = R.evidence
    BY <2>1, <2>7, <2>8
  <2>13. DOMAIN L \subseteq DOMAIN L \cup {Position(P[p])}
    OBVIOUS
  <2>14. Told(L, R, Append(P, t), cut, p + 1, t, t)
    BY <1>3, <2>4, <2>6, <2>10, <2>11, <2>12, <2>13, GoesOn
  <2> QED
    BY <1>1, <1>3, <2>14
<1> QED
  BY <1>2, <1>3

-----------------------------------------------------------------------------
(* Steps of the other nodes. *)

\* The nodes that leave a result in the ledger.
Asking == {"interpret_residual_evidence", "termination_check", "challenge_hypothesis"}

\* What a node makes of its state, with the ledger as it leaves it.
Does(M, cut, s, t) ==
    \/ s.node = "derive_predictions" /\ t = Derived(s)
    \/ s.node = "plan_investigation" /\ t = WithPlan(s)
    \/ s.node = "evaluate_predictions" /\ t = Evaluated(s, cut)
    \/ s.node = "derive_hypothesis_state" /\ t = Referred(s)
    \/ /\ s.node = "interpret_residual_evidence"
       /\ Position(s) \in DOMAIN M
       /\ \E time : t = Interpreted(s, M[Position(s)], time)
    \/ /\ s.node = "termination_check"
       /\ Position(s) \in DOMAIN M
       /\ t = [s EXCEPT !.node = M[Position(s)]]
    \/ /\ s.node = "challenge_hypothesis"
       /\ Position(s) \in DOMAIN M
       /\ M[Position(s)] \in Answerable(s)
       /\ t = Challenged(s, M[Position(s)])

LEMMA DoesFollows ==
    ASSUME NEW M, NEW cut, NEW s, NEW t, Does(M, cut, s, t), NEW u, Alike(s, u)
    PROVE  Follows(M, cut, u, t)
<1>1. u.node = s.node /\ Position(u) = Position(s) /\ Answerable(u) = Answerable(s)
  BY DEF Alike, Position, Answerable
<1>2. CASE s.node = "derive_predictions" /\ t = Derived(s)
  BY <1>1, <1>2, DerivedAlike DEF Follows
<1>3. CASE s.node = "plan_investigation" /\ t = WithPlan(s)
  BY <1>1, <1>3, WithPlanAlike DEF Follows
<1>4. CASE s.node = "evaluate_predictions" /\ t = Evaluated(s, cut)
  BY <1>1, <1>4, EvaluatedAlike DEF Follows
<1>5. CASE s.node = "derive_hypothesis_state" /\ t = Referred(s)
  BY <1>1, <1>5, ReferredAlike DEF Follows
<1>6. CASE /\ s.node = "interpret_residual_evidence"
           /\ Position(s) \in DOMAIN M
           /\ \E time : t = Interpreted(s, M[Position(s)], time)
  BY <1>1, <1>6, InterpretedAlike DEF Follows
<1>7. CASE /\ s.node = "termination_check"
           /\ Position(s) \in DOMAIN M
           /\ t = [s EXCEPT !.node = M[Position(s)]]
  BY <1>1, <1>7, MovedAlike DEF Follows
<1>8. CASE /\ s.node = "challenge_hypothesis"
           /\ Position(s) \in DOMAIN M
           /\ M[Position(s)] \in Answerable(s)
           /\ t = Challenged(s, M[Position(s)])
  BY <1>1, <1>8, ChallengedAlike DEF Follows
<1> QED
  BY <1>2, <1>3, <1>4, <1>5, <1>6, <1>7, <1>8 DEF Does

LEMMA FollowsOne ==
    ASSUME NEW L, NEW cut, NEW s, NEW t, NEW u, Follows(L, cut, s, t), Follows(L, cut, s, u)
    PROVE  Alike(t, u)
<1>1. \E v : Alike(t, v) /\ Alike(u, v)
  BY DEF Follows
<1> QED
  BY <1>1, AlikeTurned, AlikeChained

LEMMA OnThePath ==
    ASSUME NEW n \in Nat, NEW p \in 1..n
    PROVE  /\ p = n \/ p < n
           /\ p < n => p # n /\ p + 1 \in 1..n
OBVIOUS

LEMMA StandsAtNode ==
    ASSUME NEW L, NEW R, NEW P, NEW cut, NEW p, NEW d, NEW s,
           Told(L, R, P, cut, p, d, s)
    PROVE  /\ s.node = P[p].node /\ Position(s) = Position(P[p]) /\ Rank(s) = Rank(P[p])
           /\ s.trials = P[p].trials /\ s.evidence = P[p].evidence
           /\ p \in 1..Len(P) /\ Len(P) \in Nat /\ DOMAIN P = 1..Len(P)
           /\ Sound(P[p], cut) /\ Sound(s, cut) /\ s.node \in Nodes
           /\ p = Len(P) \/ p < Len(P)
           /\ p < Len(P) => p # Len(P) /\ p + 1 \in DOMAIN P
<1>1. Alike(s, P[p]) /\ p \in DOMAIN P /\ Laid(R, P, cut)
  BY DEF Told
<1>2. Sound(P[p], cut) /\ P[p].node \in Nodes
  BY <1>1 DEF Laid
<1>3. Sound(s, cut)
  BY <1>1, <1>2, SoundAlike
<1>4. p \in 1..Len(P) /\ Len(P) \in Nat /\ DOMAIN P = 1..Len(P)
  BY <1>1 DEF Laid
<1>5. /\ p = Len(P) \/ p < Len(P)
      /\ p < Len(P) => p # Len(P) /\ p + 1 \in DOMAIN P
  BY <1>4, OnThePath
<1>6. /\ s.node = P[p].node /\ Position(s) = Position(P[p]) /\ Rank(s) = Rank(P[p])
      /\ s.trials = P[p].trials /\ s.evidence = P[p].evidence
  BY <1>1 DEF Alike, Position, Rank
<1> QED
  BY <1>2, <1>3, <1>4, <1>5, <1>6

\* At the end of its path a run has not asked yet.
LEMMA PositionIsNew ==
    ASSUME NEW L, NEW R, NEW P, NEW cut, NEW p, NEW d, NEW s,
           Told(L, R, P, cut, p, d, s), p = Len(P)
    PROVE  Position(s) \notin DOMAIN L
<1> SUFFICES ASSUME Position(s) \in DOMAIN L PROVE FALSE
  OBVIOUS
<1>1. /\ s.node \in Nodes /\ Position(s) = Position(P[p]) /\ Rank(s) = Rank(P[p])
      /\ DOMAIN P = 1..Len(P) /\ Sound(s, cut) /\ p \in 1..Len(P)
  BY StandsAtNode
<1>2. Position(s)[1] = s.node
  BY DEF Position
<1>3. Position(s)[1] # "tool.trial"
  BY <1>1, <1>2 DEF Nodes
<1>4. PICK k \in DOMAIN P : k < Len(P) /\ Position(s) = Position(P[k])
  BY <1>3 DEF Told, Kept
<1>5. Rank(P[k]) = Rank(s)
  <2>1. P[k].node = s.node /\ P[k].laps = s.laps /\ P[k].rounds = s.rounds
    BY <1>4 DEF Position
  <2> QED
    BY <2>1 DEF Rank
<1>6. Rank(P[k]) < Rank(P[p]) /\ Rank(s) \in Int
  BY <1>1, <1>4, RankIsInt DEF Told, Laid
<1> QED
  BY <1>1, <1>5, <1>6

\* A challenge in the ledger was an answer at this place.
LEMMA ChallengeIsAnswerable ==
    ASSUME NEW L, NEW R, NEW P, NEW cut, NEW p, NEW d, NEW s,
           Told(L, R, P, cut, p, d, s), s.node = "challenge_hypothesis",
           NEW r, r \in IF Position(s) \in DOMAIN L THEN {L[Position(s)]} ELSE Answerable(s)
    PROVE  r \in Answerable(s)
<1>1. /\ s.node = P[p].node /\ Position(s) = Position(P[p])
      /\ p \in DOMAIN P /\ (p = Len(P) \/ p < Len(P))
  BY StandsAtNode
<1>2. CASE p = Len(P)
  BY <1>2, PositionIsNew
<1>3. CASE p < Len(P)
  <2>1. Follows(L, cut, P[p], P[p + 1])
    BY <1>1, <1>3 DEF Told, Leads
  <2>2. Position(s) \in DOMAIN L /\ L[Position(s)] \in Answerable(P[p])
    BY <1>1, <2>1 DEF Follows
  <2>3. Answerable(s) = Answerable(P[p])
    <3>1. s.tests = P[p].tests
      BY DEF Told, Alike
    <3> QED
      BY <3>1 DEF Answerable
  <2> QED
    BY <2>2, <2>3
<1> QED
  BY <1>1, <1>2, <1>3

\* A step of a node that executes no tests.
LEMMA Reaches ==
    ASSUME NEW L, NEW R, NEW P, NEW cut, NEW p, NEW d, NEW s,
           Told(L, R, P, cut, p, d, s), s.node # "execute_investigation",
           NEW M, Grown(L, M), DOMAIN M \subseteq DOMAIN L \cup {Position(s)},
           M = L \/ (s.node \in Asking /\ Position(s) \notin DOMAIN L),
           NEW t, Does(M, cut, s, t),
           p = Len(P) =>
               /\ Sound(t, cut) /\ t.node \in Nodes /\ Rank(s) < Rank(t)
               /\ t.trials = s.trials /\ t.evidence = s.evidence
    PROVE  Told(M, R, IF p = Len(P) THEN Append(P, t) ELSE P, cut, p + 1, t, t)
<1>1. /\ s.node = P[p].node /\ Position(s) = Position(P[p]) /\ Rank(s) = Rank(P[p])
      /\ s.trials = P[p].trials /\ s.evidence = P[p].evidence
      /\ p \in 1..Len(P) /\ Len(P) \in Nat /\ DOMAIN P = 1..Len(P)
      /\ p = Len(P) \/ p < Len(P)
      /\ p < Len(P) => p # Len(P) /\ p + 1 \in DOMAIN P
  BY StandsAtNode
<1>2. Follows(M, cut, P[p], t)
  BY DoesFollows DEF Told
<1>3. CASE p < Len(P)
  <2>1. Follows(L, cut, P[p], P[p + 1])
    BY <1>1, <1>3 DEF Told, Leads
  <2>2. M = L
    BY <1>1, <2>1 DEF Follows, Asking
  <2>3. Alike(t, P[p + 1])
    BY <1>2, <2>1, <2>2, FollowsOne
  <2>4. p + 1 \in DOMAIN P
    BY <1>1, <1>3
  <2>5. Told(L, R, P, cut, p + 1, t, t)
    BY <2>3, <2>4, ResumesAt
  <2>6. p # Len(P)
    BY <1>1, <1>3
  <2> QED
    BY <2>2, <2>5, <2>6
<1>4. CASE p = Len(P)
  <2>1. R.trials = t.trials /\ R.evidence = t.evidence
    BY <1>1, <1>4 DEF Told, Ahead
  <2>2. Leads(M, R, cut, P[p], t, {})
    BY <1>1, <1>2 DEF Leads
  <2>3. Told(M, R, Append(P, t), cut, p + 1, t, t)
    BY <1>1, <1>4, <2>1, <2>2, GoesOn
  <2> QED
    BY <1>4, <2>3
<1> QED
  BY <1>1, <1>3, <1>4

LEMMA DoesSound ==
    ASSUME NEW M, NEW cut, NEW s, NEW t, Sound(s, cut), Does(M, cut, s, t)
    PROVE  Sound(t, cut) /\ Final(s, t)
<1>1. CASE t = Derived(s)
  BY <1>1, DerivedSound
<1>2. CASE t = WithPlan(s)
  BY <1>2, WithPlanSound
<1>3. CASE t = Evaluated(s, cut)
  BY <1>3, EvaluatedSound
<1>4. CASE t = Referred(s)
  BY <1>4, ReferredSound
<1>5. CASE \E time : t = Interpreted(s, M[Position(s)], time)
  BY <1>5, InterpretedSound
<1>6. CASE t = [s EXCEPT !.node = M[Position(s)]]
  BY <1>6, MovedSound
<1>7. CASE M[Position(s)] \in Answerable(s) /\ t = Challenged(s, M[Position(s)])
  BY <1>7, ChallengedSound
<1> QED
  BY <1>1, <1>2, <1>3, <1>4, <1>5, <1>6, <1>7 DEF Does

LEMMA RankGrows ==
    ASSUME NEW s, NEW t, NEW cut, Sound(s, cut), Sound(t, cut),
           \/ t.laps = s.laps /\ t.rounds = s.rounds /\ Order(s.node) < Order(t.node)
           \/ /\ t.laps + t.rounds = s.laps + s.rounds + 1
              /\ Order(s.node) < 10 /\ Order(t.node) > 0
    PROVE  Rank(s) < Rank(t)
<1>1. Order(s.node) \in Int /\ Order(t.node) \in Int
  BY DEF Order
<1>2. s.laps \in Nat /\ s.rounds \in Nat /\ t.laps \in Nat /\ t.rounds \in Nat
  BY DEF Sound
<1> QED
  BY <1>1, <1>2 DEF Rank

\* A node leaves the trials to execute_investigation, and moves on.
LEMMA DoesMove ==
    ASSUME NEW M, NEW cut, NEW s, NEW t, Sound(s, cut), Does(M, cut, s, t),
           s.node = "termination_check" =>
               t.node \in {"propose_conclusion", "challenge_hypothesis",
                           "plan_investigation"}
    PROVE  /\ t.node \in Nodes /\ Rank(s) < Rank(t)
           /\ t.trials = s.trials /\ t.evidence = s.evidence
<1> DEFINE Kin == t.trials = s.trials /\ t.evidence = s.evidence
           Level == t.laps = s.laps /\ t.rounds = s.rounds
<1>1. Sound(t, cut) /\ s.laps \in Nat /\ s.rounds \in Nat /\ Shaped(s)
  BY DoesSound DEF Sound
<1>2. CASE s.node = "derive_predictions" /\ t = Derived(s)
  <2> DEFINE ps == s.predictions \o DerivePredictions(s.hypotheses, s.predictions)
  <2>1. t = [s EXCEPT !.predictions = ps, !.node = "plan_investigation"]
    BY <1>2 DEF Derived
  <2> HIDE DEF ps
  <2>2. t.node = "plan_investigation" /\ Kin /\ Level
    BY <1>1, <2>1 DEF Shaped
  <2> QED
    BY <1>1, <1>2, <2>2, RankGrows DEF Order, Nodes
<1>3. CASE s.node = "plan_investigation" /\ t = WithPlan(s)
  <2> DEFINE ts == s.tests \o PlanInvestigation(s.predictions, s.tests)
             n == s.laps + 1
  <2>1. t = [s EXCEPT !.tests = ts, !.laps = n, !.node = "execute_investigation"]
    BY <1>3 DEF WithPlan
  <2>2. n = s.laps + 1
    OBVIOUS
  <2> HIDE DEF ts, n
  <2>3. t.node = "execute_investigation" /\ Kin /\ t.laps = n /\ t.rounds = s.rounds
    BY <1>1, <2>1 DEF Shaped
  <2>4. t.laps + t.rounds = s.laps + s.rounds + 1
    BY <1>1, <2>2, <2>3
  <2> QED
    BY <1>1, <1>3, <2>3, <2>4, RankGrows DEF Order, Nodes
<1>4. CASE s.node = "evaluate_predictions" /\ t = Evaluated(s, cut)
  <2> DEFINE ps == EvaluatedPredictions(s.predictions, ReadAt(DOMAIN s.evidence, cut))
             as == Upsert(s.assessments,
                          EvaluatedAssessments(s.predictions, ReadAt(DOMAIN s.evidence, cut), cut))
  <2>1. t = [s EXCEPT !.predictions = ps, !.assessments = as,
                      !.node = "interpret_residual_evidence"]
    BY <1>4 DEF Evaluated
  <2> HIDE DEF ps, as
  <2>2. t.node = "interpret_residual_evidence" /\ Kin /\ Level
    BY <1>1, <2>1 DEF Shaped
  <2> QED
    BY <1>1, <1>4, <2>2, RankGrows DEF Order, Nodes
<1>5. CASE s.node = "derive_hypothesis_state" /\ t = Referred(s)
  <2>1. t.node \in {"termination_check", "failed"} /\ Kin /\ Level
    BY <1>1, <1>5 DEF Referred, Failed, Shaped
  <2> QED
    BY <1>1, <1>5, <2>1, RankGrows DEF Order, Nodes
<1>6. CASE /\ s.node = "interpret_residual_evidence"
           /\ \E time : t = Interpreted(s, M[Position(s)], time)
  <2>1. PICK time : t = Interpreted(s, M[Position(s)], time)
    BY <1>6
  <2> DEFINE as == Upsert(s.assessments, Stamped(M[Position(s)], time))
  <2>2. \/ t = [s EXCEPT !.assessments = as, !.node = "derive_hypothesis_state"]
        \/ t = [s EXCEPT !.node = "failed"]
    BY <2>1 DEF Interpreted, Failed
  <2> HIDE DEF as
  <2>3. t.node \in {"derive_hypothesis_state", "failed"} /\ Kin /\ Level
    BY <1>1, <2>2 DEF Shaped
  <2> QED
    BY <1>1, <1>6, <2>3, RankGrows DEF Order, Nodes
<1>7. CASE /\ s.node = "termination_check"
           /\ t = [s EXCEPT !.node = M[Position(s)]]
  <2>1. Kin /\ Level
    BY <1>1, <1>7 DEF Shaped
  <2>2. t.node \in {"propose_conclusion", "challenge_hypothesis", "plan_investigation"}
    BY <1>7
  <2>3. t.node \in Nodes
    BY <2>2 DEF Nodes
  <2>4. Order(s.node) = 7 /\ Order(t.node) > 7
    BY <1>7, <2>2 DEF Order
  <2>5. Rank(s) < Rank(t)
    BY <1>1, <2>1, <2>4, RankGrows
  <2> QED
    BY <2>1, <2>3, <2>5
<1>8. CASE /\ s.node = "challenge_hypothesis"
           /\ t = Challenged(s, M[Position(s)])
  <2> DEFINE hs == Append(s.hypotheses, M[Position(s)].alternative)
             ps == s.predictions \o DerivePredictions(hs, s.predictions)
             ts == s.tests \o M[Position(s)].tests
             all == ts \o PlanInvestigation(ps, ts)
             n == s.rounds + 1
  <2>1. \/ t = [s EXCEPT !.hypotheses = hs, !.predictions = ps, !.tests = all,
                         !.rounds = n, !.node = "execute_investigation"]
        \/ t = [s EXCEPT !.node = "failed"]
    BY <1>8 DEF Challenged, Failed
  <2>2. n = s.rounds + 1
    OBVIOUS
  <2> HIDE DEF hs, ps, ts, all, n
  <2>3. CASE t = [s EXCEPT !.node = "failed"]
    <3>1. t.node = "failed" /\ Kin /\ Level
      BY <1>1, <2>3 DEF Shaped
    <3> QED
      BY <1>1, <1>8, <3>1, RankGrows DEF Order, Nodes
  <2>4. CASE t = [s EXCEPT !.hypotheses = hs, !.predictions = ps, !.tests = all,
                           !.rounds = n, !.node = "execute_investigation"]
    <3>1. t.node = "execute_investigation" /\ Kin /\ t.laps = s.laps /\ t.rounds = n
      BY <1>1, <2>4 DEF Shaped
    <3>2. t.laps + t.rounds = s.laps + s.rounds + 1
      BY <1>1, <2>2, <3>1
    <3> QED
      BY <1>1, <1>8, <3>1, <3>2, RankGrows DEF Order, Nodes
  <2> QED
    BY <2>1, <2>3, <2>4
<1> QED
  BY <1>2, <1>3, <1>4, <1>5, <1>6, <1>7, <1>8 DEF Does

-----------------------------------------------------------------------------
(* The run. *)

IsFunction(f) == f = [x \in DOMAIN f |-> f[x]]

\* A role was asked about a state that is like the one on the path.
Requested(L, Q, P) ==
    /\ DOMAIN Q \subseteq DOMAIN L
    /\ \A k \in DOMAIN P :
          Position(P[k]) \in DOMAIN Q =>
              \E s : Alike(s, P[k]) /\ Q[Position(P[k])] = Shown(s)

\* So is every checkpoint, whichever attempt put it.
PutOnPath(C, P) == \A put \in C : put.at \in DOMAIN P /\ Alike(put.state, P[put.at])

PipelineInv ==
    /\ Told(ledger, rows, path, asOf, pos, draft, st)
    /\ IsFunction(ledger)
    /\ Requested(ledger, asked, path)
    /\ PutOnPath(puts, path)
    /\ refused => st.node \in Asks /\ ~SameRequest
    /\ clock \in Nat

LEMMA InputsAreSound ==
    ASSUME NEW hypotheses \in Initial, NEW cut, NEW s,
           s = [node |-> "derive_predictions", hypotheses |-> hypotheses,
                predictions |-> <<>>, tests |-> <<>>, trials |-> {},
                evidence |-> <<>>, assessments |-> {}, laps |-> 0, rounds |-> 0]
    PROVE  Sound(s, cut)
<1>1. Shaped(s)
  BY DEF Shaped
<1>2. /\ s.hypotheses = hypotheses /\ s.predictions = <<>> /\ s.tests = <<>>
      /\ s.trials = {} /\ s.evidence = <<>> /\ s.assessments = {}
      /\ s.laps = 0 /\ s.rounds = 0
  OBVIOUS
<1> DEFINE nothing == << >>
<1>3. DOMAIN nothing = {} /\ \A T : nothing \in Seq(T)
  OBVIOUS
<1> HIDE DEF nothing
<1>4. Believed(hypotheses, nothing)
  BY <1>3, InitialAssumption DEF Believed
<1>5. Tested(nothing, {}) /\ OneStory({}, nothing) /\ Judged(nothing, {}, cut)
  BY <1>3 DEF Tested, OneStory, Judged
<1> QED
  BY <1>1, <1>2, <1>3, <1>4, <1>5 DEF Sound, nothing

LEMMA PipelineInitInv == PipelineInit => PipelineInv
<1> SUFFICES ASSUME PipelineInit PROVE PipelineInv
  OBVIOUS
<1>1. /\ Sound(st, asOf) /\ st.node = "derive_predictions" /\ draft = st
      /\ st.trials = {} /\ st.evidence = << >>
      /\ ledger = << >> /\ rows.trials = {} /\ rows.evidence = << >>
      /\ path = <<st>> /\ pos = 1
  BY InputsAreSound DEF PipelineInit
<1>2. /\ path \in Seq({st}) /\ Len(path) = 1 /\ DOMAIN path = {1} /\ path[1] = st
  BY <1>1
<1>3. DOMAIN ledger = {}
  BY <1>1
<1>4. Laid(rows, path, asOf)
  <2>1. \E S : path \in Seq(S)
    BY <1>2
  <2> QED
    BY <1>1, <1>2, <2>1 DEF Laid, Nodes
<1>5. Kept(ledger, rows, path) /\ IsFunction(ledger)
  BY <1>1, <1>3 DEF Kept, IsFunction
<1>6. Ahead(ledger, rows, asOf, path[Len(path)], Drafts(pos, draft, Len(path)))
  BY <1>1, <1>2 DEF Ahead
<1>7. Alike(st, path[pos])
  BY <1>1, <1>2, AlikeItself DEF Sound
<1>8. Told(ledger, rows, path, asOf, pos, draft, st)
  BY <1>1, <1>2, <1>4, <1>5, <1>6, <1>7 DEF Told
<1>9. asked = << >> /\ ~refused /\ clock = 1 /\ puts = {[at |-> 1, state |-> st]}
  BY DEF PipelineInit
<1>10. DOMAIN asked = {}
  BY <1>9
<1>11. Requested(ledger, asked, path)
  BY <1>10 DEF Requested
<1>12. PutOnPath(puts, path)
  BY <1>1, <1>2, <1>7, <1>9 DEF PutOnPath
<1> QED
  BY <1>5, <1>8, <1>9, <1>11, <1>12 DEF PipelineInv

Entered(L, key, r) == Extended(L, [k \in {key} |-> r])

LEMMA KeepsIs ==
    ASSUME NEW L, IsFunction(L), NEW key, NEW r,
           key \in DOMAIN L => r = L[key]
    PROVE  /\ Grown(L, Entered(L, key, r)) /\ IsFunction(Entered(L, key, r))
           /\ DOMAIN Entered(L, key, r) = DOMAIN L \cup {key}
           /\ Entered(L, key, r)[key] = r
           /\ key \in DOMAIN L => Entered(L, key, r) = L
<1> DEFINE M == Entered(L, key, r)
<1>1. Grown(L, M) /\ DOMAIN M = DOMAIN L \cup {key} /\ M[key] = r
  BY DEF Grown, Extended, Entered
<1>2. IsFunction(M)
  BY DEF IsFunction, Extended, Entered
<1>3. key \in DOMAIN L => M = L
  BY <1>1, <1>2 DEF IsFunction, Grown
<1> QED
  BY <1>1, <1>2, <1>3

\* A superstep, wherever it goes.
Reached ==
    /\ draft' = st' /\ pos' = pos + 1
    /\ puts' = puts \cup {[at |-> pos', state |-> st']}
    /\ path' = IF pos = Len(path) THEN Append(path, st') ELSE path
    /\ asOf' = asOf /\ clock' = clock /\ refused' = refused

\* No two places on the path are asked from under one key.
LEMMA OnePlace ==
    ASSUME NEW R, NEW P, NEW cut, Laid(R, P, cut),
           NEW j \in DOMAIN P, NEW k \in DOMAIN P, Position(P[j]) = Position(P[k])
    PROVE  j = k
<1>1. Rank(P[j]) = Rank(P[k])
  BY DEF Position, Rank
<1>2. Rank(P[j]) \in Int /\ Rank(P[k]) \in Int
  BY RankIsInt DEF Laid
<1>3. ~(j < k) /\ ~(k < j)
  BY <1>1, <1>2 DEF Laid
<1>4. j \in Nat /\ k \in Nat
  BY DEF Laid
<1> QED
  BY <1>3, <1>4

\* What the run asked and the checkpoints it put, a superstep later.
LEMMA OnwardKeeps ==
    ASSUME PipelineInv, ~refused, Reached,
           Told(ledger', rows', path', asOf', pos', draft', st'),
           Grown(ledger, ledger'), IsFunction(ledger'),
           \/ asked' = asked
           \/ /\ asked' = Extended(asked, [k \in {Position(st)} |-> Shown(st)])
              /\ Position(st) \in DOMAIN ledger'
    PROVE  PipelineInv'
<1>1. /\ Laid(rows, path, asOf) /\ pos \in DOMAIN path /\ Alike(st, path[pos])
      /\ Laid(rows', path', asOf') /\ pos' \in DOMAIN path' /\ Alike(st', path'[pos'])
  BY DEF PipelineInv, Told
<1>2. /\ DOMAIN path \subseteq DOMAIN path'
      /\ \A k \in DOMAIN path : path'[k] = path[k]
      /\ \A k \in DOMAIN path' : k \in DOMAIN path \/ (k = pos' /\ pos' = Len(path'))
  <2>1. PICK S : path \in Seq(S)
    BY <1>1 DEF Laid
  <2>2. CASE pos = Len(path)
    BY <2>1, <2>2 DEF Reached
  <2>3. CASE pos # Len(path)
    BY <2>3 DEF Reached
  <2> QED
    BY <2>2, <2>3
<1>3. /\ DOMAIN asked \subseteq DOMAIN asked'
      /\ \A key \in DOMAIN asked : asked'[key] = asked[key]
      /\ \A key \in DOMAIN asked' :
            \/ key \in DOMAIN asked
            \/ key = Position(st) /\ asked'[key] = Shown(st)
  BY DEF Extended
<1>4. DOMAIN asked' \subseteq DOMAIN ledger'
  BY <1>3 DEF PipelineInv, Requested, Grown, Extended
<1>5. ASSUME NEW k \in DOMAIN path', Position(path'[k]) \in DOMAIN asked'
      PROVE  \E s : Alike(s, path'[k]) /\ asked'[Position(path'[k])] = Shown(s)
  <2>1. CASE k \notin DOMAIN path
    <3>1. k = pos' /\ pos' = Len(path')
      BY <1>2, <2>1
    <3>2. Position(st') \notin DOMAIN ledger'
      BY <3>1, PositionIsNew
    <3>3. Position(path'[k]) = Position(st')
      BY <1>1, <3>1 DEF Alike, Position
    <3> QED
      BY <1>4, <1>5, <3>2, <3>3
  <2>2. CASE k \in DOMAIN path /\ Position(path[k]) \in DOMAIN asked
    BY <1>2, <1>3, <2>2 DEF PipelineInv, Requested
  <2>3. CASE k \in DOMAIN path /\ Position(path[k]) \notin DOMAIN asked
    <3>1. Position(path[k]) = Position(st) /\ asked'[Position(st)] = Shown(st)
      BY <1>2, <1>3, <1>5, <2>3
    <3>2. Position(st) = Position(path[pos])
      BY <1>1 DEF Alike, Position
    <3>3. k = pos
      BY <1>1, <2>3, <3>1, <3>2, OnePlace
    <3> QED
      BY <1>1, <1>2, <3>1, <3>3
  <2> QED
    BY <2>1, <2>2, <2>3
<1>6. Requested(ledger', asked', path')
  BY <1>4, <1>5 DEF Requested
<1>7. ASSUME NEW put \in puts' PROVE put.at \in DOMAIN path' /\ Alike(put.state, path'[put.at])
  <2>1. CASE put \in puts
    BY <1>2, <2>1 DEF PipelineInv, PutOnPath
  <2>2. CASE put = [at |-> pos', state |-> st']
    BY <1>1, <2>2
  <2> QED
    BY <2>1, <2>2 DEF Reached
<1>8. PutOnPath(puts', path') /\ ~refused' /\ clock' \in Nat
  BY <1>7 DEF PutOnPath, Reached, PipelineInv
<1> QED
  BY <1>6, <1>8 DEF PipelineInv

\* What a node's step leaves, in the run's own variables.
LEMMA NodeSteps ==
    ASSUME PipelineInv, st.node # "execute_investigation",
           Reached, Does(ledger', asOf, st, st'),
           Grown(ledger, ledger'), IsFunction(ledger'),
           DOMAIN ledger' \subseteq DOMAIN ledger \cup {Position(st)},
           ledger' = ledger \/ (st.node \in Asking /\ Position(st) \notin DOMAIN ledger),
           rows' = rows, ~refused,
           \/ asked' = asked
           \/ /\ asked' = Extended(asked, [k \in {Position(st)} |-> Shown(st)])
              /\ Position(st) \in DOMAIN ledger',
           st.node = "termination_check" /\ pos = Len(path) =>
               st'.node \in {"propose_conclusion", "challenge_hypothesis",
                             "plan_investigation"}
    PROVE  PipelineInv' /\ Final(st, st')
<1>1. Sound(st, asOf)
  BY StandsAtNode DEF PipelineInv
<1>2. Sound(st', asOf) /\ Final(st, st')
  BY <1>1, DoesSound
<1>3. pos = Len(path) =>
         /\ Sound(st', asOf) /\ st'.node \in Nodes /\ Rank(st) < Rank(st')
         /\ st'.trials = st.trials /\ st'.evidence = st.evidence
  BY <1>1, <1>2, DoesMove
<1>4. Told(ledger', rows, IF pos = Len(path) THEN Append(path, st') ELSE path,
           asOf, pos + 1, st', st')
  BY <1>3, Reaches DEF PipelineInv
<1>5. Told(ledger', rows', path', asOf', pos', draft', st')
  BY <1>4 DEF Reached
<1> QED
  BY <1>2, <1>5, OnwardKeeps

LEMMA SilentNodeSteps ==
    ASSUME PipelineInv, st.node # "execute_investigation", st.node # "termination_check",
           st.node \notin Asks,
           Reached, Does(ledger, asOf, st, st'), UNCHANGED <<ledger, asked, rows>>
    PROVE  PipelineInv' /\ Final(st, st')
<1>1. Grown(ledger, ledger') /\ IsFunction(ledger') /\ ledger' = ledger
      /\ DOMAIN ledger' \subseteq DOMAIN ledger \cup {Position(st)}
  BY DEF Grown, PipelineInv
<1>2. Does(ledger', asOf, st, st') /\ ~refused
  BY <1>1 DEF PipelineInv
<1> QED
  BY <1>1, <1>2, NodeSteps

LEMMA DeriveStep == PipelineInv /\ Derive => PipelineInv' /\ Final(st, st')
<1> SUFFICES ASSUME PipelineInv, Derive PROVE PipelineInv' /\ Final(st, st')
  OBVIOUS
<1>1. /\ st.node = "derive_predictions" /\ st' = Derived(st) /\ Reached
      /\ UNCHANGED <<ledger, asked, rows>>
  BY DEF Derive, Reach, Reached, runVars
<1>2. Does(ledger, asOf, st, st') /\ st.node \notin Asks
  BY <1>1 DEF Does, Asks
<1> QED
  BY <1>1, <1>2, SilentNodeSteps

LEMMA PlanStep == PipelineInv /\ Plan => PipelineInv' /\ Final(st, st')
<1> SUFFICES ASSUME PipelineInv, Plan PROVE PipelineInv' /\ Final(st, st')
  OBVIOUS
<1>1. /\ st.node = "plan_investigation" /\ st' = WithPlan(st) /\ Reached
      /\ UNCHANGED <<ledger, asked, rows>>
  BY DEF Plan, Reach, Reached, runVars
<1>2. Does(ledger, asOf, st, st') /\ st.node \notin Asks
  BY <1>1 DEF Does, Asks
<1> QED
  BY <1>1, <1>2, SilentNodeSteps

LEMMA EvaluateStep ==
    PipelineInv /\ EvaluatePredictions => PipelineInv' /\ Final(st, st')
<1> SUFFICES ASSUME PipelineInv, EvaluatePredictions PROVE PipelineInv' /\ Final(st, st')
  OBVIOUS
<1>1. /\ st.node = "evaluate_predictions" /\ st' = Evaluated(st, asOf) /\ Reached
      /\ UNCHANGED <<ledger, asked, rows>>
  BY DEF EvaluatePredictions, Cut, Reach, Reached, runVars
<1>2. Does(ledger, asOf, st, st') /\ st.node \notin Asks
  BY <1>1 DEF Does, Asks
<1> QED
  BY <1>1, <1>2, SilentNodeSteps

LEMMA ReferStep ==
    PipelineInv /\ DeriveHypothesisState => PipelineInv' /\ Final(st, st')
<1> SUFFICES ASSUME PipelineInv, DeriveHypothesisState PROVE PipelineInv' /\ Final(st, st')
  OBVIOUS
<1>1. /\ st.node = "derive_hypothesis_state" /\ st' = Referred(st) /\ Reached
      /\ UNCHANGED <<ledger, asked, rows>>
  BY DEF DeriveHypothesisState, Reach, Reached, runVars
<1>2. Does(ledger, asOf, st, st') /\ st.node \notin Asks
  BY <1>1 DEF Does, Asks
<1> QED
  BY <1>1, <1>2, SilentNodeSteps

\* What a node that asks finds in the ledger, or leaves there.
LEMMA AskingKeeps ==
    ASSUME PipelineInv, NEW results, NEW r \in Committed(Position(st), results),
           Keeps(Position(st), r)
    PROVE  /\ Grown(ledger, ledger') /\ IsFunction(ledger')
           /\ DOMAIN ledger' \subseteq DOMAIN ledger \cup {Position(st)}
           /\ ledger' = ledger \/ Position(st) \notin DOMAIN ledger
           /\ Position(st) \in DOMAIN ledger' /\ ledger'[Position(st)] = r
           /\ pos = Len(path) => r \in results
<1>1. Position(st) \in DOMAIN ledger => r = ledger[Position(st)]
  BY DEF Committed
<1>2. pos = Len(path) => Position(st) \notin DOMAIN ledger
  BY PositionIsNew DEF PipelineInv
<1>3. pos = Len(path) => r \in results
  BY <1>2 DEF Committed
<1>4. /\ IsFunction(ledger)
      /\ ledger' = Entered(ledger, Position(st), r)
  BY DEF PipelineInv, Keeps, Entered
<1>5. /\ Grown(ledger, ledger') /\ IsFunction(ledger')
      /\ DOMAIN ledger' = DOMAIN ledger \cup {Position(st)}
      /\ ledger'[Position(st)] = r
      /\ ledger' = ledger \/ Position(st) \notin DOMAIN ledger
  BY <1>1, <1>4, KeepsIs
<1> QED
  BY <1>3, <1>5

LEMMA InterpretStep == PipelineInv /\ Interpret => PipelineInv' /\ Final(st, st')
<1> SUFFICES ASSUME PipelineInv, Interpret PROVE PipelineInv' /\ Final(st, st')
  OBVIOUS
<1>1. PICK r \in Committed(Position(st), Readings) :
         KeepsAnswer(r) /\ Reach(Interpreted(st, r, clock))
  BY DEF Interpret
<1>2. /\ st.node = "interpret_residual_evidence" /\ rows' = rows
      /\ st' = Interpreted(st, r, clock) /\ Reached /\ ~refused
      /\ Keeps(Position(st), r)
      /\ asked' = Extended(asked, [k \in {Position(st)} |-> Shown(st)])
  BY <1>1 DEF Interpret, KeepsAnswer, Reach, Reached, runVars
<1>3. /\ Grown(ledger, ledger') /\ IsFunction(ledger')
      /\ DOMAIN ledger' \subseteq DOMAIN ledger \cup {Position(st)}
      /\ ledger' = ledger \/ Position(st) \notin DOMAIN ledger
      /\ Position(st) \in DOMAIN ledger' /\ ledger'[Position(st)] = r
  BY <1>1, <1>2, AskingKeeps
<1>4. Does(ledger', asOf, st, st')
  BY <1>2, <1>3 DEF Does
<1>5. st.node \in Asking /\ st.node # "execute_investigation" /\ st.node # "termination_check"
  BY <1>2 DEF Asking
<1> QED
  BY <1>2, <1>3, <1>4, <1>5, NodeSteps

LEMMA TerminationStep ==
    PipelineInv /\ TerminationCheck => PipelineInv' /\ Final(st, st')
<1> SUFFICES ASSUME PipelineInv, TerminationCheck PROVE PipelineInv' /\ Final(st, st')
  OBVIOUS
<1> DEFINE ways == {"propose_conclusion"}
               \cup {x \in {"challenge_hypothesis"} : st.rounds < limits.challenges}
               \cup {x \in {"plan_investigation"} : st.laps < limits.iterations}
<1>1. PICK n \in Committed(Position(st), ways) :
         Keeps(Position(st), n) /\ Reach([st EXCEPT !.node = n])
  BY DEF TerminationCheck
<1>2. /\ st.node = "termination_check" /\ rows' = rows
      /\ st' = [st EXCEPT !.node = n] /\ Reached /\ asked' = asked
  BY <1>1 DEF TerminationCheck, Reach, Reached, runVars
<1>3. ways \subseteq {"propose_conclusion", "challenge_hypothesis", "plan_investigation"}
  OBVIOUS
<1> HIDE DEF ways
<1>4. /\ Grown(ledger, ledger') /\ IsFunction(ledger')
      /\ DOMAIN ledger' \subseteq DOMAIN ledger \cup {Position(st)}
      /\ ledger' = ledger \/ Position(st) \notin DOMAIN ledger
      /\ Position(st) \in DOMAIN ledger' /\ ledger'[Position(st)] = n
      /\ pos = Len(path) => n \in ways
  BY <1>1, AskingKeeps
<1>5. Does(ledger', asOf, st, st')
  BY <1>2, <1>4 DEF Does
<1>6. st'.node = n
  <2>1. Sound(st, asOf)
    BY StandsAtNode DEF PipelineInv
  <2> QED
    BY <1>2, <2>1 DEF Sound, Shaped
<1>7. st.node \in Asking /\ st.node # "execute_investigation" /\ ~refused
  BY <1>2 DEF Asking, Asks, PipelineInv
<1> QED
  BY <1>2, <1>3, <1>4, <1>5, <1>6, <1>7, NodeSteps

LEMMA ChallengeStep ==
    PipelineInv /\ ChallengeHypothesis => PipelineInv' /\ Final(st, st')
<1> SUFFICES ASSUME PipelineInv, ChallengeHypothesis PROVE PipelineInv' /\ Final(st, st')
  OBVIOUS
<1>1. PICK r \in Committed(Position(st), Answerable(st)) :
         KeepsAnswer(r) /\ Reach(Challenged(st, r))
  BY DEF ChallengeHypothesis
<1>2. /\ st.node = "challenge_hypothesis" /\ rows' = rows
      /\ st' = Challenged(st, r) /\ Reached /\ ~refused
      /\ Keeps(Position(st), r)
      /\ asked' = Extended(asked, [k \in {Position(st)} |-> Shown(st)])
  BY <1>1 DEF ChallengeHypothesis, KeepsAnswer, Reach, Reached, runVars
<1>3. /\ Grown(ledger, ledger') /\ IsFunction(ledger')
      /\ DOMAIN ledger' \subseteq DOMAIN ledger \cup {Position(st)}
      /\ ledger' = ledger \/ Position(st) \notin DOMAIN ledger
      /\ Position(st) \in DOMAIN ledger' /\ ledger'[Position(st)] = r
  BY <1>1, <1>2, AskingKeeps
<1>4. r \in Answerable(st)
  BY <1>1, <1>2, ChallengeIsAnswerable DEF PipelineInv, Committed
<1>5. Does(ledger', asOf, st, st')
  BY <1>2, <1>3, <1>4 DEF Does
<1>6. st.node \in Asking /\ st.node # "execute_investigation" /\ st.node # "termination_check"
  BY <1>2 DEF Asking
<1> QED
  BY <1>2, <1>3, <1>5, <1>6, NodeSteps

-----------------------------------------------------------------------------
(* Execution. *)

LEMMA MapOutcomeIsAnswered ==
    ASSUME NEW o \in SourceOutcome
    PROVE  Answered(MapOutcome(o))
<1>1. CASE o \in [status : {"ok"}, sound : BOOLEAN,
                  output : {s \in SUBSET Served : Cardinality(s) <= MaxServed}]
  BY <1>1, AnswersAssumption DEF MapOutcome, Answered, Answer
<1>2. CASE o \in [status : {"refused"}, reason : {"adapter_error", "timeout"}]
  BY <1>2 DEF MapOutcome, Answered, Answer
<1> QED
  BY <1>1, <1>2 DEF SourceOutcome

LEMMA ReplayIsAnswered ==
    ASSUME NEW r
    PROVE  Answered(ReplayAnswer(r))
<1>1. CASE \E i \in DOMAIN Recorded : Recorded[i].request = r
  <2>1. PICK i \in DOMAIN Recorded : ReplayAnswer(r) = Recorded[i].answer
    BY <1>1, Zenon DEF ReplayAnswer
  <2> QED
    BY <2>1, AnswersAssumption DEF Answered
<1>2. CASE ~\E i \in DOMAIN Recorded : Recorded[i].request = r
  <2>1. Measuring(r) \subseteq DOMAIN Evidence
    BY AnswersAssumption DEF Measuring
  <2> QED
    BY <1>2, <2>1 DEF ReplayAnswer, Answer, Answered
<1> QED
  BY <1>1, <1>2

LEMMA ExecuteIsAnswered ==
    ASSUME NEW r, NEW answer \in Execute(r)
    PROVE  Answered(answer)
BY MapOutcomeIsAnswered, ReplayIsAnswered DEF Execute

LEMMA ExecuteStep == PipelineInv /\ ExecuteTest => PipelineInv'
<1> SUFFICES ASSUME PipelineInv, ExecuteTest PROVE PipelineInv'
  OBVIOUS
<1> DEFINE i == NextTest(draft)
           test == draft.tests[i]
           key == TrialKey(draft)
<1>1. PICK answer \in Committed(key, Execute(test.request)) :
         /\ Keeps(key, answer)
         /\ draft' = WithTrial(draft, i, answer)
         /\ IF key \in DOMAIN ledger THEN UNCHANGED rows ELSE Project(test, answer)
  BY DEF ExecuteTest
<1>2. /\ st.node = "execute_investigation" /\ Planned(draft) # {}
      /\ st' = st /\ path' = path /\ pos' = pos /\ asOf' = asOf
      /\ asked' = asked /\ refused' = refused /\ puts' = puts /\ clock' = clock
  BY DEF ExecuteTest, runVars
<1>3. IsFunction(ledger) /\ Told(ledger, rows, path, asOf, pos, draft, st)
  BY DEF PipelineInv
<1>4. key \in DOMAIN ledger => answer = ledger[key]
  BY <1>1 DEF Committed
<1>5. /\ IsFunction(ledger') /\ DOMAIN ledger \subseteq DOMAIN ledger'
      /\ ledger' = ledger \/ key \notin DOMAIN ledger
  <2>1. ledger' = Entered(ledger, key, answer)
    BY <1>1 DEF Keeps, Entered
  <2> HIDE DEF key
  <2> QED
    BY <1>3, <1>4, <2>1, KeepsIs
<1>8. /\ Requested(ledger', asked', path') /\ PutOnPath(puts', path')
      /\ (refused' => st'.node \in Asks /\ ~SameRequest') /\ clock' \in Nat
  BY <1>2, <1>5 DEF PipelineInv, Requested, SameRequest
<1>6. CASE key \in DOMAIN ledger
  <2>1. Told(ledger, rows, path, asOf, pos, WithTrial(draft, i, answer), st)
    BY <1>2, <1>3, <1>4, <1>6, TestReturns
  <2> QED
    BY <1>1, <1>2, <1>5, <1>6, <1>8, <2>1 DEF PipelineInv
<1>7. CASE key \notin DOMAIN ledger
  <2>1. Answered(answer)
    BY <1>1, <1>7, ExecuteIsAnswered DEF Committed
  <2>2. /\ ledger' = Extended(ledger, [k \in {key} |-> answer])
        /\ rows' = [trials |-> rows.trials \cup {TrialOf(draft, test, answer)},
                    evidence |-> Extended(Credited(TrialOf(draft, test, answer)),
                                          rows.evidence)]
    BY <1>1, <1>7 DEF Keeps, Project
  <2>3. Told(ledger', rows', path, asOf, pos, WithTrial(draft, i, answer), st)
    BY <1>2, <1>3, <1>7, <2>1, <2>2, TestIsRun
  <2> QED
    BY <1>1, <1>2, <1>5, <1>8, <2>3 DEF PipelineInv
<1> QED
  BY <1>6, <1>7

LEMMA AlikeRules ==
    ASSUME NEW s, NEW t, Alike(s, t), NEW a, a.producedBy = "rule"
    PROVE  a \in s.assessments <=> a \in t.assessments
<1>1. \A x, y : Assessed(x) /\ Assessed(y) /\ SameReading(x, y) /\ x.producedBy = "rule" => x = y
  BY DEF Assessed, SameReading
<1> QED
  BY <1>1 DEF Alike, SameReadings, SameReading

\* What the invariant says of the state, the draft and the rows.
LEMMA ToldIsSound ==
    ASSUME NEW L, NEW R, NEW P, NEW cut, NEW p, NEW d, NEW s,
           Told(L, R, P, cut, p, d, s)
    PROVE  /\ Sound(s, cut) /\ Sound(d, cut)
           /\ OneStory(R.trials, R.evidence)
           /\ d.trials \subseteq R.trials
           /\ d.hypotheses = s.hypotheses /\ d.predictions = s.predictions
           /\ \A a : a.producedBy = "rule" => (a \in d.assessments <=> a \in s.assessments)
<1>1. /\ s.node = P[p].node /\ Sound(s, cut) /\ s.trials = P[p].trials
      /\ p \in DOMAIN P /\ Len(P) \in DOMAIN P /\ Laid(R, P, cut)
      /\ p = Len(P) \/ p < Len(P)
  BY StandsAtNode DEF Told, Laid
<1>2. OneStory(R.trials, R.evidence)
  <2>1. CASE P[Len(P)].node = "execute_investigation"
    <3>1. PICK C, f : /\ Walked(C, f, L, R, P[Len(P)], cut)
                      /\ R.trials = f.trials /\ R.evidence = f.evidence
      BY <2>1 DEF Told, Ahead
    <3> QED
      BY <3>1 DEF Walked, Sound
  <2>2. CASE P[Len(P)].node # "execute_investigation"
    BY <1>1, <2>2 DEF Told, Ahead, Laid, Sound
  <2> QED
    BY <2>1, <2>2
<1>3. CASE s.node # "execute_investigation"
  <2>1. d = s
    BY <1>3 DEF Told
  <2>2. d.trials \subseteq R.trials
    BY <1>1, <2>1 DEF Laid
  <2> QED
    BY <1>1, <1>2, <2>1, <2>2
<1>4. CASE s.node = "execute_investigation"
  <2>1. \E C, f : Walked(C, f, L, R, P[p], cut) /\ Among(Drafts(p, d, p), C)
    <3>1. CASE p < Len(P)
      BY <1>1, <1>4, <3>1 DEF Told, Leads
    <3>2. CASE p = Len(P)
      BY <1>1, <1>4, <3>2 DEF Told, Ahead
    <3> QED
      BY <1>1, <3>1, <3>2
  <2>2. PICK C, f : Walked(C, f, L, R, P[p], cut) /\ Among(Drafts(p, d, p), C)
    BY <2>1
  <2>3. PICK w \in C : Alike(d, w) /\ Sound(w, cut)
    BY <1>4, <2>2, DraftStands
  <2>4. /\ w.hypotheses = P[p].hypotheses /\ w.predictions = P[p].predictions
        /\ w.assessments = P[p].assessments /\ w.trials \subseteq R.trials
    BY <2>2 DEF Walked
  <2>5. Sound(d, cut)
    BY <2>3, SoundAlike
  <2>6. /\ d.hypotheses = w.hypotheses /\ d.predictions = w.predictions /\ d.trials = w.trials
    BY <2>3 DEF Alike
  <2>7. Alike(s, P[p])
    BY DEF Told
  <2>8. s.hypotheses = P[p].hypotheses /\ s.predictions = P[p].predictions
    BY <2>7 DEF Alike
  <2>9. ASSUME NEW a, a.producedBy = "rule" PROVE a \in d.assessments <=> a \in s.assessments
    BY <2>3, <2>4, <2>7, <2>9, AlikeRules
  <2> QED
    BY <1>1, <1>2, <2>4, <2>5, <2>6, <2>8, <2>9
<1> QED
  BY <1>3, <1>4

LEMMA EndStep == PipelineInv /\ ExecutionEnds => PipelineInv' /\ Final(st, st')
<1> SUFFICES ASSUME PipelineInv, ExecutionEnds PROVE PipelineInv' /\ Final(st, st')
  OBVIOUS
<1>1. /\ st.node = "execute_investigation" /\ Planned(draft) = {} /\ Reached
      /\ st' = [draft EXCEPT !.node = "evaluate_predictions"]
      /\ ledger' = ledger /\ asked' = asked /\ rows' = rows
  BY DEF ExecutionEnds, Reach, Reached, runVars
<1>2. IsFunction(ledger) /\ Told(ledger, rows, path, asOf, pos, draft, st)
  BY DEF PipelineInv
<1>3. Told(ledger, rows, IF pos = Len(path) THEN Append(path, st') ELSE path,
           asOf, pos + 1, st', st')
  <2>1. pos = Len(path) \/ (pos < Len(path) /\ pos # Len(path))
    BY <1>2, StandsAtNode
  <2> QED
    BY <1>1, <1>2, <2>1, ExecutionIsOver
<1>4. PipelineInv'
  <2>1. Told(ledger', rows', path', asOf', pos', draft', st')
    BY <1>1, <1>3 DEF Reached
  <2>2. ~refused /\ Grown(ledger, ledger') /\ IsFunction(ledger')
    BY <1>1, <1>2 DEF PipelineInv, Asks, Grown
  <2> QED
    BY <1>1, <2>1, <2>2, OnwardKeeps
<1>5. /\ Sound(draft, asOf) /\ draft.predictions = st.predictions
      /\ \A a : a.producedBy = "rule" => (a \in draft.assessments <=> a \in st.assessments)
  BY <1>2, ToldIsSound
<1>6. st'.predictions = draft.predictions /\ st'.assessments = draft.assessments
  BY <1>1, <1>5 DEF Sound, Shaped
<1> QED
  BY <1>4, <1>5, <1>6 DEF Final

LEMMA CrashStep == PipelineInv /\ Crash => PipelineInv'
<1> SUFFICES ASSUME PipelineInv, Crash PROVE PipelineInv'
  OBVIOUS
<1>1. PICK put \in puts : pos' = put.at /\ st' = put.state /\ draft' = put.state
  BY DEF Crash
<1>2. /\ asOf' = asOf /\ ledger' = ledger /\ rows' = rows /\ path' = path
      /\ asked' = asked /\ puts' = puts /\ refused' = FALSE /\ clock' = clock + 1
  BY DEF Crash, runVars
<1>3. Told(ledger, rows, path, asOf, pos, draft, st)
  BY DEF PipelineInv
<1>4. put.at \in DOMAIN path /\ Alike(put.state, path[put.at])
  BY DEF PipelineInv, PutOnPath
<1>5. Told(ledger, rows, path, asOf, put.at, put.state, put.state)
  BY <1>3, <1>4, ResumesAt
<1> QED
  BY <1>1, <1>2, <1>5 DEF PipelineInv

LEMMA RefuseStep == PipelineInv /\ RefuseRequest => PipelineInv'
<1> SUFFICES ASSUME PipelineInv, RefuseRequest PROVE PipelineInv'
  OBVIOUS
<1>1. /\ st' = st /\ draft' = draft /\ asOf' = asOf /\ clock' = clock
      /\ ledger' = ledger /\ asked' = asked /\ rows' = rows /\ puts' = puts
      /\ path' = path /\ pos' = pos
  BY DEF RefuseRequest, runVars
<1>2. st'.node \in Asks /\ ~SameRequest'
  BY <1>1 DEF RefuseRequest, SameRequest
<1> QED
  BY <1>1, <1>2 DEF PipelineInv

LEMMA FinalItself == PipelineInv => Final(st, st)
BY ToldIsSound DEF PipelineInv, Final, Sound

LEMMA PipelineStep ==
    PipelineInv /\ [PipelineNext]_vars =>
        PipelineInv' /\ (clock' = clock => Final(st, st'))
<1> SUFFICES ASSUME PipelineInv, [PipelineNext]_vars
             PROVE  PipelineInv' /\ (clock' = clock => Final(st, st'))
  OBVIOUS
<1>1. Final(st, st) /\ clock \in Nat
  BY FinalItself DEF PipelineInv
<1>2. CASE UNCHANGED vars
  <2>1. PipelineInv'
    BY <1>2 DEF PipelineInv, SameRequest, vars, runVars
  <2> QED
    BY <1>1, <1>2, <2>1 DEF vars
<1>3. CASE Crash
  <2>1. clock' # clock
    BY <1>1, <1>3 DEF Crash
  <2> QED
    BY <1>3, <2>1, CrashStep
<1>4. CASE ExecuteTest
  BY <1>1, <1>4, ExecuteStep DEF ExecuteTest
<1>5. CASE RefuseRequest
  BY <1>1, <1>5, RefuseStep DEF RefuseRequest
<1>6. CASE \/ Derive \/ Plan \/ ExecutionEnds \/ EvaluatePredictions \/ Interpret
           \/ DeriveHypothesisState \/ TerminationCheck \/ ChallengeHypothesis
  BY <1>6, DeriveStep, PlanStep, EndStep, EvaluateStep, InterpretStep, ReferStep,
     TerminationStep, ChallengeStep
<1> QED
  BY <1>2, <1>3, <1>4, <1>5, <1>6 DEF PipelineNext, NodeStep

\* The path of a run is what its ledger makes of its first state, and the run is
\* on it.
THEOREM PipelineInvariant == PipelineSpec => []PipelineInv
<1>1. PipelineInit => PipelineInv
  BY PipelineInitInv
<1>2. PipelineInv /\ [PipelineNext]_vars => PipelineInv'
  BY PipelineStep
<1> QED
  BY <1>1, <1>2, PTL DEF PipelineSpec

LEMMA InvEvidenceHasOneTrial == PipelineInv => EvidenceHasOneTrial
<1> SUFFICES ASSUME PipelineInv PROVE EvidenceHasOneTrial
  OBVIOUS
<1>1. /\ Sound(draft, asOf) /\ OneStory(rows.trials, rows.evidence)
      /\ draft.trials \subseteq rows.trials
  BY ToldIsSound DEF PipelineInv
<1> QED
  BY <1>1 DEF EvidenceHasOneTrial, Sound

LEMMA TestedRunsOnce ==
    ASSUME NEW tests, NEW trials, Tested(tests, trials), NEW i \in DOMAIN tests,
           NEW own, own = {t \in trials : t.test = tests[i].id}
    PROVE  /\ Cardinality(own) = IF tests[i].status = "planned" THEN 0 ELSE 1
           /\ \A t \in own : StatusOf(t) = tests[i].status
<1>1. \A t \in own : StatusOf(t) = tests[i].status /\ tests[i].status # "planned"
  BY DEF Tested
<1>2. CASE tests[i].status = "planned"
  <2>1. own = {}
    BY <1>1, <1>2
  <2> QED
    BY <1>1, <1>2, <2>1, FS_EmptySet
<1>3. CASE tests[i].status # "planned"
  <2>1. PICK t \in own : TRUE
    BY <1>3 DEF Tested
  <2>2. own = {t}
    BY DEF Tested
  <2> QED
    BY <1>1, <1>3, <2>2, FS_Singleton
<1> QED
  BY <1>2, <1>3

LEMMA InvTestsRunOnce == PipelineInv => TestsRunOnce
<1> SUFFICES ASSUME PipelineInv PROVE TestsRunOnce
  OBVIOUS
<1>1. Tested(draft.tests, draft.trials)
  BY ToldIsSound DEF PipelineInv, Sound
<1>2. \A i, j \in DOMAIN draft.tests :
         i < j /\ draft.tests[i].request = draft.tests[j].request =>
             draft.tests[j].id # draft.tests[j].request
  BY <1>1 DEF Tested
<1>3. ASSUME NEW i \in DOMAIN draft.tests
      PROVE  LET own == {t \in draft.trials : t.test = draft.tests[i].id}
             IN  /\ Cardinality(own) = IF draft.tests[i].status = "planned" THEN 0 ELSE 1
                 /\ \A t \in own : StatusOf(t) = draft.tests[i].status
  BY <1>1, TestedRunsOnce
<1> QED
  BY <1>2, <1>3 DEF TestsRunOnce

LEMMA InvVerdictsRestOnEvidence == PipelineInv => VerdictsRestOnEvidence
<1> SUFFICES ASSUME PipelineInv, NEW i \in DOMAIN st.predictions
             PROVE  LET p == st.predictions[i]
                        own == {a \in st.assessments : /\ a.prediction = PredictionId(p)
                                                       /\ a.producedBy = "rule"}
                    IN  /\ own # {} <=> Decided(p)
                        /\ \A a \in own : Rests(p, a, asOf)
  BY DEF VerdictsRestOnEvidence, Rests
<1>1. Sound(st, asOf)
  BY ToldIsSound DEF PipelineInv
<1>2. \A j \in DOMAIN st.predictions :
         PredictionId(st.predictions[j]) = PredictionId(st.predictions[i]) => j = i
  BY <1>1 DEF Sound, Believed
<1>3. ASSUME NEW a \in st.assessments, a.prediction = PredictionId(st.predictions[i]),
             a.producedBy = "rule"
      PROVE  Decided(st.predictions[i]) /\ Rests(st.predictions[i], a, asOf)
  BY <1>1, <1>2, <1>3 DEF Sound, Judged
<1>4. Decided(st.predictions[i]) =>
         \E a \in st.assessments : /\ a.prediction = PredictionId(st.predictions[i])
                                   /\ a.producedBy = "rule"
  BY <1>1 DEF Sound, Judged
<1> QED
  BY <1>3, <1>4

\* Without the stamps, like states show a role the same.
LEMMA AlikeShown ==
    ASSUME NEW s, NEW t, Alike(s, t)
    PROVE  /\ Unstamped(Shown(s)) = Unstamped(Shown(t))
           /\ (\A a \in t.assessments : a.producedBy # "llm") => Shown(s) = Shown(t)
<1>1. s.hypotheses = t.hypotheses /\ s.predictions = t.predictions /\ s.evidence = t.evidence
  BY DEF Alike
<1> DEFINE Bare(A) == {IF a.producedBy = "llm" THEN [a EXCEPT !.at = 0] ELSE a : a \in A}
<1>2. Bare(s.assessments) = Bare(t.assessments)
  <2>1. Unstamped(s) = Unstamped(t) /\ Shaped(s) /\ Shaped(t)
    BY AlikeUnstamped DEF Alike
  <2>2. /\ Unstamped(s) = [s EXCEPT !.assessments = Bare(s.assessments)]
        /\ Unstamped(t) = [t EXCEPT !.assessments = Bare(t.assessments)]
    BY DEF Unstamped
  <2> HIDE DEF Bare
  <2>3. /\ Unstamped(s).assessments = Bare(s.assessments)
        /\ Unstamped(t).assessments = Bare(t.assessments)
    BY <2>1, <2>2 DEF Shaped
  <2> QED
    BY <2>1, <2>3
<1>3. \A u : Unstamped(Shown(u)) =
                [hypotheses |-> u.hypotheses, predictions |-> u.predictions,
                 evidence |-> u.evidence, assessments |-> Bare(u.assessments)]
  <2> TAKE u
  <2>1. Shown(u).assessments = u.assessments
    BY DEF Shown
  <2>2. Unstamped(Shown(u)) = [Shown(u) EXCEPT !.assessments = Bare(u.assessments)]
    BY <2>1 DEF Unstamped
  <2> HIDE DEF Bare
  <2> QED
    BY <2>2 DEF Shown
<1>4. Unstamped(Shown(s)) = Unstamped(Shown(t))
  <2> HIDE DEF Bare
  <2> QED
    BY <1>1, <1>2, <1>3
<1>5. ASSUME \A a \in t.assessments : a.producedBy # "llm" PROVE Shown(s) = Shown(t)
  <2>1. \A a \in s.assessments : a.producedBy = "rule"
    BY <1>5 DEF Alike, SameReadings, SameReading, Assessed
  <2>2. \A a \in t.assessments : a.producedBy = "rule"
    BY <1>5 DEF Alike, SameReadings, SameReading, Assessed
  <2>3. s.assessments = t.assessments
    BY <2>1, <2>2, AlikeRules
  <2> QED
    BY <1>1, <2>3 DEF Shown
<1> QED
  BY <1>4, <1>5

LEMMA InvResumeRebuilds == PipelineInv => ResumeRebuilds
<1> SUFFICES ASSUME PipelineInv PROVE ResumeRebuilds
  OBVIOUS
<1>1. Alike(st, path[pos]) /\ pos \in DOMAIN path
  BY DEF PipelineInv, Told
<1>2. Position(st) = Position(path[pos])
  BY <1>1 DEF Alike, Position
<1>3. Position(st) \in DOMAIN asked =>
         \E s : Alike(s, st) /\ asked[Position(st)] = Shown(s)
  <2> SUFFICES ASSUME Position(st) \in DOMAIN asked
               PROVE  \E s : Alike(s, st) /\ asked[Position(st)] = Shown(s)
    OBVIOUS
  <2>1. PICK s : Alike(s, path[pos]) /\ asked[Position(st)] = Shown(s)
    BY <1>1, <1>2 DEF PipelineInv, Requested
  <2> QED
    BY <1>1, <2>1, AlikeTurned, AlikeChained
<1>4. Unstamped(st) = Unstamped(path[pos])
  BY <1>1, AlikeUnstamped
<1>5. Position(st) \in DOMAIN asked =>
         Unstamped(asked[Position(st)]) = Unstamped(Shown(st))
  BY <1>3, AlikeShown
<1>6. refused => \E a \in st.assessments : a.producedBy = "llm"
  BY <1>3, AlikeShown DEF PipelineInv, SameRequest
<1> QED
  BY <1>4, <1>5, <1>6 DEF ResumeRebuilds

LEMMA RejectionStays ==
    ASSUME NEW s, NEW t, NEW cut, Sound(s, cut), Final(s, t),
           NEW id, RejectedByRule(s, id)
    PROVE  HypothesisStatus(id, t.predictions, t.assessments) = "rejected"
<1>1. PICK a \in s.assessments, i \in DOMAIN s.predictions :
         /\ a.producedBy = "rule" /\ a.hypothesis = id
         /\ a.effect = "contradicts"
         /\ a.prediction = PredictionId(s.predictions[i])
         /\ s.predictions[i].status = "refuted"
         /\ Evidence[a.evidence].reliability = "high"
  BY DEF RejectedByRule
<1>2. s.predictions[i].hypothesis = id
  <2>1. PICK j \in DOMAIN s.predictions :
           /\ a.prediction = PredictionId(s.predictions[j])
           /\ a.hypothesis = s.predictions[j].hypothesis
    BY <1>1 DEF Sound, Judged
  <2> QED
    BY <1>1, <2>1 DEF PredictionId
<1>3. /\ i \in DOMAIN t.predictions /\ t.predictions[i] = s.predictions[i]
      /\ a \in t.assessments
  BY <1>1 DEF Final, Decided
<1> QED
  BY <1>1, <1>2, <1>3 DEF HypothesisStatus

\* Decisions are final.
Finality ==
    clock' = clock =>
        /\ \A i \in DOMAIN st.predictions :
              Decided(st.predictions[i]) =>
                  /\ st'.predictions[i] = st.predictions[i]
                  /\ \A a \in st.assessments \cup st'.assessments :
                        a.producedBy = "rule"
                        /\ a.prediction = PredictionId(st.predictions[i]) =>
                            a \in st.assessments /\ a \in st'.assessments
        /\ \A i \in DOMAIN st.hypotheses :
              LET id == st.hypotheses[i].id
              IN  RejectedByRule(st, id) =>
                      HypothesisStatus(id, st'.predictions, st'.assessments)
                          = "rejected"

LEMMA StepIsFinal == PipelineInv /\ [PipelineNext]_vars => [Finality]_vars
<1> SUFFICES ASSUME PipelineInv, [PipelineNext]_vars, clock' = clock PROVE Finality
  BY DEF Finality
<1>1. Final(st, st')
  BY PipelineStep
<1>2. Sound(st, asOf)
  BY ToldIsSound DEF PipelineInv
<1>3. \A id : RejectedByRule(st, id) =>
         HypothesisStatus(id, st'.predictions, st'.assessments) = "rejected"
  BY <1>1, <1>2, RejectionStays
<1> QED
  BY <1>1, <1>3 DEF Final, Finality

-----------------------------------------------------------------------------
(* The thread.  The induction rests on which reviews are answered: none    *)
(* that is still to come, and not the one that pends.                      *)

Stands == {"absent", "running", "paused", "stranded", "finished"}

ThreadTypeOK ==
    /\ stands \in Stands
    /\ review \in Nat
    /\ resumes \in Nat

\* What was asked and answered lies behind; what pends was not answered.
AnsweredIsPast ==
    \A a \in answers : /\ a.review \in 1..review
                       /\ stands = "paused" => a.review # review

EachOnce ==
    /\ \A a \in answers : a.meant = a.review
    /\ \A a, b \in answers : a.review = b.review => a = b

AnswersCounted == IsFiniteSet(answers) /\ resumes = Cardinality(answers)

ConfirmedAtTheEnd ==
    stands = "finished" /\ reviewed =>
        \E a \in answers : a.review = review /\ a.action = "confirm"

ThreadInv == ThreadTypeOK /\ AnsweredIsPast /\ EachOnce /\ AnswersCounted
             /\ ConfirmedAtTheEnd /\ (stands = "paused" => review # 0)

-----------------------------------------------------------------------------

LEMMA ThreadStarts == ThreadInit => ThreadInv
<1> SUFFICES ASSUME ThreadInit PROVE ThreadInv
  OBVIOUS
<1>1. AnswersCounted
  BY FS_EmptySet DEF ThreadInit, AnswersCounted
<1> QED
  BY <1>1 DEF ThreadInit, ThreadInv, ThreadTypeOK, Stands, AnsweredIsPast,
              EachOnce, ConfirmedAtTheEnd

\* A step that neither answers, asks nor finishes, nor forgets an answer.
LEMMA Elsewhere ==
  ASSUME ThreadInv,
         UNCHANGED <<resumes, answers, review>>,
         \/ stands' = stands /\ reviewed' = reviewed
         \/ stands' \in {"running", "stranded"}
         \/ stands' = "finished" /\ ~reviewed /\ reviewed' = reviewed
  PROVE  ThreadInv'
BY DEF ThreadInv, ThreadTypeOK, Stands, AnsweredIsPast, EachOnce, AnswersCounted,
       ConfirmedAtTheEnd

\* A start forgets the answers of the run before, and its count.
LEMMA StartKeeps ==
  ASSUME ThreadInv, NEW c, NEW human, StartThread(c, human)
  PROVE  ThreadInv'
<1>1. AnswersCounted'
  BY FS_EmptySet DEF StartThread, AnswersCounted
<1> QED
  BY <1>1 DEF StartThread, ThreadInv, ThreadTypeOK, Stands, AnsweredIsPast,
              EachOnce, ConfirmedAtTheEnd

\* The answer names the review that pends, which has none yet.
LEMMA DecideKeeps ==
  ASSUME ThreadInv, NEW c \in Caller, Decide(c)
  PROVE  ThreadInv'
<1> DEFINE d == checked[c].decision
           answer == [review |-> review, meant |-> checked[c].interruptId,
                      action |-> d.action]
<1>1. /\ stands = "paused"
      /\ answer.meant = review /\ answer.review = review
      /\ answer.action = d.action
      /\ answers' = answers \cup {answer}
      /\ resumes' = resumes + 1
      /\ review' = review /\ reviewed' = reviewed
      /\ \/ stands' = "finished" /\ d.action = "confirm"
         \/ stands' = "running"
  BY DEF Decide, AnswersIt
<1> HIDE DEF answer, d
<1>2. answer \notin answers
  BY <1>1 DEF ThreadInv, AnsweredIsPast
<1>3. AnswersCounted'
  BY <1>1, <1>2, FS_AddElement DEF ThreadInv, AnswersCounted
<1>4. ThreadTypeOK'
  BY <1>1 DEF ThreadInv, ThreadTypeOK, Stands
<1>5. AnsweredIsPast'
  BY <1>1 DEF ThreadInv, ThreadTypeOK, AnsweredIsPast
<1>6. EachOnce'
  BY <1>1 DEF ThreadInv, EachOnce, AnsweredIsPast
<1>7. ConfirmedAtTheEnd'
  BY <1>1 DEF ConfirmedAtTheEnd
<1> QED
  BY <1>1, <1>3, <1>4, <1>5, <1>6, <1>7 DEF ThreadInv

\* A pause asks under an id past all that were answered.
LEMMA PauseKeeps == ThreadInv /\ Pause => ThreadInv'
<1> SUFFICES ASSUME ThreadInv, Pause PROVE ThreadInv'
  OBVIOUS
<1>1. AnsweredIsPast'
  BY DEF Pause, ThreadInv, ThreadTypeOK, AnsweredIsPast
<1> QED
  BY <1>1 DEF Pause, saved, ThreadInv, ThreadTypeOK, Stands, EachOnce, AnswersCounted,
              ConfirmedAtTheEnd

LEMMA CallerKeeps ==
  ASSUME ThreadInv, NEW c \in Caller, CallerStep(c)
  PROVE  ThreadInv'
<1>1. CASE Look(c)
  BY <1>1, Elsewhere DEF Look, saved
<1>2. CASE \E human \in BOOLEAN : StartThread(c, human)
  BY <1>2, StartKeeps
<1>3. CASE \E e \in ReviewDecision : CheckResume(c, e)
  BY <1>3, Elsewhere DEF CheckResume, saved
<1>4. CASE CheckContinue(c)
  BY <1>4, Elsewhere DEF CheckContinue, saved
<1>5. CASE Decide(c)
  BY <1>5, DecideKeeps
<1>6. CASE GoOn(c)
  BY <1>6, Elsewhere DEF GoOn, saved
<1>7. CASE AskAgain(c)
  BY <1>7, Elsewhere DEF AskAgain, saved
<1>8. CASE NothingToDo(c)
  BY <1>8, Elsewhere DEF NothingToDo, saved
<1>9. CASE Abandon(c)
  BY <1>9, Elsewhere DEF Abandon, saved
<1> QED
  BY <1>1, <1>2, <1>3, <1>4, <1>5, <1>6, <1>7, <1>8, <1>9 DEF CallerStep

\* A decision decides the conclusion it was given for and no other, each review
\* is decided once, resumeCount counts the decisions, and a run under review
\* ends with the confirmation of its last conclusion.
THEOREM DecisionsAreMeant == ThreadSpec => []DecisionsAnswerWhatWasShown
<1>1. ThreadInv /\ [ThreadNext]_threadVars => ThreadInv'
  <2> SUFFICES ASSUME ThreadInv, [ThreadNext]_threadVars PROVE ThreadInv'
    OBVIOUS
  <2>1. CASE \E c \in Caller : CallerStep(c)
    BY <2>1, CallerKeeps
  <2>2. CASE Pause
    BY <2>2, PauseKeeps
  <2>3. CASE Finish
    BY <2>3, Elsewhere DEF Finish, saved
  <2>4. CASE Strand
    BY <2>4, Elsewhere DEF Strand, saved
  <2>5. CASE Release
    BY <2>5, Elsewhere DEF Release
  <2>6. CASE UNCHANGED threadVars
    BY <2>6, Elsewhere DEF threadVars, saved
  <2> QED
    BY <2>1, <2>2, <2>3, <2>4, <2>5, <2>6 DEF ThreadNext
<1>2. ThreadInv => DecisionsAnswerWhatWasShown
  BY DEF ThreadInv, EachOnce, AnswersCounted, ConfirmedAtTheEnd,
         DecisionsAnswerWhatWasShown
<1> QED
  BY ThreadStarts, <1>1, <1>2, PTL DEF ThreadSpec

-----------------------------------------------------------------------------
(* The properties, of the pipeline and of the two ends together. *)

LEMMA OneOfTheTwo ==
    /\ InvestigationsSpec => PipelineSpec
    /\ InvestigationsSpec => ThreadSpec
<1>1. InvestigationsInit => PipelineInit /\ ThreadInit
  BY DEF InvestigationsInit
<1>2. [InvestigationsNext]_investigationVars => [PipelineNext]_vars /\ [ThreadNext]_threadVars
  BY DEF InvestigationsNext, investigationVars
<1> QED
  BY <1>1, <1>2, PTL DEF InvestigationsSpec, PipelineSpec, ThreadSpec

\* A node that asks for the first time asks under a key that no other call had:
\* every edge back into a role moves one of the counters in its key.
THEOREM KeysAreNotRepeated ==
    PipelineSpec => [](pos = Len(path) => Position(st) \notin DOMAIN ledger)
<1>1. PipelineInv => (pos = Len(path) => Position(st) \notin DOMAIN ledger)
  BY PositionIsNew DEF PipelineInv
<1> QED
  BY PipelineInvariant, <1>1, PTL

\* Trials and evidence tell one story in the draft and in the rows, whatever
\* sources serve twice and whichever checkpoint an attempt comes back from.
THEOREM EvidenceKeepsItsTrial == PipelineSpec => []EvidenceHasOneTrial
BY PipelineInvariant, InvEvidenceHasOneTrial, PTL

\* A test is executed once, and the planner asks for nothing twice.
THEOREM TestsRunOnceEach == PipelineSpec => []TestsRunOnce
BY PipelineInvariant, InvTestsRunOnce, PTL

\* A verdict rests on timely, complete evidence, and only a decided prediction
\* has a rule's assessment.
THEOREM VerdictsAreFounded == PipelineSpec => []VerdictsRestOnEvidence
BY PipelineInvariant, InvVerdictsRestOnEvidence, PTL

\* A run that comes back from any checkpoint goes on through the states it had
\* reached and asks its roles what it had asked there, but for the stamps of the
\* model's readings, and those are all that a request can be refused for.
THEOREM ResumesRebuild == PipelineSpec => []ResumeRebuilds
BY PipelineInvariant, InvResumeRebuilds, PTL

\* What a rule decided stays decided, and what it rejected stays rejected.
THEOREM DecisionsStay == PipelineSpec => DecisionsAreFinal
<1>1. PipelineInv /\ [PipelineNext]_vars => [Finality]_vars
  BY StepIsFinal
<1>2. PipelineSpec => [][Finality]_vars
  BY PipelineInvariant, <1>1, PTL DEF PipelineSpec
<1> QED
  BY <1>2 DEF DecisionsAreFinal, Finality

\* The nodes and the thread together keep all of it.
THEOREM InvestigationsKeepTheirWord ==
    InvestigationsSpec =>
        /\ [](EvidenceHasOneTrial /\ TestsRunOnce /\ VerdictsRestOnEvidence
              /\ ResumeRebuilds /\ DecisionsAnswerWhatWasShown)
        /\ DecisionsAreFinal
BY OneOfTheTwo, EvidenceKeepsItsTrial, TestsRunOnceEach, VerdictsAreFounded,
   ResumesRebuild, DecisionsStay, DecisionsAreMeant, PTL

=============================================================================
