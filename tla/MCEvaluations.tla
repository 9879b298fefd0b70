---------------------------- MODULE MCEvaluations ----------------------------
EXTENDS Evaluations
CONSTANTS model, naive, m1, w1, typo, ha, hb, e1, e2

Order == <<model, naive>>

Partial(D) == UNION {[S -> 0..1] : S \in SUBSET D}
WithWithheld == [x \in {m1, w1} |-> 0]

\* A control arm that misses the plan or not, over one compared metric; and
\* one that emits a withheld metric as well.
MCControls ==
    [covers : BOOLEAN, means : Partial({m1})]
        \cup [covers : {TRUE}, means : {WithWithheld}]

\* No baseline, each baseline over that metric, one that declares a withheld
\* metric and one that declares a name that is no metric.
MCBaselines ==
    Partial({m1}) \cup {Absent, WithWithheld, [x \in {m1, typo} |-> 0]}

\* A scenario whose leader a challenge must change, one whose leader it must
\* not, and a false alert.
Changing ==
  [expected |-> {e1}, misleading |-> {e2}, cause |-> [is |-> "pool", spelt |-> "exactly"],
   kind |-> "root-cause", stop |-> "sufficient", leaderChange |-> TRUE]
Keeping == [Changing EXCEPT !.misleading = Missing, !.leaderChange = FALSE]
Alert ==
  [expected |-> {e1}, misleading |-> Missing, cause |-> Missing,
   kind |-> "no-incident", stop |-> "stalled", leaderChange |-> Missing]

\* Graph against graph, naive against graph, and refused budget policies.
Policy(s, n) == [slot |-> s, reserve |-> n]
Setup(b, m, v, p, t) ==
  [arms |-> [baseline |-> b, mutation |-> m], version |-> v, policy |-> p, truth |-> t]
MCSetups == {
  Setup("graph", "graph", "v0.4", Policy("absent", 0), <<Keeping>>),
  Setup("graph", "graph", "v0.4", Policy("absent", 0), <<Changing>>),
  Setup("graph", "graph", "v0.2", Policy("readable", 1), <<Changing>>),
  Setup("naive", "graph", "v0.3", Policy("undefined", 0), <<Alert, Changing>>),
  Setup("graph", "naive", "v0.4", Policy("absent", 0), <<Alert>>),
  Setup("naive", "naive", "v0.2", Policy("accessor", 0), <<Alert, Changing>>),
  Setup("graph", "graph", "v0.4", Policy("null", 0), <<Alert, Changing>>)}

\* Final states that pass, that fail one way or another, and that stop early.
Cause(w, es) == [cause |-> [is |-> "pool", spelt |-> w], hypothesis |-> hb, evidence |-> es]
Weighs(e, effect) == [evidence |-> e, hypothesis |-> hb, effect |-> effect]
MCFinals == {
  [causes |-> <<Cause("exactly", {e1})>>, evidence |-> {e1, e2}, kind |-> "root-cause",
   stop |-> "sufficient", assessments |-> {Weighs(e2, "refutes")}],
  [causes |-> <<Cause("otherwise", {e1})>>, evidence |-> {e1, e2}, kind |-> "root-cause",
   stop |-> "sufficient", assessments |-> {Weighs(e1, "supports"), Weighs(e2, "supports")}],
  [causes |-> <<>>, evidence |-> {e1, e2}, kind |-> "no-incident",
   stop |-> "stalled", assessments |-> {Weighs(e1, "neutral")}],
  [causes |-> <<>>, evidence |-> {}, kind |-> "inconclusive",
   stop |-> "budget-exhausted", assessments |-> {}],
  [causes |-> <<>>, evidence |-> {e1}, kind |-> "inconclusive",
   stop |-> "ambiguous", assessments |-> {}]}

=============================================================================
