------------------------------ MODULE MCEvidence ------------------------------
EXTENDS Investigations

CONSTANTS c1, r1  \* ids the model chose

Shipped == Quantity("deployment-in-window", "api", "pre-onset", "any")
Errors == Quantity("signal-state", "api", "incident", "error-rate")
Pool == Quantity("signal-state", "api", "incident", "connection-pool")
Other == Quantity("free-text", "api", "incident", "any")

Item(observedAt, reliability, facts) ==
    [observedAt |-> observedAt, reliability |-> reliability, facts |-> facts]

MCEvidence == [
    shipped |-> Item(1, "medium", {Counted(Shipped, 1, "complete")}),
    quiet |-> Item(1, "high", {Counted(Shipped, 0, "partial"),
                               Stated(Errors, "normal")}),
    failing |-> Item(1, "medium", {Stated(Errors, "elevated"),
                                   Stated(Pool, "at-limit")}),
    late |-> Item(2, "high", {Counted(Shipped, 0, "complete"),
                              Stated(Pool, "normal")})]

Suspect(id, cause) == [id |-> id, cause |-> cause]
Regression == [component |-> "api", mechanism |-> "deployment_regression"]
Exhaustion == [component |-> "api", mechanism |-> "connection_pool_exhaustion"]

MCInitial ==
    {<<Suspect("h1", Regression)>>,
     <<Suspect("h1", None), Suspect("h2", Exhaustion)>>}

Proposal(alternative, id, request) ==
    [alternative |-> alternative,
     tests |-> <<[id |-> id, request |-> request, status |-> "planned"]>>]

\* A test of its own, one the planner would plan, a test id that is taken, and
\* no test.
MCProposals ==
    {Proposal(Suspect("h3", Exhaustion), c1, [tool |-> "logs", input |-> Other]),
     Proposal(Suspect("h3", Exhaustion), c1, Request(Pool)),
     Proposal(Suspect("h3", Exhaustion), Request(Errors), Request(Errors)),
     [alternative |-> Suspect("h3", Exhaustion), tests |-> <<>>]}

Reading(id, evidence, hypothesis, prediction, effect) ==
    [id |-> id, evidence |-> evidence, hypothesis |-> hypothesis,
     prediction |-> prediction, effect |-> effect, strength |-> "high"]

\* Nothing, a reading, and one under the id of a rule's assessment.
MCReadings ==
    {{},
     {Reading(r1, "failing", "h1", None, "supports")},
     {Reading(<<<<"h1", "error-rate-elevated">>, "quiet">>, "quiet", "h1",
              <<"h1", "error-rate-elevated">>, "neutral")}}

MCLimits == {[iterations |-> 1, challenges |-> 1],
             [iterations |-> 2, challenges |-> 0]}

MCRecorded == <<
    [request |-> [tool |-> "metrics", input |-> Other],
     answer |-> Answer("ok", {"quiet", "failing"})],
    [request |-> Request(Shipped), answer |-> Answer("ok", {"shipped", "quiet"})],
    [request |-> [tool |-> "logs", input |-> Other], answer |-> Answer("error", {})]>>

=============================================================================
