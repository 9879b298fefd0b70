-------------------------- MODULE InvestigationGraph --------------------------
(***************************************************************************)
(* The investigation graph of packages/graph/src/investigation.ts: the     *)
(* twelve lifecycle nodes, the human review behind them, and the control   *)
(* fields the graph owns and routes by.                                    *)
(*                                                                         *)
(* One action is one node.  What a node computes is data and is chosen     *)
(* freely within what the graph lets through: which hypotheses it adds,    *)
(* and how the termination check decides.  StateTermination composes this  *)
(* graph with the termination check the product uses.                      *)
(*                                                                         *)
(* A node that throws leaves the state as it was, since the checkpoint is  *)
(* taken between nodes; the next execute({kind: 'continue'}) runs it       *)
(* again.  What a lost checkpoint does to the results that were committed  *)
(* since is CheckpointedRun's subject, so here the state is the one the    *)
(* surviving checkpoint carries.                                           *)
(***************************************************************************)
EXTENDS Naturals, Sequences, FiniteSets

CONSTANTS
    Hyp,            \* hypothesis ids
    Limits,         \* the budgets a start state may carry
    MaxResumes,     \* bound: answers a human gives
    MaxNew,         \* bound: hypotheses one generate_hypotheses proposes
    None

MAX_CHALLENGE_ROUNDS == 2

ASSUME LimitsAssumption ==
    Limits \subseteq [maxIterations : Nat, llmCallBudget : Nat,
                      reserved : Nat, humanReview : BOOLEAN]
ASSUME BoundsAssumption == MaxResumes \in Nat /\ MaxNew \in Nat

VARIABLES
    node,       \* the node to run next
    thread,     \* how execute() left the thread
    limits,     \* the control fields fixed at the start
    hypotheses, \* ids, in the order the reducer appended them
    createdBy,  \* Hypothesis.createdBy
    target,     \* challengeTargetId, the Send payload
    stopKind, challengeRounds, reservedChallengeBudget,
    iterationsUsed, llmCallsUsed, resumeCount,
    asked,      \* history: the model.role keys asked for
    asks,       \* history: how many times a role asked
    challenged  \* history: the hypotheses that were a challenge's target

\* GRAPH_OWNED_CONTROL_FIELDS: no node decides any of these, nor the limits.
control == <<stopKind, challengeRounds, reservedChallengeBudget,
             iterationsUsed, llmCallsUsed, resumeCount>>
data == <<hypotheses, createdBy>>
history == <<asked, asks, challenged>>
vars == <<node, thread, limits, data, target, control, history>>

-----------------------------------------------------------------------------
StopKind == {"sufficient", "ambiguous", "budget-exhausted",
             "tools-unavailable", "stalled", "human-stop"}
Creator == {"initial", "challenge"}

ASSUME NoneAssumption == None \notin Hyp \cup StopKind \cup Creator

\* The edges that are always taken.
EdgeOf == [
    normalize_incident |-> "collect_baseline",
    collect_baseline |-> "generate_hypotheses",
    generate_hypotheses |-> "derive_predictions",
    derive_predictions |-> "plan_investigation",
    plan_investigation |-> "execute_investigation",
    execute_investigation |-> "evaluate_predictions",
    evaluate_predictions |-> "interpret_residual_evidence",
    interpret_residual_evidence |-> "derive_hypothesis_state",
    derive_hypothesis_state |-> "termination_check",
    challenge_hypothesis |-> "execute_investigation"]

\* The lifecycle nodes that change neither control nor the hypotheses.
Quiet == {"normalize_incident", "collect_baseline", "derive_predictions",
          "execute_investigation", "evaluate_predictions",
          "derive_hypothesis_state"}

Node == DOMAIN EdgeOf \cup {"termination_check", "propose_conclusion",
                            "review_conclusion", "END"}

\* The four nodes a model may back; each asks through completeOnce.
Role == {"generate_hypotheses", "interpret_residual_evidence",
         "challenge_hypothesis", "propose_conclusion"}

ExecKey == [role : Role, iterationsUsed : Nat, challengeRounds : Nat,
            resumeCount : Nat]

Present == {hypotheses[i] : i \in DOMAIN hypotheses}
Proposals == {s \in UNION {[1..n -> Hyp \ Present] : n \in 0..MaxNew} :
                 \A i, j \in DOMAIN s : s[i] = s[j] => i = j}

\* A challenge's one alternative; a known id is refused, and the node throws.
Alternatives == Hyp \ Present

\* What a termination check may decide.
Decisions ==
    [route : {"need-more-evidence"}]
    \cup [route : {"challenge-required"}, leaderId : Present]
    \cup [route : {"terminal"}, stopKind : {"sufficient"}, leaderId : Present]
    \cup [route : {"terminal"}, stopKind : StopKind \ {"sufficient"}]

-----------------------------------------------------------------------------
Init ==
    /\ node = "normalize_incident"
    /\ thread = "running"
    /\ limits \in Limits
    /\ hypotheses = <<>>
    /\ createdBy = [h \in Hyp |-> None]
    /\ target = None
    /\ stopKind = None
    /\ challengeRounds = 0
    /\ reservedChallengeBudget = limits.reserved
    /\ iterationsUsed = 0
    /\ llmCallsUsed = 0
    /\ resumeCount = 0
    /\ asked = {}
    /\ asks = 0
    /\ challenged = {}

At(n) == thread = "running" /\ node = n

\* completeOnce: one committed call under the position's key.
AskAs(role) ==
    /\ asked' = asked \cup {[role |-> role, iterationsUsed |-> iterationsUsed,
                             challengeRounds |-> challengeRounds,
                             resumeCount |-> resumeCount]}
    /\ asks' = asks + 1

\* upsertById of records under ids the state does not carry.
AddHypotheses(s, by) ==
    /\ hypotheses' = hypotheses \o s
    /\ createdBy' = [h \in Hyp |-> IF \E i \in DOMAIN s : s[i] = h
                                   THEN by ELSE createdBy[h]]

\* What a node hands back for a graph-owned field is dropped.
ControlIsKept == UNCHANGED <<limits, control>>

QuietNode ==
    /\ \E n \in Quiet : At(n) /\ node' = EdgeOf[n]
    /\ ControlIsKept
    /\ UNCHANGED <<thread, data, target, history>>

\* The node declares the one model call it made.
CallDeclared == llmCallsUsed' = llmCallsUsed + 1

GenerateHypotheses ==
    /\ At("generate_hypotheses")
    /\ \E s \in Proposals : AddHypotheses(s, "initial")
    /\ AskAs("generate_hypotheses")
    /\ CallDeclared
    /\ node' = EdgeOf[node]
    /\ UNCHANGED <<thread, limits, target, stopKind, challengeRounds,
                   reservedChallengeBudget, iterationsUsed, resumeCount,
                   challenged>>

\* Mutant: the wrapper does not count the iteration.
PlanUncounted ==
    /\ At("plan_investigation")
    /\ node' = EdgeOf[node]
    /\ UNCHANGED <<thread, limits, data, target, control, history>>

PlanInvestigation ==
    /\ At("plan_investigation")
    /\ iterationsUsed' = iterationsUsed + 1
    /\ node' = EdgeOf[node]
    /\ UNCHANGED <<thread, limits, data, target, stopKind, challengeRounds,
                   reservedChallengeBudget, llmCallsUsed, resumeCount, history>>

InterpretResidualEvidence ==
    /\ At("interpret_residual_evidence")
    /\ AskAs("interpret_residual_evidence")
    /\ CallDeclared
    /\ node' = EdgeOf[node]
    /\ UNCHANGED <<thread, limits, data, target, stopKind, challengeRounds,
                   reservedChallengeBudget, iterationsUsed, resumeCount,
                   challenged>>

-----------------------------------------------------------------------------
(* termination_check and the routes it takes. *)

Terminate(kind) ==
    /\ stopKind' = kind
    /\ node' = "propose_conclusion"
    /\ UNCHANGED target

Challenge(leader) ==
    /\ stopKind' = None
    /\ target' = leader
    /\ node' = "challenge_hypothesis"

RouteChallenge(leader) ==
    \/ /\ challengeRounds >= MAX_CHALLENGE_ROUNDS
       /\ Terminate("ambiguous")
    \/ /\ challengeRounds < MAX_CHALLENGE_ROUNDS
       /\ reservedChallengeBudget <= 0
       /\ Terminate("budget-exhausted")
    \/ /\ challengeRounds < MAX_CHALLENGE_ROUNDS
       /\ reservedChallengeBudget > 0
       /\ Challenge(leader)

BudgetSpent == \/ iterationsUsed >= limits.maxIterations
               \/ llmCallsUsed >= limits.llmCallBudget

\* A sufficient decision that no challenge has tested yet.
Unchallenged(d) == /\ d.route = "terminal"
                   /\ d.stopKind = "sufficient"
                   /\ challengeRounds = 0

Route(d) ==
    \/ /\ Unchallenged(d)
       /\ RouteChallenge(d.leaderId)
    \/ /\ d.route = "need-more-evidence"
       /\ BudgetSpent
       /\ Terminate("budget-exhausted")
    \/ /\ d.route = "need-more-evidence"
       /\ ~BudgetSpent
       /\ stopKind' = None
       /\ node' = "plan_investigation"
       /\ UNCHANGED target
    \/ /\ d.route = "challenge-required"
       /\ RouteChallenge(d.leaderId)
    \/ /\ d.route = "terminal" /\ ~Unchallenged(d)
       /\ Terminate(d.stopKind)

TerminationCheck(d) ==
    /\ At("termination_check")
    /\ Route(d)
    /\ UNCHANGED <<thread, limits, data, challengeRounds,
                   reservedChallengeBudget, iterationsUsed, llmCallsUsed,
                   resumeCount, history>>

\* Mutant: the round is counted, the reserve is not spent.
ChallengeUnpaid ==
    /\ At("challenge_hypothesis")
    /\ \E h \in Alternatives : AddHypotheses(<<h>>, "challenge")
    /\ AskAs("challenge_hypothesis")
    /\ challenged' = challenged \cup {target}
    /\ challengeRounds' = challengeRounds + 1
    /\ stopKind' = None
    /\ target' = None
    /\ node' = EdgeOf[node]
    /\ UNCHANGED <<thread, limits, reservedChallengeBudget, iterationsUsed,
                   llmCallsUsed, resumeCount>>

\* Mutant: a challenge that brings nothing new goes back to the check.
ChallengeUncounted ==
    /\ At("challenge_hypothesis")
    /\ stopKind' = None
    /\ target' = None
    /\ node' = "termination_check"
    /\ UNCHANGED <<thread, limits, data, challengeRounds, history,
                   reservedChallengeBudget, iterationsUsed, llmCallsUsed,
                   resumeCount>>

\* The challenge derives and plans for its alternative itself, and neither
\* declares a call nor counts an iteration.
ChallengeHypothesis ==
    /\ At("challenge_hypothesis")
    /\ \E h \in Alternatives : AddHypotheses(<<h>>, "challenge")
    /\ AskAs("challenge_hypothesis")
    /\ challenged' = challenged \cup {target}
    /\ challengeRounds' = challengeRounds + 1
    /\ reservedChallengeBudget' = reservedChallengeBudget - 1
    /\ stopKind' = None
    /\ target' = None
    /\ node' = EdgeOf[node]
    /\ UNCHANGED <<thread, limits, iterationsUsed, llmCallsUsed, resumeCount>>

-----------------------------------------------------------------------------
(* The conclusion and its review. *)

ProposeConclusion ==
    /\ At("propose_conclusion")
    /\ AskAs("propose_conclusion")
    /\ CallDeclared
    /\ node' = IF limits.humanReview THEN "review_conclusion" ELSE "END"
    /\ UNCHANGED <<thread, limits, data, target, stopKind, challengeRounds,
                   reservedChallengeBudget, iterationsUsed, resumeCount,
                   challenged>>

\* interrupt(): the first pass pauses the thread.
ReviewPauses ==
    /\ At("review_conclusion")
    /\ thread' = "paused"
    /\ UNCHANGED <<node, limits, data, target, control, history>>

Resumed ==
    /\ thread = "paused"
    /\ thread' = "running"
    /\ resumeCount' = resumeCount + 1

Confirm ==
    /\ Resumed
    /\ node' = "END"
    /\ UNCHANGED <<limits, data, target, stopKind, challengeRounds,
                   reservedChallengeBudget, iterationsUsed, llmCallsUsed,
                   history>>

Reject ==
    /\ resumeCount < MaxResumes
    /\ Resumed
    /\ stopKind' = None
    /\ node' = "generate_hypotheses"
    /\ UNCHANGED <<limits, data, target, challengeRounds,
                   reservedChallengeBudget, iterationsUsed, llmCallsUsed,
                   history>>

\* A human's hypothesis is recorded as an initial one.
AddHypothesis(h) ==
    /\ resumeCount < MaxResumes
    /\ h \notin Present
    /\ Resumed
    /\ AddHypotheses(<<h>>, "initial")
    /\ stopKind' = None
    /\ node' = "derive_predictions"
    /\ UNCHANGED <<limits, target, challengeRounds, reservedChallengeBudget,
                   iterationsUsed, llmCallsUsed, history>>

-----------------------------------------------------------------------------
(* A node throws, and execute({kind: 'continue'}) runs it again. *)

NodeThrows ==
    /\ thread = "running" /\ node # "END"
    /\ thread' = "failed"
    /\ UNCHANGED <<node, limits, data, target, control, history>>

\* A pending review is never skipped: continue refuses a paused thread.
Continue ==
    /\ thread = "failed"
    /\ thread' = "running"
    /\ UNCHANGED <<node, limits, data, target, control, history>>

Ended == node = "END" /\ UNCHANGED vars

NodeStep == \/ QuietNode \/ GenerateHypotheses \/ PlanInvestigation
            \/ InterpretResidualEvidence \/ ChallengeHypothesis
            \/ ProposeConclusion \/ ReviewPauses
HumanStep == Confirm \/ Reject \/ \E h \in Hyp : AddHypothesis(h)
FaultStep == NodeThrows \/ Continue

Next == \/ NodeStep
        \/ \E d \in Decisions : TerminationCheck(d)
        \/ HumanStep
        \/ FaultStep
        \/ Ended

Spec == Init /\ [][Next]_vars

\* A node that was started returns or throws: the graph drives itself.  That
\* nodes stop throwing, or that a human answers, is nowhere assumed.
Fairness == /\ WF_vars(NodeStep)
            /\ WF_vars(\E d \in Decisions : TerminationCheck(d))
FairSpec == Spec /\ Fairness

-----------------------------------------------------------------------------
(* Properties. *)

AtLeast(m, n) == IF m >= n THEN m ELSE n

\* The control fields are counts, the cap on rounds is respected, and the
\* hypotheses are distinct and each has its creator.
TypeOK ==
    /\ node \in Node
    /\ thread \in {"running", "failed", "paused"}
    /\ limits \in Limits
    /\ hypotheses \in Seq(Hyp)
    /\ \A i, j \in DOMAIN hypotheses :
          hypotheses[i] = hypotheses[j] => i = j
    /\ createdBy \in [Hyp -> Creator \cup {None}]
    /\ \A h \in Hyp : createdBy[h] # None <=> h \in Present
    /\ target \in Hyp \cup {None}
    /\ target # None <=> node = "challenge_hypothesis"
    /\ stopKind \in StopKind \cup {None}
    /\ challengeRounds \in 0..MAX_CHALLENGE_ROUNDS
    /\ reservedChallengeBudget \in Nat
    /\ iterationsUsed \in Nat
    /\ llmCallsUsed \in Nat
    /\ resumeCount \in 0..(MaxResumes + 1)
    /\ asked \subseteq ExecKey
    /\ asks \in Nat
    /\ challenged \subseteq Present

\* Normal planning never spends the challenge reserve and a challenge always
\* does: what is left and what was run add up to what the run started with.
\* Each round is one model call under a key of its own, so the budget that
\* does not count challenge calls is made up for by the reserve that does.
ChallengeIsPaidFor ==
    /\ challengeRounds + reservedChallengeBudget = limits.reserved
    /\ \A n \in 0..MAX_CHALLENGE_ROUNDS : n < challengeRounds <=>
          \E k \in asked : /\ k.role = "challenge_hypothesis"
                           /\ k.challengeRounds = n

\* maxIterations bounds the automatic loop and nothing else: the first lap and
\* each lap a human asks for are not gated, and one of them may run past it.
IterationsBounded ==
    iterationsUsed <= AtLeast(limits.maxIterations, 1) + resumeCount

\* llmCallBudget is looked at only before the automatic edge.  Past it a run
\* still makes the calls of the laps that edge does not gate: two per start,
\* one per challenge lap, one per conclusion, three per human answer.
LlmCallsBounded ==
    llmCallsUsed <= AtLeast(limits.llmCallBudget, 2) + challengeRounds + 1
                    + 3 * resumeCount

\* Neither logical budget is exceeded by more than the laps that bypass its gate,
\* on every path through the three cycles and any human answers.
BudgetsHold == IterationsBounded /\ LlmCallsBounded

\* A run concludes sufficient only after a challenge round: also when the
\* check says sufficient at once, the graph challenges its leader first.
SufficientIsChallenged ==
    stopKind = "sufficient" => challenged # {}

\* A stop kind is set exactly while a conclusion is drawn from it: no node of
\* a running lap, and no model prompt of one, sees the last conclusion's.
StopKindIsDecided ==
    stopKind # None <=>
        node \in {"propose_conclusion", "review_conclusion", "END"}

\* No two model calls of a run share an exec key, on any route back into a
\* role: a second one would be an integrity refusal for ever.
KeysAreFresh == [][asks' # asks => asked' # asked]_vars

\* The graph never runs on for ever: it ends, pauses for a human or a node
\* throws, whatever the termination check keeps deciding.
LapsEnd == []<>(thread # "running" \/ node = "END")
=============================================================================
