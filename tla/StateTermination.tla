---------------------------- MODULE StateTermination ----------------------------
(***************************************************************************)
(* The product's termination check (graph/src/nodes/termination.ts) and    *)
(* the hypothesis standing it reads (domain/src/hypothesis-standing.ts),   *)
(* composed with the investigation graph it steers.                        *)
(*                                                                         *)
(* A standing is derived from the predictions and assessments in the state *)
(* each time it is read.  They change in a lap's evaluation nodes, and the *)
(* result is drawn here at the last of them: evidence may move a           *)
(* hypothesis to any status, in any direction, since assessments are       *)
(* upserted and a new one may contradict an old one.                       *)
(*                                                                         *)
(* The graph takes its check as an argument, so a behaviour has either the *)
(* product's check or any other one, and what that reads is left out.      *)
(***************************************************************************)
EXTENDS InvestigationGraph

CONSTANTS
    ProductLimits,  \* the budgets behaviours with the product's check start
                    \* with; it looks at the challenge reserve only
    Ids             \* the hypothesis ids, in the order they are taken

ASSUME ProductLimitsAssumption == ProductLimits \subseteq Limits

ASSUME IdsAssumption ==
    /\ DOMAIN Ids = 1..Cardinality(Hyp)
    /\ {Ids[i] : i \in DOMAIN Ids} = Hyp

VARIABLES
    check,      \* whose termination check: the product's or any other
    standing,   \* the status deriveHypothesisStatus gives each hypothesis
    observed    \* what the trials so far brought

stateVars == <<vars, check, standing, observed>>

-----------------------------------------------------------------------------
\* STANDING_RANK's order, highest first.
Statuses == <<"supported", "corroborated", "candidate", "weakened", "rejected">>
Status == {Statuses[i] : i \in DOMAIN Statuses}
Rank(h) == CHOOSE i \in DOMAIN Statuses : Statuses[i] = standing[h]

\* "unavailable" is trials, none of them ok, and no evidence.
Observation == {"untried", "unavailable", "observed"}

\* The highest-ranked hypothesis, the earliest of equals.
Leader ==
    hypotheses[CHOOSE i \in DOMAIN hypotheses : \A j \in DOMAIN hypotheses :
        \/ Rank(hypotheses[i]) < Rank(hypotheses[j])
        \/ Rank(hypotheses[i]) = Rank(hypotheses[j]) /\ i <= j]

Competing == {h \in Present : standing[h] \in {"supported", "corroborated"}}

\* The leader is the newest alternative a challenge brought in.
LeaderIsNewestChallenge ==
    \E i \in DOMAIN hypotheses :
        /\ hypotheses[i] = Leader
        /\ createdBy[Leader] = "challenge"
        /\ \A j \in DOMAIN hypotheses :
              j > i => createdBy[hypotheses[j]] # "challenge"

Stop(kind) == [route |-> "terminal", stopKind |-> kind]
ChallengeRequired == [route |-> "challenge-required", leaderId |-> Leader]
Sufficient == [route |-> "terminal", stopKind |-> "sufficient",
               leaderId |-> Leader]

\* Mutant: a tie is not looked for.
SettledByTheLeader == FALSE

T0 == observed = "unavailable"
T3 == Cardinality(Competing) >= 2
T4 == challengeRounds < MAX_CHALLENGE_ROUNDS /\ LeaderIsNewestChallenge

\* createStateTerminationCheck: the first rule that applies decides.
Decision ==
    IF T0 THEN Stop("tools-unavailable")
    ELSE IF hypotheses = <<>> THEN Stop("stalled")
    ELSE IF challengeRounds = 0 \/ T3 \/ T4 THEN ChallengeRequired
    ELSE IF Competing # {} THEN Sufficient
    ELSE Stop("stalled")

-----------------------------------------------------------------------------
ByProduct == check = "product"

StateInit ==
    /\ Init
    /\ check \in {"product", "other"}
    /\ ByProduct => limits \in ProductLimits
    /\ standing = [h \in Hyp |-> "candidate"]
    /\ observed = "untried"

\* execute_investigation runs the planned tests: evidence comes only with an
\* ok trial, and neither goes away.
Execute ==
    /\ ByProduct /\ At("execute_investigation")
    /\ QuietNode
    /\ observed' \in CASE observed = "untried" -> Observation
                       [] observed = "unavailable" ->
                            {"unavailable", "observed"}
                       [] OTHER -> {"observed"}
    /\ UNCHANGED standing

\* Without evidence there is no assessment, and without an assessment a
\* hypothesis is a candidate.
Interpret ==
    /\ ByProduct
    /\ InterpretResidualEvidence
    /\ standing' \in
          IF observed = "observed"
          THEN {[h \in Hyp |-> IF h \in Present THEN f[h] ELSE "candidate"] :
                    f \in [Present -> Status]}
          ELSE {standing}
    /\ UNCHANGED observed

Terminates ==
    /\ \E d \in IF ByProduct THEN {Decision} ELSE Decisions : TerminationCheck(d)
    /\ UNCHANGED <<standing, observed>>

OtherNode ==
    /\ ByProduct => ~At("execute_investigation")
                   /\ ~At("interpret_residual_evidence")
    /\ NodeStep
    /\ UNCHANGED <<standing, observed>>

Outside ==
    /\ HumanStep \/ FaultStep \/ Ended
    /\ UNCHANGED <<standing, observed>>

\* Ids are compared for equality only, so a hypothesis takes the next one.
IdsInOrder == \A i \in DOMAIN hypotheses : hypotheses[i] = Ids[i]

StateNext ==
    /\ Execute \/ Interpret \/ Terminates \/ OtherNode \/ Outside
    /\ IdsInOrder'
    /\ UNCHANGED check

\* The graph's fairness: what was started returns or throws.
StateSpec == StateInit /\ [][StateNext]_stateVars /\ Fairness

-----------------------------------------------------------------------------
(* Properties. *)

\* A stop kind says no more than the run found.  Sufficient rests on one
\* hypothesis: it leads, nothing else is supported or corroborated beside it,
\* and it is not an alternative of the last challenge that no round has tested
\* while a round was left.  Ambiguous is the unresolved tie after the last
\* round, and only that; a run that could observe nothing blames its tools and
\* never says that it stalled, and one that observed something never does.
StopKindIsJustified ==
    ByProduct =>
        /\ stopKind = "sufficient" =>
              /\ Competing = {Leader}
              /\ challengeRounds > 0
              /\ createdBy[Leader] = "challenge" /\ Leader \notin challenged =>
                    \/ challengeRounds = MAX_CHALLENGE_ROUNDS
                    \/ ~LeaderIsNewestChallenge
        /\ stopKind = "ambiguous" =>
              /\ challengeRounds = MAX_CHALLENGE_ROUNDS
              /\ Cardinality(Competing) >= 2
        /\ stopKind = "tools-unavailable" => observed = "unavailable"
        /\ stopKind = "stalled" => observed # "unavailable"

=============================================================================
