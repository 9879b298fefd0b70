------------------------ MODULE InvestigationGraphProofs ------------------------
(***************************************************************************)
(* Proofs about InvestigationGraph, for every set of hypotheses, every     *)
(* budget and every number of human answers, and for any termination       *)
(* check; then about the product's check, as StateTermination has it.      *)
(***************************************************************************)
EXTENDS StateTermination, FiniteSetTheorems, TLAPS

\* What the type invariant rests on: a challenge is entered only below the cap
\* and with reserve left, on a hypothesis of the state; a review that waits is
\* at its node; only a confirmation uses the answer beyond the bound.
Position ==
    /\ node = "challenge_hypothesis" =>
          /\ target \in Present
          /\ challengeRounds < MAX_CHALLENGE_ROUNDS
          /\ reservedChallengeBudget > 0
    /\ thread = "paused" => node = "review_conclusion"
    /\ resumeCount = MaxResumes + 1 => node = "END"

TypeInv == TypeOK /\ Position

-----------------------------------------------------------------------------
(* Adding hypotheses. *)

\* A node's proposals are distinct ids the state does not carry, and any one
\* such id is a proposal of length one.
Fresh(s) == /\ s \in Seq(Hyp \ Present)
            /\ \A i, j \in DOMAIN s : s[i] = s[j] => i = j

LEMMA ProposalsAreFresh ==
  ASSUME NEW s \in Proposals
  PROVE  Fresh(s)
<1>1. PICK n \in 0..MaxNew : s \in [1..n -> Hyp \ Present]
  BY DEF Proposals
<1>2. n \in Nat
  BY <1>1, BoundsAssumption
<1>3. s \in Seq(Hyp \ Present)
  BY <1>1, <1>2, SMT
<1>4. QED
  BY <1>3 DEF Proposals, Fresh

LEMMA OneIsFresh ==
  ASSUME NEW h \in Hyp, h \notin Present
  PROVE  Fresh(<<h>>)
<1>1. <<h>> \in Seq(Hyp \ Present)
  OBVIOUS
<1>2. \A i, j \in DOMAIN <<h>> : i = j
  OBVIOUS
<1>3. QED
  BY <1>1, <1>2 DEF Fresh

\* The reducer's append keeps the hypotheses distinct and each one's creator
\* known, and loses none.
LEMMA AddKeepsHypotheses ==
  ASSUME TypeOK, NEW s, Fresh(s), NEW by \in Creator, AddHypotheses(s, by)
  PROVE  /\ hypotheses' \in Seq(Hyp)
         /\ \A i, j \in DOMAIN hypotheses' :
               hypotheses'[i] = hypotheses'[j] => i = j
         /\ createdBy' \in [Hyp -> Creator \cup {None}]
         /\ \A h \in Hyp : createdBy'[h] # None <=> h \in Present'
         /\ Present \subseteq Present'
<1>1. /\ hypotheses \in Seq(Hyp) /\ s \in Seq(Hyp)
      /\ hypotheses' = hypotheses \o s
  BY DEF TypeOK, Fresh, AddHypotheses
<1> DEFINE n == Len(hypotheses)
           m == Len(s)
<1>2. /\ n \in Nat /\ m \in Nat
      /\ DOMAIN hypotheses = 1..n /\ DOMAIN s = 1..m
      /\ hypotheses' \in Seq(Hyp)
      /\ DOMAIN hypotheses' = 1..(n + m)
      /\ \A i \in 1..(n + m) :
            hypotheses'[i] = IF i <= n THEN hypotheses[i] ELSE s[i - n]
  BY <1>1, SMT
<1>3. \A i \in 1..n : hypotheses[i] \in Present
  BY <1>2 DEF Present
<1>4. \A i \in 1..m : s[i] \in Hyp /\ s[i] \notin Present
  BY <1>2 DEF Fresh
<1>5. ASSUME NEW i \in 1..(n + m), NEW j \in 1..(n + m),
             hypotheses'[i] = hypotheses'[j]
      PROVE  i = j
  <2>1. CASE i <= n /\ j <= n
    <3>1. hypotheses[i] = hypotheses[j]
      BY <1>2, <1>5, <2>1
    <3>2. QED
      BY <1>2, <2>1, <3>1 DEF TypeOK
  <2>2. CASE i > n /\ j > n
    <3>1. /\ i - n \in 1..m /\ j - n \in 1..m
          /\ s[i - n] = s[j - n]
      BY <1>2, <1>5, <2>2
    <3>2. i - n = j - n
      BY <1>2, <3>1 DEF Fresh
    <3>3. QED
      BY <1>2, <3>2
  <2>3. CASE i <= n /\ j > n
    BY <1>2, <1>3, <1>4, <1>5, <2>3
  <2>4. CASE i > n /\ j <= n
    BY <1>2, <1>3, <1>4, <1>5, <2>4
  <2>5. QED
    BY <1>2, <2>1, <2>2, <2>3, <2>4
<1>6. Present' = Present \cup {s[i] : i \in 1..m}
  <2>1. ASSUME NEW h \in Present' PROVE h \in Present \cup {s[i] : i \in 1..m}
    <3>1. PICK i \in 1..(n + m) : h = hypotheses'[i]
      BY <1>2, <2>1 DEF Present
    <3>2. CASE i <= n
      BY <1>2, <1>3, <3>1, <3>2
    <3>3. CASE i > n
      <4>1. i - n \in 1..m /\ h = s[i - n]
        BY <1>2, <3>1, <3>3
      <4>2. QED
        BY <4>1
    <3>4. QED
      BY <1>2, <3>2, <3>3
  <2>2. ASSUME NEW h \in Present PROVE h \in Present'
    <3>1. PICK i \in 1..n : h = hypotheses[i]
      BY <1>2, <2>2 DEF Present
    <3>2. i \in 1..(n + m) /\ hypotheses'[i] = h
      BY <1>2, <3>1
    <3>3. QED
      BY <1>2, <3>2 DEF Present
  <2>3. ASSUME NEW i \in 1..m PROVE s[i] \in Present'
    <3>1. n + i \in 1..(n + m) /\ hypotheses'[n + i] = s[i]
      BY <1>2
    <3>2. QED
      BY <1>2, <3>1 DEF Present
  <2>4. QED
    BY <2>1, <2>2, <2>3
<1>7. /\ createdBy' \in [Hyp -> Creator \cup {None}]
      /\ \A h \in Hyp : createdBy'[h] =
            IF h \in {s[i] : i \in 1..m} THEN by ELSE createdBy[h]
  BY <1>2 DEF AddHypotheses, TypeOK
<1>8. by # None
  BY NoneAssumption
<1>9. \A h \in Hyp : createdBy'[h] # None <=> h \in Present'
  BY <1>6, <1>7, <1>8 DEF TypeOK
<1>10. QED
  BY <1>2, <1>5, <1>6, <1>7, <1>9

-----------------------------------------------------------------------------
(* The type invariant. *)

\* Where the edges lead.
LEMMA Edges ==
  /\ \A n \in DOMAIN EdgeOf : EdgeOf[n] \in Node \ {"challenge_hypothesis"}
  /\ Quiet \subseteq DOMAIN EdgeOf
  /\ "challenge_hypothesis" \notin Quiet
  BY SMT DEF EdgeOf, Node, Quiet

LEMMA InitType == Init => TypeInv
<1> SUFFICES ASSUME Init PROVE TypeInv
  OBVIOUS
<1>1. /\ hypotheses = <<>> /\ hypotheses \in Seq(Hyp) /\ DOMAIN hypotheses = {}
      /\ Present = {}
  BY DEF Init, Present
<1>2. limits \in Limits /\ limits.reserved \in Nat
  BY LimitsAssumption DEF Init
<1>3. "normalize_incident" \in Node
  BY DEF Node, EdgeOf
<1>4. MaxResumes \in Nat
  BY BoundsAssumption
<1>5. QED
  BY <1>1, <1>2, <1>3, <1>4 DEF Init, TypeInv, TypeOK, Position,
     MAX_CHALLENGE_ROUNDS

\* What asking as a role does to the history of keys.
LEMMA AskType ==
  ASSUME TypeOK, NEW role \in Role, AskAs(role)
  PROVE  asked' \subseteq ExecKey /\ asks' \in Nat
<1>1. [role |-> role, iterationsUsed |-> iterationsUsed,
       challengeRounds |-> challengeRounds, resumeCount |-> resumeCount]
         \in ExecKey
  BY BoundsAssumption DEF TypeOK, ExecKey, MAX_CHALLENGE_ROUNDS
<1>2. QED
  BY <1>1 DEF AskAs, TypeOK

\* A node of a running lap.
LEMMA NodeType ==
  ASSUME TypeInv, NodeStep
  PROVE  TypeInv'
<1> USE DEF TypeInv, Position
<1>1. CASE QuietNode
  BY <1>1, Edges DEF QuietNode, ControlIsKept, At, TypeOK, data, control, history,
     Present,
     Quiet
<1>2. CASE GenerateHypotheses
  <2>1. PICK s \in Proposals : AddHypotheses(s, "initial")
    BY <1>2 DEF GenerateHypotheses, CallDeclared
  <2>2. /\ hypotheses' \in Seq(Hyp)
        /\ \A i, j \in DOMAIN hypotheses' :
              hypotheses'[i] = hypotheses'[j] => i = j
        /\ createdBy' \in [Hyp -> Creator \cup {None}]
        /\ \A h \in Hyp : createdBy'[h] # None <=> h \in Present'
        /\ Present \subseteq Present'
    BY <2>1, ProposalsAreFresh, AddKeepsHypotheses DEF Creator
  <2>3. asked' \subseteq ExecKey /\ asks' \in Nat
    BY <1>2, AskType DEF GenerateHypotheses, CallDeclared, Role
  <2>4. node' \in Node \ {"challenge_hypothesis", "review_conclusion"}
    BY <1>2 DEF GenerateHypotheses, CallDeclared, At, EdgeOf, Node
  <2>5. node = "generate_hypotheses" /\ thread = "running"
    BY <1>2 DEF GenerateHypotheses, CallDeclared, At
  <2>6. QED
    BY <1>2, <2>2, <2>3, <2>4, <2>5 DEF GenerateHypotheses, CallDeclared, TypeOK
<1>3. CASE PlanInvestigation
  <2>1. node' \in Node \ {"challenge_hypothesis"}
    BY <1>3 DEF PlanInvestigation, At, EdgeOf, Node
  <2>2. QED
    BY <1>3, <2>1 DEF PlanInvestigation, At, TypeOK, data, history, Present
<1>4. CASE InterpretResidualEvidence
  <2>1. node' \in Node \ {"challenge_hypothesis"}
    BY <1>4 DEF InterpretResidualEvidence, CallDeclared, At, EdgeOf, Node
  <2>2. asked' \subseteq ExecKey /\ asks' \in Nat
    BY <1>4, AskType DEF InterpretResidualEvidence, CallDeclared, Role
  <2>3. QED
    BY <1>4, <2>1, <2>2 DEF InterpretResidualEvidence, CallDeclared, At, TypeOK, data,
       Present
<1>5. CASE ChallengeHypothesis
  <2>1. PICK h \in Hyp \ Present : AddHypotheses(<<h>>, "challenge")
    BY <1>5 DEF ChallengeHypothesis, Alternatives
  <2>2. /\ hypotheses' \in Seq(Hyp)
        /\ \A i, j \in DOMAIN hypotheses' :
              hypotheses'[i] = hypotheses'[j] => i = j
        /\ createdBy' \in [Hyp -> Creator \cup {None}]
        /\ \A g \in Hyp : createdBy'[g] # None <=> g \in Present'
        /\ Present \subseteq Present'
    BY <2>1, OneIsFresh, AddKeepsHypotheses DEF Creator
  <2>3. asked' \subseteq ExecKey /\ asks' \in Nat
    BY <1>5, AskType DEF ChallengeHypothesis, Alternatives, Role
  <2>4. node' \in Node \ {"challenge_hypothesis"}
    BY <1>5 DEF ChallengeHypothesis, Alternatives, At, EdgeOf, Node
  <2>5. /\ node = "challenge_hypothesis" /\ thread = "running"
        /\ target \in Present
        /\ challengeRounds + 1 \in 0..MAX_CHALLENGE_ROUNDS
        /\ reservedChallengeBudget - 1 \in Nat
    BY <1>5 DEF ChallengeHypothesis, Alternatives, At, TypeOK, MAX_CHALLENGE_ROUNDS
  <2>6. challenged' \subseteq Present'
    BY <1>5, <2>2, <2>5 DEF ChallengeHypothesis, Alternatives, TypeOK
  <2>7. QED
    BY <1>5, <2>2, <2>3, <2>4, <2>5, <2>6 DEF ChallengeHypothesis, Alternatives, TypeOK
<1>6. CASE ProposeConclusion
  <2>1. node' \in Node \ {"challenge_hypothesis"}
    BY <1>6 DEF ProposeConclusion, CallDeclared, Node
  <2>2. asked' \subseteq ExecKey /\ asks' \in Nat
    BY <1>6, AskType DEF ProposeConclusion, CallDeclared, Role
  <2>3. QED
    BY <1>6, <2>1, <2>2 DEF ProposeConclusion, CallDeclared, At, TypeOK, data, Present
<1>7. CASE ReviewPauses
  BY <1>7 DEF ReviewPauses, At, TypeOK, data, control, history, Present
<1>8. QED
  BY <1>1, <1>2, <1>3, <1>4, <1>5, <1>6, <1>7 DEF NodeStep

\* The termination check and its routes.
LEMMA TerminationType ==
  ASSUME TypeInv, NEW d \in Decisions, TerminationCheck(d)
  PROVE  TypeInv'
<1> USE DEF TypeInv, Position
<1>1. /\ node = "termination_check" /\ thread = "running" /\ target = None
      /\ UNCHANGED <<thread, limits, hypotheses, createdBy, challengeRounds,
                     reservedChallengeBudget, iterationsUsed, llmCallsUsed,
                     resumeCount, asked, asks, challenged>>
  BY DEF TerminationCheck, At, TypeOK, data, history
<1>2. Present' = Present
  BY <1>1 DEF Present
<1>3. ASSUME NEW kind \in StopKind, Terminate(kind)
      PROVE  /\ node' = "propose_conclusion" /\ target' = None
             /\ stopKind' \in StopKind
  BY <1>1, <1>3 DEF Terminate
<1>4. ASSUME NEW leader \in Present, RouteChallenge(leader)
      PROVE  \/ /\ node' = "propose_conclusion" /\ target' = None
                /\ stopKind' \in StopKind
             \/ /\ node' = "challenge_hypothesis" /\ target' = leader
                /\ stopKind' = None
                /\ challengeRounds < MAX_CHALLENGE_ROUNDS
                /\ reservedChallengeBudget > 0
  BY <1>3, <1>4 DEF RouteChallenge, Challenge, StopKind
<1>5. \/ /\ node' = "propose_conclusion" /\ target' = None
         /\ stopKind' \in StopKind
      \/ /\ node' = "plan_investigation" /\ target' = None /\ stopKind' = None
      \/ /\ node' = "challenge_hypothesis" /\ target' \in Present
         /\ stopKind' = None
         /\ challengeRounds < MAX_CHALLENGE_ROUNDS
         /\ reservedChallengeBudget > 0
  <2>1. /\ d.route = "challenge-required" => d.leaderId \in Present
        /\ d.route = "terminal" => d.stopKind \in StopKind
        /\ d.route = "terminal" /\ d.stopKind = "sufficient" =>
              d.leaderId \in Present
    BY DEF Decisions, StopKind
  <2>2. QED
    BY <1>1, <1>3, <1>4, <2>1 DEF TerminationCheck, Route, Unchallenged,
       StopKind
<1>6. /\ "propose_conclusion" \in Node /\ "plan_investigation" \in Node
      /\ "challenge_hypothesis" \in Node
  BY DEF Node, EdgeOf
<1>7. /\ Present \subseteq Hyp /\ None \notin Present
  BY NoneAssumption DEF Present, TypeOK
<1>8. QED
  BY <1>1, <1>2, <1>5, <1>6, <1>7 DEF TypeOK

\* What a human answers.
LEMMA HumanType ==
  ASSUME TypeInv, HumanStep
  PROVE  TypeInv'
<1> USE DEF TypeInv, Position
<1>1. /\ thread = "paused" /\ thread' = "running"
      /\ node = "review_conclusion" /\ target = None
      /\ resumeCount \in 0..MaxResumes /\ resumeCount' = resumeCount + 1
      /\ resumeCount' \in 0..(MaxResumes + 1)
  <2>1. Resumed
    BY DEF HumanStep, Confirm, Reject, AddHypothesis
  <2>2. node = "review_conclusion" /\ target = None
    BY <2>1 DEF Resumed, TypeOK
  <2>3. resumeCount \in 0..(MaxResumes + 1) /\ resumeCount # MaxResumes + 1
    BY <2>2 DEF TypeOK
  <2>4. QED
    BY <2>1, <2>2, <2>3, BoundsAssumption DEF Resumed
<1>2. {"END", "generate_hypotheses", "derive_predictions"} \subseteq Node
  BY DEF Node, EdgeOf
<1>3. CASE Confirm
  BY <1>1, <1>2, <1>3 DEF Confirm, TypeOK, data, history, Present
<1>4. CASE Reject
  BY <1>1, <1>2, <1>4, BoundsAssumption DEF Reject, TypeOK, data, history,
     Present
<1>5. ASSUME NEW h \in Hyp, AddHypothesis(h)
      PROVE  TypeInv'
  <2>1. /\ hypotheses' \in Seq(Hyp)
        /\ \A i, j \in DOMAIN hypotheses' :
              hypotheses'[i] = hypotheses'[j] => i = j
        /\ createdBy' \in [Hyp -> Creator \cup {None}]
        /\ \A g \in Hyp : createdBy'[g] # None <=> g \in Present'
        /\ Present \subseteq Present'
    BY <1>5, OneIsFresh, AddKeepsHypotheses DEF AddHypothesis, Creator
  <2>2. QED
    BY <1>1, <1>2, <1>5, <2>1, BoundsAssumption DEF AddHypothesis, TypeOK,
       history
<1>6. QED
  BY <1>3, <1>4, <1>5 DEF HumanStep

\* Every step keeps the types.
LEMMA NextType == TypeInv /\ [Next]_vars => TypeInv'
<1> SUFFICES ASSUME TypeInv, [Next]_vars PROVE TypeInv'
  OBVIOUS
<1>1. CASE FaultStep
  BY <1>1 DEF FaultStep, NodeThrows, Continue, TypeInv, Position, TypeOK,
     data, control, history, Present
<1>2. CASE UNCHANGED vars
  BY <1>2 DEF vars, TypeInv, Position, TypeOK, data, control, history, Present
<1>3. CASE Ended
  BY <1>2, <1>3 DEF Ended
<1>4. QED
  BY <1>1, <1>2, <1>3, NodeType, TerminationType, HumanType DEF Next

\* The control fields are counts below their bounds, the hypotheses distinct,
\* and a challenge has a target, whatever the nodes and the humans do.
THEOREM TypeCorrect == Spec => []TypeOK
<1>1. TypeInv => TypeOK
  BY DEF TypeInv
<1>2. QED
  BY <1>1, InitType, NextType, PTL DEF Spec

-----------------------------------------------------------------------------
(* The phases of a lap, which the arguments below count along. *)

Early == {"normalize_incident", "collect_baseline", "generate_hypotheses"}
Planning == {"derive_predictions", "plan_investigation"}
Testing == {"execute_investigation", "evaluate_predictions",
            "interpret_residual_evidence"}
Deciding == {"derive_hypothesis_state", "termination_check",
             "challenge_hypothesis", "propose_conclusion"}
Late == {"review_conclusion", "END"}
Phases == {Early, Planning, Testing, Deciding, Late}

\* What a step may do to the fields that the graph routes by, node by node.
\* Everything below follows from these shapes.
Moves ==
    \/ /\ UNCHANGED <<control, history>>
       /\ \A P \in Phases : node \in P <=> node' \in P
       /\ node' \in {"propose_conclusion", "review_conclusion", "END"} <=>
             node \in {"propose_conclusion", "review_conclusion", "END"}
       /\ node' = "plan_investigation" => node \in Planning
       /\ node = "plan_investigation" => node' = node
    \/ /\ node = "generate_hypotheses" /\ node' = "derive_predictions"
       /\ AskAs(node) /\ llmCallsUsed' = llmCallsUsed + 1
       /\ UNCHANGED <<stopKind, challengeRounds, reservedChallengeBudget,
                      iterationsUsed, resumeCount, challenged>>
    \/ /\ node = "plan_investigation" /\ node' = "execute_investigation"
       /\ iterationsUsed' = iterationsUsed + 1
       /\ UNCHANGED <<stopKind, challengeRounds, reservedChallengeBudget,
                      llmCallsUsed, resumeCount, history>>
    \/ /\ node = "interpret_residual_evidence"
       /\ node' = "derive_hypothesis_state"
       /\ AskAs(node) /\ llmCallsUsed' = llmCallsUsed + 1
       /\ UNCHANGED <<stopKind, challengeRounds, reservedChallengeBudget,
                      iterationsUsed, resumeCount, challenged>>
    \/ /\ node = "termination_check" /\ node' = "propose_conclusion"
       /\ stopKind' \in StopKind
       /\ stopKind' = "sufficient" => challengeRounds # 0
       /\ UNCHANGED <<challengeRounds, reservedChallengeBudget,
                      iterationsUsed, llmCallsUsed, resumeCount, history>>
    \/ /\ node = "termination_check"
       /\ \/ node' = "challenge_hypothesis"
          \/ node' = "plan_investigation" /\ ~BudgetSpent
       /\ stopKind' = None
       /\ UNCHANGED <<challengeRounds, reservedChallengeBudget,
                      iterationsUsed, llmCallsUsed, resumeCount, history>>
    \/ /\ node = "challenge_hypothesis" /\ node' = "execute_investigation"
       /\ AskAs(node) /\ challenged' # {}
       /\ challengeRounds' = challengeRounds + 1
       /\ reservedChallengeBudget' = reservedChallengeBudget - 1
       /\ stopKind' = None
       /\ UNCHANGED <<iterationsUsed, llmCallsUsed, resumeCount>>
    \/ /\ node = "propose_conclusion" /\ node' \in Late
       /\ AskAs(node) /\ llmCallsUsed' = llmCallsUsed + 1
       /\ UNCHANGED <<stopKind, challengeRounds, reservedChallengeBudget,
                      iterationsUsed, resumeCount, challenged>>
    \/ /\ node = "review_conclusion"
       /\ \/ node' = "END" /\ stopKind' = stopKind
          \/ /\ node' \in {"generate_hypotheses", "derive_predictions"}
             /\ stopKind' = None
       /\ resumeCount' = resumeCount + 1
       /\ UNCHANGED <<challengeRounds, reservedChallengeBudget,
                      iterationsUsed, llmCallsUsed, history>>

\* A quiet node stays in its phase.
LEMMA QuietPhases ==
  ASSUME NEW n \in Quiet
  PROVE  /\ \A P \in Phases : n \in P <=> EdgeOf[n] \in P
         /\ EdgeOf[n] = "plan_investigation" => n \in Planning
         /\ n # "plan_investigation"
         /\ {n, EdgeOf[n]} \cap {"propose_conclusion", "review_conclusion",
                                 "END"} = {}
  BY SMT DEF Quiet, EdgeOf, Phases, Early, Planning, Testing, Deciding, Late

LEMMA StepMoves == TypeInv /\ [Next]_vars => Moves /\ UNCHANGED limits
<1> SUFFICES ASSUME TypeInv, [Next]_vars PROVE Moves /\ UNCHANGED limits
  OBVIOUS
<1>1. CASE node' = node /\ UNCHANGED <<limits, control, history>>
  BY <1>1 DEF Moves, Planning
<1>2. CASE QuietNode
  <2>1. PICK n \in Quiet : node = n /\ node' = EdgeOf[n]
    BY <1>2 DEF QuietNode, ControlIsKept, At
  <2>2. UNCHANGED <<limits, control, history>>
    BY <1>2 DEF QuietNode, ControlIsKept
  <2>3. QED
    BY <2>1, <2>2, QuietPhases DEF Moves
<1>3. CASE GenerateHypotheses
  BY <1>3 DEF GenerateHypotheses, CallDeclared, At, EdgeOf, Moves
<1>4. CASE PlanInvestigation
  BY <1>4 DEF PlanInvestigation, At, EdgeOf, Moves
<1>5. CASE InterpretResidualEvidence
  BY <1>5 DEF InterpretResidualEvidence, CallDeclared, At, EdgeOf, Moves
<1>6. CASE ChallengeHypothesis
  BY <1>6 DEF ChallengeHypothesis, Alternatives, At, EdgeOf, Moves
<1>7. CASE ProposeConclusion
  BY <1>7 DEF ProposeConclusion, CallDeclared, At, Moves, Late
<1>8. CASE ReviewPauses \/ FaultStep \/ Ended \/ UNCHANGED vars
  BY <1>1, <1>8 DEF ReviewPauses, FaultStep, NodeThrows, Continue, Ended, vars
<1>9. ASSUME NEW d \in Decisions, TerminationCheck(d)
      PROVE  Moves /\ UNCHANGED limits
  <2>1. /\ node = "termination_check"
        /\ UNCHANGED <<limits, challengeRounds, reservedChallengeBudget,
                       iterationsUsed, llmCallsUsed, resumeCount, history>>
    BY <1>9 DEF TerminationCheck, At
  <2>2. d.route = "terminal" => d.stopKind \in StopKind
    BY DEF Decisions, StopKind
  <2>3. \/ /\ node' = "propose_conclusion" /\ stopKind' \in StopKind
           /\ stopKind' = "sufficient" => challengeRounds # 0
        \/ /\ node' = "challenge_hypothesis" /\ stopKind' = None
        \/ /\ node' = "plan_investigation" /\ stopKind' = None
           /\ ~BudgetSpent
    BY <1>9, <2>2 DEF TerminationCheck, Route, RouteChallenge, Terminate,
       Challenge, Unchallenged, StopKind
  <2>4. QED
    BY <2>1, <2>3 DEF Moves
<1>10. CASE HumanStep
  BY <1>10 DEF HumanStep, Confirm, Reject, AddHypothesis, Resumed, TypeInv,
     Position, Moves
<1>11. QED
  BY <1>2, <1>3, <1>4, <1>5, <1>6, <1>7, <1>8, <1>9, <1>10 DEF Next, NodeStep

-----------------------------------------------------------------------------
(* The stop kind. *)

\* The part of the verdict that steps preserve: a round that was run had a
\* target.
Verdict == /\ StopKindIsDecided
           /\ SufficientIsChallenged
           /\ challengeRounds > 0 => challenged # {}

LEMMA VerdictStep ==
  ASSUME TypeInv, Verdict, Moves
  PROVE  Verdict'
<1>1. None \notin StopKind /\ "sufficient" \in StopKind
  BY NoneAssumption DEF StopKind
<1>2. challengeRounds \in Nat
  BY DEF TypeInv, TypeOK, MAX_CHALLENGE_ROUNDS
<1>3. QED
  BY <1>1, <1>2, SMTT(30) DEF Verdict, Moves, StopKindIsDecided,
     SufficientIsChallenged, control, history, AskAs, Late

LEMMA VerdictHolds == Spec => []Verdict
<1>1. Init => Verdict
  BY NoneAssumption DEF Init, Verdict, StopKindIsDecided,
     SufficientIsChallenged, StopKind
<1>2. TypeInv /\ Verdict /\ [Next]_vars => Verdict'
  BY VerdictStep, StepMoves
<1>3. QED
  BY <1>1, <1>2, InitType, NextType, PTL DEF Spec

\* A stop kind is set exactly while a conclusion is drawn from it, on every
\* route into and out of the review.
THEOREM StopKindIsAlwaysDecided == Spec => []StopKindIsDecided
<1>1. Verdict => StopKindIsDecided
  BY DEF Verdict
<1>2. QED
  BY <1>1, VerdictHolds, PTL

\* No run concludes sufficient before a challenge round was run, whatever its
\* termination check says.
THEOREM SufficientIsAlwaysChallenged == Spec => []SufficientIsChallenged
<1>1. Verdict => SufficientIsChallenged
  BY DEF Verdict
<1>2. QED
  BY <1>1, VerdictHolds, PTL

-----------------------------------------------------------------------------
(* The challenge reserve. *)

\* A challenge's key is asked for under the round it counts, and no other
\* step touches either.
LEMMA PaidStep ==
  ASSUME TypeInv, ChallengeIsPaidFor, Moves, UNCHANGED limits
  PROVE  ChallengeIsPaidFor'
<1> USE DEF ChallengeIsPaidFor
<1>1. /\ challengeRounds \in 0..2 /\ reservedChallengeBudget \in Nat
      /\ limits.reserved \in Nat
      /\ node = "challenge_hypothesis" => challengeRounds < 2
  BY LimitsAssumption DEF TypeInv, TypeOK, Position, MAX_CHALLENGE_ROUNDS
<1>2. CASE UNCHANGED <<challengeRounds, reservedChallengeBudget, asked>>
  BY <1>2
<1>3. CASE /\ AskAs(node) /\ node # "challenge_hypothesis"
           /\ UNCHANGED <<challengeRounds, reservedChallengeBudget>>
  <2>1. \A n \in 0..2 :
          (\E k \in asked' : /\ k.role = "challenge_hypothesis"
                             /\ k.challengeRounds = n)
          <=> (\E k \in asked : /\ k.role = "challenge_hypothesis"
                                /\ k.challengeRounds = n)
    BY <1>3 DEF AskAs
  <2>2. QED
    BY <1>3, <2>1 DEF MAX_CHALLENGE_ROUNDS
<1>4. CASE /\ AskAs(node) /\ node = "challenge_hypothesis"
           /\ challengeRounds' = challengeRounds + 1
           /\ reservedChallengeBudget' = reservedChallengeBudget - 1
  <2>1. \A n \in 0..2 :
          (\E k \in asked' : /\ k.role = "challenge_hypothesis"
                             /\ k.challengeRounds = n)
          <=> \/ n = challengeRounds
              \/ \E k \in asked : /\ k.role = "challenge_hypothesis"
                                  /\ k.challengeRounds = n
    <3> DEFINE new == [role |-> node, iterationsUsed |-> iterationsUsed,
                       challengeRounds |-> challengeRounds,
                       resumeCount |-> resumeCount]
    <3>1. asked' = asked \cup {new}
      BY <1>4 DEF AskAs
    <3>2. /\ new.role = "challenge_hypothesis"
          /\ new.challengeRounds = challengeRounds
      BY <1>4
    <3> HIDE DEF new
    <3>3. QED
      BY <3>1, <3>2
  <2>2. \A n \in 0..2 :
          n < challengeRounds' <=> n = challengeRounds \/ n < challengeRounds
    <3>1. challengeRounds' = challengeRounds + 1
      BY <1>4
    <3>2. QED
      BY <1>1, <3>1, SMT
  <2>3. challengeRounds' + reservedChallengeBudget' = limits'.reserved
    BY <1>1, <1>4
  <2>4. QED
    BY <2>1, <2>2, <2>3 DEF MAX_CHALLENGE_ROUNDS
<1>5. QED
  BY <1>2, <1>3, <1>4 DEF Moves, control, history

\* Rounds that were run and reserve that is left add up to what the run started
\* with, and each round is one model call of its own.
THEOREM ChallengesArePaidFor == Spec => []ChallengeIsPaidFor
<1>1. Init => ChallengeIsPaidFor
  <2>1. ASSUME Init PROVE ChallengeIsPaidFor
    <3>1. limits.reserved \in Nat
      BY <2>1, LimitsAssumption DEF Init
    <3>2. QED
      BY <2>1, <3>1 DEF Init, ChallengeIsPaidFor, MAX_CHALLENGE_ROUNDS
  <2>2. QED
    BY <2>1
<1>2. TypeInv /\ ChallengeIsPaidFor /\ [Next]_vars => ChallengeIsPaidFor'
  BY PaidStep, StepMoves
<1>3. QED
  BY <1>1, <1>2, InitType, NextType, PTL DEF Spec

-----------------------------------------------------------------------------
(* The two logical budgets. *)

IterationBound == AtLeast(limits.maxIterations, 1) + resumeCount
CallBound == AtLeast(limits.llmCallBudget, 2) + challengeRounds
             + 3 * resumeCount

\* What a lap may still spend before its end: an iteration until it has
\* planned; two calls before its first, one before its interpretation.
Spending ==
    /\ iterationsUsed <= IterationBound
    /\ node \in Early \cup Planning => iterationsUsed + 1 <= IterationBound
    /\ llmCallsUsed <= CallBound + 1
    /\ node \notin Late => llmCallsUsed <= CallBound
    /\ node \in Planning \cup Testing => llmCallsUsed + 1 <= CallBound
    /\ node \in Early => llmCallsUsed + 2 <= CallBound

LEMMA SpendingStep ==
  ASSUME TypeInv, Spending, Moves, UNCHANGED limits
  PROVE  Spending'
<1>1. /\ iterationsUsed \in Nat /\ llmCallsUsed \in Nat
      /\ challengeRounds \in Nat /\ resumeCount \in Nat
      /\ limits.maxIterations \in Nat /\ limits.llmCallBudget \in Nat
  BY LimitsAssumption, BoundsAssumption DEF TypeInv, TypeOK,
     MAX_CHALLENGE_ROUNDS
<1> DEFINE I == AtLeast(limits.maxIterations, 1)
           L == AtLeast(limits.llmCallBudget, 2)
<1>2. /\ I \in Nat /\ L \in Nat
      /\ limits.maxIterations <= I /\ limits.llmCallBudget <= L
      /\ I' = I /\ L' = L
  BY <1>1 DEF AtLeast
<1>3. /\ IterationBound = I + resumeCount
      /\ CallBound = L + challengeRounds + 3 * resumeCount
      /\ IterationBound' = I + resumeCount'
      /\ CallBound' = L + challengeRounds' + 3 * resumeCount'
  BY <1>2 DEF IterationBound, CallBound
<1> HIDE DEF I, L
<1> USE DEF Spending, Early, Planning, Testing, Late
<1>4. CASE /\ UNCHANGED <<control, history>>
           /\ \A P \in Phases : node \in P <=> node' \in P
  BY <1>1, <1>2, <1>3, <1>4 DEF control, Phases
<1>5. CASE /\ node = "termination_check" /\ node' = "plan_investigation"
           /\ ~BudgetSpent
           /\ UNCHANGED <<challengeRounds, iterationsUsed, llmCallsUsed,
                          resumeCount>>
  BY <1>1, <1>2, <1>3, <1>5 DEF BudgetSpent
<1>6. CASE /\ node = "challenge_hypothesis"
           /\ node' = "execute_investigation"
           /\ challengeRounds' = challengeRounds + 1
           /\ UNCHANGED <<iterationsUsed, llmCallsUsed, resumeCount>>
  BY <1>1, <1>2, <1>3, <1>6
<1>7. CASE /\ node = "review_conclusion"
           /\ node' \in {"END", "generate_hypotheses", "derive_predictions"}
           /\ resumeCount' = resumeCount + 1
           /\ UNCHANGED <<challengeRounds, iterationsUsed, llmCallsUsed>>
  BY <1>1, <1>2, <1>3, <1>7
<1>8. CASE /\ UNCHANGED <<challengeRounds, resumeCount>>
           /\ \/ /\ node = "generate_hypotheses"
                 /\ node' = "derive_predictions"
                 /\ llmCallsUsed' = llmCallsUsed + 1
                 /\ UNCHANGED iterationsUsed
              \/ /\ node = "plan_investigation"
                 /\ node' = "execute_investigation"
                 /\ iterationsUsed' = iterationsUsed + 1
                 /\ UNCHANGED llmCallsUsed
              \/ /\ node = "interpret_residual_evidence"
                 /\ node' = "derive_hypothesis_state"
                 /\ llmCallsUsed' = llmCallsUsed + 1
                 /\ UNCHANGED iterationsUsed
              \/ /\ node = "termination_check"
                 /\ node' \in {"propose_conclusion", "challenge_hypothesis"}
                 /\ UNCHANGED <<iterationsUsed, llmCallsUsed>>
              \/ /\ node = "propose_conclusion" /\ node' \in Late
                 /\ llmCallsUsed' = llmCallsUsed + 1
                 /\ UNCHANGED iterationsUsed
  BY <1>1, <1>2, <1>3, <1>8
<1>9. QED
  BY <1>4, <1>5, <1>6, <1>7, <1>8 DEF Moves

LEMMA SpendingHolds == Spec => []Spending
<1>1. Init => Spending
  <2>1. ASSUME Init PROVE Spending
    <3>1. limits.maxIterations \in Nat /\ limits.llmCallBudget \in Nat
      BY <2>1, LimitsAssumption DEF Init
    <3>2. QED
      BY <2>1, <3>1 DEF Init, Spending, IterationBound, CallBound, AtLeast,
         Early, Planning, Testing, Late
  <2>2. QED
    BY <2>1
<1>2. TypeInv /\ Spending /\ [Next]_vars => Spending'
  BY SpendingStep, StepMoves
<1>3. QED
  BY <1>1, <1>2, InitType, NextType, PTL DEF Spec

\* The iteration budget bounds the automatic loop, and each human answer buys
\* one iteration more and no further.
THEOREM IterationsAreBounded == Spec => []IterationsBounded
<1>1. Spending => IterationsBounded
  BY DEF Spending, IterationBound, IterationsBounded
<1>2. QED
  BY <1>1, SpendingHolds, PTL

\* Past its call budget a run makes the calls of the lap it is in and of the
\* laps a challenge or a human starts, and no others.
THEOREM LlmCallsAreBounded == Spec => []LlmCallsBounded
<1>1. TypeInv /\ Spending => LlmCallsBounded
  <2>1. ASSUME TypeInv, Spending PROVE LlmCallsBounded
    <3>1. /\ challengeRounds \in Nat /\ resumeCount \in Nat
          /\ limits.llmCallBudget \in Nat
      BY <2>1, LimitsAssumption, BoundsAssumption DEF TypeInv, TypeOK,
         MAX_CHALLENGE_ROUNDS
    <3>2. AtLeast(limits.llmCallBudget, 2) \in Nat
      BY <3>1 DEF AtLeast
    <3>3. QED
      BY <2>1, <3>1, <3>2 DEF Spending, CallBound, LlmCallsBounded
  <2>2. QED
    BY <2>1
<1>2. QED
  BY <1>1, SpendingHolds, InitType, NextType, PTL DEF Spec

\* The two logical budgets of a run, for any budgets and any human answers.
THEOREM BudgetsAlwaysHold == Spec => []BudgetsHold
<1>1. IterationsBounded /\ LlmCallsBounded => BudgetsHold
  BY DEF BudgetsHold
<1>2. QED
  BY <1>1, IterationsAreBounded, LlmCallsAreBounded, PTL

-----------------------------------------------------------------------------
(* The exec keys of model calls. *)

\* The counters of a key, and of the state, added up: none of them ever falls.
Turn == iterationsUsed + challengeRounds + resumeCount
TurnOf(k) == k.iterationsUsed + k.challengeRounds + k.resumeCount

\* Where a run can be after it asked as a role and before a counter moves.
Since(role) ==
    CASE role = "generate_hypotheses" ->
            Planning \cup Testing \cup Deciding \cup Late
      [] role = "interpret_residual_evidence" ->
            Deciding \cup Late \cup {"plan_investigation"}
      [] role = "challenge_hypothesis" -> {}
      [] role = "propose_conclusion" -> Late

\* A key of this turn belongs to a role that the run is past.
KeysPast == \A k \in asked :
                /\ TurnOf(k) <= Turn
                /\ TurnOf(k) = Turn => node \in Since(k.role)

LEMMA KeysStep ==
  ASSUME TypeInv, KeysPast, Moves
  PROVE  KeysPast'
<1>1. /\ iterationsUsed \in Nat /\ challengeRounds \in Nat
      /\ resumeCount \in Nat /\ Turn \in Nat
  BY BoundsAssumption DEF TypeInv, TypeOK, MAX_CHALLENGE_ROUNDS, Turn
<1>2. ASSUME NEW k \in asked
      PROVE  /\ k.role \in Role /\ TurnOf(k) \in Nat
             /\ TurnOf(k) <= Turn
             /\ TurnOf(k) = Turn => node \in Since(k.role)
  BY <1>2 DEF TypeInv, TypeOK, ExecKey, TurnOf, KeysPast
<1> DEFINE new == [role |-> node, iterationsUsed |-> iterationsUsed,
                   challengeRounds |-> challengeRounds,
                   resumeCount |-> resumeCount]
<1>3. new.role = node /\ TurnOf(new) = Turn
  BY DEF TurnOf, Turn
<1> HIDE DEF new
<1> USE DEF KeysPast
\* A counter moves, so every key asked for before is of an earlier turn.
<1>4. CASE asked' = asked /\ Turn' = Turn + 1
  BY <1>1, <1>2, <1>4
\* The run asks as the role of its node and leaves that role behind.
<1>5. CASE /\ AskAs(node) /\ node' \in Since(node) /\ Turn' = Turn
           /\ \A role \in Role : node \in Since(role) => node' \in Since(role)
  <2>1. asked' = asked \cup {new}
    BY <1>5 DEF AskAs, new
  <2>2. QED
    BY <1>1, <1>2, <1>3, <1>5, <2>1
<1>6. CASE node = "challenge_hypothesis" /\ AskAs(node) /\ Turn' = Turn + 1
  <2>1. asked' = asked \cup {new}
    BY <1>6 DEF AskAs, new
  <2>2. QED
    BY <1>1, <1>2, <1>3, <1>6, <2>1
\* Nothing is asked and no counter moves: no role's turn comes again.
<1>7. CASE /\ asked' = asked /\ Turn' = Turn
           /\ \A role \in Role : node \in Since(role) => node' \in Since(role)
  BY <1>1, <1>2, <1>7
<1> HIDE DEF KeysPast
<1>8. CASE /\ UNCHANGED <<control, history>>
           /\ \A P \in Phases : node \in P <=> node' \in P
           /\ node = "plan_investigation" => node' = node
  <2>1. \A role \in Role : node \in Since(role) => node' \in Since(role)
    BY <1>8, Z3 DEF Since, Role, Phases, Planning, Testing, Deciding, Late
  <2>2. QED
    BY <1>7, <1>8, <2>1 DEF control, history, Turn
<1>9. CASE /\ node \in {"generate_hypotheses", "interpret_residual_evidence",
                       "propose_conclusion"}
           /\ AskAs(node)
           /\ UNCHANGED <<challengeRounds, iterationsUsed, resumeCount>>
           /\ \/ node = "generate_hypotheses" /\ node' = "derive_predictions"
              \/ /\ node = "interpret_residual_evidence"
                 /\ node' = "derive_hypothesis_state"
              \/ node = "propose_conclusion" /\ node' \in Late
  <2>1. \A role \in Role : node \in Since(role) => node' \in Since(role)
    BY <1>9 DEF Since, Role, Planning, Testing, Deciding, Late
  <2>2. node' \in Since(node)
    BY <1>9 DEF Since, Planning, Testing, Deciding, Late
  <2>3. QED
    BY <1>5, <1>9, <2>1, <2>2 DEF Turn
<1>10. CASE /\ node = "termination_check"
            /\ node' \in {"propose_conclusion", "challenge_hypothesis",
                          "plan_investigation"}
            /\ UNCHANGED <<challengeRounds, iterationsUsed, resumeCount,
                           history>>
  <2>1. \A role \in Role : node \in Since(role) => node' \in Since(role)
    BY <1>10 DEF Since, Role, Planning, Testing, Deciding, Late
  <2>2. QED
    BY <1>7, <1>10, <2>1 DEF Turn, history
<1>11. CASE \/ /\ iterationsUsed' = iterationsUsed + 1
               /\ UNCHANGED <<challengeRounds, resumeCount, history>>
            \/ /\ resumeCount' = resumeCount + 1
               /\ UNCHANGED <<challengeRounds, iterationsUsed, history>>
  BY <1>1, <1>4, <1>11 DEF Turn, history
<1>12. CASE /\ node = "challenge_hypothesis" /\ AskAs(node)
            /\ challengeRounds' = challengeRounds + 1
            /\ UNCHANGED <<iterationsUsed, resumeCount>>
  BY <1>1, <1>6, <1>12 DEF Turn
<1>13. QED
  BY <1>8, <1>9, <1>10, <1>11, <1>12 DEF Moves

\* A step that asks asks for a key of its own.
LEMMA KeysAreNew ==
  ASSUME TypeInv, KeysPast, Moves, asks' # asks
  PROVE  asked' # asked
<1>1. AskAs(node) /\ node \in Role
  BY DEF Moves, history, Role
<1>2. node \notin Since(node)
  BY <1>1 DEF Since, Role, Planning, Testing, Deciding, Late
<1> DEFINE new == [role |-> node, iterationsUsed |-> iterationsUsed,
                   challengeRounds |-> challengeRounds,
                   resumeCount |-> resumeCount]
<1>3. new.role = node /\ TurnOf(new) = Turn
  BY DEF TurnOf, Turn
<1>4. new \notin asked
  BY <1>2, <1>3 DEF KeysPast
<1>5. asked' = asked \cup {new}
  BY <1>1 DEF AskAs
<1>6. QED
  BY <1>4, <1>5

\* No two model calls of a run share an exec key, on any route back into a
\* role.
THEOREM KeysAreAlwaysFresh == Spec => KeysAreFresh
<1>1. Init => KeysPast
  BY DEF Init, KeysPast
<1>2. TypeInv /\ KeysPast /\ [Next]_vars => KeysPast'
  BY KeysStep, StepMoves
<1>3. TypeInv /\ KeysPast /\ [Next]_vars => [asks' # asks => asked' # asked]_vars
  BY KeysAreNew, StepMoves
<1>4. QED
  BY <1>1, <1>2, <1>3, InitType, NextType, PTL DEF Spec, KeysAreFresh
-----------------------------------------------------------------------------
(* The product's termination check. *)

LEMMA NatMin ==
  ASSUME NEW S \in SUBSET Nat, S # {}
  PROVE  \E n \in S : \A m \in S : n <= m
<1>1. PICK n \in S : \A m \in S : <<m, n>> \notin OpToRel(<, Nat)
  BY NatLessThanWellFounded, WFMin
<1>2. \A m \in S : ~(m < n)
  BY <1>1 DEF OpToRel
<1>3. QED
  BY <1>2

StandingOK == standing \in [Hyp -> Status]

\* A rank is a position of STANDING_RANK, and the two that compete are first.
LEMMA RankIs ==
  ASSUME StandingOK, NEW h \in Hyp
  PROVE  /\ Rank(h) \in 1..5
         /\ Rank(h) <= 2 <=> standing[h] \in {"supported", "corroborated"}
<1>1. /\ DOMAIN Statuses = 1..5
      /\ Statuses[1] = "supported" /\ Statuses[2] = "corroborated"
      /\ Statuses[3] = "candidate" /\ Statuses[4] = "weakened"
      /\ Statuses[5] = "rejected"
  BY DEF Statuses
<1>2. \E i \in DOMAIN Statuses : Statuses[i] = standing[h]
  BY DEF StandingOK, Status
<1>3. Rank(h) \in DOMAIN Statuses /\ Statuses[Rank(h)] = standing[h]
  BY <1>2 DEF Rank
<1>4. QED
  BY <1>1, <1>3

\* A state with hypotheses has a leader, and no rank is above its.
LEMMA LeaderLeads ==
  ASSUME StandingOK, hypotheses \in Seq(Hyp), hypotheses # <<>>
  PROVE  /\ Leader \in Present
         /\ \A h \in Present : Rank(Leader) <= Rank(h)
<1> DEFINE I == DOMAIN hypotheses
           r(i) == Rank(hypotheses[i])
           First(i) == \A j \in I : r(i) < r(j) \/ (r(i) = r(j) /\ i <= j)
<1>1. I = 1..Len(hypotheses) /\ I # {} /\ I \subseteq Nat
  <2>1. Len(hypotheses) \in Nat /\ Len(hypotheses) # 0
    OBVIOUS
  <2>2. 1 \in 1..Len(hypotheses)
    BY <2>1
  <2>3. QED
    BY <2>1, <2>2
<1>2. \A i \in I : r(i) \in 1..5
  BY <1>1, RankIs
<1> HIDE DEF r
<1>3. PICK i \in I : \A j \in I : r(i) <= r(j)
  <2>1. {r(i) : i \in I} \in SUBSET Nat /\ {r(i) : i \in I} # {}
    BY <1>1, <1>2
  <2>2. PICK n \in {r(i) : i \in I} : \A m \in {r(i) : i \in I} : n <= m
    BY <2>1, NatMin
  <2>3. PICK i \in I : n = r(i)
    BY <2>2
  <2>4. QED
    BY <2>2, <2>3
<1>4. PICK k \in {j \in I : r(j) = r(i)} : \A j \in {j \in I : r(j) = r(i)} : k <= j
  <2>1. {j \in I : r(j) = r(i)} \in SUBSET Nat /\ {j \in I : r(j) = r(i)} # {}
    BY <1>1, <1>3
  <2>2. QED
    BY <2>1, NatMin
<1>5. First(k)
  BY <1>1, <1>2, <1>3, <1>4
<1> DEFINE first == CHOOSE n \in I : First(n)
<1>6. first \in I /\ First(first)
  BY <1>4, <1>5
<1>7. Leader = hypotheses[first]
  BY DEF Leader, r
<1> HIDE DEF first
<1>8. \A j \in I : r(first) <= r(j)
  BY <1>2, <1>6
<1>9. QED
  BY <1>6, <1>7, <1>8 DEF Present, r

\* What the check decides is among a check's decisions.
LEMMA DecisionIsOne ==
  ASSUME StandingOK, hypotheses \in Seq(Hyp)
  PROVE  Decision \in Decisions
<1>1. hypotheses # <<>> => Leader \in Present
  BY LeaderLeads
<1>2. QED
  BY <1>1 DEF Decision, Decisions, Stop, ChallengeRequired, Sufficient, StopKind

\* The hypotheses of a state are finitely many.
LEMMA PresentIsFinite ==
  ASSUME hypotheses \in Seq(Hyp)
  PROVE  IsFiniteSet(Present)
<1>1. IsFiniteSet(1..Len(hypotheses))
  BY FS_Interval
<1>2. hypotheses \in Surjection(1..Len(hypotheses), Present)
  BY DEF Surjection, Present
<1>3. QED
  BY <1>1, <1>2, FS_Surjection DEF ExistsSurjection

\* One that competes without a rival leads.
LEMMA LoneCompetitorLeads ==
  ASSUME StandingOK, hypotheses \in Seq(Hyp), Competing # {}, ~T3
  PROVE  Competing = {Leader}
<1>1. PICK h \in Competing : TRUE
  OBVIOUS
<1>2. Present \subseteq Hyp
  BY DEF Present
<1>3. h \in Present /\ hypotheses # <<>>
  BY <1>1 DEF Competing, Present
<1>4. Leader \in Present /\ Rank(Leader) <= Rank(h)
  BY <1>3, LeaderLeads
<1>5. Leader \in Competing
  BY <1>1, <1>2, <1>3, <1>4, RankIs DEF Competing
<1>6. IsFiniteSet(Competing)
  BY PresentIsFinite, FS_Subset DEF Competing
<1>7. Cardinality(Competing) \in Nat /\ Cardinality(Competing) # 0
  BY <1>5, <1>6, FS_CardinalityType, FS_EmptySet
<1>8. Cardinality(Competing) = 1
  BY <1>7 DEF T3
<1>9. QED
  BY <1>5, <1>6, <1>8, FS_Singleton

\* What the graph's own invariants add to a standing of every hypothesis.
StateInv == TypeInv /\ Verdict /\ StandingOK /\ StopKindIsJustified

\* The graph under either check is the graph under some check.
LEMMA StateStepIsAStep ==
  ASSUME TypeInv, StandingOK, [StateNext]_stateVars
  PROVE  [Next]_vars
<1>1. CASE Execute
  BY <1>1 DEF Execute, Next, NodeStep
<1>2. CASE Interpret
  BY <1>2 DEF Interpret, Next, NodeStep
<1>3. CASE Terminates
  <2>1. Decision \in Decisions
    BY DecisionIsOne DEF TypeInv, TypeOK
  <2>2. QED
    BY <1>3, <2>1 DEF Terminates, Next
<1>4. CASE OtherNode
  BY <1>4 DEF OtherNode, Next
<1>5. CASE Outside
  BY <1>5 DEF Outside, Next
<1>6. QED
  BY <1>1, <1>2, <1>3, <1>4, <1>5 DEF StateNext, stateVars

LEMMA StandingStep ==
  ASSUME StandingOK, [StateNext]_stateVars
  PROVE  StandingOK'
<1>1. "candidate" \in Status
  <2>1. 3 \in DOMAIN Statuses /\ Statuses[3] = "candidate"
    BY DEF Statuses
  <2>2. QED
    BY <2>1 DEF Status
<1>2. ASSUME Interpret PROVE StandingOK'
  <2>1. \A f \in [Present -> Status] :
          [h \in Hyp |-> IF h \in Present THEN f[h] ELSE "candidate"]
            \in [Hyp -> Status]
    BY <1>1
  <2>2. QED
    BY <1>2, <2>1 DEF Interpret, StandingOK
<1>3. QED
  BY <1>2 DEF StandingOK, StateNext, stateVars, Execute, Terminates, OtherNode,
     Outside

\* The stop kind the check's decision is turned into is justified by what the
\* check read.
LEMMA DecisionIsJustified ==
  ASSUME TypeInv, StandingOK, ByProduct, TerminationCheck(Decision),
         UNCHANGED <<standing, observed, check>>
  PROVE  StopKindIsJustified'
<1>1. /\ hypotheses \in Seq(Hyp) /\ challengeRounds \in 0..2
      /\ None \notin StopKind
  BY NoneAssumption DEF TypeInv, TypeOK, MAX_CHALLENGE_ROUNDS
<1>2. UNCHANGED <<hypotheses, createdBy, challengeRounds, challenged>>
  BY DEF TerminationCheck, data, history
<1>3. /\ Leader' = Leader /\ Competing' = Competing
      /\ LeaderIsNewestChallenge' = LeaderIsNewestChallenge
  BY <1>2 DEF Leader, Competing, LeaderIsNewestChallenge, Rank, Present
<1>4. Route(Decision)
  BY DEF TerminationCheck
<1>5. CASE T0
  <2>1. Decision = Stop("tools-unavailable")
    BY <1>5 DEF Decision
  <2>2. stopKind' = "tools-unavailable"
    BY <1>4, <2>1 DEF Route, Stop, Unchallenged, Terminate
  <2>3. QED
    BY <1>5, <2>2 DEF T0, StopKindIsJustified
<1>6. CASE ~T0 /\ Decision = Stop("stalled")
  <2>1. stopKind' = "stalled"
    BY <1>4, <1>6 DEF Route, Stop, Unchallenged, Terminate
  <2>2. QED
    BY <1>6, <2>1 DEF T0, StopKindIsJustified
<1>7. CASE ~T0 /\ Decision = ChallengeRequired
            /\ (challengeRounds = 0 \/ T3 \/ T4)
  <2>1. RouteChallenge(Leader)
    BY <1>4, <1>7 DEF Route, ChallengeRequired, Unchallenged
  <2>2. \/ stopKind' = "ambiguous" /\ challengeRounds >= MAX_CHALLENGE_ROUNDS
        \/ stopKind' = "budget-exhausted"
        \/ stopKind' = None
    BY <2>1 DEF RouteChallenge, Terminate, Challenge
  <2>3. stopKind' = "ambiguous" =>
          challengeRounds = MAX_CHALLENGE_ROUNDS /\ T3
    BY <1>1, <1>7, <2>2 DEF T4, MAX_CHALLENGE_ROUNDS, StopKind
  <2>4. stopKind' \notin {"sufficient", "tools-unavailable", "stalled"}
    BY <1>1, <2>2 DEF StopKind
  <2>5. QED
    BY <1>2, <1>3, <2>3, <2>4 DEF T3, StopKindIsJustified
<1>8. CASE ~T0 /\ Decision = Sufficient /\ challengeRounds # 0
            /\ ~T3 /\ ~T4 /\ Competing # {}
  <2>1. stopKind' = "sufficient"
    BY <1>4, <1>8 DEF Route, Sufficient, Unchallenged, Terminate
  <2>2. Competing = {Leader}
    BY <1>1, <1>8, LoneCompetitorLeads
  <2>3. challengeRounds > 0
    BY <1>1, <1>8
  <2>4. challengeRounds = MAX_CHALLENGE_ROUNDS \/ ~LeaderIsNewestChallenge
    BY <1>1, <1>8 DEF T4, MAX_CHALLENGE_ROUNDS
  <2>5. QED
    BY <1>2, <1>3, <2>1, <2>2, <2>3, <2>4 DEF StopKindIsJustified
<1>9. QED
  BY <1>5, <1>6, <1>7, <1>8 DEF Decision

\* While a stop kind stands, nothing it was decided on changes.
LEMMA GroundsStay ==
  ASSUME TypeInv, Verdict, StateNext, ~Terminates, stopKind' # None
  PROVE  UNCHANGED <<stopKind, hypotheses, createdBy, challengeRounds,
                     challenged, standing, observed, check>>
<1> USE DEF Verdict, StopKindIsDecided, At, StateNext, control, data, history
<1>1. CASE Execute
  BY <1>1 DEF Execute, QuietNode, ControlIsKept
<1>2. CASE Interpret
  BY <1>2 DEF Interpret, InterpretResidualEvidence
<1>3. CASE OtherNode
  <2>1. UNCHANGED <<standing, observed, check>>
    BY <1>3, ~Terminates DEF OtherNode
  <2>2. CASE QuietNode
    BY <2>1, <2>2 DEF QuietNode, ControlIsKept
  <2>3. CASE GenerateHypotheses
    BY <2>1, <2>3 DEF GenerateHypotheses
  <2>4. CASE PlanInvestigation
    BY <2>1, <2>4 DEF PlanInvestigation
  <2>5. CASE InterpretResidualEvidence
    BY <2>1, <2>5 DEF InterpretResidualEvidence
  <2>6. CASE ChallengeHypothesis
    BY <2>6 DEF ChallengeHypothesis
  <2>7. CASE ProposeConclusion
    BY <2>1, <2>7 DEF ProposeConclusion, AskAs
  <2>8. CASE ReviewPauses
    BY <2>1, <2>8 DEF ReviewPauses
  <2>9. QED
    BY <1>3, <2>2, <2>3, <2>4, <2>5, <2>6, <2>7, <2>8 DEF OtherNode, NodeStep
<1>4. CASE Outside
  BY <1>4 DEF Outside, HumanStep, Confirm, Reject, AddHypothesis, FaultStep,
     NodeThrows, Continue, Ended, vars
<1>5. QED
  BY <1>1, <1>2, <1>3, <1>4

LEMMA JustifiedStep ==
  ASSUME TypeInv, Verdict, StandingOK, StopKindIsJustified,
         [StateNext]_stateVars
  PROVE  StopKindIsJustified'
<1>1. None \notin StopKind
  BY NoneAssumption
<1>2. CASE stopKind' = None
  BY <1>1, <1>2 DEF StopKindIsJustified, StopKind
<1>3. CASE StateNext /\ Terminates /\ ByProduct
  BY <1>3, DecisionIsJustified DEF StateNext, Terminates
<1>4. CASE StateNext /\ Terminates /\ ~ByProduct
  BY <1>4 DEF StateNext, StopKindIsJustified, ByProduct
<1>5. CASE \/ UNCHANGED stateVars
           \/ StateNext /\ ~Terminates /\ stopKind' # None
  <2>1. UNCHANGED <<stopKind, hypotheses, createdBy, challengeRounds,
                    challenged, standing, observed, check>>
    BY <1>5, GroundsStay DEF stateVars, vars, control, data, history
  <2>2. /\ Leader' = Leader /\ Competing' = Competing /\ ByProduct' = ByProduct
        /\ LeaderIsNewestChallenge' = LeaderIsNewestChallenge
    BY <2>1 DEF Leader, Competing, LeaderIsNewestChallenge, Rank, Present,
       ByProduct
  <2>3. QED
    BY <2>1, <2>2 DEF StopKindIsJustified
<1>6. QED
  BY <1>2, <1>3, <1>4, <1>5

LEMMA StateInvHolds == StateSpec => []StateInv
<1>1. StateInit => StateInv
  <2> SUFFICES ASSUME StateInit PROVE StateInv
    OBVIOUS
  <2>1. TypeInv
    BY InitType DEF StateInit
  <2>2. Verdict
    BY NoneAssumption DEF StateInit, Init, Verdict, StopKindIsDecided,
       SufficientIsChallenged, StopKind
  <2>3. StandingOK
    <3>1. 3 \in DOMAIN Statuses /\ Statuses[3] = "candidate"
      BY DEF Statuses
    <3>2. QED
      BY <3>1 DEF StateInit, StandingOK, Status
  <2>4. StopKindIsJustified
    BY NoneAssumption DEF StateInit, Init, StopKindIsJustified, StopKind
  <2>5. QED
    BY <2>1, <2>2, <2>3, <2>4 DEF StateInv
<1>2. StateInv /\ [StateNext]_stateVars => StateInv'
  BY StateStepIsAStep, NextType, StepMoves, VerdictStep, StandingStep,
     JustifiedStep DEF StateInv
<1>3. QED
  BY <1>1, <1>2, PTL DEF StateSpec

\* Whatever evidence moves the standings, a stop kind rests on what the state
\* says of the hypotheses and the tools: rules T0 to T6 of the product's check.
THEOREM StopKindsAreJustified == StateSpec => []StopKindIsJustified
<1>1. StateInv => StopKindIsJustified
  BY DEF StateInv
<1>2. QED
  BY <1>1, StateInvHolds, PTL

\* The product's check is a termination check: what is proved of the graph under
\* any check holds under it.
THEOREM ProductIsTheGraph == StateSpec => Spec
<1>1. StateInit => Init
  BY DEF StateInit
<1>2. StateInv /\ [StateNext]_stateVars => [Next]_vars
  BY StateStepIsAStep DEF StateInv
<1>3. QED
  BY <1>1, <1>2, StateInvHolds, PTL DEF StateSpec, Spec

=============================================================================
