----------------------------- MODULE Evaluations -----------------------------
(***************************************************************************)
(* The evaluation commands.  scripts/eval-live-model.mjs runs the lane     *)
(* and publishes at once what is reportable (LiveModelLane);               *)
(* scripts/eval-final-holdout.mjs and publish-final-holdout.mjs spend the  *)
(* hold-out and publish it from a record (FinalPublication); a benchmark   *)
(* compares or publishes two experiments (Benchmark).  They share no       *)
(* state, so a behaviour is about one of them and the others rest.         *)
(***************************************************************************)
EXTENDS FinalPublication, LiveModelLane, Benchmark

VARIABLE command  \* which of them this behaviour is about

allVars == <<vars, laneAll, benchVars, command>>

\* What the commands at rest were asked for does not matter.
EvaluationsInit ==
    /\ Init
    /\ LaneInit
    /\ BenchInit
    /\ command \in {"diagnostic", "final", "benchmark"}
    /\ command # "diagnostic" => options = CHOOSE o \in Options : TRUE
    /\ command # "benchmark" => setup = CHOOSE s \in Setups : TRUE

FinalOnly(A) ==
    command = "final" /\ A /\ UNCHANGED <<laneAll, benchVars, command>>

EvaluationsNext ==
    \/ FinalOnly(Next)
    \/ command = "diagnostic" /\ LaneNext /\ UNCHANGED <<vars, benchVars, command>>
    \/ command = "benchmark" /\ BenchNext /\ UNCHANGED <<vars, laneAll, command>>

\* FairSpec's fairness; a lane or a benchmark that was started may be abandoned
\* anywhere.
EvaluationsSpec ==
    /\ EvaluationsInit
    /\ [][EvaluationsNext]_allVars
    /\ \A p \in Process : WF_allVars(FinalOnly(Step(p)))
    /\ \A c \in Candidate :
          SF_allVars(FinalOnly(\E p \in Process : Request(p, c)))

=============================================================================
