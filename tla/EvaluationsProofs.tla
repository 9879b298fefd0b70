--------------------------- MODULE EvaluationsProofs ---------------------------
(***************************************************************************)
(* What the evaluation commands promise, for any number of runs,           *)
(* candidates, arms, calls and crashes: the usage ledger bounds what the   *)
(* provider may bill, the lane charges each call to the arm that made it   *)
(* and publishes only what it can attribute to the model, the benchmark's  *)
(* gate and credits miss nothing, what it publishes is whole, and the      *)
(* hold-out is spent once.  The parts share no state, so each is an        *)
(* induction of its own, and the last theorem puts them together.          *)
(***************************************************************************)
EXTENDS Evaluations, FiniteSetTheorems, WellFoundedInduction, TLAPS

-----------------------------------------------------------------------------
(* The usage ledger.                                                       *)

\* The requests that are with the provider.
Open == IF sent THEN 1 ELSE 0

\* Each call that was let through was recorded, failed, or is under way.
CallsAddUp == calls + failed + Open = reserved /\ reserved <= MaxCalls

\* record() gives back another call's estimate, but all estimates are alike: one
\* is held for each call that failed and for the one under way.
EstimatesHeld ==
    /\ Len(pending) = failed + Open
    /\ \A i \in 1..Len(pending) : pending[i] = PerCall
    /\ reservedOutput = PerCall * (failed + Open)

OutputIsBounded ==
    MaxOutput # Absent => EstimatesHeld /\ output + reservedOutput <= MaxOutput

Counts ==
    /\ reserved \in Nat
    /\ calls \in Nat
    /\ output \in Nat
    /\ reservedOutput \in Nat
    /\ failed \in Nat

SpendInv == SpendTypeOK /\ CallsAddUp /\ OutputIsBounded

\* One more estimate, and one less.
LEMMA OneMore ==
  ASSUME NEW k \in Nat, NEW n \in Nat
  PROVE  k * (n + 1) = k * n + k
  OBVIOUS

\* Nothing was sent, so nothing is owed.
LEMMA SpendStarts == SpendInit => SpendInv
<1> SUFFICES ASSUME SpendInit PROVE SpendInv
  OBVIOUS
<1>1. SpendTypeOK
  <2>1. Counts /\ pending \in Seq(Nat)
    BY DEF SpendInit, Counts
  <2>2. sent \in BOOLEAN
    BY DEF SpendInit
  <2> QED
    BY <2>1, <2>2 DEF SpendTypeOK, Counts
<1>2. CallsAddUp
  BY MaxCallsAssumption DEF SpendInit, CallsAddUp, Open
<1>3. OutputIsBounded
  BY MaxOutputAssumption, PerCallAssumption
  DEF SpendInit, OutputIsBounded, EstimatesHeld, Open
<1> QED
  BY <1>1, <1>2, <1>3 DEF SpendInv

\* A call is let through only when its whole estimate is covered.
LEMMA ReserveKeeps == SpendInv /\ Reserve => SpendInv'
<1> SUFFICES ASSUME SpendInv, Reserve PROVE SpendInv'
  OBVIOUS
<1> USE MaxCallsAssumption, PerCallAssumption DEF SpendInv, Reserve, Grants
<1>1. SpendTypeOK'
  <2>1. Counts' /\ pending' \in Seq(Nat)
    BY DEF SpendTypeOK, Counts
  <2>2. sent' \in BOOLEAN
    OBVIOUS
  <2> QED
    BY <2>1, <2>2 DEF SpendTypeOK, Counts
<1>2. CallsAddUp'
  BY DEF CallsAddUp, Open, SpendTypeOK
<1>3. ASSUME MaxOutput # Absent
      PROVE  EstimatesHeld' /\ (output + reservedOutput <= MaxOutput)'
  <2>1. /\ EstimatesHeld
        /\ pending' = Append(pending, PerCall)
        /\ reservedOutput' = reservedOutput + PerCall
        /\ output + reservedOutput + PerCall <= MaxOutput
    BY <1>3 DEF OutputIsBounded, Affords
  <2>2. Open = 0 /\ Open' = 1
    BY DEF Open
  <2>3. Len(pending') = failed' + Open'
    BY <2>1, <2>2 DEF EstimatesHeld, SpendTypeOK
  <2>4. \A i \in 1..Len(pending') : pending'[i] = PerCall
    <3>1. pending \in Seq(Nat) /\ \A i \in 1..Len(pending) : pending[i] = PerCall
      BY <2>1 DEF EstimatesHeld, SpendTypeOK
    <3> QED
      BY <2>1, <3>1
  <2>5. reservedOutput' = PerCall * (failed' + Open')
    BY <2>1, <2>2, OneMore DEF EstimatesHeld, SpendTypeOK
  <2>6. output' + reservedOutput' <= MaxOutput
    BY <2>1, <1>3, MaxOutputAssumption DEF SpendTypeOK
  <2> QED
    BY <2>3, <2>4, <2>5, <2>6 DEF EstimatesHeld
<1> QED
  BY <1>1, <1>2, <1>3 DEF OutputIsBounded

\* The completion uses no more than the estimate that goes with it.
LEMMA RecordKeeps ==
  ASSUME SpendInv, NEW used \in 0..PerCall, RecordUsage(used)
  PROVE  SpendInv'
<1> USE MaxCallsAssumption, PerCallAssumption DEF SpendInv, RecordUsage
<1>1. Open = 1 /\ Open' = 0
  BY DEF Open
<1>2. reserved' = reserved
  BY <1>1 DEF CallsAddUp, SpendTypeOK
<1>3. CallsAddUp'
  BY <1>1, <1>2 DEF CallsAddUp, SpendTypeOK
<1>4. reservedOutput' \in Nat /\ pending' \in Seq(Nat)
  BY DEF Retires, SpendTypeOK
<1>5. SpendTypeOK'
  <2>1. Counts'
    BY <1>2, <1>4 DEF SpendTypeOK, Counts
  <2>2. sent' \in BOOLEAN
    OBVIOUS
  <2> QED
    BY <1>4, <2>1, <2>2 DEF SpendTypeOK, Counts
<1>6. ASSUME MaxOutput # Absent
      PROVE  EstimatesHeld' /\ (output + reservedOutput <= MaxOutput)'
  <2>1. EstimatesHeld /\ output + reservedOutput <= MaxOutput
    BY <1>6 DEF OutputIsBounded
  <2>2. pending # <<>> /\ Head(pending) = PerCall /\ pending' = Tail(pending)
    BY <2>1, <1>1 DEF EstimatesHeld, SpendTypeOK, Retires
  <2>3. reservedOutput = PerCall * failed + PerCall
    BY <2>1, <1>1, OneMore DEF EstimatesHeld, SpendTypeOK
  <2>4. PerCall * failed \in Nat
    BY DEF SpendTypeOK
  <2>5. reservedOutput' = PerCall * failed
    BY <2>2, <2>3, <2>4 DEF Retires, SpendTypeOK
  <2>6. Len(pending') = failed' + Open'
    BY <2>1, <2>2, <1>1 DEF EstimatesHeld, SpendTypeOK
  <2>7. \A i \in 1..Len(pending') : pending'[i] = PerCall
    BY <2>1, <2>2 DEF EstimatesHeld, SpendTypeOK
  <2>8. output' + reservedOutput' <= MaxOutput
    BY <2>1, <2>3, <2>4, <2>5, MaxOutputAssumption, <1>6 DEF SpendTypeOK
  <2>9. failed' + Open' = failed
    BY <1>1 DEF SpendTypeOK
  <2> QED
    BY <2>5, <2>6, <2>7, <2>8, <2>9 DEF EstimatesHeld
<1> QED
  BY <1>3, <1>5, <1>6 DEF OutputIsBounded

\* The estimate of a call that failed stays held.
LEMMA FailureKeeps == SpendInv /\ CallFails => SpendInv'
<1> SUFFICES ASSUME SpendInv, CallFails PROVE SpendInv'
  OBVIOUS
<1> USE DEF SpendInv, CallFails
<1>1. failed + Open = failed' + Open'
  BY DEF Open, SpendTypeOK
<1>2. SpendTypeOK'
  <2>1. Counts' /\ pending' \in Seq(Nat)
    BY DEF SpendTypeOK, Counts
  <2>2. sent' \in BOOLEAN
    OBVIOUS
  <2> QED
    BY <2>1, <2>2 DEF SpendTypeOK, Counts
<1>3. CallsAddUp'
  BY DEF CallsAddUp, Open, SpendTypeOK
<1>4. OutputIsBounded'
  BY <1>1 DEF OutputIsBounded, EstimatesHeld
<1> QED
  BY <1>2, <1>3, <1>4

LEMMA SpendKept == SpendInv /\ [SpendNext]_spendVars => SpendInv'
<1> SUFFICES ASSUME SpendInv, [SpendNext]_spendVars PROVE SpendInv'
  OBVIOUS
<1>1. CASE Reserve
  BY <1>1, ReserveKeeps
<1>2. CASE \E used \in 0..PerCall : RecordUsage(used)
  BY <1>2, RecordKeeps
<1>3. CASE CallFails
  BY <1>3, FailureKeeps
<1>4. CASE UNCHANGED spendVars
  BY <1>4 DEF spendVars, SpendInv, SpendTypeOK, CallsAddUp, OutputIsBounded,
              EstimatesHeld, Open
<1> QED
  BY <1>1, <1>2, <1>3, <1>4 DEF SpendNext

LEMMA SpendInvShows == SpendInv => NeverLate
<1> SUFFICES ASSUME SpendInv PROVE NeverLate
  OBVIOUS
<1>1. CallsAddUp
  BY DEF SpendInv
<1>2. ASSUME MaxOutput # Absent
      PROVE  output + PerCall * (failed + Open) <= MaxOutput
  BY <1>2 DEF SpendInv, OutputIsBounded, EstimatesHeld
<1> QED
  BY <1>1, <1>2 DEF NeverLate, CallsAddUp, Open

\* If the provider bills every failed call, and the one under way, for all they
\* asked for, the bill is still within the caps on calls and on output tokens.
THEOREM SpendIsNeverLate == SpendSpec => []NeverLate
BY SpendStarts, SpendKept, SpendInvShows, PTL DEF SpendSpec
-----------------------------------------------------------------------------
(* The live-model lane.                                                    *)

Use == [calls : Nat, output : Nat]
Unpaid == {"asked", "control", "oracle", "naive"}
Underway == {"running naive", "running model"}

LaneTypeOK ==
    /\ stage \in Unpaid \cup Underway \cup
          {"model", "reporting", "publishing", "reported", "failed"}
    /\ paid \in [PaidArm -> {"not run", "refused", "completed"}]
    /\ usage \in [PaidArm -> Use]
    /\ before \in Use

\* The port is called only while a paid arm is under way.
CallsAreOfAnArm == sent => stage \in Underway

\* What each arm was charged when the lane has come this far: nothing before
\* the naive arm, its own calls after it, and since the model arm's reading no
\* call but the model arm's.
ChargedSoFar ==
    /\ stage \in Unpaid =>
          /\ calls = 0 /\ output = 0
          /\ usage["naive"] = NoUse
    /\ stage = "running naive" =>
          /\ before = NoUse
          /\ usage["naive"] = NoUse
    /\ stage = "model" => usage["naive"] = LedgerRead
    /\ stage = "running model" =>
          /\ before = usage["naive"]
          /\ before.calls <= calls /\ before.output <= output
    /\ stage \in {"reporting", "publishing", "reported"} =>
          /\ usage["naive"].calls + usage["model"].calls = calls
          /\ usage["naive"].output + usage["model"].output = output

\* The reading of the naive arm is taken when the arm ends.
UnrunIsFree == paid["naive"] = "not run" => usage["naive"] = NoUse

SpendingInv ==
    SpendInv /\ LaneTypeOK /\ CallsAreOfAnArm /\ ChargedSoFar /\ UnrunIsFree

\* Calls and tokens are only ever added.
LEMMA SpendGrows ==
  ASSUME SpendInv, [SpendNext]_spendVars
  PROVE  calls <= calls' /\ output <= output'
<1>1. CASE \E used \in 0..PerCall : RecordUsage(used)
  BY <1>1, PerCallAssumption DEF SpendInv, SpendTypeOK, RecordUsage
<1>2. CASE Reserve \/ CallFails \/ UNCHANGED spendVars
  BY <1>2 DEF SpendInv, SpendTypeOK, Reserve, CallFails, spendVars
<1> QED
  BY <1>1, <1>2 DEF SpendNext

LEMMA Readings ==
  /\ NoUse \in Use /\ NoUse.calls = 0 /\ NoUse.output = 0
  /\ LedgerRead.calls = calls /\ LedgerRead.output = output
  /\ calls = 0 /\ output = 0 => LedgerRead = NoUse
BY DEF NoUse, Use, LedgerRead

LEMMA LaneSpends == [LaneNext]_laneAll => [SpendNext]_spendVars
<1> SUFFICES ASSUME LaneNext \/ UNCHANGED laneAll PROVE [SpendNext]_spendVars
  OBVIOUS
<1>1. ASSUME NEW a \in PaidArm, PaidStep(a) PROVE [SpendNext]_spendVars
  BY <1>1 DEF PaidStep, BeginArm, CallStep, ArmRefused, ArmCompletes, SpendNext
<1>2. CASE \E e \in Controls : RunControl(e)
  BY <1>2 DEF RunControl, Throws
<1>3. CASE Start \/ FreeArmThrows \/ RunOracle \/ SkipNaive \/ Report \/ Persist
             \/ PublishThrows
  BY <1>3 DEF Start, FreeArmThrows, RunOracle, SkipNaive, Report, Persist,
              PublishThrows, Throws
<1>4. CASE LaneDone \/ UNCHANGED laneAll
  BY <1>4 DEF LaneDone, laneAll
<1> QED
  BY <1>1, <1>2, <1>3, <1>4 DEF LaneNext, LaneStep

\* A step in front of the paid arms, or after them, makes no call.
LEMMA FreeStepKeeps ==
  ASSUME SpendingInv, SpendInv',
         UNCHANGED <<spendVars, paid, usage, before>>,
         \/ stage \in Unpaid /\ stage' \in Unpaid \cup {"failed"}
         \/ stage = "naive" /\ stage' = "model"
         \/ /\ stage \in {"reporting", "publishing", "reported"}
            /\ stage' \in {"publishing", "reported", "failed"}
  PROVE  SpendingInv'
<1> USE DEF SpendingInv
<1>1. UNCHANGED <<calls, output, sent>>
  BY DEF spendVars
<1>2. LaneTypeOK' /\ UnrunIsFree'
  BY DEF LaneTypeOK, UnrunIsFree
<1>3. CallsAreOfAnArm'
  BY <1>1 DEF CallsAreOfAnArm, Underway, Unpaid
<1>4. ChargedSoFar'
  BY <1>1, Readings DEF ChargedSoFar, Unpaid, LedgerRead
<1> QED
  BY <1>2, <1>3, <1>4

LEMMA BeginKeeps ==
  ASSUME SpendingInv, SpendInv', NEW a \in PaidArm, BeginArm(a)
  PROVE  SpendingInv'
<1>1. /\ UNCHANGED <<calls, output, sent>> /\ calls \in Nat /\ output \in Nat
      /\ stage = a /\ stage' = RunningOf(a) /\ before' = LedgerRead
      /\ UNCHANGED <<paid, usage>>
  BY DEF BeginArm, ToStage, spendVars, SpendingInv, SpendInv, SpendTypeOK
<1>2. LaneTypeOK /\ ChargedSoFar /\ UnrunIsFree
  BY DEF SpendingInv
<1>3. LedgerRead \in Use
  BY <1>1 DEF LedgerRead, Use
<1>4. LaneTypeOK' /\ UnrunIsFree'
  BY <1>1, <1>2, <1>3 DEF LaneTypeOK, UnrunIsFree, Underway, RunningOf
<1>5. CallsAreOfAnArm'
  BY <1>1 DEF CallsAreOfAnArm, Underway, RunningOf
<1>6. ChargedSoFar'
  <2>1. CASE a = "naive"
    <3>1. before' = NoUse /\ usage'["naive"] = NoUse
      BY <1>1, <1>2, <2>1, Readings DEF ChargedSoFar, Unpaid
    <3>2. stage' = "running naive"
      BY <1>1, <2>1 DEF RunningOf
    <3> QED
      BY <3>1, <3>2 DEF ChargedSoFar, Unpaid
  <2>2. CASE a = "model"
    <3>1. before' = usage'["naive"]
      BY <1>1, <1>2, <2>2 DEF ChargedSoFar
    <3>2. before'.calls <= calls' /\ before'.output <= output'
      BY <1>1, Readings
    <3>3. stage' = "running model"
      BY <1>1, <2>2 DEF RunningOf
    <3> QED
      BY <3>1, <3>2, <3>3 DEF ChargedSoFar, Unpaid
  <2> QED
    BY <2>1, <2>2 DEF PaidArm
<1> QED
  BY <1>4, <1>5, <1>6 DEF SpendingInv

LEMMA CallKeeps ==
  ASSUME SpendingInv, SpendInv', NEW a \in PaidArm, CallStep(a),
         [SpendNext]_spendVars
  PROVE  SpendingInv'
<1>1. calls <= calls' /\ output <= output'
  BY SpendGrows DEF SpendingInv
<1>2. calls \in Nat /\ output \in Nat /\ calls' \in Nat /\ output' \in Nat
  BY DEF SpendingInv, SpendInv, SpendTypeOK
<1>3. LaneTypeOK /\ ChargedSoFar /\ UnrunIsFree
  BY DEF SpendingInv
<1>4. stage \in Underway /\ UNCHANGED <<stage, paid, usage, before>>
  BY DEF CallStep, Running, RunningOf, laneVars, Underway
<1>5. LaneTypeOK' /\ UnrunIsFree' /\ CallsAreOfAnArm'
  BY <1>3, <1>4 DEF LaneTypeOK, UnrunIsFree, CallsAreOfAnArm
<1>6. ASSUME stage = "running naive" PROVE ChargedSoFar'
  <2>1. /\ stage' = "running naive"
        /\ before' = NoUse
        /\ usage'["naive"] = NoUse
    BY <1>3, <1>4, <1>6 DEF ChargedSoFar
  <2> QED
    BY <2>1 DEF ChargedSoFar, Unpaid
<1>7. ASSUME stage = "running model" PROVE ChargedSoFar'
  <2>1. /\ before = usage["naive"]
        /\ before.calls <= calls /\ before.output <= output
        /\ before.calls \in Nat /\ before.output \in Nat
    BY <1>3, <1>7 DEF ChargedSoFar, LaneTypeOK, Use
  <2>2. stage' = "running model" /\ before' = usage'["naive"]
    BY <1>4, <1>7, <2>1
  <2>3. before'.calls <= calls' /\ before'.output <= output'
    BY <1>1, <1>2, <1>4, <2>1
  <2> QED
    BY <2>2, <2>3 DEF ChargedSoFar, Unpaid
<1> QED
  BY <1>4, <1>5, <1>6, <1>7 DEF SpendingInv, Underway

\* The second reading: what lies between the two is this arm's.
LEMMA ArmEndKeeps ==
  ASSUME SpendingInv, SpendInv', NEW a \in PaidArm, Running(a),
         UNCHANGED <<calls, output>>, ~sent',
         NEW result \in {"refused", "completed"}, ArmEnds(a, result),
         stage' \in {AfterArm(a), "failed"}
  PROVE  SpendingInv'
<1> USE DEF SpendingInv, ArmEnds
<1>1. /\ calls \in Nat /\ output \in Nat
      /\ before.calls \in Nat /\ before.output \in Nat
      /\ before.calls <= calls /\ before.output <= output
      /\ a = "naive" => before = NoUse
      /\ a = "model" => before = usage["naive"]
  <2>1. calls \in Nat /\ output \in Nat /\ before \in Use
    BY DEF SpendInv, SpendTypeOK, LaneTypeOK
  <2>2. CASE a = "naive"
    <3>1. before = NoUse /\ before.calls = 0 /\ before.output = 0
      BY <2>2, Readings DEF ChargedSoFar, Running, RunningOf
    <3> QED
      BY <2>1, <2>2, <3>1
  <2>3. CASE a = "model"
    BY <2>1, <2>3 DEF ChargedSoFar, Running, RunningOf, Use
  <2> QED
    BY <2>2, <2>3 DEF PaidArm
<1>2. Used \in Use
  BY <1>1 DEF Used, Use
<1>3. usage' = [usage EXCEPT ![a] = Used] /\ usage \in [PaidArm -> Use]
  BY DEF LaneTypeOK
<1>4. LaneTypeOK'
  BY <1>2 DEF LaneTypeOK, AfterArm, PaidArm, NoUse, Use
<1>5. UnrunIsFree'
  BY DEF UnrunIsFree, LaneTypeOK, PaidArm
<1>6. ChargedSoFar'
  <2>1. CASE a = "naive"
    <3>1. usage'["naive"] = LedgerRead'
      BY <1>1, <1>3, <2>1 DEF Used, LedgerRead, NoUse, PaidArm
    <3>2. stage' \in {"model", "failed"}
      BY <2>1 DEF AfterArm
    <3> QED
      BY <3>1, <3>2 DEF ChargedSoFar, Unpaid
  <2>2. CASE a = "model"
    <3>1. usage'["naive"] = usage["naive"] /\ usage'["model"] = Used
      BY <1>3, <2>2 DEF PaidArm
    <3>2. stage' \in {"reporting", "failed"}
      BY <2>2 DEF AfterArm
    <3>3. /\ usage'["naive"].calls + usage'["model"].calls = calls
          /\ usage'["naive"].output + usage'["model"].output = output
      BY <1>1, <2>2, <3>1 DEF Used
    <3> QED
      BY <3>2, <3>3 DEF ChargedSoFar, Unpaid
  <2> QED
    BY <2>1, <2>2 DEF PaidArm
<1> QED
  BY <1>4, <1>5, <1>6 DEF CallsAreOfAnArm

LEMMA SpendingStarts == LaneInit => SpendingInv
<1> SUFFICES ASSUME LaneInit PROVE SpendingInv
  OBVIOUS
<1>1. SpendInv
  BY SpendStarts DEF LaneInit
<1>2. LaneTypeOK /\ UnrunIsFree
  BY DEF LaneInit, LaneTypeOK, UnrunIsFree, Unpaid, NoUse, Use, PaidArm
<1>3. CallsAreOfAnArm /\ ChargedSoFar
  BY DEF LaneInit, SpendInit, CallsAreOfAnArm, ChargedSoFar, Unpaid, PaidArm
<1> QED
  BY <1>1, <1>2, <1>3 DEF SpendingInv

LEMMA SpendingKept == SpendingInv /\ [LaneNext]_laneAll => SpendingInv'
<1> SUFFICES ASSUME SpendingInv, [LaneNext]_laneAll PROVE SpendingInv'
  OBVIOUS
<1>1. SpendInv' /\ [SpendNext]_spendVars
  BY LaneSpends, SpendKept DEF SpendingInv
<1>2. ASSUME NEW a \in PaidArm, PaidStep(a) PROVE SpendingInv'
  <2>1. CASE BeginArm(a)
    BY <1>1, <2>1, BeginKeeps
  <2>2. CASE CallStep(a)
    BY <1>1, <2>2, CallKeeps
  <2>3. CASE ArmRefused(a)
    BY <1>1, <2>3, ArmEndKeeps DEF ArmRefused, CallFails, ToStage, spendVars
  <2>4. CASE ArmCompletes(a)
    BY <1>1, <2>4, ArmEndKeeps DEF ArmCompletes, ToStage, spendVars
  <2> QED
    BY <1>2, <2>1, <2>2, <2>3, <2>4 DEF PaidStep
<1>3. CASE Start \/ FreeArmThrows \/ RunOracle \/ SkipNaive
             \/ \E e \in Controls : RunControl(e)
  BY <1>1, <1>3, FreeStepKeeps
     DEF Start, FreeArmThrows, RunOracle, SkipNaive, RunControl, Throws, ToStage,
         Unpaid
<1>4. CASE Report \/ Persist \/ PublishThrows
  <2>1. /\ stage \in {"reporting", "publishing"}
        /\ stage' \in {"publishing", "reported", "failed"}
    BY <1>4 DEF Report, Persist, PublishThrows, Throws, ToStage
  <2>2. UNCHANGED <<spendVars, paid, usage, before>>
    BY <1>4 DEF Report, Persist, PublishThrows, Throws
  <2> QED
    BY <1>1, <2>1, <2>2, FreeStepKeeps
<1>5. CASE LaneDone \/ UNCHANGED laneAll
  <2>1. UNCHANGED <<calls, output, sent, stage, paid, usage, before>>
    BY <1>5 DEF LaneDone, laneAll, laneVars, spendVars
  <2>2. LedgerRead' = LedgerRead
    BY <2>1 DEF LedgerRead
  <2>3. ChargedSoFar'
    BY <2>1, <2>2 DEF SpendingInv, ChargedSoFar
  <2>4. LaneTypeOK' /\ CallsAreOfAnArm' /\ UnrunIsFree'
    BY <2>1 DEF SpendingInv, LaneTypeOK, CallsAreOfAnArm, UnrunIsFree
  <2> QED
    BY <1>1, <2>3, <2>4 DEF SpendingInv
<1> QED
  BY <1>2, <1>3, <1>4, <1>5 DEF LaneNext, LaneStep

\* What the report charges to the naive and to the model arm adds up to the
\* ledger's own totals, a refused arm's calls included, and an arm that did not
\* run is charged nothing (usageDelta between two reads of modelUsage).
THEOREM CallsAreCharged == LaneSpec => []SpendIsAttributed
<1>1. SpendingInv => SpendIsAttributed
  BY DEF SpendingInv, ChargedSoFar, UnrunIsFree, SpendIsAttributed
<1> QED
  BY <1>1, SpendingStarts, SpendingKept, PTL DEF LaneSpec

\* A control arm that was judged: it is one the lane ran, it covers the plan,
\* and a declared baseline can be compared with it.
ControlStands == control \in Controls /\ Judged(control)

\* What a report may say.
Attributed ==
    /\ verdict.reportable # {} =>
          options.baseline # Absent /\ MovedMetrics = {} /\ ControlStands
    /\ "model" \in verdict.reportable => verdict.is = "model-quality"

AttributionInv ==
    /\ stage \in {"oracle", "naive", "model", "reporting"} \cup Underway =>
          ControlStands
    /\ stage \notin {"publishing", "reported", "failed"} =>
          verdict = Absent /\ published = <<>>
    /\ verdict # Absent => Attributed
    /\ stage \in {"publishing", "reported"} => Attributed
    /\ published # <<>> => verdict.is = "model-quality"

\* A step that is not the report's and leaves its inputs alone.
LEMMA InputsKeep ==
  ASSUME AttributionInv, UNCHANGED <<options, control, verdict, published>>,
         \/ stage' = stage
         \/ stage' = "failed"
         \/ stage' = "reported" /\ stage = "publishing"
         \/ /\ stage \in {"oracle", "naive", "model"} \cup Underway
            /\ stage' \in {"naive", "model", "reporting"} \cup Underway
         \/ stage = "asked" /\ stage' = "control"
  PROVE  AttributionInv'
<1>1. /\ ControlStands' = ControlStands
      /\ Attributed' = Attributed
  BY DEF ControlStands, Judged, Attributed, MovedMetrics
<1> QED
  BY <1>1 DEF AttributionInv, Underway

LEMMA ControlKeeps ==
  ASSUME AttributionInv, NEW e \in Controls, RunControl(e)
  PROVE  AttributionInv'
<1>1. stage = "control" /\ control' = e
      /\ UNCHANGED <<options, verdict, published>>
  BY DEF RunControl, Throws
<1>2. verdict = Absent /\ published = <<>>
  BY <1>1 DEF AttributionInv, Underway
<1>3. CASE Judged(e)
  <2>1. stage' \in {"oracle", "naive"}
    BY <1>3 DEF RunControl, ToStage
  <2>2. ControlStands'
    BY <1>1, <1>3 DEF ControlStands, Judged
  <2> QED
    BY <1>1, <1>2, <2>1, <2>2 DEF AttributionInv
<1>4. CASE ~Judged(e)
  <2>1. stage' = "failed"
    BY <1>4 DEF RunControl, Throws, ToStage
  <2> QED
    BY <1>1, <1>2, <2>1 DEF AttributionInv, Underway
<1> QED
  BY <1>3, <1>4

\* An arm is reportable only over a baseline the control arm repeated, and then
\* the verdict on a completed model arm is the model's.
LEMMA ReportKeeps ==
  ASSUME AttributionInv, Report
  PROVE  AttributionInv'
<1>1. /\ stage = "reporting" /\ stage' \in {"publishing", "reported"}
      /\ verdict' = [is |-> Verdict, reportable |-> {a \in PaidArm : Reportable(a)}]
      /\ UNCHANGED <<options, control, paid, published>>
  BY DEF Report, ToStage
<1>2. ControlStands /\ published = <<>>
  BY <1>1 DEF AttributionInv
<1>3. ControlStands' /\ MovedMetrics' = MovedMetrics
  BY <1>1, <1>2 DEF ControlStands, Judged, MovedMetrics
<1>4. ASSUME verdict'.reportable # {}
      PROVE  options.baseline # Absent /\ MovedMetrics = {}
  BY <1>1, <1>4 DEF Reportable
<1>5. ASSUME "model" \in verdict'.reportable
      PROVE  verdict'.is = "model-quality"
  BY <1>1, <1>5 DEF Reportable, Verdict
<1>6. Attributed'
  BY <1>1, <1>3, <1>4, <1>5 DEF Attributed
<1> QED
  BY <1>1, <1>2, <1>6 DEF AttributionInv, Underway

LEMMA PersistKeeps ==
  ASSUME AttributionInv, Persist
  PROVE  AttributionInv'
<1>1. /\ stage = "publishing" /\ stage' \in {"publishing", "reported"}
      /\ "model" \in verdict.reportable
      /\ UNCHANGED <<options, control, verdict>>
  BY DEF Persist, ToStage
<1>2. Attributed /\ verdict.is = "model-quality"
  BY <1>1 DEF AttributionInv, Attributed
<1>3. Attributed'
  BY <1>1, <1>2 DEF Attributed, ControlStands, Judged, MovedMetrics
<1> QED
  BY <1>1, <1>2, <1>3 DEF AttributionInv, Underway

LEMMA AttributionStarts == LaneInit => AttributionInv
BY DEF LaneInit, AttributionInv, Underway

LEMMA AttributionKept == AttributionInv /\ [LaneNext]_laneAll => AttributionInv'
<1> SUFFICES ASSUME AttributionInv, [LaneNext]_laneAll PROVE AttributionInv'
  OBVIOUS
<1>1. ASSUME NEW a \in PaidArm, PaidStep(a) PROVE AttributionInv'
  <2>1. UNCHANGED <<options, control, verdict, published>>
    BY <1>1 DEF PaidStep, BeginArm, CallStep, ArmRefused, ArmCompletes, ArmEnds,
                laneVars
  <2>2. \/ stage' = stage \/ stage' = "failed"
        \/ /\ stage \in {"naive", "model"} \cup Underway
           /\ stage' \in {"model", "reporting"} \cup Underway
    BY <1>1 DEF PaidStep, BeginArm, CallStep, ArmRefused, ArmCompletes, Running,
                RunningOf, AfterArm, ToStage, laneVars, PaidArm, Underway
  <2> QED
    BY <2>1, <2>2, InputsKeep
<1>2. CASE \E e \in Controls : RunControl(e)
  BY <1>2, ControlKeeps
<1>3. CASE Start \/ RunOracle \/ SkipNaive
  BY <1>3, InputsKeep DEF Start, RunOracle, SkipNaive, ToStage
<1>4. CASE FreeArmThrows \/ PublishThrows
  BY <1>4, InputsKeep DEF FreeArmThrows, PublishThrows, Throws, ToStage
<1>5. CASE LaneDone \/ UNCHANGED laneAll
  BY <1>5, InputsKeep DEF LaneDone, laneAll, laneVars
<1> QED
  BY <1>1, <1>2, <1>3, <1>4, <1>5, ReportKeeps, PersistKeeps
     DEF LaneNext, LaneStep

\* A baseline that can be compared and has not moved is, metric by metric, what
\* the control arm measured.
LEMMA NothingMoved ==
  ASSUME NEW b, NEW e \in Controls, Comparable(b, e), Moved(b, e) = {},
         NEW m \in Metric \ Withheld
  PROVE  /\ m \in DOMAIN e.means <=> m \in DOMAIN b
         /\ m \in DOMAIN e.means => e.means[m] = b[m]
<1>1. DOMAIN Observed(e) = DOMAIN e.means \ Withheld
  BY DEF Observed
<1>2. m \in DOMAIN e.means => Observed(e)[m] = e.means[m]
  BY DEF Observed
<1>3. m \in DOMAIN b => m \in DOMAIN Observed(e) /\ Observed(e)[m] = b[m]
  BY DEF Moved
<1>4. m \in DOMAIN e.means => m \in DOMAIN b
  BY <1>1 DEF Comparable
<1> QED
  BY <1>1, <1>2, <1>3, <1>4

\* No arm of a report is reportable, and nothing is published, on a control arm
\* that did not repeat its declared baseline metric by metric (movesAgainst,
\* armReportable and publishLiveModelArms).
THEOREM ReportsAreAttributable == LaneSpec => []ReportableIsAttributable
<1>1. AttributionInv => ReportableIsAttributable
  <2> SUFFICES ASSUME AttributionInv PROVE ReportableIsAttributable
    OBVIOUS
  <2>1. ASSUME verdict # Absent, verdict.reportable # {}
        PROVE  /\ options.baseline # Absent
               /\ \A m \in Metric \ Withheld :
                     /\ m \in DOMAIN control.means
                           <=> m \in DOMAIN options.baseline
                     /\ m \in DOMAIN control.means =>
                           control.means[m] = options.baseline[m]
    <3>1. options.baseline # Absent /\ MovedMetrics = {} /\ ControlStands
      BY <2>1 DEF AttributionInv, Attributed
    <3>2. /\ Moved(options.baseline, control) = {}
          /\ control \in Controls
          /\ Comparable(options.baseline, control)
      BY <3>1 DEF MovedMetrics, ControlStands, Judged
    <3> QED
      BY <3>1, <3>2, NothingMoved
  <2> QED
    BY <2>1 DEF AttributionInv, ReportableIsAttributable
<1> QED
  BY <1>1, AttributionStarts, AttributionKept, PTL DEF LaneSpec

-----------------------------------------------------------------------------
(* The benchmark.  A result keeps the shape its example's ground truth and *)
(* its arm give it; what the wrappers saw of a run agrees with what it did *)
(* until the run is scored.                                                *)

\* Where an experiment still has a record to score.
Unscored == {"asked", "ready", "executing", "checking", "challenging", "answered"}
AllIn == {"returned", "compared", "refused", "publishing", "unpublishable",
          "broken", "referenced", "verified", "unverified"}

Ratio == Nat \X Nat

\* What evaluateBenchmarkRecord returns for an example and an arm.
Shaped(r, t, s) ==
    /\ DOMAIN r.behaviour = Asked(t) \ NotApplicable(s)
    /\ r.notApplicable = NotApplicable(s)
    /\ r.core \in [Core -> Ratio]

ResultsShaped ==
    /\ setup \in Setups
    /\ side \in Side
    /\ DOMAIN results = Side
    /\ \A s \in Side :
          /\ Len(results[s]) \in 0..Len(Truth)
          /\ DOMAIN results[s] = 1..Len(results[s])
          /\ \A e \in DOMAIN results[s] : Shaped(results[s][e], Truth[e], s)

\* The experiments are run one after the other, record after record.
ResultsInOrder ==
    /\ at \in Unscored \cup AllIn \cup {"scored", "lost"}
    /\ at \in Unscored => Len(results[side]) < Len(Truth)
    /\ at = "scored" => Len(results[side]) > 0
    /\ side = "baseline" => Len(results["mutation"]) = 0
    /\ side = "mutation" => Len(results["baseline"]) = Len(Truth)
    /\ at \in AllIn => \A s \in Side : Len(results[s]) = Len(Truth)

ProofWasGranted ==
    proof # Missing => at = "compared" /\ proof \in Key /\ Granted(proof)

GateInv == ResultsShaped /\ ResultsInOrder /\ ProofWasGranted

TrialSeen == [test : Nat, result : Trial, since : BOOLEAN]
RunSeen ==
    [calls : Nat, before : Leader \cup {Missing}, after : Leader \cup {Missing},
     snapshot : Nat \cup {Missing}, tests : Nat, trials : SUBSET TrialSeen,
     rounds : Nat, stop : {"budget-exhausted", "ambiguous", "sufficient",
                           "stalled", Missing},
     targets : Seq(Leader), last : Leader \cup {Missing}]

\* The first leader to be challenged is the one that was noted, and the tests
\* that were noted were there before that challenge.
RoundsAgree(r) ==
    /\ r.rounds = Len(r.targets)
    /\ r.targets # <<>> => r.before = r.targets[1]
    /\ r.snapshot # Missing => r.targets # <<>> /\ r.snapshot <= r.tests
    /\ \A x \in r.trials :
          /\ x.test <= r.tests
          /\ r.snapshot # Missing /\ x.test > r.snapshot => x.since

\* Until a run stops no leader is the last; before the first challenge the one
\* that is about to be challenged is the one that was noted.
LeadersSeen ==
    /\ at \in {"executing", "checking", "challenging"} => run.after = Missing
    /\ at \in {"executing", "checking"} /\ run.targets = <<>> =>
          run.before = Missing
    /\ at = "challenging" =>
          run.last # Missing /\ (run.targets = <<>> => run.before = run.last)
    /\ run.after # Missing =>
          /\ run.stop = "sufficient"
          /\ run.targets # <<>>
          /\ run.last = run.after

CreditInv ==
    /\ run \in RunSeen
    /\ RoundsAgree(run)
    /\ LeadersSeen
    /\ ChallengeCreditIsEarned

LEMMA EvaluationIsShaped ==
  ASSUME setup \in Setups, NEW t, IsFiniteSet(t.expected),
         NEW f \in Finals, NEW s \in Side
  PROVE  Shaped(Evaluation(t, f, s), t, s)
<1>1. UnsupportedClaims(f) \in Ratio
  <2> DEFINE U == {i \in DOMAIN f.causes : f.causes[i].evidence \cap f.evidence = {}}
  <2>1. Len(f.causes) \in Nat /\ DOMAIN f.causes = 1..Len(f.causes)
    BY FinalsAssumption
  <2>2. IsFiniteSet(1..Len(f.causes))
    <3>1. 1 \in Int /\ Len(f.causes) \in Int
      BY <2>1
    <3> QED
      BY <3>1, FS_Interval, Zenon
  <2>3. IsFiniteSet(U)
    BY <2>1, <2>2, FS_Subset
  <2>4. Cardinality(U) \in Nat
    BY <2>3, FS_CardinalityType
  <2> QED
    BY <2>1, <2>4 DEF UnsupportedClaims, Ratio
<1>2. EvidenceCoverage(t, f) \in Ratio
  <2>1. Cardinality(t.expected) \in Nat
    BY FS_CardinalityType
  <2>2. IsFiniteSet(t.expected \cap Investigated(f))
    BY FS_Subset, t.expected \cap Investigated(f) \subseteq t.expected
  <2>3. Cardinality(t.expected \cap Investigated(f)) \in Nat
    BY <2>2, FS_CardinalityType
  <2> QED
    BY <2>1, <2>3 DEF EvidenceCoverage, Ratio
<1>3. TerminationCorrectness(t, f) \in Ratio
  BY DEF TerminationCorrectness, Ratio
<1>4. CoreMetrics(t, f) \in [Core -> Ratio]
  <2>1. ASSUME NEW k \in Core PROVE CoreMetrics(t, f)[k] \in Ratio
    BY <1>1, <1>2, <1>3, <2>1 DEF CoreMetrics, Core
  <2> QED
    BY <2>1 DEF CoreMetrics
<1>5. DOMAIN BehaviourMetrics(t, f, s) = Asked(t) \ NotApplicable(s)
  BY DEF BehaviourMetrics
<1> QED
  BY <1>4, <1>5 DEF Shaped, Evaluation

LEMMA TruthIsListed ==
  ASSUME setup \in Setups
  PROVE  /\ Len(Truth) \in Nat \ {0}
         /\ Example = 1..Len(Truth)
         /\ \A e \in Example : IsFiniteSet(Truth[e].expected)
BY SetupsAssumption DEF Truth, Example

LEMMA GateStarts == BenchInit => GateInv
<1> SUFFICES ASSUME BenchInit PROVE GateInv
  OBVIOUS
<1>1. ResultsShaped
  BY TruthIsListed DEF BenchInit, ResultsShaped, Side, Truth
<1>2. ResultsInOrder
  BY TruthIsListed DEF BenchInit, ResultsInOrder, Side, Unscored, AllIn, Truth
<1> QED
  BY <1>1, <1>2 DEF BenchInit, GateInv, ProofWasGranted

\* A step that scores nothing and grants nothing.
LEMMA GateFrame ==
  ASSUME GateInv, UNCHANGED <<setup, side, results, proof>>,
         \/ at' = at
         \/ at \in Unscored /\ at' \in Unscored
         \/ at # "compared" /\ at' = "lost"
         \/ at # "compared" /\ at \in AllIn /\ at' \in AllIn
  PROVE  GateInv'
<1>1. ResultsShaped'
  <2>1. Truth' = Truth
    BY DEF Truth
  <2>2. \A r, t, s : Shaped(r, t, s)' = Shaped(r, t, s)
    BY DEF Shaped, Asked, NotApplicable
  <2> QED
    BY <2>1, <2>2 DEF GateInv, ResultsShaped
<1>2. ResultsInOrder'
  BY DEF GateInv, ResultsInOrder, Unscored, AllIn, Truth
<1>3. ProofWasGranted'
  BY DEF GateInv, ProofWasGranted, Granted, SamePresence, Failing, Declares, Example,
         Truth, Unscored
<1> QED
  BY <1>1, <1>2, <1>3 DEF GateInv

LEMMA ScoreKeeps ==
  ASSUME GateInv, NEW f \in Finals, Score(f)
  PROVE  GateInv'
<1> DEFINE ev == Evaluation(Truth[Current], f, side)
<1>1. /\ at = "answered" /\ at' = "scored"
      /\ results' = [results EXCEPT ![side] = Append(@, ev)]
      /\ UNCHANGED <<setup, side, proof>>
  BY DEF Score, Moves, benchAfter
<1>2. ResultsShaped /\ ResultsInOrder /\ proof = Missing
  BY <1>1 DEF GateInv, ProofWasGranted
<1>3. Len(results[side]) \in Nat /\ Len(results[side]) < Len(Truth)
  BY <1>1, <1>2 DEF ResultsShaped, ResultsInOrder, Unscored
<1>4. Current \in Example /\ Len(Truth) \in Nat
  BY <1>2, <1>3, TruthIsListed DEF Current, ResultsShaped
<1>5. Shaped(ev, Truth[Current], side)
  BY <1>2, <1>4, TruthIsListed, EvaluationIsShaped DEF ResultsShaped
<1> HIDE DEF ev
<1>6. /\ Len(results'[side]) = Current
      /\ DOMAIN results'[side] = 1..Current
      /\ results'[side][Current] = ev
      /\ \A e \in 1..Len(results[side]) : results'[side][e] = results[side][e]
  BY <1>1, <1>2, <1>3 DEF ResultsShaped, Current
<1>7. \A s \in Side \ {side} : results'[s] = results[s]
  BY <1>1, <1>2 DEF ResultsShaped
<1>8. ResultsShaped'
  <2>1. Truth' = Truth
    BY <1>1 DEF Truth
  <2>2. \A r, t, s : Shaped(r, t, s)' = Shaped(r, t, s)
    BY <1>1 DEF Shaped, Asked, NotApplicable
  <2>3. ASSUME NEW s \in Side
        PROVE  /\ Len(results'[s]) \in 0..Len(Truth)
               /\ DOMAIN results'[s] = 1..Len(results'[s])
               /\ \A e \in DOMAIN results'[s] : Shaped(results'[s][e], Truth[e], s)
    <3>1. CASE s = side
      <4>1. /\ Len(results'[s]) \in 0..Len(Truth)
            /\ DOMAIN results'[s] = 1..Len(results'[s])
        BY <1>3, <1>4, <1>6, <3>1 DEF Current
      <4>2. ASSUME NEW e \in DOMAIN results'[s]
            PROVE  Shaped(results'[s][e], Truth[e], s)
        <5>1. e = Current \/ e \in 1..Len(results[side])
          BY <1>3, <1>6, <3>1, <4>2 DEF Current
        <5>2. CASE e = Current
          BY <1>5, <1>6, <3>1, <5>2
        <5>3. CASE e \in 1..Len(results[side])
          BY <1>2, <1>6, <3>1, <5>3 DEF ResultsShaped
        <5> QED
          BY <5>1, <5>2, <5>3
      <4> QED
        BY <4>1, <4>2
    <3>2. CASE s # side
      BY <1>2, <1>7, <3>2 DEF ResultsShaped
    <3> QED
      BY <3>1, <3>2
  <2> QED
    BY <1>1, <1>2, <2>1, <2>2, <2>3 DEF ResultsShaped
<1>9. ResultsInOrder'
  <2>1. Truth' = Truth
    BY <1>1 DEF Truth
  <2>2. Len(results'[side]) > 0
    BY <1>3, <1>6 DEF Current
  <2>3. /\ side = "mutation" => results'["baseline"] = results["baseline"]
        /\ side = "baseline" => results'["mutation"] = results["mutation"]
    BY <1>7 DEF Side
  <2> QED
    BY <1>1, <1>2, <2>1, <2>2, <2>3 DEF ResultsInOrder, Unscored, AllIn
<1> QED
  BY <1>1, <1>2, <1>8, <1>9 DEF GateInv, ProofWasGranted

LEMMA ContinueKeeps ==
  ASSUME GateInv, Continue
  PROVE  GateInv'
<1>1. at = "scored" /\ UNCHANGED <<setup, results, proof>>
  BY DEF Continue, benchAfter
<1>2. ResultsShaped /\ ResultsInOrder /\ proof = Missing /\ Truth' = Truth
  BY <1>1 DEF GateInv, ProofWasGranted, Truth
<1>3. \A r, t, s : Shaped(r, t, s)' = Shaped(r, t, s)
  BY <1>1 DEF Shaped, Asked, NotApplicable
<1>4. /\ side' \in Side
      /\ \/ /\ at' = "ready" /\ side' = side
            /\ Len(results[side]) < Len(Truth)
         \/ /\ at' = "asked" /\ side = "baseline" /\ side' = "mutation"
            /\ Len(results["baseline"]) = Len(Truth)
         \/ /\ at' = "returned" /\ side = "mutation" /\ side' = side
            /\ Len(results["mutation"]) = Len(Truth)
  BY <1>2 DEF Continue, Moves, Side, ResultsShaped
<1>5. ResultsShaped'
  BY <1>1, <1>2, <1>3, <1>4 DEF ResultsShaped
<1> QED
  <2>1. Len(results["mutation"]) \in Nat /\ Len(Truth) \in Nat \ {0}
    BY <1>2, TruthIsListed DEF ResultsShaped, Side
  <2>2. ResultsInOrder'
    <3>1. /\ side = "mutation" => Len(results["baseline"]) = Len(Truth)
          /\ side = "baseline" => Len(results["mutation"]) = 0
      BY <1>2 DEF ResultsInOrder
    <3>2. /\ at' \in {"ready", "asked"} =>
                Len(results[side']) < Len(Truth)
          /\ side' = "mutation" => Len(results["baseline"]) = Len(Truth)
          /\ side' = "baseline" => Len(results["mutation"]) = 0
          /\ at' = "returned" => \A s \in Side : Len(results[s]) = Len(Truth)
      BY <1>4, <2>1, <3>1 DEF Side
    <3> QED
      BY <1>1, <1>2, <1>4, <3>2 DEF ResultsInOrder, Unscored, AllIn
  <2> QED
    BY <1>2, <1>5, <1>1, <2>2 DEF GateInv, ProofWasGranted

LEMMA CompareKeeps ==
  ASSUME GateInv, NEW k \in Key, Compare(k)
  PROVE  GateInv'
<1>1. at = "returned" /\ UNCHANGED <<setup, side, results>>
  BY DEF Compare
<1>2. proof = Missing
  BY <1>1 DEF GateInv, ProofWasGranted
<1>3. CASE ~Granted(k)
  BY <1>1, <1>2, <1>3, GateFrame DEF Compare, Moves, AllIn
<1>4. CASE Granted(k)
  <2>1. at' = "compared" /\ proof' = k
    BY <1>4 DEF Compare, Moves
  <2>2. ResultsShaped' /\ ResultsInOrder'
    <3>1. \A r, t, s : Shaped(r, t, s)' = Shaped(r, t, s)
      BY <1>1 DEF Shaped, Asked, NotApplicable
    <3>2. Truth' = Truth
      BY <1>1 DEF Truth
    <3> QED
      BY <1>1, <2>1, <3>1, <3>2
         DEF GateInv, ResultsShaped, ResultsInOrder, Unscored, AllIn
  <2>3. Granted(k)'
    BY <1>1, <1>4 DEF Granted, SamePresence, Failing, Declares, Example, Truth
  <2> QED
    BY <2>1, <2>2, <2>3 DEF GateInv, ProofWasGranted
<1> QED
  BY <1>3, <1>4

LEMMA GateKept == GateInv /\ [BenchNext]_benchVars => GateInv'
<1> SUFFICES ASSUME GateInv, [BenchNext]_benchVars PROVE GateInv'
  OBVIOUS
<1>1. CASE Plan \/ Investigate \/ Lap \/ IdleLap \/ Challenge
             \/ (\E d \in Decision : Check(d))
  <2>1. UNCHANGED <<setup, side, results, proof>>
    BY <1>1 DEF Plan, Investigate, Lap, IdleLap, Challenge, Check, benchAfter
  <2>2. at \in Unscored /\ at' \in Unscored \cup {"lost"}
    BY <1>1 DEF Plan, Investigate, Lap, IdleLap, Challenge, Check, Moves, Stops,
                Unscored
  <2> QED
    BY <2>1, <2>2, GateFrame DEF Unscored
<1>2. CASE InvestigationThrows
  BY <1>2, GateFrame DEF InvestigationThrows, Moves, benchAfter
<1>3. CASE \E f \in Finals : Score(f)
  BY <1>3, ScoreKeeps
<1>4. CASE \E k \in Key : Compare(k)
  BY <1>4, CompareKeeps
<1>5. CASE PublicationStep
  <2>1. UNCHANGED <<setup, side, results, proof>>
    BY <1>5 DEF PublicationStep, StartPublishing, SendNext, SendFails, Reference,
                Verify, benchAfter
  <2>2. at \in AllIn /\ at # "compared" /\ at' \in AllIn
    BY <1>5 DEF PublicationStep, StartPublishing, SendNext, SendFails, Reference,
                Verify, Moves, AllIn
  <2> QED
    BY <2>1, <2>2, GateFrame
<1>6. CASE UNCHANGED benchVars
  BY <1>6, GateFrame DEF benchVars
<1> QED
  BY <1>1, <1>2, <1>3, <1>4, <1>5, <1>6, ContinueKeeps
     DEF BenchNext, InvestigationStep

\* Two scores that both are the required one are the same score.
LEMMA SameScore ==
  ASSUME NEW b \in Ratio, NEW m \in Ratio, NEW q \in {0, 1},
         b[1] = q * b[2], m[1] = q * m[2]
  PROVE  b[1] * m[2] = m[1] * b[2]
<1>1. b[2] \in Nat /\ m[2] \in Nat
  BY DEF Ratio
<1>2. CASE q = 0
  BY <1>1, <1>2
<1>3. CASE q = 1
  BY <1>1, <1>3
<1> QED
  BY <1>2, <1>3

\* A regression proof is granted only over two experiments that were scored on
\* the same metrics, example by example, and passed all of them but the one it
\* is about (compareBenchmarkExperiments, gateMetric and gateBehaviorMetric).
THEOREM ProofsMissNothing == BenchSpec => []GateMissesNothing
<1>1. GateInv => GateMissesNothing
  <2> SUFFICES ASSUME GateInv, proof # Missing, NEW e \in Example
               PROVE
                 LET b == results["baseline"][e]
                     m == results["mutation"][e]
                 IN  /\ \A k \in Asked(Truth[e]) :
                           /\ k \in b.notApplicable <=> k \in m.notApplicable
                           /\ k \notin b.notApplicable =>
                                 k \in DOMAIN b.behaviour \cap DOMAIN m.behaviour
                     /\ \A k \in DOMAIN b.behaviour \ {proof} :
                           b.behaviour[k] = m.behaviour[k]
                     /\ \A k \in Core \ {proof} :
                           b.core[k][1] * m.core[k][2] = m.core[k][1] * b.core[k][2]
    BY DEF GateMissesNothing
  <2> DEFINE b == results["baseline"][e]
             m == results["mutation"][e]
  <2>1. Granted(proof) /\ at = "compared"
    BY DEF GateInv, ProofWasGranted
  <2>2. /\ Shaped(b, Truth[e], "baseline")
        /\ Shaped(m, Truth[e], "mutation")
    <3>1. Example = 1..Len(Truth)
      BY TruthIsListed DEF GateInv, ResultsShaped
    <3> QED
      BY <2>1, <3>1 DEF GateInv, ResultsShaped, ResultsInOrder, AllIn, Side
  <2>3. Asked(Truth[e]) \subseteq Key
    BY DEF Asked, Key
  <2>4. \A k \in Key : Declares("baseline", e, k) <=> Declares("mutation", e, k)
    BY <2>1 DEF Granted, SamePresence
  <2>5. \A k \in Key : k \in DOMAIN b.behaviour <=> k \in DOMAIN m.behaviour
    BY <2>4 DEF Declares
  <2>6. ASSUME NEW k \in Asked(Truth[e])
        PROVE  /\ k \in b.notApplicable <=> k \in m.notApplicable
               /\ k \notin b.notApplicable =>
                     k \in DOMAIN b.behaviour \cap DOMAIN m.behaviour
    BY <2>2, <2>3, <2>5, <2>6 DEF Shaped
  <2>7. \A k \in Key : Failing("baseline", k) = {}
    BY <2>1 DEF Granted
  <2>8. \A k \in Key \ {proof} : Failing("mutation", k) = {}
    BY <2>1 DEF Granted
  <2>9. ASSUME NEW k \in DOMAIN b.behaviour \ {proof}
        PROVE  b.behaviour[k] = m.behaviour[k]
    <3>1. k \in Key /\ k \in DOMAIN m.behaviour
      BY <2>2, <2>3, <2>5, <2>9 DEF Shaped
    <3>2. Declares("baseline", e, k) /\ Declares("mutation", e, k)
      BY <2>9, <3>1 DEF Declares
    <3>3. b.behaviour[k] = "passed"
      BY <2>7, <3>1, <3>2 DEF Failing
    <3>4. m.behaviour[k] = "passed"
      BY <2>8, <2>9, <3>1, <3>2 DEF Failing
    <3> QED
      BY <3>3, <3>4
  <2>10. ASSUME NEW k \in Core \ {proof}
         PROVE  b.core[k][1] * m.core[k][2] = m.core[k][1] * b.core[k][2]
    <3>1. k \in Key
      BY DEF Key
    <3>2. b.core[k][1] = RequiredScore(k) * b.core[k][2]
      BY <2>7, <3>1 DEF Failing
    <3>3. m.core[k][1] = RequiredScore(k) * m.core[k][2]
      BY <2>8, <3>1 DEF Failing
    <3>4. b.core[k] \in Ratio /\ m.core[k] \in Ratio
      BY <2>2 DEF Shaped
    <3>5. RequiredScore(k) \in {0, 1}
      BY DEF RequiredScore
    <3> QED
      BY <3>2, <3>3, <3>4, <3>5, SameScore
  <2> QED
    BY <2>6, <2>9, <2>10
<1> QED
  BY <1>1, GateStarts, GateKept, PTL DEF BenchSpec

\* A ladder passes only when none of its reasons holds.
LEMMA NoRungHolds ==
  ASSUME NEW p1, NEW p2, NEW p3, NEW p4, NEW p5,
         NEW r1, NEW r2, NEW r3, NEW r4, NEW r5,
         "passed" \notin {r1, r2, r3, r4, r5},
         FirstReason(<< <<p1, r1>>, <<p2, r2>>, <<p3, r3>>, <<p4, r4>>,
                        <<p5, r5>> >>) = "passed"
  PROVE  ~p1 /\ ~p2 /\ ~p3 /\ ~p4 /\ ~p5
<1> DEFINE l == << <<p1, r1>>, <<p2, r2>>, <<p3, r3>>, <<p4, r4>>, <<p5, r5>> >>
           I == {i \in 1..Len(l) : l[i][1]}
<1>1. /\ Len(l) = 5
      /\ \A i \in 1..5 : l[i][2] # "passed"
      /\ l[1][1] = p1 /\ l[2][1] = p2 /\ l[3][1] = p3 /\ l[4][1] = p4
      /\ l[5][1] = p5
  <2>1. \A i \in 1..5 : i = 1 \/ i = 2 \/ i = 3 \/ i = 4 \/ i = 5
    OBVIOUS
  <2> QED
    BY <2>1
<1> HIDE DEF l
<1>2. FirstReason(l) = LET i == IF I # {} THEN Min(I) ELSE 0
                       IN  IF i = 0 THEN "passed" ELSE l[i][2]
  BY DEF FirstReason, SelectInSeq
<1>3. I \subseteq 1..5
  BY <1>1
<1>4. ASSUME I # {} PROVE FALSE
  <2>1. \E x \in I : \A y \in I : x <= y
    <3>1. 1 \in I \/ 2 \in I \/ 3 \in I \/ 4 \in I \/ 5 \in I
      BY <1>3, <1>4
    <3>2. \A y \in I : y \in 1..5
      BY <1>3
    <3> HIDE DEF I
    <3>3. CASE 1 \in I
      BY <3>2, <3>3
    <3>4. CASE 1 \notin I /\ 2 \in I
      BY <3>2, <3>4
    <3>5. CASE 1 \notin I /\ 2 \notin I /\ 3 \in I
      BY <3>2, <3>5
    <3>6. CASE I \cap {1, 2, 3} = {}
      BY <3>1, <3>2, <3>6
    <3> QED
      BY <3>3, <3>4, <3>5, <3>6
  <2>2. Min(I) \in I
    BY <2>1 DEF Min
  <2>3. Min(I) \in 1..5
    BY <1>3, <2>2
  <2>4. FirstReason(l) = l[Min(I)][2]
    BY <1>2, <1>4, <2>3
  <2> QED
    BY <1>1, <2>3, <2>4 DEF l
<1> QED
  BY <1>1, <1>4

LEMMA CreditIsSeen ==
  ASSUME NEW t, NEW r, ChallengeEffect(t, r) = "passed"
  PROVE  /\ r.before # Missing /\ r.after # Missing
         /\ (r.before # r.after) = t.leaderChange
         /\ setup.version = "v0.4" => Discriminating(r) # {}
<1> DEFINE p1 == r.calls < 1
           p2 == r.before = Missing \/ r.after = Missing
           p3 == r.before = r.after /\ Discriminating(r) = {}
           p4 == setup.version = "v0.4" /\ Discriminating(r) = {}
           p5 == (r.before # r.after) # t.leaderChange
<1>1. FirstReason(<< <<p1, "challenge-not-observed">>,
                     <<p2, "leader-observation-missing">>,
                     <<p3, "no-investigation-change">>,
                     <<p4, "no-discriminating-trial">>,
                     <<p5, "leader-change-mismatch">> >>) = "passed"
  BY DEF ChallengeEffect
<1>2. "passed" \notin {"challenge-not-observed", "leader-observation-missing",
          "no-investigation-change", "no-discriminating-trial",
          "leader-change-mismatch"}
  OBVIOUS
<1>3. ~p2 /\ ~p4 /\ ~p5
  <2> HIDE DEF p1, p2, p3, p4, p5
  <2> QED
    BY <1>1, <1>2, NoRungHolds
<1>4. r.before # Missing /\ r.after # Missing
  BY <1>3, Zenon
<1>5. (r.before # r.after) = t.leaderChange
  BY <1>3, Zenon
<1>6. setup.version = "v0.4" => Discriminating(r) # {}
  BY <1>3, Zenon
<1> QED
  BY <1>4, <1>5, <1>6, Zenon

LEMMA UnobservedIsNothing ==
  /\ Unobserved \in RunSeen
  /\ Unobserved.before = Missing /\ Unobserved.after = Missing
  /\ Unobserved.snapshot = Missing /\ Unobserved.trials = {}
  /\ Unobserved.targets = <<>> /\ Unobserved.rounds = 0
BY DEF Unobserved, RunSeen

\* A run that is about to be observed.
LEMMA FreshRun ==
  ASSUME run' = Unobserved, at' # "challenging", at' # "scored"
  PROVE  CreditInv'
<1>1. run' \in RunSeen /\ LeadersSeen'
  BY UnobservedIsNothing DEF LeadersSeen
<1>2. RoundsAgree(run')
  BY UnobservedIsNothing DEF RoundsAgree
<1> QED
  BY <1>1, <1>2 DEF CreditInv, ChallengeCreditIsEarned, RunSeen

\* A step that leaves the run as it was seen.
LEMMA SameRun ==
  ASSUME CreditInv, UNCHANGED run,
         at' \in {"executing", "checking", "challenging"} => at' = at,
         at' # "scored" \/ ChallengeCreditIsEarned'
  PROVE  CreditInv'
<1>1. LeadersSeen'
  BY DEF CreditInv, LeadersSeen
<1>2. RoundsAgree(run') /\ run' \in RunSeen'
  BY DEF CreditInv, RoundsAgree, RunSeen
<1> QED
  BY <1>1, <1>2 DEF CreditInv, ChallengeCreditIsEarned

\* A test enters a run that is as it should be; it counts as since the first
\* challenge when there was one.
LEMMA TriedIsSeen ==
  ASSUME NEW r \in RunSeen, NEW x \in Trial
  PROVE  /\ Tried(r, x) \in RunSeen
         /\ Tried(r, x).tests = r.tests + 1
         /\ Tried(r, x).trials = r.trials \cup
               {[test |-> r.tests + 1, result |-> x, since |-> r.targets # <<>>]}
         /\ Tried(r, x).before = r.before /\ Tried(r, x).after = r.after
         /\ Tried(r, x).snapshot = r.snapshot /\ Tried(r, x).rounds = r.rounds
         /\ Tried(r, x).targets = r.targets /\ Tried(r, x).last = r.last
         /\ Tried(r, x).stop = r.stop
<1>1. [test |-> r.tests + 1, result |-> x, since |-> r.targets # <<>>] \in TrialSeen
  BY DEF RunSeen, TrialSeen
<1>2. r.tests + 1 \in Nat /\ r = [r EXCEPT !.tests = r.tests]
  BY DEF RunSeen
<1>3. Tried(r, x) \in RunSeen
  BY <1>1, <1>2 DEF Tried, RunSeen
<1> QED
  BY <1>3 DEF Tried, RunSeen

LEMMA TriedAgrees ==
  ASSUME NEW r \in RunSeen, NEW x \in Trial, RoundsAgree(r)
  PROVE  RoundsAgree(Tried(r, x))
<1> DEFINE q == Tried(r, x)
           n == [test |-> r.tests + 1, result |-> x, since |-> r.targets # <<>>]
<1>1. /\ q.tests = r.tests + 1 /\ q.trials = r.trials \cup {n}
      /\ q.before = r.before /\ q.snapshot = r.snapshot
      /\ q.rounds = r.rounds /\ q.targets = r.targets
  BY TriedIsSeen
<1>2. /\ n.test = r.tests + 1
      /\ n.since <=> r.targets # <<>>
  OBVIOUS
<1>3. /\ r.tests \in Nat /\ r.snapshot \in Nat \cup {Missing}
      /\ \A y \in r.trials : y.test \in Nat
  BY DEF RunSeen, TrialSeen
<1> HIDE DEF q, n
<1>4. q.snapshot # Missing => q.targets # <<>> /\ q.snapshot <= q.tests
  BY <1>1, <1>3 DEF RoundsAgree
<1>5. ASSUME NEW y \in q.trials
      PROVE  /\ y.test <= q.tests
             /\ q.snapshot # Missing /\ y.test > q.snapshot => y.since
  <2>1. CASE y \in r.trials
    BY <1>1, <1>3, <2>1 DEF RoundsAgree
  <2>2. CASE y = n
    BY <1>1, <1>2, <1>3, <1>4, <2>2
  <2> QED
    BY <1>1, <2>1, <2>2
<1> QED
  BY <1>1, <1>4, <1>5 DEF RoundsAgree, q

LEMMA LapKeeps ==
  ASSUME CreditInv, Lap \/ IdleLap
  PROVE  CreditInv'
<1>1. at = "executing" /\ at' = "checking" /\ run \in RunSeen /\ RoundsAgree(run)
  BY DEF Lap, IdleLap, Moves, CreditInv
<1>2. run.after = Missing /\ (run.targets = <<>> => run.before = Missing)
  BY <1>1 DEF CreditInv, LeadersSeen
<1>3. run' \in RunSeen /\ RoundsAgree(run')
      /\ run'.after = run.after /\ run'.before = run.before
      /\ run'.targets = run.targets
  <2>1. CASE IdleLap
    BY <1>1, <2>1 DEF IdleLap
  <2>2. CASE Lap
    <3>1. PICK x \in Trial : run' = Tried(run, x)
      BY <2>2 DEF Lap
    <3> QED
      BY <1>1, <3>1, TriedIsSeen, TriedAgrees
  <2> QED
    BY <2>1, <2>2
<1>4. LeadersSeen'
  BY <1>1, <1>2, <1>3 DEF LeadersSeen
<1> QED
  BY <1>1, <1>3, <1>4 DEF CreditInv, ChallengeCreditIsEarned, RunSeen

\* What the wrapped termination_check notes of a decision.
LEMMA SeenIs ==
  ASSUME NEW d \in Decision, d.route \in {"challenge-required", "sufficient"},
         run \in RunSeen
  PROVE  LET r == [Seen(d) EXCEPT !.last = d.leader]
         IN  /\ d.leader \in Leader /\ r \in RunSeen
             /\ r.last = d.leader
             /\ r.before = IF PreChallenge(d) /\ run.before = Missing
                           THEN d.leader ELSE run.before
             /\ r.after = IF d.route = "sufficient" /\ run.rounds > 0
                          THEN d.leader ELSE run.after
             /\ r.snapshot = run.snapshot /\ r.tests = run.tests
             /\ r.trials = run.trials /\ r.rounds = run.rounds
             /\ r.targets = run.targets
<1>1. d.leader \in Leader
  BY DEF Decision
<1> DEFINE q == Seen(d)
<1>2. /\ q \in RunSeen
      /\ q.before = IF PreChallenge(d) /\ run.before = Missing
                    THEN d.leader ELSE run.before
      /\ q.after = IF d.route = "sufficient" /\ run.rounds > 0
                   THEN d.leader ELSE run.after
      /\ q.snapshot = run.snapshot /\ q.tests = run.tests
      /\ q.trials = run.trials /\ q.rounds = run.rounds
      /\ q.targets = run.targets
  <2>1. q \in RunSeen
    BY <1>1 DEF Seen, RunSeen
  <2> QED
    BY <1>1, <2>1 DEF Seen, RunSeen
<1> HIDE DEF q
<1> DEFINE r == [q EXCEPT !.last = d.leader]
<1>3. /\ r \in RunSeen /\ r.last = d.leader
      /\ r.before = q.before /\ r.after = q.after
      /\ r.snapshot = q.snapshot /\ r.tests = q.tests
      /\ r.trials = q.trials /\ r.rounds = q.rounds /\ r.targets = q.targets
  BY <1>1, <1>2 DEF RunSeen
<1> QED
  BY <1>1, <1>2, <1>3 DEF q

LEMMA StopIs ==
  ASSUME NEW r \in RunSeen,
         NEW kind \in {"budget-exhausted", "ambiguous", "sufficient", "stalled"}
  PROVE  LET q == [r EXCEPT !.stop = kind]
         IN  /\ q \in RunSeen /\ q.stop = kind
             /\ q.before = r.before /\ q.after = r.after /\ q.last = r.last
             /\ q.snapshot = r.snapshot /\ q.tests = r.tests
             /\ q.trials = r.trials /\ q.rounds = r.rounds
             /\ q.targets = r.targets
BY DEF RunSeen

LEMMA CheckKeeps ==
  ASSUME CreditInv, NEW d \in Decision, Check(d)
  PROVE  CreditInv'
<1> DEFINE r == IF d.route \in {"challenge-required", "sufficient"}
                THEN [Seen(d) EXCEPT !.last = d.leader] ELSE run
<1>1. /\ at = "checking" /\ run \in RunSeen /\ RoundsAgree(run)
      /\ run.after = Missing
      /\ run.targets = <<>> => run.before = Missing
  BY DEF Check, CreditInv, LeadersSeen
<1>2. /\ r \in RunSeen
      /\ r.snapshot = run.snapshot /\ r.tests = run.tests
      /\ r.trials = run.trials /\ r.rounds = run.rounds
      /\ r.targets = run.targets
  BY <1>1, SeenIs
<1>3. run.targets # <<>> <=> run.rounds > 0
  BY <1>1 DEF RoundsAgree, RunSeen
<1>4. run.targets # <<>> => run.before # Missing
  BY <1>1, MissingAssumption DEF RoundsAgree, RunSeen
<1>5. r.targets # <<>> => r.before = run.before
  BY <1>1, <1>2, <1>4, SeenIs
<1>6. RoundsAgree(r)
  BY <1>1, <1>2, <1>5 DEF RoundsAgree
<1>7. r.after # Missing =>
          d.route = "sufficient" /\ run.rounds > 0 /\ r.last = r.after
  BY <1>1, SeenIs
<1>8. PreChallenge(d) => /\ r.last # Missing
                         /\ r.after = Missing
                         /\ r.targets = <<>> => r.before = r.last
  BY <1>1, <1>2, <1>3, SeenIs, MissingAssumption DEF PreChallenge
<1>9. ~PreChallenge(d) => (r.targets = <<>> => r.before = Missing)
  BY <1>1, <1>2, SeenIs
<1>10. \/ /\ d.route = "need-more-evidence"
          /\ at' = "executing" /\ run' = r
       \/ PreChallenge(d) /\ at' = "challenging" /\ run' = r
       \/ \E kind \in {"budget-exhausted", "ambiguous", "sufficient", "stalled"} :
             /\ at' = "answered" /\ run' = [r EXCEPT !.stop = kind]
             /\ d.route = "sufficient" /\ ~PreChallenge(d) => kind = "sufficient"
  BY DEF Check, Moves, Stops, PreChallenge
<1> HIDE DEF r
<1>11. CASE d.route = "need-more-evidence" /\ at' = "executing" /\ run' = r
  <2>1. LeadersSeen'
    BY <1>7, <1>9, <1>11 DEF LeadersSeen, PreChallenge
  <2> QED
    BY <1>2, <1>6, <1>11, <2>1
       DEF CreditInv, ChallengeCreditIsEarned, RunSeen, RoundsAgree
<1>12. CASE PreChallenge(d) /\ at' = "challenging" /\ run' = r
  <2>1. LeadersSeen'
    BY <1>8, <1>12 DEF LeadersSeen
  <2> QED
    BY <1>2, <1>6, <1>12, <2>1
       DEF CreditInv, ChallengeCreditIsEarned, RunSeen, RoundsAgree
<1>13. ASSUME NEW kind \in {"budget-exhausted", "ambiguous", "sufficient", "stalled"},
              at' = "answered", run' = [r EXCEPT !.stop = kind],
              d.route = "sufficient" /\ ~PreChallenge(d) => kind = "sufficient"
       PROVE  CreditInv'
  <2>1. /\ run' \in RunSeen /\ run'.stop = kind
        /\ run'.before = r.before /\ run'.after = r.after /\ run'.last = r.last
        /\ run'.snapshot = r.snapshot /\ run'.tests = r.tests
        /\ run'.trials = r.trials /\ run'.rounds = r.rounds
        /\ run'.targets = r.targets
    BY <1>2, <1>13, StopIs
  <2>2. RoundsAgree(run')
    BY <1>6, <2>1 DEF RoundsAgree
  <2>3. run'.after # Missing =>
            run'.stop = "sufficient" /\ run'.targets # <<>> /\ run'.last = run'.after
    BY <1>2, <1>3, <1>7, <1>8, <1>13, <2>1
  <2>4. LeadersSeen'
    BY <1>13, <2>3 DEF LeadersSeen
  <2> QED
    BY <1>13, <2>1, <2>2, <2>4
       DEF CreditInv, ChallengeCreditIsEarned, RunSeen, RoundsAgree
<1> QED
  BY <1>10, <1>11, <1>12, <1>13

\* The round that begins notes its tests and its target before it plans one.
LEMMA ChallengeKeeps ==
  ASSUME CreditInv, Challenge
  PROVE  CreditInv'
<1> DEFINE r == [run EXCEPT !.calls = @ + 1,
                            !.rounds = @ + 1,
                            !.snapshot = IF @ = Missing THEN run.tests ELSE @,
                            !.targets = Append(@, run.last)]
<1>1. /\ at = "challenging" /\ at' = "checking"
      /\ run \in RunSeen /\ RoundsAgree(run)
      /\ run.after = Missing /\ run.last \in Leader
      /\ run.targets = <<>> => run.before = run.last
  BY DEF Challenge, Moves, CreditInv, LeadersSeen, RunSeen
<1>2. /\ r \in RunSeen
      /\ r.before = run.before /\ r.after = run.after
      /\ r.tests = run.tests /\ r.trials = run.trials
      /\ r.rounds = run.rounds + 1
      /\ r.snapshot = IF run.snapshot = Missing THEN run.tests ELSE run.snapshot
      /\ r.targets = Append(run.targets, run.last)
  <2>1. Append(run.targets, run.last) \in Seq(Leader)
    BY <1>1 DEF RunSeen
  <2>2. (IF run.snapshot = Missing THEN run.tests ELSE run.snapshot)
            \in Nat \cup {Missing}
    BY <1>1 DEF RunSeen
  <2>3. run.calls + 1 \in Nat /\ run.rounds + 1 \in Nat
    BY <1>1 DEF RunSeen
  <2>4. r \in RunSeen
    BY <1>1, <2>1, <2>2, <2>3 DEF RunSeen
  <2> QED
    BY <1>1, <2>4 DEF RunSeen
<1> HIDE DEF r
<1>3. run.targets \in Seq(Leader)
  BY <1>1 DEF RunSeen
<1>4. /\ Len(r.targets) = Len(run.targets) + 1 /\ r.targets # <<>>
      /\ r.targets[1] = IF run.targets = <<>> THEN run.last ELSE run.targets[1]
  BY <1>1, <1>2, <1>3
<1>5. RoundsAgree(r)
  <2>1. r.rounds = Len(r.targets) /\ r.before = r.targets[1]
    BY <1>1, <1>2, <1>4 DEF RoundsAgree
  <2>2. /\ run.tests \in Nat /\ run.snapshot \in Nat \cup {Missing}
        /\ \A x \in run.trials : x.test \in Nat
    BY <1>1 DEF RunSeen, TrialSeen
  <2>3. r.snapshot <= r.tests
    BY <1>1, <1>2, <2>2 DEF RoundsAgree
  <2>4. ASSUME NEW x \in r.trials
        PROVE  x.test <= r.tests /\ (x.test > r.snapshot => x.since)
    BY <1>1, <1>2, <2>2 DEF RoundsAgree
  <2> QED
    BY <1>4, <2>1, <2>3, <2>4 DEF RoundsAgree
<1>6. /\ run' \in RunSeen /\ RoundsAgree(run')
      /\ run'.after = Missing /\ run'.targets # <<>>
  <2>1. run' = r \/ \E x \in Trial : run' = Tried(r, x)
    BY DEF Challenge, r
  <2>2. CASE run' = r
    BY <1>1, <1>2, <1>4, <1>5, <2>2
  <2>3. ASSUME NEW x \in Trial, run' = Tried(r, x)
        PROVE  /\ run' \in RunSeen /\ RoundsAgree(run')
               /\ run'.after = Missing /\ run'.targets # <<>>
    BY <1>1, <1>2, <1>4, <1>5, <2>3, TriedIsSeen, TriedAgrees
  <2> QED
    BY <2>1, <2>2, <2>3
<1>7. LeadersSeen'
  BY <1>1, <1>6 DEF LeadersSeen
<1> QED
  BY <1>1, <1>6, <1>7 DEF CreditInv, ChallengeCreditIsEarned, RunSeen, RoundsAgree

LEMMA ScoreIsEarned ==
  ASSUME CreditInv, GateInv, NEW f \in Finals, Score(f)
  PROVE  CreditInv'
<1> DEFINE t == Truth[Current]
           ev == Evaluation(t, f, side)
<1>1. /\ at = "answered" /\ at' = "scored"
      /\ results' = [results EXCEPT ![side] = Append(@, ev)]
      /\ UNCHANGED <<setup, side, run>>
  BY DEF Score, Moves
<1>2. /\ Len(results[side]) \in Nat /\ DOMAIN results[side] = 1..Len(results[side])
      /\ side \in DOMAIN results
  BY DEF GateInv, ResultsShaped
<1>3. Len(results'[side]) = Current /\ results'[side][Current] = ev
  <2> HIDE DEF ev
  <2> QED
    BY <1>1, <1>2 DEF Current
<1>4. ASSUME "challenge_effect" \in DOMAIN ev.behaviour,
             ev.behaviour["challenge_effect"] = "passed"
      PROVE  /\ run.stop = "sufficient" /\ run.targets # <<>>
             /\ (run.targets[1] # run.last) = t.leaderChange
             /\ setup.version = "v0.4" =>
                   \E x \in run.trials : x.since /\ x.result = "fresh"
  <2>1. ChallengeEffect(t, run) = "passed"
    BY <1>4 DEF Evaluation, BehaviourMetrics
  <2>2. /\ run.before # Missing /\ run.after # Missing
        /\ (run.before # run.after) = t.leaderChange
        /\ setup.version = "v0.4" => Discriminating(run) # {}
    BY <2>1, CreditIsSeen
  <2>3. /\ run.stop = "sufficient" /\ run.targets # <<>>
        /\ run.last = run.after /\ run.before = run.targets[1]
    BY <2>2 DEF CreditInv, LeadersSeen, RoundsAgree
  <2>4. ASSUME NEW x \in Discriminating(run)
        PROVE  x \in run.trials /\ x.since /\ x.result = "fresh"
    BY DEF Discriminating, CreditInv, RoundsAgree
  <2> QED
    BY <2>2, <2>3, <2>4
<1>5. ChallengeCreditIsEarned'
  <2>1. Truth' = Truth
    BY <1>1 DEF Truth
  <2> HIDE DEF ev
  <2> QED
    BY <1>1, <1>3, <1>4, <2>1 DEF ChallengeCreditIsEarned
<1> QED
  BY <1>1, <1>5, SameRun

LEMMA CreditKept == CreditInv /\ GateInv /\ [BenchNext]_benchVars => CreditInv'
<1> SUFFICES ASSUME CreditInv, GateInv, [BenchNext]_benchVars PROVE CreditInv'
  OBVIOUS
<1>1. CASE Plan
  BY <1>1, SameRun DEF Plan, Moves
<1>2. CASE Investigate
  <2>1. CASE at' = "executing"
    BY <1>2, <2>1, FreshRun DEF Investigate
  <2>2. CASE at' = "answered"
    BY <1>2, <2>2, FreshRun DEF Investigate
  <2> QED
    BY <1>2, <2>1, <2>2 DEF Investigate, Moves
<1>3. CASE Lap \/ IdleLap
  BY <1>3, LapKeeps
<1>4. ASSUME NEW d \in Decision, Check(d) PROVE CreditInv'
  BY <1>4, CheckKeeps
<1>5. CASE Challenge
  BY <1>5, ChallengeKeeps
<1>6. CASE InvestigationThrows
  BY <1>6, SameRun DEF InvestigationThrows, Moves
<1>7. ASSUME NEW f \in Finals, Score(f) PROVE CreditInv'
  BY <1>7, ScoreIsEarned
<1>8. CASE Continue
  BY <1>8, FreshRun DEF Continue, Moves
<1>9. CASE \E k \in Key : Compare(k)
  BY <1>9, SameRun DEF Compare, Moves
<1>10. CASE PublicationStep
  <2>1. UNCHANGED run
        /\ at' \in {"publishing", "unpublishable", "broken", "referenced",
                    "verified", "unverified"}
    BY <1>10 DEF PublicationStep, StartPublishing, SendNext, SendFails, Reference,
                 Verify, Moves
  <2> QED
    BY <2>1, SameRun
<1>11. CASE UNCHANGED benchVars
  <2>1. /\ UNCHANGED <<run, at, results, side>>
        /\ Truth' = Truth /\ setup' = setup
    BY <1>11 DEF benchVars, Truth
  <2>2. ChallengeCreditIsEarned'
    BY <2>1 DEF CreditInv, ChallengeCreditIsEarned
  <2> QED
    BY <2>1, <2>2, SameRun
<1> QED
  BY <1>1, <1>2, <1>3, <1>4, <1>5, <1>6, <1>7, <1>8, <1>9, <1>10, <1>11
     DEF BenchNext, InvestigationStep

\* A run is credited for its challenge only when it went to a sufficient stop
\* with the leader the ground truth asks for, measured from the first leader
\* challenged, and, under v0.4, when a test planned since that challenge brought
\* new evidence (the wrapped nodes of runGraphBenchmarkExperiment and
\* evaluateChallengeEffect).
THEOREM CreditIsEarned == BenchSpec => []ChallengeCreditIsEarned
<1>1. BenchInit => CreditInv
  BY FreshRun, UnobservedIsNothing
     DEF BenchInit, CreditInv, LeadersSeen, RoundsAgree, ChallengeCreditIsEarned
<1>2. CreditInv => ChallengeCreditIsEarned
  BY DEF CreditInv
<1> QED
  BY <1>1, <1>2, GateStarts, GateKept, CreditKept, PTL DEF BenchSpec

-----------------------------------------------------------------------------
(* A publication.  Its requests are a sequence of sequences joined into    *)
(* one; what the induction needs of it is that each figure comes after its *)
(* run (Announced) and that none is left out (Covers).  What the service   *)
(* holds is then a beginning of that sequence (PubInv).                    *)

LEMMA LeastOf ==
  ASSUME NEW T, T \subseteq Nat, T # {}
  PROVE  \E x \in T : \A y \in T : x <= y
<1> DEFINE R == {ss \in Nat \X Nat : ss[1] < ss[2]}
<1>1. IsWellFoundedOn(R, Nat)
  BY NatLessThanWellFounded DEF OpToRel
<1> HIDE DEF R
<1>2. PICK x \in T : \A y \in T : ~ (<<y, x>> \in R)
  BY <1>1, WFMin
<1>3. \A y, z \in Nat : <<y, z>> \in R <=> y < z
  BY DEF R
<1>4. \A y \in T : ~ (y < x) /\ y \in Nat /\ x \in Nat
  BY <1>2, <1>3
<1> QED
  BY <1>4

\* A ladder comes to one of its reasons, or to none.
LEMMA FirstReasonIs ==
  ASSUME NEW l, Len(l) \in Nat, NEW R, \A i \in 1..Len(l) : l[i][2] \in R
  PROVE  FirstReason(l) \in R \cup {"passed"}
<1> DEFINE I == {i \in 1..Len(l) : l[i][1]}
<1>1. FirstReason(l) = LET i == IF I # {} THEN Min(I) ELSE 0
                       IN  IF i = 0 THEN "passed" ELSE l[i][2]
  BY DEF FirstReason, SelectInSeq
<1>2. ASSUME I # {} PROVE Min(I) \in 1..Len(l)
  <2>1. \E x \in I : \A y \in I : x <= y
    <3>1. I \subseteq Nat
      OBVIOUS
    <3> HIDE DEF I
    <3> QED
      BY <1>2, <3>1, LeastOf
  <2> HIDE DEF I
  <2>2. Min(I) \in I
    BY <2>1 DEF Min
  <2> QED
    BY <2>2 DEF I
<1> HIDE DEF I
<1>3. CASE I = {}
  BY <1>1, <1>3
<1>4. CASE I # {}
  <2>1. Min(I) # 0 /\ Min(I) \in 1..Len(l)
    BY <1>2, <1>4
  <2>2. FirstReason(l) = l[Min(I)][2]
    BY <1>1, <1>4, <2>1
  <2> QED
    BY <2>1, <2>2
<1> QED
  BY <1>3, <1>4

LEMMA ElementsListed ==
  ASSUME NEW S, IsFiniteSet(S)
  PROVE  /\ SetToSeq(S) \in Seq(S)
         /\ \A x \in S : \E i \in DOMAIN SetToSeq(S) : SetToSeq(S)[i] = x
<1> DEFINE n == Cardinality(S)
           f == SetToSeq(S)
<1>1. n \in Nat /\ ExistsBijection(1..n, S)
  BY FS_CardinalityType
<1> HIDE DEF n
<1>2. \E g \in [1..n -> S] : IsInjective(g)
  BY <1>1 DEF ExistsBijection, Bijection, Injection, IsInjective
<1>3. f \in [1..n -> S] /\ IsInjective(f)
  BY <1>2 DEF SetToSeq, n
<1> HIDE DEF f
<1>4. f \in Injection(1..n, S)
  BY <1>3 DEF Injection, IsInjective
<1>5. Cardinality(1..n) = n
  BY <1>1, FS_Interval
<1>6. f \in Surjection(1..n, S)
  BY <1>4, <1>5, FS_Injection DEF n
<1>7. \A x \in S : \E i \in 1..n : f[i] = x
  BY <1>6 DEF Surjection
<1>8. f \in Seq(S) /\ DOMAIN f = 1..n
  BY <1>1, <1>3
<1> QED
  BY <1>7, <1>8 DEF f

FlattenStep(f, n, seqs) ==
  f = [i \in 1..n |-> IF i = 1 THEN seqs[i] ELSE f[i - 1] \o seqs[i]]

LEMMA FlattenExists ==
  ASSUME NEW seqs
  PROVE  \A n \in Nat : \E f : FlattenStep(f, n, seqs)
<1> DEFINE T == {n \in Nat : ~ \E f : FlattenStep(f, n, seqs)}
<1>1. SUFFICES ASSUME T # {} PROVE FALSE
  OBVIOUS
<1>2. PICK n \in T : \A y \in T : n <= y
  BY <1>1, LeastOf
<1>3. FlattenStep([i \in 1..0 |-> 0], 0, seqs)
  BY DEF FlattenStep
<1>4. n \in Nat /\ n # 0
  BY <1>2, <1>3
<1>5. n - 1 \in Nat /\ n - 1 \notin T
  BY <1>2, <1>4
<1>6. PICK g : FlattenStep(g, n - 1, seqs)
  BY <1>5
<1> DEFINE h == [i \in 1..n |-> IF i = 1 THEN seqs[i] ELSE g[i - 1] \o seqs[i]]
<1>7. \A i \in 1..(n - 1) : h[i] = g[i]
  <2> TAKE i \in 1..(n - 1)
  <2>1. g[i] = IF i = 1 THEN seqs[i] ELSE g[i - 1] \o seqs[i]
    BY <1>6 DEF FlattenStep
  <2> QED
    BY <2>1, <1>4
<1>8. FlattenStep(h, n, seqs)
  <2>1. \A i \in 1..n : i # 1 => i - 1 \in 1..(n - 1)
    BY <1>4
  <2>2. \A i \in 1..n : i # 1 => g[i - 1] = h[i - 1]
    BY <1>7, <2>1
  <2> QED
    BY <2>2 DEF FlattenStep
<1> QED
  BY <1>8, <1>2

LEMMA FlattenUnfolds ==
  ASSUME NEW seqs, Len(seqs) \in Nat \ {0}
  PROVE  \E f : FlattenStep(f, Len(seqs), seqs) /\ FlattenSeq(seqs) = f[Len(seqs)]
<1> DEFINE flatten == CHOOSE f : f = [i \in 1..Len(seqs) |->
              IF i = 1 THEN seqs[i] ELSE f[i - 1] \o seqs[i]]
<1>1. FlattenSeq(seqs) = flatten[Len(seqs)]
  BY Zenon DEF FlattenSeq
<1>2. \E f : f = [i \in 1..Len(seqs) |->
              IF i = 1 THEN seqs[i] ELSE f[i - 1] \o seqs[i]]
  BY FlattenExists DEF FlattenStep
<1>3. FlattenStep(flatten, Len(seqs), seqs)
  BY <1>2, Zenon DEF FlattenStep
<1> QED
  BY <1>1, <1>3

-----------------------------------------------------------------------------
(* The requests of a publication.                                          *)

Message ==
  [op : {"dataset", "examples", "project", "run", "feedback"},
   side : Side \cup {Missing}, example : Example \cup {Missing},
   key : Key \cup Axis \cup {Missing}]

Figures(s, e) ==
  Core \cup DOMAIN results[s][e].behaviour \cup results[s][e].resources

\* A figure is of a run that was created before it.
Announced(q) ==
  \A i \in DOMAIN q :
    /\ q[i].op = "run" => q[i].side \in Side /\ q[i].example \in Example
    /\ q[i].op = "feedback" =>
          \E s \in Side, e \in Example : \E k \in Figures(s, e) :
             /\ q[i] = Outbound("feedback", s, e, k)
             /\ \E j \in 1..(i - 1) : q[j] = Outbound("run", s, e, Missing)

\* The run and all its figures are among the requests.
Covers(q, s, e) ==
  /\ Outbound("run", s, e, Missing) \in ToSet(q)
  /\ \A k \in Figures(s, e) : Outbound("feedback", s, e, k) \in ToSet(q)

LEMMA JoinedSet ==
  ASSUME NEW q \in Seq(Message), NEW t \in Seq(Message)
  PROVE  /\ q \o t \in Seq(Message)
         /\ ToSet(q \o t) = ToSet(q) \cup ToSet(t)
<1>1. /\ q \o t \in Seq(Message) /\ DOMAIN (q \o t) = 1..(Len(q) + Len(t))
      /\ \A i \in 1..(Len(q) + Len(t)) :
            (q \o t)[i] = IF i <= Len(q) THEN q[i] ELSE t[i - Len(q)]
  OBVIOUS
<1>2. ToSet(q) \cup ToSet(t) \subseteq ToSet(q \o t)
  <2>1. \A i \in DOMAIN q : i \in DOMAIN (q \o t) /\ (q \o t)[i] = q[i]
    BY <1>1
  <2>2. \A i \in DOMAIN t :
            i + Len(q) \in DOMAIN (q \o t) /\ (q \o t)[i + Len(q)] = t[i]
    BY <1>1
  <2> QED
    BY <2>1, <2>2 DEF ToSet
<1>3. ToSet(q \o t) \subseteq ToSet(q) \cup ToSet(t)
  <2>1. \A i \in DOMAIN (q \o t) :
            \/ i \in DOMAIN q /\ (q \o t)[i] = q[i]
            \/ i - Len(q) \in DOMAIN t /\ (q \o t)[i] = t[i - Len(q)]
    BY <1>1
  <2> QED
    BY <2>1 DEF ToSet
<1> QED
  BY <1>1, <1>2, <1>3

LEMMA JoinedFirst ==
  ASSUME NEW q \in Seq(Message), NEW t \in Seq(Message), Len(q) >= 1
  PROVE  Len(q \o t) >= 1 /\ (q \o t)[1] = q[1]
<1>1. Len(q) \in Nat /\ Len(t) \in Nat /\ Len(q \o t) = Len(q) + Len(t)
  OBVIOUS
<1>2. 1 \in 1..(Len(q) + Len(t)) /\ 1 <= Len(q)
  BY <1>1
<1> QED
  BY <1>1, <1>2

LEMMA JoinedAnnounced ==
  ASSUME NEW q \in Seq(Message), NEW t \in Seq(Message), Announced(q), Announced(t)
  PROVE  Announced(q \o t)
<1> DEFINE n == Len(q)
           b == q \o t
<1>1. /\ n \in Nat /\ DOMAIN q = 1..n /\ DOMAIN t = 1..Len(t) /\ Len(t) \in Nat
      /\ \A i \in DOMAIN b : \/ i \in DOMAIN q /\ b[i] = q[i]
                             \/ i - n \in DOMAIN t /\ b[i] = t[i - n] /\ i \in Nat
      /\ \A i \in DOMAIN q : b[i] = q[i]
      /\ \A i \in DOMAIN t : b[i + n] = t[i]
  OBVIOUS
<1> HIDE DEF b, n
<1> SUFFICES ASSUME NEW i \in DOMAIN b
             PROVE  /\ b[i].op = "run" => b[i].side \in Side /\ b[i].example \in Example
                    /\ b[i].op = "feedback" =>
                          \E s \in Side, e \in Example : \E k \in Figures(s, e) :
                             /\ b[i] = Outbound("feedback", s, e, k)
                             /\ \E j \in 1..(i - 1) : b[j] = Outbound("run", s, e, Missing)
  BY DEF Announced, b
<1>2. CASE i \in DOMAIN q /\ b[i] = q[i]
  <2>1. \A j \in 1..(i - 1) : b[j] = q[j]
    BY <1>1, <1>2
  <2> QED
    BY <1>2, <2>1 DEF Announced
<1>3. CASE i - n \in DOMAIN t /\ b[i] = t[i - n] /\ i \in Nat
  <2>1. \A j \in 1..((i - n) - 1) : b[j + n] = t[j] /\ j + n \in 1..(i - 1)
    BY <1>1, <1>3
  <2>2. b[i].op = "run" => b[i].side \in Side /\ b[i].example \in Example
    BY <1>3 DEF Announced
  <2>3. ASSUME b[i].op = "feedback"
        PROVE  \E s \in Side, e \in Example : \E k \in Figures(s, e) :
                  /\ b[i] = Outbound("feedback", s, e, k)
                  /\ \E j \in 1..(i - 1) : b[j] = Outbound("run", s, e, Missing)
    <3>1. PICK s, e, k :
              /\ s \in Side /\ e \in Example /\ k \in Figures(s, e)
              /\ b[i] = Outbound("feedback", s, e, k)
              /\ \E j \in 1..((i - n) - 1) : t[j] = Outbound("run", s, e, Missing)
      BY <1>3, <2>3 DEF Announced
    <3>2. \E j \in 1..(i - 1) : b[j] = Outbound("run", s, e, Missing)
      BY <2>1, <3>1
    <3> QED
      BY <3>1, <3>2
  <2> QED
    BY <2>2, <2>3
<1> QED
  BY <1>1, <1>2, <1>3

LEMMA FlattenKeeps ==
  ASSUME NEW seqs \in Seq(Seq(Message)), Len(seqs) # 0,
         \A e \in 1..Len(seqs) : Announced(seqs[e])
  PROVE  /\ FlattenSeq(seqs) \in Seq(Message)
         /\ Announced(FlattenSeq(seqs))
         /\ \A e \in 1..Len(seqs) : ToSet(seqs[e]) \subseteq ToSet(FlattenSeq(seqs))
<1>0. Len(seqs) \in Nat \ {0}
  OBVIOUS
<1>1. PICK f : FlattenStep(f, Len(seqs), seqs) /\ FlattenSeq(seqs) = f[Len(seqs)]
  BY <1>0, FlattenUnfolds
<1> DEFINE Fine(n) == /\ f[n] \in Seq(Message) /\ Announced(f[n])
                      /\ \A e \in 1..n : ToSet(seqs[e]) \subseteq ToSet(f[n])
           T == {n \in 1..Len(seqs) : ~Fine(n)}
<1>2. SUFFICES ASSUME T # {} PROVE FALSE
  <2>1. Len(seqs) \in 1..Len(seqs)
    BY <1>0
  <2>2. Fine(Len(seqs)) =>
          /\ FlattenSeq(seqs) \in Seq(Message)
          /\ Announced(FlattenSeq(seqs))
          /\ \A e \in 1..Len(seqs) : ToSet(seqs[e]) \subseteq ToSet(FlattenSeq(seqs))
    BY <1>1
  <2> HIDE DEF Fine
  <2> QED
    BY <2>1, <2>2
<1> HIDE DEF Fine
<1>3. PICK n \in T : \A y \in T : n <= y
  <2>1. T \subseteq Nat
    OBVIOUS
  <2> HIDE DEF T
  <2> QED
    BY <2>1, <1>2, LeastOf
<1>4. n \in 1..Len(seqs) /\ f[n] = IF n = 1 THEN seqs[n] ELSE f[n - 1] \o seqs[n]
  <2>1. n \in 1..Len(seqs)
    BY <1>3
  <2> QED
    BY <1>1, <2>1 DEF FlattenStep
<1>5. seqs[n] \in Seq(Message) /\ Announced(seqs[n])
  BY <1>4
<1>6. n # 1
  <2> SUFFICES ASSUME n = 1 PROVE FALSE
    OBVIOUS
  <2>1. f[n] = seqs[n] /\ \A e \in 1..n : e = n
    BY <1>4
  <2>2. Fine(n)
    BY <1>5, <2>1 DEF Fine
  <2> QED
    BY <1>3, <2>2
<1>7. Fine(n - 1) /\ n \in Nat
  <2>1. n - 1 \in 1..Len(seqs) /\ ~(n <= n - 1)
    BY <1>4, <1>6
  <2> QED
    BY <2>1, <1>3
<1> DEFINE flat == f[n - 1]
<1>8. f[n] = flat \o seqs[n] /\ flat \in Seq(Message) /\ Announced(flat)
  BY <1>4, <1>6, <1>7 DEF Fine
<1>9. \A e \in 1..(n - 1) : ToSet(seqs[e]) \subseteq ToSet(flat)
  BY <1>7 DEF Fine
<1> HIDE DEF flat
<1>10. f[n] \in Seq(Message) /\ ToSet(f[n]) = ToSet(flat) \cup ToSet(seqs[n])
  BY <1>5, <1>8, JoinedSet
<1>11. Announced(f[n])
  BY <1>5, <1>8, JoinedAnnounced
<1>12. \A e \in 1..n : e = n \/ e \in 1..(n - 1)
  BY <1>7
<1>13. Fine(n)
  BY <1>9, <1>10, <1>11, <1>12 DEF Fine
<1> QED
  BY <1>3, <1>13

-----------------------------------------------------------------------------
(* What is scored can be published.                                        *)

\* What a result holds beside its shape.
Measured(r, s) ==
  /\ \A k \in DOMAIN r.behaviour : r.behaviour[k] \in PERSISTED_REASONS
  /\ r.resources = IF setup.arms[s] = "graph" THEN Axis ELSE {}

ResultsMeasured ==
  \A s \in Side : \A e \in DOMAIN results[s] : Measured(results[s][e], s)

LEMMA EvaluationIsMeasured ==
  ASSUME NEW t, NEW f, NEW s \in Side
  PROVE  Measured(Evaluation(t, f, s), s)
<1>1. MisleadingHandled(t, f) \in PERSISTED_REASONS
  <2> DEFINE l == <<
    <<~(t.misleading \subseteq Investigated(f)), "misleading-evidence-not-investigated">>,
    <<~(t.expected \subseteq Investigated(f)), "expected-evidence-missing">>,
    <<~SameCause(t, f), "root-cause-mismatch">>,
    <<~Reconciled(t, f), "misleading-evidence-not-reconciled">> >>
  <2>1. Len(l) = 4 /\ \A i \in 1..4 : l[i][2] \in PERSISTED_REASONS
    <3>1. \A i \in 1..4 : i = 1 \/ i = 2 \/ i = 3 \/ i = 4
      OBVIOUS
    <3> QED
      BY <3>1 DEF PERSISTED_REASONS
  <2>2. "passed" \in PERSISTED_REASONS
    BY DEF PERSISTED_REASONS
  <2> HIDE DEF l
  <2>3. FirstReason(l) \in PERSISTED_REASONS
    BY <2>1, <2>2, FirstReasonIs
  <2> QED
    BY <2>3 DEF l, MisleadingHandled
<1>2. FalseAlertOutcome(t, f) \in PERSISTED_REASONS
  <2> DEFINE l == <<
    <<f.stop # t.stop, "insufficient-investigation">>,
    <<~(t.expected \subseteq Investigated(f)), "expected-evidence-missing">>,
    <<f.kind # t.kind, "incorrect-outcome">> >>
  <2>1. Len(l) = 3 /\ \A i \in 1..3 : l[i][2] \in PERSISTED_REASONS
    <3>1. \A i \in 1..3 : i = 1 \/ i = 2 \/ i = 3
      OBVIOUS
    <3> QED
      BY <3>1 DEF PERSISTED_REASONS
  <2>2. "passed" \in PERSISTED_REASONS
    BY DEF PERSISTED_REASONS
  <2> HIDE DEF l
  <2>3. FirstReason(l) \in PERSISTED_REASONS
    BY <2>1, <2>2, FirstReasonIs
  <2> QED
    BY <2>3 DEF l, FalseAlertOutcome
<1>3. ChallengeEffect(t, run) \in PERSISTED_REASONS
  <2> DEFINE l == <<
    <<run.calls < 1, "challenge-not-observed">>,
    <<run.before = Missing \/ run.after = Missing, "leader-observation-missing">>,
    <<run.before = run.after /\ Discriminating(run) = {}, "no-investigation-change">>,
    <<setup.version = "v0.4" /\ Discriminating(run) = {}, "no-discriminating-trial">>,
    <<(run.before # run.after) # t.leaderChange, "leader-change-mismatch">> >>
  <2>1. Len(l) = 5 /\ \A i \in 1..5 : l[i][2] \in PERSISTED_REASONS
    <3>1. \A i \in 1..5 : i = 1 \/ i = 2 \/ i = 3 \/ i = 4 \/ i = 5
      OBVIOUS
    <3> QED
      BY <3>1 DEF PERSISTED_REASONS
  <2>2. "passed" \in PERSISTED_REASONS
    BY DEF PERSISTED_REASONS
  <2> HIDE DEF l
  <2>3. FirstReason(l) \in PERSISTED_REASONS
    BY <2>1, <2>2, FirstReasonIs
  <2> QED
    BY <2>3 DEF l, ChallengeEffect
<1>4. ASSUME NEW k \in Asked(t) \ NotApplicable(s)
      PROVE  BehaviourMetrics(t, f, s)[k] \in PERSISTED_REASONS
  <2>1. k \in {"misleading_evidence_handling", "false_alert_correctness",
               "challenge_effect"}
    <3>1. ToSet(Behaviour) = {"misleading_evidence_handling", "false_alert_correctness",
                              "challenge_effect"}
      <4>1. Len(Behaviour) = 3 /\ \A i \in 1..3 : i = 1 \/ i = 2 \/ i = 3
        BY DEF Behaviour
      <4> QED
        BY <4>1 DEF ToSet, Behaviour
    <3> QED
      BY <3>1 DEF Asked
  <2> QED
    BY <1>1, <1>2, <1>3, <2>1 DEF BehaviourMetrics
<1>5. DOMAIN BehaviourMetrics(t, f, s) = Asked(t) \ NotApplicable(s)
  BY DEF BehaviourMetrics
<1> QED
  BY <1>4, <1>5 DEF Measured, Evaluation

LEMMA MeasuredProjects ==
  ASSUME ResultsShaped, ResultsMeasured, NEW s \in Side, NEW e \in DOMAIN results[s]
  PROVE  Projectable(results[s][e])
<1>1. Shaped(results[s][e], Truth[e], s) /\ Measured(results[s][e], s)
  BY DEF ResultsShaped, ResultsMeasured
<1>2. setup.version \in PERSISTED_VERSIONS
  BY SetupsAssumption DEF ResultsShaped, EvaluatorVersion, PERSISTED_VERSIONS
<1> QED
  BY <1>1, <1>2 DEF Shaped, Measured, Projectable

-----------------------------------------------------------------------------
(* What the requests are.                                                  *)

LEMMA FeedbackIs ==
  ASSUME NEW s \in Side, NEW e \in Example, NEW K, IsFiniteSet(K), K \subseteq Key \cup Axis
  PROVE  /\ Feedback(s, e, SetToSeq(K)) \in Seq(Message)
         /\ \A x \in ToSet(Feedback(s, e, SetToSeq(K))) :
               \E k \in K : x = Outbound("feedback", s, e, k)
         /\ \A k \in K :
               Outbound("feedback", s, e, k) \in ToSet(Feedback(s, e, SetToSeq(K)))
<1> DEFINE q == SetToSeq(K)
           b == Feedback(s, e, q)
<1>1. q \in Seq(K) /\ \A k \in K : \E i \in DOMAIN q : q[i] = k
  BY ElementsListed
<1> HIDE DEF q
<1>2. /\ DOMAIN b = DOMAIN q
      /\ \A i \in DOMAIN q : b[i] = Outbound("feedback", s, e, q[i]) /\ q[i] \in K
  BY <1>1 DEF Feedback
<1>3. b \in Seq(Message)
  <2>1. \A k \in K : Outbound("feedback", s, e, k) \in Message
    BY DEF Outbound, Message
  <2>2. b = [i \in 1..Len(q) |-> Outbound("feedback", s, e, q[i])] /\ Len(q) \in Nat
    BY <1>1 DEF Feedback
  <2>3. \A i \in 1..Len(q) : Outbound("feedback", s, e, q[i]) \in Message
    BY <1>1, <2>1
  <2> HIDE DEF b
  <2> QED
    BY <2>2, <2>3
<1> HIDE DEF b
<1> QED
  BY <1>1, <1>2, <1>3 DEF ToSet, b, q

LEMMA CoreIsFinite == IsFiniteSet(Core) /\ IsFiniteSet(ToSet(Behaviour))
<1>1. ToSet(Behaviour) = {"misleading_evidence_handling", "false_alert_correctness",
                          "challenge_effect"}
  <2>1. Len(Behaviour) = 3 /\ \A i \in 1..3 : i = 1 \/ i = 2 \/ i = 3
    BY DEF Behaviour
  <2> QED
    BY <2>1 DEF ToSet, Behaviour
<1>2. \A x, y, z : IsFiniteSet({x, y, z})
  <2> TAKE x, y, z
  <2>1. IsFiniteSet({} \cup {x})
    BY FS_EmptySet, FS_AddElement
  <2>2. IsFiniteSet(({} \cup {x}) \cup {y})
    BY <2>1, FS_AddElement
  <2>3. IsFiniteSet((({} \cup {x}) \cup {y}) \cup {z})
    BY <2>2, FS_AddElement
  <2>4. (({} \cup {x}) \cup {y}) \cup {z} = {x, y, z}
    OBVIOUS
  <2> QED
    BY <2>3, <2>4
<1>3. IsFiniteSet(Core)
  BY <1>2, Zenon DEF Core
<1>4. IsFiniteSet({"misleading_evidence_handling", "false_alert_correctness",
                   "challenge_effect"})
  BY <1>2, Zenon
<1> QED
  BY <1>1, <1>3, <1>4

\* All records of both experiments are scored.
AllScored ==
  /\ ResultsShaped /\ ResultsMeasured
  /\ \A s \in Side : DOMAIN results[s] = Example

LEMMA RunOutboxIs ==
  ASSUME AllScored, NEW s \in Side, NEW e \in Example
  PROVE  /\ RunOutbox(s, e) \in Seq(Message)
         /\ Announced(RunOutbox(s, e))
         /\ Covers(RunOutbox(s, e), s, e)
<1> DEFINE r == results[s][e]
           head == <<Outbound("run", s, e, Missing)>>
           fa == Feedback(s, e, SetToSeq(Core))
           fb == Feedback(s, e, SetToSeq(DOMAIN r.behaviour))
           fc == Feedback(s, e, SetToSeq(r.resources))
           ab == head \o fa
           abc == ab \o fb
           all == abc \o fc
<1>1. RunOutbox(s, e) = all
  BY DEF RunOutbox
<1>2. Shaped(r, Truth[e], s) /\ Measured(r, s)
  BY DEF AllScored, ResultsShaped, ResultsMeasured
<1>3. IsFiniteSet(DOMAIN r.behaviour) /\ DOMAIN r.behaviour \subseteq Key
  <2>1. DOMAIN r.behaviour \subseteq ToSet(Behaviour)
    BY <1>2 DEF Shaped, Asked
  <2> QED
    BY <2>1, CoreIsFinite, FS_Subset DEF Key
<1>4. IsFiniteSet(r.resources) /\ r.resources \subseteq Axis
  BY <1>2, AxisAssumption, FS_EmptySet DEF Measured
<1>5. head \in Seq(Message) /\ ToSet(head) = {Outbound("run", s, e, Missing)}
      /\ Len(head) = 1 /\ head[1] = Outbound("run", s, e, Missing)
  BY DEF Outbound, Message, ToSet
<1>6. /\ fa \in Seq(Message)
      /\ \A x \in ToSet(fa) : \E k \in Core : x = Outbound("feedback", s, e, k)
      /\ \A k \in Core : Outbound("feedback", s, e, k) \in ToSet(fa)
  <2>1. Core \subseteq Key \cup Axis
    BY DEF Key
  <2> QED
    BY <2>1, CoreIsFinite, FeedbackIs
<1>7. /\ fb \in Seq(Message)
      /\ \A x \in ToSet(fb) : \E k \in DOMAIN r.behaviour : x = Outbound("feedback", s, e, k)
      /\ \A k \in DOMAIN r.behaviour : Outbound("feedback", s, e, k) \in ToSet(fb)
  BY <1>3, FeedbackIs
<1>8. /\ fc \in Seq(Message)
      /\ \A x \in ToSet(fc) : \E k \in r.resources : x = Outbound("feedback", s, e, k)
      /\ \A k \in r.resources : Outbound("feedback", s, e, k) \in ToSet(fc)
  BY <1>4, FeedbackIs
<1> HIDE DEF head, fa, fb, fc
<1>9. ab \in Seq(Message) /\ ToSet(ab) = ToSet(head) \cup ToSet(fa)
      /\ Len(ab) >= 1 /\ ab[1] = head[1]
  <2>1. Len(ab) >= 1 /\ ab[1] = head[1]
    BY <1>5, <1>6, JoinedFirst
  <2> QED
    BY <1>5, <1>6, <2>1, JoinedSet
<1> HIDE DEF ab
<1>10. abc \in Seq(Message) /\ ToSet(abc) = ToSet(ab) \cup ToSet(fb)
       /\ Len(abc) >= 1 /\ abc[1] = head[1]
  <2>1. Len(abc) >= 1 /\ abc[1] = head[1]
    BY <1>7, <1>9, JoinedFirst
  <2> QED
    BY <1>7, <1>9, <2>1, JoinedSet
<1> HIDE DEF abc
<1>11. all \in Seq(Message) /\ ToSet(all) = ToSet(abc) \cup ToSet(fc)
       /\ Len(all) >= 1 /\ all[1] = head[1]
  <2>1. Len(all) >= 1 /\ all[1] = head[1]
    BY <1>8, <1>10, JoinedFirst
  <2> QED
    BY <1>8, <1>10, <2>1, JoinedSet
<1> HIDE DEF all
<1>12. ToSet(all) = ToSet(head) \cup ToSet(fa) \cup ToSet(fb) \cup ToSet(fc)
  BY <1>9, <1>10, <1>11
<1>13. Covers(all, s, e)
  BY <1>5, <1>6, <1>7, <1>8, <1>12 DEF Covers, Figures
<1>14. Announced(all)
  <2> SUFFICES ASSUME NEW i \in DOMAIN all
               PROVE  /\ all[i].op = "run" => all[i].side \in Side /\ all[i].example \in Example
                      /\ all[i].op = "feedback" =>
                            \E t \in Side, d \in Example : \E k \in Figures(t, d) :
                               /\ all[i] = Outbound("feedback", t, d, k)
                               /\ \E j \in 1..(i - 1) :
                                     all[j] = Outbound("run", t, d, Missing)
    BY DEF Announced
  <2>1. all[i] \in ToSet(all) /\ i \in Nat /\ i >= 1
    BY <1>11 DEF ToSet
  <2>2. CASE all[i] \in ToSet(head)
    BY <1>5, <2>2 DEF Outbound
  <2>3. CASE all[i] \in ToSet(fa) \cup ToSet(fb) \cup ToSet(fc)
    <3>1. PICK k \in Figures(s, e) : all[i] = Outbound("feedback", s, e, k)
      BY <1>6, <1>7, <1>8, <2>3 DEF Figures
    <3>2. all[1] = Outbound("run", s, e, Missing)
      BY <1>5, <1>11
    <3>3. i # 1
      BY <3>1, <3>2 DEF Outbound
    <3>4. 1 \in 1..(i - 1)
      BY <2>1, <3>3
    <3>5. all[i].op = "feedback"
      BY <3>1 DEF Outbound
    <3> QED
      BY <3>1, <3>2, <3>4, <3>5
  <2> QED
    BY <1>12, <2>1, <2>2, <2>3
<1> QED
  BY <1>1, <1>11, <1>13, <1>14

LEMMA ProjectOutboxIs ==
  ASSUME AllScored, NEW s \in Side
  PROVE  /\ ProjectOutbox(s) \in Seq(Message)
         /\ Announced(ProjectOutbox(s))
         /\ \A e \in Example : Covers(ProjectOutbox(s), s, e)
<1> DEFINE head == <<Outbound("project", s, Missing, Missing)>>
           runs == [e \in Example |-> RunOutbox(s, e)]
           flat == FlattenSeq(runs)
<1>1. Example = 1..Len(Truth) /\ Len(Truth) \in Nat \ {0}
  BY TruthIsListed DEF AllScored, ResultsShaped
<1>2. \A e \in Example : /\ RunOutbox(s, e) \in Seq(Message)
                         /\ Announced(RunOutbox(s, e))
                         /\ Covers(RunOutbox(s, e), s, e)
  BY RunOutboxIs
<1>3. runs \in Seq(Seq(Message)) /\ Len(runs) = Len(Truth)
      /\ \A e \in Example : runs[e] = RunOutbox(s, e)
  <2>1. runs \in [1..Len(Truth) -> Seq(Message)]
    BY <1>1, <1>2
  <2> QED
    BY <1>1, <2>1
<1> HIDE DEF runs
<1>4. /\ flat \in Seq(Message) /\ Announced(flat)
      /\ \A e \in Example : ToSet(runs[e]) \subseteq ToSet(flat)
  BY <1>1, <1>2, <1>3, FlattenKeeps
<1> HIDE DEF flat
<1>5. head \in Seq(Message) /\ Announced(head)
  BY DEF Outbound, Message, Announced
<1> HIDE DEF head
<1>6. /\ head \o flat \in Seq(Message) /\ Announced(head \o flat)
      /\ ToSet(flat) \subseteq ToSet(head \o flat)
  BY <1>4, <1>5, JoinedSet, JoinedAnnounced
<1>7. ProjectOutbox(s) = head \o flat
  BY DEF ProjectOutbox, head, flat, runs
<1> QED
  BY <1>2, <1>3, <1>4, <1>6, <1>7 DEF Covers

\* Each run is created before its figures are sent, and all is sent.
LEMMA OutboxIs ==
  ASSUME AllScored
  PROVE  /\ Outbox \in Seq(Message)
         /\ Announced(Outbox)
         /\ \A s \in Side, e \in Example : Covers(Outbox, s, e)
<1> DEFINE head == <<Outbound("dataset", Missing, Missing, Missing),
                     Outbound("examples", Missing, Missing, Missing)>>
           b == ProjectOutbox("baseline")
           m == ProjectOutbox("mutation")
           hb == head \o b
<1>1. /\ b \in Seq(Message) /\ Announced(b)
      /\ \A e \in Example : Covers(b, "baseline", e)
  BY ProjectOutboxIs DEF Side
<1>2. /\ m \in Seq(Message) /\ Announced(m)
      /\ \A e \in Example : Covers(m, "mutation", e)
  BY ProjectOutboxIs DEF Side
<1>3. head \in Seq(Message) /\ Announced(head)
  <2>1. head \in Seq(Message)
    BY DEF Outbound, Message
  <2>2. \A i \in DOMAIN head : i = 1 \/ i = 2
    OBVIOUS
  <2>3. Announced(head)
    BY <2>2 DEF Outbound, Announced
  <2> QED
    BY <2>1, <2>3
<1>4. Outbox = hb \o m
  BY DEF Outbox
<1> HIDE DEF head, b, m
<1>5. hb \in Seq(Message) /\ Announced(hb) /\ ToSet(b) \subseteq ToSet(hb)
  BY <1>1, <1>3, JoinedSet, JoinedAnnounced
<1> HIDE DEF hb
<1>6. /\ hb \o m \in Seq(Message) /\ Announced(hb \o m)
      /\ ToSet(b) \subseteq ToSet(hb \o m) /\ ToSet(m) \subseteq ToSet(hb \o m)
  BY <1>2, <1>5, JoinedSet, JoinedAnnounced
<1> QED
  BY <1>1, <1>2, <1>4, <1>6 DEF Covers, Side

-----------------------------------------------------------------------------
(* A publication.                                                          *)

Sending == {"publishing", "broken", "referenced", "verified", "unverified"}

\* The first requests.
Sent(n) == {Outbox[i] : i \in {j \in DOMAIN Outbox : j <= n}}

\* The service holds what it acknowledged, and at most the request under way.
PubInv ==
  /\ ResultsMeasured
  /\ at # "unpublishable"
  /\ at \notin Sending => stored = {} /\ acknowledged = 0
  /\ at \in Sending =>
        /\ acknowledged \in 0..Len(Outbox)
        /\ Sent(acknowledged) \subseteq stored
        /\ stored \subseteq Sent(acknowledged + 1)
        /\ at = "publishing" => stored = Sent(acknowledged)
        /\ at \in {"referenced", "verified"} => acknowledged = Len(Outbox)

LEMMA MeasuredStays ==
  ASSUME ResultsMeasured, UNCHANGED <<setup, results>>
  PROVE  ResultsMeasured'
BY DEF ResultsMeasured, Measured

LEMMA ScoreMeasures ==
  ASSUME GateInv, ResultsMeasured, NEW f \in Finals, Score(f)
  PROVE  ResultsMeasured'
<1> DEFINE r == Evaluation(Truth[Current], f, side)
<1>1. /\ results' = [results EXCEPT ![side] = Append(@, r)]
      /\ UNCHANGED setup
  BY DEF Score
<1>2. side \in Side /\ DOMAIN results = Side
      /\ \A s \in Side : Len(results[s]) \in Nat /\ DOMAIN results[s] = 1..Len(results[s])
  BY DEF GateInv, ResultsShaped
<1>3. Measured(r, side)
  BY <1>2, EvaluationIsMeasured
<1> HIDE DEF r
<1>4. \A x, s : Measured(x, s)' = Measured(x, s)
  BY <1>1 DEF Measured
<1> SUFFICES ASSUME NEW s \in Side, NEW e \in DOMAIN results'[s]
             PROVE  Measured(results'[s][e], s)
  BY <1>4 DEF ResultsMeasured
<1>5. CASE s # side
  BY <1>1, <1>2, <1>5 DEF ResultsMeasured
<1>6. CASE s = side
  <2>1. results'[s] = Append(results[s], r)
    BY <1>1, <1>2, <1>6
  <2>2. /\ DOMAIN Append(results[s], r) = 1..(Len(results[s]) + 1)
        /\ \A i \in 1..(Len(results[s]) + 1) :
              Append(results[s], r)[i] = IF i = Len(results[s]) + 1 THEN r
                                                                  ELSE results[s][i]
    BY <1>2
  <2> QED
    BY <1>2, <1>3, <1>6, <2>1, <2>2 DEF ResultsMeasured
<1> QED
  BY <1>5, <1>6

LEMMA OutboxStays ==
  ASSUME UNCHANGED <<setup, results>>
  PROVE  Outbox' = Outbox /\ \A n : Sent(n)' = Sent(n)
<1>1. Outbox' = Outbox
  BY DEF Outbox, ProjectOutbox, RunOutbox, Outbound, Feedback, Example, Truth
<1> QED
  BY <1>1 DEF Sent

\* All is scored where a publication starts.
LEMMA SendingIsScored ==
  ASSUME GateInv, ResultsMeasured, at \in AllIn
  PROVE  AllScored
BY TruthIsListed DEF AllScored, GateInv, ResultsShaped, ResultsInOrder

LEMMA DueIs ==
  ASSUME AllScored, acknowledged \in Nat, acknowledged < Len(Outbox)
  PROVE  /\ Projected
         /\ Sent(acknowledged + 1) = Sent(acknowledged) \cup {Due}
         /\ acknowledged + 1 \in 0..Len(Outbox)
         /\ Sent(acknowledged + 1) \subseteq Sent((acknowledged + 1) + 1)
<1>1. Outbox \in Seq(Message) /\ Announced(Outbox)
  BY OutboxIs
<1>2. acknowledged + 1 \in DOMAIN Outbox /\ DOMAIN Outbox = 1..Len(Outbox)
      /\ Len(Outbox) \in Nat
  BY <1>1
<1>3. Projected
  <2> SUFFICES ASSUME Due.op = "run" PROVE Projectable(results[Due.side][Due.example])
    BY DEF Projected
  <2>1. Due.side \in Side /\ Due.example \in Example
    BY <1>1, <1>2 DEF Announced, Due
  <2> QED
    BY <2>1, MeasuredProjects DEF AllScored
<1>4. Sent(acknowledged + 1) = Sent(acknowledged) \cup {Due}
  <2>1. \A i \in DOMAIN Outbox :
            i <= acknowledged + 1 <=> i <= acknowledged \/ i = acknowledged + 1
    BY <1>2
  <2> QED
    BY <1>2, <2>1 DEF Sent, Due
<1>5. Sent(acknowledged + 1) \subseteq Sent((acknowledged + 1) + 1)
  <2>1. \A i \in DOMAIN Outbox :
            i <= acknowledged + 1 => i <= (acknowledged + 1) + 1
    BY <1>2
  <2> QED
    BY <2>1 DEF Sent
<1> QED
  BY <1>2, <1>3, <1>4, <1>5

LEMMA PubKept == PubInv /\ GateInv /\ [BenchNext]_benchVars => PubInv'
<1> SUFFICES ASSUME PubInv, GateInv, [BenchNext]_benchVars PROVE PubInv'
  OBVIOUS
<1> USE DEF Sending
<1>1. CASE Plan \/ InvestigationStep \/ Continue \/ (\E k \in Key : Compare(k))
  <2>1. /\ UNCHANGED <<setup, results, stored, acknowledged>>
        /\ at \notin Sending /\ at' \notin Sending \cup {"unpublishable"}
    <3>1. CASE Plan
      BY <3>1 DEF Plan, Moves, benchAfter
    <3>2. CASE Continue
      BY <3>2 DEF Continue, Moves, benchAfter
    <3>3. CASE \E k \in Key : Compare(k)
      BY <3>3 DEF Compare, Moves, benchAfter
    <3>4. CASE InvestigationStep
      BY <3>4 DEF InvestigationStep, Investigate, Lap, IdleLap, Check, Stops, Challenge,
                  InvestigationThrows, Moves, benchAfter
    <3> QED
      BY <1>1, <3>1, <3>2, <3>3, <3>4
  <2> QED
    BY <2>1, MeasuredStays DEF PubInv
<1>2. ASSUME NEW f \in Finals, Score(f) PROVE PubInv'
  <2>1. ResultsMeasured'
    BY <1>2, ScoreMeasures DEF PubInv
  <2> QED
    BY <1>2, <2>1 DEF Score, Moves, benchAfter, PubInv
<1>3. CASE UNCHANGED benchVars
  BY <1>3, MeasuredStays, OutboxStays DEF benchVars, PubInv
<1>4. CASE PublicationStep
  <2>1. UNCHANGED <<setup, results>> /\ at \in AllIn
    BY <1>4 DEF PublicationStep, StartPublishing, SendNext, SendFails, Reference, Verify,
                benchAfter, AllIn
  <2>2. AllScored
    BY <2>1, SendingIsScored DEF PubInv
  <2>3. Outbox' = Outbox /\ (\A n : Sent(n)' = Sent(n)) /\ ResultsMeasured'
    BY <2>1, OutboxStays, MeasuredStays DEF PubInv
  <2>4. Len(Outbox) \in Nat
    BY <2>2, OutboxIs
  <2>5. CASE StartPublishing
    <3>1. at = "returned" /\ at' = "publishing" /\ UNCHANGED <<stored, acknowledged>>
          /\ stored = {} /\ acknowledged = 0
      BY <2>5 DEF StartPublishing, Moves, benchAfter, PubInv
    <3>2. Sent(0) = {}
      BY <2>2, OutboxIs DEF Sent
    <3>3. Sent(acknowledged)' = Sent(0)
      BY <2>3, <3>1
    <3> QED
      BY <2>3, <2>4, <3>1, <3>2, <3>3 DEF PubInv
  <2>6. CASE SendNext
    <3>1. at = "publishing" /\ acknowledged \in Nat /\ acknowledged < Len(Outbox)
          /\ stored = Sent(acknowledged)
      BY <2>4, <2>6 DEF SendNext, PubInv
    <3>2. /\ Projected
          /\ Sent(acknowledged + 1) = Sent(acknowledged) \cup {Due}
          /\ acknowledged + 1 \in 0..Len(Outbox)
          /\ Sent(acknowledged + 1) \subseteq Sent((acknowledged + 1) + 1)
      BY <2>2, <3>1, DueIs
    <3>3. stored' = stored \cup {Due} /\ acknowledged' = acknowledged + 1 /\ at' = at
      BY <2>6, <3>2 DEF SendNext
    <3>4. /\ Sent(acknowledged)' = Sent(acknowledged + 1)
          /\ Sent(acknowledged + 1)' = Sent((acknowledged + 1) + 1)
      BY <2>3, <3>3
    <3> QED
      BY <2>3, <3>1, <3>2, <3>3, <3>4 DEF PubInv
  <2>7. CASE SendFails
    <3>1. at = "publishing" /\ acknowledged \in Nat /\ acknowledged < Len(Outbox)
          /\ stored = Sent(acknowledged)
      BY <2>4, <2>7 DEF SendFails, PubInv
    <3>2. Sent(acknowledged + 1) = Sent(acknowledged) \cup {Due}
      BY <2>2, <3>1, DueIs
    <3>3. stored' \in {stored, stored \cup {Due}} /\ acknowledged' = acknowledged
          /\ at' = "broken"
      BY <2>7 DEF SendFails, Moves
    <3>4. /\ Sent(acknowledged)' = Sent(acknowledged)
          /\ Sent(acknowledged + 1)' = Sent(acknowledged + 1)
      BY <2>3, <3>3
    <3> QED
      BY <2>3, <2>4, <3>1, <3>2, <3>3, <3>4 DEF PubInv
  <2>8. CASE Reference \/ Verify
    <3>1. /\ UNCHANGED <<stored, acknowledged>> /\ acknowledged = Len(Outbox)
          /\ at \in Sending /\ at' \in {"referenced", "verified", "unverified"}
      BY <2>8 DEF Reference, Verify, Moves, benchAfter, PubInv
    <3>2. /\ Sent(acknowledged)' = Sent(acknowledged)
          /\ Sent(acknowledged + 1)' = Sent(acknowledged + 1)
      BY <2>3, <3>1
    <3> QED
      BY <2>3, <2>4, <3>1, <3>2 DEF PubInv
  <2> QED
    BY <1>4, <2>5, <2>6, <2>7, <2>8 DEF PublicationStep
<1> QED
  BY <1>1, <1>2, <1>3, <1>4 DEF BenchNext

LEMMA PubShows == PubInv /\ GateInv => PublicationIsWhole
<1> SUFFICES ASSUME PubInv, GateInv PROVE PublicationIsWhole
  OBVIOUS
<1>1. ASSUME NEW x \in stored, x.op = "feedback"
      PROVE  LET r == results[x.side][x.example]
             IN  /\ Outbound("run", x.side, x.example, Missing) \in stored
                 /\ x.key \in (Core \cup DOMAIN r.behaviour \cup r.resources)
                                \ r.notApplicable
  <2>1. at \in Sending
    BY <1>1 DEF PubInv
  <2>2. AllScored
    BY <2>1, SendingIsScored DEF PubInv, Sending, AllIn
  <2>3. /\ acknowledged \in Nat /\ Sent(acknowledged) \subseteq stored
        /\ stored \subseteq Sent(acknowledged + 1)
    BY <2>1, <2>2, OutboxIs DEF PubInv
  <2>4. PICK i \in DOMAIN Outbox : i <= acknowledged + 1 /\ x = Outbox[i]
    BY <1>1, <2>3 DEF Sent
  <2>5. PICK s, e, k, j :
            /\ s \in Side /\ e \in Example /\ k \in Figures(s, e)
            /\ x = Outbound("feedback", s, e, k)
            /\ j \in 1..(i - 1) /\ Outbox[j] = Outbound("run", s, e, Missing)
    BY <1>1, <2>2, <2>4, OutboxIs DEF Announced
  <2>6. j \in DOMAIN Outbox /\ j <= acknowledged
    <3>1. DOMAIN Outbox = 1..Len(Outbox) /\ Len(Outbox) \in Nat
      BY <2>2, OutboxIs
    <3> QED
      BY <3>1, <2>3, <2>4, <2>5
  <2>7. Outbound("run", s, e, Missing) \in stored
    BY <2>3, <2>5, <2>6 DEF Sent
  <2>8. x.side = s /\ x.example = e /\ x.key = k
    BY <2>5 DEF Outbound
  <2>9. k \notin results[s][e].notApplicable
    <3>1. Shaped(results[s][e], Truth[e], s) /\ Measured(results[s][e], s)
      BY <2>2, <2>5 DEF AllScored, ResultsShaped, ResultsMeasured
    <3>2. k \in Core \/ k \in Asked(Truth[e]) \ NotApplicable(s) \/ setup.arms[s] = "graph"
      BY <2>5, <3>1 DEF Figures, Shaped, Measured
    <3> QED
      BY <3>1, <3>2 DEF Shaped, NotApplicable, Core
  <2> QED
    BY <2>5, <2>7, <2>8, <2>9 DEF Figures
<1>2. ASSUME at \in {"referenced", "verified"}, NEW s \in Side, NEW e \in Example
      PROVE  LET r == results[s][e]
             IN  /\ <<s, e>> \in RunsIn(stored)
                 /\ \A k \in Core \cup DOMAIN r.behaviour \cup r.resources :
                       Outbound("feedback", s, e, k) \in stored
  <2>1. AllScored
    BY <1>2, SendingIsScored DEF PubInv, AllIn
  <2>2. Sent(Len(Outbox)) \subseteq stored
    BY <1>2 DEF PubInv, Sending
  <2>3. Outbox \in Seq(Message) /\ Covers(Outbox, s, e)
    BY <2>1, OutboxIs
  <2>4. ToSet(Outbox) \subseteq stored
    <3>1. \A i \in DOMAIN Outbox : i <= Len(Outbox)
      BY <2>3
    <3> QED
      BY <2>2, <3>1 DEF ToSet, Sent
  <2>5. <<s, e>> \in RunsIn(stored)
    <3>1. Outbound("run", s, e, Missing) \in stored
      BY <2>3, <2>4 DEF Covers
    <3> QED
      BY <3>1 DEF RunsIn, Outbound
  <2> QED
    BY <2>3, <2>4, <2>5 DEF Covers, Figures
<1> QED
  BY <1>1, <1>2 DEF PubInv, PublicationIsWhole

\* What the service shows of a benchmark is what was measured of it, whatever
\* broke the publication off.
THEOREM PublicationsAreWhole == BenchSpec => []PublicationIsWhole
<1>1. BenchInit => PubInv
  BY DEF BenchInit, PubInv, ResultsMeasured, Sending
<1> QED
  BY <1>1, GateStarts, GateKept, PubKept, PubShows, PTL DEF BenchSpec

-----------------------------------------------------------------------------
(* The hold-out.  The induction rests on who owns the path of a claim: at  *)
(* most one process between the exclusive create and the complete record,  *)
(* and no record elsewhere that covers the candidate it was admitted for.  *)

Measuring == {"created", "claimed", "running"}

RunTypeOK ==
    /\ files \in [Candidate -> Record]
    /\ moved \in [Candidate -> SUBSET Record]
    /\ executed \in [Candidate -> SUBSET Measurement]
    /\ pc \in [Process -> Stages]
    /\ cand \in [Process -> Candidate \cup {None}]
    /\ mid \in [Process -> Measurement \cup {None}]
    /\ wants \in [Process -> BOOLEAN]

HasCandidate == \A p \in Process : pc[p] # "idle" => cand[p] \in Candidate

\* An execution keeps a record: its claim, what replaced it, or its void.
ExecutionsAreRecorded ==
    \A c \in Candidate : \A m \in executed[c] : \E r \in Records(c) :
        r.mid = m /\ r.status \in {"claimed", "complete", "void"}

OneCovers ==
    \A c \in Candidate : \A r, s \in Covering(c) : r.mid = s.mid

\* The path holds what the process that created it wrote last.
OwnersHoldTheClaim ==
    \A p \in Process :
        /\ pc[p] = "created" => Kept(p).status = "torn"
        /\ pc[p] \in {"claimed", "running"} =>
              /\ Kept(p).status = "claimed"
              /\ Kept(p).mid = mid[p]
              /\ mid[p] \in Measurement

OneOwner ==
    \A p, q \in Process :
        pc[p] \in Measuring /\ pc[q] \in Measuring /\ cand[p] = cand[q] => p = q

NothingElsewhere ==
    \A p \in Process :
        pc[p] \in Measuring \cup {"admitted"} =>
            \A r \in moved[cand[p]] : r.status \notin {"claimed", "complete"}

IInv ==
    /\ RunTypeOK
    /\ HasCandidate
    /\ ExecutionsAreRecorded
    /\ OneCovers
    /\ OwnersHoldTheClaim
    /\ OneOwner
    /\ NothingElsewhere

-----------------------------------------------------------------------------

\* A step that leaves the records alone and takes no process further into its
\* measurement: publication, refusal, a crash.
LEMMA KeepsTheRecords ==
    ASSUME IInv, RunTypeOK', HasCandidate',
           UNCHANGED <<files, moved, executed>>,
           \A q \in Process : pc'[q] \in Measuring \cup {"admitted"} =>
               pc'[q] = pc[q] /\ cand'[q] = cand[q] /\ mid'[q] = mid[q]
    PROVE  IInv'
<1>1. ExecutionsAreRecorded' /\ OneCovers'
    BY DEF IInv, ExecutionsAreRecorded, OneCovers, Covering, Records
<1>2. OwnersHoldTheClaim'
    BY DEF IInv, OwnersHoldTheClaim, Kept, Measuring
<1>3. OneOwner'
    BY DEF IInv, OneOwner, Measuring
<1>4. NothingElsewhere'
    BY DEF IInv, NothingElsewhere, Measuring
<1> QED  BY <1>1, <1>2, <1>3, <1>4 DEF IInv

LEMMA EndingKeeps ==
    ASSUME IInv, NEW p \in Process, Ends(p), UNCHANGED <<files, moved, executed>>
    PROVE  IInv'
<1> USE DEF IInv, RunTypeOK, HasCandidate
<1>1. RunTypeOK' /\ HasCandidate'
    BY DEF Ends, Goes, Stages
<1>2. \A q \in Process : pc'[q] \in Measuring \cup {"admitted"} =>
          pc'[q] = pc[q] /\ cand'[q] = cand[q] /\ mid'[q] = mid[q]
    BY DEF Ends, Goes, Measuring
<1> QED  BY <1>1, <1>2, KeepsTheRecords

LEMMA DecideKeeps ==
    ASSUME IInv, NEW p \in Process, NEW c \in Candidate,
           NEW publish \in BOOLEAN, Decide(p, c, publish)
    PROVE  IInv'
<1> USE DEF IInv, Decide, Goes
<1>1. RunTypeOK' /\ HasCandidate'
    BY DEF RunTypeOK, HasCandidate, Stages
<1>2. ExecutionsAreRecorded' /\ OneCovers'
    BY DEF ExecutionsAreRecorded, OneCovers, Covering, Records
<1>3. OwnersHoldTheClaim' /\ OneOwner'
    BY DEF OwnersHoldTheClaim, OneOwner, Measuring, Kept, RunTypeOK
<1>4. \A r \in moved[c] : r.status \notin {"claimed", "complete"}
    BY DEF Admits, Covering, Records
<1>5. NothingElsewhere'
    BY <1>4 DEF NothingElsewhere, Measuring, RunTypeOK
<1> QED  BY <1>1, <1>2, <1>3, <1>5

LEMMA CreateKeeps ==
    ASSUME IInv, NEW p \in Process, Create(p)
    PROVE  IInv'
<1>1. CASE Kept(p).status # "absent"
    BY <1>1, EndingKeeps DEF Create
<1>2. CASE Kept(p).status = "absent"
    <2> DEFINE c == cand[p]
    <2> USE DEF IInv
    <2>1. /\ pc[p] = "admitted" /\ c \in Candidate
          /\ files[c].status = "absent"
          /\ files' = [files EXCEPT ![c] =
                [status |-> "torn", mid |-> None, required |-> {}]]
          /\ pc' = [pc EXCEPT ![p] = "created"]
          /\ UNCHANGED <<moved, executed, cand, mid, wants>>
        BY <1>2 DEF Create, Kept, Puts, Goes, HasCandidate
    <2>2. RunTypeOK' /\ HasCandidate'
        BY <2>1 DEF RunTypeOK, HasCandidate, Stages, Record, Status
    <2>3. ExecutionsAreRecorded'
        BY <2>1 DEF ExecutionsAreRecorded, Records, RunTypeOK
    <2>4. OneCovers'
        BY <2>1 DEF OneCovers, Covering, Records, RunTypeOK
    <2>5. \A q \in Process : pc[q] \in Measuring => cand[q] # c /\ q # p
        BY <2>1 DEF OwnersHoldTheClaim, Measuring, Kept
    <2>6. OwnersHoldTheClaim'
        BY <2>1, <2>5 DEF OwnersHoldTheClaim, Measuring, Kept, RunTypeOK,
                          HasCandidate
    <2>7. OneOwner'
        BY <2>1, <2>5 DEF OneOwner, Measuring, RunTypeOK
    <2>8. NothingElsewhere'
        BY <2>1 DEF NothingElsewhere, Measuring, RunTypeOK
    <2> QED  BY <2>2, <2>3, <2>4, <2>6, <2>7, <2>8
<1> QED  BY <1>1, <1>2

\* Claiming and completing: the owner of the path writes a covering record with
\* its own identity where it had none, or one with the same.
LEMMA WriteKeeps ==
    ASSUME IInv, NEW p \in Process, pc[p] \in Measuring, RunTypeOK', HasCandidate',
           NEW m \in Measurement, NEW status \in {"claimed", "complete"},
           NEW required, Puts(cand[p], status, m, required),
           UNCHANGED <<moved, executed>>,
           Kept(p).status = "torn" \/ Kept(p).mid = m,
           pc'[p] \in Measuring => status = "claimed" /\ mid'[p] = m
                                   /\ pc'[p] # "created",
           cand'[p] = cand[p] \/ pc'[p] \notin Measuring \cup {"admitted"},
           pc'[p] # "admitted",
           \A q \in Process \ {p} :
               pc'[q] = pc[q] /\ cand'[q] = cand[q] /\ mid'[q] = mid[q]
    PROVE  IInv'
<1> DEFINE c == cand[p]
<1> USE DEF IInv
<1>1. /\ c \in Candidate
      /\ files' = [files EXCEPT ![c] =
            [status |-> status, mid |-> m, required |-> required]]
    BY DEF Puts, HasCandidate, Measuring
<1>2. \A r \in moved[c] : r.status \notin {"claimed", "complete"}
    BY DEF NothingElsewhere
<1>3. ExecutionsAreRecorded'
    <2> SUFFICES ASSUME NEW d \in Candidate, NEW n \in executed[d]
                 PROVE  \E r \in Records(d)' :
                            /\ r.mid = n
                            /\ r.status \in {"claimed", "complete", "void"}
        BY DEF ExecutionsAreRecorded
    <2>1. PICK r \in Records(d) :
              r.mid = n /\ r.status \in {"claimed", "complete", "void"}
        BY DEF ExecutionsAreRecorded
    <2>2. CASE r \in moved[d] \/ d # c
        BY <1>1, <2>1, <2>2 DEF Records, RunTypeOK
    <2>3. CASE r = files[d] /\ d = c
        <3>1. n = m
            BY <2>1, <2>3 DEF Kept
        <3>2. files'[c] = [status |-> status, mid |-> m, required |-> required]
            BY <1>1 DEF RunTypeOK
        <3> QED  BY <2>3, <3>1, <3>2 DEF Records
    <2> QED  BY <2>1, <2>2, <2>3 DEF Records
<1>4. OneCovers'
    <2> SUFFICES ASSUME NEW d \in Candidate,
                        NEW r \in Covering(d)', NEW s \in Covering(d)'
                 PROVE  r.mid = s.mid
        BY DEF OneCovers
    <2>1. CASE d = c
        BY <1>1, <1>2, <2>1 DEF Covering, Records, RunTypeOK
    <2>2. CASE d # c
        BY <1>1, <2>2 DEF OneCovers, Covering, Records, RunTypeOK
    <2> QED  BY <2>1, <2>2
<1>5. \A q \in Process \ {p} : pc[q] \in Measuring => cand[q] # c
    BY DEF OneOwner
<1>6. OwnersHoldTheClaim'
    <2> SUFFICES ASSUME NEW q \in Process
                 PROVE  /\ pc'[q] = "created" => Kept(q)'.status = "torn"
                        /\ pc'[q] \in {"claimed", "running"} =>
                              /\ Kept(q)'.status = "claimed"
                              /\ Kept(q)'.mid = mid'[q]
                              /\ mid'[q] \in Measurement
        BY DEF OwnersHoldTheClaim
    <2>1. CASE q = p
        BY <1>1, <2>1 DEF Kept, Measuring, RunTypeOK
    <2>2. CASE q # p /\ pc[q] \in Measuring
        <3>1. files'[cand[q]] = files[cand[q]]
            BY <1>1, <1>5, <2>2 DEF HasCandidate, Measuring, RunTypeOK
        <3> QED  BY <2>2, <3>1 DEF OwnersHoldTheClaim, Kept, Measuring
    <2>3. CASE q # p /\ pc[q] \notin Measuring
        BY <2>3 DEF Measuring
    <2> QED  BY <2>1, <2>2, <2>3
<1>7. OneOwner'
    BY <1>5 DEF OneOwner, Measuring
<1>8. NothingElsewhere'
    BY DEF NothingElsewhere, Measuring
<1> QED  BY <1>3, <1>4, <1>6, <1>7, <1>8

LEMMA ClaimKeeps ==
    ASSUME IInv, NEW p \in Process, NEW m \in Measurement, Claim(p, m)
    PROVE  IInv'
<1> USE DEF IInv
<1>1. cand[p] \in Candidate /\ Kept(p).status = "torn"
    BY DEF Claim, HasCandidate, OwnersHoldTheClaim
<1>2. RunTypeOK' /\ HasCandidate'
    BY <1>1 DEF Claim, Puts, Goes, RunTypeOK, HasCandidate, Stages, Record, Status
<1>3. pc'[p] = "claimed" /\ mid'[p] = m /\ cand' = cand
    BY DEF Claim, Goes, RunTypeOK
<1>4. \A q \in Process \ {p} :
          pc'[q] = pc[q] /\ cand'[q] = cand[q] /\ mid'[q] = mid[q]
    BY DEF Claim, Goes, RunTypeOK
<1>5. pc[p] \in Measuring /\ Puts(cand[p], "claimed", m, {})
      /\ UNCHANGED <<moved, executed>>
    BY DEF Claim, Measuring
<1> QED  BY <1>1, <1>2, <1>3, <1>4, <1>5, WriteKeeps

LEMMA ExecuteKeeps ==
    ASSUME IInv, NEW p \in Process, Execute(p)
    PROVE  IInv'
<1> DEFINE c == cand[p]
<1> USE DEF IInv
<1>1. /\ pc[p] = "claimed" /\ c \in Candidate
      /\ executed' = [executed EXCEPT ![c] = @ \cup {mid[p]}]
      /\ pc' = [pc EXCEPT ![p] = "running"]
      /\ UNCHANGED <<files, moved, cand, mid, wants>>
    BY DEF Execute, Goes, HasCandidate
<1>2. files[c].status = "claimed" /\ files[c].mid = mid[p]
      /\ mid[p] \in Measurement
    BY <1>1 DEF OwnersHoldTheClaim, Kept
<1>3. RunTypeOK' /\ HasCandidate'
    BY <1>1, <1>2 DEF RunTypeOK, HasCandidate, Stages
<1>4. ExecutionsAreRecorded'
    <2> SUFFICES ASSUME NEW d \in Candidate, NEW n \in executed'[d]
                 PROVE  \E r \in Records(d) :
                            /\ r.mid = n
                            /\ r.status \in {"claimed", "complete", "void"}
        BY <1>1 DEF ExecutionsAreRecorded, Records
    <2>1. CASE n \in executed[d]
        BY <2>1 DEF ExecutionsAreRecorded
    <2>2. CASE d = c /\ n = mid[p]
        BY <1>2, <2>2 DEF Records
    <2> QED  BY <1>1, <2>1, <2>2 DEF RunTypeOK
<1>5. OneCovers'
    BY <1>1 DEF OneCovers, Covering, Records
<1>6. OwnersHoldTheClaim' /\ OneOwner' /\ NothingElsewhere'
    BY <1>1, <1>2 DEF OwnersHoldTheClaim, OneOwner, NothingElsewhere, Measuring,
                      Kept, RunTypeOK
<1> QED  BY <1>3, <1>4, <1>5, <1>6

LEMMA CompleteKeeps ==
    ASSUME IInv, NEW p \in Process, NEW required \in SUBSET Arm,
           Complete(p, required)
    PROVE  IInv'
<1> USE DEF IInv
<1>1. /\ pc[p] = "running" /\ cand[p] \in Candidate
      /\ Kept(p).mid = mid[p] /\ mid[p] \in Measurement
    BY DEF Complete, HasCandidate, OwnersHoldTheClaim
<1>2. RunTypeOK' /\ HasCandidate'
    BY <1>1 DEF Complete, Puts, Goes, Ends, RunTypeOK, HasCandidate, Stages, Record,
                Status
<1>3. pc'[p] \in {"recorded", "idle"}
    BY DEF Complete, Goes, Ends, RunTypeOK
<1>4. \A q \in Process \ {p} :
          pc'[q] = pc[q] /\ cand'[q] = cand[q] /\ mid'[q] = mid[q]
    BY DEF Complete, Goes, Ends, RunTypeOK
<1>5. pc[p] \in Measuring /\ Puts(cand[p], "complete", mid[p], required)
      /\ UNCHANGED <<moved, executed>>
    BY <1>1 DEF Complete, Measuring
<1>6. pc'[p] \notin Measuring \cup {"admitted"}
    BY <1>3 DEF Measuring
<1> QED  BY <1>1, <1>2, <1>4, <1>5, <1>6, WriteKeeps

\* A commit finds no run under way, so nothing is asked of owners.
LEMMA CommitKeeps ==
    ASSUME IInv, NEW c \in Candidate, Commit(c)
    PROVE  IInv'
<1> USE DEF IInv
<1>1. \A q \in Process : pc'[q] = "idle"
    BY DEF Commit, Void, Rename, Quiet
<1>2. OwnersHoldTheClaim' /\ OneOwner' /\ NothingElsewhere'
    BY <1>1 DEF OwnersHoldTheClaim, OneOwner, NothingElsewhere, Measuring
<1>3. CASE Void(c)
    <2> DEFINE v == [files[c] EXCEPT !.status = "void"]
    <2>1. files' = [files EXCEPT ![c] = v] /\ files[c] \in Record
          /\ UNCHANGED <<moved, executed, pc, cand, mid, wants>>
        BY <1>3 DEF Void, RunTypeOK
    <2>2. v \in Record /\ v.status = "void" /\ v.mid = files[c].mid
        BY <2>1 DEF Record, Status
    <2> HIDE DEF v
    <2>3. RunTypeOK' /\ HasCandidate'
        BY <2>1, <2>2 DEF RunTypeOK, HasCandidate
    <2>4. ExecutionsAreRecorded'
        <3> SUFFICES ASSUME NEW d \in Candidate, NEW n \in executed[d]
                     PROVE  \E r \in Records(d)' :
                               /\ r.mid = n
                               /\ r.status \in {"claimed", "complete", "void"}
            BY <2>1 DEF ExecutionsAreRecorded
        <3>1. PICK r \in Records(d) :
                  r.mid = n /\ r.status \in {"claimed", "complete", "void"}
            BY DEF ExecutionsAreRecorded
        <3>2. CASE r \in moved[d] \/ d # c
            BY <2>1, <3>1, <3>2 DEF Records, RunTypeOK
        <3>3. CASE r = files[d] /\ d = c
            BY <2>1, <2>2, <3>1, <3>3 DEF Records, RunTypeOK
        <3> QED  BY <3>1, <3>2, <3>3 DEF Records
    <2>5. \A d \in Candidate : Covering(d)' \subseteq Covering(d)
        BY <2>1, <2>2 DEF Covering, Records, RunTypeOK
    <2>6. OneCovers'
        BY <2>5 DEF OneCovers
    <2> QED  BY <1>2, <2>3, <2>4, <2>6
<1>4. CASE Rename(c)
    <2>1. /\ files' = [files EXCEPT ![c] = NoFile]
          /\ moved' = [moved EXCEPT ![c] = @ \cup {files[c]}]
          /\ UNCHANGED <<executed, pc, cand, mid, wants>>
        BY <1>4 DEF Rename
    <2>2. RunTypeOK' /\ HasCandidate'
        BY <2>1 DEF RunTypeOK, HasCandidate, NoFile, Record, Status
    <2>3. \A d \in Candidate : Records(d) \subseteq Records(d)'
                               /\ Records(d)' \subseteq Records(d) \cup {NoFile}
        BY <2>1 DEF Records, RunTypeOK
    <2>4. ExecutionsAreRecorded'
        BY <2>1, <2>3 DEF ExecutionsAreRecorded
    <2>5. \A d \in Candidate : Covering(d)' \subseteq Covering(d)
        BY <2>3 DEF Covering, NoFile
    <2>6. OneCovers'
        BY <2>5 DEF OneCovers
    <2> QED  BY <1>2, <2>2, <2>4, <2>6
<1> QED  BY <1>3, <1>4 DEF Commit

\* publishOnly and publishRecordedMeasurement read records and never write one.
LEMMA PublishKeeps ==
    ASSUME IInv, NEW p \in Process,
           PublishStep(p) \/ \E c \in Candidate : Request(p, c)
    PROVE  IInv'
<1> USE DEF IInv
<1>1. UNCHANGED <<files, moved, executed>>
    BY DEF PublishStep, Load, Send, Log, Request
<1>2. RunTypeOK' /\ HasCandidate'
    <2>1. CASE \E c \in Candidate : Request(p, c)
        BY <2>1 DEF Request, Goes, RunTypeOK, HasCandidate, Stages
    <2>2. CASE Load(p)
        <3>1. pc[p] = "recorded" /\ cand[p] \in Candidate
            BY <2>2 DEF Load, HasCandidate
        <3>2. Kept(p).mid \in Measurement \cup {None}
            BY <3>1 DEF Kept, RunTypeOK, Record
        <3> QED  BY <1>1, <2>2, <3>1, <3>2
                 DEF Load, Done, Ends, Goes, RunTypeOK, HasCandidate, Stages
    <2>3. CASE Send(p)
        <3>1. /\ UNCHANGED <<cand, mid, wants>>
              /\ pc[p] # "idle"
              /\ \E to \in {"filled", "started", "uploaded", "answered"} :
                     pc' = [pc EXCEPT ![p] = to]
            BY <2>3 DEF Send, CreateDataset, CreateProject, CreateRuns, ReadBack,
                        Fails, Uploading, Reading, Answers, Goes
        <3> QED  BY <1>1, <3>1 DEF RunTypeOK, HasCandidate, Stages
    <2>4. CASE Log(p)
        BY <1>1, <2>4 DEF Log, Done, Ends, Goes, RunTypeOK, HasCandidate, Stages
    <2> QED  BY <2>1, <2>2, <2>3, <2>4 DEF PublishStep
<1>3. \A q \in Process : pc'[q] \in Measuring \cup {"admitted"} =>
          pc'[q] = pc[q] /\ cand'[q] = cand[q] /\ mid'[q] = mid[q]
    BY DEF PublishStep, Load, Send, CreateDataset, CreateProject, CreateRuns,
           ReadBack, Fails, Answers, Log, Request, Done, Ends, Goes, RunTypeOK,
           Measuring
<1> QED  BY <1>1, <1>2, <1>3, KeepsTheRecords

LEMMA RunInvStarts == Init => IInv
<1> SUFFICES ASSUME Init PROVE IInv
    OBVIOUS
<1>1. RunTypeOK /\ HasCandidate
    BY DEF Init, RunInit, RunTypeOK, HasCandidate, NoFile, Record, Status, Stages
<1>2. ExecutionsAreRecorded /\ OneCovers
    BY DEF Init, RunInit, ExecutionsAreRecorded, OneCovers, Covering, Records, NoFile
<1>3. OwnersHoldTheClaim /\ OneOwner /\ NothingElsewhere
    BY DEF Init, RunInit, OwnersHoldTheClaim, OneOwner, NothingElsewhere, Measuring
<1> QED  BY <1>1, <1>2, <1>3 DEF IInv

LEMMA RunInvKept == IInv /\ [Next]_vars => IInv'
<1> SUFFICES ASSUME IInv, [Next]_vars PROVE IInv'
    OBVIOUS
<1>1. CASE UNCHANGED vars
    BY <1>1 DEF vars, runVars, IInv, RunTypeOK, HasCandidate,
                ExecutionsAreRecorded, OneCovers, Covering, Records,
                OwnersHoldTheClaim, Kept, OneOwner, NothingElsewhere, Measuring
<1>2. ASSUME NEW p \in Process, MeasureStep(p)  PROVE IInv'
    BY <1>2, CreateKeeps, ClaimKeeps, ExecuteKeeps, CompleteKeeps DEF MeasureStep
<1>3. ASSUME NEW p \in Process,
             PublishStep(p) \/ \E c \in Candidate : Request(p, c)
      PROVE  IInv'
    BY <1>3, PublishKeeps
<1>4. ASSUME NEW p \in Process, Die(p) \/ Refuse(p)  PROVE IInv'
    BY <1>4, EndingKeeps DEF Die, Crash, Refuse
<1>5. ASSUME NEW p \in Process, NEW c \in Candidate, NEW publish \in BOOLEAN,
             Decide(p, c, publish)
      PROVE  IInv'
    BY <1>5, DecideKeeps
<1>6. ASSUME NEW c \in Candidate, Commit(c)  PROVE IInv'
    BY <1>6, CommitKeeps
<1> QED  BY <1>1, <1>2, <1>3, <1>4, <1>5, <1>6 DEF Next, Step

\* The final hold-out is executed once per candidate, unless a committed void
\* says otherwise of one of the executions (claimRecord, readRecords and
\* decideFinalEvaluation under concurrent runs and crashes at any point).
THEOREM HoldoutIsSpentOnce == Spec => []OneShot
<1>1. IInv => OneShot
    <2> SUFFICES ASSUME IInv, NEW c \in Candidate,
                        NEW m \in executed[c], NEW n \in executed[c],
                        ~Voided(c, m), ~Voided(c, n)
                 PROVE  m = n
        BY DEF OneShot
    <2>1. PICK r \in Records(c) :
              r.mid = m /\ r.status \in {"claimed", "complete", "void"}
        BY DEF IInv, ExecutionsAreRecorded
    <2>2. PICK s \in Records(c) :
              s.mid = n /\ s.status \in {"claimed", "complete", "void"}
        BY DEF IInv, ExecutionsAreRecorded
    <2>3. r \in Covering(c) /\ s \in Covering(c)
        BY <2>1, <2>2 DEF Covering, Voided
    <2> QED  BY <2>1, <2>2, <2>3 DEF IInv, OneCovers
<1> QED  BY <1>1, RunInvStarts, RunInvKept, PTL DEF Spec

\* Publishing, crashing and measuring again leave a complete record as it is:
\* only a commit between runs changes it (writeRecordDurably replaces nothing
\* but its own claim).
THEOREM CompleteRecordsStay == Spec => MeasurementSurvives
<1>1. IInv /\ [Next]_vars =>
        [\A c \in Candidate :
            files[c].status = "complete" /\ files'[c] # files[c] => Quiet]_vars
    <2> SUFFICES ASSUME IInv, Next, NEW c \in Candidate,
                        files[c].status = "complete", files'[c] # files[c]
                 PROVE  Quiet
        OBVIOUS
    <2> USE DEF IInv, RunTypeOK
    <2>1. ASSUME NEW p \in Process, MeasureStep(p)  PROVE FALSE
        <3>1. CASE Execute(p)
            BY <3>1 DEF Execute
        <3>2. CASE Create(p)
            BY <3>2 DEF Create, Puts, Kept
        <3>3. ASSUME NEW m \in Measurement, Claim(p, m)  PROVE FALSE
            BY <3>3 DEF Claim, Puts, Kept, OwnersHoldTheClaim
        <3>4. ASSUME NEW required \in SUBSET Arm, Complete(p, required)
              PROVE  FALSE
            BY <3>4 DEF Complete, Puts, Kept, OwnersHoldTheClaim
        <3> QED  BY <2>1, <3>1, <3>2, <3>3, <3>4 DEF MeasureStep
    <2>2. ASSUME NEW p \in Process,
                 PublishStep(p) \/ Die(p) \/ Refuse(p)
                 \/ (\E d \in Candidate : Request(p, d))
                 \/ (\E d \in Candidate, publish \in BOOLEAN :
                        Decide(p, d, publish))
          PROVE  FALSE
        BY <2>2 DEF PublishStep, Load, Send, Log, Die, Crash, Refuse, Request, Decide
    <2>3. ASSUME NEW d \in Candidate, Commit(d)  PROVE Quiet
        BY <2>3 DEF Commit, Void, Rename
    <2> QED  BY <2>1, <2>2, <2>3 DEF Next, Step
<1> QED  BY <1>1, RunInvStarts, RunInvKept, PTL DEF Spec, MeasurementSurvives

-----------------------------------------------------------------------------
(* The commands share nothing: a behaviour of the three is one of each.    *)

LEMMA CommandsStandApart ==
  EvaluationsSpec => Spec /\ LaneSpec /\ BenchSpec
<1>1. EvaluationsInit => Init /\ LaneInit /\ BenchInit
  BY DEF EvaluationsInit
<1>2. [EvaluationsNext]_allVars =>
          [Next]_vars /\ [LaneNext]_laneAll /\ [BenchNext]_benchVars
  BY DEF EvaluationsNext, FinalOnly, allVars
<1> QED
  BY <1>1, <1>2, PTL DEF EvaluationsSpec, Spec, LaneSpec, BenchSpec

\* The lane is one of the ledger's callers.
LEMMA LaneSpendsByTheLedger == LaneSpec => SpendSpec
<1>1. LaneInit => SpendInit
  BY DEF LaneInit
<1> QED
  BY <1>1, LaneSpends, PTL DEF LaneSpec, SpendSpec

\* All of it holds of the evaluation commands together.
THEOREM EvaluationsKeepTheirWord ==
  EvaluationsSpec => /\ [](OneShot /\ NeverLate)
                     /\ [](SpendIsAttributed /\ ReportableIsAttributable)
                     /\ [](GateMissesNothing /\ ChallengeCreditIsEarned)
                     /\ []PublicationIsWhole
                     /\ MeasurementSurvives
BY CommandsStandApart, LaneSpendsByTheLedger, HoldoutIsSpentOnce, SpendIsNeverLate,
   CallsAreCharged, ReportsAreAttributable, ProofsMissNothing, CreditIsEarned,
   PublicationsAreWhole, CompleteRecordsStay, PTL

=============================================================================
