--------------------------- MODULE DurableRunProofs ---------------------------
(***************************************************************************)
(* Proofs about DurableRun, for every set of runs, workers, keys, calls    *)
(* and every attempt bound.                                                *)
(***************************************************************************)
EXTENDS DurableRun, TLAPS

\* What a call's record holds at each point of its life.
CallShape ==
    \A s \in Call :
        /\ call[s].pc # "unused" => call[s].claim \in Claim
        /\ (call[s].pc # "unused" /\ call[s].op = "committed") =>
               call[s].key \in Key /\ call[s].input \in Input
        /\ call[s].pc \in {"peeking", "computing", "committing"} =>
               call[s].op = "committed"
        /\ call[s].pc = "closing" => call[s].op \in CloseOp
        /\ call[s].pc = "committing" => call[s].value \in Result

TypeInv == TypeOK /\ CallShape

\* Nothing is stored, claimed or called yet.
LEMMA InitType == Init => TypeInv
  BY AttemptsAssumption DEF Init, TypeInv, TypeOK, CallShape, Status,
       CallState, NoCall, Pc, InTxPc, Op, CloseOp, Terminal

\* The actions that leave the calls alone: the store's statements, the clock,
\* retention and corruption of a stored text.
LEMMA StoreType ==
  ASSUME TypeInv,
         \/ \E r \in Run : RunStep(r)
         \/ \E w \in Worker : ClaimNext(w)
         \/ SweepExpired
         \/ \E c \in claims : LeaseStep(c)
  PROVE  TypeInv'
<1> USE DEF TypeInv, TypeOK
<1>1. call' = call => CallShape'
  BY DEF CallShape
<1>2. ASSUME NEW r \in Run, CreateRun(r) PROVE TypeInv'
  BY <1>1, <1>2 DEF CreateRun, Status
<1>3. ASSUME NEW r \in Run, NEW w \in Worker, status[r] = "queued",
             Claimed(r, w) \/ Exhausted(r),
             UNCHANGED <<created, renewing, results, events, rejections, call>>
      PROVE  TypeInv'
  <2>1. CASE Claimed(r, w)
    <3>1. attempt[r] + 1 \in 1..MaxExecutionAttempts
      BY <2>1, AttemptsAssumption DEF Claimed
    <3>2. claims' \in SUBSET Claim
      BY <2>1, <3>1 DEF Claimed, Claim
    <3>3. QED
      BY <1>1, <1>3, <2>1, <3>1, <3>2 DEF Claimed, Status
  <2>2. CASE Exhausted(r)
    BY <1>1, <1>3, <2>2 DEF Exhausted, Status, Terminal
  <2>3. QED
    BY <1>3, <2>1, <2>2
<1>4. ASSUME NEW r \in Run, NEW w \in Worker, ClaimRun(r, w) PROVE TypeInv'
  BY <1>3, <1>4 DEF ClaimRun
<1>5. ASSUME NEW w \in Worker, ClaimNext(w) PROVE TypeInv'
  BY <1>3, <1>5 DEF ClaimNext, OldestQueued
<1>6. ASSUME SweepExpired PROVE TypeInv'
  BY <1>1, <1>6 DEF SweepExpired, Status
<1>7. ASSUME NEW c \in claims, LeaseStep(c) PROVE TypeInv'
  BY <1>1, <1>7 DEF LeaseStep, RenewLease, RenewBlocks, RenewResumes, runVars,
                    Claim
<1>8. ASSUME NEW r \in Run, LeaseExpires(r) PROVE TypeInv'
  BY <1>1, <1>8 DEF LeaseExpires
<1>9. ASSUME NEW r \in Run, PruneTerminalRun(r) PROVE TypeInv'
  BY <1>1, <1>9 DEF PruneTerminalRun, runVars
<1>10. ASSUME NEW r \in Run, NEW k \in Key, StoredTextCorrupts(r, k)
       PROVE  TypeInv'
  <2>1. results[r][k] \in NodeResult
    BY <1>10 DEF StoredTextCorrupts
  <2>2. [results[r][k] EXCEPT !.intact = FALSE] \in NodeResult
    BY <2>1 DEF NodeResult
  <2>3. QED
    BY <1>1, <1>10, <2>2 DEF StoredTextCorrupts, runVars
<1>11. QED
  BY <1>2, <1>4, <1>5, <1>6, <1>7, <1>8, <1>9, <1>10 DEF RunStep

\* What a call's record must be for the call to take a step: an update of one
\* call keeps CallShape if the new record keeps it.
LEMMA CallUpdate ==
  ASSUME TypeInv, NEW s \in Call, NEW rec \in CallState,
         call' = [call EXCEPT ![s] = rec],
         rec.pc # "unused" => rec.claim \in Claim,
         (rec.pc # "unused" /\ rec.op = "committed") =>
             rec.key \in Key /\ rec.input \in Input,
         rec.pc \in {"peeking", "computing", "committing"} =>
             rec.op = "committed",
         rec.pc = "closing" => rec.op \in CloseOp,
         rec.pc = "committing" => rec.value \in Result
  PROVE  CallShape' /\ (call \in [Call -> CallState])'
  BY DEF TypeInv, TypeOK, CallShape

\* A call that only moves to an end point keeps its shape.
LEMMA CallEnds ==
  ASSUME TypeInv, NEW s \in Call, NEW pc \in Pc,
         pc \notin {"unused", "peeking", "computing", "committing", "closing"},
         call[s].pc # "unused",
         Becomes(s, pc) \/ \E v \in Result : pc = "returned" /\ Answers(s, v)
  PROVE  CallShape' /\ (call \in [Call -> CallState])'
<1>1. call[s] \in CallState
  BY DEF TypeInv, TypeOK
<1>2. /\ call[s].claim \in Claim
      /\ call[s].op = "committed" =>
           call[s].key \in Key /\ call[s].input \in Input
  BY DEF TypeInv, CallShape
<1>3. CASE Becomes(s, pc)
  <2> DEFINE rec == [call[s] EXCEPT !.pc = pc]
  <2>1. rec \in CallState /\ rec.pc = pc /\ rec.claim = call[s].claim
        /\ rec.op = call[s].op /\ rec.key = call[s].key
        /\ rec.input = call[s].input
    BY <1>1 DEF CallState
  <2>2. call' = [call EXCEPT ![s] = rec]
    BY <1>3 DEF Becomes
  <2> HIDE DEF rec
  <2>3. QED
    BY <1>2, <2>1, <2>2, CallUpdate
<1>4. ASSUME NEW v \in Result, pc = "returned", Answers(s, v)
      PROVE  CallShape' /\ (call \in [Call -> CallState])'
  <2> DEFINE rec == [call[s] EXCEPT !.pc = "returned", !.value = v]
  <2>1. rec \in CallState /\ rec.pc = "returned" /\ rec.claim = call[s].claim
        /\ rec.op = call[s].op /\ rec.key = call[s].key
        /\ rec.input = call[s].input
    BY <1>1, <1>4 DEF CallState
  <2>2. call' = [call EXCEPT ![s] = rec]
    BY <1>4 DEF Answers
  <2> HIDE DEF rec
  <2>3. QED
    BY <1>2, <2>1, <2>2, CallUpdate
<1>5. QED
  BY <1>3, <1>4

\* What Becomes and Answers leave of the calls.
LEMMA CallFrame ==
  ASSUME TypeInv, NEW s \in Call, NEW pc,
         Becomes(s, pc) \/ \E v : pc = "returned" /\ Answers(s, v)
  PROVE  /\ call'[s].pc = pc
         /\ call'[s].claim = call[s].claim
         /\ call'[s].op = call[s].op
         /\ call'[s].key = call[s].key
         /\ call'[s].input = call[s].input
         /\ Becomes(s, pc) => call'[s].value = call[s].value
         /\ \A t \in Call \ {s} : call'[t] = call[t]
  BY DEF TypeInv, TypeOK, CallState, Becomes, Answers

\* An appended event is an event, and its log stays a sequence of them.
LEMMA AppendType ==
  ASSUME TypeInv, NEW s \in Call, NEW type \in EventType,
         call[s].claim \in Claim, Appended(s, type)
  PROVE  (events \in [Run -> Seq(Event)])'
<1> DEFINE e == [type |-> type, attempt |-> call[s].claim.attempt]
<1>1. e \in Event
  BY DEF Event, Claim
<1>2. events[call[s].claim.run] \in Seq(Event)
  BY DEF TypeInv, TypeOK, Claim
<1>3. Append(events[call[s].claim.run], e) \in Seq(Event)
  BY <1>1, <1>2
<1>4. QED
  BY <1>3 DEF Appended, TypeInv, TypeOK

\* The steps of one API call.
LEMMA CallType ==
  ASSUME TypeInv, NEW s \in Call, CallStep(s)
  PROVE  TypeInv'
<1> USE DEF TypeInv
<1>1. /\ call[s].pc # "unused" => call[s].claim \in Claim
      /\ call[s] \in CallState
      /\ call[s].op = "committed" /\ call[s].pc # "unused" =>
           call[s].key \in Key /\ call[s].input \in Input
      /\ call[s].pc \in {"peeking", "computing", "committing"} =>
           call[s].op = "committed"
      /\ call[s].pc = "closing" => call[s].op \in CloseOp
      /\ call[s].pc = "committing" => call[s].value \in Result
  BY DEF TypeOK, CallShape
<1>2. call[s].pc \in {"peeking", "committing"} =>
        Row(s) \in NodeResult \cup {None}
  BY <1>1 DEF TypeOK, Row, Claim
<1>3. Row(s) \in NodeResult => Row(s).value \in Result
  BY DEF NodeResult
<1>4. {"returned", "violated", "aborted", "stale", "unrecorded"} \subseteq Pc
  BY DEF Pc
<1>5. CASE PeekMiss(s)
  <2>1. [call[s] EXCEPT !.pc = "computing"] \in CallState
    BY <1>1 DEF CallState, Pc
  <2>2. call' = [call EXCEPT ![s] = [call[s] EXCEPT !.pc = "computing"]]
    BY <1>5 DEF PeekMiss, Becomes
  <2>3. CallShape' /\ (call \in [Call -> CallState])'
    BY <1>1, <1>5, <2>1, <2>2, CallUpdate DEF PeekMiss, CallState
  <2>4. QED
    BY <1>5, <2>3 DEF PeekMiss, TypeOK, runVars
<1>6. CASE PeekReuse(s)
  <2>1. CallShape' /\ (call \in [Call -> CallState])'
    BY <1>2, <1>3, <1>4, <1>6, CallEnds DEF PeekReuse
  <2>2. (events \in [Run -> Seq(Event)])'
    BY <1>1, <1>6, AppendType DEF PeekReuse, EventType
  <2>3. QED
    BY <1>6, <2>1, <2>2 DEF PeekReuse, TypeOK, runVars
<1>7. CASE PeekViolation(s) \/ CommitViolation(s)
  <2>1. CallShape' /\ (call \in [Call -> CallState])'
    BY <1>4, <1>7, CallEnds DEF PeekViolation, CommitViolation
  <2>2. (events \in [Run -> Seq(Event)])'
    BY <1>1, <1>7, AppendType DEF PeekViolation, CommitViolation, EventType
  <2>3. QED
    BY <1>7, <2>1, <2>2 DEF PeekViolation, CommitViolation, TypeOK, runVars
<1>8. CASE CommitWins(s)
  <2>1. CallShape' /\ (call \in [Call -> CallState])'
    BY <1>1, <1>4, <1>8, CallEnds DEF CommitWins
  <2>2. (events \in [Run -> Seq(Event)])'
    BY <1>1, <1>8, AppendType DEF CommitWins, EventType
  <2> DEFINE row == [input |-> call[s].input, value |-> call[s].value,
                     by |-> call[s].claim.attempt, intact |-> TRUE]
  <2>3. row \in NodeResult
    BY <1>1, <1>8 DEF CommitWins, NodeResult, Claim
  <2>4. results' = [results EXCEPT ![call[s].claim.run][call[s].key] = row]
    BY <1>8 DEF CommitWins
  <2> HIDE DEF row
  <2>5. (results \in [Run -> [Key -> NodeResult \cup {None}]])'
    BY <2>3, <2>4 DEF TypeOK
  <2>6. QED
    BY <1>8, <2>1, <2>2, <2>5 DEF CommitWins, TypeOK, runVars
<1>9. CASE CommitAgrees(s)
  <2>1. CallShape' /\ (call \in [Call -> CallState])'
    BY <1>2, <1>3, <1>4, <1>9, CallEnds DEF CommitAgrees
  <2>2. QED
    BY <1>9, <2>1 DEF CommitAgrees, TypeOK, runVars
<1>10. CASE CloseRun(s)
  <2>1. CallShape' /\ (call \in [Call -> CallState])'
    BY <1>4, <1>10, CallEnds DEF CloseRun
  <2>2. (events \in [Run -> Seq(Event)])'
    BY <1>1, <1>10, AppendType DEF CloseRun, CloseOp, EventType
  <2>3. call[s].op \in Status
    BY <1>1, <1>10 DEF CloseRun, CloseOp, Status, Terminal
  <2>4. QED
    BY <1>1, <1>10, <2>1, <2>2, <2>3 DEF CloseRun, TypeOK
<1>11. CASE \/ RollBack(s) \/ DeadlockAborts(s) \/ ComputeFails(s)
            \/ RecordFails(s)
  <2>1. CallShape' /\ (call \in [Call -> CallState])'
    BY <1>4, <1>11, CallEnds DEF RollBack, DeadlockAborts, ComputeFails,
         RecordFails, InTx, InTxPc
  <2>2. QED
    BY <1>11, <2>1 DEF RollBack, DeadlockAborts, ComputeFails, RecordFails,
         TypeOK, runVars
<1>12. CASE RecordRejection(s)
  <2>1. CallShape' /\ (call \in [Call -> CallState])'
    BY <1>4, <1>12, CallEnds DEF RecordRejection
  <2>2. [claim |-> call[s].claim, kind |-> call[s].op] \in Rejection
    BY <1>1, <1>12 DEF RecordRejection, Rejection, CallState
  <2>3. QED
    BY <1>12, <2>1, <2>2 DEF RecordRejection, TypeOK, runVars
<1>13. ASSUME NEW c \in claims, NEW k \in Key, NEW i \in Input,
              BeginCommitted(s, c, k, i)
       PROVE  TypeInv'
  <2> DEFINE rec == [pc |-> IF Fence(c) THEN "peeking" ELSE "refused",
                     op |-> "committed", claim |-> c, key |-> k, input |-> i,
                     value |-> None]
  <2>1. c \in Claim
    BY DEF TypeOK
  <2>2. rec \in CallState
    BY <2>1 DEF CallState, Pc, InTxPc, Op
  <2>3. CallShape' /\ (call \in [Call -> CallState])'
    BY <1>13, <2>1, <2>2, CallUpdate DEF BeginCommitted
  <2>4. QED
    BY <1>13, <2>3 DEF BeginCommitted, TypeOK, runVars
<1>14. ASSUME NEW c \in claims, NEW op \in CloseOp, BeginClose(s, c, op)
       PROVE  TypeInv'
  <2> DEFINE rec == [pc |-> IF Fence(c) THEN "closing" ELSE "refused",
                     op |-> op, claim |-> c, key |-> None, input |-> None,
                     value |-> None]
  <2>1. c \in Claim
    BY DEF TypeOK
  <2>2. rec \in CallState
    BY <2>1 DEF CallState, Pc, InTxPc, Op
  <2>3. op # "committed"
    BY DEF CloseOp
  <2>4. CallShape' /\ (call \in [Call -> CallState])'
    BY <1>14, <2>1, <2>2, <2>3, CallUpdate DEF BeginClose
  <2>5. QED
    BY <1>14, <2>4 DEF BeginClose, TypeOK, runVars
<1>15. ASSUME NEW v \in Result, Computed(s, v) PROVE TypeInv'
  <2> DEFINE rec == [call[s] EXCEPT
                       !.pc = IF Fence(call[s].claim) THEN "committing"
                                                      ELSE "refused",
                       !.value = v]
  <2>1. /\ rec \in CallState /\ rec.claim = call[s].claim
        /\ rec.op = call[s].op /\ rec.key = call[s].key
        /\ rec.input = call[s].input /\ rec.value = v
        /\ rec.pc \in {"committing", "refused"}
    BY <1>1 DEF CallState, Pc, InTxPc
  <2>2. call' = [call EXCEPT ![s] = rec]
    BY <1>15 DEF Computed
  <2> HIDE DEF rec
  <2>3. CallShape' /\ (call \in [Call -> CallState])'
    BY <1>1, <1>15, <2>1, <2>2, CallUpdate DEF Computed
  <2>4. QED
    BY <1>15, <2>3 DEF Computed, TypeOK, runVars
<1>16. QED
  BY <1>5, <1>6, <1>7, <1>8, <1>9, <1>10, <1>11, <1>12, <1>13, <1>14, <1>15
     DEF CallStep, TxStep, TxEnds

\* Every step keeps the types and the shape of every call.
LEMMA NextType == TypeInv /\ [Next]_vars => TypeInv'
<1>1. ASSUME TypeInv, UNCHANGED vars PROVE TypeInv'
  BY <1>1 DEF vars, runVars, TypeInv, TypeOK, CallShape
<1>2. QED
  BY <1>1, StoreType, CallType DEF Next

\* Every column and every in-memory call keeps its type.
THEOREM TypeCorrect == Spec => []TypeOK
<1>1. Spec => []TypeInv
  BY InitType, NextType, PTL DEF Spec
<1>2. TypeInv => TypeOK
  BY DEF TypeInv
<1>3. QED
  BY <1>1, <1>2, PTL

-----------------------------------------------------------------------------
(* The fence holds from BEGIN to COMMIT. *)

FenceInv == TypeInv /\ FenceHeld

\* Statements that leave the calls alone never take a locked run from its
\* owner: a claim finds only queued runs and a sweep skips locked ones.
LEMMA StoreKeepsFence ==
  ASSUME FenceInv,
         \/ \E r \in Run : RunStep(r)
         \/ \E w \in Worker : ClaimNext(w)
         \/ SweepExpired
         \/ \E c \in claims : LeaseStep(c)
  PROVE  FenceHeld'
<1> SUFFICES ASSUME NEW s \in Call, InTx(s)'
             PROVE  LET c == call[s].claim IN
                    (/\ status[c.run] = "running"
                     /\ owner[c.run] = c.worker
                     /\ attempt[c.run] = c.attempt)'
  BY DEF FenceHeld
<1> DEFINE c == call[s].claim
<1> USE DEF FenceInv
<1>1. call' = call
  BY DEF RunStep, CreateRun, ClaimRun, LeaseExpires, PruneTerminalRun,
         StoredTextCorrupts, ClaimNext, SweepExpired, LeaseStep, RenewLease,
         RenewBlocks, RenewResumes
<1>2. /\ InTx(s) /\ c.run \in Run
      /\ status[c.run] = "running"
      /\ owner[c.run] = c.worker
      /\ attempt[c.run] = c.attempt
  BY <1>1 DEF FenceHeld, InTx, TypeInv, CallShape, Claim, InTxPc
<1>3. c.run \notin Sweepable
  BY <1>2 DEF Sweepable, Locked, Holds
<1>4. CASE SweepExpired
  BY <1>1, <1>2, <1>3, <1>4 DEF SweepExpired
<1>5. ASSUME NEW r \in Run, NEW w \in Worker, status[r] = "queued",
             Claimed(r, w) \/ Exhausted(r)
      PROVE  /\ status'[c.run] = status[c.run]
             /\ owner'[c.run] = owner[c.run]
             /\ attempt'[c.run] = attempt[c.run]
  BY <1>2, <1>5 DEF Claimed, Exhausted, TypeInv, TypeOK
<1>6. ASSUME NEW r \in Run, RunStep(r)
      PROVE  /\ status'[c.run] = status[c.run]
             /\ owner'[c.run] = owner[c.run]
             /\ attempt'[c.run] = attempt[c.run]
  BY <1>2, <1>5, <1>6 DEF RunStep, CreateRun, ClaimRun, LeaseExpires,
         PruneTerminalRun, StoredTextCorrupts, runVars, TypeInv, TypeOK
<1>7. ASSUME NEW w \in Worker, ClaimNext(w)
      PROVE  /\ status'[c.run] = status[c.run]
             /\ owner'[c.run] = owner[c.run]
             /\ attempt'[c.run] = attempt[c.run]
  BY <1>5, <1>7 DEF ClaimNext, OldestQueued
<1>8. ASSUME NEW d \in claims, LeaseStep(d)
      PROVE  /\ status'[c.run] = status[c.run]
             /\ owner'[c.run] = owner[c.run]
             /\ attempt'[c.run] = attempt[c.run]
  BY <1>8 DEF LeaseStep, RenewLease, RenewBlocks, RenewResumes, runVars
<1>9. QED
  BY <1>1, <1>2, <1>4, <1>6, <1>7, <1>8

\* A call opens a transaction only through the fence, and a close waits for
\* every other transaction of the run.
LEMMA CallKeepsFence ==
  ASSUME FenceInv, NEW s \in Call, CallStep(s)
  PROVE  FenceHeld'
<1> SUFFICES ASSUME NEW t \in Call, InTx(t)'
             PROVE  LET c == call[t].claim IN
                    (/\ status[c.run] = "running"
                     /\ owner[c.run] = c.worker
                     /\ attempt[c.run] = c.attempt)'
  BY DEF FenceHeld
<1> USE DEF FenceInv
<1>1. call \in [Call -> CallState]
  BY DEF TypeInv, TypeOK
<1>2. CASE TxStep(s)
  <2>1. t # s
    BY <1>2, CallFrame DEF TxStep, TxEnds, PeekMiss, PeekReuse, PeekViolation,
         CommitWins, CommitAgrees, CommitViolation, CloseRun, RollBack,
         DeadlockAborts, InTx, InTxPc
  <2>2. call'[t] = call[t]
    BY <1>2, <2>1, CallFrame DEF TxStep, TxEnds, PeekMiss, PeekReuse,
         PeekViolation, CommitWins, CommitAgrees, CommitViolation, CloseRun,
         RollBack, DeadlockAborts
  <2>3. /\ InTx(t)
        /\ status[call[t].claim.run] = "running"
        /\ owner[call[t].claim.run] = call[t].claim.worker
        /\ attempt[call[t].claim.run] = call[t].claim.attempt
    BY <2>2 DEF FenceHeld, InTx
  <2>4. CASE CloseRun(s)
    <3>1. call[t].claim.run # call[s].claim.run
      BY <2>1, <2>3, <2>4 DEF CloseRun, Holds
    <3>2. QED
      BY <2>2, <2>3, <2>4, <3>1 DEF CloseRun, TypeInv, TypeOK
  <2>5. CASE ~CloseRun(s)
    BY <1>2, <2>2, <2>3, <2>5 DEF TxStep, TxEnds, PeekMiss, PeekReuse,
         PeekViolation, CommitWins, CommitAgrees, CommitViolation, RollBack,
         DeadlockAborts, runVars
  <2>6. QED
    BY <2>4, <2>5
<1>3. CASE ComputeFails(s) \/ RecordRejection(s) \/ RecordFails(s)
  <2>1. t # s /\ call'[t] = call[t]
    BY <1>3, CallFrame DEF ComputeFails, RecordRejection, RecordFails, InTx,
                           InTxPc
  <2>2. QED
    BY <1>3, <2>1 DEF ComputeFails, RecordRejection, RecordFails, InTx,
                      FenceHeld, runVars
<1>4. ASSUME NEW c \in claims, NEW k \in Key, NEW i \in Input,
             BeginCommitted(s, c, k, i)
      PROVE  LET d == call[t].claim IN
                    (/\ status[d.run] = "running"
                     /\ owner[d.run] = d.worker
                     /\ attempt[d.run] = d.attempt)'
  BY <1>1, <1>4 DEF BeginCommitted, Fence, InTx, InTxPc, FenceHeld, runVars
<1>5. ASSUME NEW c \in claims, NEW op \in CloseOp, BeginClose(s, c, op)
      PROVE  LET d == call[t].claim IN
                    (/\ status[d.run] = "running"
                     /\ owner[d.run] = d.worker
                     /\ attempt[d.run] = d.attempt)'
  BY <1>1, <1>5 DEF BeginClose, Fence, InTx, InTxPc, FenceHeld, runVars
<1>6. ASSUME NEW v \in Result, Computed(s, v)
      PROVE  LET d == call[t].claim IN
                    (/\ status[d.run] = "running"
                     /\ owner[d.run] = d.worker
                     /\ attempt[d.run] = d.attempt)'
  <2>1. call'[t].claim = call[t].claim
    BY <1>1, <1>6 DEF Computed, CallState
  <2>2. t # s => call'[t] = call[t]
    BY <1>1, <1>6 DEF Computed
  <2>3. t = s => Fence(call[t].claim)
    BY <1>1, <1>6 DEF Computed, InTx, InTxPc, CallState
  <2>4. QED
    BY <1>6, <2>1, <2>2, <2>3 DEF Computed, Fence, InTx, FenceHeld, runVars
<1>7. QED
  BY <1>2, <1>3, <1>4, <1>5, <1>6 DEF CallStep

\* The types and the held fence together are inductive.
LEMMA FenceInvariance == Spec => []FenceInv
<1>1. Init => FenceInv
  BY InitType DEF FenceInv, FenceHeld, Init, InTx, InTxPc, NoCall
<1>2. FenceInv /\ [Next]_vars => FenceInv'
  <2>1. ASSUME FenceInv, UNCHANGED vars PROVE FenceHeld'
    BY <2>1 DEF FenceInv, FenceHeld, InTx, vars, runVars
  <2>2. QED
    BY <2>1, NextType, StoreKeepsFence, CallKeepsFence DEF FenceInv, Next
<1>3. QED
  BY <1>1, <1>2, PTL DEF Spec

\* An open fenced transaction is always the current owner's: no takeover comes
\* between a fence and its COMMIT.
THEOREM FenceIsHeld == Spec => []FenceHeld
<1>1. FenceInv => FenceHeld
  BY DEF FenceInv
<1>2. QED
  BY <1>1, FenceInvariance, PTL

-----------------------------------------------------------------------------
(* run_events. *)

\* The strengthening EventsInOrder needs: no event is from a later attempt
\* than the row's, and only a closed run has a closing event.
EventsBelow ==
    \A r \in Run : \A i \in DOMAIN events[r] :
        /\ events[r][i].attempt <= attempt[r]
        /\ status[r] \notin CloseOp => events[r][i].type \notin CloseOp

EventInv == EventsInOrder /\ EventsBelow

\* An entry of a run's log carries a number as its attempt.
LEMMA EventTyped ==
  ASSUME FenceInv, NEW r \in Run, NEW i \in DOMAIN events[r]
  PROVE  events[r][i] \in Event /\ events[r][i].attempt \in Nat
<1>1. events[r] \in Seq(Event)
  BY DEF FenceInv, TypeInv, TypeOK
<1>2. events[r][i] \in Event
  BY <1>1
<1>3. QED
  BY <1>2, AttemptsAssumption DEF Event

\* Appending to a running run's events, by its current owner, keeps them in
\* order; a closing event closes the run in the same transaction.
LEMMA AppendInOrder ==
  ASSUME FenceInv, EventInv, NEW s \in Call, InTx(s), NEW type \in EventType,
         Appended(s, type), attempt' = attempt,
         IF type \in CloseOp
         THEN status' = [status EXCEPT ![call[s].claim.run] = type]
         ELSE status' = status
  PROVE  EventInv'
<1> DEFINE c == call[s].claim
           e == [type |-> type, attempt |-> c.attempt]
<1>1. /\ c.run \in Run /\ c.attempt \in Nat
      /\ status[c.run] = "running"
      /\ attempt[c.run] = c.attempt
  BY DEF FenceInv, FenceHeld, TypeInv, CallShape, InTx, InTxPc, Claim
<1>2. /\ status \in [Run -> Status] /\ attempt \in [Run -> Nat]
      /\ events \in [Run -> Seq(Event)]
  BY AttemptsAssumption DEF FenceInv, TypeInv, TypeOK
<1>3. \A r \in Run : \A i \in DOMAIN events[r] :
        events[r][i].attempt \in Nat /\ events[r][i] \in Event
  BY EventTyped
<1>4. status[c.run] \notin CloseOp
  BY <1>1 DEF CloseOp
<1>5. events' = [events EXCEPT ![c.run] = Append(@, e)]
  BY DEF Appended
<1>6. /\ DOMAIN events'[c.run] = 1..(Len(events[c.run]) + 1)
      /\ DOMAIN events[c.run] = 1..Len(events[c.run])
      /\ Len(events[c.run]) \in Nat
      /\ \A i \in 1..Len(events[c.run]) : events'[c.run][i] = events[c.run][i]
      /\ events'[c.run][Len(events[c.run]) + 1] = e
  BY <1>1, <1>2, <1>5
<1>7. \A r \in Run \ {c.run} : events'[r] = events[r]
  BY <1>2, <1>5
<1>8. \A r \in Run \ {c.run} : status'[r] = status[r]
  BY <1>2
<1>9. \A i \in DOMAIN events[c.run] :
        /\ events[c.run][i].attempt <= c.attempt
        /\ events[c.run][i].type \notin CloseOp
  BY <1>1, <1>4 DEF EventInv, EventsBelow
<1>10. EventsInOrder'
  <2> SUFFICES ASSUME NEW r \in Run,
                      NEW i \in DOMAIN events'[r], NEW j \in DOMAIN events'[r],
                      i < j
               PROVE  /\ events'[r][i].attempt <= events'[r][j].attempt
                      /\ events'[r][i].type \notin CloseOp
    BY DEF EventsInOrder
  <2>1. CASE r # c.run
    BY <1>7, <2>1 DEF EventInv, EventsInOrder
  <2>2. CASE r = c.run
    <3>1. i \in 1..Len(events[c.run])
      BY <1>6, <2>2
    <3>2. CASE j \in 1..Len(events[c.run])
      BY <1>1, <1>6, <2>2, <3>1, <3>2 DEF EventInv, EventsInOrder
    <3>3. CASE j = Len(events[c.run]) + 1
      <4>1. events'[c.run][i] = events[c.run][i] /\ events'[c.run][j] = e
        BY <1>6, <3>1, <3>3
      <4>2. i \in DOMAIN events[c.run]
        BY <1>6, <3>1
      <4>3. QED
        BY <1>9, <2>2, <4>1, <4>2
    <3>4. QED
      BY <1>6, <2>2, <3>2, <3>3
  <2>3. QED
    BY <2>1, <2>2
<1>11. EventsBelow'
  <2> SUFFICES ASSUME NEW r \in Run, NEW i \in DOMAIN events'[r]
               PROVE  /\ events'[r][i].attempt <= attempt'[r]
                      /\ status'[r] \notin CloseOp =>
                           events'[r][i].type \notin CloseOp
    BY DEF EventsBelow
  <2>1. CASE r # c.run
    BY <1>7, <1>8, <2>1 DEF EventInv, EventsBelow
  <2>2. CASE r = c.run
    <3>1. \/ i \in DOMAIN events[c.run] /\ events'[r][i] = events[c.run][i]
          \/ events'[r][i] = e
      <4>1. i \in 1..(Len(events[c.run]) + 1)
        BY <1>6, <2>2
      <4>2. CASE i \in 1..Len(events[c.run])
        BY <1>6, <2>2, <4>2
      <4>3. CASE i = Len(events[c.run]) + 1
        BY <1>6, <2>2, <4>3
      <4>4. QED
        BY <1>6, <4>1, <4>2, <4>3
    <3>2. events'[r][i].attempt <= attempt'[r]
      <4>1. attempt'[r] = c.attempt
        BY <1>1, <2>2
      <4>2. events'[r][i].attempt <= c.attempt
        BY <1>1, <1>9, <3>1
      <4>3. QED
        BY <4>1, <4>2
    <3>3. events'[r][i].type \in CloseOp => type \in CloseOp
      BY <1>9, <3>1
    <3>4. type \in CloseOp => status'[r] \in CloseOp
      BY <1>1, <1>2, <2>2
    <3>5. QED
      BY <3>2, <3>3, <3>4
  <2>3. QED
    BY <2>1, <2>2
<1>12. QED
  BY <1>10, <1>11 DEF EventInv

\* Statements that append nothing keep the order: attempts only grow, and no
\* statement reopens a closed run.
LEMMA NoAppendInOrder ==
  ASSUME FenceInv, EventInv, events' = events, FenceInv',
         \A r \in Run : attempt[r] <= attempt'[r],
         \A r \in Run : status[r] \in CloseOp => status'[r] \in CloseOp
  PROVE  EventInv'
<1>1. \A r \in Run : attempt[r] \in Nat /\ attempt'[r] \in Nat
  BY AttemptsAssumption DEF FenceInv, TypeInv, TypeOK
<1>2. \A r \in Run : \A i \in DOMAIN events[r] : events[r][i].attempt \in Nat
  BY EventTyped
<1>3. EventsInOrder'
  BY DEF EventInv, EventsInOrder
<1>4. EventsBelow'
  BY <1>1, <1>2 DEF EventInv, EventsBelow
<1>5. QED
  BY <1>3, <1>4 DEF EventInv

\* Every step keeps the log in order and below the run's attempt.
LEMMA EventStep ==
  ASSUME FenceInv, EventInv, [Next]_vars, FenceInv'
  PROVE  EventInv'
<1>1. ASSUME NEW s \in Call,
             \/ PeekReuse(s) \/ PeekViolation(s)
             \/ CommitWins(s) \/ CommitViolation(s)
      PROVE  EventInv'
  BY <1>1, AppendInOrder DEF PeekReuse, PeekViolation, CommitWins,
       CommitViolation, runVars, InTx, InTxPc, EventType, CloseOp
<1>2. ASSUME NEW s \in Call, CloseRun(s)
      PROVE  EventInv'
  <2>1. InTx(s) /\ call[s].op \in CloseOp
    BY <1>2 DEF CloseRun, InTx, InTxPc, FenceInv, TypeInv, CallShape
  <2>2. call[s].op \in EventType
    BY <2>1 DEF CloseOp, EventType
  <2>3. QED
    BY <1>2, <2>1, <2>2, AppendInOrder DEF CloseRun
<1>3. \A r \in Run : attempt[r] \in Nat
  BY AttemptsAssumption DEF FenceInv, TypeInv, TypeOK
<1>4. ASSUME NEW s \in Call, CallStep(s),
             ~(\/ PeekReuse(s) \/ PeekViolation(s)
               \/ CommitWins(s) \/ CommitViolation(s) \/ CloseRun(s))
      PROVE  EventInv'
  <2>1. events' = events /\ attempt' = attempt /\ status' = status
    BY <1>4 DEF CallStep, TxStep, TxEnds, PeekMiss, CommitAgrees, RollBack,
         DeadlockAborts, BeginCommitted, BeginClose, Computed, ComputeFails,
         RecordRejection, RecordFails, runVars
  <2>2. QED
    BY <1>3, <2>1, NoAppendInOrder
<1>5. ASSUME NEW r \in Run, NEW w \in Worker, status[r] = "queued",
             Claimed(r, w) \/ Exhausted(r)
      PROVE  /\ \A q \in Run : attempt[q] <= attempt'[q]
             /\ \A q \in Run : status[q] \in CloseOp => status'[q] \in CloseOp
  <2>1. /\ status \in [Run -> Status]
        /\ attempt \in [Run -> 0..MaxExecutionAttempts]
    BY DEF FenceInv, TypeInv, TypeOK
  <2>2. CASE Claimed(r, w)
    <3>1. \A q \in Run : attempt'[q] = IF q = r THEN attempt[q] + 1
                                                ELSE attempt[q]
      BY <2>1, <2>2 DEF Claimed
    <3>2. \A q \in Run : q # r => status'[q] = status[q]
      BY <2>1, <2>2 DEF Claimed
    <3>3. QED
      BY <1>3, <1>5, <3>1, <3>2 DEF CloseOp
  <2>3. CASE Exhausted(r)
    BY <1>3, <1>5, <2>1, <2>3 DEF Exhausted, CloseOp
  <2>4. QED
    BY <1>5, <2>2, <2>3
<1>6. ASSUME NEW r \in Run, RunStep(r) PROVE EventInv'
  <2>1. CASE \E w \in Worker : ClaimRun(r, w)
    BY <1>5, <2>1, NoAppendInOrder DEF ClaimRun
  <2>2. CASE CreateRun(r)
    BY <1>3, <2>2, NoAppendInOrder DEF CreateRun, CloseOp, FenceInv, TypeInv,
                                       TypeOK
  <2>3. CASE LeaseExpires(r) \/ PruneTerminalRun(r)
             \/ \E k \in Key : StoredTextCorrupts(r, k)
    BY <1>3, <2>3, NoAppendInOrder DEF LeaseExpires, PruneTerminalRun,
         StoredTextCorrupts, runVars
  <2>4. QED
    BY <1>6, <2>1, <2>2, <2>3 DEF RunStep
<1>7. ASSUME NEW w \in Worker, ClaimNext(w) PROVE EventInv'
  BY <1>5, <1>7, NoAppendInOrder DEF ClaimNext, OldestQueued
<1>8. CASE SweepExpired
  BY <1>3, <1>8, NoAppendInOrder DEF SweepExpired, Sweepable, CloseOp
<1>9. ASSUME NEW c \in claims, LeaseStep(c) PROVE EventInv'
  BY <1>3, <1>9, NoAppendInOrder DEF LeaseStep, RenewLease, RenewBlocks,
       RenewResumes, runVars
<1>10. CASE UNCHANGED vars
  BY <1>3, <1>10, NoAppendInOrder DEF vars, runVars
<1>11. QED
  BY <1>1, <1>2, <1>4, <1>6, <1>7, <1>8, <1>9, <1>10 DEF Next

\* A superseded attempt never writes an event after its successor, and nothing
\* is written after the closing event.
THEOREM EventsAreInOrder == Spec => []EventsInOrder
<1>1. Init => EventInv
  BY DEF Init, EventInv, EventsInOrder, EventsBelow
<1>2. Spec => []EventInv
  <2>1. FenceInv /\ FenceInv' /\ EventInv /\ [Next]_vars => EventInv'
    BY EventStep
  <2>2. QED
    BY <1>1, <2>1, FenceInvariance, PTL DEF Spec
<1>3. EventInv => EventsInOrder
  BY DEF EventInv
<1>4. QED
  BY <1>2, <1>3, PTL

-----------------------------------------------------------------------------
(* execution_attempt, recovery_count and the bound. *)

RecoveryInv == TypeInv /\ FenceHeld /\ RecoveryAccounting

\* The counters of r agree, in the state after the step.
Counted(r) == /\ status[r] \in {"absent", "queued"} => attempt[r] = recovery[r]
              /\ status[r] \in {"running", "waiting_human", "completed"} =>
                     attempt[r] = recovery[r] + 1
              /\ status[r] = "failed" =>
                     IF reason[r] = "recovery_exhausted"
                     THEN attempt[r] = recovery[r]
                          /\ attempt[r] = MaxExecutionAttempts
                     ELSE attempt[r] = recovery[r] + 1

\* Every step keeps the two counters in agreement with the status.
LEMMA RecoveryStep ==
  ASSUME RecoveryInv, [Next]_vars
  PROVE  RecoveryAccounting'
<1> SUFFICES ASSUME NEW q \in Run PROVE Counted(q)'
  BY DEF RecoveryAccounting, Counted
<1>1. /\ status \in [Run -> Status]
      /\ reason \in [Run -> {None, "recovery_exhausted", "given"}]
      /\ attempt \in [Run -> 0..MaxExecutionAttempts]
      /\ recovery \in [Run -> Nat]
      /\ Counted(q)
  BY DEF RecoveryInv, TypeInv, TypeOK, RecoveryAccounting, Counted
<1>2. attempt[q] \in Nat /\ attempt[q] <= MaxExecutionAttempts
      /\ recovery[q] \in Nat /\ MaxExecutionAttempts \in Nat
  BY <1>1, AttemptsAssumption
<1>3. CASE UNCHANGED runVars
  BY <1>1, <1>3 DEF Counted, runVars
<1>4. ASSUME NEW r \in Run, NEW w \in Worker, status[r] = "queued",
             Claimed(r, w) \/ Exhausted(r)
      PROVE  Counted(q)'
  <2>1. CASE q # r
    BY <1>1, <1>4, <2>1 DEF Claimed, Exhausted, Counted
  <2>2. CASE q = r /\ Claimed(r, w)
    <3>1. /\ status'[q] = "running"
          /\ attempt'[q] = attempt[q] + 1
          /\ recovery'[q] = recovery[q]
      BY <1>1, <2>2 DEF Claimed
    <3>2. attempt[q] = recovery[q]
      BY <1>1, <1>4, <2>2 DEF Counted
    <3>3. QED
      BY <1>2, <3>1, <3>2 DEF Counted
  <2>3. CASE q = r /\ Exhausted(r)
    <3>1. /\ status'[q] = "failed" /\ reason'[q] = "recovery_exhausted"
          /\ attempt'[q] = attempt[q]
          /\ recovery'[q] = recovery[q]
      BY <1>1, <2>3 DEF Exhausted
    <3>2. attempt[q] = recovery[q] /\ attempt[q] = MaxExecutionAttempts
      BY <1>1, <1>2, <1>4, <2>3 DEF Counted, Exhausted
    <3>3. QED
      BY <1>2, <3>1, <3>2 DEF Counted
  <2>4. QED
    BY <1>4, <2>1, <2>2, <2>3
<1>5. ASSUME NEW r \in Run, RunStep(r) PROVE Counted(q)'
  <2>1. CASE CreateRun(r)
    BY <1>1, <2>1 DEF CreateRun, Counted
  <2>2. CASE LeaseExpires(r)
    BY <1>1, <2>2 DEF LeaseExpires, Counted
  <2>3. QED
    BY <1>3, <1>4, <1>5, <2>1, <2>2 DEF RunStep, ClaimRun, PruneTerminalRun,
                                        StoredTextCorrupts
<1>6. ASSUME NEW w \in Worker, ClaimNext(w) PROVE Counted(q)'
  BY <1>4, <1>6 DEF ClaimNext, OldestQueued
<1>7. CASE SweepExpired
  <2>1. CASE q \in Sweepable
    <3>1. /\ status[q] = "running" /\ status'[q] = "queued"
          /\ attempt'[q] = attempt[q] /\ recovery'[q] = recovery[q] + 1
      BY <1>7, <2>1 DEF SweepExpired, Sweepable
    <3>2. QED
      BY <1>1, <1>2, <3>1 DEF Counted
  <2>2. CASE q \notin Sweepable
    BY <1>1, <1>7, <2>2 DEF SweepExpired, Counted
  <2>3. QED
    BY <2>1, <2>2
<1>8. ASSUME NEW c \in claims, LeaseStep(c) PROVE Counted(q)'
  BY <1>1, <1>3, <1>8 DEF LeaseStep, RenewLease, RenewBlocks, RenewResumes,
                          Counted
<1>9. ASSUME NEW s \in Call, CloseRun(s) PROVE Counted(q)'
  <2> DEFINE r == call[s].claim.run
  <2>1. /\ r \in Run /\ status[r] = "running" /\ call[s].op \in CloseOp
    BY <1>9 DEF RecoveryInv, FenceHeld, TypeInv, CallShape, InTx, InTxPc,
                Claim, CloseRun
  <2>2. CASE q # r
    BY <1>1, <1>9, <2>2 DEF CloseRun, Counted
  <2>3. CASE q = r
    <3>1. /\ status'[q] = call[s].op
          /\ attempt'[q] = attempt[q] /\ recovery'[q] = recovery[q]
          /\ call[s].op # "waiting_human" => reason'[q] = "given"
      BY <1>1, <1>9, <2>3 DEF CloseRun
    <3>2. attempt[q] = recovery[q] + 1
      BY <1>1, <2>1, <2>3 DEF Counted
    <3>3. QED
      BY <1>2, <2>1, <3>1, <3>2 DEF Counted, CloseOp
  <2>4. QED
    BY <2>2, <2>3
<1>10. ASSUME NEW s \in Call, CallStep(s), ~CloseRun(s) PROVE Counted(q)'
  BY <1>3, <1>10 DEF CallStep, TxStep, TxEnds, PeekMiss, PeekReuse,
       PeekViolation, CommitWins, CommitAgrees, CommitViolation, RollBack,
       DeadlockAborts, BeginCommitted, BeginClose, Computed, ComputeFails,
       RecordRejection, RecordFails
<1>11. QED
  BY <1>3, <1>5, <1>6, <1>7, <1>8, <1>9, <1>10 DEF Next, vars

\* The two counters and the terminal reason agree in every reachable state, so
\* recovery is bounded by maxExecutionAttempts.
THEOREM RecoveryIsAccounted == Spec => []RecoveryAccounting
<1>1. Init => RecoveryAccounting
  BY DEF Init, RecoveryAccounting
<1>2. FenceInv /\ RecoveryAccounting /\ [Next]_vars => RecoveryAccounting'
  BY RecoveryStep DEF RecoveryInv, FenceInv
<1>3. QED
  BY <1>1, <1>2, FenceInvariance, PTL DEF Spec

-----------------------------------------------------------------------------
(* The fencing token. *)

\* Claims are numbered by the attempts already counted.
ClaimsIssued == \A c \in claims : c.attempt <= attempt[c.run]

\* How one step moves a run's token: it is counted up only by a claim, which
\* is the only step into running.
LEMMA TokenStep ==
  ASSUME TypeInv, [Next]_vars, NEW q \in Run
  PROVE  /\ attempt[q] <= attempt'[q]
         /\ (status[q] # "running" /\ status'[q] = "running")
               => attempt'[q] = attempt[q] + 1
<1>1. /\ status \in [Run -> Status]
      /\ attempt \in [Run -> 0..MaxExecutionAttempts]
      /\ attempt[q] \in Nat
  BY AttemptsAssumption DEF TypeInv, TypeOK
<1>2. CASE UNCHANGED runVars
  BY <1>1, <1>2 DEF runVars
<1>3. ASSUME NEW r \in Run, NEW w \in Worker, Claimed(r, w) \/ Exhausted(r)
      PROVE  /\ attempt[q] <= attempt'[q]
             /\ (status[q] # "running" /\ status'[q] = "running")
                   => attempt'[q] = attempt[q] + 1
  <2>1. CASE q # r
    BY <1>1, <1>3, <2>1 DEF Claimed, Exhausted
  <2>2. CASE q = r /\ Claimed(r, w)
    BY <1>1, <2>2 DEF Claimed
  <2>3. CASE q = r /\ Exhausted(r)
    BY <1>1, <2>3 DEF Exhausted
  <2>4. QED
    BY <1>3, <2>1, <2>2, <2>3
<1>4. ASSUME NEW r \in Run, RunStep(r)
      PROVE  /\ attempt[q] <= attempt'[q]
             /\ (status[q] # "running" /\ status'[q] = "running")
                   => attempt'[q] = attempt[q] + 1
  <2>1. CASE CreateRun(r) \/ LeaseExpires(r)
    BY <1>1, <2>1 DEF CreateRun, LeaseExpires
  <2>2. QED
    BY <1>2, <1>3, <1>4, <2>1 DEF RunStep, ClaimRun, PruneTerminalRun,
                                  StoredTextCorrupts
<1>5. CASE SweepExpired
  BY <1>1, <1>5 DEF SweepExpired
<1>6. ASSUME NEW c \in claims, LeaseStep(c)
      PROVE  attempt' = attempt /\ status' = status
  BY <1>6 DEF LeaseStep, RenewLease, RenewBlocks, RenewResumes, runVars
<1>7. ASSUME NEW s \in Call, CallStep(s)
      PROVE  /\ attempt[q] <= attempt'[q]
             /\ (status[q] # "running" /\ status'[q] = "running")
                   => attempt'[q] = attempt[q] + 1
  <2>1. CASE CloseRun(s)
    <3>1. call[s].op \in CloseOp
      BY <2>1 DEF CloseRun, TypeInv, CallShape
    <3>2. QED
      BY <1>1, <2>1, <3>1 DEF CloseRun, CloseOp
  <2>2. CASE ~CloseRun(s)
    BY <1>2, <1>7, <2>2 DEF CallStep, TxStep, TxEnds, PeekMiss, PeekReuse,
         PeekViolation, CommitWins, CommitAgrees, CommitViolation, RollBack,
         DeadlockAborts, BeginCommitted, BeginClose, Computed, ComputeFails,
         RecordRejection, RecordFails
  <2>3. QED
    BY <2>1, <2>2
<1>8. QED
  BY <1>1, <1>2, <1>3, <1>4, <1>5, <1>6, <1>7 DEF Next, vars, ClaimNext

\* No claim was ever issued with a number above the run's attempt.
LEMMA ClaimsStep ==
  ASSUME TypeInv, ClaimsIssued, [Next]_vars, TypeInv'
  PROVE  ClaimsIssued'
<1>1. \A c \in claims : c.run \in Run /\ c.attempt \in Nat
  BY AttemptsAssumption DEF TypeInv, TypeOK, Claim
<1>2. /\ attempt \in [Run -> 0..MaxExecutionAttempts]
      /\ attempt' \in [Run -> 0..MaxExecutionAttempts]
  BY DEF TypeInv, TypeOK
<1>3. ASSUME claims' = claims PROVE ClaimsIssued'
  <2> SUFFICES ASSUME NEW c \in claims PROVE c.attempt <= attempt'[c.run]
    BY <1>3 DEF ClaimsIssued
  <2>1. attempt[c.run] <= attempt'[c.run]
    BY <1>1, TokenStep
  <2>2. attempt[c.run] \in Nat /\ attempt'[c.run] \in Nat
    BY <1>1, <1>2, AttemptsAssumption
  <2>3. QED
    BY <1>1, <2>1, <2>2 DEF ClaimsIssued
<1>4. ASSUME NEW r \in Run, NEW w \in Worker, Claimed(r, w)
      PROVE  ClaimsIssued'
  <2> SUFFICES ASSUME NEW c \in claims' PROVE c.attempt <= attempt'[c.run]
    BY DEF ClaimsIssued
  <2>1. CASE c \in claims
    <3>1. attempt[c.run] <= attempt'[c.run]
      BY <1>1, <2>1, TokenStep
    <3>2. attempt[c.run] \in Nat /\ attempt'[c.run] \in Nat
      BY <1>1, <1>2, <2>1, AttemptsAssumption
    <3>3. QED
      BY <1>1, <2>1, <3>1, <3>2 DEF ClaimsIssued
  <2>2. CASE c = [run |-> r, worker |-> w, attempt |-> attempt[r] + 1]
    BY <1>2, <1>4, <2>2, AttemptsAssumption DEF Claimed
  <2>3. QED
    BY <1>4, <2>1, <2>2 DEF Claimed
<1>5. ASSUME NEW r \in Run, NEW w \in Worker, Claimed(r, w) \/ Exhausted(r)
      PROVE  ClaimsIssued'
  BY <1>3, <1>4, <1>5 DEF Exhausted
<1>6. ASSUME NEW r \in Run, RunStep(r) PROVE ClaimsIssued'
  BY <1>3, <1>5, <1>6 DEF RunStep, CreateRun, ClaimRun, LeaseExpires,
       PruneTerminalRun, StoredTextCorrupts
<1>7. ASSUME NEW w \in Worker, ClaimNext(w) PROVE ClaimsIssued'
  BY <1>5, <1>7 DEF ClaimNext
<1>8. ASSUME NEW s \in Call, CallStep(s) PROVE claims' = claims
  BY <1>8 DEF CallStep, TxStep, TxEnds, PeekMiss, PeekReuse, PeekViolation,
       CommitWins, CommitAgrees, CommitViolation, CloseRun, RollBack,
       DeadlockAborts, BeginCommitted, BeginClose, Computed, ComputeFails,
       RecordRejection, RecordFails
<1>9. QED
  BY <1>3, <1>6, <1>7, <1>8 DEF Next, vars, SweepExpired, LeaseStep,
       RenewLease, RenewBlocks, RenewResumes

\* A claim that lost its run never passes the fence again.
THEOREM AuthorityIsGoneForGood == Spec => AuthorityNeverReturns
<1> DEFINE A == \A c \in claims :
                  (status[c.run] # "running" \/ attempt[c.run] # c.attempt)
                      => ~Fence(c)'
<1>1. TypeInv /\ ClaimsIssued /\ [Next]_vars => A
  <2> SUFFICES ASSUME TypeInv, ClaimsIssued, [Next]_vars, NEW c \in claims,
                      status[c.run] # "running" \/ attempt[c.run] # c.attempt,
                      Fence(c)'
               PROVE  FALSE
    OBVIOUS
  <2>1. /\ c.run \in Run /\ c.attempt \in Nat
        /\ attempt[c.run] \in Nat
        /\ c.attempt <= attempt[c.run]
    BY AttemptsAssumption DEF TypeInv, TypeOK, Claim, ClaimsIssued
  <2>2. status'[c.run] = "running" /\ attempt'[c.run] = c.attempt
    BY DEF Fence
  <2>3. /\ attempt[c.run] <= attempt'[c.run]
        /\ status[c.run] # "running" => attempt'[c.run] = attempt[c.run] + 1
    BY <2>1, <2>2, TokenStep
  <2>4. QED
    BY <2>1, <2>2, <2>3
<1>2. Init => ClaimsIssued
  BY DEF Init, ClaimsIssued
<1>3. TypeInv /\ TypeInv' /\ ClaimsIssued /\ [Next]_vars => ClaimsIssued'
  BY ClaimsStep
<1>4. Spec => []TypeInv
  BY InitType, NextType, PTL DEF Spec
<1>5. Spec => [][A]_vars
  BY <1>1, <1>2, <1>3, <1>4, PTL DEF Spec
<1>6. QED
  BY <1>5 DEF AuthorityNeverReturns

-----------------------------------------------------------------------------
(* node_results. *)

\* s has an answer from committed(); the row it was answered from is still
\* there, or went with the run's other results after its end.
Answered(s) == call[s].pc = "returned" /\ call[s].op = "committed"
Kept(s) == \/ Row(s) # None /\ Row(s).value = call[s].value
           \/ Row(s) = None /\ status[call[s].claim.run] \in Terminal

\* The invariant in the two parts the step lemmas speak of.
LEMMA AnswersAreKept ==
  AnswersAreDurable <=> \A s \in Call : Answered(s) => Kept(s)
  BY DEF AnswersAreDurable, Answered, Kept

\* An ended run stays ended.
LEMMA TerminalStays ==
  ASSUME FenceInv, [Next]_vars, NEW q \in Run, status[q] \in Terminal
  PROVE  status'[q] \in Terminal
<1>1. /\ status \in [Run -> Status]
      /\ status[q] \notin {"absent", "queued", "running"}
  BY DEF FenceInv, TypeInv, TypeOK, Terminal
<1>2. ASSUME NEW r \in Run, NEW w \in Worker, Claimed(r, w) \/ Exhausted(r),
             status[r] = "queued"
      PROVE  status'[q] \in Terminal
  BY <1>1, <1>2 DEF Claimed, Exhausted
<1>3. ASSUME NEW r \in Run, RunStep(r) PROVE status'[q] \in Terminal
  BY <1>1, <1>2, <1>3 DEF RunStep, CreateRun, ClaimRun, LeaseExpires,
       PruneTerminalRun, StoredTextCorrupts, runVars
<1>4. ASSUME NEW w \in Worker, ClaimNext(w) PROVE status'[q] \in Terminal
  BY <1>2, <1>4 DEF ClaimNext, OldestQueued
<1>5. ASSUME NEW s \in Call, CloseRun(s) PROVE status'[q] \in Terminal
  <2>1. status[call[s].claim.run] = "running"
    BY <1>5 DEF CloseRun, FenceInv, FenceHeld, InTx, InTxPc
  <2>2. QED
    BY <1>1, <1>5, <2>1 DEF CloseRun
<1>6. ASSUME NEW s \in Call, CallStep(s), ~CloseRun(s) PROVE status' = status
  BY <1>6 DEF CallStep, TxStep, TxEnds, PeekMiss, PeekReuse, PeekViolation,
       CommitWins, CommitAgrees, CommitViolation, RollBack, DeadlockAborts,
       BeginCommitted, BeginClose, Computed, ComputeFails, RecordRejection,
       RecordFails, runVars
<1>7. QED
  BY <1>1, <1>3, <1>4, <1>5, <1>6 DEF Next, vars, runVars, SweepExpired,
       Sweepable, LeaseStep, RenewLease, RenewBlocks, RenewResumes

\* What one step does to a row of node_results, by the action that does it.
LEMMA PruneRows ==
  ASSUME FenceInv, NEW q \in Run, NEW k \in Key,
         NEW r \in Run, PruneTerminalRun(r)
  PROVE  \/ results'[q][k] = results[q][k]
         \/ status[q] \in Terminal /\ results'[q][k] = None
  BY DEF PruneTerminalRun, FenceInv, TypeInv, TypeOK

\* A corrupted text leaves its hash and its writer in place.
LEMMA CorruptRows ==
  ASSUME FenceInv, NEW q \in Run, NEW k \in Key,
         NEW r \in Run, NEW j \in Key, StoredTextCorrupts(r, j)
  PROVE  \/ results'[q][k] = results[q][k]
         \/ /\ results[q][k] # None /\ results'[q][k] # None
            /\ results'[q][k].value = results[q][k].value
            /\ results'[q][k].by = results[q][k].by
<1>1. results \in [Run -> [Key -> NodeResult \cup {None}]]
  BY DEF FenceInv, TypeInv, TypeOK
<1>2. CASE ~(q = r /\ k = j)
  BY <1>1, <1>2 DEF StoredTextCorrupts
<1>3. CASE q = r /\ k = j
  <2>1. results[r][j] \in NodeResult /\ results[r][j] # None
    BY <1>1 DEF StoredTextCorrupts
  <2> DEFINE row == [results[r][j] EXCEPT !.intact = FALSE]
  <2>2. /\ row.value = results[r][j].value
        /\ row.by = results[r][j].by
        /\ row \in NodeResult
    BY <2>1 DEF NodeResult
  <2>3. results'[q][k] = row
    BY <1>1, <1>3 DEF StoredTextCorrupts
  <2> HIDE DEF row
  <2>4. row # None
    BY <2>2, NoneIsNoRow
  <2>5. QED
    BY <1>3, <2>1, <2>2, <2>3, <2>4
<1>4. QED
  BY <1>2, <1>3

\* A winning INSERT writes exactly its own row, under the current attempt.
LEMMA CommitRows ==
  ASSUME FenceInv, NEW q \in Run, NEW k \in Key, NEW s \in Call, CommitWins(s)
  PROVE  /\ call[s].claim.run \in Run /\ call[s].key \in Key
         /\ status[call[s].claim.run] = "running"
         /\ attempt[call[s].claim.run] = call[s].claim.attempt
         /\ call[s].value \in Result
         /\ IF q = call[s].claim.run /\ k = call[s].key
            THEN /\ results[q][k] = None /\ results'[q][k] # None
                 /\ results'[q][k].value = call[s].value
                 /\ results'[q][k].by = attempt[q]
            ELSE results'[q][k] = results[q][k]
<1>1. results \in [Run -> [Key -> NodeResult \cup {None}]]
  BY DEF FenceInv, TypeInv, TypeOK
<1>2. /\ call[s].claim \in Claim /\ call[s].key \in Key
      /\ call[s].value \in Result /\ call[s].input \in Input
      /\ status[call[s].claim.run] = "running"
      /\ attempt[call[s].claim.run] = call[s].claim.attempt
  BY DEF FenceInv, TypeInv, CallShape, FenceHeld, InTx, InTxPc, CommitWins
<1>3. call[s].claim.run \in Run
  BY <1>2 DEF Claim
<1> DEFINE row == [input |-> call[s].input, value |-> call[s].value,
                   by |-> call[s].claim.attempt, intact |-> TRUE]
<1>4. row \in NodeResult
  BY <1>2 DEF NodeResult, Claim
<1>5. row # None
  BY <1>4, NoneIsNoRow
<1>6. results' = [results EXCEPT ![call[s].claim.run][call[s].key] = row]
  BY DEF CommitWins
<1>7. row.value = call[s].value /\ row.by = call[s].claim.attempt
  OBVIOUS
<1>8. Row(s) = None
  BY DEF CommitWins
<1> HIDE DEF row
<1>9. QED
  BY <1>1, <1>2, <1>3, <1>5, <1>6, <1>7, <1>8 DEF Row

\* Every step but the four that write rows leaves node_results alone.
LEMMA OtherRows ==
  ASSUME [Next]_vars,
         \A r \in Run : ~PruneTerminalRun(r),
         \A r \in Run, k \in Key : ~StoredTextCorrupts(r, k),
         \A s \in Call : ~CommitWins(s)
  PROVE  results' = results
<1>1. ASSUME NEW r \in Run, RunStep(r) PROVE results' = results
  BY <1>1 DEF RunStep, CreateRun, ClaimRun, LeaseExpires
<1>2. ASSUME NEW s \in Call, CallStep(s) PROVE results' = results
  BY <1>2 DEF CallStep, TxStep, TxEnds, PeekMiss, PeekReuse, PeekViolation,
       CommitAgrees, CommitViolation, CloseRun, RollBack, DeadlockAborts,
       BeginCommitted, BeginClose, Computed, ComputeFails, RecordRejection,
       RecordFails
<1>3. QED
  BY <1>1, <1>2 DEF Next, vars, ClaimNext, SweepExpired, LeaseStep,
       RenewLease, RenewBlocks, RenewResumes

\* A row read by an answered call survives the step, or the run has ended.
LEMMA RowStep ==
  ASSUME FenceInv, [Next]_vars, NEW q \in Run, NEW k \in Key
  PROVE  \/ results'[q][k] = results[q][k]
         \/ results'[q][k] = None /\ status[q] \in Terminal
         \/ results[q][k] # None /\ results'[q][k] # None
            /\ results'[q][k].value = results[q][k].value
         \/ results[q][k] = None /\ status[q] = "running"
<1>1. CASE \E r \in Run : PruneTerminalRun(r)
  BY <1>1, PruneRows
<1>2. CASE \E r \in Run, j \in Key : StoredTextCorrupts(r, j)
  BY <1>2, CorruptRows
<1>3. CASE \E s \in Call : CommitWins(s)
  <2>1. PICK s \in Call : CommitWins(s)
    BY <1>3
  <2>2. CASE q = call[s].claim.run /\ k = call[s].key
    BY <2>1, <2>2, CommitRows
  <2>3. CASE ~(q = call[s].claim.run /\ k = call[s].key)
    BY <2>1, <2>3, CommitRows
  <2>4. QED
    BY <2>2, <2>3
<1>4. QED
  BY <1>1, <1>2, <1>3, OtherRows

\* How a step leaves a call that ends it answered: it was so before, or the
\* step answered it from the row.
LEMMA AnswerStep ==
  ASSUME FenceInv, [Next]_vars, NEW s \in Call, Answered(s)'
  PROVE  \/ Answered(s) /\ call'[s] = call[s]
         \/ PeekReuse(s) \/ CommitWins(s) \/ CommitAgrees(s)
<1>1. call \in [Call -> CallState]
  BY DEF FenceInv, TypeInv, TypeOK
<1>2. CASE call' = call
  BY <1>2 DEF Answered
<1>3. ASSUME NEW t \in Call, CallStep(t)
      PROVE  \/ Answered(s) /\ call'[s] = call[s]
             \/ PeekReuse(s) \/ CommitWins(s) \/ CommitAgrees(s)
  <2>1. CASE t # s
    <3>1. CASE TxStep(t) \/ ComputeFails(t) \/ RecordRejection(t)
               \/ RecordFails(t)
      <4>1. call'[s] = call[s]
        BY <2>1, <3>1, CallFrame DEF FenceInv, TxStep, TxEnds, PeekMiss,
             PeekReuse, PeekViolation, CommitWins, CommitAgrees,
             CommitViolation, CloseRun, RollBack, DeadlockAborts, ComputeFails,
             RecordRejection, RecordFails
      <4>2. QED
        BY <4>1 DEF Answered
    <3>2. QED
      BY <1>1, <1>3, <2>1, <3>1 DEF CallStep, BeginCommitted, BeginClose,
           Computed, Answered
  <2>2. CASE t = s
    <3>1. CASE PeekMiss(s) \/ PeekViolation(s) \/ CommitViolation(s)
               \/ RollBack(s) \/ DeadlockAborts(s) \/ ComputeFails(s)
               \/ RecordRejection(s) \/ RecordFails(s)
      BY <3>1, CallFrame DEF FenceInv, PeekMiss, PeekViolation,
           CommitViolation, RollBack, DeadlockAborts, ComputeFails,
           RecordRejection, RecordFails, Answered
    <3>2. CASE CloseRun(s)
      <4>1. call'[s].op = call[s].op /\ call[s].op \in CloseOp
        BY <3>2, CallFrame DEF FenceInv, CloseRun, TypeInv, CallShape
      <4>2. QED
        BY <4>1 DEF Answered, CloseOp
    <3>3. ASSUME NEW c \in claims, NEW k \in Key, NEW i \in Input,
                 BeginCommitted(s, c, k, i)
          PROVE  FALSE
      BY <1>1, <3>3 DEF BeginCommitted, Answered
    <3>4. ASSUME NEW c \in claims, NEW op \in CloseOp, BeginClose(s, c, op)
          PROVE  FALSE
      BY <1>1, <3>4 DEF BeginClose, Answered
    <3>5. ASSUME NEW v \in Result, Computed(s, v) PROVE FALSE
      BY <1>1, <3>5 DEF Computed, Answered, CallState
    <3>6. QED
      BY <1>3, <2>2, <3>1, <3>2, <3>3, <3>4, <3>5 DEF CallStep, TxStep, TxEnds
  <2>3. QED
    BY <2>1, <2>2
<1>4. ASSUME NEW r \in Run, RunStep(r) PROVE call' = call
  BY <1>4 DEF RunStep, CreateRun, ClaimRun, LeaseExpires, PruneTerminalRun,
       StoredTextCorrupts
<1>5. QED
  BY <1>2, <1>3, <1>4 DEF Next, vars, ClaimNext, SweepExpired, LeaseStep,
       RenewLease, RenewBlocks, RenewResumes

\* Every step keeps what was answered.
LEMMA KeptStep ==
  ASSUME FenceInv, AnswersAreDurable, [Next]_vars, FenceInv'
  PROVE  AnswersAreDurable'
<1> SUFFICES ASSUME NEW s \in Call, Answered(s)' PROVE Kept(s)'
  BY DEF AnswersAreDurable, Answered, Kept
<1>1. CASE Answered(s) /\ call'[s] = call[s]
  <2>1. Kept(s)
    BY <1>1, AnswersAreKept
  <2> DEFINE q == call[s].claim.run
             k == call[s].key
  <2>2. q \in Run /\ k \in Key
    BY <1>1 DEF Answered, FenceInv, TypeInv, CallShape, Claim
  <2>3. Row(s) = results[q][k] /\ Row(s)' = results'[q][k]
    BY <1>1 DEF Row
  <2>4. status[q] \in Terminal => status'[q] \in Terminal /\ status[q] #
  "running"
    BY <2>2, TerminalStays DEF Terminal
  <2>5. /\ \/ results[q][k] # None /\ results[q][k].value = call[s].value
           \/ results[q][k] = None /\ status[q] \in Terminal
        /\ call'[s].value = call[s].value /\ call'[s].claim.run = q
    BY <1>1, <2>1, <2>3 DEF Kept
  <2> HIDE DEF q, k
  <2>6. \/ results'[q][k] # None /\ results'[q][k].value = call[s].value
        \/ results'[q][k] = None /\ status'[q] \in Terminal
    BY <2>2, <2>4, <2>5, RowStep
  <2>7. QED
    BY <2>3, <2>5, <2>6 DEF Kept
<1>2. CASE PeekReuse(s) \/ CommitAgrees(s)
  <2>1. /\ Row(s) # None /\ results' = results
        /\ call' = [call EXCEPT ![s].pc = "returned",
                                ![s].value = Row(s).value]
    BY <1>2 DEF PeekReuse, CommitAgrees, Answers
  <2>2. call[s] \in CallState
    BY DEF FenceInv, TypeInv, TypeOK
  <2>3. /\ call'[s].value = Row(s).value
        /\ call'[s].claim = call[s].claim /\ call'[s].key = call[s].key
    BY <2>1, <2>2 DEF CallState, FenceInv, TypeInv, TypeOK
  <2>4. Row(s)' = Row(s)
    BY <2>1, <2>3 DEF Row
  <2>5. QED
    BY <2>1, <2>3, <2>4 DEF Kept
<1>3. CASE CommitWins(s)
  <2>1. /\ call'[s].claim = call[s].claim /\ call'[s].key = call[s].key
        /\ call'[s].value = call[s].value
    BY <1>3 DEF CommitWins, Answers, CallState, FenceInv, TypeInv, TypeOK
  <2>2. /\ call[s].claim.run \in Run /\ call[s].key \in Key
    BY <1>3 DEF CommitWins, FenceInv, TypeInv, CallShape, Claim
  <2>3. /\ results'[call[s].claim.run][call[s].key] # None
        /\ results'[call[s].claim.run][call[s].key].value = call[s].value
    BY <1>3, <2>2, CommitRows
  <2>4. QED
    BY <2>1, <2>3 DEF Kept, Row
<1>4. QED
  BY <1>1, <1>2, <1>3, AnswerStep

\* What committed() answered stays the stored result until the run has ended.
THEOREM AnswersAreKeptForGood == Spec => []AnswersAreDurable
<1>1. Init => AnswersAreDurable
  BY DEF Init, AnswersAreDurable, NoCall
<1>2. FenceInv /\ FenceInv' /\ AnswersAreDurable /\ [Next]_vars
        => AnswersAreDurable'
  BY KeptStep
<1>3. QED
  BY <1>1, <1>2, FenceInvariance, PTL DEF Spec

-----------------------------------------------------------------------------
(* DurableRun implements CommittedLedger: every step of the runs table, the  *)
(* fence and node_results is one step of the ledger, or none.                *)

\* The ledger's variables, as the refinement mapping reads them.
PhaseBar == [r \in Run |->
    CASE status[r] \in Terminal -> "ended"
      [] status[r] = "waiting_human" -> "parked"
      [] OTHER -> "open"]
AuthorityBar ==
    [r \in Run |-> IF status[r] = "running" THEN attempt[r] ELSE 0]
Entry(row) == IF row = None THEN None ELSE [value |-> row.value, by |-> row.by]
LedgerBar == [r \in Run |-> [k \in Key |-> Entry(results[r][k])]]

\* The part of the mapped state that no step but a few changes.
LEMMA MappedFrame ==
  ASSUME UNCHANGED <<status, attempt, results>>
  PROVE  UNCHANGED Ledger!vars
BY DEF Ledger!vars

\* A claim is a grant of the next number.
LEMMA MapsGrant ==
  ASSUME FenceInv, NEW r \in Run, NEW w, status[r] = "queued", Claimed(r, w),
         results' = results
  PROVE  Ledger!Grant(r)
<1>1. /\ attempt \in [Run -> Nat] /\ status \in [Run -> Status]
      /\ status' = [status EXCEPT ![r] = "running"]
      /\ attempt' = [attempt EXCEPT ![r] = @ + 1]
      /\ attempt[r] < MaxExecutionAttempts
  BY AttemptsAssumption DEF Claimed, FenceInv, TypeInv, TypeOK
<1>2. PhaseBar' = PhaseBar
  BY <1>1 DEF PhaseBar, Terminal
<1>3. AuthorityBar' = [AuthorityBar EXCEPT ![r] = attempt[r] + 1]
  BY <1>1 DEF AuthorityBar
<1>4. PhaseBar[r] = "open" /\ AuthorityBar[r] = 0
  BY DEF PhaseBar, AuthorityBar, Terminal
<1>5. QED
  BY <1>1, <1>2, <1>3, <1>4 DEF Ledger!Grant, PhaseBar, AuthorityBar

\* A run that exhausted its attempts ends with every grant used.
LEMMA MapsExhaustion ==
  ASSUME FenceInv, NEW r \in Run, status[r] = "queued", Exhausted(r),
         results' = results
  PROVE  Ledger!Close(r, "ended")
<1>1. /\ attempt[r] = MaxExecutionAttempts /\ attempt' = attempt
      /\ status \in [Run -> Status]
      /\ status' = [status EXCEPT ![r] = "failed"]
  BY AttemptsAssumption DEF Exhausted, FenceInv, TypeInv, TypeOK
<1>2. PhaseBar' = [PhaseBar EXCEPT ![r] = "ended"]
  BY <1>1 DEF PhaseBar, Terminal
<1>3. AuthorityBar' = [AuthorityBar EXCEPT ![r] = 0]
  BY <1>1 DEF AuthorityBar
<1>4. PhaseBar[r] = "open"
  BY DEF PhaseBar, Terminal
<1>5. QED
  BY <1>1, <1>2, <1>3, <1>4 DEF Ledger!Close, PhaseBar, AuthorityBar

\* Closing ends or parks the run under the authority of the closing claim.
LEMMA MapsClose ==
  ASSUME FenceInv, NEW s \in Call, CloseRun(s)
  PROVE  Ledger!Next
<1> DEFINE r == call[s].claim.run
           p == IF call[s].op = "waiting_human" THEN "parked" ELSE "ended"
<1>1. /\ call[s].claim \in Claim /\ call[s].op \in CloseOp
      /\ status[r] = "running" /\ attempt[r] = call[s].claim.attempt
  BY DEF FenceInv, TypeInv, CallShape, FenceHeld, InTx, InTxPc, CloseRun
<1>2. r \in Run /\ attempt[r] \in Nat /\ attempt[r] # 0
  BY <1>1 DEF Claim
<1>3. /\ status \in [Run -> Status] /\ attempt' = attempt /\ results' = results
      /\ status' = [status EXCEPT ![r] = call[s].op]
  BY DEF CloseRun, FenceInv, TypeInv, TypeOK
<1> HIDE DEF r
<1>4. PhaseBar' = [PhaseBar EXCEPT ![r] = p]
  BY <1>1, <1>2, <1>3 DEF PhaseBar, Terminal, CloseOp
<1>5. AuthorityBar' = [AuthorityBar EXCEPT ![r] = 0]
  BY <1>1, <1>2, <1>3 DEF AuthorityBar, CloseOp
<1>6. PhaseBar[r] = "open" /\ AuthorityBar[r] # 0
  BY <1>1, <1>2 DEF PhaseBar, AuthorityBar, Terminal
<1>7. p \in {"parked", "ended"}
  OBVIOUS
<1> HIDE DEF p
<1>8. Ledger!Close(r, p)
  BY <1>2, <1>3, <1>4, <1>5, <1>6 DEF Ledger!Close, PhaseBar, AuthorityBar
<1>9. QED
  BY <1>2, <1>7, <1>8 DEF Ledger!Next, Ledger!Close

\* A sweep revokes the authorities it requeues, all in force.
LEMMA MapsSweep ==
  ASSUME FenceInv, SweepExpired, RecoveryInv
  PROVE  Ledger!Next
<1>1. /\ status \in [Run -> Status] /\ attempt' = attempt /\ results' = results
      /\ status' = [r \in Run |-> IF r \in Sweepable THEN "queued"
                                                     ELSE status[r]]
  BY DEF SweepExpired, FenceInv, TypeInv, TypeOK
<1>2. \A r \in Sweepable : r \in Run /\ status[r] = "running"
  BY DEF Sweepable
<1>3. \A r \in Sweepable : AuthorityBar[r] # 0
  <2>1. \A r \in Sweepable : recovery[r] \in Nat
                           /\ attempt[r] = recovery[r] + 1
    BY <1>2 DEF RecoveryInv, TypeInv, TypeOK, RecoveryAccounting
  <2>2. QED
    BY <1>2, <2>1 DEF AuthorityBar
<1>4. PhaseBar' = PhaseBar
  BY <1>1, <1>2 DEF PhaseBar, Terminal
<1>5. AuthorityBar' = [r \in Run |-> IF r \in Sweepable THEN 0
                                                        ELSE AuthorityBar[r]]
  BY <1>1, <1>2 DEF AuthorityBar
<1>6. Ledger!Revoke(Sweepable)
  BY <1>1, <1>3, <1>4, <1>5 DEF Ledger!Revoke, PhaseBar, AuthorityBar
<1>7. Sweepable \in SUBSET Run
  BY <1>2
<1>8. QED
  BY <1>6, <1>7 DEF Ledger!Next, Ledger!Revoke

\* The winning INSERT is a write under the authority in force.
LEMMA MapsCommit ==
  ASSUME FenceInv, RecoveryInv, NEW s \in Call, CommitWins(s)
  PROVE  Ledger!Next
<1> DEFINE r == call[s].claim.run
           k == call[s].key
           v == call[s].value
<1>1. /\ r \in Run /\ k \in Key /\ v \in Result /\ status[r] = "running"
      /\ results[r][k] = None
      /\ results'[r][k] # None /\ results'[r][k].value = v
      /\ results'[r][k].by = attempt[r]
  <2>1. call[s].claim \in Claim /\ k \in Key
    BY DEF FenceInv, TypeInv, CallShape, CommitWins
  <2>2. r \in Run
    BY <2>1 DEF Claim
  <2>3. QED
    BY <2>1, <2>2, CommitRows
<1>2. \A q \in Run, j \in Key :
        ~(q = r /\ j = k) => results'[q][j] = results[q][j]
  BY CommitRows
<1>3. status' = status /\ attempt' = attempt
  BY DEF CommitWins, runVars
<1> HIDE DEF r, k, v
<1>4. AuthorityBar[r] = attempt[r] /\ attempt[r] # 0
  <2>1. recovery[r] \in Nat /\ attempt[r] = recovery[r] + 1
    BY <1>1 DEF RecoveryInv, TypeInv, TypeOK, RecoveryAccounting
  <2>2. QED
    BY <1>1, <2>1 DEF AuthorityBar
<1>5. LedgerBar[r][k] = None
  BY <1>1 DEF LedgerBar, Entry
<1>6. LedgerBar' = [LedgerBar EXCEPT ![r][k] =
                      [value |-> v, by |-> AuthorityBar[r]]]
  <2>1. Entry(results'[r][k]) = [value |-> v, by |-> AuthorityBar[r]]
    BY <1>1, <1>4 DEF Entry
  <2>2. \A q \in Run, j \in Key : ~(q = r /\ j = k) =>
          Entry(results'[q][j]) = LedgerBar[q][j]
    BY <1>2 DEF LedgerBar
  <2>3. LedgerBar' = [q \in Run |-> [j \in Key |-> Entry(results'[q][j])]]
    BY DEF LedgerBar, Entry
  <2>4. LedgerBar = [q \in Run |-> [j \in Key |-> LedgerBar[q][j]]]
    BY DEF LedgerBar
  <2> HIDE DEF LedgerBar
  <2>5. \A q \in Run, j \in Key : Entry(results'[q][j]) =
          [LedgerBar EXCEPT ![r][k] = [value |-> v, by |->
          AuthorityBar[r]]][q][j]
    BY <1>1, <2>1, <2>2, <2>4
  <2>6. QED
    BY <1>1, <2>3, <2>4, <2>5
<1>7. Ledger!Write(r, k, v)
  BY <1>3, <1>4, <1>5, <1>6
     DEF Ledger!Write, PhaseBar, AuthorityBar, LedgerBar, Entry
<1>8. QED
  BY <1>1, <1>7 DEF Ledger!Next, Ledger!Write

\* Pruning empties the ledger of an ended run.
LEMMA MapsPrune ==
  ASSUME FenceInv, NEW r \in Run, PruneTerminalRun(r)
  PROVE  Ledger!Purge(r)
<1>1. /\ status' = status /\ attempt' = attempt /\ status[r] \in Terminal
      /\ results' = [results EXCEPT ![r] = [k \in Key |-> None]]
      /\ results \in [Run -> [Key -> NodeResult \cup {None}]]
  BY DEF PruneTerminalRun, runVars, FenceInv, TypeInv, TypeOK
<1>2. PhaseBar[r] = "ended"
  BY <1>1 DEF PhaseBar, Terminal
<1>3. LedgerBar' = [LedgerBar EXCEPT ![r] = [k \in Key |-> None]]
  BY <1>1 DEF LedgerBar, Entry
<1>4. QED
  BY <1>1, <1>2, <1>3 DEF Ledger!Purge, PhaseBar, LedgerBar, Entry

\* A corrupted text is the same entry: its hash and its writer stay.
LEMMA MapsCorruption ==
  ASSUME FenceInv, NEW r \in Run, NEW k \in Key, StoredTextCorrupts(r, k)
  PROVE  UNCHANGED Ledger!vars
<1>1. status' = status /\ attempt' = attempt
  BY DEF StoredTextCorrupts, runVars
<1>2. \A q \in Run, j \in Key : Entry(results'[q][j]) = Entry(results[q][j])
  BY CorruptRows DEF Entry
<1>3. LedgerBar' = LedgerBar
  BY <1>2 DEF LedgerBar, Entry
<1>4. QED
  BY <1>1, <1>3 DEF Ledger!vars, LedgerBar, Entry

\* One case per statement or transaction step.
LEMMA MapsStep ==
  ASSUME FenceInv, RecoveryInv, [Next]_vars
  PROVE  [Ledger!Next]_(Ledger!vars)
<1>1. CASE UNCHANGED vars
  BY <1>1, MappedFrame DEF vars, runVars
<1>2. ASSUME NEW r \in Run, NEW w, status[r] = "queued", results' = results,
             Claimed(r, w) \/ Exhausted(r)
      PROVE  Ledger!Next
  BY <1>2, MapsGrant, MapsExhaustion DEF Ledger!Next
<1>3. ASSUME NEW r \in Run, RunStep(r) PROVE [Ledger!Next]_(Ledger!vars)
  <2>1. CASE CreateRun(r)
    <3>1. /\ attempt' = attempt /\ results' = results
          /\ status' = [status EXCEPT ![r] = "queued"]
          /\ status[r] = "absent" /\ status \in [Run -> Status]
      BY <2>1 DEF CreateRun, FenceInv, TypeInv, TypeOK
    <3>2. PhaseBar' = PhaseBar /\ AuthorityBar' = AuthorityBar
      BY <3>1 DEF PhaseBar, AuthorityBar, Terminal
    <3>3. QED
      BY <3>1, <3>2 DEF Ledger!vars, PhaseBar, AuthorityBar
  <2>2. ASSUME NEW w \in Worker, ClaimRun(r, w) PROVE Ledger!Next
    BY <1>2, <2>2 DEF ClaimRun
  <2>3. CASE LeaseExpires(r)
    BY <2>3, MappedFrame DEF LeaseExpires
  <2>4. CASE PruneTerminalRun(r)
    BY <2>4, MapsPrune DEF Ledger!Next
  <2>5. ASSUME NEW k \in Key, StoredTextCorrupts(r, k)
        PROVE  UNCHANGED Ledger!vars
    BY <2>5, MapsCorruption
  <2>6. QED
    BY <1>3, <2>1, <2>2, <2>3, <2>4, <2>5 DEF RunStep
<1>4. ASSUME NEW w \in Worker, ClaimNext(w) PROVE Ledger!Next
  BY <1>2, <1>4 DEF ClaimNext, OldestQueued
<1>5. CASE SweepExpired
  BY <1>5, MapsSweep
<1>6. ASSUME NEW c \in claims, LeaseStep(c) PROVE UNCHANGED Ledger!vars
  BY <1>6, MappedFrame
     DEF LeaseStep, RenewLease, RenewBlocks, RenewResumes, runVars
<1>7. ASSUME NEW s \in Call, CallStep(s) PROVE [Ledger!Next]_(Ledger!vars)
  <2>1. CASE CommitWins(s)
    BY <2>1, MapsCommit
  <2>2. CASE CloseRun(s)
    BY <2>2, MapsClose
  <2>3. CASE ~CommitWins(s) /\ ~CloseRun(s)
    BY <1>7, <2>3, MappedFrame DEF CallStep, TxStep, TxEnds, PeekMiss,
         PeekReuse, PeekViolation, CommitAgrees, CommitViolation, RollBack,
         DeadlockAborts, BeginCommitted, BeginClose, Computed, ComputeFails,
         RecordRejection, RecordFails, runVars
  <2>4. QED
    BY <2>1, <2>2, <2>3
<1>8. QED
  BY <1>1, <1>3, <1>4, <1>5, <1>6, <1>7 DEF Next

\* Leases, locks, concurrent calls and pruning, for every set of runs, workers
\* and calls, do nothing to a run's authority and results but what the ledger
\* allows.
THEOREM ImplementsTheLedger == Spec => ImplementsLedger
<1>1. Init => Ledger!Init
  BY DEF Init, Ledger!Init, Terminal
<1>2. RecoveryInv /\ FenceInv /\ [Next]_vars => [Ledger!Next]_(Ledger!vars)
  BY MapsStep
<1>3. Spec => []RecoveryInv
  BY RecoveryIsAccounted, FenceInvariance, PTL DEF RecoveryInv, FenceInv
<1>4. QED
  BY <1>1, <1>2, <1>3, FenceInvariance, PTL DEF Spec, ImplementsLedger,
       Ledger!Spec

=============================================================================
