------------------------ MODULE CheckpointedRunProofs ------------------------
(***************************************************************************)
(* Proofs about CheckpointedRun, for every number of attempts and          *)
(* operations, every set of boundaries and every set of results.           *)
(***************************************************************************)
EXTENDS CheckpointedRun, TLAPS

\* The rows of the run's node_results.
Rows == ledger[TheRun]
Row == [value: Result, by: Attempt]

TypeOK ==
    /\ phase \in [{TheRun} -> {"open", "ended"}]
    /\ authority \in [{TheRun} -> 0..MaxAttempts]
    /\ granted \in [{TheRun} -> 0..MaxAttempts]
    /\ ledger \in [{TheRun} -> [Op -> Row \cup {None}]]
    /\ pc \in [Attempt -> {"off", "loading", "peeking", "computing",
                           "committing", "done", "dead"}]
    /\ values \in [Attempt -> Seq(Result)]
    /\ answer \in [Attempt -> Result \cup {None}]
    /\ put \in [Attempt -> {"idle", "guarded", "landed", "failed"}]
    /\ saved \in [Attempt -> Int]
    /\ thread \in [Attempt -> Seq(Result) \cup {None}]
    /\ pruned \in {"no", "results", "thread"}
    /\ calls \subseteq [attempt: Attempt, op: Op]
    /\ forked \subseteq Attempt

\* Who is under way does an operation there is, and has its answer when it
\* commits it.
Working ==
    \A a \in Attempt :
        /\ pc[a] \in {"computing", "committing"} => pos(a) < Ops
        /\ pc[a] = "committing" => answer[a] \in Result

\* The authority is the newest attempt or nobody, and nobody once the run has
\* ended; only then are its results pruned.
OneAuthority ==
    /\ authority[TheRun] \in {0, granted[TheRun]}
    /\ phase[TheRun] = "ended" => authority[TheRun] = 0
    /\ pruned # "no" => phase[TheRun] = "ended"

\* Whoever acts or has acted was granted the run first.
ActorsWereGranted ==
    /\ \A a \in Attempt : pc[a] # "off" => a <= granted[TheRun]
    /\ \A c \in calls : c.attempt <= granted[TheRun]

\* A forked attempt had lost the run, and will not have it again.
ForkedHasLost ==
    \A a \in forked : a <= granted[TheRun] /\ ~Passes(a)

\* An attempt that missed an operation's result was there no later than the
\* one that committed it.
MissedIsEarlier ==
    pruned = "no" =>
        \A a \in Attempt :
            (pc[a] = "computing" /\ Rows[NextOp(a)] # None) =>
                a <= Rows[NextOp(a)].by

TypeInv == TypeOK /\ Working

IInv ==
    /\ TypeInv
    /\ OneAuthority
    /\ ActorsWereGranted
    /\ ForkedHasLost
    /\ MissedIsEarlier
    /\ StatesFollowResults
    /\ NoCallAfterCommit
    /\ ForksAreRecorded

-----------------------------------------------------------------------------

\* Every step keeps the type.
LEMMA TypeStep ==
  ASSUME TypeInv, [Next]_vars
  PROVE  TypeInv'
<1> USE OpsAssumption, BoundaryAssumption DEF TypeInv, TypeOK, Working, pos, ledgerVars,
        NextOp, Alive, Row
<1>1. CASE Claim
  <2>1. granted[TheRun] + 1 \in Attempt
    BY <1>1 DEF Claim, Ledger!Grant, Attempt
  <2>2. /\ granted' \in [{TheRun} -> 0..MaxAttempts]
        /\ authority' \in [{TheRun} -> 0..MaxAttempts]
    BY <1>1, <2>1 DEF Claim, Ledger!Grant, Attempt
  <2>3. pc' = [pc EXCEPT ![granted[TheRun] + 1] = "loading"]
    BY <1>1 DEF Claim
  <2>4. QED
    BY <1>1, <2>1, <2>2, <2>3 DEF Claim, Ledger!Grant
<1>2. CASE Sweep
  BY <1>2 DEF Sweep, Ledger!Revoke
<1>3. CASE Exhaust
  BY <1>3 DEF Exhaust, Ledger!Close
<1>4. CASE PruneResults
  BY <1>4 DEF PruneResults, Ledger!Purge
<1>5. CASE DeleteThread
  BY <1>5 DEF DeleteThread
<1>6. ASSUME NEW a \in Attempt, Load(a) PROVE TypeInv'
  <2>1. \A b \in Attempt : Stored(b) =>
          thread[b] \in Seq(Result) /\ Len(thread[b]) \in Int
    BY DEF Stored
  <2>2. CASE UNCHANGED <<values, saved>>
    BY <1>6, <2>2 DEF Load
  <2>3. ASSUME NEW b \in Attempt, Stored(b),
               values' = [values EXCEPT ![a] = thread[b]],
               saved' = [saved EXCEPT ![a] = Len(thread[b])]
        PROVE  TypeInv'
    <3>1. values' \in [Attempt -> Seq(Result)] /\ saved' \in [Attempt -> Int]
      BY <2>1, <2>3
    <3>2. QED
      BY <1>6, <2>3, <3>1 DEF Load
  <2>4. QED
    BY <1>6, <2>2, <2>3 DEF Load
<1>7. ASSUME NEW a \in Attempt, Reuse(a) PROVE TypeInv'
  <2>1. Rows[NextOp(a)].value \in Result
    BY <1>7 DEF Reuse, Rows, Op
  <2>2. Append(values[a], Rows[NextOp(a)].value) \in Seq(Result)
    BY <2>1
  <2>3. QED
    BY <1>7, <2>2 DEF Reuse, Answered, Rows
<1>8. ASSUME NEW a \in Attempt, Miss(a) PROVE TypeInv'
  BY <1>8 DEF Miss
<1>9. ASSUME NEW a \in Attempt, Commit(a) PROVE TypeInv'
  <2>1. NextOp(a) \in Op /\ answer[a] \in Result /\ authority[TheRun] = a
    BY <1>9 DEF Commit, Op, Passes
  <2>2. ledger' \in [{TheRun} -> [Op -> Row \cup {None}]]
    BY <1>9, <2>1 DEF Commit, Ledger!Write
  <2>3. Append(values[a], answer[a]) \in Seq(Result)
    BY <2>1
  <2>4. QED
    BY <1>9, <2>2, <2>3 DEF Commit, Ledger!Write, Answered
<1>10. ASSUME NEW a \in Attempt, Refused(a) PROVE TypeInv'
  BY <1>10 DEF Refused, Ends
<1>11. ASSUME NEW a \in Attempt, Complete(a) PROVE TypeInv'
  BY <1>11 DEF Complete, Ledger!Close
<1>12. ASSUME NEW a \in Attempt, CompleteRefused(a) PROVE TypeInv'
  BY <1>12 DEF CompleteRefused, Ends
<1>13. ASSUME NEW a \in Attempt, Dies(a) PROVE TypeInv'
  BY <1>13 DEF Dies, Ends
<1>14. ASSUME NEW a \in Attempt, Guard(a) PROVE TypeInv'
  BY <1>14 DEF Guard
<1>15. ASSUME NEW a \in Attempt, GuardRefused(a) PROVE TypeInv'
  BY <1>15 DEF GuardRefused
<1>16. ASSUME NEW a \in Attempt, Land(a) PROVE TypeInv'
  <2>1. PICK b \in Boundary :
          /\ b <= pos(a)
          /\ thread' = [thread EXCEPT ![a] = SubSeq(values[a], 1, b)]
          /\ saved' = [saved EXCEPT ![a] = b]
    BY <1>16 DEF Land, Due
  <2>2. SubSeq(values[a], 1, b) \in Seq(Result) /\ b \in Int
    BY <2>1
  <2>3. QED
    BY <1>16, <2>1, <2>2 DEF Land
<1>17. ASSUME NEW a \in Attempt, Recheck(a) PROVE TypeInv'
  BY <1>17 DEF Recheck
<1>18. ASSUME NEW a \in Attempt, ForkRecorded(a) PROVE TypeInv'
  BY <1>18 DEF ForkRecorded
<1>19. ASSUME NEW a \in Attempt, RecheckFails(a) PROVE TypeInv'
  BY <1>19 DEF RecheckFails
<1>20. ASSUME NEW a \in Attempt, NEW v \in Result, Compute(a, v) PROVE TypeInv'
  BY <1>20 DEF Compute, Op
<1>21. CASE UNCHANGED vars
  BY <1>21 DEF vars, ledgerVars
<1>22. QED
  BY <1>1, <1>2, <1>3, <1>4, <1>5, <1>6, <1>7, <1>8, <1>9, <1>10, <1>11, <1>12, <1>13,
     <1>14, <1>15, <1>16, <1>17, <1>18, <1>19, <1>20, <1>21 DEF Next, GraphStep,
     WriterStep

\* Every step keeps the authority the newest attempt, or nobody.
LEMMA OneAuthorityStep ==
  ASSUME TypeInv, OneAuthority, [Next]_vars
  PROVE  OneAuthority'
<1> USE OpsAssumption DEF TypeInv, TypeOK, OneAuthority, ledgerVars
<1>1. CASE Claim
  BY <1>1 DEF Claim, Ledger!Grant
<1>2. CASE Sweep
  BY <1>2 DEF Sweep, Ledger!Revoke
<1>3. CASE Exhaust
  BY <1>3 DEF Exhaust, Ledger!Close
<1>4. CASE PruneResults
  BY <1>4 DEF PruneResults, Ledger!Purge
<1>5. CASE DeleteThread
  BY <1>5 DEF DeleteThread
<1>6. ASSUME NEW a \in Attempt, Load(a) PROVE OneAuthority'
  BY <1>6 DEF Load
<1>7. ASSUME NEW a \in Attempt, Reuse(a) PROVE OneAuthority'
  BY <1>7 DEF Reuse, Answered
<1>8. ASSUME NEW a \in Attempt, Miss(a) PROVE OneAuthority'
  BY <1>8 DEF Miss
<1>9. ASSUME NEW a \in Attempt, Commit(a) PROVE OneAuthority'
  BY <1>9 DEF Commit, Ledger!Write, Answered
<1>10. ASSUME NEW a \in Attempt, Refused(a) PROVE OneAuthority'
  BY <1>10 DEF Refused, Ends
<1>11. ASSUME NEW a \in Attempt, Complete(a) PROVE OneAuthority'
  BY <1>11 DEF Complete, Ledger!Close
<1>12. ASSUME NEW a \in Attempt, CompleteRefused(a) PROVE OneAuthority'
  BY <1>12 DEF CompleteRefused, Ends
<1>13. ASSUME NEW a \in Attempt, Dies(a) PROVE OneAuthority'
  BY <1>13 DEF Dies, Ends
<1>14. ASSUME NEW a \in Attempt, Guard(a) PROVE OneAuthority'
  BY <1>14 DEF Guard
<1>15. ASSUME NEW a \in Attempt, GuardRefused(a) PROVE OneAuthority'
  BY <1>15 DEF GuardRefused
<1>16. ASSUME NEW a \in Attempt, Land(a) PROVE OneAuthority'
  BY <1>16 DEF Land
<1>17. ASSUME NEW a \in Attempt, Recheck(a) PROVE OneAuthority'
  BY <1>17 DEF Recheck
<1>18. ASSUME NEW a \in Attempt, ForkRecorded(a) PROVE OneAuthority'
  BY <1>18 DEF ForkRecorded
<1>19. ASSUME NEW a \in Attempt, RecheckFails(a) PROVE OneAuthority'
  BY <1>19 DEF RecheckFails
<1>20. ASSUME NEW a \in Attempt, NEW v \in Result, Compute(a, v) PROVE OneAuthority'
  BY <1>20 DEF Compute
<1>21. CASE UNCHANGED vars
  BY <1>21 DEF vars, ledgerVars
<1>22. QED
  BY <1>1, <1>2, <1>3, <1>4, <1>5, <1>6, <1>7, <1>8, <1>9, <1>10, <1>11, <1>12, <1>13,
     <1>14, <1>15, <1>16, <1>17, <1>18, <1>19, <1>20, <1>21 DEF Next, GraphStep,
     WriterStep

\* Every step is of an attempt that was granted the run.
LEMMA GrantedStep ==
  ASSUME TypeInv, ActorsWereGranted, [Next]_vars
  PROVE  ActorsWereGranted'
<1> USE OpsAssumption DEF TypeInv, TypeOK, ActorsWereGranted, ledgerVars, Attempt, Alive
<1>1. CASE Claim
  BY <1>1 DEF Claim, Ledger!Grant
<1>2. CASE Sweep
  BY <1>2 DEF Sweep, Ledger!Revoke
<1>3. CASE Exhaust
  BY <1>3 DEF Exhaust, Ledger!Close
<1>4. CASE PruneResults
  BY <1>4 DEF PruneResults, Ledger!Purge
<1>5. CASE DeleteThread
  BY <1>5 DEF DeleteThread
<1>6. ASSUME NEW a \in Attempt, Load(a) PROVE ActorsWereGranted'
  BY <1>6 DEF Load
<1>7. ASSUME NEW a \in Attempt, Reuse(a) PROVE ActorsWereGranted'
  BY <1>7 DEF Reuse, Answered
<1>8. ASSUME NEW a \in Attempt, Miss(a) PROVE ActorsWereGranted'
  BY <1>8 DEF Miss
<1>9. ASSUME NEW a \in Attempt, Commit(a) PROVE ActorsWereGranted'
  BY <1>9 DEF Commit, Ledger!Write, Answered
<1>10. ASSUME NEW a \in Attempt, Refused(a) PROVE ActorsWereGranted'
  BY <1>10 DEF Refused, Ends
<1>11. ASSUME NEW a \in Attempt, Complete(a) PROVE ActorsWereGranted'
  BY <1>11 DEF Complete, Ledger!Close
<1>12. ASSUME NEW a \in Attempt, CompleteRefused(a) PROVE ActorsWereGranted'
  BY <1>12 DEF CompleteRefused, Ends
<1>13. ASSUME NEW a \in Attempt, Dies(a) PROVE ActorsWereGranted'
  BY <1>13 DEF Dies, Ends
<1>14. ASSUME NEW a \in Attempt, Guard(a) PROVE ActorsWereGranted'
  BY <1>14 DEF Guard
<1>15. ASSUME NEW a \in Attempt, GuardRefused(a) PROVE ActorsWereGranted'
  BY <1>15 DEF GuardRefused
<1>16. ASSUME NEW a \in Attempt, Land(a) PROVE ActorsWereGranted'
  BY <1>16 DEF Land
<1>17. ASSUME NEW a \in Attempt, Recheck(a) PROVE ActorsWereGranted'
  BY <1>17 DEF Recheck
<1>18. ASSUME NEW a \in Attempt, ForkRecorded(a) PROVE ActorsWereGranted'
  BY <1>18 DEF ForkRecorded
<1>19. ASSUME NEW a \in Attempt, RecheckFails(a) PROVE ActorsWereGranted'
  BY <1>19 DEF RecheckFails
<1>20. ASSUME NEW a \in Attempt, NEW v \in Result, Compute(a, v) PROVE ActorsWereGranted'
  BY <1>20 DEF Compute
<1>21. CASE UNCHANGED vars
  BY <1>21 DEF vars, ledgerVars
<1>22. QED
  BY <1>1, <1>2, <1>3, <1>4, <1>5, <1>6, <1>7, <1>8, <1>9, <1>10, <1>11, <1>12, <1>13,
     <1>14, <1>15, <1>16, <1>17, <1>18, <1>19, <1>20, <1>21 DEF Next, GraphStep,
     WriterStep

\* Every step leaves the forked attempts without the run.
LEMMA ForkedStep ==
  ASSUME TypeInv, OneAuthority, ActorsWereGranted, ForkedHasLost, [Next]_vars
  PROVE  ForkedHasLost'
<1> USE OpsAssumption DEF TypeInv, TypeOK, OneAuthority, ActorsWereGranted,
        ForkedHasLost, Passes, ledgerVars, Attempt, Alive
<1>1. CASE Claim
  BY <1>1 DEF Claim, Ledger!Grant
<1>2. CASE Sweep
  BY <1>2 DEF Sweep, Ledger!Revoke
<1>3. CASE Exhaust
  BY <1>3 DEF Exhaust, Ledger!Close
<1>4. CASE PruneResults
  BY <1>4 DEF PruneResults, Ledger!Purge
<1>5. CASE DeleteThread
  BY <1>5 DEF DeleteThread
<1>6. ASSUME NEW a \in Attempt, Load(a) PROVE ForkedHasLost'
  BY <1>6 DEF Load
<1>7. ASSUME NEW a \in Attempt, Reuse(a) PROVE ForkedHasLost'
  BY <1>7 DEF Reuse, Answered
<1>8. ASSUME NEW a \in Attempt, Miss(a) PROVE ForkedHasLost'
  BY <1>8 DEF Miss
<1>9. ASSUME NEW a \in Attempt, Commit(a) PROVE ForkedHasLost'
  BY <1>9 DEF Commit, Ledger!Write, Answered
<1>10. ASSUME NEW a \in Attempt, Refused(a) PROVE ForkedHasLost'
  BY <1>10 DEF Refused, Ends
<1>11. ASSUME NEW a \in Attempt, Complete(a) PROVE ForkedHasLost'
  BY <1>11 DEF Complete, Ledger!Close
<1>12. ASSUME NEW a \in Attempt, CompleteRefused(a) PROVE ForkedHasLost'
  BY <1>12 DEF CompleteRefused, Ends
<1>13. ASSUME NEW a \in Attempt, Dies(a) PROVE ForkedHasLost'
  BY <1>13 DEF Dies, Ends
<1>14. ASSUME NEW a \in Attempt, Guard(a) PROVE ForkedHasLost'
  BY <1>14 DEF Guard
<1>15. ASSUME NEW a \in Attempt, GuardRefused(a) PROVE ForkedHasLost'
  BY <1>15 DEF GuardRefused
<1>16. ASSUME NEW a \in Attempt, Land(a) PROVE ForkedHasLost'
  BY <1>16 DEF Land
<1>17. ASSUME NEW a \in Attempt, Recheck(a) PROVE ForkedHasLost'
  BY <1>17 DEF Recheck
<1>18. ASSUME NEW a \in Attempt, ForkRecorded(a) PROVE ForkedHasLost'
  BY <1>18 DEF ForkRecorded
<1>19. ASSUME NEW a \in Attempt, RecheckFails(a) PROVE ForkedHasLost'
  BY <1>19 DEF RecheckFails
<1>20. ASSUME NEW a \in Attempt, NEW v \in Result, Compute(a, v) PROVE ForkedHasLost'
  BY <1>20 DEF Compute
<1>21. CASE UNCHANGED vars
  BY <1>21 DEF vars, ledgerVars
<1>22. QED
  BY <1>1, <1>2, <1>3, <1>4, <1>5, <1>6, <1>7, <1>8, <1>9, <1>10, <1>11, <1>12, <1>13,
     <1>14, <1>15, <1>16, <1>17, <1>18, <1>19, <1>20, <1>21 DEF Next, GraphStep,
     WriterStep

\* Every step leaves a missed operation to the same or a later attempt.
LEMMA MissedStep ==
  ASSUME IInv, [Next]_vars
  PROVE  MissedIsEarlier'
<1> USE OpsAssumption, NoneAssumption DEF IInv, TypeInv, TypeOK, Working, OneAuthority,
        ActorsWereGranted, MissedIsEarlier, Passes, ledgerVars, Attempt, Rows, NextOp,
        pos, Row, Op
<1>1. CASE Claim
  BY <1>1 DEF Claim, Ledger!Grant
<1>2. CASE Sweep
  BY <1>2 DEF Sweep, Ledger!Revoke
<1>3. CASE Exhaust
  BY <1>3 DEF Exhaust, Ledger!Close
<1>4. CASE PruneResults
  BY <1>4 DEF PruneResults, Ledger!Purge
<1>5. CASE DeleteThread
  BY <1>5 DEF DeleteThread
<1>6. ASSUME NEW a \in Attempt, Load(a) PROVE MissedIsEarlier'
  BY <1>6 DEF Load
<1>7. ASSUME NEW a \in Attempt, Reuse(a) PROVE MissedIsEarlier'
  BY <1>7 DEF Reuse, Answered
<1>8. ASSUME NEW a \in Attempt, Miss(a) PROVE MissedIsEarlier'
  BY <1>8 DEF Miss
<1>9. ASSUME NEW a \in Attempt, Commit(a) PROVE MissedIsEarlier'
  <2>1. NextOp(a) \in Op /\ authority[TheRun] = a /\ pruned' = pruned
    BY <1>9 DEF Commit
  <2>2. Rows' = [Rows EXCEPT ![NextOp(a)] = [value |-> answer[a], by |-> a]]
    BY <1>9, <2>1 DEF Commit, Ledger!Write
  <2>3. ASSUME NEW b \in Attempt, pc'[b] = "computing"
        PROVE  b # a /\ pc[b] = "computing" /\ values'[b] = values[b]
    BY <1>9, <2>3 DEF Commit, Answered
  <2>4. \A b \in Attempt : pc[b] # "off" => b <= a
    BY <2>1
  <2>5. QED
    BY <2>1, <2>2, <2>3, <2>4
<1>10. ASSUME NEW a \in Attempt, Refused(a) PROVE MissedIsEarlier'
  BY <1>10 DEF Refused, Ends
<1>11. ASSUME NEW a \in Attempt, Complete(a) PROVE MissedIsEarlier'
  BY <1>11 DEF Complete, Ledger!Close
<1>12. ASSUME NEW a \in Attempt, CompleteRefused(a) PROVE MissedIsEarlier'
  BY <1>12 DEF CompleteRefused, Ends
<1>13. ASSUME NEW a \in Attempt, Dies(a) PROVE MissedIsEarlier'
  BY <1>13 DEF Dies, Ends
<1>14. ASSUME NEW a \in Attempt, Guard(a) PROVE MissedIsEarlier'
  BY <1>14 DEF Guard
<1>15. ASSUME NEW a \in Attempt, GuardRefused(a) PROVE MissedIsEarlier'
  BY <1>15 DEF GuardRefused
<1>16. ASSUME NEW a \in Attempt, Land(a) PROVE MissedIsEarlier'
  BY <1>16 DEF Land
<1>17. ASSUME NEW a \in Attempt, Recheck(a) PROVE MissedIsEarlier'
  BY <1>17 DEF Recheck
<1>18. ASSUME NEW a \in Attempt, ForkRecorded(a) PROVE MissedIsEarlier'
  BY <1>18 DEF ForkRecorded
<1>19. ASSUME NEW a \in Attempt, RecheckFails(a) PROVE MissedIsEarlier'
  BY <1>19 DEF RecheckFails
<1>20. ASSUME NEW a \in Attempt, NEW v \in Result, Compute(a, v) PROVE MissedIsEarlier'
  BY <1>20 DEF Compute
<1>21. CASE UNCHANGED vars
  BY <1>21 DEF vars, ledgerVars
<1>22. QED
  BY <1>1, <1>2, <1>3, <1>4, <1>5, <1>6, <1>7, <1>8, <1>9, <1>10, <1>11, <1>12, <1>13,
     <1>14, <1>15, <1>16, <1>17, <1>18, <1>19, <1>20, <1>21 DEF Next, GraphStep,
     WriterStep

\* Every step keeps states and checkpoints backed.
LEMMA FollowStep ==
  ASSUME TypeInv, OneAuthority, StatesFollowResults, [Next]_vars
  PROVE  StatesFollowResults'
<1> USE OpsAssumption, NoneAssumption, BoundaryAssumption DEF TypeInv, TypeOK, Working,
        OneAuthority, StatesFollowResults, Passes, Stored, ledgerVars, Rows, NextOp,
        pos, Row, Op
<1>1. CASE Claim
  BY <1>1 DEF Claim, Ledger!Grant
<1>2. CASE Sweep
  BY <1>2 DEF Sweep, Ledger!Revoke
<1>3. CASE Exhaust
  BY <1>3 DEF Exhaust, Ledger!Close
<1>4. CASE PruneResults
  BY <1>4 DEF PruneResults, Ledger!Purge
<1>5. CASE DeleteThread
  BY <1>5 DEF DeleteThread
<1>6. ASSUME NEW a \in Attempt, Load(a) PROVE StatesFollowResults'
  <2>1. UNCHANGED <<ledger, thread, pruned>>
    BY <1>6 DEF Load
  <2>2. CASE values' = values
    BY <2>1, <2>2
  <2>3. ASSUME NEW b \in Attempt, Stored(b),
               values' = [values EXCEPT ![a] = thread[b]]
        PROVE  StatesFollowResults'
    BY <2>1, <2>3
  <2>4. QED
    BY <1>6, <2>2, <2>3 DEF Load
<1>7. ASSUME NEW a \in Attempt, Reuse(a) PROVE StatesFollowResults'
  BY <1>7 DEF Reuse, Answered
<1>8. ASSUME NEW a \in Attempt, Miss(a) PROVE StatesFollowResults'
  BY <1>8 DEF Miss
<1>9. ASSUME NEW a \in Attempt, Commit(a) PROVE StatesFollowResults'
  BY <1>9 DEF Commit, Ledger!Write, Answered
<1>10. ASSUME NEW a \in Attempt, Refused(a) PROVE StatesFollowResults'
  BY <1>10 DEF Refused, Ends
<1>11. ASSUME NEW a \in Attempt, Complete(a) PROVE StatesFollowResults'
  BY <1>11 DEF Complete, Ledger!Close
<1>12. ASSUME NEW a \in Attempt, CompleteRefused(a) PROVE StatesFollowResults'
  BY <1>12 DEF CompleteRefused, Ends
<1>13. ASSUME NEW a \in Attempt, Dies(a) PROVE StatesFollowResults'
  BY <1>13 DEF Dies, Ends
<1>14. ASSUME NEW a \in Attempt, Guard(a) PROVE StatesFollowResults'
  BY <1>14 DEF Guard
<1>15. ASSUME NEW a \in Attempt, GuardRefused(a) PROVE StatesFollowResults'
  BY <1>15 DEF GuardRefused
<1>16. ASSUME NEW a \in Attempt, Land(a) PROVE StatesFollowResults'
  <2>1. PICK b \in Boundary :
          /\ b <= pos(a)
          /\ thread' = [thread EXCEPT ![a] = SubSeq(values[a], 1, b)]
    BY <1>16 DEF Land, Due
  <2>2. /\ SubSeq(values[a], 1, b) \in Seq(Result)
        /\ Len(SubSeq(values[a], 1, b)) = b
        /\ \A o \in 1..b : SubSeq(values[a], 1, b)[o] = values[a][o]
    BY <2>1
  <2>3. UNCHANGED <<ledger, values, pruned>>
    BY <1>16 DEF Land
  <2>4. \A c \in Attempt \ {a} : thread'[c] = thread[c]
    BY <2>1
  <2>5. thread'[a] = SubSeq(values[a], 1, b)
    BY <2>1
  <2>6. QED
    BY <2>1, <2>2, <2>3, <2>4, <2>5
<1>17. ASSUME NEW a \in Attempt, Recheck(a) PROVE StatesFollowResults'
  BY <1>17 DEF Recheck
<1>18. ASSUME NEW a \in Attempt, ForkRecorded(a) PROVE StatesFollowResults'
  BY <1>18 DEF ForkRecorded
<1>19. ASSUME NEW a \in Attempt, RecheckFails(a) PROVE StatesFollowResults'
  BY <1>19 DEF RecheckFails
<1>20. ASSUME NEW a \in Attempt, NEW v \in Result, Compute(a, v) PROVE StatesFollowResults'
  BY <1>20 DEF Compute
<1>21. CASE UNCHANGED vars
  <2>1. UNCHANGED <<ledger, values, thread, pruned>>
    BY <1>21 DEF vars
  <2>2. QED
    BY <2>1
<1>22. QED
  BY <1>1, <1>2, <1>3, <1>4, <1>5, <1>6, <1>7, <1>8, <1>9, <1>10, <1>11, <1>12, <1>13,
     <1>14, <1>15, <1>16, <1>17, <1>18, <1>19, <1>20, <1>21 DEF Next, GraphStep,
     WriterStep

\* Every step keeps calls no later than the commit of their operation.
LEMMA CallsStep ==
  ASSUME IInv, [Next]_vars
  PROVE  NoCallAfterCommit'
<1> USE OpsAssumption, NoneAssumption DEF IInv, TypeInv, TypeOK, Working, OneAuthority,
        ActorsWereGranted, MissedIsEarlier, NoCallAfterCommit, Passes, ledgerVars, Rows,
        NextOp, pos, Row, Op
<1>1. CASE Claim
  BY <1>1 DEF Claim, Ledger!Grant
<1>2. CASE Sweep
  BY <1>2 DEF Sweep, Ledger!Revoke
<1>3. CASE Exhaust
  BY <1>3 DEF Exhaust, Ledger!Close
<1>4. CASE PruneResults
  BY <1>4 DEF PruneResults, Ledger!Purge
<1>5. CASE DeleteThread
  BY <1>5 DEF DeleteThread
<1>6. ASSUME NEW a \in Attempt, Load(a) PROVE NoCallAfterCommit'
  BY <1>6 DEF Load
<1>7. ASSUME NEW a \in Attempt, Reuse(a) PROVE NoCallAfterCommit'
  BY <1>7 DEF Reuse, Answered
<1>8. ASSUME NEW a \in Attempt, Miss(a) PROVE NoCallAfterCommit'
  BY <1>8 DEF Miss
<1>9. ASSUME NEW a \in Attempt, Commit(a) PROVE NoCallAfterCommit'
  BY <1>9 DEF Commit, Ledger!Write, Answered
<1>10. ASSUME NEW a \in Attempt, Refused(a) PROVE NoCallAfterCommit'
  BY <1>10 DEF Refused, Ends
<1>11. ASSUME NEW a \in Attempt, Complete(a) PROVE NoCallAfterCommit'
  BY <1>11 DEF Complete, Ledger!Close
<1>12. ASSUME NEW a \in Attempt, CompleteRefused(a) PROVE NoCallAfterCommit'
  BY <1>12 DEF CompleteRefused, Ends
<1>13. ASSUME NEW a \in Attempt, Dies(a) PROVE NoCallAfterCommit'
  BY <1>13 DEF Dies, Ends
<1>14. ASSUME NEW a \in Attempt, Guard(a) PROVE NoCallAfterCommit'
  BY <1>14 DEF Guard
<1>15. ASSUME NEW a \in Attempt, GuardRefused(a) PROVE NoCallAfterCommit'
  BY <1>15 DEF GuardRefused
<1>16. ASSUME NEW a \in Attempt, Land(a) PROVE NoCallAfterCommit'
  BY <1>16 DEF Land
<1>17. ASSUME NEW a \in Attempt, Recheck(a) PROVE NoCallAfterCommit'
  BY <1>17 DEF Recheck
<1>18. ASSUME NEW a \in Attempt, ForkRecorded(a) PROVE NoCallAfterCommit'
  BY <1>18 DEF ForkRecorded
<1>19. ASSUME NEW a \in Attempt, RecheckFails(a) PROVE NoCallAfterCommit'
  BY <1>19 DEF RecheckFails
<1>20. ASSUME NEW a \in Attempt, NEW v \in Result, Compute(a, v) PROVE NoCallAfterCommit'
  BY <1>20 DEF Compute
<1>21. CASE UNCHANGED vars
  BY <1>21 DEF vars, ledgerVars
<1>22. QED
  BY <1>1, <1>2, <1>3, <1>4, <1>5, <1>6, <1>7, <1>8, <1>9, <1>10, <1>11, <1>12, <1>13,
     <1>14, <1>15, <1>16, <1>17, <1>18, <1>19, <1>20, <1>21 DEF Next, GraphStep,
     WriterStep

\* Every step keeps the forks on record.
LEMMA ForksStep ==
  ASSUME IInv, [Next]_vars
  PROVE  ForksAreRecorded'
<1> USE OpsAssumption DEF IInv, TypeInv, TypeOK, OneAuthority, ActorsWereGranted,
        ForkedHasLost, ForksAreRecorded, Passes, ledgerVars, Alive
<1>1. CASE Claim
  BY <1>1 DEF Claim, Ledger!Grant
<1>2. CASE Sweep
  BY <1>2 DEF Sweep, Ledger!Revoke
<1>3. CASE Exhaust
  BY <1>3 DEF Exhaust, Ledger!Close
<1>4. CASE PruneResults
  BY <1>4 DEF PruneResults, Ledger!Purge
<1>5. CASE DeleteThread
  BY <1>5 DEF DeleteThread
<1>6. ASSUME NEW a \in Attempt, Load(a) PROVE ForksAreRecorded'
  BY <1>6 DEF Load
<1>7. ASSUME NEW a \in Attempt, Reuse(a) PROVE ForksAreRecorded'
  BY <1>7 DEF Reuse, Answered
<1>8. ASSUME NEW a \in Attempt, Miss(a) PROVE ForksAreRecorded'
  BY <1>8 DEF Miss
<1>9. ASSUME NEW a \in Attempt, Commit(a) PROVE ForksAreRecorded'
  BY <1>9 DEF Commit, Ledger!Write, Answered
<1>10. ASSUME NEW a \in Attempt, Refused(a) PROVE ForksAreRecorded'
  BY <1>10 DEF Refused, Ends
<1>11. ASSUME NEW a \in Attempt, Complete(a) PROVE ForksAreRecorded'
  BY <1>11 DEF Complete, Ledger!Close
<1>12. ASSUME NEW a \in Attempt, CompleteRefused(a) PROVE ForksAreRecorded'
  BY <1>12 DEF CompleteRefused, Ends
<1>13. ASSUME NEW a \in Attempt, Dies(a) PROVE ForksAreRecorded'
  BY <1>13 DEF Dies, Ends
<1>14. ASSUME NEW a \in Attempt, Guard(a) PROVE ForksAreRecorded'
  BY <1>14 DEF Guard
<1>15. ASSUME NEW a \in Attempt, GuardRefused(a) PROVE ForksAreRecorded'
  BY <1>15 DEF GuardRefused
<1>16. ASSUME NEW a \in Attempt, Land(a) PROVE ForksAreRecorded'
  BY <1>16 DEF Land
<1>17. ASSUME NEW a \in Attempt, Recheck(a) PROVE ForksAreRecorded'
  BY <1>17 DEF Recheck
<1>18. ASSUME NEW a \in Attempt, ForkRecorded(a) PROVE ForksAreRecorded'
  BY <1>18 DEF ForkRecorded
<1>19. ASSUME NEW a \in Attempt, RecheckFails(a) PROVE ForksAreRecorded'
  BY <1>19 DEF RecheckFails
<1>20. ASSUME NEW a \in Attempt, NEW v \in Result, Compute(a, v) PROVE ForksAreRecorded'
  BY <1>20 DEF Compute
<1>21. CASE UNCHANGED vars
  BY <1>21 DEF vars, ledgerVars
<1>22. QED
  BY <1>1, <1>2, <1>3, <1>4, <1>5, <1>6, <1>7, <1>8, <1>9, <1>10, <1>11, <1>12, <1>13,
     <1>14, <1>15, <1>16, <1>17, <1>18, <1>19, <1>20, <1>21 DEF Next, GraphStep,
     WriterStep

\* The run starts unclaimed, with nothing done.
LEMMA InitInv == Init => IInv
  BY OpsAssumption DEF Init, Ledger!Init, IInv, TypeInv, TypeOK, Working,
     OneAuthority, ActorsWereGranted, ForkedHasLost, MissedIsEarlier,
     StatesFollowResults, NoCallAfterCommit, ForksAreRecorded, Passes, pos,
     Stored, Rows, Alive, Row

\* The parts stand together.
LEMMA Inductive == IInv /\ [Next]_vars => IInv'
  BY TypeStep, OneAuthorityStep, GrantedStep, ForkedStep, MissedStep,
     FollowStep, CallsStep, ForksStep DEF IInv

LEMMA Invariance == Spec => []IInv
  BY InitInv, Inductive, PTL DEF Spec

-----------------------------------------------------------------------------

\* Every reachable state is of its type, for any number of attempts, operations
\* and boundaries.
THEOREM TypeCorrect == Spec => []TypeOK
<1>1. IInv => TypeOK
  BY DEF IInv, TypeInv
<1>2. QED
  BY <1>1, Invariance, PTL

\* Whatever attempts run, lose the run, die and resume, in whatever order their
\* writers store checkpoints, an attempt's state and every stored checkpoint hold
\* the committed results: committed() and the fenced checkpointer together.
THEOREM StatesAreBacked == Spec => []StatesFollowResults
<1>1. IInv => StatesFollowResults
  BY DEF IInv
<1>2. QED
  BY <1>1, Invariance, PTL

\* Once an attempt has committed an operation, no later one pays for it again.
THEOREM CommittedIsNotCalledAgain == Spec => []NoCallAfterCommit
<1>1. IInv => NoCallAfterCommit
  BY DEF IInv
<1>2. QED
  BY <1>1, Invariance, PTL

\* A write that landed after its attempt lost the run is on record, however late
\* the second look of FencedCheckpointer comes.
THEOREM ForksStayOnRecord == Spec => []ForksAreRecorded
<1>1. IInv => ForksAreRecorded
  BY DEF IInv
<1>2. QED
  BY <1>1, Invariance, PTL

-----------------------------------------------------------------------------
(* What an attempt, its checkpoint writer and the retention do to the run is *)
(* what CommittedLedger allows.                                              *)

\* Every step is one of the ledger's or leaves it alone.
LEMMA LedgerStep ==
  ASSUME IInv, [Next]_vars
  PROVE  [Ledger!Next]_(Ledger!vars)
<1> USE DEF Ledger!Next
<1>1. CASE UNCHANGED ledgerVars
  BY <1>1 DEF ledgerVars, Ledger!vars
<1>2. CASE Claim
  BY <1>2 DEF Claim
<1>3. CASE Sweep
  <2>1. {TheRun} \in SUBSET {TheRun}
    OBVIOUS
  <2>2. QED
    BY <1>3, <2>1 DEF Sweep
<1>4. CASE Exhaust
  BY <1>4 DEF Exhaust
<1>5. CASE PruneResults
  BY <1>5 DEF PruneResults
<1>6. ASSUME NEW a \in Attempt, Commit(a)
      PROVE  [Ledger!Next]_(Ledger!vars)
  <2>1. NextOp(a) \in Op /\ answer[a] \in Result
    BY <1>6, OpsAssumption
       DEF Commit, IInv, TypeInv, TypeOK, Working, NextOp, pos, Op
  <2>2. QED
    BY <1>6, <2>1 DEF Commit
<1>7. ASSUME NEW a \in Attempt, Complete(a)
      PROVE  [Ledger!Next]_(Ledger!vars)
  BY <1>7 DEF Complete
<1>8. QED
  BY <1>1, <1>2, <1>3, <1>4, <1>5, <1>6, <1>7
     DEF Next, GraphStep, WriterStep, vars, Load, Reuse, Miss, Compute,
         Refused, CompleteRefused, Dies, Guard, GuardRefused, Land, Recheck,
         ForkRecorded, RecheckFails, DeleteThread

\* A run of checkpointed attempts keeps the ledger's promise, which DurableRun
\* implements (ImplementsTheLedger): what is proved here of the attempts holds
\* over the store as it is.
THEOREM RunKeepsTheLedger == Spec => Ledger!Spec
<1>1. Init => Ledger!Init
  BY DEF Init
<1>2. IInv /\ [Next]_vars => [Ledger!Next]_(Ledger!vars)
  BY LedgerStep
<1>3. QED
  BY <1>1, <1>2, Invariance, PTL DEF Spec, Ledger!Spec

=============================================================================
