------------------------------ MODULE DurableRun ------------------------------
(***************************************************************************)
(* Durable run execution: the runs table with its lease-based ownership    *)
(* (run-store.ts), the fenced write context every worker writes through    *)
(* (run-write-context.ts) and the pruning of a terminal run's results      *)
(* (retention.ts), as the PostgreSQL rows and row locks they act on.       *)
(*                                                                         *)
(* One SQL statement outside a transaction is one action.  A fenced        *)
(* transaction is two: the fence, which takes the run row's FOR SHARE      *)
(* lock, and the work with its COMMIT or ROLLBACK, which releases it.      *)
(* Between the two, other statements run: this is where a sweep, a claim,  *)
(* a heartbeat or another transaction of the same claim can interfere.     *)
(*                                                                         *)
(* A Call is one invocation of the context's API: committed(),             *)
(* markWaitingHuman(), complete() or fail().  It belongs to the claim of   *)
(* the worker that made it, for ever: a worker that lost its run and still *)
(* runs (a zombie) is a call whose claim is no longer the run's.           *)
(***************************************************************************)
EXTENDS Naturals, Sequences

CONSTANTS
    Run,                    \* run ids
    Worker,                 \* worker ids
    Key,                    \* exec_keys of one run's logical operations
    Input,                  \* inputFingerprints a caller may pass
    Result,                 \* results compute() may answer with
    Call,                   \* API calls; each is made at most once
    MaxExecutionAttempts,   \* RunStoreOptions.maxExecutionAttempts
    None                    \* SQL NULL, and an absent row

ASSUME AttemptsAssumption == MaxExecutionAttempts \in Nat \ {0}
ASSUME NoneAssumption ==
    None \notin Worker \cup Key \cup Input \cup Result \cup Run

VARIABLES
    status,     \* runs.status; "absent" before createRun
    owner,      \* runs.owner_worker_id
    lease,      \* runs.lease_expires_at against clock_timestamp()
    attempt,    \* runs.execution_attempt
    recovery,   \* runs.recovery_count
    reason,     \* runs.terminal_reason
    created,    \* the runs in created_at order
    claims,     \* every claim handed out by claimNext or claimRun
    renewing,   \* claims whose heartbeat waits behind a fenced transaction
    results,    \* node_results
    events,     \* run_events, in seq order
    rejections, \* fence_rejections
    call        \* the API calls and where each of them is

runVars == <<status, owner, lease, attempt, recovery, reason>>
vars == <<runVars, created, claims, renewing, results, events, rejections,
          call>>

-----------------------------------------------------------------------------
(* The rows and the records. *)

Terminal == {"completed", "failed"}
Status == {"absent", "queued", "running", "waiting_human"} \cup Terminal

Claim == [run : Run, worker : Worker, attempt : 1..MaxExecutionAttempts]

\* A node_results row: value stands for result_sha, and intact says whether
\* result_json still hashes to it.
NodeResult == [input : Input, value : Result, by : 1..MaxExecutionAttempts,
               intact : BOOLEAN]

\* NULL is neither a stored row nor what a reader makes of one.
ASSUME NoneIsNoRow ==
    /\ None \notin NodeResult
    /\ None \notin [value : Result, by : 1..MaxExecutionAttempts]

EventType == {"committed", "reused", "violation"} \cup
             {"waiting_human", "completed", "failed"}
Event == [type : EventType, attempt : 1..MaxExecutionAttempts]

\* markWaitingHuman, complete and fail, named by the status they write.
CloseOp == {"waiting_human", "completed", "failed"}
Op == {"committed"} \cup CloseOp

InTxPc == {"peeking", "committing", "closing"}
Pc == InTxPc \cup
      {"unused", "computing", "refused",
       "returned", "violated", "aborted", "stale", "unrecorded"}

CallState == [pc : Pc, op : Op, claim : Claim \cup {None},
              key : Key \cup {None}, input : Input \cup {None},
              value : Result \cup {None}]

NoCall == [pc |-> "unused", op |-> "committed", claim |-> None,
           key |-> None, input |-> None, value |-> None]

Rejection == [claim : Claim, kind : Op]

\* The fence's predicate, RUN_WRITE_CONTEXT_FENCE_SQL.
Fence(c) ==
    /\ status[c.run] = "running"
    /\ owner[c.run] = c.worker
    /\ attempt[c.run] = c.attempt
    /\ lease[c.run] = "live"

\* Mutant: compute() runs inside the first fenced transaction.
InTxComputing(s) == call[s].pc \in InTxPc \cup {"computing"}

\* Some fenced transaction is open on r's row and holds its FOR SHARE lock.
InTx(s) == call[s].pc \in InTxPc
Holds(s, r) == InTx(s) /\ call[s].claim.run = r
Locked(r) == \E s \in Call : Holds(s, r)

-----------------------------------------------------------------------------
(* run-store.ts *)

Init ==
    /\ status = [r \in Run |-> "absent"]
    /\ owner = [r \in Run |-> None]
    /\ lease = [r \in Run |-> "none"]
    /\ attempt = [r \in Run |-> 0]
    /\ recovery = [r \in Run |-> 0]
    /\ reason = [r \in Run |-> None]
    /\ created = <<>>
    /\ claims = {}
    /\ renewing = {}
    /\ results = [r \in Run |-> [k \in Key |-> None]]
    /\ events = [r \in Run |-> <<>>]
    /\ rejections = {}
    /\ call = [s \in Call |-> NoCall]

CreateRun(r) ==
    /\ status[r] = "absent"
    /\ status' = [status EXCEPT ![r] = "queued"]
    /\ created' = Append(created, r)
    /\ UNCHANGED <<owner, lease, attempt, recovery, reason, claims, renewing,
                   results, events, rejections, call>>

\* The claimed branch shared by claimNext and claimRun.
Claimed(r, w) ==
    /\ attempt[r] < MaxExecutionAttempts
    /\ status' = [status EXCEPT ![r] = "running"]
    /\ owner' = [owner EXCEPT ![r] = w]
    /\ lease' = [lease EXCEPT ![r] = "live"]
    /\ attempt' = [attempt EXCEPT ![r] = @ + 1]
    /\ claims' = claims \cup {[run |-> r, worker |-> w,
                               attempt |-> attempt[r] + 1]}
    /\ UNCHANGED <<recovery, reason>>

\* The exhausted branch: the run fails without being handed to anyone.
Exhausted(r) ==
    /\ attempt[r] >= MaxExecutionAttempts
    /\ status' = [status EXCEPT ![r] = "failed"]
    /\ reason' = [reason EXCEPT ![r] = "recovery_exhausted"]
    /\ UNCHANGED <<owner, lease, attempt, recovery, claims>>

\* r is the queued run with the least created_at.
OldestQueued(r) ==
    \E i \in DOMAIN created :
        /\ created[i] = r
        /\ status[r] = "queued"
        /\ \A j \in 1..(i - 1) : status[created[j]] # "queued"

\* One pass of claimNext's loop.
ClaimNext(w) ==
    \E r \in Run :
        /\ OldestQueued(r)
        /\ Claimed(r, w) \/ Exhausted(r)
        /\ UNCHANGED <<created, renewing, results, events, rejections, call>>

ClaimRun(r, w) ==
    /\ status[r] = "queued"
    /\ Claimed(r, w) \/ Exhausted(r)
    /\ UNCHANGED <<created, renewing, results, events, rejections, call>>

\* The runs one sweep requeues: FOR UPDATE SKIP LOCKED passes over a row that
\* an open fenced transaction share-locks.
Sweepable ==
    {r \in Run : status[r] = "running" /\ lease[r] = "expired" /\ ~Locked(r)}

SweepExpired ==
    /\ Sweepable # {}
    /\ status' = [r \in Run |-> IF r \in Sweepable THEN "queued" ELSE status[r]]
    /\ owner' = [r \in Run |-> IF r \in Sweepable THEN None ELSE owner[r]]
    /\ lease' = [r \in Run |-> IF r \in Sweepable THEN "none" ELSE lease[r]]
    /\ recovery' = [r \in Run |-> IF r \in Sweepable THEN recovery[r] + 1
                                                     ELSE recovery[r]]
    /\ UNCHANGED <<attempt, reason, created, claims, renewing, results, events,
                   rejections, call>>

\* A heartbeat whose UPDATE finds the row free.
RenewLease(c) ==
    /\ Fence(c)
    /\ ~Locked(c.run)
    /\ lease' = [lease EXCEPT ![c.run] = "live"]
    /\ UNCHANGED <<status, owner, attempt, recovery, reason, created, claims,
                   renewing, results, events, rejections, call>>

\* A heartbeat whose WHERE matched and whose UPDATE now waits for the row lock
\* of an open fenced transaction.
RenewBlocks(c) ==
    /\ Fence(c)
    /\ Locked(c.run)
    /\ renewing' = renewing \cup {c}
    /\ UNCHANGED <<runVars, created, claims, results, events, rejections, call>>

\* The lock is gone.  A row nobody changed meanwhile is updated without a
\* second look at its lease; a changed one is matched again.
RenewResumes(c) ==
    /\ c \in renewing
    /\ ~Locked(c.run)
    /\ renewing' = renewing \ {c}
    /\ lease' = IF /\ status[c.run] = "running"
                   /\ owner[c.run] = c.worker
                   /\ attempt[c.run] = c.attempt
                THEN [lease EXCEPT ![c.run] = "live"]
                ELSE lease
    /\ UNCHANGED <<status, owner, attempt, recovery, reason, created, claims,
                   results, events, rejections, call>>

\* clock_timestamp() passes a lease_expires_at.
LeaseExpires(r) ==
    /\ lease[r] = "live"
    /\ lease' = [lease EXCEPT ![r] = "expired"]
    /\ UNCHANGED <<status, owner, attempt, recovery, reason, created, claims,
                   renewing, results, events, rejections, call>>

-----------------------------------------------------------------------------
(* run-write-context.ts: runFenced and the API calls built on it. *)

\* An event carries the attempt of the claim whose transaction appends it; its
\* seq, from run_event_counters, is its place in the sequence.
Appended(s, type) ==
    events' = [events EXCEPT ![call[s].claim.run] =
                  Append(@, [type |-> type, attempt |-> call[s].claim.attempt])]

Row(s) == results[call[s].claim.run][call[s].key]

\* The end of a call, or of one of its transactions.
Becomes(s, pc) == call' = [call EXCEPT ![s].pc = pc]
Answers(s, value) == call' = [call EXCEPT ![s].pc = "returned",
                                          ![s].value = value]

\* committed(): the first fenced transaction begins.
BeginCommitted(s, c, k, i) ==
    /\ call[s].pc = "unused"
    /\ call' = [call EXCEPT ![s] =
                  [pc |-> IF Fence(c) THEN "peeking" ELSE "refused",
                   op |-> "committed", claim |-> c, key |-> k, input |-> i,
                   value |-> None]]
    /\ UNCHANGED <<runVars, created, claims, renewing, results, events,
                   rejections>>

\* No row: the transaction ends and compute() starts with none open.
PeekMiss(s) ==
    /\ call[s].pc = "peeking"
    /\ Row(s) = None
    /\ Becomes(s, "computing")
    /\ UNCHANGED <<runVars, created, claims, renewing, results, events,
                   rejections>>

PeekReuse(s) ==
    /\ call[s].pc = "peeking"
    /\ Row(s) # None
    /\ Row(s).input = call[s].input
    /\ Row(s).intact
    /\ Appended(s, "reused")
    /\ Answers(s, Row(s).value)
    /\ UNCHANGED <<runVars, created, claims, renewing, results, rejections>>

\* Another inputFingerprint, or text that no longer hashes to result_sha: the
\* violation's event commits before the error is thrown.
PeekViolation(s) ==
    /\ call[s].pc = "peeking"
    /\ Row(s) # None
    /\ Row(s).input # call[s].input \/ ~Row(s).intact
    /\ Appended(s, "violation")
    /\ Becomes(s, "violated")
    /\ UNCHANGED <<runVars, created, claims, renewing, results, rejections>>

\* compute() answers v, and the second fenced transaction begins.
Computed(s, v) ==
    /\ call[s].pc = "computing"
    /\ call' = [call EXCEPT
                  ![s].pc = IF Fence(call[s].claim) THEN "committing"
                                                    ELSE "refused",
                  ![s].value = v]
    /\ UNCHANGED <<runVars, created, claims, renewing, results, events,
                   rejections>>

\* Mutant: the INSERT is an upsert, so the later commit replaces the result.
CommitUpserts(s) ==
    /\ call[s].pc = "committing"
    /\ results' = [results EXCEPT ![call[s].claim.run][call[s].key] =
                     [input |-> call[s].input, value |-> call[s].value,
                      by |-> call[s].claim.attempt, intact |-> TRUE]]
    /\ Appended(s, "committed")
    /\ Answers(s, call[s].value)
    /\ UNCHANGED <<runVars, created, claims, renewing, rejections>>

\* INSERT ... ON CONFLICT DO NOTHING inserted the row.
CommitWins(s) ==
    /\ call[s].pc = "committing"
    /\ Row(s) = None
    /\ results' = [results EXCEPT ![call[s].claim.run][call[s].key] =
                     [input |-> call[s].input, value |-> call[s].value,
                      by |-> call[s].claim.attempt, intact |-> TRUE]]
    /\ Appended(s, "committed")
    /\ Answers(s, call[s].value)
    /\ UNCHANGED <<runVars, created, claims, renewing, rejections>>

\* Mutant: the loser of the race answers its own result without comparing.
CommitAgreesBlindly(s) ==
    /\ call[s].pc = "committing"
    /\ Row(s) # None
    /\ Answers(s, call[s].value)
    /\ UNCHANGED <<runVars, created, claims, renewing, results, events,
                   rejections>>

\* A concurrent call of the same claim won with the same result.
CommitAgrees(s) ==
    /\ call[s].pc = "committing"
    /\ Row(s) # None
    /\ Row(s).value = call[s].value
    /\ Row(s).intact
    /\ Answers(s, Row(s).value)
    /\ UNCHANGED <<runVars, created, claims, renewing, results, events,
                   rejections>>

\* It won with another result, or its text is corrupt.
CommitViolation(s) ==
    /\ call[s].pc = "committing"
    /\ Row(s) # None
    /\ Row(s).value # call[s].value \/ ~Row(s).intact
    /\ Appended(s, "violation")
    /\ Becomes(s, "violated")
    /\ UNCHANGED <<runVars, created, claims, renewing, results, rejections>>

\* markWaitingHuman(), complete() or fail(), named by the status op it writes.
BeginClose(s, c, op) ==
    /\ call[s].pc = "unused"
    /\ call' = [call EXCEPT ![s] =
                  [pc |-> IF Fence(c) THEN "closing" ELSE "refused",
                   op |-> op, claim |-> c, key |-> None, input |-> None,
                   value |-> None]]
    /\ UNCHANGED <<runVars, created, claims, renewing, results, events,
                   rejections>>

\* The UPDATE waits for every other share lock on the row, then the event and
\* the COMMIT follow.
CloseRun(s) ==
    LET r == call[s].claim.run IN
    /\ call[s].pc = "closing"
    /\ \A t \in Call \ {s} : ~Holds(t, r)
    /\ status' = [status EXCEPT ![r] = call[s].op]
    /\ owner' = [owner EXCEPT ![r] = None]
    /\ lease' = [lease EXCEPT ![r] = "none"]
    /\ reason' = IF call[s].op = "waiting_human" THEN reason
                 ELSE [reason EXCEPT ![r] = "given"]
    /\ Appended(s, call[s].op)
    /\ Becomes(s, "returned")
    /\ UNCHANGED <<attempt, recovery, created, claims, renewing, results,
                   rejections>>

\* Two closing transactions of one claim wait for each other's share lock, and
\* PostgreSQL's deadlock detector aborts one of them.
DeadlockAborts(s) ==
    /\ call[s].pc = "closing"
    /\ \E t \in Call \ {s} :
          Holds(t, call[s].claim.run) /\ call[t].pc = "closing"
    /\ Becomes(s, "aborted")
    /\ UNCHANGED <<runVars, created, claims, renewing, results, events,
                   rejections>>

\* The transaction rolls back: a refused event payload, a lost connection or a
\* killed process.
RollBack(s) ==
    /\ InTx(s)
    /\ Becomes(s, "aborted")
    /\ UNCHANGED <<runVars, created, claims, renewing, results, events,
                   rejections>>

\* compute() throws, or its process dies.
ComputeFails(s) ==
    /\ call[s].pc = "computing"
    /\ Becomes(s, "aborted")
    /\ UNCHANGED <<runVars, created, claims, renewing, results, events,
                   rejections>>

\* recordRejectionAndThrow, after the refused transaction rolled back.
RecordRejection(s) ==
    /\ call[s].pc = "refused"
    /\ rejections' = rejections \cup
                       {[claim |-> call[s].claim, kind |-> call[s].op]}
    /\ Becomes(s, "stale")
    /\ UNCHANGED <<runVars, created, claims, renewing, results, events>>

\* The INSERT into fence_rejections fails: StaleOwnerError carries its cause.
RecordFails(s) ==
    /\ call[s].pc = "refused"
    /\ Becomes(s, "unrecorded")
    /\ UNCHANGED <<runVars, created, claims, renewing, results, events,
                   rejections>>

-----------------------------------------------------------------------------
(* retention.ts, and what happens to the database from outside. *)

\* pruneTerminalRun's transaction; FOR UPDATE waits out any fenced one.
PruneTerminalRun(r) ==
    /\ status[r] \in Terminal
    /\ ~Locked(r)
    /\ \E k \in Key : results[r][k] # None
    /\ results' = [results EXCEPT ![r] = [k \in Key |-> None]]
    /\ UNCHANGED <<runVars, created, claims, renewing, events, rejections, call>>

\* result_json is altered behind the code's back.
StoredTextCorrupts(r, k) ==
    /\ results[r][k] # None
    /\ results' = [results EXCEPT ![r][k] =
                     [results[r][k] EXCEPT !.intact = FALSE]]
    /\ UNCHANGED <<runVars, created, claims, renewing, events, rejections, call>>

-----------------------------------------------------------------------------

\* How an open fenced transaction ends when its connection stays: by its
\* statements and COMMIT, or aborted by PostgreSQL.
TxEnds(s) ==
    \/ PeekMiss(s) \/ PeekReuse(s) \/ PeekViolation(s)
    \/ CommitWins(s) \/ CommitAgrees(s) \/ CommitViolation(s)
    \/ CloseRun(s) \/ DeadlockAborts(s)

TxStep(s) == TxEnds(s) \/ RollBack(s)

CallStep(s) ==
    \/ TxStep(s)
    \/ \E c \in claims, k \in Key, i \in Input : BeginCommitted(s, c, k, i)
    \/ \E c \in claims, op \in CloseOp : BeginClose(s, c, op)
    \/ \E v \in Result : Computed(s, v)
    \/ ComputeFails(s) \/ RecordRejection(s) \/ RecordFails(s)

LeaseStep(c) == RenewLease(c) \/ RenewBlocks(c) \/ RenewResumes(c)

RunStep(r) ==
    \/ CreateRun(r)
    \/ \E w \in Worker : ClaimRun(r, w)
    \/ LeaseExpires(r)
    \/ PruneTerminalRun(r)
    \/ \E k \in Key : StoredTextCorrupts(r, k)

Next ==
    \/ \E r \in Run : RunStep(r)
    \/ \E w \in Worker : ClaimNext(w)
    \/ SweepExpired
    \/ \E c \in claims : LeaseStep(c)
    \/ \E s \in Call : CallStep(s)

Spec == Init /\ [][Next]_vars

-----------------------------------------------------------------------------
(* Fairness, for liveness only: the process that opened a transaction sends *)
(* its next statement, and PostgreSQL runs it or breaks a deadlock.  Nothing *)
(* obliges anyone to claim, to sweep, to renew, to let a compute() answer or *)
(* to lose a connection.                                                     *)

Fairness == \A s \in Call : WF_vars(TxEnds(s))

FairSpec == Spec /\ Fairness

-----------------------------------------------------------------------------
(* Properties. *)

TypeOK ==
    /\ status \in [Run -> Status]
    /\ owner \in [Run -> Worker \cup {None}]
    /\ lease \in [Run -> {"none", "live", "expired"}]
    /\ attempt \in [Run -> 0..MaxExecutionAttempts]
    /\ recovery \in [Run -> Nat]
    /\ reason \in [Run -> {None, "recovery_exhausted", "given"}]
    /\ created \in Seq(Run)
    /\ claims \in SUBSET Claim
    /\ renewing \in SUBSET Claim
    /\ results \in [Run -> [Key -> NodeResult \cup {None}]]
    /\ events \in [Run -> Seq(Event)]
    /\ rejections \in SUBSET Rejection
    /\ call \in [Call -> CallState]

\* An open fenced transaction is always the transaction of the run's current
\* owner: from its fence to its COMMIT no sweep, claim or close of the run
\* comes between, even after the lease has run out.
FenceHeld ==
    \A s \in Call : InTx(s) =>
        LET c == call[s].claim IN
        /\ status[c.run] = "running"
        /\ owner[c.run] = c.worker
        /\ attempt[c.run] = c.attempt

\* run_events, read in seq order, tells the run's story in the order of its
\* attempts, and nothing is appended once the run was closed: a superseded
\* attempt never writes evidence after its successor.
EventsInOrder ==
    \A r \in Run : \A i, j \in DOMAIN events[r] : i < j =>
        /\ events[r][i].attempt <= events[r][j].attempt
        /\ events[r][i].type \notin CloseOp

\* A value that committed() gave back stays the stored result of its key until
\* the run has ended: no later attempt, retry or concurrent call replaces it,
\* and every caller of a key got the same value.
AnswersAreDurable ==
    \A s \in Call :
        LET c == call[s].claim IN
        (call[s].pc = "returned" /\ call[s].op = "committed") =>
            \/ Row(s) # None /\ Row(s).value = call[s].value
            \/ Row(s) = None /\ status[c.run] \in Terminal

\* execution_attempt and recovery_count, written by different statements, tell
\* the same story: every claim but the current or closing one was recovered
\* from, and a run fails as exhausted exactly at the bound.
RecoveryAccounting ==
    \A r \in Run :
        /\ status[r] \in {"absent", "queued"} => attempt[r] = recovery[r]
        /\ status[r] \in {"running", "waiting_human", "completed"} =>
               attempt[r] = recovery[r] + 1
        /\ status[r] = "failed" =>
               IF reason[r] = "recovery_exhausted"
               THEN attempt[r] = recovery[r]
                    /\ attempt[r] = MaxExecutionAttempts
               ELSE attempt[r] = recovery[r] + 1

\* Once a run was swept, handed on or closed under a claim, that claim never
\* passes the fence again, also when the same worker id claims the run anew.
AuthorityNeverReturns ==
    [][\A c \in claims :
         (status[c.run] # "running" \/ attempt[c.run] # c.attempt)
             => ~Fence(c)']_vars

\* Whatever transactions a claim opens beside each other, two closers that
\* each wait for the other's share lock included, the run's row comes free:
\* the sweep that skips a locked row, and the heartbeat, the close and the
\* prune that wait for it, get to it, however long compute() takes.
RowsComeFree == \A r \in Run : Locked(r) ~> ~Locked(r)

\* The abstract promise, with the authority in force read off the runs row.
Ledger == INSTANCE CommittedLedger WITH
    MaxAuthority <- MaxExecutionAttempts,
    phase <- [r \in Run |->
                CASE status[r] \in Terminal -> "ended"
                  [] status[r] = "waiting_human" -> "parked"
                  [] OTHER -> "open"],
    authority <- [r \in Run |-> IF status[r] = "running" THEN attempt[r]
                                                        ELSE 0],
    granted <- attempt,
    ledger <- [r \in Run |-> [k \in Key |->
                IF results[r][k] = None THEN None
                ELSE [value |-> results[r][k].value,
                      by |-> results[r][k].by]]]

\* The runs table, the fence and node_results together implement the ledger:
\* single numbered authority, write-once results, bounded grants.
ImplementsLedger == Ledger!Spec

=============================================================================
