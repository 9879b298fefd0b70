# AI Incident Commander: specifications

TLA+ models of the AI Incident Commander, checked with TLC on small instances
and, for the parts named under Proofs, proved with TLAPS for every instance.
The reference is the code under `src/`; where a document and the code differ, the
modules follow the code and a run shows the difference.

## The system

The program investigates an incident: a graph of reasoning nodes, some backed by
a language model, gathers evidence through tools, weighs hypotheses, challenges
the leader and proposes a conclusion that a human may review. A run is durable:
it lives in PostgreSQL, several workers may pick it up one after the other, and
each result and checkpoint is written under a lease. Beside it stand a registry
of services and sources, the commands of the CLI, and an evaluation apparatus.

| Component | Code | State it keeps | Operations | Module |
|---|---|---|---|---|
| Run store | `persistence/src/run-store.ts` | `runs` rows: status, owner, lease, attempt, recovery count | createRun, claimNext, claimRun, renewLease, sweepExpired | `DurableRun` |
| Run write context | `persistence/src/run-write-context.ts` | `node_results`, `run_events`, `run_event_counters`, `run_trials`, `run_evidence`, `fence_rejections` | committed, markWaitingHuman, complete, fail, assertOwner | `DurableRun`, `RunTimeline` |
| Fenced checkpointer | `persistence/src/fenced-checkpointer.ts` | the saver's checkpoints | put, putWrites, deleteThread | `CheckpointedRun` |
| Retention | `persistence/src/retention.ts` | none | readRunProductSnapshot, pruneTerminalRun | `DurableRun`, `CheckpointedRun`, `RunTimeline` |
| Event stream | `persistence/src/run-event-stream.ts`, `domain/src/run-event-stream.ts` | the tail's cursor and page | readAfter, tail, parseLastEventId | `RunTimeline` |
| Investigation graph | `graph/src/investigation.ts` | `IncidentState`, its graph-owned control, the thread | start, resume (confirm, reject, add_hypothesis), continue, getState; twelve nodes | `InvestigationGraph`, `ReviewedThread` |
| What the nodes make of evidence | `graph/src/nodes/*`, `domain/src/*` | predictions, tests, trials, evidence, assessments | derive, plan, execute, evaluate, interpret, challenge | `PredictionRules`, `EvidencePipeline` |
| Termination check, standing | `graph/src/nodes/termination.ts`, `domain/src/hypothesis-standing.ts` | derived | decides the route after each lap | `StateTermination` |
| Model roles | `roles/src/investigation-roles.ts` | none | four roles, each one committed model call | `InvestigationGraph`, `CheckpointedRun`, `EvidencePipeline` |
| Usage ledger and ports | `roles/src/model-usage-ledger.ts`, `reference-model-port.ts` | reservations, usage | reserve, record | `ModelSpend` |
| Tools | `tools/src/*`, `tools/replay` | call budgets, recordings | executor, bound sources, migration, GitHub adapter | `BoundExecutor`, `BoundSources`, `GithubSource` |
| Registry and incidents | `persistence/src/registry-store.ts`, `incident-store.ts` | services, environments, credentials, bindings, policies, incidents | mutate, cascade delete, startIncident | `Registry`, `IncidentIntake` |
| CLI | `apps/cli/src/commands/*` | none | incident investigate, apply, incident start, registry | `IncidentInvestigate`, `RegistryApply`, `Clients` |
| Evaluations | `evals/src/*`, `scripts/*` | budgets, the one-shot claim of the hold-out, its publication | benchmark, live-model lane, final evaluation | `Benchmark`, `LiveModelLane`, `FinalEvaluation`, `FinalPublication` |
| Observability | `observability/src/index.ts` | published experiments, spans | publish, read back, record, export | `FinalPublication`, `Benchmark` (not spans) |

How they interact. `incident investigate` reads the registry, creates a run,
sweeps, claims it, starts a heartbeat, opens a write context for the claim and
executes the graph with a fenced checkpointer. Nodes that reach outside (model
roles, tool calls) go through `committed()`, which reads a stored answer or
calls, then stores. The checkpointer saves the state between nodes beside the
execution of the next one. Readers (`tail`, the product snapshot) and pruning
work on the same tables with no knowledge of the writers. The evaluations run
the same graph without a run's tables and send what they measured to an
ingestion service.

What is hard, and what makes it correct:

- **Ownership.** Leases expire while their owner works. A worker that lost its
  run goes on (a zombie) until something refuses it. Correct means that it never
  writes a result, an event or a status again (`ImplementsLedger`, and with it
  `FenceHeld`, `EventsInOrder`, `AuthorityNeverReturns`), also when the same
  worker id comes back.
- **Answers.** A result is computed with no transaction open. Correct means that
  an answer once given stays the answer (`AnswersAreDurable`), and that a later
  attempt does not call the outside world for it again (`NoCallAfterCommit`).
- **Checkpoints.** The saver's write is on a connection of its own, so the fence
  can only be checked before and after it. Correct means that the state a resume
  picks up agrees with the stored results (`StatesFollowResults`), that a
  checkpoint written without ownership is on record (`ForksAreRecorded`), and
  that nodes which run again from it build the same states and ask the model the
  same, but for the wall clock's stamps (`ResumeRebuilds`).
- **Recovery.** Runs whose workers die are retried up to a bound that is counted
  in three statements (`RecoveryAccounting`), and no transaction, whichever others
  its claim opened beside it, keeps the run's row from those who wait for it
  (`RowsComeFree`).
- **Readers.** Numbers are taken before a transaction commits, and a snapshot is
  four statements (`TailIsGapless`, `TailCatchesUp`, `SnapshotIsWhole`).
- **The graph.** Three cycles, two budgets, a reserve, a cap, and re-entries that
  pass some of the gates and not others (`BudgetsHold`, `ChallengeIsPaidFor`,
  `LapsEnd`, `KeysAreFresh`). The stop kind must mean what it says about the
  hypotheses (`StopKindIsJustified`).
- **Evidence.** Ids are content hashes, sources serve the same thing twice, a
  model may answer anything, and rules look at the state in several nodes. Correct
  means one trial per piece of evidence (`EvidenceHasOneTrial`), one execution per
  test (`TestsRunOnce`), verdicts that rest on clear, complete and timely evidence
  (`VerdictsRestOnEvidence`) and that stay (`DecisionsAreFinal`).
- **Humans.** The thread is checked and then invoked, by several callers, with ids
  that go stale (`DecisionsAnswerWhatWasShown`).
- **Sources.** Answers come late or cut, and recordings are one file that is
  rewritten whole (`LateAnswersAreDropped`, `RecordingsAreAnswers`,
  `RecordingsStay`, `PagesAreWhole`, `NothingLeaks`, `EveryCallReturns`).
- **Clients.** Commands read the registry, or a run, and act in other
  transactions (`RegistryIsValid`, `OneApplyGetsThrough`, `StartsAgree`,
  `AttemptsAskTheSame`, `ReportsFollowTheRun`).
- **Money.** Calls that fail may be billed, and arms share one ledger
  (`NeverLate`, `SpendIsAttributed`).
- **Measurements.** The hold-out is spent by executing it, no race or crash may
  spend it twice (`OneShot`), a complete record stays (`MeasurementSurvives`), and
  its publication comes to an end, arm by arm, as far as it can (`ArmsSettle`). What
  is published or compared must be what was measured (`ReportableIsAttributable`, `ChallengeCreditIsEarned`,
  `GateMissesNothing`, `PublicationIsWhole`).

## Modules

Each component has a module; the modules in the second group compose the ones
that interact, or gather into one specification those that share no state, so
that one run checks them side by side.

| Module | What it is |
|---|---|
| `CommittedLedger` | The abstract promise of durable execution: numbered authorities, one at a time, at most `MaxAuthority`; results written once, under the authority in force. |
| `DurableRun` | The runs table, the fenced transactions and their row locks, pruning. Implements `CommittedLedger`. |
| `RunTimeline` | One claim's transactions seen by a tailing client and by a snapshot reader. |
| `InvestigationGraph` | The graph's nodes, routes and control fields, under any termination check. |
| `ReviewedThread` | `execute()` and `getState()` on one checkpointed thread with several callers. |
| `PredictionRules` | The rules from a hypothesis to its status, as operators. |
| `Registry` | The registry's tables and its mutations, as transactions under one lock. |
| `ModelSpend` | The usage ledger and the port that reserves, sends and records. |
| `BoundSources` | The source registry: time limits, record and replay, migration of recordings. |
| `GithubSource` | One call of the GitHub adapter: requests, deadlines, pages, probes. |
| `FinalEvaluation` | The hold-out's records, the decision, the exclusive claim, the lane and commits that void or rename. |
| `Benchmark` | Two experiments, their observed challenges and scores, the regression gate, publication. |
| `CheckpointedRun` | Attempts executing a graph over a `CommittedLedger` (by INSTANCE), with the checkpoint writer beside them. |
| `StateTermination` | `InvestigationGraph` with the product's termination check over derived standings. |
| `EvidencePipeline` | The graph's data nodes over `PredictionRules`, in a run that crashes and resumes. |
| `Investigations` | `EvidencePipeline` or `ReviewedThread`. |
| `RegistryApply` | `aic apply` walking a manifest over a stale snapshot, beside the registry's other clients. |
| `IncidentIntake` | `aic incident start`: scope resolution, the second look at the scope, the idempotency key. |
| `IncidentInvestigate` | `aic incident investigate` over `IncidentIntake` and `DurableRun` (by INSTANCE). |
| `Clients` | The three commands over one `Registry`. |
| `BoundExecutor` | The construction of an executor from options and bindings, over `BoundSources`. |
| `Tools` | `BoundExecutor` or `GithubSource`. |
| `FinalPublication` | `FinalEvaluation` with the publication of a complete record, its log and the service behind it. |
| `LiveModelLane` | The diagnostic lane and its paid arms over `ModelSpend`. |
| `Evaluations` | `FinalPublication`, `LiveModelLane` or `Benchmark`. |
| `*Proofs` | Theorems: `DurableRunProofs`, `CheckpointedRunProofs`, `RunTimelineProofs`, `InvestigationGraphProofs` (with `StateTermination`), `InvestigationsProofs` (the evidence pipeline and the thread), `ClientsProofs` (the registry and its three commands), `ToolsProofs`, `EvaluationsProofs`. |
| `MC*` | Instances and symmetry for TLC. |

Definitions marked "Mutant" are plausible bugs of the definition after them; each
property is violated when one of them takes its place.

### DurableRun

One row of `runs` is `status`, `owner`, `lease`, `attempt`, `recovery`, `reason`
at that run; `node_results`, `run_events` and `fence_rejections` are `results`,
`events` and `rejections`. A statement outside a transaction is one action
(`ClaimNext`, `ClaimRun`, `SweepExpired`, `RenewLease`). A fenced transaction is
two: the fence with its `FOR SHARE` lock (`BeginCommitted`, `Computed`,
`BeginClose`) and the rest with its COMMIT (`PeekMiss`, `CommitWins`,
`CloseRun`, ...) or ROLLBACK. The lock is `Holds`: a sweep skips a locked row,
a close and a pruning wait, a heartbeat waits and resumes (`RenewBlocks`,
`RenewResumes`; PostgreSQL looks at a waited-for row's WHERE again only if it
changed). `clock_timestamp()` is `LeaseExpires`: a lease may run out at any
moment. A call, once made, belongs to its claim for ever; that is what a zombie
is. Two closing transactions of one claim wait for each other: PostgreSQL's
deadlock detector rolls one back (`DeadlockAborts`). `RollBack` is a transaction that
ends for its own reasons, a lost connection among them.

### CheckpointedRun

Here the store is the ledger it implements, and an attempt is known by its
number. Its graph performs operations 1 to `Ops`, each through `committed()`;
its checkpoint writer saves the state at each boundary in order, as LangGraph
does, while the graph goes on. `Guard`, `Land`, `Recheck` are the three
statements of `FencedCheckpointer.#write`. Checkpoint ids come from clocks, so
`Load` may pick any attempt's last checkpoint. Zombies are attempts that are
alive and not the authority.

### RunTimeline

A transaction is open, numbered (its event has its seq, nobody else sees it)
and committed. `nextSeq` holds the counter's row lock until the end, which is
`CounterFree`. The tail polls a page, yields it row by row and may be
disconnected in the middle; `SnapshotStep` is one statement of the four.

### InvestigationGraph and StateTermination

One action is one node, one route or one human answer. What a node computes is
free within what the graph lets through. A node that throws leaves the state as
the checkpoint has it and may be run again (`NodeThrows`, `Continue`).
`StateTermination` adds rules T0 to T6 over a `standing` that evidence may move
in any direction; a behaviour has either the product's check or any other one,
since the graph takes its check as an argument. The product's never returns
need-more-evidence, so what the two budgets do is seen under the other one.
Validation of restored and of caller-owned values (own properties, versions,
counters) is the set of states the module starts from and stays in.

### ReviewedThread

`execute()` reads the thread, checks the request against what it read, and
invokes the graph later: `CheckResume` and `CheckContinue` are the first,
`Invoking` the second, and between them another caller may answer, start the
thread over, crash or die. An invocation runs until it pauses, a node throws or
its process dies, or the run is finished (`Pause`, `Strand`, `Finish`); what
happens in between is `InvestigationGraph`. Invocations of one thread do not
overlap, since a run is executed under a lease. `Release` is a deployment whose
schema or rules version cannot read the thread, or can again. LangGraph is
external: a pause gets an id of its own, a pending interrupt keeps it when its
task runs again, and `Command({resume: {id: ...}})` answers that id only.

### PredictionRules and EvidencePipeline

Ids that hash their content are the content: a planned test is known by its
request, a prediction by its hypothesis and template, a rule's assessment by its
prediction and evidence. The rules are operators of the state; `EvidencePipeline`
has a node per action and, inside `execute_investigation`, an action per test,
because each outcome is committed with its projected rows. `Crash` resumes from
any checkpoint that any attempt wrote (`puts`): the saver's writes lag behind the
nodes and may fail or land late, and ids come from each attempt's clock. Each node
is a function of the state and of what the ledger has for it (`Derived`, `WithPlan`, `Evaluated`, `Interpreted`, `Referred`,
`Challenged`, and `WithTrial` for a test), so that one definition serves the first
execution and every later one. A role's answer is committed under the node's
exec key and may be anything in `Proposals` or `Readings`, ids that collide with
a rule's or with another test's included; the ids it makes up itself are no hashes
(`ChosenAssumption`).

`committed()` answers a key only for the request it was stored for. A role's request
is known by what it shows the model of the state (`Shown`, after `describeState`), kept
beside the answer (`asked`), and another one under the same key ends the attempt
(`RefuseRequest`). The wall clock that stamps a reading is not committed and is shown,
so a resume from before it may be refused. `ResumeRebuilds` says that the stamp is all
that may differ, in a rebuilt state and in a request, and that nothing is refused
before there are readings. `propose_conclusion`, whose request is fingerprinted alike,
is past the pipeline's end; `generate_hypotheses` is before its beginning and shows no
readings.
The termination check is some function of the state. `committed()` is one step
here and several in `CheckpointedRun` and `DurableRun`.

### Registry, RegistryApply and IncidentIntake

`Registry` has the rows of the five tables as `tables` and `registry_events` as
`events`. `mutate()` is `Call`, `Lock` (the advisory lock), `Load`, and `Refuse`
or `Write`; `Lose` is a dead process or a broken connection at any point. The
transaction runs at READ COMMITTED, so that only the lock keeps what `Load` read
current. An operation is written once, as an `Outcome` of rows to add and ids to
remove, and `Changed` applies it to the snapshot in memory and to the tables.
The rules are two: `Constraints`, which the tables enforce, and the stronger
`Valid`, which is `RegistrySnapshotSchema`. A `Write` whose rows the tables
refuse answers `constraint`, which `RefusalsAreTyped` excludes. Ids are numbered
by committed mutations, since `randomUUID` never repeats; secrets, aliases and
names are model values.

`RegistryApply` extends it. An apply reads its snapshot once (`plan`) and sends
one call per entity the snapshot lacks; each is a mutation of `Registry`, so a
second apply and any other client may run between two entities. A thrown call
ends the command with everything before it kept.

`IncidentIntake` extends it the other way: its transaction does not take the
registry's lock. `Resolve` is the command's snapshot, `SelectServices` and
`SelectEnvironments` are the two statements of `loadScopeSnapshot`, between which
the registry may change, and `Insert` waits while another transaction has an
uncommitted row of the same key (`Taken`), as a unique index makes it do.

### IncidentInvestigate and Clients

A command reads the registry, the incident and the run (`Ask`), creates or sweeps
or goes straight to the claim, opens the thread, runs supersteps that each end in
a checkpoint, completes and prints. Every store statement is `DurableRun`'s own
action, taken by INSTANCE. Two reductions: the four reads of `Ask` are one step,
because an incident stays as it is, ids do not come back and the registry is not
read again; and the heartbeat's interval is what is left of it, a lease that
runs out at any time or never. What a superstep comes to is committed by its nodes
(`answers`), so that an attempt that does it over comes to the same; how that is
done, node by node, is `CheckpointedRun`'s subject, and a resume that the store
refuses is one of the deaths. Between a superstep and its checkpoint stands
`AssertOwner`, and the write that passed it may land after the run was lost (`Put`).
A graph that is started has its initial state to checkpoint first. `getState` takes
the greatest checkpoint id; ids grow within a process and come from its own clock, so
`Latest` is the last checkpoint of any attempt, as it is in `CheckpointedRun`. A
reader's choice is free each time, where the code's stays until the next write.
`InvestigateSpec` is the commands beside starts and the registry's clients, with
nothing held still.

`Clients` gives each behaviour a cast: applies, starts, or investigators, beside
the registry's other clients. In the cast of investigators the registry starts
with a scope that was removed and added again and then stays as it is: `Ask` reads
it once, and the incidents the commands ask for were started before.

### ModelSpend and LiveModelLane

`Reserve` is `reserve()` with the request that leaves, `RecordUsage` is `record()`
on a readable answer, `CallFails` everything else, after which the reservation
stays. The port's callers wait for one call before the next. `LiveModelLane` runs
the control arm, judges it against the declared baseline, runs the oracle arm and
the two paid arms, each between two readings of the ledger; a refusal of a paid
arm is part of the report, any other failure ends the lane. Baselines, control
experiments and what the scenarios score are free.

### BoundExecutor, BoundSources and GithubSource

`BoundExecutor` is the order of checks of `createBoundInvestigationExecutor`, each
with its refusal; its last step boots a process of `BoundSources`. There an
adapter call is a task of its own that outlives the call that was given up
(`tasks`), a call is a race under a number (`fetch`), and the file is replaced whole
(`Put`). A migration is a `Rekey` and an `Unkey` per recording, killed anywhere and
run again. The file store has no lock: two processes that write one file would lose
each other's records, no code keeps them apart, and the module assumes that one
process at a time writes (`OneWriter`). Readers are not restricted.

`GithubSource` opens the adapter's call: per request the headers, the deadline
timer, the reader and the body; `check()` with its two probes at once, `execute()`
page by page. The service answers anything, late or never. `Tools` has one of the
two parts in a behaviour, because `BoundSources!NextPage` and `AdapterAnswers` are
the outside of what `GithubSource` has inside.

### FinalEvaluation and FinalPublication

`files` is the record at the path a candidate's runs write to, `moved` the records
that name the candidate from another path. `Create` and `Claim` are the exclusive
`openSync` and the write into the empty file, between which the record does not
parse and refuses every run. `Execute` is the first scenario, the moment the
corpus is spent; the lane ends by `Complete` or by `Die`. A checkout takes commits
only between runs, so `Void` and `Rename` find no process at work; nobody voids
by rewriting history. All records are read at one moment.

The same process goes on to publish, or another one starts with `Request`. `Load`
reads record and log once; each arm is then uploaded, read back and logged
(`CreateDataset`, `CreateProject`, `CreateRuns`, `ReadBack`, `Log`), with a crash
possible between any two, and any request may fail, done or not. The service refuses
the name of a dataset or project it has. A retry numbers its dataset anew
(`final-holdout-publication.mjs:290`); the project is named by the record's experiment
and repeats (`observability/src/index.ts:943`), so an arm that left its project behind
is published by no retry. Run ids recur only with their project. Example ids recur in
every arm and attempt; that the service takes them again is what publishing a second
arm presupposes at all, and is assumed. A digest of the record's bytes is the
identity of its measurement, since only a commit changes a complete record.
Crashes are those of a process: `claimRecord` does not flush its file as
`writeRecordDurably` does, and a loss of power that took the claim with it would
take `OneShot` too.

### Benchmark

Per example an investigation runs as the wrapped termination check and challenge
node see it (`run`), ends in one of `Finals` and is scored (`Score`); the two
experiments are compared (`Compare`) or sent request by request (`SendNext`,
`SendFails`). Abstractions: a trial brought evidence or it is "barren" (failed, or
replayed what the run held); of the termination check's other terminal decisions
all are "stalled"; a score is a fraction; the gap between predictions and outcomes,
which the gate does not read, is left out. `Evaluations` has one of the three
commands in a behaviour: they share no state.

## Runs

| Run | Question | Bounds |
|---|---|---|
| `takeovers` | Does the fence keep every interleaving of zombies, sweeps, heartbeats, concurrent calls and pruning apart? Refinement of the ledger. | 1 run, 2 workers, 2 attempts, 3 calls, 2 inputs, 2 results, 1 key |
| `row_locks` | Does the run's row come free of every transaction, two closers that wait for each other included? | 1 run, 1 worker, 2 attempts, 3 calls, 1 key, 1 input, 1 result |
| `resume` | Does a resumed run agree with its results and call nothing twice, also from a zombie's checkpoint? | 2 attempts, 2 operations, a checkpoint after each, 2 results |
| `prune_race` | Is a pruned run's thread gone? Not if a zombie's write lands later (finding). | 2 attempts, 1 operation |
| `timeline` | Does a reader miss, repeat or tear anything? | 4 transactions, pages of 2, 2 reconnects, 1 roll back |
| `investigation` | Do budgets, reserve, keys and stop kinds hold under any decisions, under the product's check, under failures and human answers? | 4 hypotheses, budgets 0 to 2, 0/4/9 calls, reserves 0 to 3, 1 re-entry |
| `registry` | Does the registry stay valid, with a complete audit trail, and does every mutation end? | 2 clients, 5 committed mutations, rows that share aliases, secrets and names |
| `clients` | Do racing applies get in, do starts with one key agree, do commands that share a run ask the same and print what it came to? | 2 applies and a client, 3 entities; 2 starters, 2 starts each; 2 investigators, 3 commands, 2 run ids, 1 superstep, 3 attempts |
| `tools` | Is a late answer dropped, are recordings true and kept, are pages whole, does every call return? | 143 pairs of bindings; 2 processes, 2 adapter versions, 3 questions, 2 pages, 2 adapter calls; 3 pages of GitHub |
| `evidence` | Do trials, evidence, verdicts and resumes agree, and does a decision land on what was shown? | 2 attempts, 2 laps or 1 challenge, 4 pieces of evidence, 4 proposals, 3 readings; 2 callers, 3 reviews, 1 alternative |
| `restamp` | Is a resumed role always given its committed answer? Not once a reading was stamped again (finding). | as `evidence` |
| `evaluations` | Is the hold-out spent once, does its publication end, is what is paid and reported attributable, is what is compared and published what was scored? | 1 candidate, 2 processes, 2 measurements, 1 fault, 2 attempts logged in a race and then 4 one by one; 2 planned runs, 2 metrics, every baseline; 7 setups of 1 or 2 examples, 5 outcomes |

Why the bounds are enough. Two attempts give one takeover, and with it every
pair of owner and zombie; the second attempt may load after the zombie's write
landed, so it is that write's reader as well. Three calls give an owner, a zombie,
and a second call of one of the two; in `row_locks` they are two closers of one claim
and a third transaction beside them. Two workers tell the return of the same worker from another's claim.
Two results and two inputs give agreement and disagreement; results and inputs
are only compared. In `timeline` four transactions exceed a page twice. In
`investigation` each budget occurs at zero, at its first value and beyond, the
reserve above the cap of two rounds as well; four hypotheses let both rounds and
one human re-entry add theirs. In `registry` the longest chain in which each row
depends on the one before (service, environment, credential, its binding or
policy, removal) is five mutations. In `clients` the third client may set the policy
once beside the three creations, a scope takes two mutations to make, one to remove
and one to make again, and three commands give a first, one that loses its lease to
the second, and one that asks again afterwards; the named run id is the default id
of one of the two incidents, so that commands meet on it for either. One superstep
has two checkpoints, before it and after it, so that a thread of two attempts has a
last checkpoint that is short of the run's end. Three attempts are two takeovers.
In `tools` two adapter calls are one that was given up and the next; two questions
and two versions give recordings a migration must keep apart and one that is on file
under both; a third question is one the binding does not list. In `evidence` the
pieces of evidence are one complete count, one partial count beside a contrary
signal, a signal of two quantities and one that came after the cut; the answers of
a model include each id it must not take. Three reviews give a stale answer, its
successor and one more. In `evaluations` two processes give the race of
two runs and of two publishers, the second measurement follows a void, and one fault
is a crash at any point or a failed request of either arm, done or not; two attempts
of one arm suffice to meet a number or a project that is in use; the setups
pair each evaluator version, each form of a budget policy and the naive arm with a
scenario whose leader must change, must stay or that is a false alert. What is
proved does not depend on these bounds.

`CHECK_DEADLOCK FALSE` is set where the system does stop: a run ends and every
call has been made (`DurableRun`, `CheckpointedRun`), commands and calls are over
(`Clients`, `Tools`), an attempt or an investigation is finished
(`Investigations`), a spent candidate is refused and there is nothing to publish
(`Evaluations`). The graph, the registry and the timeline are checked for deadlock:
the graph stutters only at END, a client may always ask again, and the
tail polls for ever.

Fairness. `row_locks`: the process that opened a transaction sends its next
statement, and PostgreSQL runs it or breaks a deadlock (`TxEnds`). Nothing obliges
anyone to claim, sweep or renew, or a `compute()` to answer: a connection that hangs
and is never lost is outside. That a queued run is ever claimed, or an expired one
swept, is not claimed, for no code sees to it: `claimNext` has no caller in the
product, `sweepExpired` runs once per `incident investigate`, and
`durable-run-execution.md` (decision 13) leaves the policy of workers open. `investigation`:
a node that was started returns or throws, and a decision is acted on; neither
success nor a human's answer is assumed. `timeline`: a connected tail polls and
yields, as its loop does. `registry`: PostgreSQL hands an advisory lock to
its waiters in turn, so that a waiter cannot be passed over for ever although
others take the lock again and again (strong fairness of `Lock`), and a client
that has it goes on. Losing a connection is never assumed. `tools`: timers fire,
the code of a call goes on, and the file system answers or fails; no service need
answer and no process need ask. `evaluations`: a process that was started goes on,
and an operator asks for the publication of a complete record again and again
(strong fairness of `Request`), which is what the failing command tells them to do;
a lane or a benchmark may be abandoned anywhere. The other runs check safety only.

## Proofs

Every safety property that a passing run checks is a theorem for all values of the constants that the modules' assumptions admit. Each module
argues from an inductive invariant, a conjunction of named parts; what the parts
are for:

**`DurableRunProofs`.** `TypeInv` is `TypeOK` with `CallShape`: what a call's
record holds at each point, without which a step of a call cannot be typed.
`FenceInv` adds `FenceHeld`, inductive because a sweep and a close wait for the
lock that every open transaction holds, and a claim needs a queued run. From it:
`EventInv` (events are in order and never from an attempt above the current one,
`EventsBelow`), `RecoveryInv`, `ClaimsIssued` (no claim is numbered above the run's
attempt, so a lost claim can never match again) and the durability of answers.
`ImplementsTheLedger` maps each action to one of the ledger's or to a stutter under
the mapping at the end of `DurableRun`.

**`CheckpointedRunProofs`.** Attempts are granted the run in the order of their
numbers, and whoever acts was granted it (`ActorsWereGranted`). What makes
`NoCallAfterCommit` inductive is `MissedIsEarlier`: an attempt that is computing
an operation although its result is there was granted the run no later than the
result's author. `ForkedHasLost`: who wrote after it lost the run never has it again, so
the second look, however late, finds what the first write did. `RunKeepsTheLedger` shows that its steps are steps of
`CommittedLedger`, whose other implementation is `DurableRun`.

**`RunTimelineProofs`.** The log is dense below `nextSeq` and the closing event is
its last; the tail's cursor is at the end of what it was given and its page follows
that without a gap. Between the first and the last statement of a snapshot rows are
only added, and none after the run has closed: what the first statement sees closed
is whole in the others.

**`InvestigationGraphProofs`** holds for any set of hypotheses, any limits and any
number of human answers. Its type invariant `TypeInv` is `TypeOK` with
`Position`: a challenge is entered only below the cap, with reserve left and on
a target that is present; a run is paused only at the review; the last human
answer stands only at the END. Without it a challenge step could take the reserve
below zero. `StepMoves` then gives the shape of every step once (which node
follows which and which counters move), so that three further invariants need no
second case split over the actions: `Verdict` (stop kind and challenge),
`Spending`, which gives each group of nodes (`Early`, `Planning`, `Testing`,
`Deciding`, `Late`) its own allowance of iterations and calls because one
bound for all nodes is not inductive, and `KeysPast`, by which the keys of the
current turn belong to roles the lap is already past.
The module also holds `StateTermination`'s: each of its steps is one of the graph's
(`ProductIsTheGraph`), so all of the above is true of it. `StopKindIsJustified` rests
on grounds that stay from the check to the END: standings move only in the nodes
before the check, at most one hypothesis is decided (`DecisionIsOne`), and a leader
is where the ranks say so (`LeaderLeads`).

**`InvestigationsProofs`**, the pipeline. A run may be resumed from any of its
checkpoints, with a ledger that knows more than the checkpoint does, so an invariant
of the current state is not inductive. `PipelineInv` speaks of the whole path of
checkpoints: it is what the ledger makes of the first one (`Told`), every stored
checkpoint is a place on it but for stamps (`PutOnPath`), and every request on file is
the one its place on the path makes, but for stamps (`Requested`). `Follows` says so
node by node, `Walked` test by test for `execute_investigation`, whose outcomes are
committed one at a time; states agree but for the stamps of a model's readings
(`Alike`), which are not in the ledger. What is true of one state (`Sound`: one story
per trial, tests tied to their trials, predictions judged by what was clear, complete
and in time) is shown for each node once and then for everything on the path. The
nodes respect `Alike`, so a resumed run walks the path again up to its end; this is
`ResumeRebuilds`. At the end it asks for keys that are not in the ledger: laps and
rounds only grow along the path (`Rank`), and a key names its node, lap and round.
That is what the comment at `investigation-roles.ts:362` asserts of the roles' exec
keys (`KeysAreNotRepeated`). What a flattened sequence contains, which the nodes rest
on, is proved from the one-step unfolding of the fold by taking a least counterexample.

The thread. Reviews are numbered upwards and what is answered lies behind
(`AnsweredIsPast`): none of the answered reviews is still to come, and the pending one
is not among them. That each decision is new is then what makes `resumes` its count
(`AnswersCounted`). `InvestigationsKeepTheirWord` carries both parts to
`Investigations`.

**`ClientsProofs`**, the registry. `IInv` is the type, `AloneInside` (one holder of the
lock), `LoadedIsCurrent` (what a holder loaded is what is committed),
`RegistryIsValid` and `RefusalsAreTyped`. None of the last two is inductive
alone: a write is accepted on the strength of what was loaded, and only the first
two make that the registry it is applied to. What is validated is then what is
written, and since `Valid` contains `Constraints`, no write is refused.
`EventsInv` adds that events are about ids already given out, each with one kind; then
what a mutation appends tells exactly the rows it adds and removes, cascades included.

The applies. That of several racing applies one gets through (`OneApplyGetsThrough`)
is seen only when all have stopped, so the invariant names the one that will
(`OneGetsOn`): as long as nobody was cut off and nothing removed, either the whole
manifest is in place or some apply is `Unhindered`, which is to say that from where it
is on its walk nothing is in place that its snapshot did not show it. When an apply
adds an entity and so hinders another, it is itself the one that nobody hinders: what
it passed is there (`Passed`), and since entities come into place in the manifest's
order (`InOrder`), nothing past the one just added is in place yet. An unhindered apply's call is not refused: the row it adds leaves a valid
registry valid, shown for each kind of entity. The theorem holds of a manifest that
one apply alone would get through (`ManifestIsAcceptable`; what `parseManifest` itself
enforces is the module's assumption `ManifestAssumption`) while the other clients set
policies or remove but add nothing, as another client that adds the same service makes
all applies fail, and rightly. The run's document and clients are of that kind; TLC
evaluates both conditions on the document.

The starts (`StartInv`). A key that is being inserted is free and one start's alone,
and one that is stored has one incident. A start that got past its second look did not
ask for a scope that was gone when it looked, and what is gone stays so, because ids do
not come back (`GoneScopesGrow`).

The investigations, beside starts and registry changes that go on
(`InvestigateSpec`). Claims of a run are numbered and only the last passes the fence.
Each checkpoint is a prefix of the run's committed answers, and so is what each
command holds, whichever checkpoint it began with (`Fits`, `PrefixesGrow`); and where a
command has nothing left to write, some checkpoint is as far as it is. So when
`complete()` passes, the whole is in the thread, and a line that is short of it was
read from another attempt's checkpoint (`Told`). A completed run is not claimed again
(`CompletedStays`), so the attempt that printed it as its own stays the last. `AskInv` ties the command's
question to the run's row: either it created it, or it refused to go on when it did
not match.

**`ToolsProofs`**, bound sources. Two invariants over one type invariant. `RaceInv` is
for late answers: an open race has a call number of its own that nothing was decided
with (`RacesAreOpen`). `FileInv` is for the recordings: where each process may be in
its mode and what it then holds (`Stations`: who stores, stores what its own question
was decided with), that one process writes (`OneWrites`), and that a recording that
is being moved is on file under its old key until it is under the new one
(`MovesAreSafe`). From the last it follows, step by step, that a recorded question
stays recorded under some version (`RecordingsStay`); what is on file under a version
may still be replaced, by a call that records again or by a move. The GitHub
source (`GithubInv`): a timer is armed only while its request is under way, a probe is
out only when the repository has answered, and a body the deadline cut is the last of
its call and its request remembers why (`CutIsSeen`).
`ToolsKeepTheirWord` carries all of it to `Tools`.

**`EvaluationsProofs`**, spending. The ledger's estimates are those of the calls that
are owed something: `EstimatesHeld` counts one estimate of `PerCall` for each call
that failed and for the one under way. `record()` retires the oldest, which may be
another call's; since all are alike, the sum is right. Calls of different sizes would
break the argument, and with it `NeverLate`: the port asks for one size. A lane's step
is one of the ledger's or leaves it alone (`LaneSpends`), so a paid arm's two readings
differ by what it sent; a report of a paid arm exists only past the judgement of the
control arm, whose inputs do not change afterwards.

The benchmark. What the gate compares are scores, and a score is shaped by its
example (`EvaluationIsShaped`), so that a metric the truth asks for and one side
lacks is seen. A credited challenge is traced back through the laps of its run: what
was seen of each lap (`SeenIs`) is what happened, tried rounds agree with the leaders
observed (`TriedAgrees`), and an unobserved change is worth nothing.

A publication's requests are sequences joined by a fold. From the fold's one-step
unfolding and a least counterexample follows what is needed of them: every figure is
preceded by its run (`Announced`) and nothing that was scored is left out (`Covers`).
What the service holds is then the first so many requests, one more at most than were
acknowledged (`PubInv`), so that a figure without its run, or a reference to half an
experiment, cannot be there. That a projection never refuses what was scored is the
agreement of two lists kept apart in the code: the ladders of reasons end in reasons
the publishing side knows (`EvaluationIsMeasured`).

The hold-out. One process at a time is between the exclusive create and the complete
record (`OneOwner`), the path then holds what it wrote (`OwnersHoldTheClaim`), and no
record elsewhere covers the candidate it was admitted for (`NothingElsewhere`). The
last one is what the decision leaves behind for the claim made later; without it a
second covering record could appear (`OneCovers`), and with it `OneShot` would fail.
`EvaluationsKeepTheirWord` carries the results to `Evaluations`.

Facts that larger properties contain and that no run repeats are proved as theorems
or parts of an invariant: the type invariants, `FenceHeld`, `EventsInOrder`,
`RecoveryAccounting`, `AuthorityNeverReturns`, `BudgetsHold`, `StopKindIsDecided`,
`SufficientIsChallenged`, `RefusalsAreTyped`, `MeasurementSurvives`.

The assumptions are those the modules name: bounds are natural numbers (and positive
where the code has at least one), the values for nothing and missing are none of the
data, boundaries include the first and the last, the product's limits and the listed
operations, metrics and finals are among those there are, evaluator versions are known
ones, the axes are a finite list, and a manifest is one that parses. `EvidencePipeline`
has five: the test ids that a rule makes are none that a model can choose by itself,
the first hypotheses have ids of their own, an answer's tests are planned tests, a fact
states a quantity or a count, and a tool answers with evidence that exists.

Only model-checked:

- Liveness (`RowsComeFree`, `LapsEnd`, `TailCatchesUp`, `MutationsEnd`,
  `EveryCallReturns`, `ArmsSettle`), which is out of the prover's reach, as
  ENABLED is.
- That the components a module composes behave as their own modules say, where it is
  stated by INSTANCE and not by a mapping (`CheckpointedRun` and `DurableRun` over
  `CommittedLedger` are proved).

No module declares a RECURSIVE operator: recursion is by functions and folds.

## What the runs found

1. `prune_race`: a checkpoint write whose fence passed before its writer lost the
   run lands after `deleteThread`.
2. `restamp`: "Retry, recovery or replay of the same logical operation returns the
   committed result" (`durable-run-execution.md:53`). A run resumed from before
   `interpret_residual_evidence` reuses the committed readings and stamps them with
   the present time (`investigation-roles.ts:593`); a later role's request shows them
   (410–445), has another fingerprint (393–394) under the same key, and is refused as
   an integrity violation. It takes a checkpoint from before the readings when later
   answers are already committed: the later checkpoints were not stored, or another
   attempt's has the greater id.

A proof found an error of the models. `IncidentInvestigate` had let each attempt
come to what it liked in a superstep; the invariant that every checkpoint is a prefix
of what the run came to was false, and TLC found no difference in what is printed
because two attempts are too few. The module now has what the nodes commit (`answers`)
and three attempts.

Two things the models show are what the code allows rather than against what it
says. A call that loses the race to a concurrent commit of its key is judged by its
result alone, whatever its input (`CommitAgrees`). And a completed run that is asked
for again may be told of fewer supersteps than its last attempt printed, when a clock
ran ahead in an earlier attempt whose checkpoint thereby has the greatest id;
`ReportsFollowTheRun` says that nothing else comes between, and the live test that
finds both lines equal (`incident-investigate.live.mjs:355`) has one attempt.

More differences are in the models and have no run of their own:

- The architecture challenges a new leader in round 2; `LeaderIsNewestChallenge`
  sees a change of leadership only when it is to the newest challenge
  hypothesis. The code's own comment names the limit, and `StopKindIsJustified`
  is stated with it.
- The architecture routes a spent normal budget into the challenge; `Route`
  terminates it with the reserve untouched (the product's check never asks for
  more evidence, so only another check can get there).
- `Creates` of `RegistryApply` replaces, without `--overwrite`, a policy that
  another client set after the apply read its snapshot, and the report calls it
  created.
- `docs/evidence/final-evaluation/README.md` names a void record as the remedy for
  a run that produced no information, "admitted by `decideFinalEvaluation` as
  covering nothing". Void records are kept at the path a new claim would create:
  `Admits` lets the candidate through and `Create` then fails, until the record
  is renamed.
- After a complete record is voided and its candidate measured again, the old
  attempts are still in the log at the new record's name, and `SameBytes` refuses
  to publish the new measurement.
- `publishRecordedMeasurement` says that a retry never collides with a dataset of a
  prior attempt (`final-holdout-publication.mjs:199`). After a crash between
  `CreateDataset` and `Log` it does, once: the collision is logged as a failure, and
  the next number is free. An upload that broke off after `CreateProject` makes every
  later attempt of that arm fail there, since the project's name has no number.

## Not modelled, and why

- `waiting_human` to `queued` is in the lifecycle table and no code performs it.
- Exhaustion writes no event; nothing promises one.
- A killed checkpoint writer leaves a fork nobody records: the model allows it
  and `ForksAreRecorded` excludes it, as the protocol does.
- Two writers of one recordings file (see `BoundSources`), and calls of different
  sizes on one usage ledger (see `ModelSpend`): no code makes either.
- Redaction, own-value serialisation, prompt texts, the shape checks on documents,
  answers and flags: pure data, no state to interleave.
- The lab adapter: one request without a deadline, of which `BoundSources` has the
  outside. Spans: recorded beside the program, read by none of its decisions.
- Proposed actions and the risk registry: validation of a document nothing executes.
- The migration runner, which runs once under an advisory lock; list and get
  commands, which only read.
- Incident lab, infrastructure files, spike runner, doctor, source check, live pilot:
  not the program's logic.
- Two readers of one thread and nothing written between them: the models let each
  choose among the attempts' last checkpoints.

## Plan

1. `EvidencePipeline` shown to implement `InvestigationGraph`'s routing, and
   `Benchmark`'s gate as an abstract specification of its own.
2. A run of two supersteps per attempt in `Clients`, and `propose_conclusion` with its
   request in `EvidencePipeline`.
