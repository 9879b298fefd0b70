-------------------------- MODULE IncidentInvestigate --------------------------
(***************************************************************************)
(* `aic incident investigate`                                              *)
(* (apps/cli/src/commands/incident-investigate.ts and its wiring): the     *)
(* scope from one registry snapshot, the incident, the run under its id,   *)
(* found or created, swept and claimed by statements of their own, and     *)
(* then the graph over a fenced checkpointer until the run is completed    *)
(* and reported.  Several commands ask for one run, any of them may die,   *)
(* and the registry changes beside them.  The runs table is DurableRun's.  *)
(*                                                                         *)
(* The graph is a number of supersteps.  What one comes to is committed    *)
(* under its exec key, so that a later attempt reads it (CheckpointedRun), *)
(* and then checkpointed.  The wall clock's stamp on a reading, which is   *)
(* not committed, is not printed either; where it makes the store refuse a *)
(* request that was shown it (EvidencePipeline!RefuseRequest), the command *)
(* dies of it.                                                             *)
(***************************************************************************)
EXTENDS IncidentIntake, Sequences, Functions

CONSTANTS Investigator,  \* commands, each a process of its own
          NamedRun,      \* what --run-id may say
          Found,         \* what a superstep may come to
          Supersteps,    \* supersteps of an investigation
          MaxCommands,   \* bound: commands in all
          MaxExecutionAttempts

ASSUME MaxCommandsAssumption == MaxCommands \in Nat
ASSUME SuperstepsAssumption == Supersteps \in Nat

VARIABLES mpc,       \* where a command is
          ask,       \* its arguments and what it read
          commands,  \* how many an investigator has run
          inputs,    \* runs.input
          thread,    \* the checkpoints of each run's thread
          answers,   \* what each run's supersteps came to, committed
          reports    \* history: what was printed, for which run, by which attempt

VARIABLES status, owner, lease, attempt, recovery, reason, created, claims,
          renewing, results, runEvents, rejections, call

runVars == <<status, owner, lease, attempt, recovery, reason, created, claims,
             renewing, results, runEvents, rejections, call>>
ownVars == <<mpc, ask, commands, inputs, thread, answers, reports>>
commandVars == <<ownVars, runVars>>
investigateAll == <<startAll, commandVars>>

IncidentId == Starter \X (1..MaxStarts)

\* defaultRunIdFor: an id of the incident's own.
DefaultRun(incident) == incident
Run == {DefaultRun(n) : n \in IncidentId} \cup NamedRun

\* workerId is made up for each process, which makes one call to complete().
Worker == Investigator \X (1..MaxCommands)

Runs == INSTANCE DurableRun WITH
    Key <- {}, Input <- {}, Result <- {}, Call <- Worker, events <- runEvents

Me(i) == <<i, commands[i]>>

NoInvestigation ==
    /\ Runs!Init
    /\ mpc = [i \in Investigator |-> "off"]
    /\ ask = [i \in Investigator |-> None]
    /\ commands = [i \in Investigator |-> 0]
    /\ inputs = [r \in Run |-> None]
    /\ thread = [r \in Run |-> {}]
    /\ answers = [r \in Run |-> <<>>]
    /\ reports = {}

-----------------------------------------------------------------------------
MGoes(i, to) == mpc' = [mpc EXCEPT ![i] = to]

\* A refusal, an error, a death or the end of the command: the process is gone.
Gone(i) == MGoes(i, "off") /\ ask' = [ask EXCEPT ![i] = None]

\* How many commands there were.
Made == FoldFunction(+, 0, commands)

\* Mutant: the stored input is compared by its scope.
MatchesInScope(input, n, scope) ==
    /\ input.service = scope.service
    /\ input.environment = scope.environment

Matches(input, n, scope) ==
    /\ input.incident = n
    /\ input.service = scope.service
    /\ input.environment = scope.environment

\* The incident is there and its primary scope is this one.
Concerns(n, scope) ==
    \E x \in incidents : /\ x.id = n
                         /\ x.key.service = scope.service
                         /\ x.key.environment = scope.environment

To(r) == CASE status[r] = "absent" -> "creating"
           [] status[r] = "queued" -> "claiming"
           [] status[r] = "running" -> "sweeping"
           [] status[r] = "completed" -> "reading"

\* The scope and its bindings from store.snapshot(), getIncident, the executor
\* over the bindings, getRun and what its status says.  Four reads in this
\* order, and refusals without a trace, are one step here: an incident stays
\* as it is, ids do not come back, and the registry is not read again.
Ask(i, s, e, n, r) ==
    LET o == [service |-> s, environment |-> e]
        scope == [service |-> ServiceOf(tables, o),
                  environment |-> EnvironmentOf(tables, o)]
        new == status[r] = "absent"
    IN  /\ mpc[i] = "off"
        /\ Made < MaxCommands
        /\ commands[i] < MaxCommands
        /\ scope.environment # Unknown
        /\ Concerns(n, scope)
        /\ InScope(tables.sourceBindings, scope.environment) # {}
        /\ ~new => Matches(inputs[r], n, scope)
        /\ status[r] \notin {"failed", "waiting_human"}
        /\ commands' = [commands EXCEPT ![i] = @ + 1]
        /\ MGoes(i, To(r))
        /\ ask' = [ask EXCEPT ![i] =
              [incident |-> n, scope |-> scope, run |-> r,
               asOf |-> IF new THEN <<i, commands[i] + 1>> ELSE inputs[r].asOf,
               claim |-> None, state |-> <<>>]]
        /\ UNCHANGED <<startAll, inputs, thread, answers, reports, runVars>>

\* The stored input; now() is told by the process that read it.
InputOf(i) ==
    [incident |-> ask[i].incident, service |-> ask[i].scope.service,
     environment |-> ask[i].scope.environment, asOf |-> ask[i].asOf]

\* INSERT; the primary key refuses the second one.
CreateRun(i) ==
    /\ mpc[i] = "creating"
    /\ IF status[ask[i].run] = "absent"
       THEN /\ Runs!CreateRun(ask[i].run)
            /\ inputs' = [inputs EXCEPT ![ask[i].run] = InputOf(i)]
            /\ MGoes(i, "claiming") /\ UNCHANGED ask
       ELSE Gone(i) /\ UNCHANGED <<inputs, runVars>>
    /\ UNCHANGED <<startAll, commands, thread, answers, reports>>

\* sweepExpired takes every expired run along, and the command goes on only if
\* its own was among them.
Sweep(i) ==
    /\ mpc[i] = "sweeping"
    /\ IF Runs!Sweepable = {} THEN UNCHANGED runVars ELSE Runs!SweepExpired
    /\ IF ask[i].run \in Runs!Sweepable
       THEN MGoes(i, "claiming") /\ UNCHANGED ask
       ELSE Gone(i)
    /\ UNCHANGED <<startAll, commands, inputs, thread, answers, reports>>

\* claimRun: the claim, or null for a run that is not queued or exhausted.
ClaimRun(i) ==
    LET r == ask[i].run IN
    /\ mpc[i] = "claiming"
    /\ IF status[r] = "queued" THEN Runs!ClaimRun(r, Me(i)) ELSE UNCHANGED runVars
    /\ IF \E c \in claims' \ claims : c.run = r
       THEN /\ MGoes(i, "claimed")
            /\ ask' = [ask EXCEPT ![i].claim = CHOOSE c \in claims' \ claims : TRUE]
       ELSE Gone(i)
    /\ UNCHANGED <<startAll, commands, inputs, thread, answers, reports>>

-----------------------------------------------------------------------------
(* The graph over the fenced checkpointer. *)

Checkpoint(i) == [by |-> ask[i].claim.attempt, state |-> ask[i].state]

\* getState takes the greatest checkpoint id (ORDER BY checkpoint_id DESC).  Ids
\* grow within a process and come from its own clock, so the greatest may be the
\* last one of any attempt (CheckpointedRun!Load).
Latest(r) == {x.state : x \in {x \in thread[r] : \A y \in thread[r] :
                                   y.by = x.by => Len(y.state) <= Len(x.state)}}

Opens(i, state, to) ==
    ask' = [ask EXCEPT ![i].state = state] /\ MGoes(i, to)

\* getState: continue where a checkpoint is; a graph that is started has its input
\* to checkpoint first.
OpenThread(i) ==
    /\ mpc[i] = "claimed"
    /\ \/ thread[ask[i].run] = {} /\ Opens(i, <<>>, "worked")
       \/ \E s \in Latest(ask[i].run) : Opens(i, s, "working")
    /\ UNCHANGED <<startAll, commands, inputs, thread, answers, reports, runVars>>

\* A superstep's work: committed() answers what is stored, or stores this.
Superstep(i, v) ==
    LET r == ask[i].run
        n == Len(ask[i].state) + 1
    IN  /\ mpc[i] = "working"
        /\ n <= Supersteps
        /\ IF Runs!Fence(ask[i].claim)
           THEN /\ IF n \in DOMAIN answers[r]
                   THEN v = answers[r][n] /\ UNCHANGED answers
                   ELSE answers' = [answers EXCEPT ![r] = Append(@, v)]
                /\ ask' = [ask EXCEPT ![i].state = Append(@, v)]
                /\ MGoes(i, "worked")
           ELSE Gone(i) /\ UNCHANGED answers
        /\ UNCHANGED <<startAll, commands, inputs, thread, reports, runVars>>

\* createFencedCheckpointer's assertOwner.
AssertOwner(i) ==
    /\ mpc[i] = "worked"
    /\ IF Runs!Fence(ask[i].claim) THEN MGoes(i, "putting") /\ UNCHANGED ask
                                   ELSE Gone(i)
    /\ UNCHANGED <<startAll, commands, inputs, thread, answers, reports, runVars>>

\* The write is a statement of its own, and the recheck after it fails no one: it
\* only records that the write came late (CheckpointedRun!Recheck).
Put(i) ==
    /\ mpc[i] = "putting"
    /\ thread' = [thread EXCEPT ![ask[i].run] = @ \cup {Checkpoint(i)}]
    /\ MGoes(i, "working")
    /\ UNCHANGED <<startAll, ask, commands, inputs, answers, reports, runVars>>

\* context.complete(): the fence, which a superseded claim does not pass.
BeginComplete(i) ==
    /\ mpc[i] = "working"
    /\ Len(ask[i].state) = Supersteps
    /\ Runs!BeginClose(Me(i), ask[i].claim, "completed")
    /\ MGoes(i, "closing")
    /\ UNCHANGED <<startAll, ask, commands, inputs, thread, answers, reports>>

\* Mutant: that complete() was refused is swallowed like a heartbeat's refusal.
CompleteOrNot(i) ==
    /\ mpc[i] = "closing"
    /\ Runs!CloseRun(Me(i)) \/ Runs!RecordRejection(Me(i))
    /\ MGoes(i, "closed")
    /\ UNCHANGED <<startAll, ask, commands, inputs, thread, answers, reports>>

Complete(i) ==
    /\ mpc[i] = "closing"
    /\ \/ Runs!CloseRun(Me(i)) /\ MGoes(i, "closed") /\ UNCHANGED ask
       \/ Runs!RecordRejection(Me(i)) /\ Gone(i)
    /\ UNCHANGED <<startAll, commands, inputs, thread, answers, reports>>

Prints(i, state, by) ==
    reports' = reports \cup {[run |-> ask[i].run, state |-> state, by |-> by]}

\* The state that the graph returned.
Report(i) ==
    /\ mpc[i] = "closed"
    /\ Prints(i, ask[i].state, ask[i].claim.attempt)
    /\ Gone(i)
    /\ UNCHANGED <<startAll, commands, inputs, thread, answers, runVars>>

\* A completed run is read and reported again; no claim, no write context.
Reread(i) ==
    /\ mpc[i] = "reading"
    /\ \E s \in Latest(ask[i].run) : Prints(i, s, None)
    /\ Gone(i)
    /\ UNCHANGED <<startAll, commands, inputs, thread, answers, runVars>>

\* A throw or a kill: an open transaction rolls back, the lease stays.
DieInvestigating(i) ==
    /\ mpc[i] # "off"
    /\ IF Runs!InTx(Me(i)) THEN Runs!RollBack(Me(i)) ELSE UNCHANGED runVars
    /\ Gone(i)
    /\ UNCHANGED <<startAll, commands, inputs, thread, answers, reports>>

\* The interval's renewLease keeps a live lease live, and what it answers is not
\* looked at: what is left of it is that a lease runs out at any time or never.
LeaseExpires(r) == Runs!LeaseExpires(r) /\ UNCHANGED <<startAll, ownVars>>

CommandStep(i) ==
    \/ \E s \in Service, e \in Environment, x \in incidents :
          \E r \in {DefaultRun(x.id)} \cup NamedRun : Ask(i, s, e, x.id, r)
    \/ CreateRun(i) \/ Sweep(i) \/ ClaimRun(i)
    \/ OpenThread(i) \/ (\E v \in Found : Superstep(i, v))
    \/ AssertOwner(i) \/ Put(i)
    \/ BeginComplete(i) \/ Complete(i) \/ Report(i) \/ Reread(i)
    \/ DieInvestigating(i)

InvestigateNext ==
    \/ \E i \in Investigator : CommandStep(i)
    \/ \E r \in Run : LeaseExpires(r)

\* Investigations beside the starts of incidents and the registry's clients.
InvestigateSpec ==
    /\ StartInit /\ NoInvestigation
    /\ [][InvestigateNext \/ (StartNext /\ UNCHANGED commandVars)]_investigateAll

-----------------------------------------------------------------------------
(* Properties.                                                             *)

\* Every attempt at a run asks what the run was created to ask, whichever
\* command it belongs to and whatever the registry has become: its incident,
\* that incident's scope, as of the time the run was created.
AttemptsAskTheSame ==
    \A i \in Investigator :
        (ask[i] # None /\ ask[i].claim # None) =>
            /\ inputs[ask[i].run] = InputOf(i)
            /\ Concerns(ask[i].incident, ask[i].scope)

\* Only a completed run is printed, and every line tells of what was committed
\* for the run.  One attempt prints it as its own, and prints the whole of it: an
\* attempt that lost the run prints nothing.  Who asks again may be told of fewer
\* supersteps, but only where attempts of two processes left checkpoints.
ReportsFollowTheRun ==
    \A x \in reports :
        /\ status[x.run] = "completed"
        /\ \A n \in DOMAIN x.state : /\ n \in DOMAIN answers[x.run]
                                     /\ x.state[n] = answers[x.run][n]
        /\ x.by # None => /\ Len(x.state) = Supersteps
                          /\ \A y \in reports :
                                y.run = x.run /\ y.by # None => y.by = x.by
        /\ Len(x.state) < Supersteps =>
              \E y, z \in thread[x.run] : y.by # z.by

=============================================================================
