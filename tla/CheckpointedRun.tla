--------------------------- MODULE CheckpointedRun ---------------------------
(***************************************************************************)
(* One durable run of a graph, as its attempts execute it: the operations  *)
(* each attempt performs through committed() (execute-investigation.ts,    *)
(* investigation-roles.ts), the checkpoints it writes through the fenced   *)
(* checkpointer (fenced-checkpointer.ts), the resume from a stored         *)
(* checkpoint (incident-investigate.ts, investigation.ts) and the pruning  *)
(* of results and checkpoints (retention.ts).  This is race T-4 of         *)
(* docs/decisions/durable-run-execution.md.                                *)
(*                                                                         *)
(* The run store and the write context appear as the CommittedLedger they  *)
(* implement (DurableRun, theorem ImplementsTheLedger).  An attempt is     *)
(* known by its number; several are alive at once when the older ones are  *)
(* zombies.  LangGraph writes checkpoints in order and beside the nodes it *)
(* goes on executing, so an attempt is two activities: its graph and its   *)
(* checkpoint writer.                                                      *)
(***************************************************************************)
EXTENDS Integers, Sequences

CONSTANTS
    TheRun,        \* the run
    Ops,           \* how many operations the graph performs, in order
    Boundary,      \* after which of them a superstep ends with a checkpoint
    Result,        \* what an operation may answer
    MaxAttempts,   \* maxExecutionAttempts
    None

ASSUME OpsAssumption == Ops \in Nat \ {0} /\ MaxAttempts \in Nat \ {0}
ASSUME BoundaryAssumption == Boundary \subseteq 0..Ops /\ {0, Ops} \subseteq Boundary

Attempt == 1..MaxAttempts
Op == 1..Ops

\* NULL is no row.
ASSUME NoneAssumption == None \notin [value: Result, by: Attempt]

VARIABLES
    phase, authority, granted, ledger,  \* of CommittedLedger
    pc,         \* where an attempt's graph is
    values,     \* the results in its state, in operation order
    answer,     \* what its compute() answered, until it is committed
    put,        \* where its checkpoint writer is
    saved,      \* the last boundary its writer is done with, -1 for none
    thread,     \* the last checkpoint each attempt stored
    pruned,     \* how far pruneTerminalRun has come
    calls,      \* history: external calls, by attempt and operation
    forked,     \* history: attempts that stored a checkpoint without authority
    rejections  \* fence_rejections, by attempt and kind

ledgerVars == <<phase, authority, granted, ledger>>
vars == <<ledgerVars, pc, values, answer, put, saved, thread, pruned, calls,
          forked, rejections>>

Ledger == INSTANCE CommittedLedger WITH
    Run <- {TheRun}, Key <- Op, MaxAuthority <- MaxAttempts

\* The fence lets an attempt pass only while it is the authority.  It may
\* refuse the authority too, when its lease has expired and no sweep came yet.
Passes(a) == authority[TheRun] = a

pos(a) == Len(values[a])
Alive(a) == pc[a] \notin {"off", "done", "dead"}
Stored(a) == thread[a] # None

Init ==
    /\ Ledger!Init
    /\ pc = [a \in Attempt |-> "off"]
    /\ values = [a \in Attempt |-> <<>>]
    /\ answer = [a \in Attempt |-> None]
    /\ put = [a \in Attempt |-> "idle"]
    /\ saved = [a \in Attempt |-> -1]
    /\ thread = [a \in Attempt |-> None]
    /\ pruned = "no"
    /\ calls = {}
    /\ forked = {}
    /\ rejections = {}

-----------------------------------------------------------------------------
(* Who may write: the run store, seen through the ledger. *)

\* A worker claims the run and starts the next attempt.
Claim ==
    /\ Ledger!Grant(TheRun)
    /\ pc' = [pc EXCEPT ![granted[TheRun] + 1] = "loading"]
    /\ UNCHANGED <<values, answer, put, saved, thread, pruned, calls, forked,
                   rejections>>

\* The lease ran out and the run is requeued; its attempt does not know.
Sweep ==
    /\ Ledger!Revoke({TheRun})
    /\ UNCHANGED <<pc, values, answer, put, saved, thread, pruned, calls,
                   forked, rejections>>

\* A claim of a run without attempts left fails it.
Exhaust ==
    /\ authority[TheRun] = 0
    /\ Ledger!Close(TheRun, "ended")
    /\ UNCHANGED <<pc, values, answer, put, saved, thread, pruned, calls,
                   forked, rejections>>

-----------------------------------------------------------------------------
(* An attempt's graph. *)

\* getState: no checkpoint starts the graph, a stored one continues it.
\* Checkpoint ids come from the clock of the worker that wrote them, so the
\* greatest may be any attempt's last.
Load(a) ==
    /\ pc[a] = "loading"
    /\ \/ /\ \A b \in Attempt : ~Stored(b)
          /\ UNCHANGED <<values, saved>>
       \/ \E b \in Attempt :
            /\ Stored(b)
            /\ values' = [values EXCEPT ![a] = thread[b]]
            /\ saved' = [saved EXCEPT ![a] = Len(thread[b])]
    /\ pc' = [pc EXCEPT ![a] = "peeking"]
    /\ UNCHANGED <<ledgerVars, answer, put, thread, pruned, calls, forked,
                   rejections>>

NextOp(a) == pos(a) + 1

Answered(a, v) ==
    /\ values' = [values EXCEPT ![a] = Append(@, v)]
    /\ answer' = [answer EXCEPT ![a] = None]
    /\ pc' = [pc EXCEPT ![a] = "peeking"]

\* committed() finds the operation's result and answers it.
Reuse(a) ==
    /\ pc[a] = "peeking" /\ pos(a) < Ops
    /\ Passes(a)
    /\ ledger[TheRun][NextOp(a)] # None
    /\ Answered(a, ledger[TheRun][NextOp(a)].value)
    /\ UNCHANGED <<ledgerVars, put, saved, thread, pruned, calls,
                   forked, rejections>>

\* Mutant: committed() never looks for a stored result.
MissBlindly(a) ==
    /\ pc[a] = "peeking" /\ pos(a) < Ops
    /\ Passes(a)
    /\ pc' = [pc EXCEPT ![a] = "computing"]
    /\ UNCHANGED <<ledgerVars, values, answer, put, saved, thread, pruned,
                   calls, forked, rejections>>

\* It finds none: compute() is to be called, with no transaction open.
Miss(a) ==
    /\ pc[a] = "peeking" /\ pos(a) < Ops
    /\ Passes(a)
    /\ ledger[TheRun][NextOp(a)] = None
    /\ pc' = [pc EXCEPT ![a] = "computing"]
    /\ UNCHANGED <<ledgerVars, values, answer, put, saved, thread, pruned,
                   calls, forked, rejections>>

\* The tool or the model is called and answers.
Compute(a, v) ==
    /\ pc[a] = "computing"
    /\ calls' = calls \cup {[attempt |-> a, op |-> NextOp(a)]}
    /\ answer' = [answer EXCEPT ![a] = v]
    /\ pc' = [pc EXCEPT ![a] = "committing"]
    /\ UNCHANGED <<ledgerVars, values, put, saved, thread, pruned, forked,
                   rejections>>

\* Mutant: the fenced INSERT without its fence.
CommitUnfenced(a) ==
    /\ pc[a] = "committing"
    /\ IF Passes(a) THEN Ledger!Write(TheRun, NextOp(a), answer[a])
                    ELSE UNCHANGED ledgerVars
    /\ Answered(a, answer[a])
    /\ UNCHANGED <<put, saved, thread, pruned, calls, forked, rejections>>

\* One attempt performs one operation at a time, so nobody else of its claim
\* can have written the row meanwhile.
Commit(a) ==
    /\ pc[a] = "committing"
    /\ Passes(a)
    /\ Ledger!Write(TheRun, NextOp(a), answer[a])
    /\ Answered(a, answer[a])
    /\ UNCHANGED <<put, saved, thread, pruned, calls, forked, rejections>>

\* The attempt ends; what its process held is gone.
Ends(a) ==
    /\ pc' = [pc EXCEPT ![a] = "dead"]
    /\ values' = [values EXCEPT ![a] = <<>>]
    /\ answer' = [answer EXCEPT ![a] = None]
    /\ put' = [put EXCEPT ![a] = "idle"]
    /\ saved' = [saved EXCEPT ![a] = -1]

\* The fence refuses: recorded, thrown through the node, the attempt is over.
Refused(a) ==
    /\ pc[a] \in {"peeking", "committing"} /\ pos(a) < Ops
    /\ Ends(a)
    /\ rejections' = rejections \cup {[attempt |-> a, kind |-> "committed"]}
    /\ UNCHANGED <<ledgerVars, thread, pruned, calls, forked>>

\* The graph has returned, every checkpoint is written: complete().
Complete(a) ==
    /\ pc[a] = "peeking" /\ pos(a) = Ops
    /\ saved[a] = Ops /\ put[a] = "idle"
    /\ Passes(a)
    /\ Ledger!Close(TheRun, "ended")
    /\ pc' = [pc EXCEPT ![a] = "done"]
    /\ UNCHANGED <<values, answer, put, saved, thread, pruned, calls, forked,
                   rejections>>

CompleteRefused(a) ==
    /\ pc[a] = "peeking" /\ pos(a) = Ops
    /\ saved[a] = Ops /\ put[a] = "idle"
    /\ Ends(a)
    /\ rejections' = rejections \cup {[attempt |-> a, kind |-> "complete"]}
    /\ UNCHANGED <<ledgerVars, thread, pruned, calls, forked>>

\* The process is killed, compute() throws, or a failed write surfaces.
Dies(a) ==
    /\ Alive(a)
    /\ Ends(a)
    /\ UNCHANGED <<ledgerVars, thread, pruned, calls, forked, rejections>>

-----------------------------------------------------------------------------
(* An attempt's checkpoint writer: FencedCheckpointer.put. *)

\* The next boundary to write, once the graph has reached it.
Due(a, b) ==
    /\ b \in Boundary /\ saved[a] < b /\ b <= pos(a)
    /\ \A c \in Boundary : c <= saved[a] \/ b <= c

\* assertOwner('checkpoint') passes.
Guard(a) ==
    /\ Alive(a) /\ pc[a] # "loading"
    /\ put[a] = "idle"
    /\ \E b \in Boundary : Due(a, b)
    /\ Passes(a)
    /\ put' = [put EXCEPT ![a] = "guarded"]
    /\ UNCHANGED <<ledgerVars, pc, values, answer, saved, thread, pruned,
                   calls, forked, rejections>>

\* It refuses: the inner saver is never reached and the write rejects.
GuardRefused(a) ==
    /\ Alive(a) /\ pc[a] # "loading"
    /\ put[a] = "idle"
    /\ \E b \in Boundary : Due(a, b)
    /\ put' = [put EXCEPT ![a] = "failed"]
    /\ rejections' = rejections \cup {[attempt |-> a, kind |-> "checkpoint"]}
    /\ UNCHANGED <<ledgerVars, pc, values, answer, saved, thread, pruned,
                   calls, forked>>

\* The inner write lands, on another connection and whoever owns the run now.
Land(a) ==
    /\ Alive(a)
    /\ put[a] = "guarded"
    /\ \E b \in Boundary :
         /\ Due(a, b)
         /\ thread' = [thread EXCEPT ![a] = SubSeq(values[a], 1, b)]
         /\ saved' = [saved EXCEPT ![a] = b]
    /\ put' = [put EXCEPT ![a] = "landed"]
    /\ forked' = IF Passes(a) THEN forked ELSE forked \cup {a}
    /\ UNCHANGED <<ledgerVars, pc, values, answer, pruned, calls, rejections>>

\* assertOwner('checkpoint_fork') passes.
Recheck(a) ==
    /\ Alive(a)
    /\ put[a] = "landed"
    /\ Passes(a)
    /\ put' = [put EXCEPT ![a] = "idle"]
    /\ UNCHANGED <<ledgerVars, pc, values, answer, saved, thread, pruned,
                   calls, forked, rejections>>

\* Mutant: the refused recheck is not put on record.
ForkDropped(a) ==
    /\ Alive(a)
    /\ put[a] = "landed"
    /\ put' = [put EXCEPT ![a] = "idle"]
    /\ UNCHANGED <<ledgerVars, pc, values, answer, saved, thread, pruned,
                   calls, forked, rejections>>

\* It refuses and the refusal is recorded; the caller is not failed.
ForkRecorded(a) ==
    /\ Alive(a)
    /\ put[a] = "landed"
    /\ put' = [put EXCEPT ![a] = "idle"]
    /\ rejections' = rejections \cup
                       {[attempt |-> a, kind |-> "checkpoint_fork"]}
    /\ UNCHANGED <<ledgerVars, pc, values, answer, saved, thread, pruned,
                   calls, forked>>

\* It fails in any other way: the write rejects loudly.
RecheckFails(a) ==
    /\ Alive(a)
    /\ put[a] = "landed"
    /\ put' = [put EXCEPT ![a] = "failed"]
    /\ UNCHANGED <<ledgerVars, pc, values, answer, saved, thread, pruned,
                   calls, forked, rejections>>

-----------------------------------------------------------------------------
(* pruneTerminalRun: the results first, the checkpoints after the COMMIT. *)

PruneResults ==
    /\ pruned = "no"
    /\ Ledger!Purge(TheRun)
    /\ pruned' = "results"
    /\ UNCHANGED <<pc, values, answer, put, saved, thread, calls, forked,
                   rejections>>

DeleteThread ==
    /\ pruned = "results"
    /\ thread' = [a \in Attempt |-> None]
    /\ pruned' = "thread"
    /\ UNCHANGED <<ledgerVars, pc, values, answer, put, saved, calls, forked,
                   rejections>>

-----------------------------------------------------------------------------

GraphStep(a) ==
    \/ Load(a) \/ Reuse(a) \/ Miss(a) \/ Commit(a) \/ Refused(a)
    \/ Complete(a) \/ CompleteRefused(a) \/ Dies(a)
    \/ \E v \in Result : Compute(a, v)

WriterStep(a) ==
    \/ Guard(a) \/ GuardRefused(a) \/ Land(a)
    \/ Recheck(a) \/ ForkRecorded(a) \/ RecheckFails(a)

Next ==
    \/ Claim \/ Sweep \/ Exhaust
    \/ \E a \in Attempt : GraphStep(a) \/ WriterStep(a)
    \/ PruneResults \/ DeleteThread

Spec == Init /\ [][Next]_vars

-----------------------------------------------------------------------------
(* Properties. *)

\* Every operation in an attempt's state, and in every stored checkpoint, is
\* backed by the committed result of that operation: no attempt, stale
\* checkpoint or zombie's late write shows a state that disagrees with
\* node_results, whichever of them a resume picks.
StatesFollowResults ==
    pruned = "no" =>
        \A a \in Attempt :
            /\ \A o \in 1..pos(a) :
                 ledger[TheRun][o] # None /\ ledger[TheRun][o].value = values[a][o]
            /\ Stored(a) => \A o \in 1..Len(thread[a]) :
                 ledger[TheRun][o] # None /\ ledger[TheRun][o].value = thread[a][o]

\* No attempt after the one that committed an operation calls the tool or the
\* model for it again (decision 11), although a zombie of an earlier attempt
\* still may.
NoCallAfterCommit ==
    pruned = "no" =>
        \A c \in calls :
            ledger[TheRun][c.op] # None => c.attempt <= ledger[TheRun][c.op].by

\* A checkpoint stored without authority is on record as a fork, unless its
\* writer has not rechecked yet, failed loudly or died first.
ForksAreRecorded ==
    \A a \in forked :
        (Alive(a) /\ put[a] \in {"idle", "guarded"}) =>
            [attempt |-> a, kind |-> "checkpoint_fork"] \in rejections

\* A pruned run has no checkpoint thread: pruning waits out every writer
\* (retention.ts, the doc of pruneTerminalRun).
PrunedThreadIsGone == pruned = "thread" => \A a \in Attempt : ~Stored(a)

=============================================================================
