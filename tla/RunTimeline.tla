------------------------------ MODULE RunTimeline ------------------------------
(***************************************************************************)
(* What readers see of a run while its owner writes: the event stream a    *)
(* client tails and reconnects to (persistence/src/run-event-stream.ts)    *)
(* and the product snapshot assembled from four statements                 *)
(* (persistence/src/retention.ts).                                         *)
(*                                                                         *)
(* The writers are the fenced transactions of DurableRun, here one claim's *)
(* calls with the point between an event's number and its COMMIT made      *)
(* visible, since a reader can be between the two.  A reader's statement   *)
(* is one action and sees what was committed before it.                    *)
(***************************************************************************)
EXTENDS Naturals, Sequences, FiniteSets

CONSTANTS
    Trial,          \* committed() calls, each projecting one trial
    Close,          \* the call that closes or pauses the run
    PageSize,       \* rows of one poll
    MaxReconnects,  \* bound: how often the client reconnects
    MaxAborts,      \* bound: transactions that roll back
    None

ASSUME PageAssumption == PageSize \in Nat \ {0}
ASSUME TrialAssumption == IsFiniteSet(Trial) /\ Close \notin Trial
ASSUME BoundsAssumption == MaxReconnects \in Nat /\ MaxAborts \in Nat

VARIABLES
    status,     \* runs.status
    tx,         \* where each call's transaction is
    number,     \* the seq a transaction took from the counter
    counter,    \* run_event_counters.next_seq as committed
    events,     \* the committed run_events, each with the call that wrote it
    aborts,     \* transactions rolled back so far
    cursor,     \* tail's cursor
    page,       \* the rows of its last poll that are still to be yielded
    delivered,  \* the seqs the client received, over all its connections
    reconnects,
    snap,       \* where the snapshot reader is
    shot        \* what it has read

writeVars == <<status, tx, number, counter, events, aborts>>
tailVars == <<cursor, page, delivered, reconnects>>
snapVars == <<snap, shot>>
vars == <<writeVars, tailVars, snapVars>>

Call == Trial \cup {Close}
Closed == {"waiting_human", "completed", "failed"}

\* run_trials and run_evidence rows are visible with their transaction.
Committed == {c \in Call : tx[c] = "committed"}
Projected == Committed \cap Trial

\* Mutant: the run's row is read last.
StatusLast == <<"trials", "evidence", "events", "runs">>

\* readRunProductSnapshot's statements, in their order.
Statements == <<"runs", "trials", "evidence", "events">>

-----------------------------------------------------------------------------
Init ==
    /\ status = "running"
    /\ tx = [c \in Call |-> "idle"]
    /\ number = [c \in Call |-> 0]
    /\ counter = 0
    /\ events = {}
    /\ aborts = 0
    /\ cursor = 0
    /\ page = {}
    /\ delivered = <<>>
    /\ reconnects = 0
    /\ snap = Statements[1]
    /\ shot = [status |-> None, trials |-> {}, evidence |-> {}, events |-> {}]

-----------------------------------------------------------------------------
(* The writers. *)

InTx(c) == tx[c] \in {"open", "numbered"}

\* The fence passes and its FOR SHARE lock is held until the end.  It waits
\* for a transaction that has updated the row.
Begin(c) ==
    /\ status = "running"
    /\ tx[c] = "idle"
    /\ tx[Close] # "numbered"
    /\ tx' = [tx EXCEPT ![c] = "open"]
    /\ UNCHANGED <<status, number, counter, events, aborts, tailVars, snapVars>>

\* The UPDATE that closes a run waits for every other fenced transaction.
RowFree(c) == c = Close => \A d \in Call \ {c} : ~InTx(d)

\* The counter row is locked from an increment to its transaction's end.
CounterFree == \A d \in Call : tx[d] # "numbered"

\* Mutant: the number comes from a sequence, which nobody waits for.
NumberFromSequence(c) ==
    /\ tx[c] = "open"
    /\ RowFree(c)
    /\ tx' = [tx EXCEPT ![c] = "numbered"]
    /\ number' = [number EXCEPT ![c] =
                    Cardinality({d \in Call : number[d] > 0}) + 1]
    /\ UNCHANGED <<status, counter, events, aborts, tailVars, snapVars>>

\* nextSeq and the insert of the event, as only the transaction sees them.
Number(c) ==
    /\ tx[c] = "open"
    /\ RowFree(c)
    /\ CounterFree
    /\ tx' = [tx EXCEPT ![c] = "numbered"]
    /\ number' = [number EXCEPT ![c] = counter + 1]
    /\ UNCHANGED <<status, counter, events, aborts, tailVars, snapVars>>

Commit(c) ==
    /\ tx[c] = "numbered"
    /\ tx' = [tx EXCEPT ![c] = "committed"]
    /\ events' = events \cup {[seq |-> number[c], call |-> c]}
    /\ counter' = number[c]
    /\ IF c = Close THEN status' \in Closed ELSE UNCHANGED status
    /\ UNCHANGED <<number, aborts, tailVars, snapVars>>

\* An error, or a lost connection, before the COMMIT: the increment goes too.
RollBack(c) ==
    /\ aborts < MaxAborts
    /\ InTx(c)
    /\ tx' = [tx EXCEPT ![c] = "idle"]
    /\ number' = [number EXCEPT ![c] = 0]
    /\ aborts' = aborts + 1
    /\ UNCHANGED <<status, counter, events, tailVars, snapVars>>

WriteStep == \E c \in Call : Begin(c) \/ Number(c) \/ Commit(c) \/ RollBack(c)

-----------------------------------------------------------------------------
(* tail: polls, yields and reconnects. *)

\* The first PageSize events after n.
ReadAfter(n) ==
    LET after == {e \in events : e.seq > n}
    IN  {e \in after :
            Cardinality({f \in after : f.seq < e.seq}) < PageSize}

Latest(rows, n) ==
    IF rows = {} THEN n
    ELSE (CHOOSE e \in rows : \A f \in rows : f.seq <= e.seq).seq

Poll ==
    /\ page = {}
    /\ page' = ReadAfter(cursor)
    /\ UNCHANGED <<writeVars, cursor, delivered, reconnects, snapVars>>

\* The page's rows are yielded in seq order, each moving the cursor.
Yield ==
    /\ \E e \in page :
          /\ \A f \in page : e.seq <= f.seq
          /\ delivered' = Append(delivered, e.seq)
          /\ cursor' = e.seq
          /\ page' = page \ {e}
    /\ UNCHANGED <<writeVars, reconnects, snapVars>>

\* Mutant: the new connection goes on from where the old one had read.
ReconnectAtThePage ==
    /\ reconnects < MaxReconnects
    /\ reconnects' = reconnects + 1
    /\ page' = {}
    /\ cursor' = Latest(page, cursor)
    /\ UNCHANGED <<writeVars, delivered, snapVars>>

\* The client's connection is aborted, and it connects again with the id of
\* the last event it received.
Reconnect ==
    /\ reconnects < MaxReconnects
    /\ reconnects' = reconnects + 1
    /\ page' = {}
    /\ cursor' = IF delivered = <<>> THEN 0 ELSE delivered[Len(delivered)]
    /\ UNCHANGED <<writeVars, delivered, snapVars>>

TailStep == Poll \/ Yield \/ Reconnect

-----------------------------------------------------------------------------
(* readRunProductSnapshot *)

After(t) == LET i == CHOOSE n \in 1..4 : Statements[n] = t
            IN  IF i = 4 THEN "done" ELSE Statements[i + 1]

SnapshotStep ==
    /\ snap # "done"
    /\ shot' = CASE snap = "runs" -> [shot EXCEPT !.status = status]
                 [] snap = "trials" -> [shot EXCEPT !.trials = Projected]
                 [] snap = "evidence" -> [shot EXCEPT !.evidence = Projected]
                 [] snap = "events" -> [shot EXCEPT !.events = events]
    /\ snap' = After(snap)
    /\ UNCHANGED <<writeVars, tailVars>>

-----------------------------------------------------------------------------
Next == WriteStep \/ TailStep \/ SnapshotStep

Spec == Init /\ [][Next]_vars

\* tail is a loop without an end: it polls and yields while it is connected.
FairSpec == Spec /\ WF_vars(Poll) /\ WF_vars(Yield)

-----------------------------------------------------------------------------
(* Properties. *)

\* A client receives every event once and in order, however often it
\* reconnects: nothing is committed under a seq its cursor has passed.
TailIsGapless == \A i \in DOMAIN delivered : delivered[i] = i

\* A snapshot, though read in four statements, is never torn: each of its
\* trials comes with its evidence and with the event of its commit, and one
\* that shows the run closed shows all it committed, since no trial, no
\* evidence and no event is added after that.
SnapshotIsWhole ==
    snap = "done" =>
        /\ shot.trials \subseteq shot.evidence
        /\ shot.trials \subseteq {e.call : e \in shot.events}
        /\ shot.status \in Closed =>
              /\ shot.trials = Projected
              /\ shot.evidence = Projected
              /\ shot.events = events

\* A client that stays connected receives every event that is committed.
TailCatchesUp ==
    \A n \in 1..(Cardinality(Trial) + 1) :
        counter >= n ~> n \in {delivered[i] : i \in DOMAIN delivered}
=============================================================================
