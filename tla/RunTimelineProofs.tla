-------------------------- MODULE RunTimelineProofs --------------------------
(***************************************************************************)
(* Proofs about RunTimeline, for every finite set of calls, every page     *)
(* size and any number of reconnects and rolled back transactions.         *)
(***************************************************************************)
EXTENDS RunTimeline, FiniteSetTheorems, TLAPS

Event == [seq: Nat, call: Call]

TypeOK ==
    /\ status \in Closed \cup {"running"}
    /\ tx \in [Call -> {"idle", "open", "numbered", "committed"}]
    /\ number \in [Call -> Nat]
    /\ counter \in Nat
    /\ events \subseteq Event
    /\ aborts \in Nat
    /\ cursor \in Nat
    /\ page \subseteq events
    /\ delivered \in Seq(Nat)
    /\ reconnects \in Nat
    /\ snap \in {"runs", "trials", "evidence", "events", "done"}
    /\ shot \in [status: Closed \cup {"running", None}, trials: SUBSET Trial,
                 evidence: SUBSET Trial, events: SUBSET Event]

\* The committed events are numbered 1 to counter, one event each, and a number
\* that is taken and not yet committed is the next, and one transaction's.
LogIsGapless ==
    /\ IsFiniteSet(events)
    /\ \A e \in events : e.seq \in 1..counter /\ tx[e.call] = "committed"
    /\ \A n \in 1..counter : \E e \in events : e.seq = n
    /\ \A e, f \in events : e.seq = f.seq => e = f
    /\ \A c \in Call : tx[c] = "numbered" => number[c] = counter + 1
    /\ \A c, d \in Call : tx[c] = "numbered" /\ tx[d] = "numbered" => c = d
    /\ \A c \in Committed : \E e \in events : e.call = c

\* The transaction that closes the run is alone once it has updated the row, and
\* nothing begins or is under way when it has committed.
ClosingIsAlone ==
    /\ tx[Close] = "numbered" => \A d \in Trial : ~InTx(d)
    /\ status = "running" <=> tx[Close] # "committed"
    /\ status \in Closed => \A d \in Call : ~InTx(d)

\* The cursor is where the client is, and the rows of the page that are still to
\* be yielded follow it without a gap.
PageFollowsCursor ==
    /\ cursor = Len(delivered)
    /\ \A e \in page : cursor < e.seq
    /\ \A e \in page : \A n \in (cursor + 1)..e.seq : \E f \in page : f.seq = n

TailInv == TailIsGapless /\ PageFollowsCursor

\* A later statement sees no less than an earlier one.
ShotGrows ==
    /\ snap \in {"evidence", "events", "done"} => shot.trials \subseteq Projected
    /\ snap \in {"events", "done"} =>
         shot.trials \subseteq shot.evidence /\ shot.evidence \subseteq Projected
    /\ snap = "done" =>
         /\ shot.trials \subseteq {e.call : e \in shot.events}
         /\ shot.events \subseteq events

\* Once the run was seen closed, every statement after that sees it all.
ClosedShotIsWhole ==
    (snap # "runs" /\ shot.status \in Closed) =>
        /\ status \in Closed
        /\ snap \in {"evidence", "events", "done"} => shot.trials = Projected
        /\ snap \in {"events", "done"} => shot.evidence = Projected
        /\ snap = "done" => shot.events = events

ShotInv == ShotGrows /\ ClosedShotIsWhole

IInv == TypeOK /\ LogIsGapless /\ ClosingIsAlone /\ TailInv /\ ShotInv

-----------------------------------------------------------------------------

\* A writer's step leaves the readers alone, a reader's the run and the others.
LEMMA Steps ==
  ASSUME [Next]_vars
  PROVE  \/ /\ \E c \in Call : Begin(c) \/ Number(c) \/ Commit(c) \/ RollBack(c)
            /\ UNCHANGED <<tailVars, snapVars>>
         \/ TailStep /\ UNCHANGED <<writeVars, snapVars>>
         \/ SnapshotStep /\ UNCHANGED <<writeVars, tailVars>>
         \/ UNCHANGED vars
BY DEF Next, WriteStep, TailStep, Begin, Number, Commit, RollBack, Poll, Yield,
       Reconnect, SnapshotStep, vars

\* The statements follow each other.
LEMMA AfterStatement ==
  /\ After("runs") = "trials"
  /\ After("trials") = "evidence"
  /\ After("evidence") = "events"
  /\ After("events") = "done"
<1>1. /\ Statements[1] = "runs" /\ Statements[2] = "trials"
      /\ Statements[3] = "evidence" /\ Statements[4] = "events"
  BY DEF Statements
<1>2. \A n \in 1..4 : n = 1 \/ n = 2 \/ n = 3 \/ n = 4
  OBVIOUS
<1>3. (CHOOSE n \in 1..4 : Statements[n] = "runs") = 1
  BY <1>1, <1>2
<1>4. (CHOOSE n \in 1..4 : Statements[n] = "trials") = 2
  BY <1>1, <1>2
<1>5. (CHOOSE n \in 1..4 : Statements[n] = "evidence") = 3
  BY <1>1, <1>2
<1>6. (CHOOSE n \in 1..4 : Statements[n] = "events") = 4
  BY <1>1, <1>2
<1>7. QED
  BY <1>1, <1>3, <1>4, <1>5, <1>6 DEF After

\* What a snapshot's statement reads.
LEMMA SnapshotReads ==
  ASSUME TypeOK, SnapshotStep
  PROVE  \/ /\ snap = "runs" /\ snap' = "trials"
            /\ shot' = [shot EXCEPT !.status = status]
         \/ /\ snap = "trials" /\ snap' = "evidence"
            /\ shot' = [shot EXCEPT !.trials = Projected]
         \/ /\ snap = "evidence" /\ snap' = "events"
            /\ shot' = [shot EXCEPT !.evidence = Projected]
         \/ /\ snap = "events" /\ snap' = "done"
            /\ shot' = [shot EXCEPT !.events = events]
BY AfterStatement DEF TypeOK, SnapshotStep

LEMMA TypeStep ==
  ASSUME TypeOK, [Next]_vars
  PROVE  TypeOK'
<1> USE DEF TypeOK
<1>1. ASSUME NEW c \in Call, UNCHANGED <<tailVars, snapVars>>,
             Begin(c) \/ Number(c) \/ RollBack(c)
      PROVE  TypeOK'
  BY <1>1 DEF Begin, Number, RollBack, tailVars, snapVars
<1>2. ASSUME NEW c \in Call, UNCHANGED <<tailVars, snapVars>>, Commit(c)
      PROVE  TypeOK'
  <2>1. [seq |-> number[c], call |-> c] \in Event
    BY DEF Event
  <2>2. events' \subseteq Event /\ page' \subseteq events' /\ status' \in Closed \cup {"running"}
    BY <1>2, <2>1 DEF Commit, tailVars
  <2>3. QED
    BY <1>2, <2>2 DEF Commit, tailVars, snapVars
<1>3. CASE TailStep /\ UNCHANGED <<writeVars, snapVars>>
  <2>1. CASE Poll
    BY <1>3, <2>1 DEF Poll, ReadAfter, writeVars, snapVars
  <2>2. CASE Yield
    <3>1. PICK e \in page : /\ delivered' = Append(delivered, e.seq)
                            /\ cursor' = e.seq
                            /\ page' = page \ {e}
      BY <2>2 DEF Yield
    <3>2. e.seq \in Nat
      BY DEF Event
    <3>3. QED
      BY <1>3, <2>2, <3>1, <3>2 DEF Yield, writeVars, snapVars
  <2>3. CASE Reconnect
    <3>1. delivered # <<>> => delivered[Len(delivered)] \in Nat
      OBVIOUS
    <3>2. QED
      BY <1>3, <2>3, <3>1 DEF Reconnect, writeVars, snapVars
  <2>4. QED
    BY <1>3, <2>1, <2>2, <2>3 DEF TailStep
<1>4. CASE SnapshotStep /\ UNCHANGED <<writeVars, tailVars>>
  <2>1. Projected \subseteq Trial
    BY DEF Projected
  <2>2. QED
    BY <1>4, <2>1, SnapshotReads DEF writeVars, tailVars
<1>5. CASE UNCHANGED vars
  BY <1>5 DEF vars, writeVars, tailVars, snapVars
<1>6. QED
  BY <1>1, <1>2, <1>3, <1>4, <1>5, Steps

LEMMA LogStep ==
  ASSUME TypeOK, LogIsGapless, [Next]_vars
  PROVE  LogIsGapless'
<1> USE DEF TypeOK, LogIsGapless, Committed
<1>1. ASSUME NEW c \in Call, Begin(c) \/ Number(c) \/ RollBack(c)
      PROVE  LogIsGapless'
  <2>1. UNCHANGED <<events, counter>> /\ tx[c] # "committed"
    BY <1>1 DEF Begin, Number, RollBack, InTx
  <2>2. tx'[c] # "committed" /\ \A d \in Call \ {c} : tx'[d] = tx[d] /\ number'[d] = number[d]
    BY <1>1 DEF Begin, Number, RollBack
  <2>3. tx'[c] = "numbered" => number'[c] = counter + 1 /\ CounterFree
    BY <1>1 DEF Begin, Number, RollBack
  <2>4. \A e \in events : tx'[e.call] = "committed"
    BY <2>1, <2>2 DEF Event
  <2>5. Committed' = Committed
    BY <2>1, <2>2
  <2>6. \A d \in Call : tx'[d] = "numbered" => number'[d] = counter' + 1
    BY <2>1, <2>2, <2>3
  <2>7. \A d, f \in Call : tx'[d] = "numbered" /\ tx'[f] = "numbered" => d = f
    BY <2>2, <2>3 DEF CounterFree
  <2>8. /\ IsFiniteSet(events')
        /\ \A n \in 1..counter' : \E e \in events' : e.seq = n
        /\ \A e, f \in events' : e.seq = f.seq => e = f
        /\ \A d \in Committed' : \E e \in events' : e.call = d
    BY <2>1, <2>5
  <2>9. \A e \in events' : e.seq \in 1..counter' /\ tx'[e.call] = "committed"
    BY <2>1, <2>4
  <2>10. QED
    BY <2>6, <2>7, <2>8, <2>9
<1>2. ASSUME NEW c \in Call, Commit(c)
      PROVE  LogIsGapless'
  <2> DEFINE e == [seq |-> number[c], call |-> c]
  <2>1. /\ events' = events \cup {e} /\ counter' = counter + 1
        /\ e.seq = counter + 1 /\ e.call = c
        /\ tx' = [tx EXCEPT ![c] = "committed"] /\ number' = number
        /\ tx[c] = "numbered"
    BY <1>2 DEF Commit
  <2> HIDE DEF e
  <2>2. IsFiniteSet(events')
    BY <2>1, FS_AddElement
  <2>3. \A f \in events' : f.seq \in 1..counter' /\ tx'[f.call] = "committed"
    BY <2>1 DEF Event
  <2>4. \A n \in 1..counter' : \E f \in events' : f.seq = n
    <3>1. \A n \in 1..counter' : n \in 1..counter \/ n = e.seq
      BY <2>1
    <3>2. QED
      BY <2>1, <3>1
  <2>5. \A f, g \in events' : f.seq = g.seq => f = g
    BY <2>1
  <2>6. \A d \in Call : tx'[d] # "numbered"
    BY <2>1
  <2>7. \A d \in Committed' : \E f \in events' : f.call = d
    BY <2>1
  <2>8. QED
    BY <2>2, <2>3, <2>4, <2>5, <2>6, <2>7
<1>3. ASSUME UNCHANGED writeVars PROVE LogIsGapless'
  BY <1>3 DEF writeVars
<1>4. QED
  BY <1>1, <1>2, <1>3, Steps DEF vars

LEMMA ClosingStep ==
  ASSUME TypeOK, ClosingIsAlone, [Next]_vars
  PROVE  ClosingIsAlone'
<1> USE TrialAssumption DEF TypeOK, ClosingIsAlone, InTx, Call
<1>1. ASSUME NEW c \in Call, Begin(c) PROVE ClosingIsAlone'
  BY <1>1 DEF Begin, Closed
<1>2. ASSUME NEW c \in Call, Number(c) PROVE ClosingIsAlone'
  BY <1>2 DEF Number, RowFree
<1>3. ASSUME NEW c \in Call, Commit(c) PROVE ClosingIsAlone'
  <2>1. CASE c = Close
    BY <1>3, <2>1 DEF Commit, Closed
  <2>2. CASE c # Close
    BY <1>3, <2>2 DEF Commit
  <2>3. QED
    BY <2>1, <2>2
<1>4. ASSUME NEW c \in Call, RollBack(c) PROVE ClosingIsAlone'
  BY <1>4 DEF RollBack
<1>5. ASSUME UNCHANGED writeVars PROVE ClosingIsAlone'
  BY <1>5 DEF writeVars
<1>6. QED
  BY <1>1, <1>2, <1>3, <1>4, <1>5, Steps DEF vars

-----------------------------------------------------------------------------

\* A poll's rows follow the cursor without a gap: a row is left out only for
\* rows before it.
LEMMA PollIsDense ==
  ASSUME TypeOK, LogIsGapless, NEW e \in ReadAfter(cursor),
         NEW n \in (cursor + 1)..e.seq
  PROVE  \E f \in ReadAfter(cursor) : f.seq = n
<1> DEFINE after == {f \in events : f.seq > cursor}
           Before(f) == {g \in after : g.seq < f.seq}
<1>1. /\ e \in after /\ Cardinality(Before(e)) < PageSize
      /\ ReadAfter(cursor) = {f \in after : Cardinality(Before(f)) < PageSize}
  BY DEF ReadAfter
<1>2. e.seq \in 1..counter /\ cursor \in Nat /\ counter \in Nat
  BY <1>1 DEF TypeOK, LogIsGapless
<1>3. PICK f \in events : f.seq = n
  BY <1>2 DEF LogIsGapless
<1>4. f \in after /\ Before(f) \subseteq Before(e)
  <2>1. \A g \in after : g.seq \in Nat
    BY DEF TypeOK, Event
  <2>2. QED
    BY <1>2, <1>3, <2>1
<1>5. IsFiniteSet(Before(e))
  <2>1. Before(e) \subseteq events
    OBVIOUS
  <2>2. QED
    BY <2>1, FS_Subset DEF LogIsGapless
<1> HIDE DEF after, Before
<1>6. /\ Cardinality(Before(f)) <= Cardinality(Before(e))
      /\ Cardinality(Before(e)) \in Nat /\ Cardinality(Before(f)) \in Nat
  BY <1>4, <1>5, FS_Subset, FS_CardinalityType
<1>7. Cardinality(Before(f)) < PageSize
  BY <1>1, <1>6, PageAssumption
<1>8. QED
  BY <1>1, <1>3, <1>4, <1>7

LEMMA TailStepKeeps ==
  ASSUME TypeOK, LogIsGapless, TailInv, [Next]_vars
  PROVE  TailInv'
<1> USE DEF TailInv, TailIsGapless, PageFollowsCursor
<1>1. ASSUME Poll PROVE TailInv'
  <2>1. page' = ReadAfter(cursor) /\ UNCHANGED <<cursor, delivered>>
    BY <1>1 DEF Poll
  <2>2. \A e \in ReadAfter(cursor) : cursor < e.seq
    BY DEF ReadAfter, TypeOK, Event
  <2>3. \A e \in ReadAfter(cursor) : \A n \in (cursor + 1)..e.seq :
          \E f \in ReadAfter(cursor) : f.seq = n
    BY PollIsDense
  <2>4. QED
    BY <2>1, <2>2, <2>3
<1>2. ASSUME Yield PROVE TailInv'
  <2>1. PICK e \in page : /\ \A f \in page : e.seq <= f.seq
                          /\ delivered' = Append(delivered, e.seq)
                          /\ cursor' = e.seq
                          /\ page' = page \ {e}
    BY <1>2 DEF Yield
  <2>2. \A f \in page : f \in events /\ f.seq \in Nat
    BY DEF TypeOK, Event
  <2>3. cursor \in Nat /\ delivered \in Seq(Nat)
    BY DEF TypeOK
  <2>4. e.seq = cursor + 1
    <3>1. cursor + 1 \in (cursor + 1)..e.seq
      BY <2>2, <2>3
    <3>2. PICK f \in page : f.seq = cursor + 1
      BY <3>1
    <3>3. QED
      BY <2>1, <2>2, <2>3, <3>2
  <2>5. /\ Len(delivered') = cursor + 1
        /\ \A i \in 1..(cursor + 1) : delivered'[i] = i
    BY <2>1, <2>3, <2>4
  <2>6. \A f \in page' : cursor' < f.seq
    BY <2>1, <2>2, <2>3, <2>4 DEF LogIsGapless
  <2>7. \A f \in page' : \A n \in (cursor' + 1)..f.seq :
          \E g \in page' : g.seq = n
    <3>1. SUFFICES ASSUME NEW f \in page', NEW n \in (cursor' + 1)..f.seq
                   PROVE  \E g \in page' : g.seq = n
      OBVIOUS
    <3>2. f \in page /\ n \in (cursor + 1)..f.seq /\ n # e.seq
      BY <2>1, <2>2, <2>3, <2>4
    <3>3. PICK g \in page : g.seq = n
      BY <3>2
    <3>4. QED
      BY <2>1, <3>2, <3>3
  <2>8. QED
    BY <2>1, <2>3, <2>4, <2>5, <2>6, <2>7
<1>3. ASSUME Reconnect PROVE TailInv'
  <2>1. /\ page' = {} /\ delivered' = delivered
        /\ cursor' = IF delivered = <<>> THEN 0 ELSE delivered[Len(delivered)]
    BY <1>3 DEF Reconnect
  <2>2. delivered \in Seq(Nat)
    BY DEF TypeOK
  <2>3. cursor' = Len(delivered)
    BY <2>1, <2>2
  <2>4. QED
    BY <2>1, <2>3
<1>4. ASSUME UNCHANGED tailVars PROVE TailInv'
  BY <1>4 DEF tailVars
<1>5. QED
  BY <1>1, <1>2, <1>3, <1>4, Steps DEF vars, TailStep

\* No transaction of a closed run is under way, so none commits.
LEMMA ClosedIsStill ==
  ASSUME TypeOK, ClosingIsAlone, status \in Closed, [Next]_vars
  PROVE  UNCHANGED <<status, events, Projected>>
<1>1. ASSUME NEW c \in Call, Begin(c) \/ Number(c) \/ Commit(c) \/ RollBack(c)
      PROVE  FALSE
  BY <1>1 DEF ClosingIsAlone, Begin, Number, Commit, RollBack, InTx, Closed
<1>2. QED
  BY <1>1, Steps DEF vars, writeVars, Projected, Committed

\* What is committed stays.
LEMMA CommittedStays ==
  ASSUME TypeOK, [Next]_vars
  PROVE  Projected \subseteq Projected' /\ events \subseteq events'
<1>1. ASSUME NEW c \in Call, Begin(c) \/ Number(c) \/ Commit(c) \/ RollBack(c)
      PROVE  Projected \subseteq Projected' /\ events \subseteq events'
  BY <1>1 DEF TypeOK, Begin, Number, Commit, RollBack, InTx, Projected, Committed
<1>2. QED
  BY <1>1, Steps DEF vars, writeVars, Projected, Committed

LEMMA ShotGrowsStep ==
  ASSUME TypeOK, LogIsGapless, ShotGrows, [Next]_vars
  PROVE  ShotGrows'
<1> USE DEF ShotGrows
<1>1. Projected \subseteq Projected' /\ events \subseteq events'
  BY CommittedStays
<1>2. ASSUME SnapshotStep, UNCHANGED writeVars PROVE ShotGrows'
  <2>1. Projected' = Projected /\ events' = events
    BY <1>2 DEF writeVars, Projected, Committed
  <2>2. Projected \subseteq {e.call : e \in events}
    BY DEF LogIsGapless, Projected
  <2>3. QED
    BY <1>2, <2>1, <2>2, SnapshotReads DEF TypeOK
<1>3. ASSUME UNCHANGED snapVars PROVE ShotGrows'
  BY <1>1, <1>3 DEF snapVars
<1>4. QED
  BY <1>2, <1>3, Steps DEF vars

LEMMA ClosedShotStep ==
  ASSUME TypeOK, ClosingIsAlone, ClosedShotIsWhole, [Next]_vars
  PROVE  ClosedShotIsWhole'
<1> USE DEF ClosedShotIsWhole
<1>1. ASSUME SnapshotStep, UNCHANGED writeVars PROVE ClosedShotIsWhole'
  <2>1. Projected' = Projected /\ events' = events /\ status' = status
    BY <1>1 DEF writeVars, Projected, Committed
  <2>2. QED
    BY <1>1, <2>1, SnapshotReads DEF TypeOK
<1>2. ASSUME UNCHANGED snapVars PROVE ClosedShotIsWhole'
  BY <1>2, ClosedIsStill DEF snapVars
<1>3. QED
  BY <1>1, <1>2, Steps DEF vars

-----------------------------------------------------------------------------

LEMMA InitInv == Init => IInv
<1> SUFFICES ASSUME Init PROVE IInv
  OBVIOUS
<1>1. snap = "runs"
  BY DEF Init, Statements
<1>2. TypeOK
  BY <1>1 DEF Init, TypeOK
<1>3. LogIsGapless
  BY FS_EmptySet DEF Init, LogIsGapless, Committed
<1>4. ClosingIsAlone
  BY DEF Init, ClosingIsAlone, InTx, Closed, Call
<1>5. TailInv
  BY DEF Init, TailInv, TailIsGapless, PageFollowsCursor
<1>6. ShotInv
  BY <1>1 DEF ShotInv, ShotGrows, ClosedShotIsWhole
<1>7. QED
  BY <1>2, <1>3, <1>4, <1>5, <1>6 DEF IInv

LEMMA Inductive == IInv /\ [Next]_vars => IInv'
  BY TypeStep, LogStep, ClosingStep, TailStepKeeps, ShotGrowsStep,
     ClosedShotStep DEF IInv, ShotInv

LEMMA Invariance == Spec => []IInv
  BY InitInv, Inductive, PTL DEF Spec

\* However often a client reconnects, whatever the page and whatever rolls back,
\* it receives events 1, 2, 3 and so on: tail over run_event_counters.
THEOREM TailHasNoGap == Spec => []TailIsGapless
<1>1. IInv => TailIsGapless
  BY DEF IInv, TailInv
<1>2. QED
  BY <1>1, Invariance, PTL

\* Four statements, each seeing what was committed before it, make a whole
\* snapshot in the order readRunProductSnapshot has them.
THEOREM SnapshotsAreWhole == Spec => []SnapshotIsWhole
<1>1. IInv => SnapshotIsWhole
  BY DEF IInv, ShotInv, ShotGrows, ClosedShotIsWhole, SnapshotIsWhole
<1>2. QED
  BY <1>1, Invariance, PTL

=============================================================================
