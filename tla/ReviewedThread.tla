---------------------------- MODULE ReviewedThread ----------------------------
(***************************************************************************)
(* The client side of an investigation: execute() and getState() of        *)
(* createInvestigationGraph (packages/graph/src/investigation.ts) on one   *)
(* checkpointed thread that several callers start, continue and answer.    *)
(*                                                                         *)
(* execute() reads the thread, checks the request against what it read and *)
(* invokes the graph afterwards, so a thread may move between the check    *)
(* and the invocation.  Invocations of one thread do not overlap: a run is *)
(* executed under a lease (DurableRun), and no guard of execute() stands   *)
(* in for it.  What the nodes do between two stops is InvestigationGraph's *)
(* subject: here an invocation runs until the review pauses it, a node     *)
(* throws, its process dies, or the run is finished.                       *)
(*                                                                         *)
(* LangGraph is modelled from how the code and its tests use it.  Each     *)
(* pause gets an interrupt id of its own, and a pending interrupt keeps    *)
(* its id when its task is run again.  A resume that names another         *)
(* interrupt decides nothing: pending work goes on, a pending review is    *)
(* asked again, and a finished run stays as it is.                         *)
(***************************************************************************)
EXTENDS Naturals, FiniteSets

CONSTANTS
    Caller,      \* clients of the thread
    Alternative, \* the hypothesis ids a human may add
    MaxReviews,  \* bound: reviews that are asked for
    Nobody

ASSUME ThreadAssumption == MaxReviews \in Nat /\ Nobody \notin Caller

VARIABLES
    stands,    \* how the thread's checkpoint was left
    runner,    \* whose invocation is executing
    readable,  \* schema and status-rules version are this graph's
    reviewed,  \* control.humanReview
    resumes,   \* control.resumeCount
    known,     \* the ids of state.hypotheses
    review,    \* the last interrupt the thread paused with; 0 before the first
    shown,     \* the interrupt each caller saw last
    checked,   \* what each caller has checked and not invoked yet
    answers    \* history: the decisions applied since the thread was started

saved == <<readable, reviewed, resumes, known>>
threadVars == <<stands, runner, saved, review, shown, checked, answers>>

-----------------------------------------------------------------------------
\* ConclusionReviewDecisionSchema.
ReviewDecision == [action : {"confirm", "reject"}]
            \cup [action : {"add_hypothesis"}, hypothesis : Alternative]

ThreadInit ==
    /\ stands = "absent"
    /\ runner = Nobody
    /\ readable = TRUE
    /\ reviewed = FALSE
    /\ resumes = 0
    /\ known = {}
    /\ review = 0
    /\ shown = [c \in Caller |-> 0]
    /\ checked = [c \in Caller |-> Nobody]
    /\ answers = {}

Pending == IF stands = "paused" THEN {review} ELSE {}
Sees(c, i) == shown' = [shown EXCEPT ![c] = i]
Holds(c, r) == checked' = [checked EXCEPT ![c] = r]

\* The request as it was parsed: it names the interrupt the caller saw.
ResumeRequest(c, d) ==
    [kind |-> "resume", interruptId |-> shown[c], decision |-> d]

\* assertHumanHypothesisIdIsAvailable.
Available(d) == d.action = "add_hypothesis" => d.hypothesis \notin known

\* getState.
Look(c) ==
    /\ stands = "paused"
    /\ Sees(c, review)
    /\ UNCHANGED <<stands, runner, saved, review, checked, answers>>

\* A start carries its own control, whatever the thread has: it is not looked
\* at first.  The hypotheses stay, since the channel's reducer upserts.
StartThread(c, human) ==
    /\ checked[c] = Nobody /\ runner = Nobody
    /\ stands' = "running"
    /\ runner' = c
    /\ readable' = TRUE
    /\ reviewed' = human
    /\ resumes' = 0
    /\ answers' = {}
    /\ UNCHANGED <<known, review, shown, checked>>

HasControl == stands # "absent"

\* readAndValidateRestoredControl: there is a control, and this graph reads it.
Resumable == HasControl /\ readable

\* A resume is refused when the thread waits for another interrupt, and let
\* through when it waits for none: it moves a run on whose node threw.
CheckResume(c, d) ==
    /\ checked[c] = Nobody /\ shown[c] # 0
    /\ Resumable
    /\ Pending \subseteq {shown[c]}
    /\ Pending # {} => Available(d)
    /\ Holds(c, ResumeRequest(c, d))
    /\ UNCHANGED <<stands, runner, saved, review, shown, answers>>

\* A continue has no answer to give, so it passes no pending review.
CheckContinue(c) ==
    /\ checked[c] = Nobody
    /\ Resumable
    /\ Pending = {}
    /\ Holds(c, [kind |-> "continue"])
    /\ UNCHANGED <<stands, runner, saved, review, shown, answers>>

-----------------------------------------------------------------------------
(* graph.invoke, some time after the check. *)

Invoking(c) ==
    /\ checked[c] # Nobody /\ runner = Nobody
    /\ Holds(c, Nobody)

\* Mutant: Command({resume: decision}) goes to whatever interrupt is pending.
AnswersAny(r) == stands = "paused" /\ r.kind = "resume"

\* Command({resume: {[interruptId]: decision}}) goes to the interrupt it names.
AnswersIt(r) ==
    /\ stands = "paused"
    /\ r.kind = "resume" /\ r.interruptId = review

\* reviewConclusion once interrupt() has returned: each decision is a resume,
\* confirm ends the run and the other two send it back.
Decide(c) ==
    LET r == checked[c]
        d == r.decision
    IN
    /\ Invoking(c)
    /\ AnswersIt(r)
    /\ readable /\ Available(d)
    /\ resumes' = resumes + 1
    /\ answers' = answers \cup {[review |-> review, meant |-> r.interruptId,
                                 action |-> d.action]}
    /\ known' = IF d.action = "add_hypothesis"
                THEN known \cup {d.hypothesis} ELSE known
    /\ IF d.action = "confirm"
       THEN stands' = "finished" /\ runner' = Nobody
       ELSE stands' = "running" /\ runner' = c
    /\ UNCHANGED <<readable, reviewed, review, shown>>

\* The pending task runs, with no decision to read.
GoOn(c) ==
    /\ Invoking(c)
    /\ stands = "stranded" /\ readable
    /\ stands' = "running"
    /\ runner' = c
    /\ UNCHANGED <<saved, review, shown, answers>>

\* The review is asked again under its id, and the result carries it.
AskAgain(c) ==
    /\ Invoking(c)
    /\ stands = "paused" /\ readable
    /\ ~AnswersIt(checked[c])
    /\ Sees(c, review)
    /\ UNCHANGED <<stands, runner, saved, review, answers>>

\* A finished run resolves with its state.
NothingToDo(c) ==
    /\ Invoking(c)
    /\ stands = "finished"
    /\ UNCHANGED <<stands, runner, saved, review, shown, answers>>

-----------------------------------------------------------------------------
(* How an invocation stops. *)

\* The bound is on reviews: past it an invocation throws or dies.
Pause ==
    /\ stands = "running" /\ reviewed
    /\ review < MaxReviews
    /\ stands' = "paused"
    /\ review' = review + 1
    /\ Sees(runner, review + 1)
    /\ runner' = Nobody
    /\ UNCHANGED <<saved, checked, answers>>

Finish ==
    /\ stands = "running" /\ ~reviewed
    /\ stands' = "finished"
    /\ runner' = Nobody
    /\ UNCHANGED <<saved, review, shown, checked, answers>>

\* A node throws, or its process dies: a task is pending and no interrupt is.
Strand ==
    /\ stands = "running"
    /\ stands' = "stranded"
    /\ runner' = Nobody
    /\ UNCHANGED <<saved, review, shown, checked, answers>>

\* The caller dies between the check and the invocation.
Abandon(c) ==
    /\ checked[c] # Nobody
    /\ Holds(c, Nobody)
    /\ UNCHANGED <<stands, runner, saved, review, shown, answers>>

\* A release that reads another version, or back: processes restart, and
\* people keep the ids they saw.
Release ==
    /\ HasControl /\ runner = Nobody
    /\ readable' = ~readable
    /\ checked' = [c \in Caller |-> Nobody]
    /\ UNCHANGED <<stands, runner, reviewed, resumes, known, review, shown, answers>>

CallerStep(c) ==
    \/ Look(c)
    \/ \E human \in BOOLEAN : StartThread(c, human)
    \/ \E d \in ReviewDecision : CheckResume(c, d)
    \/ CheckContinue(c)
    \/ Decide(c) \/ GoOn(c) \/ AskAgain(c) \/ NothingToDo(c) \/ Abandon(c)

ThreadNext ==
    \/ \E c \in Caller : CallerStep(c)
    \/ Pause \/ Finish \/ Strand \/ Release

ThreadSpec == ThreadInit /\ [][ThreadNext]_threadVars

-----------------------------------------------------------------------------
(* Properties. *)

\* A human's decision answers the conclusion it was given for and no other,
\* and each review is answered once, whatever moved between the check of an
\* answer and its delivery, and whoever retried it.  A run under review is
\* finished by the confirmation of its last conclusion, and resumeCount is the
\* number of decisions, however many invocations that took.
DecisionsAnswerWhatWasShown ==
    /\ \A a \in answers : a.meant = a.review
    /\ \A a, b \in answers : a.review = b.review => a = b
    /\ resumes = Cardinality(answers)
    /\ stands = "finished" /\ reviewed =>
          \E a \in answers : a.review = review /\ a.action = "confirm"

=============================================================================
