--------------------------- MODULE FinalPublication ---------------------------
(***************************************************************************)
(* Publishing a complete record of the final evaluation                    *)
(* (scripts/final-holdout-publication.mjs over                             *)
(* packages/evals/src/final-evaluation-publication.ts), by the run that    *)
(* measured it or by a later scripts/publish-final-holdout.mjs.  Each      *)
(* required arm is uploaded, read back, and logged beside the record       *)
(* before the next arm starts.                                             *)
(*                                                                         *)
(* The service is external.  An upload creates a dataset, whose name has   *)
(* the number of the attempt; a project that refers to it, whose name is   *)
(* the record's own experiment id, the same in every attempt; and the runs *)
(* in that project.  The service refuses the name of a dataset or of a     *)
(* project it has, and any request may fail, done or not.  Example ids are *)
(* the same in all arms and measurements, so publishing a second arm       *)
(* presupposes that they are not refused; run ids recur only with their    *)
(* project.                                                                *)
(***************************************************************************)
EXTENDS FinalEvaluation, Naturals, Sequences, SequencesExt

CONSTANTS ArmOrder,   \* FINAL_EVALUATION_PUBLISHABLE_ARMS
          MaxFaults,  \* bound: crashes of processes and failures of the service
          MaxAttempts \* bound: logged attempts up to which publishers race;
                      \* then one at a time retries, each arm twice

ASSUME MaxFaultsAssumption == MaxFaults \in Nat

VARIABLES log,       \* per candidate: the attempts in publications/<name>.jsonl
          datasets,  \* the datasets the service holds
          projects,  \* its projects, "whole" once all their runs are there
          view,      \* the attempts a publisher read
          todo,      \* the arms it still has to deal with
          answer,    \* the attempt it is about to log
          faults

publishVars == <<log, datasets, projects, view, todo, answer, faults>>
vars == <<runVars, publishVars>>

Outcome == {"verified", "ingestion-failed", "readback-failed"}

Attempt == [mid : Measurement, arm : Arm, outcome : Outcome, number : Nat]

\* The names have the record's head commit, which tells measurements apart: a
\* second measurement of a candidate follows a committed void.  "of" is the
\* dataset a project refers to.
Dataset == [mid : Measurement, arm : Arm, number : Nat]
Project == [mid : Measurement, arm : Arm, of : Nat, whole : BOOLEAN]

Init ==
    /\ RunInit
    /\ log = [c \in Candidate |-> <<>>]
    /\ datasets = {}
    /\ projects = {}
    /\ view = [p \in Process |-> <<>>]
    /\ todo = [p \in Process |-> <<>>]
    /\ answer = [p \in Process |-> None]
    /\ faults = 0

OfArm(attempts, a) == SelectSeq(attempts, LAMBDA t : t.arm = a)

\* summarizeHoldoutPublication: verified is sticky.
Verified(attempts, a) ==
    \E t \in ToSet(OfArm(attempts, a)) : t.outcome = "verified"

\* Attempts logged for other bytes than the record's refuse the publication.
SameBytes(attempts, record) == \A t \in ToSet(attempts) : t.mid = record.mid

Fault == faults < MaxFaults /\ faults' = faults + 1

Done(p) ==
    /\ Ends(p)
    /\ view' = [view EXCEPT ![p] = <<>>]
    /\ todo' = [todo EXCEPT ![p] = <<>>]
    /\ answer' = [answer EXCEPT ![p] = None]

\* publishOnly: the record at the path its own fingerprint gives, complete.
Request(p, c) ==
    /\ pc[p] = "idle"
    /\ files[c].status = "complete"
    /\ \/ Len(log[c]) < MaxAttempts
       \/ Quiet /\ Len(log[c]) < MaxAttempts + 2 * Len(ArmOrder)
    /\ cand' = [cand EXCEPT ![p] = c]
    /\ Goes(p, "recorded")
    /\ UNCHANGED <<files, moved, executed, mid, wants, publishVars>>

Unverified(attempts, record) ==
    SelectSeq(ArmOrder,
        LAMBDA a : a \in record.required /\ ~Verified(attempts, a))

\* publishRecordedMeasurement reads the record from disk, then the log, and
\* plans its loop over the arms once.
Load(p) ==
    LET record   == Kept(p)
        attempts == log[cand[p]]
        arms     == Unverified(attempts, record)
    IN  /\ pc[p] = "recorded"
        /\ IF record.status = "complete" /\ SameBytes(attempts, record)
              /\ arms # <<>>
           THEN /\ view' = [view EXCEPT ![p] = attempts]
                /\ todo' = [todo EXCEPT ![p] = arms]
                /\ mid' = [mid EXCEPT ![p] = record.mid]
                /\ Goes(p, "publishing")
                /\ UNCHANGED <<cand, wants, answer>>
           ELSE Done(p)
        /\ UNCHANGED <<files, moved, executed, log, datasets, projects, faults>>

Mine(p) == OfArm(view[p], Head(todo[p]))

\* Mutant: whatever failed is verified again.
HasAttempt(p) == Mine(p) # <<>>

\* Only an attempt that was not read back has a reference to verify again.
HasReference(p) ==
    Mine(p) # <<>> /\ Last(Mine(p)).outcome = "readback-failed"

Number(p) ==
    IF HasReference(p) THEN Last(Mine(p)).number ELSE Len(Mine(p)) + 1

Answers(p, outcome, n) ==
    /\ answer' = [answer EXCEPT ![p] =
          [mid |-> mid[p], arm |-> Head(todo[p]), outcome |-> outcome,
           number |-> n]]
    /\ Goes(p, "answered")

TheDataset(p) == [mid |-> mid[p], arm |-> Head(todo[p]), number |-> Number(p)]

\* The project of the arm's experiment, whichever attempt created it.
Taken(p) == {u \in projects : u.mid = mid[p] /\ u.arm = Head(todo[p])}

NewProject(p) == [mid |-> mid[p], arm |-> Head(todo[p]), of |-> Number(p),
                  whole |-> FALSE]

Uploading(p) == pc[p] = "publishing" /\ ~HasReference(p)

\* A request that is refused, or that fails, done or not, ends the upload; what
\* it left at the service stays there.
Fails(p, refused, Did) ==
    /\ \/ refused /\ UNCHANGED <<datasets, projects, faults>>
       \/ ~refused /\ Fault /\ (Did \/ UNCHANGED <<datasets, projects>>)
    /\ Answers(p, "ingestion-failed", Number(p))

CreatesDataset(p) ==
    datasets' = datasets \cup {TheDataset(p)} /\ UNCHANGED projects

\* createDataset, and the examples into it.
CreateDataset(p) ==
    /\ Uploading(p)
    /\ \/ /\ TheDataset(p) \notin datasets
          /\ CreatesDataset(p)
          /\ Goes(p, "filled")
          /\ UNCHANGED <<answer, faults>>
       \/ Fails(p, TheDataset(p) \in datasets, CreatesDataset(p))

CreatesProject(p) ==
    projects' = projects \cup {NewProject(p)} /\ UNCHANGED datasets

\* createProject, under the experiment's id.
CreateProject(p) ==
    /\ pc[p] = "filled"
    /\ \/ /\ Taken(p) = {}
          /\ CreatesProject(p)
          /\ Goes(p, "started")
          /\ UNCHANGED <<answer, faults>>
       \/ Fails(p, Taken(p) # {}, CreatesProject(p))

CreatesRuns(p) ==
    /\ projects' = (projects \ Taken(p)) \cup
                     {[u EXCEPT !.whole = TRUE] : u \in Taken(p)}
    /\ UNCHANGED datasets

\* createRun and createFeedback, the last of which completes the project.
CreateRuns(p) ==
    /\ pc[p] = "started"
    /\ \/ /\ CreatesRuns(p)
          /\ Goes(p, "uploaded")
          /\ UNCHANGED <<answer, faults>>
       \/ Fails(p, FALSE, CreatesRuns(p))

Reading(p) ==
    \/ pc[p] = "uploaded"
    \/ pc[p] = "publishing" /\ HasReference(p)

ReadBack(p) ==
    /\ Reading(p)
    /\ LET there == \E u \in Taken(p) : u.of = Number(p) /\ u.whole
       IN  \/ there /\ Answers(p, "verified", Number(p)) /\ UNCHANGED faults
           \/ /\ Answers(p, "readback-failed", Number(p))
              /\ IF there THEN Fault ELSE UNCHANGED faults
    /\ UNCHANGED <<datasets, projects>>

\* appendPublicationAttempt, before the loop goes on to the next arm.
Log(p) ==
    /\ pc[p] = "answered"
    /\ log' = [log EXCEPT ![cand[p]] = Append(@, answer[p])]
    /\ IF Len(todo[p]) > 1
       THEN /\ todo' = [todo EXCEPT ![p] = Tail(@)]
            /\ answer' = [answer EXCEPT ![p] = None]
            /\ Goes(p, "publishing")
            /\ UNCHANGED <<cand, mid, wants, view>>
       ELSE Done(p)
    /\ UNCHANGED <<files, moved, executed, datasets, projects, faults>>

Send(p) ==
    /\ CreateDataset(p) \/ CreateProject(p) \/ CreateRuns(p) \/ ReadBack(p)
    /\ UNCHANGED <<files, moved, executed, cand, mid, wants, log, view, todo>>

PublishStep(p) == Load(p) \/ Send(p) \/ Log(p)

Die(p) ==
    /\ Crash(p)
    /\ Fault
    /\ Done(p)
    /\ UNCHANGED <<log, datasets, projects>>

Step(p) == (MeasureStep(p) /\ UNCHANGED publishVars) \/ PublishStep(p)

Next ==
    \/ \E p \in Process :
          \/ Step(p)
          \/ Die(p)
          \/ Refuse(p) /\ UNCHANGED publishVars
          \/ \E c \in Candidate :
                \/ Request(p, c)
                \/ \E publish \in BOOLEAN :
                      Decide(p, c, publish) /\ UNCHANGED publishVars
    \/ \E c \in Candidate : Commit(c) /\ UNCHANGED publishVars

Spec == Init /\ [][Next]_vars

\* A process that was started runs on, and an operator asks again for the
\* publication of a complete record, as the failed run tells them to.
FairSpec ==
    /\ Spec
    /\ \A p \in Process : WF_vars(Step(p))
    /\ \A c \in Candidate : SF_vars(\E p \in Process : Request(p, c))

-----------------------------------------------------------------------------

Stages == {"idle", "admitted", "created", "claimed", "running", "recorded",
           "publishing", "filled", "started", "uploaded", "answered"}

\* A publication, a second run or a crash never costs the measurement: a
\* complete record changes only by a commit.
MeasurementSurvives ==
    [][\A c \in Candidate :
          files[c].status = "complete" /\ files'[c] # files[c] => Quiet]_vars

Publishable(c) ==
    files[c].status = "complete" /\ SameBytes(log[c], files[c])

\* Some attempt created the arm's project, and the attempt logged last has no
\* reference to read back: every retry's createProject is refused.
UsedUp(c, a) ==
    /\ \E u \in projects : u.mid = files[c].mid /\ u.arm = a
    /\ OfArm(log[c], a) # <<>> =>
          Last(OfArm(log[c], a)).outcome # "readback-failed"

\* Publishing again finishes a complete record, whatever two publishers and
\* crashes left in the log and with the service, as far as the service takes a
\* retry: every required arm is verified in the end, but for one whose project
\* a death or a failure left behind.  Without those each arm is verified, also
\* when publishers race.  (A commit may void the record; attempts logged for
\* an earlier, voided measurement of the candidate refuse it for good.)
ArmsSettle ==
    \A c \in Candidate : \A a \in Arm :
        (Publishable(c) /\ a \in files[c].required) ~>
            (Publishable(c) =>
                Verified(log[c], a) \/ (faults > 0 /\ UsedUp(c, a)))

=============================================================================
