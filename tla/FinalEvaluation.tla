--------------------------- MODULE FinalEvaluation ---------------------------
(***************************************************************************)
(* The one-shot evaluation of the final hold-out                           *)
(* (scripts/eval-final-holdout.mjs over                                    *)
(* packages/evals/src/final-evaluation-record.ts).  A run reads the        *)
(* records kept in the repository, decides whether its candidate may still *)
(* spend the corpus, claims it by an exclusive create, runs the lane once  *)
(* and replaces the claim by the complete record.  Several runs may be     *)
(* under way on one checkout; any of them may die at any point.  Records   *)
(* also change by commits, which a checkout takes between runs: a reviewed *)
(* void, and a rename.  The publication of a complete record is            *)
(* FinalPublication, which extends this module.                            *)
(***************************************************************************)
CONSTANTS Process,      \* runs of the two commands
          Candidate,    \* fingerprints of what can change the graph's answers
          Measurement,  \* the random identities that claims carry
          Arm,          \* the arms whose experiments may be published
          None

VARIABLES files,     \* per candidate: the record at the path its runs write to
          moved,     \* per candidate: records naming it under another path
          executed,  \* per candidate: the measurements whose scenarios ran
          pc,        \* where a process is
          cand,      \* its candidate
          mid,       \* the measurementId of its record
          wants      \* whether it was told to publish

runVars == <<files, moved, executed, pc, cand, mid, wants>>

Status == {"absent", "torn", "claimed", "complete", "void"}

\* "required" is the record's publicationPlan: the arms to be published.
Record == [status : Status, mid : Measurement \cup {None}, required : SUBSET Arm]

NoFile == [status |-> "absent", mid |-> None, required |-> {}]

RunInit ==
    /\ files = [c \in Candidate |-> NoFile]
    /\ moved = [c \in Candidate |-> {}]
    /\ executed = [c \in Candidate |-> {}]
    /\ pc = [p \in Process |-> "idle"]
    /\ cand = [p \in Process |-> None]
    /\ mid = [p \in Process |-> None]
    /\ wants = [p \in Process |-> FALSE]

Goes(p, to) == pc' = [pc EXCEPT ![p] = to]

Kept(p) == files[cand[p]]

Puts(c, status, m, required) ==
    files' = [files EXCEPT ![c] =
                 [status |-> status, mid |-> m, required |-> required]]

\* What readRecords finds for a candidate, wherever it is kept.
Records(c) == {files[c]} \cup moved[c]

\* Mutant: a record covers what its file name says.
CoveringByPath(c) == {r \in {files[c]} : r.status \in {"claimed", "complete"}}

Covering(c) == {r \in Records(c) : r.status \in {"claimed", "complete"}}

\* One record that does not parse refuses every candidate.
Readable == \A c \in Candidate : \A r \in Records(c) : r.status # "torn"

Admits(c) == Readable /\ Covering(c) = {}

\* main() up to the decision, which a run that is refused does not survive;
\* a dry run ends here as well.
Decide(p, c, publish) ==
    /\ pc[p] = "idle"
    /\ Admits(c)
    /\ Goes(p, "admitted")
    /\ cand' = [cand EXCEPT ![p] = c]
    /\ wants' = [wants EXCEPT ![p] = publish]
    /\ UNCHANGED <<files, moved, executed, mid>>

Ends(p) ==
    /\ Goes(p, "idle")
    /\ cand' = [cand EXCEPT ![p] = None]
    /\ mid' = [mid EXCEPT ![p] = None]
    /\ wants' = [wants EXCEPT ![p] = FALSE]

\* No credential, or a control baseline that cannot be used.
Refuse(p) ==
    /\ pc[p] = "admitted"
    /\ Ends(p)
    /\ UNCHANGED <<files, moved, executed>>

\* openSync(path, 'wx').  The file is there, and empty, before it is written;
\* whoever finds it there fails with EEXIST.
Create(p) ==
    /\ pc[p] = "admitted"
    /\ IF Kept(p).status = "absent"
       THEN /\ Puts(cand[p], "torn", None, {})
            /\ Goes(p, "created")
            /\ UNCHANGED <<cand, mid, wants>>
       ELSE Ends(p) /\ UNCHANGED files
    /\ UNCHANGED <<moved, executed>>

Named(m) ==
    \E c \in Candidate : m \in executed[c] \/ \E r \in Records(c) : r.mid = m

\* randomUUID: no measurement has it yet, and which it is does not matter.
Claim(p, m) ==
    /\ pc[p] = "created"
    /\ ~Named(m)
    /\ m = CHOOSE n \in Measurement : ~Named(n)
    /\ Puts(cand[p], "claimed", m, {})
    /\ mid' = [mid EXCEPT ![p] = m]
    /\ Goes(p, "claimed")
    /\ UNCHANGED <<moved, executed, cand, wants>>

\* The lane's first scenario: from here on the corpus is spent.
Execute(p) ==
    /\ pc[p] = "claimed"
    /\ executed' = [executed EXCEPT ![cand[p]] = @ \cup {mid[p]}]
    /\ Goes(p, "running")
    /\ UNCHANGED <<files, moved, cand, mid, wants>>

\* The lane has returned: writeRecordDurably renames the complete record over
\* the claim, and only then is publication tried, if it was asked for.
Complete(p, required) ==
    /\ pc[p] = "running"
    /\ Puts(cand[p], "complete", mid[p], required)
    /\ IF wants[p] THEN Goes(p, "recorded") /\ UNCHANGED <<cand, mid, wants>>
       ELSE Ends(p)
    /\ UNCHANGED <<moved, executed>>

\* A process dies, or throws, wherever it is.
Crash(p) ==
    /\ pc[p] # "idle"
    /\ Ends(p)
    /\ UNCHANGED <<files, moved, executed>>

\* Commits change the records of a checkout between two runs.
Quiet == \A p \in Process : pc[p] = "idle"

\* A reviewed void, in place: the record names its reason and its author.
Void(c) ==
    /\ Quiet
    /\ files[c].status \in {"torn", "claimed", "complete"}
    /\ files' = [files EXCEPT ![c].status = "void"]
    /\ UNCHANGED <<moved, executed, pc, cand, mid, wants>>

\* A record that parses is kept under another name.
Rename(c) ==
    /\ Quiet
    /\ files[c].status \in {"claimed", "complete", "void"}
    /\ moved' = [moved EXCEPT ![c] = @ \cup {files[c]}]
    /\ files' = [files EXCEPT ![c] = NoFile]
    /\ UNCHANGED <<executed, pc, cand, mid, wants>>

MeasureStep(p) ==
    \/ Create(p)
    \/ \E m \in Measurement : Claim(p, m)
    \/ Execute(p)
    \/ \E required \in SUBSET Arm : Complete(p, required)

Commit(c) == Void(c) \/ Rename(c)

-----------------------------------------------------------------------------

Voided(c, m) == \E r \in Records(c) : r.mid = m /\ r.status = "void"

\* The hold-out is spent once per candidate: of two executions of one
\* candidate, one was voided by a committed record (decideFinalEvaluation and
\* the exclusive create of claimRecord), whatever crashes and races with it.
OneShot ==
    \A c \in Candidate : \A m, n \in executed[c] :
        m = n \/ Voided(c, m) \/ Voided(c, n)

=============================================================================
