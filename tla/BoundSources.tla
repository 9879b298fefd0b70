----------------------------- MODULE BoundSources -----------------------------
(***************************************************************************)
(* Evidence from bound sources: the registry that asks an adapter, limits  *)
(* the call, and records or replays its outcome                            *)
(* (packages/tools/src/bound-source-registry.ts), over one binding.  A     *)
(* process makes one call at a time, but the adapter's requests            *)
(* (github-source.ts) outlive a call that was given up.  Recordings are    *)
(* kept in one file, which a process in record mode or a migration         *)
(* rewrites; the file store has no lock, so one of them writes at a time.  *)
(* Bindings, services and requests are external.                           *)
(***************************************************************************)
EXTENDS Naturals, FiniteSets

CONSTANTS Process,      \* processes with a registry, or a migration
          Adapter,      \* the versions of the adapter the binding has had
          Question,     \* operations with their inputs
          Listed,       \* those whose operation the adapter's describe() lists
          MaxPages,     \* SourceBudgets.maxPages
          MaxFetches,   \* calls of an adapter in one behaviour
          Ends,         \* how an adapter call may end here
          Duty,         \* what a process may be started as
          None

ASSUME ListedAssumption == Listed \subseteq Question
ASSUME DutyAssumption ==
    Duty \in [Process -> SUBSET {"live", "record", "replay", "migrate"}]
ASSUME PagesAssumption == MaxPages \in Nat \ {0}
ASSUME FetchesAssumption == MaxFetches \in Nat

VARIABLES file,     \* the recordings, by adapter version and request
          pc,       \* where a process is
          mode,     \* BoundSourceMode of its registry
          version,  \* the adapter of its registry, or the migration's target
          asked,    \* the request of the call under way
          fetch,    \* the number of the adapter call it waits for
          outcome,  \* what it has for its caller
          tasks,    \* adapter calls under way, given up or not
          todo,     \* the requests a migration has still to move
          fetches,  \* adapter calls made
          settled   \* history: what each race was decided with

sourceVars == <<file, pc, mode, version, asked, fetch, outcome, tasks, todo,
                fetches, settled>>

Refusal == {"timeout", "unavailable", "denied", "rate_limited",
            "budget_exceeded", "adapter_error"}

\* A refusal by the service's status, a body over a cap, an answer that cannot
\* be read, an adapter that throws; or the pages that were read.
ASSUME EndsAssumption == Ends \subseteq Refusal \cup {"ok"}

\* "of" is the adapter call an outcome comes from; it stands for the output
\* and for provenance.fetchedAt.
Outcome == [is : Refusal \cup {"ok"}, of : 0..MaxFetches]

ASSUME NothingAssumption ==
    /\ None \notin Outcome
    /\ None \notin {"live", "record", "replay", "migrate"}

Refused(reason, n) == [is |-> reason, of |-> n]

\* buildReplayIdentity's parts; the binding is fixed.
Identity == Adapter \X Question

\* Mutant: the identity has the version but not the question.
MineByVersion(p) == <<version[p], CHOOSE q \in Question : TRUE>>

Mine(p) == <<version[p], asked[p]>>

SourceInit ==
    /\ file = [i \in Identity |-> None]
    /\ pc = [p \in Process |-> "off"]
    /\ mode = [p \in Process |-> None]
    /\ version = [p \in Process |-> None]
    /\ asked = [p \in Process |-> None]
    /\ fetch = [p \in Process |-> 0]
    /\ outcome = [p \in Process |-> None]
    /\ tasks = {}
    /\ todo = [p \in Process |-> {}]
    /\ fetches = 0
    /\ settled = {}

Set(f, p, v) == f' = [f EXCEPT ![p] = v]

Writing(p) == mode[p] \in {"record", "migrate"}

OneWriter(p, m) ==
    m \in {"record", "migrate"} => \A q \in Process \ {p} : ~Writing(q)

\* A process with a registry over the binding as it is at that time.
Boot(p, m, a) ==
    /\ pc[p] = "off"
    /\ m \in Duty[p]
    /\ OneWriter(p, m)
    /\ Set(pc, p, "idle")
    /\ Set(mode, p, m)
    /\ Set(version, p, a)
    /\ UNCHANGED <<file, asked, fetch, outcome, tasks, todo, fetches, settled>>

Quit(p) ==
    /\ Set(pc, p, "off")
    /\ Set(mode, p, None)
    /\ Set(version, p, None)
    /\ Set(asked, p, None)
    /\ Set(fetch, p, 0)
    /\ Set(outcome, p, None)
    /\ Set(todo, p, {})

\* A process ends or is killed; its requests go with it.
Stop(p) ==
    /\ pc[p] # "off"
    /\ Quit(p)
    /\ tasks' = {t \in tasks : t.by # p}
    /\ UNCHANGED <<file, fetches, settled>>

-----------------------------------------------------------------------------
(* execute()                                                               *)

\* The file is read, changed and replaced whole, by a rename.
Put(i, o) == file' = [file EXCEPT ![i] = o]

\* The call returns; what a replay returned is kept for RecordingsAreAnswers.
Answers(p, o) ==
    /\ Set(pc, p, "idle")
    /\ Set(outcome, p, IF mode[p] = "replay" THEN o ELSE None)
    /\ Set(fetch, p, 0)

\* A request that cannot be fingerprinted, or an operation that the binding
\* does not list; recorded nowhere.
Declines(p, q) ==
    /\ \/ Answers(p, Refused("adapter_error", 0))
       \/ /\ mode[p] # "replay"
          /\ q \notin Listed
          /\ Answers(p, Refused("unavailable", 0))
    /\ UNCHANGED <<tasks, fetches>>

\* The adapter is called, and the timer is set.
Calls(p, q) ==
    /\ mode[p] # "replay"
    /\ q \in Listed
    /\ fetches < MaxFetches
    /\ fetches' = fetches + 1
    /\ tasks' = tasks \cup {[n |-> fetches', by |-> p, page |-> 1]}
    /\ Set(fetch, p, fetches')
    /\ Set(outcome, p, None)
    /\ Set(pc, p, "racing")

LooksUp(p) ==
    /\ mode[p] = "replay"
    /\ Set(pc, p, "looking")
    /\ Set(outcome, p, None)
    /\ UNCHANGED <<fetch, tasks, fetches>>

Ask(p, q) ==
    /\ pc[p] = "idle"
    /\ mode[p] # "migrate"
    /\ Set(asked, p, q)
    /\ Declines(p, q) \/ Calls(p, q) \/ LooksUp(p)
    /\ UNCHANGED <<file, mode, version, todo, settled>>

\* A hit repeats the recording under this binding's provenance; no recording,
\* or one that is not well formed, is "unavailable".
Replay(p) ==
    /\ pc[p] = "looking"
    /\ \/ Answers(p, IF file[Mine(p)] = None THEN Refused("unavailable", 0)
                                             ELSE file[Mine(p)])
       \/ Answers(p, Refused("adapter_error", 0))  \* store.get throws
    /\ UNCHANGED <<file, mode, version, asked, tasks, todo, fetches, settled>>

\* The race of call p is decided; record mode stores the outcome first.
Decides(p, o) ==
    /\ IF mode[p] = "record"
       THEN Set(pc, p, "storing") /\ Set(outcome, p, o) /\ Set(fetch, p, 0)
       ELSE Answers(p, o)
    /\ settled' = settled \cup {[q |-> asked[p], o |-> o]}

\* Mutant: the timer is cleared by the first page.
TimeLimitOfFirstPage(p) ==
    /\ pc[p] = "racing"
    /\ \E t \in tasks : t.n = fetch[p] /\ t.page = 1
    /\ Decides(p, Refused("timeout", fetch[p]))
    /\ UNCHANGED <<file, mode, version, asked, tasks, todo, fetches>>

\* Nothing stops the adapter's requests.
TimeLimit(p) ==
    /\ pc[p] = "racing"
    /\ Decides(p, Refused("timeout", fetch[p]))
    /\ UNCHANGED <<file, mode, version, asked, tasks, todo, fetches>>

\* Mutant: the result of a call that was given up is taken for the next one's.
AdapterAnswersWhoever(t, is) ==
    /\ tasks' = tasks \ {t}
    /\ IF pc[t.by] = "racing" THEN Decides(t.by, [is |-> is, of |-> t.n])
       ELSE UNCHANGED <<pc, outcome, fetch, settled>>
    /\ UNCHANGED <<file, mode, version, asked, todo, fetches>>

\* A result that comes when the race is finished is dropped.
AdapterAnswers(t, is) ==
    /\ tasks' = tasks \ {t}
    /\ IF fetch[t.by] = t.n THEN Decides(t.by, [is |-> is, of |-> t.n])
       ELSE UNCHANGED <<pc, outcome, fetch, settled>>
    /\ UNCHANGED <<file, mode, version, asked, todo, fetches>>

\* Another page is linked, and the page budget allows it; the last page that
\* it allows ends the call, whatever is linked.
NextPage(t) ==
    /\ t.page < MaxPages
    /\ tasks' = (tasks \ {t}) \cup {[t EXCEPT !.page = @ + 1]}
    /\ UNCHANGED <<file, pc, mode, version, asked, fetch, outcome, todo,
                   fetches, settled>>

\* store.set
Store(p) ==
    /\ pc[p] = "storing"
    /\ Put(Mine(p), outcome[p])
    /\ Answers(p, outcome[p])
    /\ UNCHANGED <<mode, version, asked, tasks, todo, fetches, settled>>

\* The file could not be read, or not be replaced: what it held stays, and the
\* caller is refused what the adapter gave.
StoreFails(p) ==
    /\ pc[p] = "storing"
    /\ Answers(p, Refused("adapter_error", 0))
    /\ UNCHANGED <<file, mode, version, asked, tasks, todo, fetches, settled>>

-----------------------------------------------------------------------------
(* rekeyReplayRecordings: from every other version to the migration's.     *)

\* store.keys(), of which only this binding's can be read back into parts.
Movable(p) == {i \in Identity : file[i] # None /\ i[1] # version[p]}

Migrate(p) ==
    /\ pc[p] = "idle"
    /\ mode[p] = "migrate"
    /\ Set(pc, p, "migrating")
    /\ Set(todo, p, Movable(p))
    /\ UNCHANGED <<file, mode, version, asked, fetch, outcome, tasks, fetches,
                   settled>>

Moving(p, i) ==
    /\ pc[p] = "migrating"
    /\ asked[p] = None
    /\ i \in todo[p]
    /\ Set(asked, p, i)
    /\ UNCHANGED <<pc, mode, version, fetch, outcome, tasks, todo, fetches,
                   settled>>

\* Mutant: the old key is deleted before the new one is set.
RekeyTakesFirst(p, i) ==
    /\ Moving(p, i)
    /\ Put(i, None)

\* get, and set under the new identity, whatever is there.
Rekey(p, i) ==
    /\ Moving(p, i)
    /\ Put(<<version[p], i[2]>>, file[i])

\* delete of the old key
Unkey(p) ==
    /\ pc[p] = "migrating"
    /\ asked[p] # None
    /\ Put(asked[p], None)
    /\ Set(todo, p, todo[p] \ {asked[p]})
    /\ Set(asked, p, None)
    /\ UNCHANGED <<pc, mode, version, fetch, outcome, tasks, fetches, settled>>

Migrated(p) ==
    /\ pc[p] = "migrating"
    /\ todo[p] = {}
    /\ Set(pc, p, "idle")
    /\ UNCHANGED <<file, mode, version, asked, fetch, outcome, tasks, todo,
                   fetches, settled>>

MigrationStep(p) ==
    Migrate(p) \/ (\E i \in Identity : Rekey(p, i)) \/ Unkey(p) \/ Migrated(p)

CallStep(p) == TimeLimit(p) \/ Replay(p) \/ Store(p) \/ StoreFails(p)

TaskStep(t) == NextPage(t) \/ \E is \in Ends : AdapterAnswers(t, is)

Step(p) ==
    \/ \E q \in Question : Ask(p, q)
    \/ CallStep(p) \/ MigrationStep(p) \/ Stop(p)

SourceNext ==
    \/ \E p \in Process :
          \/ Step(p)
          \/ \E m \in Duty[p], a \in Adapter :
                Boot(p, m, a)
    \/ \E t \in tasks : TaskStep(t)

SourceSpec == SourceInit /\ [][SourceNext]_sourceVars

-----------------------------------------------------------------------------

\* A call is decided once, for the request it was made for: an answer that
\* comes after its time limit changes neither the call that was refused nor
\* the one that is under way by then (executeWithTimeout's "finished").
LateAnswersAreDropped ==
    \A s, t \in settled : s.o.of = t.o.of => s = t

\* What is on file for a request, and what a replay of it returns, is what a
\* call for that request was decided with, whatever migrations have moved and
\* crashes have cut short.
RecordingsAreAnswers ==
    /\ \A i \in Identity :
          file[i] # None => \E s \in settled : s.q = i[2] /\ s.o = file[i]
    /\ \A p \in Process :
          mode[p] = "replay" /\ outcome[p] # None /\ outcome[p].of # 0 =>
              \E s \in settled : s.q = asked[p] /\ s.o = outcome[p]

Recorded(q) == \E a \in Adapter : file[<<a, q>>] # None

\* A request that was recorded stays recorded, under one version or another:
\* a failed write keeps the file, and a migration that is killed between two
\* of its steps, or run again after that, loses nothing.
RecordingsStay == [][\A q \in Question : Recorded(q) => Recorded(q)']_file

\* A call is under way.
Busy(p) == pc[p] \in {"racing", "looking", "storing"}

=============================================================================
