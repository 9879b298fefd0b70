----------------------------- MODULE ToolsProofs -----------------------------
(***************************************************************************)
(* A source's answer counts once, and recordings are answers that stay,    *)
(* for any number of processes, adapter versions, questions and calls.     *)
(*                                                                         *)
(* Late answers need only that an open race has a call number of its own   *)
(* that nothing was decided with.  What is on file needs more: where each  *)
(* process is, what it asked, and that one process at a time writes.       *)
(***************************************************************************)
EXTENDS Tools, TLAPS

Mode == {"live", "record", "replay", "migrate"}
Place == {"off", "idle", "racing", "looking", "storing", "migrating"}

SourceTypeOK ==
    /\ file \in [Identity -> Outcome \cup {None}]
    /\ pc \in [Process -> Place]
    /\ mode \in [Process -> Mode \cup {None}]
    /\ version \in [Process -> Adapter \cup {None}]
    /\ asked \in [Process -> Question \cup Identity \cup {None}]
    /\ fetch \in [Process -> 0..MaxFetches]
    /\ outcome \in [Process -> Outcome \cup {None}]
    /\ tasks \subseteq [n : 1..MaxFetches, by : Process, page : Nat]
    /\ todo \in [Process -> SUBSET Identity]
    /\ fetches \in 0..MaxFetches

\* A call that is raced for has a number of its own, and undecided.
RacesAreOpen ==
    /\ \A p \in Process :
          /\ pc[p] = "racing" => fetch[p] \in 1..fetches
          /\ pc[p] # "racing" => fetch[p] = 0
    /\ \A p, q \in Process : fetch[p] = fetch[q] /\ fetch[p] # 0 => p = q
    /\ \A t \in tasks : t.n \in 1..fetches
    /\ \A s \in settled :
          /\ s.o.of \in 1..fetches
          /\ \A p \in Process : fetch[p] # s.o.of

RaceInv == SourceTypeOK /\ RacesAreOpen /\ LateAnswersAreDropped

Settled(q, o) == \E s \in settled : s.q = q /\ s.o = o

\* What a process may be doing in its mode, and for which request.
Station(p) ==
    /\ pc[p] = "off" => mode[p] = None /\ asked[p] = None /\ outcome[p] = None
    /\ pc[p] # "off" => mode[p] \in Mode /\ version[p] \in Adapter
    /\ pc[p] \in {"racing", "storing", "looking"} => asked[p] \in Question
    /\ pc[p] = "racing" => mode[p] \in {"live", "record"}
    /\ pc[p] = "looking" => mode[p] = "replay"
    /\ pc[p] = "storing" =>
          /\ mode[p] = "record"
          /\ outcome[p] \in Outcome
          /\ Settled(asked[p], outcome[p])
    /\ pc[p] = "migrating" => mode[p] = "migrate"
    /\ mode[p] = "migrate" /\ pc[p] # "migrating" => asked[p] = None

Stations == \A p \in Process : Station(p)

OneWrites == \A p, q \in Process : Writing(p) /\ Writing(q) => p = q

\* What is being moved stays under its old key until it has the new one.
MovesAreSafe ==
    \A p \in Process : pc[p] = "migrating" =>
        /\ \A i \in todo[p] : file[i] # None /\ i[1] # version[p]
        /\ asked[p] # None =>
              asked[p] \in todo[p] /\ file[<<version[p], asked[p][2]>>] # None

FileInv == SourceTypeOK /\ Stations /\ OneWrites /\ MovesAreSafe
           /\ RecordingsAreAnswers

-----------------------------------------------------------------------------
(* Types.                                                                  *)

LEMMA RefusedIsOutcome ==
  ASSUME NEW r \in Refusal, NEW n \in 0..MaxFetches
  PROVE  Refused(r, n) \in Outcome
BY DEF Refused, Outcome

\* Every identity that is used is one.
LEMMA IdentityOf ==
  ASSUME NEW a \in Adapter, NEW q \in Question
  PROVE  <<a, q>> \in Identity
BY DEF Identity

LEMMA AnswersType ==
  ASSUME SourceTypeOK, NEW p \in Process, NEW o \in Outcome, Answers(p, o)
  PROVE  /\ pc' \in [Process -> Place]
         /\ outcome' \in [Process -> Outcome \cup {None}]
         /\ fetch' \in [Process -> 0..MaxFetches]
BY FetchesAssumption DEF Answers, Set, SourceTypeOK, Place

LEMMA DecidesType ==
  ASSUME SourceTypeOK, NEW p \in Process, NEW o \in Outcome, Decides(p, o)
  PROVE  /\ pc' \in [Process -> Place]
         /\ outcome' \in [Process -> Outcome \cup {None}]
         /\ fetch' \in [Process -> 0..MaxFetches]
BY AnswersType, FetchesAssumption DEF Decides, Set, SourceTypeOK, Place

LEMMA AskType ==
  ASSUME SourceTypeOK, NEW p \in Process, NEW q \in Question, Ask(p, q)
  PROVE  SourceTypeOK'
<1> USE FetchesAssumption DEF Ask, Set
<1>1. asked' \in [Process -> Question \cup Identity \cup {None}]
  BY DEF Set, SourceTypeOK
<1>2. CASE Declines(p, q)
  <2>1. \E r \in Refusal : Answers(p, Refused(r, 0))
    BY <1>2 DEF Declines, Refusal
  <2>2. PICK r \in Refusal : Answers(p, Refused(r, 0))
    BY <2>1
  <2> QED
    BY <1>1, <1>2, <2>2, RefusedIsOutcome, AnswersType
    DEF Declines, SourceTypeOK
<1>3. CASE Calls(p, q)
  <2>1. fetches' \in 0..MaxFetches /\ fetches' \in 1..MaxFetches
    BY <1>3 DEF Calls, SourceTypeOK
  <2>2. tasks' \subseteq [n : 1..MaxFetches, by : Process, page : Nat]
    BY <1>3, <2>1 DEF Calls, SourceTypeOK
  <2> QED
    BY <1>1, <1>3, <2>1, <2>2 DEF Calls, Set, SourceTypeOK, Place
<1>4. CASE LooksUp(p)
  BY <1>1, <1>4 DEF LooksUp, Set, SourceTypeOK, Place
<1> QED
  BY <1>2, <1>3, <1>4

LEMMA CallType ==
  ASSUME SourceTypeOK, Stations, NEW p \in Process, CallStep(p)
  PROVE  SourceTypeOK'
<1> USE FetchesAssumption
<1>1. CASE TimeLimit(p)
  <2>1. Refused("timeout", fetch[p]) \in Outcome
    BY RefusedIsOutcome DEF SourceTypeOK, Refusal
  <2> QED
    BY <1>1, <2>1 DEF TimeLimit, Decides, Answers, Set, SourceTypeOK, Place
<1>2. CASE Replay(p)
  <2>1. Refused("unavailable", 0) \in Outcome
        /\ Refused("adapter_error", 0) \in Outcome
    BY RefusedIsOutcome DEF Refusal
  <2>2. file[Mine(p)] # None => file[Mine(p)] \in Outcome
    <3>1. Mine(p) \in Identity
      BY <1>2 DEF Replay, Stations, Station, Mine, Identity
    <3> QED
      BY <3>1 DEF SourceTypeOK
  <2>3. outcome' \in [Process -> Outcome \cup {None}]
    BY <1>2, <2>1, <2>2 DEF Replay, Answers, Set, SourceTypeOK
  <2> QED
    BY <1>2, <2>3 DEF Replay, Answers, Set, SourceTypeOK, Place
<1>3. CASE Store(p)
  <2>1. file' \in [Identity -> Outcome \cup {None}]
    BY <1>3 DEF Store, Put, SourceTypeOK
  <2>2. outcome' \in [Process -> Outcome \cup {None}]
    BY <1>3 DEF Store, Answers, Set, SourceTypeOK
  <2>3. pc' \in [Process -> Place] /\ fetch' \in [Process -> 0..MaxFetches]
    BY <1>3 DEF Store, Answers, Set, SourceTypeOK, Place
  <2> QED
    BY <1>3, <2>1, <2>2, <2>3 DEF Store, SourceTypeOK
<1>4. CASE StoreFails(p)
  <2>1. Refused("adapter_error", 0) \in Outcome
    BY RefusedIsOutcome DEF Refusal
  <2> QED
    BY <1>4, <2>1, AnswersType DEF StoreFails, SourceTypeOK
<1> QED
  BY <1>1, <1>2, <1>3, <1>4 DEF CallStep

LEMMA TaskType ==
  ASSUME SourceTypeOK, NEW t \in tasks, TaskStep(t)
  PROVE  SourceTypeOK'
<1> USE FetchesAssumption
<1>0. t.by \in Process /\ t.n \in 0..MaxFetches
  BY DEF SourceTypeOK
<1>1. CASE NextPage(t)
  <2>1. [t EXCEPT !.page = @ + 1] \in [n : 1..MaxFetches, by : Process, page : Nat]
    BY DEF SourceTypeOK
  <2> QED
    BY <1>1, <2>1 DEF NextPage, SourceTypeOK
<1>2. CASE \E is \in Ends : AdapterAnswers(t, is)
  <2>1. PICK is \in Ends : AdapterAnswers(t, is)
    BY <1>2
  <2>2. [is |-> is, of |-> t.n] \in Outcome
    BY <1>0, EndsAssumption DEF Outcome
  <2> QED
    BY <1>0, <2>1, <2>2, DecidesType DEF AdapterAnswers, SourceTypeOK
<1> QED
  BY <1>1, <1>2 DEF TaskStep

LEMMA MigrationType ==
  ASSUME SourceTypeOK, NEW p \in Process, MigrationStep(p)
  PROVE  SourceTypeOK'
<1>1. CASE Migrate(p)
  BY <1>1 DEF Migrate, Movable, Set, SourceTypeOK, Place
<1>2. CASE \E i \in Identity : Rekey(p, i)
  BY <1>2 DEF Rekey, Moving, Put, Set, SourceTypeOK
<1>3. CASE Unkey(p)
  BY <1>3 DEF Unkey, Put, Set, SourceTypeOK
<1>4. CASE Migrated(p)
  BY <1>4 DEF Migrated, Set, SourceTypeOK, Place
<1> QED
  BY <1>1, <1>2, <1>3, <1>4 DEF MigrationStep

LEMMA ProcessType ==
  ASSUME SourceTypeOK, NEW p \in Process,
         Stop(p) \/ \E m \in Duty[p], a \in Adapter : Boot(p, m, a)
  PROVE  SourceTypeOK'
<1>1. CASE Stop(p)
  BY <1>1, FetchesAssumption DEF Stop, Quit, Set, SourceTypeOK, Place
<1>2. CASE \E m \in Duty[p], a \in Adapter : Boot(p, m, a)
  <2>1. Duty[p] \subseteq Mode
    BY DutyAssumption DEF Mode
  <2> QED
    BY <1>2, <2>1 DEF Boot, Set, SourceTypeOK, Place
<1> QED
  BY <1>1, <1>2

-----------------------------------------------------------------------------
(* Races.                                                                  *)

LEMMA RaceGoesOn ==
  ASSUME RacesAreOpen, LateAnswersAreDropped,
         UNCHANGED <<fetch, fetches, settled>>,
         \A t \in tasks' : t.n \in 1..fetches,
         \A p \in Process : pc'[p] = "racing" <=> pc[p] = "racing"
  PROVE  RacesAreOpen' /\ LateAnswersAreDropped'
BY DEF RacesAreOpen, LateAnswersAreDropped

\* A race is decided under its own number, which no one holds afterwards.
LEMMA RaceIsDecided ==
  ASSUME SourceTypeOK, RacesAreOpen, LateAnswersAreDropped, NEW p \in Process,
         pc[p] = "racing",
         fetch' = [fetch EXCEPT ![p] = 0],
         \E s : s.o.of = fetch[p] /\ settled' = settled \cup {s},
         UNCHANGED fetches,
         \A t \in tasks' : t.n \in 1..fetches,
         \A q \in Process : pc'[q] = "racing" <=> pc[q] = "racing" /\ q # p
  PROVE  RacesAreOpen' /\ LateAnswersAreDropped'
<1>1. PICK s : s.o.of = fetch[p] /\ settled' = settled \cup {s}
  OBVIOUS
<1>2. fetch[p] \in 1..fetches
  BY DEF RacesAreOpen
<1>3. \A r \in settled : r.o.of # s.o.of
  BY <1>1 DEF RacesAreOpen
<1>4. LateAnswersAreDropped'
  BY <1>1, <1>3 DEF LateAnswersAreDropped
<1>5. \A q \in Process : fetch'[q] = IF q = p THEN 0 ELSE fetch[q]
  BY DEF SourceTypeOK
<1>6. \A q \in Process : /\ pc'[q] = "racing" => fetch'[q] \in 1..fetches'
                         /\ pc'[q] # "racing" => fetch'[q] = 0
  BY <1>5 DEF RacesAreOpen
<1>7. \A q, r \in Process : fetch'[q] = fetch'[r] /\ fetch'[q] # 0 => q = r
  BY <1>5 DEF RacesAreOpen
<1>8. \A r \in settled' : /\ r.o.of \in 1..fetches'
                          /\ \A q \in Process : fetch'[q] # r.o.of
  <2> SUFFICES ASSUME NEW r \in settled'
               PROVE  /\ r.o.of \in 1..fetches'
                      /\ \A q \in Process : fetch'[q] # r.o.of
    OBVIOUS
  <2>1. CASE r \in settled
    BY <2>1, <1>5 DEF RacesAreOpen, SourceTypeOK
  <2>2. CASE r = s
    BY <2>2, <1>1, <1>2, <1>5 DEF RacesAreOpen, SourceTypeOK
  <2> QED
    BY <1>1, <2>1, <2>2
<1> QED
  BY <1>4, <1>6, <1>7, <1>8 DEF RacesAreOpen

LEMMA AskRaces ==
  ASSUME RaceInv, NEW p \in Process, NEW q \in Question, Ask(p, q)
  PROVE  RacesAreOpen' /\ LateAnswersAreDropped'
<1> USE DEF RaceInv, Ask, Set
<1>1. CASE Declines(p, q)
  <2>1. fetch' = [fetch EXCEPT ![p] = 0] /\ pc' = [pc EXCEPT ![p] = "idle"]
    BY <1>1 DEF Declines, Answers
  <2>2. fetch' = fetch
    BY <2>1 DEF RacesAreOpen, SourceTypeOK
  <2>3. \A r \in Process : pc'[r] = "racing" <=> pc[r] = "racing"
    BY <2>1 DEF SourceTypeOK
  <2> QED
    BY <1>1, <2>2, <2>3, RaceGoesOn DEF Declines, RacesAreOpen
<1>2. CASE Calls(p, q)
  <2>1. /\ fetches' = fetches + 1 /\ fetches \in Nat
        /\ \A r \in Process :
              /\ fetch'[r] = IF r = p THEN fetches + 1 ELSE fetch[r]
              /\ pc'[r] = IF r = p THEN "racing" ELSE pc[r]
    BY <1>2, FetchesAssumption DEF Calls, SourceTypeOK
  <2>2. \A r \in Process : fetch[r] \in 0..fetches
    BY <2>1 DEF RacesAreOpen
  <2>3. \A r \in Process : /\ pc'[r] = "racing" => fetch'[r] \in 1..fetches'
                           /\ pc'[r] # "racing" => fetch'[r] = 0
    BY <2>1, <2>2 DEF RacesAreOpen
  <2>4. \A r, u \in Process : fetch'[r] = fetch'[u] /\ fetch'[r] # 0 => r = u
    BY <2>1, <2>2 DEF RacesAreOpen
  <2>5. \A t \in tasks' : t.n \in 1..fetches'
    BY <1>2, <2>1 DEF Calls, RacesAreOpen
  <2>6. \A s \in settled : s.o.of \in 1..fetches' /\ s.o.of # fetches + 1
    BY <2>1 DEF RacesAreOpen
  <2>7. \A s \in settled', r \in Process : fetch'[r] # s.o.of
    BY <2>1, <2>6 DEF RacesAreOpen
  <2> QED
    BY <2>3, <2>4, <2>5, <2>6, <2>7 DEF RacesAreOpen, LateAnswersAreDropped
<1>3. CASE LooksUp(p)
  <2>1. \A r \in Process : pc'[r] = "racing" <=> pc[r] = "racing"
    BY <1>3 DEF LooksUp, SourceTypeOK
  <2> QED
    BY <1>3, <2>1, RaceGoesOn DEF LooksUp, RacesAreOpen
<1> QED
  BY <1>1, <1>2, <1>3

LEMMA CallRaces ==
  ASSUME RaceInv, NEW p \in Process, CallStep(p)
  PROVE  RacesAreOpen' /\ LateAnswersAreDropped'
<1> USE DEF RaceInv, Set
<1>1. CASE TimeLimit(p)
  <2>1. /\ pc[p] = "racing"
        /\ fetch' = [fetch EXCEPT ![p] = 0]
        /\ \A q \in Process : pc'[q] = "racing" <=> pc[q] = "racing" /\ q # p
    BY <1>1 DEF TimeLimit, Decides, Answers, SourceTypeOK
  <2>2. \E s : s.o.of = fetch[p] /\ settled' = settled \cup {s}
    BY <1>1 DEF TimeLimit, Decides, Refused
  <2> QED
    BY <1>1, <2>1, <2>2, RaceIsDecided DEF TimeLimit, RacesAreOpen
<1>2. CASE Replay(p) \/ Store(p) \/ StoreFails(p)
  <2>1. /\ pc[p] # "racing"
        /\ fetch' = [fetch EXCEPT ![p] = 0] /\ pc' = [pc EXCEPT ![p] = "idle"]
        /\ UNCHANGED <<tasks, fetches, settled>>
    BY <1>2 DEF Replay, Store, StoreFails, Answers
  <2>2. fetch' = fetch
    BY <2>1 DEF RacesAreOpen, SourceTypeOK
  <2>3. \A r \in Process : pc'[r] = "racing" <=> pc[r] = "racing"
    BY <2>1 DEF SourceTypeOK
  <2> QED
    BY <2>1, <2>2, <2>3, RaceGoesOn DEF RacesAreOpen
<1> QED
  BY <1>1, <1>2 DEF CallStep

LEMMA TaskRaces ==
  ASSUME RaceInv, NEW t \in tasks, TaskStep(t)
  PROVE  RacesAreOpen' /\ LateAnswersAreDropped'
<1> USE DEF RaceInv, Set
<1>0. t.by \in Process /\ t.n \in 1..fetches
  BY DEF SourceTypeOK, RacesAreOpen
<1>1. CASE NextPage(t)
  <2>1. \A u \in tasks' : u.n \in 1..fetches
    BY <1>1 DEF NextPage, RacesAreOpen, SourceTypeOK
  <2> QED
    BY <1>1, <2>1, RaceGoesOn DEF NextPage
<1>2. ASSUME NEW is \in Ends, AdapterAnswers(t, is), fetch[t.by] = t.n
      PROVE  RacesAreOpen' /\ LateAnswersAreDropped'
  <2>0. pc[t.by] = "racing"
    BY <1>0, <1>2 DEF RacesAreOpen
  <2>1. /\ fetch' = [fetch EXCEPT ![t.by] = 0]
        /\ \A q \in Process : pc'[q] = "racing" <=> pc[q] = "racing" /\ q # t.by
    BY <1>0, <1>2 DEF AdapterAnswers, Decides, Answers, SourceTypeOK
  <2>2. \E s : s.o.of = fetch[t.by] /\ settled' = settled \cup {s}
    BY <1>2 DEF AdapterAnswers, Decides
  <2>3. fetches' = fetches /\ \A u \in tasks' : u.n \in 1..fetches
    BY <1>2 DEF AdapterAnswers, RacesAreOpen
  <2> QED
    BY <1>0, <2>0, <2>1, <2>2, <2>3, RaceIsDecided
<1>3. ASSUME NEW is \in Ends, AdapterAnswers(t, is), fetch[t.by] # t.n
      PROVE  RacesAreOpen' /\ LateAnswersAreDropped'
  BY <1>3, RaceGoesOn DEF AdapterAnswers, RacesAreOpen
<1> QED
  BY <1>1, <1>2, <1>3 DEF TaskStep

LEMMA OtherRaces ==
  ASSUME RaceInv, NEW p \in Process,
         \/ MigrationStep(p) \/ Stop(p)
         \/ \E m \in Duty[p], a \in Adapter : Boot(p, m, a)
  PROVE  RacesAreOpen' /\ LateAnswersAreDropped'
<1> USE DEF RaceInv, Set
<1>1. CASE Stop(p)
  <2>1. \A r \in Process : fetch'[r] = (IF r = p THEN 0 ELSE fetch[r])
                        /\ pc'[r] = (IF r = p THEN "off" ELSE pc[r])
    BY <1>1 DEF Stop, Quit, SourceTypeOK
  <2>2. fetches' = fetches /\ settled' = settled /\ tasks' \subseteq tasks
    BY <1>1 DEF Stop
  <2>3. \A s \in settled', r \in Process : fetch'[r] # s.o.of
    BY <2>1, <2>2 DEF RacesAreOpen, SourceTypeOK
  <2> QED
    BY <2>1, <2>2, <2>3 DEF RacesAreOpen, LateAnswersAreDropped
<1>2. CASE MigrationStep(p) \/ \E m \in Duty[p], a \in Adapter : Boot(p, m, a)
  <2>1. UNCHANGED <<fetch, fetches, settled, tasks>>
    BY <1>2 DEF MigrationStep, Migrate, Rekey, Moving, Unkey, Migrated, Boot
  <2>2. \A r \in Process : pc'[r] = "racing" <=> pc[r] = "racing"
    BY <1>2 DEF MigrationStep, Migrate, Rekey, Moving, Unkey, Migrated, Boot,
                SourceTypeOK
  <2> QED
    BY <2>1, <2>2, RaceGoesOn DEF RacesAreOpen
<1> QED
  BY <1>1, <1>2

-----------------------------------------------------------------------------
(* Recordings.                                                             *)

\* What one process does leaves the stations of the others: their own state is
\* theirs, and what was settled stays.
LEMMA StationsOfOthers ==
  ASSUME Stations, NEW p \in Process, NEW q \in Process \ {p},
         settled \subseteq settled',
         pc'[q] = pc[q], mode'[q] = mode[q], version'[q] = version[q],
         asked'[q] = asked[q], outcome'[q] = outcome[q]
  PROVE  Station(q)'
BY DEF Stations, Station, Settled

\* The file and what was settled stay, and p moves nothing.
LEMMA MovesOfOthers ==
  ASSUME MovesAreSafe, NEW p \in Process, UNCHANGED file, pc'[p] # "migrating",
         \A q \in Process \ {p} :
            /\ pc'[q] = pc[q] /\ version'[q] = version[q]
            /\ asked'[q] = asked[q] /\ todo'[q] = todo[q]
  PROVE  MovesAreSafe'
BY DEF MovesAreSafe

LEMMA AskFiles ==
  ASSUME FileInv, NEW p \in Process, NEW q \in Question, Ask(p, q)
  PROVE  Stations' /\ OneWrites' /\ MovesAreSafe' /\ RecordingsAreAnswers'
<1> USE DEF FileInv, Ask, Set
<1>1. /\ pc[p] = "idle" /\ mode[p] # "migrate" /\ asked'[p] = q
      /\ UNCHANGED <<file, mode, version, todo, settled>>
      /\ \A r \in Process \ {p} : asked'[r] = asked[r]
      /\ mode[p] \in Mode /\ version[p] \in Adapter
  BY DEF SourceTypeOK, Stations, Station
<1>2. /\ \A r \in Process \ {p} : pc'[r] = pc[r] /\ outcome'[r] = outcome[r]
      /\ \/ pc'[p] = "idle" /\ (mode[p] = "replay" => outcome'[p].of = 0)
         \/ pc'[p] = "racing" /\ mode[p] # "replay"
         \/ pc'[p] = "looking" /\ mode[p] = "replay" /\ outcome'[p] = None
  <2>1. CASE Declines(p, q)
    BY <2>1 DEF Declines, Answers, Refused, SourceTypeOK
  <2>2. CASE Calls(p, q)
    BY <2>2 DEF Calls, SourceTypeOK
  <2>3. CASE LooksUp(p)
    BY <2>3 DEF LooksUp, SourceTypeOK
  <2> QED
    BY <2>1, <2>2, <2>3
<1>3. Stations'
  <2>1. Station(p)'
    BY <1>1, <1>2 DEF Station, Mode
  <2>2. \A r \in Process \ {p} : Station(r)'
    BY <1>1, <1>2, StationsOfOthers
  <2> QED
    BY <2>1, <2>2 DEF Stations
<1>4. OneWrites'
  BY <1>1 DEF OneWrites, Writing
<1>5. MovesAreSafe'
  BY <1>1, <1>2, MovesOfOthers
<1>6. RecordingsAreAnswers'
  BY <1>1, <1>2 DEF RecordingsAreAnswers
<1> QED
  BY <1>3, <1>4, <1>5, <1>6

\* A race of p is decided with o: it is settled before it is stored.
LEMMA DecidedFiles ==
  ASSUME FileInv, NEW p \in Process, pc[p] = "racing",
         UNCHANGED <<file, mode, version, asked, todo>>,
         NEW o \in Outcome, settled' = settled \cup {[q |-> asked[p], o |-> o]},
         \A r \in Process \ {p} : pc'[r] = pc[r] /\ outcome'[r] = outcome[r],
         IF mode[p] = "record" THEN pc'[p] = "storing" /\ outcome'[p] = o
                               ELSE pc'[p] = "idle" /\ outcome'[p] = None
  PROVE  Stations' /\ OneWrites' /\ MovesAreSafe' /\ RecordingsAreAnswers'
<1> USE DEF FileInv
<1>1. asked[p] \in Question /\ mode[p] \in {"live", "record"}
      /\ version[p] \in Adapter
  BY DEF Stations, Station
<1>2. \E s \in settled' : s.q = asked'[p] /\ s.o = o
  <2>1. [q |-> asked[p], o |-> o] \in settled' /\ asked' = asked
    OBVIOUS
  <2> QED
    BY <2>1
<1>3. Stations'
  <2>1. ASSUME mode[p] = "record" PROVE Station(p)'
    <3>1. pc'[p] = "storing" /\ outcome'[p] \in Outcome
                             /\ Settled(asked[p], outcome[p])'
      BY <1>2, <2>1 DEF Settled
    <3> QED
      BY <1>1, <2>1, <3>1 DEF Station, Mode
  <2>2. ASSUME mode[p] # "record" PROVE Station(p)'
    BY <1>1, <2>2 DEF Station, Mode
  <2>3. \A r \in Process \ {p} : Station(r)'
    BY StationsOfOthers
  <2> QED
    BY <2>1, <2>2, <2>3 DEF Stations
<1>4. OneWrites'
  BY DEF OneWrites, Writing
<1>5. MovesAreSafe'
  BY MovesOfOthers
<1>6. RecordingsAreAnswers'
  BY <1>1 DEF RecordingsAreAnswers
<1> QED
  BY <1>3, <1>4, <1>5, <1>6

\* A call is over, and the file has not changed.
LEMMA ReturnedFiles ==
  ASSUME FileInv, NEW p \in Process, pc[p] # "off", pc[p] # "migrating",
         mode[p] # "migrate", pc'[p] = "idle",
         UNCHANGED <<file, mode, version, asked, todo, settled>>,
         \A r \in Process \ {p} : pc'[r] = pc[r] /\ outcome'[r] = outcome[r],
         mode[p] = "replay" =>
             outcome'[p].of = 0 \/ Settled(asked[p], outcome'[p])
  PROVE  Stations' /\ OneWrites' /\ MovesAreSafe' /\ RecordingsAreAnswers'
<1> USE DEF FileInv
<1>1. Stations'
  <2>1. Station(p)'
    BY DEF Stations, Station
  <2>2. \A r \in Process \ {p} : Station(r)'
    BY StationsOfOthers
  <2> QED
    BY <2>1, <2>2 DEF Stations
<1>2. OneWrites'
  BY DEF OneWrites, Writing
<1>3. MovesAreSafe'
  BY MovesOfOthers
<1>4. RecordingsAreAnswers'
  BY DEF RecordingsAreAnswers, Settled
<1> QED
  BY <1>1, <1>2, <1>3, <1>4

LEMMA CallFiles ==
  ASSUME FileInv, NEW p \in Process, CallStep(p)
  PROVE  Stations' /\ OneWrites' /\ MovesAreSafe' /\ RecordingsAreAnswers'
<1> USE DEF FileInv, Set
<1>1. CASE TimeLimit(p)
  <2>1. Refused("timeout", fetch[p]) \in Outcome
    BY RefusedIsOutcome DEF SourceTypeOK, Refusal
  <2>2. PICK o \in Outcome : o = Refused("timeout", fetch[p])
    BY <2>1
  <2>3. /\ pc[p] = "racing"
        /\ settled' = settled \cup {[q |-> asked[p], o |-> o]}
        /\ UNCHANGED <<file, mode, version, asked, todo>>
        /\ \A r \in Process \ {p} : pc'[r] = pc[r] /\ outcome'[r] = outcome[r]
    BY <1>1, <2>2 DEF TimeLimit, Decides, Answers, SourceTypeOK
  <2>4. IF mode[p] = "record" THEN pc'[p] = "storing" /\ outcome'[p] = o
        ELSE pc'[p] = "idle" /\ outcome'[p] = None
    BY <1>1, <2>2, <2>3
    DEF TimeLimit, Decides, Answers, SourceTypeOK, Stations, Station
  <2> QED
    BY <2>3, <2>4, DecidedFiles
<1>2. CASE Replay(p)
  <2>1. /\ pc[p] = "looking" /\ pc' = [pc EXCEPT ![p] = "idle"]
        /\ UNCHANGED <<file, mode, version, asked, todo, settled>>
        /\ mode[p] = "replay" /\ asked[p] \in Question /\ version[p] \in Adapter
        /\ \A r \in Process \ {p} : outcome'[r] = outcome[r]
    BY <1>2 DEF Replay, Answers, SourceTypeOK, Stations, Station
  <2>2. Mine(p) \in Identity /\ Mine(p)[2] = asked[p]
    BY <2>1 DEF Mine, Identity
  <2>3. \/ outcome'[p].of = 0
        \/ file[Mine(p)] # None /\ outcome'[p] = file[Mine(p)]
    <3>1. \/ outcome'[p] = Refused("unavailable", 0)
          \/ outcome'[p] = Refused("adapter_error", 0)
          \/ file[Mine(p)] # None /\ outcome'[p] = file[Mine(p)]
      BY <1>2, <2>1 DEF Replay, Answers, SourceTypeOK
    <3> QED
      BY <3>1 DEF Refused
  <2>4. outcome'[p].of = 0 \/ Settled(asked[p], outcome'[p])
    BY <2>2, <2>3 DEF RecordingsAreAnswers, Settled
  <2>5. pc'[p] = "idle" /\ \A r \in Process \ {p} : pc'[r] = pc[r]
    BY <2>1 DEF SourceTypeOK
  <2> QED
    BY <2>1, <2>4, <2>5, ReturnedFiles
<1>3. CASE Store(p)
  <2>1. /\ pc[p] = "storing" /\ mode[p] = "record"
        /\ asked[p] \in Question /\ version[p] \in Adapter
        /\ Settled(asked[p], outcome[p])
        /\ file' = [file EXCEPT ![Mine(p)] = outcome[p]]
        /\ UNCHANGED <<mode, version, asked, todo, settled>>
    BY <1>3 DEF Store, Put, Stations, Station
  <2>2. /\ pc'[p] = "idle"
        /\ \A r \in Process \ {p} : pc'[r] = pc[r] /\ outcome'[r] = outcome[r]
    BY <1>3 DEF Store, Answers, SourceTypeOK
  <2>3. Mine(p) \in Identity /\ Mine(p)[2] = asked[p]
    BY <2>1 DEF Mine, Identity
  <2>4. Stations'
    <3>1. Station(p)'
      BY <2>1, <2>2 DEF Stations, Station, Mode
    <3>2. \A r \in Process \ {p} : Station(r)'
      BY <2>1, <2>2, StationsOfOthers
    <3> QED
      BY <3>1, <3>2 DEF Stations
  <2>5. OneWrites'
    BY <2>1 DEF OneWrites, Writing
  <2>6. MovesAreSafe'
    <3>1. \A r \in Process : pc'[r] # "migrating"
      BY <2>1, <2>2 DEF Stations, Station, OneWrites, Writing
    <3> QED
      BY <3>1 DEF MovesAreSafe
  <2>7. RecordingsAreAnswers'
    <3>1. \A i \in Identity : file'[i] # None =>
              \E s \in settled : s.q = i[2] /\ s.o = file'[i]
      BY <2>1, <2>3 DEF SourceTypeOK, RecordingsAreAnswers, Settled
    <3>2. \A r \in Process : mode[r] = "replay" => r # p
      BY <2>1
    <3> QED
      BY <2>1, <2>2, <3>1, <3>2 DEF RecordingsAreAnswers
  <2> QED
    BY <2>4, <2>5, <2>6, <2>7
<1>4. CASE StoreFails(p)
  <2>1. /\ pc[p] = "storing" /\ mode[p] = "record" /\ pc'[p] = "idle"
        /\ UNCHANGED <<file, mode, version, asked, todo, settled>>
        /\ \A r \in Process \ {p} : pc'[r] = pc[r] /\ outcome'[r] = outcome[r]
    BY <1>4 DEF StoreFails, Answers, SourceTypeOK, Stations, Station
  <2> QED
    BY <2>1, ReturnedFiles
<1> QED
  BY <1>1, <1>2, <1>3, <1>4 DEF CallStep

LEMMA TaskFiles ==
  ASSUME FileInv, RacesAreOpen, NEW t \in tasks, TaskStep(t)
  PROVE  Stations' /\ OneWrites' /\ MovesAreSafe' /\ RecordingsAreAnswers'
<1> USE DEF FileInv, Set
<1>0. t.by \in Process /\ t.n \in 1..fetches /\ t.n \in 0..MaxFetches
  BY DEF SourceTypeOK, RacesAreOpen
<1>1. ASSUME UNCHANGED <<file, pc, mode, version, asked, outcome, todo, settled>>
      PROVE  Stations' /\ OneWrites' /\ MovesAreSafe' /\ RecordingsAreAnswers'
  BY <1>1 DEF Stations, Station, Settled, OneWrites, Writing, MovesAreSafe,
              RecordingsAreAnswers
<1>2. CASE NextPage(t)
  BY <1>1, <1>2 DEF NextPage
<1>3. ASSUME NEW is \in Ends, AdapterAnswers(t, is), fetch[t.by] = t.n
      PROVE  Stations' /\ OneWrites' /\ MovesAreSafe' /\ RecordingsAreAnswers'
  <2>0. pc[t.by] = "racing"
    BY <1>0, <1>3 DEF RacesAreOpen
  <2>1. [is |-> is, of |-> t.n] \in Outcome
    BY <1>0, EndsAssumption DEF Outcome
  <2>2. PICK o \in Outcome : o = [is |-> is, of |-> t.n]
    BY <2>1
  <2>3. /\ settled' = settled \cup {[q |-> asked[t.by], o |-> o]}
        /\ UNCHANGED <<file, mode, version, asked, todo>>
        /\ \A r \in Process \ {t.by} :
              pc'[r] = pc[r] /\ outcome'[r] = outcome[r]
    BY <1>0, <1>3, <2>2 DEF AdapterAnswers, Decides, Answers, SourceTypeOK
  <2>4. IF mode[t.by] = "record"
        THEN pc'[t.by] = "storing" /\ outcome'[t.by] = o
        ELSE pc'[t.by] = "idle" /\ outcome'[t.by] = None
    BY <1>0, <1>3, <2>0, <2>2
    DEF AdapterAnswers, Decides, Answers, SourceTypeOK, Stations, Station
  <2> QED
    BY <1>0, <2>0, <2>3, <2>4, DecidedFiles
<1>4. ASSUME NEW is \in Ends, AdapterAnswers(t, is), fetch[t.by] # t.n
      PROVE  Stations' /\ OneWrites' /\ MovesAreSafe' /\ RecordingsAreAnswers'
  BY <1>1, <1>4 DEF AdapterAnswers
<1> QED
  BY <1>2, <1>3, <1>4 DEF TaskStep

LEMMA ProcessFiles ==
  ASSUME FileInv, NEW p \in Process,
         Stop(p) \/ \E m \in Duty[p], a \in Adapter : Boot(p, m, a)
  PROVE  Stations' /\ OneWrites' /\ MovesAreSafe' /\ RecordingsAreAnswers'
<1> USE DEF FileInv, Set
<1>1. /\ UNCHANGED <<file, settled>>
      /\ \A r \in Process \ {p} :
            /\ pc'[r] = pc[r] /\ mode'[r] = mode[r] /\ version'[r] = version[r]
            /\ asked'[r] = asked[r] /\ outcome'[r] = outcome[r]
            /\ todo'[r] = todo[r]
      /\ pc'[p] \in {"off", "idle"}
      /\ outcome'[p] = None /\ asked'[p] = None
  <2>1. CASE Stop(p)
    BY <2>1 DEF Stop, Quit, SourceTypeOK
  <2>2. CASE \E m \in Duty[p], a \in Adapter : Boot(p, m, a)
    BY <2>2 DEF Boot, SourceTypeOK, Stations, Station
  <2> QED
    BY <2>1, <2>2
<1>2. Station(p)'
  <2>1. CASE Stop(p)
    <3>1. pc'[p] = "off" /\ mode'[p] = None
      BY <2>1 DEF Stop, Quit, SourceTypeOK
    <3> QED
      BY <1>1, <3>1, NothingAssumption DEF Station
  <2>2. CASE \E m \in Duty[p], a \in Adapter : Boot(p, m, a)
    <3>1. pc'[p] = "idle" /\ mode'[p] \in Mode /\ version'[p] \in Adapter
      <4>1. PICK m \in Duty[p], a \in Adapter : Boot(p, m, a)
        BY <2>2
      <4>2. m \in Mode
        BY DutyAssumption DEF Mode
      <4> QED
        BY <4>1, <4>2 DEF Boot, SourceTypeOK
    <3> QED
      BY <1>1, <3>1 DEF Station
  <2> QED
    BY <2>1, <2>2
<1>3. Stations'
  BY <1>1, <1>2, StationsOfOthers DEF Stations
<1>4. OneWrites'
  <2>1. Writing(p)' => \A q \in Process \ {p} : ~Writing(q)
    <3>1. CASE Stop(p)
      BY <3>1, NothingAssumption DEF Stop, Quit, SourceTypeOK, Writing
    <3>2. CASE \E m \in Duty[p], a \in Adapter : Boot(p, m, a)
      BY <3>2 DEF Boot, OneWriter, SourceTypeOK, Writing
    <3> QED
      BY <3>1, <3>2
  <2> QED
    BY <1>1, <2>1 DEF OneWrites, Writing
<1>5. MovesAreSafe'
  BY <1>1, MovesOfOthers
<1>6. RecordingsAreAnswers'
  BY <1>1 DEF RecordingsAreAnswers
<1> QED
  BY <1>3, <1>4, <1>5, <1>6

\* The writer changes one key and nothing else but what it has still to move.
LEMMA MigrationFiles ==
  ASSUME FileInv, NEW p \in Process, MigrationStep(p)
  PROVE  Stations' /\ OneWrites' /\ MovesAreSafe' /\ RecordingsAreAnswers'
<1> USE DEF FileInv, Set
<1>1. /\ UNCHANGED <<mode, version, outcome, settled>>
      /\ mode[p] = "migrate" /\ version[p] \in Adapter
      /\ \A r \in Process \ {p} :
            pc'[r] = pc[r] /\ asked'[r] = asked[r] /\ todo'[r] = todo[r]
      /\ pc[p] \in {"idle", "migrating"} /\ pc'[p] \in {"idle", "migrating"}
  BY DEF MigrationStep, Migrate, Rekey, Moving, Unkey, Migrated, SourceTypeOK,
         Stations, Station
<1>2. pc'[p] = "idle" => asked'[p] = None
  BY DEF MigrationStep, Migrate, Rekey, Moving, Unkey, Migrated, SourceTypeOK,
         MovesAreSafe
<1>3. Stations'
  <2>1. Station(p)'
    BY <1>1, <1>2 DEF Station, Mode
  <2> QED
    BY <1>1, <2>1, StationsOfOthers DEF Stations
<1>4. OneWrites'
  BY <1>1 DEF OneWrites, Writing
<1>5. \A r \in Process \ {p} : pc'[r] # "migrating"
  BY <1>1 DEF Stations, Station, OneWrites, Writing
<1>6. MovesAreSafe'
  <2> SUFFICES ASSUME pc'[p] = "migrating"
               PROVE  /\ \A i \in todo'[p] : file'[i] # None /\ i[1] # version[p]
                      /\ asked'[p] # None =>
                            /\ asked'[p] \in todo'[p]
                            /\ file'[<<version[p], asked'[p][2]>>] # None
    BY <1>1, <1>5 DEF MovesAreSafe
  <2>1. CASE Migrate(p)
    BY <2>1 DEF Migrate, Movable, Stations, Station, SourceTypeOK
  <2>2. ASSUME NEW i \in Identity, Rekey(p, i)
        PROVE  /\ \A j \in todo'[p] : file'[j] # None /\ j[1] # version[p]
               /\ asked'[p] # None =>
                     /\ asked'[p] \in todo'[p]
                     /\ file'[<<version[p], asked'[p][2]>>] # None
    <3>1. /\ pc[p] = "migrating" /\ i \in todo[p] /\ asked'[p] = i
          /\ file' = [file EXCEPT ![<<version[p], i[2]>>] = file[i]]
          /\ todo' = todo
      BY <2>2 DEF Rekey, Moving, Put, SourceTypeOK
    <3>2. <<version[p], i[2]>> \in Identity /\ file[i] # None
      BY <1>1, <3>1 DEF MovesAreSafe, Identity
    <3> QED
      BY <3>1, <3>2 DEF MovesAreSafe, SourceTypeOK
  <2>3. CASE Unkey(p)
    <3>1. /\ pc[p] = "migrating" /\ asked[p] \in todo[p] /\ asked'[p] = None
          /\ file' = [file EXCEPT ![asked[p]] = None]
          /\ todo'[p] = todo[p] \ {asked[p]}
      BY <2>3 DEF Unkey, Put, SourceTypeOK, MovesAreSafe
    <3>2. todo[p] \subseteq Identity
      BY DEF SourceTypeOK
    <3> QED
      BY <3>1, <3>2 DEF MovesAreSafe, SourceTypeOK
  <2>4. CASE Migrated(p)
    BY <2>4 DEF Migrated, SourceTypeOK
  <2> QED
    BY <2>1, <2>2, <2>3, <2>4 DEF MigrationStep
<1>7. RecordingsAreAnswers'
  <2>1. \A i \in Identity : file'[i] # None =>
            \E j \in Identity : /\ file[j] # None
                                /\ file'[i] = file[j] /\ i[2] = j[2]
    <3>1. CASE file' = file
      BY <3>1
    <3>2. ASSUME NEW j \in Identity, Rekey(p, j)
          PROVE  \A i \in Identity : file'[i] # None =>
                    \E k \in Identity : /\ file[k] # None
                                        /\ file'[i] = file[k] /\ i[2] = k[2]
      <4>1. file' = [file EXCEPT ![<<version[p], j[2]>>] = file[j]]
        BY <3>2 DEF Rekey, Put
      <4> QED
        BY <4>1 DEF SourceTypeOK
    <3>3. CASE Unkey(p)
      BY <3>3 DEF Unkey, Put, SourceTypeOK
    <3> QED
      BY <3>1, <3>2, <3>3 DEF MigrationStep, Migrate, Migrated
  <2>2. \A i \in Identity : file'[i] # None =>
            \E s \in settled : s.q = i[2] /\ s.o = file'[i]
    BY <2>1 DEF RecordingsAreAnswers
  <2> QED
    BY <1>1, <2>2 DEF RecordingsAreAnswers
<1> QED
  BY <1>3, <1>4, <1>6, <1>7

-----------------------------------------------------------------------------

AllInv == FileInv /\ RacesAreOpen /\ LateAnswersAreDropped

LEMMA SourceStarts == SourceInit => AllInv
<1> SUFFICES ASSUME SourceInit PROVE AllInv
  OBVIOUS
<1>1. SourceTypeOK
  BY FetchesAssumption DEF SourceInit, SourceTypeOK, Place
<1>2. \A p \in Process : ~Writing(p)
  BY NothingAssumption DEF SourceInit, Writing
<1>3. Stations
  BY NothingAssumption DEF SourceInit, Stations, Station
<1>4. RecordingsAreAnswers
  BY DEF SourceInit, RecordingsAreAnswers
<1> QED
  BY <1>1, <1>2, <1>3, <1>4 DEF AllInv, FileInv, SourceInit, OneWrites,
     MovesAreSafe, RacesAreOpen, LateAnswersAreDropped

LEMMA SourceKeeps == AllInv /\ [SourceNext]_sourceVars => AllInv'
<1> SUFFICES ASSUME AllInv, [SourceNext]_sourceVars PROVE AllInv'
  OBVIOUS
<1>0. FileInv /\ RaceInv /\ SourceTypeOK /\ Stations /\ RacesAreOpen
  BY DEF AllInv, FileInv, RaceInv
<1>1. ASSUME NEW p \in Process, NEW q \in Question, Ask(p, q) PROVE AllInv'
  BY <1>0, <1>1, AskType, AskRaces, AskFiles DEF AllInv, FileInv
<1>2. ASSUME NEW p \in Process, CallStep(p) PROVE AllInv'
  BY <1>0, <1>2, CallType, CallRaces, CallFiles DEF AllInv, FileInv
<1>3. ASSUME NEW p \in Process, MigrationStep(p) PROVE AllInv'
  BY <1>0, <1>3, MigrationType, OtherRaces, MigrationFiles DEF AllInv, FileInv
<1>4. ASSUME NEW p \in Process,
             Stop(p) \/ \E m \in Duty[p], a \in Adapter : Boot(p, m, a)
      PROVE  AllInv'
  BY <1>0, <1>4, ProcessType, OtherRaces, ProcessFiles DEF AllInv, FileInv
<1>5. ASSUME NEW t \in tasks, TaskStep(t) PROVE AllInv'
  BY <1>0, <1>5, TaskType, TaskRaces, TaskFiles DEF AllInv, FileInv
<1>6. CASE UNCHANGED sourceVars
  BY <1>6 DEF sourceVars, AllInv, FileInv, SourceTypeOK, Stations, Station,
     Settled, OneWrites, Writing, MovesAreSafe, RecordingsAreAnswers,
     RacesAreOpen, LateAnswersAreDropped
<1> QED
  BY <1>1, <1>2, <1>3, <1>4, <1>5, <1>6 DEF SourceNext, Step

LEMMA SourcesStay == SourceSpec => []AllInv
BY SourceStarts, SourceKeeps, PTL DEF SourceSpec

\* A call is decided once, for the request it was made for, whenever its answer
\* or its time limit comes.
THEOREM LateAnswersNeverCount == SourceSpec => []LateAnswersAreDropped
<1>1. AllInv => LateAnswersAreDropped
  BY DEF AllInv
<1> QED
  BY SourcesStay, <1>1, PTL

\* What is on file and what is replayed is what a call for that request was
\* decided with.
THEOREM RecordingsAreTrue == SourceSpec => []RecordingsAreAnswers
<1>1. AllInv => RecordingsAreAnswers
  BY DEF AllInv, FileInv
<1> QED
  BY SourcesStay, <1>1, PTL

\* A question that has a recording keeps one under some adapter version,
\* though recording again or migrating may replace what a version holds: the
\* one step that empties a key is the migration's, when its new key is full.
THEOREM RecordingsAreKept == SourceSpec => RecordingsStay
<1>1. AllInv /\ [SourceNext]_sourceVars =>
          [\A q \in Question : Recorded(q) => Recorded(q)']_file
  <2> SUFFICES ASSUME AllInv, SourceNext, file' # file, NEW q \in Question,
                      NEW a \in Adapter, file[<<a, q>>] # None
               PROVE  \E b \in Adapter : file'[<<b, q>>] # None
    BY DEF Recorded, sourceVars
  <2> USE DEF AllInv, FileInv, Set
  <2>0. <<a, q>> \in Identity
    BY DEF Identity
  <2>1. \E p \in Process : \/ Store(p) \/ Unkey(p)
                           \/ \E i \in Identity : Rekey(p, i)
    BY DEF SourceNext, Step, Ask, CallStep, TimeLimit, Replay, StoreFails,
       MigrationStep, Migrate, Migrated, Stop, Boot, TaskStep, NextPage,
       AdapterAnswers
  <2>2. PICK p \in Process : \/ Store(p) \/ Unkey(p)
                             \/ \E i \in Identity : Rekey(p, i)
    BY <2>1
  <2>3. CASE Store(p)
    <3>1. outcome[p] # None
      BY <2>3, NothingAssumption DEF Store, Stations, Station
    <3> QED
      BY <2>0, <2>3, <3>1 DEF Store, Put, SourceTypeOK
  <2>4. CASE Unkey(p)
    <3>1. /\ asked[p] \in todo[p] /\ version[p] \in Adapter
          /\ asked[p][1] # version[p]
          /\ file[<<version[p], asked[p][2]>>] # None
          /\ file' = [file EXCEPT ![asked[p]] = None]
      BY <2>4 DEF Unkey, Put, MovesAreSafe, Stations, Station
    <3>2. asked[p] \in Identity
      BY <3>1 DEF SourceTypeOK
    <3>3. CASE asked[p] = <<a, q>>
      <4>1. <<version[p], q>> \in Identity /\ <<version[p], q>> # asked[p]
        BY <3>1, <3>3 DEF Identity
      <4> QED
        BY <3>1, <3>3, <4>1 DEF SourceTypeOK
    <3>4. CASE asked[p] # <<a, q>>
      BY <2>0, <3>1, <3>4 DEF SourceTypeOK
    <3> QED
      BY <3>3, <3>4
  <2>5. ASSUME NEW i \in Identity, Rekey(p, i)
        PROVE  \E b \in Adapter : file'[<<b, q>>] # None
    <3>1. /\ pc[p] = "migrating" /\ i \in todo[p]
          /\ file' = [file EXCEPT ![<<version[p], i[2]>>] = file[i]]
      BY <2>5 DEF Rekey, Moving, Put
    <3>2. file[i] # None
      BY <3>1 DEF MovesAreSafe
    <3> QED
      BY <2>0, <3>1, <3>2 DEF SourceTypeOK
  <2> QED
    BY <2>2, <2>3, <2>4, <2>5
<1> QED
  BY SourcesStay, <1>1, PTL DEF SourceSpec, RecordingsStay

-----------------------------------------------------------------------------
(* One call of the GitHub adapter, whatever its service answers and when.  *)

GithubTypeOK ==
    /\ call \in {"check", "execute"}
    /\ request \in [Slot -> Request]
    /\ expiring \in BOOLEAN
    /\ page \in 0..PageBudget
    /\ answer \in Ending \cup {Nothing}
    /\ cut \in BOOLEAN

\* A timer is armed only while its request is under way.
TimersAreOfRequests ==
    \A s \in Slot :
        request[s].at \in {"unsent", "closed", "failed"} => ~request[s].timer

\* A probe is sent only by check(), when the repository has answered, and a
\* body is read only by execute().
RequestsInOrder ==
    /\ \A s \in Probes :
          /\ request[s].at \in {"unsent", "sent", "headers", "closed", "failed"}
          /\ request[s].at # "unsent" =>
                call = "check" /\ request["main"].at = "closed"
    /\ request["main"].at # "unsent"
    /\ call = "check" =>
          request["main"].at \in {"sent", "headers", "closed", "failed"}

\* A cut body is the last of its call, and its request remembers the deadline.
CutIsSeen ==
    cut => \/ answer = "throws"
           \/ /\ answer = Nothing
              /\ request["main"].at = "cut"
              /\ request["main"].fired

\* A further page is within the budget.
PagesInBudget == answer = Nothing => page < PageBudget

GithubInv ==
    /\ GithubTypeOK
    /\ TimersAreOfRequests
    /\ RequestsInOrder
    /\ CutIsSeen
    /\ PagesInBudget
    /\ NothingLeaks

\* A refusal by status is an ending.
LEMMA ReasonsEnd == \A s \in Status : ReasonForStatus(s) \in Ending
BY DEF ReasonForStatus, Ending

\* So is what the probes tell.
LEMMA PrivilegesEnd == Privilege \in Ending
BY DEF Privilege, Ending

\* A request let go, and one just sent.
LEMMA LetGoIs ==
  ASSUME NEW r \in Request
  PROVE  /\ LetGo(r) \in Request
         /\ LetGo(r).at = "closed" /\ ~LetGo(r).timer
BY DEF LetGo, Request

LEMMA SentIs ==
  Sent \in Request /\ Sent.at = "sent" /\ Sent.timer /\ ~Sent.fired
BY DEF Sent, Unsent, Request, Status

\* How the steps of a call's own code move its requests.
LEMMA JudgeRepositoryMoves ==
  ASSUME GithubTypeOK, JudgeRepository
  PROVE  /\ request' \in [Slot -> Request]
         /\ request'["main"].at = "closed" /\ ~request'["main"].timer
         /\ \/ /\ \A s \in Probes : request'[s] = Sent
               /\ answer' = Nothing
            \/ /\ \A s \in Probes : request'[s] = request[s]
               /\ answer' \in Ending
         /\ call' = call /\ call = "check" /\ request["main"].at = "headers"
         /\ page' = page /\ cut' = cut /\ expiring' \in BOOLEAN
         /\ answer = Nothing
<1> USE DEF GithubTypeOK, JudgeRepository, Active, CallEnds
<1>1. "main" \in Slot /\ request["main"] \in Request /\ request["main"].status \in Status
  BY DEF Slot, Request
<1>2. CASE request["main"].status = "200"
  <2>1. request' = [s \in Slot |-> IF s = "main" THEN LetGo(request[s]) ELSE Sent]
    BY <1>2
  <2>2. QED
    BY <1>1, <1>2, <2>1, LetGoIs, SentIs DEF Probes, Slot
<1>3. CASE request["main"].status # "200"
  <2>1. request' = [request EXCEPT !["main"] = LetGo(request["main"])]
    BY <1>3
  <2>2. QED
    BY <1>1, <1>3, <2>1, LetGoIs, ReasonsEnd DEF Probes, Slot
<1>4. QED
  BY <1>2, <1>3

LEMMA OpenPageMoves ==
  ASSUME GithubTypeOK, OpenPage
  PROVE  /\ request' \in [Slot -> Request]
         /\ \A s \in Probes : request'[s] = request[s]
         /\ \/ /\ request'["main"].at = IF request["main"].fired THEN "cut"
                                                             ELSE "reading"
               /\ request'["main"].fired = request["main"].fired
               /\ answer' = Nothing
               /\ cut' = (cut \/ request["main"].fired)
            \/ /\ request'["main"].at = "closed" /\ ~request'["main"].timer
               /\ answer' \in Ending
               /\ cut' = cut
         /\ call' = call /\ call = "execute" /\ request["main"].at = "headers"
         /\ page' = page /\ expiring' = expiring /\ answer = Nothing
<1> USE DEF GithubTypeOK, OpenPage, Active, CallEnds
<1>1. "main" \in Slot /\ request["main"] \in Request /\ request["main"].status \in Status
  BY DEF Slot, Request
<1>2. CASE request["main"].status = "200"
  <2> DEFINE at == IF request["main"].fired THEN "cut" ELSE "reading"
             r == [request["main"] EXCEPT !.at = at]
  <2>1. request' = [request EXCEPT !["main"] = r]
    BY <1>2 DEF Becomes
  <2>2. r \in Request /\ r.at = at /\ r.fired = request["main"].fired
    BY <1>1 DEF Request
  <2> HIDE DEF r
  <2>3. QED
    BY <1>1, <1>2, <2>1, <2>2 DEF Probes, Slot
<1>3. CASE request["main"].status # "200"
  <2>1. request' = [request EXCEPT !["main"] = LetGo(request["main"])]
    BY <1>3
  <2>2. QED
    BY <1>1, <1>3, <2>1, LetGoIs, ReasonsEnd DEF Probes, Slot
<1>4. QED
  BY <1>2, <1>3

LEMMA TakePageMoves ==
  ASSUME GithubTypeOK, PagesInBudget, TakePage
  PROVE  /\ request' \in [Slot -> Request]
         /\ \A s \in Probes : request'[s] = request[s]
         /\ \/ /\ request'["main"].at = "closed" /\ ~request'["main"].timer
               /\ page' \in 0..PageBudget
               /\ \/ answer' = "throws"
                  \/ answer' \in Ending /\ ~request["main"].fired
            \/ /\ request'["main"] = Sent
               /\ answer' = Nothing
               /\ page' \in 0..PageBudget /\ page' < PageBudget
               /\ ~request["main"].fired
         /\ call' = call /\ call = "execute" /\ cut' = cut
         /\ request["main"].at \in {"whole", "cut"}
         /\ expiring' = expiring /\ answer = Nothing
<1> USE PageBudgetAssumption DEF GithubTypeOK, PagesInBudget, TakePage, Active, CallEnds
<1>1. "main" \in Slot /\ request["main"] \in Request
  BY DEF Slot
<1>2. page \in 0..PageBudget /\ page < PageBudget
  OBVIOUS
<1>3. CASE request' = [request EXCEPT !["main"] = LetGo(request["main"])]
  <2>1. /\ request' \in [Slot -> Request]
        /\ \A s \in Probes : request'[s] = request[s]
        /\ request'["main"].at = "closed" /\ ~request'["main"].timer
    BY <1>1, <1>3, LetGoIs DEF Probes, Slot
  <2>2. \/ answer' = "throws" /\ page' = page
        \/ /\ answer' \in {"adapter_error", "ok"} /\ ~request["main"].fired
           /\ page' \in {page, page + 1}
        \/ /\ answer' = Nothing /\ request' = [request EXCEPT !["main"] = Sent]
    BY DEF AfterPage
  <2>3. ~(request' = [request EXCEPT !["main"] = Sent])
    BY <1>1, <1>3, <2>1, SentIs
  <2>4. QED
    BY <1>2, <2>1, <2>2, <2>3 DEF Ending
<1>4. CASE request' # [request EXCEPT !["main"] = LetGo(request["main"])]
  <2>1. /\ ~request["main"].fired /\ page' = page + 1 /\ page' < PageBudget
        /\ request' = [request EXCEPT !["main"] = Sent] /\ answer' = answer
    BY <1>4 DEF AfterPage
  <2>2. QED
    BY <1>1, <1>2, <2>1, SentIs DEF Probes, Slot
<1>5. QED
  BY <1>3, <1>4

\* Every step keeps the type.
LEMMA GithubTypeStep ==
  ASSUME GithubInv, [GithubNext]_githubVars
  PROVE  GithubTypeOK'
<1> USE PageBudgetAssumption, ReasonsEnd, PrivilegesEnd DEF GithubInv, GithubTypeOK,
        PagesInBudget, Request, Slot, Ending, Status
<1>1. CASE MainFailed
  BY <1>1 DEF MainFailed, CallEnds
<1>2. CASE JudgeRepository
  <2> HIDE DEF Request, Ending, Status
  <2> QED
    BY <1>2, JudgeRepositoryMoves
<1>3. CASE JudgeProbes
  BY <1>3 DEF JudgeProbes, Judges, LetGo, CallEnds, Active
<1>4. CASE OpenPage
  <2> HIDE DEF Request, Ending, Status
  <2>1. cut' \in BOOLEAN
    BY <1>4 DEF OpenPage
  <2>2. QED
    BY <1>4, <2>1, OpenPageMoves
<1>5. CASE OverCap
  BY <1>5 DEF OverCap, LetGo, CallEnds, Active
<1>6. CASE TakePage
  <2> HIDE DEF Request, Status
  <2> QED
    BY <1>6, TakePageMoves
<1>7. ASSUME NEW s \in Slot, Headers(s) PROVE GithubTypeOK'
  <2>1. PICK status \in Status :
          request' = [request EXCEPT ![s].at = "headers", ![s].status = status]
    BY <1>7 DEF Headers
  <2>2. [request[s] EXCEPT !.at = "headers", !.status = status] \in Request
    OBVIOUS
  <2>3. QED
    BY <1>7, <2>1, <2>2 DEF Headers
<1>8. ASSUME NEW s \in Slot, FetchFails(s) PROVE GithubTypeOK'
  BY <1>8 DEF FetchFails
<1>9. ASSUME NEW s \in Slot, Deadline(s) PROVE GithubTypeOK'
  <2> DEFINE at == CASE request[s].at = "sent" -> "failed"
                     [] request[s].at = "reading" -> "cut"
                     [] OTHER -> request[s].at
             r == [request[s] EXCEPT !.timer = FALSE, !.fired = TRUE, !.at = at]
  <2>1. r \in Request
    OBVIOUS
  <2>2. request' = [request EXCEPT ![s] = r]
    BY <1>9 DEF Deadline
  <2>3. cut' \in BOOLEAN
    BY <1>9 DEF Deadline
  <2> HIDE DEF r, Request
  <2>4. QED
    BY <1>9, <2>1, <2>2, <2>3 DEF Deadline
<1>10. ASSUME NEW s \in Slot, BodyEnds(s) PROVE GithubTypeOK'
  BY <1>10 DEF BodyEnds, Becomes
<1>11. CASE UNCHANGED githubVars
  BY <1>11 DEF githubVars
<1>12. QED
  BY <1>1, <1>2, <1>3, <1>4, <1>5, <1>6, <1>7, <1>8, <1>9, <1>10, <1>11 DEF GithubNext,
     CodeStep

\* Who lets a request go clears its timer.
LEMMA TimersStep ==
  ASSUME GithubInv, [GithubNext]_githubVars
  PROVE  TimersAreOfRequests'
<1> USE DEF GithubInv, GithubTypeOK, TimersAreOfRequests, Request, Slot
<1>1. CASE MainFailed
  BY <1>1 DEF MainFailed, CallEnds
<1>2. CASE JudgeRepository
  BY <1>2, JudgeRepositoryMoves, SentIs DEF Probes
<1>3. CASE JudgeProbes
  BY <1>3 DEF JudgeProbes, Judges, LetGo, CallEnds, Active
<1>4. CASE OpenPage
  BY <1>4, OpenPageMoves DEF Probes
<1>5. CASE OverCap
  BY <1>5 DEF OverCap, LetGo, CallEnds, Active
<1>6. CASE TakePage
  BY <1>6, TakePageMoves, SentIs DEF Probes
<1>7. ASSUME NEW s \in Slot, Headers(s) PROVE TimersAreOfRequests'
  BY <1>7 DEF Headers
<1>8. ASSUME NEW s \in Slot, FetchFails(s) PROVE TimersAreOfRequests'
  BY <1>8 DEF FetchFails
<1>9. ASSUME NEW s \in Slot, Deadline(s) PROVE TimersAreOfRequests'
  BY <1>9 DEF Deadline
<1>10. ASSUME NEW s \in Slot, BodyEnds(s) PROVE TimersAreOfRequests'
  BY <1>10 DEF BodyEnds, Becomes
<1>11. CASE UNCHANGED githubVars
  BY <1>11 DEF githubVars
<1>12. QED
  BY <1>1, <1>2, <1>3, <1>4, <1>5, <1>6, <1>7, <1>8, <1>9, <1>10, <1>11 DEF GithubNext,
     CodeStep

\* Requests follow each other.
LEMMA OrderStep ==
  ASSUME GithubInv, [GithubNext]_githubVars
  PROVE  RequestsInOrder'
<1> USE DEF GithubInv, GithubTypeOK, RequestsInOrder, Request, Slot, Probes
<1>1. CASE MainFailed
  BY <1>1 DEF MainFailed, CallEnds
<1>2. CASE JudgeRepository
  BY <1>2, JudgeRepositoryMoves, SentIs
<1>3. CASE JudgeProbes
  BY <1>3 DEF JudgeProbes, Judges, LetGo, CallEnds, Active
<1>4. CASE OpenPage
  BY <1>4, OpenPageMoves
<1>5. CASE OverCap
  BY <1>5 DEF OverCap, LetGo, CallEnds, Active
<1>6. CASE TakePage
  BY <1>6, TakePageMoves, SentIs
<1>7. ASSUME NEW s \in Slot, Headers(s) PROVE RequestsInOrder'
  BY <1>7 DEF Headers
<1>8. ASSUME NEW s \in Slot, FetchFails(s) PROVE RequestsInOrder'
  BY <1>8 DEF FetchFails
<1>9. ASSUME NEW s \in Slot, Deadline(s) PROVE RequestsInOrder'
  BY <1>9 DEF Deadline
<1>10. ASSUME NEW s \in Slot, BodyEnds(s) PROVE RequestsInOrder'
  BY <1>10 DEF BodyEnds, Becomes
<1>11. CASE UNCHANGED githubVars
  BY <1>11 DEF githubVars
<1>12. QED
  BY <1>1, <1>2, <1>3, <1>4, <1>5, <1>6, <1>7, <1>8, <1>9, <1>10, <1>11 DEF GithubNext,
     CodeStep

\* What was cut is not taken.
LEMMA CutStep ==
  ASSUME GithubInv, [GithubNext]_githubVars
  PROVE  CutIsSeen'
<1> USE EndingAssumption DEF GithubInv, GithubTypeOK, RequestsInOrder, CutIsSeen,
        Request, Slot, Probes, Ending
<1>1. CASE MainFailed
  BY <1>1 DEF MainFailed, CallEnds
<1>2. CASE JudgeRepository
  BY <1>2, JudgeRepositoryMoves, SentIs
<1>3. CASE JudgeProbes
  BY <1>3 DEF JudgeProbes, Judges, LetGo, CallEnds, Active
<1>4. CASE OpenPage
  BY <1>4, OpenPageMoves
<1>5. CASE OverCap
  BY <1>5 DEF OverCap, LetGo, CallEnds, Active
<1>6. CASE TakePage
  BY <1>6, TakePageMoves, SentIs
<1>7. ASSUME NEW s \in Slot, Headers(s) PROVE CutIsSeen'
  BY <1>7 DEF Headers
<1>8. ASSUME NEW s \in Slot, FetchFails(s) PROVE CutIsSeen'
  BY <1>8 DEF FetchFails
<1>9. ASSUME NEW s \in Slot, Deadline(s) PROVE CutIsSeen'
  BY <1>9 DEF Deadline
<1>10. ASSUME NEW s \in Slot, BodyEnds(s) PROVE CutIsSeen'
  BY <1>10 DEF BodyEnds, Becomes
<1>11. CASE UNCHANGED githubVars
  BY <1>11 DEF githubVars
<1>12. QED
  BY <1>1, <1>2, <1>3, <1>4, <1>5, <1>6, <1>7, <1>8, <1>9, <1>10, <1>11 DEF GithubNext,
     CodeStep

\* A page is asked for within the budget.
LEMMA BudgetStep ==
  ASSUME GithubInv, [GithubNext]_githubVars
  PROVE  PagesInBudget'
<1> USE EndingAssumption, PageBudgetAssumption, ReasonsEnd, PrivilegesEnd DEF GithubInv,
        GithubTypeOK, PagesInBudget, Request, Slot, Ending
<1>1. CASE MainFailed
  BY <1>1 DEF MainFailed, CallEnds
<1>2. CASE JudgeRepository
  BY <1>2, JudgeRepositoryMoves, SentIs
<1>3. CASE JudgeProbes
  BY <1>3 DEF JudgeProbes, Judges, LetGo, CallEnds, Active
<1>4. CASE OpenPage
  BY <1>4, OpenPageMoves
<1>5. CASE OverCap
  BY <1>5 DEF OverCap, LetGo, CallEnds, Active
<1>6. CASE TakePage
  BY <1>6, TakePageMoves, SentIs
<1>7. ASSUME NEW s \in Slot, Headers(s) PROVE PagesInBudget'
  BY <1>7 DEF Headers
<1>8. ASSUME NEW s \in Slot, FetchFails(s) PROVE PagesInBudget'
  BY <1>8 DEF FetchFails
<1>9. ASSUME NEW s \in Slot, Deadline(s) PROVE PagesInBudget'
  BY <1>9 DEF Deadline
<1>10. ASSUME NEW s \in Slot, BodyEnds(s) PROVE PagesInBudget'
  BY <1>10 DEF BodyEnds, Becomes
<1>11. CASE UNCHANGED githubVars
  BY <1>11 DEF githubVars
<1>12. QED
  BY <1>1, <1>2, <1>3, <1>4, <1>5, <1>6, <1>7, <1>8, <1>9, <1>10, <1>11 DEF GithubNext,
     CodeStep

\* A call ends with nothing under way.
LEMMA LeakStep ==
  ASSUME GithubInv, [GithubNext]_githubVars
  PROVE  NothingLeaks'
<1> USE EndingAssumption DEF GithubInv, GithubTypeOK, TimersAreOfRequests,
        RequestsInOrder, NothingLeaks, Request, Slot, Probes, Ending
<1>1. CASE MainFailed
  BY <1>1 DEF MainFailed, CallEnds
<1>2. CASE JudgeRepository
  BY <1>2, JudgeRepositoryMoves, SentIs
<1>3. CASE JudgeProbes
  BY <1>3 DEF JudgeProbes, Judges, LetGo, CallEnds, Active
<1>4. CASE OpenPage
  BY <1>4, OpenPageMoves
<1>5. CASE OverCap
  BY <1>5 DEF OverCap, LetGo, CallEnds, Active
<1>6. CASE TakePage
  BY <1>6, TakePageMoves, SentIs
<1>7. ASSUME NEW s \in Slot, Headers(s) PROVE NothingLeaks'
  BY <1>7 DEF Headers
<1>8. ASSUME NEW s \in Slot, FetchFails(s) PROVE NothingLeaks'
  BY <1>8 DEF FetchFails
<1>9. ASSUME NEW s \in Slot, Deadline(s) PROVE NothingLeaks'
  BY <1>9 DEF Deadline
<1>10. ASSUME NEW s \in Slot, BodyEnds(s) PROVE NothingLeaks'
  BY <1>10 DEF BodyEnds, Becomes
<1>11. CASE UNCHANGED githubVars
  BY <1>11 DEF githubVars
<1>12. QED
  BY <1>1, <1>2, <1>3, <1>4, <1>5, <1>6, <1>7, <1>8, <1>9, <1>10, <1>11 DEF GithubNext,
     CodeStep

LEMMA GithubStarts == GithubInit => GithubInv
<1>1. Unsent \in Request /\ Unsent.at = "unsent" /\ ~Unsent.timer
  BY DEF Unsent, Request, Status
<1>2. GithubInit => GithubTypeOK
  <2>1. ASSUME GithubInit PROVE request \in [Slot -> Request]
    BY <1>1, <2>1, SentIs DEF GithubInit
  <2>2. GithubInit => page \in 0..PageBudget
    BY PageBudgetAssumption DEF GithubInit
  <2>3. GithubInit => cut \in BOOLEAN /\ expiring \in BOOLEAN
    BY Zenon DEF GithubInit
  <2>4. QED
    BY <2>1, <2>2, <2>3 DEF GithubInit, GithubTypeOK
<1>3. GithubInit => TimersAreOfRequests /\ RequestsInOrder
  BY <1>1, SentIs DEF GithubInit, TimersAreOfRequests, RequestsInOrder, Slot,
     Probes
<1>4. GithubInit => CutIsSeen /\ PagesInBudget /\ NothingLeaks
  BY PageBudgetAssumption DEF GithubInit, CutIsSeen, PagesInBudget, NothingLeaks
<1>5. QED
  BY <1>2, <1>3, <1>4 DEF GithubInv

LEMMA GithubKeeps == GithubInv /\ [GithubNext]_githubVars => GithubInv'
  BY GithubTypeStep, TimersStep, OrderStep, CutStep, BudgetStep, LeakStep
     DEF GithubInv

LEMMA GithubStays == GithubSpec => []GithubInv
  BY GithubStarts, GithubKeeps, PTL DEF GithubSpec

\* A call that is over has let everything go, whatever failed, was refused or
\* was cut, and in whatever order: performRequest and its callers.
THEOREM CallsLetGo == GithubSpec => []NothingLeaks
<1>1. GithubInv => NothingLeaks
  BY DEF GithubInv
<1> QED
  BY GithubStays, <1>1, PTL

\* However many pages a call reads, none of those it answers was cut short by
\* its deadline.
THEOREM AnsweredPagesAreWhole == GithubSpec => []PagesAreWhole
<1>1. GithubInv => PagesAreWhole
  BY EndingAssumption DEF GithubInv, CutIsSeen, PagesAreWhole, Ending
<1> QED
  BY GithubStays, <1>1, PTL

-----------------------------------------------------------------------------
(* The two parts of Tools are these two specifications.                    *)

LEMMA ToolsAreSources == ToolsSpec => SourceSpec
<1>1. ToolsInit => SourceInit
  BY DEF ToolsInit, BuildInit
<1>2. [ToolsNext]_toolVars => [SourceNext]_sourceVars
  <2>1. ASSUME BuildStep PROVE [SourceNext]_sourceVars
    BY <2>1, FirstAssumption
       DEF BuildStep, JudgeOptions, JudgeShapes, BuildSource, Assemble, Refuses,
           SourceNext, Boot
  <2>2. QED
    BY <2>1 DEF ToolsNext, InExecutor, InGithub, toolVars
<1> QED
  BY <1>1, <1>2, PTL DEF ToolsSpec, SourceSpec

LEMMA ToolsAreGithub == ToolsSpec => GithubSpec
<1>1. ToolsInit => GithubInit
  BY DEF ToolsInit
<1>2. [ToolsNext]_toolVars => [GithubNext]_githubVars
  BY DEF ToolsNext, InExecutor, InGithub, toolVars
<1> QED
  BY <1>1, <1>2, PTL DEF ToolsSpec, GithubSpec

\* The tools as a whole keep all of this: the registry that was built by a
\* constructor no less than one that was there.
THEOREM ToolsKeepTheirWord ==
  ToolsSpec => /\ [](LateAnswersAreDropped /\ RecordingsAreAnswers)
               /\ RecordingsStay
               /\ [](NothingLeaks /\ PagesAreWhole)
BY ToolsAreSources, ToolsAreGithub, LateAnswersNeverCount, RecordingsAreTrue,
   RecordingsAreKept, CallsLetGo, AnsweredPagesAreWhole, PTL

=============================================================================
