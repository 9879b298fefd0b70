--------------------------- MODULE ClientsProofs ----------------------------
(***************************************************************************)
(* The commands of the CLI, with any number of clients and investigators.  *)
(*                                                                         *)
(* The registry: at most one transaction is past the lock, so what it      *)
(* loaded is what is committed, and what it validated is what its          *)
(* statements make of the tables; its events name what the tables hold.    *)
(*                                                                         *)
(* The starts: a scope whose id is gone never comes back, so a start's     *)
(* answer is about the incident that was inserted.                         *)
(*                                                                         *)
(* The applies: a step of an apply only adds to what is in place, in the   *)
(* manifest's order.  The last to add something knows all that follows, so *)
(* nothing is in its way; or nothing is missing.                           *)
(*                                                                         *)
(* The investigations: claims are numbered, only the last one passes a     *)
(* fence, every checkpoint is of what the run's supersteps came to, and    *)
(* the last checkpoint never falls back, whatever an attempt that lost the *)
(* run still writes.  So a completed run's thread is whole and stays so.   *)
(***************************************************************************)
EXTENDS Clients, SequenceTheorems, TLAPS

-----------------------------------------------------------------------------
(* Types.                                                                  *)

\* An id found among rows of some kind, or the one that nothing carries.
LEMMA IdOfType ==
    ASSUME NEW rows, \A x \in rows : x.id \in Nat
    PROVE  IdOf(rows) \in Nat
BY DEF IdOf, Unknown

LEMMA ScopesType ==
    ASSUME NEW r \in Snapshot, NEW o
    PROVE  /\ ServiceOf(r, o) \in Nat
           /\ EnvironmentOf(r, o) \in Nat
           /\ \A name : RefOf(r, o, name) \in Nat
<1>1. /\ \A x \in r.services : x.id \in Nat
      /\ \A x \in r.environments : x.id \in Nat
      /\ \A x \in r.credentialRefs : x.id \in Nat
  BY DEF Snapshot, Services, Environments, CredentialRefs, Id
<1>2. ServiceOf(r, o) \in Nat
  BY <1>1, IdOfType DEF ServiceOf
<1>3. EnvironmentOf(r, o) \in Nat
  BY <1>1, IdOfType DEF EnvironmentOf
<1>4. ASSUME NEW name PROVE RefOf(r, o, name) \in Nat
  <2> DEFINE rows == {x \in InScope(r.credentialRefs, EnvironmentOf(r, o)) :
                        x.name = name}
  <2>1. \A x \in rows : x.id \in Nat
    BY <1>1 DEF InScope
  <2>2. IdOf(rows) \in Nat
    BY <2>1, IdOfType
  <2>3. QED
    BY <2>2 DEF RefOf
<1>5. QED
  BY <1>2, <1>3, <1>4

LEMMA EmptyType == Empty \in Snapshot
BY DEF Empty, Snapshot

\* The rows an operation adds are rows of their tables.
LEMMA AddedType ==
    ASSUME NEW r \in Snapshot, NEW o \in Operation, NEW id \in Id
    PROVE  Added(r, o, id) \in Snapshot
<1>1. CASE o.kind = "addService"
  <2>1. [id |-> id, name |-> o.service, aliases |-> o.aliases] \in Services
    BY <1>1 DEF Operation, Services
  <2>2. QED
    BY <1>1, <2>1 DEF Added, Empty, Snapshot
<1>2. CASE o.kind = "addEnvironment"
  <2>1. [id |-> id, service |-> ServiceOf(r, o), name |-> o.environment]
           \in Environments
    BY <1>2, ScopesType DEF Operation, Environments
  <2>2. QED
    BY <1>2, <2>1 DEF Added, Empty, Snapshot
<1>3. CASE o.kind = "addCredentialRef"
  <2>1. [id |-> id, environment |-> EnvironmentOf(r, o), name |-> o.name,
         access |-> o.access, secret |-> o.secret] \in CredentialRefs
    BY <1>3, ScopesType DEF Operation, CredentialRefs
  <2>2. QED
    BY <1>3, <2>1 DEF Added, Empty, Snapshot
<1>4. CASE o.kind = "addSourceBinding"
  <2> DEFINE ref == IF o.ref = None THEN None ELSE RefOf(r, o, o.ref)
  <2>1. ref \in Nat \cup {None}
    BY ScopesType
  <2>2. [id |-> id, environment |-> EnvironmentOf(r, o), name |-> o.name,
         ref |-> ref] \in SourceBindings
    <3> HIDE DEF ref
    <3>1. o.name \in Source
      BY <1>4 DEF Operation
    <3>2. QED
      BY <2>1, <3>1, ScopesType DEF SourceBindings
  <2>3. QED
    BY <1>4, <2>2 DEF Added, Empty, Snapshot
<1>5. CASE o.kind = "setActionPolicy"
  <2> DEFINE refs == {RefOf(r, o, name) : name \in o.refs}
  <2>1. refs \in SUBSET Nat
    BY ScopesType
  <2>2. [id |-> id, environment |-> EnvironmentOf(r, o), allow |-> o.allow,
         refs |-> refs] \in ActionPolicies
    <3> HIDE DEF refs
    <3>1. o.allow \in Allow
      BY <1>5 DEF Operation
    <3>2. QED
      BY <2>1, <3>1, ScopesType DEF ActionPolicies
  <2>3. QED
    BY <1>5, <2>2 DEF Added, Empty, Snapshot
<1>6. CASE o.kind \notin {"addService", "addEnvironment", "addCredentialRef",
                          "addSourceBinding", "setActionPolicy"}
  BY <1>6, EmptyType DEF Added
<1>7. QED
  BY <1>1, <1>2, <1>3, <1>4, <1>5, <1>6

\* What is made of a snapshot by adding rows of the right tables is one.
LEMMA ChangedType ==
    ASSUME NEW r \in Snapshot, NEW m, m.added \in Snapshot
    PROVE  Changed(r, m) \in Snapshot
BY DEF Changed, Left, Snapshot

LEMMA OutcomeType ==
    ASSUME NEW r \in Snapshot, NEW o \in Operation, NEW id \in Id
    PROVE  /\ Outcome(r, o, id).added \in Snapshot
           /\ Outcome(r, o, id).services \in SUBSET Nat
           /\ Outcome(r, o, id).environments \in SUBSET Nat
<1>1. RemovedServices(r, o) \in SUBSET Nat
  BY ScopesType DEF RemovedServices
<1>2. Ids({x \in r.environments : x.service \in RemovedServices(r, o)})
         \in SUBSET Nat
  BY DEF Ids, Snapshot, Environments, Id
<1>3. RemovedEnvironments(r, o) \in SUBSET Nat
  BY <1>2, ScopesType DEF RemovedEnvironments
<1>4. QED
  BY <1>1, <1>3, AddedType DEF Outcome

LEMMA EventsType ==
    ASSUME NEW m, m.added \in Snapshot, m.services \in SUBSET Nat,
           m.environments \in SUBSET Nat
    PROVE  EventsOf(m) \subseteq Event
BY DEF EventsOf, Event, Unknown, Snapshot, Services, Environments,
   CredentialRefs, SourceBindings, Id

-----------------------------------------------------------------------------
(* The inductive invariant.                                                *)

\* The lock is exclusive.
AloneInside == \A c, d \in Holders : c = d

\* What the holder loaded is still what is committed.
LoadedIsCurrent == \A c \in Client : pc[c] = "loaded" => seen[c] = tables

IInv ==
    /\ TypeOK
    /\ AloneInside
    /\ LoadedIsCurrent
    /\ RegistryIsValid
    /\ RefusalsAreTyped

LEMMA InitInv == Init => IInv
<1> SUFFICES ASSUME Init PROVE IInv
  OBVIOUS
<1>1. TypeOK
  BY EmptyType DEF Init, Idle, TypeOK
<1>2. AloneInside /\ LoadedIsCurrent /\ RefusalsAreTyped
  BY DEF Init, Idle, AloneInside, Holders, LoadedIsCurrent, RefusalsAreTyped
<1>3. Valid(Empty)
  BY DEF Valid, Constraints, Unique, Empty, Ids
<1>4. QED
  BY <1>1, <1>2, <1>3 DEF Init, Idle, IInv, RegistryIsValid

LEMMA CallInv ==
    ASSUME IInv, NEW c \in Client, NEW o \in Operation, Mutate(c, o)
    PROVE  IInv'
<1>1. o \in Operation /\ o # None
  BY NoneIsNoName
<1>2. TypeOK'
  BY <1>1 DEF IInv, TypeOK, Mutate, store
<1>3. AloneInside' /\ LoadedIsCurrent' /\ RegistryIsValid' /\ RefusalsAreTyped'
  BY DEF IInv, TypeOK, Mutate, store, AloneInside, Holders, LoadedIsCurrent,
     RegistryIsValid, RefusalsAreTyped
<1>4. QED
  BY <1>2, <1>3 DEF IInv

LEMMA LockInv ==
    ASSUME IInv, NEW c \in Client, Lock(c)
    PROVE  IInv'
<1>1. TypeOK'
  BY DEF IInv, TypeOK, Lock, store
<1>2. Holders' = {c}
  BY DEF IInv, TypeOK, Lock, Holders
<1>3. LoadedIsCurrent' /\ RegistryIsValid' /\ RefusalsAreTyped'
  BY DEF IInv, TypeOK, Lock, store, LoadedIsCurrent, RegistryIsValid,
     RefusalsAreTyped
<1>4. QED
  BY <1>1, <1>2, <1>3 DEF IInv, AloneInside

LEMMA LoadInv ==
    ASSUME IInv, NEW c \in Client, Load(c)
    PROVE  IInv'
<1>1. TypeOK'
  BY DEF IInv, TypeOK, Load, store
<1>2. Holders' = Holders
  BY DEF IInv, TypeOK, Load, Holders
<1>3. LoadedIsCurrent' /\ RegistryIsValid' /\ RefusalsAreTyped'
  BY DEF IInv, TypeOK, Load, store, LoadedIsCurrent, RegistryIsValid,
     RefusalsAreTyped
<1>4. QED
  BY <1>1, <1>2, <1>3 DEF IInv, AloneInside

\* A transaction that ends leaves the lock to nobody, whatever it came to.
LEMMA EndsInv ==
    ASSUME IInv, NEW c \in Client, NEW result \in {"done", "refused", "lost"},
           Ends(c, result), UNCHANGED store
    PROVE  IInv'
<1>1. TypeOK'
  BY EmptyType DEF IInv, TypeOK, Ends, store
<1>2. Holders' \subseteq Holders
  BY DEF IInv, TypeOK, Ends, Holders
<1>3. LoadedIsCurrent' /\ RegistryIsValid' /\ RefusalsAreTyped'
  BY DEF IInv, TypeOK, Ends, store, LoadedIsCurrent, RegistryIsValid,
     RefusalsAreTyped
<1>4. QED
  BY <1>1, <1>2, <1>3 DEF IInv, AloneInside

\* What was validated is what is written, and the tables accept it.
LEMMA WriteInv ==
    ASSUME IInv, NEW c \in Client, Write(c)
    PROVE  IInv'
<1> DEFINE m == Proposed(c)
<1>1. pc[c] = "loaded" /\ Acceptable(c) /\ seen[c] = tables
  BY DEF Write, IInv, LoadedIsCurrent
<1>2. Valid(Changed(tables, m))
  BY <1>1 DEF Acceptable
<1>3. Committed(c, m)
  BY <1>2 DEF Write, Valid
<1>4. op[c] \in Operation /\ tables \in Snapshot /\ issued + 1 \in Id
  BY <1>1 DEF IInv, TypeOK, Id
<1>5. /\ m.added \in Snapshot
      /\ m.services \in SUBSET Nat
      /\ m.environments \in SUBSET Nat
  BY <1>1, <1>4, OutcomeType DEF Proposed
<1>6. Changed(tables, m) \in Snapshot /\ EventsOf(m) \subseteq Event
  BY <1>4, <1>5, ChangedType, EventsType
<1> HIDE DEF m
<1>7. TypeOK'
  BY <1>3, <1>6, EmptyType DEF IInv, TypeOK, Committed, Ends
<1>8. Holders' = {}
  BY <1>1, <1>3 DEF IInv, TypeOK, AloneInside, Holders, Committed, Ends
<1>9. AloneInside' /\ LoadedIsCurrent'
  BY <1>8, <1>7 DEF AloneInside, LoadedIsCurrent, Holders
<1>10. RegistryIsValid'
  BY <1>2, <1>3 DEF Committed, RegistryIsValid
<1>11. RefusalsAreTyped'
  BY <1>3 DEF IInv, TypeOK, RefusalsAreTyped, Committed, Ends
<1>12. QED
  BY <1>7, <1>9, <1>10, <1>11 DEF IInv

LEMMA NextInv == IInv /\ [Next]_vars => IInv'
<1> SUFFICES ASSUME IInv, [Next]_vars PROVE IInv'
  OBVIOUS
<1>1. ASSUME NEW c \in Client, NEW o \in Offered, Mutate(c, o) PROVE IInv'
  BY <1>1, CallInv, OfferedAssumption
<1>2. ASSUME NEW c \in Client, Transact(c) PROVE IInv'
  <2>1. CASE Refuse(c)
    BY <2>1, EndsInv DEF Refuse
  <2>2. QED
    BY <1>2, <2>1, LockInv, LoadInv, WriteInv DEF Transact
<1>3. ASSUME NEW c \in Client, Lose(c) PROVE IInv'
  BY <1>3, EndsInv DEF Lose
<1>4. CASE UNCHANGED vars
  BY <1>4 DEF vars, IInv, TypeOK, AloneInside, Holders, LoadedIsCurrent,
     RegistryIsValid, RefusalsAreTyped
<1>5. QED
  BY <1>1, <1>2, <1>3, <1>4 DEF Next, Rest

-----------------------------------------------------------------------------
(* What registry_events tell.                                              *)

\* The rows of a snapshot that belong to an environment, by id and environment.
Scoped(rows) == {<<x.id, x.environment>> : x \in rows}

GoneScopes == SubjectsOf("environment.removed")

\* The additions of this kind whose environment was not removed since.
StillScoped(kind) ==
    {<<e.subject, e.scope>> : e \in {f \in events : /\ f.kind = kind
                                                   /\ f.scope \notin GoneScopes}}

\* Ids are numbered by the mutations that gave them.
IdsAreIssued ==
    /\ Ids(tables.services) \cup Ids(tables.environments) \subseteq 1..issued
    /\ GoneScopes \cup SubjectsOf("service.removed") \subseteq 0..issued

\* EventsTellTheRegistry, with the environment of each row.
EventsTellTheRows ==
    /\ Ids(tables.services) =
          SubjectsOf("service.added") \ SubjectsOf("service.removed")
    /\ Ids(tables.environments) = SubjectsOf("environment.added") \ GoneScopes
    /\ Scoped(tables.credentialRefs) = StillScoped("credentialRef.added")
    /\ Scoped(tables.sourceBindings) = StillScoped("sourceBinding.added")

EventsInv == IdsAreIssued /\ EventsTellTheRows

\* An id found among rows is one of theirs.
LEMMA IdOfIs ==
  ASSUME NEW rows
  PROVE  IdOf(rows) = Unknown \/ IdOf(rows) \in Ids(rows)
BY DEF IdOf, Ids

\* A mutation gives one new id, and removes none but given ones.
LEMMA OutcomeIds ==
  ASSUME IdsAreIssued, issued \in Nat, NEW o \in Operation
  PROVE  LET m == Outcome(tables, o, issued + 1)
         IN  /\ \A x \in m.added.services \cup m.added.environments
                         \cup m.added.credentialRefs \cup m.added.sourceBindings :
                    x.id = issued + 1
             /\ m.services \subseteq 0..issued
             /\ m.environments \subseteq 0..issued
<1> DEFINE id == issued + 1
<1>1. Added(tables, o, id).services \subseteq
          {[id |-> id, name |-> o.service, aliases |-> o.aliases]}
  BY DEF Added, Empty
<1>2. Added(tables, o, id).environments \subseteq
          {[id |-> id, service |-> ServiceOf(tables, o), name |-> o.environment]}
  BY DEF Added, Empty
<1>3. Added(tables, o, id).credentialRefs \subseteq
          {[id |-> id, environment |-> EnvironmentOf(tables, o),
            name |-> o.name, access |-> o.access, secret |-> o.secret]}
  BY DEF Added, Empty
<1>4. Added(tables, o, id).sourceBindings \subseteq
          {[id |-> id, environment |-> EnvironmentOf(tables, o), name |-> o.name,
            ref |-> IF o.ref = None THEN None ELSE RefOf(tables, o, o.ref)]}
  BY DEF Added, Empty
<1>5. ServiceOf(tables, o) \in 0..issued
  <2> DEFINE rows == {x \in tables.services : x.name = o.service}
  <2>1. Ids(rows) \subseteq 1..issued
    BY DEF Ids, IdsAreIssued
  <2>2. IdOf(rows) \in 0..issued
    BY <2>1, IdOfIs DEF Unknown
  <2> QED
    BY <2>2 DEF ServiceOf
<1>6. EnvironmentOf(tables, o) \in 0..issued
  <2> DEFINE rows == {x \in tables.environments : /\ x.service = ServiceOf(tables, o)
                                                   /\ x.name = o.environment}
  <2>1. Ids(rows) \subseteq 1..issued
    BY DEF Ids, IdsAreIssued
  <2>2. IdOf(rows) \in 0..issued
    BY <2>1, IdOfIs DEF Unknown
  <2> QED
    BY <2>2 DEF EnvironmentOf
<1>7. RemovedServices(tables, o) \subseteq 0..issued
  BY <1>5 DEF RemovedServices
<1>8. RemovedEnvironments(tables, o) \subseteq 0..issued
  <2>1. Ids({x \in tables.environments : x.service \in RemovedServices(tables, o)})
            \subseteq 0..issued
    BY DEF Ids, IdsAreIssued
  <2> QED
    BY <1>6, <2>1 DEF RemovedEnvironments
<1> HIDE DEF id
<1> QED
  BY <1>1, <1>2, <1>3, <1>4, <1>7, <1>8 DEF Outcome, id

\* The events of a mutation, kind by kind.
LEMMA EventsByKind ==
  ASSUME NEW m
  PROVE  /\ {f \in EventsOf(m) : f.kind = "service.added"} =
                {[kind |-> "service.added", subject |-> x.id,
                  scope |-> Unknown] : x \in m.added.services}
         /\ {f \in EventsOf(m) : f.kind = "environment.added"} =
                {[kind |-> "environment.added", subject |-> x.id,
                  scope |-> x.service] : x \in m.added.environments}
         /\ {f \in EventsOf(m) : f.kind = "credentialRef.added"} =
                {[kind |-> "credentialRef.added", subject |-> x.id,
                  scope |-> x.environment] : x \in m.added.credentialRefs}
         /\ {f \in EventsOf(m) : f.kind = "sourceBinding.added"} =
                {[kind |-> "sourceBinding.added", subject |-> x.id,
                  scope |-> x.environment] : x \in m.added.sourceBindings}
         /\ {f \in EventsOf(m) : f.kind = "environment.removed"} =
                {[kind |-> "environment.removed", subject |-> e,
                  scope |-> Unknown] : e \in m.environments}
         /\ {f \in EventsOf(m) : f.kind = "service.removed"} =
                {[kind |-> "service.removed", subject |-> s,
                  scope |-> Unknown] : s \in m.services}
<1> DEFINE
      sa == {[kind |-> "service.added", subject |-> x.id, scope |-> Unknown] :
                x \in m.added.services}
      ea == {[kind |-> "environment.added", subject |-> x.id,
              scope |-> x.service] : x \in m.added.environments}
      ca == {[kind |-> "credentialRef.added", subject |-> x.id,
              scope |-> x.environment] : x \in m.added.credentialRefs}
      ba == {[kind |-> "sourceBinding.added", subject |-> x.id,
              scope |-> x.environment] : x \in m.added.sourceBindings}
      er == {[kind |-> "environment.removed", subject |-> e,
              scope |-> Unknown] : e \in m.environments}
      sr == {[kind |-> "service.removed", subject |-> s,
              scope |-> Unknown] : s \in m.services}
<1>1. EventsOf(m) = sa \cup ea \cup ca \cup ba \cup er \cup sr
  BY DEF EventsOf
<1>2. /\ \A f \in sa : f.kind = "service.added"
      /\ \A f \in ea : f.kind = "environment.added"
      /\ \A f \in ca : f.kind = "credentialRef.added"
      /\ \A f \in ba : f.kind = "sourceBinding.added"
      /\ \A f \in er : f.kind = "environment.removed"
      /\ \A f \in sr : f.kind = "service.removed"
  OBVIOUS
<1> HIDE DEF sa, ea, ca, ba, er, sr
<1>3. {f \in EventsOf(m) : f.kind = "service.added"} = sa
  BY <1>1, <1>2
<1>4. {f \in EventsOf(m) : f.kind = "environment.added"} = ea
  BY <1>1, <1>2
<1>5. {f \in EventsOf(m) : f.kind = "credentialRef.added"} = ca
  BY <1>1, <1>2
<1>6. {f \in EventsOf(m) : f.kind = "sourceBinding.added"} = ba
  BY <1>1, <1>2
<1>7. {f \in EventsOf(m) : f.kind = "environment.removed"} = er
  BY <1>1, <1>2
<1>8. {f \in EventsOf(m) : f.kind = "service.removed"} = sr
  BY <1>1, <1>2
<1> QED
  BY <1>3, <1>4, <1>5, <1>6, <1>7, <1>8 DEF sa, ea, ca, ba, er, sr

\* What the events of a kind are about.
LEMMA SubjectsAre ==
  ASSUME NEW kind
  PROVE  /\ \A s : s \in SubjectsOf(kind) <=>
                       \E f \in {g \in events : g.kind = kind} : f.subject = s
         /\ \A s : s \in SubjectsOf(kind)' <=>
                       \E f \in {g \in events' : g.kind = kind} : f.subject = s
BY DEF SubjectsOf

\* What the events of a mutation add to what they tell.
LEMMA EventsAdd ==
  ASSUME NEW m, events' = events \cup EventsOf(m)
  PROVE  /\ SubjectsOf("service.added")' =
                SubjectsOf("service.added") \cup Ids(m.added.services)
         /\ SubjectsOf("service.removed")' =
                SubjectsOf("service.removed") \cup m.services
         /\ SubjectsOf("environment.added")' =
                SubjectsOf("environment.added") \cup Ids(m.added.environments)
         /\ GoneScopes' = GoneScopes \cup m.environments
<1>1. SubjectsOf("service.added")' = SubjectsOf("service.added") \cup Ids(m.added.services)
  <2> DEFINE made == {f \in EventsOf(m) : f.kind = "service.added"}
  <2>1. made = {[kind |-> "service.added", subject |-> x.id,
              scope |-> Unknown] : x \in m.added.services}
    BY EventsByKind
  <2>2. {f \in events' : f.kind = "service.added"} =
            {f \in events : f.kind = "service.added"} \cup made
    OBVIOUS
  <2> HIDE DEF made
  <2>3. ASSUME NEW x \in m.added.services
        PROVE  \E f \in made : f.subject = x.id
    <3>1. [kind |-> "service.added", subject |-> x.id,
           scope |-> Unknown] \in made
      BY <2>1
    <3> QED
      BY <3>1
  <2>4. ASSUME NEW f \in made
        PROVE  f.subject \in Ids(m.added.services)
    BY <2>1 DEF Ids
  <2>5. \A i : i \in Ids(m.added.services) <=> \E f \in made : f.subject = i
    BY <2>3, <2>4 DEF Ids
  <2> QED
    BY <2>2, <2>5, SubjectsAre
<1>2. SubjectsOf("service.removed")' = SubjectsOf("service.removed") \cup m.services
  <2> DEFINE made == {f \in EventsOf(m) : f.kind = "service.removed"}
  <2>1. made = {[kind |-> "service.removed", subject |-> s,
              scope |-> Unknown] : s \in m.services}
    BY EventsByKind
  <2>2. {f \in events' : f.kind = "service.removed"} =
            {f \in events : f.kind = "service.removed"} \cup made
    OBVIOUS
  <2> HIDE DEF made
  <2>3. ASSUME NEW s \in m.services
        PROVE  \E f \in made : f.subject = s
    <3>1. [kind |-> "service.removed", subject |-> s,
           scope |-> Unknown] \in made
      BY <2>1
    <3> QED
      BY <3>1
  <2>4. ASSUME NEW f \in made
        PROVE  f.subject \in m.services
    BY <2>1
  <2>5. \A i : i \in m.services <=> \E f \in made : f.subject = i
    BY <2>3, <2>4
  <2> QED
    BY <2>2, <2>5, SubjectsAre
<1>3. SubjectsOf("environment.added")' = SubjectsOf("environment.added") \cup Ids(m.added.environments)
  <2> DEFINE made == {f \in EventsOf(m) : f.kind = "environment.added"}
  <2>1. made = {[kind |-> "environment.added", subject |-> x.id,
              scope |-> x.service] : x \in m.added.environments}
    BY EventsByKind
  <2>2. {f \in events' : f.kind = "environment.added"} =
            {f \in events : f.kind = "environment.added"} \cup made
    OBVIOUS
  <2> HIDE DEF made
  <2>3. ASSUME NEW x \in m.added.environments
        PROVE  \E f \in made : f.subject = x.id
    <3>1. [kind |-> "environment.added", subject |-> x.id,
           scope |-> x.service] \in made
      BY <2>1
    <3> QED
      BY <3>1
  <2>4. ASSUME NEW f \in made
        PROVE  f.subject \in Ids(m.added.environments)
    BY <2>1 DEF Ids
  <2>5. \A i : i \in Ids(m.added.environments) <=> \E f \in made : f.subject = i
    BY <2>3, <2>4 DEF Ids
  <2> QED
    BY <2>2, <2>5, SubjectsAre
<1>4. GoneScopes' = GoneScopes \cup m.environments
  <2> DEFINE made == {f \in EventsOf(m) : f.kind = "environment.removed"}
  <2>1. made = {[kind |-> "environment.removed", subject |-> e,
              scope |-> Unknown] : e \in m.environments}
    BY EventsByKind
  <2>2. {f \in events' : f.kind = "environment.removed"} =
            {f \in events : f.kind = "environment.removed"} \cup made
    OBVIOUS
  <2> HIDE DEF made
  <2>3. ASSUME NEW e \in m.environments
        PROVE  \E f \in made : f.subject = e
    <3>1. [kind |-> "environment.removed", subject |-> e,
           scope |-> Unknown] \in made
      BY <2>1
    <3> QED
      BY <3>1
  <2>4. ASSUME NEW f \in made
        PROVE  f.subject \in m.environments
    BY <2>1
  <2>5. \A i : i \in m.environments <=> \E f \in made : f.subject = i
    BY <2>3, <2>4
  <2> QED
    BY <2>2, <2>5, SubjectsAre DEF GoneScopes
<1> QED
  BY <1>1, <1>2, <1>3, <1>4

\* A kind of row that belongs to an environment: what is left of it and what is
\* added is what the events still tell.
LEMMA ScopedAdd ==
  ASSUME NEW m, NEW kind, NEW rows, NEW new,
         Scoped(rows) = StillScoped(kind),
         GoneScopes' = GoneScopes \cup m.environments,
         {f \in events' : f.kind = kind} =
             {f \in events : f.kind = kind} \cup
             {[kind |-> kind, subject |-> x.id, scope |-> x.environment] : x \in new},
         \A x \in new : x.environment \notin GoneScopes'
  PROVE  Scoped(Left(rows, m) \cup new) = StillScoped(kind)'
<1>1. ASSUME NEW p \in Scoped(Left(rows, m) \cup new)
      PROVE  p \in StillScoped(kind)'
  <2>1. PICK x \in Left(rows, m) \cup new : p = <<x.id, x.environment>>
    BY DEF Scoped
  <2>2. CASE x \in new
    <3> DEFINE e == [kind |-> kind, subject |-> x.id, scope |-> x.environment]
    <3>1. e \in events' /\ e.kind = kind /\ e.scope \notin GoneScopes'
          /\ p = <<e.subject, e.scope>>
      BY <2>1, <2>2
    <3> HIDE DEF e
    <3> QED
      BY <3>1 DEF StillScoped
  <2>3. CASE x \in Left(rows, m)
    <3>1. x \in rows /\ x.environment \notin m.environments
      BY <2>3 DEF Left
    <3>2. p \in StillScoped(kind)
      BY <2>1, <3>1 DEF Scoped
    <3>3. PICK e \in events : /\ e.kind = kind /\ e.scope \notin GoneScopes
                              /\ p = <<e.subject, e.scope>>
      BY <3>2 DEF StillScoped
    <3>4. e.scope = x.environment
      BY <2>1, <3>3
    <3>5. e \in events' /\ e.scope \notin GoneScopes'
      BY <3>1, <3>3, <3>4
    <3> QED
      BY <3>3, <3>5 DEF StillScoped
  <2> QED
    BY <2>1, <2>2, <2>3
<1>2. ASSUME NEW p \in StillScoped(kind)'
      PROVE  p \in Scoped(Left(rows, m) \cup new)
  <2>1. PICK e \in events' : /\ e.kind = kind /\ e.scope \notin GoneScopes'
                             /\ p = <<e.subject, e.scope>>
    BY <1>2 DEF StillScoped
  <2>2. CASE e \in events
    <3>1. p \in Scoped(rows)
      BY <2>1, <2>2 DEF StillScoped
    <3>2. PICK x \in rows : p = <<x.id, x.environment>>
      BY <3>1 DEF Scoped
    <3>3. x \in Left(rows, m)
      BY <2>1, <3>2 DEF Left
    <3> QED
      BY <3>2, <3>3 DEF Scoped
  <2>3. CASE e \notin events
    <3>1. PICK x \in new :
              e = [kind |-> kind, subject |-> x.id, scope |-> x.environment]
      BY <2>1, <2>3
    <3> QED
      BY <2>1, <3>1 DEF Scoped
  <2> QED
    BY <2>2, <2>3
<1> QED
  BY <1>1, <1>2

LEMMA EventsStart == Init => EventsInv
<1> SUFFICES ASSUME Init PROVE EventsInv
  OBVIOUS
<1>1. events = {} /\ tables = Empty /\ issued = 0
  BY DEF Init
<1>2. \A kind : SubjectsOf(kind) = {} /\ StillScoped(kind) = {}
  BY <1>1 DEF SubjectsOf, StillScoped
<1>3. Ids({}) = {} /\ Scoped({}) = {}
  BY DEF Ids, Scoped
<1> QED
  BY <1>1, <1>2, <1>3 DEF EventsInv, IdsAreIssued, EventsTellTheRows, Empty, GoneScopes

\* What the mutation at hand makes of tables and events, ids counted on.
Mutated(m) ==
    /\ tables' = Changed(tables, m)
    /\ events' = events \cup EventsOf(m)
    /\ issued' = issued + 1

LEMMA MutationTells ==
  ASSUME EventsInv, tables \in Snapshot, issued \in Nat, NEW o \in Operation,
         NEW m, m = Outcome(tables, o, issued + 1),
         Mutated(m), Valid(Changed(tables, m))
  PROVE  EventsInv'
<1> DEFINE id == issued + 1
<1>1. /\ \A x \in m.added.services \cup m.added.environments
                  \cup m.added.credentialRefs \cup m.added.sourceBindings : x.id = id
      /\ m.services \subseteq 0..issued
      /\ m.environments \subseteq 0..issued
  BY OutcomeIds DEF EventsInv
<1>2. /\ SubjectsOf("service.added")' =
             SubjectsOf("service.added") \cup Ids(m.added.services)
      /\ SubjectsOf("service.removed")' =
             SubjectsOf("service.removed") \cup m.services
      /\ SubjectsOf("environment.added")' =
             SubjectsOf("environment.added") \cup Ids(m.added.environments)
      /\ GoneScopes' = GoneScopes \cup m.environments
  BY EventsAdd DEF Mutated
<1>3. /\ tables'.services = {x \in tables.services : x.id \notin m.services}
                               \cup m.added.services
      /\ tables'.environments =
             {x \in tables.environments : x.id \notin m.environments}
                \cup m.added.environments
      /\ tables'.credentialRefs = Left(tables.credentialRefs, m)
                                     \cup m.added.credentialRefs
      /\ tables'.sourceBindings = Left(tables.sourceBindings, m)
                                     \cup m.added.sourceBindings
  BY DEF Mutated, Changed
<1>4. /\ Ids(m.added.services) \subseteq {id}
      /\ Ids(m.added.environments) \subseteq {id}
  BY <1>1 DEF Ids
<1>5. /\ Ids(tables'.services) =
             (Ids(tables.services) \ m.services) \cup Ids(m.added.services)
      /\ Ids(tables'.environments) =
             (Ids(tables.environments) \ m.environments)
                \cup Ids(m.added.environments)
  BY <1>3 DEF Ids
<1>6. /\ GoneScopes' \cup SubjectsOf("service.removed")' \subseteq 0..issued
      /\ Ids(tables.services) \cup Ids(tables.environments) \subseteq 1..issued
  BY <1>1, <1>2 DEF EventsInv, IdsAreIssued
<1>7. IdsAreIssued'
  <2>1. /\ id = issued' /\ issued' \in Nat /\ id \in 1..issued'
        /\ 1..issued \subseteq 1..issued' /\ 0..issued \subseteq 0..issued'
    BY DEF Mutated
  <2>2. Ids(tables'.services) \cup Ids(tables'.environments) \subseteq 1..issued'
    BY <1>4, <1>5, <1>6, <2>1
  <2> QED
    BY <1>6, <2>1, <2>2 DEF IdsAreIssued
<1>8. id \notin 0..issued
  OBVIOUS
<1> HIDE DEF id
<1>9. Ids(tables'.services) =
          SubjectsOf("service.added")' \ SubjectsOf("service.removed")'
  BY <1>2, <1>4, <1>5, <1>6, <1>8 DEF EventsInv, EventsTellTheRows
<1>10. Ids(tables'.environments) = SubjectsOf("environment.added")' \ GoneScopes'
  BY <1>2, <1>4, <1>5, <1>6, <1>8 DEF EventsInv, EventsTellTheRows
<1>11. \A x \in tables'.credentialRefs \cup tables'.sourceBindings :
          x.environment \notin GoneScopes'
  <2>1. \A x \in tables'.credentialRefs \cup tables'.sourceBindings :
           x.environment \in Ids(tables'.environments)
    BY DEF Mutated, Valid, Constraints
  <2> QED
    BY <2>1, <1>10
<1>12. Scoped(tables'.credentialRefs) = StillScoped("credentialRef.added")'
  <2>1. \A x \in m.added.credentialRefs : x.environment \notin GoneScopes'
    BY <1>3, <1>11
  <2>2. {f \in events' : f.kind = "credentialRef.added"} =
           {f \in events : f.kind = "credentialRef.added"} \cup
           {f \in EventsOf(m) : f.kind = "credentialRef.added"}
    BY DEF Mutated
  <2>3. {f \in events' : f.kind = "credentialRef.added"} =
           {f \in events : f.kind = "credentialRef.added"} \cup
           {[kind |-> "credentialRef.added", subject |-> x.id,
             scope |-> x.environment] : x \in m.added.credentialRefs}
    BY <2>2, EventsByKind
  <2>4. Scoped(tables.credentialRefs) = StillScoped("credentialRef.added")
    BY DEF EventsInv, EventsTellTheRows
  <2>5. Scoped(Left(tables.credentialRefs, m) \cup m.added.credentialRefs) =
           StillScoped("credentialRef.added")'
    BY <1>2, <2>1, <2>3, <2>4, ScopedAdd
  <2> QED
    BY <1>3, <2>5
<1>13. Scoped(tables'.sourceBindings) = StillScoped("sourceBinding.added")'
  <2>1. \A x \in m.added.sourceBindings : x.environment \notin GoneScopes'
    BY <1>3, <1>11
  <2>2. {f \in events' : f.kind = "sourceBinding.added"} =
           {f \in events : f.kind = "sourceBinding.added"} \cup
           {f \in EventsOf(m) : f.kind = "sourceBinding.added"}
    BY DEF Mutated
  <2>3. {f \in events' : f.kind = "sourceBinding.added"} =
           {f \in events : f.kind = "sourceBinding.added"} \cup
           {[kind |-> "sourceBinding.added", subject |-> x.id,
             scope |-> x.environment] : x \in m.added.sourceBindings}
    BY <2>2, EventsByKind
  <2>4. Scoped(tables.sourceBindings) = StillScoped("sourceBinding.added")
    BY DEF EventsInv, EventsTellTheRows
  <2>5. Scoped(Left(tables.sourceBindings, m) \cup m.added.sourceBindings) =
           StillScoped("sourceBinding.added")'
    BY <1>2, <2>1, <2>3, <2>4, ScopedAdd
  <2> QED
    BY <1>3, <2>5
<1>14. EventsTellTheRows'
  BY <1>9, <1>10, <1>12, <1>13 DEF EventsTellTheRows
<1> QED
  BY <1>7, <1>14 DEF EventsInv

LEMMA EventsKept ==
  ASSUME EventsInv, UNCHANGED store
  PROVE  EventsInv'
BY DEF EventsInv, store, IdsAreIssued, EventsTellTheRows, GoneScopes, SubjectsOf,
       StillScoped, Scoped, Ids

LEMMA EventsNext ==
  ASSUME IInv, EventsInv, [Next]_vars
  PROVE  EventsInv'
<1>1. ASSUME NEW c \in Client, Write(c)
      PROVE  EventsInv'
  <2> DEFINE m == Proposed(c)
  <2>1. pc[c] = "loaded" /\ Acceptable(c) /\ seen[c] = tables
    BY <1>1 DEF Write, IInv, LoadedIsCurrent
  <2>2. Valid(Changed(tables, m))
    BY <2>1 DEF Acceptable
  <2>3. Mutated(m)
    BY <1>1, <2>1, <2>2 DEF Write, Valid, Committed, Mutated
  <2>4. op[c] \in Operation /\ tables \in Snapshot /\ issued \in Nat
    BY <2>1 DEF IInv, TypeOK
  <2>5. m = Outcome(tables, op[c], issued + 1)
    BY <2>1 DEF Proposed
  <2> HIDE DEF m
  <2> QED
    BY <2>2, <2>3, <2>4, <2>5, MutationTells
<1>2. CASE UNCHANGED store
  BY <1>2, EventsKept
<1>3. QED
  <2>1. ASSUME NEW c \in Client, NEW o \in Offered, Mutate(c, o)
        PROVE  UNCHANGED store
    BY <2>1 DEF Mutate
  <2>2. ASSUME NEW c \in Client, Transact(c)
        PROVE  Write(c) \/ UNCHANGED store
    BY <2>2 DEF Transact, Lock, Load, Refuse
  <2>3. ASSUME NEW c \in Client, Lose(c)
        PROVE  UNCHANGED store
    BY <2>3 DEF Lose
  <2>4. ASSUME UNCHANGED vars
        PROVE  UNCHANGED store
    BY <2>4 DEF vars, store
  <2>5. (\E c \in Client : Write(c)) \/ UNCHANGED store
    BY <2>1, <2>2, <2>3, <2>4 DEF Next, Rest
  <2> QED
    BY <1>1, <1>2, <2>5

\* Rows and events agree by their ids when they agree by ids and environments.
LEMMA KeptIds ==
  ASSUME NEW rows, NEW kind, Scoped(rows) = StillScoped(kind)
  PROVE  Ids(rows) = {e.subject : e \in {f \in events : /\ f.kind = kind
                                                       /\ f.scope \notin GoneScopes}}
<1>1. ASSUME NEW i \in Ids(rows)
      PROVE  \E e \in events : /\ e.kind = kind /\ e.scope \notin GoneScopes
                               /\ e.subject = i
  <2>1. PICK x \in rows : i = x.id
    BY DEF Ids
  <2>2. <<x.id, x.environment>> \in StillScoped(kind)
    BY DEF Scoped
  <2> QED
    BY <2>1, <2>2 DEF StillScoped
<1>2. ASSUME NEW e \in events, e.kind = kind, e.scope \notin GoneScopes
      PROVE  e.subject \in Ids(rows)
  <2>1. <<e.subject, e.scope>> \in Scoped(rows)
    BY <1>2 DEF StillScoped
  <2> QED
    BY <2>1 DEF Scoped, Ids
<1> QED
  BY <1>1, <1>2

LEMMA RowsTell == EventsInv => EventsTellTheRegistry
<1> SUFFICES ASSUME EventsInv PROVE EventsTellTheRegistry
  OBVIOUS
<1>1. /\ Scoped(tables.credentialRefs) = StillScoped("credentialRef.added")
      /\ Scoped(tables.sourceBindings) = StillScoped("sourceBinding.added")
  BY DEF EventsInv, EventsTellTheRows
<1> QED
  BY <1>1, KeptIds
  DEF EventsInv, EventsTellTheRows, EventsTellTheRegistry, GoneScopes

-----------------------------------------------------------------------------
(* aic incident start, beside the registry's clients.                      *)

\* One incident per key, told to everyone who asked, and a key that is being
\* inserted by one start alone.
StartInv ==
    /\ spc \in [Starter -> {"off", "resolved", "selecting", "scoped",
                            "inserted", "conflict"}]
    /\ DOMAIN intake = Starter
    /\ DOMAIN gone = Starter
    /\ \A x, y \in incidents : x.key = y.key => x = y
    /\ \A i \in Starter : spc[i] = "inserted" => ~Stored(intake[i])
    /\ \A i, j \in Starter :
          (spc[i] = "inserted" /\ spc[j] = "inserted" /\ intake[i] = intake[j])
             => i = j
    /\ \A x \in replies : x.incident \in incidents
    /\ \A i \in Starter : gone[i] \subseteq GoneScopes
    /\ \A i \in Starter : spc[i] \in {"scoped", "inserted", "conflict"} =>
          intake[i].environment \notin gone[i]

LEMMA StartStart == StartInit => StartInv
BY DEF StartInit, NoStart, StartInv, Stored

\* What was removed stays removed: ids do not come back.
LEMMA GoneScopesGrow ==
  ASSUME [Next]_vars
  PROVE  GoneScopes \subseteq GoneScopes'
<1>1. events \subseteq events'
  <2>1. ASSUME NEW c \in Client, Transact(c)
        PROVE  events \subseteq events'
    BY <2>1 DEF Transact, Lock, Load, Refuse, Write, Committed, store
  <2>2. ASSUME NEW c \in Client, Lose(c)
        PROVE  events \subseteq events'
    BY <2>2 DEF Lose, store
  <2>3. ASSUME NEW c \in Client, NEW o \in Offered, Mutate(c, o)
        PROVE  events \subseteq events'
    BY <2>3 DEF Mutate, store
  <2> QED
    BY <2>1, <2>2, <2>3 DEF Next, Rest, vars
<1> QED
  BY <1>1 DEF GoneScopes, SubjectsOf

\* Nothing a start does matters to the others but the row it commits.
LEMMA StartStepInv ==
  ASSUME EventsInv, StartInv, NEW i \in Starter, StartStep(i)
  PROVE  StartInv'
<1>1. UNCHANGED vars
  BY DEF StartStep, Resolve, SelectServices, SelectEnvironments, Insert,
         Create, Answer, Die
<1>2. GoneScopes' = GoneScopes
  BY <1>1 DEF vars, GoneScopes, SubjectsOf
<1>3. ASSUME NEW s \in Service, NEW e \in Environment, NEW b \in Basis,
             Resolve(i, s, e, b)
      PROVE  StartInv'
  BY <1>2, <1>3 DEF Resolve, Goes, StartInv, Stored
<1>4. CASE SelectServices(i)
  <2>1. GoneScopes = Removed
    BY DEF GoneScopes, Removed, SubjectsOf
  <2> QED
    BY <1>2, <1>4, <2>1 DEF SelectServices, Goes, StartInv, Stored
<1>5. CASE SelectEnvironments(i)
  <2>1. CASE ScopeKnown(i)
    <3>1. intake[i].environment \in Ids(tables.environments)
      BY <2>1 DEF ScopeKnown, Ids
    <3>2. intake[i].environment \notin gone[i]
      BY <3>1 DEF EventsInv, EventsTellTheRows, StartInv
    <3> QED
      BY <1>2, <1>5, <2>1, <3>2 DEF SelectEnvironments, Goes, StartInv, Stored
  <2>2. CASE ~ScopeKnown(i)
    BY <1>2, <1>5, <2>2 DEF SelectEnvironments, Off, Goes, StartInv, Stored
  <2> QED
    BY <2>1, <2>2
<1>6. CASE Insert(i)
  BY <1>2, <1>6 DEF Insert, Goes, Taken, StartInv, Stored
<1>7. CASE Create(i)
  <2>1. /\ spc[i] = "inserted"
        /\ incidents' = incidents \cup {RowOf(i)}
        /\ replies' \subseteq
              replies \cup {[incident |-> RowOf(i), created |-> TRUE]}
        /\ spc' = [spc EXCEPT ![i] = "off"]
        /\ intake' = [intake EXCEPT ![i] = None]
        /\ gone' = [gone EXCEPT ![i] = {}]
    BY <1>7 DEF Create, Off, Goes, Replies
  <2>2. RowOf(i).key = intake[i]
    BY DEF RowOf
  <2>3. \A x \in incidents : x.key # intake[i]
    BY <2>1 DEF StartInv, Stored
  <2>4. \A x, y \in incidents' : x.key = y.key => x = y
    BY <2>1, <2>2, <2>3 DEF StartInv
  <2>5. \A x \in replies' : x.incident \in incidents'
    BY <2>1 DEF StartInv
  <2>6. \A j \in Starter : spc'[j] = "inserted" => ~Stored(intake[j])'
    BY <2>1, <2>2 DEF StartInv, Stored
  <2> QED
    BY <1>2, <2>1, <2>4, <2>5, <2>6 DEF StartInv
<1>8. CASE Answer(i)
  <2>1. /\ \E x \in incidents :
              replies' \subseteq replies \cup {[incident |-> x, created |-> FALSE]}
        /\ incidents' = incidents
    BY <1>8 DEF Answer, Replies
  <2>2. \A x \in replies' : x.incident \in incidents'
    BY <2>1 DEF StartInv
  <2> QED
    BY <1>2, <1>8, <2>1, <2>2 DEF Answer, Off, Goes, StartInv, Stored
<1>9. CASE Die(i)
  BY <1>2, <1>9 DEF Die, Off, Goes, StartInv, Stored
<1> QED
  BY <1>3, <1>4, <1>5, <1>6, <1>7, <1>8, <1>9 DEF StartStep

LEMMA StartNextInv ==
  ASSUME IInv, EventsInv, StartInv, [StartNext]_startAll
  PROVE  IInv' /\ EventsInv' /\ StartInv'
<1>1. CASE [Next]_vars /\ UNCHANGED startVars
  BY <1>1, NextInv, EventsNext, GoneScopesGrow DEF StartInv, startVars, Stored
<1>2. ASSUME NEW i \in Starter, StartStep(i)
      PROVE  IInv' /\ EventsInv' /\ StartInv'
  <2>1. UNCHANGED vars
    BY <1>2 DEF StartStep, Resolve, SelectServices, SelectEnvironments, Insert,
           Create, Answer, Die
  <2> QED
    BY <1>2, <2>1, StartStepInv, NextInv, EventsNext
<1> QED
  BY <1>1, <1>2 DEF StartNext, startAll

-----------------------------------------------------------------------------
(* aic incident investigate, beside the starts.                            *)

\* The incidents there are have an id that some start was given.
IntakeIds ==
    /\ starts \in [Starter -> 0..MaxStarts]
    /\ DOMAIN spc = Starter
    /\ \A i \in Starter : spc[i] # "off" => starts[i] >= 1
    /\ \A x \in incidents : x.id \in IncidentId

Claiming == {"claimed", "working", "worked", "putting", "closing", "closed"}
Opened == Claiming \ {"claimed"}
Pending == {"worked", "putting"}

\* The investigators whose command has a claim of r.
Claimants(r) == {i \in Investigator : mpc[i] \in Claiming /\ ask[i].run = r}

Number(i) == ask[i].claim.attempt
Depth(i) == Len(ask[i].state)

\* What an attempt came to is what was committed so far.
Prefix(s, t) ==
    /\ s \in Seq(Found)
    /\ Len(s) <= Len(t)
    /\ \A k \in 1..Len(s) : s[k] = t[k]

AskFields == {"incident", "scope", "run", "asOf", "claim", "state"}
CallFields == {"pc", "op", "claim", "key", "input", "value"}
InputRow(x) == x = [incident |-> x.incident, service |-> x.service,
                    environment |-> x.environment, asOf |-> x.asOf]

\* What a command asks is what its run was created to ask.
Asks(i) ==
    /\ mpc[i] = "off" => ask[i] = None
    /\ mpc[i] # "off" =>
          /\ commands[i] >= 1
          /\ DOMAIN ask[i] = AskFields
          /\ ask[i].run \in Run
          /\ Concerns(ask[i].incident, ask[i].scope)
          /\ mpc[i] \notin Claiming => ask[i].claim = None
          /\ mpc[i] # "creating" => /\ status[ask[i].run] # "absent"
                                    /\ inputs[ask[i].run] = InputOf(i)

AskInv ==
    /\ mpc \in [Investigator ->
                  Claiming \cup {"off", "creating", "claiming", "sweeping", "reading"}]
    /\ commands \in [Investigator -> 0..MaxCommands]
    /\ DOMAIN ask = Investigator /\ DOMAIN inputs = Run
    /\ \A r \in Run : status[r] # "absent" => InputRow(inputs[r])
    /\ \A i \in Investigator : Asks(i)

\* Authority over a run: claims are numbered, and the run of an open closing
\* transaction stays its claim's.
Holds(i) ==
    /\ mpc[i] \in Claiming => /\ ask[i].claim.run = ask[i].run
                              /\ Number(i) \in Nat
                              /\ Number(i) <= attempt[ask[i].run]
    /\ mpc[i] = "closing" =>
          /\ call[Me(i)].claim = ask[i].claim
          /\ call[Me(i)].op = "completed"
          /\ call[Me(i)].pc \in {"closing", "refused"}
          /\ call[Me(i)].pc = "closing" =>
                /\ status[ask[i].run] = "running"
                /\ Number(i) = attempt[ask[i].run]
    /\ mpc[i] \in {"closed", "reading"} => status[ask[i].run] = "completed"
    /\ mpc[i] = "closed" => Number(i) = attempt[ask[i].run]

RunInv ==
    /\ status \in [Run -> Runs!Status]
    /\ attempt \in [Run -> Nat]
    /\ DOMAIN call = Worker
    /\ \A s \in Worker : DOMAIN call[s] = CallFields
    /\ \A i \in Investigator : Holds(i)
    /\ \A r \in Run : \A i, j \in Claimants(r) : Number(i) = Number(j) => i = j

\* A command's graph is at something its run came to, and where it has nothing
\* left to write, a checkpoint is as far as it is.
Fits(i) ==
    /\ Prefix(ask[i].state, answers[ask[i].run])
    /\ mpc[i] \in {"closing", "closed"} => Depth(i) = Supersteps
    /\ mpc[i] \notin Pending =>
          \E y \in thread[ask[i].run] : Len(y.state) = Depth(i)

\* Everything in a thread is of what its run's supersteps came to.
ThreadInv ==
    /\ DOMAIN thread = Run
    /\ answers \in [Run -> Seq(Found)]
    /\ \A r \in Run : \A y \in thread[r] : Prefix(y.state, answers[r])
    /\ \A i \in Investigator : mpc[i] \in Opened => Fits(i)

\* What was printed as the run's own is its last attempt's, which is none but the
\* one that completed it; and what is short of the whole was read in a thread
\* where another attempt has the whole.
ReportInv ==
    /\ \A r \in Run : status[r] = "completed" =>
          \E y \in thread[r] : Len(y.state) = Supersteps
    /\ \A x \in reports :
          /\ x.run \in Run
          /\ status[x.run] = "completed"
          /\ Prefix(x.state, answers[x.run])
          /\ x.by # None => /\ Len(x.state) = Supersteps
                            /\ x.by = attempt[x.run]
          /\ Len(x.state) < Supersteps =>
                \E y, z \in thread[x.run] : y.by # z.by

LEMMA IntakeIdsStart == StartInit => IntakeIds
BY MaxStartsAssumption DEF StartInit, NoStart, IntakeIds

LEMMA IntakeIdsNext ==
  ASSUME IntakeIds, [StartNext]_startAll
  PROVE  IntakeIds' /\ incidents \subseteq incidents'
<1>1. CASE UNCHANGED startVars
  BY <1>1 DEF IntakeIds, startVars
<1>2. ASSUME NEW i \in Starter, StartStep(i)
      PROVE  IntakeIds' /\ incidents \subseteq incidents'
  <2>1. ASSUME NEW s \in Service, NEW e \in Environment, NEW b \in Basis,
               Resolve(i, s, e, b)
        PROVE  IntakeIds' /\ incidents \subseteq incidents'
    BY <2>1, MaxStartsAssumption DEF Resolve, Goes, IntakeIds
  <2>2. CASE Create(i)
    <3>1. RowOf(i).id \in IncidentId
      BY <2>2, MaxStartsAssumption DEF Create, IntakeIds, RowOf, IncidentId
    <3> QED
      BY <2>2, <3>1 DEF Create, Off, Goes, IntakeIds
  <2>3. CASE SelectServices(i) \/ SelectEnvironments(i) \/ Insert(i)
             \/ Answer(i) \/ Die(i)
    BY <2>3 DEF SelectServices, SelectEnvironments, Insert, Answer, Die, Off,
                Goes, IntakeIds
  <2> QED
    BY <1>2, <2>1, <2>2, <2>3 DEF StartStep
<1> QED
  BY <1>1, <1>2 DEF StartNext, startAll

LEMMA CommandsStart ==
  NoInvestigation => AskInv /\ RunInv /\ ThreadInv /\ ReportInv
<1> SUFFICES ASSUME NoInvestigation
             PROVE  AskInv /\ RunInv /\ ThreadInv /\ ReportInv
  OBVIOUS
<1>1. AskInv
  BY MaxCommandsAssumption
  DEF NoInvestigation, AskInv, Asks, Runs!Init
<1>2. RunInv
  BY DEF NoInvestigation, RunInv, Holds, Runs!Init, Runs!NoCall, Runs!Status,
         CallFields, Claiming, Claimants
<1>3. ThreadInv
  BY DEF NoInvestigation, ThreadInv, Opened, Claiming
<1>4. ReportInv
  BY DEF NoInvestigation, ReportInv, Runs!Init
<1> QED
  BY <1>1, <1>2, <1>3, <1>4

\* Neither a statement on the registry nor a lease that runs out reaches a thread.
LEMMA StillThreads ==
  ASSUME ThreadInv, ReportInv, UNCHANGED <<status, attempt, ownVars>>
  PROVE  ThreadInv' /\ ReportInv'
<1> USE DEF ownVars
<1>1. ThreadInv'
  BY DEF ThreadInv, Fits, Depth
<1>2. ReportInv'
  BY DEF ReportInv
<1> QED
  BY <1>1, <1>2

\* Nothing here is about the registry, and incidents stay.
LEMMA BesideCommands ==
  ASSUME AskInv, RunInv, ThreadInv, ReportInv,
         UNCHANGED commandVars, incidents \subseteq incidents'
  PROVE  AskInv' /\ RunInv' /\ ThreadInv' /\ ReportInv'
<1>1. UNCHANGED <<status, attempt, ownVars>>
  BY DEF commandVars, runVars
<1> USE DEF commandVars, ownVars, runVars
<1>2. AskInv'
  BY DEF AskInv, Asks, InputOf, Concerns
<1>3. RunInv'
  BY DEF RunInv, Holds, Claimants, Number, Me
<1> QED
  BY <1>1, <1>2, <1>3, StillThreads

\* The threads go on as they are when they and what was committed only grow, and
\* the graph of the command that takes the step fits.
LEMMA ThreadsGrow ==
  ASSUME AskInv, ThreadInv, NEW i \in Investigator, NEW to, MGoes(i, to),
         \A j \in Investigator \ {i} : ask'[j] = ask[j],
         DOMAIN thread' = Run, answers' \in [Run -> Seq(Found)],
         \A r \in Run : /\ thread[r] \subseteq thread'[r]
                        /\ \A y \in thread'[r] \ thread[r] : Prefix(y.state, answers'[r])
                        /\ \A s : Prefix(s, answers[r]) => Prefix(s, answers'[r]),
         to \in Opened => Fits(i)'
  PROVE  ThreadInv'
<1>1. /\ \A j \in Investigator \ {i} : /\ mpc'[j] = mpc[j] /\ ask'[j] = ask[j]
                                       /\ Depth(j)' = Depth(j)
      /\ mpc'[i] = to
  BY DEF AskInv, MGoes, Depth
<1>2. ASSUME NEW j \in Investigator, mpc'[j] \in Opened
      PROVE  Fits(j)'
  <2>1. CASE j = i
    BY <1>1, <1>2, <2>1
  <2>2. CASE j # i
    <3>1. Fits(j) /\ ask[j].run \in Run
      BY <1>1, <1>2, <2>2 DEF ThreadInv, AskInv, Asks, Opened, Claiming
    <3> QED
      BY <1>1, <2>2, <3>1 DEF Fits
  <2> QED
    BY <2>1, <2>2
<1>3. \A r \in Run : \A y \in thread'[r] : Prefix(y.state, answers'[r])
  BY DEF ThreadInv
<1> QED
  BY <1>2, <1>3 DEF ThreadInv

\* A command that comes to have no graph leaves the threads alone.
LEMMA ThreadsRest ==
  ASSUME AskInv, ThreadInv, NEW i \in Investigator, NEW to, MGoes(i, to),
         to \notin Opened, UNCHANGED <<thread, answers>>,
         \A j \in Investigator \ {i} : ask'[j] = ask[j]
  PROVE  ThreadInv'
BY ThreadsGrow DEF ThreadInv

\* What a statement on the runs table, made for i, may do to it.
RunsMove(i) ==
    /\ status' \in [Run -> Runs!Status]
    /\ attempt' \in [Run -> Nat]
    /\ \A r \in Run : /\ status[r] # "absent" => status'[r] # "absent"
                      /\ status[r] = "completed" => /\ status'[r] = "completed"
                                                   /\ attempt'[r] = attempt[r]
                      /\ attempt[r] <= attempt'[r]
    /\ DOMAIN call' = Worker
    /\ \A s \in Worker : DOMAIN call'[s] = CallFields
    /\ \A j \in Investigator \ {i} : mpc[j] = "closing" =>
          /\ call'[Me(j)] = call[Me(j)]
          /\ call[Me(j)].pc = "closing" =>
                /\ status'[ask[j].run] = "running"
                /\ attempt'[ask[j].run] = attempt[ask[j].run]

LEMMA WorkerIs ==
  ASSUME AskInv, NEW i \in Investigator, mpc[i] # "off"
  PROVE  Me(i) \in Worker
BY MaxCommandsAssumption DEF AskInv, Asks, Me, Worker

LEMMA WorkersDiffer ==
  ASSUME NEW i, NEW j, i # j
  PROVE  Me(i) # Me(j)
BY DEF Me

LEMMA QuietMove ==
  ASSUME AskInv, RunInv, NEW i \in Investigator, UNCHANGED <<status, attempt, call>>
  PROVE  RunsMove(i)
BY DEF RunsMove, RunInv, Holds

LEMMA CreateMove ==
  ASSUME AskInv, RunInv, NEW i \in Investigator, NEW r \in Run, Runs!CreateRun(r)
  PROVE  RunsMove(i)
<1>1. /\ status[r] = "absent"
      /\ status' = [status EXCEPT ![r] = "queued"]
      /\ attempt' = attempt /\ call' = call
  BY DEF Runs!CreateRun
<1> QED
  BY <1>1 DEF RunsMove, RunInv, Holds, Runs!Status

LEMMA SweepMove ==
  ASSUME AskInv, RunInv, NEW i \in Investigator, Runs!SweepExpired
  PROVE  RunsMove(i)
<1>1. /\ status' = [r \in Run |-> IF r \in Runs!Sweepable THEN "queued" ELSE status[r]]
      /\ attempt' = attempt /\ call' = call
  BY DEF Runs!SweepExpired
<1>2. \A r \in Runs!Sweepable : status[r] = "running" /\ ~Runs!Locked(r)
  BY DEF Runs!Sweepable
<1>3. ASSUME NEW j \in Investigator, mpc[j] = "closing", call[Me(j)].pc = "closing"
      PROVE  Runs!Locked(ask[j].run)
  <2>1. Me(j) \in Worker
    BY <1>3, WorkerIs
  <2>2. call[Me(j)].claim.run = ask[j].run
    BY <1>3 DEF RunInv, Holds, Claiming
  <2> QED
    BY <1>3, <2>1, <2>2 DEF Runs!Locked, Runs!Holds, Runs!InTx, Runs!InTxPc
<1>4. \A j \in Investigator : mpc[j] = "closing" => ask[j].run \in Run
  BY DEF AskInv, Asks
<1> QED
  BY <1>1, <1>2, <1>3, <1>4 DEF RunsMove, RunInv, Holds, Runs!Status

LEMMA ClaimMove ==
  ASSUME AskInv, RunInv, NEW i \in Investigator, NEW r \in Run,
         Runs!ClaimRun(r, Me(i))
  PROVE  RunsMove(i)
<1>1. /\ status[r] = "queued" /\ call' = call
      /\ \/ /\ status' = [status EXCEPT ![r] = "running"]
            /\ attempt' = [attempt EXCEPT ![r] = @ + 1]
         \/ /\ status' = [status EXCEPT ![r] = "failed"]
            /\ attempt' = attempt
  BY DEF Runs!ClaimRun, Runs!Claimed, Runs!Exhausted
<1> QED
  BY <1>1 DEF RunsMove, RunInv, Holds, AskInv, Asks, Runs!Status, Runs!Terminal

LEMMA CallMove ==
  ASSUME AskInv, RunInv, NEW i \in Investigator, mpc[i] # "off",
         UNCHANGED <<status, attempt>>,
         \E record : /\ DOMAIN record = CallFields
                     /\ call' = [call EXCEPT ![Me(i)] = record]
  PROVE  RunsMove(i)
<1>1. \A j \in Investigator \ {i} : mpc[j] = "closing" =>
         Me(j) \in Worker /\ Me(j) # Me(i)
  BY WorkerIs, WorkersDiffer
<1> QED
  BY <1>1 DEF RunsMove, RunInv, Holds

LEMMA CloseMove ==
  ASSUME AskInv, RunInv, NEW i \in Investigator, mpc[i] = "closing",
         Runs!CloseRun(Me(i))
  PROVE  /\ RunsMove(i)
         /\ status' = [status EXCEPT ![ask[i].run] = "completed"]
         /\ attempt' = attempt
         /\ Number(i) = attempt[ask[i].run]
<1>1. /\ call[Me(i)].claim.run = ask[i].run
      /\ call[Me(i)].op = "completed"
  BY DEF RunInv, Holds, Claiming
<1>2. Me(i) \in Worker /\ ask[i].run \in Run
  BY WorkerIs DEF AskInv, Asks
<1>3. /\ call[Me(i)].pc = "closing"
      /\ \A t \in Worker \ {Me(i)} : ~Runs!Holds(t, ask[i].run)
      /\ status' = [status EXCEPT ![ask[i].run] = "completed"]
      /\ attempt' = attempt
      /\ call' = [call EXCEPT ![Me(i)].pc = "returned"]
  BY <1>1 DEF Runs!CloseRun, Runs!Becomes
<1>4. status[ask[i].run] = "running" /\ Number(i) = attempt[ask[i].run]
  BY <1>3 DEF RunInv, Holds
<1>5. ASSUME NEW j \in Investigator \ {i}, mpc[j] = "closing"
      PROVE  /\ call'[Me(j)] = call[Me(j)]
             /\ call[Me(j)].pc = "closing" => /\ ask[j].run # ask[i].run
                                              /\ status[ask[j].run] = "running"
  <2>1. Me(j) \in Worker /\ Me(j) # Me(i)
    BY <1>5, WorkerIs, WorkersDiffer
  <2>2. call[Me(j)].claim.run = ask[j].run
    BY <1>5 DEF RunInv, Holds, Claiming
  <2>3. call[Me(j)].pc = "closing" => Runs!Holds(Me(j), ask[j].run)
    BY <2>2 DEF Runs!Holds, Runs!InTx, Runs!InTxPc
  <2> QED
    BY <1>3, <1>5, <2>1, <2>3 DEF RunInv, Holds
<1>6. DOMAIN call' = Worker /\ \A s \in Worker : DOMAIN call'[s] = CallFields
  BY <1>3 DEF RunInv
<1> QED
  BY <1>2, <1>3, <1>4, <1>5, <1>6 DEF RunsMove, RunInv, Runs!Status, Runs!Terminal

Places == Claiming \cup {"off", "creating", "claiming", "sweeping", "reading"}

\* What a step of i has to show; the other commands keep what holds of them.
LEMMA OthersKeep ==
  ASSUME AskInv, RunInv, NEW i \in Investigator, RunsMove(i),
         mpc' \in [Investigator -> Places],
         commands' \in [Investigator -> 0..MaxCommands],
         DOMAIN ask' = Investigator, DOMAIN inputs' = Run, incidents' = incidents,
         \A j \in Investigator \ {i} : /\ mpc'[j] = mpc[j] /\ ask'[j] = ask[j]
                                       /\ commands'[j] = commands[j],
         \A r \in Run : status[r] # "absent" => inputs'[r] = inputs[r],
         \A r \in Run : status'[r] # "absent" => InputRow(inputs'[r]),
         Asks(i)', Holds(i)',
         mpc'[i] \in Claiming =>
            \A j \in Investigator \ {i} :
               (mpc[j] \in Claiming /\ ask[j].run = ask'[i].run) =>
                  Number(j) # Number(i)'
  PROVE  AskInv' /\ RunInv'
<1>1. ASSUME NEW j \in Investigator \ {i}
      PROVE  Asks(j)'
  <2>1. Asks(j)
    BY DEF AskInv
  <2> QED
    BY <2>1 DEF Asks, RunsMove, Concerns, InputOf
<1>2. ASSUME NEW j \in Investigator \ {i}
      PROVE  Holds(j)'
  <2>1. Holds(j) /\ (mpc[j] # "off" => ask[j].run \in Run)
    BY DEF AskInv, Asks, RunInv
  <2>2. Me(j)' = Me(j) /\ Number(j)' = Number(j)
    BY DEF Me, Number
  <2>3. mpc[j] # "off" => attempt[ask[j].run] \in Nat /\ attempt'[ask[j].run] \in Nat
    BY <2>1 DEF RunInv, RunsMove
  <2> QED
    BY <2>1, <2>2, <2>3 DEF Holds, RunsMove, Claiming
<1>3. ASSUME NEW r \in Run, NEW j \in Claimants(r)', NEW k \in Claimants(r)',
             Number(j)' = Number(k)'
      PROVE  j = k
  <2>1. \A n \in Investigator \ {i} : Number(n)' = Number(n)
    BY DEF Number
  <2>2. \A n \in Claimants(r)' \ {i} : n \in Claimants(r) /\ n \in Investigator
    BY DEF Claimants
  <2>3. CASE j = i /\ k # i
    BY <1>3, <2>1, <2>2, <2>3 DEF Claimants
  <2>4. CASE k = i /\ j # i
    BY <1>3, <2>1, <2>2, <2>4 DEF Claimants
  <2>5. CASE j # i /\ k # i
    BY <1>3, <2>1, <2>2, <2>5 DEF RunInv
  <2> QED
    BY <2>3, <2>4, <2>5
<1>4. AskInv'
  BY <1>1 DEF AskInv, Places
<1>5. RunInv'
  BY <1>2, <1>3 DEF RunInv, RunsMove
<1> QED
  BY <1>4, <1>5

\* A command that is over leaves its rows to the others.
LEMMA LeavingKeeps ==
  ASSUME AskInv, RunInv, NEW i \in Investigator, RunsMove(i), Gone(i),
         UNCHANGED <<commands, inputs, incidents>>,
         \A r \in Run : status'[r] # "absent" => status[r] # "absent"
  PROVE  AskInv' /\ RunInv'
<1>1. /\ mpc' \in [Investigator -> Places] /\ mpc'[i] = "off"
      /\ DOMAIN ask' = Investigator /\ ask'[i] = None
      /\ \A j \in Investigator \ {i} : mpc'[j] = mpc[j] /\ ask'[j] = ask[j]
  BY DEF Gone, MGoes, AskInv, Places
<1>2. Asks(i)' /\ Holds(i)'
  BY <1>1 DEF Asks, Holds, Claiming
<1>3. \A r \in Run : status'[r] # "absent" => InputRow(inputs'[r])
  BY DEF AskInv
<1>4. /\ commands' \in [Investigator -> 0..MaxCommands] /\ DOMAIN inputs' = Run
  BY DEF AskInv
<1> QED
  BY <1>1, <1>2, <1>3, <1>4, OthersKeep DEF Claiming

\* A command that goes on asks what it asked.
LEMMA GoingKeeps ==
  ASSUME AskInv, RunInv, NEW i \in Investigator, RunsMove(i),
         NEW to \in Places \ {"off", "creating"}, mpc[i] \notin {"off", "creating"},
         MGoes(i, to), UNCHANGED <<commands, inputs, incidents>>,
         DOMAIN ask' = Investigator,
         \A j \in Investigator \ {i} : ask'[j] = ask[j],
         DOMAIN ask'[i] = AskFields,
         \A field \in {"incident", "scope", "run", "asOf"} :
            ask'[i][field] = ask[i][field],
         to \notin Claiming => ask'[i].claim = None,
         \A r \in Run : status'[r] # "absent" => status[r] # "absent",
         Holds(i)',
         to \in Claiming =>
            \A j \in Investigator \ {i} :
               (mpc[j] \in Claiming /\ ask[j].run = ask'[i].run) =>
                  Number(j) # Number(i)'
  PROVE  AskInv' /\ RunInv'
<1>1. /\ mpc' \in [Investigator -> Places] /\ mpc'[i] = to
      /\ \A j \in Investigator \ {i} : mpc'[j] = mpc[j]
  BY DEF MGoes, AskInv, Places
<1>2. /\ ask'[i].incident = ask[i].incident /\ ask'[i].scope = ask[i].scope
      /\ ask'[i].run = ask[i].run /\ ask'[i].asOf = ask[i].asOf
  OBVIOUS
<1>3. Asks(i)'
  <2>1. InputOf(i)' = InputOf(i) /\ (Concerns(ask[i].incident, ask[i].scope))' =
           Concerns(ask[i].incident, ask[i].scope)
    BY <1>2 DEF InputOf, Concerns
  <2> QED
    BY <1>1, <1>2, <2>1 DEF Asks, AskInv, RunsMove
<1>4. \A r \in Run : status'[r] # "absent" => InputRow(inputs'[r])
  BY DEF AskInv
<1>5. /\ commands' \in [Investigator -> 0..MaxCommands] /\ DOMAIN inputs' = Run
  BY DEF AskInv
<1> QED
  BY <1>1, <1>3, <1>4, <1>5, OthersKeep

LEMMA AskKeeps ==
  ASSUME IntakeIds, AskInv, RunInv, NEW i \in Investigator, NEW s, NEW e,
         NEW x \in incidents, NEW r \in {DefaultRun(x.id)} \cup NamedRun,
         Ask(i, s, e, x.id, r)
  PROVE  AskInv' /\ RunInv'
<1> DEFINE scope == [service |-> ServiceOf(tables, [service |-> s, environment |-> e]),
                     environment |->
                        EnvironmentOf(tables, [service |-> s, environment |-> e])]
<1>1. r \in Run
  BY DEF IntakeIds, Run
<1>2. /\ mpc[i] = "off" /\ commands[i] < MaxCommands
      /\ Concerns(x.id, scope)
      /\ status[r] # "absent" => Matches(inputs[r], x.id, scope)
      /\ status[r] \notin {"failed", "waiting_human"}
      /\ commands' = [commands EXCEPT ![i] = @ + 1]
      /\ MGoes(i, To(r))
      /\ ask' = [ask EXCEPT ![i] =
            [incident |-> x.id, scope |-> scope, run |-> r,
             asOf |-> IF status[r] = "absent" THEN <<i, commands[i] + 1>>
                                              ELSE inputs[r].asOf,
             claim |-> None, state |-> <<>>]]
      /\ UNCHANGED <<startAll, inputs, thread, answers, reports, runVars>>
  BY DEF Ask
<1>3. UNCHANGED <<incidents, status, attempt, call>>
  BY <1>2 DEF startAll, startVars, runVars
<1>4. /\ To(r) \in {"creating", "claiming", "sweeping", "reading"}
      /\ To(r) # "creating" => status[r] # "absent"
      /\ To(r) = "reading" => status[r] = "completed"
  <2>1. status[r] \in {"absent", "queued", "running", "completed"}
    BY <1>1, <1>2 DEF RunInv, Runs!Status, Runs!Terminal
  <2> QED
    BY <2>1 DEF To
<1> DEFINE row == ask'[i]
<1>5. /\ mpc' \in [Investigator -> Places] /\ mpc'[i] = To(r)
      /\ DOMAIN ask' = Investigator
      /\ \A j \in Investigator \ {i} : /\ mpc'[j] = mpc[j] /\ ask'[j] = ask[j]
                                       /\ commands'[j] = commands[j]
  BY <1>2, <1>4 DEF AskInv, MGoes, Places
<1>6. /\ commands' \in [Investigator -> 0..MaxCommands] /\ commands'[i] >= 1
  BY <1>2, MaxCommandsAssumption DEF AskInv
<1>7. /\ row = [incident |-> x.id, scope |-> scope, run |-> r,
                asOf |-> IF status[r] = "absent" THEN <<i, commands[i] + 1>>
                                                 ELSE inputs[r].asOf,
                claim |-> None, state |-> <<>>]
  BY <1>2 DEF AskInv
<1> HIDE DEF scope
<1>8. Asks(i)'
  <2>1. Concerns(ask[i].incident, ask[i].scope)'
    BY <1>2, <1>3, <1>7 DEF Concerns
  <2>2. status[r] # "absent" => inputs'[r] = InputOf(i)'
    <3>1. status[r] # "absent" => /\ InputRow(inputs[r])
                                  /\ inputs[r].incident = x.id
                                  /\ inputs[r].service = scope.service
                                  /\ inputs[r].environment = scope.environment
      BY <1>1, <1>2 DEF AskInv, Matches
    <3> QED
      BY <1>2, <1>7, <3>1 DEF InputOf, InputRow
  <2>3. DOMAIN row = AskFields /\ row.run = r /\ row.claim = None
    BY <1>7 DEF AskFields
  <2> QED
    BY <1>1, <1>3, <1>4, <1>5, <1>6, <2>1, <2>2, <2>3 DEF Asks, Claiming
<1>9. Holds(i)'
  BY <1>3, <1>4, <1>5, <1>7 DEF Holds, Claiming
<1>10. RunsMove(i) /\ UNCHANGED inputs
  BY <1>2, <1>3, QuietMove
<1> QED
  BY <1>3, <1>4, <1>5, <1>6, <1>8, <1>9, <1>10, OthersKeep DEF AskInv, Claiming

LEMMA CreateKeeps ==
  ASSUME AskInv, RunInv, NEW i \in Investigator, CreateRun(i)
  PROVE  AskInv' /\ RunInv'
<1> DEFINE r == ask[i].run
<1>1. /\ mpc[i] = "creating" /\ Asks(i) /\ Holds(i) /\ r \in Run
      /\ UNCHANGED <<incidents, commands>>
  BY DEF CreateRun, AskInv, RunInv, Asks, startAll, startVars
<1>2. CASE status[r] = "absent"
  <2>1. /\ Runs!CreateRun(r)
        /\ inputs' = [inputs EXCEPT ![r] = InputOf(i)]
        /\ MGoes(i, "claiming") /\ UNCHANGED ask
    BY <1>2 DEF CreateRun
  <2>2. RunsMove(i) /\ status' = [status EXCEPT ![r] = "queued"]
    BY <1>1, <2>1, CreateMove DEF Runs!CreateRun
  <2>3. /\ mpc' \in [Investigator -> Places] /\ mpc'[i] = "claiming"
        /\ \A j \in Investigator \ {i} : mpc'[j] = mpc[j]
    BY <2>1 DEF AskInv, MGoes, Places
  <2>4. InputOf(i)' = InputOf(i) /\ InputRow(InputOf(i))
    BY <2>1 DEF InputOf, InputRow
  <2>5. /\ DOMAIN inputs' = Run /\ inputs'[r] = InputOf(i)
        /\ \A q \in Run \ {r} : inputs'[q] = inputs[q] /\ status'[q] = status[q]
        /\ status'[r] = "queued"
    BY <1>1, <2>1, <2>2 DEF AskInv, RunInv
  <2>6. Asks(i)'
    <3>1. Concerns(ask[i].incident, ask[i].scope)'
      BY <1>1, <2>1 DEF Asks, Concerns
    <3> QED
      BY <1>1, <2>1, <2>3, <2>4, <2>5, <3>1 DEF Asks, Claiming
  <2>7. Holds(i)'
    BY <2>3 DEF Holds, Claiming
  <2>8. \A q \in Run : /\ status[q] # "absent" => inputs'[q] = inputs[q]
                       /\ status'[q] # "absent" => InputRow(inputs'[q])
    BY <1>2, <2>4, <2>5 DEF AskInv
  <2> QED
    BY <1>1, <2>1, <2>2, <2>3, <2>5, <2>6, <2>7, <2>8, OthersKeep
    DEF AskInv, Claiming
<1>3. CASE status[r] # "absent"
  <2>1. Gone(i) /\ UNCHANGED <<inputs, runVars>>
    BY <1>3 DEF CreateRun
  <2>2. UNCHANGED <<status, attempt, call>>
    BY <2>1 DEF runVars
  <2> QED
    BY <1>1, <2>1, <2>2, QuietMove, LeavingKeeps
<1> QED
  BY <1>2, <1>3

LEMMA SweepKeeps ==
  ASSUME AskInv, RunInv, NEW i \in Investigator, Sweep(i)
  PROVE  /\ AskInv' /\ RunInv' /\ attempt' = attempt
         /\ Gone(i) \/ (MGoes(i, "claiming") /\ UNCHANGED ask)
<1>1. /\ mpc[i] = "sweeping" /\ Asks(i) /\ ask[i].run \in Run
      /\ UNCHANGED <<incidents, commands, inputs>>
      /\ Runs!SweepExpired \/ UNCHANGED runVars
      /\ Gone(i) \/ (MGoes(i, "claiming") /\ UNCHANGED ask)
  BY DEF Sweep, AskInv, Asks, startAll, startVars
<1>2. RunsMove(i) /\ attempt' = attempt
  BY <1>1, SweepMove, QuietMove DEF runVars, Runs!SweepExpired
<1>3. \A r \in Run : status'[r] # "absent" => status[r] # "absent"
  BY <1>1 DEF runVars, Runs!SweepExpired, Runs!Sweepable
<1>4. CASE Gone(i)
  BY <1>1, <1>2, <1>3, <1>4, LeavingKeeps
<1>5. CASE MGoes(i, "claiming") /\ UNCHANGED ask
  <2>1. Holds(i)'
    BY <1>5 DEF Holds, Claiming, MGoes, AskInv
  <2>2. "claiming" \in Places \ {"off", "creating"} /\ "claiming" \notin Claiming
    BY DEF Places, Claiming
  <2> QED
    BY <1>1, <1>2, <1>3, <1>5, <2>1, <2>2, GoingKeeps DEF AskInv, Asks, Claiming
<1> QED
  BY <1>1, <1>2, <1>4, <1>5

\* A statement of the graph's leaves the runs table and the claim alone.
LEMMA WorkKeeps ==
  ASSUME AskInv, RunInv, NEW i \in Investigator, mpc[i] \in Claiming,
         NEW to \in {"working", "worked", "putting"}, MGoes(i, to),
         UNCHANGED <<startAll, commands, inputs, runVars>>,
         UNCHANGED ask \/ \E v : ask' = [ask EXCEPT ![i].state = v]
  PROVE  AskInv' /\ RunInv'
<1>1. RunsMove(i) /\ UNCHANGED <<incidents, status, attempt, call>>
  BY QuietMove DEF startAll, startVars, runVars
<1>2. Asks(i) /\ Holds(i) /\ DOMAIN ask = Investigator
  BY DEF AskInv, RunInv
<1>3. mpc[i] \notin {"off", "creating"}
  BY DEF Claiming
<1>4. /\ DOMAIN ask' = Investigator
      /\ \A j \in Investigator \ {i} : ask'[j] = ask[j]
      /\ DOMAIN ask'[i] = AskFields
      /\ \A field \in {"incident", "scope", "run", "asOf", "claim"} :
            ask'[i][field] = ask[i][field]
  BY <1>2, <1>3 DEF Asks, AskFields
<1>5. mpc'[i] = to /\ ask'[i].claim = ask[i].claim /\ ask'[i].run = ask[i].run
  BY <1>4 DEF MGoes, AskInv
<1>6. Holds(i)'
  BY <1>1, <1>2, <1>5 DEF Holds, Number, Claiming
<1>7. \A j \in Investigator \ {i} :
         (mpc[j] \in Claiming /\ ask[j].run = ask'[i].run) => Number(j) # Number(i)'
  <2>1. Number(i)' = Number(i) /\ ask[i].run \in Run
    BY <1>2, <1>3, <1>5 DEF Number, Asks
  <2> QED
    BY <1>5, <2>1 DEF RunInv, Claimants
<1>8. to \in Places \ {"off", "creating"} /\ to \in Claiming
  BY DEF Places, Claiming
<1> QED
  BY <1>1, <1>3, <1>4, <1>6, <1>7, <1>8, GoingKeeps

\* The claim that a statement hands out is numbered after all there were.
LEMMA ClaimIs ==
  ASSUME AskInv, RunInv, NEW i \in Investigator, ClaimRun(i), ~Gone(i)
  PROVE  LET r == ask[i].run IN
         /\ status[r] = "queued" /\ attempt' = [attempt EXCEPT ![r] = @ + 1]
         /\ MGoes(i, "claimed")
         /\ ask' = [ask EXCEPT ![i].claim =
                      [run |-> r, worker |-> Me(i), attempt |-> attempt[r] + 1]]
<1> DEFINE r == ask[i].run
           new == [run |-> r, worker |-> Me(i), attempt |-> attempt[r] + 1]
<1>1. /\ IF status[r] = "queued" THEN Runs!ClaimRun(r, Me(i)) ELSE UNCHANGED runVars
      /\ \E c \in claims' \ claims : c.run = r
      /\ MGoes(i, "claimed")
      /\ ask' = [ask EXCEPT ![i].claim = CHOOSE c \in claims' \ claims : TRUE]
  BY DEF ClaimRun
<1>2. status[r] = "queued" /\ Runs!ClaimRun(r, Me(i))
  BY <1>1 DEF runVars
<1>3. claims' # claims
  BY <1>1
<1>4. /\ attempt' = [attempt EXCEPT ![r] = @ + 1]
      /\ claims' = claims \cup {new}
  BY <1>2, <1>3 DEF Runs!ClaimRun, Runs!Claimed, Runs!Exhausted
<1> HIDE DEF new
<1>5. claims' \ claims = {new}
  BY <1>1, <1>4
<1>6. (CHOOSE c \in claims' \ claims : TRUE) = new
  BY <1>5
<1> QED
  BY <1>1, <1>2, <1>4, <1>6 DEF new

LEMMA ClaimKeeps ==
  ASSUME AskInv, RunInv, NEW i \in Investigator, ClaimRun(i)
  PROVE  AskInv' /\ RunInv' /\ RunsMove(i)
<1> DEFINE r == ask[i].run
<1>1. /\ mpc[i] = "claiming" /\ Asks(i) /\ r \in Run
      /\ UNCHANGED <<incidents, commands, inputs>>
  BY DEF ClaimRun, AskInv, Asks, startAll, startVars
<1>2. RunsMove(i)
  BY <1>1, QuietMove, ClaimMove DEF ClaimRun, runVars
<1>3. \A q \in Run : status'[q] # "absent" => status[q] # "absent"
  <2>1. CASE status[r] = "queued"
    <3>1. \E to : status' = [status EXCEPT ![r] = to]
      BY <2>1 DEF ClaimRun, Runs!ClaimRun, Runs!Claimed, Runs!Exhausted
    <3> QED
      BY <2>1, <3>1 DEF RunInv
  <2>2. CASE status[r] # "queued"
    BY <2>2 DEF ClaimRun, runVars
  <2> QED
    BY <2>1, <2>2
<1>4. CASE Gone(i)
  BY <1>1, <1>2, <1>3, <1>4, LeavingKeeps
<1>5. CASE ~Gone(i)
  <2> DEFINE new == [run |-> r, worker |-> Me(i), attempt |-> attempt[r] + 1]
  <2>1. /\ attempt' = [attempt EXCEPT ![r] = @ + 1]
        /\ MGoes(i, "claimed")
        /\ ask' = [ask EXCEPT ![i].claim = new]
    BY <1>5, ClaimIs
  <2>2. new.run = r /\ new.attempt = attempt[r] + 1
    OBVIOUS
  <2> HIDE DEF new
  <2>3. /\ DOMAIN ask' = Investigator
        /\ \A j \in Investigator \ {i} : ask'[j] = ask[j]
        /\ DOMAIN ask'[i] = AskFields /\ ask'[i].claim = new
        /\ \A field \in {"incident", "scope", "run", "asOf"} :
              ask'[i][field] = ask[i][field]
    BY <1>1, <2>1 DEF AskInv, Asks, AskFields
  <2>4. Number(i)' = attempt[r] + 1 /\ ask'[i].run = r
    BY <2>2, <2>3 DEF Number
  <2>5. attempt[r] \in Nat /\ attempt'[r] = attempt[r] + 1
    BY <1>1, <2>1 DEF RunInv
  <2>6. Holds(i)'
    BY <2>1, <2>2, <2>3, <2>4, <2>5 DEF Holds, MGoes, AskInv, Claiming
  <2>7. \A j \in Investigator \ {i} :
           (mpc[j] \in Claiming /\ ask[j].run = ask'[i].run) =>
              Number(j) # Number(i)'
    BY <2>4, <2>5 DEF RunInv, Holds
  <2>8. "claimed" \in Places \ {"off", "creating"} /\ "claimed" \in Claiming
    BY DEF Places, Claiming
  <2> QED
    BY <1>1, <1>2, <1>3, <2>1, <2>3, <2>6, <2>7, <2>8, GoingKeeps
<1> QED
  BY <1>2, <1>4, <1>5

LEMMA GoneKeeps ==
  ASSUME AskInv, RunInv, NEW i \in Investigator, Gone(i),
         UNCHANGED <<startAll, commands, inputs, runVars>>
  PROVE  AskInv' /\ RunInv'
<1>1. UNCHANGED <<incidents, status, attempt, call>>
  BY DEF startAll, startVars, runVars
<1> QED
  BY <1>1, QuietMove, LeavingKeeps

LEMMA GraphKeeps ==
  ASSUME AskInv, RunInv, NEW i \in Investigator,
         \/ OpenThread(i) \/ (\E v \in Found : Superstep(i, v))
         \/ AssertOwner(i) \/ Put(i)
  PROVE  AskInv' /\ RunInv'
<1>1. CASE OpenThread(i)
  <2>1. mpc[i] \in Claiming /\ UNCHANGED <<startAll, commands, inputs, runVars>>
    BY <1>1 DEF OpenThread, Claiming
  <2>2. \E v, to : /\ to \in {"working", "worked"} /\ MGoes(i, to)
                  /\ ask' = [ask EXCEPT ![i].state = v]
    BY <1>1 DEF OpenThread, Opens
  <2> QED
    BY <2>1, <2>2, WorkKeeps
<1>2. ASSUME NEW v \in Found, Superstep(i, v)
      PROVE  AskInv' /\ RunInv'
  <2>1. mpc[i] \in Claiming /\ UNCHANGED <<startAll, commands, inputs, runVars>>
    BY <1>2 DEF Superstep, Claiming
  <2>2. \/ Gone(i)
        \/ ask' = [ask EXCEPT ![i].state = Append(ask[i].state, v)]
           /\ MGoes(i, "worked")
    BY <1>2 DEF Superstep, AskInv
  <2> QED
    BY <2>1, <2>2, GoneKeeps, WorkKeeps
<1>3. CASE AssertOwner(i)
  <2>1. mpc[i] \in Claiming /\ UNCHANGED <<startAll, commands, inputs, runVars>>
    BY <1>3 DEF AssertOwner, Claiming
  <2>2. Gone(i) \/ (UNCHANGED ask /\ MGoes(i, "putting"))
    BY <1>3 DEF AssertOwner
  <2> QED
    BY <2>1, <2>2, GoneKeeps, WorkKeeps
<1>4. CASE Put(i)
  BY <1>4, WorkKeeps DEF Put, Claiming
<1> QED
  BY <1>1, <1>2, <1>3, <1>4

LEMMA BeginKeeps ==
  ASSUME AskInv, RunInv, NEW i \in Investigator, BeginComplete(i)
  PROVE  AskInv' /\ RunInv'
<1> DEFINE r == ask[i].run
<1>1. /\ mpc[i] = "working" /\ Asks(i) /\ Holds(i) /\ r \in Run
      /\ Me(i) \in Worker /\ UNCHANGED <<incidents, commands, inputs, ask>>
      /\ MGoes(i, "closing") /\ UNCHANGED <<status, owner, lease, attempt>>
  BY WorkerIs
  DEF BeginComplete, AskInv, RunInv, Asks, startAll, startVars, Runs!BeginClose,
      Runs!runVars
<1> DEFINE record == [pc |-> IF Runs!Fence(ask[i].claim) THEN "closing" ELSE "refused",
                      op |-> "completed", claim |-> ask[i].claim, key |-> None,
                      input |-> None, value |-> None]
<1>2. call' = [call EXCEPT ![Me(i)] = record]
  BY DEF BeginComplete, Runs!BeginClose
<1>3. /\ DOMAIN record = CallFields /\ record.op = "completed"
      /\ record.claim = ask[i].claim /\ record.pc \in {"closing", "refused"}
      /\ record.pc = "closing" => Runs!Fence(ask[i].claim)
  BY DEF CallFields
<1> HIDE DEF record
<1>4. RunsMove(i)
  BY <1>1, <1>2, <1>3, CallMove
<1>5. /\ call'[Me(i)] = record /\ Me(i)' = Me(i) /\ Number(i)' = Number(i)
      /\ mpc'[i] = "closing"
  BY <1>1, <1>2 DEF RunInv, Me, Number, MGoes, AskInv
<1>6. Holds(i)'
  BY <1>1, <1>3, <1>5 DEF Holds, Claiming, Runs!Fence, Number
<1>7. \A j \in Investigator \ {i} :
         (mpc[j] \in Claiming /\ ask[j].run = ask'[i].run) => Number(j) # Number(i)'
  BY <1>1, <1>5 DEF RunInv, Claimants, Claiming
<1>8. "closing" \in Places \ {"off", "creating"} /\ "closing" \in Claiming
  BY DEF Places, Claiming
<1> QED
  BY <1>1, <1>4, <1>6, <1>7, <1>8, GoingKeeps DEF AskInv, Asks

LEMMA CompleteKeeps ==
  ASSUME AskInv, RunInv, NEW i \in Investigator, Complete(i)
  PROVE  /\ AskInv' /\ RunInv' /\ attempt' = attempt
         /\ \/ Gone(i) /\ UNCHANGED status
            \/ /\ MGoes(i, "closed") /\ UNCHANGED ask
               /\ status' = [status EXCEPT ![ask[i].run] = "completed"]
               /\ Number(i) = attempt[ask[i].run]
<1> DEFINE r == ask[i].run
<1>1. /\ mpc[i] = "closing" /\ Asks(i) /\ Holds(i) /\ r \in Run
      /\ Me(i) \in Worker /\ UNCHANGED <<incidents, commands, inputs>>
  BY WorkerIs DEF Complete, AskInv, RunInv, Asks, startAll, startVars
<1>2. CASE Runs!CloseRun(Me(i)) /\ MGoes(i, "closed") /\ UNCHANGED ask
  <2>1. /\ RunsMove(i)
        /\ status' = [status EXCEPT ![r] = "completed"]
        /\ attempt' = attempt /\ Number(i) = attempt[r]
    BY <1>1, <1>2, CloseMove
  <2>2. mpc'[i] = "closed" /\ Number(i)' = Number(i) /\ status'[r] = "completed"
    BY <1>1, <1>2, <2>1 DEF MGoes, AskInv, Number, RunInv
  <2>3. Holds(i)'
    BY <1>1, <1>2, <2>1, <2>2 DEF Holds, Claiming
  <2>4. \A q \in Run : status'[q] # "absent" => status[q] # "absent"
    BY <1>1, <2>1 DEF Asks, RunInv
  <2>5. \A j \in Investigator \ {i} :
         (mpc[j] \in Claiming /\ ask[j].run = ask'[i].run) => Number(j) # Number(i)'
    BY <1>1, <1>2, <2>2 DEF RunInv, Claimants, Claiming
  <2>6. "closed" \in Places \ {"off", "creating"} /\ "closed" \in Claiming
    BY DEF Places, Claiming
  <2> QED
    BY <1>1, <1>2, <2>1, <2>3, <2>4, <2>5, <2>6, GoingKeeps DEF AskInv, Asks
<1>3. CASE Runs!RecordRejection(Me(i)) /\ Gone(i)
  <2>1. /\ UNCHANGED <<status, attempt>>
        /\ call' = [call EXCEPT ![Me(i)].pc = "stale"]
    BY <1>3 DEF Runs!RecordRejection, Runs!Becomes, Runs!runVars
  <2>2. call' = [call EXCEPT ![Me(i)] = [call[Me(i)] EXCEPT !.pc = "stale"]]
    BY <1>1, <2>1
  <2>3. DOMAIN [call[Me(i)] EXCEPT !.pc = "stale"] = CallFields
    BY <1>1 DEF RunInv
  <2>4. RunsMove(i)
    BY <1>1, <2>1, <2>2, <2>3, CallMove
  <2> QED
    BY <1>1, <1>3, <2>1, <2>4, LeavingKeeps
<1> QED
  BY <1>2, <1>3 DEF Complete

LEMMA EndKeeps ==
  ASSUME AskInv, RunInv, NEW i \in Investigator,
         Report(i) \/ Reread(i) \/ DieInvestigating(i)
  PROVE  /\ AskInv' /\ RunInv' /\ Gone(i)
         /\ UNCHANGED <<status, attempt, thread, answers>>
<1>1. CASE Report(i) \/ Reread(i)
  BY <1>1, GoneKeeps DEF Report, Reread, runVars
<1>2. CASE DieInvestigating(i)
  <2>1. /\ mpc[i] # "off" /\ Gone(i) /\ Me(i) \in Worker
        /\ UNCHANGED <<startAll, commands, inputs, thread, answers>>
    BY <1>2, WorkerIs DEF DieInvestigating
  <2>2. CASE UNCHANGED runVars
    BY <2>1, <2>2, GoneKeeps DEF runVars
  <2>3. CASE Runs!RollBack(Me(i))
    <3>1. /\ UNCHANGED <<status, attempt>>
          /\ call' = [call EXCEPT ![Me(i)].pc = "aborted"]
      BY <2>3 DEF Runs!RollBack, Runs!Becomes, Runs!runVars
    <3>2. call' = [call EXCEPT ![Me(i)] = [call[Me(i)] EXCEPT !.pc = "aborted"]]
      BY <3>1
    <3>3. DOMAIN [call[Me(i)] EXCEPT !.pc = "aborted"] = CallFields
      BY <2>1 DEF RunInv
    <3>4. RunsMove(i)
      BY <2>1, <3>1, <3>2, <3>3, CallMove
    <3>5. UNCHANGED incidents
      BY <2>1 DEF startAll, startVars
    <3> QED
      BY <2>1, <3>1, <3>4, <3>5, LeavingKeeps
  <2> QED
    BY <1>2, <2>2, <2>3 DEF DieInvestigating
<1> QED
  BY <1>1, <1>2

LEMMA LeaseKeeps ==
  ASSUME AskInv, RunInv, NEW r \in Run, LeaseExpires(r)
  PROVE  AskInv' /\ RunInv' /\ UNCHANGED <<status, attempt, ownVars>>
<1>1. UNCHANGED <<incidents, status, attempt, call, mpc, ask, commands, inputs>>
  BY DEF LeaseExpires, Runs!LeaseExpires, startAll, startVars, ownVars
<1>2. AskInv'
  BY <1>1 DEF AskInv, Asks, InputOf, Concerns
<1>3. RunInv'
  BY <1>1 DEF RunInv, Holds, Claimants, Number, Me
<1> QED
  BY <1>1, <1>2, <1>3 DEF LeaseExpires

-----------------------------------------------------------------------------
(* The threads. *)

\* What a reader of a thread gets is some attempt's last checkpoint.
LEMMA LatestIs ==
  ASSUME NEW r, NEW s \in Latest(r)
  PROVE  \E x \in thread[r] : /\ s = x.state
                              /\ \A y \in thread[r] :
                                    y.by = x.by => Len(y.state) <= Len(x.state)
BY DEF Latest

\* A command that has a claim has a run, and its graph fits.
LEMMA AllFit ==
  ASSUME AskInv, RunInv, ThreadInv, NEW i \in Investigator, mpc[i] \in Claiming
  PROVE  /\ ask[i].run \in Run /\ DOMAIN ask[i] = AskFields
         /\ mpc[i] \in Opened => /\ Fits(i) /\ ask[i].state \in Seq(Found)
                                 /\ Depth(i) \in Nat
BY DEF AskInv, Asks, Claiming, ThreadInv, Fits, Prefix, Depth

LEMMA OpenFits ==
  ASSUME AskInv, RunInv, ThreadInv, NEW i \in Investigator, OpenThread(i)
  PROVE  ThreadInv'
<1> DEFINE r == ask[i].run
<1>1. /\ mpc[i] = "claimed" /\ r \in Run /\ DOMAIN ask[i] = AskFields
      /\ UNCHANGED <<thread, answers>>
  BY AllFit DEF OpenThread, Claiming
<1>2. ASSUME NEW s, NEW to \in {"worked", "working"}, Opens(i, s, to),
             Prefix(s, answers[r]),
             to = "working" => \E y \in thread[r] : Len(y.state) = Len(s)
      PROVE  ThreadInv'
  <2>1. /\ mpc'[i] = to /\ ask'[i].run = r /\ ask'[i].state = s
        /\ \A j \in Investigator \ {i} : ask'[j] = ask[j]
    BY <1>1, <1>2 DEF Opens, MGoes, AskInv, AskFields
  <2>2. Fits(i)'
    BY <1>1, <1>2, <2>1 DEF Fits, Depth, Pending
  <2> QED
    BY <1>1, <1>2, <2>1, <2>2, ThreadsGrow DEF Opens, ThreadInv
<1>3. CASE Opens(i, <<>>, "worked")
  <2>1. answers[r] \in Seq(Found)
    BY <1>1 DEF ThreadInv
  <2>2. Prefix(<<>>, answers[r])
    BY <2>1 DEF Prefix
  <2> QED
    BY <1>2, <1>3, <2>2
<1>4. ASSUME NEW s \in Latest(r), Opens(i, s, "working")
      PROVE  ThreadInv'
  <2>1. PICK x \in thread[r] : s = x.state
    BY LatestIs
  <2> QED
    BY <1>1, <1>2, <1>4, <2>1 DEF ThreadInv
<1> QED
  BY <1>3, <1>4 DEF OpenThread

LEMMA AnswersGrow ==
  ASSUME NEW s \in Seq(Found), NEW v \in Found
  PROVE  /\ Append(s, v) \in Seq(Found)
         /\ Prefix(s, Append(s, v)) /\ Prefix(Append(s, v), Append(s, v))
         /\ \A t : Prefix(t, s) => Prefix(t, Append(s, v))
BY DEF Prefix

LEMMA PrefixGrows ==
  ASSUME NEW t \in Seq(Found), NEW s, Prefix(s, t), NEW v \in Found,
         \/ Len(s) + 1 \in DOMAIN t /\ v = t[Len(s) + 1]
  PROVE  Prefix(Append(s, v), t)
BY DEF Prefix

LEMMA PrefixesGrow ==
  ASSUME NEW t \in Seq(Found), NEW s, Prefix(s, t), Len(s) = Len(t), NEW v \in Found
  PROVE  Prefix(Append(s, v), Append(t, v))
<1>1. /\ Append(s, v) \in Seq(Found) /\ Append(t, v) \in Seq(Found)
      /\ Len(Append(s, v)) = Len(s) + 1 /\ Len(Append(t, v)) = Len(s) + 1
  BY DEF Prefix
<1>2. ASSUME NEW k \in 1..(Len(s) + 1)
      PROVE  Append(s, v)[k] = Append(t, v)[k]
  <2>1. CASE k = Len(s) + 1
    BY <2>1 DEF Prefix
  <2>2. CASE k \in 1..Len(s)
    BY <2>2 DEF Prefix
  <2> QED
    BY <2>1, <2>2 DEF Prefix
<1> QED
  BY <1>1, <1>2 DEF Prefix

\* A superstep reads what is committed for it or adds to what is.
LEMMA SuperstepGrows ==
  ASSUME AskInv, RunInv, ThreadInv, NEW i \in Investigator,
         NEW v \in Found, Superstep(i, v)
  PROVE  /\ answers' \in [Run -> Seq(Found)]
         /\ \A q \in Run : \A s : Prefix(s, answers[q]) => Prefix(s, answers'[q])
         /\ Runs!Fence(ask[i].claim) =>
               Prefix(Append(ask[i].state, v), answers'[ask[i].run])
<1> DEFINE r == ask[i].run
           n == Len(ask[i].state) + 1
<1>1. mpc[i] = "working"
  BY DEF Superstep
<1>2. /\ r \in Run /\ answers[r] \in Seq(Found) /\ Prefix(ask[i].state, answers[r])
      /\ ask[i].state \in Seq(Found)
  BY <1>1, AllFit DEF Claiming, Opened, Fits, ThreadInv
<1>3. CASE UNCHANGED answers /\ (Runs!Fence(ask[i].claim) =>
              n \in DOMAIN answers[r] /\ v = answers[r][n])
  BY <1>2, <1>3, PrefixGrows DEF ThreadInv
<1>4. CASE n \notin DOMAIN answers[r] /\ answers' = [answers EXCEPT ![r] = Append(@, v)]
  <2>1. /\ answers'[r] = Append(answers[r], v)
        /\ \A q \in Run \ {r} : answers'[q] = answers[q]
    BY <1>2, <1>4 DEF ThreadInv
  <2>2. /\ answers'[r] \in Seq(Found)
        /\ \A t : Prefix(t, answers[r]) => Prefix(t, answers'[r])
    BY <1>2, <2>1, AnswersGrow
  <2>3. Len(ask[i].state) = Len(answers[r])
    BY <1>2, <1>4 DEF Prefix
  <2>4. Prefix(Append(ask[i].state, v), Append(answers[r], v))
    BY <1>2, <2>3, PrefixesGrow
  <2> QED
    BY <1>2, <1>4, <2>1, <2>2, <2>4 DEF ThreadInv
<1> QED
  BY <1>3, <1>4 DEF Superstep

LEMMA SuperstepFits ==
  ASSUME AskInv, RunInv, ThreadInv, NEW i \in Investigator,
         NEW v \in Found, Superstep(i, v)
  PROVE  ThreadInv'
<1>1. /\ mpc[i] = "working" /\ UNCHANGED thread
      /\ ask[i].run \in Run /\ DOMAIN ask[i] = AskFields
  BY AllFit DEF Superstep, Claiming
<1>2. CASE ~Runs!Fence(ask[i].claim)
  BY <1>1, <1>2, ThreadsRest DEF Superstep, Gone, Opened, Claiming, AskInv
<1>3. CASE Runs!Fence(ask[i].claim)
  <2>1. ask' = [ask EXCEPT ![i].state = Append(@, v)] /\ MGoes(i, "worked")
    BY <1>3 DEF Superstep
  <2>2. /\ mpc'[i] = "worked" /\ ask'[i].run = ask[i].run
        /\ ask'[i].state = Append(ask[i].state, v)
        /\ \A j \in Investigator \ {i} : ask'[j] = ask[j]
    BY <1>1, <2>1 DEF MGoes, AskInv, AskFields
  <2>3. Fits(i)'
    BY <1>3, <2>2, SuperstepGrows DEF Fits, Pending
  <2> QED
    BY <1>1, <2>1, <2>2, <2>3, SuperstepGrows, ThreadsGrow DEF ThreadInv
<1> QED
  BY <1>2, <1>3

\* What fits goes on fitting when the command takes a step of the same kind.
LEMMA SameFits ==
  ASSUME AskInv, RunInv, ThreadInv, NEW i \in Investigator,
         mpc[i] \in Opened, NEW to \in Opened, MGoes(i, to),
         to \in Pending <=> mpc[i] \in Pending,
         to \in {"closing", "closed"} => Depth(i) = Supersteps,
         UNCHANGED <<ask, thread, answers>>
  PROVE  ThreadInv'
<1>1. Fits(i) /\ mpc'[i] = to
  BY DEF ThreadInv, MGoes, AskInv
<1>2. Fits(i)'
  BY <1>1 DEF Fits, Depth
<1> QED
  BY <1>2, ThreadsGrow DEF ThreadInv

LEMMA PutFits ==
  ASSUME AskInv, RunInv, ThreadInv, NEW i \in Investigator, Put(i)
  PROVE  ThreadInv'
<1> DEFINE r == ask[i].run
           c == Checkpoint(i)
<1>1. /\ mpc[i] = "putting" /\ MGoes(i, "working")
      /\ thread' = [thread EXCEPT ![r] = @ \cup {c}]
      /\ UNCHANGED <<ask, answers>> /\ r \in Run /\ Fits(i)
      /\ c.state = ask[i].state
  BY AllFit DEF Put, Checkpoint, Claiming, Opened
<1> HIDE DEF c
<1>2. /\ DOMAIN thread' = Run /\ thread'[r] = thread[r] \cup {c}
      /\ \A q \in Run \ {r} : thread'[q] = thread[q]
  BY <1>1 DEF ThreadInv
<1>3. Prefix(c.state, answers[r]) /\ Len(c.state) = Depth(i)
  BY <1>1 DEF Fits, Depth
<1>4. mpc'[i] = "working"
  BY <1>1 DEF MGoes, AskInv
<1>5. Fits(i)'
  BY <1>1, <1>2, <1>3, <1>4 DEF Fits, Depth
<1> QED
  BY <1>1, <1>2, <1>3, <1>5, ThreadsGrow DEF ThreadInv

-----------------------------------------------------------------------------
(* Every step of a command. *)

LEMMA StepKeepsThreads ==
  ASSUME IntakeIds, AskInv, RunInv, ThreadInv,
         NEW i \in Investigator, CommandStep(i)
  PROVE  AskInv' /\ RunInv' /\ ThreadInv'
<1>1. ASSUME NEW s \in Service, NEW e \in Environment, NEW x \in incidents,
             NEW r \in {DefaultRun(x.id)} \cup NamedRun, Ask(i, s, e, x.id, r)
      PROVE  AskInv' /\ RunInv' /\ ThreadInv'
  <2>1. AskInv' /\ RunInv'
    BY <1>1, AskKeeps
  <2>2. /\ \A j \in Investigator \ {i} : ask'[j] = ask[j]
        /\ UNCHANGED <<thread, answers>>
        /\ MGoes(i, To(r))
    BY <1>1 DEF Ask, AskInv
  <2>3. r \in Run /\ status[r] \in {"absent", "queued", "running", "completed"}
    BY <1>1 DEF Ask, IntakeIds, Run, RunInv, Runs!Status, Runs!Terminal
  <2>4. To(r) \notin Opened
    BY <2>3 DEF To, Opened, Claiming
  <2> QED
    BY <2>1, <2>2, <2>4, ThreadsRest
<1>2. CASE CreateRun(i)
  <2>1. \E to \in {"claiming", "off"} : MGoes(i, to)
    BY <1>2 DEF CreateRun, Gone
  <2>2. /\ \A j \in Investigator \ {i} : ask'[j] = ask[j]
        /\ UNCHANGED <<thread, answers>>
    BY <1>2 DEF CreateRun, Gone, AskInv
  <2> QED
    BY <1>2, <2>1, <2>2, CreateKeeps, ThreadsRest DEF Opened, Claiming
<1>3. CASE Sweep(i)
  <2>1. \E to \in {"claiming", "off"} : MGoes(i, to)
    BY <1>3 DEF Sweep, Gone
  <2>2. /\ \A j \in Investigator \ {i} : ask'[j] = ask[j]
        /\ UNCHANGED <<thread, answers>>
    BY <1>3 DEF Sweep, Gone, AskInv
  <2> QED
    BY <1>3, <2>1, <2>2, SweepKeeps, ThreadsRest DEF Opened, Claiming
<1>4. CASE ClaimRun(i)
  <2>1. \E to \in {"claimed", "off"} : MGoes(i, to)
    BY <1>4 DEF ClaimRun, Gone
  <2>2. /\ \A j \in Investigator \ {i} : ask'[j] = ask[j]
        /\ UNCHANGED <<thread, answers>>
    BY <1>4 DEF ClaimRun, Gone, AskInv
  <2> QED
    BY <1>4, <2>1, <2>2, ClaimKeeps, ThreadsRest DEF Opened, Claiming
<1>5. CASE OpenThread(i)
  BY <1>5, GraphKeeps, OpenFits
<1>6. ASSUME NEW v \in Found, Superstep(i, v)
      PROVE  AskInv' /\ RunInv' /\ ThreadInv'
  BY <1>6, GraphKeeps, SuperstepFits
<1>7. CASE AssertOwner(i)
  <2>1. AskInv' /\ RunInv' /\ UNCHANGED <<thread, answers>> /\ mpc[i] = "worked"
    BY <1>7, GraphKeeps DEF AssertOwner
  <2>2. CASE Gone(i)
    BY <2>1, <2>2, ThreadsRest DEF Gone, Opened, Claiming, AskInv
  <2>3. CASE MGoes(i, "putting") /\ UNCHANGED ask
    BY <2>1, <2>3, SameFits DEF Opened, Pending, Claiming
  <2> QED
    BY <1>7, <2>1, <2>2, <2>3 DEF AssertOwner
<1>8. CASE Put(i)
  BY <1>8, GraphKeeps, PutFits
<1>9. CASE BeginComplete(i)
  <2>1. /\ mpc[i] = "working" /\ MGoes(i, "closing") /\ Depth(i) = Supersteps
        /\ UNCHANGED <<ask, thread, answers>>
    BY <1>9 DEF BeginComplete, Depth
  <2> QED
    BY <1>9, <2>1, BeginKeeps, SameFits DEF Opened, Pending, Claiming
<1>10. CASE Complete(i)
  <2>1. /\ AskInv' /\ RunInv' /\ UNCHANGED <<thread, answers>>
        /\ Gone(i) \/ (MGoes(i, "closed") /\ UNCHANGED ask)
        /\ mpc[i] = "closing"
    BY <1>10, CompleteKeeps DEF Complete
  <2>2. CASE Gone(i)
    BY <2>1, <2>2, ThreadsRest DEF Gone, Opened, Claiming, AskInv
  <2>3. CASE MGoes(i, "closed") /\ UNCHANGED ask
    <3>1. Depth(i) = Supersteps
      BY <2>1, AllFit DEF Fits, Opened, Claiming
    <3> QED
      BY <2>1, <2>3, <3>1, SameFits DEF Opened, Pending, Claiming
  <2> QED
    BY <2>1, <2>2, <2>3
<1>11. CASE Report(i) \/ Reread(i) \/ DieInvestigating(i)
  BY <1>11, EndKeeps, ThreadsRest DEF Gone, Opened, Claiming, AskInv
<1> QED
  BY <1>1, <1>2, <1>3, <1>4, <1>5, <1>6, <1>7, <1>8, <1>9, <1>10, <1>11
  DEF CommandStep

\* Nothing but complete() makes a run completed, and nothing makes it less or
\* hands out a claim of it again.
LEMMA CompletedStays ==
  ASSUME AskInv, RunInv, NEW i \in Investigator, CommandStep(i), ~Complete(i),
         NEW r \in Run
  PROVE  /\ status'[r] = "completed" <=> status[r] = "completed"
         /\ status[r] = "completed" => attempt'[r] = attempt[r]
<1>1. CASE CreateRun(i)
  <2>1. /\ UNCHANGED attempt
        /\ UNCHANGED status \/ /\ status[ask[i].run] = "absent"
                               /\ status' = [status EXCEPT ![ask[i].run] = "queued"]
    BY <1>1 DEF CreateRun, Runs!CreateRun, runVars
  <2> QED
    BY <2>1 DEF RunInv
<1>2. CASE Sweep(i)
  BY <1>2 DEF Sweep, Runs!SweepExpired, Runs!Sweepable, runVars
<1>3. CASE ClaimRun(i)
  <2>1. \/ UNCHANGED <<status, attempt>>
        \/ /\ status[ask[i].run] = "queued"
           /\ \E to \in {"running", "failed"} :
                 status' = [status EXCEPT ![ask[i].run] = to]
           /\ UNCHANGED attempt \/ attempt' = [attempt EXCEPT ![ask[i].run] = @ + 1]
    BY <1>3 DEF ClaimRun, Runs!ClaimRun, Runs!Claimed, Runs!Exhausted, runVars
  <2> QED
    BY <2>1 DEF RunInv
<1>4. CASE Report(i) \/ Reread(i) \/ DieInvestigating(i)
  BY <1>4, EndKeeps
<1>5. CASE BeginComplete(i)
  BY <1>5 DEF BeginComplete, Runs!BeginClose, Runs!runVars
<1>6. ASSUME NEW s \in Service, NEW e \in Environment, NEW x \in incidents,
             NEW q \in {DefaultRun(x.id)} \cup NamedRun, Ask(i, s, e, x.id, q)
      PROVE  UNCHANGED <<status, attempt>>
  BY <1>6 DEF Ask, runVars
<1>7. ASSUME NEW v \in Found, Superstep(i, v)
      PROVE  UNCHANGED <<status, attempt>>
  BY <1>7 DEF Superstep, runVars
<1>8. CASE OpenThread(i) \/ AssertOwner(i) \/ Put(i)
  BY <1>8 DEF OpenThread, AssertOwner, Put, runVars
<1> QED
  BY <1>1, <1>2, <1>3, <1>4, <1>5, <1>6, <1>7, <1>8 DEF CommandStep

\* What a step of a command does not write.
LEMMA StepFrame ==
  ASSUME NEW i \in Investigator, CommandStep(i)
  PROVE  /\ UNCHANGED startAll
         /\ Put(i) \/ UNCHANGED thread
         /\ (\E v \in Found : Superstep(i, v)) \/ UNCHANGED answers
         /\ Report(i) \/ Reread(i) \/ UNCHANGED reports
<1>1. ASSUME NEW s \in Service, NEW e \in Environment, NEW x \in incidents,
             NEW r \in {DefaultRun(x.id)} \cup NamedRun, Ask(i, s, e, x.id, r)
      PROVE  UNCHANGED <<startAll, thread, answers, reports>>
  BY <1>1 DEF Ask
<1>2. ASSUME NEW v \in Found, Superstep(i, v)
      PROVE  UNCHANGED <<startAll, thread, reports>>
  BY <1>2 DEF Superstep
<1>3. CASE CreateRun(i) \/ Sweep(i) \/ ClaimRun(i) \/ OpenThread(i)
           \/ AssertOwner(i) \/ BeginComplete(i) \/ Complete(i)
           \/ DieInvestigating(i)
  BY <1>3 DEF CreateRun, Sweep, ClaimRun, OpenThread, AssertOwner,
              BeginComplete, Complete, DieInvestigating
<1>4. CASE Put(i)
  BY <1>4 DEF Put
<1>5. CASE Report(i) \/ Reread(i)
  BY <1>5 DEF Report, Reread
<1> QED
  BY <1>1, <1>2, <1>3, <1>4, <1>5 DEF CommandStep

\* Checkpoints stay, and so does what was committed.
LEMMA StepGrows ==
  ASSUME AskInv, RunInv, ThreadInv, NEW i \in Investigator, CommandStep(i),
         NEW r \in Run
  PROVE  /\ thread[r] \subseteq thread'[r]
         /\ \A s : Prefix(s, answers[r]) => Prefix(s, answers'[r])
<1>1. thread[r] \subseteq thread'[r]
  BY StepFrame DEF Put, ThreadInv
<1>2. \A s : Prefix(s, answers[r]) => Prefix(s, answers'[r])
  BY StepFrame, SuperstepGrows
<1> QED
  BY <1>1, <1>2

\* What is printed now is told of a completed run, as it should be.
LEMMA Told ==
  ASSUME AskInv, RunInv, ThreadInv, ReportInv, NEW i \in Investigator,
         Report(i) \/ Reread(i), NEW x \in reports' \ reports
  PROVE  /\ x.run \in Run
         /\ status[x.run] = "completed"
         /\ Prefix(x.state, answers[x.run])
         /\ x.by # None => Len(x.state) = Supersteps /\ x.by = attempt[x.run]
         /\ Len(x.state) < Supersteps =>
               \E y, z \in thread[x.run] : y.by # z.by
<1> DEFINE r == ask[i].run
<1>1. CASE Report(i)
  <2>1. /\ mpc[i] = "closed" /\ Holds(i) /\ Fits(i) /\ r \in Run
        /\ x = [run |-> r, state |-> ask[i].state, by |-> Number(i)]
    BY <1>1, AllFit DEF Report, Prints, RunInv, Claiming, Opened, Number
  <2>2. x.run = r /\ x.state = ask[i].state /\ x.by = Number(i)
    BY <2>1
  <2>3. /\ status[r] = "completed" /\ Number(i) = attempt[r]
        /\ Prefix(ask[i].state, answers[r]) /\ Len(ask[i].state) = Supersteps
    BY <2>1 DEF Holds, Fits, Depth
  <2> QED
    BY <2>1, <2>2, <2>3, SuperstepsAssumption
<1>2. CASE Reread(i)
  <2>1. /\ mpc[i] = "reading" /\ r \in Run /\ Holds(i)
        /\ \E s \in Latest(r) : x = [run |-> r, state |-> s, by |-> None]
    BY <1>2 DEF Reread, Prints, AskInv, Asks, RunInv
  <2>2. x.run = r /\ x.by = None /\ x.state \in Latest(r)
    BY <2>1
  <2>3. PICK y \in thread[r] : /\ x.state = y.state
                               /\ \A z \in thread[r] :
                                     z.by = y.by => Len(z.state) <= Len(y.state)
    BY <2>2, LatestIs
  <2>4. status[r] = "completed"
    BY <2>1 DEF Holds
  <2>5. PICK w \in thread[r] : Len(w.state) = Supersteps
    BY <2>1, <2>4 DEF ReportInv
  <2>6. Prefix(y.state, answers[r]) /\ Len(y.state) \in Nat
    BY <2>1 DEF ThreadInv, Prefix
  <2>7. Len(y.state) < Supersteps => w.by # y.by
    BY <2>3, <2>5, <2>6, SuperstepsAssumption
  <2> QED
    BY <2>1, <2>2, <2>3, <2>4, <2>6, <2>7
<1> QED
  BY <1>1, <1>2

LEMMA StepKeepsReports ==
  ASSUME AskInv, RunInv, ThreadInv, ReportInv, NEW i \in Investigator, CommandStep(i)
  PROVE  ReportInv'
<1> DEFINE r0 == ask[i].run
<1>1. \A r \in Run : /\ thread[r] \subseteq thread'[r]
                     /\ \A s : Prefix(s, answers[r]) => Prefix(s, answers'[r])
  BY StepGrows
<1>2. CASE Complete(i)
  <2>1. /\ UNCHANGED reports /\ mpc[i] = "closing" /\ attempt' = attempt
        /\ UNCHANGED status \/ status' = [status EXCEPT ![r0] = "completed"]
    BY <1>2, CompleteKeeps DEF Complete
  <2>2. /\ r0 \in Run /\ Depth(i) = Supersteps
        /\ \E y \in thread[r0] : Len(y.state) = Depth(i)
    BY <2>1, AllFit DEF Fits, Opened, Pending, Claiming
  <2>3. \A r \in Run : /\ status[r] = "completed" => status'[r] = "completed"
                       /\ status'[r] = "completed" => status[r] = "completed" \/ r = r0
    BY <2>1 DEF RunInv
  <2>4. \A r \in Run : status'[r] = "completed" =>
           \E y \in thread'[r] : Len(y.state) = Supersteps
    BY <1>1, <2>2, <2>3 DEF ReportInv
  <2>5. \A x \in reports : /\ x.run \in Run
                           /\ status'[x.run] = "completed"
                           /\ Prefix(x.state, answers'[x.run])
                           /\ x.by # None => /\ Len(x.state) = Supersteps
                                             /\ x.by = attempt'[x.run]
                           /\ Len(x.state) < Supersteps =>
                                 \E y, z \in thread'[x.run] : y.by # z.by
    BY <1>1, <2>1, <2>3 DEF ReportInv
  <2> QED
    BY <2>1, <2>4, <2>5 DEF ReportInv
<1>3. CASE ~Complete(i)
  <2>1. \A r \in Run : /\ status'[r] = "completed" <=> status[r] = "completed"
                       /\ status[r] = "completed" => attempt'[r] = attempt[r]
    BY <1>3, CompletedStays
  <2>2. \A r \in Run : status'[r] = "completed" =>
           \E y \in thread'[r] : Len(y.state) = Supersteps
    BY <1>1, <2>1 DEF ReportInv
  <2>3. ASSUME NEW x \in reports'
        PROVE  /\ x.run \in Run
               /\ status[x.run] = "completed"
               /\ Prefix(x.state, answers[x.run])
               /\ x.by # None => Len(x.state) = Supersteps /\ x.by = attempt[x.run]
               /\ Len(x.state) < Supersteps =>
                     \E y, z \in thread[x.run] : y.by # z.by
    <3>1. CASE x \in reports
      BY <3>1 DEF ReportInv
    <3>2. CASE x \notin reports
      BY <2>3, <3>2, StepFrame, Told
    <3> QED
      BY <3>1, <3>2
  <2>4. ASSUME NEW x \in reports'
        PROVE  /\ x.run \in Run
               /\ status'[x.run] = "completed"
               /\ Prefix(x.state, answers'[x.run])
               /\ x.by # None => Len(x.state) = Supersteps /\ x.by = attempt'[x.run]
               /\ Len(x.state) < Supersteps =>
                     \E y, z \in thread'[x.run] : y.by # z.by
    BY <1>1, <2>1, <2>3
  <2> QED
    BY <2>2, <2>4 DEF ReportInv
<1> QED
  BY <1>2, <1>3

InvestigateInv ==
    IntakeIds /\ AskInv /\ RunInv /\ ThreadInv /\ ReportInv

LEMMA InvestigateStart == StartInit /\ NoInvestigation => InvestigateInv
BY IntakeIdsStart, CommandsStart DEF InvestigateInv

LEMMA InvestigateNextInv ==
  ASSUME InvestigateInv,
         [\/ InvestigateNext
          \/ StartNext /\ UNCHANGED commandVars]_investigateAll
  PROVE  InvestigateInv'
<1> USE DEF InvestigateInv
<1>1. ASSUME NEW i \in Investigator, CommandStep(i)
      PROVE  InvestigateInv'
  <2>1. IntakeIds'
    BY <1>1, StepFrame, IntakeIdsNext
  <2>2. AskInv' /\ RunInv' /\ ThreadInv'
    BY <1>1, StepKeepsThreads
  <2> QED
    BY <1>1, <2>1, <2>2, StepKeepsReports
<1>2. ASSUME NEW r \in Run, LeaseExpires(r)
      PROVE  InvestigateInv'
  <2>1. UNCHANGED <<startAll, status, attempt, ownVars>> /\ AskInv' /\ RunInv'
    BY <1>2, LeaseKeeps DEF LeaseExpires
  <2>2. IntakeIds'
    BY <2>1, IntakeIdsNext
  <2>3. ThreadInv' /\ ReportInv'
    BY <2>1, StillThreads
  <2> QED
    BY <2>1, <2>2, <2>3
<1>3. CASE (StartNext /\ UNCHANGED commandVars) \/ UNCHANGED investigateAll
  <2>1. [StartNext]_startAll /\ UNCHANGED commandVars
    BY <1>3 DEF investigateAll
  <2>2. IntakeIds' /\ incidents \subseteq incidents'
    BY <2>1, IntakeIdsNext
  <2> QED
    BY <2>1, <2>2, BesideCommands
<1> QED
  BY <1>1, <1>2, <1>3 DEF InvestigateNext

LEMMA InvestigationsHold == InvestigateSpec => []InvestigateInv
<1>1. StartInit /\ NoInvestigation => InvestigateInv
  BY InvestigateStart
<1>2. InvestigateInv
      /\ [InvestigateNext \/ (StartNext /\ UNCHANGED commandVars)]_investigateAll
      => InvestigateInv'
  BY InvestigateNextInv
<1> QED
  BY <1>1, <1>2, PTL DEF InvestigateSpec

-----------------------------------------------------------------------------
(* Applies: where an entity of the manifest is.                            *)

ServiceIn(r, o, s) == s \in r.services /\ s.name = o.service

ScopeIn(r, o, s, e) ==
    /\ ServiceIn(r, o, s)
    /\ e \in r.environments /\ e.service = s.id /\ e.name = o.environment

\* The entity that o creates is in the registry.
InPlace(r, o) ==
    \/ o.kind = "addService" /\ \E s : ServiceIn(r, o, s)
    \/ o.kind = "addEnvironment" /\ \E s, e : ScopeIn(r, o, s, e)
    \/ /\ o.kind = "addCredentialRef"
       /\ \E s, e : /\ ScopeIn(r, o, s, e)
                    /\ \E x \in r.credentialRefs : x.environment = e.id /\ x.name = o.name
    \/ /\ o.kind = "addSourceBinding"
       /\ \E s, e : /\ ScopeIn(r, o, s, e)
                    /\ \E x \in r.sourceBindings : x.environment = e.id /\ x.name = o.name
    \/ /\ o.kind = "setActionPolicy"
       /\ \E s, e : /\ ScopeIn(r, o, s, e)
                    /\ \E x \in r.actionPolicies : x.environment = e.id

LEMMA IdOfOne ==
    ASSUME NEW rows, NEW x \in rows, \A y \in rows : y = x
    PROVE  IdOf(rows) = x.id
BY DEF IdOf

LEMMA IdOfSome ==
    ASSUME NEW rows, IdOf(rows) # Unknown
    PROVE  \E x \in rows : IdOf(rows) = x.id
BY DEF IdOf

LEMMA ServiceIs ==
    ASSUME NEW r \in Snapshot, Valid(r), NEW o, NEW s, ServiceIn(r, o, s)
    PROVE  ServiceOf(r, o) = s.id
<1> DEFINE rows == {x \in r.services : x.name = o.service}
<1>1. s \in rows /\ \A y \in rows : y = s
  BY DEF ServiceIn, Valid, Constraints, Unique
<1>2. IdOf(rows) = s.id
  BY <1>1, IdOfOne
<1> QED
  BY <1>2 DEF ServiceOf

LEMMA ScopeIs ==
    ASSUME NEW r \in Snapshot, Valid(r), NEW o, NEW s, NEW e, ScopeIn(r, o, s, e)
    PROVE  ServiceOf(r, o) = s.id /\ EnvironmentOf(r, o) = e.id
<1>1. ServiceOf(r, o) = s.id
  BY ServiceIs DEF ScopeIn
<1> DEFINE rows == {x \in r.environments : /\ x.service = ServiceOf(r, o)
                                          /\ x.name = o.environment}
<1>2. e \in rows /\ \A y \in rows : y = e
  <2>1. \A x, y \in r.environments :
            <<x.service, x.name>> = <<y.service, y.name>> => x = y
    BY DEF Valid, Constraints, Unique
  <2> QED
    BY <1>1, <2>1 DEF ScopeIn
<1>3. IdOf(rows) = e.id
  BY <1>2, IdOfOne
<1> QED
  BY <1>1, <1>3 DEF EnvironmentOf

\* A resolved environment is a row.
LEMMA ScopeFound ==
    ASSUME NEW r \in Snapshot, Valid(r), NEW o, EnvironmentOf(r, o) # Unknown
    PROVE  \E s, e : ScopeIn(r, o, s, e) /\ e.id = EnvironmentOf(r, o)
<1> DEFINE rows == {x \in r.environments : /\ x.service = ServiceOf(r, o)
                                          /\ x.name = o.environment}
<1>1. PICK e \in rows : EnvironmentOf(r, o) = e.id
  BY IdOfSome DEF EnvironmentOf
<1>2. e \in r.environments /\ e.service = ServiceOf(r, o) /\ e.name = o.environment
  OBVIOUS
<1>3. e.service \in Ids(r.services) /\ Unknown \notin Ids(r.services)
  BY <1>2 DEF Valid, Constraints, Ids, Snapshot, Services, Id, Unknown
<1> DEFINE named == {x \in r.services : x.name = o.service}
<1>4. ServiceOf(r, o) = IdOf(named) /\ ServiceOf(r, o) # Unknown
  BY <1>2, <1>3 DEF ServiceOf
<1>5. PICK s \in named : IdOf(named) = s.id
  BY <1>4, IdOfSome
<1>6. ScopeIn(r, o, s, e)
  BY <1>2, <1>4, <1>5 DEF ScopeIn, ServiceIn
<1> QED
  BY <1>1, <1>6

LEMMA EnvironmentsFound ==
    ASSUME NEW r \in Snapshot, Valid(r)
    PROVE  /\ \A x \in r.credentialRefs : x.environment # Unknown
           /\ \A x \in r.sourceBindings : x.environment # Unknown
           /\ \A x \in r.actionPolicies : x.environment # Unknown
<1>1. Unknown \notin Ids(r.environments)
  BY DEF Ids, Snapshot, Environments, Id, Unknown
<1> QED
  BY <1>1 DEF Valid, Constraints

LEMMA ExistingIs ==
    ASSUME NEW r \in Snapshot, Valid(r), NEW o \in Operation
    PROVE  Existing(r, o) <=> InPlace(r, o)
<1>1. CASE o.kind = "addService"
  BY <1>1 DEF Existing, Conflict, InPlace, ServiceIn
<1>2. CASE o.kind = "addEnvironment"
  <2>1. InPlace(r, o) => EnvironmentOf(r, o) # Unknown
    BY <1>2, ScopeIs DEF InPlace, ScopeIn, Snapshot, Environments, Id, Unknown
  <2>2. EnvironmentOf(r, o) # Unknown => InPlace(r, o)
    BY <1>2, ScopeFound DEF InPlace
  <2> QED
    BY <1>2, <2>1, <2>2 DEF Existing, Conflict
<1> DEFINE e == EnvironmentOf(r, o)
<1>3. CASE o.kind = "addCredentialRef"
  <2> DEFINE rows == {x \in InScope(r.credentialRefs, e) : x.name = o.name}
  <2>1. RefOf(r, o, o.name) # Unknown <=> rows # {}
    <3>1. \A x \in rows : x.id # Unknown
      BY DEF InScope, Snapshot, CredentialRefs, Id, Unknown
    <3>2. IdOf(rows) # Unknown <=> rows # {}
      <4>1. CASE rows = {}
        BY <4>1 DEF IdOf
      <4>2. CASE rows # {}
        <5>1. (CHOOSE x \in rows : TRUE) \in rows
          BY <4>2
        <5> QED
          BY <3>1, <4>2, <5>1 DEF IdOf
      <4> QED
        BY <4>1, <4>2
    <3> QED
      BY <3>2 DEF RefOf
  <2>2. rows # {} => InPlace(r, o)
    <3> SUFFICES ASSUME NEW x \in rows PROVE InPlace(r, o)
      OBVIOUS
    <3>1. x \in r.credentialRefs /\ x.environment = e /\ x.name = o.name
      BY DEF InScope
    <3>2. \E s, f : ScopeIn(r, o, s, f) /\ f.id = e
      BY <3>1, ScopeFound, EnvironmentsFound
    <3> QED
      BY <1>3, <3>1, <3>2 DEF InPlace
  <2>3. InPlace(r, o) => rows # {}
    BY <1>3, ScopeIs DEF InPlace, InScope
  <2> QED
    BY <1>3, <2>1, <2>2, <2>3 DEF Existing, Conflict
<1>4. CASE o.kind = "addSourceBinding"
  <2>1. (\E x \in InScope(r.sourceBindings, e) : x.name = o.name) => InPlace(r, o)
    <3> SUFFICES ASSUME NEW x \in InScope(r.sourceBindings, e), x.name = o.name
                 PROVE  InPlace(r, o)
      OBVIOUS
    <3>1. x \in r.sourceBindings /\ x.environment = e
      BY DEF InScope
    <3>2. \E s, f : ScopeIn(r, o, s, f) /\ f.id = e
      BY <3>1, ScopeFound, EnvironmentsFound
    <3> QED
      BY <1>4, <3>1, <3>2 DEF InPlace
  <2>2. InPlace(r, o) => \E x \in InScope(r.sourceBindings, e) : x.name = o.name
    BY <1>4, ScopeIs DEF InPlace, InScope
  <2> QED
    BY <1>4, <2>1, <2>2 DEF Existing, Conflict
<1>5. CASE o.kind = "setActionPolicy"
  <2>1. Policy(r, o) # {} => InPlace(r, o)
    <3> SUFFICES ASSUME NEW x \in Policy(r, o) PROVE InPlace(r, o)
      OBVIOUS
    <3>1. x \in r.actionPolicies /\ x.environment = e
      BY DEF Policy, InScope
    <3>2. \E s, f : ScopeIn(r, o, s, f) /\ f.id = e
      BY <3>1, ScopeFound, EnvironmentsFound
    <3> QED
      BY <1>5, <3>1, <3>2 DEF InPlace
  <2>2. InPlace(r, o) => Policy(r, o) # {}
    BY <1>5, ScopeIs DEF InPlace, InScope, Policy
  <2> QED
    BY <1>5, <2>1, <2>2 DEF Existing, Conflict
<1>6. CASE o.kind \notin Additions \cup {"setActionPolicy"}
  BY <1>6 DEF Existing, Conflict, InPlace, Additions
<1> QED
  BY <1>1, <1>2, <1>3, <1>4, <1>5, <1>6 DEF Additions

-----------------------------------------------------------------------------
(* What an addition makes of the registry.                                 *)

Applied(r, o, id) == Changed(r, Outcome(r, o, id))

LEMMA NothingRemoved ==
    ASSUME NEW r \in Snapshot, NEW o, o.kind \notin Removal, NEW id
    PROVE  /\ Applied(r, o, id).services = r.services \cup Added(r, o, id).services
           /\ Applied(r, o, id).environments =
                 r.environments \cup Added(r, o, id).environments
           /\ Applied(r, o, id).credentialRefs =
                 r.credentialRefs \cup Added(r, o, id).credentialRefs
           /\ Applied(r, o, id).sourceBindings =
                 r.sourceBindings \cup Added(r, o, id).sourceBindings
           /\ Applied(r, o, id).actionPolicies =
                 {x \in r.actionPolicies : x.environment \notin ReplacedPolicies(r, o)}
                    \cup Added(r, o, id).actionPolicies
<1>1. RemovedServices(r, o) = {} /\ RemovedEnvironments(r, o) = {}
  BY DEF RemovedServices, RemovedEnvironments, Ids, Removal
<1> QED
  BY <1>1 DEF Applied, Changed, Outcome, Left

LEMMA AddsService ==
    ASSUME NEW r \in Snapshot, NEW o, o.kind = "addService", NEW id
    PROVE  /\ Applied(r, o, id).services = r.services \cup
                 {[id |-> id, name |-> o.service, aliases |-> o.aliases]}
           /\ Applied(r, o, id).environments = r.environments
           /\ Applied(r, o, id).credentialRefs = r.credentialRefs
           /\ Applied(r, o, id).sourceBindings = r.sourceBindings
           /\ Applied(r, o, id).actionPolicies = r.actionPolicies
<1>1. o.kind \notin Removal /\ ReplacedPolicies(r, o) = {}
  BY DEF Removal, ReplacedPolicies
<1> DEFINE row == [id |-> id, name |-> o.service, aliases |-> o.aliases]
           m == Added(r, o, id)
<1>2. m = [Empty EXCEPT !.services = {row}]
  BY DEF Added
<1> HIDE DEF m, row
<1>3. /\ m.services = {row}
      /\ m.environments = {}
      /\ m.credentialRefs = {}
      /\ m.sourceBindings = {}
      /\ m.actionPolicies = {}
  BY <1>2 DEF Empty
<1> DEFINE t == Applied(r, o, id)
<1>4. /\ t.services = r.services \cup m.services
      /\ t.environments = r.environments \cup m.environments
      /\ t.credentialRefs = r.credentialRefs \cup m.credentialRefs
      /\ t.sourceBindings = r.sourceBindings \cup m.sourceBindings
      /\ t.actionPolicies =
            {x \in r.actionPolicies : x.environment \notin ReplacedPolicies(r, o)}
               \cup m.actionPolicies
  BY <1>1, NothingRemoved DEF m
<1> HIDE DEF t
<1>5. /\ t.services = r.services \cup {row}
      /\ t.environments = r.environments
      /\ t.credentialRefs = r.credentialRefs
      /\ t.sourceBindings = r.sourceBindings
      /\ t.actionPolicies = r.actionPolicies
  BY <1>1, <1>3, <1>4
<1> QED
  BY <1>5 DEF t, row

LEMMA AddsEnvironment ==
    ASSUME NEW r \in Snapshot, NEW o, o.kind = "addEnvironment", NEW id
    PROVE  /\ Applied(r, o, id).services = r.services
           /\ Applied(r, o, id).environments = r.environments \cup
                 {[id |-> id, service |-> ServiceOf(r, o), name |-> o.environment]}
           /\ Applied(r, o, id).credentialRefs = r.credentialRefs
           /\ Applied(r, o, id).sourceBindings = r.sourceBindings
           /\ Applied(r, o, id).actionPolicies = r.actionPolicies
<1>1. o.kind \notin Removal /\ ReplacedPolicies(r, o) = {}
  BY DEF Removal, ReplacedPolicies
<1> DEFINE row == [id |-> id, service |-> ServiceOf(r, o), name |-> o.environment]
           m == Added(r, o, id)
<1>2. m = [Empty EXCEPT !.environments = {row}]
  BY DEF Added
<1> HIDE DEF m, row
<1>3. /\ m.services = {}
      /\ m.environments = {row}
      /\ m.credentialRefs = {}
      /\ m.sourceBindings = {}
      /\ m.actionPolicies = {}
  BY <1>2 DEF Empty
<1> DEFINE t == Applied(r, o, id)
<1>4. /\ t.services = r.services \cup m.services
      /\ t.environments = r.environments \cup m.environments
      /\ t.credentialRefs = r.credentialRefs \cup m.credentialRefs
      /\ t.sourceBindings = r.sourceBindings \cup m.sourceBindings
      /\ t.actionPolicies =
            {x \in r.actionPolicies : x.environment \notin ReplacedPolicies(r, o)}
               \cup m.actionPolicies
  BY <1>1, NothingRemoved DEF m
<1> HIDE DEF t
<1>5. /\ t.services = r.services
      /\ t.environments = r.environments \cup {row}
      /\ t.credentialRefs = r.credentialRefs
      /\ t.sourceBindings = r.sourceBindings
      /\ t.actionPolicies = r.actionPolicies
  BY <1>1, <1>3, <1>4
<1> QED
  BY <1>5 DEF t, row

LEMMA AddsCredentialRef ==
    ASSUME NEW r \in Snapshot, NEW o, o.kind = "addCredentialRef", NEW id
    PROVE  /\ Applied(r, o, id).services = r.services
           /\ Applied(r, o, id).environments = r.environments
           /\ Applied(r, o, id).credentialRefs = r.credentialRefs \cup
                 {[id |-> id, environment |-> EnvironmentOf(r, o), name |-> o.name,
                   access |-> o.access, secret |-> o.secret]}
           /\ Applied(r, o, id).sourceBindings = r.sourceBindings
           /\ Applied(r, o, id).actionPolicies = r.actionPolicies
<1>1. o.kind \notin Removal /\ ReplacedPolicies(r, o) = {}
  BY DEF Removal, ReplacedPolicies
<1> DEFINE row == [id |-> id, environment |-> EnvironmentOf(r, o), name |-> o.name,
            access |-> o.access, secret |-> o.secret]
           m == Added(r, o, id)
<1>2. m = [Empty EXCEPT !.credentialRefs = {row}]
  BY DEF Added
<1> HIDE DEF m, row
<1>3. /\ m.services = {}
      /\ m.environments = {}
      /\ m.credentialRefs = {row}
      /\ m.sourceBindings = {}
      /\ m.actionPolicies = {}
  BY <1>2 DEF Empty
<1> DEFINE t == Applied(r, o, id)
<1>4. /\ t.services = r.services \cup m.services
      /\ t.environments = r.environments \cup m.environments
      /\ t.credentialRefs = r.credentialRefs \cup m.credentialRefs
      /\ t.sourceBindings = r.sourceBindings \cup m.sourceBindings
      /\ t.actionPolicies =
            {x \in r.actionPolicies : x.environment \notin ReplacedPolicies(r, o)}
               \cup m.actionPolicies
  BY <1>1, NothingRemoved DEF m
<1> HIDE DEF t
<1>5. /\ t.services = r.services
      /\ t.environments = r.environments
      /\ t.credentialRefs = r.credentialRefs \cup {row}
      /\ t.sourceBindings = r.sourceBindings
      /\ t.actionPolicies = r.actionPolicies
  BY <1>1, <1>3, <1>4
<1> QED
  BY <1>5 DEF t, row

LEMMA AddsSourceBinding ==
    ASSUME NEW r \in Snapshot, NEW o, o.kind = "addSourceBinding", NEW id
    PROVE  /\ Applied(r, o, id).services = r.services
           /\ Applied(r, o, id).environments = r.environments
           /\ Applied(r, o, id).credentialRefs = r.credentialRefs
           /\ Applied(r, o, id).sourceBindings = r.sourceBindings \cup
                 {[id |-> id, environment |-> EnvironmentOf(r, o), name |-> o.name,
                   ref |-> IF o.ref = None THEN None ELSE RefOf(r, o, o.ref)]}
           /\ Applied(r, o, id).actionPolicies = r.actionPolicies
<1>1. o.kind \notin Removal /\ ReplacedPolicies(r, o) = {}
  BY DEF Removal, ReplacedPolicies
<1> DEFINE row == [id |-> id, environment |-> EnvironmentOf(r, o), name |-> o.name,
            ref |-> IF o.ref = None THEN None ELSE RefOf(r, o, o.ref)]
           m == Added(r, o, id)
<1>2. m = [Empty EXCEPT !.sourceBindings = {row}]
  BY DEF Added
<1> HIDE DEF m, row
<1>3. /\ m.services = {}
      /\ m.environments = {}
      /\ m.credentialRefs = {}
      /\ m.sourceBindings = {row}
      /\ m.actionPolicies = {}
  BY <1>2 DEF Empty
<1> DEFINE t == Applied(r, o, id)
<1>4. /\ t.services = r.services \cup m.services
      /\ t.environments = r.environments \cup m.environments
      /\ t.credentialRefs = r.credentialRefs \cup m.credentialRefs
      /\ t.sourceBindings = r.sourceBindings \cup m.sourceBindings
      /\ t.actionPolicies =
            {x \in r.actionPolicies : x.environment \notin ReplacedPolicies(r, o)}
               \cup m.actionPolicies
  BY <1>1, NothingRemoved DEF m
<1> HIDE DEF t
<1>5. /\ t.services = r.services
      /\ t.environments = r.environments
      /\ t.credentialRefs = r.credentialRefs
      /\ t.sourceBindings = r.sourceBindings \cup {row}
      /\ t.actionPolicies = r.actionPolicies
  BY <1>1, <1>3, <1>4
<1> QED
  BY <1>5 DEF t, row

LEMMA SetsPolicy ==
    ASSUME NEW r \in Snapshot, NEW o, o.kind = "setActionPolicy", NEW id
    PROVE  /\ Applied(r, o, id).services = r.services
           /\ Applied(r, o, id).environments = r.environments
           /\ Applied(r, o, id).credentialRefs = r.credentialRefs
           /\ Applied(r, o, id).sourceBindings = r.sourceBindings
           /\ Applied(r, o, id).actionPolicies =
                 {x \in r.actionPolicies : x.environment # EnvironmentOf(r, o)} \cup
                 {[id |-> id, environment |-> EnvironmentOf(r, o), allow |-> o.allow,
                   refs |-> {RefOf(r, o, name) : name \in o.refs}]}
<1>1. o.kind \notin Removal /\ ReplacedPolicies(r, o) = {EnvironmentOf(r, o)}
  BY DEF Removal, ReplacedPolicies
<1> DEFINE row == [id |-> id, environment |-> EnvironmentOf(r, o), allow |-> o.allow,
            refs |-> {RefOf(r, o, name) : name \in o.refs}]
           m == Added(r, o, id)
<1>2. m = [Empty EXCEPT !.actionPolicies = {row}]
  BY DEF Added
<1> HIDE DEF m, row
<1>3. /\ m.services = {}
      /\ m.environments = {}
      /\ m.credentialRefs = {}
      /\ m.sourceBindings = {}
      /\ m.actionPolicies = {row}
  BY <1>2 DEF Empty
<1> DEFINE t == Applied(r, o, id)
<1>4. /\ t.services = r.services \cup m.services
      /\ t.environments = r.environments \cup m.environments
      /\ t.credentialRefs = r.credentialRefs \cup m.credentialRefs
      /\ t.sourceBindings = r.sourceBindings \cup m.sourceBindings
      /\ t.actionPolicies =
            {x \in r.actionPolicies : x.environment \notin ReplacedPolicies(r, o)}
               \cup m.actionPolicies
  BY <1>1, NothingRemoved DEF m
<1> HIDE DEF t
<1>5. /\ t.services = r.services
      /\ t.environments = r.environments
      /\ t.credentialRefs = r.credentialRefs
      /\ t.sourceBindings = r.sourceBindings
      /\ t.actionPolicies =
            {x \in r.actionPolicies : x.environment # EnvironmentOf(r, o)} \cup {row}
  BY <1>1, <1>3, <1>4
<1> QED
  BY <1>5 DEF t, row

\* What is in place stays there, unless it is removed.
LEMMA InPlaceStays ==
    ASSUME NEW r \in Snapshot, NEW o, o.kind \notin Removal, NEW id,
           NEW p, InPlace(r, p)
    PROVE  InPlace(Applied(r, o, id), p)
<1> DEFINE t == Applied(r, o, id)
<1>1. /\ r.services \subseteq t.services /\ r.environments \subseteq t.environments
      /\ r.credentialRefs \subseteq t.credentialRefs
      /\ r.sourceBindings \subseteq t.sourceBindings
  BY NothingRemoved
<1>2. ASSUME NEW x \in r.actionPolicies
      PROVE  \E y \in t.actionPolicies : y.environment = x.environment
  <2>1. CASE o.kind = "setActionPolicy"
    <3> DEFINE y == [id |-> id, environment |-> EnvironmentOf(r, o), allow |-> o.allow,
                    refs |-> {RefOf(r, o, name) : name \in o.refs}]
    <3>1. /\ y \in t.actionPolicies
          /\ x.environment # EnvironmentOf(r, o) => x \in t.actionPolicies
      BY <2>1, SetsPolicy
    <3>2. y.environment = EnvironmentOf(r, o)
      OBVIOUS
    <3> QED
      BY <3>1, <3>2
  <2>2. CASE o.kind # "setActionPolicy"
    <3>1. ReplacedPolicies(r, o) = {}
      BY <2>2 DEF ReplacedPolicies
    <3> QED
      BY <3>1, NothingRemoved
  <2> QED
    BY <2>1, <2>2
<1> HIDE DEF t
<1>3. \A s, e : ScopeIn(r, p, s, e) => ScopeIn(t, p, s, e)
  BY <1>1 DEF ScopeIn, ServiceIn
<1>4. InPlace(t, p)
  <2>1. CASE p.kind = "setActionPolicy"
    BY <1>2, <1>3, <2>1 DEF InPlace
  <2>2. CASE p.kind # "setActionPolicy"
    BY <1>1, <1>3, <2>2 DEF InPlace, ServiceIn
  <2> QED
    BY <2>1, <2>2
<1> QED
  BY <1>4 DEF t

\* The ids of the rows are ids that mutations gave.
RowsAreIssued(r, n) ==
    /\ Ids(r.services) \subseteq 1..n /\ Ids(r.environments) \subseteq 1..n
    /\ Ids(r.credentialRefs) \subseteq 1..n /\ Ids(r.sourceBindings) \subseteq 1..n
    /\ Ids(r.actionPolicies) \subseteq 1..n

LEMMA RowsIssued ==
    ASSUME NEW r \in Snapshot, NEW o, o.kind \notin Removal, NEW n \in Nat,
           RowsAreIssued(r, n)
    PROVE  RowsAreIssued(Applied(r, o, n + 1), n + 1)
<1> DEFINE m == Added(r, o, n + 1)
           t == Applied(r, o, n + 1)
<1>1. \A x \in m.services \cup m.environments \cup m.credentialRefs
               \cup m.sourceBindings \cup m.actionPolicies : x.id = n + 1
  <2>1. CASE o.kind = "addService"
    BY <2>1 DEF Added, Empty
  <2>2. CASE o.kind = "addEnvironment"
    BY <2>2 DEF Added, Empty
  <2>3. CASE o.kind = "addCredentialRef"
    BY <2>3 DEF Added, Empty
  <2>4. CASE o.kind = "addSourceBinding"
    BY <2>4 DEF Added, Empty
  <2>5. CASE o.kind = "setActionPolicy"
    BY <2>5 DEF Added, Empty
  <2>6. CASE o.kind \notin Additions \cup {"setActionPolicy"}
    BY <2>6 DEF Added, Empty, Additions
  <2> QED
    BY <2>1, <2>2, <2>3, <2>4, <2>5, <2>6 DEF Additions
<1>2. 1..n \subseteq 1..(n + 1) /\ n + 1 \in 1..(n + 1)
  OBVIOUS
<1> HIDE DEF m
<1>3. /\ Ids(r.services \cup m.services) \subseteq 1..(n + 1)
      /\ Ids(r.environments \cup m.environments) \subseteq 1..(n + 1)
      /\ Ids(r.credentialRefs \cup m.credentialRefs) \subseteq 1..(n + 1)
      /\ Ids(r.sourceBindings \cup m.sourceBindings) \subseteq 1..(n + 1)
      /\ Ids(r.actionPolicies \cup m.actionPolicies) \subseteq 1..(n + 1)
  BY <1>1, <1>2 DEF RowsAreIssued, Ids
<1>4. /\ t.services = r.services \cup m.services
      /\ t.environments = r.environments \cup m.environments
      /\ t.credentialRefs = r.credentialRefs \cup m.credentialRefs
      /\ t.sourceBindings = r.sourceBindings \cup m.sourceBindings
      /\ t.actionPolicies \subseteq r.actionPolicies \cup m.actionPolicies
  BY NothingRemoved DEF m
<1> HIDE DEF t
<1>5. RowsAreIssued(t, n + 1)
  BY <1>3, <1>4 DEF RowsAreIssued, Ids
<1> QED
  BY <1>5 DEF t

\* The scope that a call names is there.
ScopeReady(r, o) ==
    /\ o.kind # "addService" => \E s : ServiceIn(r, o, s)
    /\ o.kind \notin {"addService", "addEnvironment"} => \E s, e : ScopeIn(r, o, s, e)

LEMMA NewInPlace ==
    ASSUME NEW r \in Snapshot, Valid(r), NEW o,
           o.kind \in Additions \cup {"setActionPolicy"}, ScopeReady(r, o), NEW id
    PROVE  InPlace(Applied(r, o, id), o)
<1> DEFINE t == Applied(r, o, id)
<1>1. CASE o.kind = "addService"
  <2>1. [id |-> id, name |-> o.service, aliases |-> o.aliases] \in t.services
    BY <1>1, AddsService
  <2> HIDE DEF t
  <2>2. InPlace(t, o)
    BY <1>1, <2>1 DEF InPlace, ServiceIn
  <2> QED
    BY <2>2 DEF t
<1>2. CASE o.kind = "addEnvironment"
  <2>1. PICK s : ServiceIn(r, o, s)
    BY <1>2 DEF ScopeReady
  <2> DEFINE e == [id |-> id, service |-> ServiceOf(r, o), name |-> o.environment]
  <2>2. e \in t.environments /\ e.service = s.id /\ s \in t.services
    BY <1>2, <2>1, ServiceIs, AddsEnvironment DEF ServiceIn
  <2>3. ScopeIn(t, o, s, e)
    BY <2>1, <2>2 DEF ScopeIn, ServiceIn
  <2> HIDE DEF t
  <2>4. InPlace(t, o)
    BY <1>2, <2>3 DEF InPlace
  <2> QED
    BY <2>4 DEF t
<1>3. CASE o.kind \in {"addCredentialRef", "addSourceBinding", "setActionPolicy"}
  <2>1. PICK s, e : ScopeIn(r, o, s, e)
    BY <1>3 DEF ScopeReady
  <2>2. EnvironmentOf(r, o) = e.id
    BY <2>1, ScopeIs
  <2>3. ScopeIn(t, o, s, e)
    BY <1>3, <2>1, AddsCredentialRef, AddsSourceBinding, SetsPolicy DEF ScopeIn, ServiceIn
  <2>4. CASE o.kind = "addCredentialRef"
    <3>1. \E x \in t.credentialRefs : x.environment = e.id /\ x.name = o.name
      <4> DEFINE x == [id |-> id, environment |-> EnvironmentOf(r, o), name |-> o.name,
                       access |-> o.access, secret |-> o.secret]
      <4>1. x \in t.credentialRefs
        BY <2>4, AddsCredentialRef
      <4>2. x.environment = e.id /\ x.name = o.name
        BY <2>2
      <4> QED
        BY <4>1, <4>2
    <3> QED
      BY <2>3, <2>4, <3>1 DEF InPlace
  <2>5. CASE o.kind = "addSourceBinding"
    <3>1. \E x \in t.sourceBindings : x.environment = e.id /\ x.name = o.name
      <4> DEFINE x == [id |-> id, environment |-> EnvironmentOf(r, o), name |-> o.name,
                       ref |-> IF o.ref = None THEN None ELSE RefOf(r, o, o.ref)]
      <4>1. x \in t.sourceBindings
        BY <2>5, AddsSourceBinding
      <4>2. x.environment = e.id /\ x.name = o.name
        BY <2>2
      <4> QED
        BY <4>1, <4>2
    <3> QED
      BY <2>3, <2>5, <3>1 DEF InPlace
  <2>6. CASE o.kind = "setActionPolicy"
    <3>1. \E x \in t.actionPolicies : x.environment = e.id
      <4> DEFINE x == [id |-> id, environment |-> EnvironmentOf(r, o), allow |-> o.allow,
                       refs |-> {RefOf(r, o, name) : name \in o.refs}]
      <4>1. x \in t.actionPolicies
        BY <2>6, SetsPolicy
      <4>2. x.environment = e.id
        BY <2>2
      <4> QED
        BY <4>1, <4>2
    <3> QED
      BY <2>3, <2>6, <3>1 DEF InPlace
  <2> QED
    BY <1>3, <2>4, <2>5, <2>6
<1> QED
  BY <1>1, <1>2, <1>3 DEF Additions

\* A call puts what it is for in place, and no other entity.
LEMMA OnlyTheNew ==
    ASSUME NEW r \in Snapshot, Valid(r), NEW n \in Nat, RowsAreIssued(r, n),
           NEW o, o.kind \in Additions \cup {"setActionPolicy"}, ScopeReady(r, o),
           NEW p, p.kind \in Additions, InPlace(Applied(r, o, n + 1), p), ~InPlace(r, p)
    PROVE  SameEntity(o, p)
<1> DEFINE t == Applied(r, o, n + 1)
<1>1. n + 1 \notin Ids(r.services) /\ n + 1 \notin Ids(r.environments)
  BY DEF RowsAreIssued
<1>2. /\ \A e \in r.environments : e.service \in Ids(r.services)
      /\ \A x \in r.credentialRefs \cup r.sourceBindings :
            x.environment \in Ids(r.environments)
      /\ \A x, y \in r.services : x.id = y.id => x = y
      /\ \A x, y \in r.environments : x.id = y.id => x = y
  BY DEF Valid, Constraints, Unique
<1>3. CASE o.kind = "addService"
  <2> DEFINE row == [id |-> n + 1, name |-> o.service, aliases |-> o.aliases]
  <2>1. /\ t.services = r.services \cup {row} /\ t.environments = r.environments
        /\ t.credentialRefs = r.credentialRefs /\ t.sourceBindings = r.sourceBindings
    BY <1>3, AddsService
  <2> HIDE DEF t
  <2>2. \A s, e : ScopeIn(t, p, s, e) => ScopeIn(r, p, s, e)
    BY <1>1, <1>2, <2>1 DEF ScopeIn, ServiceIn, Ids
  <2>3. InPlace(t, p)
    BY DEF t
  <2>4. p.kind = "addService"
    BY <2>1, <2>2, <2>3 DEF InPlace, Additions
  <2>5. p.service = o.service
    BY <2>1, <2>3, <2>4 DEF InPlace, ServiceIn
  <2> QED
    BY <1>3, <2>4, <2>5 DEF SameEntity, Additions
<1>4. CASE o.kind = "addEnvironment"
  <2>1. PICK s : ServiceIn(r, o, s)
    BY <1>4 DEF ScopeReady
  <2> DEFINE row == [id |-> n + 1, service |-> s.id, name |-> o.environment]
  <2>2. /\ t.services = r.services /\ t.environments = r.environments \cup {row}
        /\ t.credentialRefs = r.credentialRefs /\ t.sourceBindings = r.sourceBindings
    BY <1>4, <2>1, ServiceIs, AddsEnvironment
  <2> HIDE DEF t
  <2>3. InPlace(t, p)
    BY DEF t
  <2>4. p.kind = "addEnvironment"
    <3>1. p.kind # "addService"
      BY <2>2, <2>3 DEF InPlace, ServiceIn
    <3>2. \A f, e, x : /\ ScopeIn(t, p, f, e)
                       /\ x \in r.credentialRefs \cup r.sourceBindings
                       /\ x.environment = e.id
                       => ScopeIn(r, p, f, e)
      BY <1>1, <1>2, <2>2 DEF ScopeIn, ServiceIn, Ids
    <3> QED
      BY <2>2, <2>3, <3>1, <3>2 DEF InPlace, Additions
  <2>5. PICK f, e : ScopeIn(t, p, f, e)
    BY <2>3, <2>4 DEF InPlace
  <2>6. e = row
    BY <2>2, <2>4, <2>5 DEF ScopeIn, ServiceIn, InPlace
  <2>7. f = s
    BY <1>2, <2>1, <2>2, <2>5, <2>6 DEF ScopeIn, ServiceIn
  <2> QED
    BY <1>4, <2>1, <2>4, <2>5, <2>6, <2>7 DEF SameEntity, Additions, ScopeIn, ServiceIn
<1>5. CASE o.kind \in {"addCredentialRef", "addSourceBinding"}
  <2>1. PICK s, e : ScopeIn(r, o, s, e)
    BY <1>5 DEF ScopeReady
  <2>2. EnvironmentOf(r, o) = e.id
    BY <2>1, ScopeIs
  <2>3. /\ t.services = r.services /\ t.environments = r.environments
        /\ \A x \in t.credentialRefs \ r.credentialRefs :
              /\ o.kind = "addCredentialRef" /\ x.environment = e.id /\ x.name = o.name
        /\ \A x \in t.sourceBindings \ r.sourceBindings :
              /\ o.kind = "addSourceBinding" /\ x.environment = e.id /\ x.name = o.name
    <3>1. CASE o.kind = "addCredentialRef"
      BY <2>2, <3>1, AddsCredentialRef
    <3>2. CASE o.kind = "addSourceBinding"
      BY <2>2, <3>2, AddsSourceBinding
    <3> QED
      BY <1>5, <3>1, <3>2
  <2> HIDE DEF t
  <2>4. InPlace(t, p)
    BY DEF t
  <2>5. \A f, g : ScopeIn(t, p, f, g) => ScopeIn(r, p, f, g)
    BY <2>3 DEF ScopeIn, ServiceIn
  <2>6. PICK f, g : /\ ScopeIn(r, p, f, g) /\ o.kind = p.kind
                    /\ g.id = e.id /\ p.name = o.name
    <3>1. p.kind \notin {"addService", "addEnvironment"}
      BY <2>3, <2>4, <2>5 DEF InPlace, ServiceIn
    <3>2. CASE p.kind = "addCredentialRef"
      BY <2>3, <2>4, <2>5, <3>2 DEF InPlace
    <3>3. CASE p.kind = "addSourceBinding"
      BY <2>3, <2>4, <2>5, <3>3 DEF InPlace
    <3> QED
      BY <3>1, <3>2, <3>3 DEF Additions
  <2>7. g = e /\ f = s
    BY <1>2, <2>1, <2>6 DEF ScopeIn, ServiceIn
  <2> QED
    BY <1>5, <2>1, <2>6, <2>7 DEF SameEntity, Additions, ScopeIn, ServiceIn
<1>6. CASE o.kind = "setActionPolicy"
  <2>1. /\ t.services = r.services /\ t.environments = r.environments
        /\ t.credentialRefs = r.credentialRefs /\ t.sourceBindings = r.sourceBindings
    BY <1>6, SetsPolicy
  <2> HIDE DEF t
  <2>2. InPlace(t, p)
    BY DEF t
  <2>3. \A f, g : ScopeIn(t, p, f, g) => ScopeIn(r, p, f, g)
    BY <2>1 DEF ScopeIn, ServiceIn
  <2> QED
    BY <2>1, <2>2, <2>3 DEF InPlace, Additions, ServiceIn
<1> QED
  BY <1>3, <1>4, <1>5, <1>6 DEF Additions

-----------------------------------------------------------------------------
(* The next entity of a manifest is accepted.                              *)

\* Services and credentials are as the manifest declares them.
FromManifest(r) ==
    /\ \A s \in r.services : \E i \in DOMAIN Manifest :
          /\ Manifest[i].kind = "addService"
          /\ Manifest[i].service = s.name /\ Manifest[i].aliases = s.aliases
    /\ \A x \in r.credentialRefs : \E i \in DOMAIN Manifest :
          /\ Manifest[i].kind = "addCredentialRef"
          /\ Manifest[i].name = x.name /\ Manifest[i].access = x.access
          /\ Manifest[i].secret = x.secret
          /\ \E s, e : ScopeIn(r, Manifest[i], s, e) /\ x.environment = e.id

\* Everything before the entity is in place.
ReadyFor(r, i) == \A j \in 1..(i - 1) : InPlace(r, Manifest[j])

LEMMA ScopesReady ==
    ASSUME ManifestIsNested, NEW r, NEW i \in DOMAIN Manifest, ReadyFor(r, i)
    PROVE  ScopeReady(r, Manifest[i])
<1> DEFINE o == Manifest[i]
<1>1. ASSUME o.kind # "addService" PROVE \E s : ServiceIn(r, o, s)
  <2>1. PICK j \in 1..(i - 1) : /\ Manifest[j].kind = "addService"
                                /\ Manifest[j].service = o.service
    BY <1>1 DEF ManifestIsNested
  <2>2. InPlace(r, Manifest[j])
    BY DEF ReadyFor
  <2> QED
    BY <2>1, <2>2 DEF InPlace, ServiceIn
<1>2. ASSUME o.kind \notin {"addService", "addEnvironment"}
      PROVE  \E s, e : ScopeIn(r, o, s, e)
  <2>1. PICK j \in 1..(i - 1) : /\ Manifest[j].kind = "addEnvironment"
                                /\ SameScope(Manifest[j], o)
    BY <1>2 DEF ManifestIsNested
  <2>2. InPlace(r, Manifest[j])
    BY DEF ReadyFor
  <2>3. \E s, e : ScopeIn(r, Manifest[j], s, e)
    BY <2>1, <2>2 DEF InPlace
  <2> QED
    BY <2>1, <2>3 DEF ScopeIn, ServiceIn, SameScope
<1> QED
  BY <1>1, <1>2 DEF ScopeReady

\* A row has one scope, and it is the one its names resolve to.
LEMMA OneScope ==
    ASSUME NEW r \in Snapshot, Valid(r), NEW o, NEW p, NEW s, NEW e, NEW f, NEW g,
           ScopeIn(r, o, s, e), ScopeIn(r, p, f, g), e.id = g.id
    PROVE  s = f /\ e = g /\ SameScope(o, p)
<1>1. /\ \A x, y \in r.services : x.id = y.id => x = y
      /\ \A x, y \in r.environments : x.id = y.id => x = y
  BY DEF Valid, Constraints, Unique
<1> QED
  BY <1>1 DEF ScopeIn, ServiceIn, SameScope

\* A credential that the manifest declares before is found with its access.
LEMMA CredentialFound ==
    ASSUME ManifestIsNested, NEW r \in Snapshot, Valid(r), FromManifest(r),
           NEW i \in DOMAIN Manifest, ReadyFor(r, i), NEW name, NEW access,
           \E j \in 1..(i - 1) : Declares(Manifest[j], Manifest[i], name, access)
    PROVE  Refers(r, RefOf(r, Manifest[i], name), EnvironmentOf(r, Manifest[i]), access)
<1> DEFINE o == Manifest[i]
           env == EnvironmentOf(r, o)
<1>0. Manifest \in Seq(Operation)
  BY ApplierAssumption
<1>1. PICK j \in 1..(i - 1) : Declares(Manifest[j], o, name, access)
  OBVIOUS
<1>2. j \in DOMAIN Manifest /\ InPlace(r, Manifest[j])
  BY <1>0 DEF ReadyFor
<1>3. PICK s, e : /\ ScopeIn(r, Manifest[j], s, e)
                  /\ \E x \in r.credentialRefs : x.environment = e.id /\ x.name = name
  <2>1. Manifest[j].kind = "addCredentialRef" /\ Manifest[j].name = name
    BY <1>1 DEF Declares
  <2> QED
    BY <1>2, <2>1 DEF InPlace
<1>4. PICK x \in r.credentialRefs : x.environment = e.id /\ x.name = name
  BY <1>3
<1>5. ScopeIn(r, o, s, e)
  BY <1>1, <1>3 DEF Declares, SameScope, ScopeIn, ServiceIn
<1>6. env = e.id
  BY <1>5, ScopeIs
<1> DEFINE rows == {y \in InScope(r.credentialRefs, env) : y.name = name}
<1>7. x \in rows /\ \A y \in rows : y = x
  <2>1. \A y, z \in r.credentialRefs :
            <<y.environment, y.name>> = <<z.environment, z.name>> => y = z
    BY DEF Valid, Constraints, Unique, Named
  <2> QED
    BY <1>4, <1>6, <2>1 DEF InScope
<1>8. RefOf(r, o, name) = x.id
  <2>1. IdOf(rows) = x.id
    BY <1>7, IdOfOne
  <2> QED
    BY <2>1 DEF RefOf
<1>9. PICK k, f, g :
          /\ k \in DOMAIN Manifest
          /\ Manifest[k].kind = "addCredentialRef"
          /\ Manifest[k].name = name /\ Manifest[k].access = x.access
          /\ ScopeIn(r, Manifest[k], f, g) /\ x.environment = g.id
  BY <1>4 DEF FromManifest
<1>10. SameScope(Manifest[j], Manifest[k])
  BY <1>4, <1>3, <1>9, OneScope
<1>11. SameEntity(Manifest[j], Manifest[k])
  BY <1>1, <1>9, <1>10 DEF Declares, SameEntity, SameScope, Additions
<1>12. x.access = access
  BY <1>1, <1>2, <1>9, <1>11 DEF ManifestIsNested, Declares
<1>13. x \in InScope(r.credentialRefs, env)
  BY <1>7
<1> QED
  BY <1>8, <1>12, <1>13 DEF Refers

\* Adding rows takes nothing from the rules about the others.
LEMMA StillRefers ==
    ASSUME NEW r, NEW t, r.credentialRefs \subseteq t.credentialRefs,
           NEW ref, NEW e, NEW access, Refers(r, ref, e, access)
    PROVE  Refers(t, ref, e, access) /\ ref \in Ids(t.credentialRefs)
BY DEF Refers, InScope, Ids

LEMMA ServiceAccepted ==
    ASSUME ManifestIsNested, ManifestIsAcceptable,
           NEW r \in Snapshot, Valid(r), FromManifest(r), NEW n \in Nat, RowsAreIssued(r, n),
           NEW i \in DOMAIN Manifest, Manifest[i].kind = "addService",
           ~InPlace(r, Manifest[i])
    PROVE  /\ Valid(Applied(r, Manifest[i], n + 1))
           /\ FromManifest(Applied(r, Manifest[i], n + 1))
<1> DEFINE o == Manifest[i]
           t == Applied(r, o, n + 1)
           row == [id |-> n + 1, name |-> o.service, aliases |-> o.aliases]
<1>1. /\ t.services = r.services \cup {row} /\ t.environments = r.environments
      /\ t.credentialRefs = r.credentialRefs /\ t.sourceBindings = r.sourceBindings
      /\ t.actionPolicies = r.actionPolicies
  BY AddsService
<1> HIDE DEF t
<1>2. \A x \in r.services : x.name # o.service /\ x.id # n + 1
  BY DEF InPlace, ServiceIn, RowsAreIssued, Ids
<1>3. \A x \in r.services : x.aliases \cap o.aliases = {}
  <2> SUFFICES ASSUME NEW x \in r.services PROVE x.aliases \cap o.aliases = {}
    OBVIOUS
  <2>1. PICK k \in DOMAIN Manifest :
            /\ Manifest[k].kind = "addService"
            /\ Manifest[k].service = x.name /\ Manifest[k].aliases = x.aliases
    BY DEF FromManifest
  <2>2. k # i
    BY <1>2, <2>1
  <2> QED
    BY <2>1, <2>2 DEF ManifestIsAcceptable
<1>4. Constraints(t)
  <2>1. /\ Unique(t.services, LAMBDA x : x.id)
        /\ Unique(t.services, LAMBDA x : x.name)
    BY <1>1, <1>2 DEF Valid, Constraints, Unique
  <2>2. \A x \in t.environments : x.service \in Ids(t.services)
    <3>1. Ids(r.services) \subseteq Ids(t.services)
      BY <1>1 DEF Ids
    <3>2. \A x \in r.environments : x.service \in Ids(r.services)
      BY DEF Valid, Constraints
    <3> QED
      BY <1>1, <3>1, <3>2
  <2> QED
    BY <1>1, <2>1, <2>2 DEF Valid, Constraints
<1>5. \A x, y \in t.services : x # y => x.aliases \cap y.aliases = {}
  BY <1>1, <1>3 DEF Valid
<1>6. Valid(t)
  BY <1>1, <1>4, <1>5 DEF Valid, Refers
<1>7. FromManifest(t)
  <2>1. \A p, s, e : ScopeIn(r, p, s, e) => ScopeIn(t, p, s, e)
    BY <1>1 DEF ScopeIn, ServiceIn
  <2> QED
    BY <1>1, <2>1 DEF FromManifest
<1> QED
  BY <1>6, <1>7 DEF t

LEMMA EnvironmentAccepted ==
    ASSUME ManifestIsNested,
           NEW r \in Snapshot, Valid(r), FromManifest(r), NEW n \in Nat, RowsAreIssued(r, n),
           NEW i \in DOMAIN Manifest, Manifest[i].kind = "addEnvironment",
           ReadyFor(r, i), ~InPlace(r, Manifest[i])
    PROVE  /\ Valid(Applied(r, Manifest[i], n + 1))
           /\ FromManifest(Applied(r, Manifest[i], n + 1))
<1> DEFINE o == Manifest[i]
           t == Applied(r, o, n + 1)
<1>0. PICK s : ServiceIn(r, o, s)
  BY ScopesReady DEF ScopeReady
<1> DEFINE row == [id |-> n + 1, service |-> s.id, name |-> o.environment]
<1>1. /\ t.services = r.services /\ t.environments = r.environments \cup {row}
      /\ t.credentialRefs = r.credentialRefs /\ t.sourceBindings = r.sourceBindings
      /\ t.actionPolicies = r.actionPolicies
  BY <1>0, ServiceIs, AddsEnvironment
<1> HIDE DEF t
<1>2. \A x \in r.environments : x.id # n + 1
  BY DEF RowsAreIssued, Ids
<1>3. \A x \in r.environments : x.service = s.id => x.name # o.environment
  BY <1>0 DEF InPlace, ScopeIn
<1>4. Constraints(t)
  <2>1. /\ Unique(t.environments, LAMBDA x : x.id)
        /\ Unique(t.environments, LAMBDA x : <<x.service, x.name>>)
    BY <1>1, <1>2, <1>3 DEF Valid, Constraints, Unique
  <2>2. \A x \in t.environments : x.service \in Ids(t.services)
    <3>1. row.service \in Ids(r.services)
      BY <1>0 DEF Ids, ServiceIn
    <3>2. \A x \in r.environments : x.service \in Ids(r.services)
      BY DEF Valid, Constraints
    <3> QED
      BY <1>1, <3>1, <3>2
  <2>3. Ids(r.environments) \subseteq Ids(t.environments)
    BY <1>1 DEF Ids
  <2> QED
    BY <1>1, <2>1, <2>2, <2>3 DEF Valid, Constraints
<1>5. Valid(t)
  BY <1>1, <1>4 DEF Valid, Refers
<1>6. FromManifest(t)
  <2>1. \A p, f, e : ScopeIn(r, p, f, e) => ScopeIn(t, p, f, e)
    BY <1>1 DEF ScopeIn, ServiceIn
  <2> QED
    BY <1>1, <2>1 DEF FromManifest
<1> QED
  BY <1>5, <1>6 DEF t

LEMMA CredentialAccepted ==
    ASSUME ManifestIsNested, ManifestIsAcceptable,
           NEW r \in Snapshot, Valid(r), FromManifest(r), NEW n \in Nat, RowsAreIssued(r, n),
           NEW i \in DOMAIN Manifest, Manifest[i].kind = "addCredentialRef",
           ReadyFor(r, i), ~InPlace(r, Manifest[i])
    PROVE  /\ Valid(Applied(r, Manifest[i], n + 1))
           /\ FromManifest(Applied(r, Manifest[i], n + 1))
<1> DEFINE o == Manifest[i]
           t == Applied(r, o, n + 1)
<1>0. PICK s, e : ScopeIn(r, o, s, e)
  BY ScopesReady DEF ScopeReady
<1> DEFINE row == [id |-> n + 1, environment |-> e.id, name |-> o.name,
                   access |-> o.access, secret |-> o.secret]
<1>1. /\ t.services = r.services /\ t.environments = r.environments
      /\ t.credentialRefs = r.credentialRefs \cup {row}
      /\ t.sourceBindings = r.sourceBindings /\ t.actionPolicies = r.actionPolicies
  BY <1>0, ScopeIs, AddsCredentialRef
<1> HIDE DEF t
<1>2. \A x \in r.credentialRefs : x.id # n + 1
  BY DEF RowsAreIssued, Ids
<1>3. \A x \in r.credentialRefs : x.environment = e.id => x.name # o.name
  BY <1>0 DEF InPlace
<1>4. \A p, f, g : ScopeIn(r, p, f, g) <=> ScopeIn(t, p, f, g)
  BY <1>1 DEF ScopeIn, ServiceIn
<1>5. Constraints(t)
  <2>1. /\ Unique(t.credentialRefs, LAMBDA x : x.id)
        /\ Unique(t.credentialRefs, Named)
    BY <1>1, <1>2, <1>3 DEF Valid, Constraints, Unique, Named
  <2>2. row.environment \in Ids(t.environments)
    BY <1>0, <1>1 DEF Ids, ScopeIn
  <2>3. Ids(r.credentialRefs) \subseteq Ids(t.credentialRefs)
    BY <1>1 DEF Ids
  <2> QED
    BY <1>1, <2>1, <2>2, <2>3 DEF Valid, Constraints
<1>6. \A x \in r.credentialRefs : x.environment = e.id =>
          /\ x.access = "write" /\ o.access = "read" => x.secret # o.secret
          /\ x.access = "read" /\ o.access = "write" => x.secret # o.secret
  <2> SUFFICES ASSUME NEW x \in r.credentialRefs, x.environment = e.id
               PROVE  /\ x.access = "write" /\ o.access = "read" => x.secret # o.secret
                      /\ x.access = "read" /\ o.access = "write" => x.secret # o.secret
    OBVIOUS
  <2>1. PICK k, f, g :
            /\ k \in DOMAIN Manifest
            /\ Manifest[k].kind = "addCredentialRef"
            /\ Manifest[k].access = x.access /\ Manifest[k].secret = x.secret
            /\ ScopeIn(r, Manifest[k], f, g) /\ x.environment = g.id
    BY DEF FromManifest
  <2>2. SameScope(Manifest[k], o)
    BY <1>0, <2>1, OneScope
  <2>3. SameScope(o, Manifest[k])
    BY <2>2 DEF SameScope
  <2> QED
    BY <2>1, <2>2, <2>3 DEF ManifestIsAcceptable
<1>7. \A x, y \in t.credentialRefs :
          /\ x.environment = y.environment
          /\ x.access = "write" /\ y.access = "read"
          => x.secret # y.secret
  BY <1>1, <1>6 DEF Valid
<1>8. /\ \A x \in t.sourceBindings :
            x.ref # None => Refers(t, x.ref, x.environment, "read")
      /\ \A x \in t.actionPolicies :
            \A ref \in x.refs : Refers(t, ref, x.environment, "write")
  BY <1>1, StillRefers DEF Valid
<1>9. Valid(t)
  BY <1>1, <1>5, <1>7, <1>8 DEF Valid
<1>10. FromManifest(t)
  <2>1. ASSUME NEW x \in t.credentialRefs
        PROVE  \E k \in DOMAIN Manifest :
                  /\ Manifest[k].kind = "addCredentialRef"
                  /\ Manifest[k].name = x.name /\ Manifest[k].access = x.access
                  /\ Manifest[k].secret = x.secret
                  /\ \E f, g : ScopeIn(t, Manifest[k], f, g) /\ x.environment = g.id
    <3>1. CASE x = row
      BY <1>0, <1>4, <3>1
    <3>2. CASE x \in r.credentialRefs
      BY <1>4, <3>2 DEF FromManifest
    <3> QED
      BY <1>1, <3>1, <3>2
  <2> QED
    BY <1>1, <2>1 DEF FromManifest
<1> QED
  BY <1>9, <1>10 DEF t

LEMMA BindingAccepted ==
    ASSUME ManifestIsNested, ManifestIsAcceptable,
           NEW r \in Snapshot, Valid(r), FromManifest(r), NEW n \in Nat, RowsAreIssued(r, n),
           NEW i \in DOMAIN Manifest, Manifest[i].kind = "addSourceBinding",
           ReadyFor(r, i), ~InPlace(r, Manifest[i])
    PROVE  /\ Valid(Applied(r, Manifest[i], n + 1))
           /\ FromManifest(Applied(r, Manifest[i], n + 1))
<1> DEFINE o == Manifest[i]
           t == Applied(r, o, n + 1)
           ref == IF o.ref = None THEN None ELSE RefOf(r, o, o.ref)
<1>0. PICK s, e : ScopeIn(r, o, s, e)
  BY ScopesReady DEF ScopeReady
<1>1. EnvironmentOf(r, o) = e.id
  BY <1>0, ScopeIs
<1>2. ref # None => Refers(r, ref, e.id, "read")
  BY <1>1, CredentialFound DEF ManifestIsAcceptable
<1> HIDE DEF ref
<1> DEFINE row == [id |-> n + 1, environment |-> e.id, name |-> o.name, ref |-> ref]
<1>3. /\ t.services = r.services /\ t.environments = r.environments
      /\ t.credentialRefs = r.credentialRefs
      /\ t.sourceBindings = r.sourceBindings \cup {row}
      /\ t.actionPolicies = r.actionPolicies
  BY <1>1, AddsSourceBinding DEF ref
<1> HIDE DEF t
<1>4. \A x \in r.sourceBindings : x.id # n + 1
  BY DEF RowsAreIssued, Ids
<1>5. \A x \in r.sourceBindings : x.environment = e.id => x.name # o.name
  BY <1>0 DEF InPlace
<1>6. Constraints(t)
  <2>1. /\ Unique(t.sourceBindings, LAMBDA x : x.id)
        /\ Unique(t.sourceBindings, Named)
    BY <1>3, <1>4, <1>5 DEF Valid, Constraints, Unique, Named
  <2>2. row.environment \in Ids(t.environments)
    BY <1>0, <1>3 DEF Ids, ScopeIn
  <2>3. row.ref # None => row.ref \in Ids(t.credentialRefs)
    BY <1>2, <1>3, StillRefers
  <2> QED
    BY <1>3, <2>1, <2>2, <2>3 DEF Valid, Constraints
<1>7. /\ \A x \in t.sourceBindings :
            x.ref # None => Refers(t, x.ref, x.environment, "read")
      /\ \A x \in t.actionPolicies :
            \A y \in x.refs : Refers(t, y, x.environment, "write")
  BY <1>2, <1>3 DEF Valid, Refers
<1>8. Valid(t)
  BY <1>3, <1>6, <1>7 DEF Valid
<1>9. FromManifest(t)
  <2>1. \A p, f, g : ScopeIn(r, p, f, g) => ScopeIn(t, p, f, g)
    BY <1>3 DEF ScopeIn, ServiceIn
  <2> QED
    BY <1>3, <2>1 DEF FromManifest
<1> QED
  BY <1>8, <1>9 DEF t

\* A policy replaces the one of its environment, if there is one.
LEMMA PolicyAccepted ==
    ASSUME ManifestIsNested, ManifestIsAcceptable,
           NEW r \in Snapshot, Valid(r), FromManifest(r), NEW n \in Nat, RowsAreIssued(r, n),
           NEW i \in DOMAIN Manifest, Manifest[i].kind = "setActionPolicy", ReadyFor(r, i)
    PROVE  Valid(Applied(r, Manifest[i], n + 1))
<1> DEFINE o == Manifest[i]
           t == Applied(r, o, n + 1)
           refs == {RefOf(r, o, name) : name \in o.refs}
<1>0. PICK s, e : ScopeIn(r, o, s, e)
  BY ScopesReady DEF ScopeReady
<1>1. EnvironmentOf(r, o) = e.id
  BY <1>0, ScopeIs
<1>2. \A ref \in refs : Refers(r, ref, e.id, "write")
  BY <1>1, CredentialFound DEF ManifestIsAcceptable
<1> HIDE DEF refs
<1> DEFINE row == [id |-> n + 1, environment |-> e.id, allow |-> o.allow, refs |-> refs]
<1>3. /\ t.services = r.services /\ t.environments = r.environments
      /\ t.credentialRefs = r.credentialRefs
      /\ t.sourceBindings = r.sourceBindings
      /\ t.actionPolicies =
            {x \in r.actionPolicies : x.environment # e.id} \cup {row}
  BY <1>1, SetsPolicy DEF refs
<1> HIDE DEF t
<1>4. \A x \in r.actionPolicies : x.id # n + 1
  BY DEF RowsAreIssued, Ids
<1>5. Constraints(t)
  <2>1. /\ Unique(t.actionPolicies, LAMBDA x : x.id)
        /\ Unique(t.actionPolicies, LAMBDA x : x.environment)
    BY <1>3, <1>4 DEF Valid, Constraints, Unique
  <2>2. row.environment \in Ids(t.environments)
    BY <1>0, <1>3 DEF Ids, ScopeIn
  <2> QED
    BY <1>3, <2>1, <2>2 DEF Valid, Constraints
<1>6. /\ \A x \in t.sourceBindings :
            x.ref # None => Refers(t, x.ref, x.environment, "read")
      /\ \A x \in t.actionPolicies :
            \A y \in x.refs : Refers(t, y, x.environment, "write")
  BY <1>2, <1>3 DEF Valid, Refers
<1>7. Valid(t)
  BY <1>3, <1>5, <1>6 DEF Valid
<1> QED
  BY <1>7 DEF t

-----------------------------------------------------------------------------
(* Applies beside each other: one of them gets on.                         *)

\* Nobody but the applies adds anything.
OthersAddNothing ==
    \A c \in Client \ Applier : op[c] # None => op[c].kind \notin Additions

\* Where an apply is on its walk.
Walk(a) ==
    /\ phase[a] # "calling" => pc[a] = "idle"
    /\ phase[a] \notin {"walking", "calling"} => at[a] = 1
    /\ phase[a] \in {"walking", "calling"} =>
          at[a] \in 1..(Len(Manifest) + 1) /\ Valid(plan[a])
    /\ phase[a] = "calling" =>
          /\ at[a] \in DOMAIN Manifest /\ Creates(a)
          /\ pc[a] # "idle" => op[a] = Entity(a)

WalkInv ==
    /\ phase \in [Applier -> {"ready", "walking", "calling", "finished", "failed"}]
    /\ plan \in [Applier -> Snapshot]
    /\ at \in [Applier -> Nat]
    /\ interrupted \in BOOLEAN
    /\ \A a \in Applier : Walk(a)

Walking(a) == phase[a] \in {"walking", "calling"}

\* What is in place of the manifest is in place in its order.
InOrder ==
    \A k \in DOMAIN Manifest :
        Manifest[k].kind \in Additions /\ InPlace(tables, Manifest[k])
           => ReadyFor(tables, k)

\* What an apply saw is there, and so is all that it passed.
Passed(a) ==
    Walking(a) =>
        /\ \A i \in DOMAIN Manifest :
              InPlace(plan[a], Manifest[i]) => InPlace(tables, Manifest[i])
        /\ ReadyFor(tables, at[a])
        /\ phase[a] = "calling" /\ pc[a] = "idle" /\ answer[a] = "done" =>
              InPlace(tables, Manifest[at[a]])

\* The walk of a, from entity n on, meets nothing that it did not see.
ClearFrom(a, n) ==
    \A i \in DOMAIN Manifest :
        i >= n /\ Manifest[i].kind \in Additions /\ InPlace(tables, Manifest[i])
           => InPlace(plan[a], Manifest[i])

Unhindered(a) ==
    \/ phase[a] = "ready"
    \/ phase[a] = "walking" /\ ClearFrom(a, at[a])
    \/ phase[a] = "calling" /\ pc[a] # "idle" /\ ClearFrom(a, at[a])
    \/ phase[a] = "calling" /\ pc[a] = "idle" /\ answer[a] = "lost"
    \/ /\ phase[a] = "calling" /\ pc[a] = "idle" /\ answer[a] = "done"
       /\ ClearFrom(a, at[a] + 1)

AllInPlace == \A i \in DOMAIN Manifest : InPlace(tables, Manifest[i])

OneGetsOn == AllInPlace \/ \E a \in Applier : Unhindered(a)

GetsOn ==
    /\ RowsAreIssued(tables, issued)
    /\ FromManifest(tables)
    /\ InOrder /\ (\A a \in Applier : Passed(a)) /\ OneGetsOn

ApplyInv == IInv /\ WalkInv /\ (interrupted \/ GetsOn)

LEMMA ManifestType ==
    /\ Manifest \in Seq(Operation) /\ Len(Manifest) \in Nat
    /\ DOMAIN Manifest = 1..Len(Manifest)
    /\ \A i \in DOMAIN Manifest : Manifest[i] \in Operation /\ Manifest[i] # None
<1>1. Manifest \in Seq(Operation)
  BY ApplierAssumption
<1> QED
  BY <1>1, NoneIsNoName

\* Asking is safe for any operation, offered or in the manifest.
LEMMA RegistryKept ==
    ASSUME IInv, [ApplyNext]_applyAll
    PROVE  IInv'
<1>1. CASE UNCHANGED vars
  BY <1>1, NextInv
<1>2. ASSUME NEW a \in Applier, Send(a) PROVE IInv'
  <2>1. Entity(a) \in Operation /\ Mutate(a, Entity(a)) /\ a \in Client
    BY <1>2, ManifestType, ApplierAssumption DEF Send, Entity
  <2> QED
    BY <2>1, CallInv
<1>3. ASSUME NEW c \in Client, StoreStep(c) PROVE IInv'
  <2>1. [Next]_vars
    BY <1>3 DEF StoreStep, Next
  <2> QED
    BY <2>1, NextInv
<1>4. ASSUME NEW a \in Applier,
             Start(a) \/ Pass(a) \/ Resume(a) \/ Fail(a) \/ Finish(a) \/ Kill(a) \/ Rerun(a)
      PROVE  UNCHANGED vars
  BY <1>4 DEF Start, Pass, Resume, Fail, Finish, Kill, Rerun, Stops
<1> QED
  BY <1>1, <1>2, <1>3, <1>4 DEF ApplyNext, applyAll

\* Nothing happens to b.
Spared(b) ==
    /\ phase'[b] = phase[b] /\ plan'[b] = plan[b] /\ at'[b] = at[b]
    /\ pc'[b] = pc[b] /\ op'[b] = op[b] /\ answer'[b] = answer[b]

LEMMA SparedWalks ==
    ASSUME NEW b \in Applier, Spared(b), Walk(b)
    PROVE  Walk(b)'
BY DEF Spared, Walk, Creates, Entity

\* What a step of an apply does to it.
LEMMA ApplierSteps ==
    ASSUME IInv, WalkInv, NEW a \in Applier,
           \/ Start(a) \/ Pass(a) \/ Send(a) \/ Resume(a)
           \/ Fail(a) \/ Finish(a) \/ Kill(a) \/ Rerun(a)
    PROVE  /\ WalkInv'
           /\ \A b \in Applier \ {a} : Spared(b)
           /\ UNCHANGED <<tables, issued>>
<1> USE DEF WalkInv
<1>0. a \in Client /\ Applier \subseteq Client
  BY ApplierAssumption
<1>1. /\ \A b \in Applier \ {a} : Spared(b)
      /\ UNCHANGED <<tables, issued>>
  <2>1. CASE Send(a)
    BY <1>0, <2>1 DEF Send, Mutate, store, Spared, IInv, TypeOK
  <2>2. CASE ~Send(a)
    BY <2>2 DEF Start, Pass, Resume, Fail, Finish, Kill, Rerun, Stops, vars, Spared
  <2> QED
    BY <2>1, <2>2
<1>2. /\ phase' \in [Applier -> {"ready", "walking", "calling", "finished", "failed"}]
      /\ plan' \in [Applier -> Snapshot]
      /\ at' \in [Applier -> Nat]
      /\ interrupted' \in BOOLEAN
  <2>1. CASE Start(a)
    BY <2>1 DEF Start, IInv, TypeOK
  <2>2. CASE Pass(a) \/ Resume(a)
    BY <2>2 DEF Pass, Resume
  <2>3. CASE Send(a)
    BY <2>3 DEF Send
  <2>4. CASE Fail(a)
    BY <2>4, EmptyType DEF Fail, Stops, IInv, TypeOK
  <2>5. CASE Finish(a)
    BY <2>5, EmptyType DEF Finish, Stops
  <2>6. CASE Kill(a)
    BY <2>6, EmptyType DEF Kill, Stops
  <2>7. CASE Rerun(a)
    BY <2>7 DEF Rerun
  <2> QED
    BY <2>1, <2>2, <2>3, <2>4, <2>5, <2>6, <2>7
<1>3. Walk(a)'
  <2> USE DEF Walk
  <2>0. Walk(a)
    OBVIOUS
  <2>1. CASE Start(a)
    BY <2>0, <2>1, ManifestType DEF Start, vars, IInv, RegistryIsValid
  <2>2. CASE Pass(a)
    BY <2>0, <2>2, ManifestType DEF Pass, vars
  <2>3. CASE Send(a)
    <3>1. /\ phase'[a] = "calling" /\ plan' = plan /\ at' = at
          /\ op'[a] = Entity(a) /\ at[a] \in DOMAIN Manifest /\ Creates(a)
      BY <1>0, <2>3 DEF Send, Mutate, IInv, TypeOK
    <3>2. Creates(a)' /\ Entity(a)' = Entity(a)
      BY <3>1 DEF Creates, Entity
    <3>3. at[a] \in 1..(Len(Manifest) + 1) /\ Valid(plan[a])
      BY <2>0, <2>3 DEF Send
    <3> QED
      BY <3>1, <3>2, <3>3
  <2>4. CASE Resume(a)
    BY <2>0, <2>4, ManifestType DEF Resume, vars
  <2>5. CASE Fail(a) \/ Finish(a) \/ Kill(a)
    BY <2>0, <2>5 DEF Fail, Finish, Kill, Stops, vars
  <2>6. CASE Rerun(a)
    BY <2>0, <2>6 DEF Rerun, vars
  <2> QED
    BY <2>1, <2>2, <2>3, <2>4, <2>5, <2>6
<1>4. \A b \in Applier : Walk(b)'
  BY <1>1, <1>3, SparedWalks
<1> QED
  BY <1>1, <1>2, <1>4

\* What a transaction does to its client.
LEMMA StoreSteps ==
    ASSUME IInv, WalkInv, NEW c \in Client, StoreStep(c)
    PROVE  /\ WalkInv'
           /\ \A b \in Applier \ {c} : Spared(b)
           /\ c \in Applier => /\ phase[c] = "calling" /\ pc[c] # "idle"
                               /\ op[c] = Entity(c) /\ op[c] # None
           /\ UNCHANGED <<phase, plan, at>>
<1> USE DEF WalkInv
<1>0. Applier \subseteq Client
  BY ApplierAssumption
<1>1. \A b \in Applier \ {c} : Spared(b)
  BY <1>0 DEF StoreStep, Mutate, Transact, Lock, Load, Refuse, Write, Committed, Ends, Lose,
              Spared, IInv, TypeOK, applyVars
<1>2. UNCHANGED <<phase, plan, at>> /\ interrupted' \in BOOLEAN
  BY DEF StoreStep, applyVars
<1>3. c \in Applier => /\ phase[c] = "calling" /\ pc[c] # "idle"
                      /\ op[c] = Entity(c) /\ op[c] # None
  <2> SUFFICES ASSUME c \in Applier
               PROVE  /\ phase[c] = "calling" /\ pc[c] # "idle"
                      /\ op[c] = Entity(c) /\ op[c] # None
    OBVIOUS
  <2>1. pc[c] # "idle"
    BY DEF StoreStep, Transact, Lock, Load, Refuse, Write, Lose
  <2>2. Walk(c)
    OBVIOUS
  <2> QED
    BY <2>1, <2>2, ManifestType DEF Walk, Entity
<1>4. ASSUME c \in Applier PROVE Walk(c)'
  <2>1. pc'[c] # "idle" => op'[c] = op[c]
    BY <1>4 DEF StoreStep, Transact, Lock, Load, Refuse, Write, Committed, Ends, Lose,
                IInv, TypeOK
  <2>2. Creates(c)' = Creates(c) /\ Entity(c)' = Entity(c)
    BY <1>2 DEF Creates, Entity
  <2> QED
    BY <1>2, <1>3, <1>4, <2>1, <2>2 DEF Walk
<1>5. \A b \in Applier : Walk(b)'
  BY <1>1, <1>4, SparedWalks
<1> QED
  BY <1>1, <1>2, <1>3, <1>5


-----------------------------------------------------------------------------
(* Steps that leave the registry alone.                                    *)

LEMMA SparedGetsOn ==
    ASSUME NEW b \in Applier, Spared(b), tables' = tables
    PROVE  /\ Passed(b) => Passed(b)'
           /\ Unhindered(b) => Unhindered(b)'
<1>1. \A i : ReadyFor(tables, i) => ReadyFor(tables', i)
  OBVIOUS
<1>2. \A n : ClearFrom(b, n) => ClearFrom(b, n)'
  BY DEF ClearFrom, Spared
<1>3. Passed(b) => Passed(b)'
  BY <1>1 DEF Passed, Walking, Spared
<1>4. Unhindered(b) => Unhindered(b)'
  BY <1>2 DEF Unhindered, Spared
<1> QED
  BY <1>3, <1>4

\* What is left to show when the tables stay as they are.
LEMMA QuietGetsOn ==
    ASSUME GetsOn, UNCHANGED <<tables, issued>>, \A a \in Applier : Passed(a)', OneGetsOn'
    PROVE  GetsOn'
<1>1. RowsAreIssued(tables, issued)' /\ FromManifest(tables)'
  BY DEF GetsOn
<1>2. InOrder'
  BY DEF GetsOn, InOrder
<1> QED
  BY <1>1, <1>2 DEF GetsOn

LEMMA ReadyNext ==
    ASSUME NEW r, NEW i \in DOMAIN Manifest, ReadyFor(r, i), InPlace(r, Manifest[i])
    PROVE  ReadyFor(r, i + 1)
<1>1. i \in Nat /\ 1..((i + 1) - 1) = (1..(i - 1)) \cup {i}
  BY ManifestType
<1> QED
  BY <1>1 DEF ReadyFor

\* A step of an apply, none of which is in the store.
LEMMA ApplierGetsOn ==
    ASSUME IInv, WalkInv, GetsOn, NEW a \in Applier,
           \/ Start(a) \/ Pass(a) \/ Send(a) \/ Resume(a)
           \/ Fail(a) \/ Finish(a) \/ Kill(a) \/ Rerun(a),
           ~interrupted'
    PROVE  GetsOn'
<1>0. /\ \A b \in Applier \ {a} : Spared(b)
      /\ UNCHANGED <<tables, issued>> /\ a \in Client
  BY ApplierSteps, ApplierAssumption
<1>1. /\ phase \in [Applier -> {"ready", "walking", "calling", "finished", "failed"}]
      /\ plan \in [Applier -> Snapshot] /\ at \in [Applier -> Nat]
      /\ Walk(a) /\ Passed(a) /\ pc \in [Client -> {"idle", "waiting", "locked", "loaded"}]
  BY DEF WalkInv, GetsOn, IInv, TypeOK
<1>2. Passed(a)'
  <2>1. CASE Start(a)
    <3>1. /\ phase'[a] = "walking" /\ plan'[a] = tables /\ at'[a] = 1 /\ tables' = tables
      BY <1>1, <2>1 DEF Start, Walk, vars
    <3>2. ReadyFor(tables, 1)
      BY DEF ReadyFor
    <3> QED
      BY <3>1, <3>2 DEF Passed, Walking
  <2>2. CASE Pass(a)
    <3>1. /\ phase[a] = "walking" /\ phase' = phase /\ plan' = plan
          /\ at[a] \in DOMAIN Manifest /\ at'[a] = at[a] + 1 /\ tables' = tables
      BY <1>1, <2>2 DEF Pass, vars
    <3>2. Existing(plan[a], Manifest[at[a]]) /\ plan[a] \in Snapshot /\ Valid(plan[a])
      BY <1>1, <2>2, <3>1 DEF Pass, Creates, Entity, Walk
    <3>3. InPlace(tables, Manifest[at[a]])
      <4>1. InPlace(plan[a], Manifest[at[a]])
        BY <3>1, <3>2, ExistingIs, ManifestType
      <4> QED
        BY <1>1, <3>1, <4>1 DEF Passed, Walking
    <3>4. ReadyFor(tables, at[a] + 1)
      BY <1>1, <3>1, <3>3, ReadyNext DEF Passed, Walking
    <3> QED
      BY <1>1, <3>1, <3>4 DEF Passed, Walking
  <2>3. CASE Send(a)
    <3>1. /\ phase[a] = "walking" /\ plan' = plan /\ at' = at /\ tables' = tables
          /\ pc'[a] = "waiting"
      BY <1>0, <1>1, <2>3 DEF Send, Mutate, store
    <3> QED
      BY <1>1, <3>1 DEF Passed, Walking
  <2>4. CASE Resume(a)
    <3>1. /\ phase[a] = "calling" /\ phase'[a] = "walking" /\ plan' = plan
          /\ pc[a] = "idle" /\ answer[a] = "done"
          /\ at'[a] = at[a] + 1 /\ tables' = tables
      BY <1>1, <2>4 DEF Resume, vars
    <3>2. at[a] \in DOMAIN Manifest
      BY <1>1, <3>1 DEF Walk
    <3>3. ReadyFor(tables, at[a] + 1)
      BY <1>1, <3>1, <3>2, ReadyNext DEF Passed, Walking
    <3> QED
      BY <1>1, <3>1, <3>3 DEF Passed, Walking
  <2>5. CASE Fail(a) \/ Finish(a) \/ Kill(a) \/ Rerun(a)
    <3>1. phase'[a] \in {"failed", "finished", "ready"}
      BY <1>1, <2>5 DEF Fail, Finish, Kill, Rerun, Stops
    <3> QED
      BY <3>1 DEF Passed, Walking
  <2> QED
    BY <2>1, <2>2, <2>3, <2>4, <2>5
<1>3. \A b \in Applier : Passed(b)'
  BY <1>0, <1>2, SparedGetsOn DEF GetsOn
<1>4. ASSUME Unhindered(a) PROVE Unhindered(a)' \/ AllInPlace
  <2>1. CASE Start(a)
    <3>1. phase'[a] = "walking" /\ plan'[a] = tables /\ tables' = tables
      BY <1>1, <2>1 DEF Start, vars
    <3> QED
      BY <3>1 DEF Unhindered, ClearFrom
  <2>2. CASE Pass(a)
    <3>1. /\ phase[a] = "walking" /\ phase' = phase /\ plan' = plan
          /\ at'[a] = at[a] + 1 /\ at[a] \in Nat /\ tables' = tables
      BY <1>1, <2>2 DEF Pass, vars
    <3>2. ClearFrom(a, at[a])
      BY <1>4, <3>1 DEF Unhindered
    <3>3. ClearFrom(a, at[a])' => Unhindered(a)'
      BY <3>1 DEF Unhindered
    <3>4. \A i \in DOMAIN Manifest : i \in Nat
      BY ManifestType
    <3> QED
      BY <3>1, <3>2, <3>4 DEF Unhindered, ClearFrom
  <2>3. CASE Send(a)
    <3>1. /\ phase[a] = "walking" /\ phase'[a] = "calling" /\ plan' = plan /\ at' = at
          /\ tables' = tables /\ pc'[a] = "waiting"
      BY <1>0, <1>1, <2>3 DEF Send, Mutate, store
    <3> QED
      BY <1>4, <3>1 DEF Unhindered, ClearFrom
  <2>4. CASE Resume(a)
    <3>1. /\ phase[a] = "calling" /\ phase'[a] = "walking" /\ plan' = plan
          /\ pc[a] = "idle" /\ answer[a] = "done"
          /\ at'[a] = at[a] + 1 /\ tables' = tables
      BY <1>1, <2>4 DEF Resume, vars
    <3> QED
      BY <1>4, <3>1 DEF Unhindered, ClearFrom
  <2>5. CASE Fail(a)
    BY <1>4, <2>5 DEF Fail, Unhindered
  <2>6. CASE Finish(a)
    <3>1. phase[a] = "walking" /\ at[a] \notin DOMAIN Manifest
      BY <2>6 DEF Finish
    <3>2. at[a] = Len(Manifest) + 1
      BY <1>1, <3>1, ManifestType DEF Walk
    <3>3. ReadyFor(tables, at[a])
      BY <1>1, <3>1 DEF Passed, Walking
    <3> QED
      BY <3>2, <3>3, ManifestType DEF ReadyFor, AllInPlace
  <2>7. CASE Kill(a)
    BY <2>7 DEF Kill
  <2>8. CASE Rerun(a)
    BY <1>1, <2>8 DEF Rerun, Unhindered
  <2> QED
    BY <2>1, <2>2, <2>3, <2>4, <2>5, <2>6, <2>7, <2>8
<1>5. OneGetsOn'
  <2>1. AllInPlace => AllInPlace'
    BY <1>0 DEF AllInPlace
  <2>2. ASSUME NEW b \in Applier, Unhindered(b), b # a PROVE Unhindered(b)'
    BY <1>0, <2>2, SparedGetsOn
  <2> QED
    BY <1>4, <2>1, <2>2 DEF GetsOn, OneGetsOn
<1> QED
  BY <1>0, <1>3, <1>5, QuietGetsOn


-----------------------------------------------------------------------------
(* Steps of the store.                                                     *)

\* What an unhindered apply asks for is not refused.
LEMMA UnhinderedIsAccepted ==
    ASSUME ManifestIsNested, ManifestIsAcceptable, IInv, WalkInv, GetsOn,
           NEW c \in Applier, phase[c] = "calling", pc[c] = "loaded",
           op[c] = Entity(c), ClearFrom(c, at[c])
    PROVE  Acceptable(c)
<1> DEFINE i == at[c]
           o == Manifest[i]
<1>1. /\ c \in Client /\ seen[c] = tables /\ tables \in Snapshot /\ Valid(tables)
      /\ issued \in Nat /\ plan[c] \in Snapshot
  BY ApplierAssumption DEF IInv, LoadedIsCurrent, TypeOK, RegistryIsValid, WalkInv
<1>2. i \in DOMAIN Manifest /\ Creates(c) /\ Valid(plan[c])
  BY DEF WalkInv, Walk
<1>3. o \in Operation /\ op[c] = o /\ Entity(c) = o
  BY <1>2, ManifestType DEF Entity
<1>4. RowsAreIssued(tables, issued) /\ FromManifest(tables) /\ ReadyFor(tables, i)
  BY DEF GetsOn, Passed, Walking
<1>5. o.kind \in Additions \cup {"setActionPolicy"}
  BY <1>2 DEF ManifestIsNested
<1>6. o.kind \in Additions => ~InPlace(tables, o)
  <2> SUFFICES ASSUME o.kind \in Additions PROVE ~InPlace(tables, o)
    OBVIOUS
  <2>1. ~Existing(plan[c], o)
    BY <1>2, <1>3 DEF Creates, PolicyDiffers, Additions
  <2>2. ~InPlace(plan[c], o)
    BY <1>1, <1>2, <1>3, <2>1, ExistingIs
  <2>3. i >= i
    BY <1>2, ManifestType
  <2> QED
    BY <1>2, <2>2, <2>3 DEF ClearFrom
<1>7. ~Conflict(tables, o)
  <2>1. CASE o.kind \in Additions
    BY <1>1, <1>3, <1>6, <2>1, ExistingIs DEF Existing
  <2>2. CASE o.kind \notin Additions
    BY <2>2 DEF Conflict, Additions
  <2> QED
    BY <2>1, <2>2
<1>8. ~Absent(tables, o)
  BY <1>5 DEF Absent, Additions
<1>9. Valid(Applied(tables, o, issued + 1))
  <2>1. CASE o.kind = "addService"
    BY <1>1, <1>2, <1>4, <1>6, <2>1, ServiceAccepted DEF Additions
  <2>2. CASE o.kind = "addEnvironment"
    BY <1>1, <1>2, <1>4, <1>6, <2>2, EnvironmentAccepted DEF Additions
  <2>3. CASE o.kind = "addCredentialRef"
    BY <1>1, <1>2, <1>4, <1>6, <2>3, CredentialAccepted DEF Additions
  <2>4. CASE o.kind = "addSourceBinding"
    BY <1>1, <1>2, <1>4, <1>6, <2>4, BindingAccepted DEF Additions
  <2>5. CASE o.kind = "setActionPolicy"
    BY <1>1, <1>2, <1>4, <2>5, PolicyAccepted
  <2> QED
    BY <1>5, <2>1, <2>2, <2>3, <2>4, <2>5 DEF Additions
<1> QED
  BY <1>1, <1>3, <1>7, <1>8, <1>9 DEF Acceptable, Proposed, Applied

\* A step of the store that commits nothing.
LEMMA StoreGetsOn ==
    ASSUME ManifestIsNested, ManifestIsAcceptable, IInv, WalkInv, GetsOn,
           NEW c \in Client, StoreStep(c), UNCHANGED <<tables, issued>>
    PROVE  GetsOn'
<1>0. /\ \A b \in Applier \ {c} : Spared(b)
      /\ c \in Applier => /\ phase[c] = "calling" /\ pc[c] # "idle"
                          /\ op[c] = Entity(c) /\ op[c] # None
      /\ UNCHANGED <<phase, plan, at>>
  BY StoreSteps
<1>1. ASSUME c \in Applier PROVE Passed(c)' /\ (Unhindered(c) => Unhindered(c)')
  <2>1. StoreStep(c) => Transact(c) \/ Lose(c)
    BY <1>1 DEF StoreStep
  <2>2. Passed(c) /\ pc \in [Client -> {"idle", "waiting", "locked", "loaded"}]
        /\ answer \in [Client -> {"none", "done", "refused", "constraint", "lost"}]
    BY <1>1 DEF GetsOn, IInv, TypeOK
  <2>3. CASE Lock(c) \/ Load(c)
    <3>1. pc'[c] # "idle"
      BY <2>2, <2>3 DEF Lock, Load
    <3>2. Passed(c)'
      BY <1>0, <1>1, <2>2, <3>1 DEF Passed, Walking
    <3>3. Unhindered(c) => Unhindered(c)'
      BY <1>0, <1>1, <3>1 DEF Unhindered, ClearFrom
    <3> QED
      BY <3>2, <3>3
  <2>4. CASE Lose(c)
    <3>1. pc'[c] = "idle" /\ answer'[c] = "lost"
      BY <2>2, <2>4 DEF Lose, Ends
    <3>2. Passed(c)'
      BY <1>0, <1>1, <2>2, <3>1 DEF Passed, Walking
    <3>3. Unhindered(c)'
      BY <1>0, <1>1, <3>1 DEF Unhindered
    <3> QED
      BY <3>2, <3>3
  <2>5. CASE Refuse(c)
    <3>1. pc[c] = "loaded" /\ ~Acceptable(c) /\ pc'[c] = "idle" /\ answer'[c] = "refused"
      BY <2>2, <2>5 DEF Refuse, Ends
    <3>2. Passed(c)'
      BY <1>0, <1>1, <2>2, <3>1 DEF Passed, Walking
    <3>3. ~Unhindered(c)
      BY <1>0, <1>1, <3>1, UnhinderedIsAccepted DEF Unhindered
    <3> QED
      BY <3>2, <3>3
  <2>6. CASE Write(c)
    <3>1. Acceptable(c) /\ seen[c] = tables
      BY <2>6 DEF Write, IInv, LoadedIsCurrent
    <3>2. Constraints(Changed(tables, Proposed(c)))
      BY <3>1 DEF Acceptable, Valid
    <3>3. issued' = issued + 1 /\ issued \in Nat
      BY <2>6, <3>2 DEF Write, Committed, IInv, TypeOK
    <3> QED
      BY <3>3
  <2> QED
    BY <1>1, <2>1, <2>3, <2>4, <2>5, <2>6 DEF Transact
<1>2. \A b \in Applier : Passed(b)'
  BY <1>0, <1>1, SparedGetsOn DEF GetsOn
<1>3. OneGetsOn'
  <2>1. AllInPlace => AllInPlace'
    BY DEF AllInPlace
  <2>2. \A b \in Applier : Unhindered(b) => Unhindered(b)'
    BY <1>0, <1>1, SparedGetsOn
  <2> QED
    BY <2>1, <2>2 DEF GetsOn, OneGetsOn
<1> QED
  BY <1>2, <1>3, QuietGetsOn

\* A policy is no addition.
LEMMA PolicyAddsNothing ==
    ASSUME NEW r \in Snapshot, NEW o, o.kind = "setActionPolicy", NEW id
    PROVE  /\ \A p : p.kind \in Additions =>
                 (InPlace(Applied(r, o, id), p) <=> InPlace(r, p))
           /\ FromManifest(r) => FromManifest(Applied(r, o, id))
<1> DEFINE t == Applied(r, o, id)
<1>1. /\ t.services = r.services /\ t.environments = r.environments
      /\ t.credentialRefs = r.credentialRefs /\ t.sourceBindings = r.sourceBindings
  BY SetsPolicy
<1> HIDE DEF t
<1>2. \A p, f, g : ScopeIn(t, p, f, g) <=> ScopeIn(r, p, f, g)
  BY <1>1 DEF ScopeIn, ServiceIn
<1>3. \A p : p.kind \in Additions => (InPlace(t, p) <=> InPlace(r, p))
  BY <1>1, <1>2 DEF InPlace, Additions, ServiceIn
<1>4. FromManifest(r) => FromManifest(t)
  BY <1>1, <1>2 DEF FromManifest
<1> QED
  BY <1>3, <1>4 DEF t

\* What a committed transaction does to the others.
LEMMA SparedBesideWrite ==
    ASSUME NEW b \in Applier, Spared(b), Passed(b),
           \A p : InPlace(tables, p) => InPlace(tables', p)
    PROVE  Passed(b)'
<1>1. \A i : ReadyFor(tables, i) => ReadyFor(tables', i)
  BY DEF ReadyFor
<1> QED
  BY <1>1 DEF Passed, Walking, Spared

\* An apply's commit of an addition makes it the one that gets on.
LEMMA AdditionGetsOn ==
    ASSUME ManifestIsNested, ManifestIsAcceptable, IInv, WalkInv, GetsOn,
           NEW c \in Applier, StoreStep(c), Write(c), op[c].kind \in Additions
    PROVE  GetsOn'
<1> DEFINE i == at[c]
           o == Manifest[i]
           t == Applied(tables, o, issued + 1)
<1>0. /\ \A b \in Applier \ {c} : Spared(b)
      /\ phase[c] = "calling" /\ op[c] = o
      /\ UNCHANGED <<phase, plan, at>> /\ c \in Client
  BY StoreSteps, ApplierAssumption DEF Entity
<1>1. /\ seen[c] = tables /\ tables \in Snapshot /\ Valid(tables) /\ issued \in Nat
      /\ i \in DOMAIN Manifest /\ Acceptable(c)
      /\ pc \in [Client -> {"idle", "waiting", "locked", "loaded"}]
      /\ answer \in [Client -> {"none", "done", "refused", "constraint", "lost"}]
  BY <1>0 DEF Write, IInv, LoadedIsCurrent, TypeOK, RegistryIsValid, WalkInv, Walk
<1>2. o \in Operation /\ o.kind \in Additions /\ o.kind \notin Removal
  BY <1>0, <1>1, ManifestType DEF Additions, Removal
<1>3. /\ RowsAreIssued(tables, issued) /\ FromManifest(tables) /\ ReadyFor(tables, i)
      /\ InOrder /\ \A b \in Applier : Passed(b)
  BY <1>0 DEF GetsOn, Passed, Walking
<1>4. ~InPlace(tables, o)
  <2>1. ~Existing(tables, o)
    BY <1>0, <1>1, <1>2 DEF Acceptable, Existing, Additions
  <2> QED
    BY <1>1, <1>2, <2>1, ExistingIs
<1>5. /\ tables' = t /\ issued' = issued + 1
      /\ pc'[c] = "idle" /\ answer'[c] \in {"done", "lost"}
  <2>1. Changed(tables, Proposed(c)) = t
    BY <1>0, <1>1 DEF Proposed, Applied
  <2>2. Constraints(Changed(tables, Proposed(c)))
    BY <1>1 DEF Acceptable, Valid
  <2>3. Committed(c, Proposed(c))
    BY <2>2 DEF Write
  <2> HIDE DEF t
  <2> QED
    BY <1>0, <1>1, <2>1, <2>3 DEF Committed, Ends
<1>6. RowsAreIssued(t, issued + 1)
  BY <1>1, <1>2, <1>3, RowsIssued
<1>7. FromManifest(t)
  <2>1. CASE o.kind = "addService"
    BY <1>1, <1>3, <1>4, <2>1, ServiceAccepted
  <2>2. CASE o.kind = "addEnvironment"
    BY <1>1, <1>3, <1>4, <2>2, EnvironmentAccepted
  <2>3. CASE o.kind = "addCredentialRef"
    BY <1>1, <1>3, <1>4, <2>3, CredentialAccepted
  <2>4. CASE o.kind = "addSourceBinding"
    BY <1>1, <1>3, <1>4, <2>4, BindingAccepted
  <2> QED
    BY <1>2, <2>1, <2>2, <2>3, <2>4 DEF Additions
<1>8. \A p : InPlace(tables, p) => InPlace(t, p)
  BY <1>1, <1>2, InPlaceStays
<1>9. InPlace(t, o) /\ ScopeReady(tables, o)
  BY <1>1, <1>2, <1>3, ScopesReady, NewInPlace
<1>10. ASSUME NEW k \in DOMAIN Manifest, Manifest[k].kind \in Additions,
              InPlace(t, Manifest[k]), ~InPlace(tables, Manifest[k])
       PROVE  k = i
  <2>1. SameEntity(o, Manifest[k])
    BY <1>1, <1>2, <1>3, <1>9, <1>10, OnlyTheNew
  <2> QED
    BY <1>1, <2>1 DEF ManifestIsNested
<1> HIDE DEF t
<1>11. \A k : ReadyFor(tables, k) => ReadyFor(t, k)
  BY <1>8 DEF ReadyFor
<1>12. InOrder'
  BY <1>3, <1>5, <1>10, <1>11 DEF InOrder
<1>13. \A b \in Applier : Passed(b)'
  <2>1. \A b \in Applier \ {c} : Passed(b)'
    BY <1>0, <1>3, <1>5, <1>8, SparedBesideWrite
  <2>2. Passed(c)'
    BY <1>0, <1>3, <1>5, <1>8, <1>9, <1>11 DEF Passed, Walking
  <2> QED
    BY <2>1, <2>2
<1>14. \A k \in DOMAIN Manifest :
           k >= i + 1 /\ Manifest[k].kind \in Additions => ~InPlace(t, Manifest[k])
  <2> SUFFICES ASSUME NEW k \in DOMAIN Manifest, k >= i + 1,
                      Manifest[k].kind \in Additions, InPlace(t, Manifest[k])
               PROVE  FALSE
    OBVIOUS
  <2>1. k \in Nat /\ i \in Nat /\ k # i /\ i \in 1..(k - 1)
    BY <1>1, ManifestType
  <2>2. InPlace(tables, Manifest[k])
    BY <1>10, <2>1
  <2>3. ReadyFor(tables, k)
    BY <1>3, <2>2 DEF InOrder
  <2> QED
    BY <1>4, <2>1, <2>3 DEF ReadyFor
<1>15. Unhindered(c)'
  <2>1. ClearFrom(c, at[c] + 1)'
    BY <1>0, <1>5, <1>14 DEF ClearFrom
  <2>2. at'[c] = at[c]
    BY <1>0
  <2> QED
    BY <1>0, <1>5, <1>14 DEF Unhindered, ClearFrom
<1> QED
  BY <1>5, <1>6, <1>7, <1>12, <1>13, <1>15 DEF GetsOn, OneGetsOn

\* A policy that is set stands in nobody's way.
LEMMA PolicyGetsOn ==
    ASSUME ManifestIsNested, ManifestIsAcceptable, IInv, WalkInv, GetsOn,
           NEW c \in Client, StoreStep(c), Write(c), op[c].kind = "setActionPolicy"
    PROVE  GetsOn'
<1> DEFINE o == op[c]
           t == Applied(tables, o, issued + 1)
<1>0. /\ \A b \in Applier \ {c} : Spared(b)
      /\ c \in Applier => phase[c] = "calling" /\ pc[c] # "idle" /\ o = Entity(c)
      /\ UNCHANGED <<phase, plan, at>>
  BY StoreSteps
<1>1. /\ seen[c] = tables /\ tables \in Snapshot /\ Valid(tables) /\ issued \in Nat
      /\ Acceptable(c)
      /\ pc \in [Client -> {"idle", "waiting", "locked", "loaded"}]
      /\ answer \in [Client -> {"none", "done", "refused", "constraint", "lost"}]
  BY DEF Write, IInv, LoadedIsCurrent, TypeOK, RegistryIsValid
<1>2. o.kind \notin Removal
  BY DEF Removal
<1>3. /\ RowsAreIssued(tables, issued) /\ FromManifest(tables)
      /\ InOrder /\ (\A b \in Applier : Passed(b)) /\ OneGetsOn
  BY DEF GetsOn
<1>4. /\ tables' = t /\ issued' = issued + 1
      /\ pc'[c] = "idle" /\ answer'[c] \in {"done", "lost"}
  <2>1. Changed(tables, Proposed(c)) = t
    BY <1>1 DEF Proposed, Applied
  <2>2. Constraints(Changed(tables, Proposed(c)))
    BY <1>1 DEF Acceptable, Valid
  <2>3. Committed(c, Proposed(c))
    BY <2>2 DEF Write
  <2> HIDE DEF t
  <2> QED
    BY <1>1, <2>1, <2>3 DEF Committed, Ends
<1>5. RowsAreIssued(t, issued + 1)
  BY <1>1, <1>2, <1>3, RowsIssued
<1>6. \A p : InPlace(tables, p) => InPlace(t, p)
  BY <1>1, <1>2, InPlaceStays
<1>7. /\ \A p : p.kind \in Additions => (InPlace(t, p) <=> InPlace(tables, p))
      /\ FromManifest(t)
  BY <1>1, <1>3, PolicyAddsNothing
<1>8. ASSUME c \in Applier
      PROVE  at[c] \in DOMAIN Manifest /\ InPlace(t, Manifest[at[c]])
  <2>1. at[c] \in DOMAIN Manifest /\ o = Manifest[at[c]]
    BY <1>0, <1>8 DEF WalkInv, Walk, Entity
  <2>2. ReadyFor(tables, at[c])
    BY <1>0, <1>3, <1>8 DEF Passed, Walking
  <2>3. ScopeReady(tables, o)
    BY <2>1, <2>2, ScopesReady
  <2> QED
    BY <1>1, <2>1, <2>3, NewInPlace
<1> HIDE DEF t, o
<1>9. \A k : ReadyFor(tables, k) => ReadyFor(t, k)
  BY <1>6 DEF ReadyFor
<1>10. InOrder'
  BY <1>3, <1>4, <1>7, <1>9 DEF InOrder
<1>11. \A b \in Applier : Passed(b)'
  <2>1. \A b \in Applier \ {c} : Passed(b)'
    BY <1>0, <1>3, <1>4, <1>6, SparedBesideWrite
  <2>2. c \in Applier => Passed(c)'
    BY <1>0, <1>3, <1>4, <1>6, <1>8, <1>9 DEF Passed, Walking
  <2> QED
    BY <2>1, <2>2
<1>12. ASSUME NEW b \in Applier, Unhindered(b) PROVE Unhindered(b)'
  <2>1. \A n : ClearFrom(b, n) => ClearFrom(b, n)' 
    BY <1>0, <1>4, <1>7 DEF ClearFrom
  <2>2. CASE b # c
    <3>1. Spared(b)
      BY <1>0, <2>2
    <3> QED
      BY <1>12, <2>1, <3>1 DEF Unhindered, Spared
  <2>3. CASE b = c
    <3>1. ClearFrom(c, at[c])
      BY <1>0, <1>12, <2>3 DEF Unhindered
    <3>2. at[c] \in Nat /\ \A k \in DOMAIN Manifest : k \in Nat
      BY <1>12, <2>3, ManifestType DEF WalkInv
    <3>3. ClearFrom(c, at[c] + 1)
      BY <3>1, <3>2 DEF ClearFrom
    <3> QED
      BY <1>0, <1>4, <2>1, <2>3, <3>3 DEF Unhindered
  <2> QED
    BY <2>2, <2>3
<1>13. OneGetsOn'
  <2>1. AllInPlace => AllInPlace'
    BY <1>4, <1>6 DEF AllInPlace
  <2> QED
    BY <1>3, <1>12, <2>1 DEF OneGetsOn
<1> QED
  BY <1>4, <1>5, <1>7, <1>10, <1>11, <1>13 DEF GetsOn


LEMMA ApplyStart ==
    ASSUME ApplyInit, Applier # {} PROVE ApplyInv
<1> USE DEF ApplyInit, NoApply
<1>1. IInv
  BY InitInv
<1>2. Applier \subseteq Client /\ tables = Empty /\ issued = 0
      /\ pc = [c \in Client |-> "idle"]
  BY ApplierAssumption DEF Init, Idle
<1>3. WalkInv
  BY <1>2, EmptyType DEF WalkInv, Walk
<1>4. \A p : ~InPlace(tables, p)
  BY <1>2 DEF InPlace, ServiceIn, ScopeIn, Empty
<1>5. RowsAreIssued(tables, issued) /\ FromManifest(tables)
  BY <1>2 DEF RowsAreIssued, FromManifest, Empty, Ids
<1>6. InOrder /\ \A a \in Applier : Passed(a) /\ Unhindered(a)
  BY <1>4 DEF InOrder, Passed, Walking, Unhindered
<1> QED
  BY <1>1, <1>3, <1>5, <1>6 DEF ApplyInv, GetsOn, OneGetsOn

LEMMA ApplyNextInv ==
    ASSUME ManifestIsNested, ManifestIsAcceptable, OthersAddNothing,
           ApplyInv, [ApplyNext]_applyAll
    PROVE  ApplyInv'
<1>0. IInv /\ WalkInv /\ (interrupted \/ GetsOn) /\ IInv'
  BY RegistryKept DEF ApplyInv
<1>1. CASE UNCHANGED applyAll
  <2>1. \A b \in Applier : Spared(b)
    BY <1>1 DEF Spared, applyAll, vars, applyVars
  <2>2. WalkInv'
    BY <1>0, <1>1, <2>1, SparedWalks DEF WalkInv, applyAll, applyVars
  <2>3. tables' = tables /\ issued' = issued /\ interrupted' = interrupted
    BY <1>1 DEF applyAll, vars, applyVars
  <2>4. ASSUME GetsOn PROVE GetsOn'
    <3>1. \A b \in Applier : Passed(b)' /\ (Unhindered(b) => Unhindered(b)')
      BY <2>1, <2>3, <2>4, SparedGetsOn DEF GetsOn
    <3>2. AllInPlace => AllInPlace'
      BY <2>3 DEF AllInPlace
    <3>3. OneGetsOn'
      BY <2>4, <3>1, <3>2 DEF GetsOn, OneGetsOn
    <3> QED
      BY <2>3, <2>4, <3>1, <3>3, QuietGetsOn
  <2> QED
    BY <1>0, <2>2, <2>3, <2>4 DEF ApplyInv
<1>2. ASSUME NEW a \in Applier,
             \/ Start(a) \/ Pass(a) \/ Send(a) \/ Resume(a)
             \/ Fail(a) \/ Finish(a) \/ Kill(a) \/ Rerun(a)
      PROVE  ApplyInv'
  <2>1. WalkInv'
    BY <1>0, <1>2, ApplierSteps
  <2>2. interrupted => interrupted'
    BY <1>2 DEF Start, Pass, Send, Resume, Fail, Finish, Kill, Rerun
  <2>3. ASSUME GetsOn, ~interrupted' PROVE GetsOn'
    BY <1>0, <1>2, <2>3, ApplierGetsOn
  <2> QED
    BY <1>0, <2>1, <2>2, <2>3 DEF ApplyInv
<1>3. ASSUME NEW c \in Client, StoreStep(c) PROVE ApplyInv'
  <2>1. /\ WalkInv'
        /\ c \in Applier => op[c] = Entity(c) /\ phase[c] = "calling"
    BY <1>0, <1>3, StoreSteps
  <2>2. interrupted => interrupted'
    BY <1>3 DEF StoreStep, applyVars
  <2>3. ASSUME GetsOn, ~interrupted' PROVE GetsOn'
    <3>1. CASE UNCHANGED <<tables, issued>>
      BY <1>0, <1>3, <2>3, <3>1, StoreGetsOn
    <3>2. CASE ~UNCHANGED <<tables, issued>>
      <4>1. Write(c)
        BY <1>3, <3>2 DEF StoreStep, Mutate, Transact, Lock, Load, Refuse, Lose, Ends, store
      <4>2. op[c] # None /\ op[c] \in Operation
        BY <1>0, <4>1 DEF Write, IInv, TypeOK
      <4>3. ~Mutate(c, op[c]) /\ op[c].kind \notin Removal
        BY <1>3, <2>3, <4>1, <4>2 DEF StoreStep, Write, Mutate
      <4>4. op[c].kind \in Additions \cup Removal \cup {"setActionPolicy"}
        BY <4>2 DEF Operation, Additions, Removal
      <4>5. CASE op[c].kind = "setActionPolicy"
        BY <1>0, <1>3, <2>3, <4>1, <4>5, PolicyGetsOn
      <4>6. CASE op[c].kind \in Additions
        <5>1. c \in Applier
          BY <4>2, <4>6 DEF OthersAddNothing
        <5> QED
          BY <1>0, <1>3, <2>3, <4>1, <4>6, <5>1, AdditionGetsOn
      <4> QED
        BY <4>3, <4>4, <4>5, <4>6
    <3> QED
      BY <3>1, <3>2
  <2> QED
    BY <1>0, <2>1, <2>2, <2>3 DEF ApplyInv
<1> QED
  BY <1>1, <1>2, <1>3 DEF ApplyNext

LEMMA ApplyInvGetsThrough == ApplyInv => OneApplyGetsThrough
<1> SUFFICES ASSUME IInv, GetsOn, \A a \in Applier : phase[a] \in {"finished", "failed"}
             PROVE  \A i \in DOMAIN Manifest : Existing(tables, Manifest[i])
  BY DEF ApplyInv, OneApplyGetsThrough
<1>1. AllInPlace
  BY DEF GetsOn, OneGetsOn, Unhindered
<1>2. tables \in Snapshot /\ Valid(tables)
  BY DEF IInv, TypeOK, RegistryIsValid
<1> QED
  BY <1>1, <1>2, ExistingIs, ManifestType DEF AllInPlace

-----------------------------------------------------------------------------
(* Theorems.                                                               *)

\* Tables, events and the clients' transactions are of their type.
THEOREM TypeCorrect == Spec => []TypeOK
<1>1. IInv => TypeOK
  BY DEF IInv
<1>2. QED
  BY <1>1, InitInv, NextInv, PTL DEF Spec

\* The committed registry satisfies every rule of RegistrySnapshotSchema, for
\* any number of clients and any operations of theirs.
THEOREM RegistryIsAlwaysValid == Spec => []RegistryIsValid
<1>1. IInv => RegistryIsValid
  BY DEF IInv
<1>2. QED
  BY <1>1, InitInv, NextInv, PTL DEF Spec

\* No client ever meets a bare constraint error: what the schema lets through
\* the tables accept, because nothing changed between the two.
THEOREM RefusalsAreAlwaysTyped == Spec => []RefusalsAreTyped
<1>1. IInv => RefusalsAreTyped
  BY DEF IInv
<1>2. QED
  BY <1>1, InitInv, NextInv, PTL DEF Spec

\* registry_events alone tell what the registry holds, for any number of
\* clients and whatever they ask for: every cascade is written down.
THEOREM EventsAlwaysTell == Spec => []EventsTellTheRegistry
<1>1. Init => IInv /\ EventsInv
  BY InitInv, EventsStart
<1>2. (IInv /\ EventsInv) /\ [Next]_vars => (IInv /\ EventsInv)'
  BY NextInv, EventsNext
<1>3. EventsInv => EventsTellTheRegistry
  BY RowsTell
<1>4. QED
  BY <1>1, <1>2, <1>3, PTL DEF Spec

\* Of applies of one manifest that race for its entities one gets through:
\* when all have stopped, none cut off and nothing removed beside them, the
\* whole manifest is there.  The manifest is one that a single apply would
\* get through, and whoever else calls the registry sets policies or removes.
THEOREM OneApplyAlwaysGetsThrough ==
    ASSUME ManifestIsAcceptable, Applier # {}
    PROVE  ApplySpec /\ []OthersAddNothing => []OneApplyGetsThrough
<1>1. ApplyInit => ApplyInv
  BY ApplyStart
<1>2. ApplyInv /\ OthersAddNothing /\ [ApplyNext]_applyAll => ApplyInv'
  BY ManifestAssumption, ApplyNextInv
<1>3. ApplyInv => OneApplyGetsThrough
  BY ApplyInvGetsThrough
<1> QED
  BY <1>1, <1>2, <1>3, PTL DEF ApplySpec

\* Every start with the same key is told the same stored incident, whoever else
\* starts, dies or changes the registry, and a scope that was removed before
\* the store's transaction began is refused.
THEOREM StartsAlwaysAgree == StartSpec => []StartsAgree
<1>1. StartInit => IInv /\ EventsInv /\ StartInv
  BY InitInv, EventsStart, StartStart DEF StartInit
<1>2. (IInv /\ EventsInv /\ StartInv) /\ [StartNext]_startAll
         => (IInv /\ EventsInv /\ StartInv)'
  BY StartNextInv
<1>3. StartInv => StartsAgree
  BY DEF StartInv, StartsAgree
<1>4. QED
  BY <1>1, <1>2, <1>3, PTL DEF StartSpec

\* Every attempt at a run asks what the run was created to ask, for any number
\* of commands, default or chosen run ids, deaths and changes of the registry:
\* the stored input is matched before a run is picked up, and stays.
THEOREM AttemptsAlwaysAskTheSame == InvestigateSpec => []AttemptsAskTheSame
<1>1. InvestigateInv => AttemptsAskTheSame
  <2> SUFFICES ASSUME InvestigateInv, NEW i \in Investigator,
                      ask[i] # None, ask[i].claim # None
               PROVE  /\ inputs[ask[i].run] = InputOf(i)
                      /\ Concerns(ask[i].incident, ask[i].scope)
    BY DEF AttemptsAskTheSame
  <2>1. mpc[i] # "off" /\ Asks(i)
    BY DEF InvestigateInv, AskInv, Asks
  <2>2. mpc[i] \in Claiming
    BY <2>1 DEF Asks
  <2> QED
    BY <2>1, <2>2 DEF Asks, Claiming
<1> QED
  BY <1>1, InvestigationsHold, PTL

\* Only a completed run is printed, for any number of attempts, of checkpoints
\* written late and any order of their ids: complete() is refused to all but the
\* last claim, whose graph is at the last superstep of what was committed; and a
\* later reader gets as much, or less only where two attempts left checkpoints.
THEOREM ReportsAlwaysFollowTheRun == InvestigateSpec => []ReportsFollowTheRun
<1>1. InvestigateInv => ReportsFollowTheRun
  <2> SUFFICES ASSUME InvestigateInv, NEW x \in reports
               PROVE  /\ status[x.run] = "completed"
                      /\ \A n \in DOMAIN x.state : /\ n \in DOMAIN answers[x.run]
                                                   /\ x.state[n] = answers[x.run][n]
                      /\ x.by # None => Len(x.state) = Supersteps
                                        /\ x.by = attempt[x.run]
                      /\ Len(x.state) < Supersteps =>
                            \E y, z \in thread[x.run] : y.by # z.by
    BY DEF InvestigateInv, ReportInv, ReportsFollowTheRun
  <2>1. Prefix(x.state, answers[x.run]) /\ answers[x.run] \in Seq(Found)
    BY DEF InvestigateInv, ReportInv, ThreadInv
  <2>2. \A n \in DOMAIN x.state : /\ n \in DOMAIN answers[x.run]
                                  /\ x.state[n] = answers[x.run][n]
    BY <2>1 DEF Prefix
  <2> QED
    BY <2>2 DEF InvestigateInv, ReportInv
<1> QED
  BY <1>1, InvestigationsHold, PTL

=============================================================================
