------------------------------ MODULE Registry ------------------------------
(***************************************************************************)
(* The registry of services, environments, credential references, source   *)
(* bindings and action policies (packages/persistence/src/                 *)
(* registry-store.ts, its tables in app-schema.ts, its rules in            *)
(* packages/domain/src/scope.ts).  Clients mutate it concurrently: each    *)
(* mutation is one transaction that takes the registry's advisory lock,    *)
(* loads the tables, computes and validates the next registry in memory    *)
(* and only then writes.  Several rules (one service per repository alias, *)
(* a policy's credentials, read and write secrets apart) are known to no   *)
(* database constraint: the lock and the validation are all that keep them.*)
(***************************************************************************)
EXTENDS Naturals, FiniteSets

CONSTANTS Client,     \* callers of the store, in one process or in many
          Service,    \* service names
          Environment,\* environment names
          Ref,        \* names of credential references
          Source,     \* names of source bindings
          Alias,      \* repository aliases
          Secret,     \* names of secrets
          Allow,      \* lists of allowed action types
          None,       \* no credential, no operation, no snapshot
          Offered,    \* the operations clients ask for in this instance
          MaxIds      \* bound: clients ask for nothing after so many mutations

Access == {"read", "write"}

\* The calls of the RegistryStore interface that change it.
Operation ==
    [kind : {"addService"}, service : Service, aliases : SUBSET Alias]
    \cup [kind : {"addEnvironment"}, service : Service, environment : Environment]
    \cup [kind : {"addCredentialRef"}, service : Service,
          environment : Environment, name : Ref, access : Access,
          secret : Secret]
    \cup [kind : {"addSourceBinding"}, service : Service,
          environment : Environment, name : Source, ref : Ref \cup {None}]
    \cup [kind : {"setActionPolicy"}, service : Service,
          environment : Environment, allow : Allow, refs : SUBSET Ref]
    \cup [kind : {"removeEnvironment"}, service : Service,
          environment : Environment]
    \cup [kind : {"removeService"}, service : Service]

ASSUME NoneIsNoName == None \notin Ref \cup Operation
ASSUME OfferedAssumption == Offered \subseteq Operation
ASSUME MaxIdsAssumption == MaxIds \in Nat

Id == Nat \ {0}

\* resolve*(): a name that is not there gets an id that nothing carries.
Unknown == 0
IdOf(rows) == IF rows = {} THEN Unknown ELSE (CHOOSE x \in rows : TRUE).id

Services == [id : Id, name : Service, aliases : SUBSET Alias]
Environments == [id : Id, service : Nat, name : Environment]
CredentialRefs == [id : Id, environment : Nat, name : Ref, access : Access,
                   secret : Secret]
SourceBindings == [id : Id, environment : Nat, name : Source,
                   ref : Nat \cup {None}]
ActionPolicies == [id : Id, environment : Nat, allow : Allow,
                   refs : SUBSET Nat]

\* A RegistrySnapshot, in the tables or in memory.
Snapshot == [services : SUBSET Services, environments : SUBSET Environments,
             credentialRefs : SUBSET CredentialRefs,
             sourceBindings : SUBSET SourceBindings,
             actionPolicies : SUBSET ActionPolicies]

Empty == [services |-> {}, environments |-> {}, credentialRefs |-> {},
          sourceBindings |-> {}, actionPolicies |-> {}]

-----------------------------------------------------------------------------
(* The rules: RegistrySnapshotSchema, and the weaker ones of the tables.   *)

Ids(rows) == {x.id : x \in rows}

\* No two rows agree on the key.
Unique(rows, Key(_)) == \A x, y \in rows : Key(x) = Key(y) => x = y

InScope(rows, e) == {x \in rows : x.environment = e}

Named(x) == <<x.environment, x.name>>

\* What the tables themselves check: keys, uniqueness, foreign keys.
Constraints(r) ==
    /\ Unique(r.services, LAMBDA x : x.id)
    /\ Unique(r.services, LAMBDA x : x.name)
    /\ Unique(r.environments, LAMBDA x : x.id)
    /\ Unique(r.environments, LAMBDA x : <<x.service, x.name>>)
    /\ Unique(r.credentialRefs, LAMBDA x : x.id)
    /\ Unique(r.credentialRefs, Named)
    /\ Unique(r.sourceBindings, LAMBDA x : x.id)
    /\ Unique(r.sourceBindings, Named)
    /\ Unique(r.actionPolicies, LAMBDA x : x.id)
    /\ Unique(r.actionPolicies, LAMBDA x : x.environment)
    /\ \A x \in r.environments : x.service \in Ids(r.services)
    /\ \A x \in r.credentialRefs \cup r.sourceBindings \cup r.actionPolicies :
          x.environment \in Ids(r.environments)
    /\ \A x \in r.sourceBindings :
          x.ref # None => x.ref \in Ids(r.credentialRefs)

\* A reference to a credential of the same environment with this access.
Refers(r, ref, e, access) ==
    \E x \in InScope(r.credentialRefs, e) : x.id = ref /\ x.access = access

\* RegistrySnapshotSchema: all of that, and what no constraint knows.
Valid(r) ==
    /\ Constraints(r)
    /\ \A x, y \in r.services : x # y => x.aliases \cap y.aliases = {}
    /\ \A x, y \in r.credentialRefs :
          /\ x.environment = y.environment
          /\ x.access = "write" /\ y.access = "read"
          => x.secret # y.secret
    /\ \A x \in r.sourceBindings :
          x.ref # None => Refers(r, x.ref, x.environment, "read")
    /\ \A x \in r.actionPolicies :
          \A ref \in x.refs : Refers(r, ref, x.environment, "write")

-----------------------------------------------------------------------------
(* What an operation does to the registry it loaded: rows it adds, and the *)
(* services, environments and policies whose rows it deletes.              *)

ServiceOf(r, o) == IdOf({x \in r.services : x.name = o.service})
EnvironmentOf(r, o) ==
    IdOf({x \in r.environments : /\ x.service = ServiceOf(r, o)
                                 /\ x.name = o.environment})
RefOf(r, o, name) ==
    IdOf({x \in InScope(r.credentialRefs, EnvironmentOf(r, o)) : x.name = name})

\* A RegistryConflictError: the name is taken in its scope.
Conflict(r, o) ==
    \/ /\ o.kind = "addService"
       /\ \E x \in r.services : x.name = o.service
    \/ /\ o.kind = "addEnvironment"
       /\ EnvironmentOf(r, o) # Unknown
    \/ /\ o.kind = "addCredentialRef"
       /\ RefOf(r, o, o.name) # Unknown
    \/ /\ o.kind = "addSourceBinding"
       /\ \E x \in InScope(r.sourceBindings, EnvironmentOf(r, o)) :
             x.name = o.name

\* A removal of what is not there is refused by the operation itself: its
\* snapshot would be unchanged and pass.
Absent(r, o) ==
    \/ o.kind = "removeService" /\ ServiceOf(r, o) = Unknown
    \/ o.kind = "removeEnvironment" /\ EnvironmentOf(r, o) = Unknown

Added(r, o, id) ==
    CASE o.kind = "addService" ->
           [Empty EXCEPT !.services =
              {[id |-> id, name |-> o.service, aliases |-> o.aliases]}]
      [] o.kind = "addEnvironment" ->
           [Empty EXCEPT !.environments =
              {[id |-> id, service |-> ServiceOf(r, o),
                name |-> o.environment]}]
      [] o.kind = "addCredentialRef" ->
           [Empty EXCEPT !.credentialRefs =
              {[id |-> id, environment |-> EnvironmentOf(r, o),
                name |-> o.name, access |-> o.access, secret |-> o.secret]}]
      [] o.kind = "addSourceBinding" ->
           [Empty EXCEPT !.sourceBindings =
              {[id |-> id, environment |-> EnvironmentOf(r, o),
                name |-> o.name,
                ref |-> IF o.ref = None THEN None ELSE RefOf(r, o, o.ref)]}]
      [] o.kind = "setActionPolicy" ->
           [Empty EXCEPT !.actionPolicies =
              {[id |-> id, environment |-> EnvironmentOf(r, o),
                allow |-> o.allow,
                refs |-> {RefOf(r, o, name) : name \in o.refs}]}]
      [] OTHER -> Empty

\* Cascade: a removed service takes its environments along.
RemovedServices(r, o) ==
    IF o.kind = "removeService" THEN {ServiceOf(r, o)} ELSE {}
RemovedEnvironments(r, o) ==
    IF o.kind = "removeEnvironment"
    THEN {EnvironmentOf(r, o)}
    ELSE Ids({x \in r.environments : x.service \in RemovedServices(r, o)})
ReplacedPolicies(r, o) ==
    IF o.kind = "setActionPolicy" THEN {EnvironmentOf(r, o)} ELSE {}

\* One MutationOutcome: computed from the snapshot, then applied to the
\* snapshot (newSnapshot) and, by its SQL, to the tables (write).
Outcome(r, o, id) ==
    [added |-> Added(r, o, id),
     services |-> RemovedServices(r, o),
     environments |-> RemovedEnvironments(r, o),
     policies |-> ReplacedPolicies(r, o)]

Left(rows, m) == {x \in rows : x.environment \notin m.environments}

Changed(r, m) ==
    [services |->
        {x \in r.services : x.id \notin m.services} \cup m.added.services,
     environments |->
        {x \in r.environments : x.id \notin m.environments}
           \cup m.added.environments,
     credentialRefs |->
        Left(r.credentialRefs, m) \cup m.added.credentialRefs,
     sourceBindings |->
        Left(r.sourceBindings, m) \cup m.added.sourceBindings,
     actionPolicies |->
        {x \in Left(r.actionPolicies, m) : x.environment \notin m.policies}
           \cup m.added.actionPolicies]

\* The registry_events rows of a mutation: one per addition, one per removed
\* environment and one for the removed service.  A policy's events are left
\* out: no property reads them.
Event == [kind : {"service.added", "environment.added", "credentialRef.added",
                  "sourceBinding.added", "environment.removed",
                  "service.removed"},
          subject : Nat, scope : Nat]

\* Mutant: a cascade writes down the service only.
EventsOfTheService(m) ==
    {[kind |-> "service.added", subject |-> x.id, scope |-> Unknown] :
        x \in m.added.services}
    \cup {[kind |-> "environment.added", subject |-> x.id,
           scope |-> x.service] : x \in m.added.environments}
    \cup {[kind |-> "credentialRef.added", subject |-> x.id,
           scope |-> x.environment] : x \in m.added.credentialRefs}
    \cup {[kind |-> "sourceBinding.added", subject |-> x.id,
           scope |-> x.environment] : x \in m.added.sourceBindings}
    \cup IF m.services # {}
         THEN {[kind |-> "service.removed", subject |-> s,
                scope |-> Unknown] : s \in m.services}
         ELSE {[kind |-> "environment.removed", subject |-> e,
                scope |-> Unknown] : e \in m.environments}

EventsOf(m) ==
    {[kind |-> "service.added", subject |-> x.id, scope |-> Unknown] :
        x \in m.added.services}
    \cup {[kind |-> "environment.added", subject |-> x.id,
           scope |-> x.service] : x \in m.added.environments}
    \cup {[kind |-> "credentialRef.added", subject |-> x.id,
           scope |-> x.environment] : x \in m.added.credentialRefs}
    \cup {[kind |-> "sourceBinding.added", subject |-> x.id,
           scope |-> x.environment] : x \in m.added.sourceBindings}
    \cup {[kind |-> "environment.removed", subject |-> e, scope |-> Unknown] :
        e \in m.environments}
    \cup {[kind |-> "service.removed", subject |-> s, scope |-> Unknown] :
        s \in m.services}

-----------------------------------------------------------------------------
(* mutate(): BEGIN, the lock, the load, the refusal or the write.  The     *)
(* transaction runs at READ COMMITTED, so each statement sees what was     *)
(* committed before it.                                                    *)

VARIABLES tables,   \* what is committed
          events,   \* registry_events
          issued,   \* committed mutations: they number the ids, which no
                    \* randomUUID repeats
          pc,       \* where a client's transaction is
          op,       \* the operation it is for
          seen,     \* the snapshot it loaded
          answer    \* what its last call came to

store == <<tables, events, issued>>
vars == <<tables, events, issued, pc, op, seen, answer>>

Idle ==
    /\ pc = [c \in Client |-> "idle"]
    /\ op = [c \in Client |-> None]
    /\ seen = [c \in Client |-> Empty]
    /\ answer = [c \in Client |-> "none"]

Init ==
    /\ tables = Empty
    /\ events = {}
    /\ issued = 0
    /\ Idle

\* The clients whose transaction holds the advisory lock.
Holders == {c \in Client : pc[c] \in {"locked", "loaded"}}

\* BEGIN, and the wait for the lock.
Mutate(c, o) ==
    /\ pc[c] = "idle"
    /\ issued < MaxIds
    /\ pc' = [pc EXCEPT ![c] = "waiting"]
    /\ op' = [op EXCEPT ![c] = o]
    /\ answer' = [answer EXCEPT ![c] = "none"]
    /\ UNCHANGED <<store, seen>>

\* Mutant: each client has a lock key of its own.
LockAlone(c) ==
    /\ pc[c] = "waiting"
    /\ pc' = [pc EXCEPT ![c] = "locked"]
    /\ UNCHANGED <<store, op, seen, answer>>

\* pg_advisory_xact_lock
Lock(c) ==
    /\ pc[c] = "waiting"
    /\ Holders = {}
    /\ pc' = [pc EXCEPT ![c] = "locked"]
    /\ UNCHANGED <<store, op, seen, answer>>

\* loadSnapshot: five statements that nothing can come between while the
\* lock is held.
Load(c) ==
    /\ pc[c] = "locked"
    /\ pc' = [pc EXCEPT ![c] = "loaded"]
    /\ seen' = [seen EXCEPT ![c] = tables]
    /\ UNCHANGED <<store, op, answer>>

\* The transaction is over, its lock released and its client released.
Ends(c, result) ==
    /\ pc' = [pc EXCEPT ![c] = "idle"]
    /\ op' = [op EXCEPT ![c] = None]
    /\ seen' = [seen EXCEPT ![c] = Empty]
    /\ answer' = [answer EXCEPT ![c] = result]

Proposed(c) == Outcome(seen[c], op[c], issued + 1)

Acceptable(c) ==
    /\ ~Conflict(seen[c], op[c])
    /\ ~Absent(seen[c], op[c])
    /\ Valid(Changed(seen[c], Proposed(c)))

\* Mutant: no ROLLBACK, and the operation is tried again in the transaction.
RefuseInsideTheLock(c) ==
    /\ pc[c] = "loaded"
    /\ ~Acceptable(c)
    /\ pc' = [pc EXCEPT ![c] = "locked"]
    /\ answer' = [answer EXCEPT ![c] = "refused"]
    /\ UNCHANGED <<store, op, seen>>

\* A typed refusal, and ROLLBACK.
Refuse(c) ==
    /\ pc[c] = "loaded"
    /\ ~Acceptable(c)
    /\ Ends(c, "refused")
    /\ UNCHANGED store

\* COMMIT.  The caller may lose the connection before it hears of it.
Committed(c, m) ==
    /\ tables' = Changed(tables, m)
    /\ events' = events \cup EventsOf(m)
    /\ issued' = issued + 1
    /\ \E result \in {"done", "lost"} : Ends(c, result)

\* The rows and the events, unless the tables refuse the rows: then the
\* caller gets the bare database error, and ROLLBACK.
Write(c) ==
    /\ pc[c] = "loaded"
    /\ Acceptable(c)
    /\ IF Constraints(Changed(tables, Proposed(c)))
       THEN Committed(c, Proposed(c))
       ELSE Ends(c, "constraint") /\ UNCHANGED store

\* The process dies or the connection breaks: PostgreSQL rolls back.
Lose(c) ==
    /\ pc[c] # "idle"
    /\ Ends(c, "lost")
    /\ UNCHANGED store

Transact(c) == Lock(c) \/ Load(c) \/ Refuse(c) \/ Write(c)

\* Clients may stop asking.
Rest ==
    /\ issued >= MaxIds
    /\ \A c \in Client : pc[c] = "idle"
    /\ UNCHANGED vars

Next ==
    \/ \E c \in Client : \/ \E o \in Offered : Mutate(c, o)
                        \/ Transact(c)
                        \/ Lose(c)
    \/ Rest

\* PostgreSQL hands a lock to its waiters in turn, and a client that holds it
\* runs on or loses its connection.
Fairness ==
    \A c \in Client : /\ SF_vars(Lock(c))
                      /\ WF_vars(Load(c) \/ Refuse(c) \/ Write(c))

Spec == Init /\ [][Next]_vars
FairSpec == Spec /\ Fairness

-----------------------------------------------------------------------------
(* Properties.                                                             *)

TypeOK ==
    /\ tables \in Snapshot
    /\ events \subseteq Event
    /\ issued \in Nat
    /\ pc \in [Client -> {"idle", "waiting", "locked", "loaded"}]
    /\ op \in [Client -> Operation \cup {None}]
    /\ \A c \in Client : op[c] = None <=> pc[c] = "idle"
    /\ seen \in [Client -> Snapshot]
    /\ answer \in [Client -> {"none", "done", "refused", "constraint", "lost"}]

\* The committed registry satisfies RegistrySnapshotSchema, the rules no
\* database constraint checks included, whatever clients change at once.
RegistryIsValid == Valid(tables)

\* "Never the bare database CHECK/FK error those same constraints would
\* otherwise raise": what was validated in memory the tables accept.
RefusalsAreTyped == \A c \in Client : answer[c] # "constraint"

SubjectsOf(kind) == {e.subject : e \in {f \in events : f.kind = kind}}

\* registry_events alone tell which services, environments, credentials and
\* bindings are there: each cascade of a removal is written down.
EventsTellTheRegistry ==
    LET gone == SubjectsOf("environment.removed")
        Kept(kind) ==
            {e.subject : e \in {f \in events : /\ f.kind = kind
                                              /\ f.scope \notin gone}}
    IN  /\ Ids(tables.services) =
              SubjectsOf("service.added") \ SubjectsOf("service.removed")
        /\ Ids(tables.environments) = SubjectsOf("environment.added") \ gone
        /\ Ids(tables.credentialRefs) = Kept("credentialRef.added")
        /\ Ids(tables.sourceBindings) = Kept("sourceBinding.added")

\* Every mutation comes to an end: no refusal, failure or lost connection
\* leaves the registry's lock behind.
MutationsEnd ==
    \A c \in Client : pc[c] = "waiting" ~> pc[c] = "idle"
=============================================================================
