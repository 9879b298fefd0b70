--------------------------- MODULE IncidentIntake ---------------------------
(***************************************************************************)
(* `aic incident start` (apps/cli/src/commands/incident.ts) and            *)
(* startIncident (packages/persistence/src/incident-store.ts): names are   *)
(* resolved over one registry snapshot, the scope is looked up again when  *)
(* the store's transaction runs, and the unique idempotency key decides    *)
(* which of several starts creates the incident.  The registry changes     *)
(* beside all of it: this transaction does not take the registry's lock.   *)
(***************************************************************************)
EXTENDS Registry

CONSTANTS Starter,    \* starts of an incident, each a process of its own
          Basis,      \* what an intake is recognised by: a caller's key, an
                      \* external reference or a fifteen-minute window
          MaxStarts   \* bound: starts of one starter, retries included

ASSUME MaxStartsAssumption == MaxStarts \in Nat

VARIABLES incidents,  \* the committed rows
          spc,        \* where a start is
          intake,     \* its scope and basis
          known,      \* the service ids its first SELECT returned
          starts,     \* how many times it was run: with the starter, the
                      \* id generateId() gave this start
          gone,       \* scopes removed before its transaction began
          replies     \* every answer a caller got

startVars == <<incidents, spc, intake, known, starts, gone, replies>>
startAll == <<vars, startVars>>

\* deriveIdempotencyKey: the basis, qualified by the scope's ids.
Key == [service : Id, environment : Id, basis : Basis]

Incident == [id : Starter \X Nat, key : Key]

NoStart ==
    /\ spc = [i \in Starter |-> "off"]
    /\ intake = [i \in Starter |-> None]
    /\ known = [i \in Starter |-> {}]
    /\ starts = [i \in Starter |-> 0]
    /\ gone = [i \in Starter |-> {}]
    /\ replies = {}

StartInit == Init /\ incidents = {} /\ NoStart

Goes(i, to) == spc' = [spc EXCEPT ![i] = to]

\* The command reads the registry's snapshot and resolves the names; a scope
\* that does not resolve ends it there.
Resolve(i, s, e, b) ==
    /\ spc[i] = "off"
    /\ starts[i] < MaxStarts
    /\ LET o == [service |-> s, environment |-> e]
       IN  /\ EnvironmentOf(tables, o) # Unknown
           /\ intake' = [intake EXCEPT ![i] =
                 [service |-> ServiceOf(tables, o),
                  environment |-> EnvironmentOf(tables, o), basis |-> b]]
    /\ starts' = [starts EXCEPT ![i] = @ + 1]
    /\ Goes(i, "resolved")
    /\ UNCHANGED <<vars, incidents, known, gone, replies>>

Removed ==
    {e.subject : e \in {f \in events : f.kind = "environment.removed"}}

\* BEGIN, and the first SELECT of loadScopeSnapshot.
SelectServices(i) ==
    /\ spc[i] = "resolved"
    /\ known' = [known EXCEPT ![i] = Ids(tables.services)]
    /\ gone' = [gone EXCEPT ![i] = Removed]
    /\ Goes(i, "selecting")
    /\ UNCHANGED <<vars, incidents, intake, starts, replies>>

\* The second SELECT sees what was committed in between; then
\* checkPrimaryScope.
ScopeKnown(i) ==
    /\ intake[i].service \in known[i]
    /\ \E x \in tables.environments : /\ x.id = intake[i].environment
                                      /\ x.service = intake[i].service

Off(i) ==
    /\ Goes(i, "off")
    /\ intake' = [intake EXCEPT ![i] = None]
    /\ known' = [known EXCEPT ![i] = {}]
    /\ gone' = [gone EXCEPT ![i] = {}]

SelectEnvironments(i) ==
    /\ spc[i] = "selecting"
    /\ IF ScopeKnown(i)
       THEN Goes(i, "scoped") /\ UNCHANGED <<intake, known, gone>>
       ELSE Off(i)
    /\ UNCHANGED <<vars, incidents, starts, replies>>

RowOf(i) == [id |-> <<i, starts[i]>>, key |-> intake[i]]

\* Mutant: no unique index, so nothing waits.
TakenByNobody(key) == FALSE

\* An uncommitted row of this key: the unique index makes others wait.
Taken(key) ==
    \E i \in Starter : spc[i] = "inserted" /\ intake[i] = key
Stored(key) == \E x \in incidents : x.key = key

\* INSERT ... ON CONFLICT (idempotency_key) DO NOTHING
Insert(i) ==
    /\ spc[i] = "scoped"
    /\ ~Taken(intake[i])
    /\ IF Stored(intake[i]) THEN Goes(i, "conflict") ELSE Goes(i, "inserted")
    /\ UNCHANGED <<vars, incidents, intake, known, starts, gone, replies>>

\* The caller hears of it, or has lost the connection.
Replies(reply) == replies' \in {replies, replies \cup {reply}}

\* COMMIT of the row.
Create(i) ==
    /\ spc[i] = "inserted"
    /\ incidents' = incidents \cup {RowOf(i)}
    /\ Replies([incident |-> RowOf(i), created |-> TRUE])
    /\ Off(i)
    /\ UNCHANGED <<vars, starts>>

\* The SELECT by key, and COMMIT.
Answer(i) ==
    /\ spc[i] = "conflict"
    /\ \E x \in incidents :
          /\ x.key = intake[i]
          /\ Replies([incident |-> x, created |-> FALSE])
    /\ Off(i)
    /\ UNCHANGED <<vars, incidents, starts>>

\* The process dies: PostgreSQL rolls its transaction back.
Die(i) ==
    /\ spc[i] # "off"
    /\ Off(i)
    /\ UNCHANGED <<vars, incidents, starts, replies>>

StartStep(i) ==
    \/ \E s \in Service, e \in Environment, b \in Basis : Resolve(i, s, e, b)
    \/ SelectServices(i) \/ SelectEnvironments(i)
    \/ Insert(i) \/ Create(i) \/ Answer(i) \/ Die(i)

StartNext ==
    \/ Next /\ UNCHANGED startVars
    \/ \E i \in Starter : StartStep(i)

StartSpec == StartInit /\ [][StartNext]_startAll

-----------------------------------------------------------------------------
(* Properties.                                                             *)

\* Starts with the same key, concurrent, repeated after an answer or retried
\* after a lost one, are all told the same incident, and it is stored.  A scope
\* that was removed before the store's transaction began is refused, though
\* the command resolved it while it was there.
StartsAgree ==
    /\ \A x, y \in replies :
          x.incident.key = y.incident.key => x.incident = y.incident
    /\ \A x \in replies : x.incident \in incidents
    /\ \A i \in Starter : spc[i] \in {"scoped", "inserted", "conflict"} =>
          intake[i].environment \notin gone[i]
=============================================================================
