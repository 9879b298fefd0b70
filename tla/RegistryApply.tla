---------------------------- MODULE RegistryApply ----------------------------
(***************************************************************************)
(* `aic apply` (apps/cli/src/commands/apply.ts): reads the registry once,  *)
(* then walks the manifest in document order and creates, one transaction  *)
(* each, what the snapshot lacks.  Several applies of one manifest run     *)
(* beside each other and beside the registry's other clients.              *)
(***************************************************************************)
EXTENDS Registry, Sequences

CONSTANTS Applier,      \* the clients that are an apply
          Overwriting,  \* those of them called with --overwrite
          Manifest      \* the entities, in document order, as the calls that
                        \* would create them

ASSUME ApplierAssumption ==
    /\ Overwriting \subseteq Applier
    /\ Applier \subseteq Client
    /\ Manifest \in Seq(Operation)

\* The calls that put an entity into the registry.
Additions == {"addService", "addEnvironment", "addCredentialRef", "addSourceBinding"}

SameScope(o, p) == o.service = p.service /\ o.environment = p.environment

\* The same name in the same place: what a second call would conflict with.
SameEntity(o, p) ==
    /\ o.kind \in Additions /\ o.kind = p.kind
    /\ o.service = p.service
    /\ o.kind # "addService" => o.environment = p.environment
    /\ o.kind \in {"addCredentialRef", "addSourceBinding"} => o.name = p.name

\* The call p declares the credential that o names, with this access.
Declares(p, o, name, access) ==
    /\ p.kind = "addCredentialRef" /\ SameScope(p, o)
    /\ p.name = name /\ p.access = access

\* parseManifest: siblings have names of their own, and what is nested is walked
\* after what it is nested in.
ManifestIsNested ==
    /\ \A i, j \in DOMAIN Manifest : SameEntity(Manifest[i], Manifest[j]) => i = j
    /\ \A i \in DOMAIN Manifest :
          /\ Manifest[i].kind \in Additions \cup {"setActionPolicy"}
          /\ Manifest[i].kind # "addService" =>
                \E j \in 1..(i - 1) : /\ Manifest[j].kind = "addService"
                                      /\ Manifest[j].service = Manifest[i].service
          /\ Manifest[i].kind \notin {"addService", "addEnvironment"} =>
                \E j \in 1..(i - 1) : /\ Manifest[j].kind = "addEnvironment"
                                      /\ SameScope(Manifest[j], Manifest[i])

\* What parseManifest leaves to the registry: aliases of one service only,
\* secrets of one access, and credentials of the same environment.
ManifestIsAcceptable ==
    /\ \A i, j \in DOMAIN Manifest :
          /\ Manifest[i].kind = "addService" /\ Manifest[j].kind = "addService"
          /\ i # j
          => Manifest[i].aliases \cap Manifest[j].aliases = {}
    /\ \A i, j \in DOMAIN Manifest :
          /\ Manifest[i].kind = "addCredentialRef"
          /\ Manifest[j].kind = "addCredentialRef"
          /\ SameScope(Manifest[i], Manifest[j])
          /\ Manifest[i].access = "write" /\ Manifest[j].access = "read"
          => Manifest[i].secret # Manifest[j].secret
    /\ \A i \in DOMAIN Manifest :
          /\ Manifest[i].kind = "addSourceBinding" /\ Manifest[i].ref # None =>
                \E j \in 1..(i - 1) :
                    Declares(Manifest[j], Manifest[i], Manifest[i].ref, "read")
          /\ Manifest[i].kind = "setActionPolicy" =>
                \A name \in Manifest[i].refs : \E j \in 1..(i - 1) :
                    Declares(Manifest[j], Manifest[i], name, "write")

\* A manifest that does not parse is refused before the first call.
ASSUME ManifestAssumption == ManifestIsNested

VARIABLES phase,        \* where an apply is
          plan,         \* the snapshot it plans over
          at,           \* the entity of the manifest it is at
          interrupted   \* was an apply cut off, or something removed?

applyVars == <<phase, plan, at, interrupted>>
applyAll == <<vars, applyVars>>

NoApply ==
    /\ phase = [a \in Applier |-> "ready"]
    /\ plan = [a \in Applier |-> Empty]
    /\ at = [a \in Applier |-> 1]
    /\ interrupted = FALSE

ApplyInit == Init /\ NoApply

Policy(r, o) == InScope(r.actionPolicies, EnvironmentOf(r, o))

\* The entity is in the snapshot, under its names.
Existing(r, o) == Conflict(r, o) \/ (o.kind = "setActionPolicy" /\ Policy(r, o) # {})

\* A policy that is there has other types or other credentials, by name.
PolicyDiffers(r, o) ==
    /\ o.kind = "setActionPolicy"
    /\ \E x \in Policy(r, o) :
          \/ x.allow # o.allow
          \/ {y.name : y \in {z \in r.credentialRefs : z.id \in x.refs}} # o.refs

\* store.snapshot(): REPEATABLE READ, one instant of all tables.
Start(a) ==
    /\ phase[a] = "ready"
    /\ phase' = [phase EXCEPT ![a] = "walking"]
    /\ plan' = [plan EXCEPT ![a] = tables]
    /\ UNCHANGED <<vars, at, interrupted>>

Entity(a) == Manifest[at[a]]

\* Mutant: what belongs to an environment that this walk created is looked up
\* in the snapshot, not found there and skipped.
CreatesUnderKnownEnvironments(a) ==
    /\ ~Existing(plan[a], Entity(a))
    /\ \/ Entity(a).kind \in {"addService", "addEnvironment"}
       \/ EnvironmentOf(plan[a], Entity(a)) # Unknown

Creates(a) ==
    \/ ~Existing(plan[a], Entity(a))
    \/ a \in Overwriting /\ PolicyDiffers(plan[a], Entity(a))

\* unchanged or drift: a row of the report and no call.
Pass(a) ==
    /\ phase[a] = "walking"
    /\ at[a] \in DOMAIN Manifest
    /\ ~Creates(a)
    /\ at' = [at EXCEPT ![a] = @ + 1]
    /\ UNCHANGED <<vars, phase, plan, interrupted>>

\* created or updated: await the store's call.
Send(a) ==
    /\ phase[a] = "walking"
    /\ at[a] \in DOMAIN Manifest
    /\ Creates(a)
    /\ Mutate(a, Entity(a))
    /\ phase' = [phase EXCEPT ![a] = "calling"]
    /\ UNCHANGED <<plan, at, interrupted>>

Resume(a) ==
    /\ phase[a] = "calling"
    /\ pc[a] = "idle"
    /\ answer[a] = "done"
    /\ phase' = [phase EXCEPT ![a] = "walking"]
    /\ at' = [at EXCEPT ![a] = @ + 1]
    /\ UNCHANGED <<vars, plan, interrupted>>

\* The process is over.
Stops(a, as) ==
    /\ phase' = [phase EXCEPT ![a] = as]
    /\ plan' = [plan EXCEPT ![a] = Empty]
    /\ at' = [at EXCEPT ![a] = 1]
    /\ UNCHANGED vars

\* The call threw, and so does the command: nothing is undone.
Fail(a) ==
    /\ phase[a] = "calling"
    /\ pc[a] = "idle"
    /\ answer[a] # "done"
    /\ Stops(a, "failed")
    /\ interrupted' = (interrupted \/ answer[a] = "lost")

Finish(a) ==
    /\ phase[a] = "walking"
    /\ at[a] \notin DOMAIN Manifest
    /\ Stops(a, "finished")
    /\ UNCHANGED interrupted

\* The process is killed between two calls.
Kill(a) ==
    /\ phase[a] = "walking"
    /\ Stops(a, "failed")
    /\ interrupted' = TRUE

\* The operator runs the command again.
Rerun(a) ==
    /\ phase[a] \in {"finished", "failed"}
    /\ phase' = [phase EXCEPT ![a] = "ready"]
    /\ UNCHANGED <<vars, plan, at, interrupted>>

Removal == {"removeEnvironment", "removeService"}

\* The other clients, and the transactions of all of them.
StoreStep(c) ==
    \/ /\ \E o \in Offered : c \notin Applier /\ Mutate(c, o)
       /\ UNCHANGED applyVars
    \/ /\ Transact(c) \/ Lose(c)
       /\ interrupted' = (interrupted \/ (op[c] # None /\ op[c].kind \in Removal))
       /\ UNCHANGED <<phase, plan, at>>

ApplyNext ==
    \/ \E a \in Applier : \/ Start(a) \/ Pass(a) \/ Send(a) \/ Resume(a)
                          \/ Fail(a) \/ Finish(a) \/ Kill(a) \/ Rerun(a)
    \/ \E c \in Client : StoreStep(c)

ApplySpec == ApplyInit /\ [][ApplyNext]_applyAll

-----------------------------------------------------------------------------
(* Properties.                                                             *)

\* Applies of one manifest that race for an entity do not all give up: the
\* loser's conflict is another's progress.  When all have stopped, none cut
\* off and nothing removed beside them, the whole manifest is there.
OneApplyGetsThrough ==
    \/ interrupted
    \/ \E a \in Applier : phase[a] \notin {"finished", "failed"}
    \/ \A i \in DOMAIN Manifest : Existing(tables, Manifest[i])

=============================================================================
