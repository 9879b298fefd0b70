---------------------------- MODULE BoundExecutor ----------------------------
(***************************************************************************)
(* How a process comes by a registry: createBoundInvestigationExecutor     *)
(* (packages/tools/src/bound-investigation-executor.ts) checks its         *)
(* options, then every binding's shape, builds the adapters one by one     *)
(* with their secrets (adapter-catalog.ts, secret-resolver.ts), compares   *)
(* their versions and builds the route table.  The first process of a      *)
(* behaviour is built from any options and bindings of the instance; the   *)
(* ones after it are BoundSources!Boot, from options that pass.            *)
(***************************************************************************)
EXTENDS BoundSources, Sequences

CONSTANTS Bindings,  \* the lists of candidate bindings of the instance
          First      \* the process that is built in detail

VARIABLES options,  \* the caller's options, while they matter
          stage,    \* what the constructor is at, or its refusal
          built     \* the bindings whose adapter was built

buildVars == <<options, stage, built>>

Modes == {"live", "record", "replay", "no such mode"}

Options == [mode : Modes, budgets : BOOLEAN, store : BOOLEAN,
            bindings : Bindings]

\* A candidate binding; "holds" is what its secret's file holds.
Candidate ==
    [shaped : BOOLEAN, id : {"x", "y"}, adapter : {"lab", "github", "other"},
     config : BOOLEAN, credential : {None, "own", "foreign"},
     access : {"read", "write"}, holds : {"found", "absent", "unreadable"},
     expected : BOOLEAN, tool : {"t", "u"}]

ASSUME FirstAssumption == First \in Process
ASSUME BindingsAssumption == \A b \in Bindings : b \in Seq(Candidate)

BuildInit ==
    /\ SourceInit
    /\ options \in Options
    /\ stage = "options"
    /\ built = <<>>

Goes(to) == stage' = to

Refuses(reason) == Goes(reason) /\ UNCHANGED <<sourceVars, options, built>>

\* The refusals that need no binding.
OptionRefusal(o) ==
    CASE o.mode = "no such mode" -> "invalid-mode"
      [] ~o.budgets -> "invalid-budgets"
      [] o.mode # "live" /\ ~o.store -> "store-required"
      [] OTHER -> "shapes"

JudgeOptions == stage = "options" /\ Refuses(OptionRefusal(options))

\* The first binding of a list that is malformed or repeats an id.
BadShapes(bs) ==
    {i \in DOMAIN bs :
        ~bs[i].shaped \/ \E j \in 1..(i - 1) : bs[j].id = bs[i].id}

\* All of them, before the first adapter is built.
JudgeShapes ==
    /\ stage = "shapes"
    /\ Refuses(IF BadShapes(options.bindings) = {} THEN "building"
               ELSE "bad-binding")

\* createEvidenceSourceForBinding's refusals before it reads a secret, after
\* the executor's own comparison of the credential's environment.
EarlyRefusal(b) ==
    CASE b.credential = "foreign" -> "credential-environment-mismatch"
      [] b.adapter = "other" -> "unsupported-adapter"
      [] ~b.config -> "invalid-config"
      [] b.adapter = "github" /\ b.credential = None -> "missing-credential"
      [] b.adapter = "github" /\ b.access # "read" -> "credential-not-read"
      [] OTHER -> None

\* The next adapter; the lab's needs no secret.
BuildSource ==
    LET b == options.bindings[Len(built) + 1]
        reads == EarlyRefusal(b) = None /\ b.adapter = "github"
    IN  /\ stage = "building"
        /\ Len(built) < Len(options.bindings)
        /\ IF EarlyRefusal(b) # None THEN Goes(EarlyRefusal(b)) /\ UNCHANGED built
           ELSE IF reads /\ b.holds # "found"
           THEN Goes("secret-" \o b.holds) /\ UNCHANGED built
           ELSE built' = Append(built, b) /\ UNCHANGED stage
        /\ UNCHANGED <<sourceVars, options>>

\* Two bindings that list one read-only tool.
Ambiguous(bs) ==
    \E i, j \in DOMAIN bs : i # j /\ bs[i].tool = bs[j].tool

\* createBoundSourceRegistry's handshake, the route table, and the executor:
\* the process has its registry.
Assemble(a) ==
    /\ stage = "building"
    /\ Len(built) = Len(options.bindings)
    /\ IF \E i \in DOMAIN built : ~built[i].expected
       THEN Refuses("adapter-mismatch")
       ELSE IF Ambiguous(built) THEN Refuses("ambiguous-route")
       ELSE /\ Goes("built")
            /\ options' = None
            /\ built' = <<>>
            /\ Boot(First, options.mode, a)

BuildStep ==
    JudgeOptions \/ JudgeShapes \/ BuildSource \/ \E a \in Adapter : Assemble(a)

=============================================================================
