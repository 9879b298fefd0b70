-------------------------------- MODULE Tools --------------------------------
(***************************************************************************)
(* The tools as one specification.  A behaviour is either a process that   *)
(* constructs its executor and, with another one, uses the registry        *)
(* (BoundExecutor, BoundSources), or one call of the GitHub adapter in     *)
(* detail (GithubSource), of which BoundSources!NextPage and               *)
(* AdapterAnswers are the outside.                                         *)
(***************************************************************************)
EXTENDS BoundExecutor, GithubSource

VARIABLE part  \* which of the two

toolVars == <<sourceVars, buildVars, githubVars, part>>

ToolsInit ==
    /\ part \in {"executor", "github"}
    /\ GithubInit /\ (part = "executor" => call = "check")
    /\ BuildInit /\ (part = "github" => options = CHOOSE o \in Options : TRUE)

InExecutor(A) == part = "executor" /\ A /\ UNCHANGED <<githubVars, part>>
InGithub(A) == part = "github" /\ A /\ UNCHANGED <<sourceVars, buildVars, part>>

ToolsNext ==
    \/ InExecutor(BuildStep)
    \/ InExecutor(stage = "built" /\ SourceNext /\ UNCHANGED buildVars)
    \/ InGithub(GithubNext)

\* Timers fire, the code of a call goes on, and the file system answers.
\* Services need not answer, and nothing makes a process ask.
ToolsSpec ==
    /\ ToolsInit
    /\ [][ToolsNext]_toolVars
    /\ \A p \in Process :
          WF_toolVars(InExecutor(CallStep(p) /\ UNCHANGED buildVars))
    /\ WF_toolVars(InGithub(CodeStep))
    /\ \A s \in Slot : WF_toolVars(InGithub(Deadline(s)))

\* A call returns, whatever its service does: the registry's time limit runs
\* over all the adapter's pages, and the adapter's own deadlines over the
\* headers and the body of each request.
EveryCallReturns ==
    /\ \A p \in Process : Busy(p) ~> ~Busy(p)
    /\ part = "github" ~> answer # Nothing

=============================================================================
