----------------------------- MODULE GithubSource -----------------------------
(***************************************************************************)
(* One call of the GitHub adapter (packages/tools/src/github-source.ts):   *)
(* check(), with its two probes at once, or execute(), page by page.  Each *)
(* request has a deadline timer that stays armed until its body is read or *)
(* let go; the timer, the answers and the call's own code interleave.      *)
(* The service is external: it answers anything, late or never.            *)
(***************************************************************************)
EXTENDS Naturals

CONSTANTS PageBudget,  \* budgetHints.maxPages
          Nothing

ASSUME PageBudgetAssumption == PageBudget \in Nat \ {0}

\* What a call may end with.
Ending == {"throws", "ready", "ok", "denied", "rate_limited", "adapter_error",
           "unavailable", "budget_exceeded"}

ASSUME EndingAssumption == Nothing \notin Ending

VARIABLES call,      \* "check" or "execute"
          request,   \* the call's requests and the state of each
          expiring,  \* the repository's answer named the token's expiration
          page,      \* pages read
          answer,    \* the call's outcome
          cut        \* history: the deadline ended the reading of a body

githubVars == <<call, request, expiring, page, answer, cut>>

Slot == {"main", "hooks", "secrets"}

Status == {"200", "401", "403", "403 limited", "404", "422", "429", "503"}

\* "at": not sent, waiting for headers, headers there, body being read, read
\* to its end, ended by the deadline, let go, rejected.
Request ==
    [at : {"unsent", "sent", "headers", "reading", "whole", "cut", "closed",
           "failed"},
     timer : BOOLEAN, fired : BOOLEAN, status : Status]

Unsent == [at |-> "unsent", timer |-> FALSE, fired |-> FALSE, status |-> "200"]
Sent == [Unsent EXCEPT !.at = "sent", !.timer = TRUE]
LetGo(r) == [r EXCEPT !.at = "closed", !.timer = FALSE]

ReasonForStatus(s) ==
    CASE s = "401" -> "denied"
      [] s = "403" -> "denied"
      [] s \in {"403 limited", "429"} -> "rate_limited"
      [] s = "422" -> "adapter_error"
      [] OTHER -> "unavailable"

GithubInit ==
    /\ call \in {"check", "execute"}
    /\ request = [s \in Slot |-> IF s = "main" THEN Sent ELSE Unsent]
    /\ expiring = FALSE
    /\ page = 0
    /\ answer = Nothing
    /\ cut = FALSE

-----------------------------------------------------------------------------
(* performRequest: the fetch, its timer and the reading of the body        *)

Becomes(s, at) == request' = [request EXCEPT ![s].at = at]

Headers(s) ==
    /\ request[s].at = "sent"
    /\ \E status \in Status :
          request' = [request EXCEPT ![s].at = "headers", ![s].status = status]
    /\ UNCHANGED <<call, expiring, page, answer, cut>>

\* The connection, or a redirect.
FetchFails(s) ==
    /\ request[s].at = "sent"
    /\ request' = [request EXCEPT ![s].at = "failed", ![s].timer = FALSE]
    /\ UNCHANGED <<call, expiring, page, answer, cut>>

\* The timer aborts the fetch and cancels the reader, if there is one.
Deadline(s) ==
    /\ request[s].timer
    /\ request' = [request EXCEPT
          ![s].timer = FALSE,
          ![s].fired = TRUE,
          ![s].at = CASE @ = "sent" -> "failed" [] @ = "reading" -> "cut"
                      [] OTHER -> @]
    /\ cut' = (cut \/ request[s].at = "reading")
    /\ UNCHANGED <<call, expiring, page, answer>>

BodyEnds(s) ==
    /\ request[s].at = "reading"
    /\ Becomes(s, "whole")
    /\ UNCHANGED <<call, expiring, page, answer, cut>>

-----------------------------------------------------------------------------

CallEnds(o) == answer' = o

Active(c) == call = c /\ answer = Nothing

\* The call throws: whoever called the adapter classifies it.
MainFailed ==
    /\ answer = Nothing
    /\ request["main"].at = "failed"
    /\ CallEnds("throws")
    /\ UNCHANGED <<call, request, expiring, page, cut>>

\* check(): a refusal, or the two probes.
JudgeRepository ==
    /\ Active("check")
    /\ request["main"].at = "headers"
    /\ IF request["main"].status = "200"
       THEN /\ request' = [s \in Slot |-> IF s = "main" THEN LetGo(request[s]) ELSE Sent]
            /\ expiring' \in BOOLEAN
            /\ UNCHANGED answer
       ELSE /\ request' = [request EXCEPT !["main"] = LetGo(@)]
            /\ CallEnds(ReasonForStatus(request["main"].status))
            /\ UNCHANGED expiring
    /\ UNCHANGED <<call, page, cut>>

Probes == {"hooks", "secrets"}

\* 403 or 404: the token cannot read beyond its scope.
Withheld(s) == request[s].status \in {"403", "403 limited", "404"}

Privilege ==
    CASE \E s \in Probes : ReasonForStatus(request[s].status) = "rate_limited" ->
            "rate_limited"
      [] ~expiring \/ \E s \in Probes : ~Withheld(s) -> "denied"
      [] OTHER -> "ready"

Judges ==
    /\ request' = [s \in Slot |-> IF request[s].at = "headers" THEN LetGo(request[s])
                                  ELSE request[s]]
    /\ CallEnds(IF \E s \in Probes : request[s].at = "failed" THEN "throws"
                                                             ELSE Privilege)
    /\ UNCHANGED <<call, expiring, page, cut>>

\* Mutant: Promise.all, which is rejected by the first probe that fails.
JudgeProbesAtFirst ==
    /\ Active("check")
    /\ \/ \A s \in Probes : request[s].at = "headers"
       \/ \E s \in Probes : request[s].at = "failed"
    /\ Judges

\* Promise.allSettled: both have answered or failed.
JudgeProbes ==
    /\ Active("check")
    /\ \A s \in Probes : request[s].at \in {"headers", "failed"}
    /\ Judges

-----------------------------------------------------------------------------
(* execute()                                                               *)

\* A refusal by status, or the reader; the deadline may have passed between
\* the headers and the reader, and then the body was aborted.
OpenPage ==
    /\ Active("execute")
    /\ request["main"].at = "headers"
    /\ IF request["main"].status = "200"
       THEN /\ Becomes("main", IF request["main"].fired THEN "cut" ELSE "reading")
            /\ UNCHANGED answer
       ELSE /\ request' = [request EXCEPT !["main"] = LetGo(@)]
            /\ CallEnds(ReasonForStatus(request["main"].status))
    /\ cut' = (cut \/ (request["main"].status = "200" /\ request["main"].fired))
    /\ UNCHANGED <<call, expiring, page>>

\* The running total passes the cap: the reader is cancelled.
OverCap ==
    /\ Active("execute")
    /\ request["main"].at = "reading"
    /\ request' = [request EXCEPT !["main"] = LetGo(@)]
    /\ CallEnds("budget_exceeded")
    /\ UNCHANGED <<call, expiring, page, cut>>

\* What may follow a page: it is not JSON; it is the last, or the budget's
\* last; its next link is no URL of this origin; or the next request.
AfterPage ==
    \/ /\ page' = page \/ (page' = page + 1 /\ page' < PageBudget)
       /\ CallEnds("adapter_error")
       /\ request' = [request EXCEPT !["main"] = LetGo(@)]
    \/ /\ page' = page + 1
       /\ CallEnds("ok")
       /\ request' = [request EXCEPT !["main"] = LetGo(@)]
    \/ /\ page' = page + 1
       /\ page' < PageBudget
       /\ request' = [request EXCEPT !["main"] = Sent]
       /\ UNCHANGED answer

\* Mutant: a reader that is cancelled reads as a body that ended.
TakePageUnasked ==
    /\ Active("execute")
    /\ request["main"].at \in {"whole", "cut"}
    /\ AfterPage
    /\ UNCHANGED <<call, expiring, cut>>

\* deadlineExceeded(): a body that ended after its deadline is not used.
TakePage ==
    /\ Active("execute")
    /\ request["main"].at \in {"whole", "cut"}
    /\ IF request["main"].fired
       THEN /\ request' = [request EXCEPT !["main"] = LetGo(@)]
            /\ CallEnds("throws")
            /\ UNCHANGED page
       ELSE AfterPage
    /\ UNCHANGED <<call, expiring, cut>>

CodeStep ==
    MainFailed \/ JudgeRepository \/ JudgeProbes \/ OpenPage \/ TakePage

GithubNext ==
    \/ CodeStep \/ OverCap
    \/ \E s \in Slot : Headers(s) \/ FetchFails(s) \/ Deadline(s) \/ BodyEnds(s)

GithubSpec == GithubInit /\ [][GithubNext]_githubVars

-----------------------------------------------------------------------------

\* When a call is over, none of its requests has a timer that is armed or a
\* body that nobody reads, whichever of them failed, was refused or cut.
NothingLeaks ==
    answer # Nothing =>
        \A s \in Slot : /\ ~request[s].timer
                        /\ request[s].at \in {"unsent", "closed", "failed"}

\* Pages are answered only if each of them was read to its end: a body that
\* the deadline cut is no shorter list of deployments.
PagesAreWhole == answer = "ok" => ~cut

=============================================================================
