------------------------------ MODULE ModelSpend ------------------------------
(***************************************************************************)
(* Model calls and what they may cost: the usage ledger                    *)
(* (packages/roles/src/model-usage-ledger.ts) as the reference port drives *)
(* it (packages/roles/src/reference-model-port.ts).  A call reserves       *)
(* before it is sent and records once its answer is read; a call that      *)
(* fails in between was reserved for and is never recorded.  The port's    *)
(* callers wait for one call before they make the next, and each asks for  *)
(* the same number of output tokens.  The provider is external.            *)
(***************************************************************************)
EXTENDS Naturals, Sequences

CONSTANTS MaxCalls,   \* the ledger's cap on calls
          MaxOutput,  \* its cap on output tokens, or Absent: a caller that
                      \* declares no cap is not bounded by tokens
          PerCall,    \* DEFAULT_MAX_OUTPUT_TOKENS, what a call asks for
          Absent

ASSUME MaxCallsAssumption == MaxCalls \in Nat
ASSUME PerCallAssumption == PerCall \in Nat
ASSUME MaxOutputAssumption == MaxOutput \in Nat \/ MaxOutput = Absent

VARIABLES reserved,        \* calls let through, the failed ones too
          calls,           \* completions reported
          output,          \* output tokens of the completions
          reservedOutput,  \* output tokens held for calls
          pending,         \* the estimates held, oldest first
          sent,            \* is a request with the provider?
          failed           \* history: calls that were sent and not recorded

spendVars == <<reserved, calls, output, reservedOutput, pending, sent, failed>>

SpendInit ==
    /\ reserved = 0
    /\ calls = 0
    /\ output = 0
    /\ reservedOutput = 0
    /\ pending = <<>>
    /\ sent = FALSE
    /\ failed = 0

\* Mutant: the budget is compared with what was recorded only.
AffordsRecorded ==
    \/ MaxOutput = Absent
    \/ MaxOutput # 0 /\ output + PerCall <= MaxOutput

\* A cap of zero forbids the call that asks for nothing, too.
Affords ==
    \/ MaxOutput = Absent
    \/ MaxOutput # 0 /\ output + reservedOutput + PerCall <= MaxOutput

Grants == reserved < MaxCalls /\ Affords

\* reserve(), and the request leaves.
Reserve ==
    /\ ~sent
    /\ Grants
    /\ sent' = TRUE
    /\ reserved' = reserved + 1
    /\ IF MaxOutput = Absent
       THEN UNCHANGED <<reservedOutput, pending>>
       ELSE /\ reservedOutput' = reservedOutput + PerCall
            /\ pending' = Append(pending, PerCall)
    /\ UNCHANGED <<calls, output, failed>>

\* The oldest estimate goes, whichever call it was made for.
Retires(used) ==
    LET held == IF pending = <<>> THEN 0 ELSE Head(pending)
    IN  /\ pending' = IF pending = <<>> THEN pending ELSE Tail(pending)
        /\ reservedOutput' =
              IF held < reservedOutput THEN reservedOutput - held ELSE 0

\* A readable answer; the provider keeps to max_tokens.
RecordUsage(used) ==
    /\ sent
    /\ calls < MaxCalls
    /\ sent' = FALSE
    /\ calls' = calls + 1
    /\ reserved' = IF reserved <= calls THEN calls + 1 ELSE reserved
    /\ output' = output + used
    /\ Retires(used)
    /\ UNCHANGED failed

\* A transport error or timeout, a refusal, an answer without content or
\* counts: ModelCompletionError, and no second try.
CallFails ==
    /\ sent
    /\ sent' = FALSE
    /\ failed' = failed + 1
    /\ UNCHANGED <<reserved, calls, output, reservedOutput, pending>>

SpendNext == Reserve \/ (\E used \in 0..PerCall : RecordUsage(used)) \/ CallFails

SpendSpec == SpendInit /\ [][SpendNext]_spendVars

-----------------------------------------------------------------------------

SpendTypeOK ==
    /\ reserved \in Nat
    /\ calls \in Nat
    /\ output \in Nat
    /\ reservedOutput \in Nat
    /\ pending \in Seq(Nat)
    /\ sent \in BOOLEAN
    /\ failed \in Nat

\* "A pessimistic estimate can only refuse EARLY, never late" (reserve() in
\* model-usage-ledger.ts): if the provider bills every failed call and the one
\* under way for all they asked for, the bill is still within both caps,
\* although an answer gives back another call's estimate.
NeverLate ==
    LET open == IF sent THEN 1 ELSE 0
    IN  /\ calls + failed + open = reserved
        /\ reserved <= MaxCalls
        /\ MaxOutput # Absent =>
              output + PerCall * (failed + open) <= MaxOutput

=============================================================================
