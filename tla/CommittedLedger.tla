--------------------------- MODULE CommittedLedger ---------------------------
(***************************************************************************)
(* What durable run execution promises, without leases, locks or calls     *)
(* (docs/decisions/durable-run-execution.md, decisions 3, 4, 6 and 13, as  *)
(* the code keeps them): a run is written under one authority at a time,   *)
(* authorities are numbered and never return, at most MaxAuthority of them *)
(* are granted, a result is written once and by the authority of that      *)
(* moment, and results leave only after the run has ended.                 *)
(***************************************************************************)
EXTENDS Naturals

CONSTANTS Run, Key, Result, MaxAuthority, None

VARIABLES
    phase,      \* "open", "parked" (waits for a human) or "ended"
    authority,  \* the number of the authority in force, 0 for none
    granted,    \* how many authorities have been granted
    ledger      \* per run and key, None or the result and its writer

vars == <<phase, authority, granted, ledger>>

Init ==
    /\ phase = [r \in Run |-> "open"]
    /\ authority = [r \in Run |-> 0]
    /\ granted = [r \in Run |-> 0]
    /\ ledger = [r \in Run |-> [k \in Key |-> None]]

Grant(r) ==
    /\ phase[r] = "open"
    /\ authority[r] = 0
    /\ granted[r] < MaxAuthority
    /\ granted' = [granted EXCEPT ![r] = @ + 1]
    /\ authority' = [authority EXCEPT ![r] = granted[r] + 1]
    /\ UNCHANGED <<phase, ledger>>

\* One sweep may revoke several authorities at once.
Revoke(R) ==
    /\ \A r \in R : authority[r] # 0
    /\ authority' = [r \in Run |-> IF r \in R THEN 0 ELSE authority[r]]
    /\ UNCHANGED <<phase, granted, ledger>>

Write(r, k, v) ==
    /\ authority[r] # 0
    /\ ledger[r][k] = None
    /\ ledger' = [ledger EXCEPT ![r][k] = [value |-> v, by |-> authority[r]]]
    /\ UNCHANGED <<phase, authority, granted>>

\* The authority in force ends or parks the run, or the grants are used up.
Close(r, p) ==
    /\ phase[r] = "open"
    /\ authority[r] # 0 \/ (p = "ended" /\ granted[r] = MaxAuthority)
    /\ phase' = [phase EXCEPT ![r] = p]
    /\ authority' = [authority EXCEPT ![r] = 0]
    /\ UNCHANGED <<granted, ledger>>

Purge(r) ==
    /\ phase[r] = "ended"
    /\ ledger' = [ledger EXCEPT ![r] = [k \in Key |-> None]]
    /\ UNCHANGED <<phase, authority, granted>>

Next ==
    \/ \E R \in SUBSET Run : Revoke(R)
    \/ \E r \in Run :
         \/ Grant(r)
         \/ \E k \in Key, v \in Result : Write(r, k, v)
         \/ \E p \in {"parked", "ended"} : Close(r, p)
         \/ Purge(r)

Spec == Init /\ [][Next]_vars

=============================================================================
