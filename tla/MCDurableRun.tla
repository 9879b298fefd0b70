----------------------------- MODULE MCDurableRun -----------------------------
(* Instances of DurableRun for TLC. *)
EXTENDS DurableRun, TLC

\* The ids are interchangeable: no action or property tells two of them apart.
MCSymmetry == Permutations(Worker) \cup Permutations(Call)
              \cup Permutations(Result) \cup Permutations(Input)

=============================================================================
