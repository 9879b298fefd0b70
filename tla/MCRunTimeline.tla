----------------------------- MODULE MCRunTimeline -----------------------------
(* Instances of the run timeline and its readers for TLC. *)
EXTENDS RunTimeline
=============================================================================
