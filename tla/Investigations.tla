---------------------------- MODULE Investigations ----------------------------
(***************************************************************************)
(* An investigation from its two ends: what its nodes make of evidence     *)
(* (EvidencePipeline), and the thread its callers drive and answer         *)
(* (ReviewedThread).  A behaviour is about one of them, the other rests.   *)
(***************************************************************************)
EXTENDS EvidencePipeline, ReviewedThread

VARIABLE subject

investigationVars == <<vars, threadVars, subject>>

InvestigationsInit ==
    /\ PipelineInit
    /\ ThreadInit
    /\ subject \in {"evidence", "thread"}
    /\ subject = "thread" =>
          /\ port = "bound"
          /\ limits = CHOOSE l \in Limits : TRUE
          /\ st.hypotheses = CHOOSE i \in Initial : TRUE

InvestigationsNext ==
    /\ \/ subject = "evidence" /\ PipelineNext /\ UNCHANGED threadVars
       \/ subject = "thread" /\ ThreadNext /\ UNCHANGED vars
    /\ UNCHANGED subject

InvestigationsSpec ==
    InvestigationsInit /\ [][InvestigationsNext]_investigationVars

=============================================================================
