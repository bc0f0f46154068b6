--------------------------- MODULE MCSendPipeline ---------------------------
(* Bounded instance of SendPipeline: the producers submit MaxSubmitted     *)
(* messages at most.                                                       *)
EXTENDS SendPipeline

CONSTANT MaxSubmitted

Submitted ==
  Len(ordered) + Len(to_ordering) + (IF ordering_pc = "send" THEN 1 ELSE 0)

MCNext == (Submitted < MaxSubmitted /\ Submit) \/ Pipeline

MCSpec == Init /\ [][MCNext]_pipelineVars
=============================================================================
