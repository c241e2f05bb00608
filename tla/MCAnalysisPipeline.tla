------------------------- MODULE MCAnalysisPipeline -------------------------
(* Instances of AnalysisPipeline for TLC. *)
EXTENDS AnalysisPipeline

Answer(faults, objective) == [faults |-> faults, objective |-> objective]

\* One answer of each sort that the checks tell apart.
EverySort ==
  {Answer({}, "none"), Answer({}, "listed"), Answer({}, "unlisted"),
   Answer({"schema"}, "listed"), Answer({"unsafe"}, "unlisted"),
   Answer({"provenance", "unsafe"}, "none"), Answer({"schema", "shape"}, "none")}

=============================================================================
