----------------------------- MODULE MCColdPath -----------------------------
(* Model-checking instances of ColdPath: two assemblies of a triage file, the reports and *)
(* fallbacks of a diagnosis, one body for the later stages, whose hashes tell them apart. *)
(* linkage.json and labels.json take the same path: one of them is written.               *)
EXTENDS ColdPath

WithDiagnoses(bodies) ==
    [s \in Stages |-> CASE s = "triage" -> {"first", "second"}
                        [] s = "diagnosis" -> bodies
                        [] s = "labels" -> {"labels"}
                        [] s = "linkage" -> {}]
EveryReason == WithDiagnoses(Reasons \cup {"report"})
ReportOrTimeout == WithDiagnoses({"report", "LLM_TIMEOUT"})
=============================================================================
