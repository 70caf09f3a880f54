-------------------------------- MODULE MCRun --------------------------------
(***************************************************************************)
(* Command lines for Run: every pair of gates with the flags they need and  *)
(* any report, and a few sets of lookups without gates.                     *)
(***************************************************************************)
EXTENDS Run

CONSTANTS i1, i2

\* The flags a pair of gates and a report need.
Needed(gates, report) ==
     (IF "vulnerabilities" \in gates THEN {"vulnerabilities"} ELSE {})
  \cup (IF gates \cap {"yanked", "scorecards"} # {} \/ report = "scorecard"
       THEN {"fetch"} ELSE {})
  \cup (IF "scorecards" \in gates \/ report = "scorecard" THEN {"scorecard"} ELSE {})
  \cup (IF "files" \in gates \/ report = "files" THEN {"prefix"} ELSE {})

MCGateLines ==
  {[gates |-> {g, h}, flags |-> Needed({g, h}, r), report |-> r] :
     g \in Gates, h \in Gates, r \in Reports}

MCLookupLines ==
  {[gates |-> {}, flags |-> f, report |-> "none"] :
     f \in {{"fetch", "texts"}, {"fetch", "texts", "embedded"}, {"fetch", "mapping"},
           {"vulnerabilities", "epss"}, {"fetch", "scorecard"},
           {"vulnerabilities", "kev", "vex"}}}

MCLines == MCGateLines \cup MCLookupLines

MCInputs == {i1, i2}
=============================================================================
