------------------------------ MODULE Run_proofs ------------------------------
(***************************************************************************)
(* What holds of every run, whatever the command line, the number of        *)
(* documents, what the lookups find and how often it is killed and started  *)
(* again: a finished run's exit code is that of the first gate some         *)
(* document ran into, it leaves what it was asked for, and a document says  *)
(* what it lacks.                                                           *)
(***************************************************************************)
EXTENDS Run, TLAPS

\* The gates by name, and the types of their codes.
LEMMA GatesAre ==
  /\ Gates = {"licenses", "vulnerabilities", "yanked", "phantoms", "diff",
              "scorecards", "quality", "files"}
  /\ DOMAIN Precedence = 1..8
  /\ \A i \in 1..8 : Precedence[i] \in Gates
  /\ \A g \in Gates : ExitCode[g] \in Int \ {0, 1}
  BY DEF Gates, Precedence, ExitCode

\* The command line does not change.
LEMMA LineStays == ASSUME LineOK, UNCHANGED once PROVE LineOK'
  BY DEF LineOK, once

-----------------------------------------------------------------------------
(* Types. *)

\* The state of a process that has not begun is as main finds it.
LEMMA ForgetsKeepsTypes ==
  ASSUME TypeOK, Forgets,
         \/ pc' = "ended" /\ exit' \in {1, Killed}
         \/ pc' = "mapping" /\ exit' = Running
  PROVE  TypeOK'
<1>1. AnyInput \in [Documents -> Inputs]
  <2>1. (CHOOSE i \in Inputs : TRUE) \in Inputs
    BY RunAssumption
  <2> QED BY <2>1 DEF AnyInput
<1>2. line' = line /\ targets' = targets /\ file' = file
  BY DEF Forgets, once
<1>3. LineOK'
  BY <1>2 DEF TypeOK, LineOK
<1>4. PlaceOK'
  BY <1>2 DEF TypeOK, LineOK, PlaceOK, Forgets
<1>5. ControlOK'
  BY <1>2, <1>3, <1>4, RunAssumption DEF LineOK, ControlOK, Forgets, Steps
<1>6. GlobalsOK'
  <2>1. stale' = {} /\ unfinished' = {} /\ held' = 0 /\ dropped' = 0
    BY DEF Forgets
  <2>2. shared' \in BOOLEAN
    BY DEF Forgets
  <2> QED BY <2>1, <2>2, RunAssumption DEF GlobalsOK
<1>7. ModelOK'
  BY <1>1 DEF Forgets, ModelOK, None
<1>8. OutputOK'
  BY <1>2 DEF TypeOK, Forgets, OutputOK
<1> QED BY <1>3, <1>5, <1>6, <1>7, <1>8 DEF TypeOK

\* Inside the loop there is a document at hand.
LEMMA DocumentAtHand ==
  ASSUME TypeOK, pc \notin {"render", "exit", "ended"}
  PROVE  doc \in Targets /\ Targets \subseteq Documents
  BY RunAssumption DEF TypeOK, LineOK, ControlOK, PlaceOK, Targets, Documents

\* What a step leaves in place when it goes somewhere with its document.
LEMMA GoesKeepsControl ==
  ASSUME TypeOK, NEW step \in Steps \ {"ended"}, pc # "ended",
         Goes(step), doc' = doc, PlaceOK'
  PROVE  LineOK' /\ ControlOK'
<1>1. LineOK'
  BY LineStays DEF TypeOK, Goes
<1>2. line' = line /\ targets' = targets /\ exit' = exit /\ pc' = step
  BY DEF Goes, once
<1> QED BY <1>1, <1>2 DEF TypeOK, ControlOK

\* Turning to the next document stays within the loop or leaves it.
LEMMA NextDocumentKeepsControl ==
  ASSUME TypeOK, pc \notin {"render", "exit", "ended"}, NextDocument
  PROVE  LineOK' /\ ControlOK'
<1>1. LineOK'
  BY LineStays DEF TypeOK, NextDocument
<1>2. line' = line /\ targets' = targets /\ exit' = exit /\ doc' = doc + 1
  BY DEF NextDocument, once
<1>3. doc \in 1..targets /\ targets \in Nat
  BY DocumentAtHand, RunAssumption DEF Targets, TypeOK, LineOK
<1>4. pc' \in {"model", "render"} /\ (pc' = "render" <=> doc' = targets + 1)
  BY <1>2, <1>3 DEF NextDocument
<1>5. PlaceOK'
  BY <1>2, <1>3, <1>4 DEF PlaceOK
<1> QED BY <1>1, <1>2, <1>3, <1>4, <1>5 DEF TypeOK, ControlOK, Steps

\* A gate's list has only documents of the run.
LEMMA RecordsKeepsHits ==
  ASSUME hits \in [Gates -> SUBSET Targets], doc \in Targets, targets' = targets,
         NEW checked, NEW ran, Records(checked, ran)
  PROVE  (hits \in [Gates -> SUBSET Targets])'
  BY DEF Records, Targets

\* What a document lacks is of the kinds there are.
LEMMA MissesKeepsModel ==
  ASSUME missed \in [Documents -> SUBSET Notices], doc \in Documents,
         NEW what \in SUBSET Notices, Misses(what)
  PROVE  missed' \in [Documents -> SUBSET Notices]
  BY DEF Misses

\* What a document says it lacks is of the kinds there are.
LEMMA NotesKeepsModel ==
  ASSUME incomplete \in [Documents -> SUBSET Notices], doc \in Documents,
         NEW what \in SUBSET Notices, Notes(what)
  PROVE  incomplete' \in [Documents -> SUBSET Notices]
  BY DEF Notes

\* The license texts a process keeps stay within what there is room for.
LEMMA KeepTextsKeepsBudget ==
  ASSUME held \in 0..TextBudget, dropped \in Nat, NEW n \in Nat, KeepTexts(n)
  PROVE  held' \in 0..TextBudget /\ dropped' \in Nat /\ dropped' >= dropped
  BY RunAssumption DEF KeepTexts, Lesser

\* Enriching a document keeps that bound, and what it lacks stays of the kinds there are.
LEMMA EnrichedKeepsBudget ==
  ASSUME held \in 0..TextBudget, dropped \in Nat, Enriched
  PROVE  held' \in 0..TextBudget /\ dropped' \in Nat /\ dropped' >= dropped
<1>1. PICK n \in 0..(IF Has("texts") THEN MaxTexts ELSE 0) : KeepTexts(n)
  BY DEF Enriched
<1>2. n \in Nat
  BY RunAssumption
<1> QED BY <1>1, <1>2, KeepTextsKeepsBudget

\* A step that fails ends the run with 1.
LEMMA FailsKeepsTypes == ASSUME TypeOK, Fails PROVE TypeOK'
  BY ForgetsKeepsTypes DEF Fails

\* The types are unmoved where their variables are.
LEMMA Unmoved ==
  /\ GlobalsOK /\ UNCHANGED globals => GlobalsOK'
  /\ ModelOK /\ UNCHANGED model => ModelOK'
  /\ OutputOK /\ UNCHANGED <<targets, hits, output>> => OutputOK'
  /\ ControlOK /\ UNCHANGED <<once, pc, doc, exit>> => ControlOK'
  BY DEF GlobalsOK, globals, ModelOK, model, OutputOK, output, Targets, ControlOK,
     PlaceOK, once, Has

\* Types hold at the start, and each step of main keeps them.
LEMMA TypesOfInit == Init => TypeOK
<1> SUFFICES ASSUME Init PROVE TypeOK
  OBVIOUS
<1>1. AnyInput \in [Documents -> Inputs]
  <2>1. (CHOOSE i \in Inputs : TRUE) \in Inputs
    BY RunAssumption
  <2> QED BY <2>1 DEF AnyInput
<1>2. LineOK
  BY DEF Init, LineOK
<1>3. ControlOK
  <2>1. targets \in Nat \ {0} /\ pc = "mapping" /\ doc = 1 /\ exit = Running
    BY RunAssumption DEF Init
  <2>2. PlaceOK
    BY <2>1 DEF PlaceOK
  <2> QED BY <2>1, <2>2 DEF ControlOK, Steps
<1>4. GlobalsOK
  <2>1. stale = {} /\ unfinished = {} /\ held = 0 /\ dropped = 0
    BY DEF Init
  <2>2. shared \in BOOLEAN
    BY DEF Init
  <2> QED BY <2>1, <2>2, RunAssumption DEF GlobalsOK
<1>5. ModelOK
  BY <1>1 DEF Init, ModelOK, None
<1>6. OutputOK
  BY DEF Init, OutputOK
<1> QED BY <1>2, <1>3, <1>4, <1>5, <1>6 DEF TypeOK

\* Before the loop.
LEMMA TypesBeforeTheLoop ==
  ASSUME TypeOK, LoadMapping \/ LoadKev \/ LookUpTogether
  PROVE  TypeOK'
<1>1. CASE Fails
  BY <1>1, FailsKeepsTypes
<1>2. CASE LoadMapping /\ ~Fails
  <2>1. /\ pc = "mapping" /\ Goes("kev") /\ doc' = doc /\ shared' = shared
        /\ UNCHANGED <<held, dropped, unfinished, model, hits, output>>
        /\ stale' \in {stale} \cup {stale \cup {"mapping"}}
    BY <1>2 DEF LoadMapping
  <2>2. line' = line /\ targets' = targets /\ pc' = "kev"
    BY <2>1 DEF Goes, once
  <2>3. PlaceOK'
    BY <2>1, <2>2, DocumentAtHand, RunAssumption DEF PlaceOK, TypeOK, ControlOK, LineOK, Targets
  <2>4. LineOK' /\ ControlOK'
    BY <2>1, <2>3, GoesKeepsControl DEF Steps
  <2>5. GlobalsOK'
    BY <2>1 DEF TypeOK, GlobalsOK, Services
  <2> QED BY <2>1, <2>2, <2>4, <2>5, Unmoved DEF TypeOK
<1>3. CASE LoadKev /\ ~Fails
  <2>1. /\ pc = "kev" /\ Goes("shared") /\ doc' = doc /\ shared' = shared
        /\ UNCHANGED <<held, dropped, unfinished, model, hits, output>>
        /\ stale' \in {stale} \cup {stale \cup {"kev"}}
    BY <1>3 DEF LoadKev
  <2>2. line' = line /\ targets' = targets /\ pc' = "shared"
    BY <2>1 DEF Goes, once
  <2>3. PlaceOK'
    BY <2>1, <2>2, DocumentAtHand, RunAssumption DEF PlaceOK, TypeOK, ControlOK, LineOK, Targets
  <2>4. LineOK' /\ ControlOK'
    BY <2>1, <2>3, GoesKeepsControl DEF Steps
  <2>5. GlobalsOK'
    BY <2>1 DEF TypeOK, GlobalsOK, Services
  <2> QED BY <2>1, <2>2, <2>4, <2>5, Unmoved DEF TypeOK
<1>4. CASE LookUpTogether /\ ~Fails
  <2>1. /\ pc = "shared" /\ Goes("model") /\ doc' = doc
        /\ UNCHANGED <<model, hits, output>>
    BY <1>4 DEF LookUpTogether
  <2>2. line' = line /\ targets' = targets /\ pc' = "model"
    BY <2>1 DEF Goes, once
  <2>3. PlaceOK'
    BY <2>1, <2>2, DocumentAtHand, RunAssumption DEF PlaceOK, TypeOK, ControlOK, LineOK, Targets
  <2>4. LineOK' /\ ControlOK'
    BY <2>1, <2>3, GoesKeepsControl DEF Steps
  <2>5. GlobalsOK'
    <3>1. CASE UNCHANGED globals
      BY <3>1, Unmoved DEF TypeOK
    <3>2. CASE shared' = TRUE /\ unfinished' \in EnrichFailures /\ Enriched /\ stale' = stale
      <4>1. held' \in 0..TextBudget /\ dropped' \in Nat
        BY <3>2, EnrichedKeepsBudget DEF TypeOK, GlobalsOK
      <4>2. shared' \in BOOLEAN /\ unfinished' \subseteq Lookups
        BY <3>2 DEF EnrichFailures, Lookups
      <4>3. stale' \subseteq Services
        BY <3>2 DEF TypeOK, GlobalsOK
      <4> QED BY <4>1, <4>2, <4>3 DEF GlobalsOK
    <3> QED BY <1>4, <3>1, <3>2 DEF LookUpTogether
  <2> QED BY <2>1, <2>2, <2>4, <2>5, Unmoved DEF TypeOK
<1> QED BY <1>1, <1>2, <1>3, <1>4

\* A step within the loop that goes to another place with its document.
LEMMA GoesWithinTheLoop ==
  ASSUME TypeOK, pc \notin {"render", "exit", "ended"}, doc' = doc,
         NEW step \in Steps \ {"mapping", "kev", "shared", "render", "exit", "ended"},
         Goes(step),
         step = "scores" => Has("vulnerabilities"),
         step = "scorecard" => line.report # "outdated",
         step = "report" => line.report \notin {"none", "outdated"},
         step \in {"write", "drop", "vex"} => line.report = "none"
  PROVE  LineOK' /\ ControlOK' /\ targets' = targets
<1>1. line' = line /\ targets' = targets /\ pc' = step
  BY DEF Goes, once
<1>2. PlaceOK'
  <2>1. doc \in 1..targets /\ targets \in Nat
    BY DocumentAtHand, RunAssumption DEF Targets, TypeOK, LineOK
  <2> QED BY <1>1, <2>1 DEF PlaceOK, Has
<1> QED BY <1>1, <1>2, GoesKeepsControl

\* BuildModel keeps the types.
LEMMA TypesOfBuildModel == ASSUME TypeOK, BuildModel PROVE TypeOK'
<1>1. CASE Fails
  BY <1>1, FailsKeepsTypes
<1>2. CASE ~Fails
  <2>1. /\ pc = "model" /\ Goes("enrich") /\ doc' = doc
        /\ UNCHANGED <<globals, output>>
        /\ Records({"files"} \cap Asked, trips'[doc])
    BY <1>2 DEF BuildModel
  <2>2. doc \in Targets /\ Targets \subseteq Documents
    BY <2>1, DocumentAtHand
  <2>3. LineOK' /\ ControlOK' /\ targets' = targets
    BY <2>1, GoesWithinTheLoop DEF Steps
  <2>4. (hits \in [Gates -> SUBSET Targets])'
    BY <2>1, <2>2, <2>3, RecordsKeepsHits DEF TypeOK, OutputOK
  <2>5. OutputOK'
    BY <2>1, <2>3, <2>4 DEF TypeOK, OutputOK, output, Targets
  <2>6. Looked \subseteq Gates
    BY GatesAre, LinesAssumption DEF Looked, Asked, TypeOK, LineOK
  <2>7. ModelOK'
    <3>1. input' \in [Documents -> Inputs]
      BY <1>2, <2>2 DEF BuildModel, TypeOK, ModelOK
    <3>2. trips' \in [Documents -> SUBSET Gates]
      BY <1>2, <2>2, <2>6 DEF BuildModel, TypeOK, ModelOK
    <3>3. missed' \in [Documents -> SUBSET Notices] /\ incomplete' \in [Documents -> SUBSET Notices]
      BY <1>2, <2>2 DEF BuildModel, TypeOK, ModelOK, GlobalsOK, Notices, Services
    <3> QED BY <3>1, <3>2, <3>3 DEF ModelOK
  <2> QED BY <2>1, <2>3, <2>5, <2>7, Unmoved DEF TypeOK
<1> QED BY <1>1, <1>2

\* Enrich keeps the types.
LEMMA TypesOfEnrich == ASSUME TypeOK, Enrich PROVE TypeOK'
<1>1. /\ pc = "enrich" /\ Goes("osv") /\ doc' = doc
      /\ UNCHANGED <<input, trips, hits, output>>
      /\ ApplyShared \/ EnrichAlone
  BY DEF Enrich
<1>2. doc \in Documents
  BY <1>1, DocumentAtHand
<1>3. LineOK' /\ ControlOK' /\ targets' = targets
  BY <1>1, GoesWithinTheLoop DEF Steps
<1>4. OutputOK'
  BY <1>1, <1>3, Unmoved DEF TypeOK
<1>5. CASE ApplyShared
  <2>1. PICK lost \in SUBSET (unfinished \cup (IF dropped > 0 THEN {"texts"} ELSE {})) : Misses(lost)
    BY <1>5 DEF ApplyShared, Lacks
  <2>2. lost \subseteq Notices /\ unfinished \subseteq Notices
    BY <2>1 DEF TypeOK, GlobalsOK, Notices
  <2>3. missed' \in [Documents -> SUBSET Notices]
    BY <1>2, <2>1, <2>2, MissesKeepsModel DEF TypeOK, ModelOK
  <2>4. incomplete' \in [Documents -> SUBSET Notices]
    BY <1>2, <1>5, <2>2, NotesKeepsModel DEF TypeOK, ModelOK, ApplyShared
  <2>5. ModelOK'
    BY <1>1, <2>3, <2>4 DEF TypeOK, ModelOK
  <2>6. GlobalsOK'
    BY <1>5, Unmoved DEF TypeOK, ApplyShared
  <2> QED BY <1>3, <1>4, <2>5, <2>6 DEF TypeOK
<1>6. CASE EnrichAlone
  <2>1. held' \in 0..TextBudget /\ dropped' \in Nat
    BY <1>6, EnrichedKeepsBudget DEF EnrichAlone, TypeOK, GlobalsOK
  <2>2. GlobalsOK'
    BY <1>6, <2>1 DEF EnrichAlone, TypeOK, GlobalsOK
  <2>3. PICK failed \in EnrichFailures :
          /\ Misses(failed \cup (IF dropped' > dropped THEN {"texts"} ELSE {}))
          /\ Notes(failed)
    BY <1>6 DEF EnrichAlone
  <2>4. failed \subseteq Notices /\ "texts" \in Notices
    BY <2>3 DEF EnrichFailures, Notices, Lookups
  <2>5. missed' \in [Documents -> SUBSET Notices]
    BY <1>2, <2>3, <2>4, MissesKeepsModel DEF TypeOK, ModelOK
  <2>6. incomplete' \in [Documents -> SUBSET Notices]
    BY <1>2, <2>3, <2>4, NotesKeepsModel DEF TypeOK, ModelOK
  <2>7. ModelOK'
    BY <1>1, <2>5, <2>6 DEF TypeOK, ModelOK
  <2> QED BY <1>3, <1>4, <2>2, <2>7 DEF TypeOK
<1> QED BY <1>1, <1>5, <1>6

\* AskOsv keeps the types.
LEMMA TypesOfAskOsv == ASSUME TypeOK, AskOsv PROVE TypeOK'
<1>1. pc = "osv" /\ doc \in Documents
  BY DocumentAtHand DEF AskOsv
<1>2. CASE Fails
  BY <1>2, FailsKeepsTypes
<1>3. CASE ~Fails /\ Has("vulnerabilities")
  <2>1. /\ Goes("scores") /\ doc' = doc
        /\ UNCHANGED <<globals, input, trips, hits, output>>
    BY <1>3 DEF AskOsv
  <2>2. PICK failed \in {{}, {"osv"}} : Misses(failed) /\ Notes(failed)
    BY <1>3 DEF AskOsv
  <2>3. failed \subseteq Notices
    BY <2>2 DEF Notices, Lookups
  <2>4. missed' \in [Documents -> SUBSET Notices]
    BY <1>1, <2>2, <2>3, MissesKeepsModel DEF TypeOK, ModelOK
  <2>5. incomplete' \in [Documents -> SUBSET Notices]
    BY <1>1, <2>2, <2>3, NotesKeepsModel DEF TypeOK, ModelOK
  <2>6. ModelOK'
    BY <2>1, <2>4, <2>5 DEF TypeOK, ModelOK
  <2>7. LineOK' /\ ControlOK' /\ targets' = targets
    BY <1>1, <1>3, <2>1, GoesWithinTheLoop DEF Steps
  <2> QED BY <2>1, <2>6, <2>7, Unmoved DEF TypeOK
<1>4. CASE ~Has("vulnerabilities")
  <2>1. Goes("gates") /\ doc' = doc /\ UNCHANGED <<globals, model, hits, output>>
    BY <1>4 DEF AskOsv
  <2>2. LineOK' /\ ControlOK' /\ targets' = targets
    BY <1>1, <2>1, GoesWithinTheLoop DEF Steps
  <2> QED BY <2>1, <2>2, Unmoved DEF TypeOK
<1> QED BY <1>2, <1>3, <1>4

\* AssessFindings keeps the types.
LEMMA TypesOfAssessFindings == ASSUME TypeOK, AssessFindings PROVE TypeOK'
<1>1. pc = "scores" /\ doc \in Targets /\ doc \in Documents
  BY DocumentAtHand DEF AssessFindings
<1>2. CASE Fails
  BY <1>2, FailsKeepsTypes
<1>3. CASE ~Fails
  <2>1. /\ Records({"vulnerabilities"} \cap Asked, trips[doc])
        /\ Goes("gates") /\ doc' = doc
        /\ UNCHANGED <<held, dropped, shared, unfinished, input, trips, incomplete, output>>
    BY <1>3 DEF AssessFindings
  <2>2. PICK expired \in SUBSET (line.flags \cap {"epss"}) :
          stale' = stale \cup expired /\ Misses(expired \cup (stale \cap {"kev"}))
    BY <1>3 DEF AssessFindings
  <2>3. expired \subseteq Services /\ stale \subseteq Services
    BY <2>2 DEF Services, TypeOK, GlobalsOK
  <2>4. missed' \in [Documents -> SUBSET Notices]
    BY <1>1, <2>2, <2>3, MissesKeepsModel DEF TypeOK, ModelOK, Notices
  <2>5. ModelOK'
    BY <2>1, <2>4 DEF TypeOK, ModelOK
  <2>6. GlobalsOK'
    BY <2>1, <2>2, <2>3 DEF TypeOK, GlobalsOK
  <2>7. LineOK' /\ ControlOK' /\ targets' = targets
    BY <1>1, <2>1, GoesWithinTheLoop DEF Steps
  <2>8. (hits \in [Gates -> SUBSET Targets])'
    BY <1>1, <2>1, <2>7, RecordsKeepsHits DEF TypeOK, OutputOK
  <2>9. OutputOK'
    BY <2>1, <2>7, <2>8 DEF TypeOK, OutputOK, output, Targets
  <2> QED BY <2>5, <2>6, <2>7, <2>9 DEF TypeOK
<1> QED BY <1>2, <1>3

\* Reporting on the document at hand.
LEMMA ReportedKeepsOutput ==
  ASSUME OutputOK, (hits \in [Gates -> SUBSET Targets])', targets' = targets,
         doc \in Targets, Reported
  PROVE  OutputOK'
  BY DEF OutputOK, Reported, Targets

\* CheckPackages keeps the types.
LEMMA TypesOfCheckPackages == ASSUME TypeOK, CheckPackages PROVE TypeOK'
<1>1. /\ pc = "gates" /\ doc \in Targets
      /\ Records({"yanked", "licenses", "quality"} \cap Asked, trips[doc])
      /\ UNCHANGED <<globals, model>>
  BY DocumentAtHand DEF CheckPackages
<1>2. CASE line.report = "outdated"
  <2>1. NextDocument /\ Reported
    BY <1>2 DEF CheckPackages
  <2>2. LineOK' /\ ControlOK' /\ targets' = targets
    BY <1>1, <2>1, NextDocumentKeepsControl DEF NextDocument, once
  <2>3. OutputOK'
    BY <1>1, <2>1, <2>2, RecordsKeepsHits, ReportedKeepsOutput DEF TypeOK, OutputOK
  <2> QED BY <1>1, <2>2, <2>3, Unmoved DEF TypeOK
<1>3. CASE line.report # "outdated"
  <2>1. Goes("scorecard") /\ UNCHANGED <<doc, output>>
    BY <1>3 DEF CheckPackages
  <2>2. LineOK' /\ ControlOK' /\ targets' = targets
    BY <1>1, <1>3, <2>1, GoesWithinTheLoop DEF Steps
  <2>3. (hits \in [Gates -> SUBSET Targets])'
    BY <1>1, <2>2, RecordsKeepsHits DEF TypeOK, OutputOK
  <2>4. OutputOK'
    BY <2>1, <2>2, <2>3 DEF TypeOK, OutputOK, output, Targets
  <2> QED BY <1>1, <2>2, <2>4, Unmoved DEF TypeOK
<1> QED BY <1>2, <1>3

\* ReadScorecards keeps the types.
LEMMA TypesOfReadScorecards == ASSUME TypeOK, ReadScorecards PROVE TypeOK'
<1>1. /\ pc = "scorecard" /\ doc \in Targets /\ doc \in Documents
      /\ Records({"scorecards"} \cap Asked, trips[doc])
      /\ Goes(IF line.report = "none" THEN "write" ELSE "report")
      /\ UNCHANGED <<doc, globals, input, trips, output>>
  BY DocumentAtHand DEF ReadScorecards
<1>2. PICK failed \in SUBSET (line.flags \cap {"scorecard"}) : Misses(failed) /\ Notes(failed)
  BY DEF ReadScorecards
<1>3. failed \subseteq Notices
  BY <1>2 DEF Notices, Lookups
<1>4. missed' \in [Documents -> SUBSET Notices]
  BY <1>1, <1>2, <1>3, MissesKeepsModel DEF TypeOK, ModelOK
<1>5. incomplete' \in [Documents -> SUBSET Notices]
  BY <1>1, <1>2, <1>3, NotesKeepsModel DEF TypeOK, ModelOK
<1>6. ModelOK'
  BY <1>1, <1>4, <1>5 DEF TypeOK, ModelOK
<1>7. LineOK' /\ ControlOK' /\ targets' = targets
  <2>1. line.report # "outdated"
    BY <1>1 DEF TypeOK, ControlOK, PlaceOK
  <2>2. CASE line.report = "none"
    BY <1>1, <2>2, GoesWithinTheLoop DEF Steps
  <2>3. CASE line.report # "none"
    BY <1>1, <2>1, <2>3, GoesWithinTheLoop DEF Steps
  <2> QED BY <2>2, <2>3
<1>8. (hits \in [Gates -> SUBSET Targets])'
  BY <1>1, <1>7, RecordsKeepsHits DEF TypeOK, OutputOK
<1>9. OutputOK'
  BY <1>1, <1>7, <1>8 DEF TypeOK, OutputOK, output, Targets
<1> QED BY <1>1, <1>6, <1>7, <1>9, Unmoved DEF TypeOK

\* ReportOn keeps the types.
LEMMA TypesOfReportOn == ASSUME TypeOK, ReportOn PROVE TypeOK'
<1>1. pc = "report" /\ doc \in Targets
  BY DocumentAtHand DEF ReportOn
<1>2. CASE Fails
  BY <1>2, FailsKeepsTypes
<1>3. CASE ~Fails
  <2>1. /\ Records({"phantoms", "diff"} \cap Looked, trips[doc])
        /\ NextDocument /\ Reported /\ UNCHANGED <<globals, model>>
    BY <1>3 DEF ReportOn
  <2>2. LineOK' /\ ControlOK' /\ targets' = targets
    BY <1>1, <2>1, NextDocumentKeepsControl DEF NextDocument, once
  <2>3. OutputOK'
    BY <1>1, <2>1, <2>2, RecordsKeepsHits, ReportedKeepsOutput DEF TypeOK, OutputOK
  <2> QED BY <2>1, <2>2, <2>3, Unmoved DEF TypeOK
<1> QED BY <1>2, <1>3

\* Behind a written document the run is with its VEX file or the next document.
LEMMA AfterWritingKeepsControl ==
  ASSUME TypeOK, pc \in {"write", "drop"}, AfterWriting
  PROVE  LineOK' /\ ControlOK' /\ targets' = targets
<1>1. line.report = "none"
  BY DEF TypeOK, ControlOK, PlaceOK
<1>2. CASE Has("vex")
  BY <1>1, <1>2, GoesWithinTheLoop DEF AfterWriting, Steps
<1>3. CASE ~Has("vex")
  BY <1>3, NextDocumentKeepsControl DEF AfterWriting, NextDocument, once
<1> QED BY <1>2, <1>3

\* A file at the document's path is one the writers render.
LEMMA RenderedIsFile ==
  ASSUME TypeOK, doc \in Documents, NEW notes \in SUBSET Notices, NEW whole \in BOOLEAN,
         file' = [file EXCEPT ![doc] = Rendered(doc, notes, whole)],
         UNCHANGED <<targets, hits, reports, printed>>,
         late' \subseteq late \cup {doc}, doc \in Targets
  PROVE  OutputOK'
<1>1. Rendered(doc, notes, whole) \in Files
  BY DEF Rendered, Files, TypeOK, ModelOK
<1> QED BY <1>1 DEF TypeOK, OutputOK, Targets

\* WriteOutput keeps the types.
LEMMA TypesOfWriteOutput == ASSUME TypeOK, WriteOutput PROVE TypeOK'
<1>1. pc = "write" /\ doc \in Documents /\ doc \in Targets
  BY DocumentAtHand DEF WriteOutput, Targets
<1>2. CASE Fails
  BY <1>2, FailsKeepsTypes
<1>3. CASE ~Fails
  <2>1. Notes(Unfinished) /\ UNCHANGED <<globals, input, trips, missed, hits>>
    BY <1>3 DEF WriteOutput
  <2>2. Unfinished \subseteq Notices
    BY <1>1 DEF Unfinished, TypeOK, ModelOK, GlobalsOK, Notices
  <2>3. incomplete' \in [Documents -> SUBSET Notices]
    BY <1>1, <2>1, <2>2, NotesKeepsModel DEF TypeOK, ModelOK
  <2>4. ModelOK'
    BY <2>1, <2>3 DEF TypeOK, ModelOK
  <2>5. CASE Unchanged
    <3>1. AfterWriting /\ UNCHANGED output
      BY <1>3, <2>5 DEF WriteOutput
    <3>2. LineOK' /\ ControlOK' /\ targets' = targets
      BY <1>1, <3>1, AfterWritingKeepsControl
    <3> QED BY <2>1, <2>4, <3>1, <3>2, Unmoved DEF TypeOK
  <2>6. CASE ~Unchanged
    <3>1. /\ file' = [file EXCEPT ![doc] = Rendered(doc, incomplete'[doc], FALSE)]
          /\ Goes("drop") /\ UNCHANGED <<doc, reports, printed, late>>
      BY <1>3, <2>6 DEF WriteOutput
    <3>2. LineOK' /\ ControlOK' /\ targets' = targets
      BY <1>1, <3>1, GoesWithinTheLoop DEF Steps, TypeOK, ControlOK, PlaceOK
    <3>3. incomplete'[doc] \in SUBSET Notices
      BY <1>1, <2>3
    <3>4. OutputOK'
      BY <1>1, <2>1, <3>1, <3>2, <3>3, RenderedIsFile
    <3> QED BY <2>1, <2>4, <3>2, <3>4, Unmoved DEF TypeOK
  <2> QED BY <2>5, <2>6
<1> QED BY <1>2, <1>3

\* DropWriter keeps the types.
LEMMA TypesOfDropWriter == ASSUME TypeOK, DropWriter PROVE TypeOK'
<1>1. pc = "drop" /\ doc \in Documents /\ doc \in Targets
  BY DocumentAtHand DEF DropWriter, Targets
<1>2. CASE Fails
  BY <1>2, FailsKeepsTypes
<1>3. CASE ~Fails
  <2>1. AfterWriting /\ UNCHANGED <<globals, model, hits, reports, printed>>
    BY <1>3 DEF DropWriter
  <2>2. PICK lost \in LateErrors :
          /\ late' = IF lost THEN late \cup {doc} ELSE late
          /\ file' = [file EXCEPT ![doc] = Rendered(doc, incomplete[doc], ~lost)]
    BY <1>3 DEF DropWriter
  <2>3. (~lost) \in BOOLEAN /\ incomplete[doc] \in SUBSET Notices
    <3>1. (~lost) \in BOOLEAN
      OBVIOUS
    <3> QED BY <1>1, <3>1 DEF TypeOK, ModelOK
  <2>4. LineOK' /\ ControlOK' /\ targets' = targets
    BY <1>1, <2>1, AfterWritingKeepsControl
  <2>5. OutputOK'
    BY <1>1, <2>1, <2>2, <2>3, <2>4, RenderedIsFile
  <2> QED BY <2>1, <2>4, <2>5, Unmoved DEF TypeOK
<1> QED BY <1>2, <1>3

\* WriteVex keeps the types.
LEMMA TypesOfWriteVex == ASSUME TypeOK, WriteVex PROVE TypeOK'
<1>1. CASE Fails
  BY <1>1, FailsKeepsTypes
<1>2. CASE ~Fails
  <2>1. pc = "vex" /\ NextDocument /\ UNCHANGED <<globals, model, hits, output>>
    BY <1>2 DEF WriteVex
  <2>2. LineOK' /\ ControlOK' /\ targets' = targets
    BY <2>1, NextDocumentKeepsControl DEF NextDocument, once
  <2> QED BY <2>1, <2>2, Unmoved DEF TypeOK
<1> QED BY <1>1, <1>2

\* RenderReports keeps the types.
LEMMA TypesOfRenderReports == ASSUME TypeOK, RenderReports PROVE TypeOK'
<1>1. CASE Fails
  BY <1>1, FailsKeepsTypes
<1>2. CASE ~Fails
  <2>1. /\ pc = "render" /\ printed' = reports /\ Goes("exit")
        /\ UNCHANGED <<doc, globals, model, hits, reports, file, late>>
    BY <1>2 DEF RenderReports
  <2>2. line' = line /\ targets' = targets /\ pc' = "exit"
    BY <2>1 DEF Goes, once
  <2>3. PlaceOK'
    BY <2>1, <2>2, RunAssumption DEF TypeOK, LineOK, ControlOK, PlaceOK
  <2>4. LineOK' /\ ControlOK'
    BY <2>1, <2>3, GoesKeepsControl DEF Steps
  <2>5. OutputOK'
    BY <2>1, <2>2 DEF TypeOK, OutputOK, Targets
  <2> QED BY <2>1, <2>4, <2>5, Unmoved DEF TypeOK
<1> QED BY <1>1, <1>2

\* ReportGates keeps the types.
LEMMA TypesOfReportGates == ASSUME TypeOK, ReportGates PROVE TypeOK'
<1>1. /\ pc = "exit" /\ pc' = "ended"
      /\ UNCHANGED <<once, doc, globals, model, hits, output>>
  BY DEF ReportGates
<1>2. exit' \in {0} \cup {ExitCode[g] : g \in Gates}
  BY GatesAre DEF ReportGates
<1>3. line' = line /\ targets' = targets
  BY <1>1 DEF once
<1>4. LineOK'
  BY <1>3 DEF TypeOK, LineOK
<1>5. PlaceOK'
  BY <1>1 DEF PlaceOK
<1>6. exit' # Running
  BY <1>2, GatesAre, RunAssumption
<1>7. ControlOK'
  BY <1>1, <1>2, <1>3, <1>5, <1>6 DEF TypeOK, ControlOK, Steps
<1> QED BY <1>1, <1>3, <1>4, <1>7, Unmoved DEF TypeOK

\* The steps together.
LEMMA TypesOfStep == ASSUME TypeOK, [Next]_vars PROVE TypeOK'
<1>1. CASE LoadMapping \/ LoadKev \/ LookUpTogether
  BY <1>1, TypesBeforeTheLoop
<1>2. CASE BuildModel
  BY <1>2, TypesOfBuildModel
<1>3. CASE Enrich
  BY <1>3, TypesOfEnrich
<1>4. CASE AskOsv
  BY <1>4, TypesOfAskOsv
<1>5. CASE AssessFindings
  BY <1>5, TypesOfAssessFindings
<1>6. CASE CheckPackages
  BY <1>6, TypesOfCheckPackages
<1>7. CASE ReadScorecards
  BY <1>7, TypesOfReadScorecards
<1>8. CASE ReportOn
  BY <1>8, TypesOfReportOn
<1>9. CASE WriteOutput
  BY <1>9, TypesOfWriteOutput
<1>10. CASE DropWriter
  BY <1>10, TypesOfDropWriter
<1>11. CASE WriteVex
  BY <1>11, TypesOfWriteVex
<1>12. CASE RenderReports
  BY <1>12, TypesOfRenderReports
<1>13. CASE ReportGates
  BY <1>13, TypesOfReportGates
<1>14. CASE Kill \/ RunAgain
  BY <1>14, ForgetsKeepsTypes DEF Kill, RunAgain
<1>15. CASE UNCHANGED vars
  <2>1. UNCHANGED <<once, pc, doc, globals, model, hits, output, exit>>
    BY <1>15 DEF vars
  <2>2. LineOK'
    BY <2>1, LineStays DEF TypeOK
  <2> QED BY <2>1, <2>2, Unmoved DEF TypeOK, once
<1> QED BY <1>1, <1>2, <1>3, <1>4, <1>5, <1>6, <1>7, <1>8, <1>9, <1>10, <1>11,
           <1>12, <1>13, <1>14, <1>15 DEF Next

\* Every variable of a run keeps its type, and main is only where its report
\* and its documents let it be.
THEOREM TypeCorrect == Spec => []TypeOK
<1>1. Init => TypeOK
  BY TypesOfInit
<1>2. TypeOK /\ [Next]_vars => TypeOK'
  BY TypesOfStep
<1> QED BY <1>1, <1>2, PTL DEF Spec

-----------------------------------------------------------------------------
(* What each gate lists. *)

\* A step that checks the gates in `checked` for the document at hand, and stays
\* with it or turns to the next one.
LEMMA StepKeepsHits ==
  ASSUME TypeOK, HitsInv, doc \in Targets, doc \in Nat,
         line' = line, targets' = targets, trips' = trips,
         NEW checked \in SUBSET Gates, Records(checked, trips[doc]),
         \/ doc' = doc
         \/ doc' = doc + 1 /\ pc' \in {"model", "render"},
         \A g \in checked : Kept(g),
         \A g \in Gates :
           Kept(g) => ((doc' = doc + 1 \/ pc' \in Past[g]) <=> (pc \in Past[g] \/ g \in checked))
  PROVE  HitsInv'
<1> SUFFICES ASSUME NEW g \in Gates
             PROVE  hits'[g] = IF Kept(g)' THEN RanInto(g)' ELSE {}
  BY DEF HitsInv
<1>1. hits'[g] = IF g \in checked \cap trips[doc] THEN hits[g] \cup {doc} ELSE hits[g]
  BY DEF Records
<1>2. Kept(g)' <=> Kept(g)
  BY DEF Kept, Looked, Asked
<1>3. CASE ~Kept(g)
  BY <1>1, <1>2, <1>3 DEF HitsInv
<1>4. CASE Kept(g)
  <2>1. hits[g] = RanInto(g)
    BY <1>4 DEF HitsInv
  <2>2. \A d \in Targets : d \in Nat
    BY DEF Targets
  <2>3. CASE doc' = doc
    <3>1. pc' \in Past[g] <=> pc \in Past[g] \/ g \in checked
      BY <1>4, <2>3
    <3> QED BY <1>1, <1>2, <1>4, <2>1, <2>2, <2>3, <3>1 DEF RanInto, Targets
  <2>4. CASE doc' = doc + 1 /\ pc' \in {"model", "render"}
    <3>1. pc \in Past[g] \/ g \in checked
      BY <1>4, <2>4
    <3>2. pc' \notin Past[g]
      BY <2>4, GatesAre DEF Past
    <3>3. \A d \in Targets : d < doc' <=> d < doc \/ d = doc
      BY <2>2, <2>4
    <3> QED BY <1>1, <1>2, <1>4, <2>1, <3>1, <3>2, <3>3 DEF RanInto, Targets
  <2> QED BY <2>3, <2>4
<1> QED BY <1>3, <1>4

\* A step that checks no gate.
LEMMA IdleKeepsHits ==
  ASSUME TypeOK, HitsInv, doc \in Targets, doc \in Nat,
         line' = line, targets' = targets, trips' = trips, hits' = hits,
         \/ doc' = doc
         \/ doc' = doc + 1 /\ pc' \in {"model", "render"},
         \A g \in Gates : Kept(g) => ((doc' = doc + 1 \/ pc' \in Past[g]) <=> pc \in Past[g])
  PROVE  HitsInv'
<1>1. Records({}, trips[doc])
  BY DEF Records, TypeOK, OutputOK
<1> QED BY <1>1, StepKeepsHits

\* A process that has not begun has listed nothing.
LEMMA ForgetsKeepsHits ==
  ASSUME TypeOK, Forgets, pc' \in {"ended", "mapping"}
  PROVE  HitsInv'
<1> SUFFICES ASSUME NEW g \in Gates
             PROVE  hits'[g] = IF Kept(g)' THEN RanInto(g)' ELSE {}
  BY DEF HitsInv
<1>1. hits'[g] = {} /\ doc' = 1
  BY DEF Forgets
<1>2. pc' \notin Past[g]
  BY GatesAre DEF Past
<1>3. RanInto(g)' = {}
  BY <1>1, <1>2 DEF RanInto, Targets
<1> QED BY <1>1, <1>3

\* What the command line rules out.
LEMMA KeptGates ==
  ASSUME TypeOK
  PROVE  /\ Kept("phantoms") => line.report = "phantom"
         /\ Kept("diff") => line.report = "diff"
         /\ Kept("scorecards") => line.report # "outdated"
         /\ Kept("vulnerabilities") => Has("vulnerabilities")
         /\ \A g \in Gates \ {"scorecards"} : g \in Looked => Kept(g)
         /\ \A g \in Gates \ {"phantoms"} : g \in Looked <=> g \in Asked
  BY DEF TypeOK, LineOK, Legal, Kept, Looked, Asked, Has

\* Before which gates each place of the loop lies.
LEMMA Places ==
  /\ \A g \in Gates, p \in {"mapping", "kev", "shared", "model", "render", "exit", "ended"} :
       p \notin Past[g]
  /\ \A g \in Gates, p \in {"enrich", "osv", "scores"} : p \in Past[g] <=> g = "files"
  /\ \A g \in Gates : "gates" \in Past[g] <=> g \in {"files", "vulnerabilities"}
  /\ \A g \in Gates : "scorecard" \in Past[g] <=> g \notin {"scorecards", "phantoms", "diff"}
  /\ \A g \in Gates, p \in {"write", "drop", "vex", "report"} :
       p \in Past[g] <=> g \notin {"phantoms", "diff"}
  BY GatesAre DEF Past

\* Every step keeps what the gates' lists hold.
LEMMA HitsOfStep == ASSUME TypeOK, HitsInv, [Next]_vars PROVE HitsInv'
<1>1. CASE Fails \/ Kill \/ RunAgain
  BY <1>1, ForgetsKeepsHits DEF Fails, Kill, RunAgain
<1>2. CASE pc \notin {"render", "exit", "ended"} /\ ~Fails /\ ~Kill
  <2>1. doc \in Targets /\ doc \in Nat /\ doc \in Documents
    BY <1>2, DocumentAtHand DEF Targets
  <2>2. CASE LoadMapping \/ LoadKev \/ LookUpTogether
    <3>1. /\ line' = line /\ targets' = targets /\ trips' = trips /\ hits' = hits /\ doc' = doc
          /\ pc \in {"mapping", "kev", "shared"} /\ pc' \in {"kev", "shared", "model"}
      BY <1>2, <2>2 DEF LoadMapping, LoadKev, LookUpTogether, Goes, once, model
    <3> QED BY <2>1, <3>1, Places, IdleKeepsHits
  <2>3. CASE BuildModel
    <3>1. /\ pc = "model" /\ pc' = "enrich" /\ line' = line /\ targets' = targets /\ doc' = doc
          /\ Records({"files"} \cap Asked, trips'[doc])
      BY <1>2, <2>3 DEF BuildModel, Goes, once
    <3>2. PICK found \in SUBSET Looked : trips' = [trips EXCEPT ![doc] = found]
      BY <1>2, <2>3 DEF BuildModel
    <3>3. \A d \in Targets : d \in Documents /\ d \in Nat
      BY <1>2, DocumentAtHand DEF Targets
    <3>4. \A d \in Targets : trips'[d] = IF d = doc THEN found ELSE trips[d]
      BY <3>2, <3>3 DEF TypeOK, ModelOK
    <3> SUFFICES ASSUME NEW g \in Gates
                 PROVE  hits'[g] = IF Kept(g)' THEN RanInto(g)' ELSE {}
      BY DEF HitsInv
    <3>5. Kept(g)' <=> Kept(g)
      BY <3>1 DEF Kept, Looked, Asked
    <3>6. hits'[g] = IF g = "files" /\ g \in Asked /\ g \in found THEN hits[g] \cup {doc} ELSE hits[g]
      BY <2>1, <3>1, <3>4 DEF Records
    <3>7. pc \notin Past[g] /\ (pc' \in Past[g] <=> g = "files")
      BY <3>1, Places
    <3>8. hits[g] = IF Kept(g) THEN RanInto(g) ELSE {}
      BY DEF HitsInv
    <3>9. CASE ~Kept(g)
      BY <3>5, <3>6, <3>8, <3>9, KeptGates, GatesAre
    <3>10. CASE Kept(g)
      <4>1. RanInto(g) = {d \in Targets : g \in trips[d] /\ d < doc}
        BY <3>7 DEF RanInto
      <4>2. RanInto(g)' = {d \in Targets : g \in trips'[d] /\ (d < doc \/ (d = doc /\ g = "files"))}
        BY <3>1, <3>7 DEF RanInto, Targets
      <4>3. g = "files" => g \in Asked
        BY <3>10, KeptGates DEF Kept
      <4>4. \A d \in Targets : d < doc => d # doc
        BY <2>1, <3>3
      <4>5. RanInto(g)' = IF g = "files" /\ g \in found THEN RanInto(g) \cup {doc} ELSE RanInto(g)
        BY <2>1, <3>4, <4>1, <4>2, <4>4
      <4> QED BY <3>5, <3>6, <3>8, <3>10, <4>3, <4>5
    <3> QED BY <3>9, <3>10
  <2>4. CASE Enrich
    <3>1. /\ line' = line /\ targets' = targets /\ trips' = trips /\ hits' = hits /\ doc' = doc
          /\ pc = "enrich" /\ pc' = "osv"
      BY <2>4 DEF Enrich, Goes, once
    <3> QED BY <2>1, <3>1, Places, IdleKeepsHits
  <2>5. CASE AskOsv
    <3>1. /\ line' = line /\ targets' = targets /\ trips' = trips /\ hits' = hits /\ doc' = doc
          /\ pc = "osv" /\ pc' = IF Has("vulnerabilities") THEN "scores" ELSE "gates"
      BY <1>2, <2>5 DEF AskOsv, Goes, once, model
    <3> QED BY <2>1, <3>1, Places, KeptGates, IdleKeepsHits
  <2>6. CASE AssessFindings
    <3>1. /\ line' = line /\ targets' = targets /\ trips' = trips /\ doc' = doc
          /\ Records({"vulnerabilities"} \cap Asked, trips[doc])
          /\ pc = "scores" /\ pc' = "gates"
      BY <1>2, <2>6 DEF AssessFindings, Goes, once
    <3> DEFINE checked == {"vulnerabilities"} \cap Asked
    <3>2. checked \in SUBSET Gates /\ (\A g \in checked : Kept(g))
      BY GatesAre, KeptGates
    <3>3. \A g \in Gates : Kept(g) => (pc' \in Past[g] <=> pc \in Past[g] \/ g \in checked)
      BY <3>1, Places, KeptGates, GatesAre DEF Kept
    <3> QED BY <2>1, <3>1, <3>2, <3>3, StepKeepsHits
  <2>7. CASE CheckPackages
    <3> DEFINE checked == {"yanked", "licenses", "quality"} \cap Asked
    <3>1. /\ line' = line /\ targets' = targets /\ trips' = trips /\ pc = "gates"
          /\ Records(checked, trips[doc])
          /\ IF line.report = "outdated" THEN doc' = doc + 1 /\ pc' \in {"model", "render"}
             ELSE doc' = doc /\ pc' = "scorecard"
      BY <2>7 DEF CheckPackages, Goes, once, model, NextDocument
    <3>2. checked \in SUBSET Gates /\ (\A g \in checked : Kept(g))
      BY GatesAre, KeptGates
    <3>3. \A g \in Gates :
            Kept(g) => ((doc' = doc + 1 \/ pc' \in Past[g]) <=> (pc \in Past[g] \/ g \in checked))
      BY <2>1, <3>1, Places, KeptGates, GatesAre DEF Kept
    <3> QED BY <2>1, <3>1, <3>2, <3>3, StepKeepsHits
  <2>8. CASE ReadScorecards
    <3> DEFINE checked == {"scorecards"} \cap Asked
    <3>1. /\ line' = line /\ targets' = targets /\ trips' = trips /\ doc' = doc
          /\ Records(checked, trips[doc])
          /\ pc = "scorecard" /\ pc' \in {"write", "report"}
      BY <2>8 DEF ReadScorecards, Goes, once
    <3>2. line.report # "outdated"
      BY <3>1 DEF TypeOK, ControlOK, PlaceOK
    <3>3. checked \in SUBSET Gates /\ (\A g \in checked : Kept(g))
      BY <3>2, GatesAre, KeptGates DEF Kept
    <3>4. \A g \in Gates : Kept(g) => (pc' \in Past[g] <=> pc \in Past[g] \/ g \in checked)
      BY <3>1, Places, KeptGates, GatesAre DEF Kept
    <3> QED BY <2>1, <3>1, <3>3, <3>4, StepKeepsHits
  <2>9. CASE ReportOn
    <3> DEFINE checked == {"phantoms", "diff"} \cap Looked
    <3>1. /\ line' = line /\ targets' = targets /\ trips' = trips /\ doc' = doc + 1
          /\ Records(checked, trips[doc])
          /\ pc = "report" /\ pc' \in {"model", "render"}
      BY <1>2, <2>9 DEF ReportOn, NextDocument, once, model
    <3>2. checked \in SUBSET Gates /\ (\A g \in checked : Kept(g))
      BY GatesAre, KeptGates
    <3>3. \A g \in Gates : Kept(g) => (pc \in Past[g] \/ g \in checked)
      BY <3>1, Places, GatesAre DEF Kept
    <3> QED BY <2>1, <3>1, <3>2, <3>3, StepKeepsHits
  <2>10. CASE WriteOutput \/ DropWriter \/ WriteVex
    <3>1. /\ line' = line /\ targets' = targets /\ trips' = trips /\ hits' = hits
          /\ pc \in {"write", "drop", "vex"}
          /\ \/ doc' = doc + 1 /\ pc' \in {"model", "render"}
             \/ doc' = doc /\ pc' \in {"drop", "vex"}
      BY <1>2, <2>10 DEF WriteOutput, DropWriter, WriteVex, AfterWriting, NextDocument, Goes, once, model
    <3>2. line.report = "none"
      BY <3>1 DEF TypeOK, ControlOK, PlaceOK
    <3>3. \A g \in Gates : Kept(g) => pc \in Past[g]
      BY <3>1, <3>2, Places, KeptGates
    <3>4. \A g \in Gates : Kept(g) => doc' = doc + 1 \/ pc' \in Past[g]
      BY <3>1, <3>2, Places, KeptGates
    <3> QED BY <2>1, <3>1, <3>3, <3>4, IdleKeepsHits
  <2>11. CASE UNCHANGED vars
    BY <2>11 DEF vars, HitsInv, RanInto, Kept, Looked, Asked, Targets, once, model
  <2> QED BY <1>2, <2>2, <2>3, <2>4, <2>5, <2>6, <2>7, <2>8, <2>9, <2>10, <2>11
          DEF Next, RenderReports, ReportGates, RunAgain
<1>3. CASE RenderReports /\ ~Fails
  <2>1. /\ line' = line /\ targets' = targets /\ trips' = trips /\ hits' = hits /\ doc' = doc
        /\ pc = "render" /\ pc' = "exit"
    BY <1>3 DEF RenderReports, Goes, once, model
  <2> QED BY <2>1, Places DEF HitsInv, RanInto, Kept, Looked, Asked, Targets
<1>4. CASE ReportGates
  <2>1. /\ line' = line /\ targets' = targets /\ trips' = trips /\ hits' = hits /\ doc' = doc
        /\ pc = "exit" /\ pc' = "ended"
    BY <1>4 DEF ReportGates, once, model
  <2> QED BY <2>1, Places DEF HitsInv, RanInto, Kept, Looked, Asked, Targets
<1>5. CASE UNCHANGED vars
  BY <1>5 DEF vars, HitsInv, RanInto, Kept, Looked, Asked, Targets, once, model
<1> QED BY <1>1, <1>2, <1>3, <1>4, <1>5
        DEF Next, LoadMapping, LoadKev, LookUpTogether, BuildModel, Enrich, AskOsv,
            AssessFindings, CheckPackages, ReadScorecards, ReportOn, WriteOutput,
            DropWriter, WriteVex, RenderReports, ReportGates

\* For any command line and any documents, each gate lists exactly the documents
\* that ran into it so far.
THEOREM HitsHold == Spec => []HitsInv
<1>1. Init => HitsInv
  <2> SUFFICES ASSUME Init, NEW g \in Gates
               PROVE  hits[g] = IF Kept(g) THEN RanInto(g) ELSE {}
    BY DEF HitsInv
  <2>1. hits[g] = {} /\ doc = 1 /\ pc = "mapping"
    BY DEF Init
  <2>2. RanInto(g) = {}
    BY <2>1, Places DEF RanInto, Targets
  <2> QED BY <2>1, <2>2
<1>2. TypeOK /\ HitsInv /\ [Next]_vars => HitsInv'
  BY HitsOfStep
<1> QED BY <1>1, <1>2, TypeCorrect, PTL DEF Spec

-----------------------------------------------------------------------------
(* The exit code. *)

\* After the loop a gate counts something exactly when it tripped.
LEMMA CountedTripped ==
  ASSUME TypeOK, HitsInv, pc = "exit", NEW g \in Gates
  PROVE  Counted(g) # {} <=> g \in Tripped
<1>1. doc = targets + 1 /\ targets \in Nat
  BY RunAssumption DEF TypeOK, LineOK, ControlOK, PlaceOK
<1>2. RanInto(g) = {d \in Targets : g \in trips[d]}
  BY <1>1 DEF RanInto, Targets
<1>3. hits[g] = IF Kept(g) THEN {d \in Targets : g \in trips[d]} ELSE {}
  BY <1>2 DEF HitsInv
<1>4. CASE g = "phantoms"
  <2>1. Kept(g) /\ g \in line.gates <=> g \in Evaluated
    BY <1>4 DEF Kept, Looked, Asked, Evaluated
  <2> QED BY <1>3, <1>4, <2>1 DEF Counted, Tripped
<1>5. CASE g # "phantoms"
  <2>1. Kept(g) <=> g \in Evaluated
    BY <1>5 DEF Kept, Looked, Asked, Evaluated
  <2> QED BY <1>3, <1>5, <2>1 DEF Counted, Tripped
<1> QED BY <1>4, <1>5

\* Only ReportGates finishes a run.
LEMMA FinishingStep ==
  ASSUME TypeOK, Next
  PROVE  ReportGates \/ ~Finished'
<1>1. CASE Fails \/ Kill \/ RunAgain
  BY <1>1 DEF Fails, Kill, RunAgain, Finished
<1>2. CASE ~Fails /\ ~Kill /\ ~RunAgain /\ ~ReportGates
  <2>1. exit' = exit /\ pc # "ended"
    BY <1>2 DEF Next, LoadMapping, LoadKev, LookUpTogether, BuildModel, Enrich, AskOsv,
         AssessFindings, CheckPackages, ReadScorecards, ReportOn, WriteOutput, DropWriter,
         WriteVex, RenderReports, Goes, NextDocument, AfterWriting
  <2> QED BY <2>1 DEF TypeOK, ControlOK, Finished
<1> QED BY <1>1, <1>2

\* Every step keeps what the exit code of a finished run says.
LEMMA ExitOfStep ==
  ASSUME TypeOK, HitsInv, ExitNamesTheGates, [Next]_vars
  PROVE  ExitNamesTheGates'
<1>1. CASE ReportGates
  <2> DEFINE failed == {i \in DOMAIN Precedence : Counted(Precedence[i]) # {}}
  <2>1. pc = "exit" /\ UNCHANGED <<once, model>>
    BY <1>1 DEF ReportGates
  <2>2. Tripped' = Tripped
    BY <2>1 DEF Tripped, Evaluated, Asked, Targets, once, model
  <2>3. \A i \in 1..8 : i \in failed <=> Precedence[i] \in Tripped
    BY <2>1, CountedTripped, GatesAre
  <2>4. \A g \in Tripped : \E i \in 1..8 : g = Precedence[i]
    <3>1. Tripped \subseteq Gates
      BY GatesAre, LinesAssumption DEF Tripped, Evaluated, Asked, TypeOK, LineOK
    <3>2. \A g \in Gates : \E i \in 1..8 : g = Precedence[i]
      BY GatesAre DEF Gates
    <3> QED BY <3>1, <3>2
  <2>5. CASE failed = {} /\ exit' = 0
    <3>1. Tripped = {}
      BY <2>3, <2>4, <2>5
    <3> QED BY <2>2, <2>5, <3>1 DEF ExitNamesTheGates
  <2>6. CASE \E i \in failed : (\A k \in failed : i <= k) /\ exit' = ExitCode[Precedence[i]]
    <3>1. PICK i \in failed : (\A k \in failed : i <= k) /\ exit' = ExitCode[Precedence[i]]
      BY <2>6
    <3>2. i \in 1..8 /\ Precedence[i] \in Tripped
      BY <2>3, <3>1, GatesAre
    <3>3. \A k \in 1..(i - 1) : Precedence[k] \notin Tripped
      BY <2>3, <3>1, <3>2
    <3>4. \E j \in DOMAIN Precedence :
            /\ exit' = ExitCode[Precedence[j]]
            /\ Precedence[j] \in Tripped
            /\ \A k \in 1..(j - 1) : Precedence[k] \notin Tripped
      BY <3>1, <3>2, <3>3, GatesAre
    <3>5. Tripped # {}
      BY <3>2
    <3> QED BY <2>2, <3>4, <3>5 DEF ExitNamesTheGates
  <2> QED BY <1>1, <2>5, <2>6 DEF ReportGates
<1>2. CASE Next /\ ~ReportGates
  BY <1>2, FinishingStep DEF ExitNamesTheGates
<1>3. CASE UNCHANGED vars
  BY <1>3 DEF vars, ExitNamesTheGates, Finished, Tripped, Evaluated, Asked, Targets, once, model
<1> QED BY <1>1, <1>2, <1>3

\* For any command line, any documents and any gates they run into, a run that
\* was not cut short exits with the code of the first gate in the documented
\* order that some document ran into, and with 0 only when none did.
THEOREM ExitCorrect == Spec => []ExitNamesTheGates
<1>1. Init => ExitNamesTheGates
  BY DEF Init, ExitNamesTheGates, Finished
<1>2. TypeOK /\ HitsInv /\ ExitNamesTheGates /\ [Next]_vars => ExitNamesTheGates'
  BY ExitOfStep
<1> QED BY <1>1, <1>2, TypeCorrect, HitsHold, PTL DEF Spec

-----------------------------------------------------------------------------
(* The documents that are left. *)

\* The file of a document is all that was to be written, but for a lost piece.
Whole(d) == file[d] = Rendered(d, incomplete[d], d \notin late)

\* Where the output of the documents behind main stands.
LeftInv ==
  /\ \A d \in late : d < doc \/ (d = doc /\ pc = "vex")
  /\ line.report = "none" =>
       /\ reports = {}
       /\ \A d \in Targets : d < doc \/ (d = doc /\ pc = "vex") => Whole(d)
  /\ line.report # "none" => reports = {d \in Targets : d < doc}
  /\ pc = "exit" \/ Finished => doc = targets + 1 /\ printed = reports

\* Documents before the one at hand, where a step leaves them alone.
Behind(d) ==
  /\ file'[d] = file[d] /\ input'[d] = input[d] /\ incomplete'[d] = incomplete[d]
  /\ (d \notin late') = (d \notin late)

\* A step that stays with its document leaves what is behind the loop alone.
LEMMA StayKeepsLeft ==
  ASSUME TypeOK, LeftInv, line' = line, targets' = targets, doc' = doc, reports' = reports,
         pc' \notin {"vex", "exit", "ended"}, ~Finished', pc # "vex", late' = late,
         \A d \in Targets : d < doc => Behind(d)
  PROVE  LeftInv'
<1>1. \A d \in Targets : d < doc /\ Whole(d) => Whole(d)'
  BY DEF Whole, Behind, Rendered
<1> QED BY <1>1 DEF LeftInv, Targets

\* A step that leaves the documents alone.
LEMMA SameKeepsWhole ==
  ASSUME UNCHANGED <<line, targets, doc, model, output>>,
         LeftInv
  PROVE  /\ \A d \in late' : d < doc' \/ (d = doc' /\ pc = "vex")
         /\ line'.report = "none" =>
              /\ reports' = {}
              /\ \A d \in Targets' : d < doc' => Whole(d)'
              /\ \A d \in Targets' : d = doc' /\ pc = "vex" => Whole(d)'
         /\ line'.report # "none" => reports' = {d \in Targets' : d < doc'}
<1>1. Targets' = Targets /\ line' = line /\ doc' = doc /\ reports' = reports /\ late' = late
  BY DEF Targets, output
<1>2. \A d \in Targets : Whole(d) => Whole(d)'
  BY DEF Whole, Rendered, model, output
<1> QED BY <1>1, <1>2 DEF LeftInv

\* A step that turns to the next document leaves the last one whole, or in the reports.
LEMMA NextKeepsLeft ==
  ASSUME TypeOK, LeftInv, line' = line, targets' = targets, doc \in Targets, doc' = doc + 1,
         pc' \in {"model", "render"}, ~Finished',
         line.report = "none" => reports' = reports /\ \A d \in Targets : d = doc => Whole(d)',
         line.report # "none" => reports' = reports \cup {doc},
         \A d \in Targets : d < doc => Behind(d),
         late' \subseteq late \cup {doc}
  PROVE  LeftInv'
<1>1. \A d \in Targets : d \in Nat /\ (d < doc' <=> d < doc \/ d = doc)
  BY RunAssumption DEF Targets, TypeOK, LineOK
<1>4. \A d \in late' : d < doc'
  BY <1>1 DEF LeftInv, TypeOK, OutputOK
<1>2. CASE line.report = "none"
  <2>1. \A d \in Targets : d < doc => Whole(d)'
    BY <1>2 DEF LeftInv, Whole, Behind, Rendered
  <2>2. \A d \in Targets' : d < doc' => Whole(d)'
    BY <1>1, <1>2, <2>1 DEF Targets
  <2> QED BY <1>2, <1>4, <2>2 DEF LeftInv
<1>3. CASE line.report # "none"
  BY <1>1, <1>3, <1>4 DEF LeftInv, Targets
<1> QED BY <1>2, <1>3

\* A process that has not begun, or has failed, has nothing behind the loop.
LEMMA ForgetsKeepsLeft ==
  ASSUME TypeOK, Forgets, pc' \in {"ended", "mapping"}, exit' \in {1, Killed, Running}
  PROVE  LeftInv'
<1>1. doc' = 1 /\ reports' = {} /\ late' = {} /\ ~Finished'
  BY DEF Forgets, Finished
<1>2. {d \in Targets' : d < 1} = {}
  BY DEF Targets
<1> QED BY <1>1, <1>2 DEF LeftInv, Targets

\* Every step keeps what is left behind the loop.
LEMMA LeftOfStep ==
  ASSUME TypeOK, LeftInv, [Next]_vars
  PROVE  LeftInv'
<1>1. CASE Fails \/ Kill \/ RunAgain
  BY <1>1, ForgetsKeepsLeft DEF Fails, Kill, RunAgain
<1>2. CASE UNCHANGED vars
  <2>1. UNCHANGED <<line, targets, doc, model, output>> /\ UNCHANGED <<pc, exit, printed>>
    BY <1>2 DEF vars, once, output
  <2>2. Finished' = Finished
    BY <2>1 DEF Finished
  <2> QED BY <2>1, <2>2, SameKeepsWhole DEF LeftInv, output
<1>3. CASE ReportGates
  <2>1. /\ UNCHANGED <<line, targets, doc, model, output>> /\ UNCHANGED printed
        /\ pc = "exit" /\ pc' = "ended"
    BY <1>3 DEF ReportGates, once, output
  <2> QED BY <2>1, SameKeepsWhole DEF LeftInv, output
<1>4. CASE RenderReports /\ ~Fails
  <2>1. /\ line' = line /\ targets' = targets /\ doc' = doc /\ pc = "render" /\ pc' = "exit"
        /\ printed' = reports /\ UNCHANGED <<model, reports, file, late>>
    BY <1>4 DEF RenderReports, Goes, once
  <2>2. doc = targets + 1
    BY <2>1 DEF TypeOK, ControlOK, PlaceOK
  <2>3. \A d \in Targets : Whole(d) => Whole(d)'
    BY <2>1 DEF Whole, Rendered, model
  <2>4. Targets' = Targets
    BY <2>1 DEF Targets
  <2> QED BY <2>1, <2>2, <2>3, <2>4 DEF LeftInv
<1>5. CASE pc \notin {"render", "exit", "ended"} /\ ~Fails /\ ~Kill /\ Next
  <2>1. doc \in Targets /\ (\A d \in Targets : d \in Documents /\ d \in Nat)
    BY <1>5, DocumentAtHand DEF Targets
  <2>2. ~Finished'
    BY <1>5, FinishingStep DEF ReportGates
  <2>3. \A d \in Targets : d < doc => d # doc
    BY <2>1
  <2>4. CASE LoadMapping \/ LoadKev \/ LookUpTogether
    <3>1. /\ line' = line /\ targets' = targets /\ doc' = doc /\ UNCHANGED <<model, output>>
          /\ pc # "vex" /\ pc' \in {"kev", "shared", "model"}
      BY <1>5, <2>4 DEF LoadMapping, LoadKev, LookUpTogether, Goes, once, model
    <3> QED BY <2>2, <3>1, StayKeepsLeft DEF model, output, Behind
  <2>5. CASE BuildModel
    <3>1. /\ line' = line /\ targets' = targets /\ doc' = doc /\ UNCHANGED output
          /\ pc # "vex" /\ pc' = "enrich"
          /\ \E i \in Inputs : input' = [input EXCEPT ![doc] = i]
          /\ incomplete' = [incomplete EXCEPT ![doc] = {}]
      BY <1>5, <2>5 DEF BuildModel, Goes, once
    <3>2. \A d \in Targets : d < doc => Behind(d)
      BY <2>1, <2>3, <3>1 DEF Behind, output, TypeOK, ModelOK
    <3> QED BY <2>2, <3>1, <3>2, StayKeepsLeft DEF output
  <2>6. CASE Enrich
    <3>1. /\ line' = line /\ targets' = targets /\ doc' = doc /\ UNCHANGED <<input, output>>
          /\ pc # "vex" /\ pc' = "osv" /\ \E what : Notes(what)
      BY <2>6 DEF Enrich, ApplyShared, EnrichAlone, Goes, once
    <3>2. \A d \in Targets : d < doc => Behind(d)
      BY <2>1, <2>3, <3>1 DEF Behind, output, Notes, TypeOK, ModelOK
    <3> QED BY <2>2, <3>1, <3>2, StayKeepsLeft DEF output
  <2>7. CASE AskOsv
    <3>1. /\ line' = line /\ targets' = targets /\ doc' = doc /\ UNCHANGED <<input, output>>
          /\ pc # "vex" /\ pc' \in {"scores", "gates"}
          /\ (incomplete' = incomplete \/ \E what : Notes(what))
      BY <1>5, <2>7 DEF AskOsv, Goes, once, model
    <3>2. \A d \in Targets : d < doc => Behind(d)
      BY <2>1, <2>3, <3>1 DEF Behind, output, Notes, TypeOK, ModelOK
    <3> QED BY <2>2, <3>1, <3>2, StayKeepsLeft DEF output
  <2>8. CASE AssessFindings
    <3>1. /\ line' = line /\ targets' = targets /\ doc' = doc /\ UNCHANGED <<input, incomplete, output>>
          /\ pc # "vex" /\ pc' = "gates"
      BY <1>5, <2>8 DEF AssessFindings, Goes, once
    <3> QED BY <2>2, <3>1, StayKeepsLeft DEF output, Behind
  <2>9. CASE CheckPackages
    <3>1. UNCHANGED model
      BY <2>9 DEF CheckPackages
    <3>2. CASE line.report = "outdated"
      <4>1. NextDocument /\ Reported
        BY <2>9, <3>2 DEF CheckPackages
      <4> QED BY <2>1, <2>2, <3>1, <3>2, <4>1, NextKeepsLeft
              DEF NextDocument, Reported, once, model, Behind
    <3>3. CASE line.report # "outdated"
      <4>1. pc = "gates" /\ Goes("scorecard") /\ UNCHANGED <<doc, output>>
        BY <2>9, <3>3 DEF CheckPackages
      <4> QED BY <2>2, <3>1, <4>1, StayKeepsLeft DEF Goes, once, model, output, Behind
    <3> QED BY <3>2, <3>3
  <2>10. CASE ReadScorecards
    <3>1. /\ line' = line /\ targets' = targets /\ doc' = doc /\ UNCHANGED <<input, output>>
          /\ pc # "vex" /\ pc' \in {"write", "report"} /\ \E what : Notes(what)
      BY <2>10 DEF ReadScorecards, Goes, once
    <3>2. \A d \in Targets : d < doc => Behind(d)
      BY <2>1, <2>3, <3>1 DEF Behind, output, Notes, TypeOK, ModelOK
    <3> QED BY <2>2, <3>1, <3>2, StayKeepsLeft DEF output
  <2>11. CASE ReportOn
    <3>1. pc = "report" /\ NextDocument /\ Reported /\ UNCHANGED model
      BY <1>5, <2>11 DEF ReportOn
    <3>2. line.report # "none"
      BY <3>1 DEF TypeOK, ControlOK, PlaceOK
    <3> QED BY <2>1, <2>2, <3>1, <3>2, NextKeepsLeft
            DEF NextDocument, Reported, once, model, Behind
  <2>12. CASE WriteOutput \/ DropWriter
    <3>1. line.report = "none" /\ pc \in {"write", "drop"} /\ input' = input /\ reports' = reports
      BY <1>5, <2>12 DEF WriteOutput, DropWriter, TypeOK, ControlOK, PlaceOK, output, model
    <3>2. incomplete' = incomplete \/ \E what : Notes(what)
      BY <1>5, <2>12 DEF WriteOutput, DropWriter, model
    <3>3. file' = file \/ \E new : file' = [file EXCEPT ![doc] = new]
      BY <1>5, <2>12 DEF WriteOutput, DropWriter, output
    <3>9. late' = late \/ late' = late \cup {doc}
      BY <1>5, <2>12 DEF WriteOutput, DropWriter, output
    <3>4. \A d \in Targets : d < doc => Behind(d)
      BY <2>1, <2>3, <3>1, <3>2, <3>3, <3>9 DEF Behind, Notes, TypeOK, ModelOK, OutputOK
    <3>5. CASE Goes("drop") /\ doc' = doc /\ late' = late
      BY <2>2, <3>1, <3>4, <3>5, StayKeepsLeft DEF Goes, once
    <3>6. CASE AfterWriting /\ \A d \in Targets : d = doc => Whole(d)'
      <4>1. CASE Has("vex")
        <5>1. Goes("vex") /\ doc' = doc
          BY <3>6, <4>1 DEF AfterWriting
        <5>2. \A d \in Targets : d < doc => Whole(d)'
          BY <3>1, <3>4 DEF LeftInv, Whole, Behind, Rendered
        <5>3. \A d \in late' : d < doc' \/ (d = doc' /\ pc' = "vex")
          BY <3>1, <3>9, <5>1 DEF LeftInv, Goes
        <5> QED BY <2>1, <2>2, <3>1, <3>6, <5>1, <5>2, <5>3 DEF LeftInv, Goes, once, Targets
      <4>2. CASE ~Has("vex")
        <5>1. NextDocument
          BY <3>6, <4>2 DEF AfterWriting
        <5> QED BY <2>1, <2>2, <3>1, <3>4, <3>6, <3>9, <5>1, NextKeepsLeft DEF NextDocument, once
      <4> QED BY <4>1, <4>2
    <3>7. CASE WriteOutput
      <4>1. CASE Unchanged
        <5>1. AfterWriting /\ file' = file /\ input' = input
          BY <1>5, <3>1, <3>7, <4>1 DEF WriteOutput, output
        <5>2. doc \notin late /\ late' = late
          BY <1>5, <2>1, <3>1, <3>7, <4>1 DEF WriteOutput, output, LeftInv
        <5>3. (doc \notin late') = TRUE
          BY <5>2
        <5>4. \A d \in Targets : d = doc => Whole(d)'
          BY <4>1, <5>1, <5>3 DEF Whole, Unchanged, Rendered
        <5> QED BY <3>6, <5>1, <5>4
      <4>2. CASE ~Unchanged
        BY <1>5, <3>5, <3>7, <4>2 DEF WriteOutput
      <4> QED BY <4>1, <4>2
    <3>8. CASE DropWriter
      <4>1. pc = "drop" /\ AfterWriting /\ incomplete' = incomplete
        BY <1>5, <3>8 DEF DropWriter, model
      <4>2. PICK lost \in LateErrors :
              /\ late' = IF lost THEN late \cup {doc} ELSE late
              /\ file' = [file EXCEPT ![doc] = Rendered(doc, incomplete[doc], ~lost)]
        BY <1>5, <3>8 DEF DropWriter
      <4>3. doc \notin late
        BY <2>1, <4>1 DEF LeftInv
      <4>4. (~lost) = (doc \notin late')
        BY <4>2, <4>3, RunAssumption
      <4>5. \A d \in Targets : d = doc => Whole(d)'
        <5>1. file'[doc] = Rendered(doc, incomplete[doc], ~lost)
          BY <2>1, <4>2 DEF TypeOK, OutputOK
        <5>2. file'[doc] = Rendered(doc, incomplete[doc], doc \notin late')
          BY <4>4, <5>1
        <5> QED BY <3>1, <4>1, <5>2 DEF Whole, Rendered
      <4> QED BY <3>6, <4>1, <4>5
    <3> QED BY <2>12, <3>7, <3>8
  <2>13. CASE WriteVex
    <3>1. pc = "vex" /\ NextDocument /\ UNCHANGED <<model, output>>
      BY <1>5, <2>13 DEF WriteVex
    <3>2. line.report = "none"
      BY <3>1 DEF TypeOK, ControlOK, PlaceOK
    <3>3. \A d \in Targets : Behind(d)
      BY <3>1 DEF Behind, model, output
    <3>4. \A d \in Targets : d = doc => Whole(d)'
      BY <3>1, <3>2, <3>3 DEF LeftInv, Whole, Behind, Rendered
    <3>5. /\ line' = line /\ targets' = targets /\ doc' = doc + 1
          /\ pc' \in {"model", "render"} /\ reports' = reports /\ late' = late
      BY <3>1 DEF NextDocument, once, output
    <3> QED BY <2>1, <2>2, <3>2, <3>3, <3>4, <3>5, NextKeepsLeft
  <2> QED BY <1>5, <2>4, <2>5, <2>6, <2>7, <2>8, <2>9, <2>10, <2>11, <2>12, <2>13
          DEF Next, RenderReports, ReportGates, RunAgain
<1> QED BY <1>1, <1>2, <1>3, <1>4, <1>5
        DEF Next, LoadMapping, LoadKev, LookUpTogether, BuildModel, Enrich, AskOsv,
            AssessFindings, CheckPackages, ReadScorecards, ReportOn, WriteOutput,
            DropWriter, WriteVex, RenderReports, ReportGates

\* A run that was not cut short leaves all it was asked for, over any files that
\* earlier runs left behind: each document is this run's, and whole wherever the
\* disk took the last piece of it.
THEOREM ArtifactsAreLeft == Spec => []ArtifactIsLeft
<1>1. Init => LeftInv
  <2> SUFFICES ASSUME Init PROVE LeftInv
    OBVIOUS
  <2>1. doc = 1 /\ pc = "mapping" /\ reports = {} /\ late = {} /\ ~Finished
    BY DEF Init, Finished
  <2>2. \A d \in Targets : ~(d < doc)
    BY <2>1 DEF Targets
  <2> QED BY <2>1, <2>2 DEF LeftInv
<1>2. TypeOK /\ LeftInv /\ [Next]_vars => LeftInv'
  BY LeftOfStep
<1>3. TypeOK /\ LeftInv => ArtifactIsLeft
  <2> SUFFICES ASSUME TypeOK, LeftInv, Finished PROVE ArtifactIsLeft
    BY DEF ArtifactIsLeft
  <2>1. doc = targets + 1 /\ printed = reports
    BY DEF LeftInv
  <2>2. \A d \in Targets : d < doc
    BY <2>1, RunAssumption DEF TypeOK, LineOK, Targets
  <2> QED BY <2>1, <2>2 DEF LeftInv, ArtifactIsLeft, Whole
<1> QED BY <1>1, <1>2, <1>3, TypeCorrect, PTL DEF Spec

-----------------------------------------------------------------------------
(* What the documents say. *)

\* The places where a document is filled, and where it is written.
Filling == {"enrich", "osv", "scores", "gates", "scorecard", "report", "write"}
Writing == {"drop", "vex"}

\* What a document lacks is in its notes or still in the globals until it is
\* written, and then in the file.
SaidInv ==
  /\ IncompleteIsSaid
  /\ pc \in Filling => missed[doc] \subseteq Unfinished
  /\ pc = "drop" => missed[doc] \subseteq incomplete[doc]
  /\ pc = "vex" => missed[doc] \subseteq file[doc].incomplete

\* What a document lacks and what its file says, left alone.
Settled(d) == missed'[d] = missed[d] /\ file'[d] = file[d]

\* A step that stays with its document keeps what was said if it says what it adds.
LEMMA StayKeepsSaid ==
  ASSUME TypeOK, SaidInv, line' = line, targets' = targets, doc' = doc,
         \A d \in Targets : d < doc => Settled(d),
         pc' \in Filling => missed'[doc] \subseteq Unfinished',
         pc' = "drop" => missed'[doc] \subseteq incomplete'[doc],
         pc' = "vex" => missed'[doc] \subseteq file'[doc].incomplete
  PROVE  SaidInv'
<1>1. IncompleteIsSaid'
  BY DEF SaidInv, IncompleteIsSaid, Settled, Targets
<1> QED BY <1>1 DEF SaidInv

\* A step that turns to the next document has said all the last one lacks.
LEMMA NextKeepsSaid ==
  ASSUME TypeOK, SaidInv, line' = line, targets' = targets, doc \in Targets, doc' = doc + 1,
         pc' \in {"model", "render"},
         \A d \in Targets : d < doc => Settled(d),
         line.report = "none" => missed'[doc] \subseteq file'[doc].incomplete
  PROVE  SaidInv'
<1>1. \A d \in Targets : d \in Nat /\ (d < doc' <=> d < doc \/ d = doc)
  BY RunAssumption DEF Targets, TypeOK, LineOK
<1>2. IncompleteIsSaid'
  BY <1>1 DEF SaidInv, IncompleteIsSaid, Settled, Targets
<1> QED BY <1>2 DEF SaidInv, Filling, Writing

\* Notes and globals only grow while a document is at hand.
LEMMA UnfinishedGrows ==
  ASSUME doc' = doc, stale \subseteq stale', dropped \in Nat, dropped' \in Nat,
         dropped' >= dropped, incomplete[doc] \subseteq incomplete'[doc]
  PROVE  Unfinished \subseteq Unfinished'
  BY DEF Unfinished

\* What was noted stays so,
LEMMA NotesAreKept ==
  ASSUME TypeOK, doc \in Documents, NEW what, Notes(what)
  PROVE  incomplete'[doc] = incomplete[doc] \cup what
  BY DEF TypeOK, ModelOK, Notes

\* and so does what was missed, of the other documents without change.
LEMMA MissesAreKept ==
  ASSUME TypeOK, doc \in Documents, NEW what, Misses(what)
  PROVE  /\ missed'[doc] = missed[doc] \cup what
         /\ \A d \in Documents : d # doc => missed'[d] = missed[d]
  BY DEF TypeOK, ModelOK, Misses

\* A step that fills the document at hand.
LEMMA FillingKeepsSaid ==
  ASSUME TypeOK, SaidInv, line' = line, targets' = targets, doc' = doc, doc \in Targets,
         pc \in Filling, pc' \in Filling, UNCHANGED file,
         stale \subseteq stale', dropped' \in Nat, dropped' >= dropped,
         incomplete[doc] \subseteq incomplete'[doc],
         NEW what, Misses(what), what \subseteq Unfinished'
  PROVE  SaidInv'
<1>1. doc \in Documents /\ (\A d \in Targets : d \in Documents /\ (d < doc => d # doc))
  BY RunAssumption DEF TypeOK, LineOK, Targets, Documents
<1>2. missed'[doc] = missed[doc] \cup what
  BY <1>1, MissesAreKept
<1>3. Unfinished \subseteq Unfinished'
  BY UnfinishedGrows DEF TypeOK, GlobalsOK
<1>4. missed'[doc] \subseteq Unfinished'
  BY <1>2, <1>3 DEF SaidInv
<1>5. \A d \in Targets : d < doc => Settled(d)
  BY <1>1, MissesAreKept DEF Settled
<1> QED BY <1>4, <1>5, StayKeepsSaid DEF Filling, Writing

\* A step that leaves what documents lack and say alone.
LEMMA IdleKeepsSaid ==
  ASSUME TypeOK, SaidInv, line' = line, targets' = targets, doc' = doc,
         UNCHANGED <<globals, model, file>>,
         pc' \notin Filling \cup Writing \/ (pc \in Filling /\ pc' \in Filling)
  PROVE  SaidInv'
<1>1. Unfinished' = Unfinished
  BY DEF Unfinished, globals, model
<1>2. \A d \in Targets : Settled(d)
  BY DEF Settled, model
<1>3. pc' \in Filling => missed'[doc] \subseteq Unfinished'
  BY <1>1 DEF SaidInv, model
<1>4. pc' \notin {"drop", "vex"}
  BY DEF Filling, Writing
<1> QED BY <1>2, <1>3, <1>4, StayKeepsSaid

\* A process that has not begun, or has failed, has no document to say anything of.
LEMMA ForgetsKeepsSaid ==
  ASSUME TypeOK, Forgets, pc' \in {"ended", "mapping"}
  PROVE  SaidInv'
<1>1. doc' = 1
  BY DEF Forgets
<1>2. \A d \in Targets' : ~(d < doc')
  BY <1>1 DEF Targets
<1> QED BY <1>2 DEF SaidInv, IncompleteIsSaid, Filling, Writing

\* Every step keeps what the documents say they lack.
LEMMA SaidOfStep ==
  ASSUME TypeOK, SaidInv, [Next]_vars
  PROVE  SaidInv'
<1>1. CASE Fails \/ Kill \/ RunAgain
  BY <1>1, ForgetsKeepsSaid DEF Fails, Kill, RunAgain
<1>2. CASE UNCHANGED vars
  <2>1. UNCHANGED <<line, targets, doc, pc, globals, model, file>>
    BY <1>2 DEF vars, once, output
  <2>2. Unfinished' = Unfinished
    BY <2>1 DEF Unfinished, globals, model
  <2>3. \A d \in Targets : Settled(d)
    BY <2>1 DEF Settled, model
  <2> QED BY <2>1, <2>2, <2>3, StayKeepsSaid DEF SaidInv, model
<1>3. CASE (RenderReports \/ ReportGates) /\ ~Fails
  <2>1. UNCHANGED <<line, targets, doc, globals, model, file>> /\ pc' \in {"exit", "ended"}
    BY <1>3 DEF RenderReports, ReportGates, Goes, once, output
  <2> QED BY <2>1, IdleKeepsSaid DEF Filling, Writing
<1>4. CASE pc \notin {"render", "exit", "ended"} /\ ~Fails /\ ~Kill /\ Next
  <2>1. doc \in Targets /\ doc \in Documents /\ (\A d \in Targets : d \in Documents /\ d \in Nat)
    BY <1>4, DocumentAtHand DEF Targets
  <2>2. \A d \in Targets : d < doc => d # doc
    BY <2>1
  <2>3. dropped \in Nat /\ held \in 0..TextBudget
    BY DEF TypeOK, GlobalsOK
  <2>4. CASE LoadMapping \/ LoadKev \/ LookUpTogether
    <3>1. /\ line' = line /\ targets' = targets /\ doc' = doc /\ UNCHANGED <<model, file>>
          /\ pc' \in {"kev", "shared", "model"}
      BY <1>4, <2>4 DEF LoadMapping, LoadKev, LookUpTogether, Goes, once, output
    <3>2. \A d \in Targets : Settled(d)
      BY <3>1 DEF Settled, model
    <3> QED BY <3>1, <3>2, StayKeepsSaid DEF Filling, Writing
  <2>5. CASE BuildModel
    <3>1. /\ line' = line /\ targets' = targets /\ doc' = doc /\ UNCHANGED <<globals, file>>
          /\ pc' = "enrich"
          /\ missed' = [missed EXCEPT ![doc] = stale \cap {"mapping"}]
      BY <1>4, <2>5 DEF BuildModel, Goes, once, output
    <3>2. \A d \in Targets : d < doc => Settled(d)
      BY <2>1, <2>2, <3>1 DEF Settled, TypeOK, ModelOK
    <3>3. missed'[doc] = stale \cap {"mapping"}
      BY <2>1, <3>1 DEF TypeOK, ModelOK
    <3>4. missed'[doc] \subseteq Unfinished'
      BY <3>1, <3>3 DEF Unfinished, globals
    <3> QED BY <3>1, <3>2, <3>4, StayKeepsSaid DEF Filling, Writing
  <2>6. CASE Enrich
    <3>1. /\ line' = line /\ targets' = targets /\ doc' = doc /\ UNCHANGED file
          /\ pc = "enrich" /\ pc' = "osv"
      BY <2>6 DEF Enrich, Goes, once, output
    <3>2. CASE shared
      <4>1. Lacks /\ Notes(unfinished) /\ UNCHANGED globals
        BY <2>6, <3>2 DEF Enrich, ApplyShared
      <4>2. PICK lost \in SUBSET (unfinished \cup (IF dropped > 0 THEN {"texts"} ELSE {})) : Misses(lost)
        BY <4>1 DEF Lacks
      <4>3. incomplete'[doc] = incomplete[doc] \cup unfinished
        BY <2>1, <4>1, NotesAreKept
      <4>4. stale' = stale /\ dropped' = dropped
        BY <4>1 DEF globals
      <4>5. lost \subseteq Unfinished'
        BY <3>1, <4>3, <4>4 DEF Unfinished
      <4> QED BY <2>1, <2>3, <3>1, <4>2, <4>3, <4>4, <4>5, FillingKeepsSaid DEF Filling
    <3>3. CASE ~shared
      <4>1. EnrichAlone
        BY <2>6, <3>3 DEF Enrich
      <4>2. dropped' \in Nat /\ dropped' >= dropped /\ stale' = stale
        BY <2>3, <4>1, EnrichedKeepsBudget DEF EnrichAlone
      <4>3. PICK failed \in EnrichFailures :
              /\ Misses(failed \cup (IF dropped' > dropped THEN {"texts"} ELSE {}))
              /\ Notes(failed)
        BY <4>1 DEF EnrichAlone
      <4>4. incomplete'[doc] = incomplete[doc] \cup failed
        BY <2>1, <4>3, NotesAreKept
      <4>5. dropped' > dropped => dropped' > 0
        BY <2>3, <4>2
      <4>6. failed \cup (IF dropped' > dropped THEN {"texts"} ELSE {}) \subseteq Unfinished'
        BY <3>1, <4>4, <4>5 DEF Unfinished
      <4> QED BY <2>1, <2>3, <3>1, <4>2, <4>3, <4>4, <4>6, FillingKeepsSaid DEF Filling
    <3> QED BY <3>2, <3>3
  <2>7. CASE AskOsv
    <3>1. /\ line' = line /\ targets' = targets /\ doc' = doc /\ UNCHANGED <<globals, file>>
          /\ pc = "osv" /\ pc' \in {"scores", "gates"}
          /\ (UNCHANGED model \/ \E failed : Misses(failed) /\ Notes(failed))
      BY <1>4, <2>7 DEF AskOsv, Goes, once, output
    <3>2. CASE UNCHANGED model
      BY <3>1, <3>2, IdleKeepsSaid DEF Filling
    <3>3. CASE \E failed : Misses(failed) /\ Notes(failed)
      <4>1. PICK failed : Misses(failed) /\ Notes(failed)
        BY <3>3
      <4>2. incomplete'[doc] = incomplete[doc] \cup failed
        BY <2>1, <4>1, NotesAreKept
      <4>3. failed \subseteq Unfinished'
        BY <3>1, <4>2 DEF Unfinished
      <4> QED BY <2>1, <2>3, <3>1, <4>1, <4>2, <4>3, FillingKeepsSaid DEF Filling, globals
    <3> QED BY <3>1, <3>2, <3>3
  <2>8. CASE AssessFindings
    <3>1. /\ line' = line /\ targets' = targets /\ doc' = doc /\ UNCHANGED <<dropped, incomplete, file>>
          /\ pc = "scores" /\ pc' = "gates"
      BY <1>4, <2>8 DEF AssessFindings, Goes, once, output
    <3>2. PICK expired : stale' = stale \cup expired /\ Misses(expired \cup (stale \cap {"kev"}))
      BY <1>4, <2>8 DEF AssessFindings
    <3>3. expired \cup (stale \cap {"kev"}) \subseteq Unfinished'
      BY <3>2 DEF Unfinished
    <3> QED BY <2>1, <2>3, <3>1, <3>2, <3>3, FillingKeepsSaid DEF Filling
  <2>9. CASE CheckPackages
    <3>1. UNCHANGED <<globals, model>> /\ pc = "gates"
      BY <2>9 DEF CheckPackages
    <3>2. CASE line.report = "outdated"
      <4>1. NextDocument /\ Reported
        BY <2>9, <3>2 DEF CheckPackages
      <4>2. \A d \in Targets : Settled(d)
        BY <3>1, <4>1 DEF Settled, model, Reported
      <4> QED BY <2>1, <3>2, <4>1, <4>2, NextKeepsSaid DEF NextDocument, once
    <3>3. CASE line.report # "outdated"
      <4>1. Goes("scorecard") /\ UNCHANGED <<doc, output>>
        BY <2>9, <3>3 DEF CheckPackages
      <4> QED BY <3>1, <4>1, IdleKeepsSaid DEF Goes, once, output, Filling
    <3> QED BY <3>2, <3>3
  <2>10. CASE ReadScorecards
    <3>1. /\ line' = line /\ targets' = targets /\ doc' = doc /\ UNCHANGED <<globals, file>>
          /\ pc = "scorecard" /\ pc' \in {"write", "report"}
      BY <2>10 DEF ReadScorecards, Goes, once, output
    <3>2. PICK failed : Misses(failed) /\ Notes(failed)
      BY <2>10 DEF ReadScorecards
    <3>3. incomplete'[doc] = incomplete[doc] \cup failed
      BY <2>1, <3>2, NotesAreKept
    <3>4. failed \subseteq Unfinished'
      BY <3>1, <3>3 DEF Unfinished
    <3> QED BY <2>1, <2>3, <3>1, <3>2, <3>3, <3>4, FillingKeepsSaid DEF Filling, globals
  <2>11. CASE ReportOn
    <3>1. pc = "report" /\ NextDocument /\ Reported /\ UNCHANGED model
      BY <1>4, <2>11 DEF ReportOn
    <3>2. line.report # "none"
      BY <3>1 DEF TypeOK, ControlOK, PlaceOK
    <3>3. \A d \in Targets : Settled(d)
      BY <3>1 DEF Settled, model, Reported
    <3> QED BY <2>1, <3>1, <3>2, <3>3, NextKeepsSaid DEF NextDocument, once
  <2>12. CASE WriteOutput \/ DropWriter \/ WriteVex
    <3>1. line' = line /\ targets' = targets /\ UNCHANGED missed
      BY <1>4, <2>12 DEF WriteOutput, DropWriter, WriteVex, AfterWriting, NextDocument, Goes,
         once, model
    <3>2. \/ file' = file
          \/ \E new : file' = [file EXCEPT ![doc] = new]
      BY <1>4, <2>12 DEF WriteOutput, DropWriter, WriteVex, output
    <3>3. \A d \in Targets : d < doc => Settled(d)
      BY <2>1, <2>2, <3>1, <3>2 DEF Settled, TypeOK, OutputOK
    <3>4. CASE missed'[doc] \subseteq file'[doc].incomplete /\ missed'[doc] \subseteq incomplete'[doc]
      <4>1. NextDocument \/ (doc' = doc /\ pc' \in Writing)
        BY <1>4, <2>12 DEF WriteOutput, DropWriter, WriteVex, AfterWriting, Goes, Writing
      <4>2. CASE NextDocument
        BY <2>1, <3>1, <3>3, <3>4, <4>2, NextKeepsSaid DEF NextDocument
      <4>3. CASE doc' = doc /\ pc' \in Writing
        BY <3>1, <3>3, <3>4, <4>3, StayKeepsSaid DEF Filling, Writing
      <4> QED BY <4>1, <4>2, <4>3
    <3>5. CASE WriteOutput
      <4>1. /\ pc = "write" /\ Notes(Unfinished)
            /\ \/ file' = file /\ file[doc] = Rendered(doc, incomplete'[doc], TRUE)
               \/ file' = [file EXCEPT ![doc] = Rendered(doc, incomplete'[doc], FALSE)]
        BY <1>4, <3>5 DEF WriteOutput, Unchanged, output
      <4>2. file'[doc].incomplete = incomplete'[doc]
        BY <2>1, <4>1 DEF Rendered, TypeOK, OutputOK
      <4>3. Unfinished \subseteq incomplete'[doc]
        BY <2>1, <4>1, NotesAreKept
      <4>4. missed[doc] \subseteq Unfinished
        BY <4>1 DEF SaidInv, Filling
      <4> QED BY <3>1, <3>4, <4>2, <4>3, <4>4
    <3>6. CASE DropWriter
      <4>1. /\ pc = "drop" /\ UNCHANGED incomplete
            /\ \E lost \in LateErrors :
                 file' = [file EXCEPT ![doc] = Rendered(doc, incomplete[doc], ~lost)]
        BY <1>4, <3>6 DEF DropWriter, model
      <4>2. file'[doc].incomplete = incomplete[doc]
        BY <2>1, <4>1 DEF Rendered, TypeOK, OutputOK
      <4>3. missed[doc] \subseteq incomplete[doc]
        BY <4>1 DEF SaidInv
      <4> QED BY <3>1, <3>4, <4>1, <4>2, <4>3
    <3>7. CASE WriteVex
      <4>1. pc = "vex" /\ NextDocument /\ file' = file
        BY <1>4, <3>7 DEF WriteVex, output
      <4>2. missed[doc] \subseteq file'[doc].incomplete
        BY <4>1 DEF SaidInv
      <4> QED BY <2>1, <3>1, <3>3, <4>1, <4>2, NextKeepsSaid DEF NextDocument
    <3> QED BY <2>12, <3>5, <3>6, <3>7
  <2> QED BY <1>4, <2>4, <2>5, <2>6, <2>7, <2>8, <2>9, <2>10, <2>11, <2>12
          DEF Next, RenderReports, ReportGates, RunAgain
<1> QED BY <1>1, <1>2, <1>3, <1>4
        DEF Next, LoadMapping, LoadKev, LookUpTogether, BuildModel, Enrich, AskOsv,
            AssessFindings, CheckPackages, ReadScorecards, ReportOn, WriteOutput,
            DropWriter, WriteVex, RenderReports, ReportGates

\* Whatever the lookups of any document, or of all of them at once, could not get
\* or keep, each document on disk that lacks it says so.
THEOREM LacksAreSaid == Spec => []IncompleteIsSaid
<1>1. Init => SaidInv
  <2> SUFFICES ASSUME Init PROVE SaidInv
    OBVIOUS
  <2>1. doc = 1 /\ pc = "mapping"
    BY DEF Init
  <2>2. \A d \in Targets : ~(d < doc)
    BY <2>1 DEF Targets
  <2> QED BY <2>1, <2>2 DEF SaidInv, IncompleteIsSaid, Filling, Writing
<1>2. TypeOK /\ SaidInv /\ [Next]_vars => SaidInv'
  BY SaidOfStep
<1>3. SaidInv => IncompleteIsSaid
  BY DEF SaidInv
<1> QED BY <1>1, <1>2, <1>3, TypeCorrect, PTL DEF Spec
=============================================================================
