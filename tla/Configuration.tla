----------------------------- MODULE Configuration -----------------------------
(***************************************************************************)
(* The settings of a run (config.rs; main.rs:90, 1222 and 1405): those of    *)
(* the command line, else of the configuration files, the most specific     *)
(* first, else the defaults.                                                *)
(*                                                                         *)
(* A file is [says, parses]; says is a function from some of the keys to     *)
(* what they are set to, Misspelt where that is no value of the key.  The    *)
(* places are [system, user, aligned, pyproject, legacy], None where there   *)
(* is no file that can be read, or a pyproject.toml without a table of ours. *)
(* A request is [given, noConfig, explicit, places, report, vex], given as   *)
(* says, explicit the file of --config.                                     *)
(***************************************************************************)
EXTENDS Sboms

CONSTANT Misspelt

\* Args: of the keys of a file those that something here depends on.
Defaults ==
  [format |-> "cyclonedx", specVersion |-> None, pypiMapping |-> "lock", pypiMappingFile |-> None,
   primaryPurl |-> "conda", fetchLicenses |-> FALSE, licenseTexts |-> FALSE,
   allowLicense |-> {}, denyLicense |-> {}, requireLicense |-> FALSE, ignoreLicense |-> <<>>,
   failOnYanked |-> FALSE, minQuality |-> None,
   vulnerabilities |-> None, kev |-> FALSE, failOnKev |-> FALSE, epss |-> FALSE, failOnEpss |-> None,
   failOnSeverity |-> None, ignoreVuln |-> <<>>, vexIn |-> <<>>,
   scorecard |-> FALSE, scorecardMin |-> 500, failOnScorecard |-> None,
   failOnDiff |-> {}, failOnPhantom |-> FALSE]

EnumKeys == {"format", "specVersion", "pypiMapping", "primaryPurl", "vulnerabilities", "failOnSeverity"}
MappingKeys == {"pypiMapping", "pypiMappingFile"}

\* project_layer: one file, not what several say.
ProjectLayer(places) ==
  CASE places.aligned # None -> places.aligned
    [] places.aligned = None /\ places.pyproject # None -> places.pyproject
    [] OTHER -> places.legacy

\* load_from, the least specific first.
Layers(request) ==
  LET places == request.places
  IN  CASE request.noConfig -> <<>>
        [] ~ request.noConfig /\ request.explicit # None -> <<request.explicit>>
        [] OTHER -> SelectSeq(<<places.system, places.user, ProjectLayer(places)>>, LAMBDA file : file # None)

CommandLine(given) == given @@ Defaults

\* The keys a layer sets: a mapping on the command line, from a file or not, is all
\* there is to it, and in a layer the file comes first.
Taken(says, given) ==
  LET own == DOMAIN says \ DOMAIN given
  IN  CASE MappingKeys \cap DOMAIN given # {} -> own \ MappingKeys
        [] MappingKeys \cap DOMAIN given = {} /\ "pypiMappingFile" \in own -> own \ {"pypiMapping"}
        [] OTHER -> own

\* apply, where it fails.  A probability is in tenths.
IsRejected(says, given) ==
  \/ \E key \in Taken(says, given) \cap EnumKeys : says[key] = Misspelt
  \/ "failOnEpss" \in DOMAIN says /\ says.failOnEpss \notin 0..10

\* Mutant: a less specific layer has the last word.
ApplyUnlessSet(settings, says, given) ==
  [key \in DOMAIN settings |->
     IF key \in Taken(says, given) /\ settings[key] = Defaults[key] THEN says[key] ELSE settings[key]]

\* apply
Apply(settings, says, given) ==
  LET taken == Taken(says, given)
  IN  [key \in DOMAIN settings |->
         CASE key \in taken /\ key = "minQuality" -> IF says[key] < 100 THEN says[key] ELSE 100
           [] key \in taken /\ key # "minQuality" -> says[key]
           [] key = "pypiMapping" /\ "pypiMappingFile" \in taken -> "lock"
           [] OTHER -> settings[key]]

\* validate, as far as it is about keys of a file: one that needs another, or that
\* says something of another report.
IsValid(settings, report, vex) ==
  LET withoutFindings ==
        /\ ~ settings.kev /\ ~ settings.epss /\ settings.failOnSeverity = None
        /\ settings.ignoreVuln = <<>> /\ settings.vexIn = <<>>
        /\ report # "vulnerabilities" /\ ~ vex
  IN  /\ settings.vulnerabilities = None => withoutFindings
      /\ settings.licenseTexts \/ settings.failOnYanked \/ settings.scorecard => settings.fetchLicenses
      /\ settings.failOnKev => settings.kev
      /\ settings.failOnEpss # None => settings.epss
      /\ report = "scorecard" => settings.scorecard
      /\ settings.failOnPhantom => report = "phantom"
      /\ settings.failOnDiff # {} => report = "diff"
      /\ vex => settings.format = "cyclonedx" /\ report = None

\* resolve_spec_version: None where the version is of another format.
Versions == [cyclonedx |-> {"1.6", "1.7"}, spdx |-> {"2.3", "3.0"}, github |-> {}]
DefaultVersion == [cyclonedx |-> "1.6", spdx |-> "2.3", github |-> "1.6"]
ResolveSpecVersion(settings) ==
  CASE settings.specVersion = None -> DefaultVersion[settings.format]
    [] settings.specVersion # None /\ settings.specVersion \in Versions[settings.format] -> settings.specVersion
    [] OTHER -> None

\* load_pypi_mapping: a mapping is a function from names to those PyPI has for them.
LoadPypiMapping(settings, published) ==
  CASE settings.pypiMappingFile # None -> settings.pypiMappingFile
    [] settings.pypiMappingFile = None /\ settings.pypiMapping = "prefix" -> published
    [] OTHER -> <<>>
================================================================================
