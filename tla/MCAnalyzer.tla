---------------------------- MODULE MCAnalyzer ----------------------------
(***************************************************************************)
(* One file of each interesting kind: typed by extension, an ARM template  *)
(* that also matches Kubernetes, a JSON file of no type, a Knative         *)
(* manifest, a chart value file, and one each that the walk leaves out.    *)
(***************************************************************************)
EXTENDS Analyzer

MCAttributes ==
  [ main      |-> <<".tf",   {}, "", 1>>,
    arm       |-> <<".json", {"kubernetes", "azureresourcemanager"}, "", 2>>,
    notes     |-> <<".json", {}, "", 4>>,
    knative   |-> <<".yaml", {"kubernetes", "knative"}, "", 16>>,
    values    |-> <<".yaml", {}, "kubernetes", 32>>,
    locked    |-> <<".yml",  {"openapi"}, "", 64>>,
    lockfile  |-> <<".yaml", {}, "", 128>>,
    huge      |-> <<".json", {"openapi"}, "", 256>>,
    vendored  |-> <<".yaml", {"openapi"}, "", 512>>,
    picture   |-> <<".png",  {}, "", 1024>> ]

MCFiles == DOMAIN MCAttributes
MCExt == [f \in MCFiles |-> MCAttributes[f][1]]
MCMatches == [f \in MCFiles |-> MCAttributes[f][2]]
MCYamlPlatform == [f \in MCFiles |-> MCAttributes[f][3]]
MCLines == [f \in MCFiles |-> MCAttributes[f][4]]
MCUnreadable == {"locked"}
MCIgnored == {"huge"}
MCConfigFiles == {"lockfile"}
MCExcluded == {"vendored"}
MCFlags ==
  { [types |-> {}, exclude |-> {}],
    [types |-> {"kubernetes", "terraform"}, exclude |-> {}],
    [types |-> {}, exclude |-> {"knative"}] }
============================================================================
