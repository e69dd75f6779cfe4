----------------------------- MODULE Analyzer -----------------------------
(***************************************************************************)
(* analyzer.Analyze (pkg/analyzer/analyzer.go): the walk collects the      *)
(* files to look at, one worker per file determines its type and sends it, *)
(* or sends the path as unwanted, and computeValues gathers what is sent   *)
(* until the closer, which waits for every worker, sends on done.          *)
(*                                                                         *)
(* results, locCount and done are unbuffered: a send and the select of     *)
(* computeValues are one step.  unwanted has a slot for every file: a      *)
(* worker leaves its path there and ends.                                  *)
(***************************************************************************)
EXTENDS Integers, Sequences, FiniteSets, SequencesExt, Functions

CONSTANTS
  Files,          \* the files under the given paths
  Ext,            \* the extension of each file
  Matches,        \* the keys of types all of whose expressions match the file
  YamlPlatform,   \* what checkHelm and checkYamlPlatform say of a YAML file
  Lines,          \* the number of lines of each file
  Unreadable,     \* files os.ReadFile cannot read
  Ignored,        \* files checkIgnore sets aside (.gitignore, dead link, size)
  ConfigFiles,    \* files isConfigFile recognises
  Excluded,       \* files the exclude flag names
  Flags           \* pairs of type flag and exclude-type flag; {} is the unset flag

ASSUME FilesFinite == IsFiniteSet(Files)
ASSUME LinesCounted == Lines \in [Files -> Nat]

(* Used keys of the map types, as sort.Reverse puts them. *)
TypeOrder ==
  << "templateArtifact", "terraform", "serverlessfw", "roleAssignmentArtifact", "pulumi",
     "policyAssignmentArtifact", "openapi", "kubernetes", "knative", "crossplane",
     "cloudformation", "cicd", "cdkTf", "buildah", "blueprint", "azureresourcemanager" >>

ArmRegexTypes ==
  {"blueprint", "templateArtifact", "roleAssignmentArtifact", "policyAssignmentArtifact"}

PossibleFileTypes ==
  {".yml", ".yaml", ".json", ".debian", ".ubi8", ".tf", "tfvars", ".proto", ".sh",
   ".cfg", ".conf", ".ini", ".bicep"}

VARIABLES
  flags,      \* the type flags of this call
  pc,         \* where the worker of each file is
  kind,       \* the type its worker reports, "" while there is none
  unwanted,   \* content of the unwanted channel
  types,      \* types received by computeValues
  unwantedS,  \* unwanted paths received by computeValues
  loc,        \* lines received by computeValues
  returned    \* computeValues received from done

vars == <<flags, pc, kind, unwanted, types, unwantedS, loc, returned>>
----------------------------------------------------------------------------
(* The walk of Analyze: a file set aside by the ignore or config checks is  *)
(* appended to the exclusions before the file itself is tested.             *)
ToAnalyze == {f \in Files \ (Excluded \union Ignored \union ConfigFiles) : Ext[f] \in PossibleFileTypes}

IsAvailableType(fl, t) ==
  IF fl.types # {} THEN t \in fl.types ELSE t \notin fl.exclude

(* supportedRegexes: the keys searched for a type *)
RegexesOf(t) ==
  IF t = "azureresourcemanager" THEN ArmRegexTypes \union {t}
  ELSE IF t = "terraform" THEN {"terraform", "cdkTf"}
  ELSE {t} \intersect ToSet(TypeOrder)

SupportedTypes == (ToSet(TypeOrder) \ ArmRegexTypes) \ {"cdkTf"}

Keys(fl) ==
  IF fl.types # {} THEN UNION {RegexesOf(t) : t \in fl.types}
  ELSE UNION {RegexesOf(t) : t \in SupportedTypes \ fl.exclude}

(* needsOverride, for a key whose expressions all match *)
NeedsOverride(returnType, key, ext) ==
  /\ returnType = "kubernetes"
  /\ \/ key = "azureresourcemanager" /\ ext = ".json"
     \/ key \in {"knative", "crossplane"} /\ ext \in {".yaml", ".yml"}

(* checkContent: the first matching key in order, unless one overrides it *)
MatchedType(fl, f) ==
  LET Try(found, key) ==
        IF found = "" \/ NeedsOverride(found, key, Ext[f]) THEN key ELSE found
      Matching(key) == key \in Keys(fl) \intersect Matches[f]
  IN  FoldLeft(Try, "", SelectSeq(TypeOrder, Matching))

CheckReturnType(f, t) ==
  IF t = "cdkTf" THEN "terraform"
  ELSE IF t \in ArmRegexTypes THEN "azureresourcemanager"
  ELSE IF t = "" /\ Ext[f] \in {".yaml", ".yml"} THEN YamlPlatform[f]
  ELSE t

InspectsContent(f) == Ext[f] \in {".yaml", ".yml", ".json", ".sh"}

(* the type the worker finds for a file, "" if none *)
FileType(fl, f) ==
  IF Ext[f] \in {".tf", "tfvars"} THEN "terraform"
  ELSE IF Ext[f] = ".bicep" THEN "bicep"
  ELSE IF Ext[f] = ".proto" THEN "grpc"
  ELSE IF Ext[f] \in {".cfg", ".conf", ".ini"} THEN "ansible"
  ELSE IF InspectsContent(f) THEN CheckReturnType(f, MatchedType(fl, f))
  ELSE ""

Readable(f) == InspectsContent(f) => f \notin Unreadable

Typed(fl, f) == Readable(f) /\ FileType(fl, f) # "" /\ IsAvailableType(fl, FileType(fl, f))

(* only content-inspected files are sent to unwanted *)
Unwanted(fl, f) == InspectsContent(f) /\ Readable(f) /\ ~Typed(fl, f)

MultiPlatformTypeCheck(ts) ==
  ts \union (IF "serverlessfw" \in ts THEN {"cloudformation"} ELSE {})
     \union (IF "knative" \in ts THEN {"kubernetes"} ELSE {})
----------------------------------------------------------------------------
Init ==
  /\ flags \in Flags
  /\ pc = [f \in ToAnalyze |-> "start"]
  /\ kind = [f \in ToAnalyze |-> ""]
  /\ unwanted = {} /\ types = {} /\ unwantedS = {} /\ loc = 0
  /\ returned = FALSE

(* Faulty: checkContent returns without wg.Done for an unreadable file. *)
ClassifyNoDone(f) ==
  /\ pc[f] = "start" /\ Readable(f)
  /\ kind' = [kind EXCEPT ![f] = IF Typed(flags, f) THEN FileType(flags, f) ELSE ""]
  /\ pc' = [pc EXCEPT ![f] = IF kind'[f] # "" THEN "type"
                             ELSE IF Unwanted(flags, f) THEN "unwanted"
                             ELSE "done"]
  /\ UNCHANGED <<flags, unwanted, types, unwantedS, loc, returned>>

(* worker, checkContent: the file is classified *)
Classify(f) ==
  /\ pc[f] = "start"
  /\ kind' = [kind EXCEPT ![f] = IF Typed(flags, f) THEN FileType(flags, f) ELSE ""]
  /\ pc' = [pc EXCEPT ![f] = IF kind'[f] # "" THEN "type"
                             ELSE IF Unwanted(flags, f) THEN "unwanted"
                             ELSE "done"]
  /\ UNCHANGED <<flags, unwanted, types, unwantedS, loc, returned>>

(* results <- type, received by computeValues *)
SendType(f) ==
  /\ pc[f] = "type" /\ ~returned
  /\ types' = types \union {kind[f]}
  /\ pc' = [pc EXCEPT ![f] = "loc"]
  /\ UNCHANGED <<flags, kind, unwanted, unwantedS, loc, returned>>

(* locCount <- linesCount, received by computeValues *)
SendLoc(f) ==
  /\ pc[f] = "loc" /\ ~returned
  /\ loc' = loc + Lines[f]
  /\ pc' = [pc EXCEPT ![f] = "done"]
  /\ UNCHANGED <<flags, kind, unwanted, types, unwantedS, returned>>

(* unwanted <- filePath, buffered *)
SendUnwanted(f) ==
  /\ pc[f] = "unwanted"
  /\ Cardinality(unwanted) < Cardinality(ToAnalyze)
  /\ unwanted' = unwanted \union {f}
  /\ pc' = [pc EXCEPT ![f] = "done"]
  /\ UNCHANGED <<flags, kind, types, unwantedS, loc, returned>>

(* case i := <-unwanted *)
ReceiveUnwanted(f) ==
  /\ ~returned
  /\ f \in unwanted
  /\ unwanted' = unwanted \ {f}
  /\ unwantedS' = unwantedS \union {f}
  /\ UNCHANGED <<flags, pc, kind, types, loc, returned>>

(* Faulty: a worker is done once its type is sent. *)
ReceiveDoneEarly ==
  /\ ~returned
  /\ \A f \in ToAnalyze : pc[f] \in {"loc", "done"}
  /\ returned' = TRUE
  /\ UNCHANGED <<flags, pc, kind, unwanted, types, unwantedS, loc>>

(* the closer: wg.Wait(); done <- true.  The select of computeValues takes  *)
(* any ready case: unwanted may still hold paths.                           *)
ReceiveDone ==
  /\ ~returned
  /\ \A f \in ToAnalyze : pc[f] = "done"
  /\ returned' = TRUE
  /\ UNCHANGED <<flags, pc, kind, unwanted, types, unwantedS, loc>>

Worker(f) == Classify(f) \/ SendType(f) \/ SendLoc(f) \/ SendUnwanted(f)

Step == ReceiveDone \/ \E f \in ToAnalyze : Worker(f) \/ ReceiveUnwanted(f)

Terminated == returned /\ UNCHANGED vars

Next == Step \/ Terminated

Spec == Init /\ [][Next]_vars

(* As long as some goroutine can move, one does: each moves finitely often. *)
FairSpec == Spec /\ WF_vars(Step)

(* The AnalyzedPaths that Analyze returns. *)
AnalyzedTypes == MultiPlatformTypeCheck(types)
AnalyzedExc == unwantedS \union Ignored \union ConfigFiles
----------------------------------------------------------------------------
(* What the scan loads depends only on the files, not on the order of the   *)
(* workers: at the end every type found and every line counted has arrived  *)
(* (the platforms whose queries run, and the expected lines of code).       *)
TypesAndLinesComplete ==
  returned =>
    /\ AnalyzedTypes = MultiPlatformTypeCheck({FileType(flags, f) : f \in {g \in ToAnalyze : Typed(flags, g)}})
    /\ loc = SumFunctionOnSet(Lines, {f \in ToAnalyze : Typed(flags, f)})

(* Analyze returns: no worker and no receive waits for ever.                *)
Returns == <>returned

(* analyzer.go:364 "if no types were found, the worker will write the path  *)
(* of the file in the unwanted channel"; :569 "creates the types and        *)
(* unwanted slices from the channels": no unwanted path is left out.        *)
UnwantedComplete ==
  returned => {f \in ToAnalyze : Unwanted(flags, f)} \subseteq AnalyzedExc
============================================================================
