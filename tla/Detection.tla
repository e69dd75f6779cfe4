----------------------------- MODULE Detection -----------------------------
(***************************************************************************)
(* The line of a finding is looked for in its file: one call of DetectLine *)
(* of pkg/detector/detector.go for a search key and a file.                *)
(***************************************************************************)
EXTENDS Call

CONSTANT Searches   \* set of [key, file, outputLines]

(* --preview-lines is at least 1. *)
ASSUME SearchesTyped ==
  \A search \in Searches :
    /\ search.key \in Seq(STRING) /\ search.file.lines \in Seq(Seq(STRING))
    /\ search.outputLines \in Nat \ {0}

Line == INSTANCE Detectors

DetectionInit == Called("detect", Searches)
DetectLine == call = "detect" /\ Return(Line!Detected(input.key, input.file, input.outputLines))
DetectionSpec == DetectionInit /\ [][DetectLine]_vars

LineDetected == returned /\ call = "detect"

-----------------------------------------------------------------------------
(* The lines that a reader of the file sees: the markers of the manifests of a    *)
(* Helm template are not among them.                                              *)
Hidden(file) == {i \in DOMAIN file.lines : file.kind = "HELM" /\ Line!IsMarker(file.lines[i])}
Seen(file) == Len(file.lines) - Cardinality(Hidden(file))
(* No manifest of a template is empty. *)
NoneEmpty(file) == \A i \in Hidden(file) : i + 1 \notin Hidden(file)

(* The lines shown with a finding are lines of the file without a gap, the        *)
(* reported one among them, as many as asked for unless the file ends             *)
(* (GetAdjacentVulnLines).                                                        *)
FoundLineShown ==
  LineDetected /\ output.line # -1 /\ NoneEmpty(input.file) =>
    LET n == Seen(input.file)
        half == input.outputLines \div 2
    IN  /\ output.line \in output.shown /\ output.shown \subseteq 1 .. n
        /\ \A i, j \in output.shown : i .. j \subseteq output.shown
        /\ Cardinality(output.shown) <= input.outputLines
        /\ output.line > half /\ output.line + half <= n => Cardinality(output.shown) = input.outputLines
=============================================================================
