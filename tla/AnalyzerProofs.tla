--------------------------- MODULE AnalyzerProofs ---------------------------
(***************************************************************************)
(* The workers of Analyze against the loop of computeValues, for any files *)
(* and any flags: the platforms found do not depend on the order in which  *)
(* the workers are served, none of them waits for ever at the unwanted     *)
(* channel, and the paths that are missing at the end are exactly those    *)
(* that were still in its buffer.                                          *)
(***************************************************************************)
EXTENDS Analyzer, Folding

(* the files whose worker has sent its type, and its path, by their flags *)
LinesSent == {f \in ToAnalyze : Typed(flags, f) /\ pc[f] = "done"}
TypesSent == {f \in ToAnalyze : Typed(flags, f) /\ pc[f] \in {"loc", "done"}}
PathsSent == {f \in ToAnalyze : Unwanted(flags, f) /\ pc[f] = "done"}

(* Where a worker is says what it has found. *)
Workers ==
  /\ pc \in [ToAnalyze -> {"start", "type", "loc", "unwanted", "done"}]
  /\ kind = [f \in ToAnalyze |-> kind[f]]
  /\ \A f \in ToAnalyze :
       /\ pc[f] # "start" => kind[f] = IF Typed(flags, f) THEN FileType(flags, f) ELSE ""
       /\ pc[f] \in {"type", "loc"} => Typed(flags, f)
       /\ pc[f] = "unwanted" => Unwanted(flags, f)

(* What was sent is received, or in the buffer. *)
Received ==
  /\ types = {FileType(flags, f) : f \in TypesSent}
  /\ loc = SumFunctionOnSet(Lines, LinesSent)
  /\ unwanted \union unwantedS = PathsSent
  /\ unwanted \intersect unwantedS = {}

AllDone == returned => \A f \in ToAnalyze : pc[f] = "done"

IInv == Workers /\ Received /\ AllDone

-----------------------------------------------------------------------------
(* A file has a type or is unwanted, never both. *)
LEMMA TypedOrUnwanted ==
  ASSUME NEW fl, NEW f
  PROVE  /\ ~(Typed(fl, f) /\ Unwanted(fl, f))
         /\ Typed(fl, f) => FileType(fl, f) # ""
  BY DEF Typed, Unwanted

(* It holds at first. *)
LEMMA InitIInv == Init => IInv
<1> SUFFICES ASSUME Init PROVE IInv
  OBVIOUS
<1>1. Workers /\ AllDone /\ TypesSent = {} /\ PathsSent = {} /\ LinesSent = {}
  BY DEF Init, Workers, AllDone, TypesSent, PathsSent, LinesSent
<1>2. Received
  BY <1>1, SumEmpty DEF Received, Init
<1> QED
  BY <1>1, <1>2 DEF IInv

(* A worker that has sent its lines adds them to the sum. *)
LEMMA OneMoreSum ==
  ASSUME NEW S, S \subseteq ToAnalyze, NEW f \in ToAnalyze, f \notin S
  PROVE  SumFunctionOnSet(Lines, S \union {f}) = SumFunctionOnSet(Lines, S) + Lines[f]
<1> DEFINE T == S \union {f}
<1>1. IsFiniteSet(S) /\ IsFiniteSet(T) /\ T \ {f} = S /\ T \subseteq Files /\ f \in T
  BY FilesFinite, FS_Subset DEF ToAnalyze
<1>2. \A g \in T : Lines[g] \in Int
  BY <1>1, LinesCounted
<1> HIDE DEF T
<1>3. SumFunctionOnSet(Lines, T) = Lines[f] + SumFunctionOnSet(Lines, T \ {f})
  BY <1>1, <1>2, SumRemove
<1>4. SumFunctionOnSet(Lines, S) \in Int /\ Lines[f] \in Int
  BY <1>1, <1>2, SumType
<1> DEFINE sum == SumFunctionOnSet(Lines, S)
<1>5. SumFunctionOnSet(Lines, T) = Lines[f] + sum /\ sum \in Int
  BY <1>1, <1>3, <1>4
<1> HIDE DEF sum
<1>6. SumFunctionOnSet(Lines, T) = sum + Lines[f]
  BY <1>4, <1>5
<1> QED
  BY <1>6 DEF T, sum

(* Every step keeps the invariant. *)
LEMMA StepIInv == IInv /\ [Next]_vars => IInv'
<1> SUFFICES ASSUME IInv, [Next]_vars PROVE IInv'
  OBVIOUS
<1> USE DEF IInv
<1>1. ASSUME NEW f \in ToAnalyze, Classify(f) PROVE IInv'
  <2> DEFINE verdict == IF Typed(flags, f) THEN FileType(flags, f) ELSE ""
  <2>1. /\ pc[f] = "start" /\ flags' = flags
        /\ kind' = [kind EXCEPT ![f] = verdict]
        /\ kind'[f] = verdict
        /\ pc' = [pc EXCEPT ![f] = IF Typed(flags, f) THEN "type"
                                   ELSE IF Unwanted(flags, f) THEN "unwanted" ELSE "done"]
    BY <1>1, TypedOrUnwanted DEF Classify, Workers
  <2>2. Workers'
    BY <2>1, TypedOrUnwanted DEF Workers
  <2>3. TypesSent' = TypesSent /\ PathsSent' = PathsSent /\ LinesSent' = LinesSent
    BY <2>1, TypedOrUnwanted DEF TypesSent, PathsSent, LinesSent, Workers
  <2>4. UNCHANGED <<flags, unwanted, types, unwantedS, loc>>
    BY <1>1 DEF Classify
  <2>5. Received'
    BY <2>3, <2>4 DEF Received
  <2>6. AllDone'
    BY <1>1, <2>1 DEF Classify, AllDone
  <2> QED
    BY <2>2, <2>5, <2>6
<1>2. ASSUME NEW f \in ToAnalyze, SendType(f) PROVE IInv'
  <2>1. Workers' /\ AllDone'
    BY <1>2 DEF SendType, Workers, AllDone
  <2>2. TypesSent' = TypesSent \union {f} /\ PathsSent' = PathsSent /\ LinesSent' = LinesSent /\ kind[f] = FileType(flags, f)
    BY <1>2, TypedOrUnwanted DEF SendType, Workers, TypesSent, PathsSent, LinesSent
  <2>3. Received'
    BY <1>2, <2>2 DEF SendType, Received
  <2> QED
    BY <2>1, <2>3
<1>3. ASSUME NEW f \in ToAnalyze, SendLoc(f) PROVE IInv'
  <2>1. Workers' /\ AllDone'
    BY <1>3 DEF SendLoc, Workers, AllDone
  <2>2. /\ TypesSent' = TypesSent /\ PathsSent' = PathsSent /\ LinesSent' = LinesSent \union {f}
        /\ f \notin LinesSent /\ LinesSent \subseteq ToAnalyze
    BY <1>3, TypedOrUnwanted DEF SendLoc, Workers, TypesSent, PathsSent, LinesSent
  <2>3. SumFunctionOnSet(Lines, LinesSent)' = SumFunctionOnSet(Lines, LinesSent) + Lines[f]
    BY <2>2, OneMoreSum
  <2>4. Received'
    BY <1>3, <2>2, <2>3 DEF SendLoc, Received
  <2> QED
    BY <2>1, <2>4
<1>4. ASSUME NEW f \in ToAnalyze, SendUnwanted(f) PROVE IInv'
  <2>1. Workers' /\ AllDone'
    BY <1>4 DEF SendUnwanted, Workers, AllDone
  <2>2. /\ TypesSent' = TypesSent /\ PathsSent' = PathsSent \union {f} /\ LinesSent' = LinesSent
        /\ f \notin PathsSent
    BY <1>4, TypedOrUnwanted DEF SendUnwanted, Workers, TypesSent, PathsSent, LinesSent
  <2>3. Received'
    BY <1>4, <2>2 DEF SendUnwanted, Received
  <2> QED
    BY <2>1, <2>3
<1>5. ASSUME NEW f \in ToAnalyze, ReceiveUnwanted(f) PROVE IInv'
  <2>1. Workers' /\ AllDone' /\ TypesSent' = TypesSent /\ PathsSent' = PathsSent /\ LinesSent' = LinesSent
    BY <1>5 DEF ReceiveUnwanted, Workers, AllDone, TypesSent, PathsSent, LinesSent
  <2>2. Received'
    BY <1>5, <2>1 DEF ReceiveUnwanted, Received
  <2> QED
    BY <2>1, <2>2
<1>6. CASE ReceiveDone \/ UNCHANGED vars
  <2>1. UNCHANGED <<flags, pc, kind, unwanted, types, unwantedS, loc>>
    BY <1>6 DEF ReceiveDone, vars
  <2>2. Workers' /\ TypesSent' = TypesSent /\ PathsSent' = PathsSent /\ LinesSent' = LinesSent
    BY <2>1 DEF Workers, TypesSent, PathsSent, LinesSent
  <2>3. Received'
    BY <2>1, <2>2 DEF Received
  <2>4. AllDone'
    BY <1>6, <2>1 DEF ReceiveDone, vars, AllDone
  <2> QED
    BY <2>2, <2>3, <2>4
<1> QED
  BY <1>1, <1>2, <1>3, <1>4, <1>5, <1>6 DEF Next, Step, Worker, Terminated

(* The inductive invariant holds for any files and any flags. *)
THEOREM Invariant == Spec => []IInv
  BY InitIInv, StepIInv, PTL DEF Spec

-----------------------------------------------------------------------------
(* The platforms that Analyze returns and the lines that it counts are those of  *)
(* the files, whatever the order in which computeValues served the workers.      *)
THEOREM TypesAndLinesAreComplete == Spec => []TypesAndLinesComplete
<1>1. IInv => TypesAndLinesComplete
  <2> SUFFICES ASSUME IInv, returned
               PROVE  /\ types = {FileType(flags, f) : f \in {g \in ToAnalyze : Typed(flags, g)}}
                      /\ loc = SumFunctionOnSet(Lines, {f \in ToAnalyze : Typed(flags, f)})
    BY DEF TypesAndLinesComplete, AnalyzedTypes
  <2>1. /\ TypesSent = {g \in ToAnalyze : Typed(flags, g)}
        /\ LinesSent = {f \in ToAnalyze : Typed(flags, f)}
    BY DEF IInv, AllDone, TypesSent, LinesSent
  <2> QED
    BY <2>1 DEF IInv, Received
<1> QED
  BY <1>1, Invariant, PTL

(* A worker with an unwanted path always finds room in the channel (its buffer has *)
(* the size of the list of files): none is stuck there with wg.Done not called.     *)
UnwantedHasRoom ==
  \A f \in ToAnalyze : pc[f] = "unwanted" => Cardinality(unwanted) < Cardinality(ToAnalyze)

(* checkContent never waits for computeValues to take the path it excludes.        *)
THEOREM WorkersNeverBlock == Spec => []UnwantedHasRoom
<1>1. IInv => UnwantedHasRoom
  <2> SUFFICES ASSUME IInv, NEW f \in ToAnalyze, pc[f] = "unwanted"
               PROVE  Cardinality(unwanted) < Cardinality(ToAnalyze)
    BY DEF UnwantedHasRoom
  <2>1. IsFiniteSet(ToAnalyze)
    BY FilesFinite, FS_Subset DEF ToAnalyze
  <2>2. unwanted \subseteq ToAnalyze \ {f}
    BY DEF IInv, Received, PathsSent
  <2>3. /\ IsFiniteSet(ToAnalyze \ {f}) /\ Cardinality(ToAnalyze \ {f}) = Cardinality(ToAnalyze) - 1
    BY <2>1, FS_RemoveElement
  <2>4. Cardinality(unwanted) <= Cardinality(ToAnalyze \ {f})
    BY <2>2, <2>3, FS_Subset
  <2>5. Cardinality(unwanted) \in Nat /\ Cardinality(ToAnalyze) \in Nat
    BY <2>1, <2>2, <2>3, FS_Subset, FS_CardinalityType
  <2> QED
    BY <2>3, <2>4, <2>5
<1> QED
  BY <1>1, Invariant, PTL

(* What is missing from the exclusions when Analyze returns was sent and never      *)
(* received: it is in the buffer, and nothing else is lost and nothing is invented. *)
OnlyBufferedLost == returned => {f \in ToAnalyze : Unwanted(flags, f)} \ unwantedS = unwanted

THEOREM LostAreBuffered == Spec => []OnlyBufferedLost
<1>1. IInv => OnlyBufferedLost
  <2> SUFFICES ASSUME IInv, returned
               PROVE  {f \in ToAnalyze : Unwanted(flags, f)} \ unwantedS = unwanted
    BY DEF OnlyBufferedLost
  <2>1. PathsSent = {f \in ToAnalyze : Unwanted(flags, f)}
    BY DEF IInv, AllDone, PathsSent
  <2> QED
    BY <2>1 DEF IInv, Received
<1> QED
  BY <1>1, Invariant, PTL
=============================================================================
