----------------------- MODULE SourceProviderProofs -----------------------
(***************************************************************************)
(* Proofs about the walks over the shared provider, for any number of      *)
(* services and any tree whose scan paths do not overlap.                  *)
(*                                                                         *)
(* The invariant says, for each service, what its position in the walk     *)
(* tells of the entries before it (met, passed over, parsed) and behind it *)
(* (never inside a folder that was passed over), and what is already known *)
(* of the entry it is at.                                                  *)
(***************************************************************************)
EXTENDS SourceProvider, WellFoundedInduction, TLAPS

Entries == ToSet(Walk)
Stages == {"visit", "check", "open", "resolve", "lock", "add", "resolved", "done", "failed"}

Typed ==
  /\ fault \in Faults
  /\ at \in [Services -> Nat \ {0}]
  /\ pc \in [Services -> Stages]
  /\ readers \subseteq Services
  /\ adding \in [Services -> Seq(Entries)]
  /\ resolved \in [Services -> BOOLEAN]
  /\ rendered \in [Services -> SUBSET Charts]
  /\ sunk \in [Services -> SUBSET Entries]

(* Only files are added to the excluded entries. *)
Excluding == Excludes \subseteq excludes /\ (excludes \ Excludes) \intersect Dirs = {}

(* The entry is a chart to be rendered, the first one of its tree. *)
AtChart(s) == Entry(s) \in Charts \ (Caches \union Excludes) /\ ~resolved[s]

(* What is known of the entry the service is at. *)
Here(s) ==
  /\ pc[s] \notin {"visit", "done", "failed"} => at[s] <= Len(Walk)
  /\ at[s] <= Len(Walk) + 1
  /\ pc[s] = "done" => at[s] = Len(Walk) + 1
  /\ pc[s] \in {"check", "open"} => Entry(s) \notin Roots \ Dirs /\ fault[Entry(s)] # "stat"
  /\ pc[s] = "check" => s \in readers
  /\ pc[s] = "open" => Entry(s) \in Supported[s] \ (Dirs \union Excludes)
  /\ pc[s] \in {"resolve", "resolved"} => AtChart(s)
  /\ pc[s] \in {"lock", "add"} => adding[s] # <<>> /\ (s \in readers \/ AtChart(s))
  /\ pc[s] \in {"lock", "add"} /\ AtChart(s) =>
       /\ ToSet(adding[s]) \subseteq ToSet(Rendered[Entry(s)])
       /\ ToSet(Rendered[Entry(s)]) \subseteq excludes \union ToSet(adding[s])
  /\ pc[s] = "resolved" => ToSet(Rendered[Entry(s)]) \subseteq excludes

(* The walk has left the folder at k. *)
Left(s, k) == \A j \in at[s] .. Len(Walk) : Walk[j] \notin Inside[Walk[k]]

(* A cache folder or an excluded folder is left as soon as it is met. *)
Passed(s) ==
  \A k \in 1 .. at[s] - 1 : Walk[k] \in Dirs \intersect (Caches \union Excludes) => Left(s, k)

(* What was wanted is parsed, or excluded on behalf of a chart. *)
Met(s) ==
  /\ \A k \in 1 .. at[s] - 1 : Walk[k] \in Wanted(s) => Walk[k] \in sunk[s] \union (excludes \ Excludes)
  /\ sunk[s] \subseteq Wanted(s)
  /\ \A f \in sunk[s] : \E k \in 1 .. Len(Walk) : k <= at[s] /\ Walk[k] = f

(* Rendered charts lie behind, and their files are excluded and not parsed. *)
Charted(s) ==
  /\ \A d \in rendered[s] :
       /\ ToSet(Rendered[d]) \subseteq excludes
       /\ \E k \in 1 .. at[s] - 1 : Walk[k] = d /\ (~resolved[s] => Left(s, k))
       /\ pc[s] = "open" => Entry(s) \notin ToSet(Rendered[d])
       /\ sunk[s] \intersect ToSet(Rendered[d]) = {}
  /\ \A c, d \in rendered[s] : d \notin Inside[c]

Walked(s) == Here(s) /\ Passed(s) /\ Met(s) /\ Charted(s)

IInv == Typed /\ Excluding /\ \A s \in Services : Walked(s)
----------------------------------------------------------------------------
(* A set of natural numbers has a least element. *)
LEMMA LeastOfNat ==
  ASSUME NEW S \in SUBSET Nat, S # {}
  PROVE  \E m \in S : \A n \in S : m <= n
<1> DEFINE R == OpToRel(<, Nat)
<1>1. IsWellFoundedOn(R, Nat)
  BY NatLessThanWellFounded
<1> HIDE DEF R
<1>2. \E m \in S : \A n \in S : ~(<<n, m>> \in R)
  BY <1>1, WFMin
<1>3. \A m, n \in Nat : n < m => <<n, m>> \in R
  BY SMT DEF R, OpToRel
<1>4. PICK m \in S : \A n \in S : ~(<<n, m>> \in R)
  BY <1>2
<1>5. ASSUME NEW n \in S PROVE m <= n
  <2>1. ~(<<n, m>> \in R)
    BY <1>4
  <2>2. m \in Nat /\ n \in Nat
    OBVIOUS
  <2>3. ~(n < m)
    BY <2>1, <2>2, <1>3
  <2>4. QED
    BY <2>2, <2>3
<1>6. QED
  BY <1>5

(* The elements of a sequence are the first one and those of the rest. *)
LEMMA HeadAndTail ==
  ASSUME NEW S, NEW q \in Seq(S), q # <<>>
  PROVE  /\ Head(q) \in S /\ Tail(q) \in Seq(S)
         /\ ToSet(q) = {Head(q)} \union ToSet(Tail(q))
<1>1. Len(q) \in Nat /\ Len(q) >= 1 /\ DOMAIN q = 1 .. Len(q) /\ \A i \in 1 .. Len(q) : q[i] \in S
  OBVIOUS
<1>2. Tail(q) \in Seq(S) /\ DOMAIN Tail(q) = 1 .. Len(q) - 1 /\ \A i \in 1 .. Len(q) - 1 : Tail(q)[i] = q[i + 1]
  BY <1>1
<1>3. Head(q) = q[1]
  OBVIOUS
<1>4. ToSet(q) \subseteq {Head(q)} \union ToSet(Tail(q))
  <2>1. ASSUME NEW i \in 1 .. Len(q), i # 1 PROVE i - 1 \in 1 .. Len(q) - 1 /\ Tail(q)[i - 1] = q[i]
    BY <2>1, <1>1, <1>2
  <2>2. ASSUME NEW x \in ToSet(q) PROVE x \in {Head(q)} \union ToSet(Tail(q))
    <3>1. PICK i \in 1 .. Len(q) : q[i] = x
      BY <1>1 DEF ToSet
    <3>2. CASE i = 1
      BY <3>1, <3>2, <1>3
    <3>3. CASE i # 1
      <4>1. i - 1 \in DOMAIN Tail(q) /\ Tail(q)[i - 1] = x
        BY <3>1, <3>3, <2>1, <1>2
      <4>2. QED
        BY <4>1 DEF ToSet
    <3>4. QED
      BY <3>2, <3>3
  <2>3. QED
    BY <2>2
<1>5. {Head(q)} \union ToSet(Tail(q)) \subseteq ToSet(q)
  <2>1. ASSUME NEW i \in 1 .. Len(q) - 1 PROVE i + 1 \in 1 .. Len(q)
    BY <1>1
  <2>2. QED
    BY <1>1, <1>2, <1>3, <2>1 DEF ToSet
<1>6. QED
  BY <1>1, <1>2, <1>3, <1>4, <1>5

(* The walk is a sequence of entries. *)
LEMMA WalkIsSequence ==
  /\ Len(Walk) \in Nat /\ DOMAIN Walk = 1 .. Len(Walk)
  /\ \A k \in 1 .. Len(Walk) : Walk[k] \in Entries
  /\ \A e \in Entries : \E k \in 1 .. Len(Walk) : Walk[k] = e
BY WalkTyped DEF ToSet, Entries

(* SkipDir goes on at the first entry that is not inside the folder, and    *)
(* nothing of the folder comes after it.                                    *)
LEMMA SkipDirLeaves ==
  ASSUME NEW i \in 1 .. Len(Walk), Walk[i] \in Dirs
  PROVE  /\ SkipDir(i) \in i + 1 .. Len(Walk) + 1
         /\ \A k \in i + 1 .. SkipDir(i) - 1 : Walk[k] \in Inside[Walk[i]]
         /\ \A j \in SkipDir(i) .. Len(Walk) : Walk[j] \notin Inside[Walk[i]]
<1> DEFINE S == {j \in i + 1 .. Len(Walk) + 1 : j > Len(Walk) \/ Walk[j] \notin Inside[Walk[i]]}
<1>1. Len(Walk) \in Nat /\ DOMAIN Walk = 1 .. Len(Walk)
  BY WalkIsSequence
<1>2. S \in SUBSET Nat /\ Len(Walk) + 1 \in S
  BY <1>1
<1>3. SkipDir(i) = Min(S)
  BY DEF SkipDir
<1> HIDE DEF S
<1>4. \E m \in S : \A n \in S : m <= n
  BY <1>2, LeastOfNat
<1>5. SkipDir(i) \in S /\ \A n \in S : SkipDir(i) <= n
  BY <1>3, <1>4 DEF Min
<1>6. SkipDir(i) \in i + 1 .. Len(Walk) + 1
  BY <1>5 DEF S
<1>7. ASSUME NEW k \in i + 1 .. SkipDir(i) - 1 PROVE Walk[k] \in Inside[Walk[i]]
  <2>1. k \in i + 1 .. Len(Walk) /\ ~(SkipDir(i) <= k)
    BY <1>1, <1>6
  <2>2. k \notin S
    BY <1>5, <2>1
  <2>3. QED
    BY <1>1, <2>1, <2>2 DEF S
<1>8. ASSUME NEW j \in SkipDir(i) .. Len(Walk) PROVE Walk[j] \notin Inside[Walk[i]]
  <2>1. SkipDir(i) \in i + 1 .. j /\ SkipDir(i) <= Len(Walk) /\ j \in 1 .. Len(Walk)
    BY <1>1, <1>6
  <2>2. Walk[SkipDir(i)] \notin Inside[Walk[i]]
    BY <1>1, <1>5, <2>1 DEF S
  <2>3. QED
    BY <1>1, <2>1, <2>2, WalkInOrder
<1>9. QED
  BY <1>6, <1>7, <1>8
----------------------------------------------------------------------------
(* What a step may add to the parsed files: the entry the service is at.    *)
Parsed(s) ==
  /\ sunk[s] \subseteq sunk'[s]
  /\ \A f \in sunk'[s] \ sunk[s] :
       /\ f = Entry(s) /\ at[s] <= Len(Walk) /\ f \in Wanted(s)
       /\ \A d \in rendered[s] : f \notin ToSet(Rendered[d])

(* The part of the step that the other services see.                        *)
Shared(s) ==
  /\ fault' = fault /\ excludes \subseteq excludes'
  /\ \A t \in Services \ {s} :
       /\ at'[t] = at[t] /\ pc'[t] = pc[t] /\ adding'[t] = adding[t] /\ resolved'[t] = resolved[t]
       /\ rendered'[t] = rendered[t] /\ sunk'[t] = sunk[t]
       /\ t \in readers' <=> t \in readers

(* A folder that is at or before an entry contains it only from before.     *)
LEMMA InsideComesLater ==
  ASSUME NEW i \in 1 .. Len(Walk), NEW j \in 1 .. Len(Walk), Walk[i] \in Dirs, Walk[j] \in Inside[Walk[i]]
  PROVE  i < j
BY WalkInOrder, WalkIsSequence

(* What one service does disturbs nothing of another.                       *)
LEMMA OthersStay ==
  ASSUME IInv, NEW s \in Services, NEW t \in Services, t # s, Shared(s)
  PROVE  Walked(t)'
<1>1. Walked(t) /\ t \in Services \ {s}
  BY DEF IInv
<1>2. /\ fault' = fault /\ excludes \subseteq excludes'
      /\ at'[t] = at[t] /\ pc'[t] = pc[t] /\ adding'[t] = adding[t] /\ resolved'[t] = resolved[t]
      /\ rendered'[t] = rendered[t] /\ sunk'[t] = sunk[t]
      /\ t \in readers' <=> t \in readers
  BY <1>1 DEF Shared
<1>3. Entry(t)' = Entry(t) /\ AtChart(t)' = AtChart(t)
  BY <1>2 DEF Entry, AtChart
<1>4. Here(t)'
  <2>1. Here(t)
    BY <1>1 DEF Walked
  <2>2. QED
    BY <1>2, <1>3, <2>1 DEF Here
<1>5. \A k : Left(t, k)' = Left(t, k)
  BY <1>2 DEF Left
<1>6. Passed(t)'
  <2>1. Passed(t)
    BY <1>1 DEF Walked
  <2>2. QED
    BY <1>2, <1>5, <2>1 DEF Passed
<1>7. Wanted(t)' = Wanted(t)
  BY <1>2 DEF Wanted
<1>8. Met(t)'
  <2>1. Met(t)
    BY <1>1 DEF Walked
  <2>2. QED
    BY <1>2, <1>7, <2>1 DEF Met
<1>9. Charted(t)'
  <2>1. Charted(t)
    BY <1>1 DEF Walked
  <2>2. QED
    BY <1>2, <1>3, <1>5, <2>1 DEF Charted
<1>10. QED
  BY <1>4, <1>6, <1>8, <1>9 DEF Walked

(* The walk goes on at entry i: the entries it passes by are accounted for. *)
LEMMA Onward ==
  ASSUME IInv, NEW s \in Services, NEW i \in at[s] + 1 .. Len(Walk) + 1,
         at'[s] = i, pc'[s] = "visit", fault' = fault, excludes' = excludes, Parsed(s),
         \A k \in at[s] .. i - 1 : Walk[k] \in Dirs \intersect (Caches \union Excludes) =>
           \A j \in i .. Len(Walk) : Walk[j] \notin Inside[Walk[k]],
         \A k \in at[s] .. i - 1 : Walk[k] \in Wanted(s) => Walk[k] \in sunk'[s] \union (excludes \ Excludes)
  PROVE  Here(s)' /\ Passed(s)' /\ Met(s)'
<1>1. at[s] \in Nat \ {0} /\ Len(Walk) \in Nat /\ i \in Nat /\ at[s] < i /\ i <= Len(Walk) + 1
  BY WalkIsSequence DEF IInv, Typed
<1>2. Here(s)'
  BY <1>1 DEF Here
<1>3. Passed(s)'
  <2>1. Passed(s)
    BY DEF IInv, Walked
  <2>2. ASSUME NEW k \in 1 .. i - 1, Walk[k] \in Dirs \intersect (Caches \union Excludes), NEW j \in i .. Len(Walk)
        PROVE  Walk[j] \notin Inside[Walk[k]]
    <3>1. CASE k < at[s]
      <4>1. k \in 1 .. at[s] - 1 /\ j \in at[s] .. Len(Walk)
        BY <1>1, <3>1
      <4>2. QED
        BY <4>1, <2>1, <2>2 DEF Passed, Left
    <3>2. CASE ~(k < at[s])
      <4>1. k \in at[s] .. i - 1
        BY <1>1, <3>2
      <4>2. QED
        BY <4>1, <2>2
    <3>3. QED
      BY <3>1, <3>2
  <2>3. QED
    BY <2>2 DEF Passed, Left
<1>4. Met(s)'
  <2>1. Met(s) /\ Wanted(s)' = Wanted(s)
    BY DEF IInv, Walked, Wanted
  <2>2. ASSUME NEW k \in 1 .. i - 1, Walk[k] \in Wanted(s)
        PROVE  Walk[k] \in sunk'[s] \union (excludes \ Excludes)
    <3>1. CASE k < at[s]
      <4>1. k \in 1 .. at[s] - 1
        BY <1>1, <3>1
      <4>2. QED
        BY <4>1, <2>1, <2>2 DEF Met, Parsed
    <3>2. CASE ~(k < at[s])
      <4>1. k \in at[s] .. i - 1
        BY <1>1, <3>2
      <4>2. QED
        BY <4>1, <2>2
    <3>3. QED
      BY <3>1, <3>2
  <2>3. sunk'[s] \subseteq Wanted(s)
    BY <2>1 DEF Met, Parsed
  <2>4. ASSUME NEW f \in sunk'[s] PROVE \E k \in 1 .. Len(Walk) : k <= i /\ Walk[k] = f
    <3>1. CASE f \in sunk[s]
      <4>1. PICK k \in 1 .. Len(Walk) : k <= at[s] /\ Walk[k] = f
        BY <2>1, <3>1 DEF Met
      <4>2. k <= i
        BY <1>1, <4>1
      <4>3. QED
        BY <4>1, <4>2
    <3>2. CASE f \notin sunk[s]
      <4>1. f = Walk[at[s]] /\ at[s] \in 1 .. Len(Walk) /\ at[s] <= i
        BY <1>1, <3>2 DEF Parsed, Entry
      <4>2. QED
        BY <4>1
    <3>3. QED
      BY <3>1, <3>2
  <2>5. QED
    BY <2>1, <2>2, <2>3, <2>4 DEF Met
<1>5. QED
  BY <1>2, <1>3, <1>4

(* A new scan path forgets the chart: nothing in it is inside what was      *)
(* walked before.                                                           *)
LEMMA Forgotten ==
  ASSUME IInv, NEW s \in Services, NEW i \in at[s] + 1 .. Len(Walk) + 1, at'[s] = i,
         NEW k \in 1 .. at[s] - 1, Walk[k] \in Dirs,
         ~resolved[s] => Left(s, k),
         resolved[s] => i <= Len(Walk) /\ Walk[i] \in Roots
  PROVE  Left(s, k)'
<1>1. at[s] \in Nat \ {0} /\ Len(Walk) \in Nat /\ DOMAIN Walk = 1 .. Len(Walk)
  BY WalkIsSequence DEF IInv, Typed
<1>2. ASSUME NEW j \in i .. Len(Walk) PROVE Walk[j] \notin Inside[Walk[k]]
  <2>1. CASE resolved[s]
    <3>1. k \in 1 .. i - 1 /\ i \in DOMAIN Walk /\ j \in DOMAIN Walk /\ i <= j
      BY <1>1, <2>1
    <3>2. Walk[i] \in Roots
      BY <2>1
    <3>3. QED
      BY <3>1, <3>2, RootsApart
  <2>2. CASE ~resolved[s]
    <3>1. j \in at[s] .. Len(Walk)
      BY <1>1
    <3>2. QED
      BY <2>2, <3>1 DEF Left
  <2>3. QED
    BY <2>1, <2>2
<1>3. QED
  BY <1>2 DEF Left

(* The walk goes on at entry i, no chart having been rendered.              *)
LEMMA GoesOn ==
  ASSUME IInv, NEW s \in Services, NEW i \in at[s] + 1 .. Len(Walk) + 1,
         GoTo(s, i), rendered' = rendered, fault' = fault, excludes' = excludes, Parsed(s),
         \A k \in at[s] .. i - 1 : Walk[k] \in Dirs \intersect (Caches \union Excludes) =>
           \A j \in i .. Len(Walk) : Walk[j] \notin Inside[Walk[k]],
         \A k \in at[s] .. i - 1 : Walk[k] \in Wanted(s) => Walk[k] \in sunk'[s] \union (excludes \ Excludes)
  PROVE  Walked(s)'
<1>1. Typed /\ Charted(s)
  BY DEF IInv, Walked
<1>2. at'[s] = i /\ pc'[s] = "visit"
  BY <1>1 DEF GoTo, Typed
<1>3. resolved'[s] <=> (resolved[s] /\ ~(i <= Len(Walk) /\ Walk[i] \in Roots))
  BY <1>1 DEF GoTo, Typed
<1>4. Here(s)' /\ Passed(s)' /\ Met(s)'
  BY <1>2, Onward
<1>5. at[s] \in Nat \ {0} /\ Len(Walk) \in Nat
  BY <1>1, WalkIsSequence DEF Typed
<1>6. ASSUME NEW d \in rendered[s]
      PROVE  \E k \in 1 .. i - 1 : Walk[k] = d /\ (~resolved'[s] => Left(s, k)')
  <2>1. PICK k \in 1 .. at[s] - 1 : Walk[k] = d /\ (~resolved[s] => Left(s, k))
    BY <1>1 DEF Charted
  <2>2. Walk[k] \in Dirs
    BY <1>1, <2>1, WalkTyped DEF Typed
  <2>3. ASSUME ~resolved'[s] PROVE Left(s, k)'
    BY <1>2, <1>3, <2>1, <2>2, <2>3, Forgotten
  <2>4. k \in 1 .. i - 1
    BY <1>5
  <2>5. QED
    BY <2>1, <2>3, <2>4
<1>7. ASSUME NEW d \in rendered[s] PROVE sunk'[s] \intersect ToSet(Rendered[d]) = {}
  BY <1>1 DEF Charted, Parsed
<1>8. Charted(s)'
  BY <1>1, <1>2, <1>6, <1>7 DEF Charted
<1>9. QED
  BY <1>4, <1>8 DEF Walked

(* The service stays at its entry.                                          *)
LEMMA Stays ==
  ASSUME IInv, NEW s \in Services,
         at'[s] = at[s], resolved'[s] = resolved[s], rendered'[s] = rendered[s], fault' = fault,
         excludes \subseteq excludes', Parsed(s), Here(s)',
         pc'[s] = "open" => \A d \in rendered[s] : Entry(s) \notin ToSet(Rendered[d])
  PROVE  Walked(s)'
<1>1. Typed /\ Passed(s) /\ Met(s) /\ Charted(s)
  BY DEF IInv, Walked
<1>2. \A k : Left(s, k)' <=> Left(s, k)
  BY DEF Left
<1>3. Passed(s)'
  BY <1>1, <1>2 DEF Passed
<1>4. Wanted(s)' = Wanted(s) /\ Entry(s)' = Entry(s)
  BY DEF Wanted, Entry
<1>5. at[s] \in Nat \ {0} /\ Len(Walk) \in Nat
  BY <1>1, WalkIsSequence DEF Typed
<1>6. Met(s)'
  <2>1. ASSUME NEW k \in 1 .. at[s] - 1, Walk[k] \in Wanted(s)
        PROVE  Walk[k] \in sunk'[s] \union (excludes' \ Excludes)
    BY <1>1, <2>1 DEF Met, Parsed
  <2>2. sunk'[s] \subseteq Wanted(s)
    BY <1>1 DEF Met, Parsed
  <2>3. ASSUME NEW f \in sunk'[s] PROVE \E k \in 1 .. Len(Walk) : k <= at[s] /\ Walk[k] = f
    <3>1. CASE f \in sunk[s]
      BY <1>1, <3>1 DEF Met
    <3>2. CASE f \notin sunk[s]
      <4>1. f = Walk[at[s]] /\ at[s] \in 1 .. Len(Walk) /\ at[s] <= at[s]
        BY <1>5, <3>2 DEF Parsed, Entry
      <4>2. QED
        BY <4>1
    <3>3. QED
      BY <3>1, <3>2
  <2>4. QED
    BY <1>4, <2>1, <2>2, <2>3 DEF Met
<1>7. Charted(s)'
  <2>1. ASSUME NEW d \in rendered[s] PROVE sunk'[s] \intersect ToSet(Rendered[d]) = {}
    BY <1>1 DEF Charted, Parsed
  <2>2. QED
    BY <1>1, <1>2, <1>4, <2>1 DEF Charted
<1>8. QED
  BY <1>3, <1>6, <1>7 DEF Walked
----------------------------------------------------------------------------
(* The types, and what is excluded.                                         *)
LEMMA InitIInv == Init => IInv
<1> SUFFICES ASSUME Init PROVE IInv
  OBVIOUS
<1>1. Typed
  BY DEF Init, Typed, Stages
<1>2. Excluding
  BY DEF Init, Excluding
<1>3. ASSUME NEW s \in Services PROVE Walked(s)
  <2>1. at[s] = 1 /\ pc[s] = "visit" /\ sunk[s] = {} /\ rendered[s] = {} /\ Len(Walk) \in Nat
    BY WalkIsSequence DEF Init
  <2>2. Here(s)
    BY <2>1 DEF Here
  <2>3. Passed(s) /\ Met(s) /\ Charted(s)
    BY <2>1 DEF Passed, Met, Charted
  <2>4. QED
    BY <2>2, <2>3 DEF Walked
<1>4. QED
  BY <1>1, <1>2, <1>3 DEF IInv

(* A step keeps the types, and leaves the other services as they are: exclusions    *)
(* only grow.                                                                         *)
LEMMA StepTyped ==
  ASSUME IInv, NEW s \in Services, Step(s)
  PROVE  Typed' /\ Shared(s)
<1>1. Typed /\ Here(s) /\ Len(Walk) \in Nat /\ at[s] \in Nat \ {0}
  BY WalkIsSequence DEF IInv, Walked, Typed
<1>2. at[s] <= Len(Walk) => Entry(s) \in Entries
  BY <1>1, WalkIsSequence DEF Entry
<1>3. ASSUME NEW i \in Nat \ {0}, GoTo(s, i)
      PROVE  /\ at' \in [Services -> Nat \ {0}] /\ pc' \in [Services -> Stages] /\ resolved' \in [Services -> BOOLEAN]
             /\ \A t \in Services \ {s} : at'[t] = at[t] /\ pc'[t] = pc[t] /\ resolved'[t] = resolved[t]
  <2>1. at' = [at EXCEPT ![s] = i] /\ pc' = [pc EXCEPT ![s] = "visit"]
    BY <1>3 DEF GoTo
  <2>2. resolved' = [resolved EXCEPT ![s] = resolved[s] /\ ~(i <= Len(Walk) /\ Walk[i] \in Roots)]
    BY <1>3 DEF GoTo
  <2>3. at' \in [Services -> Nat \ {0}] /\ pc' \in [Services -> Stages]
    BY <1>1, <2>1 DEF Typed, Stages
  <2>4. resolved' \in [Services -> BOOLEAN]
    BY <1>1, <2>2 DEF Typed
  <2>5. QED
    BY <1>1, <2>1, <2>2, <2>3, <2>4 DEF Typed
<1>4. ASSUME NEW st \in Stages, pc' = [pc EXCEPT ![s] = st]
      PROVE  /\ pc' \in [Services -> Stages] /\ pc'[s] = st
             /\ \A t \in Services \ {s} : pc'[t] = pc[t]
  BY <1>1, <1>4 DEF Typed
<1>5. at[s] + 1 \in Nat \ {0} /\ "failed" \in Stages
  BY <1>1 DEF Stages
<1>6. CASE StatFails(s)
  BY <1>1, <1>4, <1>5, <1>6 DEF StatFails, Fail, Typed, Shared, lockVars
<1>7. CASE OpenScanFile(s)
  <2>1. Entry(s) \in Entries
    BY <1>2, <1>7 DEF OpenScanFile, Visiting
  <2>2. Fail(s) \/ GoTo(s, at[s] + 1)
    BY <1>7 DEF OpenScanFile
  <2>3. /\ sunk' \in [Services -> SUBSET Entries] /\ \A t \in Services \ {s} : sunk'[t] = sunk[t]
        /\ UNCHANGED <<fault, readers, excludes, adding, rendered>>
    BY <1>1, <1>7, <2>1 DEF OpenScanFile, Typed, lockVars
  <2>4. CASE Fail(s)
    BY <1>1, <1>4, <1>5, <2>3, <2>4 DEF Fail, Typed, Shared
  <2>5. CASE GoTo(s, at[s] + 1)
    BY <1>1, <1>3, <1>5, <2>3, <2>5 DEF Typed, Shared
  <2>6. QED
    BY <2>2, <2>4, <2>5
<1>8. CASE RLock(s)
  BY <1>1, <1>4, <1>8 DEF RLock, Typed, Shared, Stages
<1>9. ASSUME at[s] <= Len(Walk), Entry(s) \in Dirs PROVE SkipDir(at[s]) \in Nat \ {0}
  <2>1. at[s] \in 1 .. Len(Walk)
    BY <1>1, <1>9
  <2>2. SkipDir(at[s]) \in at[s] + 1 .. Len(Walk) + 1
    BY <1>9, <2>1, SkipDirLeaves DEF Entry
  <2>3. QED
    BY <1>1, <2>2
<1>10. CASE ExcludeCache(s)
  <2>1. at[s] <= Len(Walk) /\ Entry(s) \in Dirs /\ Entry(s) \in Entries
    BY <1>1, <1>2, <1>10, WalkTyped DEF ExcludeCache, Here
  <2>2. CASE Entry(s) \in InCwd
    <3>1. adding' \in [Services -> Seq(Entries)] /\ \A t \in Services \ {s} : adding'[t] = adding[t]
      <4>1. <<Entry(s)>> \in Seq(Entries)
        BY <2>1
      <4>2. QED
        BY <1>1, <1>10, <2>2, <4>1 DEF ExcludeCache, Typed
    <3>2. QED
      BY <1>1, <1>4, <1>10, <2>2, <3>1 DEF ExcludeCache, Typed, Shared, Stages
  <2>3. CASE Entry(s) \notin InCwd
    BY <1>1, <1>3, <1>9, <1>10, <2>1, <2>3 DEF ExcludeCache, Typed, Shared
  <2>4. QED
    BY <2>2, <2>3
<1>11. CASE SkipFolder(s)
  <2>1. at[s] <= Len(Walk) /\ Entry(s) \in Dirs
    BY <1>1, <1>11 DEF SkipFolder, Here
  <2>2. QED
    BY <1>1, <1>3, <1>9, <1>11, <2>1 DEF SkipFolder, Typed, Shared
<1>12. CASE EnterFolder(s)
  BY <1>1, <1>3, <1>5, <1>12 DEF EnterFolder, Typed, Shared
<1>13. CASE EnterChart(s)
  BY <1>1, <1>4, <1>13 DEF EnterChart, Typed, Shared, Stages
<1>14. CASE SkipFile(s)
  BY <1>1, <1>3, <1>5, <1>14 DEF SkipFile, Typed, Shared
<1>15. CASE TakeFile(s)
  BY <1>1, <1>4, <1>15 DEF TakeFile, Typed, Shared, Stages
<1>16. CASE ResolveFails(s)
  BY <1>1, <1>3, <1>5, <1>16 DEF ResolveFails, Typed, Shared, lockVars
<1>17. CASE Resolve(s)
  <2>1. Rendered[Entry(s)] \in Seq(Entries)
    BY <1>1, <1>17, WalkTyped DEF Resolve, Here, AtChart, Entries
  <2>2. adding' \in [Services -> Seq(Entries)] /\ \A t \in Services \ {s} : adding'[t] = adding[t]
    BY <1>1, <1>17, <2>1 DEF Resolve, Typed
  <2>3. \E st \in Stages : pc' = [pc EXCEPT ![s] = st]
    BY <1>17 DEF Resolve, Stages
  <2>4. QED
    BY <1>1, <1>4, <1>17, <2>2, <2>3 DEF Resolve, Typed, Shared, lockVars
<1>18. CASE Lock(s)
  BY <1>1, <1>4, <1>18 DEF Lock, Typed, Shared, Stages
<1>19. CASE Add(s)
  <2>1. Tail(adding[s]) \in Seq(Entries)
    BY <1>1, <1>19, HeadAndTail DEF Add, Here, Typed
  <2>2. adding' \in [Services -> Seq(Entries)] /\ \A t \in Services \ {s} : adding'[t] = adding[t]
    BY <1>1, <1>19, <2>1 DEF Add, Typed
  <2>3. \E st \in Stages : pc' = [pc EXCEPT ![s] = st]
    BY <1>19 DEF Add, Stages
  <2>4. QED
    BY <1>1, <1>4, <1>19, <2>2, <2>3 DEF Add, Typed, Shared
<1>20. CASE LeaveChart(s)
  <2>1. at' = [at EXCEPT ![s] = at[s] + 1]
    BY <1>20 DEF LeaveChart
  <2>2. resolved' \in [Services -> BOOLEAN] /\ \A t \in Services \ {s} : resolved'[t] = resolved[t]
    BY <1>1, <1>20 DEF LeaveChart, Typed
  <2>3. rendered' \in [Services -> SUBSET Charts] /\ \A t \in Services \ {s} : rendered'[t] = rendered[t]
    BY <1>1, <1>20 DEF LeaveChart, Typed, Here, AtChart
  <2>4. QED
    BY <1>1, <1>4, <1>5, <1>20, <2>1, <2>2, <2>3 DEF LeaveChart, Typed, Shared, Stages, lockVars
<1>21. CASE OpenFile(s)
  <2>1. Entry(s) \in Entries
    BY <1>1, <1>2, <1>21 DEF OpenFile, Here
  <2>2. Fail(s) \/ GoTo(s, at[s] + 1)
    BY <1>21 DEF OpenFile
  <2>3. /\ sunk' \in [Services -> SUBSET Entries] /\ \A t \in Services \ {s} : sunk'[t] = sunk[t]
        /\ UNCHANGED <<fault, readers, excludes, adding, rendered>>
    BY <1>1, <1>21, <2>1 DEF OpenFile, Typed, lockVars
  <2>4. CASE Fail(s)
    BY <1>1, <1>4, <1>5, <2>3, <2>4 DEF Fail, Typed, Shared
  <2>5. CASE GoTo(s, at[s] + 1)
    BY <1>1, <1>3, <1>5, <2>3, <2>5 DEF Typed, Shared
  <2>6. QED
    BY <2>2, <2>4, <2>5
<1>22. CASE Finish(s)
  BY <1>1, <1>4, <1>22 DEF Finish, Typed, Shared, Stages, lockVars
<1>23. QED
  BY <1>6, <1>7, <1>8, <1>10, <1>11, <1>12, <1>13, <1>14, <1>15, <1>16, <1>17, <1>18, <1>19, <1>20, <1>21, <1>22 DEF Step
----------------------------------------------------------------------------
(* It keeps what the scan itself excludes excluded, and adds no folder to it. *)
LEMMA StepExcluding ==
  ASSUME IInv, NEW s \in Services, Step(s)
  PROVE  Excluding'
<1>1. Typed /\ Excluding /\ Here(s)
  BY DEF IInv, Walked
<1>2. CASE Add(s)
  <2>1. adding[s] # <<>> /\ AtChart(s)
    BY <1>1, <1>2 DEF Add, Here
  <2>2. Head(adding[s]) \in ToSet(adding[s])
    BY <1>1, <2>1, HeadAndTail DEF Typed
  <2>3. Head(adding[s]) \notin Dirs
    BY <1>1, <1>2, <2>1, <2>2, RenderedInside DEF Add, Here, AtChart
  <2>4. QED
    BY <1>1, <1>2, <2>3 DEF Add, Excluding
<1>3. CASE ~Add(s)
  <2>1. excludes' = excludes
    BY <1>3 DEF Step, StatFails, OpenScanFile, RLock, ExcludeCache, SkipFolder, EnterFolder, EnterChart, SkipFile,
                TakeFile, ResolveFails, Resolve, Lock, LeaveChart, OpenFile, Finish
  <2>2. QED
    BY <1>1, <2>1 DEF Excluding
<1>4. QED
  BY <1>2, <1>3

(* An entry inside a folder that was passed over is not met any more.       *)
LEMMA NotPassedOver ==
  ASSUME IInv, NEW s \in Services, at[s] <= Len(Walk), NEW d \in Dirs \intersect (Caches \union Excludes)
  PROVE  Entry(s) \notin Inside[d]
<1>1. Typed /\ Passed(s) /\ at[s] \in 1 .. Len(Walk)
  BY WalkIsSequence DEF IInv, Walked, Typed
<1>2. PICK k \in 1 .. Len(Walk) : Walk[k] = d
  BY WalkIsSequence, WalkTyped DEF Entries
<1>3. SUFFICES ASSUME Walk[at[s]] \in Inside[Walk[k]] PROVE FALSE
  BY <1>2 DEF Entry
<1>4. k < at[s]
  BY <1>1, <1>2, <1>3, InsideComesLater
<1>5. k \in 1 .. at[s] - 1 /\ at[s] \in at[s] .. Len(Walk)
  BY <1>1, <1>4
<1>6. QED
  BY <1>1, <1>2, <1>3, <1>5 DEF Passed, Left

(* A folder left by SkipDir: all that is inside it is passed over.          *)
LEMMA LeavesFolder ==
  ASSUME IInv, NEW s \in Services, at[s] <= Len(Walk), Entry(s) \in Dirs \intersect (Caches \union Excludes),
         GoTo(s, SkipDir(at[s])), rendered' = rendered, fault' = fault, excludes' = excludes, sunk' = sunk
  PROVE  Walked(s)'
<1> DEFINE i == SkipDir(at[s])
<1>1. Typed /\ at[s] \in 1 .. Len(Walk) /\ Len(Walk) \in Nat /\ DOMAIN Walk = 1 .. Len(Walk)
  BY WalkIsSequence DEF IInv, Typed
<1>2. Walk[at[s]] \in Dirs \intersect (Caches \union Excludes)
  BY DEF Entry
<1>3. /\ i \in at[s] + 1 .. Len(Walk) + 1
      /\ \A k \in at[s] + 1 .. i - 1 : Walk[k] \in Inside[Walk[at[s]]]
      /\ \A j \in i .. Len(Walk) : Walk[j] \notin Inside[Walk[at[s]]]
  BY <1>1, <1>2, SkipDirLeaves
<1> HIDE DEF i
<1>4. ASSUME NEW k \in at[s] .. i - 1, Walk[k] \in Dirs, NEW j \in i .. Len(Walk)
      PROVE  Walk[j] \notin Inside[Walk[k]]
  <2>1. CASE k = at[s]
    BY <1>3, <2>1
  <2>2. CASE k # at[s]
    <3>1. k \in at[s] + 1 .. i - 1 /\ k \in DOMAIN Walk
      BY <1>1, <1>3, <2>2
    <3>2. Inside[Walk[k]] \subseteq Inside[Walk[at[s]]]
      BY <1>1, <1>2, <1>3, <1>4, <3>1, WalkInOrder
    <3>3. QED
      BY <1>3, <3>2
  <2>3. QED
    BY <2>1, <2>2
<1>5. ASSUME NEW k \in at[s] .. i - 1 PROVE Walk[k] \notin Wanted(s)
  <2>1. CASE k = at[s]
    BY <1>2, <2>1 DEF Wanted
  <2>2. CASE k # at[s]
    <3>1. k \in at[s] + 1 .. i - 1 /\ k \in DOMAIN Walk /\ at[s] \in 1 .. k - 1
      BY <1>1, <1>3, <2>2
    <3>2. Walk[k] \in Inside[Walk[at[s]]]
      BY <1>3, <3>1
    <3>3. Walk[k] \notin Roots
      BY <1>1, <1>2, <3>1, <3>2, RootsApart
    <3>4. QED
      BY <1>2, <3>2, <3>3 DEF Wanted
  <2>3. QED
    BY <2>1, <2>2
<1>6. Parsed(s)
  BY DEF Parsed
<1>7. QED
  BY <1>3, <1>4, <1>5, <1>6, GoesOn DEF i

(* The walk goes on at the next entry, this one being accounted for.        *)
LEMMA NextEntry ==
  ASSUME IInv, NEW s \in Services, at[s] <= Len(Walk),
         GoTo(s, at[s] + 1), rendered' = rendered, fault' = fault, excludes' = excludes, Parsed(s),
         Entry(s) \notin Dirs \intersect (Caches \union Excludes),
         Entry(s) \in Wanted(s) => Entry(s) \in sunk'[s] \union (excludes \ Excludes)
  PROVE  Walked(s)'
<1>1. at[s] \in Nat \ {0} /\ Len(Walk) \in Nat /\ at[s] + 1 \in at[s] + 1 .. Len(Walk) + 1
  BY WalkIsSequence DEF IInv, Typed
<1>2. \A k \in at[s] .. at[s] + 1 - 1 : k = at[s]
  BY <1>1
<1>3. \A k \in at[s] .. at[s] + 1 - 1 : Walk[k] \notin Dirs \intersect (Caches \union Excludes)
  BY <1>2 DEF Entry
<1>4. \A k \in at[s] .. at[s] + 1 - 1 : Walk[k] \in Wanted(s) => Walk[k] \in sunk'[s] \union (excludes \ Excludes)
  BY <1>2 DEF Entry
<1>5. QED
  BY <1>1, <1>3, <1>4, GoesOn

(* A chart that has been rendered: nothing of it has been parsed, and what  *)
(* was rendered before lies outside of it.                                  *)
LEMMA ChartLeft ==
  ASSUME IInv, NEW s \in Services, LeaveChart(s)
  PROVE  Walked(s)'
<1>1. Typed /\ Here(s) /\ Met(s) /\ Charted(s) /\ Len(Walk) \in Nat /\ at[s] \in Nat \ {0}
  BY WalkIsSequence DEF IInv, Walked, Typed
<1>2. /\ pc[s] = "resolved" /\ at[s] \in 1 .. Len(Walk) /\ AtChart(s) /\ ToSet(Rendered[Entry(s)]) \subseteq excludes
  BY <1>1 DEF LeaveChart, Here
<1>3. Entry(s) \in Charts \ (Caches \union Excludes) /\ Entry(s) \in Dirs /\ ~resolved[s]
  BY <1>2, WalkTyped DEF AtChart
<1>4. /\ at'[s] = at[s] + 1 /\ pc'[s] = "visit" /\ rendered'[s] = rendered[s] \union {Entry(s)}
      /\ fault' = fault /\ excludes' = excludes /\ sunk' = sunk
  BY <1>1 DEF LeaveChart, Typed
<1>5. at[s] + 1 \in at[s] + 1 .. Len(Walk) + 1 
  BY <1>1, <1>2
<1>6. Entry(s) \notin Caches \union Excludes /\ Entry(s) \notin Wanted(s)
  BY <1>3 DEF Wanted
<1>7. Parsed(s)
  BY <1>4 DEF Parsed
<1>8. Here(s)' /\ Passed(s)' /\ Met(s)'
  <2>1. PICK i \in at[s] + 1 .. Len(Walk) + 1 : i = at[s] + 1
    BY <1>5
  <2>2. at'[s] = i /\ pc'[s] = "visit" /\ fault' = fault /\ excludes' = excludes
    BY <1>4, <2>1
  <2>3. /\ \A k \in at[s] .. i - 1 : Walk[k] \in Dirs \intersect (Caches \union Excludes) =>
             \A j \in i .. Len(Walk) : Walk[j] \notin Inside[Walk[k]]
        /\ \A k \in at[s] .. i - 1 : Walk[k] \in Wanted(s) => Walk[k] \in sunk'[s] \union (excludes \ Excludes)
    <3>1. \A k \in at[s] .. i - 1 : k = at[s]
      BY <1>1, <2>1
    <3>2. QED
      BY <1>6, <3>1 DEF Entry
  <2>4. QED
    BY <1>7, <2>2, <2>3, Onward
<1>9. resolved'[s] <=> ~(at[s] + 1 <= Len(Walk) /\ Walk[at[s] + 1] \in Roots)
  BY <1>1, <1>4 DEF LeaveChart, Typed
<1>10. ASSUME NEW d \in rendered[s]
       PROVE  /\ \E k \in 1 .. at[s] : Walk[k] = d /\ (~resolved'[s] => Left(s, k)')
              /\ d \notin Inside[Entry(s)] /\ Entry(s) \notin Inside[d]
  <2>1. PICK k \in 1 .. at[s] - 1 : Walk[k] = d /\ Left(s, k)
    BY <1>1, <1>3 DEF Charted
  <2>2. Walk[k] \in Dirs /\ k \in 1 .. at[s] /\ k \in 1 .. Len(Walk) /\ k < at[s]
    BY <1>1, <1>2, <2>1, WalkTyped DEF Typed
  <2>3. Left(s, k)'
    <3>1. \A j \in at[s] + 1 .. Len(Walk) : j \in at[s] .. Len(Walk)
      BY <1>1
    <3>2. QED
      BY <1>4, <2>1, <3>1 DEF Left
  <2>4. Walk[at[s]] \notin Inside[Walk[k]]
    <3>1. at[s] \in at[s] .. Len(Walk)
      BY <1>1, <1>2
    <3>2. QED
      BY <2>1, <3>1 DEF Left
  <2>5. Walk[k] \notin Inside[Walk[at[s]]]
    <3>1. SUFFICES ASSUME Walk[k] \in Inside[Walk[at[s]]] PROVE FALSE
      OBVIOUS
    <3>2. at[s] < k
      BY <1>2, <1>3, <2>2, <3>1, InsideComesLater DEF Entry
    <3>3. QED
      BY <1>1, <2>2, <3>2
  <2>6. QED
    BY <2>1, <2>2, <2>3, <2>4, <2>5 DEF Entry
<1>11. ASSUME NEW i \in Nat, i = at[s], ~resolved'[s] PROVE Left(s, i)'
  <2>1. ASSUME NEW j \in at[s] + 1 .. Len(Walk) PROVE Walk[j] \notin Inside[Walk[at[s]]]
    <3>1. /\ at[s] + 1 \in DOMAIN Walk /\ j \in DOMAIN Walk /\ at[s] \in 1 .. (at[s] + 1) - 1 /\ at[s] + 1 <= j
      BY <1>1, <1>2, <1>9, <1>11, WalkIsSequence
    <3>2. Walk[at[s] + 1] \in Roots /\ Walk[at[s]] \in Dirs
      BY <1>3, <1>9, <1>11 DEF Entry
    <3>3. QED
      BY <3>1, <3>2, RootsApart
  <2>2. QED
    BY <1>4, <1>11, <2>1 DEF Left
<1>12. Entry(s) \notin Inside[Entry(s)]
  <2>1. SUFFICES ASSUME Walk[at[s]] \in Inside[Walk[at[s]]] PROVE FALSE
    BY DEF Entry
  <2>2. at[s] < at[s]
    BY <1>2, <1>3, <2>1, InsideComesLater DEF Entry
  <2>3. QED
    BY <1>1, <2>2
<1>13. sunk[s] \intersect ToSet(Rendered[Entry(s)]) = {}
  <2>1. SUFFICES ASSUME NEW f \in sunk[s], f \in ToSet(Rendered[Entry(s)]) PROVE FALSE
    OBVIOUS
  <2>2. PICK k \in 1 .. Len(Walk) : k <= at[s] /\ Walk[k] = f
    BY <1>1 DEF Met
  <2>3. Walk[k] \in Inside[Walk[at[s]]]
    BY <1>3, <2>1, <2>2, RenderedInside DEF Entry
  <2>4. at[s] < k
    BY <1>2, <1>3, <2>3, InsideComesLater DEF Entry
  <2>5. QED
    BY <1>1, <2>2, <2>4
<1>14. ASSUME NEW d \in rendered'[s]
       PROVE  /\ ToSet(Rendered[d]) \subseteq excludes' /\ sunk'[s] \intersect ToSet(Rendered[d]) = {}
              /\ \E k \in 1 .. at'[s] - 1 : Walk[k] = d /\ (~resolved'[s] => Left(s, k)')
  <2>1. at'[s] - 1 = at[s] /\ at[s] \in 1 .. at[s]
    BY <1>1, <1>4
  <2>2. CASE d \in rendered[s]
    BY <1>1, <1>4, <1>10, <2>1, <2>2 DEF Charted
  <2>3. CASE d = Entry(s)
    <3>1. PICK i \in Nat : i = at[s]
      BY <1>1
    <3>2. Walk[i] = d /\ (~resolved'[s] => Left(s, i)') /\ i \in 1 .. at'[s] - 1
      BY <1>11, <2>1, <2>3, <3>1 DEF Entry
    <3>3. ToSet(Rendered[d]) \subseteq excludes' /\ sunk'[s] \intersect ToSet(Rendered[d]) = {}
      BY <1>2, <1>4, <1>13, <2>3
    <3>4. QED
      BY <3>2, <3>3
  <2>4. QED
    BY <1>4, <2>2, <2>3
<1>15. \A c, d \in rendered'[s] : d \notin Inside[c]
  BY <1>1, <1>4, <1>10, <1>12 DEF Charted
<1>16. Charted(s)'
  BY <1>4, <1>14, <1>15 DEF Charted
<1>17. QED
  BY <1>8, <1>16 DEF Walked
----------------------------------------------------------------------------
(* One step of a service, seen by itself.                                   *)
LEMMA StepWalked ==
  ASSUME IInv, NEW s \in Services, Step(s)
  PROVE  Walked(s)'
<1>1. /\ Typed /\ Excluding /\ Here(s) /\ Passed(s) /\ Met(s) /\ Charted(s)
      /\ Len(Walk) \in Nat /\ at[s] \in Nat \ {0}
  BY WalkIsSequence DEF IInv, Walked, Typed
<1>2. at[s] <= Len(Walk) => Entry(s) \in Entries /\ fault[Entry(s)] \in FaultKind
  BY <1>1, WalkIsSequence, FaultsTyped DEF Entry, Typed, Entries
<1>3. sunk' = sunk => Parsed(s)
  BY DEF Parsed
<1>4. CASE StatFails(s)
  <2>1. /\ at'[s] = at[s] /\ resolved' = resolved /\ rendered' = rendered /\ fault' = fault /\ excludes' = excludes
        /\ sunk' = sunk /\ pc'[s] = "failed" /\ at[s] <= Len(Walk) + 1
    BY <1>1, <1>4 DEF StatFails, Fail, Typed, Here
  <2>2. Here(s)'
    BY <2>1 DEF Here
  <2>3. QED
    BY <1>3, <2>1, <2>2, Stays
<1>5. CASE OpenScanFile(s)
  <2>1. /\ at[s] <= Len(Walk) /\ Entry(s) \in Roots \ Dirs /\ fault[Entry(s)] # "stat"
        /\ rendered' = rendered /\ fault' = fault /\ excludes' = excludes
    BY <1>5 DEF OpenScanFile, Visiting
  <2>2. sunk'[s] = IF Entry(s) \in Supported[s] /\ fault[Entry(s)] \notin {"link", "open"}
                   THEN sunk[s] \union {Entry(s)} ELSE sunk[s]
    BY <1>1, <1>5 DEF OpenScanFile, Typed
  <2>3. Entry(s) \in Wanted(s) <=> Entry(s) \in Supported[s] /\ fault[Entry(s)] \notin {"link", "open"}
    BY <2>1 DEF Wanted
  <2>4. ASSUME NEW d \in rendered[s] PROVE Entry(s) \notin ToSet(Rendered[d])
    <3>1. PICK k \in 1 .. at[s] - 1 : Walk[k] = d
      BY <1>1 DEF Charted
    <3>2. Walk[k] \in Dirs /\ Walk[k] \in Charts /\ at[s] \in DOMAIN Walk /\ at[s] <= at[s]
      BY <1>1, <2>1, <3>1, WalkTyped DEF Typed
    <3>3. Walk[at[s]] \notin Inside[Walk[k]]
      BY <2>1, <3>1, <3>2, RootsApart DEF Entry
    <3>4. QED
      BY <3>1, <3>2, <3>3, RenderedInside DEF Entry
  <2>5. Parsed(s)
    BY <2>1, <2>2, <2>3, <2>4 DEF Parsed
  <2>6. CASE GoTo(s, at[s] + 1)
    BY <2>1, <2>2, <2>3, <2>5, <2>6, NextEntry
  <2>7. CASE Fail(s)
    <3>1. at'[s] = at[s] /\ resolved' = resolved /\ pc'[s] = "failed" /\ at[s] <= Len(Walk) + 1
      BY <1>1, <2>7 DEF Fail, Typed, Here
    <3>2. Here(s)'
      BY <3>1 DEF Here
    <3>3. QED
      BY <2>1, <2>5, <3>1, <3>2, Stays
  <2>8. QED
    BY <1>5, <2>6, <2>7 DEF OpenScanFile
<1>6. CASE RLock(s)
  <2>1. /\ at'[s] = at[s] /\ resolved' = resolved /\ rendered' = rendered /\ fault' = fault /\ excludes' = excludes
        /\ sunk' = sunk /\ pc'[s] = "check" /\ at[s] <= Len(Walk) /\ s \in readers'
    BY <1>1, <1>6 DEF RLock, Visiting, Typed
  <2>2. Entry(s)' = Entry(s) /\ Entry(s) \notin Roots \ Dirs /\ fault[Entry(s)] # "stat"
    BY <1>6, <2>1 DEF RLock, Entry
  <2>3. Here(s)'
    BY <1>1, <2>1, <2>2 DEF Here
  <2>4. QED
    BY <1>3, <2>1, <2>3, Stays
<1>7. CASE ExcludeCache(s)
  <2>1. at[s] <= Len(Walk) /\ Entry(s) \in Dirs \intersect Caches /\ s \in readers
        /\ rendered' = rendered /\ fault' = fault /\ excludes' = excludes /\ sunk' = sunk
    BY <1>1, <1>7, WalkTyped DEF ExcludeCache, Here
  <2>2. CASE Entry(s) \in InCwd
    <3>1. /\ at'[s] = at[s] /\ resolved' = resolved /\ pc'[s] = "lock" /\ adding'[s] = <<Entry(s)>> /\ s \in readers'
      BY <1>1, <1>7, <2>1, <2>2 DEF ExcludeCache, Typed
    <3>2. ~AtChart(s)' /\ adding'[s] # <<>>
      BY <2>1, <3>1 DEF AtChart, Entry
    <3>3. Here(s)'
      BY <1>1, <2>1, <3>1, <3>2 DEF Here
    <3>4. QED
      BY <1>3, <2>1, <3>1, <3>3, Stays
  <2>3. CASE Entry(s) \notin InCwd
    BY <1>7, <2>1, <2>3, LeavesFolder DEF ExcludeCache
  <2>4. QED
    BY <2>2, <2>3
<1>8. CASE SkipFolder(s)
  <2>1. /\ at[s] <= Len(Walk) /\ Entry(s) \in Dirs \intersect Excludes /\ GoTo(s, SkipDir(at[s]))
        /\ rendered' = rendered /\ fault' = fault /\ excludes' = excludes /\ sunk' = sunk
    BY <1>1, <1>8 DEF SkipFolder, Here, Excluding
  <2>2. QED
    BY <2>1, LeavesFolder
<1>9. CASE EnterFolder(s)
  <2>1. /\ at[s] <= Len(Walk) /\ Entry(s) \in Dirs \ (Caches \union Excludes) /\ GoTo(s, at[s] + 1)
        /\ rendered' = rendered /\ fault' = fault /\ excludes' = excludes /\ sunk' = sunk
    BY <1>1, <1>9 DEF EnterFolder, Here, Excluding
  <2>2. Entry(s) \notin Wanted(s)
    BY <2>1 DEF Wanted
  <2>3. QED
    BY <1>3, <2>1, <2>2, NextEntry
<1>10. CASE EnterChart(s)
  <2>1. /\ at'[s] = at[s] /\ resolved' = resolved /\ rendered' = rendered /\ fault' = fault /\ excludes' = excludes
        /\ sunk' = sunk /\ pc'[s] = "resolve" /\ at[s] <= Len(Walk) /\ AtChart(s)
    BY <1>1, <1>10 DEF EnterChart, ResolvesChart, AtChart, Typed, Here, Excluding
  <2>2. AtChart(s)'
    BY <2>1 DEF AtChart, Entry
  <2>3. Here(s)'
    BY <1>1, <2>1, <2>2 DEF Here
  <2>4. QED
    BY <1>3, <2>1, <2>3, Stays
<1>11. CASE SkipFile(s)
  <2>1. /\ at[s] <= Len(Walk) /\ Entry(s) \notin Dirs /\ Entry(s) \notin Roots /\ GoTo(s, at[s] + 1)
        /\ Entry(s) \in excludes \/ Entry(s) \notin Supported[s]
        /\ rendered' = rendered /\ fault' = fault /\ excludes' = excludes /\ sunk' = sunk
    BY <1>1, <1>11 DEF SkipFile, SkipsFile, Here
  <2>2. Entry(s) \in Wanted(s) => Entry(s) \in excludes \ Excludes
    BY <2>1 DEF Wanted
  <2>3. QED
    BY <1>3, <2>1, <2>2, NextEntry
<1>12. CASE TakeFile(s)
  <2>1. /\ at'[s] = at[s] /\ resolved' = resolved /\ rendered' = rendered /\ fault' = fault /\ excludes' = excludes
        /\ sunk' = sunk /\ pc'[s] = "open" /\ at[s] <= Len(Walk)
        /\ Entry(s) \in Supported[s] \ (Dirs \union excludes) /\ Entry(s) \notin Roots \ Dirs /\ fault[Entry(s)] # "stat"
    BY <1>1, <1>12 DEF TakeFile, SkipsFile, Typed, Here
  <2>2. Entry(s)' = Entry(s) /\ Excludes \subseteq excludes
    BY <1>1, <2>1 DEF Entry, Excluding
  <2>3. Here(s)'
    BY <1>1, <2>1, <2>2 DEF Here
  <2>4. \A d \in rendered[s] : Entry(s) \notin ToSet(Rendered[d])
    BY <1>1, <2>1 DEF Charted
  <2>5. QED
    BY <1>3, <2>1, <2>3, <2>4, Stays
<1>13. CASE ResolveFails(s)
  <2>1. /\ at[s] <= Len(Walk) /\ Entry(s) \in Dirs \ (Caches \union Excludes) /\ GoTo(s, at[s] + 1)
        /\ rendered' = rendered /\ fault' = fault /\ excludes' = excludes /\ sunk' = sunk
    BY <1>1, <1>13, WalkTyped DEF ResolveFails, Here, AtChart
  <2>2. Entry(s) \notin Wanted(s)
    BY <2>1 DEF Wanted
  <2>3. QED
    BY <1>3, <2>1, <2>2, NextEntry
<1>14. CASE Resolve(s)
  <2>1. /\ at'[s] = at[s] /\ resolved' = resolved /\ rendered' = rendered /\ fault' = fault /\ excludes' = excludes
        /\ sunk' = sunk /\ at[s] <= Len(Walk) /\ AtChart(s) /\ adding'[s] = Rendered[Entry(s)]
        /\ pc'[s] = IF adding'[s] = <<>> THEN "resolved" ELSE "lock"
    BY <1>1, <1>14 DEF Resolve, Typed, Here
  <2>2. AtChart(s)' /\ Entry(s)' = Entry(s)
    BY <2>1 DEF AtChart, Entry
  <2>3. adding'[s] = <<>> => ToSet(Rendered[Entry(s)]) = {}
    BY <2>1 DEF ToSet
  <2>4. Here(s)'
    BY <1>1, <2>1, <2>2, <2>3 DEF Here
  <2>5. QED
    BY <1>3, <2>1, <2>4, Stays
<1>15. CASE Lock(s)
  <2>1. /\ at'[s] = at[s] /\ resolved' = resolved /\ rendered' = rendered /\ fault' = fault /\ excludes' = excludes
        /\ sunk' = sunk /\ pc'[s] = "add" /\ pc[s] = "lock" /\ adding' = adding /\ readers' = readers
    BY <1>1, <1>15 DEF Lock, Typed
  <2>2. AtChart(s)' = AtChart(s) /\ Entry(s)' = Entry(s)
    BY <2>1 DEF AtChart, Entry
  <2>3. Here(s)'
    BY <1>1, <2>1, <2>2 DEF Here
  <2>4. QED
    BY <1>3, <2>1, <2>3, Stays
<1>16. CASE Add(s)
  <2>1. /\ at'[s] = at[s] /\ resolved' = resolved /\ rendered' = rendered /\ fault' = fault
        /\ excludes' = excludes \union {Head(adding[s])} /\ readers' = readers /\ readers = {}
        /\ sunk' = sunk /\ pc[s] = "add" /\ adding'[s] = Tail(adding[s])
        /\ pc'[s] = IF adding'[s] = <<>> THEN "resolved" ELSE "lock"
    BY <1>1, <1>16 DEF Add, Typed
  <2>2. AtChart(s) /\ at[s] <= Len(Walk) /\ adding[s] # <<>>
    BY <1>1, <2>1 DEF Here
  <2>3. AtChart(s)' /\ Entry(s)' = Entry(s)
    BY <2>1, <2>2 DEF AtChart, Entry
  <2>4. ToSet(adding[s]) = {Head(adding[s])} \union ToSet(adding'[s])
    BY <1>1, <2>1, <2>2, HeadAndTail DEF Typed
  <2>5. /\ ToSet(adding'[s]) \subseteq ToSet(Rendered[Entry(s)])
        /\ ToSet(Rendered[Entry(s)]) \subseteq excludes' \union ToSet(adding'[s])
    BY <1>1, <2>1, <2>2, <2>4 DEF Here
  <2>6. adding'[s] = <<>> => ToSet(adding'[s]) = {}
    BY DEF ToSet
  <2>7. Here(s)'
    BY <1>1, <2>1, <2>2, <2>3, <2>5, <2>6 DEF Here
  <2>8. QED
    BY <1>3, <2>1, <2>7, Stays
<1>17. CASE LeaveChart(s)
  BY <1>17, ChartLeft
<1>18. CASE OpenFile(s)
  <2>1. /\ pc[s] = "open" /\ at[s] <= Len(Walk) /\ Entry(s) \in Supported[s] \ (Dirs \union Excludes)
        /\ fault[Entry(s)] # "stat" /\ fault[Entry(s)] \in FaultKind
        /\ rendered' = rendered /\ fault' = fault /\ excludes' = excludes
    BY <1>1, <1>2, <1>18 DEF OpenFile, Here
  <2>2. sunk'[s] = IF fault[Entry(s)] \in {None, "sink"} THEN sunk[s] \union {Entry(s)} ELSE sunk[s]
    BY <1>1, <1>18 DEF OpenFile, Typed
  <2>3. \A d \in Dirs : Entry(s) \in Inside[d] => d \notin Caches \union Excludes
    BY <2>1, NotPassedOver
  <2>4. fault[Entry(s)] \in {None, "sink"} <=> fault[Entry(s)] \notin {"link", "open", "stat"}
    BY <2>1 DEF FaultKind, None
  <2>5. Entry(s) \in Wanted(s) <=> fault[Entry(s)] \in {None, "sink"}
    BY <2>1, <2>3, <2>4 DEF Wanted
  <2>6. Parsed(s)
    BY <1>1, <2>1, <2>2, <2>5 DEF Parsed, Charted
  <2>7. CASE GoTo(s, at[s] + 1)
    BY <2>1, <2>2, <2>5, <2>6, <2>7, NextEntry
  <2>8. CASE Fail(s)
    <3>1. at'[s] = at[s] /\ resolved' = resolved /\ pc'[s] = "failed" /\ at[s] <= Len(Walk) + 1
      BY <1>1, <2>8 DEF Fail, Typed, Here
    <3>2. Here(s)'
      BY <3>1 DEF Here
    <3>3. QED
      BY <2>1, <2>6, <3>1, <3>2, Stays
  <2>9. QED
    BY <1>18, <2>7, <2>8 DEF OpenFile
<1>19. CASE Finish(s)
  <2>1. /\ at'[s] = at[s] /\ resolved' = resolved /\ rendered' = rendered /\ fault' = fault /\ excludes' = excludes
        /\ sunk' = sunk /\ pc'[s] = "done" /\ at[s] = Len(Walk) + 1
    BY <1>1, <1>19 DEF Finish, Typed, Here
  <2>2. Here(s)'
    BY <1>1, <2>1 DEF Here
  <2>3. QED
    BY <1>3, <2>1, <2>2, Stays
<1>20. QED
  BY <1>4, <1>5, <1>6, <1>7, <1>8, <1>9, <1>10, <1>11, <1>12, <1>13, <1>14, <1>15, <1>16, <1>17, <1>18, <1>19 DEF Step

(* Every step keeps the invariant. *)
LEMMA NextIInv == IInv /\ [Next]_vars => IInv'
<1> SUFFICES ASSUME IInv, [Next]_vars PROVE IInv'
  OBVIOUS
<1>1. ASSUME NEW s \in Services, Step(s) PROVE IInv'
  <2>1. Typed' /\ Shared(s) /\ Excluding'
    BY <1>1, StepTyped, StepExcluding
  <2>2. ASSUME NEW t \in Services PROVE Walked(t)'
    <3>1. CASE t = s
      BY <1>1, <3>1, StepWalked
    <3>2. CASE t # s
      BY <2>1, <3>2, OthersStay
    <3>3. QED
      BY <3>1, <3>2
  <2>3. QED
    BY <2>1, <2>2 DEF IInv
<1>2. CASE UNCHANGED vars
  <2>1. Typed' /\ Excluding'
    BY <1>2 DEF IInv, Typed, Excluding, vars, lockVars
  <2>2. ASSUME NEW t \in Services PROVE Walked(t)'
    BY <1>2 DEF IInv, Walked, Here, Passed, Met, Charted, Left, Wanted, Entry, AtChart, vars, lockVars
  <2>3. QED
    BY <2>1, <2>2 DEF IInv
<1>3. QED
  BY <1>1, <1>2 DEF Next, Terminated

(* The inductive invariant holds throughout (GetSources of all services). *)
THEOREM Invariant == Spec => []IInv
<1>1. Init => IInv
  BY InitIInv
<1>2. IInv /\ [Next]_vars => IInv'
  BY NextIInv
<1>3. QED
  BY <1>1, <1>2, PTL DEF Spec
----------------------------------------------------------------------------
(* A walk that ends without an error has parsed every file of its parser    *)
(* that is not excluded, and nothing else (GetSources, walkDir,             *)
(* checkConditions), whatever the other services exclude meanwhile.         *)
THEOREM WalkIsComplete == Spec => []WalkComplete
<1>1. IInv => WalkComplete
  <2> SUFFICES ASSUME IInv, NEW s \in Services
               PROVE  /\ sunk[s] \subseteq Wanted(s)
                      /\ pc[s] = "done" => Wanted(s) \ sunk[s] \subseteq excludes \ Excludes
    BY DEF WalkComplete
  <2>1. Here(s) /\ Met(s) /\ Len(Walk) \in Nat
    BY WalkIsSequence DEF IInv, Walked
  <2>2. ASSUME pc[s] = "done", NEW f \in Wanted(s) PROVE f \in sunk[s] \union (excludes \ Excludes)
    <3>1. at[s] = Len(Walk) + 1
      BY <2>1, <2>2 DEF Here
    <3>2. f \in Entries
      BY <2>2, WalkTyped DEF Wanted, Entries
    <3>3. PICK k \in 1 .. Len(Walk) : Walk[k] = f
      BY <3>2, WalkIsSequence
    <3>4. k \in 1 .. at[s] - 1
      BY <2>1, <3>1
    <3>5. QED
      BY <2>1, <2>2, <3>3, <3>4 DEF Met
  <2>3. QED
    BY <2>1, <2>2 DEF Met
<1>2. QED
  BY <1>1, Invariant, PTL

(* The files of a chart that a service has rendered are not parsed a second *)
(* time by it (AddExcluded and checkConditions).                            *)
THEOREM RenderedIsNotParsed == Spec => []RenderedNotParsed
<1>1. IInv => RenderedNotParsed
  BY DEF IInv, Walked, Charted, RenderedNotParsed
<1>2. QED
  BY <1>1, Invariant, PTL

(* No chart inside a rendered chart is rendered by itself (the resolved     *)
(* flag of walkDir).                                                        *)
THEOREM OutermostCharts == Spec => []OutermostChartOnly
<1>1. IInv => OutermostChartOnly
  BY DEF IInv, Walked, Charted, OutermostChartOnly
<1>2. QED
  BY <1>1, Invariant, PTL
============================================================================
