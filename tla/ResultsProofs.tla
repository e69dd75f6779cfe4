--------------------------- MODULE ResultsProofs ---------------------------
(***************************************************************************)
(* That the summary, the statistics and the exit code of a scan account    *)
(* for every vulnerability that was saved exactly once, and that its       *)
(* reports list every finding as often as it was made, for every scan and  *)
(* every order that the maps are ranged over.                              *)
(***************************************************************************)
EXTENDS Results, Folding

(* The library's operators in Summary are those of the lemmas on folds. *)
LEMMA SameFlattening == \A s : Model!FlattenSeq(s) = FlattenSeq(s)
  BY Zenon DEF Model!FlattenSeq, FlattenSeq
(* And so is its sum. *)
LEMMA SameSum == \A f : Model!SumFunction(f) = SumFunctionOnSet(f, DOMAIN f)
  BY Zenon DEF Model!SumFunction, Model!SumFunctionOnSet, Model!FoldFunctionOnSet, Model!MapThenFoldSet,
               SumFunctionOnSet, FoldFunctionOnSet, MapThenFoldSet

(* Of the vulnerabilities with one key just one is left. *)
LEMMA UniqueByKey ==
  ASSUME NEW V, V \in Seq(ToSet(V))
  PROVE  /\ IsFiniteSet(Model!Unique(V)) /\ Model!Unique(V) \subseteq ToSet(V)
         /\ \A u, w \in Model!Unique(V) : Model!DedupKey(u) = Model!DedupKey(w) => u = w
         /\ \A v \in ToSet(V) : \E u \in Model!Unique(V) : Model!DedupKey(u) = Model!DedupKey(v)
<1> DEFINE K(v) == Model!DedupKey(v)
           n == Len(V)
           Later(i) == {j \in DOMAIN V : j > i /\ K(V[j]) = K(V[i])}
           L == {k \in DOMAIN V : Later(k) = {}}
           U == {V[i] : i \in L}
<1>1. n \in Nat /\ DOMAIN V = 1 .. n /\ Model!Unique(V) = U
  BY DEF Model!Unique
<1> HIDE DEF K
<1>2. IsFiniteSet(U)
  <2> DEFINE f == [i \in L |-> V[i]]
  <2>1. IsFiniteSet(DOMAIN V)
    BY <1>1, FS_Interval
  <2>2. IsFiniteSet(L)
    <3>1. L \in SUBSET DOMAIN V
      OBVIOUS
    <3> HIDE DEF L
    <3> QED
      BY <2>1, <3>1, FS_Subset
  <2>3. f \in Surjection(L, U)
    <3> HIDE DEF L
    <3> QED
      BY DEF Surjection
  <2> QED
    BY <2>2, <2>3, FS_Surjection
<1>3. U \subseteq ToSet(V)
  BY DEF ToSet
<1>4. \A u, w \in U : K(u) = K(w) => u = w
  BY <1>1
<1>5. ASSUME NEW v \in ToSet(V) PROVE \E u \in U : K(u) = K(v)
  <2> DEFINE X == {n - i : i \in {j \in DOMAIN V : K(V[j]) = K(v)}}
  <2>1. X # {} /\ X \subseteq Nat
    BY <1>1, <1>5 DEF ToSet
  <2>2. PICK m \in X : \A k \in X : m <= k
    <3> HIDE DEF X
    <3> QED
      BY <2>1, LeastNumber
  <2>3. PICK i \in DOMAIN V : K(V[i]) = K(v) /\ m = n - i
    BY <2>2
  <2>4. \A j \in DOMAIN V : K(V[j]) = K(v) => j <= i
    <3>1. TAKE j \in DOMAIN V
    <3>2. HAVE K(V[j]) = K(v)
    <3>3. n - j \in X
      BY <3>2
    <3>4. m <= n - j
      BY <2>2, <3>3
    <3> QED
      BY <1>1, <2>3, <3>4
  <2>5. Later(i) = {}
    BY <1>1, <2>3, <2>4
  <2> QED
    BY <2>3, <2>5
<1> HIDE DEF U
<1> QED
  BY <1>1, <1>2, <1>3, <1>4, <1>5 DEF K

(* A set in some order. *)
LEMMA InOrder ==
  ASSUME NEW U, IsFiniteSet(U), NEW s \in SetToSeqs(U)
  PROVE  /\ Cardinality(U) \in Nat /\ s \in [1 .. Cardinality(U) -> U] /\ s \in Seq(U) /\ Len(s) = Cardinality(U)
         /\ \A i, j \in 1 .. Cardinality(U) : s[i] = s[j] => i = j
         /\ \A u \in U : \E i \in 1 .. Cardinality(U) : s[i] = u
<1> DEFINE n == Cardinality(U)
<1>1. n \in Nat
  BY FS_CardinalityType
<1>2. s \in [1 .. n -> U] /\ \A i, j \in 1 .. n : s[i] = s[j] => i = j
  BY DEF SetToSeqs
<1>3. s \in Injection(1 .. n, U)
  BY <1>2 DEF Injection, IsInjective
<1>4. Cardinality(1 .. n) = n
  BY <1>1, FS_Interval
<1>5. s \in Surjection(1 .. n, U)
  BY <1>3, <1>4, FS_Injection
<1> HIDE DEF n
<1>6. s \in Seq(U) /\ Len(s) = n
  BY <1>1, <1>2
<1> QED
  BY <1>1, <1>2, <1>5, <1>6 DEF Surjection, n

(* What the summary reads of the vulnerabilities. *)
Readable(U) == \A u \in U : Fields \subseteq DOMAIN u /\ u = [f \in DOMAIN u |-> u[f]]

(* The vulnerabilities as they are shown: each under the path of its file. *)
ShownAs(vulns, paths) == [i \in DOMAIN vulns |-> [vulns[i] EXCEPT !.file = paths[i]]]
OfQuery(id, shown) == {x \in ToSet(shown) : x.query = id}

(* Nothing else about them changes. *)
LEMMA ShownRight ==
  ASSUME NEW U, Readable(U), NEW vulns \in Seq(U), NEW paths
  PROVE  LET shown == ShownAs(vulns, paths)
         IN  /\ shown \in Seq(ToSet(shown)) /\ DOMAIN shown = DOMAIN vulns
             /\ \A i \in DOMAIN vulns :
                  /\ shown[i].query = vulns[i].query /\ shown[i].severity = vulns[i].severity
                  /\ shown[i].provider = vulns[i].provider /\ shown[i].line = vulns[i].line /\ shown[i].file = paths[i]
<1> DEFINE shown == ShownAs(vulns, paths)
           S == ToSet(shown)
<1>1. DOMAIN vulns = 1 .. Len(vulns) /\ Len(vulns) \in Nat
  OBVIOUS
<1>2. DOMAIN shown = DOMAIN vulns /\ \A i \in DOMAIN vulns : shown[i] = [vulns[i] EXCEPT !.file = paths[i]]
  BY DEF ShownAs
<1>3. shown \in Seq(S)
  <2>1. \A i \in DOMAIN vulns : shown[i] \in S
    BY <1>2 DEF ToSet
  <2>2. shown = [i \in DOMAIN shown |-> shown[i]]
    BY DEF ShownAs
  <2> HIDE DEF shown, S
  <2> QED
    BY <1>1, <1>2, <2>1, <2>2, SequenceOf
<1>4. ASSUME NEW i \in DOMAIN vulns
      PROVE  /\ shown[i].query = vulns[i].query /\ shown[i].severity = vulns[i].severity
             /\ shown[i].provider = vulns[i].provider /\ shown[i].line = vulns[i].line /\ shown[i].file = paths[i]
  <2> DEFINE u == vulns[i]
             w == [u EXCEPT !.file = paths[i]]
  <2>1. u \in U
    OBVIOUS
  <2>2. Fields \subseteq DOMAIN u
    BY <2>1 DEF Readable
  <2> HIDE DEF u
  <2>3. w.query = u.query /\ w.severity = u.severity /\ w.provider = u.provider /\ w.line = u.line /\ w.file = paths[i]
    BY <2>2 DEF Fields
  <2>4. shown[i] = w
    BY <1>2 DEF u
  <2> HIDE DEF w, shown
  <2> QED
    BY <2>3, <2>4 DEF u
<1> QED
  BY <1>2, <1>3, <1>4

(* A query is made of those that are shown under its id. *)
LEMMA QueryMade ==
  ASSUME NEW U, Readable(U), NEW vulns \in Seq(U), NEW paths, NEW id
  PROVE  LET shown == ShownAs(vulns, paths)
             q == Model!QueryOf(id, vulns, paths)
         IN  /\ q.id = id /\ q.files = Chosen(shown, OfQuery(id, shown))
             /\ q.severity = q.files[1].severity /\ q.provider = q.files[1].provider
<1> DEFINE shown == ShownAs(vulns, paths)
           P == OfQuery(id, shown)
           q == Model!QueryOf(id, vulns, paths)
           written == [i \in DOMAIN shown |-> IF shown[i].query = id THEN <<shown[i]>> ELSE <<>>]
           all == FlattenSeq(written)
<1>1. written = [i \in DOMAIN shown |-> IF shown[i] \in P THEN <<shown[i]>> ELSE <<>>]
  <2>1. \A i \in DOMAIN shown : shown[i].query = id <=> shown[i] \in P
    BY DEF OfQuery, ToSet
  <2> HIDE DEF shown, P
  <2> QED
    BY <2>1
<1>2. q = [id |-> id, name |-> all[1].name, severity |-> all[1].severity, provider |-> all[1].provider, files |-> all]
  BY SameFlattening, Zenon DEF Model!QueryOf, ShownAs
<1> HIDE DEF q, written, shown, P
<1>3. all = Chosen(shown, P)
  BY <1>1 DEF Chosen
<1> HIDE DEF all
<1>4. q.id = id /\ q.files = all /\ q.severity = all[1].severity /\ q.provider = all[1].provider
  BY <1>2
<1> QED
  BY <1>3, <1>4 DEF q, shown, P

(* A query has all of its vulnerabilities and the severity of one of them. *)
OwnOf(id, vulns) == {i \in DOMAIN vulns : vulns[i].query = id}
HasItsOwn(q, id, vulns) ==
  /\ q.id = id /\ IsFiniteSet(OwnOf(id, vulns)) /\ Len(q.files) = Cardinality(OwnOf(id, vulns))
  /\ \E i \in OwnOf(id, vulns) : q.severity = vulns[i].severity /\ q.provider = vulns[i].provider
(* It shows each of its files where one of them is. *)
ShowsPlaces(q, id, vulns, paths) ==
  /\ Len(q.files) \in Nat \ {0} /\ DOMAIN q.files = 1 .. Len(q.files)
  /\ q.files = [j \in DOMAIN q.files |-> q.files[j]] /\ \A j \in DOMAIN q.files : q.files[j].query = id
  /\ \A j \in DOMAIN q.files : \E i \in OwnOf(id, vulns) : q.files[j].file = paths[i] /\ q.files[j].line = vulns[i].line

(* So has the query that QueryOf makes of an id. *)
LEMMA QueryRight ==
  ASSUME NEW U, Readable(U), NEW vulns \in Seq(U), NEW paths, NEW id,
         OwnOf(id, vulns) # {}
  PROVE  LET q == Model!QueryOf(id, vulns, paths) IN HasItsOwn(q, id, vulns) /\ ShowsPlaces(q, id, vulns, paths)
<1> DEFINE shown == ShownAs(vulns, paths)
           S == ToSet(shown)
           P == OfQuery(id, shown)
           own == OwnOf(id, vulns)
           q == Model!QueryOf(id, vulns, paths)
           D == S \intersect P
<1>1. shown \in Seq(S) /\ DOMAIN shown = DOMAIN vulns
      /\ \A i \in DOMAIN vulns : /\ shown[i].query = vulns[i].query /\ shown[i].severity = vulns[i].severity
                                 /\ shown[i].provider = vulns[i].provider /\ shown[i].line = vulns[i].line
                                 /\ shown[i].file = paths[i]
  BY ShownRight
<1>2. /\ q.id = id /\ q.files = Chosen(shown, P)
      /\ q.severity = q.files[1].severity /\ q.provider = q.files[1].provider
  BY QueryMade
<1> HIDE DEF q, shown
<1>3. {i \in DOMAIN shown : shown[i] \in P} = own
  BY <1>1 DEF OwnOf, OfQuery, ToSet
<1>4. q.files \in Seq(D) /\ IsFiniteSet(own) /\ Len(q.files) = Cardinality(own)
  <2> HIDE DEF P, own, S
  <2>1. Chosen(shown, P) \in Seq(S \intersect P) /\ IsFiniteSet(own) /\ Len(Chosen(shown, P)) = Cardinality(own)
    <3>1. shown \in Seq(S)
      BY <1>1
    <3> QED
      BY <1>3, <3>1, ChosenRight
  <2> QED
    BY <1>2, <2>1
<1>5. Cardinality(own) \in Nat \ {0}
  <2>1. own # {}
    OBVIOUS
  <2> HIDE DEF own
  <2> QED
    BY <1>4, <2>1, FS_CardinalityType, FS_EmptySet
<1>6. DOMAIN q.files = 1 .. Len(q.files) /\ q.files = [j \in DOMAIN q.files |-> q.files[j]]
      /\ \A j \in DOMAIN q.files : q.files[j] \in D
  <2> DEFINE k == q.files
  <2>1. k \in Seq(D)
    BY <1>4
  <2> HIDE DEF k, D
  <2>2. DOMAIN k = 1 .. Len(k) /\ k = [j \in DOMAIN k |-> k[j]] /\ \A j \in DOMAIN k : k[j] \in D
    BY <2>1
  <2> QED
    BY <2>2 DEF k
<1>7. \A x \in D : \E i \in own : x = shown[i]
  BY <1>1 DEF OfQuery, OwnOf, ToSet
<1> HIDE DEF D
<1>8. \A j \in DOMAIN q.files : \E i \in own : q.files[j] = shown[i]
  BY <1>6, <1>7
<1>9. 1 \in DOMAIN q.files
  BY <1>4, <1>5, <1>6
<1>10. \A i \in own : i \in DOMAIN vulns
  BY DEF OwnOf
<1> HIDE DEF own
<1>11. \E i \in own : q.severity = vulns[i].severity /\ q.provider = vulns[i].provider
  BY <1>1, <1>2, <1>8, <1>9, <1>10
<1>12. \A j \in DOMAIN q.files : \E i \in own : q.files[j].file = paths[i] /\ q.files[j].line = vulns[i].line
  BY <1>1, <1>8, <1>10
<1>13. \A j \in DOMAIN q.files : q.files[j].query = id
  BY <1>1, <1>8, <1>10 DEF own, OwnOf
<1> QED
  BY <1>2, <1>4, <1>5, <1>6, <1>11, <1>12, <1>13 DEF q, HasItsOwn, ShowsPlaces, own

(* The queries of some vulnerabilities. *)
Queries(vulns, paths) == {Model!QueryOf(id, vulns, paths) : id \in {v.query : v \in ToSet(vulns)}}
(* Those that are reported. *)
ReportedOf(vulns, paths) == {q \in Queries(vulns, paths) : q.severity # "TRACE"}
(* The vulnerabilities of some queries. *)
Of(T, vulns) == {i \in DOMAIN vulns : \E q \in T : vulns[i].query = q.id}

(* They are finitely many. *)
LEMMA QueriesFinite ==
  ASSUME NEW U, NEW vulns \in Seq(U), NEW paths
  PROVE  IsFiniteSet(Queries(vulns, paths))
<1> DEFINE Q == Queries(vulns, paths)
           g == [i \in DOMAIN vulns |-> Model!QueryOf(vulns[i].query, vulns, paths)]
<1>1. IsFiniteSet(DOMAIN vulns)
  BY FS_Interval
<1>2. g \in Surjection(DOMAIN vulns, Q)
  BY DEF Surjection, Queries, ToSet
<1> HIDE DEF g, Q
<1>3. IsFiniteSet(Q)
  BY <1>1, <1>2, FS_Surjection
<1> QED
  BY <1>3 DEF Q

(* The files of some of the queries are as many as their vulnerabilities. *)
LEMMA CountRight ==
  ASSUME NEW U, Readable(U), NEW vulns \in Seq(U), NEW paths,
         NEW T \in SUBSET Queries(vulns, paths)
  PROVE  IsFiniteSet(Of(T, vulns)) /\ Model!Count(T) = Cardinality(Of(T, vulns))
<1> DEFINE part == [q \in T |-> {i \in DOMAIN vulns : vulns[i].query = q.id}]
           f == [q \in T |-> Len(q.files)]
           Q == Queries(vulns, paths)
<1>1. IsFiniteSet(T)
  <2> HIDE DEF Q
  <2>1. IsFiniteSet(Q)
    BY QueriesFinite DEF Q
  <2> QED
    BY <2>1, FS_Subset DEF Q
<1>2. ASSUME NEW q \in T
      PROVE  /\ q = Model!QueryOf(q.id, vulns, paths)
             /\ IsFiniteSet(part[q]) /\ f[q] = Cardinality(part[q])
  <2>1. PICK i \in DOMAIN vulns : q = Model!QueryOf(vulns[i].query, vulns, paths)
    BY <1>2 DEF Queries, ToSet
  <2>2. HasItsOwn(q, vulns[i].query, vulns)
    <3> DEFINE id == vulns[i].query
    <3>1. OwnOf(id, vulns) # {}
      BY DEF OwnOf
    <3>2. q = Model!QueryOf(id, vulns, paths)
      BY <2>1
    <3> HIDE DEF id
    <3>3. HasItsOwn(q, id, vulns)
      BY <3>1, <3>2, QueryRight
    <3> QED
      BY <3>3 DEF id
  <2> QED
    BY <2>1, <2>2 DEF HasItsOwn, OwnOf
<1>3. \A p, q \in T : p # q => part[p] \intersect part[q] = {}
  <2>1. TAKE p, q \in T
  <2>2. HAVE p # q
  <2>3. p.id # q.id
    BY <1>2, <2>2
  <2> QED
    BY <2>3
<1>4. Of(T, vulns) = UNION {part[q] : q \in T}
  BY DEF Of
<1>5. Model!Count(T) = SumFunctionOnSet(f, T)
  <2>1. Model!Count(T) = Model!SumFunction(f) /\ DOMAIN f = T
    BY Zenon DEF Model!Count
  <2> HIDE DEF f
  <2> QED
    BY <2>1, SameSum
<1> HIDE DEF part, f
<1> QED
  BY <1>1, <1>2, <1>3, <1>4, <1>5, SumOfParts

(* A query is that of its id, and there is one for every vulnerability. *)
LEMMA QueriesRight ==
  ASSUME NEW U, Readable(U), NEW vulns \in Seq(U), NEW paths
  PROVE  /\ \A q \in Queries(vulns, paths) : /\ q = Model!QueryOf(q.id, vulns, paths)
                                             /\ HasItsOwn(q, q.id, vulns) /\ ShowsPlaces(q, q.id, vulns, paths)
         /\ \A i \in DOMAIN vulns : \E q \in Queries(vulns, paths) : vulns[i].query = q.id
<1>1. ASSUME NEW i \in DOMAIN vulns
      PROVE  LET q == Model!QueryOf(vulns[i].query, vulns, paths)
             IN  q.id = vulns[i].query /\ HasItsOwn(q, q.id, vulns) /\ ShowsPlaces(q, q.id, vulns, paths)
  <2> DEFINE id == vulns[i].query
             q == Model!QueryOf(id, vulns, paths)
  <2>1. OwnOf(id, vulns) # {}
    BY DEF OwnOf
  <2> HIDE DEF id, q
  <2>2. HasItsOwn(q, id, vulns) /\ ShowsPlaces(q, id, vulns, paths)
    BY <2>1, QueryRight DEF q
  <2>3. q.id = id
    BY <2>2 DEF HasItsOwn
  <2>4. HasItsOwn(q, q.id, vulns) /\ ShowsPlaces(q, q.id, vulns, paths)
    BY <2>2, <2>3
  <2> QED
    BY <2>3, <2>4 DEF q, id
<1>2. \A q \in Queries(vulns, paths) : \E i \in DOMAIN vulns : q = Model!QueryOf(vulns[i].query, vulns, paths)
  BY DEF Queries, ToSet
<1>3. \A i \in DOMAIN vulns : Model!QueryOf(vulns[i].query, vulns, paths) \in Queries(vulns, paths)
  BY DEF Queries, ToSet
<1> QED
  BY <1>1, <1>2, <1>3

(* A summary is of these queries, the reported ones in some order. *)
LEMMA SummariesOf ==
  ASSUME NEW vulns, NEW paths, NEW m \in Model!Summarize(vulns, paths)
  PROVE  \E sorted \in Model!Sortings(ReportedOf(vulns, paths)) :
           m = Model!SummaryOf(Queries(vulns, paths), ReportedOf(vulns, paths), sorted, Model!FilePaths(vulns, paths))
  BY Zenon DEF Model!Summarize, Queries, ReportedOf, Model!ToSet, ToSet

(* The results and the materials are all the vulnerabilities, whatever their paths. *)
LEMMA TotalsRight ==
  ASSUME NEW U, Readable(U), NEW vulns \in Seq(U), NEW paths, NEW m \in Model!Summarize(vulns, paths)
  PROVE  m.total + m.resources = Len(vulns)
<1> DEFINE Q == Queries(vulns, paths)
           R == ReportedOf(vulns, paths)
<1>1. m.total = Model!Count(R) /\ m.resources = Model!Count(Q \ R)
  <2>1. PICK sorted : m = Model!SummaryOf(Q, R, sorted, Model!FilePaths(vulns, paths))
    BY SummariesOf
  <2> HIDE DEF Q, R
  <2> QED
    BY <2>1 DEF Model!SummaryOf
<1> DEFINE a == Of(R, vulns)
           b == Of(Q \ R, vulns)
<1>2. IsFiniteSet(a) /\ Model!Count(R) = Cardinality(a)
  <2>1. R \in SUBSET Queries(vulns, paths)
    BY DEF ReportedOf
  <2> HIDE DEF R
  <2> QED
    BY <2>1, CountRight
<1>3. IsFiniteSet(b) /\ Model!Count(Q \ R) = Cardinality(b)
  <2> DEFINE T == Q \ R
  <2>1. T \in SUBSET Queries(vulns, paths)
    OBVIOUS
  <2> HIDE DEF T
  <2>2. IsFiniteSet(Of(T, vulns)) /\ Model!Count(T) = Cardinality(Of(T, vulns))
    BY <2>1, CountRight
  <2> QED
    BY <2>2 DEF T
<1>4. a \intersect b = {} /\ a \union b = DOMAIN vulns
  <2>1. \A p, q \in Q : p.id = q.id => p = q
    <3>1. \A q \in Q : q = Model!QueryOf(q.id, vulns, paths)
      BY QueriesRight
    <3> HIDE DEF Q
    <3> QED
      BY <3>1
  <2>2. \A i \in DOMAIN vulns : \E q \in Q : vulns[i].query = q.id
    BY QueriesRight
  <2>3. R \subseteq Q
    BY DEF ReportedOf
  <2> HIDE DEF Q, R
  <2> QED
    BY <2>1, <2>2, <2>3 DEF Of
<1>5. Cardinality(DOMAIN vulns) = Len(vulns)
  <2>1. Len(vulns) \in Nat /\ DOMAIN vulns = 1 .. Len(vulns)
    OBVIOUS
  <2> QED
    BY <2>1, FS_Interval
<1> HIDE DEF a, b, R, Q
<1>6. Cardinality(a) + Cardinality(b) = Cardinality(a \union b)
  <2>1. /\ Cardinality(a) \in Nat /\ Cardinality(b) \in Nat
        /\ Cardinality(a \union b) = Cardinality(a) + Cardinality(b) - Cardinality(a \intersect b)
    BY <1>2, <1>3, FS_CardinalityType, FS_Union
  <2>2. Cardinality(a \intersect b) = 0
    BY <1>4, FS_EmptySet
  <2> QED
    BY <2>1, <2>2
<1> QED
  BY <1>1, <1>2, <1>3, <1>4, <1>5, <1>6

(* Where a query has one severity, the counter of a severity is the number of its *)
(* vulnerabilities.                                                                *)
LEMMA CountersRight ==
  ASSUME NEW U, Readable(U), NEW vulns \in Seq(U), NEW paths,
         \A u, w \in U : u.query = w.query => u.severity = w.severity,
         NEW m \in Model!Summarize(vulns, paths), NEW s \in ToSet(Model!Severities)
  PROVE  m.counters[s] = Cardinality({i \in DOMAIN vulns : vulns[i].severity = s})
<1> DEFINE Q == Queries(vulns, paths)
           R == ReportedOf(vulns, paths)
           T == {q \in Q : q.severity = s}
<1>1. m.counters[s] = Model!Count(T)
  <2>1. PICK sorted : m = Model!SummaryOf(Q, R, sorted, Model!FilePaths(vulns, paths))
    BY SummariesOf
  <2> HIDE DEF R, Q
  <2> DEFINE known == Model!ToSet(Model!Severities) \union {q.severity : q \in Q}
             counters == [t \in known |-> Model!Count({q \in Q : q.severity = t})]
  <2>2. m.counters = counters
    BY <2>1 DEF Model!SummaryOf
  <2>3. s \in known
    <3>1. Model!ToSet(Model!Severities) = ToSet(Model!Severities)
      BY Zenon DEF Model!ToSet, ToSet
    <3> HIDE DEF Q
    <3> QED
      BY <3>1
  <2> HIDE DEF known
  <2>4. counters[s] = Model!Count({q \in Q : q.severity = s})
    BY <2>3
  <2> QED
    BY <2>2, <2>4
<1>2. Model!Count(T) = Cardinality(Of(T, vulns))
  <2>1. T \in SUBSET Queries(vulns, paths)
    OBVIOUS
  <2> HIDE DEF T
  <2> QED
    BY <2>1, CountRight
<1>3. Of(T, vulns) = {i \in DOMAIN vulns : vulns[i].severity = s}
  <2>1. \A q \in Q : \E i \in DOMAIN vulns : vulns[i].query = q.id /\ q.severity = vulns[i].severity
    <3>1. \A q \in Q : HasItsOwn(q, q.id, vulns)
      BY QueriesRight
    <3> HIDE DEF Q
    <3> QED
      BY <3>1 DEF HasItsOwn, OwnOf
  <2>2. \A i \in DOMAIN vulns : \E q \in Q : vulns[i].query = q.id
    BY QueriesRight
  <2>3. \A i, j \in DOMAIN vulns : vulns[i].query = vulns[j].query => vulns[i].severity = vulns[j].severity
    <3>1. \A i \in DOMAIN vulns : vulns[i] \in U
      OBVIOUS
    <3> QED
      BY <3>1
  <2>4. \A q \in Q, i \in DOMAIN vulns : vulns[i].query = q.id => q.severity = vulns[i].severity
    <3> HIDE DEF Q
    <3> QED
      BY <2>1, <2>3
  <2> HIDE DEF Q
  <2> QED
    BY <2>2, <2>4 DEF Of
<1> QED
  BY <1>1, <1>2, <1>3

(* The number of some of the unique vulnerabilities is that of their keys. *)
LEMMA KeysCounted ==
  ASSUME NEW V, V \in Seq(ToSet(V)), NEW vulns \in SetToSeqs(Model!Unique(V)), NEW I \in SUBSET DOMAIN vulns
  PROVE  Cardinality(I) = Cardinality({Model!DedupKey(vulns[i]) : i \in I})
<1> DEFINE U == Model!Unique(V)
           n == Cardinality(U)
           f == [i \in I |-> Model!DedupKey(vulns[i])]
           K == {Model!DedupKey(vulns[i]) : i \in I}
<1>1. IsFiniteSet(U) /\ \A u, w \in U : Model!DedupKey(u) = Model!DedupKey(w) => u = w
  BY UniqueByKey
<1>2. n \in Nat /\ DOMAIN vulns = 1 .. n /\ \A i \in 1 .. n : vulns[i] \in U
  <2> HIDE DEF U
  <2>1. n \in Nat /\ vulns \in [1 .. n -> U]
    BY <1>1, InOrder DEF U
  <2> HIDE DEF n
  <2> QED
    BY <2>1
<1>3. \A i, j \in 1 .. n : vulns[i] = vulns[j] => i = j
  <2> HIDE DEF U
  <2> QED
    BY <1>1, InOrder DEF U
<1>4. IsFiniteSet(I)
  <2>1. IsFiniteSet(1 .. n) /\ I \in SUBSET (1 .. n)
    BY <1>2, FS_Interval
  <2> QED
    BY <2>1, FS_Subset
<1> HIDE DEF U, n
<1>5. \A i, j \in I : f[i] = f[j] => i = j
  BY <1>1, <1>2, <1>3
<1>6. f \in Bijection(I, K)
  BY <1>5 DEF Bijection, Injection, Surjection, IsInjective
<1> HIDE DEF f, K
<1> QED
  BY <1>4, <1>6, FS_Bijection DEF ExistsBijection, K

-----------------------------------------------------------------------------
(* The paths that the files of some vulnerabilities are shown as. *)
PathsOf(vulns, extraction, order) ==
  [i \in DOMAIN vulns |-> Model!ResolvePath(vulns[i].file, extraction, order, OutputPath)]
(* What postScan makes of some unique vulnerabilities and folders in some order. *)
IsReportOf(out, scan, vulns, paths) ==
  /\ out.summary \in Model!Summarize(vulns, paths) /\ out.stats.violations = Len(vulns)
  /\ out.files = Report!GenerateReport(scan.formats, scan.name, out.summary)
  /\ out.exit = IF Model!ShowError("results", scan.ignore)
                THEN Model!ResultsExitCode(out.summary.counters, scan.fail) ELSE 0

(* A report that is there is of the vulnerabilities of a scan that was asked for. *)
IInv ==
  /\ call = "report" => input \in Scans
  /\ Reported => \E vulns \in SetToSeqs(Model!Unique(input.vulns)) :
                   \E order \in SetToSeqs(DOMAIN input.extraction) :
                     IsReportOf(output, input, vulns, PathsOf(vulns, input.extraction, order))

(* The invariant holds in every state. *)
THEOREM Invariant == ResultsSpec => []IInv
<1>1. ResultsInit => IInv
  BY DEF ResultsInit, Called, IInv, Reported
<1>2. IInv /\ [ResultsNext]_vars => IInv'
  <2> SUFFICES ASSUME IInv, [ResultsNext]_vars PROVE IInv'
    OBVIOUS
  <2>1. CASE PostScan
    <3>1. PICK vulns \in SetToSeqs(Model!Unique(input.vulns)), order \in SetToSeqs(DOMAIN input.extraction) :
            \E summary \in Model!CreateSummary(vulns, input.extraction, order, OutputPath) :
              Return(Reports(summary, vulns))
      BY <2>1 DEF PostScan
    <3> DEFINE paths == PathsOf(vulns, input.extraction, order)
               stats == Model!GenerateStats(vulns)
    <3>2. PICK summary \in Model!Summarize(vulns, paths) : Return(Reports(summary, vulns))
      BY <3>1 DEF Model!CreateSummary, PathsOf
    <3>3. stats.violations = Len(vulns)
      BY DEF Model!GenerateStats
    <3> DEFINE files == Report!GenerateReport(input.formats, input.name, summary)
    <3> HIDE DEF paths, stats, files
    <3>4. output' = Reports(summary, vulns) /\ call' = call /\ input' = input
      BY <3>2 DEF Return
    <3>5. output'.summary = summary /\ output'.stats = stats /\ output'.files = files
          /\ output'.exit = IF Model!ShowError("results", input.ignore)
                            THEN Model!ResultsExitCode(summary.counters, input.fail) ELSE 0
      BY <3>4 DEF Reports, stats, files
    <3>6. IsReportOf(output', input, vulns, paths)
      BY <3>2, <3>3, <3>5 DEF IsReportOf, files
    <3>7. \E vs \in SetToSeqs(Model!Unique(input.vulns)) : \E o \in SetToSeqs(DOMAIN input.extraction) :
            IsReportOf(output', input, vs, PathsOf(vs, input.extraction, o))
      BY <3>6 DEF paths
    <3> QED
      BY <3>4, <3>7 DEF IInv
  <2>2. CASE OfferFix
    BY <2>2 DEF OfferFix, Return, IInv, Reported
  <2>3. CASE UNCHANGED vars
    BY <2>3 DEF IInv, Reported, vars
  <2> QED
    BY <2>1, <2>2, <2>3 DEF ResultsNext
<1> QED
  BY <1>1, <1>2, PTL DEF ResultsSpec

(* The unique vulnerabilities of a scan have the fields that the summary reads. *)
LEMMA UniqueReadable ==
  ASSUME NEW scan \in Scans
  PROVE  scan.vulns \in Seq(ToSet(scan.vulns)) /\ Readable(Model!Unique(scan.vulns))
<1>1. scan.vulns \in Seq(ToSet(scan.vulns))
      /\ \A v \in ToSet(scan.vulns) : Fields \subseteq DOMAIN v /\ v = [f \in DOMAIN v |-> v[f]]
  BY ScansTyped
<1>2. Model!Unique(scan.vulns) \subseteq ToSet(scan.vulns)
  BY <1>1, UniqueByKey
<1> QED
  BY <1>1, <1>2 DEF Readable

(* Every different vulnerability is counted once, in the summary, in the statistics *)
(* and, where a query has one severity, in the counter of its severity.             *)
LEMMA CountsOfReport ==
  ASSUME IInv, Reported
  PROVE  CountedOnce
<1> DEFINE V == input.vulns
           U == Model!Unique(V)
           K(v) == Model!DedupKey(v)
<1>1. PICK vulns, paths : vulns \in SetToSeqs(U) /\ IsReportOf(output, input, vulns, paths)
  BY DEF IInv
<1>2. V \in Seq(ToSet(V)) /\ Readable(U)
  BY UniqueReadable DEF IInv, Reported
<1>3. IsFiniteSet(U) /\ U \subseteq ToSet(V) /\ \A v \in ToSet(V) : \E u \in U : K(u) = K(v)
  BY <1>2, UniqueByKey
<1> HIDE DEF V, U, K
<1>4. vulns \in Seq(U) /\ \A u \in U : \E i \in DOMAIN vulns : vulns[i] = u
  <2> DEFINE n == Cardinality(U)
  <2>1. n \in Nat /\ vulns \in [1 .. n -> U] /\ vulns \in Seq(U) /\ \A u \in U : \E i \in 1 .. n : vulns[i] = u
    BY <1>1, <1>3, InOrder
  <2> HIDE DEF n
  <2> QED
    BY <2>1
<1>5. \A i \in DOMAIN vulns : vulns[i] \in ToSet(V)
  BY <1>3, <1>4
<1>6. \A v \in ToSet(V) : \E i \in DOMAIN vulns : K(vulns[i]) = K(v)
  BY <1>3, <1>4
<1>7. Keys(V) = {K(vulns[i]) : i \in DOMAIN vulns}
  <2>1. Keys(V) = {K(v) : v \in ToSet(V)}
    BY DEF Keys, K
  <2> QED
    BY <1>5, <1>6, <2>1
<1>8. Len(vulns) = Cardinality(Keys(V))
  <2> DEFINE I == DOMAIN vulns
  <2>1. Cardinality(I) = Cardinality({Model!DedupKey(vulns[i]) : i \in I})
    BY <1>1, <1>2, KeysCounted DEF U
  <2>2. Cardinality(I) = Len(vulns)
    <3> DEFINE n == Len(vulns)
    <3>1. n \in Nat /\ I = 1 .. n
      BY <1>4
    <3> HIDE DEF n, I
    <3>2. Cardinality(1 .. n) = n
      BY <3>1, FS_Interval
    <3> QED
      BY <3>1, <3>2 DEF n
  <2> QED
    BY <1>7, <2>1, <2>2 DEF K
<1>9. output.summary.total + output.summary.resources = Len(vulns) /\ output.stats.violations = Len(vulns)
  BY <1>1, <1>2, <1>4, TotalsRight DEF IsReportOf
<1>10. ASSUME OneSeverity(V), NEW s \in ToSet(Model!Severities)
       PROVE  output.summary.counters[s] = Cardinality({K(v) : v \in {x \in ToSet(V) : x.severity = s}})
  <2> DEFINE I == {i \in DOMAIN vulns : vulns[i].severity = s}
             W == {x \in ToSet(V) : x.severity = s}
  <2>1. \A u, w \in U : u.query = w.query => u.severity = w.severity
    BY <1>3, <1>10 DEF OneSeverity
  <2>2. output.summary.counters[s] = Cardinality(I)
    BY <1>1, <1>2, <1>4, <2>1, CountersRight DEF IsReportOf
  <2>3. Cardinality(I) = Cardinality({Model!DedupKey(vulns[i]) : i \in I})
    <3>1. I \in SUBSET DOMAIN vulns
      OBVIOUS
    <3> HIDE DEF I
    <3> QED
      BY <1>1, <1>2, <3>1, KeysCounted DEF U
  <2>4. {K(vulns[i]) : i \in I} = {K(v) : v \in W}
    <3>1. \A i \in I : vulns[i] \in W
      BY <1>5
    <3>2. ASSUME NEW v \in W PROVE \E i \in I : K(vulns[i]) = K(v)
      <4>1. PICK i \in DOMAIN vulns : K(vulns[i]) = K(v)
        BY <1>6, <3>2
      <4>2. vulns[i].query = v.query
        BY <4>1 DEF K, Model!DedupKey
      <4>3. vulns[i].severity = v.severity
        BY <1>5, <1>10, <3>2, <4>2 DEF OneSeverity
      <4> QED
        BY <3>2, <4>1, <4>3
    <3> HIDE DEF I, W
    <3> QED
      BY <3>1, <3>2
  <2> HIDE DEF I, W
  <2> QED
    BY <2>2, <2>3, <2>4 DEF K, W
<1> QED
  BY <1>8, <1>9, <1>10 DEF CountedOnce, V, K

(* CountedOnce, of every scan and every order of the maps. *)
THEOREM EachCountedOnce == ResultsSpec => []CountedOnce
<1>1. IInv => CountedOnce
  BY CountsOfReport DEF CountedOnce
<1> QED
  BY <1>1, Invariant, PTL

(* The counter of a severity is zero just when no vulnerability has it. *)
LEMMA CounterOfNone ==
  ASSUME IInv, Reported, OneSeverity(input.vulns), NEW s \in ToSet(Model!Severities)
  PROVE  output.summary.counters[s] \in Nat
         /\ (output.summary.counters[s] > 0 <=> \E v \in ToSet(input.vulns) : v.severity = s)
<1> DEFINE V == input.vulns
           W == {x \in ToSet(V) : x.severity = s}
           K == {Model!DedupKey(v) : v \in W}
<1>1. output.summary.counters[s] = Cardinality(K)
  BY CountsOfReport DEF CountedOnce
<1>2. V \in Seq(ToSet(V))
  BY UniqueReadable DEF IInv, Reported
<1>3. IsFiniteSet(K)
  <2> DEFINE f == [i \in {j \in DOMAIN V : V[j].severity = s} |-> Model!DedupKey(V[i])]
  <2>1. IsFiniteSet(DOMAIN V)
    BY <1>2, FS_Interval
  <2>2. IsFiniteSet(DOMAIN f) /\ f \in Surjection(DOMAIN f, K)
    <3>1. DOMAIN f \in SUBSET DOMAIN V
      OBVIOUS
    <3>2. f \in Surjection(DOMAIN f, K)
      BY DEF Surjection, ToSet
    <3> HIDE DEF f, K
    <3> QED
      BY <2>1, <3>1, <3>2, FS_Subset
  <2> HIDE DEF f, K
  <2> QED
    BY <2>2, FS_Surjection
<1>4. K # {} <=> \E v \in ToSet(V) : v.severity = s
  OBVIOUS
<1> HIDE DEF K
<1>5. Cardinality(K) \in Nat /\ (Cardinality(K) = 0 <=> K = {})
  BY <1>3, FS_CardinalityType, FS_EmptySet
<1> QED
  BY <1>1, <1>4, <1>5

(* ExitCodeRight, of every scan and every order of the maps. *)
THEOREM ExitCodeIsRight == ResultsSpec => []ExitCodeRight
<1>1. ASSUME IInv, Reported, OneSeverity(input.vulns), input.ignore \notin {"all", "results"}
      PROVE  /\ Failing(input) = {} => output.exit = 0
             /\ \A i \in Failing(input) :
                  (\A j \in Failing(input) : i <= j) => output.exit = <<60, 50, 40, 30, 20, 0>>[i]
  <2> DEFINE S == Model!Severities
             counters == output.summary.counters
             F == {i \in DOMAIN S : S[i] \in input.fail /\ counters[S[i]] > 0}
             codes == <<60, 50, 40, 30, 20, 0>>
  <2>1. F = Failing(input)
    <3>1. \A i \in DOMAIN S : S[i] \in ToSet(Model!Severities)
      BY DEF ToSet
    <3>2. \A i \in DOMAIN S : counters[S[i]] > 0 <=> \E v \in ToSet(input.vulns) : v.severity = S[i]
      <4> HIDE DEF S
      <4> QED
        BY <1>1, <3>1, CounterOfNone DEF S
    <3> HIDE DEF S, counters
    <3> QED
      BY <3>2 DEF Failing, S
  <2>2. output.exit = IF F = {} THEN 0 ELSE codes[Model!Min(F)]
    <3>1. PICK vulns, paths : IsReportOf(output, input, vulns, paths)
      BY <1>1 DEF IInv
    <3>2. Model!ShowError("results", input.ignore)
      BY <1>1 DEF Model!ShowError
    <3>3. output.exit = Model!ResultsExitCode(counters, input.fail)
      BY <3>1, <3>2 DEF IsReportOf
    <3>4. Model!ResultsExitCode(counters, input.fail) = IF F = {} THEN 0 ELSE codes[Model!Min(F)]
      BY Zenon DEF Model!ResultsExitCode
    <3> QED
      BY <3>3, <3>4
  <2>3. DOMAIN S \subseteq Int
    BY DEF Model!Severities
  <2>4. ASSUME NEW i \in F, \A j \in F : i <= j PROVE Model!Min(F) = i
    <3>1. \A j, k \in F : j <= k /\ k <= j => j = k
      BY <2>3
    <3> HIDE DEF F
    <3> QED
      BY <2>4, <3>1 DEF Model!Min
  <2> HIDE DEF F, codes
  <2>5. \A i \in F : (\A j \in F : i <= j) => output.exit = codes[i]
    BY <2>2, <2>4
  <2> QED
    BY <2>1, <2>2, <2>5 DEF codes
<1>2. IInv => ExitCodeRight
  BY <1>1 DEF ExitCodeRight
<1> QED
  BY <1>2, Invariant, PTL

(* Both of them. *)
THEOREM OutcomeIsRight == ResultsSpec => []OutcomeRight
<1>1. CountedOnce /\ ExitCodeRight => OutcomeRight
  BY DEF OutcomeRight
<1> QED
  BY <1>1, EachCountedOnce, ExitCodeIsRight, PTL

-----------------------------------------------------------------------------
(* Queries and their files.                                                 *)

(* Where a vulnerability is shown, and the files of a query that are shown in T. *)
ShownAt(vulns, paths, k) == <<vulns[k].query, paths[k], vulns[k].line>>
FilesIn(q, T) == {j \in DOMAIN q.files : <<q.id, q.files[j].file, q.files[j].line>> \in T}
OwnIn(id, vulns, paths, T) == {k \in OwnOf(id, vulns) : ShownAt(vulns, paths, k) \in T}

(* A query has as many files there as vulnerabilities. *)
LEMMA FilesCounted ==
  ASSUME NEW U, Readable(U), NEW vulns \in Seq(U), NEW paths, NEW id, NEW T
  PROVE  LET q == Model!QueryOf(id, vulns, paths)
         IN  /\ IsFiniteSet(FilesIn(q, T)) /\ IsFiniteSet(OwnIn(id, vulns, paths, T))
             /\ Cardinality(FilesIn(q, T)) = Cardinality(OwnIn(id, vulns, paths, T))
<1> DEFINE shown == ShownAs(vulns, paths)
           S == ToSet(shown)
           P == OfQuery(id, shown)
           q == Model!QueryOf(id, vulns, paths)
           R == {x \in S : <<id, x.file, x.line>> \in T}
<1>1. shown \in Seq(S)
  BY ShownRight
<1>2. DOMAIN shown = DOMAIN vulns /\ \A i \in DOMAIN vulns : shown[i].query = vulns[i].query
      /\ shown[i].line = vulns[i].line /\ shown[i].file = paths[i]
  BY ShownRight
<1>3. q.id = id /\ q.files = Chosen(shown, P)
  BY QueryMade
<1> HIDE DEF q, shown
<1>4. q.files \in Seq(S) /\ Cardinality(Spots(q.files, R)) = Cardinality(Spots(shown, P \intersect R))
  <2> HIDE DEF P, R, S
  <2>1. Chosen(shown, P) \in Seq(S) /\ Cardinality(Spots(Chosen(shown, P), R)) = Cardinality(Spots(shown, P \intersect R))
    BY <1>1, ChosenSpots
  <2> QED
    BY <1>3, <2>1
<1>5. Spots(q.files, R) = FilesIn(q, T)
  <2>1. \A j \in DOMAIN q.files : q.files[j] \in S
    <3> DEFINE k == q.files
    <3>1. k \in Seq(S)
      BY <1>4
    <3> HIDE DEF k, S
    <3>2. \A j \in DOMAIN k : k[j] \in S
      BY <3>1
    <3> QED
      BY <3>2 DEF k
  <2> HIDE DEF S
  <2> QED
    BY <1>3, <2>1 DEF Spots, FilesIn
<1>6. Spots(shown, P \intersect R) = OwnIn(id, vulns, paths, T)
  <2>1. \A i \in DOMAIN vulns : shown[i] \in P \intersect R <=> vulns[i].query = id /\ ShownAt(vulns, paths, i) \in T
    <3>1. TAKE i \in DOMAIN vulns
    <3>2. shown[i] \in S
      BY <1>2 DEF ToSet
    <3>3. shown[i] \in P <=> vulns[i].query = id
      BY <1>2, <3>2 DEF OfQuery
    <3>4. shown[i] \in R <=> <<id, paths[i], vulns[i].line>> \in T
      BY <1>2, <3>2
    <3> QED
      BY <3>3, <3>4 DEF ShownAt
  <2> HIDE DEF P, R
  <2> QED
    BY <1>2, <2>1 DEF Spots, OwnIn, OwnOf
<1>7. IsFiniteSet(Spots(q.files, R)) /\ IsFiniteSet(Spots(shown, P \intersect R))
  <2> DEFINE k == q.files
  <2>1. k \in Seq(S)
    BY <1>4
  <2> HIDE DEF k, P, R, S
  <2>2. IsFiniteSet(Spots(k, R)) /\ IsFiniteSet(Spots(shown, P \intersect R))
    BY <1>1, <2>1, SpotsFinite
  <2> QED
    BY <2>2 DEF k
<1> QED
  BY <1>4, <1>5, <1>6, <1>7 DEF q

(* The size of a set is the same in Summary. *)
LEMMA SameCardinality == \A S : Model!Cardinality(S) = Cardinality(S)
  BY Zenon DEF Model!Cardinality, Cardinality

(* The reported queries come once each, in the order of the summary. *)
LEMMA SortedRight ==
  ASSUME NEW U, Readable(U), NEW vulns \in Seq(U), NEW paths, NEW sorted \in Model!Sortings(ReportedOf(vulns, paths))
  PROVE  /\ Len(sorted) \in Nat /\ DOMAIN sorted = 1 .. Len(sorted)
         /\ \A i \in DOMAIN sorted : sorted[i] \in ReportedOf(vulns, paths)
                                     /\ sorted[i] = Model!QueryOf(sorted[i].id, vulns, paths)
                                     /\ HasItsOwn(sorted[i], sorted[i].id, vulns)
                                     /\ ShowsPlaces(sorted[i], sorted[i].id, vulns, paths)
         /\ \A i, j \in DOMAIN sorted : sorted[i].id = sorted[j].id => i = j
         /\ \A q \in ReportedOf(vulns, paths) : \E i \in DOMAIN sorted : sorted[i] = q
<1> DEFINE R == ReportedOf(vulns, paths)
           n == Cardinality(R)
<1>1. IsFiniteSet(R)
  <2>1. IsFiniteSet(Queries(vulns, paths))
    BY QueriesFinite
  <2>2. R \in SUBSET Queries(vulns, paths)
    BY DEF ReportedOf
  <2> QED
    BY <2>1, <2>2, FS_Subset
<1>2. sorted \in SetToSeqs(R)
  <2>1. Model!SetToSeqs(R) = SetToSeqs(R)
    BY SameCardinality, Zenon DEF Model!SetToSeqs, SetToSeqs
  <2> HIDE DEF R
  <2>2. sorted \in Model!Sortings(R)
    BY DEF R
  <2> QED
    BY <2>1, <2>2 DEF Model!Sortings
<1>3. \A q \in R : q = Model!QueryOf(q.id, vulns, paths) /\ HasItsOwn(q, q.id, vulns) /\ ShowsPlaces(q, q.id, vulns, paths)
  BY QueriesRight DEF ReportedOf
<1> HIDE DEF R
<1>4. n \in Nat /\ sorted \in [1 .. n -> R] /\ sorted \in Seq(R) /\ Len(sorted) = n
      /\ (\A i, j \in 1 .. n : sorted[i] = sorted[j] => i = j) /\ \A q \in R : \E i \in 1 .. n : sorted[i] = q
  BY <1>1, <1>2, InOrder
<1> HIDE DEF n
<1>5. Len(sorted) \in Nat /\ DOMAIN sorted = 1 .. Len(sorted) /\ \A i \in DOMAIN sorted : sorted[i] \in R
  BY <1>4
<1>6. \A i, j \in DOMAIN sorted : sorted[i].id = sorted[j].id => i = j
  <2>1. TAKE i, j \in DOMAIN sorted
  <2>2. HAVE sorted[i].id = sorted[j].id
  <2>3. sorted[i] = sorted[j]
    BY <1>3, <1>5, <2>2
  <2> QED
    BY <1>4, <1>5, <2>3
<1> QED
  BY <1>3, <1>4, <1>5, <1>6 DEF R

(* Rows, one for a query, that hold P just where a query of G has files in T. *)
RowsIn(rows, D, P, sorted, G, T) ==
  /\ rows \in Seq(Seq(D)) /\ DOMAIN rows = DOMAIN sorted
  /\ \A i \in DOMAIN sorted : Spots(rows[i], P) = IF i \in G THEN FilesIn(sorted[i], T) ELSE {}
(* The vulnerabilities that are shown in T and that a query of G has. *)
ListedIn(vulns, paths, sorted, G, T) ==
  {k \in DOMAIN vulns : /\ ShownAt(vulns, paths, k) \in T
                        /\ \E i \in DOMAIN sorted : i \in G /\ sorted[i].id = vulns[k].query}

(* A list made of rows, one for a query, that has entries of P just where the query *)
(* has files in T: as many entries as there are vulnerabilities shown in T, of the  *)
(* queries that have a row.                                                         *)
LEMMA RowsCounted ==
  ASSUME NEW U, Readable(U), NEW vulns \in Seq(U), NEW paths, NEW sorted \in Model!Sortings(ReportedOf(vulns, paths)),
         NEW D, NEW rows, NEW P, NEW T, NEW G, RowsIn(rows, D, P, sorted, G, T)
  PROVE  LET K == ListedIn(vulns, paths, sorted, G, T)
         IN  IsFiniteSet(K) /\ Cardinality(Spots(FlattenSeq(rows), P)) = Cardinality(K)
<1> DEFINE n == Len(sorted)
           I == 1 .. n
           Own(i) == OwnIn(sorted[i].id, vulns, paths, T)
           part == [i \in I |-> SpotsOfRow(rows, P, i)]
           other == [i \in I |-> IF i \in G THEN Own(i) ELSE {}]
           K == ListedIn(vulns, paths, sorted, G, T)
<1>0. /\ rows \in Seq(Seq(D)) /\ DOMAIN rows = DOMAIN sorted
      /\ \A i \in DOMAIN sorted : Spots(rows[i], P) = IF i \in G THEN FilesIn(sorted[i], T) ELSE {}
  BY DEF RowsIn
<1>1. /\ n \in Nat /\ DOMAIN sorted = I
      /\ \A i \in I : sorted[i] = Model!QueryOf(sorted[i].id, vulns, paths)
      /\ \A i, j \in I : sorted[i].id = sorted[j].id => i = j
  BY SortedRight
<1>2. IsFiniteSet(I)
  BY <1>1, FS_Interval
<1>3. ASSUME NEW i \in I PROVE IsFiniteSet(FilesIn(sorted[i], T)) /\ IsFiniteSet(Own(i))
                               /\ Cardinality(FilesIn(sorted[i], T)) = Cardinality(Own(i))
  <2> DEFINE id == sorted[i].id
  <2>1. sorted[i] = Model!QueryOf(id, vulns, paths)
    BY <1>1
  <2> HIDE DEF id
  <2> QED
    BY <2>1, FilesCounted DEF id
<1>4. ASSUME NEW i \in I
      PROVE  IsFiniteSet(part[i]) /\ IsFiniteSet(other[i]) /\ Cardinality(part[i]) = Cardinality(other[i])
  <2> DEFINE here == Spots(rows[i], P)
  <2>1. here = IF i \in G THEN FilesIn(sorted[i], T) ELSE {}
    BY <1>0, <1>1
  <2>2. IsFiniteSet(here) /\ IsFiniteSet(other[i]) /\ Cardinality(here) = Cardinality(other[i])
    <3> HIDE DEF Own, here
    <3>1. other[i] = IF i \in G THEN Own(i) ELSE {}
      BY <1>4
    <3> HIDE DEF other
    <3> QED
      BY <1>3, <2>1, <3>1, FS_EmptySet
  <2>3. IsFiniteSet(SpotsOfRow(rows, P, i)) /\ Cardinality(SpotsOfRow(rows, P, i)) = Cardinality(here)
    BY <2>2, RowCounted
  <2>4. part[i] = SpotsOfRow(rows, P, i)
    OBVIOUS
  <2> HIDE DEF here, part, other
  <2> QED
    BY <2>2, <2>3, <2>4
<1>5. ASSUME NEW i \in I, NEW j \in I, i # j
      PROVE  part[i] \intersect part[j] = {} /\ other[i] \intersect other[j] = {}
  <2>1. part[i] \intersect part[j] = {}
    BY <1>5 DEF SpotsOfRow
  <2>2. \A k \in Own(i) : vulns[k].query = sorted[i].id
    BY DEF OwnIn, OwnOf
  <2>3. \A k \in Own(j) : vulns[k].query = sorted[j].id
    BY DEF OwnIn, OwnOf
  <2>4. sorted[i].id # sorted[j].id
    BY <1>1, <1>5
  <2> HIDE DEF Own
  <2> QED
    BY <2>1, <2>2, <2>3, <2>4
<1>6. /\ IsFiniteSet(SpotsOfRows(rows, P))
      /\ Cardinality(Spots(FlattenSeq(rows), P)) = Cardinality(SpotsOfRows(rows, P))
  BY <1>0, SpotsFlattened
<1>7. \A x : x \in SpotsOfRows(rows, P) <=> \E i \in I : x \in part[i]
  <2>1. SpotsOfRows(rows, P) = UNION {part[i] : i \in I}
    BY <1>0, <1>1 DEF SpotsOfRows
  <2> HIDE DEF part
  <2> QED
    BY <2>1
<1>8. \A k : k \in K <=> \E i \in I : k \in other[i]
  <2>1. \A i \in I : \A k : k \in Own(i) <=> k \in DOMAIN vulns /\ vulns[k].query = sorted[i].id /\ ShownAt(vulns, paths, k) \in T
    BY DEF OwnIn, OwnOf
  <2> HIDE DEF Own
  <2> QED
    BY <1>1, <2>1 DEF ListedIn
<1> DEFINE W == SpotsOfRows(rows, P)
<1> HIDE DEF part, other, K, I, W
<1>9. MadeOf(W, I, part) /\ MadeOf(K, I, other) /\ \A i \in I : Cardinality(part[i]) = Cardinality(other[i])
  BY <1>2, <1>4, <1>5, <1>7, <1>8 DEF MadeOf, W
<1>10. IsFiniteSet(K) /\ Cardinality(W) = Cardinality(K)
  BY <1>9, SameParts
<1> QED
  BY <1>6, <1>10 DEF K, W

(* What a reader can see of a vulnerability, and where. *)
FindingOf(v) == <<v.query, v.provider, v.file, v.line, v.similarity, v.key, v.actual>>
PlaceOf(v) == <<v.query, Last(v.file), v.line>>
TakenAt(format, place, vulns) == {f \in Distinct(vulns) : Takes(format, f) /\ <<f[1], Last(f[3]), f[4]>> = place}
(* The unique vulnerabilities that a format takes at a place. *)
ThoseAt(format, place, vulns) ==
  {k \in DOMAIN vulns : PlaceOf(vulns[k]) = place /\ vulns[k].severity # "TRACE" /\ Takes(format, FindingOf(vulns[k]))}

(* They are as many as the findings there. *)
LEMMA FindingsCounted ==
  ASSUME NEW scan \in Scans, SameMetadata(scan.vulns), NEW vulns \in SetToSeqs(Model!Unique(scan.vulns)),
         NEW format, NEW place
  PROVE  Cardinality(ThoseAt(format, place, vulns)) = Cardinality(TakenAt(format, place, scan.vulns))
<1> DEFINE V == scan.vulns
           U == Model!Unique(V)
           K == ThoseAt(format, place, vulns)
           B == TakenAt(format, place, V)
           f == [k \in K |-> FindingOf(vulns[k])]
<1>1. V \in Seq(ToSet(V))
  BY UniqueReadable
<1>2. /\ IsFiniteSet(U) /\ U \subseteq ToSet(V)
      /\ \A u, w \in U : Model!DedupKey(u) = Model!DedupKey(w) => u = w
      /\ \A v \in ToSet(V) : \E u \in U : Model!DedupKey(u) = Model!DedupKey(v)
  BY <1>1, UniqueByKey
<1>3. /\ Len(vulns) \in Nat /\ DOMAIN vulns = 1 .. Len(vulns) /\ \A k \in DOMAIN vulns : vulns[k] \in U
      /\ \A k, l \in DOMAIN vulns : vulns[k] = vulns[l] => k = l
      /\ \A u \in U : \E k \in DOMAIN vulns : vulns[k] = u
  <2> DEFINE n == Cardinality(U)
  <2> HIDE DEF U
  <2>1. n \in Nat /\ vulns \in [1 .. n -> U] /\ vulns \in Seq(U) /\ Len(vulns) = n
        /\ (\A i, j \in 1 .. n : vulns[i] = vulns[j] => i = j) /\ \A u \in U : \E i \in 1 .. n : vulns[i] = u
    BY <1>2, InOrder DEF U
  <2> HIDE DEF n
  <2> QED
    BY <2>1
<1>4. \A v, w : FindingOf(v) = FindingOf(w) => Model!DedupKey(v) = Model!DedupKey(w)
  BY DEF FindingOf, Model!DedupKey
<1>5. \A v : FindingOf(v)[1] = v.query /\ FindingOf(v)[3] = v.file /\ FindingOf(v)[4] = v.line
  BY DEF FindingOf
<1>6. \A v \in ToSet(V), u \in U : Model!DedupKey(u) = Model!DedupKey(v) =>
        FindingOf(u) = FindingOf(v) /\ u.severity = v.severity
  <2>1. TAKE v \in ToSet(V), u \in U
  <2>2. HAVE Model!DedupKey(u) = Model!DedupKey(v)
  <2>3. u.query = v.query /\ u.file = v.file /\ u.line = v.line /\ u.similarity = v.similarity /\ u.key = v.key /\ u.actual = v.actual
    BY <2>2 DEF Model!DedupKey
  <2>4. u.severity = v.severity /\ u.provider = v.provider
    BY <1>2, <2>3 DEF SameMetadata
  <2> QED
    BY <2>3, <2>4 DEF FindingOf
<1>7. IsFiniteSet(K)
  <2>1. IsFiniteSet(DOMAIN vulns)
    BY <1>3, FS_Interval
  <2>2. K \in SUBSET DOMAIN vulns
    BY DEF ThoseAt
  <2> QED
    BY <2>1, <2>2, FS_Subset
<1>8. Distinct(V) = {FindingOf(v) : v \in {x \in ToSet(V) : x.severity # "TRACE"}}
  BY DEF Distinct, FindingOf
<1>9. \A k \in K : f[k] \in B
  <2>1. TAKE k \in K
  <2> DEFINE v == vulns[k]
  <2>2. k \in DOMAIN vulns /\ PlaceOf(v) = place /\ v.severity # "TRACE" /\ Takes(format, FindingOf(v))
    BY DEF ThoseAt
  <2>3. v \in ToSet(V)
    BY <1>2, <1>3, <2>2
  <2>4. FindingOf(v) \in Distinct(V)
    BY <1>8, <2>2, <2>3
  <2> QED
    BY <1>5, <2>2, <2>4 DEF TakenAt, PlaceOf
<1>10. \A a, b \in K : f[a] = f[b] => a = b
  <2>1. TAKE a, b \in K
  <2>2. HAVE f[a] = f[b]
  <2>3. a \in DOMAIN vulns /\ b \in DOMAIN vulns
    BY DEF ThoseAt
  <2>4. Model!DedupKey(vulns[a]) = Model!DedupKey(vulns[b])
    BY <1>4, <2>2
  <2> HIDE DEF U
  <2> QED
    BY <1>2, <1>3, <2>3, <2>4
<1>11. \A b \in B : \E a \in K : f[a] = b
  <2>1. TAKE b \in B
  <2>2. b \in Distinct(V) /\ Takes(format, b) /\ <<b[1], Last(b[3]), b[4]>> = place
    BY DEF TakenAt
  <2>3. PICK v \in ToSet(V) : v.severity # "TRACE" /\ b = FindingOf(v)
    BY <1>8, <2>2
  <2>4. PICK u \in U : Model!DedupKey(u) = Model!DedupKey(v)
    BY <1>2
  <2>5. PICK k \in DOMAIN vulns : vulns[k] = u
    BY <1>3
  <2>6. FindingOf(vulns[k]) = b /\ vulns[k].severity # "TRACE"
    BY <1>6, <2>3, <2>4, <2>5
  <2>7. k \in K
    BY <1>5, <2>2, <2>6 DEF ThoseAt, PlaceOf
  <2> QED
    BY <2>6, <2>7
<1>12. DOMAIN f = K /\ f = [a \in DOMAIN f |-> f[a]]
  OBVIOUS
<1> HIDE DEF f, K, B
<1> QED
  BY <1>7, <1>9, <1>10, <1>11, <1>12, SameSize DEF K, B

-----------------------------------------------------------------------------
(* What the reports list.                                                   *)

(* A summary lists the queries in some order, shows each vulnerability under the *)
(* name of its file, and the vulnerabilities of a query share their metadata.    *)
Setting(U, vulns, paths, sorted) ==
  /\ Readable(U) /\ vulns \in Seq(U) /\ sorted \in Model!Sortings(ReportedOf(vulns, paths))
  /\ \A k \in DOMAIN vulns : Last(paths[k]) = Last(vulns[k].file)
  /\ \A k, l \in DOMAIN vulns : vulns[k].query = vulns[l].query =>
                                  vulns[k].severity = vulns[l].severity /\ vulns[k].provider = vulns[l].provider

(* The files of a query at a place that are shown under one of some paths. *)
FileAt(q, j) == <<q.id, Last(q.files[j].file), q.files[j].line>>
FilesAt(q, place, X) == {j \in DOMAIN q.files : FileAt(q, j) = place /\ q.files[j].file \in X}

(* A vulnerability is reported unless it is a trace, with its provider. *)
LEMMA ReportedUnlessTrace ==
  ASSUME NEW U, NEW vulns, NEW paths, NEW sorted, Setting(U, vulns, paths, sorted), NEW k \in DOMAIN vulns
  PROVE  /\ (\E i \in DOMAIN sorted : sorted[i].id = vulns[k].query) <=> vulns[k].severity # "TRACE"
         /\ \A i \in DOMAIN sorted : sorted[i].id = vulns[k].query => sorted[i].provider = vulns[k].provider
<1> DEFINE Q == Queries(vulns, paths)
           R == ReportedOf(vulns, paths)
<1>1. Readable(U) /\ vulns \in Seq(U) /\ sorted \in Model!Sortings(ReportedOf(vulns, paths))
      /\ \A j, l \in DOMAIN vulns : vulns[j].query = vulns[l].query =>
                                  vulns[j].severity = vulns[l].severity /\ vulns[j].provider = vulns[l].provider
  BY DEF Setting
<1>2. /\ \A i \in DOMAIN sorted : sorted[i] \in R
      /\ \A q \in R : \E i \in DOMAIN sorted : sorted[i] = q
  BY <1>1, SortedRight
<1>3. (\A q \in Q : HasItsOwn(q, q.id, vulns)) /\ \A i \in DOMAIN vulns : \E q \in Q : vulns[i].query = q.id
  BY <1>1, QueriesRight
<1>4. \A q : q \in R <=> q \in Q /\ q.severity # "TRACE"
  BY DEF ReportedOf
<1> HIDE DEF Q, R
<1>5. \A q \in Q : q.id = vulns[k].query => q.severity = vulns[k].severity /\ q.provider = vulns[k].provider
  <2>1. TAKE q \in Q
  <2>2. HAVE q.id = vulns[k].query
  <2>3. PICK i \in DOMAIN vulns : vulns[i].query = q.id /\ q.severity = vulns[i].severity /\ q.provider = vulns[i].provider
    BY <1>3 DEF HasItsOwn, OwnOf
  <2> QED
    BY <1>1, <2>2, <2>3
<1>6. PICK q \in Q : vulns[k].query = q.id
  BY <1>3
<1> QED
  BY <1>2, <1>4, <1>5, <1>6

(* Rows that hold P just where a query of G has files there. *)
RowsThere(rows, D, P, sorted, G, place, X) ==
  /\ rows \in Seq(Seq(D)) /\ DOMAIN rows = DOMAIN sorted
  /\ \A i \in DOMAIN sorted : Spots(rows[i], P) = IF i \in G THEN FilesAt(sorted[i], place, X) ELSE {}
(* The vulnerabilities that are shown there and that a query of G has. *)
ListedAt(vulns, paths, sorted, G, place, X) ==
  {k \in DOMAIN vulns : /\ PlaceOf(vulns[k]) = place /\ paths[k] \in X
                        /\ \E i \in DOMAIN sorted : i \in G /\ sorted[i].id = vulns[k].query}

(* A list made of such rows has as many elements of P. *)
LEMMA RowsAt ==
  ASSUME NEW U, NEW vulns, NEW paths, NEW sorted, Setting(U, vulns, paths, sorted),
         NEW D, NEW rows, NEW P, NEW G, NEW place, NEW X, RowsThere(rows, D, P, sorted, G, place, X)
  PROVE  LET K == ListedAt(vulns, paths, sorted, G, place, X)
         IN  IsFiniteSet(K) /\ Cardinality(Spots(FlattenSeq(rows), P)) = Cardinality(K)
<1> DEFINE There == {k \in DOMAIN vulns : PlaceOf(vulns[k]) = place /\ paths[k] \in X}
           T == {ShownAt(vulns, paths, k) : k \in There}
           K == ListedAt(vulns, paths, sorted, G, place, X)
           L == ListedIn(vulns, paths, sorted, G, T)
<1>1. Readable(U) /\ vulns \in Seq(U) /\ sorted \in Model!Sortings(ReportedOf(vulns, paths))
      /\ \A k \in DOMAIN vulns : Last(paths[k]) = Last(vulns[k].file)
  BY DEF Setting
<1>2. \A i \in DOMAIN sorted : ShowsPlaces(sorted[i], sorted[i].id, vulns, paths)
  BY <1>1, SortedRight
<1>3. \A k \in DOMAIN vulns : ShownAt(vulns, paths, k) \in T <=> PlaceOf(vulns[k]) = place /\ paths[k] \in X
  <2>1. \A k, l \in DOMAIN vulns : ShownAt(vulns, paths, k) = ShownAt(vulns, paths, l) =>
          PlaceOf(vulns[k]) = PlaceOf(vulns[l]) /\ paths[k] = paths[l]
    <3> HIDE DEF Last
    <3> QED
      BY <1>1 DEF ShownAt, PlaceOf
  <2> QED
    BY <2>1
<1>4. ASSUME NEW i \in DOMAIN sorted PROVE FilesIn(sorted[i], T) = FilesAt(sorted[i], place, X)
  <2> DEFINE q == sorted[i]
  <2>1. ASSUME NEW j \in DOMAIN q.files
        PROVE  \E k \in DOMAIN vulns : /\ ShownAt(vulns, paths, k) = <<q.id, q.files[j].file, q.files[j].line>>
                                       /\ PlaceOf(vulns[k]) = FileAt(q, j) /\ paths[k] = q.files[j].file
    <3>1. PICK k \in OwnOf(q.id, vulns) : q.files[j].file = paths[k] /\ q.files[j].line = vulns[k].line
      BY <1>2 DEF ShowsPlaces
    <3>2. k \in DOMAIN vulns /\ vulns[k].query = q.id
      BY DEF OwnOf
    <3> HIDE DEF q
    <3> QED
      BY <1>1, <3>1, <3>2 DEF ShownAt, PlaceOf, FileAt
  <2> HIDE DEF q, T
  <2> QED
    BY <1>3, <2>1 DEF FilesIn, FilesAt, q
<1>5. RowsIn(rows, D, P, sorted, G, T)
  <2> HIDE DEF T
  <2> QED
    BY <1>4 DEF RowsThere, RowsIn
<1> HIDE DEF T
<1>6. IsFiniteSet(L) /\ Cardinality(Spots(FlattenSeq(rows), P)) = Cardinality(L)
  BY <1>1, <1>5, RowsCounted
<1>7. L = K
  BY <1>3 DEF ListedIn, ListedAt
<1> QED
  BY <1>6, <1>7

-----------------------------------------------------------------------------
(* The entries for a query: one for each of its files, in order. *)
RowOf(row, q) ==
  /\ DOMAIN row = DOMAIN q.files /\ row = [j \in DOMAIN row |-> row[j]]
  /\ \A j \in DOMAIN row : row[j].query = q.id /\ row[j].file = q.files[j].file /\ row[j].line = q.files[j].line
(* The rows of the queries in G, the other ones being empty. *)
RowsOf(rows, sorted, G) ==
  /\ DOMAIN rows = DOMAIN sorted /\ rows = [i \in DOMAIN rows |-> rows[i]]
  /\ \A i \in DOMAIN sorted : IF i \in G THEN RowOf(rows[i], sorted[i]) ELSE rows[i] = <<>>
(* The entries at a place that are shown under one of some paths. *)
EntriesAt(entries, place, X) ==
  {e \in ToSet(entries) : <<e.query, Last(e.file), e.line>> = place /\ e.file \in X}

(* They are as many as the vulnerabilities there. *)
LEMMA EntriesCounted ==
  ASSUME NEW U, NEW vulns, NEW paths, NEW sorted, Setting(U, vulns, paths, sorted),
         NEW G, NEW rows, RowsOf(rows, sorted, G), NEW place, NEW X
  PROVE  LET K == ListedAt(vulns, paths, sorted, G, place, X)
             all == FlattenSeq(rows)
         IN  /\ all \in Seq(ToSet(all)) /\ IsFiniteSet(K)
             /\ Cardinality(Spots(all, EntriesAt(all, place, X))) = Cardinality(K)
<1> DEFINE D == UNION {ToSet(rows[i]) : i \in DOMAIN rows}
           all == FlattenSeq(rows)
           P == {e \in D : <<e.query, Last(e.file), e.line>> = place /\ e.file \in X}
           K == ListedAt(vulns, paths, sorted, G, place, X)
<1>1. Readable(U) /\ vulns \in Seq(U) /\ sorted \in Model!Sortings(ReportedOf(vulns, paths))
  BY DEF Setting
<1>2. /\ Len(sorted) \in Nat /\ DOMAIN sorted = 1 .. Len(sorted)
      /\ \A i \in DOMAIN sorted : ShowsPlaces(sorted[i], sorted[i].id, vulns, paths)
  BY <1>1, SortedRight
<1>3. DOMAIN rows = DOMAIN sorted /\ rows = [i \in DOMAIN rows |-> rows[i]]
      /\ \A i \in DOMAIN sorted : IF i \in G THEN RowOf(rows[i], sorted[i]) ELSE rows[i] = <<>>
  BY DEF RowsOf
<1>4. ASSUME NEW i \in DOMAIN rows, NEW j \in DOMAIN rows[i] PROVE rows[i][j] \in D
  <2>1. rows[i][j] \in ToSet(rows[i])
    BY DEF ToSet
  <2> QED
    BY <2>1
<1> HIDE DEF D
<1>5. ASSUME NEW i \in DOMAIN rows PROVE rows[i] \in Seq(D)
  <2>1. CASE i \in G
    <3> DEFINE row == rows[i]
    <3>1. RowOf(row, sorted[i]) /\ ShowsPlaces(sorted[i], sorted[i].id, vulns, paths)
      BY <1>2, <1>3, <2>1
    <3>2. DOMAIN row = 1 .. Len(sorted[i].files) /\ Len(sorted[i].files) \in Nat /\ row = [j \in DOMAIN row |-> row[j]]
      BY <3>1 DEF RowOf, ShowsPlaces
    <3>3. \A j \in DOMAIN row : row[j] \in D
      BY <1>4
    <3> HIDE DEF row
    <3>4. row \in Seq(D)
      BY <3>2, <3>3, SequenceOf
    <3> QED
      BY <3>4 DEF row
  <2>2. CASE i \notin G
    <3>1. rows[i] = <<>>
      BY <1>3, <2>2
    <3> QED
      BY <3>1
  <2> QED
    BY <2>1, <2>2
<1>6. rows \in Seq(Seq(D))
  <2> DEFINE E == Seq(D)
  <2>1. \A i \in DOMAIN rows : rows[i] \in E
    BY <1>5
  <2> HIDE DEF E
  <2>2. rows \in Seq(E)
    BY <1>2, <1>3, <2>1, SequenceOf
  <2> QED
    BY <2>2 DEF E
<1>7. ASSUME NEW i \in DOMAIN sorted
      PROVE  Spots(rows[i], P) = IF i \in G THEN FilesAt(sorted[i], place, X) ELSE {}
  <2>1. CASE i \in G
    <3>1. RowOf(rows[i], sorted[i])
      BY <1>3, <2>1
    <3>2. \A j \in DOMAIN rows[i] : rows[i][j] \in D
      BY <1>3, <1>4
    <3> QED
      BY <2>1, <3>1, <3>2 DEF Spots, FilesAt, FileAt, RowOf
  <2>2. CASE i \notin G
    <3>1. rows[i] = <<>>
      BY <1>3, <2>2
    <3> QED
      BY <2>2, <3>1 DEF Spots
  <2> QED
    BY <2>1, <2>2
<1>8. all \in Seq(D)
  BY <1>6, FlattenType
<1>9. all \in Seq(ToSet(all))
  <2> HIDE DEF all
  <2>1. DOMAIN all = 1 .. Len(all) /\ Len(all) \in Nat /\ all = [i \in DOMAIN all |-> all[i]]
    BY <1>8
  <2>2. \A i \in DOMAIN all : all[i] \in ToSet(all)
    BY DEF ToSet
  <2> QED
    BY <2>1, <2>2, SequenceOf
<1>10. Spots(all, EntriesAt(all, place, X)) = Spots(all, P)
  <2> HIDE DEF all
  <2>1. \A i \in DOMAIN all : all[i] \in D /\ all[i] \in ToSet(all)
    BY <1>8 DEF ToSet
  <2> QED
    BY <2>1 DEF Spots, EntriesAt
<1> HIDE DEF P
<1>11. IsFiniteSet(K) /\ Cardinality(Spots(FlattenSeq(rows), P)) = Cardinality(K)
  <2>1. RowsThere(rows, D, P, sorted, G, place, X)
    BY <1>3, <1>6, <1>7 DEF RowsThere
  <2> QED
    BY <2>1, RowsAt
<1> QED
  BY <1>9, <1>10, <1>11

(* The concatenation in Reports is that of the lemmas on folds. *)
LEMMA SameFlattenInReports == \A s : Report!FlattenSeq(s) = FlattenSeq(s)
  BY Zenon DEF Report!FlattenSeq, FlattenSeq

(* A is finite and as large as B. *)
AsMany(A, B) == IsFiniteSet(A) /\ Cardinality(A) = Cardinality(B)
(* Where a place is in a list of places. *)
At(listed, place) == {i \in DOMAIN listed : listed[i] = place}
(* The queries that a format takes, by their numbers. *)
TakenBy(format, sorted) == {i \in DOMAIN sorted : format = "asff" => sorted[i].provider = "AWS"}
(* The formats that list the files of the queries in order. *)
InOrderOfFiles == {"json", "csv", "glsast", "codeclimate", "junit", "asff"}
PlacesOf(format, name, m) == PlacesIn(format, Report!ReportIn(format, name, m).report)

(* The entries of such a format are rows for the queries. *)
LEMMA EntriesInRows ==
  ASSUME NEW name, NEW m, NEW format \in InOrderOfFiles
  PROVE  \E rows : /\ RowsOf(rows, m.queries, TakenBy(format, m.queries))
                   /\ PlacesOf(format, name, m) = Places(FlattenSeq(rows))
<1> DEFINE S == m.queries
           G == TakenBy(format, S)
<1>1. CASE format \in {"json", "csv"}
  <2> DEFINE rows == [i \in DOMAIN S |-> [j \in DOMAIN S[i].files |->
               [query |-> S[i].id, severity |-> S[i].severity, file |-> S[i].files[j].file, line |-> S[i].files[j].line,
                similarity |-> S[i].files[j].similarity, key |-> S[i].files[j].key, actual |-> S[i].files[j].actual]]]
  <2>1. Report!Json(S) = FlattenSeq(rows)
    BY SameFlattenInReports, Zenon DEF Report!Json, Report!ForEachFile, Report!EachFile
  <2>2. Report!ReportIn(format, name, m).report = Report!Json(S)
    BY <1>1 DEF Report!ReportIn, Report!PrintJSON, Report!PrintCSV, Report!Csv, Report!Printed
  <2>3. PlacesOf(format, name, m) = Places(FlattenSeq(rows))
    <3> HIDE DEF rows
    <3> QED
      BY <1>1, <2>1, <2>2 DEF PlacesOf, PlacesIn
  <2>4. RowsOf(rows, S, G)
    BY <1>1 DEF RowsOf, RowOf, TakenBy
  <2> HIDE DEF rows
  <2> QED
    BY <2>3, <2>4
<1>2. CASE format = "glsast"
  <2> DEFINE rows == [i \in DOMAIN S |-> [j \in DOMAIN S[i].files |->
               [query |-> S[i].id, severity |-> S[i].severity, file |-> S[i].files[j].file, line |-> S[i].files[j].line,
                similarity |-> S[i].files[j].similarity]]]
  <2>1. Report!GitlabSAST(S) = FlattenSeq(rows)
    BY SameFlattenInReports, Zenon DEF Report!GitlabSAST, Report!ForEachFile, Report!EachFile
  <2>2. Report!ReportIn(format, name, m).report = Report!GitlabSAST(S)
    BY <1>2 DEF Report!ReportIn, Report!PrintGitlabSAST, Report!Printed
  <2>3. PlacesOf(format, name, m) = Places(FlattenSeq(rows))
    <3> HIDE DEF rows
    <3> QED
      BY <1>2, <2>1, <2>2 DEF PlacesOf, PlacesIn
  <2>4. RowsOf(rows, S, G)
    BY <1>2 DEF RowsOf, RowOf, TakenBy
  <2> HIDE DEF rows
  <2> QED
    BY <2>3, <2>4
<1>3. CASE format = "codeclimate"
  <2> DEFINE rows == [i \in DOMAIN S |-> [j \in DOMAIN S[i].files |->
               [query |-> S[i].id, severity |-> Report!LevelIn(Report!CodeClimateSeverity, S[i].severity),
                file |-> S[i].files[j].file, line |-> S[i].files[j].line, similarity |-> S[i].files[j].similarity]]]
  <2>1. Report!CodeClimate(S) = FlattenSeq(rows)
    BY SameFlattenInReports, Zenon DEF Report!CodeClimate, Report!ForEachFile, Report!EachFile
  <2>2. Report!ReportIn(format, name, m).report = Report!CodeClimate(S)
    BY <1>3 DEF Report!ReportIn, Report!PrintCodeClimate, Report!Printed
  <2>3. PlacesOf(format, name, m) = Places(FlattenSeq(rows))
    <3> HIDE DEF rows
    <3> QED
      BY <1>3, <2>1, <2>2 DEF PlacesOf, PlacesIn
  <2>4. RowsOf(rows, S, G)
    BY <1>3 DEF RowsOf, RowOf, TakenBy
  <2> HIDE DEF rows
  <2> QED
    BY <2>3, <2>4
<1>4. CASE format = "junit"
  <2> DEFINE rows == [i \in DOMAIN S |-> [j \in DOMAIN S[i].files |->
               [query |-> S[i].id, severity |-> S[i].severity, file |-> S[i].files[j].file, line |-> S[i].files[j].line,
                actual |-> S[i].files[j].actual]]]
             failures == Report!FoldLeft(LAMBDA n, q : n + Len(q.files), 0, S)
  <2>1. Report!JUnit(S).suites = rows
    <3>1. Report!JUnit(S) = [suites |-> rows, failures |-> failures]
      BY Zenon DEF Report!JUnit, Report!EachFile
    <3> HIDE DEF rows, failures
    <3> QED
      BY <3>1
  <2>2. Report!ReportIn(format, name, m).report = Report!JUnit(S)
    BY <1>4 DEF Report!ReportIn, Report!PrintJUnit, Report!Printed
  <2>3. PlacesOf(format, name, m) = Places(FlattenSeq(rows))
    <3> HIDE DEF rows
    <3> QED
      BY <1>4, <2>1, <2>2 DEF PlacesOf, PlacesIn
  <2>4. RowsOf(rows, S, G)
    BY <1>4 DEF RowsOf, RowOf, TakenBy
  <2> HIDE DEF rows
  <2> QED
    BY <2>3, <2>4
<1>5. CASE format = "asff"
  <2> DEFINE Row(q) == [j \in DOMAIN q.files |->
               [query |-> q.id, severity |-> IF q.severity = "INFO" THEN "INFORMATIONAL" ELSE q.severity,
                file |-> q.files[j].file, line |-> q.files[j].line,
                similarity |-> q.files[j].similarity, actual |-> q.files[j].actual]]
             rows == [i \in DOMAIN S |-> IF S[i].provider # "AWS" THEN <<>> ELSE Row(S[i])]
  <2>1. Report!ASFF(S) = FlattenSeq(rows)
    BY SameFlattenInReports, Zenon DEF Report!ASFF, Report!FindingsPerQuery, Report!EachFile
  <2>2. Report!ReportIn(format, name, m).report = Report!ASFF(S)
    BY <1>5 DEF Report!ReportIn, Report!PrintASFF, Report!Printed
  <2>3. PlacesOf(format, name, m) = Places(FlattenSeq(rows))
    <3> HIDE DEF rows
    <3> QED
      BY <1>5, <2>1, <2>2 DEF PlacesOf, PlacesIn
  <2>4. RowsOf(rows, S, G)
    <3>1. \A q : RowOf(Row(q), q)
      BY DEF RowOf
    <3> HIDE DEF Row
    <3> QED
      BY <1>5, <3>1 DEF RowsOf, TakenBy
  <2> HIDE DEF rows
  <2> QED
    BY <2>3, <2>4
<1> QED
  BY <1>1, <1>2, <1>3, <1>4, <1>5 DEF InOrderOfFiles

(* Such a format lists a place as often as there are vulnerabilities there. *)
LEMMA InOrderCounted ==
  ASSUME NEW U, NEW vulns, NEW paths, NEW m, Setting(U, vulns, paths, m.queries),
         NEW name, NEW format \in InOrderOfFiles, NEW place
  PROVE  AsMany(At(PlacesOf(format, name, m), place), ThoseAt(format, place, vulns))
<1> DEFINE sorted == m.queries
           G == TakenBy(format, sorted)
<1>1. PICK rows : RowsOf(rows, sorted, G) /\ PlacesOf(format, name, m) = Places(FlattenSeq(rows))
  BY EntriesInRows
<1> DEFINE all == FlattenSeq(rows)
           X == {paths[k] : k \in DOMAIN vulns} \union {e.file : e \in ToSet(all)}
           K == ListedAt(vulns, paths, sorted, G, place, X)
<1>2. Setting(U, vulns, paths, sorted)
  OBVIOUS
<1> HIDE DEF sorted, G, X
<1>3. all \in Seq(ToSet(all)) /\ Cardinality(Spots(all, EntriesAt(all, place, X))) = Cardinality(K)
  BY <1>1, <1>2, EntriesCounted
<1>4. Spots(all, EntriesAt(all, place, X)) = At(Places(all), place)
  <2>1. \A i \in DOMAIN all : all[i] \in ToSet(all) /\ all[i].file \in X
    BY DEF ToSet, X
  <2> HIDE DEF all
  <2> QED
    BY <2>1 DEF Spots, EntriesAt, At, Places
<1>5. K = ThoseAt(format, place, vulns)
  <2>1. \A k \in DOMAIN vulns : paths[k] \in X
    BY DEF X
  <2>2. ASSUME NEW k \in DOMAIN vulns
        PROVE  (\E i \in DOMAIN sorted : i \in G /\ sorted[i].id = vulns[k].query)
               <=> vulns[k].severity # "TRACE" /\ Takes(format, FindingOf(vulns[k]))
    <3>1. /\ (\E i \in DOMAIN sorted : sorted[i].id = vulns[k].query) <=> vulns[k].severity # "TRACE"
          /\ \A i \in DOMAIN sorted : sorted[i].id = vulns[k].query => sorted[i].provider = vulns[k].provider
      BY <1>2, ReportedUnlessTrace
    <3>2. FindingOf(vulns[k])[2] = vulns[k].provider
      BY DEF FindingOf
    <3>3. Takes(format, FindingOf(vulns[k])) <=> (format = "asff" => vulns[k].provider = "AWS")
      BY <3>2 DEF Takes, InOrderOfFiles
    <3> QED
      BY <3>1, <3>3 DEF G, TakenBy, sorted
  <2> QED
    BY <2>1, <2>2 DEF ListedAt, ThoseAt
<1>6. IsFiniteSet(Spots(all, EntriesAt(all, place, X)))
  <2> DEFINE D == ToSet(all)
             P == EntriesAt(all, place, X)
  <2>1. all \in Seq(D)
    BY <1>3
  <2> HIDE DEF all, D, P
  <2> QED
    BY <2>1, SpotsFinite DEF P
<1> HIDE DEF all, K
<1> QED
  BY <1>1, <1>3, <1>4, <1>5, <1>6 DEF all, AsMany

(* An issue of sonarqube has the files of its query: the first and the other ones. *)
IssueOf(q) ==
  [query |-> q.id, severity |-> Report!LevelIn(Report!SonarQubeSeverity, q.severity),
   primary |-> Report!BuildLocation(1, q), secondary |-> Report!SecondaryLocations(q)]

(* They are as many as the files, and in their order. *)
LEMMA IssueShowsFiles ==
  ASSUME NEW q, Len(q.files) \in Nat \ {0}, DOMAIN q.files = 1 .. Len(q.files)
  PROVE  LET row == SonarPlaces(IssueOf(q))
         IN  /\ DOMAIN row = DOMAIN q.files /\ Len(row) = Len(q.files) /\ row = [j \in DOMAIN row |-> row[j]]
             /\ \A j \in DOMAIN row : row[j] = FileAt(q, j)
<1> DEFINE n == Len(q.files)
           rest == [i \in 1 .. n - 1 |-> FileAt(q, i + 1)]
           D == {FileAt(q, j) : j \in 1 .. n}
           issue == IssueOf(q)
           At1(location) == <<issue.query, Last(location.file), location.line>>
           row == <<FileAt(q, 1)>> \o rest
<1>1. issue.query = q.id /\ issue.primary = [file |-> q.files[1].file, line |-> q.files[1].line]
      /\ issue.secondary = [i \in 1 .. n - 1 |-> [file |-> q.files[i + 1].file, line |-> q.files[i + 1].line]]
  BY DEF IssueOf, Report!BuildLocation, Report!SecondaryLocations
<1>2. SonarPlaces(issue) = <<At1(issue.primary)>> \o [i \in DOMAIN issue.secondary |-> At1(issue.secondary[i])]
  BY Zenon DEF SonarPlaces
<1>3. At1(issue.primary) = FileAt(q, 1)
  BY <1>1 DEF FileAt
<1>4. [i \in DOMAIN issue.secondary |-> At1(issue.secondary[i])] = rest
  BY <1>1 DEF FileAt
<1>5. SonarPlaces(issue) = row
  BY <1>2, <1>3, <1>4
<1>6. n \in Nat \ {0} /\ \A j \in 1 .. n : FileAt(q, j) \in D
  OBVIOUS
<1> DEFINE F(j) == FileAt(q, j)
<1>7. n - 1 \in Nat /\ DOMAIN rest = 1 .. n - 1 /\ \A i \in 1 .. n - 1 : rest[i] = F(i + 1) /\ F(i + 1) \in D
  BY <1>6
<1>8. rest \in Seq(D) /\ Len(rest) = n - 1
  <2>1. rest = [i \in DOMAIN rest |-> rest[i]]
    OBVIOUS
  <2> HIDE DEF rest, D, n, F
  <2> QED
    BY <1>6, <1>7, <2>1, SequenceOf
<1>9. <<F(1)>> \in Seq(D) /\ F(1) \in D
  <2>1. F(1) \in D
    BY <1>6
  <2> HIDE DEF D, F
  <2> QED
    BY <2>1
<1> HIDE DEF rest, D, n, F
<1> DEFINE r == <<F(1)>> \o rest
<1>10. r \in Seq(D) /\ Len(r) = n /\ r[1] = F(1) /\ \A j \in 1 .. n - 1 : r[j + 1] = rest[j]
  BY <1>6, <1>8, <1>9
<1>11. \A j \in 1 .. n : r[j] = F(j)
  <2>1. TAKE j \in 1 .. n
  <2>2. CASE j = 1
    BY <1>10, <2>2
  <2>3. CASE j # 1
    <3>1. j - 1 \in 1 .. n - 1 /\ (j - 1) + 1 = j
      BY <1>6, <2>3
    <3> HIDE DEF r
    <3>2. r[(j - 1) + 1] = rest[j - 1] /\ rest[j - 1] = F((j - 1) + 1)
      BY <1>7, <1>10, <3>1
    <3> QED
      BY <3>1, <3>2
  <2> QED
    BY <2>2, <2>3
<1>12. DOMAIN r = 1 .. n /\ r = [j \in DOMAIN r |-> r[j]]
  <2> HIDE DEF r
  <2> QED
    BY <1>10
<1> QED
  BY <1>5, <1>10, <1>11, <1>12 DEF F, n

(* It lists a place as often as there are vulnerabilities there. *)
LEMMA IssuesCounted ==
  ASSUME NEW U, NEW vulns, NEW paths, NEW m, Setting(U, vulns, paths, m.queries), NEW name, NEW place
  PROVE  AsMany(At(PlacesOf("sonarqube", name, m), place), ThoseAt("sonarqube", place, vulns))
<1> DEFINE sorted == m.queries
           rows == [i \in DOMAIN sorted |-> SonarPlaces(IssueOf(sorted[i]))]
           D == {FileAt(sorted[i], j) : i \in DOMAIN sorted, j \in UNION {DOMAIN sorted[k].files : k \in DOMAIN sorted}}
           all == FlattenSeq(rows)
           G == DOMAIN sorted
           X == {paths[k] : k \in DOMAIN vulns}
           K == ListedAt(vulns, paths, sorted, G, place, X)
<1>1. Setting(U, vulns, paths, sorted)
  OBVIOUS
<1>2. PlacesOf("sonarqube", name, m) = all
  <2>1. Report!ReportIn("sonarqube", name, m).report = Report!SonarQube(sorted)
    BY DEF Report!ReportIn, Report!PrintSonarQube, Report!Printed
  <2>2. Report!SonarQube(sorted) = [i \in DOMAIN sorted |-> IssueOf(sorted[i])]
    BY Zenon DEF Report!SonarQube, IssueOf
  <2> DEFINE report == [i \in DOMAIN sorted |-> IssueOf(sorted[i])]
  <2>3. [i \in DOMAIN report |-> SonarPlaces(report[i])] = rows
    OBVIOUS
  <2>4. PlacesIn("sonarqube", report) = FlattenSeq([i \in DOMAIN report |-> SonarPlaces(report[i])])
    BY DEF PlacesIn
  <2> HIDE DEF report, rows, sorted
  <2> QED
    BY <2>1, <2>2, <2>3, <2>4 DEF PlacesOf, report
<1> HIDE DEF sorted
<1>3. Readable(U) /\ vulns \in Seq(U) /\ sorted \in Model!Sortings(ReportedOf(vulns, paths))
  BY <1>1 DEF Setting
<1>4. /\ Len(sorted) \in Nat /\ DOMAIN sorted = 1 .. Len(sorted)
      /\ \A i \in DOMAIN sorted : ShowsPlaces(sorted[i], sorted[i].id, vulns, paths)
  BY <1>3, SortedRight
<1>5. ASSUME NEW i \in DOMAIN sorted
      PROVE  /\ DOMAIN rows[i] = DOMAIN sorted[i].files /\ rows[i] \in Seq(D)
             /\ \A j \in DOMAIN rows[i] : rows[i][j] = FileAt(sorted[i], j)
             /\ \A j \in DOMAIN sorted[i].files : sorted[i].files[j].file \in X
  <2> DEFINE q == sorted[i]
             row == SonarPlaces(IssueOf(q))
             n == Len(q.files)
  <2>1. n \in Nat \ {0} /\ DOMAIN q.files = 1 .. n
    BY <1>4 DEF ShowsPlaces
  <2>2. DOMAIN row = DOMAIN q.files /\ row = [j \in DOMAIN row |-> row[j]] /\ \A j \in DOMAIN row : row[j] = FileAt(q, j)
    <3> HIDE DEF q
    <3> QED
      BY <2>1, IssueShowsFiles
  <2>3. \A j \in DOMAIN q.files : FileAt(q, j) \in D
    OBVIOUS
  <2>4. rows[i] = row
    OBVIOUS
  <2>5. \A j \in DOMAIN q.files : q.files[j].file \in X
    <3>1. TAKE j \in DOMAIN q.files
    <3>2. PICK k \in OwnOf(q.id, vulns) : q.files[j].file = paths[k]
      BY <1>4 DEF ShowsPlaces
    <3> QED
      BY <3>2 DEF OwnOf
  <2> HIDE DEF row, D, n, X
  <2>6. row \in Seq(D)
    BY <2>1, <2>2, <2>3, SequenceOf
  <2> HIDE DEF rows
  <2> QED
    BY <2>2, <2>4, <2>5, <2>6
<1>6. DOMAIN rows = DOMAIN sorted /\ rows = [i \in DOMAIN rows |-> rows[i]]
  OBVIOUS
<1> HIDE DEF rows, D, X
<1>7. RowsThere(rows, D, {place}, sorted, G, place, X)
  <2>1. rows \in Seq(Seq(D))
    <3> DEFINE E == Seq(D)
    <3>1. \A i \in DOMAIN rows : rows[i] \in E
      BY <1>5, <1>6
    <3> HIDE DEF E
    <3>2. rows \in Seq(E)
      BY <1>4, <1>6, <3>1, SequenceOf
    <3> QED
      BY <3>2 DEF E
  <2>2. \A i \in DOMAIN sorted : Spots(rows[i], {place}) = FilesAt(sorted[i], place, X)
    BY <1>5 DEF Spots, FilesAt
  <2> QED
    BY <1>6, <2>1, <2>2 DEF RowsThere
<1>8. Cardinality(Spots(all, {place})) = Cardinality(K)
  BY <1>1, <1>7, RowsAt
<1>9. Spots(all, {place}) = At(all, place)
  BY DEF Spots, At
<1>10. K = ThoseAt("sonarqube", place, vulns)
  <2>1. \A k \in DOMAIN vulns : paths[k] \in X
    BY DEF X
  <2>2. \A k \in DOMAIN vulns : (\E i \in DOMAIN sorted : sorted[i].id = vulns[k].query) <=> vulns[k].severity # "TRACE"
    BY <1>1, ReportedUnlessTrace
  <2> QED
    BY <2>1, <2>2 DEF ListedAt, ThoseAt, Takes
<1>11. all \in Seq(D)
  BY <1>7, FlattenType DEF RowsThere
<1> HIDE DEF all, K
<1>12. IsFiniteSet(Spots(all, {place}))
  BY <1>11, SpotsFinite
<1> QED
  BY <1>2, <1>8, <1>9, <1>10, <1>12 DEF AsMany

-----------------------------------------------------------------------------
(* The names of the reports' files.                                         *)

(* The pieces of the names of files. *)
Pieces == STRING \union {".", "-", "json", "sarif", "xml", "csv"} \union NamePrefixes
(* The name of a file: it begins with first, ends with last and has an ending. *)
Named(file, first, last) ==
  /\ file \in Seq(Pieces) \ {<<>>} /\ Head(file) = first /\ Last(file) = last
(* A name that has no ending. *)
Bare(name) == name \in Seq(Pieces) \ {<<>>} /\ "." \notin ToSet(name)

(* How a sequence begins is tested in Reports as it is here, *)
LEMMA SameIsPrefix == \A s, t : Report!IsPrefix(s, t) <=> IsPrefix(s, t)
  BY Zenon DEF Report!IsPrefix, IsPrefix
(* and how it ends, of the sequences the other way round. *)
LEMMA SameIsSuffix == \A s, t : Report!IsSuffix(s, t) <=> IsPrefix(Reverse(s), Reverse(t))
  BY Zenon DEF Report!IsSuffix, Report!Reverse, Reverse, Report!IsPrefix, IsPrefix
(* The set of its elements is the same. *)
LEMMA SameToSet == \A s : Report!ToSet(s) = ToSet(s)
  BY Zenon DEF Report!ToSet, ToSet

(* Without a "." there is no ending. *)
LEMMA NoEnding ==
  ASSUME NEW name, Bare(name), NEW ext
  PROVE  ~Report!HasEnding(name, ext)
<1> DEFINE n == Len(name)
           D == Pieces
           E == D \union {ext}
<1>1. name \in Seq(D) /\ n \in Nat /\ DOMAIN name = 1 .. n /\ \A i \in 1 .. n : name[i] # "."
  BY DEF Bare, ToSet
<1>2. SUFFICES ASSUME IsPrefix(Reverse(<<".", ext>>), Reverse(name)) PROVE FALSE
  BY SameIsSuffix DEF Report!HasEnding
<1> DEFINE a == Reverse(<<".", ext>>)
           b == Reverse(name)
<1>3. Len(a) = 2 /\ a[2] = "." /\ DOMAIN a = 1 .. 2 /\ a \in Seq({".", ext})
  BY DEF Reverse
<1>4. Len(b) = n /\ b \in Seq(D) /\ \A i \in 1 .. n : b[i] = name[(n - i) + 1]
  <2> HIDE DEF D
  <2>1. b = [i \in 1 .. n |-> name[(n - i) + 1]]
    BY DEF Reverse
  <2>2. \A i \in 1 .. n : b[i] \in D
    BY <1>1, <2>1
  <2> HIDE DEF b, n
  <2> QED
    BY <1>1, <2>1, <2>2, SequenceOf
<1>5. Len(a) <= Len(b) /\ SubSeq(a, 1, Len(a)) = SubSeq(b, 1, Len(a))
  BY <1>2 DEF IsPrefix
<1> HIDE DEF a, b, D
<1>6. SubSeq(a, 1, 2)[2] = a[2] /\ SubSeq(b, 1, 2)[2] = b[2]
  BY <1>3, <1>4, <1>5
<1>7. b[2] = name[(n - 2) + 1] /\ (n - 2) + 1 \in 1 .. n
  BY <1>1, <1>3, <1>4, <1>5
<1> QED
  BY <1>1, <1>3, <1>5, <1>6, <1>7

(* Two elements more. *)
LEMMA TwoMore ==
  ASSUME NEW D, NEW s \in Seq(D), s # <<>>, NEW a \in D, NEW b \in D
  PROVE  LET t == s \o <<a, b>>
         IN  /\ t \in Seq(D) /\ Len(t) = Len(s) + 2 /\ t[1] = s[1] /\ t[Len(s) + 1] = a /\ t[Len(s) + 2] = b
             /\ Len(s) + 1 \in DOMAIN t
  OBVIOUS

(* An ending is added to a bare name. *)
LEMMA Ended ==
  ASSUME NEW name, Bare(name), NEW ext \in Pieces
  PROVE  /\ Named(Report!Ending(name, ext), Head(name), ext)
         /\ Report!JsonFile(Report!Ending(name, ext)) = Report!Ending(name, ext)
<1> DEFINE e == <<".", ext>>
           f == name \o e
           D == Pieces
<1>1. Report!Ending(name, ext) = f
  BY NoEnding DEF Report!Ending
<1>2. "." \in D /\ ext \in D
  BY DEF Pieces
<1>3. name \in Seq(D) /\ Len(name) \in Nat \ {0}
  BY DEF Bare
<1> HIDE DEF D
<1>4. /\ f \in Seq(D) /\ Len(f) = Len(name) + 2 /\ f[1] = name[1] /\ f[Len(name) + 1] = "." /\ f[Len(name) + 2] = ext
      /\ Len(name) + 1 \in DOMAIN f
  BY <1>2, <1>3, TwoMore
<1>5. "." \in ToSet(f)
  BY <1>4 DEF ToSet
<1>6. Head(f) = f[1] /\ Head(name) = name[1] /\ f # <<>>
  BY <1>3, <1>4
<1> HIDE DEF f
<1>7. Report!JsonFile(f) = f
  BY <1>5, SameToSet DEF Report!JsonFile
<1> QED
  BY <1>1, <1>4, <1>6, <1>7 DEF Named, Last, D

(* The ending that ExportJSONReport adds is such an ending. *)
LEMMA EndedAsJson ==
  ASSUME NEW name, Bare(name)
  PROVE  Named(Report!JsonFile(name), Head(name), "json")
<1>1. Report!JsonFile(name) = name \o <<".", "json">>
  BY SameToSet DEF Report!JsonFile, Bare
<1>2. Report!Ending(name, "json") = name \o <<".", "json">>
  BY NoEnding DEF Report!Ending
<1>3. "json" \in Pieces
  BY DEF Pieces
<1> QED
  BY <1>1, <1>2, <1>3, Ended

(* A prefix is put before a name that begins with something else. *)
LEMMA PrefixAdded ==
  ASSUME NEW name \in Seq(Pieces) \ {<<>>}, NEW prefix \in Pieces, Head(name) # prefix
  PROVE  /\ ~IsPrefix(<<prefix>>, name)
         /\ Report!Prefixed(name, prefix) = <<prefix>> \o name
<1> DEFINE D == Pieces
<1>1. name \in Seq(D) /\ prefix \in D /\ name # <<>> /\ Head(name) = name[1] /\ Len(name) \in Nat \ {0}
  OBVIOUS
<1> HIDE DEF D
<1>2. ~IsPrefix(<<prefix>>, name)
  <2>1. SUFFICES ASSUME IsPrefix(<<prefix>>, name) PROVE FALSE
    OBVIOUS
  <2>2. Len(<<prefix>>) = 1
    OBVIOUS
  <2>3. SubSeq(<<prefix>>, 1, 1) = SubSeq(name, 1, 1)
    BY <2>1, <2>2 DEF IsPrefix
  <2>4. SubSeq(<<prefix>>, 1, 1)[1] = prefix /\ SubSeq(name, 1, 1)[1] = name[1]
    BY <1>1
  <2> QED
    BY <1>1, <2>3, <2>4
<1> QED
  BY <1>2, SameIsPrefix DEF Report!Prefixed

(* What is put before a name begins it and leaves its end. *)
LEMMA Joined ==
  ASSUME NEW front \in Seq(Pieces) \ {<<>>}, NEW name \in Seq(Pieces) \ {<<>>}
  PROVE  /\ front \o name \in Seq(Pieces) \ {<<>>} /\ Head(front \o name) = Head(front) /\ Last(front \o name) = Last(name)
         /\ ToSet(front \o name) = ToSet(front) \union ToSet(name)
<1> DEFINE D == Pieces
           f == front \o name
           m == Len(front)
           n == Len(name)
<1>1. front \in Seq(D) /\ name \in Seq(D) /\ m \in Nat \ {0} /\ n \in Nat \ {0} /\ DOMAIN front = 1 .. m /\ DOMAIN name = 1 .. n
  OBVIOUS
<1> HIDE DEF D
<1>2. /\ f \in Seq(D) /\ Len(f) = m + n /\ DOMAIN f = 1 .. m + n
      /\ (\A i \in 1 .. m : f[i] = front[i]) /\ \A i \in 1 .. n : f[m + i] = name[i]
  BY <1>1
<1>3. Head(f) = f[1] /\ Head(front) = front[1] /\ f # <<>> /\ 1 \in 1 .. m /\ n \in 1 .. n
  BY <1>1, <1>2
<1> HIDE DEF f, m, n
<1>4. ToSet(f) = ToSet(front) \union ToSet(name)
  <2>1. \A i \in 1 .. m + n : i \in 1 .. m \/ \E j \in 1 .. n : i = m + j
    <3>1. TAKE i \in 1 .. m + n
    <3>2. CASE i > m
      <4>1. i - m \in 1 .. n /\ i = m + (i - m)
        BY <1>1, <3>2
      <4> QED
        BY <4>1
    <3>3. CASE i <= m
      BY <1>1, <3>3
    <3> QED
      BY <1>1, <3>2, <3>3
  <2>2. (\A i \in 1 .. m : i \in 1 .. m + n) /\ \A j \in 1 .. n : m + j \in 1 .. m + n
    BY <1>1
  <2>3. \A i \in 1 .. m + n : f[i] \in ToSet(front) \union ToSet(name)
    BY <1>1, <1>2, <2>1 DEF ToSet
  <2>4. \A i \in 1 .. m : front[i] \in ToSet(f)
    BY <1>2, <2>2 DEF ToSet
  <2>5. \A i \in 1 .. n : name[i] \in ToSet(f)
    BY <1>2, <2>2 DEF ToSet
  <2>6. ToSet(f) \subseteq ToSet(front) \union ToSet(name)
    <3>1. ToSet(f) = {f[i] : i \in 1 .. m + n}
      BY <1>2 DEF ToSet
    <3> QED
      BY <2>3, <3>1
  <2>7. ToSet(front) \subseteq ToSet(f)
    <3>1. ToSet(front) = {front[i] : i \in 1 .. m}
      BY <1>1 DEF ToSet
    <3> QED
      BY <2>4, <3>1
  <2>8. ToSet(name) \subseteq ToSet(f)
    <3>1. ToSet(name) = {name[i] : i \in 1 .. n}
      BY <1>1 DEF ToSet
    <3> QED
      BY <2>5, <3>1
  <2> QED
    BY <2>6, <2>7, <2>8
<1> QED
  BY <1>1, <1>2, <1>3, <1>4 DEF Last, D, f, m, n

(* What the name of the file of a format begins and ends with. *)
Begins(format, name) ==
  CASE format = "glsast" -> "gl-sast-" [] format = "sonarqube" -> "sonarqube-" [] format = "cyclonedx" -> "cyclonedx-"
    [] format = "junit" -> "junit-" [] format = "asff" -> "asff-" [] format = "codeclimate" -> "codeclimate"
    [] OTHER -> Head(name)
Ends(format) ==
  CASE format \in {"cyclonedx", "junit"} -> "xml" [] format = "sarif" -> "sarif" [] format = "csv" -> "csv"
    [] OTHER -> "json"

(* The file of a format, where the name that was asked for is no format's own. *)
LEMMA FileOfFormat ==
  ASSUME NEW name, Bare(name), Head(name) \notin NamePrefixes, NEW m, NEW format \in Supported
  PROVE  Named(Report!ReportIn(format, name, m).file, Begins(format, name), Ends(format))
<1> DEFINE file == Report!ReportIn(format, name, m).file
<1>1. name \in Seq(Pieces) \ {<<>>} /\ "." \notin ToSet(name)
  BY DEF Bare
<1>2. {"json", "sarif", "xml", "csv", "-"} \subseteq Pieces /\ NamePrefixes \subseteq Pieces
  BY DEF Pieces
<1>3. \A p \in Pieces : <<p>> \in Seq(Pieces) \ {<<>>} /\ Head(<<p>>) = p /\ ToSet(<<p>>) = {p}
  <2>1. TAKE p \in Pieces
  <2>2. DOMAIN <<p>> = {1} /\ <<p>>[1] = p
    OBVIOUS
  <2>3. ToSet(<<p>>) = {p}
    BY <2>2 DEF ToSet
  <2> DEFINE D == Pieces
  <2>4. p \in D
    OBVIOUS
  <2> HIDE DEF D
  <2>5. <<p>> \in Seq(D) \ {<<>>} /\ Head(<<p>>) = p
    BY <2>4
  <2> QED
    BY <2>3, <2>5 DEF D
(* A prefix before a bare name, or before one that has its ending already. *)
<1>4. ASSUME NEW p \in NamePrefixes
      PROVE  /\ Bare(Report!Prefixed(name, p)) /\ Head(Report!Prefixed(name, p)) = p
             /\ LET f == Report!Prefixed(Report!Ending(name, "json"), p)
                IN  Named(Report!JsonFile(f), p, "json")
  <2>1. p \in Pieces /\ Head(name) # p /\ p # "."
    BY <1>2 DEF NamePrefixes
  <2>2. Report!Prefixed(name, p) = <<p>> \o name
    BY <1>1, <2>1, PrefixAdded
  <2> DEFINE front == <<p>>
  <2>a. front \in Seq(Pieces) \ {<<>>} /\ Head(front) = p /\ ToSet(front) = {p}
    BY <1>3, <2>1
  <2>3. Bare(<<p>> \o name) /\ Head(<<p>> \o name) = p
    <3> HIDE DEF front
    <3>1. Bare(front \o name) /\ Head(front \o name) = p
      BY <1>1, <2>a, <2>1, Joined DEF Bare
    <3> QED
      BY <3>1 DEF front
  <2> DEFINE e == Report!Ending(name, "json")
  <2>4. Named(e, Head(name), "json") /\ Report!JsonFile(e) = e
    BY <1>2, Ended
  <2>5. "." \in ToSet(e)
    <3>1. Report!JsonFile(e) = IF "." \in ToSet(e) THEN e ELSE e \o <<".", "json">>
      BY SameToSet DEF Report!JsonFile
    <3>2. e \in Seq(Pieces)
      BY <2>4 DEF Named
    <3>3. Len(e \o <<".", "json">>) # Len(e)
      <4> DEFINE D == Pieces
                 t == <<".", "json">>
      <4>1. e \in Seq(D) /\ t \in Seq(D) /\ Len(t) = 2
        BY <3>2 DEF Pieces
      <4> HIDE DEF D, e, t
      <4>2. Len(e \o t) = Len(e) + Len(t) /\ Len(e) \in Nat
        BY ONLY <4>1, Concatenation, LenProperties
      <4> QED
        BY <4>1, <4>2 DEF t
    <3> QED
      BY <2>4, <3>1, <3>3
  <2> HIDE DEF e
  <2>6. Report!Prefixed(e, p) = <<p>> \o e
    BY <2>1, <2>4, PrefixAdded DEF Named
  <2>7. Named(<<p>> \o e, p, "json") /\ "." \in ToSet(<<p>> \o e)
    <3> HIDE DEF front
    <3>1. Named(front \o e, p, "json") /\ "." \in ToSet(front \o e)
      BY <2>a, <2>4, <2>5, Joined DEF Named
    <3> QED
      BY <3>1 DEF front
  <2>8. Report!JsonFile(<<p>> \o e) = <<p>> \o e
    BY <2>7, SameToSet DEF Report!JsonFile
  <2> QED
    BY <2>2, <2>3, <2>6, <2>7, <2>8 DEF e
<1>5. CASE format = "json"
  <2>1. file = Report!JsonFile(name)
    BY <1>5 DEF Report!ReportIn, Report!PrintJSON, Report!Printed
  <2> QED
    BY <1>5, <2>1, EndedAsJson DEF Begins, Ends
<1>6. CASE format = "sarif"
  <2>1. file = Report!JsonFile(Report!Ending(name, "sarif"))
    BY <1>6 DEF Report!ReportIn, Report!PrintSarif, Report!Printed
  <2> QED
    BY <1>2, <1>6, <2>1, Ended DEF Begins, Ends
<1>7. CASE format = "csv"
  <2>1. file = Report!Ending(name, "csv")
    BY <1>7 DEF Report!ReportIn, Report!PrintCSV, Report!Printed
  <2> QED
    BY <1>2, <1>7, <2>1, Ended DEF Begins, Ends
<1>8. CASE format = "glsast"
  <2>1. ~Report!HasEnding(name, "glsast")
    BY NoEnding
  <2>2. file = Report!JsonFile(Report!Prefixed(Report!Ending(name, "json"), "gl-sast-"))
    BY <1>8, <2>1 DEF Report!ReportIn, Report!PrintGitlabSAST, Report!Printed
  <2> QED
    BY <1>4, <1>8, <2>2 DEF Begins, Ends, NamePrefixes
<1>9. CASE format = "sonarqube"
  <2>1. file = Report!JsonFile(Report!Prefixed(Report!Ending(name, "json"), "sonarqube-"))
    BY <1>9 DEF Report!ReportIn, Report!PrintSonarQube, Report!Printed
  <2> QED
    BY <1>4, <1>9, <2>1 DEF Begins, Ends, NamePrefixes
<1>10. CASE format = "cyclonedx"
  <2>1. file = Report!Ending(Report!Prefixed(name, "cyclonedx-"), "xml")
    BY <1>10 DEF Report!ReportIn, Report!PrintCycloneDx, Report!Printed
  <2>2. Bare(Report!Prefixed(name, "cyclonedx-")) /\ Head(Report!Prefixed(name, "cyclonedx-")) = "cyclonedx-"
    BY <1>4 DEF NamePrefixes
  <2>3. Named(file, "cyclonedx-", "xml")
    BY <1>2, <2>1, <2>2, Ended
  <2> QED
    BY <1>10, <2>3 DEF Begins, Ends
<1>11. CASE format = "junit"
  <2>1. file = Report!Ending(Report!Prefixed(name, "junit-"), "xml")
    BY <1>11 DEF Report!ReportIn, Report!PrintJUnit, Report!Printed
  <2>2. Bare(Report!Prefixed(name, "junit-")) /\ Head(Report!Prefixed(name, "junit-")) = "junit-"
    BY <1>4 DEF NamePrefixes
  <2>3. Named(file, "junit-", "xml")
    BY <1>2, <2>1, <2>2, Ended
  <2> QED
    BY <1>11, <2>3 DEF Begins, Ends
<1>12. CASE format = "asff"
  <2>1. file = Report!JsonFile(Report!Prefixed(name, "asff-"))
    BY <1>12 DEF Report!ReportIn, Report!PrintASFF, Report!Printed
  <2>2. Bare(Report!Prefixed(name, "asff-")) /\ Head(Report!Prefixed(name, "asff-")) = "asff-"
    BY <1>4 DEF NamePrefixes
  <2>3. Named(file, "asff-", "json")
    BY <2>1, <2>2, EndedAsJson
  <2> QED
    BY <1>12, <2>3 DEF Begins, Ends
<1>13. CASE format = "codeclimate"
  <2> DEFINE f == <<"codeclimate", "-">> \o name
  <2>1. ~IsPrefix(<<"codeclimate">>, name)
    BY <1>1, <1>2, PrefixAdded DEF NamePrefixes
  <2>2. file = Report!JsonFile(f)
    BY <1>13, <2>1, SameIsPrefix DEF Report!ReportIn, Report!PrintCodeClimate, Report!Printed
  <2>3. Bare(f) /\ Head(f) = "codeclimate"
    <3> DEFINE front == <<"codeclimate", "-">>
    <3>1. front \in Seq(Pieces) \ {<<>>} /\ Head(front) = "codeclimate"
      BY DEF Pieces, NamePrefixes
    <3>2. "." \notin ToSet(front)
      <4>1. front[1] # "." /\ front[2] # "." /\ DOMAIN front = 1 .. 2
        OBVIOUS
      <4>2. \A i \in 1 .. 2 : i = 1 \/ i = 2
        OBVIOUS
      <4> HIDE DEF front
      <4> QED
        BY <4>1, <4>2 DEF ToSet
    <3> HIDE DEF front
    <3>3. front \o name \in Seq(Pieces) \ {<<>>} /\ Head(front \o name) = "codeclimate" /\ "." \notin ToSet(front \o name)
      BY <1>1, <3>1, <3>2, Joined
    <3> QED
      BY <3>3 DEF Bare, front
  <2> HIDE DEF f
  <2>4. Named(file, "codeclimate", "json")
    BY <2>2, <2>3, EndedAsJson
  <2> QED
    BY <1>13, <2>4 DEF Begins, Ends
<1> QED
  BY <1>5, <1>6, <1>7, <1>8, <1>9, <1>10, <1>11, <1>12, <1>13 DEF Supported

(* Two formats are written to two files. *)
LEMMA FilesDiffer ==
  ASSUME NEW name, Bare(name), Head(name) \notin NamePrefixes, NEW m, NEW f \in Supported, NEW g \in Supported,
         Report!ReportIn(f, name, m).file = Report!ReportIn(g, name, m).file
  PROVE  f = g
<1>1. Begins(f, name) = Begins(g, name) /\ Ends(f) = Ends(g)
  BY FileOfFormat DEF Named
<1> DEFINE h == Head(name)
           own == {"glsast", "sonarqube", "cyclonedx", "junit", "asff", "codeclimate"}
<1>2. \A k \in own : Begins(k, name) \in NamePrefixes
  BY DEF Begins, NamePrefixes
<1>3. \A k \in Supported \ own : Begins(k, name) = h
  BY DEF Begins, Supported
<1>4. f \in own <=> g \in own
  BY <1>1, <1>2, <1>3
<1>5. CASE f \in own
  BY <1>1, <1>4, <1>5 DEF Begins
<1>6. CASE f \notin own
  BY <1>1, <1>4, <1>6 DEF Ends, Supported
<1> QED
  BY <1>5, <1>6

(* A report is written to its file, and the other files stay as they were. *)
LEMMA Overwritten ==
  ASSUME NEW files, NEW printed
  PROVE  LET new == Report!Overwrite(files, printed)
         IN  /\ DOMAIN new = DOMAIN files \union {printed.file}
             /\ new[printed.file] = printed.report
             /\ \A f \in DOMAIN files : f # printed.file => new[f] = files[f]
             /\ new = [f \in DOMAIN new |-> new[f]]
  BY DEF Report!Overwrite

(* A report of every format that was asked for is in the file of the format. *)
LEMMA AllWritten ==
  ASSUME NEW name, Bare(name), Head(name) \notin NamePrefixes, NEW m,
         NEW formats \in Seq(Supported), formats # <<>>, NEW format \in ToSet(formats)
  PROVE  LET printed == Report!ReportIn(format, name, m)
         IN  Report!GenerateReport(formats, name, m)[printed.file] = printed.report
<1> DEFINE N == Len(formats)
           In(f) == Report!ReportIn(f, name, m)
           Files == {In(f).file : f \in Supported}
           Made == {In(f).report : f \in Supported}
           X == UNION {[S -> Made] : S \in SUBSET Files}
           base == <<>>
           Step(w, i) == Report!Overwrite(w, In(formats[i]))
           Loop(r) == r = [i \in 0 .. N |-> IF i = 0 THEN base ELSE Step(r[i - 1], i)]
           written == CHOOSE r : Loop(r)
           step == [p \in (1 .. N) \X X |-> Step(p[2], p[1])]
<1>1. N \in Nat \ {0} /\ DOMAIN formats = 1 .. N /\ \A i \in 1 .. N : formats[i] \in Supported
  <2> DEFINE D == Supported
  <2>1. formats \in Seq(D) /\ formats # <<>>
    OBVIOUS
  <2> HIDE DEF D
  <2>2. Len(formats) \in Nat \ {0} /\ DOMAIN formats = 1 .. Len(formats) /\ \A i \in 1 .. Len(formats) : formats[i] \in D
    BY <2>1
  <2> QED
    BY <2>2 DEF D
<1>2. base \in X
  <2>1. base \in [{} -> Made] /\ {} \in SUBSET Files
    OBVIOUS
  <2> QED
    BY <2>1
<1>3. \A i \in 1 .. N, w \in X : Step(w, i) \in X
  <2>1. TAKE i \in 1 .. N, w \in X
  <2>2. PICK S \in SUBSET Files : w \in [S -> Made]
    OBVIOUS
  <2> DEFINE p == In(formats[i])
             new == Report!Overwrite(w, p)
  <2>3. p.file \in Files /\ p.report \in Made
    BY <1>1
  <2> HIDE DEF p, Files, Made
  <2>4. DOMAIN new = DOMAIN w \union {p.file} /\ new[p.file] = p.report
        /\ (\A f \in DOMAIN w : f # p.file => new[f] = w[f]) /\ new = [f \in DOMAIN new |-> new[f]]
    BY Overwritten
  <2> HIDE DEF new
  <2>5. new \in [S \union {p.file} -> Made] /\ S \union {p.file} \in SUBSET Files
    BY <2>2, <2>3, <2>4
  <2> QED
    BY <2>5 DEF new, p
<1>4. \A i \in 1 .. N, w \in X : step[<<i, w>>] = Step(w, i)
  OBVIOUS
<1>5. Report!GenerateReport(formats, name, m) = written[N]
  <2>1. formats # <<>>
    OBVIOUS
  <2>2. Report!GenerateReport(formats, name, m) =
          LET wanted == IF formats = <<>> THEN <<"json">> ELSE formats
              at[i \in 0 .. Len(wanted)] == IF i = 0 THEN <<>> ELSE Report!Overwrite(at[i - 1], In(wanted[i]))
          IN  at[Len(wanted)]
    BY Zenon DEF Report!GenerateReport
  <2>3. (IF formats = <<>> THEN <<"json">> ELSE formats) = formats
    BY <2>1
  <2> QED
    BY <2>2, <2>3, Zenon
<1> HIDE DEF Step, step, base, X
<1>6. \A i \in 1 .. N, w \in X : step[<<i, w>>] \in X
  BY <1>3, <1>4
<1>7. PICK g : Iterates(g, N, base, step) /\ \A i \in 0 .. N : g[i] \in X
  BY <1>1, <1>2, <1>6, LoopExists
<1>8. Loop(g)
  <2>1. \A i \in 0 .. N : i # 0 => g[i - 1] \in X /\ i \in 1 .. N
    BY <1>1, <1>7
  <2>2. \A i \in 0 .. N : (IF i = 0 THEN base ELSE step[<<i, g[i - 1]>>])
                          = (IF i = 0 THEN base ELSE Step(g[i - 1], i))
    BY <1>4, <2>1
  <2> QED
    BY <1>7, <2>2 DEF Iterates
<1>9. \A i \in 0 .. N : written[i] = IF i = 0 THEN base ELSE Step(written[i - 1], i)
  <2>1. Loop(written)
    BY <1>8
  <2> HIDE DEF written
  <2> QED
    BY <2>1
<1> HIDE DEF written, N
<1> DEFINE A == {i \in 0 .. N : \A j \in 1 .. i : /\ In(formats[j]).file \in DOMAIN written[i]
                                                  /\ written[i][In(formats[j]).file] = In(formats[j]).report}
<1>10. 0 \in A
  BY <1>1
<1>11. \A i \in 1 .. N : i - 1 \in A => i \in A
  <2>1. TAKE i \in 1 .. N
  <2>2. HAVE i - 1 \in A
  <2> DEFINE w == written[i - 1]
             p == In(formats[i])
             new == Report!Overwrite(w, p)
  <2>3. written[i] = new /\ i \in 0 .. N
    BY <1>1, <1>9 DEF Step
  <2>4. DOMAIN new = DOMAIN w \union {p.file} /\ new[p.file] = p.report
        /\ \A f \in DOMAIN w : f # p.file => new[f] = w[f]
    BY Overwritten
  <2> HIDE DEF new
  <2>5. ASSUME NEW j \in 1 .. i PROVE In(formats[j]).file \in DOMAIN new /\ new[In(formats[j]).file] = In(formats[j]).report
    <3> DEFINE o == In(formats[j])
    <3>1. CASE o.file = p.file
      <4>1. formats[j] \in Supported /\ formats[i] \in Supported
        BY <1>1
      <4>2. formats[j] = formats[i]
        BY <3>1, <4>1, FilesDiffer
      <4> QED
        BY <2>4, <4>2
    <3>2. CASE o.file # p.file
      <4>1. j \in 1 .. i - 1
        BY <1>1, <3>2
      <4>2. o.file \in DOMAIN w /\ w[o.file] = o.report
        BY <2>2, <4>1
      <4> HIDE DEF o, w, p
      <4>3. o.file \in DOMAIN new /\ new[o.file] = o.report
        BY <2>4, <3>2, <4>2
      <4> QED
        BY <4>3 DEF o
    <3> QED
      BY <3>1, <3>2
  <2> HIDE DEF In
  <2> QED
    BY <2>3, <2>5
<1> HIDE DEF A
<1>12. N \in A
  <2>1. \A i \in 0 .. N : i \in A
    BY <1>1, <1>10, <1>11, UpTo
  <2> QED
    BY <1>1, <2>1
<1>13. PICK j \in 1 .. N : formats[j] = format
  BY <1>1 DEF ToSet
<1> HIDE DEF In
<1>14. written[N][In(format).file] = In(format).report
  BY <1>12, <1>13 DEF A
<1> QED
  BY <1>5, <1>14 DEF In, N

-----------------------------------------------------------------------------
(* The reports of files.                                                    *)

(* getAllFiles has the path of every file, once. *)
LEMMA AllFilesRight ==
  ASSUME NEW S, NEW D, NEW files \in Seq(D), files = FlattenSeq([i \in DOMAIN S |-> S[i].files])
  PROVE  LET found == Report!AllFiles(S)
             F == {d.file : d \in D}
         IN  /\ found \in Seq(F) /\ \A a, b \in DOMAIN found : found[a] = found[b] => a = b
             /\ \A f \in ToSet(files) : f.file \in ToSet(found)
<1> DEFINE N == Len(files)
           F == {d.file : d \in D}
           Apart(t) == \A a, b \in DOMAIN t : t[a] = t[b] => a = b
           X == {t \in Seq(F) : Apart(t)}
           base == <<>>
           Step(t, f) == IF f.file \in Report!ToSet(t) THEN t ELSE Append(t, f.file)
           Loop(r) == r = [i \in 0 .. N |-> IF i = 0 THEN base ELSE Step(r[i - 1], files[i])]
           met == CHOOSE r : Loop(r)
           step == [p \in (1 .. N) \X X |-> Step(p[2], files[p[1]])]
<1>1. N \in Nat /\ DOMAIN files = 1 .. N /\ \A i \in 1 .. N : files[i] \in D /\ files[i].file \in F
  <2>1. \A d \in D : d.file \in F
    OBVIOUS
  <2> HIDE DEF F
  <2>2. files \in Seq(D)
    OBVIOUS
  <2> QED
    BY ONLY <2>1, <2>2
<1>2. Report!AllFiles(S) = met[N]
  <2>1. Report!AllFiles(S) =
          LET list == Report!FlattenSeq([i \in DOMAIN S |-> S[i].files])
              at[i \in 0 .. Len(list)] == IF i = 0 THEN <<>>
                ELSE IF list[i].file \in Report!ToSet(at[i - 1]) THEN at[i - 1] ELSE Append(at[i - 1], list[i].file)
          IN  at[Len(list)]
    BY Zenon DEF Report!AllFiles
  <2>2. Report!FlattenSeq([i \in DOMAIN S |-> S[i].files]) = files
    BY SameFlattenInReports
  <2> QED
    BY <2>1, <2>2, Zenon
<1> HIDE DEF F, N
<1>3. base \in X
  OBVIOUS
<1>4. ASSUME NEW t \in X, NEW f, f.file \in F
      PROVE  Step(t, f) \in X /\ ToSet(t) \subseteq ToSet(Step(t, f)) /\ f.file \in ToSet(Step(t, f))
  <2>1. t \in Seq(F) /\ Apart(t)
    OBVIOUS
  <2>2. CASE f.file \in ToSet(t)
    BY <2>2, SameToSet
  <2>3. CASE f.file \notin ToSet(t)
    <3> DEFINE n == Len(t)
               x == f.file
               u == Append(t, x)
    <3>1. n \in Nat /\ DOMAIN t = 1 .. n /\ u \in Seq(F) /\ Len(u) = n + 1 /\ DOMAIN u = 1 .. n + 1
          /\ u[n + 1] = x /\ \A i \in 1 .. n : u[i] = t[i]
      BY <1>4, <2>1
    <3>2. \A i \in 1 .. n : t[i] # x
      BY <2>3, <3>1 DEF ToSet
    <3> HIDE DEF u, x
    <3>3. \A a \in 1 .. n + 1 : a \in 1 .. n \/ a = n + 1
      BY <3>1
    <3> HIDE DEF n
    <3>4. Apart(u)
      BY <2>1, <3>1, <3>2, <3>3
    <3>5. ToSet(t) \subseteq ToSet(u) /\ x \in ToSet(u)
      <4>1. n + 1 \in 1 .. n + 1 /\ \A i \in 1 .. n : i \in 1 .. n + 1
        BY <3>1
      <4> QED
        BY <3>1, <4>1 DEF ToSet
    <3>6. Step(t, f) = u
      BY <2>3, SameToSet DEF u, x
    <3> QED
      BY <3>1, <3>4, <3>5, <3>6 DEF x
  <2> QED
    BY <2>2, <2>3
<1>5. \A i \in 1 .. N, t \in X : step[<<i, t>>] = Step(t, files[i])
  OBVIOUS
<1> HIDE DEF Step, step, base, X
<1>6. \A i \in 1 .. N, t \in X : step[<<i, t>>] \in X
  BY <1>1, <1>4, <1>5
<1>7. PICK g : Iterates(g, N, base, step) /\ \A i \in 0 .. N : g[i] \in X
  BY <1>1, <1>3, <1>6, LoopExists
<1>8. Loop(g)
  <2>1. \A i \in 0 .. N : i # 0 => g[i - 1] \in X /\ i \in 1 .. N
    BY <1>1, <1>7
  <2>2. \A i \in 0 .. N : (IF i = 0 THEN base ELSE step[<<i, g[i - 1]>>])
                          = (IF i = 0 THEN base ELSE Step(g[i - 1], files[i]))
    BY <1>5, <2>1
  <2> QED
    BY <1>7, <2>2 DEF Iterates
<1>9. \A i \in 0 .. N : met[i] = IF i = 0 THEN base ELSE Step(met[i - 1], files[i])
  <2>1. Loop(met)
    BY <1>8
  <2> HIDE DEF met
  <2> QED
    BY <2>1
<1> HIDE DEF met
<1> DEFINE A == {i \in 0 .. N : met[i] \in X /\ \A j \in 1 .. i : files[j].file \in ToSet(met[i])}
<1>10. 0 \in A
  BY <1>1, <1>3, <1>9
<1>11. \A i \in 1 .. N : i - 1 \in A => i \in A
  <2>1. TAKE i \in 1 .. N
  <2>2. HAVE i - 1 \in A
  <2> DEFINE t == met[i - 1]
             u == Step(t, files[i])
  <2>3. u \in X /\ ToSet(t) \subseteq ToSet(u) /\ files[i].file \in ToSet(u)
    BY <1>1, <1>4, <2>2
  <2>4. met[i] = u /\ i \in 0 .. N
    BY <1>1, <1>9
  <2>5. \A j \in 1 .. i : j \in 1 .. i - 1 \/ j = i
    BY <1>1
  <2> HIDE DEF u
  <2> QED
    BY <2>2, <2>3, <2>4, <2>5
<1> HIDE DEF A
<1>12. N \in A
  <2>1. \A i \in 0 .. N : i \in A
    BY <1>1, <1>10, <1>11, UpTo
  <2> QED
    BY <1>1, <2>1
<1>13. met[N] \in X /\ \A j \in 1 .. N : files[j].file \in ToSet(met[N])
  BY <1>12 DEF A
<1>14. \A f \in ToSet(files) : f.file \in ToSet(met[N])
  BY <1>1, <1>13 DEF ToSet
<1> QED
  BY <1>2, <1>13, <1>14 DEF X, F

(* What is among some elements is what is chosen of them. *)
LEMMA SameAmong == \A s, P : Report!Among(s, P) = Chosen(s, P)
  BY SameFlattenInReports, Zenon DEF Report!Among, Chosen

(* The components of cyclonedx: the files that can be read, and their entries. *)
ReadableIn(found, filePaths) == Chosen(found, {path \in ToSet(found) : filePaths[path] \notin Vanished})
OfFile(all, path) == Chosen(all, {e \in ToSet(all) : e.file = path})
ByFile(all, readable) == [i \in DOMAIN readable |-> OfFile(all, readable[i])]

(* That is what it lists. *)
LEMMA ComponentsMade ==
  ASSUME NEW name, NEW m
  PROVE  \E rows : /\ RowsOf(rows, m.queries, DOMAIN m.queries)
                   /\ PlacesOf("cyclonedx", name, m)
                      = Places(FlattenSeq(ByFile(FlattenSeq(rows), ReadableIn(Report!AllFiles(m.queries), m.filePaths))))
<1> DEFINE S == m.queries
           rows == [i \in DOMAIN S |-> [j \in DOMAIN S[i].files |->
             [query |-> S[i].id, severity |-> S[i].severity, file |-> S[i].files[j].file, line |-> S[i].files[j].line,
              actual |-> S[i].files[j].actual]]]
           all == FlattenSeq(rows)
           found == Report!AllFiles(S)
           readable == ReadableIn(found, m.filePaths)
           Component(i) == [name |-> readable[i], content |-> m.filePaths[readable[i]],
                            vulnerabilities |-> OfFile(all, readable[i])]
           report == [i \in DOMAIN readable |-> Component(i)]
<1>1. RowsOf(rows, S, DOMAIN S)
  BY DEF RowsOf, RowOf
<1>2. Report!CycloneDx(S, m.filePaths) = report
  <2> DEFINE made == Report!ForEachFile(S, LAMBDA q, f : [query |-> q.id, severity |-> q.severity, file |-> f.file,
                                                           line |-> f.line, actual |-> f.actual])
             kept == Report!Among(found, {path \in Report!ToSet(found) : m.filePaths[path] \notin Vanished})
  <2>1. made = all
    BY SameFlattenInReports, Zenon DEF Report!ForEachFile, Report!EachFile
  <2>2. kept = readable
    BY SameAmong, SameToSet DEF ReadableIn
  <2>3. \A path : Report!Among(made, {e \in Report!ToSet(made) : e.file = path}) = OfFile(all, path)
    <3> HIDE DEF made, all
    <3> QED
      BY <2>1, SameAmong, SameToSet DEF OfFile
  <2>4. Report!CycloneDx(S, m.filePaths) =
          [i \in DOMAIN kept |-> [name |-> kept[i], content |-> m.filePaths[kept[i]],
             vulnerabilities |-> Report!Among(made, {e \in Report!ToSet(made) : e.file = kept[i]})]]
    BY Zenon DEF Report!CycloneDx
  <2> HIDE DEF made, kept, all, readable
  <2> QED
    BY <2>2, <2>3, <2>4
<1>3. [i \in DOMAIN report |-> report[i].vulnerabilities] = ByFile(all, readable)
  <2> HIDE DEF readable, all
  <2> QED
    BY DEF ByFile
<1>4. Report!ReportIn("cyclonedx", name, m).report = Report!CycloneDx(S, m.filePaths)
  BY DEF Report!ReportIn, Report!PrintCycloneDx, Report!Printed
<1>5. PlacesIn("cyclonedx", report) = Places(FlattenSeq([i \in DOMAIN report |-> report[i].vulnerabilities]))
  BY DEF PlacesIn
<1>6. PlacesOf("cyclonedx", name, m) = Places(FlattenSeq(ByFile(all, readable)))
  <2> HIDE DEF report, readable, all
  <2> QED
    BY <1>2, <1>3, <1>4, <1>5 DEF PlacesOf
<1> HIDE DEF rows
<1> QED
  BY <1>1, <1>6

(* Under the files that can be read a place is listed as often as there are *)
(* vulnerabilities there.                                                    *)
LEMMA ByFileCounted ==
  ASSUME NEW U, NEW vulns, NEW paths, NEW sorted, Setting(U, vulns, paths, sorted),
         NEW rows, RowsOf(rows, sorted, DOMAIN sorted),
         NEW F, NEW readable \in Seq(F), \A a, b \in DOMAIN readable : readable[a] = readable[b] => a = b, NEW place
  PROVE  LET listed == Places(FlattenSeq(ByFile(FlattenSeq(rows), readable)))
             K == ListedAt(vulns, paths, sorted, DOMAIN sorted, place, ToSet(readable))
         IN  AsMany(At(listed, place), K)
<1> DEFINE all == FlattenSeq(rows)
           E == ToSet(all)
           lists == ByFile(all, readable)
           I == DOMAIN readable
           P == {e \in E : <<e.query, Last(e.file), e.line>> = place}
           There(X) == ListedAt(vulns, paths, sorted, DOMAIN sorted, place, X)
           W == SpotsOfRows(lists, P)
           K == There(ToSet(readable))
           part == [i \in I |-> SpotsOfRow(lists, P, i)]
           other == [i \in I |-> There({readable[i]})]
<1>1. IsFiniteSet(I) /\ I = 1 .. Len(readable) /\ Len(readable) \in Nat
  <2>1. I = 1 .. Len(readable) /\ Len(readable) \in Nat
    OBVIOUS
  <2> QED
    BY <2>1, FS_Interval
<1>2. ASSUME NEW X
      PROVE  /\ all \in Seq(E) /\ IsFiniteSet(There(X))
             /\ Cardinality(Spots(all, EntriesAt(all, place, X))) = Cardinality(There(X))
  BY EntriesCounted
<1> HIDE DEF all
<1>3. all \in Seq(E)
  BY <1>2
<1>4. ASSUME NEW i \in I
      PROVE  /\ lists[i] \in Seq(E) /\ IsFiniteSet(Spots(lists[i], P))
             /\ Cardinality(Spots(lists[i], P)) = Cardinality(There({readable[i]}))
  <2> DEFINE x == readable[i]
             Q == {e \in E : e.file = x}
  <2>1. lists[i] = Chosen(all, Q)
    BY DEF ByFile, OfFile
  <2>2. Q \intersect P = EntriesAt(all, place, {x})
    BY DEF EntriesAt
  <2> DEFINE c == Chosen(all, Q)
  <2> HIDE DEF Q, P, x, E
  <2>3. c \in Seq(E) /\ Cardinality(Spots(c, P)) = Cardinality(Spots(all, Q \intersect P))
    BY <1>3, ChosenSpots
  <2>4. c \in Seq(E)
    BY <2>3
  <2> HIDE DEF c
  <2>5. IsFiniteSet(Spots(c, P))
    BY <2>4, SpotsFinite
  <2>6. Cardinality(Spots(all, EntriesAt(all, place, {x}))) = Cardinality(There({x}))
    BY <1>2
  <2> HIDE DEF There, lists
  <2> QED
    BY <2>1, <2>2, <2>3, <2>5, <2>6 DEF c, x
<1>5. DOMAIN lists = I /\ lists = [i \in DOMAIN lists |-> lists[i]]
  BY DEF ByFile
<1> HIDE DEF lists, I, E
<1>6. lists \in Seq(Seq(E))
  <2> DEFINE Z == Seq(E)
  <2>1. \A i \in DOMAIN lists : lists[i] \in Z
    BY <1>4, <1>5
  <2> HIDE DEF Z
  <2>2. lists \in Seq(Z)
    BY <1>1, <1>5, <2>1, SequenceOf
  <2> QED
    BY <2>2 DEF Z
<1>7. /\ FlattenSeq(lists) \in Seq(E) /\ IsFiniteSet(W)
      /\ Cardinality(Spots(FlattenSeq(lists), P)) = Cardinality(W)
  <2> HIDE DEF P
  <2> QED
    BY <1>6, SpotsFlattened
<1>8. At(Places(FlattenSeq(lists)), place) = Spots(FlattenSeq(lists), P)
  <2> DEFINE r == FlattenSeq(lists)
  <2>1. r \in Seq(E)
    BY <1>7
  <2> HIDE DEF r
  <2>2. \A i \in DOMAIN r : r[i] \in E
    BY <2>1
  <2> HIDE DEF E
  <2>3. At(Places(r), place) = Spots(r, P)
    BY <2>2 DEF At, Places, Spots
  <2> QED
    BY <2>3 DEF r
<1> HIDE DEF P
<1>9. ASSUME NEW i \in I
      PROVE  IsFiniteSet(part[i]) /\ IsFiniteSet(other[i]) /\ Cardinality(part[i]) = Cardinality(other[i])
  <2>1. IsFiniteSet(Spots(lists[i], P)) /\ Cardinality(Spots(lists[i], P)) = Cardinality(There({readable[i]}))
    BY <1>4
  <2>2. IsFiniteSet(SpotsOfRow(lists, P, i)) /\ Cardinality(SpotsOfRow(lists, P, i)) = Cardinality(Spots(lists[i], P))
    BY <2>1, RowCounted
  <2>3. IsFiniteSet(There({readable[i]}))
    BY <1>2
  <2> HIDE DEF There
  <2> QED
    BY <2>1, <2>2, <2>3
<1>10. \A i, j \in I : i # j => part[i] \intersect part[j] = {} /\ other[i] \intersect other[j] = {}
  <2>1. TAKE i, j \in I
  <2>2. HAVE i # j
  <2>3. readable[i] # readable[j]
    BY <2>2 DEF I
  <2>4. part[i] \intersect part[j] = {}
    BY <2>2 DEF SpotsOfRow
  <2>5. other[i] \intersect other[j] = {}
    BY <2>3 DEF ListedAt
  <2> QED
    BY <2>4, <2>5
<1>11. \A x : x \in W <=> \E i \in I : x \in part[i]
  <2>1. W = UNION {part[i] : i \in I}
    BY <1>5 DEF SpotsOfRows
  <2> HIDE DEF part
  <2> QED
    BY <2>1
<1>12. \A k : k \in K <=> \E i \in I : k \in other[i]
  <2>1. \A k \in DOMAIN vulns : paths[k] \in ToSet(readable) <=> \E i \in I : paths[k] \in {readable[i]}
    BY DEF ToSet, I
  <2> QED
    BY <2>1 DEF ListedAt
<1> HIDE DEF part, other, K, W
<1>13. MadeOf(W, I, part) /\ MadeOf(K, I, other) /\ \A i \in I : Cardinality(part[i]) = Cardinality(other[i])
  BY <1>1, <1>9, <1>10, <1>11, <1>12 DEF MadeOf
<1>14. Cardinality(W) = Cardinality(K)
  BY <1>13, SameParts
<1>15. IsFiniteSet(Spots(FlattenSeq(lists), P))
  <2> DEFINE r == FlattenSeq(lists)
  <2>1. r \in Seq(E)
    BY <1>7
  <2> HIDE DEF r
  <2>2. IsFiniteSet(Spots(r, P))
    BY <2>1, SpotsFinite
  <2> QED
    BY <2>2 DEF r
<1> QED
  BY <1>7, <1>8, <1>14, <1>15 DEF lists, all, K, W, AsMany

(* The path of every vulnerability that is reported is among those of all files. *)
LEMMA PathsFound ==
  ASSUME NEW U, NEW vulns, NEW paths, NEW sorted, Setting(U, vulns, paths, sorted)
  PROVE  LET found == Report!AllFiles(sorted)
         IN  \E F : /\ found \in Seq(F) /\ \A a, b \in DOMAIN found : found[a] = found[b] => a = b
                    /\ \A k \in DOMAIN vulns : vulns[k].severity # "TRACE" => paths[k] \in ToSet(found)
<1> DEFINE rows == [i \in DOMAIN sorted |-> sorted[i].files]
           all == FlattenSeq(rows)
           D == ToSet(all)
           F == {d.file : d \in D}
           found == Report!AllFiles(sorted)
           G == DOMAIN sorted
<1>1. Readable(U) /\ vulns \in Seq(U) /\ sorted \in Model!Sortings(ReportedOf(vulns, paths))
  BY DEF Setting
<1>2. \A i \in DOMAIN sorted : ShowsPlaces(sorted[i], sorted[i].id, vulns, paths)
  BY <1>1, SortedRight
<1>3. RowsOf(rows, sorted, G)
  <2>1. ASSUME NEW i \in DOMAIN sorted PROVE RowOf(sorted[i].files, sorted[i])
    <3> DEFINE q == sorted[i]
    <3>1. q.files = [j \in DOMAIN q.files |-> q.files[j]] /\ \A j \in DOMAIN q.files : q.files[j].query = q.id
      BY <1>2 DEF ShowsPlaces
    <3> HIDE DEF q
    <3>2. RowOf(q.files, q)
      BY <3>1 DEF RowOf
    <3> QED
      BY <3>2 DEF q
  <2> QED
    BY <2>1 DEF RowsOf
<1> HIDE DEF G, rows
<1>4. ASSUME NEW k \in DOMAIN vulns, vulns[k].severity # "TRACE" PROVE \E f \in D : f.file = paths[k]
  <2> DEFINE place == PlaceOf(vulns[k])
             X == {paths[k]}
             K == ListedAt(vulns, paths, sorted, G, place, X)
             A == Spots(all, EntriesAt(all, place, X))
  <2>1. all \in Seq(D) /\ IsFiniteSet(K) /\ Cardinality(A) = Cardinality(K)
    <3> HIDE DEF place, X
    <3> QED
      BY <1>3, EntriesCounted
  <2>2. k \in K
    <3>1. \E i \in DOMAIN sorted : sorted[i].id = vulns[k].query
      BY <1>4, ReportedUnlessTrace
    <3> QED
      BY <3>1 DEF ListedAt, G
  <2> HIDE DEF K, place, X
  <2>3. IsFiniteSet(A)
    <3> DEFINE P == EntriesAt(all, place, X)
    <3>1. all \in Seq(D)
      BY <2>1
    <3> HIDE DEF P, all, D
    <3> QED
      BY <3>1, SpotsFinite
  <2>4. A # {}
    <3> HIDE DEF A
    <3> QED
      BY <2>1, <2>2, <2>3, FS_EmptySet
  <2>5. PICK i \in A : TRUE
    BY <2>4
  <2>6. all[i] \in EntriesAt(all, place, X)
    BY <2>5 DEF Spots
  <2> QED
    BY <2>6 DEF EntriesAt, X
<1>5. all \in Seq(D)
  BY <1>3, EntriesCounted
<1>6. /\ found \in Seq(F) /\ \A a, b \in DOMAIN found : found[a] = found[b] => a = b
      /\ \A f \in D : f.file \in ToSet(found)
  <2>1. all = FlattenSeq([i \in DOMAIN sorted |-> sorted[i].files])
    BY DEF rows
  <2> DEFINE t == all
  <2>2. t \in Seq(D) /\ D = ToSet(t)
    BY <1>5
  <2> HIDE DEF t, D
  <2>3. /\ found \in Seq(F) /\ \A a, b \in DOMAIN found : found[a] = found[b] => a = b
        /\ \A f \in ToSet(t) : f.file \in ToSet(found)
    BY <2>1, <2>2, AllFilesRight DEF t
  <2> QED
    BY <2>2, <2>3
<1> HIDE DEF found, D, F
<1> QED
  BY <1>4, <1>6 DEF found

(* Where no two files are shown under one name, cyclonedx lists a place as often as *)
(* there are vulnerabilities in files that can be read.                              *)
LEMMA ComponentsCounted ==
  ASSUME NEW U, NEW vulns, NEW paths, NEW m, Setting(U, vulns, paths, m.queries),
         \A k \in DOMAIN vulns : m.filePaths[paths[k]] = vulns[k].file, NEW name, NEW place
  PROVE  AsMany(At(PlacesOf("cyclonedx", name, m), place), ThoseAt("cyclonedx", place, vulns))
<1> DEFINE sorted == m.queries
           filePaths == m.filePaths
           found == Report!AllFiles(sorted)
           Q == {path \in ToSet(found) : filePaths[path] \notin Vanished}
           readable == ReadableIn(found, filePaths)
           K == ListedAt(vulns, paths, sorted, DOMAIN sorted, place, ToSet(readable))
<1>1. Setting(U, vulns, paths, sorted)
  OBVIOUS
<1>2. PICK rows : /\ RowsOf(rows, sorted, DOMAIN sorted)
                  /\ PlacesOf("cyclonedx", name, m) = Places(FlattenSeq(ByFile(FlattenSeq(rows), readable)))
  BY ComponentsMade
<1>3. \A k \in DOMAIN vulns : filePaths[paths[k]] = vulns[k].file
  OBVIOUS
<1> HIDE DEF sorted, filePaths
<1>4. PICK F : /\ found \in Seq(F) /\ \A a, b \in DOMAIN found : found[a] = found[b] => a = b
               /\ \A k \in DOMAIN vulns : vulns[k].severity # "TRACE" => paths[k] \in ToSet(found)
  BY <1>1, PathsFound
<1>5. readable \in Seq(F) /\ (\A a, b \in DOMAIN readable : readable[a] = readable[b] => a = b)
      /\ ToSet(readable) = ToSet(found) \intersect Q
  <2> HIDE DEF found, Q
  <2> DEFINE c == Chosen(found, Q)
  <2>1. found \in Seq(F) /\ \A a, b \in DOMAIN found : found[a] = found[b] => a = b
    BY <1>4
  <2>2. c \in Seq(F)
    BY <2>1, ChosenSpots
  <2>3. \A a, b \in DOMAIN c : c[a] = c[b] => a = b
    BY <2>1, ChosenApart
  <2>4. ToSet(c) = ToSet(found) \intersect Q
    BY <2>1, ChosenMembers
  <2>5. readable = c
    BY DEF ReadableIn, Q
  <2> HIDE DEF c, readable
  <2> QED
    BY <2>2, <2>3, <2>4, <2>5
<1> HIDE DEF found, readable
<1>6. AsMany(At(PlacesOf("cyclonedx", name, m), place), K)
  <2>1. readable \in Seq(F) /\ \A a, b \in DOMAIN readable : readable[a] = readable[b] => a = b
    BY <1>5
  <2>2. RowsOf(rows, sorted, DOMAIN sorted)
    BY <1>2
  <2>3. AsMany(At(Places(FlattenSeq(ByFile(FlattenSeq(rows), readable))), place), K)
    BY <1>1, <2>1, <2>2, ByFileCounted
  <2> QED
    BY <1>2, <2>3
<1>7. K = ThoseAt("cyclonedx", place, vulns)
  <2>1. ASSUME NEW k \in DOMAIN vulns
        PROVE  /\ (\E i \in DOMAIN sorted : sorted[i].id = vulns[k].query) <=> vulns[k].severity # "TRACE"
               /\ Takes("cyclonedx", FindingOf(vulns[k])) <=> vulns[k].file \notin Vanished
    <3>1. (\E i \in DOMAIN sorted : sorted[i].id = vulns[k].query) <=> vulns[k].severity # "TRACE"
      BY <1>1, ReportedUnlessTrace
    <3> QED
      BY <3>1 DEF Takes, FindingOf
  <2>2. \A k \in DOMAIN vulns : vulns[k].severity # "TRACE" =>
          (paths[k] \in ToSet(readable) <=> vulns[k].file \notin Vanished)
    BY <1>3, <1>4, <1>5
  <2> QED
    BY <2>1, <2>2 DEF ListedAt, ThoseAt
<1> QED
  BY <1>6, <1>7

-----------------------------------------------------------------------------
(* The names of the files of the findings.                                  *)

(* The library's operators are the same in the modules that Results takes in. *)
LEMMA SamePrefix == \A s, t : Model!IsPrefix(s, t) <=> IsPrefix(s, t)
  BY Zenon DEF Model!IsPrefix, IsPrefix
(* So is the last element, *)
LEMMA SameLast == \A s : Model!Last(s) = Last(s)
  BY Zenon DEF Model!Last, Last
(* and the greatest number is the one that is chosen in Paths. *)
LEMMA SameMax == \A S : Model!Path!Max(S) = (CHOOSE x \in S : \A y \in S : x >= y)
  BY Zenon DEF Model!Path!Max

(* A path ends as what it was made relative from, which is no folder of the base. *)
LEMMA RelativeKeepsLast ==
  ASSUME NEW base \in Seq(STRING), NEW path \in Seq(STRING) \ {<<>>}, ~IsPrefix(path, base)
  PROVE  LET r == Model!ResolvePretty(path, base) IN r # <<>> /\ Last(r) = Last(path)
<1> DEFINE n == Len(base)
           S == {i \in 0 .. n : i <= Len(path) /\ \A j \in 1 .. i : base[j] = path[j]}
           c == Model!Path!Max(S)
           below == Model!Path!Below(c, base, path)
           relative == Model!Path!Relative(base, path)
<1>1. n \in Nat /\ Len(path) \in Nat \ {0} /\ base \in Seq(STRING) /\ path \in Seq(STRING)
  OBVIOUS
<1>2. S \subseteq 0 .. n /\ S # {}
  <2>1. 0 \in S
    BY <1>1
  <2> QED
    BY <2>1
<1>3. c \in S
  <2>1. PICK x \in S : \A y \in S : y <= x
    <3> HIDE DEF S, n
    <3> QED
      BY <1>1, <1>2, GreatestExists
  <2>2. \A y \in S : x >= y
    BY <1>2, <2>1
  <2> HIDE DEF S
  <2> QED
    BY <2>2, SameMax
<1> HIDE DEF c
<1>4. c \in 0 .. n /\ c <= Len(path) /\ \A j \in 1 .. c : base[j] = path[j]
  BY <1>3
<1>5. c # Len(path)
  <2>1. SUFFICES ASSUME c = Len(path) PROVE IsPrefix(path, base)
    OBVIOUS
  <2>2. SubSeq(path, 1, Len(path)) = SubSeq(base, 1, Len(path))
    BY <1>1, <1>4, <2>1
  <2> QED
    BY <1>1, <1>4, <2>1, <2>2 DEF IsPrefix
<1>6. below # <<>> /\ Last(below) = Last(path)
  <2> DEFINE up == [i \in 1 .. n - c |-> ".."]
             rest == SubSeq(path, c + 1, Len(path))
             T == STRING \union {".."}
  <2>1. below = up \o rest
    BY DEF Model!Path!Below
  <2>2. up \in Seq(T) /\ Len(up) = n - c
    <3>1. n - c \in Nat /\ ".." \in T
      BY <1>1, <1>4
    <3> HIDE DEF T, n
    <3> QED
      BY <3>1
  <2>3. rest \in Seq(T) /\ Len(rest) = Len(path) - c /\ rest[Len(path) - c] = path[Len(path)]
    <3>1. path \in Seq(T)
      BY WiderSeq
    <3> HIDE DEF T
    <3> QED
      BY <1>1, <1>4, <1>5, <3>1
  <2>4. Len(rest) \in 1 .. Len(rest)
    BY <1>1, <1>4, <1>5, <2>3
  <2> HIDE DEF up, rest, T
  <2>5. Len(up \o rest) = Len(up) + Len(rest) /\ (up \o rest)[Len(up) + Len(rest)] = rest[Len(rest)]
    BY <2>2, <2>3, <2>4, Concatenation
  <2>6. Len(up \o rest) # 0
    BY <2>2, <2>3, <2>4, <2>5, <1>1, <1>4
  <2> QED
    BY <2>1, <2>3, <2>5, <2>6 DEF Last
<1>7. relative = <<>> \/ relative = below
  <2>1. relative = IF (base # <<>> /\ base[1] = "/") # (path[1] = "/") THEN <<>> ELSE below
    BY Zenon DEF Model!Path!Relative, c, S, n
  <2> QED
    BY <2>1
<1>8. Model!ResolvePretty(path, base) = IF relative = <<>> THEN path ELSE relative
  BY DEF Model!ResolvePretty
<1> HIDE DEF relative, below
<1> QED
  BY <1>6, <1>7, <1>8

(* What comes after the first k elements. *)
LEMMA RestOf ==
  ASSUME NEW D, NEW s \in Seq(D), NEW k \in Nat, k < Len(s)
  PROVE  LET rest == SubSeq(s, k + 1, Len(s))
         IN  rest \in Seq(D) /\ Len(rest) = Len(s) - k /\ rest[Len(s) - k] = s[Len(s)]
  OBVIOUS

(* A renamed path ends as the path does, in a folder that it is not. *)
LEMMA RenamedKeepsLast ==
  ASSUME NEW file \in Seq(STRING) \ {<<>>}, NEW folder \in Seq(STRING), ~IsPrefix(file, folder), IsPrefix(folder, file),
         NEW from, from.path \in Seq(STRING) \ {<<>>}
  PROVE  LET r == Model!Renamed(file, folder, from) IN r \in Seq(STRING) \ {<<>>} /\ Last(r) = Last(file)
<1> DEFINE k == Len(folder)
           head == IF from.local THEN <<Last(from.path)>> ELSE from.path
           rest == SubSeq(file, k + 1, Len(file))
<1>1. k \in Nat /\ Len(file) \in Nat /\ k <= Len(file)
  BY DEF IsPrefix
<1>2. k # Len(file)
  BY <1>1 DEF IsPrefix
<1>3. rest \in Seq(STRING) /\ Len(rest) = Len(file) - k /\ rest[Len(file) - k] = file[Len(file)]
  <2>1. file \in Seq(STRING) /\ k < Len(file)
    BY <1>1, <1>2
  <2> QED
    BY <1>1, <2>1, RestOf
<1>4. head \in Seq(STRING)
  <2> DEFINE p == from.path
             D == STRING
  <2>1. p \in Seq(D) /\ p # <<>>
    OBVIOUS
  <2> HIDE DEF p, D
  <2>2. p[Len(p)] \in D
    BY <2>1
  <2>3. <<p[Len(p)]>> \in Seq(D)
    BY <2>2
  <2> QED
    BY <2>1, <2>3 DEF p, D, Last
<1>5. Model!Renamed(file, folder, from) = head \o rest
  BY SameLast DEF Model!Renamed
<1> HIDE DEF head, rest
<1>6. /\ head \o rest \in Seq(STRING) /\ Len(head \o rest) = Len(head) + Len(rest)
      /\ (head \o rest)[Len(head) + Len(rest)] = rest[Len(rest)]
  <2>1. Len(rest) \in 1 .. Len(rest)
    BY <1>1, <1>2, <1>3
  <2> HIDE DEF k
  <2> QED
    BY <1>3, <1>4, <2>1, Concatenation
<1>7. Len(head) \in Nat /\ Len(head \o rest) # 0
  <2> DEFINE n == Len(head)
  <2>1. n \in Nat
    BY <1>4
  <2> HIDE DEF n
  <2> QED
    BY <1>1, <1>2, <1>3, <1>6, <2>1 DEF n
<1>8. head \o rest # <<>>
  BY <1>7
<1> QED
  BY <1>3, <1>5, <1>6, <1>8 DEF Last

(* The path that a file is shown under: not a folder of OutputPath, and ending as the file. *)
Kept(file) == {p \in Seq(STRING) \ {<<>>} : Last(p) = Last(file) /\ ~IsPrefix(p, OutputPath)}

(* replaceIfTemporaryPath keeps the end, whatever the order of the folders. *)
LEMMA ReplacedKeepsLast ==
  ASSUME NEW scan \in Scans, NEW v \in ToSet(scan.vulns), NEW order \in SetToSeqs(DOMAIN scan.extraction)
  PROVE  Model!ReplaceIfTemporaryPath(v.file, scan.extraction, order) \in Kept(v.file)
<1> DEFINE file == v.file
           ex == scan.extraction
           N == Len(order)
           X == [path : Kept(file), returned : BOOLEAN]
           base == [path |-> file, returned |-> FALSE]
           Step(r, key) ==
             IF r.returned THEN r
             ELSE IF ~Model!IsPrefix(key, file) THEN [path |-> file, returned |-> FALSE]
             ELSE [path |-> Model!Renamed(file, key, ex[key]), returned |-> ~ex[key].local]
           Loop(r) == r = [i \in 0 .. N |-> IF i = 0 THEN base ELSE Step(r[i - 1], order[i])]
           at == CHOOSE r : Loop(r)
           step == [p \in (1 .. N) \X X |-> Step(p[2], order[p[1]])]
<1>1. /\ file \in Seq(STRING) \ {<<>>} /\ ~IsPrefix(file, OutputPath)
      /\ \A folder \in DOMAIN ex :
           /\ folder \in Seq(STRING) /\ ex[folder].path \in Seq(STRING) \ {<<>>}
           /\ ~IsPrefix(file, folder)
           /\ IsPrefix(folder, file) => ~IsPrefix(Model!Renamed(file, folder, ex[folder]), OutputPath)
  BY FilesAreNoFolders
<1>2. N \in Nat /\ DOMAIN order = 1 .. N /\ \A i \in 1 .. N : order[i] \in DOMAIN ex
  <2> DEFINE D == DOMAIN ex
  <2>1. IsFiniteSet(D)
    BY ScansTyped
  <2>2. order \in Seq(D)
    <3> HIDE DEF D
    <3> QED
      BY <2>1, InOrder DEF D
  <2> HIDE DEF D
  <2>3. Len(order) \in Nat /\ DOMAIN order = 1 .. Len(order) /\ \A i \in 1 .. Len(order) : order[i] \in D
    BY <2>2
  <2> QED
    BY <2>3 DEF D
<1>3. Model!ReplaceIfTemporaryPath(file, ex, order) = at[N].path
  BY Zenon DEF Model!ReplaceIfTemporaryPath
<1> HIDE DEF file, ex
<1>4. base \in X
  BY <1>1 DEF Kept
<1>5. \A i \in 1 .. N, r \in X : Step(r, order[i]) \in X
  <2>1. TAKE i \in 1 .. N, r \in X
  <2> DEFINE key == order[i]
             new == Model!Renamed(file, key, ex[key])
  <2>2. key \in DOMAIN ex
    BY <1>2
  <2>3. CASE r.returned
    BY <2>3
  <2>4. CASE ~r.returned /\ ~IsPrefix(key, file)
    BY <1>4, <2>4, SamePrefix
  <2>5. CASE ~r.returned /\ IsPrefix(key, file)
    <3>1. new \in Kept(file)
      <4> DEFINE from == ex[key]
      <4>1. key \in Seq(STRING) /\ ~IsPrefix(file, key) /\ from.path \in Seq(STRING) \ {<<>>}
            /\ ~IsPrefix(Model!Renamed(file, key, from), OutputPath)
        BY <1>1, <2>2, <2>5
      <4> HIDE DEF key, from
      <4>2. Model!Renamed(file, key, from) \in Kept(file)
        BY <1>1, <2>5, <4>1, RenamedKeepsLast DEF Kept
      <4> QED
        BY <4>2 DEF from
    <3>2. Step(r, key) = [path |-> new, returned |-> ~ex[key].local]
      BY <2>5, SamePrefix
    <3>3. (~ex[key].local) \in BOOLEAN
      OBVIOUS
    <3> HIDE DEF new, key, Step
    <3> QED
      BY <3>1, <3>2, <3>3 DEF key
  <2> QED
    BY <2>3, <2>4, <2>5
<1>6. \A i \in 1 .. N, r \in X : step[<<i, r>>] = Step(r, order[i])
  OBVIOUS
<1> HIDE DEF Step, step, base, X
<1>7. \A i \in 1 .. N, r \in X : step[<<i, r>>] \in X
  BY <1>5, <1>6
<1>8. PICK g : Iterates(g, N, base, step) /\ \A i \in 0 .. N : g[i] \in X
  BY <1>2, <1>4, <1>7, LoopExists
<1>9. Loop(g)
  <2>1. \A i \in 0 .. N : i # 0 => g[i - 1] \in X /\ i \in 1 .. N
    BY <1>2, <1>8
  <2>2. \A i \in 0 .. N : (IF i = 0 THEN base ELSE step[<<i, g[i - 1]>>])
                          = (IF i = 0 THEN base ELSE Step(g[i - 1], order[i]))
    BY <1>6, <2>1
  <2> QED
    BY <1>8, <2>2 DEF Iterates
<1>10. \A i \in 0 .. N : at[i] = IF i = 0 THEN base ELSE Step(at[i - 1], order[i])
  <2>1. Loop(at)
    BY <1>9
  <2> HIDE DEF at
  <2> QED
    BY <2>1
<1> HIDE DEF at
<1> DEFINE A == {i \in 0 .. N : at[i] \in X}
<1>11. 0 \in A
  BY <1>2, <1>4, <1>10
<1>12. \A i \in 1 .. N : i - 1 \in A => i \in A
  BY <1>2, <1>5, <1>10
<1> HIDE DEF A
<1>13. \A i \in 0 .. N : i \in A
  BY <1>2, <1>11, <1>12, UpTo
<1>14. at[N] \in X
  BY <1>2, <1>13 DEF A
<1> QED
  BY <1>3, <1>14 DEF X, file, ex

(* A finding is shown in a path that ends as the file that it was found in. *)
LEMMA NameKept ==
  ASSUME NEW scan \in Scans, NEW v \in ToSet(scan.vulns), NEW order \in SetToSeqs(DOMAIN scan.extraction)
  PROVE  Last(Model!ResolvePath(v.file, scan.extraction, order, OutputPath)) = Last(v.file)
<1> DEFINE p == Model!ReplaceIfTemporaryPath(v.file, scan.extraction, order)
<1>1. p \in Kept(v.file)
  BY ReplacedKeepsLast
<1>2. OutputPath \in Seq(STRING)
  BY FilesAreNoFolders
<1>3. Model!ResolvePath(v.file, scan.extraction, order, OutputPath) = Model!ResolvePretty(p, OutputPath)
  BY Zenon DEF Model!ResolvePath
<1> HIDE DEF p
<1>4. Last(Model!ResolvePretty(p, OutputPath)) = Last(p)
  BY <1>1, <1>2, RelativeKeepsLast DEF Kept
<1> QED
  BY <1>1, <1>3, <1>4 DEF Kept

-----------------------------------------------------------------------------
(* The findings of a report.                                                *)

(* Where as many paths are shown as there are files, a path is that of one file, and *)
(* the summary has it.                                                                *)
LEMMA OnePathEach ==
  ASSUME NEW scan \in Scans, NEW vulns \in SetToSeqs(Model!Unique(scan.vulns)), NEW order,
         LET paths == PathsOf(vulns, scan.extraction, order)
         IN  Cardinality(DOMAIN Model!FilePaths(vulns, paths)) = Cardinality({v.file : v \in ToSet(scan.vulns)})
  PROVE  LET paths == PathsOf(vulns, scan.extraction, order)
         IN  \A k \in DOMAIN vulns : Model!FilePaths(vulns, paths)[paths[k]] = vulns[k].file
<1> DEFINE V == scan.vulns
           U == Model!Unique(V)
           paths == PathsOf(vulns, scan.extraction, order)
           filePaths == Model!FilePaths(vulns, paths)
           N == Len(vulns)
           Files == {v.file : v \in ToSet(V)}
           Under(path) == {i \in DOMAIN vulns : paths[i] = path}
           P == {paths[k] : k \in DOMAIN vulns}
           R(file) == Model!ResolvePath(file, scan.extraction, order, OutputPath)
           g == [file \in Files |-> R(file)]
<1>1. V \in Seq(ToSet(V))
  BY UniqueReadable
<1>2. /\ IsFiniteSet(U) /\ U \subseteq ToSet(V)
      /\ \A v \in ToSet(V) : \E u \in U : Model!DedupKey(u) = Model!DedupKey(v)
  BY <1>1, UniqueByKey
<1>3. /\ N \in Nat /\ DOMAIN vulns = 1 .. N /\ \A k \in DOMAIN vulns : vulns[k] \in U
      /\ \A u \in U : \E k \in DOMAIN vulns : vulns[k] = u
  <2> DEFINE n == Cardinality(U)
  <2> HIDE DEF U
  <2>1. n \in Nat /\ vulns \in [1 .. n -> U] /\ vulns \in Seq(U) /\ Len(vulns) = n
        /\ \A u \in U : \E i \in 1 .. n : vulns[i] = u
    BY <1>2, InOrder DEF U
  <2> HIDE DEF n
  <2> QED
    BY <2>1
<1>4. \A v, u : Model!DedupKey(u) = Model!DedupKey(v) => u.file = v.file
  BY DEF Model!DedupKey
<1>5. \A file \in Files : \E k \in DOMAIN vulns : vulns[k].file = file
  <2> HIDE DEF U
  <2> QED
    BY <1>2, <1>3, <1>4
<1>6. \A k \in DOMAIN vulns : vulns[k].file \in Files /\ paths[k] = g[vulns[k].file]
  <2>1. \A k \in DOMAIN vulns : vulns[k].file \in Files
    <3> HIDE DEF U
    <3> QED
      BY <1>2, <1>3
  <2> HIDE DEF Files
  <2> QED
    BY <2>1 DEF PathsOf
<1>7. DOMAIN filePaths = P /\ \A path \in P : filePaths[path] = vulns[Model!Max(Under(path))].file
  <2>1. Model!ToSet(paths) = P
    <3>1. Model!ToSet(paths) = {paths[k] : k \in DOMAIN paths}
      BY Zenon DEF Model!ToSet
    <3>2. DOMAIN paths = DOMAIN vulns
      BY DEF PathsOf
    <3> QED
      BY <3>1, <3>2
  <2>2. filePaths = [path \in Model!ToSet(paths) |-> vulns[Model!Max(Under(path))].file]
    BY Zenon DEF Model!FilePaths
  <2> HIDE DEF P, filePaths, Under
  <2> QED
    BY <2>1, <2>2
<1>8. IsFiniteSet(Files)
  <2> DEFINE f == [k \in DOMAIN vulns |-> vulns[k].file]
  <2>1. IsFiniteSet(DOMAIN vulns)
    BY <1>3, FS_Interval
  <2>2. f \in Surjection(DOMAIN vulns, Files)
    <3> HIDE DEF Files
    <3> QED
      BY <1>5, <1>6 DEF Surjection
  <2> HIDE DEF f, Files
  <2> QED
    BY <2>1, <2>2, FS_Surjection
<1>9. Cardinality(Files) = Cardinality(P)
  BY <1>7
<1> HIDE DEF paths, filePaths, Files
<1>10. g \in Surjection(Files, P)
  <2>1. DOMAIN g = Files /\ g = [file \in Files |-> g[file]]
    OBVIOUS
  <2> HIDE DEF g
  <2>2. \A file \in Files : g[file] \in P
    BY <1>5, <1>6
  <2>3. \A path \in P : \E file \in Files : g[file] = path
    BY <1>6
  <2> HIDE DEF P
  <2> QED
    BY <2>1, <2>2, <2>3 DEF Surjection
<1>11. \A a, b \in Files : g[a] = g[b] => a = b
  <2> HIDE DEF g, P
  <2>1. g \in Injection(Files, P)
    BY <1>8, <1>9, <1>10, FS_SurjSameCardinalityImpliesInj
  <2> QED
    BY <2>1 DEF Injection, IsInjective
<1> HIDE DEF g
<1>12. ASSUME NEW k \in DOMAIN vulns PROVE filePaths[paths[k]] = vulns[k].file
  <2> DEFINE S == Under(paths[k])
  <2>1. S \subseteq 0 .. N /\ k \in S
    BY <1>3
  <2>2. \A i \in S : i \in DOMAIN vulns /\ vulns[i].file = vulns[k].file
    BY <1>6, <1>11
  <2> HIDE DEF S
  <2>3. \E x \in S : \A y \in S : y <= x
    <3>1. S # {}
      BY <2>1
    <3> QED
      BY <1>3, <2>1, <3>1, GreatestExists
  <2>4. Model!Max(S) \in S
    <3>1. Model!Max(S) = CHOOSE x \in S : \A y \in S : x >= y
      BY Zenon DEF Model!Max
    <3>2. \E x \in S : \A y \in S : x >= y
      <4>1. \A x \in S : x \in Int
        BY <1>3, <2>1
      <4> QED
        BY <2>3, <4>1
    <3> QED
      BY <3>1, <3>2
  <2> QED
    BY <1>7, <2>2, <2>4 DEF S
<1> QED
  BY <1>12 DEF paths, filePaths

(* A report is of a setting, in which cyclonedx has files apart when they are. *)
LEMMA SettingOfReport ==
  ASSUME IInv, Reported, SameMetadata(input.vulns)
  PROVE  LET m == output.summary
             U == Model!Unique(input.vulns)
         IN  \E vulns, paths :
               /\ vulns \in SetToSeqs(U)
               /\ IsReportOf(output, input, vulns, paths) /\ Setting(U, vulns, paths, m.queries)
               /\ ShownApart => \A k \in DOMAIN vulns : m.filePaths[paths[k]] = vulns[k].file
<1> DEFINE V == input.vulns
           U == Model!Unique(V)
           m == output.summary
<1>1. input \in Scans
  BY DEF IInv, Reported
<1>2. PICK vulns \in SetToSeqs(U), order \in SetToSeqs(DOMAIN input.extraction) :
        IsReportOf(output, input, vulns, PathsOf(vulns, input.extraction, order))
  BY DEF IInv
<1> DEFINE paths == PathsOf(vulns, input.extraction, order)
           Q == Queries(vulns, paths)
           R == ReportedOf(vulns, paths)
<1>3. \E sorted \in Model!Sortings(R) : m = Model!SummaryOf(Q, R, sorted, Model!FilePaths(vulns, paths))
  <2>1. m \in Model!Summarize(vulns, paths)
    BY <1>2 DEF IsReportOf
  <2> HIDE DEF paths, m
  <2> QED
    BY <2>1, SummariesOf
<1>4. m.queries \in Model!Sortings(R) /\ m.filePaths = Model!FilePaths(vulns, paths)
  <2>1. PICK sorted \in Model!Sortings(R) : m = Model!SummaryOf(Q, R, sorted, Model!FilePaths(vulns, paths))
    BY <1>3
  <2> HIDE DEF m, Q, R, paths
  <2> QED
    BY <2>1 DEF Model!SummaryOf
<1>5. V \in Seq(ToSet(V)) /\ Readable(U)
  BY <1>1, UniqueReadable
<1>6. IsFiniteSet(U) /\ U \subseteq ToSet(V)
  BY <1>5, UniqueByKey
<1>7. vulns \in Seq(U)
  <2> HIDE DEF U
  <2> QED
    BY <1>2, <1>6, InOrder
<1>8. \A k \in DOMAIN vulns : vulns[k] \in ToSet(V)
  <2> HIDE DEF U
  <2> QED
    BY <1>6, <1>7
<1>9. \A k \in DOMAIN vulns : Last(paths[k]) = Last(vulns[k].file)
  <2>1. TAKE k \in DOMAIN vulns
  <2>2. Last(Model!ResolvePath(vulns[k].file, input.extraction, order, OutputPath)) = Last(vulns[k].file)
    <3> DEFINE v == vulns[k]
    <3>1. v \in ToSet(V)
      BY <1>8
    <3> HIDE DEF v
    <3>2. Last(Model!ResolvePath(v.file, input.extraction, order, OutputPath)) = Last(v.file)
      BY <1>1, <1>2, <3>1, NameKept
    <3> QED
      BY <3>2 DEF v
  <2> QED
    BY <2>2 DEF PathsOf
<1>10. \A k, l \in DOMAIN vulns : vulns[k].query = vulns[l].query =>
                                  vulns[k].severity = vulns[l].severity /\ vulns[k].provider = vulns[l].provider
  BY <1>8 DEF SameMetadata
<1>11. Setting(U, vulns, paths, m.queries)
  <2> HIDE DEF U, paths, m
  <2> QED
    BY <1>4, <1>5, <1>7, <1>9, <1>10 DEF Setting
<1>12. ShownApart => \A k \in DOMAIN vulns : m.filePaths[paths[k]] = vulns[k].file
  <2>1. HAVE ShownApart
  <2>2. Cardinality(DOMAIN Model!FilePaths(vulns, paths)) = Cardinality({v.file : v \in ToSet(V)})
    <3> HIDE DEF paths
    <3> QED
      BY <1>4, <2>1 DEF ShownApart
  <2>3. \A k \in DOMAIN vulns : Model!FilePaths(vulns, paths)[paths[k]] = vulns[k].file
    BY <1>1, <1>2, <2>2, OnePathEach
  <2> HIDE DEF paths, m
  <2> QED
    BY <1>4, <2>3
<1> HIDE DEF paths, m, U
<1> QED
  BY <1>2, <1>11, <1>12 DEF paths, m, U

(* FindingsReported, of every scan, every order of the maps and every format but sarif. *)
THEOREM FindingsAreReported == ResultsSpec => []FindingsReported
<1>1. ASSUME IInv, Reported, SameMetadata(input.vulns), "." \notin ToSet(input.name), Head(input.name) \notin NamePrefixes,
             NEW format \in ToSet(input.formats), format # "sarif", format = "cyclonedx" => ShownApart
      PROVE  LET listed == PlacesIn(format, output.files[Report!ReportIn(format, input.name, output.summary).file])
             IN  \A place : AsMany(At(listed, place), TakenAt(format, place, input.vulns))
  <2> DEFINE V == input.vulns
             U == Model!Unique(V)
             m == output.summary
             name == input.name
  <2>1. input \in Scans
    BY <1>1 DEF IInv, Reported
  <2>2. PICK vulns, paths :
          /\ vulns \in SetToSeqs(U)
          /\ IsReportOf(output, input, vulns, paths) /\ Setting(U, vulns, paths, m.queries)
          /\ ShownApart => \A k \in DOMAIN vulns : m.filePaths[paths[k]] = vulns[k].file
    BY <1>1, SettingOfReport
  <2>3. input.formats \in Seq(Supported) /\ name \in Seq(STRING) \ {<<>>}
    BY <2>1, ScansTyped
  <2>4. input.formats # <<>> /\ format \in Supported
    <3> DEFINE s == input.formats
               D == Supported
    <3>1. s \in Seq(D) /\ format \in ToSet(s)
      BY <1>1, <2>3
    <3> HIDE DEF s, D
    <3>2. s # <<>> /\ format \in D
      BY <3>1 DEF ToSet
    <3> QED
      BY <3>2 DEF s, D
  <2>5. Bare(name)
    <3>1. Seq(STRING) \subseteq Seq(Pieces)
      <4>1. STRING \subseteq Pieces
        BY DEF Pieces
      <4> QED
        BY <4>1, WiderSeq
    <3> QED
      BY <1>1, <2>3, <3>1 DEF Bare
  <2>6. output.files[Report!ReportIn(format, name, m).file] = Report!ReportIn(format, name, m).report
    <3>1. output.files = Report!GenerateReport(input.formats, name, m)
      BY <2>2 DEF IsReportOf
    <3> DEFINE formats == input.formats
    <3>2. formats \in Seq(Supported) /\ formats # <<>> /\ format \in ToSet(formats)
      BY <1>1, <2>3, <2>4
    <3>3. Head(name) \notin NamePrefixes
      BY <1>1
    <3> HIDE DEF formats, m, name
    <3>4. Report!GenerateReport(formats, name, m)[Report!ReportIn(format, name, m).file]
            = Report!ReportIn(format, name, m).report
      BY <2>5, <3>2, <3>3, AllWritten
    <3> QED
      BY <3>1, <3>4 DEF formats
  <2> HIDE DEF U, m, name
  <2>7. ASSUME NEW place PROVE AsMany(At(PlacesOf(format, name, m), place), TakenAt(format, place, V))
    <3>1. AsMany(At(PlacesOf(format, name, m), place), ThoseAt(format, place, vulns))
      <4>1. CASE format \in InOrderOfFiles
        BY <2>2, <4>1, InOrderCounted
      <4>2. CASE format = "sonarqube"
        BY <2>2, <4>2, IssuesCounted
      <4>3. CASE format = "cyclonedx"
        BY <1>1, <2>2, <4>3, ComponentsCounted
      <4> QED
        BY <1>1, <2>4, <4>1, <4>2, <4>3 DEF Supported, InOrderOfFiles
    <3>2. Cardinality(ThoseAt(format, place, vulns)) = Cardinality(TakenAt(format, place, V))
      BY <1>1, <2>1, <2>2, FindingsCounted DEF U
    <3> QED
      BY <3>1, <3>2 DEF AsMany
  <2> QED
    BY <2>6, <2>7 DEF PlacesOf, m, name
<1>2. IInv => FindingsReported
  <2> SUFFICES ASSUME IInv, Reported, SameMetadata(input.vulns), "." \notin ToSet(input.name),
                      Head(input.name) \notin NamePrefixes,
                      NEW format \in ToSet(input.formats), format # "sarif", format = "cyclonedx" => ShownApart
               PROVE  LET listed == PlacesIn(format, output.files[Report!ReportIn(format, input.name, output.summary).file])
                          taken == {f \in Distinct(input.vulns) : Takes(format, f)}
                          Here(place) == {f \in taken : <<f[1], Last(f[3]), f[4]>> = place}
                      IN  /\ \A i \in DOMAIN listed : Here(listed[i]) # {}
                          /\ \A f \in taken :
                               LET place == <<f[1], Last(f[3]), f[4]>>
                               IN  Cardinality({i \in DOMAIN listed : listed[i] = place}) = Cardinality(Here(place))
    BY Zenon DEF FindingsReported
  <2> DEFINE listed == PlacesIn(format, output.files[Report!ReportIn(format, input.name, output.summary).file])
             taken == {f \in Distinct(input.vulns) : Takes(format, f)}
             Here(place) == {f \in taken : <<f[1], Last(f[3]), f[4]>> = place}
  <2>1. \A place : AsMany(At(listed, place), TakenAt(format, place, input.vulns))
    BY <1>1
  <2>2. \A place : Here(place) = TakenAt(format, place, input.vulns)
    BY DEF TakenAt
  <2> HIDE DEF listed, Here
  <2>3. \A place : IsFiniteSet(At(listed, place)) /\ Cardinality(At(listed, place)) = Cardinality(Here(place))
    BY <2>1, <2>2 DEF AsMany
  <2>4. ASSUME NEW i \in DOMAIN listed PROVE Here(listed[i]) # {}
    <3> DEFINE A == At(listed, listed[i])
    <3>1. i \in A
      BY DEF At
    <3>2. IsFiniteSet(A) /\ Cardinality(A) = Cardinality(Here(listed[i]))
      BY <2>3
    <3> HIDE DEF A
    <3> QED
      BY <3>1, <3>2, FS_EmptySet
  <2>5. \A place : Cardinality({i \in DOMAIN listed : listed[i] = place}) = Cardinality(Here(place))
    BY <2>3 DEF At
  <2> QED
    BY <2>4, <2>5 DEF listed, Here
<1> QED
  BY <1>2, Invariant, PTL
=============================================================================
