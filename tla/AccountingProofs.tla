-------------------------- MODULE AccountingProofs --------------------------
(***************************************************************************)
(* What the goroutines leave in the state they share, for any goroutines,  *)
(* any work and any schedule.  Every statement is an equation with what is *)
(* still owed: what has been saved or counted, and what the calls and the  *)
(* work that are left will add, make up the whole.                         *)
(***************************************************************************)
EXTENDS Accounting, Folding

CallSet ==
  [op : {"found", "parsed"}, of : Files, by : {1}] \union
  [op : {"save"}, of : Documents, by : {1}] \union
  [op : {"add", "lockAdd"}, of : Counter, by : Int]

Typed ==
  /\ scenario \in [Goroutines -> Seq(Works)]
  /\ left \in [Goroutines -> Seq(Works)]
  /\ calls \in [Goroutines -> Seq(CallSet)]
  /\ seen \subseteq Goroutines
  /\ value \in [Goroutines -> Int]
  /\ header \in [Goroutines -> SUBSET Documents]
  /\ mutex \in Goroutines \union {Nobody}
  /\ count \in [Counter -> Int]
  /\ foundBag \in [Files -> Nat] /\ parsedBag \in [Files -> Nat]
  /\ FoundFiles \in Nat /\ ParsedFiles \in Nat
  /\ allFiles \subseteq Documents
  /\ files \in [Goroutines -> Seq(Documents)]
  /\ raced \subseteq Counter \union {"allFiles"}

(* A goroutine between the read and the write of a call still has that call. *)
Between == \A g \in seen : calls[g] # <<>> /\ Call(g).op \in {"add", "lockAdd", "save"}

-----------------------------------------------------------------------------
(* What the services have saved is typed like the documents they read. *)
LEMMA MarshallableTyped ==
  ASSUME NEW docs \in Seq(Documents)
  PROVE  Marshallable(docs) \in Seq(Documents)
<1> DEFINE D == Documents
           kept == [i \in DOMAIN docs |-> IF Marshals(docs[i]) THEN <<docs[i]>> ELSE <<>>]
<1>1. DOMAIN docs = 1 .. Len(docs) /\ Len(docs) \in Nat /\ \A i \in 1 .. Len(docs) : docs[i] \in D
  OBVIOUS
<1>2. \A i \in 1 .. Len(docs) : (IF Marshals(docs[i]) THEN <<docs[i]>> ELSE <<>>) \in Seq(D)
  BY <1>1
<1>3. kept \in Seq(Seq(D))
  BY <1>1, <1>2
<1> HIDE DEF kept, D
<1>4. FlattenSeq(kept) \in Seq(D)
  BY <1>3, FlattenType
<1> QED
  BY <1>4 DEF Marshallable, kept, D

(* What a service should be given is typed too. *)
LEMMA OwnTyped == \A w \in Works : Own(w) \in Seq(Documents)
<1>1. <<>> \in Seq(Documents)
  OBVIOUS
<1>2. \A f \in Files : File[f].docs \in Seq(Documents)
  BY FilesTyped
<1> QED
  BY <1>1, <1>2, MarshallableTyped DEF Own

(* the calls of the second half of sink, in three parts *)
Saves(f) == [i \in DOMAIN Saved(f) |-> Save(Saved(f)[i])]
After(f) == <<Parsed(f), Add("ParsedCountLines", File[f].total - File[f].ignored),
              Add("IgnoreCountLines", File[f].ignored)>>

(* sink makes three runs of calls: up to the lines it found, the saves, the rest. *)
LEMMA SinkParts ==
  ASSUME NEW f \in Files
  PROVE  /\ Saved(f) \in Seq(Documents) /\ Saves(f) \in Seq(CallSet) /\ DOMAIN Saves(f) = DOMAIN Saved(f)
         /\ After(f) \in Seq(CallSet)
         /\ Found(f) \in CallSet /\ Parsed(f) \in CallSet
         /\ Add("FoundCountLines", File[f].resolved) \in CallSet
         /\ Add("FoundCountLines", IF File[f].readable THEN File[f].lines ELSE 0) \in CallSet
         /\ Add("FoundResources", IF File[f].readable THEN File[f].resources ELSE 0) \in CallSet
         /\ Add("ParsedCountLines", File[f].total - File[f].ignored) \in CallSet
         /\ Add("IgnoreCountLines", File[f].ignored) \in CallSet
<1>0. /\ File[f].lines \in Nat /\ File[f].resources \in Nat /\ File[f].resolved \in Nat
      /\ File[f].total \in Nat /\ File[f].ignored \in Nat /\ File[f].docs \in Seq(Documents)
  BY FilesTyped
<1>1. \A c \in Counter : \A n \in Int : Add(c, n) \in CallSet /\ LockAdd(c, n) \in CallSet
  BY DEF CallSet, Add, LockAdd
<1>2. Found(f) \in CallSet /\ Parsed(f) \in CallSet /\ \A d \in Documents : Save(d) \in CallSet
  BY DEF CallSet, Found, Parsed, Save
<1>3. Saved(f) \in Seq(Documents)
  BY <1>0, MarshallableTyped DEF Saved
<1>4. Saves(f) \in Seq(CallSet) /\ DOMAIN Saves(f) = DOMAIN Saved(f)
  <2>1. DOMAIN Saved(f) = 1 .. Len(Saved(f)) /\ Len(Saved(f)) \in Nat
        /\ \A i \in 1 .. Len(Saved(f)) : Saved(f)[i] \in Documents
    BY <1>3
  <2>2. \A i \in 1 .. Len(Saved(f)) : Save(Saved(f)[i]) \in CallSet
    BY <1>2, <2>1
  <2> QED
    BY <2>1, <2>2 DEF Saves
<1>5. {"FoundCountLines", "FoundResources", "ParsedCountLines", "IgnoreCountLines"} \subseteq Counter
  BY DEF Counter
<1>6. /\ After(f) \in Seq(CallSet) 
      /\ Add("ParsedCountLines", File[f].total - File[f].ignored) \in CallSet
      /\ Add("IgnoreCountLines", File[f].ignored) \in CallSet
  <2>1. /\ Parsed(f) \in CallSet /\ Add("ParsedCountLines", File[f].total - File[f].ignored) \in CallSet
        /\ Add("IgnoreCountLines", File[f].ignored) \in CallSet
    BY <1>0, <1>1, <1>2, <1>5
  <2> QED
    BY <2>1 DEF After
<1>7. Add("FoundCountLines", File[f].resolved) \in CallSet
  BY <1>0, <1>1, <1>5
<1>8. /\ Add("FoundCountLines", IF File[f].readable THEN File[f].lines ELSE 0) \in CallSet
      /\ Add("FoundResources", IF File[f].readable THEN File[f].resources ELSE 0) \in CallSet
  BY <1>0, <1>1, <1>5
<1> QED
  BY <1>2, <1>3, <1>4, <1>6, <1>7, <1>8

(* The calls of a query. *)
LEMMA RunTyped == \A q \in Queries : RunCalls(q) \in Seq(CallSet)
<1> SUFFICES ASSUME NEW q \in Queries PROVE RunCalls(q) \in Seq(CallSet)
  OBVIOUS
<1>1. Query[q].aggregation \in Nat /\ Query[q].outcome \in {"ok", "failed", "undetected"}
  BY QueriesTyped
<1>2. Add("ExecutedQueries", -1) \in CallSet /\ LockAdd("ExecutedQueries", Query[q].aggregation) \in CallSet
  BY <1>1 DEF CallSet, Add, LockAdd, Counter
<1>3. CASE Query[q].outcome = "failed"
  BY <1>3 DEF RunCalls
<1>4. CASE Query[q].outcome = "undetected"
  BY <1>2, <1>4 DEF RunCalls
<1>5. CASE Query[q].outcome = "ok"
  BY <1>2, <1>5 DEF RunCalls
<1> QED
  BY <1>1, <1>3, <1>4, <1>5

(* The calls of a piece of work. *)
LEMMA WorkTyped == \A w \in Works : WorkCalls(w) \in Seq(CallSet)
<1>1. ASSUME NEW f \in Files PROVE SinkCalls(f) \in Seq(CallSet)
  <2>1. ParsedCalls(f) = IF ~Parses(f) THEN <<>>
                         ELSE <<Add("FoundCountLines", File[f].resolved)>> \o Saves(f) \o After(f)
    BY DEF ParsedCalls, Saves, After
  <2>2. <<>> \in Seq(CallSet)
    OBVIOUS
  <2>3. ParsedCalls(f) \in Seq(CallSet)
    BY <2>1, <2>2, SinkParts, ConcatProperties
  <2> QED
    BY <2>3, SinkParts, ConcatProperties DEF SinkCalls
<1> QED
  BY <1>1, RunTyped DEF WorkCalls, Works
-----------------------------------------------------------------------------
(* What is still owed by the calls s and the work u: m says what a call   *)
(* adds, sh what a piece of work adds in all.                               *)
Owes(s, u, m, sh) == SumFunction(Each(s, m)) + SumFunction(Each(u, sh))

AllOwed(m, sh) ==
  SumFunctionOnSet([g \in Goroutines |-> Owes(calls[g], left[g], m, sh)], Goroutines)

(* The calls of a piece of work add up to its share. *)
Settles(m, sh) ==
  /\ m \in [CallSet -> Int] /\ sh \in [Works -> Int]
  /\ \A w \in Works : SumFunction(Each(WorkCalls(w), m)) = sh[w]

(* Total, in the terms of what is owed *)
LEMMA TotalOfEach ==
  ASSUME Typed, NEW B, NEW sh \in [Works -> B]
  PROVE  /\ Total(sh) = SumFunctionOnSet([g \in Goroutines |-> SumFunction(Each(scenario[g], sh))], Goroutines)
         /\ \A g \in Goroutines : /\ Each(scenario[g], sh) \in Seq(B)
                                  /\ DOMAIN Each(scenario[g], sh) = DOMAIN scenario[g]
                                  /\ IsFiniteSet(DOMAIN scenario[g])
<1>1. ASSUME NEW g \in Goroutines
      PROVE  /\ Each(scenario[g], sh) \in Seq(B) /\ DOMAIN Each(scenario[g], sh) = DOMAIN scenario[g]
             /\ IsFiniteSet(DOMAIN scenario[g])
  <2> DEFINE s == scenario[g]
  <2>1. s \in Seq(Works)
    BY DEF Typed
  <2> HIDE DEF s
  <2>2. DOMAIN s = 1 .. Len(s) /\ Len(s) \in Int
    BY <2>1
  <2>3. IsFiniteSet(DOMAIN s)
    BY <2>2, FS_Interval
  <2>4. Each(s, sh) \in Seq(B) /\ DOMAIN Each(s, sh) = DOMAIN s
    BY <2>1, EachType
  <2> QED
    BY <2>3, <2>4 DEF s
<1> QED
  BY <1>1 DEF Total, Each

(* The total of values that are not below zero is none below any of them. *)
LEMMA TotalNotNegative ==
  ASSUME Typed, NEW sh \in [Works -> Nat]
  PROVE  /\ Total(sh) \in Nat
         /\ \A g \in Goroutines : \A i \in DOMAIN scenario[g] : sh[scenario[g][i]] <= Total(sh)
<1> DEFINE N == Nat
           a == [g \in Goroutines |-> SumFunction(Each(scenario[g], sh))]
<1>1. sh \in [Works -> N]
  OBVIOUS
<1>2. ASSUME NEW g \in Goroutines
      PROVE  /\ a[g] \in Nat
             /\ \A i \in DOMAIN scenario[g] : sh[scenario[g][i]] \in Nat /\ sh[scenario[g][i]] <= a[g]
  <2>1. Each(scenario[g], sh) \in Seq(N) /\ DOMAIN Each(scenario[g], sh) = DOMAIN scenario[g]
    <3> HIDE DEF N
    <3> QED
      BY <1>1, TotalOfEach
  <2>2. a[g] \in Nat /\ \A i \in DOMAIN Each(scenario[g], sh) : Each(scenario[g], sh)[i] <= a[g]
    BY <2>1, TotalNatural
  <2>3. \A i \in DOMAIN scenario[g] : /\ Each(scenario[g], sh)[i] = sh[scenario[g][i]]
                                      /\ scenario[g][i] \in Works
    BY DEF Each, Typed
  <2> QED
    BY <1>1, <2>1, <2>2, <2>3
<1>3. Total(sh) = SumFunctionOnSet(a, Goroutines)
  <2>1. a = [g \in Goroutines |-> SumFunction(Each(scenario[g], sh))]
    OBVIOUS
  <2> HIDE DEF N, a
  <2> QED
    BY <1>1, <2>1, TotalOfEach
<1> HIDE DEF a
<1>4. Total(sh) \in Nat /\ \A g \in Goroutines : a[g] <= Total(sh)
  BY <1>2, <1>3, SumNatural, GoroutinesNamed
<1> QED
  BY <1>2, <1>4

(* The total of the sums is the sum of the totals. *)
LEMMA TotalPlus ==
  ASSUME Typed, NEW x \in [Works -> Int], NEW y \in [Works -> Int], NEW z \in [Works -> Int],
         \A w \in Works : z[w] = x[w] + y[w]
  PROVE  Total(z) = Total(x) + Total(y)
<1> DEFINE Sums(sh) == [g \in Goroutines |-> SumFunction(Each(scenario[g], sh))]
           a == Sums(x)
           b == Sums(y)
           c == Sums(z)
<1>1. ASSUME NEW g \in Goroutines
      PROVE  a[g] \in Int /\ b[g] \in Int /\ c[g] = a[g] + b[g]
  <2> DEFINE s == scenario[g]
             e == Each(s, x)
             f == Each(s, y)
             h == Each(s, z)
  <2>1. s \in Seq(Works) /\ IsFiniteSet(DOMAIN s)
    BY TotalOfEach DEF Typed
  <2>2. e \in Seq(Int) /\ f \in Seq(Int) /\ DOMAIN e = DOMAIN s /\ DOMAIN f = DOMAIN s /\ DOMAIN h = DOMAIN s
    BY TotalOfEach
  <2>3. \A i \in DOMAIN s : e[i] \in Int /\ f[i] \in Int /\ h[i] = e[i] + f[i]
    <3> HIDE DEF s
    <3>1. \A i \in DOMAIN s : s[i] \in Works
      BY <2>1
    <3> QED
      BY <3>1 DEF Each
  <2> HIDE DEF s, e, f, h
  <2>4. SumFunctionOnSet(h, DOMAIN s) = SumFunctionOnSet(e, DOMAIN s) + SumFunctionOnSet(f, DOMAIN s)
    BY <2>1, <2>3, SumPlus
  <2>5. SumFunction(h) = SumFunction(e) + SumFunction(f) /\ SumFunction(e) \in Int /\ SumFunction(f) \in Int
    BY <2>2, <2>4, TotalType DEF SumFunction
  <2> QED
    BY <2>5 DEF s, e, f, h
<1>2. Total(x) = SumFunctionOnSet(a, Goroutines) /\ Total(y) = SumFunctionOnSet(b, Goroutines)
      /\ Total(z) = SumFunctionOnSet(c, Goroutines)
  BY TotalOfEach
<1> HIDE DEF a, b, c
<1> QED
  BY <1>1, <1>2, SumPlus, GoroutinesNamed

(* A total of integers is an integer. *)
LEMMA TotalTyped ==
  ASSUME Typed, NEW sh \in [Works -> Int]
  PROVE  Total(sh) \in Int
<1> DEFINE a == [g \in Goroutines |-> SumFunction(Each(scenario[g], sh))]
<1>1. \A g \in Goroutines : a[g] \in Int
  BY TotalOfEach, TotalType
<1>2. Total(sh) = SumFunctionOnSet(a, Goroutines)
  BY TotalOfEach
<1> HIDE DEF a
<1> QED
  BY <1>1, <1>2, SumType, GoroutinesNamed

(* What a goroutine owes is an integer. *)
LEMMA OwesType ==
  ASSUME NEW m \in [CallSet -> Int], NEW sh \in [Works -> Int],
         NEW s \in Seq(CallSet), NEW u \in Seq(Works)
  PROVE  /\ SumFunction(Each(s, m)) \in Int /\ SumFunction(Each(u, sh)) \in Int
         /\ Owes(s, u, m, sh) \in Int
<1>1. Each(s, m) \in Seq(Int) /\ Each(u, sh) \in Seq(Int)
  BY EachType
<1> QED
  BY <1>1, TotalType DEF Owes

(* What all of them owe is one too. *)
LEMMA AllOwedType ==
  ASSUME Typed, NEW m \in [CallSet -> Int], NEW sh \in [Works -> Int]
  PROVE  AllOwed(m, sh) \in Int
<1>1. \A g \in Goroutines : Owes(calls[g], left[g], m, sh) \in Int
  BY OwesType DEF Typed
<1> QED
  BY <1>1, SumType, GoroutinesNamed DEF AllOwed

(* When one goroutine goes on, what all owe changes by what it owes less. *)
LEMMA OwedChange ==
  ASSUME Typed, Typed', NEW m \in [CallSet -> Int], NEW sh \in [Works -> Int], NEW g \in Goroutines,
         \A h \in Goroutines \ {g} : calls'[h] = calls[h] /\ left'[h] = left[h]
  PROVE  AllOwed(m, sh)' = AllOwed(m, sh) - Owes(calls[g], left[g], m, sh)
                                     + Owes(calls'[g], left'[g], m, sh)
<1> DEFINE a == [h \in Goroutines |-> Owes(calls[h], left[h], m, sh)]
           b == [h \in Goroutines |-> Owes(calls'[h], left'[h], m, sh)]
<1>1. \A h \in Goroutines : a[h] \in Int /\ b[h] \in Int
  BY OwesType DEF Typed
<1>2. \A h \in Goroutines \ {g} : b[h] = a[h]
  OBVIOUS
<1>3. SumFunctionOnSet(b, Goroutines) = SumFunctionOnSet(a, Goroutines) - a[g] + b[g]
  <2> HIDE DEF a, b
  <2> QED
    BY <1>1, <1>2, SumChange, GoroutinesNamed
<1> QED
  BY <1>3 DEF AllOwed

(* To begin a piece of work changes nothing. *)
LEMMA OwedBegin ==
  ASSUME Typed, Typed', NEW m, NEW sh, Settles(m, sh), NEW g \in Goroutines, Begin(g)
  PROVE  AllOwed(m, sh)' = AllOwed(m, sh)
<1> DEFINE w == Head(left[g])
           u == Tail(left[g])
<1>0. m \in [CallSet -> Int] /\ sh \in [Works -> Int]
  BY DEF Settles
<1>1. /\ calls[g] = <<>> /\ left[g] # <<>> /\ left[g] \in Seq(Works) /\ calls[g] \in Seq(CallSet)
      /\ calls'[g] = WorkCalls(w) /\ left'[g] = u
      /\ \A h \in Goroutines \ {g} : calls'[h] = calls[h] /\ left'[h] = left[h]
  BY DEF Begin, Typed
<1>2. w \in Works /\ u \in Seq(Works)
  BY <1>1
<1> HIDE DEF w, u
<1>3. AllOwed(m, sh)' = AllOwed(m, sh) - Owes(calls[g], left[g], m, sh)
                                  + Owes(WorkCalls(w), u, m, sh)
  BY <1>0, <1>1, OwedChange
<1>4. Owes(calls[g], left[g], m, sh) = sh[w] + SumFunction(Each(u, sh))
  <2>1. SumFunction(Each(calls[g], m)) = 0
    BY <1>1, EachEmpty, TotalEmpty
  <2>3. SumFunction(Each(left[g], sh)) = sh[w] + SumFunction(Each(u, sh))
    BY <1>0, <1>1, TotalEachHead DEF w, u
  <2>4. SumFunction(Each(left[g], sh)) \in Int
    BY <1>0, <1>1, OwesType
  <2> QED
    BY <2>1, <2>3, <2>4 DEF Owes
<1>5. Owes(WorkCalls(w), u, m, sh) = sh[w] + SumFunction(Each(u, sh))
  BY <1>2 DEF Settles, Owes
<1>6. AllOwed(m, sh) \in Int /\ Owes(WorkCalls(w), u, m, sh) \in Int
  BY <1>0, <1>2, AllOwedType, OwesType, WorkTyped
<1> QED
  BY <1>3, <1>4, <1>5, <1>6

(* A call that is over has added its amount. *)
LEMMA OwedOver ==
  ASSUME Typed, Typed', NEW m \in [CallSet -> Int], NEW sh \in [Works -> Int], NEW g \in Goroutines,
         calls[g] # <<>>, Over(g), left' = left
  PROVE  AllOwed(m, sh)' = AllOwed(m, sh) - m[Call(g)] /\ Call(g) \in CallSet
<1> DEFINE s == Tail(calls[g])
           k == Call(g)
<1>1. /\ left[g] \in Seq(Works) /\ calls[g] \in Seq(CallSet)
      /\ calls'[g] = s /\ left'[g] = left[g] /\ k = Head(calls[g])
      /\ \A h \in Goroutines \ {g} : calls'[h] = calls[h] /\ left'[h] = left[h]
  BY DEF Over, Typed, Call
<1>2. k \in CallSet /\ s \in Seq(CallSet)
  BY <1>1
<1> HIDE DEF k, s
<1>3. AllOwed(m, sh)' = AllOwed(m, sh) - Owes(calls[g], left[g], m, sh)
                                  + Owes(s, left[g], m, sh)
  BY <1>1, OwedChange
<1>4. Owes(calls[g], left[g], m, sh) = m[k] + Owes(s, left[g], m, sh)
  <2>3. SumFunction(Each(calls[g], m)) = m[k] + SumFunction(Each(s, m))
    BY <1>1, TotalEachHead DEF s
  <2>4. m[k] \in Int /\ SumFunction(Each(s, m)) \in Int /\ SumFunction(Each(left[g], sh)) \in Int
    BY <1>1, <1>2, OwesType
  <2> QED
    BY <2>3, <2>4 DEF Owes
<1>5. AllOwed(m, sh) \in Int /\ Owes(s, left[g], m, sh) \in Int /\ m[k] \in Int
  BY <1>1, <1>2, AllOwedType, OwesType
<1> QED
  BY <1>2, <1>3, <1>4, <1>5 DEF k

(* A goroutine that neither begins nor ends a call owes what it owed. *)
LEMMA OwedSame ==
  ASSUME calls' = calls, left' = left, NEW m, NEW sh
  PROVE  AllOwed(m, sh)' = AllOwed(m, sh)
  BY DEF AllOwed

(* At first all is owed, and at the end nothing is. *)
LEMMA OwedFirst ==
  ASSUME Init, NEW m \in [CallSet -> Int], NEW sh \in [Works -> Int]
  PROVE  AllOwed(m, sh) = Total(sh)
<1> DEFINE a == [h \in Goroutines |-> Owes(calls[h], left[h], m, sh)]
           b == [h \in Goroutines |-> SumFunction([i \in DOMAIN scenario[h] |-> sh[scenario[h][i]]])]
<1>1. ASSUME NEW h \in Goroutines PROVE a[h] = b[h]
  <2>1. calls[h] = <<>> /\ left[h] = scenario[h] /\ left[h] \in Seq(Works)
    BY ScenariosTyped DEF Init
  <2>2. SumFunction(Each(calls[h], m)) = 0
    BY <2>1, EachEmpty, TotalEmpty
  <2>3. <<>> \in Seq(CallSet)
    OBVIOUS
  <2>4. SumFunction(Each(left[h], sh)) \in Int
    BY <2>1, <2>3, OwesType
  <2>5. a[h] = SumFunction(Each(left[h], sh))
    BY <2>2, <2>4 DEF Owes
  <2> QED
    BY <2>1, <2>5 DEF Each
<1> HIDE DEF a, b
<1>2. SumFunctionOnSet(a, Goroutines) = SumFunctionOnSet(b, Goroutines)
  BY <1>1, SumEqual, GoroutinesNamed
<1> QED
  BY <1>2 DEF AllOwed, Total, a, b

(* At the end nothing is owed. *)
LEMMA OwedLast ==
  ASSUME Finished, NEW m, NEW sh
  PROVE  AllOwed(m, sh) = 0
<1> DEFINE a == [h \in Goroutines |-> Owes(calls[h], left[h], m, sh)]
<1>1. ASSUME NEW h \in Goroutines PROVE a[h] = 0
  <2>1. /\ calls[h] = <<>> /\ left[h] = <<>>
        /\ SumFunction(Each(<<>>, m)) = 0 /\ SumFunction(Each(<<>>, sh)) = 0
    BY EachEmpty, TotalEmpty DEF Finished
  <2> QED
    BY <2>1 DEF Owes
<1> HIDE DEF a
<1>2. SumFunctionOnSet(a, Goroutines) = 0
  BY <1>1, SumZero, GoroutinesNamed
<1> QED
  BY <1>2 DEF AllOwed, a
-----------------------------------------------------------------------------
(* What a call adds to counter c, and what a piece of work adds to it in all:  *)
(* with its sign, or, when up, without what is taken off.                      *)
Of(n, up) == IF up /\ n < 0 THEN 0 ELSE n
NetOf(k, c) == IF k.op \in {"add", "lockAdd"} /\ k.of = c THEN k.by ELSE 0
LessUnfound(w, c) == Share(w, c) - (IF c = "ExecutedQueries" THEN Unfound(w) ELSE 0)

amount(c, up) == [k \in CallSet |-> Of(NetOf(k, c), up)]
share(c, up) == [w \in Works |-> IF up THEN Most(w, c) ELSE LessUnfound(w, c)]

(* The amounts of the calls are integers. *)
LEMMA AmountTyped ==
  \A c \in Counter, up \in BOOLEAN :
    /\ amount(c, up) \in [CallSet -> Int]
    /\ \A k \in CallSet : NetOf(k, c) \in Int /\ amount(c, up)[k] = Of(NetOf(k, c), up)
<1>1. \A k \in CallSet, c \in Counter : NetOf(k, c) \in Int
  BY DEF CallSet, NetOf
<1> QED
  BY <1>1 DEF amount, Of

(* The calls of sink add up to any function of them that is zero for a save. *)
LEMMA SinkTotal ==
  ASSUME NEW f \in Files, NEW m \in [CallSet -> Int], \A d \in Documents : m[Save(d)] = 0
  PROVE  SumFunction(Each(SinkCalls(f), m)) =
           m[Found(f)] + m[Add("FoundCountLines", IF File[f].readable THEN File[f].lines ELSE 0)]
             + m[Add("FoundResources", IF File[f].readable THEN File[f].resources ELSE 0)]
             + (IF Parses(f) THEN m[Add("FoundCountLines", File[f].resolved)] + m[Parsed(f)]
                                  + m[Add("ParsedCountLines", File[f].total - File[f].ignored)]
                                  + m[Add("IgnoreCountLines", File[f].ignored)]
                ELSE 0)
<1> DEFINE a1 == Add("FoundCountLines", IF File[f].readable THEN File[f].lines ELSE 0)
           a2 == Add("FoundResources", IF File[f].readable THEN File[f].resources ELSE 0)
           a3 == Add("FoundCountLines", File[f].resolved)
           a4 == Add("ParsedCountLines", File[f].total - File[f].ignored)
           a5 == Add("IgnoreCountLines", File[f].ignored)
           first == <<Found(f), a1, a2>>
           Sigma(s) == SumFunction(Each(s, m))
<1>0. \A k \in CallSet : m[k] \in Int
  OBVIOUS
<1>2. /\ Found(f) \in CallSet /\ a1 \in CallSet /\ a2 \in CallSet /\ a3 \in CallSet
      /\ Parsed(f) \in CallSet /\ a4 \in CallSet /\ a5 \in CallSet
      /\ Saves(f) \in Seq(CallSet) /\ After(f) \in Seq(CallSet)
  BY SinkParts
<1> HIDE DEF a1, a2, a3, a4, a5
<1>1. first \in Seq(CallSet) /\ <<a3>> \in Seq(CallSet) /\ ParsedCalls(f) \in Seq(CallSet)
  <2>1. first \in Seq(CallSet) /\ <<a3>> \in Seq(CallSet)
    BY <1>2
  <2>2. ParsedCalls(f) = IF ~Parses(f) THEN <<>> ELSE <<a3>> \o Saves(f) \o After(f)
    BY DEF ParsedCalls, Saves, After, a3
  <2>3. <<>> \in Seq(CallSet)
    OBVIOUS
  <2> HIDE DEF first
  <2> QED
    BY <1>2, <2>1, <2>2, <2>3, ConcatProperties
<1>3. Sigma(first) = m[Found(f)] + m[a1] + m[a2]
  BY <1>0, <1>2, TotalEachThree
<1>4. Sigma(After(f)) = m[Parsed(f)] + m[a4] + m[a5]
  BY <1>0, <1>2, TotalEachThree DEF After, a4, a5
<1>5. Sigma(<<a3>>) = m[a3]
  BY <1>0, <1>2, TotalEachOne
<1>6. Sigma(Saves(f)) = 0
  <2>1. Saved(f) \in Seq(Documents) /\ DOMAIN Saves(f) = DOMAIN Saved(f)
    BY SinkParts
  <2>2. \A i \in DOMAIN Saved(f) : Saves(f)[i] = Save(Saved(f)[i]) /\ Saved(f)[i] \in Documents
    BY <2>1 DEF Saves
  <2>3. IsFiniteSet(DOMAIN Saves(f))
    <3>1. DOMAIN Saves(f) = 1 .. Len(Saved(f)) /\ Len(Saved(f)) \in Nat
      BY <2>1
    <3> QED
      BY <3>1, FS_Interval
  <2> QED
    BY <2>1, <2>2, <2>3, TotalEachZero
<1>7. Sigma(ParsedCalls(f)) = IF Parses(f) THEN m[a3] + m[Parsed(f)] + m[a4] + m[a5] ELSE 0
  <2>1. CASE ~Parses(f)
    <3>1. ParsedCalls(f) = <<>> /\ Sigma(<<>>) = 0
      BY <2>1, EachEmpty, TotalEmpty DEF ParsedCalls
    <3> QED
      BY <2>1, <3>1
  <2>2. CASE Parses(f)
    <3>1. ParsedCalls(f) = (<<a3>> \o Saves(f)) \o After(f)
      BY <2>2 DEF ParsedCalls, Saves, After, a3
    <3>2. <<a3>> \o Saves(f) \in Seq(CallSet)
      BY <1>1, <1>2, ConcatProperties
    <3> DEFINE both == <<a3>> \o Saves(f)
    <3>3. Sigma(both) = Sigma(<<a3>>) + Sigma(Saves(f))
      BY <1>1, <1>2, TotalEachConcat
    <3>4. Sigma(ParsedCalls(f)) = Sigma(both) + Sigma(After(f))
      <4>1. both \in Seq(CallSet) /\ ParsedCalls(f) = both \o After(f)
        BY <3>1, <3>2
      <4> HIDE DEF both
      <4> QED
        BY <1>2, <4>1, TotalEachConcat
    <3> QED
      BY <1>0, <1>2, <1>4, <1>5, <1>6, <2>2, <3>3, <3>4
  <2> QED
    BY <2>1, <2>2
<1>8. SinkCalls(f) = first \o ParsedCalls(f)
  BY DEF SinkCalls, a1, a2
<1>9. Sigma(SinkCalls(f)) = Sigma(first) + Sigma(ParsedCalls(f))
  <2> HIDE DEF first
  <2> QED
    BY <1>1, <1>8, TotalEachConcat
<1> QED
  BY <1>3, <1>7, <1>9 DEF a1, a2, a3, a4, a5

(* A query that ran adds what it aggregates, and takes one off when a line of *)
(* its results was not found.                                                 *)
LEMMA RunTotal ==
  ASSUME NEW q \in Queries, NEW m \in [CallSet -> Int]
  PROVE  LET ran == LockAdd("ExecutedQueries", Query[q].aggregation)
             off == Add("ExecutedQueries", -1)
         IN  /\ ran \in CallSet /\ off \in CallSet
             /\ SumFunction(Each(RunCalls(q), m)) =
                  (IF Query[q].outcome = "failed" THEN 0 ELSE m[ran])
                    + (IF Query[q].outcome = "undetected" THEN m[off] ELSE 0)
<1> DEFINE ran == LockAdd("ExecutedQueries", Query[q].aggregation)
           off == Add("ExecutedQueries", -1)
<1>0. Query[q].aggregation \in Nat /\ Query[q].outcome \in {"ok", "failed", "undetected"}
  BY QueriesTyped
<1>1. ran \in CallSet /\ off \in CallSet
  BY <1>0 DEF CallSet, Add, LockAdd, Counter
<1>2. m[ran] \in Int /\ m[off] \in Int
  BY <1>1
<1>3. CASE Query[q].outcome = "failed"
  <2>1. RunCalls(q) = <<>>
    BY <1>3 DEF RunCalls
  <2> HIDE DEF ran, off
  <2>2. SumFunction(Each(RunCalls(q), m)) = 0
    BY <2>1, EachEmpty, TotalEmpty
  <2> QED
    BY <1>1, <1>3, <2>2 DEF ran, off
<1>4. CASE Query[q].outcome = "ok"
  <2>1. RunCalls(q) = <<ran>>
    BY <1>4 DEF RunCalls
  <2> HIDE DEF ran, off
  <2>2. SumFunction(Each(RunCalls(q), m)) = m[ran]
    BY <1>2, <2>1, TotalEachOne
  <2> QED
    BY <1>1, <1>2, <1>4, <2>2 DEF ran, off
<1>5. CASE Query[q].outcome = "undetected"
  <2>1. RunCalls(q) = <<off, ran>>
    BY <1>5 DEF RunCalls
  <2> HIDE DEF ran, off
  <2> DEFINE s == <<off>>
             u == <<ran>>
  <2>2. <<off, ran>> = s \o u /\ s \in Seq(CallSet) /\ u \in Seq(CallSet)
    BY <1>1
  <2>4. SumFunction(Each(s, m)) = m[off] /\ SumFunction(Each(u, m)) = m[ran]
    BY <1>2, TotalEachOne
  <2> HIDE DEF s, u
  <2>3. SumFunction(Each(RunCalls(q), m)) = SumFunction(Each(s, m)) + SumFunction(Each(u, m))
    <3>1. RunCalls(q) = s \o u
      BY <2>1, <2>2
    <3>2. SumFunction(Each(s \o u, m)) = SumFunction(Each(s, m)) + SumFunction(Each(u, m))
      BY <2>2, TotalEachConcat
    <3> QED
      BY <3>1, <3>2
  <2>5. SumFunction(Each(RunCalls(q), m)) = m[ran] + m[off]
    BY <1>2, <2>3, <2>4
  <2> QED
    BY <1>1, <1>5, <2>5 DEF ran, off
<1> QED
  BY <1>0, <1>3, <1>4, <1>5

(* The share of a piece of work, written out. *)
LEMMA ShareOf ==
  ASSUME NEW c \in Counter
  PROVE  /\ \A f \in Files :
              /\ Unfound(f) = 0
              /\ c = "FoundCountLines" => Share(f, c) = (IF File[f].readable THEN File[f].lines ELSE 0) +
                                                       (IF Parses(f) THEN File[f].resolved ELSE 0)
              /\ c = "FoundResources" => Share(f, c) = IF File[f].readable THEN File[f].resources ELSE 0
              /\ c = "ParsedCountLines" => Share(f, c) = IF Parses(f) THEN File[f].total - File[f].ignored ELSE 0
              /\ c = "IgnoreCountLines" => Share(f, c) = IF Parses(f) THEN File[f].ignored ELSE 0
              /\ c = "ExecutedQueries" => Share(f, c) = 0
         /\ \A q \in Queries :
              /\ Share(q, c) = IF c = "ExecutedQueries" /\ Query[q].outcome # "failed"
                               THEN Query[q].aggregation ELSE 0
              /\ Unfound(q) = IF Query[q].outcome = "undetected" THEN 1 ELSE 0
<1>1. \A f \in Files : f \notin Queries
  BY WorkDisjoint
<1> QED
  BY <1>1 DEF Share, Unfound

(* The calls of every piece of work add up to its share, with their sign and *)
(* without.                                                                  *)
LEMMA WorkSettles == \A c \in Counter, up \in BOOLEAN : Settles(amount(c, up), share(c, up))
<1> SUFFICES ASSUME NEW c \in Counter, NEW up \in BOOLEAN PROVE Settles(amount(c, up), share(c, up))
  OBVIOUS
<1> DEFINE m == amount(c, up)
           S(w) == IF up THEN Most(w, c) ELSE LessUnfound(w, c)
<1>0. m \in [CallSet -> Int]
  BY AmountTyped
<1>1. \A k \in CallSet : m[k] = Of(NetOf(k, c), up)
  BY AmountTyped
<1> HIDE DEF m
<1>2. c \in {"FoundCountLines", "FoundResources", "ParsedCountLines", "IgnoreCountLines", "ExecutedQueries"}
  BY DEF Counter
<1>3. ASSUME NEW f \in Files
      PROVE  S(f) \in Int /\ SumFunction(Each(WorkCalls(f), m)) = S(f)
  <2>1. /\ File[f].lines \in Nat /\ File[f].resources \in Nat /\ File[f].resolved \in Nat
        /\ File[f].total \in Nat /\ File[f].ignored \in Nat
        /\ File[f].readable \in BOOLEAN /\ File[f].parses \in BOOLEAN
    BY FilesTyped
  <2>2. \A d \in Documents : m[Save(d)] = 0
    BY <1>1 DEF CallSet, Save, NetOf, Of
  <2>3. m[Found(f)] = 0 /\ m[Parsed(f)] = 0
    BY <1>1, SinkParts DEF Found, Parsed, NetOf, Of
  <2>4. /\ m[Add("FoundCountLines", IF File[f].readable THEN File[f].lines ELSE 0)] =
             IF c = "FoundCountLines" THEN (IF File[f].readable THEN File[f].lines ELSE 0) ELSE 0
        /\ m[Add("FoundResources", IF File[f].readable THEN File[f].resources ELSE 0)] =
             IF c = "FoundResources" THEN (IF File[f].readable THEN File[f].resources ELSE 0) ELSE 0
        /\ m[Add("FoundCountLines", File[f].resolved)] =
             IF c = "FoundCountLines" THEN File[f].resolved ELSE 0
        /\ m[Add("ParsedCountLines", File[f].total - File[f].ignored)] =
             IF c = "ParsedCountLines" THEN Of(File[f].total - File[f].ignored, up) ELSE 0
        /\ m[Add("IgnoreCountLines", File[f].ignored)] =
             IF c = "IgnoreCountLines" THEN File[f].ignored ELSE 0
    <3>1. \A d \in Counter, n \in Int : m[Add(d, n)] = IF c = d THEN Of(n, up) ELSE 0
      BY <1>1 DEF CallSet, Add, NetOf, Of
    <3>2. \A n \in Nat : Of(n, up) = n
      BY DEF Of
    <3>3. {"FoundCountLines", "FoundResources", "ParsedCountLines", "IgnoreCountLines"} \subseteq Counter
      BY DEF Counter
    <3>4. /\ (IF File[f].readable THEN File[f].lines ELSE 0) \in Nat
          /\ (IF File[f].readable THEN File[f].resources ELSE 0) \in Nat
          /\ File[f].total - File[f].ignored \in Int
      BY <2>1
    <3> QED
      BY <2>1, <3>1, <3>2, <3>3, <3>4
  <2>5. WorkCalls(f) = SinkCalls(f)
    BY DEF WorkCalls
  <2>6. SumFunction(Each(WorkCalls(f), m)) =
          (IF c = "FoundCountLines" THEN (IF File[f].readable THEN File[f].lines ELSE 0) ELSE 0)
            + (IF c = "FoundResources" THEN (IF File[f].readable THEN File[f].resources ELSE 0) ELSE 0)
            + (IF Parses(f) THEN (IF c = "FoundCountLines" THEN File[f].resolved ELSE 0)
                                 + (IF c = "ParsedCountLines" THEN Of(File[f].total - File[f].ignored, up) ELSE 0)
                                 + (IF c = "IgnoreCountLines" THEN File[f].ignored ELSE 0)
               ELSE 0)
    <3>1. SumFunction(Each(SinkCalls(f), m)) =
            m[Found(f)] + m[Add("FoundCountLines", IF File[f].readable THEN File[f].lines ELSE 0)]
              + m[Add("FoundResources", IF File[f].readable THEN File[f].resources ELSE 0)]
              + (IF Parses(f) THEN m[Add("FoundCountLines", File[f].resolved)] + m[Parsed(f)]
                                   + m[Add("ParsedCountLines", File[f].total - File[f].ignored)]
                                   + m[Add("IgnoreCountLines", File[f].ignored)]
                 ELSE 0)
      BY <1>0, <2>2, SinkTotal
    <3> HIDE DEF m
    <3> QED
      BY <2>1, <2>3, <2>4, <2>5, <3>1
  <2>7. Share(f, c) \in Int /\ S(f) = Of(Share(f, c), up)
    BY <1>2, <2>1, ShareOf DEF LessUnfound, Most, Of
  <2> QED
    BY <1>2, <2>1, <2>6, <2>7, ShareOf DEF Of
<1>4. ASSUME NEW q \in Queries
      PROVE  S(q) \in Int /\ SumFunction(Each(WorkCalls(q), m)) = S(q)
  <2>1. Query[q].aggregation \in Nat /\ Query[q].outcome \in {"ok", "failed", "undetected"}
    BY QueriesTyped
  <2>2. WorkCalls(q) = RunCalls(q)
    BY WorkDisjoint DEF WorkCalls
  <2>3. LockAdd("ExecutedQueries", Query[q].aggregation) \in CallSet /\ Add("ExecutedQueries", -1) \in CallSet
    BY <1>0, RunTotal
  <2>4. /\ m[LockAdd("ExecutedQueries", Query[q].aggregation)] =
             IF c = "ExecutedQueries" THEN Query[q].aggregation ELSE 0
        /\ m[Add("ExecutedQueries", -1)] = IF c = "ExecutedQueries" THEN Of(-1, up) ELSE 0
    BY <1>1, <2>1, <2>3 DEF LockAdd, Add, NetOf, Of
  <2>5. SumFunction(Each(RunCalls(q), m)) =
          (IF Query[q].outcome = "failed" THEN 0
           ELSE IF c = "ExecutedQueries" THEN Query[q].aggregation ELSE 0)
            + (IF Query[q].outcome = "undetected" THEN (IF c = "ExecutedQueries" THEN Of(-1, up) ELSE 0) ELSE 0)
    BY <1>0, <2>4, RunTotal
  <2> QED
    BY <1>2, <2>1, <2>2, <2>5, ShareOf DEF LessUnfound, Most, Of
<1>5. \A w \in Works : S(w) \in Int /\ SumFunction(Each(WorkCalls(w), m)) = S(w)
  BY <1>3, <1>4 DEF Works
<1>6. share(c, up) \in [Works -> Int] /\ \A w \in Works : share(c, up)[w] = S(w)
  BY <1>5 DEF share
<1> QED
  BY <1>0, <1>5, <1>6 DEF Settles, m
-----------------------------------------------------------------------------
(* What a call saves, and what a service is to be given of a piece of work. *)
kept == [k \in CallSet |-> IF k.op = "save" THEN <<k.of>> ELSE <<>>]
owned == [w \in Works |-> Own(w)]

(* what the calls s and the work u will still save *)
Unsaved(s, u) == FlattenSeq(Each(s, kept)) \o FlattenSeq(Each(u, owned))

(* What a call keeps is a sequence of documents. *)
LEMMA KeptTyped ==
  /\ kept \in [CallSet -> Seq(Documents)] /\ owned \in [Works -> Seq(Documents)]
  /\ \A k \in CallSet : kept[k] = IF k.op = "save" THEN <<k.of>> ELSE <<>>
<1>1. \A k \in CallSet : k.op = "save" => <<k.of>> \in Seq(Documents)
  BY DEF CallSet
<1>2. <<>> \in Seq(Documents)
  OBVIOUS
<1>3. kept \in [CallSet -> Seq(Documents)]
  BY <1>1, <1>2 DEF kept
<1> QED
  BY <1>3, OwnTyped DEF kept, owned

(* What a goroutine has still to save. *)
LEMMA UnsavedTyped ==
  ASSUME NEW s \in Seq(CallSet), NEW u \in Seq(Works)
  PROVE  /\ FlattenSeq(Each(s, kept)) \in Seq(Documents) /\ FlattenSeq(Each(u, owned)) \in Seq(Documents)
         /\ Unsaved(s, u) \in Seq(Documents)
<1> DEFINE B == Seq(Documents)
<1>1. Each(s, kept) \in Seq(B) /\ Each(u, owned) \in Seq(B)
  <2>1. kept \in [CallSet -> B] /\ owned \in [Works -> B]
    BY KeptTyped
  <2> HIDE DEF B
  <2> QED
    BY <2>1, EachType
<1>2. FlattenSeq(Each(s, kept)) \in Seq(Documents) /\ FlattenSeq(Each(u, owned)) \in Seq(Documents)
  BY <1>1, FlattenType
<1> QED
  BY <1>2, ConcatProperties DEF Unsaved

(* The calls of a piece of work save what the service is to be given of it. *)
LEMMA WorkSaves == \A w \in Works : FlattenSeq(Each(WorkCalls(w), kept)) = Own(w)
<1> DEFINE Kept(s) == FlattenSeq(Each(s, kept))
<1>0. kept \in [CallSet -> Seq(Documents)]
  BY KeptTyped
<1>1. ASSUME NEW f \in Files PROVE Kept(SinkCalls(f)) = Own(f)
  <2> DEFINE a1 == Add("FoundCountLines", IF File[f].readable THEN File[f].lines ELSE 0)
             a2 == Add("FoundResources", IF File[f].readable THEN File[f].resources ELSE 0)
             a3 == Add("FoundCountLines", File[f].resolved)
             a4 == Add("ParsedCountLines", File[f].total - File[f].ignored)
             a5 == Add("IgnoreCountLines", File[f].ignored)
             first == <<Found(f), a1, a2>>
             one == <<a3>>
  <2>1. /\ Found(f) \in CallSet /\ a1 \in CallSet /\ a2 \in CallSet /\ a3 \in CallSet
        /\ Parsed(f) \in CallSet /\ a4 \in CallSet /\ a5 \in CallSet
        /\ Saves(f) \in Seq(CallSet) /\ After(f) \in Seq(CallSet)
        /\ Saved(f) \in Seq(Documents) /\ DOMAIN Saves(f) = DOMAIN Saved(f)
    BY SinkParts
  <2>2. /\ kept[Found(f)] = <<>> /\ kept[a1] = <<>> /\ kept[a2] = <<>> /\ kept[a3] = <<>>
        /\ kept[Parsed(f)] = <<>> /\ kept[a4] = <<>> /\ kept[a5] = <<>>
    BY <2>1, KeptTyped DEF Found, Parsed, Add
  <2> HIDE DEF a1, a2, a3, a4, a5
  <2>3. Kept(first) = <<>> /\ Kept(one) = <<>>
    BY <2>2, FlattenEachNone
  <2>4. Kept(After(f)) = <<>>
    BY <2>2, FlattenEachNone DEF After, a4, a5
  <2>5. Kept(Saves(f)) = Saved(f)
    <3>1. \A i \in DOMAIN Saved(f) : kept[Saves(f)[i]] = <<Saved(f)[i]>>
      <4>1. \A i \in DOMAIN Saves(f) : Saves(f)[i] = Save(Saved(f)[i]) /\ Saves(f)[i] \in CallSet
        BY <2>1 DEF Saves
      <4> QED
        BY <2>1, <4>1, KeptTyped DEF Save
    <3>2. Each(Saves(f), kept) = [i \in DOMAIN Saved(f) |-> <<Saved(f)[i]>>]
      BY <2>1, <3>1 DEF Each
    <3> QED
      BY <2>1, <3>2, FlattenSingletons
  <2>6. first \in Seq(CallSet) /\ one \in Seq(CallSet)
    BY <2>1
  <2>7. SinkCalls(f) = first \o ParsedCalls(f)
    BY DEF SinkCalls, a1, a2
  <2>8. ParsedCalls(f) = IF ~Parses(f) THEN <<>> ELSE (one \o Saves(f)) \o After(f)
    BY DEF ParsedCalls, Saves, After, a3
  <2> HIDE DEF first, one
  <2>9. /\ one \o Saves(f) \in Seq(CallSet) /\ (one \o Saves(f)) \o After(f) \in Seq(CallSet)
        /\ <<>> \in Seq(CallSet)
    BY <2>1, <2>6, ConcatProperties
  <2>10. Kept(ParsedCalls(f)) = IF Parses(f) THEN Saved(f) ELSE <<>>
    <3>1. CASE ~Parses(f)
      BY <2>8, <3>1, EachEmpty, FlattenEmpty
    <3>2. CASE Parses(f)
      <4>1. Kept(one \o Saves(f)) = Kept(one) \o Kept(Saves(f))
        <5> DEFINE v == Saves(f)
        <5>1. v \in Seq(CallSet) /\ one \in Seq(CallSet)
          BY <2>1, <2>6
        <5> HIDE DEF v
        <5>2. Kept(one \o v) = Kept(one) \o Kept(v)
          BY <1>0, <5>1, FlattenEachConcat
        <5> QED
          BY <5>2 DEF v
      <4> DEFINE both == one \o Saves(f)
      <4>2. both \in Seq(CallSet) /\ ParsedCalls(f) = both \o After(f)
        BY <2>8, <2>9, <3>2
      <4> HIDE DEF both
      <4>3. Kept(ParsedCalls(f)) = Kept(both) \o Kept(After(f))
        BY <1>0, <2>1, <4>2, FlattenEachConcat
      <4>4. <<>> \o Saved(f) = Saved(f) /\ Saved(f) \o <<>> = Saved(f)
        BY <2>1, ConcatEmptySeq
      <4> QED
        BY <2>3, <2>4, <2>5, <3>2, <4>1, <4>3, <4>4 DEF both
    <3> QED
      BY <3>1, <3>2
  <2>11. ParsedCalls(f) \in Seq(CallSet)
    BY <2>8, <2>9
  <2>12. Kept(SinkCalls(f)) = Kept(first) \o Kept(ParsedCalls(f))
    BY <1>0, <2>6, <2>7, <2>11, FlattenEachConcat
  <2>13. <<>> \o Saved(f) = Saved(f) /\ <<>> \o <<>> = <<>>
    BY <2>1, ConcatEmptySeq
  <2> QED
    BY <2>3, <2>10, <2>12, <2>13 DEF Own, Saved
<1>2. ASSUME NEW q \in Queries PROVE Kept(RunCalls(q)) = <<>>
  <2> DEFINE ran == LockAdd("ExecutedQueries", Query[q].aggregation)
             off == Add("ExecutedQueries", -1)
             r == <<ran>>
             o == <<off>>
  <2>1. ran \in CallSet /\ off \in CallSet /\ Query[q].outcome \in {"ok", "failed", "undetected"}
    BY <1>0, RunTotal, AmountTyped, QueriesTyped DEF Counter
  <2>2. kept[ran] = <<>> /\ kept[off] = <<>>
    BY <2>1, KeptTyped DEF Add, LockAdd
  <2>3. RunCalls(q) \in {<<>>, r, <<off, ran>>}
    <3>1. CASE Query[q].outcome = "failed"
      BY <3>1 DEF RunCalls
    <3>2. CASE Query[q].outcome = "ok"
      BY <3>2 DEF RunCalls
    <3>3. CASE Query[q].outcome = "undetected"
      BY <3>3 DEF RunCalls
    <3> QED
      BY <2>1, <3>1, <3>2, <3>3
  <2> HIDE DEF ran, off
  <2>4. Kept(r) = <<>> /\ Kept(o) = <<>>
    BY <2>2, FlattenEachNone
  <2>5. <<off, ran>> = o \o r /\ r \in Seq(CallSet) /\ o \in Seq(CallSet)
    BY <2>1
  <2> HIDE DEF r, o
  <2>6. Kept(o \o r) = Kept(o) \o Kept(r)
    BY <1>0, <2>5, FlattenEachConcat
  <2>7. <<>> \o <<>> = <<>> /\ Kept(<<>>) = <<>>
    BY EachEmpty, FlattenEmpty
  <2> QED
    BY <2>3, <2>4, <2>5, <2>6, <2>7
<1>3. \A q \in Queries : Own(q) = <<>> /\ WorkCalls(q) = RunCalls(q)
  BY WorkDisjoint DEF Own, WorkCalls
<1>4. \A f \in Files : WorkCalls(f) = SinkCalls(f)
  BY DEF WorkCalls
<1> HIDE DEF Kept
<1>5. \A w \in Works : Kept(WorkCalls(w)) = Own(w)
  BY <1>1, <1>2, <1>3, <1>4 DEF Works
<1> QED
  BY <1>5 DEF Kept
-----------------------------------------------------------------------------
(* The state is typed, and a call in the middle is still there. *)
LEMMA TypedFirst == Init => Typed /\ Between
<1> SUFFICES ASSUME Init PROVE Typed /\ Between
  OBVIOUS
<1>1. scenario \in [Goroutines -> Seq(Works)]
  BY ScenariosTyped DEF Init
<1>2. <<>> \in Seq(CallSet) /\ <<>> \in Seq(Documents)
  OBVIOUS
<1> QED
  BY <1>1, <1>2 DEF Init, Typed, Between

(* The call a goroutine makes, and what is left after it. *)
LEMMA CallTyped ==
  ASSUME Typed, NEW g \in Goroutines, calls[g] # <<>>
  PROVE  /\ Call(g) \in CallSet /\ Tail(calls[g]) \in Seq(CallSet)
         /\ Call(g).op \in {"found", "parsed"} => Call(g).of \in Files
         /\ Call(g).op = "save" => Call(g).of \in Documents
         /\ Call(g).op \in {"add", "lockAdd"} => Call(g).of \in Counter /\ Call(g).by \in Int
<1>1. calls[g] \in Seq(CallSet)
  BY DEF Typed
<1>2. Call(g) \in CallSet /\ Tail(calls[g]) \in Seq(CallSet)
  BY <1>1 DEF Call
<1> QED
  BY <1>2 DEF CallSet

(* A step of one goroutine leaves the others where they are. *)
LEMMA OthersStay ==
  ASSUME Typed, NEW g \in Goroutines, Step(g)
  PROVE  /\ scenario' = scenario /\ raced \subseteq raced'
         /\ \A h \in Goroutines \ {g} :
              /\ calls'[h] = calls[h] /\ left'[h] = left[h] /\ value'[h] = value[h]
              /\ header'[h] = header[h] /\ files'[h] = files[h] /\ (h \in seen' <=> h \in seen)
<1>1. ASSUME Begin(g) \/ TrackFileFound(g) \/ TrackFileParse(g)
      PROVE  /\ scenario' = scenario /\ raced' = raced /\ value' = value /\ header' = header
             /\ files' = files /\ seen' = seen
             /\ \A h \in Goroutines \ {g} : calls'[h] = calls[h] /\ left'[h] = left[h]
  BY <1>1 DEF Typed, Begin, TrackFileFound, TrackFileParse, Over
<1>2. ASSUME ReadCounter(g) \/ ReadFiles(g)
      PROVE  /\ scenario' = scenario /\ raced \subseteq raced' /\ calls' = calls /\ left' = left
             /\ files' = files /\ seen' = seen \union {g}
             /\ \A h \in Goroutines \ {g} : value'[h] = value[h] /\ header'[h] = header[h]
  BY <1>2 DEF Typed, ReadCounter, ReadFiles
<1>3. ASSUME WriteCounter(g) \/ SaveFile(g)
      PROVE  /\ scenario' = scenario /\ raced' = raced /\ left' = left /\ seen' = seen \ {g}
             /\ \A h \in Goroutines \ {g} : /\ calls'[h] = calls[h] /\ value'[h] = value[h]
                                           /\ header'[h] = header[h] /\ files'[h] = files[h]
  BY <1>3 DEF Typed, WriteCounter, SaveFile, Over
<1> QED
  BY <1>1, <1>2, <1>3 DEF Step

(* Every step keeps the types. *)
LEMMA TypedStep == Typed /\ Between /\ [Next]_vars => Typed' /\ Between'
<1> SUFFICES ASSUME Typed, Between, [Next]_vars PROVE Typed' /\ Between'
  OBVIOUS
<1>1. ASSUME NEW g \in Goroutines, Begin(g) PROVE Typed' /\ Between'
  <2>1. left[g] \in Seq(Works) /\ left[g] # <<>>
    BY <1>1 DEF Typed, Begin, bagVars
  <2>2. Tail(left[g]) \in Seq(Works) /\ WorkCalls(Head(left[g])) \in Seq(CallSet)
    BY <2>1, WorkTyped
  <2>3. Typed'
    BY <1>1, <2>2 DEF Typed, Begin, bagVars
  <2>4. g \notin seen
    BY <1>1 DEF Between, Begin
  <2>5. Between'
    BY <1>1, <2>4 DEF Between, Begin, Call, Typed
  <2> QED
    BY <2>3, <2>5
<1>2. ASSUME NEW g \in Goroutines, TrackFileFound(g) PROVE Typed' /\ Between'
  <2>1. Call(g).of \in Files /\ Tail(calls[g]) \in Seq(CallSet)
    BY <1>2, CallTyped DEF TrackFileFound, Calling
  <2>2. Typed'
    <3>1. foundBag' \in [Files -> Nat] /\ FoundFiles' \in Nat
      BY <1>2, <2>1 DEF Typed, TrackFileFound
    <3>2. calls' \in [Goroutines -> Seq(CallSet)]
      BY <1>2, <2>1 DEF Typed, TrackFileFound, Over
    <3> QED
      BY <1>2, <3>1, <3>2 DEF Typed, TrackFileFound
  <2>3. g \notin seen
    BY <1>2 DEF Between, TrackFileFound, Calling
  <2>4. Between'
    BY <1>2, <2>3 DEF Between, TrackFileFound, Over, Call, Typed
  <2> QED
    BY <2>2, <2>4
<1>3. ASSUME NEW g \in Goroutines, TrackFileParse(g) PROVE Typed' /\ Between'
  <2>1. Call(g).of \in Files /\ Tail(calls[g]) \in Seq(CallSet)
    BY <1>3, CallTyped DEF TrackFileParse, Calling
  <2>2. Typed'
    <3>1. parsedBag' \in [Files -> Nat] /\ ParsedFiles' \in Nat
      BY <1>3, <2>1 DEF Typed, TrackFileParse
    <3>2. calls' \in [Goroutines -> Seq(CallSet)]
      BY <1>3, <2>1 DEF Typed, TrackFileParse, Over
    <3> QED
      BY <1>3, <3>1, <3>2 DEF Typed, TrackFileParse
  <2>3. g \notin seen
    BY <1>3 DEF Between, TrackFileParse, Calling
  <2>4. Between'
    BY <1>3, <2>3 DEF Between, TrackFileParse, Over, Call, Typed
  <2> QED
    BY <2>2, <2>4
<1>4. ASSUME NEW g \in Goroutines, ReadCounter(g) PROVE Typed' /\ Between'
  <2>1. calls[g] # <<>> /\ Call(g).op \in {"add", "lockAdd"}
    BY <1>4 DEF ReadCounter, Calling
  <2>2. Call(g).of \in Counter /\ count[Call(g).of] \in Int /\ Target(g) = Call(g).of
    BY <2>1, CallTyped DEF Typed, Target
  <2>3. Typed'
    BY <1>4, <2>2 DEF Typed, ReadCounter, Racing, bagVars
  <2>4. Between'
    BY <1>4, <2>1 DEF Between, ReadCounter, Call
  <2> QED
    BY <2>3, <2>4
<1>5. ASSUME NEW g \in Goroutines, WriteCounter(g) PROVE Typed' /\ Between'
  <2>1. calls[g] # <<>> /\ Call(g).op \in {"add", "lockAdd"}
    BY <1>5 DEF WriteCounter, Calling
  <2>2. Call(g).of \in Counter /\ Call(g).by \in Int /\ Tail(calls[g]) \in Seq(CallSet)
    BY <2>1, CallTyped
  <2>3. value[g] + Call(g).by \in Int
    BY <2>2 DEF Typed
  <2>4. Typed'
    <3>1. count' \in [Counter -> Int] /\ value' \in [Goroutines -> Int]
      BY <1>5, <2>2, <2>3 DEF Typed, WriteCounter
    <3>2. calls' \in [Goroutines -> Seq(CallSet)]
      BY <1>5, <2>2 DEF Typed, WriteCounter, Over
    <3>3. mutex' \in Goroutines \union {Nobody} /\ seen' \subseteq Goroutines
      BY <1>5 DEF Typed, WriteCounter
    <3> QED
      BY <1>5, <3>1, <3>2, <3>3 DEF Typed, WriteCounter, bagVars
  <2>5. Between'
    BY <1>5 DEF Between, WriteCounter, Over, Call, Typed
  <2> QED
    BY <2>4, <2>5
<1>6. ASSUME NEW g \in Goroutines, ReadFiles(g) PROVE Typed' /\ Between'
  <2>1. calls[g] # <<>> /\ Call(g).op = "save"
    BY <1>6 DEF ReadFiles, Calling
  <2>2. Typed'
    BY <1>6, <2>1 DEF Typed, ReadFiles, Racing, Target, bagVars
  <2>3. Between'
    BY <1>6, <2>1 DEF Between, ReadFiles, Call
  <2> QED
    BY <2>2, <2>3
<1>7. ASSUME NEW g \in Goroutines, SaveFile(g) PROVE Typed' /\ Between'
  <2>1. Call(g).of \in Documents /\ Tail(calls[g]) \in Seq(CallSet)
    BY <1>7, CallTyped DEF SaveFile, Calling
  <2>2. Append(files[g], Call(g).of) \in Seq(Documents)
    BY <2>1 DEF Typed
  <2>3. Typed'
    BY <1>7, <2>1, <2>2 DEF Typed, SaveFile, Over, bagVars
  <2>4. Between'
    BY <1>7 DEF Between, SaveFile, Over, Call, Typed
  <2> QED
    BY <2>3, <2>4
<1>8. CASE UNCHANGED vars
  BY <1>8 DEF vars, bagVars, Typed, Between, Call
<1> QED
  BY <1>1, <1>2, <1>3, <1>4, <1>5, <1>6, <1>7, <1>8 DEF Next, Step, Terminated
-----------------------------------------------------------------------------
(* What a service has saved and what it will still save is what it is to be    *)
(* given, in that order.                                                       *)
FilesOwed ==
  \A g \in Goroutines :
    files[g] \o Unsaved(calls[g], left[g]) = FlattenSeq(Each(scenario[g], owned))

(* At first every file is still to be saved. *)
LEMMA FilesOwedFirst == Init => FilesOwed
<1> SUFFICES ASSUME Init, NEW g \in Goroutines
             PROVE  files[g] \o Unsaved(calls[g], left[g]) = FlattenSeq(Each(scenario[g], owned))
  BY DEF FilesOwed
<1>1. files[g] = <<>> /\ calls[g] = <<>> /\ left[g] = scenario[g] /\ scenario[g] \in Seq(Works)
  BY ScenariosTyped DEF Init
<1> DEFINE all == FlattenSeq(Each(scenario[g], owned))
<1>2. <<>> \in Seq(CallSet)
  OBVIOUS
<1>3. all \in Seq(Documents) /\ FlattenSeq(Each(calls[g], kept)) = <<>>
  BY <1>1, <1>2, UnsavedTyped, EachEmpty, FlattenEmpty
<1>4. Unsaved(calls[g], left[g]) = <<>> \o all
  BY <1>1, <1>3 DEF Unsaved
<1> HIDE DEF all
<1>5. <<>> \o all = all
  BY <1>3, ConcatEmptySeq
<1> QED
  BY <1>1, <1>4, <1>5 DEF all

(* A call that is over has saved its document, if it was to save one. *)
LEMMA UnsavedOver ==
  ASSUME Typed, NEW g \in Goroutines, calls[g] # <<>>
  PROVE  Unsaved(calls[g], left[g]) = kept[Call(g)] \o Unsaved(Tail(calls[g]), left[g])
<1>1. calls[g] \in Seq(CallSet) /\ left[g] \in Seq(Works) /\ Call(g) \in CallSet /\ Tail(calls[g]) \in Seq(CallSet)
  BY CallTyped DEF Typed
<1>2. kept \in [CallSet -> Seq(Documents)] /\ kept[Call(g)] \in Seq(Documents)
  BY <1>1, KeptTyped
<1>3. FlattenSeq(Each(calls[g], kept)) = kept[Call(g)] \o FlattenSeq(Each(Tail(calls[g]), kept))
  <2> DEFINE s == calls[g]
  <2>1. s \in Seq(CallSet) /\ s # <<>> /\ Head(s) = Call(g)
    BY <1>1 DEF Call
  <2> HIDE DEF s
  <2>2. FlattenSeq(Each(s, kept)) = kept[Head(s)] \o FlattenSeq(Each(Tail(s), kept))
    BY <1>2, <2>1, FlattenEachHead
  <2> QED
    BY <2>1, <2>2 DEF s
<1> DEFINE k == kept[Call(g)]
           a == FlattenSeq(Each(Tail(calls[g]), kept))
           b == FlattenSeq(Each(left[g], owned))
<1>4. k \in Seq(Documents) /\ a \in Seq(Documents) /\ b \in Seq(Documents)
  BY <1>1, <1>2, UnsavedTyped
<1>5. Unsaved(calls[g], left[g]) = (k \o a) \o b /\ Unsaved(Tail(calls[g]), left[g]) = a \o b
  BY <1>3 DEF Unsaved
<1> HIDE DEF k, a, b
<1>6. (k \o a) \o b = k \o (a \o b)
  BY <1>4, ConcatAssociative
<1> QED
  BY <1>5, <1>6 DEF k

(* Every step keeps the files saved and owed together the same. *)
LEMMA FilesOwedStep ==
  ASSUME Typed, Typed', Between, FilesOwed, NEW g \in Goroutines, Step(g)
  PROVE  FilesOwed'
<1> DEFINE Whole(h) == FlattenSeq(Each(scenario[h], owned))
<1>0. scenario' = scenario /\ \A h \in Goroutines \ {g} : /\ calls'[h] = calls[h] /\ left'[h] = left[h]
                                                        /\ files'[h] = files[h]
  BY OthersStay
<1>1. SUFFICES files'[g] \o Unsaved(calls'[g], left'[g]) = Whole(g)
  BY <1>0 DEF FilesOwed
<1>2. files[g] \o Unsaved(calls[g], left[g]) = Whole(g)
  BY DEF FilesOwed
<1>3. calls[g] \in Seq(CallSet) /\ left[g] \in Seq(Works) /\ files[g] \in Seq(Documents)
  BY DEF Typed
<1>4. CASE Begin(g)
  <2> DEFINE w == Head(left[g])
             u == Tail(left[g])
  <2>1. calls[g] = <<>> /\ left[g] # <<>> /\ files'[g] = files[g] /\ calls'[g] = WorkCalls(w) /\ left'[g] = u
    BY <1>4 DEF Begin, Typed
  <2>2. w \in Works /\ u \in Seq(Works)
    BY <1>3, <2>1
  <2>3. FlattenSeq(Each(left[g], owned)) = owned[w] \o FlattenSeq(Each(u, owned))
    <3> DEFINE s == left[g]
    <3>1. s \in Seq(Works) /\ s # <<>> /\ owned \in [Works -> Seq(Documents)]
      BY <1>3, <2>1, KeptTyped
    <3> HIDE DEF s
    <3>2. FlattenSeq(Each(s, owned)) = owned[Head(s)] \o FlattenSeq(Each(Tail(s), owned))
      BY <3>1, FlattenEachHead
    <3> QED
      BY <3>2 DEF s
  <2> HIDE DEF w, u
  <2>4. owned[w] = Own(w) /\ owned[w] \in Seq(Documents) /\ FlattenSeq(Each(u, owned)) \in Seq(Documents)
    <3>1. FlattenSeq(Each(u, owned)) \in Seq(Documents)
      BY <1>3, <2>2, UnsavedTyped
    <3> QED
      BY <2>2, <3>1, OwnTyped DEF owned
  <2>5. FlattenSeq(Each(calls[g], kept)) = <<>>
    BY <2>1, EachEmpty, FlattenEmpty
  <2> DEFINE x == owned[w] \o FlattenSeq(Each(u, owned))
  <2>6. x \in Seq(Documents) /\ Unsaved(calls[g], left[g]) = <<>> \o x
    BY <2>3, <2>4, <2>5, ConcatProperties DEF Unsaved
  <2>7. Unsaved(WorkCalls(w), u) = x
    BY <2>2, <2>4, WorkSaves DEF Unsaved
  <2> HIDE DEF x
  <2>8. <<>> \o x = x
    BY <2>6, ConcatEmptySeq
  <2> QED
    BY <1>2, <2>1, <2>6, <2>7, <2>8
<1>5. CASE TrackFileFound(g) \/ TrackFileParse(g) \/ WriteCounter(g)
  <2>1. calls[g] # <<>> /\ Call(g).op # "save" /\ files' = files /\ calls'[g] = Tail(calls[g]) /\ left'[g] = left[g]
    BY <1>5 DEF TrackFileFound, TrackFileParse, WriteCounter, Calling, Over, Typed
  <2>2. kept[Call(g)] = <<>> /\ Tail(calls[g]) \in Seq(CallSet)
    BY <2>1, CallTyped, KeptTyped
  <2>3. Unsaved(calls[g], left[g]) = <<>> \o Unsaved(Tail(calls[g]), left[g])
    BY <2>1, <2>2, UnsavedOver
  <2> DEFINE x == Unsaved(Tail(calls[g]), left[g])
  <2>4. x \in Seq(Documents)
    BY <1>3, <2>2, UnsavedTyped
  <2> HIDE DEF x
  <2>5. <<>> \o x = x
    BY <2>4, ConcatEmptySeq
  <2> QED
    BY <1>2, <2>1, <2>3, <2>5 DEF x
<1>6. CASE ReadCounter(g) \/ ReadFiles(g)
  BY <1>2, <1>6 DEF ReadCounter, ReadFiles
<1>7. CASE SaveFile(g)
  <2> DEFINE d == Call(g).of
             x == Unsaved(Tail(calls[g]), left[g])
  <2>1. /\ calls[g] # <<>> /\ Call(g).op = "save" /\ files'[g] = Append(files[g], d)
        /\ calls'[g] = Tail(calls[g]) /\ left'[g] = left[g]
    BY <1>7 DEF SaveFile, Calling, Over, Typed
  <2>2. kept[Call(g)] = <<d>> /\ d \in Documents /\ Tail(calls[g]) \in Seq(CallSet)
    BY <2>1, CallTyped, KeptTyped
  <2>3. Unsaved(calls[g], left[g]) = <<d>> \o x
    BY <2>1, <2>2, UnsavedOver
  <2>4. x \in Seq(Documents) /\ <<d>> \in Seq(Documents)
    <3>1. x \in Seq(Documents)
      BY <1>3, <2>2, UnsavedTyped
    <3>2. <<d>> \in Seq(Documents)
      <4> HIDE DEF d
      <4> QED
        BY <2>2
    <3> QED
      BY <3>1, <3>2
  <2> HIDE DEF x, d
  <2>5. Append(files[g], d) = files[g] \o <<d>>
    BY <1>3, <2>2, AppendIsConcat
  <2> DEFINE f == files[g]
             one == <<d>>
  <2>6. (f \o one) \o x = f \o (one \o x)
    <3>1. f \in Seq(Documents) /\ one \in Seq(Documents) /\ x \in Seq(Documents)
      BY <1>3, <2>4
    <3> HIDE DEF f, one
    <3> QED
      BY <3>1, ConcatAssociative
  <2> QED
    BY <1>2, <2>1, <2>3, <2>5, <2>6 DEF x
<1> QED
  BY <1>4, <1>5, <1>6, <1>7 DEF Step

(* When all is done there is nothing left to save. *)
LEMMA FilesOwedLast == Typed /\ FilesOwed => InspectsOwnFiles
<1> SUFFICES ASSUME Typed, FilesOwed, Finished, NEW g \in Goroutines
             PROVE  files[g] = FlattenSeq([i \in DOMAIN scenario[g] |-> Own(scenario[g][i])])
  BY DEF InspectsOwnFiles
<1>1. calls[g] = <<>> /\ left[g] = <<>> /\ files[g] \in Seq(Documents) /\ scenario[g] \in Seq(Works)
  BY DEF Finished, Typed
<1>2. Unsaved(<<>>, <<>>) = <<>>
  <2>1. Each(<<>>, kept) = <<>> /\ Each(<<>>, owned) = <<>> /\ <<>> \o <<>> = <<>>
    BY EachEmpty
  <2> QED
    BY <2>1, FlattenEmpty DEF Unsaved
<1>3. files[g] \o <<>> = files[g]
  BY <1>1, ConcatEmptySeq
<1>4. Each(scenario[g], owned) = [i \in DOMAIN scenario[g] |-> Own(scenario[g][i])]
  <2>1. \A i \in DOMAIN scenario[g] : scenario[g][i] \in Works
    BY <1>1
  <2> QED
    BY <2>1 DEF Each, owned
<1> QED
  BY <1>1, <1>2, <1>3, <1>4 DEF FilesOwed
-----------------------------------------------------------------------------
(* what the services have saved, by their own lists *)
Stored == UNION {ToSet(files[g]) : g \in Goroutines}

Saving(g) == g \in seen /\ Call(g).op = "save"

(* Before the first overlap one goroutine at most is in the middle of a save, and *)
(* what it has read is still what the storage holds.                              *)
OneSaver ==
  "allFiles" \notin raced =>
    /\ allFiles = Stored
    /\ \A g \in Goroutines : Saving(g) => header[g] = allFiles
    /\ \A g, h \in Goroutines : Saving(g) /\ Saving(h) => g = h

(* Append adds its element to the members of a sequence. *)
LEMMA AppendMembers ==
  ASSUME NEW S, NEW s \in Seq(S), NEW d \in S
  PROVE  ToSet(Append(s, d)) = ToSet(s) \union {d}
<1>1. /\ Len(s) \in Nat /\ DOMAIN s = 1 .. Len(s)
      /\ DOMAIN Append(s, d) = 1 .. Len(s) + 1
      /\ \A i \in 1 .. Len(s) : Append(s, d)[i] = s[i]
      /\ Append(s, d)[Len(s) + 1] = d
  OBVIOUS
<1> QED
  BY <1>1 DEF ToSet

(* At first nobody saves. *)
LEMMA OneSaverFirst == Init => OneSaver
<1> SUFFICES ASSUME Init PROVE OneSaver
  OBVIOUS
<1>1. \A g \in Goroutines : files[g] = <<>>
  BY DEF Init
<1>2. ToSet(<<>>) = {}
  BY DEF ToSet
<1> QED
  BY <1>1, <1>2 DEF Init, OneSaver, Saving, Stored

(* Where no two saves overlapped, the slice that was read is still the one that is shared. *)
LEMMA OneSaverStep ==
  ASSUME Typed, Between, OneSaver, NEW g \in Goroutines, Step(g)
  PROVE  OneSaver'
<1>0. /\ raced \subseteq raced'
      /\ \A h \in Goroutines \ {g} : calls'[h] = calls[h] /\ header'[h] = header[h] /\ files'[h] = files[h]
                                   /\ (h \in seen' <=> h \in seen)
  BY OthersStay
<1>1. \A h \in Goroutines \ {g} : Saving(h)' <=> Saving(h)
  BY <1>0 DEF Saving, Call
<1>2. CASE Begin(g) \/ TrackFileFound(g) \/ TrackFileParse(g) \/ ReadCounter(g) \/ WriteCounter(g)
  <2>1. allFiles' = allFiles /\ header' = header /\ files' = files
    BY <1>2 DEF Begin, TrackFileFound, TrackFileParse, ReadCounter, WriteCounter
  <2>2. ~Saving(g)'
    <3>1. g \notin seen' \/ (calls' = calls /\ Calling(g, "add")) \/ (calls' = calls /\ Calling(g, "lockAdd"))
      BY <1>2 DEF Begin, TrackFileFound, TrackFileParse, ReadCounter, WriteCounter, Between, Calling
    <3> QED
      BY <3>1 DEF Saving, Calling, Call
  <2>3. Stored' = Stored
    BY <2>1 DEF Stored
  <2> QED
    BY <1>0, <1>1, <2>1, <2>2, <2>3 DEF OneSaver
<1>3. CASE ReadFiles(g)
  <2>1. Stored' = Stored /\ allFiles' = allFiles /\ header'[g] = allFiles
    BY <1>3 DEF ReadFiles, Stored, Typed
  <2>2. ASSUME "allFiles" \notin raced', NEW h \in Goroutines, Saving(h) PROVE FALSE
    <3>1. h # g /\ Target(h) = "allFiles" /\ Target(g) = "allFiles"
      BY <1>3, <2>2 DEF ReadFiles, Calling, Saving, Target
    <3> QED
      BY <1>3, <2>2, <3>1 DEF ReadFiles, Racing, Saving
  <2> QED
    BY <1>0, <1>1, <2>1, <2>2 DEF OneSaver
<1>4. CASE SaveFile(g)
  <2> DEFINE d == Call(g).of
  <2>1. calls[g] # <<>> /\ files'[g] = Append(files[g], d) /\ files[g] \in Seq(Documents)
    BY <1>4 DEF SaveFile, Calling, Typed
  <2>2. d \in Documents
    BY <1>4, <2>1, CallTyped DEF SaveFile, Calling
  <2>3. ToSet(files'[g]) = ToSet(files[g]) \union {d}
    BY <2>1, <2>2, AppendMembers
  <2>4. Stored' = Stored \union {d}
    BY <1>0, <2>3 DEF Stored
  <2>5. Saving(g) /\ ~Saving(g)' /\ raced' = raced /\ allFiles' = header[g] \union {d}
    BY <1>4 DEF SaveFile, Calling, Saving
  <2> QED
    BY <1>0, <1>1, <2>4, <2>5 DEF OneSaver
<1> QED
  BY <1>2, <1>3, <1>4 DEF Step
-----------------------------------------------------------------------------
(* Only a query that was run on a line it could not find takes one off, outside *)
(* the lock; and only a goroutine in the middle of such a call can have another *)
(* one of the executed queries overlap with it.                                 *)
TakesOff(g) == \E i \in DOMAIN calls[g] : calls[g][i].op = "add" /\ calls[g][i].of = "ExecutedQueries"

HasUnfound(g) == \E i \in DOMAIN scenario[g] : Unfound(scenario[g][i]) = 1

Locked == \A g \in seen : Call(g).op = "lockAdd" => mutex = g

UnfoundOnly ==
  /\ \A g \in Goroutines :
       /\ \A i \in DOMAIN left[g] : \E j \in DOMAIN scenario[g] : left[g][i] = scenario[g][j]
       /\ TakesOff(g) => HasUnfound(g)
  /\ "ExecutedQueries" \in raced => \E g \in Goroutines : HasUnfound(g)

(* At first nothing is locked and nothing is off. *)
LEMMA UnfoundFirst == Init => Locked /\ UnfoundOnly
  BY DEF Init, Locked, UnfoundOnly, TakesOff

(* The tail of a sequence has no other elements. *)
LEMMA TailMembers ==
  ASSUME NEW S, NEW s \in Seq(S), s # <<>>
  PROVE  /\ 1 \in DOMAIN s /\ Head(s) = s[1]
         /\ \A i \in DOMAIN Tail(s) : i + 1 \in DOMAIN s /\ Tail(s)[i] = s[i + 1]
  OBVIOUS

(* A call that takes one off belongs to a query with an undetected line. *)
LEMMA OffByUnfound ==
  ASSUME NEW w \in Works, NEW i \in DOMAIN WorkCalls(w),
         WorkCalls(w)[i].op = "add", WorkCalls(w)[i].of = "ExecutedQueries"
  PROVE  Unfound(w) = 1
<1>1. ASSUME w \in Files PROVE FALSE
  <2> DEFINE m == [k \in CallSet |-> IF k.op = "add" /\ k.of = "ExecutedQueries" THEN 1 ELSE 0]
  <2>1. m \in [CallSet -> Nat] /\ m \in [CallSet -> Int]
    OBVIOUS
  <2>2. \A k \in CallSet : m[k] = IF k.op = "add" /\ k.of = "ExecutedQueries" THEN 1 ELSE 0
    OBVIOUS
  <2> HIDE DEF m
  <2>3. \A d \in Documents : m[Save(d)] = 0
    BY <2>2 DEF CallSet, Save
  <2>4. /\ m[Found(w)] = 0 /\ m[Parsed(w)] = 0
        /\ m[Add("FoundCountLines", IF File[w].readable THEN File[w].lines ELSE 0)] = 0
        /\ m[Add("FoundResources", IF File[w].readable THEN File[w].resources ELSE 0)] = 0
        /\ m[Add("FoundCountLines", File[w].resolved)] = 0
        /\ m[Add("ParsedCountLines", File[w].total - File[w].ignored)] = 0
        /\ m[Add("IgnoreCountLines", File[w].ignored)] = 0
    BY <1>1, <2>2, SinkParts DEF Found, Parsed, Add
  <2>5. SumFunction(Each(SinkCalls(w), m)) = 0
    BY <1>1, <2>1, <2>3, <2>4, SinkTotal
  <2>6. WorkCalls(w) = SinkCalls(w) /\ WorkCalls(w) \in Seq(CallSet)
    BY <1>1, WorkTyped DEF WorkCalls
  <2> DEFINE N == Nat
  <2>7. Each(WorkCalls(w), m) \in Seq(N) /\ DOMAIN Each(WorkCalls(w), m) = DOMAIN WorkCalls(w)
    <3>1. m \in [CallSet -> N]
      BY <2>1
    <3> HIDE DEF N
    <3> QED
      BY <2>6, <3>1, EachType
  <2>8. Each(WorkCalls(w), m)[i] <= 0
    BY <2>5, <2>6, <2>7, TotalNatural
  <2>9. Each(WorkCalls(w), m)[i] = m[WorkCalls(w)[i]] /\ WorkCalls(w)[i] \in CallSet
    BY <2>6 DEF Each
  <2>10. m[WorkCalls(w)[i]] = 1
    BY <2>2, <2>9
  <2> QED
    BY <2>8, <2>9, <2>10
<1>2. CASE w \in Queries
  <2>1. WorkCalls(w) = RunCalls(w) /\ Query[w].outcome \in {"ok", "failed", "undetected"}
    BY <1>2, WorkDisjoint, QueriesTyped DEF WorkCalls
  <2>2. CASE Query[w].outcome = "failed"
    BY <2>1, <2>2 DEF RunCalls
  <2>3. CASE Query[w].outcome = "ok"
    BY <2>1, <2>3 DEF RunCalls, LockAdd
  <2>4. CASE Query[w].outcome = "undetected"
    BY <1>2, <2>4 DEF Unfound
  <2> QED
    BY <2>1, <2>2, <2>3, <2>4
<1> QED
  BY <1>1, <1>2 DEF Works

(* Every step keeps the lock and the reason of a race. *)
LEMMA UnfoundStep ==
  ASSUME Typed, Between, Locked, UnfoundOnly, NEW g \in Goroutines, Step(g)
  PROVE  Locked' /\ UnfoundOnly'
<1>0. /\ scenario' = scenario /\ raced \subseteq raced'
      /\ \A h \in Goroutines \ {g} : calls'[h] = calls[h] /\ left'[h] = left[h] /\ (h \in seen' <=> h \in seen)
  BY OthersStay
<1>1. \A h \in Goroutines : HasUnfound(h)' <=> HasUnfound(h)
  BY <1>0 DEF HasUnfound
<1>2. \A h \in Goroutines \ {g} : TakesOff(h)' <=> TakesOff(h)
  BY <1>0 DEF TakesOff
<1>3. calls[g] \in Seq(CallSet) /\ left[g] \in Seq(Works) /\ seen \subseteq Goroutines
  BY DEF Typed
<1>4. CASE Begin(g)
  <2> DEFINE w == Head(left[g])
  <2>1. /\ calls[g] = <<>> /\ left[g] # <<>> /\ calls'[g] = WorkCalls(w) /\ left'[g] = Tail(left[g])
        /\ seen' = seen /\ mutex' = mutex /\ raced' = raced
    BY <1>4 DEF Begin, Typed
  <2>2. /\ 1 \in DOMAIN left[g] /\ w = left[g][1]
        /\ \A i \in DOMAIN left'[g] : i + 1 \in DOMAIN left[g] /\ left'[g][i] = left[g][i + 1]
    BY <1>3, <2>1, TailMembers
  <2>3. \A i \in DOMAIN left'[g] : \E j \in DOMAIN scenario[g] : left'[g][i] = scenario[g][j]
    BY <2>2 DEF UnfoundOnly
  <2>4. w \in Works
    BY <1>3, <2>1
  <2>5. TakesOff(g)' => HasUnfound(g)
    <3>1. ASSUME TakesOff(g)' PROVE Unfound(w) = 1
      BY <2>1, <2>4, <3>1, OffByUnfound DEF TakesOff
    <3>2. \E j \in DOMAIN scenario[g] : w = scenario[g][j]
      BY <2>2 DEF UnfoundOnly
    <3> QED
      BY <3>1, <3>2 DEF HasUnfound
  <2>6. UnfoundOnly'
    <3>1. ASSUME NEW h \in Goroutines
          PROVE  \A i \in DOMAIN left'[h] : \E j \in DOMAIN scenario'[h] : left'[h][i] = scenario'[h][j]
      <4>1. CASE h = g
        BY <1>0, <2>3, <4>1
      <4>2. CASE h # g
        BY <1>0, <4>2 DEF UnfoundOnly
      <4> QED
        BY <4>1, <4>2
    <3>2. ASSUME NEW h \in Goroutines PROVE TakesOff(h)' => HasUnfound(h)'
      BY <1>1, <1>2, <2>5 DEF UnfoundOnly
    <3>3. "ExecutedQueries" \in raced' => \E h \in Goroutines : HasUnfound(h)'
      BY <1>1, <2>1 DEF UnfoundOnly
    <3> QED
      BY <3>1, <3>2, <3>3 DEF UnfoundOnly
  <2>7. g \notin seen
    BY <2>1 DEF Between
  <2>8. Locked'
    BY <1>0, <1>3, <2>1, <2>7 DEF Locked, Call
  <2> QED
    BY <2>6, <2>8
<1>5. CASE TrackFileFound(g) \/ TrackFileParse(g) \/ WriteCounter(g) \/ SaveFile(g)
  <2>1. /\ calls[g] # <<>> /\ calls'[g] = Tail(calls[g]) /\ left' = left /\ raced' = raced
        /\ g \notin seen'
    BY <1>5 DEF TrackFileFound, TrackFileParse, WriteCounter, SaveFile, Calling, Over, Typed, Between
  <2>2. TakesOff(g)' => TakesOff(g)
    <3>1. \A i \in DOMAIN calls'[g] : i + 1 \in DOMAIN calls[g] /\ calls'[g][i] = calls[g][i + 1]
      BY <1>3, <2>1, TailMembers
    <3> QED
      BY <3>1 DEF TakesOff
  <2>3. UnfoundOnly'
    BY <1>0, <1>1, <1>2, <2>1, <2>2 DEF UnfoundOnly
  <2>4. ASSUME NEW h \in seen', Call(h)'.op = "lockAdd" PROVE mutex' = h
    <3>1. h \in seen /\ h # g /\ Call(h)' = Call(h) /\ h \in Goroutines
      BY <1>0, <1>3, <1>5, <2>1, <2>4
         DEF Call, TrackFileFound, TrackFileParse, WriteCounter, SaveFile
    <3>2. mutex = h
      BY <2>4, <3>1 DEF Locked
    <3>3. mutex' = mutex
      BY <1>5, <3>1, <3>2 DEF TrackFileFound, TrackFileParse, WriteCounter, SaveFile, Locked
    <3> QED
      BY <3>2, <3>3
  <2> QED
    BY <2>3, <2>4 DEF Locked
<1>6. CASE ReadFiles(g)
  <2>1. calls' = calls /\ left' = left /\ seen' = seen \union {g} /\ mutex' = mutex /\ Call(g).op = "save"
    BY <1>6 DEF ReadFiles, Calling
  <2>2. "ExecutedQueries" \in raced' => "ExecutedQueries" \in raced
    BY <1>6, <2>1 DEF ReadFiles, Racing, Target
  <2>3. Locked'
    BY <2>1 DEF Locked, Call
  <2>4. TakesOff(g)' <=> TakesOff(g)
    BY <2>1 DEF TakesOff
  <2> QED
    BY <1>0, <1>1, <1>2, <2>1, <2>2, <2>3, <2>4 DEF UnfoundOnly
<1>7. CASE ReadCounter(g)
  <2>1. /\ calls' = calls /\ left' = left /\ seen' = seen \union {g} /\ calls[g] # <<>>
        /\ Call(g).op \in {"add", "lockAdd"}
    BY <1>7 DEF ReadCounter, Calling
  <2>2. Call(g).op = "lockAdd" => \A h \in seen : Call(h).op # "lockAdd"
    BY <1>3, <1>7, GoroutinesNamed DEF ReadCounter, Locked
  <2>3. Locked'
    BY <1>7, <2>1, <2>2 DEF Locked, Call, ReadCounter
  <2>4. TakesOff(g)' <=> TakesOff(g)
    BY <2>1 DEF TakesOff
  <2>5. ASSUME NEW h \in Goroutines, calls[h] # <<>>, Call(h).op = "add", Call(h).of = "ExecutedQueries"
        PROVE  HasUnfound(h)
    <3>1. calls[h] \in Seq(CallSet)
      BY DEF Typed
    <3>2. 1 \in DOMAIN calls[h] /\ Call(h) = calls[h][1]
      BY <2>5, <3>1 DEF Call
    <3>3. TakesOff(h)
      BY <2>5, <3>2 DEF TakesOff
    <3> QED
      BY <3>3 DEF UnfoundOnly
  <2>6. ASSUME "ExecutedQueries" \in raced', "ExecutedQueries" \notin raced
        PROVE  \E h \in Goroutines : HasUnfound(h)
    <3>1. Target(g) = Call(g).of
      BY <2>1 DEF Target
    <3>2. PICK h \in seen \ {g} : Target(h) = Target(g) /\ Target(g) = "ExecutedQueries"
      BY <1>7, <2>6 DEF ReadCounter, Racing
    <3>3. h \in Goroutines /\ calls[h] # <<>> /\ Call(h).op \in {"add", "lockAdd"} /\ Call(h).of = "ExecutedQueries"
      BY <1>3, <3>2 DEF Between, Target
    <3>4. Call(h).op = "add" \/ Call(g).op = "add"
      BY <2>1, <2>2, <3>2, <3>3
    <3> QED
      BY <2>1, <2>5, <3>1, <3>2, <3>3, <3>4
  <2>7. UnfoundOnly'
    BY <1>0, <1>1, <1>2, <2>1, <2>4, <2>6 DEF UnfoundOnly
  <2> QED
    BY <2>3, <2>7
<1> QED
  BY <1>4, <1>5, <1>6, <1>7 DEF Step
-----------------------------------------------------------------------------
(* what is still owed to counter c, and what there is to add to it in all *)
Due(c, up) == AllOwed(amount(c, up), share(c, up))
All(c, up) == Total(share(c, up))

(* At first all is due. *)
LEMMA DueFirst == Init => \A c \in Counter, up \in BOOLEAN : Due(c, up) = All(c, up)
  BY AmountTyped, WorkSettles, OwedFirst DEF Due, All, Settles

(* What is due is an integer. *)
LEMMA DueTyped ==
  ASSUME Typed
  PROVE  \A c \in Counter, up \in BOOLEAN : Due(c, up) \in Int
  BY AmountTyped, WorkSettles, AllOwedType DEF Due, Settles

(* What there is in all is an integer. *)
LEMMA AllTyped ==
  ASSUME Typed
  PROVE  \A c \in Counter, up \in BOOLEAN : All(c, up) \in Int
  BY WorkSettles, TotalTyped DEF All, Settles

(* Only the write of a counter settles anything. *)
LEMMA DueStep ==
  ASSUME Typed, Typed', NEW g \in Goroutines, Step(g), NEW c \in Counter, NEW up \in BOOLEAN
  PROVE  /\ All(c, up)' = All(c, up)
         /\ ~WriteCounter(g) => Due(c, up)' = Due(c, up)
         /\ WriteCounter(g) => Due(c, up)' = Due(c, up) - Of(IF Call(g).of = c THEN Call(g).by ELSE 0, up)
<1> DEFINE m == amount(c, up)
           sh == share(c, up)
<1>1. m \in [CallSet -> Int] /\ sh \in [Works -> Int] /\ Settles(m, sh)
  BY AmountTyped, WorkSettles DEF Settles
<1>2. \A k \in CallSet : m[k] = Of(NetOf(k, c), up)
  BY AmountTyped
<1> HIDE DEF m, sh
<1>3. Total(sh)' = Total(sh)
  BY OthersStay DEF Total
<1>4. ASSUME Begin(g) PROVE AllOwed(m, sh)' = AllOwed(m, sh)
  BY <1>1, <1>4, OwedBegin
<1>5. ASSUME TrackFileFound(g) \/ TrackFileParse(g) \/ SaveFile(g)
      PROVE  AllOwed(m, sh)' = AllOwed(m, sh)
  <2>1. calls[g] # <<>> /\ Over(g) /\ left' = left /\ Call(g).op \notin {"add", "lockAdd"}
    BY <1>5 DEF TrackFileFound, TrackFileParse, SaveFile, Calling
  <2>2. AllOwed(m, sh)' = AllOwed(m, sh) - m[Call(g)] /\ Call(g) \in CallSet
    BY <1>1, <2>1, OwedOver
  <2>3. m[Call(g)] = 0
    BY <1>2, <2>1, <2>2 DEF NetOf, Of
  <2> QED
    BY <1>1, <2>2, <2>3, AllOwedType
<1>6. ASSUME ReadCounter(g) \/ ReadFiles(g) PROVE AllOwed(m, sh)' = AllOwed(m, sh)
  BY <1>6, OwedSame DEF ReadCounter, ReadFiles
<1>7. ASSUME WriteCounter(g)
      PROVE  AllOwed(m, sh)' = AllOwed(m, sh) - Of(IF Call(g).of = c THEN Call(g).by ELSE 0, up)
  <2>1. calls[g] # <<>> /\ Over(g) /\ left' = left /\ Call(g).op \in {"add", "lockAdd"}
    BY <1>7 DEF WriteCounter, Calling
  <2>2. AllOwed(m, sh)' = AllOwed(m, sh) - m[Call(g)] /\ Call(g) \in CallSet
    BY <1>1, <2>1, OwedOver
  <2>3. m[Call(g)] = Of(IF Call(g).of = c THEN Call(g).by ELSE 0, up)
    BY <1>2, <2>1, <2>2 DEF NetOf
  <2> QED
    BY <2>2, <2>3
<1> QED
  BY <1>3, <1>4, <1>5, <1>6, <1>7 DEF Step, Due, All, m, sh

(* A counter, and what is read of it, never exceeds what has been added. *)
Bounded ==
  \A c \in Counter :
    /\ count[c] + Due(c, TRUE) <= All(c, TRUE)
    /\ \A g \in seen : Target(g) = c => value[g] + Due(c, TRUE) <= All(c, TRUE)

(* At first the counters are zero and all is due. *)
LEMMA BoundedFirst == Init => Bounded
<1> SUFFICES ASSUME Init, NEW c \in Counter
             PROVE  count[c] + Due(c, TRUE) <= All(c, TRUE) /\ seen = {}
  BY DEF Bounded
<1>1. count[c] = 0 /\ seen = {}
  BY DEF Init
<1>2. Due(c, TRUE) = All(c, TRUE)
  BY DueFirst
<1> DEFINE D == Due(c, TRUE)
           A == All(c, TRUE)
<1>3. D \in Int /\ D = A
  BY <1>2, TypedFirst, DueTyped
<1> HIDE DEF D, A
<1>4. count[c] + D <= A
  BY <1>1, <1>3
<1> QED
  BY <1>1, <1>4 DEF D, A

(* No step makes a counter and what is due to it more than there is. *)
LEMMA BoundedStep ==
  ASSUME Typed, Typed', Between, Bounded, NEW g \in Goroutines, Step(g)
  PROVE  Bounded'
<1> SUFFICES ASSUME NEW c \in Counter
             PROVE  /\ count'[c] + Due(c, TRUE)' <= All(c, TRUE)'
                    /\ \A h \in seen' : Target(h)' = c => value'[h] + Due(c, TRUE)' <= All(c, TRUE)'
  BY DEF Bounded
<1> DEFINE D == Due(c, TRUE)
           A == All(c, TRUE)
           by == Of(IF Call(g).of = c THEN Call(g).by ELSE 0, TRUE)
<1>0. /\ \A h \in Goroutines \ {g} : calls'[h] = calls[h] /\ value'[h] = value[h] /\ (h \in seen' <=> h \in seen)
      /\ seen' \subseteq Goroutines
  BY OthersStay DEF Typed
<1>1. D \in Int /\ A' = A /\ (~WriteCounter(g) => D' = D) /\ (WriteCounter(g) => D' = D - by)
  BY DueStep, DueTyped
<1>2. /\ count[c] + D <= A /\ count[c] \in Int
      /\ \A h \in seen : Target(h) = c => value[h] + D <= A
  BY DEF Bounded, Typed
<1>3. A \in Int
  BY AllTyped
<1> HIDE DEF D, A
<1>4. \A h \in Goroutines \ {g} : Target(h)' = Target(h) 
  BY <1>0 DEF Target, Call
<1>5. CASE ~WriteCounter(g) /\ ~ReadCounter(g)
  <2>1. count' = count /\ value' = value
    BY <1>5 DEF Step, Begin, TrackFileFound, TrackFileParse, ReadFiles, SaveFile
  <2>2. g \in seen' => Target(g)' = "allFiles"
    BY <1>5 DEF Step, Begin, TrackFileFound, TrackFileParse, ReadFiles, SaveFile, Calling, Between, Target, Call
  <2>3. c # "allFiles"
    BY DEF Counter
  <2>4. ASSUME NEW h \in seen', Target(h)' = c PROVE value'[h] + D' <= A'
    <3>1. h # g
      BY <2>2, <2>3, <2>4
    <3> QED
      BY <1>0, <1>1, <1>2, <1>4, <1>5, <2>1, <2>4, <3>1
  <2> QED
    BY <1>1, <1>2, <1>5, <2>1, <2>4 DEF D, A
<1>6. CASE ReadCounter(g)
  <2>1. /\ count' = count /\ calls' = calls /\ calls[g] # <<>> /\ Call(g).op \in {"add", "lockAdd"}
        /\ ~WriteCounter(g)
    BY <1>6 DEF ReadCounter, Calling, WriteCounter
  <2>2. Target(g)' = Call(g).of /\ value'[g] = count[Call(g).of]
    BY <1>6, <2>1 DEF ReadCounter, Target, Call, Typed
  <2>3. ASSUME NEW h \in seen', Target(h)' = c PROVE value'[h] + D' <= A'
    <3>1. CASE h = g
      BY <1>1, <1>2, <2>1, <2>2, <2>3, <3>1
    <3>2. CASE h # g
      BY <1>0, <1>1, <1>2, <1>4, <2>1, <2>3, <3>2
    <3> QED
      BY <3>1, <3>2
  <2> QED
    BY <1>1, <1>2, <2>1, <2>3 DEF D, A
<1>7. CASE WriteCounter(g)
  <2>1. /\ calls[g] # <<>> /\ Call(g).op \in {"add", "lockAdd"} /\ g \in seen /\ g \notin seen'
    BY <1>7 DEF WriteCounter, Calling
  <2>2. Call(g).of \in Counter /\ Call(g).by \in Int /\ Target(g) = Call(g).of
    BY <2>1, CallTyped DEF Target
  <2>3. count'[c] = IF Call(g).of = c THEN value[g] + Call(g).by ELSE count[c]
    BY <1>7, <2>2 DEF WriteCounter, Typed
  <2>4. by \in Nat /\ (Call(g).of = c => Call(g).by <= by) /\ D' = D - by
    BY <1>1, <1>7, <2>2 DEF Of
  <2>5. value[g] \in Int /\ \A h \in seen : value[h] \in Int
    BY DEF Typed
  <2> HIDE DEF by
  <2>6. count'[c] + D' <= A'
    BY <1>1, <1>2, <1>3, <2>1, <2>2, <2>3, <2>4, <2>5
  <2>7. ASSUME NEW h \in seen', Target(h)' = c PROVE value'[h] + D' <= A'
    <3>1. h # g /\ h \in seen /\ Target(h) = c /\ value'[h] = value[h]
      BY <1>0, <1>4, <2>1, <2>7
    <3> QED
      BY <1>1, <1>2, <1>3, <2>4, <2>5, <3>1
  <2> QED
    BY <2>6, <2>7 DEF D, A
<1> QED
  BY <1>5, <1>6, <1>7
-----------------------------------------------------------------------------
(* A counter on which no two calls overlapped is exact at every moment, and the *)
(* one goroutine that may be in the middle of adding to it has read what it     *)
(* still holds.                                                                 *)
Exact ==
  \A c \in Counter \ raced :
    /\ count[c] + Due(c, FALSE) = All(c, FALSE)
    /\ \A g \in seen : Target(g) = c => value[g] = count[c]
    /\ \A g, h \in seen : Target(g) = c /\ Target(h) = c => g = h

(* At first the counters and what is due to them are all there is. *)
LEMMA ExactFirst == Init => Exact
<1> SUFFICES ASSUME Init, NEW c \in Counter
             PROVE  count[c] + Due(c, FALSE) = All(c, FALSE) /\ seen = {}
  BY DEF Exact
<1>1. count[c] = 0 /\ seen = {}
  BY DEF Init
<1> DEFINE D == Due(c, FALSE)
           A == All(c, FALSE)
<1>2. D \in Int /\ D = A
  BY DueFirst, TypedFirst, DueTyped
<1> HIDE DEF D, A
<1>3. count[c] + D = A
  BY <1>1, <1>2
<1> QED
  BY <1>1, <1>3 DEF D, A

(* A counter on which no two calls overlapped loses nothing. *)
LEMMA ExactStep ==
  ASSUME Typed, Typed', Between, Exact, NEW g \in Goroutines, Step(g)
  PROVE  Exact'
<1> SUFFICES ASSUME NEW c \in Counter, c \notin raced'
             PROVE  /\ count'[c] + Due(c, FALSE)' = All(c, FALSE)'
                    /\ \A h \in seen' : Target(h)' = c => value'[h] = count'[c]
                    /\ \A h, i \in seen' : Target(h)' = c /\ Target(i)' = c => h = i
  BY DEF Exact
<1> DEFINE D == Due(c, FALSE)
           A == All(c, FALSE)
           by == IF Call(g).of = c THEN Call(g).by ELSE 0
<1>0. /\ \A h \in Goroutines \ {g} : calls'[h] = calls[h] /\ value'[h] = value[h] /\ (h \in seen' <=> h \in seen)
      /\ seen' \subseteq Goroutines /\ seen \subseteq Goroutines /\ c \notin raced
  BY OthersStay DEF Typed
<1>1. D \in Int /\ A \in Int /\ A' = A /\ (~WriteCounter(g) => D' = D) /\ (WriteCounter(g) => D' = D - Of(by, FALSE))
  BY DueStep, DueTyped, AllTyped
<1>2. /\ count[c] + D = A /\ count[c] \in Int
      /\ \A h \in seen : Target(h) = c => value[h] = count[c]
      /\ \A h, i \in seen : Target(h) = c /\ Target(i) = c => h = i
  BY <1>0 DEF Exact, Typed
<1> HIDE DEF D, A
<1>3. \A h \in Goroutines \ {g} : Target(h)' = Target(h)
  BY <1>0 DEF Target, Call
<1>4. c # "allFiles"
  BY DEF Counter
<1>5. CASE ~WriteCounter(g) /\ ~ReadCounter(g)
  <2>1. count' = count /\ value' = value
    BY <1>5 DEF Step, Begin, TrackFileFound, TrackFileParse, ReadFiles, SaveFile
  <2>2. g \in seen' => Target(g)' = "allFiles"
    BY <1>5 DEF Step, Begin, TrackFileFound, TrackFileParse, ReadFiles, SaveFile, Calling, Between, Target, Call
  <2>3. \A h \in seen' : Target(h)' = c => h \in seen /\ Target(h) = c
    BY <1>0, <1>3, <1>4, <2>2
  <2> QED
    BY <1>1, <1>2, <1>5, <2>1, <2>3 DEF D, A
<1>6. CASE ReadCounter(g)
  <2>1. /\ count' = count /\ calls' = calls /\ calls[g] # <<>> /\ Call(g).op \in {"add", "lockAdd"}
        /\ ~WriteCounter(g)
    BY <1>6 DEF ReadCounter, Calling, WriteCounter
  <2>2. Target(g)' = Call(g).of /\ value'[g] = count[Call(g).of] /\ Target(g) = Call(g).of
    BY <1>6, <2>1 DEF ReadCounter, Target, Call, Typed
  <2>3. ASSUME Target(g) = c, NEW h \in seen, Target(h) = c PROVE h = g
    BY <1>6, <2>3 DEF ReadCounter, Racing
  <2>4. \A h \in seen' : h # g /\ Target(h)' = c => h \in seen /\ Target(h) = c /\ value'[h] = value[h]
    BY <1>0, <1>3
  <2>5. \A h \in seen' : Target(h)' = c => value'[h] = count'[c]
    BY <1>2, <2>1, <2>2, <2>4
  <2>6. \A h, i \in seen' : Target(h)' = c /\ Target(i)' = c => h = i
    BY <1>2, <2>2, <2>3, <2>4
  <2> QED
    BY <1>1, <1>2, <2>1, <2>5, <2>6 DEF D, A
<1>7. CASE WriteCounter(g)
  <2>1. /\ calls[g] # <<>> /\ Call(g).op \in {"add", "lockAdd"} /\ g \in seen /\ g \notin seen'
    BY <1>7 DEF WriteCounter, Calling
  <2>2. Call(g).of \in Counter /\ Call(g).by \in Int /\ Target(g) = Call(g).of
    BY <2>1, CallTyped DEF Target
  <2>3. count'[c] = IF Call(g).of = c THEN value[g] + Call(g).by ELSE count[c]
    BY <1>7, <2>2 DEF WriteCounter, Typed
  <2>4. by \in Int /\ D' = D - by
    BY <1>1, <1>7, <2>2 DEF Of
  <2>5. count'[c] = count[c] + by
    BY <1>2, <2>1, <2>2, <2>3
  <2>6. \A h \in seen' : Target(h)' = c => h \in seen /\ h # g /\ Target(h) = c /\ value'[h] = value[h]
    BY <1>0, <1>3, <2>1
  <2>7. ASSUME NEW h \in seen', Target(h)' = c PROVE value'[h] = count'[c]
    <3>1. Call(g).of # c
      BY <1>2, <2>1, <2>2, <2>6, <2>7
    <3> QED
      BY <1>2, <2>3, <2>6, <2>7, <3>1
  <2> HIDE DEF by
  <2>8. count'[c] + D' = A'
    BY <1>1, <1>2, <2>4, <2>5
  <2> QED
    BY <1>2, <2>6, <2>7, <2>8 DEF D, A
<1> QED
  BY <1>5, <1>6, <1>7
-----------------------------------------------------------------------------
(* At the end nothing is due. *)
LEMMA NoneDue ==
  ASSUME Finished
  PROVE  \A c \in Counter, up \in BOOLEAN : Due(c, up) = 0
  BY OwedLast DEF Due

(* What is due to a counter, without what is taken off, is never below zero. *)
LEMMA DueNotNegative ==
  ASSUME Typed, NEW c \in Counter
  PROVE  Due(c, TRUE) \in Nat
<1> DEFINE m == amount(c, TRUE)
           sh == share(c, TRUE)
           a == [g \in Goroutines |-> Owes(calls[g], left[g], m, sh)]
           N == Nat
<1>1. \A k \in CallSet : m[k] \in Nat
  <2>1. \A k \in CallSet : NetOf(k, c) \in Int /\ m[k] = Of(NetOf(k, c), TRUE)
    BY AmountTyped
  <2> HIDE DEF m
  <2> QED
    BY <2>1 DEF Of
<1>2. \A w \in Works : sh[w] \in Nat
  <2>1. sh \in [Works -> Int]
    BY WorkSettles DEF Settles
  <2>2. \A w \in Works : sh[w] \in Int /\ sh[w] = Most(w, c)
    BY <2>1 DEF share
  <2> HIDE DEF sh
  <2> QED
    BY <2>2 DEF Most
<1>3. m \in [CallSet -> N] /\ sh \in [Works -> N]
  BY <1>1, <1>2 DEF amount, share
<1> HIDE DEF m, sh
<1>4. ASSUME NEW g \in Goroutines PROVE a[g] \in Nat
  <2>1. calls[g] \in Seq(CallSet) /\ left[g] \in Seq(Works)
    BY DEF Typed
  <2>2. Each(calls[g], m) \in Seq(N) /\ Each(left[g], sh) \in Seq(N)
    <3> HIDE DEF N
    <3> QED
      BY <1>3, <2>1, EachType
  <2>3. SumFunction(Each(calls[g], m)) \in Nat /\ SumFunction(Each(left[g], sh)) \in Nat
    BY <2>2, TotalNatural
  <2> QED
    BY <2>3 DEF Owes
<1> HIDE DEF a
<1>5. SumFunctionOnSet(a, Goroutines) \in Nat
  BY <1>4, SumNatural, GoroutinesNamed
<1> QED
  BY <1>5 DEF Due, AllOwed, a, m, sh

(* A counter below what there is, with something still due, says no more than there is. *)
LEMMA BoundedNeverOver == Typed /\ Bounded => NeverOvercounted
<1> SUFFICES ASSUME Typed, Bounded, NEW c \in Counter
             PROVE  count[c] <= Total([w \in Works |-> Most(w, c)])
  BY DEF NeverOvercounted
<1> DEFINE D == Due(c, TRUE)
           A == All(c, TRUE)
<1>1. D \in Nat /\ A \in Int /\ count[c] \in Int /\ count[c] + D <= A
  BY DueNotNegative, AllTyped DEF Bounded, Typed
<1>2. A = Total([w \in Works |-> Most(w, c)])
  BY DEF All, share
<1> HIDE DEF D, A
<1>3. count[c] <= A
  BY <1>1
<1> QED
  BY <1>2, <1>3

(* The shares are integers. *)
LEMMA ShareTyped == \A c \in Counter, w \in Works : Share(w, c) \in Int /\ Unfound(w) \in Nat
<1>1. ASSUME NEW c \in Counter, NEW w \in Files PROVE Share(w, c) \in Int /\ Unfound(w) \in Nat
  <2>1. /\ File[w].lines \in Nat /\ File[w].resources \in Nat /\ File[w].resolved \in Nat
        /\ File[w].total \in Nat /\ File[w].ignored \in Nat
    BY FilesTyped
  <2> QED
    BY <2>1, ShareOf DEF Counter
<1>2. ASSUME NEW c \in Counter, NEW w \in Queries PROVE Share(w, c) \in Int /\ Unfound(w) \in Nat
  BY QueriesTyped, ShareOf
<1> QED
  BY <1>1, <1>2 DEF Works

(* What there is to add to a counter in all. *)
LEMMA AllIsFull ==
  ASSUME Typed, NEW c \in Counter
  PROVE  All(c, FALSE) = Full(c) - (IF c = "ExecutedQueries" THEN Undetected ELSE 0)
<1> DEFINE full == [w \in Works |-> Share(w, c)]
           off == [w \in Works |-> Unfound(w)]
           net == [w \in Works |-> LessUnfound(w, c)]
           all == Total(net)
           sum == Total(full)
           less == Total(off)
<1>2. All(c, FALSE) = all /\ Full(c) = sum /\ Undetected = less
  BY DEF All, share, Full, Undetected
<1> SUFFICES all = sum - (IF c = "ExecutedQueries" THEN less ELSE 0)
  BY <1>2
<1>1. full \in [Works -> Int] /\ off \in [Works -> Int]
  BY ShareTyped
<1>3. CASE c = "ExecutedQueries"
  <2>1. \A w \in Works : full[w] = net[w] + off[w] /\ net[w] \in Int
    BY <1>3, ShareTyped DEF LessUnfound
  <2>2. net \in [Works -> Int]
    BY <2>1
  <2> HIDE DEF full, off, net
  <2>3. Total(full) = Total(net) + Total(off)
    BY <1>1, <2>1, <2>2, TotalPlus
  <2>4. Total(net) \in Int /\ Total(off) \in Int
    BY <1>1, <2>2, TotalTyped
  <2>5. all \in Int /\ less \in Int /\ sum = all + less
    BY <2>3, <2>4
  <2> HIDE DEF all, sum, less
  <2> QED
    BY <1>3, <2>5
<1>4. CASE c # "ExecutedQueries"
  <2>1. net = full
    BY <1>4, ShareTyped DEF LessUnfound
  <2>2. Total(full) \in Int
    BY <1>1, TotalTyped
  <2>3. all = sum /\ sum \in Int
    BY <2>1, <2>2
  <2> HIDE DEF all, sum, less
  <2> QED
    BY <1>4, <2>3
<1> QED
  BY <1>3, <1>4

(* At the end, with nothing due, the equation is the property. *)
LEMMA ExactIsExact == Typed /\ OneSaver /\ UnfoundOnly /\ Exact => ExactWithoutRaces
<1> SUFFICES ASSUME Typed, OneSaver, UnfoundOnly, Exact PROVE ExactWithoutRaces
  OBVIOUS
<1>1. ASSUME "ExecutedQueries" \in raced PROVE Undetected > 0
  <2> DEFINE off == [w \in Works |-> Unfound(w)]
  <2>1. off \in [Works -> Nat]
    BY ShareTyped DEF Counter
  <2>2. PICK g \in Goroutines : \E i \in DOMAIN scenario[g] : Unfound(scenario[g][i]) = 1
    BY <1>1 DEF UnfoundOnly, HasUnfound
  <2>3. PICK i \in DOMAIN scenario[g] : Unfound(scenario[g][i]) = 1
    BY <2>2
  <2>4. off[scenario[g][i]] = 1
    <3>1. scenario[g] \in Seq(Works)
      BY DEF Typed
    <3>2. scenario[g][i] \in Works
      BY <2>3, <3>1
    <3> QED
      BY <2>3, <3>2
  <2> HIDE DEF off
  <2>5. Total(off) \in Nat /\ 1 <= Total(off)
    BY <2>1, <2>2, <2>3, <2>4, TotalNotNegative
  <2> QED
    BY <2>5 DEF Undetected, off
<1>2. ASSUME Finished, NEW c \in Counter \ raced
      PROVE  count[c] = Full(c) - (IF c = "ExecutedQueries" THEN Undetected ELSE 0)
  <2> DEFINE D == Due(c, FALSE)
             A == All(c, FALSE)
  <2>1. D = 0 /\ count[c] + D = A /\ count[c] \in Int
    BY <1>2, NoneDue DEF Exact, Typed
  <2> HIDE DEF D, A
  <2>2. count[c] = A
    BY <2>1
  <2> QED
    BY <2>2, AllIsFull DEF A
<1> QED
  BY <1>1, <1>2 DEF ExactWithoutRaces, OneSaver, Stored
-----------------------------------------------------------------------------
(* The inductive invariant. *)
IInv ==
  Typed /\ Between /\ Locked /\ OneSaver /\ FilesOwed /\ UnfoundOnly /\ Bounded /\ Exact

(* The inductive invariant holds at first. *)
LEMMA IInvFirst == Init => IInv
  BY TypedFirst, UnfoundFirst, OneSaverFirst, FilesOwedFirst, BoundedFirst, ExactFirst DEF IInv

(* Every step keeps it. *)
LEMMA IInvStep == IInv /\ [Next]_vars => IInv'
<1> SUFFICES ASSUME IInv, [Next]_vars PROVE IInv'
  OBVIOUS
<1>1. Typed' /\ Between'
  BY TypedStep DEF IInv
<1>2. CASE UNCHANGED vars
  <2>1. /\ scenario' = scenario /\ left' = left /\ calls' = calls /\ seen' = seen /\ value' = value
        /\ header' = header /\ mutex' = mutex /\ count' = count /\ allFiles' = allFiles
        /\ files' = files /\ raced' = raced
    BY <1>2 DEF vars
  <2>2. Locked' /\ OneSaver' /\ FilesOwed' /\ UnfoundOnly'
    <3>1. Locked' /\ OneSaver'
      BY <2>1 DEF IInv, Locked, OneSaver, Saving, Stored, Call
    <3>2. FilesOwed'
      BY <2>1 DEF IInv, FilesOwed
    <3>3. UnfoundOnly'
      BY <2>1 DEF IInv, UnfoundOnly, TakesOff, HasUnfound
    <3> QED
      BY <3>1, <3>2, <3>3
  <2>3. \A c \in Counter, up \in BOOLEAN : Due(c, up)' = Due(c, up) /\ All(c, up)' = All(c, up)
    BY <2>1 DEF Due, AllOwed, All, Total
  <2>4. \A g \in Goroutines : Target(g)' = Target(g)
    BY <2>1 DEF Target, Call
  <2>5. Bounded' /\ Exact'
    <3>1. seen \subseteq Goroutines
      BY DEF IInv, Typed
    <3>2. Bounded'
      BY <2>1, <2>3, <2>4, <3>1 DEF IInv, Bounded
    <3>3. Exact'
      <4>1. ASSUME NEW c \in Counter, c \notin raced'
            PROVE  /\ count'[c] + Due(c, FALSE)' = All(c, FALSE)'
                   /\ \A g \in seen' : Target(g)' = c => value'[g] = count'[c]
                   /\ \A g, h \in seen' : Target(g)' = c /\ Target(h)' = c => g = h
        <5>1. /\ count[c] + Due(c, FALSE) = All(c, FALSE)
              /\ \A g \in seen : Target(g) = c => value[g] = count[c]
              /\ \A g, h \in seen : Target(g) = c /\ Target(h) = c => g = h
          BY <2>1, <4>1 DEF IInv, Exact
        <5>2. Due(c, FALSE)' = Due(c, FALSE) /\ All(c, FALSE)' = All(c, FALSE)
          BY <2>3
        <5> QED
          BY <2>1, <2>4, <3>1, <5>1, <5>2
      <4> QED
        BY <4>1 DEF Exact
    <3> QED
      BY <3>2, <3>3
  <2> QED
    BY <1>1, <2>2, <2>5 DEF IInv
<1>3. ASSUME NEW g \in Goroutines, Step(g) PROVE IInv'
  BY <1>1, <1>3, UnfoundStep, OneSaverStep, FilesOwedStep, BoundedStep, ExactStep DEF IInv
<1> QED
  BY <1>2, <1>3 DEF Next, Terminated

(* The inductive invariant of the shared counters and the storage: what is done *)
(* and what is owed are always the whole (ci.go, memory.go, sink.go). *)
THEOREM Invariant == Spec => []IInv
  BY IInvFirst, IInvStep, PTL DEF Spec

(* What the goroutines share keeps its type, and a goroutine in the middle of a *)
(* call still has that call to end.                                             *)
THEOREM TypesKept == Spec => [](Typed /\ Between)
<1>1. IInv => Typed /\ Between
  BY DEF IInv
<1> QED
  BY <1>1, Invariant, PTL

(* A service inspects the documents of its own files that could be marshalled,  *)
(* in the order of its walk, whatever the others do to the storage they share   *)
(* (sink, saveToFile).                                                          *)
THEOREM InspectsOwn == Spec => []InspectsOwnFiles
<1>1. IInv => InspectsOwnFiles
  BY FilesOwedLast DEF IInv
<1> QED
  BY <1>1, Invariant, PTL

(* No counter of the summary ever says more than there is to add, however the   *)
(* unlocked += of the tracker interleave; a query that failed never counts      *)
(* (TrackQueryExecution, FailedDetectLine).                                     *)
THEOREM NeverOver == Spec => []NeverOvercounted
<1>1. IInv => NeverOvercounted
  BY BoundedNeverOver DEF IInv
<1> QED
  BY <1>1, Invariant, PTL

(* Where no two updates overlapped the summary is exact, and only where a line  *)
(* was not found can the executed queries be anything else: TrackQueryExecution *)
(* holds trackerMu, FailedDetectLine does not.                                  *)
THEOREM Exactness == Spec => []ExactWithoutRaces
<1>1. IInv => ExactWithoutRaces
  BY ExactIsExact DEF IInv
<1> QED
  BY <1>1, Invariant, PTL

(* Unless two saves overlapped, the storage holds at every moment exactly what *)
(* the services have in their own lists (SaveFile, saveToFile).                *)
THEOREM StorageKeepsAll == Spec => []("allFiles" \notin raced => allFiles = Stored)
<1>1. IInv => ("allFiles" \notin raced => allFiles = Stored)
  BY DEF IInv, OneSaver
<1> QED
  BY <1>1, Invariant, PTL
=============================================================================
