------------------------------ MODULE Folding ------------------------------
(***************************************************************************)
(* Facts about the folds that the modules use, for the proofs: sums over   *)
(* finite sets (SumFunctionOnSet), the concatenation of a sequence of      *)
(* sequences (FlattenSeq) and loops over 1 .. n.  All are recursive        *)
(* functions; that they obey their recursion, and what follows by          *)
(* induction, is shown by taking a smallest set, or a least number, for    *)
(* which it fails.                                                         *)
(***************************************************************************)
EXTENDS Integers, SequencesExt, FiniteSetTheorems, SequenceTheorems, TLAPS

Some(T) == CHOOSE x \in T : TRUE

(* g is the function that a sum over S is defined by. *)
SumsOver(f, S, g) ==
  g = [T \in SUBSET S |-> IF T = {} THEN 0 ELSE f[Some(T)] + g[T \ {Some(T)}]]

-----------------------------------------------------------------------------
(* A set of subsets of a finite set has a smallest one. *)
LEMMA SmallestSet ==
  ASSUME NEW S, IsFiniteSet(S), NEW X, X \subseteq SUBSET S, X # {}
  PROVE  \E T \in X : \A U \in X : U \subseteq T => U = T
<1>1. IsWellFoundedOn(StrictSubsetOrdering(S), SUBSET S)
  BY FS_StrictSubsetOrderingWellFounded, FS_FiniteSubsetsOfFinite
<1>2. PICK T \in X : \A U \in X : <<U, T>> \notin StrictSubsetOrdering(S)
  BY <1>1, WFMin
<1> QED
  BY <1>2 DEF StrictSubsetOrdering

(* The member the fold takes is one of the set. *)
LEMMA SomeMember == ASSUME NEW T, T # {} PROVE Some(T) \in T
  BY DEF Some

(* The sum is the value of the fold over the set. *)
LEMMA SumByIteration ==
  ASSUME NEW f, NEW S
  PROVE  SumFunctionOnSet(f, S) = (CHOOSE g : SumsOver(f, S, g))[S]
  BY Zenon DEF SumFunctionOnSet, FoldFunctionOnSet, MapThenFoldSet, SumsOver, Some

(* Two such functions agree where both are defined. *)
LEMMA IterationsAgree ==
  ASSUME NEW f, NEW A, NEW B, NEW g, NEW h, SumsOver(f, A, g), SumsOver(f, B, h),
         NEW S, S \subseteq A, S \subseteq B, IsFiniteSet(S)
  PROVE  g[S] = h[S]
<1> DEFINE X == {T \in SUBSET S : g[T] # h[T]}
<1>1. SUFFICES ASSUME X # {} PROVE FALSE
  OBVIOUS
<1>2. PICK T \in X : \A U \in X : U \subseteq T => U = T
  <2>1. X \subseteq SUBSET S
    OBVIOUS
  <2> HIDE DEF X
  <2> QED
    BY <1>1, <2>1, SmallestSet
<1>3. T # {}
  BY <1>2 DEF SumsOver
<1>4. Some(T) \in T /\ T \ {Some(T)} \in SUBSET S
  BY <1>3, SomeMember
<1>5. g[T \ {Some(T)}] = h[T \ {Some(T)}]
  BY <1>2, <1>4
<1>6. g[T] = f[Some(T)] + g[T \ {Some(T)}] /\ h[T] = f[Some(T)] + h[T \ {Some(T)}]
  BY <1>3 DEF SumsOver
<1> QED
  BY <1>2, <1>5, <1>6

(* There is such a function for every finite set. *)
LEMMA IterationExists ==
  ASSUME NEW f, NEW S, IsFiniteSet(S)
  PROVE  \E g : SumsOver(f, S, g)
<1> DEFINE X == {T \in SUBSET S : ~\E g : SumsOver(f, T, g)}
<1>1. SUFFICES ASSUME X # {} PROVE FALSE
  OBVIOUS
<1>2. PICK T \in X : \A U \in X : U \subseteq T => U = T
  <2>1. X \subseteq SUBSET S
    OBVIOUS
  <2> HIDE DEF X
  <2> QED
    BY <1>1, <2>1, SmallestSet
<1> DEFINE G(U) == CHOOSE g : SumsOver(f, U, g)
           Rest(U) == U \ {Some(U)}
           h == [U \in SUBSET T |-> IF U = {} THEN 0 ELSE f[Some(U)] + G(Rest(U))[Rest(U)]]
<1>3. \A U \in SUBSET T : U # T => SumsOver(f, U, G(U))
  BY <1>2
<1>4. ASSUME NEW U \in SUBSET T, U # T PROVE h[U] = G(U)[U]
  <2>1. CASE U = {}
    <3>1. SumsOver(f, U, G(U))
      BY <1>3, <1>4
    <3>2. G(U)[U] = 0
      BY <2>1, <3>1 DEF SumsOver
    <3> QED
      BY <2>1, <3>2
  <2>2. CASE U # {}
    <3>1. Rest(U) \in SUBSET T /\ Rest(U) # T /\ Rest(U) \subseteq U /\ IsFiniteSet(Rest(U))
      BY <1>4, <2>2, SomeMember, FS_Subset
    <3>2. SumsOver(f, U, G(U)) /\ SumsOver(f, Rest(U), G(Rest(U)))
      BY <1>3, <1>4, <3>1
    <3>3. G(U)[Rest(U)] = G(Rest(U))[Rest(U)]
      BY <3>1, <3>2, IterationsAgree
    <3>4. G(U)[U] = f[Some(U)] + G(U)[Rest(U)]
      BY <2>2, <3>2 DEF SumsOver
    <3> QED
      BY <2>2, <3>3, <3>4
  <2> QED
    BY <2>1, <2>2
<1>5. ASSUME NEW U \in SUBSET T, U # {} PROVE h[U] = f[Some(U)] + h[Rest(U)]
  <2>1. Rest(U) \in SUBSET T /\ Rest(U) # T
    BY <1>5, SomeMember
  <2> QED
    BY <1>4, <1>5, <2>1
<1>6. SumsOver(f, T, h)
  <2>1. h[{}] = 0
    OBVIOUS
  <2> HIDE DEF h
  <2>2. \A U \in SUBSET T : h[U] = IF U = {} THEN 0 ELSE f[Some(U)] + h[Rest(U)]
    BY <1>5, <2>1
  <2>3. h = [U \in SUBSET T |-> h[U]]
    BY DEF h
  <2> QED
    BY <2>2, <2>3 DEF SumsOver
<1> QED
  BY <1>2, <1>6

(* The sum obeys its recursion. *)
LEMMA SumRecursion ==
  ASSUME NEW f, NEW S, IsFiniteSet(S)
  PROVE  SumFunctionOnSet(f, S) =
           IF S = {} THEN 0 ELSE f[Some(S)] + SumFunctionOnSet(f, S \ {Some(S)})
<1> DEFINE G(U) == CHOOSE g : SumsOver(f, U, g)
           R == S \ {Some(S)}
<1>1. IsFiniteSet(R)
  BY FS_Subset
<1>2. SumsOver(f, S, G(S)) /\ SumsOver(f, R, G(R))
  BY <1>1, IterationExists
<1>3. G(S)[R] = G(R)[R]
  BY <1>1, <1>2, IterationsAgree
<1>4. SumFunctionOnSet(f, S) = G(S)[S] /\ SumFunctionOnSet(f, R) = G(R)[R]
  BY SumByIteration
<1>5. G(S)[S] = IF S = {} THEN 0 ELSE f[Some(S)] + G(S)[R]
  BY <1>2 DEF SumsOver
<1> QED
  BY <1>3, <1>4, <1>5

(* Nothing sums to zero. *)
LEMMA SumEmpty == ASSUME NEW f PROVE SumFunctionOnSet(f, {}) = 0
  BY SumRecursion, FS_EmptySet

(* The sum of integers is an integer. *)
LEMMA SumType ==
  ASSUME NEW S, IsFiniteSet(S), NEW f, \A x \in S : f[x] \in Int
  PROVE  SumFunctionOnSet(f, S) \in Int
<1> DEFINE X == {T \in SUBSET S : SumFunctionOnSet(f, T) \notin Int}
<1>1. SUFFICES ASSUME X # {} PROVE FALSE
  OBVIOUS
<1>2. PICK T \in X : \A U \in X : U \subseteq T => U = T
  <2>1. X \subseteq SUBSET S
    OBVIOUS
  <2> HIDE DEF X
  <2> QED
    BY <1>1, <2>1, SmallestSet
<1>3. IsFiniteSet(T) /\ T # {}
  <2>1. IsFiniteSet(T)
    BY FS_Subset
  <2>2. SumFunctionOnSet(f, {}) = 0
    BY SumEmpty
  <2> QED
    BY <2>1, <2>2
<1>4. Some(T) \in T
  BY <1>3, SomeMember
<1>5. SumFunctionOnSet(f, T \ {Some(T)}) \in Int
  BY <1>2, <1>4
<1> QED
  BY <1>2, <1>3, <1>4, <1>5, SumRecursion

(* Any element can be taken out. *)
LEMMA SumRemove ==
  ASSUME NEW S, IsFiniteSet(S), NEW f, \A x \in S : f[x] \in Int, NEW x \in S
  PROVE  SumFunctionOnSet(f, S) = f[x] + SumFunctionOnSet(f, S \ {x})
<1> DEFINE Sum(T) == SumFunctionOnSet(f, T)
           X == {T \in SUBSET S : \E y \in T : Sum(T) # f[y] + Sum(T \ {y})}
<1>1. SUFFICES ASSUME X # {} PROVE FALSE
  OBVIOUS
<1>2. PICK T \in X : \A U \in X : U \subseteq T => U = T
  <2>1. X \subseteq SUBSET S
    OBVIOUS
  <2> HIDE DEF X
  <2> QED
    BY <1>1, <2>1, SmallestSet
<1>3. PICK z \in T : Sum(T) # f[z] + Sum(T \ {z})
  OBVIOUS
<1> DEFINE y == Some(T)
<1>4. y \in T
  BY SomeMember
<1>5. \A U \in SUBSET S : IsFiniteSet(U) /\ Sum(U) \in Int
  BY FS_Subset, SumType
<1>6. Sum(T) = f[y] + Sum(T \ {y})
  BY <1>4, <1>5, SumRecursion
<1>7. y # z
  BY <1>3, <1>6
<1>8. ASSUME NEW u \in T, NEW v \in T, u # v
      PROVE  Sum(T \ {u}) = f[v] + Sum((T \ {u}) \ {v})
  <2>1. T \ {u} \in SUBSET S /\ T \ {u} \subseteq T /\ T \ {u} # T /\ v \in T \ {u}
    BY <1>8
  <2>2. T \ {u} \notin X
    BY <1>2, <2>1
  <2> QED
    BY <2>1, <2>2
<1>9. /\ Sum(T \ {y}) = f[z] + Sum((T \ {y}) \ {z})
      /\ Sum(T \ {z}) = f[y] + Sum((T \ {z}) \ {y})
  BY <1>4, <1>7, <1>8
<1>10. (T \ {z}) \ {y} = (T \ {y}) \ {z} /\ T \in SUBSET S
  OBVIOUS
<1>11. f[y] \in Int /\ f[z] \in Int /\ Sum((T \ {y}) \ {z}) \in Int
  BY <1>4, <1>5, <1>10
<1>12. Sum(T) = f[y] + (f[z] + Sum((T \ {y}) \ {z}))
  BY <1>6, <1>9
<1>13. f[z] + Sum(T \ {z}) = f[z] + (f[y] + Sum((T \ {y}) \ {z}))
  BY <1>9, <1>10
<1>14. f[y] + (f[z] + Sum((T \ {y}) \ {z})) = f[z] + (f[y] + Sum((T \ {y}) \ {z}))
  BY <1>11
<1> QED
  BY <1>3, <1>12, <1>13, <1>14

(* Only the values on the set count. *)
LEMMA SumEqual ==
  ASSUME NEW S, IsFiniteSet(S), NEW f, NEW g, \A x \in S : f[x] = g[x]
  PROVE  SumFunctionOnSet(f, S) = SumFunctionOnSet(g, S)
<1> DEFINE X == {T \in SUBSET S : SumFunctionOnSet(f, T) # SumFunctionOnSet(g, T)}
<1>1. SUFFICES ASSUME X # {} PROVE FALSE
  OBVIOUS
<1>2. PICK T \in X : \A U \in X : U \subseteq T => U = T
  <2>1. X \subseteq SUBSET S
    OBVIOUS
  <2> HIDE DEF X
  <2> QED
    BY <1>1, <2>1, SmallestSet
<1>3. IsFiniteSet(T)
  BY FS_Subset
<1>4. T # {}
  BY SumEmpty
<1>5. Some(T) \in T
  BY <1>4, SomeMember
<1>6. SumFunctionOnSet(f, T \ {Some(T)}) = SumFunctionOnSet(g, T \ {Some(T)})
  BY <1>2, <1>5
<1> QED
  BY <1>3, <1>4, <1>5, <1>6, SumRecursion

(* Larger values make no smaller sum; without values below zero it is not below *)
(* zero.                                                                        *)
LEMMA SumMonotonic ==
  ASSUME NEW S, IsFiniteSet(S), NEW f, NEW g, \A x \in S : f[x] \in Int /\ g[x] \in Int /\ f[x] <= g[x]
  PROVE  SumFunctionOnSet(f, S) <= SumFunctionOnSet(g, S)
<1> DEFINE X == {T \in SUBSET S : ~(SumFunctionOnSet(f, T) <= SumFunctionOnSet(g, T))}
<1>1. SUFFICES ASSUME X # {} PROVE FALSE
  OBVIOUS
<1>2. PICK T \in X : \A U \in X : U \subseteq T => U = T
  <2>1. X \subseteq SUBSET S
    OBVIOUS
  <2> HIDE DEF X
  <2> QED
    BY <1>1, <2>1, SmallestSet
<1>3. IsFiniteSet(T) /\ IsFiniteSet(T \ {Some(T)})
  BY FS_Subset
<1>4. T # {}
  BY SumEmpty
<1>5. Some(T) \in T
  BY <1>4, SomeMember
<1>6. SumFunctionOnSet(f, T \ {Some(T)}) <= SumFunctionOnSet(g, T \ {Some(T)})
  BY <1>2, <1>5
<1>7. /\ SumFunctionOnSet(f, T) = f[Some(T)] + SumFunctionOnSet(f, T \ {Some(T)})
      /\ SumFunctionOnSet(g, T) = g[Some(T)] + SumFunctionOnSet(g, T \ {Some(T)})
  BY <1>3, <1>4, SumRecursion
<1>8. SumFunctionOnSet(f, T \ {Some(T)}) \in Int /\ SumFunctionOnSet(g, T \ {Some(T)}) \in Int
  BY <1>3, SumType
<1> QED
  BY <1>5, <1>6, <1>7, <1>8

(* Zeros sum to zero. *)
LEMMA SumZero ==
  ASSUME NEW S, IsFiniteSet(S), NEW f, \A x \in S : f[x] = 0
  PROVE  SumFunctionOnSet(f, S) = 0
<1> DEFINE X == {T \in SUBSET S : SumFunctionOnSet(f, T) # 0}
<1>1. SUFFICES ASSUME X # {} PROVE FALSE
  OBVIOUS
<1>2. PICK T \in X : \A U \in X : U \subseteq T => U = T
  <2>1. X \subseteq SUBSET S
    OBVIOUS
  <2> HIDE DEF X
  <2> QED
    BY <1>1, <2>1, SmallestSet
<1>3. IsFiniteSet(T) /\ T # {}
  BY FS_Subset, SumEmpty
<1>4. Some(T) \in T
  BY <1>3, SomeMember
<1>5. SumFunctionOnSet(f, T \ {Some(T)}) = 0
  BY <1>2, <1>4
<1> QED
  BY <1>3, <1>4, <1>5, SumRecursion

(* The sum of values that are not below zero is none below any of them. *)
LEMMA SumNatural ==
  ASSUME NEW S, IsFiniteSet(S), NEW f, \A x \in S : f[x] \in Nat
  PROVE  SumFunctionOnSet(f, S) \in Nat /\ \A x \in S : f[x] <= SumFunctionOnSet(f, S)
<1> DEFINE none == [x \in S |-> 0]
<1>1. ASSUME NEW T, T \subseteq S PROVE SumFunctionOnSet(f, T) \in Nat /\ IsFiniteSet(T)
  <2>1. IsFiniteSet(T)
    BY <1>1, FS_Subset
  <2>2. \A x \in T : none[x] = 0 /\ none[x] \in Int /\ f[x] \in Int /\ none[x] <= f[x]
    BY <1>1
  <2> HIDE DEF none
  <2>3. SumFunctionOnSet(none, T) = 0
    BY <2>1, <2>2, SumZero
  <2>4. SumFunctionOnSet(none, T) <= SumFunctionOnSet(f, T)
    BY <2>1, <2>2, SumMonotonic
  <2>5. SumFunctionOnSet(f, T) \in Int
    BY <2>1, <2>2, SumType
  <2> QED
    BY <2>1, <2>3, <2>4, <2>5
<1>2. ASSUME NEW x \in S PROVE f[x] <= SumFunctionOnSet(f, S)
  <2>1. SumFunctionOnSet(f, S) = f[x] + SumFunctionOnSet(f, S \ {x})
    <3>1. \A y \in S : f[y] \in Int
      OBVIOUS
    <3> QED
      BY <1>2, <3>1, SumRemove
  <2>2. SumFunctionOnSet(f, S \ {x}) \in Nat
    BY <1>1
  <2> QED
    BY <2>1, <2>2
<1> QED
  BY <1>1, <1>2

(* The sum of the sums is the sum of the values. *)
LEMMA SumPlus ==
  ASSUME NEW S, IsFiniteSet(S), NEW f, NEW g, NEW h,
         \A x \in S : f[x] \in Int /\ g[x] \in Int /\ h[x] = f[x] + g[x]
  PROVE  SumFunctionOnSet(h, S) = SumFunctionOnSet(f, S) + SumFunctionOnSet(g, S)
<1> DEFINE Sum(k, T) == SumFunctionOnSet(k, T)
           X == {T \in SUBSET S : Sum(h, T) # Sum(f, T) + Sum(g, T)}
<1>1. SUFFICES ASSUME X # {} PROVE FALSE
  OBVIOUS
<1>2. PICK T \in X : \A U \in X : U \subseteq T => U = T
  <2>1. X \subseteq SUBSET S
    OBVIOUS
  <2> HIDE DEF X
  <2> QED
    BY <1>1, <2>1, SmallestSet
<1>3. IsFiniteSet(T) /\ IsFiniteSet(T \ {Some(T)})
  BY FS_Subset
<1>0. T # {}
  <2>1. Sum(f, {}) = 0 /\ Sum(g, {}) = 0 /\ Sum(h, {}) = 0
    BY SumEmpty
  <2>2. {} \notin X
    BY <2>1
  <2> QED
    BY <2>2
<1>4. Some(T) \in T
  BY <1>0, SomeMember
<1>5. Sum(h, T \ {Some(T)}) = Sum(f, T \ {Some(T)}) + Sum(g, T \ {Some(T)})
  BY <1>2, <1>4
<1>6. /\ Sum(f, T) = f[Some(T)] + Sum(f, T \ {Some(T)})
      /\ Sum(g, T) = g[Some(T)] + Sum(g, T \ {Some(T)})
      /\ Sum(h, T) = h[Some(T)] + Sum(h, T \ {Some(T)})
  BY <1>0, <1>3, SumRecursion
<1>7. Sum(f, T \ {Some(T)}) \in Int /\ Sum(g, T \ {Some(T)}) \in Int
  BY <1>3, SumType
<1>8. Sum(h, T) # Sum(f, T) + Sum(g, T)
  OBVIOUS
<1>9. f[Some(T)] \in Int /\ g[Some(T)] \in Int /\ h[Some(T)] = f[Some(T)] + g[Some(T)]
  BY <1>4
<1> QED
  BY <1>5, <1>6, <1>7, <1>8, <1>9

(* When one value changes, the sum changes by as much. *)
LEMMA SumChange ==
  ASSUME NEW S, IsFiniteSet(S), NEW f, NEW g, NEW x \in S,
         \A y \in S : f[y] \in Int /\ g[y] \in Int, \A y \in S \ {x} : g[y] = f[y]
  PROVE  SumFunctionOnSet(g, S) = SumFunctionOnSet(f, S) - f[x] + g[x]
<1> DEFINE R == S \ {x}
<1>1. IsFiniteSet(R)
  BY FS_Subset
<1>2. SumFunctionOnSet(g, R) = SumFunctionOnSet(f, R)
  BY <1>1, SumEqual
<1>3. SumFunctionOnSet(f, R) \in Int
  BY <1>1, SumType
<1>4. /\ SumFunctionOnSet(f, S) = f[x] + SumFunctionOnSet(f, R)
      /\ SumFunctionOnSet(g, S) = g[x] + SumFunctionOnSet(g, R)
  BY SumRemove
<1> QED
  BY <1>2, <1>3, <1>4
-----------------------------------------------------------------------------
(* A set of numbers has a least one. *)
LEMMA LeastNumber ==
  ASSUME NEW X, X \subseteq Nat, X # {}
  PROVE  \E n \in X : \A m \in X : n <= m
<1> DEFINE R == OpToRel(<, Nat)
<1>1. \A m, n \in Nat : m < n => <<m, n>> \in R
  BY SMT DEF R, OpToRel
<1>2. IsWellFoundedOn(R, Nat)
  BY NatLessThanWellFounded
<1> HIDE DEF R
<1>3. PICK n \in X : \A m \in X : <<m, n>> \notin R
  BY <1>2, WFMin
<1>4. \A m \in X : m \in Nat /\ n \in Nat /\ ~(m < n)
  BY <1>1, <1>3
<1>5. \A m \in X : n <= m
  BY <1>4
<1> QED
  BY <1>3, <1>5

(* g concatenates the first sequences of s, one after the other. *)
Concatenates(s, g) == g = [i \in 1 .. Len(s) |-> IF i = 1 THEN s[i] ELSE g[i - 1] \o s[i]]

(* The flattening is the value of its fold. *)
LEMMA FlattenByIteration ==
  ASSUME NEW s
  PROVE  FlattenSeq(s) = IF Len(s) = 0 THEN s ELSE (CHOOSE g : Concatenates(s, g))[Len(s)]
  BY Zenon DEF FlattenSeq, Concatenates

Agree(s, t, n) == \A i \in 1 .. n : s[i] = t[i]

(* Two functions that concatenate agree where both are defined. *)
LEMMA ConcatenationsAgree ==
  ASSUME NEW s, NEW t, NEW g, NEW h, Concatenates(s, g), Concatenates(t, h),
         Len(s) \in Nat, Len(t) \in Nat, NEW n \in Nat, n <= Len(s), n <= Len(t), Agree(s, t, n)
  PROVE  Agree(g, h, n)
<1> USE DEF Agree
<1> DEFINE X == {i \in 1 .. n : g[i] # h[i]}
<1>1. SUFFICES ASSUME X # {} PROVE FALSE
  OBVIOUS
<1>2. PICK i \in X : \A j \in X : i <= j
  <2>1. X \subseteq Nat
    OBVIOUS
  <2> HIDE DEF X
  <2> QED
    BY <1>1, <2>1, LeastNumber
<1>3. i \in 1 .. n /\ i \in 1 .. Len(s) /\ i \in 1 .. Len(t) /\ g[i] # h[i]
  OBVIOUS
<1>4. /\ g[i] = IF i = 1 THEN s[i] ELSE g[i - 1] \o s[i]
      /\ h[i] = IF i = 1 THEN t[i] ELSE h[i - 1] \o t[i]
  BY <1>3 DEF Concatenates
<1>5. i # 1 => g[i - 1] = h[i - 1]
  BY <1>2, <1>3
<1> QED
  BY <1>3, <1>4, <1>5

(* There is one for every length. *)
LEMMA ConcatenationExists ==
  ASSUME NEW D, NEW s \in Seq(D)
  PROVE  \E g : Concatenates(s, g)
<1> DEFINE Prefix(i) == SubSeq(s, 1, i)
           X == {i \in 0 .. Len(s) : ~\E g : Concatenates(Prefix(i), g)}
<1>0. s = Prefix(Len(s)) /\ Len(s) \in 0 .. Len(s)
  OBVIOUS
<1>1. SUFFICES ASSUME X # {} PROVE FALSE
  <2>1. Len(s) \notin X => \E g : Concatenates(Prefix(Len(s)), g)
    BY <1>0
  <2>2. X = {} => \E g : Concatenates(s, g)
    BY <1>0, <2>1
  <2> QED
    BY <2>2
<1>2. PICK n \in X : \A j \in X : n <= j
  <2>1. X \subseteq Nat
    OBVIOUS
  <2> HIDE DEF X
  <2> QED
    BY <1>1, <2>1, LeastNumber
<1>3. n \in 0 .. Len(s) /\ Prefix(n) \in Seq(D) /\ Len(Prefix(n)) = n /\ \A i \in 1 .. n : Prefix(n)[i] = s[i]
  OBVIOUS
<1>4. CASE n = 0
  <2> DEFINE g == [i \in 1 .. 0 |-> s[i]]
  <2>1. Concatenates(Prefix(n), g)
    BY <1>3, <1>4 DEF Concatenates
  <2> QED
    BY <2>1
<1>5. CASE n # 0
  <2>1. n - 1 \in 0 .. Len(s) /\ n - 1 \notin X
    BY <1>2, <1>3, <1>5
  <2>2. PICK g : Concatenates(Prefix(n - 1), g)
    BY <2>1
  <2>3. Len(Prefix(n - 1)) = n - 1 /\ \A i \in 1 .. n - 1 : Prefix(n - 1)[i] = s[i]
    BY <2>1
  <2>4. \A i \in 1 .. n - 1 : g[i] = IF i = 1 THEN s[i] ELSE g[i - 1] \o s[i]
    BY <2>2, <2>3 DEF Concatenates
  <2> DEFINE h == [i \in 1 .. n |-> IF i < n THEN g[i] ELSE IF n = 1 THEN s[1] ELSE g[n - 1] \o s[n]]
  <2>5. \A i \in 1 .. n : h[i] = IF i = 1 THEN s[i] ELSE h[i - 1] \o s[i]
    BY <1>3, <2>4
  <2>6. Concatenates(Prefix(n), h)
    <3> HIDE DEF h
    <3>1. h = [i \in 1 .. n |-> h[i]]
      BY DEF h
    <3>2. h = [i \in 1 .. n |-> IF i = 1 THEN Prefix(n)[i] ELSE h[i - 1] \o Prefix(n)[i]]
      BY <1>3, <2>5, <3>1
    <3> QED
      BY <1>3, <3>2 DEF Concatenates
  <2> QED
    BY <2>6
<1> QED
  BY <1>4, <1>5

(* Flattening obeys its recursion at the end of the sequence. *)
LEMMA FlattenEmpty == FlattenSeq(<<>>) = <<>>
  BY FlattenByIteration

(* One sequence more is written after the others. *)
LEMMA FlattenAppend ==
  ASSUME NEW D, NEW s \in Seq(Seq(D)), NEW x \in Seq(D)
  PROVE  FlattenSeq(Append(s, x)) = FlattenSeq(s) \o x
<1> DEFINE t == Append(s, x)
           n == Len(s)
<1>1. t \in Seq(Seq(D)) /\ Len(t) = n + 1 /\ t[n + 1] = x /\ n \in Nat /\ \A i \in 1 .. n : t[i] = s[i]
  OBVIOUS
<1>2. PICK g : Concatenates(s, g) /\ g = CHOOSE k : Concatenates(s, k)
  BY ConcatenationExists
<1>3. PICK h : Concatenates(t, h) /\ h = CHOOSE k : Concatenates(t, k)
  BY <1>1, ConcatenationExists
<1> HIDE DEF t
<1>4. FlattenSeq(t) = h[n + 1] /\ FlattenSeq(s) = IF n = 0 THEN s ELSE g[n]
  <2>1. FlattenSeq(t) = h[Len(t)] 
    BY <1>1, <1>3, FlattenByIteration
  <2>2. FlattenSeq(s) = IF Len(s) = 0 THEN s ELSE g[Len(s)]
    BY <1>2, FlattenByIteration
  <2> QED
    BY <1>1, <2>1, <2>2
<1>5. h[n + 1] = IF n + 1 = 1 THEN t[n + 1] ELSE h[n] \o t[n + 1]
  <2>1. n + 1 \in 1 .. Len(t) /\ (n + 1) - 1 = n
    BY <1>1
  <2>2. h = [i \in 1 .. Len(t) |-> IF i = 1 THEN t[i] ELSE h[i - 1] \o t[i]]
    BY <1>3 DEF Concatenates
  <2> QED
    BY <2>1, <2>2
<1>6. CASE n = 0
  <2>1. s = <<>> /\ s \o x = x
    BY <1>6
  <2> QED
    BY <1>1, <1>4, <1>5, <1>6, <2>1
<1>7. CASE n # 0
  <2>1. n <= Len(s) /\ n <= Len(t) /\ n \in 1 .. n
    BY <1>1, <1>7
  <2>2. Agree(g, h, n)
    <3>1. s \in Seq(Seq(D)) /\ t \in Seq(Seq(D)) /\ n \in Nat /\ n <= Len(s) /\ n <= Len(t)
          /\ Agree(s, t, n)
      BY <1>1, <2>1 DEF Agree
    <3>2. Concatenates(s, g) /\ Concatenates(t, h)
      BY <1>2, <1>3
    <3>3. Len(s) \in Nat /\ Len(t) \in Nat
      BY <1>1
    <3> HIDE DEF n
    <3> QED
      BY <3>1, <3>2, <3>3, ConcatenationsAgree
  <2>3. g[n] = h[n] /\ n + 1 # 1
    BY <1>1, <1>7, <2>1, <2>2 DEF Agree
  <2>4. h[n + 1] = g[n] \o x
    BY <1>1, <1>5, <2>3
  <2>5. FlattenSeq(t) = h[n + 1] /\ FlattenSeq(s) = g[n]
    BY <1>4, <1>7
  <2> QED
    BY <2>4, <2>5 DEF t
<1> QED
  BY <1>6, <1>7

(* The parts decide of what the whole is a sequence. *)
LEMMA FlattenType ==
  ASSUME NEW D, NEW s \in Seq(Seq(D))
  PROVE  FlattenSeq(s) \in Seq(D)
<1> DEFINE Prefix(i) == SubSeq(s, 1, i)
           X == {i \in 0 .. Len(s) : FlattenSeq(Prefix(i)) \notin Seq(D)}
<1>0. s = Prefix(Len(s)) /\ Len(s) \in 0 .. Len(s)
  OBVIOUS
<1>1. SUFFICES ASSUME X # {} PROVE FALSE
  <2>1. Len(s) \notin X => FlattenSeq(Prefix(Len(s))) \in Seq(D)
    BY <1>0
  <2>2. X = {} => FlattenSeq(s) \in Seq(D)
    BY <1>0, <2>1
  <2> QED
    BY <2>2
<1>2. PICK n \in X : \A j \in X : n <= j
  <2>1. X \subseteq Nat
    OBVIOUS
  <2> HIDE DEF X
  <2> QED
    BY <1>1, <2>1, LeastNumber
<1>3. n # 0
  <2>1. Prefix(0) = <<>>
    OBVIOUS
  <2>2. FlattenSeq(Prefix(0)) = <<>> /\ <<>> \in Seq(D)
    <3> HIDE DEF Prefix
    <3> QED
      BY <2>1, FlattenEmpty
  <2>3. 0 \notin X
    BY <2>2
  <2> QED
    BY <2>3
<1>4. n - 1 \in 0 .. Len(s) /\ n - 1 \notin X
  BY <1>2, <1>3
<1>5. FlattenSeq(Prefix(n - 1)) \in Seq(D)
  BY <1>4
<1>6. Prefix(n) = Append(Prefix(n - 1), s[n]) /\ Prefix(n - 1) \in Seq(Seq(D)) /\ s[n] \in Seq(D)
  BY <1>3
<1>7. FlattenSeq(Prefix(n)) = FlattenSeq(Prefix(n - 1)) \o s[n]
  BY <1>6, FlattenAppend
<1>8. FlattenSeq(Prefix(n)) \in Seq(D)
  <2> DEFINE a == FlattenSeq(Prefix(n - 1))
  <2>1. a \in Seq(D) /\ s[n] \in Seq(D)
    BY <1>5, <1>6
  <2> HIDE DEF a
  <2>2. a \o s[n] \in Seq(D)
    BY <2>1
  <2> QED
    BY <1>7, <2>2 DEF a
<1> QED
  BY <1>8

-----------------------------------------------------------------------------
(* What holds of the empty sequence and is kept by Append holds of every       *)
(* sequence; A is the set of the sequences it holds of.                        *)
LEMMA SequenceInduction ==
  ASSUME NEW S, NEW A, <<>> \in A, \A s \in Seq(S), e \in S : s \in A => Append(s, e) \in A
  PROVE  \A s \in Seq(S) : s \in A
<1> SUFFICES ASSUME NEW s \in Seq(S), s \notin A PROVE FALSE
  OBVIOUS
<1> DEFINE X == {n \in Nat : \E t \in Seq(S) : t \notin A /\ Len(t) = n}
<1>1. X # {} /\ X \subseteq Nat
  <2>1. Len(s) \in X
    OBVIOUS
  <2> QED
    BY <2>1
<1>2. PICK n \in X : \A m \in X : n <= m
  <2> HIDE DEF X
  <2> QED
    BY <1>1, LeastNumber
<1>3. PICK t \in Seq(S) : t \notin A /\ Len(t) = n
  BY <1>2
<1>4. t # <<>>
  BY <1>3
<1>5. PICK u \in Seq(S), e \in S : t = Append(u, e)
  BY <1>4, SequenceEmptyOrAppend
<1>6. Len(u) \in Nat /\ Len(t) = Len(u) + 1
  BY <1>5
<1>7. Len(u) \notin X
  BY <1>1, <1>2, <1>3, <1>6
<1>8. u \in A
  BY <1>6, <1>7
<1> QED
  BY <1>3, <1>5, <1>8

(* The empty sequence has nothing to add. *)
LEMMA TotalEmpty == SumFunction(<<>>) = 0
<1>1. DOMAIN <<>> = {}
  OBVIOUS
<1> QED
  BY <1>1, SumEmpty DEF SumFunction

(* The total of integers is an integer. *)
LEMMA TotalType == ASSUME NEW s \in Seq(Int) PROVE SumFunction(s) \in Int
<1>1. DOMAIN s = 1 .. Len(s) /\ Len(s) \in Int /\ \A i \in DOMAIN s : s[i] \in Int
  OBVIOUS
<1>2. IsFiniteSet(DOMAIN s)
  BY <1>1, FS_Interval
<1> QED
  BY <1>1, <1>2, SumType DEF SumFunction

(* One number more is added to the total. *)
LEMMA TotalAppend ==
  ASSUME NEW s \in Seq(Int), NEW x \in Int
  PROVE  SumFunction(Append(s, x)) = SumFunction(s) + x
<1> DEFINE t == Append(s, x)
           n == Len(s)
<1>1. /\ t \in Seq(Int) /\ n \in Nat /\ DOMAIN t = 1 .. n + 1 /\ DOMAIN s = 1 .. n
      /\ t[n + 1] = x /\ \A i \in DOMAIN s : t[i] = s[i]
  OBVIOUS
<1> HIDE DEF t
<1>2. /\ IsFiniteSet(DOMAIN t) /\ IsFiniteSet(DOMAIN s) /\ n + 1 \in DOMAIN t
      /\ \A i \in DOMAIN t : t[i] \in Int
  <2>1. IsFiniteSet(1 .. n + 1) /\ IsFiniteSet(1 .. n)
    BY <1>1, FS_Interval
  <2>2. n + 1 \in DOMAIN t /\ \A i \in DOMAIN t : t[i] \in Int
    BY <1>1
  <2> QED
    BY <1>1, <2>1, <2>2
<1>3. DOMAIN t \ {n + 1} = DOMAIN s
  BY <1>1
<1>4. SumFunctionOnSet(t, DOMAIN t) = t[n + 1] + SumFunctionOnSet(t, DOMAIN t \ {n + 1})
  BY <1>2, SumRemove
<1>5. SumFunctionOnSet(t, DOMAIN s) = SumFunctionOnSet(s, DOMAIN s)
  BY <1>1, <1>2, SumEqual
<1>6. SumFunctionOnSet(s, DOMAIN s) \in Int
  BY TotalType DEF SumFunction
<1>7. SumFunctionOnSet(t, DOMAIN t) = SumFunctionOnSet(s, DOMAIN s) + x
  <2>1. SumFunctionOnSet(t, DOMAIN t \ {n + 1}) = SumFunctionOnSet(s, DOMAIN s)
    BY <1>3, <1>5
  <2>2. t[n + 1] = x
    BY <1>1
  <2> QED
    BY <1>4, <1>6, <2>1, <2>2
<1> QED
  BY <1>7 DEF SumFunction, t

(* The total of two sequences is the sum of theirs. *)
LEMMA TotalConcat ==
  ASSUME NEW s \in Seq(Int), NEW t \in Seq(Int)
  PROVE  SumFunction(s \o t) = SumFunction(s) + SumFunction(t)
<1> DEFINE A == {u \in Seq(Int) : SumFunction(s \o u) = SumFunction(s) + SumFunction(u)}
<1>1. <<>> \in A
  BY TotalEmpty, TotalType, ConcatEmptySeq
<1>2. ASSUME NEW u \in Seq(Int), NEW e \in Int, u \in A PROVE Append(u, e) \in A
  <2>1. s \o Append(u, e) = Append(s \o u, e) /\ s \o u \in Seq(Int) /\ Append(u, e) \in Seq(Int)
    <3>1. Append(u, e) = u \o <<e>> /\ <<e>> \in Seq(Int) /\ s \o u \in Seq(Int)
      BY AppendIsConcat
    <3>2. Append(s \o u, e) = (s \o u) \o <<e>>
      BY <3>1, AppendIsConcat
    <3>3. (s \o u) \o <<e>> = s \o (u \o <<e>>)
      BY <3>1, ConcatAssociative
    <3> QED
      BY <3>1, <3>2, <3>3
  <2>2. /\ SumFunction(Append(s \o u, e)) = SumFunction(s \o u) + e
        /\ SumFunction(Append(u, e)) = SumFunction(u) + e
    BY <2>1, TotalAppend
  <2>3. SumFunction(s) \in Int /\ SumFunction(u) \in Int
    BY TotalType
  <2>4. SumFunction(s \o u) = SumFunction(s) + SumFunction(u)
    BY <1>2
  <2>5. SumFunction(s \o Append(u, e)) = SumFunction(s) + SumFunction(Append(u, e))
    BY <2>1, <2>2, <2>3, <2>4
  <2> QED
    BY <2>1, <2>5
<1> HIDE DEF A
<1>3. t \in A
  BY <1>1, <1>2, SequenceInduction
<1> QED
  BY <1>3 DEF A

(* A sequence that is not empty is its head before its tail. *)
LEMMA HeadBeforeTail ==
  ASSUME NEW S, NEW s \in Seq(S), s # <<>>
  PROVE  s = <<Head(s)>> \o Tail(s) /\ Head(s) \in S /\ Tail(s) \in Seq(S)
<1>1. Head(s) \in S /\ Tail(s) \in Seq(S) /\ <<Head(s)>> \in Seq(S) /\ Len(s) # 0
  OBVIOUS
<1> DEFINE t == <<Head(s)>> \o Tail(s)
<1>2. t \in Seq(S) /\ Len(t) = Len(s) /\ \A i \in 1 .. Len(s) : t[i] = s[i]
  BY <1>1
<1> HIDE DEF t
<1>3. t = s
  BY <1>2, SeqEqual
<1> QED
  BY <1>1, <1>3 DEF t

(* The total is the first number and the total of the rest. *)
LEMMA TotalHead ==
  ASSUME NEW s \in Seq(Int), s # <<>>
  PROVE  SumFunction(s) = Head(s) + SumFunction(Tail(s))
<1>1. s = <<Head(s)>> \o Tail(s) /\ Head(s) \in Int /\ Tail(s) \in Seq(Int) /\ <<Head(s)>> \in Seq(Int)
  BY HeadBeforeTail
<1>2. SumFunction(s) = SumFunction(<<Head(s)>>) + SumFunction(Tail(s))
  BY <1>1, TotalConcat
<1>3. <<Head(s)>> = Append(<<>>, Head(s)) /\ <<>> \in Seq(Int)
  OBVIOUS
<1>4. SumFunction(<<Head(s)>>) = 0 + Head(s)
  BY <1>1, <1>3, TotalAppend, TotalEmpty
<1> QED
  BY <1>1, <1>2, <1>4, TotalType

(* A sequence of naturals: the total is one too, and no less than each of them. *)
LEMMA TotalNatural ==
  ASSUME NEW s \in Seq(Nat)
  PROVE  SumFunction(s) \in Nat /\ \A i \in DOMAIN s : s[i] <= SumFunction(s)
<1>1. s \in Seq(Int) /\ DOMAIN s = 1 .. Len(s) /\ Len(s) \in Nat /\ \A i \in DOMAIN s : s[i] \in Nat
  OBVIOUS
<1>2. IsFiniteSet(DOMAIN s)
  BY <1>1, FS_Interval
<1> DEFINE zero == [i \in DOMAIN s |-> 0]
<1>3. ASSUME NEW T \in SUBSET DOMAIN s
      PROVE  SumFunctionOnSet(s, T) \in Int /\ SumFunctionOnSet(s, T) >= 0
  <2>1. IsFiniteSet(T) /\ \A i \in T : zero[i] = 0 /\ zero[i] <= s[i] /\ zero[i] \in Int /\ s[i] \in Int
    BY <1>1, <1>2, FS_Subset
  <2> HIDE DEF zero
  <2>2. SumFunctionOnSet(zero, T) = 0 /\ SumFunctionOnSet(zero, T) <= SumFunctionOnSet(s, T)
    BY <2>1, SumZero, SumMonotonic
  <2>3. SumFunctionOnSet(s, T) \in Int
    BY <2>1, SumType
  <2> QED
    BY <2>2, <2>3
<1>4. ASSUME NEW i \in DOMAIN s PROVE s[i] <= SumFunctionOnSet(s, DOMAIN s)
  <2>1. SumFunctionOnSet(s, DOMAIN s) = s[i] + SumFunctionOnSet(s, DOMAIN s \ {i})
    BY <1>1, <1>2, SumRemove
  <2>2. SumFunctionOnSet(s, DOMAIN s \ {i}) \in Int /\ SumFunctionOnSet(s, DOMAIN s \ {i}) >= 0
    BY <1>3
  <2> QED
    BY <1>1, <2>1, <2>2
<1>5. SumFunctionOnSet(s, DOMAIN s) \in Nat
  BY <1>3
<1> QED
  BY <1>4, <1>5 DEF SumFunction
-----------------------------------------------------------------------------
(* What two sequences hold is written one after the other. *)
LEMMA FlattenConcat ==
  ASSUME NEW D, NEW s \in Seq(Seq(D)), NEW t \in Seq(Seq(D))
  PROVE  FlattenSeq(s \o t) = FlattenSeq(s) \o FlattenSeq(t)
<1> DEFINE E == Seq(D)
           A == {u \in Seq(E) : FlattenSeq(s \o u) = FlattenSeq(s) \o FlattenSeq(u)}
<1>0. s \in Seq(E) /\ t \in Seq(E) /\ <<>> \in Seq(E)
  OBVIOUS
<1>1. <<>> \in A
  <2>1. s \o <<>> = s /\ FlattenSeq(s) \o <<>> = FlattenSeq(s)
    BY <1>0, FlattenType, ConcatEmptySeq
  <2> QED
    BY <1>0, <2>1, FlattenEmpty
<1>2. ASSUME NEW u \in Seq(E), NEW e \in E, u \in A PROVE Append(u, e) \in A
  <2> HIDE DEF E
  <2>1. s \o Append(u, e) = Append(s \o u, e) /\ s \o u \in Seq(E) /\ Append(u, e) \in Seq(E)
    <3>1. Append(u, e) = u \o <<e>> /\ <<e>> \in Seq(E) /\ s \o u \in Seq(E)
      BY <1>0, AppendIsConcat
    <3>2. Append(s \o u, e) = (s \o u) \o <<e>>
      BY <3>1, AppendIsConcat
    <3>3. (s \o u) \o <<e>> = s \o (u \o <<e>>)
      BY <1>0, <3>1, ConcatAssociative
    <3> QED
      BY <3>1, <3>2, <3>3, AppendProperties
  <2>2. /\ FlattenSeq(Append(s \o u, e)) = FlattenSeq(s \o u) \o e
        /\ FlattenSeq(Append(u, e)) = FlattenSeq(u) \o e
    BY <2>1, FlattenAppend DEF E
  <2>3. FlattenSeq(s \o u) = FlattenSeq(s) \o FlattenSeq(u)
    BY <1>2
  <2>4. FlattenSeq(s) \in Seq(D) /\ FlattenSeq(u) \in Seq(D) /\ e \in Seq(D)
    BY FlattenType DEF E
  <2>5. (FlattenSeq(s) \o FlattenSeq(u)) \o e = FlattenSeq(s) \o (FlattenSeq(u) \o e)
    BY <2>4, ConcatAssociative
  <2> QED
    BY <2>1, <2>2, <2>3, <2>5
<1> HIDE DEF A, E
<1>3. t \in A
  BY <1>0, <1>1, <1>2, SequenceInduction
<1> QED
  BY <1>3 DEF A

(* One part is the whole. *)
LEMMA FlattenOne == ASSUME NEW D, NEW e \in Seq(D) PROVE FlattenSeq(<<e>>) = e
<1>1. <<e>> = Append(<<>>, e) /\ <<>> \in Seq(Seq(D)) /\ <<>> \o e = e
  OBVIOUS
<1>2. FlattenSeq(Append(<<>>, e)) = FlattenSeq(<<>>) \o e
  BY <1>1, FlattenAppend
<1> QED
  BY <1>1, <1>2, FlattenEmpty

(* The first part, then the rest. *)
LEMMA FlattenHead ==
  ASSUME NEW D, NEW s \in Seq(Seq(D)), s # <<>>
  PROVE  FlattenSeq(s) = Head(s) \o FlattenSeq(Tail(s))
<1> DEFINE E == Seq(D)
<1>0. s \in Seq(E)
  OBVIOUS
<1>1. s = <<Head(s)>> \o Tail(s) /\ Head(s) \in E /\ Tail(s) \in Seq(E)
  <2> HIDE DEF E
  <2> QED
    BY <1>0, HeadBeforeTail
<1>2. <<Head(s)>> \in Seq(Seq(D)) /\ Tail(s) \in Seq(Seq(D)) /\ Head(s) \in Seq(D)
  BY <1>1
<1>3. FlattenSeq(s) = FlattenSeq(<<Head(s)>>) \o FlattenSeq(Tail(s))
  BY <1>1, <1>2, FlattenConcat
<1> QED
  BY <1>2, <1>3, FlattenOne

(* To flatten the singletons gives the sequence back. *)
LEMMA FlattenSingletons ==
  ASSUME NEW D, NEW s \in Seq(D)
  PROVE  FlattenSeq([i \in DOMAIN s |-> <<s[i]>>]) = s
<1> DEFINE One(u) == [i \in DOMAIN u |-> <<u[i]>>]
           A == {u \in Seq(D) : FlattenSeq(One(u)) = u}
<1>1. <<>> \in A
  <2>1. One(<<>>) = <<>> /\ <<>> \in Seq(D)
    OBVIOUS
  <2> HIDE DEF One
  <2> QED
    BY <2>1, FlattenEmpty
<1>2. ASSUME NEW u \in Seq(D), NEW e \in D, u \in A PROVE Append(u, e) \in A
  <2>1. One(Append(u, e)) = Append(One(u), <<e>>) /\ One(u) \in Seq(Seq(D)) /\ <<e>> \in Seq(D)
    <3>0. DOMAIN u = 1 .. Len(u) /\ Len(u) \in Nat /\ \A i \in 1 .. Len(u) : <<u[i]>> \in Seq(D)
      OBVIOUS
    <3>1. One(u) \in Seq(Seq(D)) /\ Len(One(u)) = Len(u) /\ <<e>> \in Seq(D)
      BY <3>0
    <3>2. /\ Append(u, e) \in Seq(D) /\ Len(Append(u, e)) = Len(u) + 1
          /\ DOMAIN Append(u, e) = 1 .. Len(u) + 1
      OBVIOUS
    <3> QED
      BY <3>1, <3>2
  <2>2. FlattenSeq(Append(One(u), <<e>>)) = FlattenSeq(One(u)) \o <<e>>
    <3> HIDE DEF One
    <3> QED
      BY <2>1, FlattenAppend
  <2>3. FlattenSeq(One(u)) = u /\ Append(u, e) = u \o <<e>> /\ Append(u, e) \in Seq(D)
    BY <1>2, AppendIsConcat
  <2> HIDE DEF One
  <2> QED
    BY <2>1, <2>2, <2>3
<1>3. s \in A
  <2> HIDE DEF A
  <2> QED
    BY <1>1, <1>2, SequenceInduction
<1> QED
  BY <1>3
-----------------------------------------------------------------------------
(* the values of f for the elements of a sequence *)
Each(s, f) == [i \in DOMAIN s |-> f[s[i]]]

(* The values of the elements are a sequence. *)
LEMMA EachType ==
  ASSUME NEW A, NEW B, NEW s \in Seq(A), NEW f \in [A -> B]
  PROVE  Each(s, f) \in Seq(B) /\ DOMAIN Each(s, f) = DOMAIN s /\ Len(Each(s, f)) = Len(s)
<1>1. DOMAIN s = 1 .. Len(s) /\ Len(s) \in Nat /\ \A i \in 1 .. Len(s) : s[i] \in A /\ f[s[i]] \in B
  OBVIOUS
<1>2. Each(s, f) = [i \in 1 .. Len(s) |-> f[s[i]]]
  BY <1>1 DEF Each
<1> QED
  BY <1>1, <1>2

(* The value of the head, then those of the tail. *)
LEMMA EachHead ==
  ASSUME NEW A, NEW s \in Seq(A), s # <<>>, NEW f
  PROVE  /\ Each(s, f) # <<>>
         /\ Head(Each(s, f)) = f[Head(s)]
         /\ Tail(Each(s, f)) = Each(Tail(s), f)
<1> DEFINE B == {f[x] : x \in A}
           e == Each(s, f)
<1>1. DOMAIN s = 1 .. Len(s) /\ Len(s) \in Nat /\ \A i \in 1 .. Len(s) : s[i] \in A /\ f[s[i]] \in B
  OBVIOUS
<1> HIDE DEF B
<1>2. e = [i \in 1 .. Len(s) |-> f[s[i]]]
  BY <1>1 DEF Each
<1>3. e \in Seq(B) /\ Len(e) = Len(s) /\ \A i \in 1 .. Len(s) : e[i] = f[s[i]]
  BY <1>1, <1>2
<1>4. Len(s) > 0 /\ Len(Tail(s)) = Len(s) - 1 /\ Tail(s) \in Seq(A) /\ Head(s) = s[1]
      /\ \A i \in 1 .. Len(s) - 1 : Tail(s)[i] = s[i + 1]
  OBVIOUS
<1>5. e # <<>> /\ Head(e) = e[1]
  BY <1>3, <1>4
<1>6. /\ Tail(e) \in Seq(B) /\ Len(Tail(e)) = Len(s) - 1
      /\ \A i \in 1 .. Len(s) - 1 : Tail(e)[i] = e[i + 1]
  <2> HIDE DEF e
  <2> QED
    BY <1>3, <1>4, <1>5
<1>7. \A i \in 1 .. Len(s) - 1 : Tail(e)[i] = f[Tail(s)[i]]
  BY <1>1, <1>3, <1>4, <1>6
<1>8. Each(Tail(s), f) = [i \in 1 .. Len(s) - 1 |-> f[Tail(s)[i]]]
  BY <1>4 DEF Each
<1>9. /\ Each(Tail(s), f) \in Seq(B) /\ Len(Each(Tail(s), f)) = Len(s) - 1
      /\ \A i \in 1 .. Len(s) - 1 : Each(Tail(s), f)[i] = f[Tail(s)[i]]
  <2>1. Len(s) - 1 \in Nat /\ \A i \in 1 .. Len(s) - 1 : f[Tail(s)[i]] \in B
    BY <1>1, <1>4
  <2> QED
    BY <1>8, <2>1
<1>10. Tail(e) = Each(Tail(s), f)
  <2> DEFINE x == Tail(e)
             y == Each(Tail(s), f)
  <2>1. x \in Seq(B) /\ y \in Seq(B) /\ Len(x) = Len(y) /\ \A i \in 1 .. Len(x) : x[i] = y[i]
    <3> HIDE DEF e
    <3> QED
      BY <1>6, <1>7, <1>9
  <2> HIDE DEF x, y
  <2>2. x = y
    BY <2>1, SeqEqual
  <2> QED
    BY <2>2 DEF x, y
<1> QED
  BY <1>1, <1>3, <1>4, <1>5, <1>10

(* The values of two sequences, one after the other. *)
LEMMA EachConcat ==
  ASSUME NEW A, NEW s \in Seq(A), NEW t \in Seq(A), NEW f
  PROVE  Each(s \o t, f) = Each(s, f) \o Each(t, f)
<1> DEFINE B == {f[x] : x \in A}
           u == s \o t
           a == Each(s, f)
           b == Each(t, f)
           c == Each(u, f)
<1>1. /\ u \in Seq(A) /\ Len(u) = Len(s) + Len(t) /\ Len(s) \in Nat /\ Len(t) \in Nat
      /\ \A i \in 1 .. Len(s) + Len(t) : u[i] = IF i <= Len(s) THEN s[i] ELSE t[i - Len(s)]
  BY ConcatProperties
<1>2. ASSUME NEW v \in Seq(A)
      PROVE  /\ Each(v, f) \in Seq(B) /\ Len(Each(v, f)) = Len(v)
             /\ \A i \in 1 .. Len(v) : Each(v, f)[i] = f[v[i]]
  <2>1. DOMAIN v = 1 .. Len(v) /\ Len(v) \in Nat /\ \A i \in 1 .. Len(v) : v[i] \in A /\ f[v[i]] \in B
    OBVIOUS
  <2>2. Each(v, f) = [i \in 1 .. Len(v) |-> f[v[i]]]
    BY <2>1 DEF Each
  <2> HIDE DEF B
  <2> QED
    BY <2>1, <2>2
<1>3. /\ a \in Seq(B) /\ Len(a) = Len(s) /\ \A i \in 1 .. Len(s) : a[i] = f[s[i]]
      /\ b \in Seq(B) /\ Len(b) = Len(t) /\ \A i \in 1 .. Len(t) : b[i] = f[t[i]]
      /\ c \in Seq(B) /\ Len(c) = Len(s) + Len(t)
      /\ \A i \in 1 .. Len(s) + Len(t) : c[i] = f[u[i]]
  <2> HIDE DEF u, B
  <2> QED
    BY <1>1, <1>2
<1> HIDE DEF a, b, c, u, B
<1>4. /\ a \o b \in Seq(B) /\ Len(a \o b) = Len(s) + Len(t)
      /\ \A i \in 1 .. Len(s) + Len(t) : (a \o b)[i] = IF i <= Len(s) THEN a[i] ELSE b[i - Len(s)]
  <2>1. a \in Seq(B) /\ b \in Seq(B)
    BY <1>3
  <2>2. /\ a \o b \in Seq(B) /\ Len(a \o b) = Len(a) + Len(b)
        /\ \A i \in 1 .. Len(a) + Len(b) : (a \o b)[i] = IF i <= Len(a) THEN a[i] ELSE b[i - Len(a)]
    BY <2>1, ConcatProperties
  <2>3. Len(a) = Len(s) /\ Len(b) = Len(t)
    BY <1>3
  <2> QED
    BY <2>2, <2>3
<1>5. ASSUME NEW i \in 1 .. Len(s) + Len(t) PROVE (a \o b)[i] = c[i]
  <2>1. CASE i <= Len(s)
    <3>1. i \in 1 .. Len(s)
      BY <1>1, <2>1
    <3> QED
      BY <1>1, <1>3, <1>4, <2>1, <3>1
  <2>2. CASE ~(i <= Len(s))
    <3>1. i - Len(s) \in 1 .. Len(t)
      BY <1>1, <2>2
    <3> QED
      BY <1>1, <1>3, <1>4, <2>2, <3>1
  <2> QED
    BY <2>1, <2>2
<1>6. a \o b = c
  BY <1>3, <1>4, <1>5, SeqEqual
<1> QED
  BY <1>6 DEF a, b, c, u

(* Sums and concatenations of the values. *)
LEMMA TotalEachConcat ==
  ASSUME NEW A, NEW s \in Seq(A), NEW t \in Seq(A), NEW f \in [A -> Int]
  PROVE  SumFunction(Each(s \o t, f)) = SumFunction(Each(s, f)) + SumFunction(Each(t, f))
<1>1. Each(s \o t, f) = Each(s, f) \o Each(t, f)
  BY EachConcat
<1>2. Each(s, f) \in Seq(Int) /\ Each(t, f) \in Seq(Int)
  BY EachType
<1> QED
  BY <1>1, <1>2, TotalConcat

(* The same of the concatenation. *)
LEMMA FlattenEachConcat ==
  ASSUME NEW A, NEW D, NEW s \in Seq(A), NEW t \in Seq(A), NEW f \in [A -> Seq(D)]
  PROVE  FlattenSeq(Each(s \o t, f)) = FlattenSeq(Each(s, f)) \o FlattenSeq(Each(t, f))
<1> DEFINE B == Seq(D)
<1>1. f \in [A -> B]
  OBVIOUS
<1>2. Each(s \o t, f) = Each(s, f) \o Each(t, f)
  <2> HIDE DEF B
  <2> QED
    BY <1>1, EachConcat
<1>3. Each(s, f) \in Seq(B) /\ Each(t, f) \in Seq(B)
  <2> HIDE DEF B
  <2> QED
    BY <1>1, EachType
<1> QED
  BY <1>2, <1>3, FlattenConcat

(* The value of the head, and the total over the tail. *)
LEMMA TotalEachHead ==
  ASSUME NEW A, NEW s \in Seq(A), s # <<>>, NEW f \in [A -> Int]
  PROVE  SumFunction(Each(s, f)) = f[Head(s)] + SumFunction(Each(Tail(s), f))
<1> DEFINE B == Int
<1>1. f \in [A -> B]
  OBVIOUS
<1>2. Each(s, f) \in Seq(B) /\ Each(s, f) # <<>>
  <2> HIDE DEF B
  <2> QED
    BY <1>1, EachType, EachHead
<1>3. Head(Each(s, f)) = f[Head(s)] /\ Tail(Each(s, f)) = Each(Tail(s), f)
  BY EachHead
<1>4. SumFunction(Each(s, f)) = Head(Each(s, f)) + SumFunction(Tail(Each(s, f)))
  BY <1>2, TotalHead
<1> QED
  BY <1>3, <1>4

(* The value of the head, before those of the tail. *)
LEMMA FlattenEachHead ==
  ASSUME NEW A, NEW D, NEW s \in Seq(A), s # <<>>, NEW f \in [A -> Seq(D)]
  PROVE  FlattenSeq(Each(s, f)) = f[Head(s)] \o FlattenSeq(Each(Tail(s), f))
<1> DEFINE B == Seq(D)
<1>1. f \in [A -> B]
  OBVIOUS
<1>2. Each(s, f) \in Seq(B) /\ Each(s, f) # <<>>
  <2> HIDE DEF B
  <2> QED
    BY <1>1, EachType, EachHead
<1>3. Head(Each(s, f)) = f[Head(s)] /\ Tail(Each(s, f)) = Each(Tail(s), f)
  BY EachHead
<1>4. FlattenSeq(Each(s, f)) = Head(Each(s, f)) \o FlattenSeq(Tail(Each(s, f)))
  BY <1>2, FlattenHead
<1> QED
  BY <1>3, <1>4

(* Three sequences in a row. *)
LEMMA TotalThree ==
  ASSUME NEW x \in Int, NEW y \in Int, NEW z \in Int
  PROVE  SumFunction(<<x, y, z>>) = x + y + z /\ SumFunction(<<x>>) = x
<1>1. <<x>> = Append(<<>>, x) /\ <<>> \in Seq(Int)
  OBVIOUS
<1>2. <<x, y>> = Append(<<x>>, y) /\ <<x>> \in Seq(Int)
  OBVIOUS
<1>3. <<x, y, z>> = Append(<<x, y>>, z) /\ <<x, y>> \in Seq(Int)
  OBVIOUS
<1>4. SumFunction(<<x>>) = 0 + x
  BY <1>1, TotalAppend, TotalEmpty
<1>5. SumFunction(<<x, y>>) = SumFunction(<<x>>) + y
  BY <1>2, TotalAppend
<1>6. SumFunction(<<x, y, z>>) = SumFunction(<<x, y>>) + z
  BY <1>3, TotalAppend
<1> QED
  BY <1>4, <1>5, <1>6

(* No elements, no values. *)
LEMMA EachEmpty == ASSUME NEW f PROVE Each(<<>>, f) = <<>>
  BY DEF Each

(* The values of three sequences in a row. *)
LEMMA TotalEachThree ==
  ASSUME NEW f, NEW a, NEW b, NEW c, f[a] \in Int, f[b] \in Int, f[c] \in Int
  PROVE  SumFunction(Each(<<a, b, c>>, f)) = f[a] + f[b] + f[c]
<1>1. Each(<<a, b, c>>, f) = <<f[a], f[b], f[c]>>
  BY DEF Each
<1>2. SumFunction(<<f[a], f[b], f[c]>>) = f[a] + f[b] + f[c]
  BY TotalThree
<1> QED
  BY <1>1, <1>2

(* A single element. *)
LEMMA TotalEachOne ==
  ASSUME NEW f, NEW a, f[a] \in Int
  PROVE  SumFunction(Each(<<a>>, f)) = f[a]
<1>1. Each(<<a>>, f) = <<f[a]>>
  BY DEF Each
<1>2. SumFunction(<<f[a]>>) = f[a]
  BY TotalThree
<1> QED
  BY <1>1, <1>2

(* Where no element has anything there is nothing to sum. *)
LEMMA TotalEachZero ==
  ASSUME NEW s, IsFiniteSet(DOMAIN s), NEW f, \A i \in DOMAIN s : f[s[i]] = 0
  PROVE  SumFunction(Each(s, f)) = 0
<1>1. DOMAIN Each(s, f) = DOMAIN s /\ \A i \in DOMAIN s : Each(s, f)[i] = 0
  BY DEF Each
<1> QED
  BY <1>1, SumZero DEF SumFunction

(* Only the middle one of three sequences holds anything. *)
LEMMA FlattenThreeEmpty ==
  /\ FlattenSeq(<< <<>> >>) = <<>>
  /\ FlattenSeq(<< <<>>, <<>>, <<>> >>) = <<>>
<1> DEFINE e == <<>>
           D == {}
<1>1. <<e>> = Append(<<>>, e) /\ <<>> \in Seq(Seq(D)) /\ e \in Seq(D)
  OBVIOUS
<1>2. <<e, e>> = Append(<<e>>, e) /\ <<e>> \in Seq(Seq(D))
  OBVIOUS
<1>3. <<e, e, e>> = Append(<<e, e>>, e) /\ <<e, e>> \in Seq(Seq(D))
  OBVIOUS
<1>4. FlattenSeq(<<e>>) = FlattenSeq(<<>>) \o e
  BY <1>1, FlattenAppend
<1>5. FlattenSeq(<<e, e>>) = FlattenSeq(<<e>>) \o e
  BY <1>1, <1>2, FlattenAppend
<1>6. FlattenSeq(<<e, e, e>>) = FlattenSeq(<<e, e>>) \o e
  BY <1>1, <1>3, FlattenAppend
<1>7. <<>> \o e = <<>>
  OBVIOUS
<1> QED
  BY <1>4, <1>5, <1>6, <1>7, FlattenEmpty

(* Where no element has anything there is nothing to write. *)
LEMMA FlattenEachNone ==
  ASSUME NEW f, NEW a, NEW b, NEW c, f[a] = <<>>, f[b] = <<>>, f[c] = <<>>
  PROVE  FlattenSeq(Each(<<a, b, c>>, f)) = <<>> /\ FlattenSeq(Each(<<a>>, f)) = <<>>
<1>1. Each(<<a, b, c>>, f) = << <<>>, <<>>, <<>> >>
  BY DEF Each
<1>2. Each(<<a>>, f) = << <<>> >>
  BY DEF Each
<1> QED
  BY <1>1, <1>2, FlattenThreeEmpty
-----------------------------------------------------------------------------
(* The elements of s that are in P, in their order. *)
Chosen(s, P) == FlattenSeq([i \in DOMAIN s |-> IF s[i] \in P THEN <<s[i]>> ELSE <<>>])

(* As many are kept as there are places whose element is in P. *)
LEMMA ChosenRight ==
  ASSUME NEW S, NEW P, NEW s \in Seq(S)
  PROVE  /\ Chosen(s, P) \in Seq(S \intersect P)
         /\ IsFiniteSet({i \in DOMAIN s : s[i] \in P})
         /\ Len(Chosen(s, P)) = Cardinality({i \in DOMAIN s : s[i] \in P})
<1> DEFINE D == S \intersect P
           At(t) == {i \in DOMAIN t : t[i] \in P}
           Each1(t) == [i \in DOMAIN t |-> IF t[i] \in P THEN <<t[i]>> ELSE <<>>]
           A == {t \in Seq(S) : /\ Chosen(t, P) \in Seq(D)
                                /\ IsFiniteSet(At(t))
                                /\ Len(Chosen(t, P)) = Cardinality(At(t))}
<1>1. <<>> \in A
  <2>1. Each1(<<>>) = <<>> /\ At(<<>>) = {}
    OBVIOUS
  <2>2. Chosen(<<>>, P) = <<>>
    BY <2>1, FlattenEmpty DEF Chosen
  <2>3. Len(<<>>) = 0 /\ <<>> \in Seq(D) /\ <<>> \in Seq(S)
    OBVIOUS
  <2>4. IsFiniteSet(At(<<>>)) /\ Cardinality(At(<<>>)) = 0
    BY <2>1, FS_EmptySet
  <2> HIDE DEF At, D
  <2> QED
    BY <2>2, <2>3, <2>4
<1>2. ASSUME NEW t \in Seq(S), NEW e \in S, t \in A PROVE Append(t, e) \in A
  <2> DEFINE u == Append(t, e)
             n == Len(t)
             x == IF e \in P THEN <<e>> ELSE <<>>
  <2>1. /\ u \in Seq(S) /\ n \in Nat /\ Len(u) = n + 1 /\ u[n + 1] = e
        /\ DOMAIN t = 1 .. n /\ DOMAIN u = 1 .. n + 1 /\ \A i \in 1 .. n : u[i] = t[i]
    OBVIOUS
  <2>2. Each1(t) \in Seq(Seq(D)) /\ x \in Seq(D)
    <3>1. \A i \in 1 .. n : t[i] \in S
      BY <2>1
    <3>6. \A d \in D : <<d>> \in Seq(D)
      OBVIOUS
    <3>7. <<>> \in Seq(D)
      OBVIOUS
    <3>2. \A i \in 1 .. n : (IF t[i] \in P THEN <<t[i]>> ELSE <<>>) \in Seq(D)
      <4>1. TAKE i \in 1 .. n
      <4>2. CASE t[i] \in P
        <5>1. t[i] \in D
          BY <3>1, <4>2
        <5> HIDE DEF D
        <5> QED
          BY <3>6, <4>2, <5>1
      <4>3. CASE t[i] \notin P
        BY <3>7, <4>3
      <4> QED
        BY <4>2, <4>3
    <3>3. \A i \in 1 .. n : Each1(t)[i] \in Seq(D)
      BY <2>1, <3>2
    <3>4. Each1(t) \in [1 .. n -> Seq(D)]
      BY <2>1, <3>3
    <3>5. x \in Seq(D)
      <4>1. CASE e \in P
        <5>1. e \in D
          BY <4>1
        <5> HIDE DEF D
        <5> QED
          BY <3>6, <4>1, <5>1
      <4>2. CASE e \notin P
        BY <3>7, <4>2
      <4> QED
        BY <4>1, <4>2
    <3> HIDE DEF Each1, D
    <3> QED
      BY <2>1, <3>4, <3>5
  <2>3. Each1(u) = Append(Each1(t), x)
    <3>1. Len(Each1(t)) = n
      BY <2>1
    <3>2. DOMAIN Append(Each1(t), x) = 1 .. n + 1
      BY <2>1, <2>2, <3>1
    <3>3. \A i \in 1 .. n + 1 : Each1(u)[i] = Append(Each1(t), x)[i]
      <4>1. TAKE i \in 1 .. n + 1
      <4>2. CASE i = n + 1
        BY <2>1, <2>2, <3>1, <4>2
      <4>3. CASE i # n + 1
        <5>1. i \in 1 .. n
          BY <2>1, <4>3
        <5>2. Append(Each1(t), x)[i] = Each1(t)[i]
          BY <2>2, <3>1, <5>1
        <5> QED
          BY <2>1, <5>1, <5>2
      <4> QED
        BY <4>2, <4>3
    <3>4. DOMAIN Each1(u) = 1 .. n + 1
      BY <2>1
    <3>5. Each1(u) = [i \in 1 .. n + 1 |-> Each1(u)[i]]
      BY <3>4
    <3>6. Append(Each1(t), x) = [i \in 1 .. n + 1 |-> Append(Each1(t), x)[i]]
      BY <2>2, <3>1, <2>1
    <3> HIDE DEF Each1, x
    <3> QED
      BY <3>3, <3>5, <3>6
  <2>4. Chosen(u, P) = Chosen(t, P) \o x
    <3>1. Chosen(u, P) = FlattenSeq(Each1(u)) /\ Chosen(t, P) = FlattenSeq(Each1(t))
      BY DEF Chosen
    <3> HIDE DEF Each1, x, D
    <3> QED
      BY <2>2, <2>3, <3>1, FlattenAppend
  <2>5. At(u) = IF e \in P THEN At(t) \union {n + 1} ELSE At(t)
    BY <2>1
  <2>6. n + 1 \notin At(t)
    BY <2>1
  <2>7. Chosen(t, P) \in Seq(D) /\ IsFiniteSet(At(t)) /\ Len(Chosen(t, P)) = Cardinality(At(t))
    BY <1>2
  <2>8. IsFiniteSet(At(u)) /\ Cardinality(At(u)) = IF e \in P THEN Cardinality(At(t)) + 1 ELSE Cardinality(At(t))
    <3> HIDE DEF At
    <3>1. IsFiniteSet(At(t) \union {n + 1}) /\ Cardinality(At(t) \union {n + 1}) = Cardinality(At(t)) + 1
      BY <2>6, <2>7, FS_AddElement
    <3> QED
      BY <2>5, <2>7, <3>1, Zenon
  <2>9. Chosen(u, P) \in Seq(D) /\ Len(Chosen(u, P)) = Len(Chosen(t, P)) + Len(x)
    <3> DEFINE k == Chosen(t, P)
    <3>1. k \in Seq(D) /\ x \in Seq(D)
      BY <2>2, <2>7
    <3> HIDE DEF D, x, k
    <3>2. k \o x \in Seq(D) /\ Len(k \o x) = Len(k) + Len(x)
      BY <3>1
    <3> QED
      BY <2>4, <3>2 DEF k
  <2>10. Len(x) = IF e \in P THEN 1 ELSE 0
    OBVIOUS
  <2>11. Cardinality(At(t)) \in Nat
    BY <2>7, FS_CardinalityType
  <2>12. Len(Chosen(u, P)) = Cardinality(At(u))
    <3> HIDE DEF At, x
    <3> QED
      BY <2>7, <2>8, <2>9, <2>10, <2>11
  <2>13. u \in Seq(S)
    BY <2>1
  <2> HIDE DEF u, D, At
  <2>14. u \in A
    BY <2>8, <2>9, <2>12, <2>13
  <2> QED
    BY <2>14 DEF u
<1>3. s \in A
  <2> HIDE DEF A
  <2> QED
    BY <1>1, <1>2, SequenceInduction
<1> QED
  BY <1>3

(* The sizes of finite parts that have nothing in common sum to the size of the whole. *)
LEMMA SumOfParts ==
  ASSUME NEW Q, IsFiniteSet(Q), NEW part, NEW f,
         \A q \in Q : IsFiniteSet(part[q]) /\ f[q] = Cardinality(part[q]),
         \A p, q \in Q : p # q => part[p] \intersect part[q] = {}
  PROVE  /\ IsFiniteSet(UNION {part[q] : q \in Q})
         /\ SumFunctionOnSet(f, Q) = Cardinality(UNION {part[q] : q \in Q})
<1> DEFINE Whole(T) == UNION {part[q] : q \in T}
           Good(T) == IsFiniteSet(Whole(T)) /\ SumFunctionOnSet(f, T) = Cardinality(Whole(T))
           X == {T \in SUBSET Q : ~Good(T)}
<1>1. SUFFICES ASSUME X # {} PROVE FALSE
  OBVIOUS
<1>2. PICK T \in X : \A U \in X : U \subseteq T => U = T
  <2>1. X \subseteq SUBSET Q
    OBVIOUS
  <2> HIDE DEF X
  <2> QED
    BY <1>1, <2>1, SmallestSet
<1>3. T # {}
  <2>1. Whole({}) = {}
    OBVIOUS
  <2>2. Good({})
    BY <2>1, SumEmpty, FS_EmptySet
  <2> HIDE DEF Good
  <2> QED
    BY <2>2
<1> DEFINE x == Some(T)
           R == T \ {x}
<1>4. x \in T /\ x \in Q /\ R \in SUBSET Q /\ R \subseteq T /\ R # T
  BY <1>3, SomeMember
<1>5. Good(R)
  <2> HIDE DEF Good, x
  <2> QED
    BY <1>2, <1>4
<1>6. Whole(T) = part[x] \union Whole(R) /\ part[x] \intersect Whole(R) = {}
  BY <1>4
<1>7. \A q \in T : f[q] \in Int
  BY FS_CardinalityType
<1>8. SumFunctionOnSet(f, T) = f[x] + SumFunctionOnSet(f, R)
  <2>1. IsFiniteSet(T)
    BY FS_Subset
  <2> HIDE DEF x
  <2> QED
    BY <1>4, <1>7, <2>1, SumRemove
<1>9. IsFiniteSet(part[x]) /\ f[x] = Cardinality(part[x])
  BY <1>4
<1>10. IsFiniteSet(Whole(T)) /\ Cardinality(Whole(T)) = Cardinality(part[x]) + Cardinality(Whole(R))
  <2>1. IsFiniteSet(Whole(R))
    BY <1>5
  <2> DEFINE a == part[x]
             b == Whole(R)
  <2>2. IsFiniteSet(a) /\ IsFiniteSet(b) /\ a \intersect b = {} /\ Whole(T) = a \union b
    BY <1>6, <1>9, <2>1
  <2> HIDE DEF a, b, Whole
  <2>3. /\ Cardinality(a) \in Nat /\ Cardinality(b) \in Nat /\ IsFiniteSet(a \union b)
        /\ Cardinality(a \union b) = Cardinality(a) + Cardinality(b) - Cardinality(a \intersect b)
    BY <2>2, FS_CardinalityType, FS_Union
  <2>4. Cardinality(a \intersect b) = 0
    BY <2>2, FS_EmptySet
  <2>5. Cardinality(a \union b) = Cardinality(a) + Cardinality(b)
    BY <2>3, <2>4
  <2> QED
    BY <2>2, <2>3, <2>5 DEF a, b
<1>11. Good(T)
  BY <1>5, <1>8, <1>9, <1>10
<1> QED
  BY <1>2, <1>11

-----------------------------------------------------------------------------
(* A finite set of integers has a least member. *)
LEMMA LeastExists ==
  ASSUME NEW S, IsFiniteSet(S), S \subseteq Int, S # {}
  PROVE  \E x \in S : \A y \in S : x <= y
<1> DEFINE X == {T \in SUBSET S : T # {} /\ ~\E x \in T : \A y \in T : x <= y}
<1>1. SUFFICES ASSUME X # {} PROVE FALSE
  OBVIOUS
<1>2. PICK T \in X : \A U \in X : U \subseteq T => U = T
  <2>1. X \subseteq SUBSET S
    OBVIOUS
  <2> HIDE DEF X
  <2> QED
    BY ONLY IsFiniteSet(S), <1>1, <2>1, SmallestSet
<1>3. PICK z \in T : TRUE
  OBVIOUS
<1>4. T \subseteq Int /\ z \in Int
  OBVIOUS
<1>5. CASE T \ {z} = {}
  BY <1>4, <1>5
<1>6. CASE T \ {z} # {}
  <2>1. T \ {z} \notin X
    BY <1>2, <1>3
  <2>2. PICK x \in T \ {z} : \A y \in T \ {z} : x <= y
    BY <1>6, <2>1
  <2>3. \A y \in T : (IF x <= z THEN x ELSE z) <= y
    BY <1>4, <2>2
  <2>4. (IF x <= z THEN x ELSE z) \in T
    BY <1>3, <2>2
  <2> QED
    BY <2>3, <2>4
<1> QED
  BY <1>5, <1>6

(* A function on 1 .. n is a sequence. *)
LEMMA SequenceOf ==
  ASSUME NEW D, NEW n \in Nat, NEW f, DOMAIN f = 1 .. n, f = [i \in DOMAIN f |-> f[i]],
         \A i \in 1 .. n : f[i] \in D
  PROVE  f \in Seq(D) /\ Len(f) = n
<1>1. f \in [1 .. n -> D]
  OBVIOUS
<1> QED
  BY <1>1

(* A sequence of two. *)
LEMMA Pair ==
  ASSUME NEW D, NEW a \in D, NEW b \in D
  PROVE  <<a, b>> \in Seq(D) /\ Len(<<a, b>>) = 2 /\ <<a, b>>[1] = a /\ <<a, b>>[2] = b
  OBVIOUS

(* Two sequences, one after the other. *)
LEMMA Concatenation ==
  ASSUME NEW D, NEW s \in Seq(D), NEW e \in Seq(D)
  PROVE  s \o e \in Seq(D) /\ Len(s \o e) = Len(s) + Len(e) /\ \A i \in 1 .. Len(e) : (s \o e)[Len(s) + i] = e[i]
  OBVIOUS

(* Sequences over a larger set. *)
LEMMA WiderSeq == ASSUME NEW A, NEW B, A \subseteq B PROVE Seq(A) \subseteq Seq(B)
  OBVIOUS

-----------------------------------------------------------------------------
(* Loops: a recursive function on 0 .. n is defined when each step stays in a set. *)

(* What holds at 0 and is carried on by each step holds up to n. *)
LEMMA UpTo ==
  ASSUME NEW n \in Nat, NEW A, 0 \in A, \A i \in 1 .. n : i - 1 \in A => i \in A
  PROVE  \A i \in 0 .. n : i \in A
<1> DEFINE X == {i \in 0 .. n : i \notin A}
<1>1. SUFFICES ASSUME X # {} PROVE FALSE
  OBVIOUS
<1>2. PICK i \in X : \A j \in X : i <= j
  <2>1. X \subseteq Nat
    OBVIOUS
  <2> HIDE DEF X
  <2> QED
    BY <1>1, <2>1, LeastNumber
<1>3. i \in 1 .. n /\ i - 1 \in 0 .. n
  BY <1>2
<1>4. i - 1 \notin X
  BY <1>2, <1>3
<1> QED
  BY <1>2, <1>3, <1>4

(* g is the function whose value at i is made from i and its value at i - 1. *)
Iterates(g, n, base, step) == g = [i \in 0 .. n |-> IF i = 0 THEN base ELSE step[<<i, g[i - 1]>>]]

(* There is such a function, and its values stay in the set. *)
LEMMA LoopExists ==
  ASSUME NEW n \in Nat, NEW X, NEW base \in X, NEW step, \A i \in 1 .. n, x \in X : step[<<i, x>>] \in X
  PROVE  \E g : Iterates(g, n, base, step) /\ \A i \in 0 .. n : g[i] \in X
<1> DEFINE A == {m \in 0 .. n : \E g : Iterates(g, m, base, step) /\ \A i \in 0 .. m : g[i] \in X}
<1>1. 0 \in A
  <2> DEFINE g == [i \in 0 .. 0 |-> base]
  <2>1. g = [i \in 0 .. 0 |-> IF i = 0 THEN base ELSE step[<<i, g[i - 1]>>]]
    OBVIOUS
  <2>2. \A i \in 0 .. 0 : g[i] \in X
    OBVIOUS
  <2> HIDE DEF g
  <2> QED
    BY <2>1, <2>2 DEF Iterates
<1>2. ASSUME NEW m \in 1 .. n, m - 1 \in A PROVE m \in A
  <2>1. PICK g : Iterates(g, m - 1, base, step) /\ \A i \in 0 .. m - 1 : g[i] \in X
    BY <1>2
  <2>2. g = [i \in 0 .. m - 1 |-> IF i = 0 THEN base ELSE step[<<i, g[i - 1]>>]]
    BY <2>1 DEF Iterates
  <2> DEFINE h == [i \in 0 .. m |-> IF i = m THEN step[<<m, g[m - 1]>>] ELSE g[i]]
  <2>3. \A i \in 0 .. m : h[i] = IF i = 0 THEN base ELSE step[<<i, h[i - 1]>>]
    <3>1. TAKE i \in 0 .. m
    <3>2. CASE i = m
      BY <3>2
    <3>3. CASE i # m /\ i # 0
      <4>1. i \in 0 .. m - 1 /\ i - 1 \in 0 .. m - 1 /\ i - 1 # m
        BY <3>3
      <4> QED
        BY <2>2, <3>3, <4>1
    <3>4. CASE i # m /\ i = 0
      BY <2>2, <3>4
    <3> QED
      BY <3>2, <3>3, <3>4
  <2>4. \A i \in 0 .. m : h[i] \in X
    <3>1. m - 1 \in 0 .. m - 1
      OBVIOUS
    <3>2. g[m - 1] \in X
      BY <2>1, <3>1
    <3>3. step[<<m, g[m - 1]>>] \in X
      BY <3>2
    <3> QED
      BY <2>1, <3>3
  <2>5. h = [i \in 0 .. m |-> IF i = 0 THEN base ELSE step[<<i, h[i - 1]>>]]
    <3>1. DOMAIN h = 0 .. m /\ h = [i \in 0 .. m |-> h[i]]
      OBVIOUS
    <3> HIDE DEF h
    <3> QED
      BY <2>3, <3>1
  <2> HIDE DEF h
  <2>6. Iterates(h, m, base, step)
    BY <2>5 DEF Iterates
  <2>7. m \in 0 .. n
    OBVIOUS
  <2> QED
    BY <2>4, <2>6, <2>7
<1> HIDE DEF A
<1>3. \A i \in 0 .. n : i \in A
  BY <1>1, <1>2, UpTo
<1> QED
  BY <1>3 DEF A
-----------------------------------------------------------------------------
(* Where the elements of P are in a sequence, and in a sequence of sequences. *)
Spots(s, P) == {i \in DOMAIN s : s[i] \in P}
SpotsOfRow(rows, P, i) == {<<i, j>> : j \in Spots(rows[i], P)}
SpotsOfRows(rows, P) == UNION {SpotsOfRow(rows, P, i) : i \in DOMAIN rows}

(* They are finitely many. *)
LEMMA SpotsFinite ==
  ASSUME NEW D, NEW s \in Seq(D), NEW P
  PROVE  IsFiniteSet(Spots(s, P)) /\ Cardinality(Spots(s, P)) \in Nat
<1>1. Len(s) \in Nat /\ DOMAIN s = 1 .. Len(s)
  OBVIOUS
<1>2. IsFiniteSet(DOMAIN s)
  BY <1>1, FS_Interval
<1>3. Spots(s, P) \in SUBSET DOMAIN s
  BY DEF Spots
<1> QED
  BY <1>2, <1>3, FS_Subset, FS_CardinalityType

(* What is mapped onto a set one to one has as many members. *)
LEMMA SameSize ==
  ASSUME NEW A, IsFiniteSet(A), NEW B, NEW f, DOMAIN f = A, \A a \in A : f[a] \in B,
         f = [a \in DOMAIN f |-> f[a]],
         \A a, b \in A : f[a] = f[b] => a = b, \A b \in B : \E a \in A : f[a] = b
  PROVE  IsFiniteSet(B) /\ Cardinality(A) = Cardinality(B)
<1>1. f \in [A -> B]
  OBVIOUS
<1>2. f \in Bijection(A, B)
  BY <1>1 DEF Bijection, Injection, Surjection, IsInjective
<1> QED
  BY <1>2, FS_Bijection DEF ExistsBijection

(* The elements of both of two sequences are those of each. *)
LEMMA SpotsConcat ==
  ASSUME NEW D, NEW s \in Seq(D), NEW t \in Seq(D), NEW P
  PROVE  Cardinality(Spots(s \o t, P)) = Cardinality(Spots(s, P)) + Cardinality(Spots(t, P))
<1> DEFINE n == Len(s)
           A == Spots(s, P)
           B == Spots(t, P)
           C == {n + i : i \in B}
           f == [i \in B |-> n + i]
<1>1. n \in Nat /\ DOMAIN s = 1 .. n /\ DOMAIN t = 1 .. Len(t) /\ Len(t) \in Nat
  OBVIOUS
<1>2. IsFiniteSet(A) /\ IsFiniteSet(B) /\ Cardinality(A) \in Nat /\ Cardinality(B) \in Nat
  BY SpotsFinite
<1>3. B \subseteq Nat
  BY <1>1 DEF Spots
<1>4. IsFiniteSet(C) /\ Cardinality(B) = Cardinality(C)
  <2> HIDE DEF B, n
  <2>1. \A a, b \in B : f[a] = f[b] => a = b
    BY <1>1, <1>3
  <2>2. DOMAIN f = B /\ f = [a \in DOMAIN f |-> f[a]] /\ (\A a \in B : f[a] \in C) /\ \A c \in C : \E a \in B : f[a] = c
    OBVIOUS
  <2> HIDE DEF C, f
  <2> QED
    BY <1>2, <2>1, <2>2, SameSize
<1>5. Spots(s \o t, P) = A \union C
  <2> DEFINE u == s \o t
  <2>1. DOMAIN u = 1 .. n + Len(t) /\ (\A i \in 1 .. n : u[i] = s[i]) /\ (\A i \in 1 .. Len(t) : u[n + i] = t[i])
    BY <1>1
  <2> HIDE DEF u
  <2>2. \A i \in 1 .. n + Len(t) : i \in 1 .. n \/ \E j \in 1 .. Len(t) : i = n + j
    <3>1. TAKE i \in 1 .. n + Len(t)
    <3>2. CASE i > n
      <4>1. i - n \in 1 .. Len(t) /\ i = n + (i - n)
        BY <1>1, <3>2
      <4> QED
        BY <4>1
    <3>3. CASE i <= n
      BY <1>1, <3>3
    <3> QED
      BY <1>1, <3>2, <3>3
  <2>3. \A i \in 1 .. n : i \in 1 .. n + Len(t)
    BY <1>1
  <2>4. \A i \in 1 .. Len(t) : n + i \in 1 .. n + Len(t)
    BY <1>1
  <2>5. \A i : i \in Spots(u, P) <=> i \in A \/ i \in C
    <3> HIDE DEF n
    <3> QED
      BY <1>1, <2>1, <2>2, <2>3, <2>4 DEF Spots
  <2> QED
    BY <2>5 DEF u
<1>6. A \intersect C = {}
  BY <1>1 DEF Spots
<1> HIDE DEF A, B, C
<1>7. Cardinality(A \intersect C) = 0
  BY <1>6, FS_EmptySet
<1>8. Cardinality(A \union C) = Cardinality(A) + Cardinality(C) - Cardinality(A \intersect C)
  BY <1>2, <1>4, FS_Union
<1>9. Cardinality(Spots(s \o t, P)) = Cardinality(A) + Cardinality(B)
  BY <1>2, <1>4, <1>5, <1>7, <1>8
<1> QED
  BY <1>9 DEF A, B

(* The elements of P among the concatenation are those in the rows. *)
LEMMA SpotsFlattened ==
  ASSUME NEW D, NEW rows \in Seq(Seq(D)), NEW P
  PROVE  /\ FlattenSeq(rows) \in Seq(D)
         /\ IsFiniteSet(SpotsOfRows(rows, P))
         /\ Cardinality(Spots(FlattenSeq(rows), P)) = Cardinality(SpotsOfRows(rows, P))
<1> DEFINE E == Seq(D)
           Good(r) == /\ IsFiniteSet(SpotsOfRows(r, P))
                      /\ Cardinality(Spots(FlattenSeq(r), P)) = Cardinality(SpotsOfRows(r, P))
           A == {r \in Seq(E) : Good(r)}
<1>1. <<>> \in A
  <2>1. SpotsOfRows(<<>>, P) = {} /\ Spots(<<>>, P) = {}
    BY DEF SpotsOfRows, Spots
  <2>2. <<>> \in Seq(E)
    OBVIOUS
  <2> QED
    BY <2>1, <2>2, FlattenEmpty, FS_EmptySet
<1>2. ASSUME NEW r \in Seq(E), NEW e \in E, r \in A PROVE Append(r, e) \in A
  <2> DEFINE u == Append(r, e)
             n == Len(r)
             old == SpotsOfRows(r, P)
             new == {<<n + 1, j>> : j \in Spots(e, P)}
             here == Spots(e, P)
             f == [j \in here |-> <<n + 1, j>>]
  <2>1. /\ u \in Seq(E) /\ n \in Nat /\ DOMAIN r = 1 .. n /\ DOMAIN u = 1 .. n + 1
        /\ u[n + 1] = e /\ \A i \in 1 .. n : u[i] = r[i]
    OBVIOUS
  <2>2. FlattenSeq(u) = FlattenSeq(r) \o e /\ FlattenSeq(r) \in Seq(D)
    BY FlattenAppend, FlattenType
  <2>3. IsFiniteSet(old) /\ Cardinality(Spots(FlattenSeq(r), P)) = Cardinality(old)
    BY <1>2
  <2>4. IsFiniteSet(here) /\ e \in Seq(D)
    BY SpotsFinite
  <2>5. IsFiniteSet(new) /\ Cardinality(here) = Cardinality(new)
    <3>1. DOMAIN f = here /\ f = [a \in DOMAIN f |-> f[a]] /\ (\A a \in here : f[a] \in new)
          /\ \A c \in new : \E a \in here : f[a] = c
      OBVIOUS
    <3>2. \A a, b \in here : f[a] = f[b] => a = b
      OBVIOUS
    <3> HIDE DEF f, new, here
    <3> QED
      BY <2>4, <3>1, <3>2, SameSize
  <2>6. SpotsOfRows(u, P) = old \union new
    <3>1. \A i \in 1 .. n : SpotsOfRow(u, P, i) = SpotsOfRow(r, P, i)
      BY <2>1 DEF SpotsOfRow
    <3>2. SpotsOfRow(u, P, n + 1) = new
      BY <2>1 DEF SpotsOfRow
    <3>3. 1 .. n + 1 = 1 .. n \union {n + 1}
      BY <2>1
    <3> HIDE DEF u, new, n
    <3>4. SpotsOfRows(u, P) = (UNION {SpotsOfRow(u, P, i) : i \in 1 .. n}) \union SpotsOfRow(u, P, n + 1)
      BY <2>1, <3>3 DEF SpotsOfRows
    <3>5. old = UNION {SpotsOfRow(r, P, i) : i \in 1 .. n}
      BY <2>1 DEF SpotsOfRows
    <3> QED
      BY <3>1, <3>2, <3>4, <3>5
  <2>7. old \intersect new = {}
    <3>1. \A x \in old : \E i \in 1 .. n : \E j \in DOMAIN r[i] : x = <<i, j>>
      BY <2>1 DEF SpotsOfRows, SpotsOfRow, Spots
    <3>2. \A i \in 1 .. n : i # n + 1
      BY <2>1
    <3> HIDE DEF old, n
    <3> QED
      BY <3>1, <3>2
  <2>8. Cardinality(Spots(FlattenSeq(r) \o e, P)) = Cardinality(Spots(FlattenSeq(r), P)) + Cardinality(Spots(e, P))
    BY <2>2, <2>4, SpotsConcat
  <2> HIDE DEF old, new, u
  <2>9. /\ IsFiniteSet(old \union new)
        /\ Cardinality(old \union new) = Cardinality(old) + Cardinality(new)
    <3>1. Cardinality(old \intersect new) = 0
      BY <2>7, FS_EmptySet
    <3>2. Cardinality(old) \in Nat /\ Cardinality(new) \in Nat
      BY <2>3, <2>5, FS_CardinalityType
    <3>3. IsFiniteSet(old \union new) /\ Cardinality(old \union new) = Cardinality(old) + Cardinality(new) - Cardinality(old \intersect new)
      BY <2>3, <2>5, FS_Union
    <3> QED
      BY <3>1, <3>2, <3>3
  <2>10. Good(u)
    BY <2>2, <2>3, <2>5, <2>6, <2>8, <2>9
  <2> HIDE DEF Good
  <2> QED
    BY <2>1, <2>10 DEF u
<1> HIDE DEF A
<1>3. rows \in A
  <2>1. rows \in Seq(E)
    OBVIOUS
  <2> HIDE DEF E
  <2> QED
    BY <1>1, <1>2, <2>1, SequenceInduction
<1> QED
  BY <1>3, FlattenType DEF A

(* The elements of Q among those of P that were kept are those in both. *)
LEMMA ChosenSpots ==
  ASSUME NEW S, NEW s \in Seq(S), NEW P, NEW Q
  PROVE  /\ Chosen(s, P) \in Seq(S)
         /\ Cardinality(Spots(Chosen(s, P), Q)) = Cardinality(Spots(s, P \intersect Q))
<1> DEFINE rows == [i \in DOMAIN s |-> IF s[i] \in P THEN <<s[i]>> ELSE <<>>]
           A == Spots(s, P \intersect Q)
           B == SpotsOfRows(rows, Q)
           f == [i \in A |-> <<i, 1>>]
<1>1. rows \in Seq(Seq(S))
  <2>1. Len(s) \in Nat /\ DOMAIN s = 1 .. Len(s) /\ \A i \in 1 .. Len(s) : s[i] \in S
    OBVIOUS
  <2>2. \A x \in S : <<x>> \in Seq(S)
    OBVIOUS
  <2>3. <<>> \in Seq(S)
    OBVIOUS
  <2>4. DOMAIN rows = 1 .. Len(s) /\ rows = [i \in DOMAIN rows |-> rows[i]] /\ \A i \in 1 .. Len(s) : rows[i] \in Seq(S)
    BY <2>1, <2>2, <2>3
  <2> HIDE DEF rows
  <2> QED
    BY <2>1, <2>4, SequenceOf
<1>2. FlattenSeq(rows) \in Seq(S) /\ Cardinality(Spots(FlattenSeq(rows), Q)) = Cardinality(B)
  <2> HIDE DEF rows
  <2> QED
    BY <1>1, SpotsFlattened
<1>3. B = {<<i, 1>> : i \in A}
  <2>1. \A i \in DOMAIN s : SpotsOfRow(rows, Q, i) = IF s[i] \in P \intersect Q THEN {<<i, 1>>} ELSE {}
    <3>1. TAKE i \in DOMAIN s
    <3>2. CASE s[i] \in P
      <4>1. rows[i] = <<s[i]>> /\ DOMAIN rows[i] = {1} /\ rows[i][1] = s[i]
        BY <3>2
      <4> HIDE DEF rows
      <4>2. Spots(rows[i], Q) = IF s[i] \in Q THEN {1} ELSE {}
        BY <4>1 DEF Spots
      <4> QED
        BY <3>2, <4>2 DEF SpotsOfRow
    <3>3. CASE s[i] \notin P
      <4>1. rows[i] = <<>> /\ DOMAIN rows[i] = {}
        BY <3>3
      <4> HIDE DEF rows
      <4>2. Spots(rows[i], Q) = {}
        BY <4>1 DEF Spots
      <4> QED
        BY <3>3, <4>2 DEF SpotsOfRow
    <3> QED
      BY <3>2, <3>3
  <2>2. DOMAIN rows = DOMAIN s
    OBVIOUS
  <2> HIDE DEF rows
  <2> QED
    BY <2>1, <2>2 DEF SpotsOfRows, Spots
<1>4. IsFiniteSet(A)
  BY SpotsFinite
<1>5. Cardinality(A) = Cardinality(B)
  <2>1. DOMAIN f = A /\ f = [a \in DOMAIN f |-> f[a]] /\ (\A a \in A : f[a] \in B) /\ \A c \in B : \E a \in A : f[a] = c
    BY <1>3
  <2>2. \A a, b \in A : f[a] = f[b] => a = b
    OBVIOUS
  <2> HIDE DEF f, A, B
  <2> QED
    BY <1>4, <2>1, <2>2, SameSize
<1> QED
  BY <1>2, <1>5 DEF Chosen

(* The members that were kept are those of P. *)
LEMMA ChosenMembers ==
  ASSUME NEW S, NEW s \in Seq(S), NEW P
  PROVE  ToSet(Chosen(s, P)) = ToSet(s) \intersect P
<1> DEFINE c == Chosen(s, P)
<1>1. c \in Seq(S)
  BY ChosenSpots
<1>2. ASSUME NEW t \in Seq(S), NEW R PROVE Cardinality(Spots(t, R)) = 0 <=> Spots(t, R) = {}
  BY SpotsFinite, FS_EmptySet
<1>3. ASSUME NEW x PROVE Spots(c, {x}) = {} <=> Spots(s, P \intersect {x}) = {}
  <2>1. Cardinality(Spots(c, {x})) = Cardinality(Spots(s, P \intersect {x}))
    BY ChosenSpots
  <2> HIDE DEF c
  <2> QED
    BY <1>1, <1>2, <2>1
<1> HIDE DEF c
<1>4. \A x : x \in ToSet(c) <=> Spots(c, {x}) # {}
  BY DEF ToSet, Spots
<1>5. \A x : x \in ToSet(s) /\ x \in P <=> Spots(s, P \intersect {x}) # {}
  BY DEF ToSet, Spots
<1> QED
  BY <1>3, <1>4, <1>5 DEF c

(* A is made of finitely many finite parts that have nothing in common. *)
MadeOf(A, Q, part) ==
  /\ IsFiniteSet(Q) /\ \A q \in Q : IsFiniteSet(part[q])
  /\ \A p, q \in Q : p # q => part[p] \intersect part[q] = {}
  /\ \A x : x \in A <=> \E q \in Q : x \in part[q]

(* Wholes made of parts that are as large as each other, part by part, are as large as *)
(* each other.                                                                         *)
LEMMA SameParts ==
  ASSUME NEW Q, NEW part, NEW other, NEW A, NEW B, MadeOf(A, Q, part), MadeOf(B, Q, other),
         \A q \in Q : Cardinality(part[q]) = Cardinality(other[q])
  PROVE  IsFiniteSet(A) /\ IsFiniteSet(B) /\ Cardinality(A) = Cardinality(B)
<1> DEFINE f == [q \in Q |-> Cardinality(part[q])]
<1>1. IsFiniteSet(Q) /\ \A q \in Q : f[q] = Cardinality(part[q]) /\ f[q] = Cardinality(other[q])
  BY DEF MadeOf
<1> HIDE DEF f
<1>2. ASSUME NEW p, NEW W, MadeOf(W, Q, p), \A q \in Q : f[q] = Cardinality(p[q])
      PROVE  IsFiniteSet(W) /\ SumFunctionOnSet(f, Q) = Cardinality(W)
  <2>1. W = UNION {p[q] : q \in Q}
    BY <1>2 DEF MadeOf
  <2>2. \A q \in Q : IsFiniteSet(p[q]) /\ f[q] = Cardinality(p[q])
    BY <1>2 DEF MadeOf
  <2>3. \A q, r \in Q : q # r => p[q] \intersect p[r] = {}
    BY <1>2 DEF MadeOf
  <2> QED
    BY ONLY <1>1, <2>1, <2>2, <2>3, SumOfParts, SMTT(60)
<1>3. IsFiniteSet(A) /\ SumFunctionOnSet(f, Q) = Cardinality(A)
  BY <1>1, <1>2
<1>4. IsFiniteSet(B) /\ SumFunctionOnSet(f, Q) = Cardinality(B)
  BY <1>1, <1>2
<1> QED
  BY <1>3, <1>4

(* A set of numbers from 0 to n has a greatest one. *)
LEMMA GreatestExists ==
  ASSUME NEW n \in Nat, NEW S, S \subseteq 0 .. n, S # {}
  PROVE  \E x \in S : \A y \in S : y <= x
<1> DEFINE X == {n - x : x \in S}
<1>0. \A x \in S : x \in Int /\ n - x \in Nat
  OBVIOUS
<1>1. X \subseteq Nat /\ X # {}
  <2>1. \A z \in X : z \in Nat
    BY <1>0
  <2>2. PICK x \in S : TRUE
    OBVIOUS
  <2>3. n - x \in X
    OBVIOUS
  <2> HIDE DEF X
  <2> QED
    BY <2>1, <2>3
<1>2. PICK m \in X : \A k \in X : m <= k
  <2> HIDE DEF X
  <2> QED
    BY ONLY <1>1, LeastNumber
<1>3. PICK x \in S : m = n - x
  BY <1>2
<1>4. \A y \in S : n - x <= n - y
  BY <1>2, <1>3
<1>5. \A y \in S : y <= x
  BY <1>0, <1>4
<1> QED
  BY <1>5
(* A row has as many places as there are spots in it. *)
LEMMA RowCounted ==
  ASSUME NEW rows, NEW P, NEW i, IsFiniteSet(Spots(rows[i], P))
  PROVE  /\ IsFiniteSet(SpotsOfRow(rows, P, i))
         /\ Cardinality(SpotsOfRow(rows, P, i)) = Cardinality(Spots(rows[i], P))
<1> DEFINE here == Spots(rows[i], P)
           B == {<<i, j>> : j \in here}
           f == [j \in here |-> <<i, j>>]
<1>1. SpotsOfRow(rows, P, i) = B
  BY DEF SpotsOfRow
<1>2. DOMAIN f = here /\ f = [a \in DOMAIN f |-> f[a]] /\ (\A a \in here : f[a] \in B)
      /\ \A c \in B : \E a \in here : f[a] = c
  OBVIOUS
<1>3. \A a, b \in here : f[a] = f[b] => a = b
  OBVIOUS
<1>4. IsFiniteSet(here)
  OBVIOUS
<1> HIDE DEF f, here, B
<1>5. IsFiniteSet(B) /\ Cardinality(here) = Cardinality(B)
  BY ONLY <1>2, <1>3, <1>4, SameSize
<1> QED
  BY <1>1, <1>5 DEF here

(* What is kept of elements that differ differs. *)
LEMMA ChosenApart ==
  ASSUME NEW S, NEW s \in Seq(S), \A a, b \in DOMAIN s : s[a] = s[b] => a = b, NEW P
  PROVE  LET c == Chosen(s, P) IN \A a, b \in DOMAIN c : c[a] = c[b] => a = b
<1> DEFINE c == Chosen(s, P)
<1>1. SUFFICES ASSUME NEW a \in DOMAIN c, NEW b \in DOMAIN c, c[a] = c[b], a # b PROVE FALSE
  OBVIOUS
<1> DEFINE x == c[a]
           Q == {x}
           A == Spots(c, Q)
           B == Spots(s, P \intersect Q)
<1>3. {a, b} \subseteq A
  BY <1>1 DEF Spots
<1>4. c \in Seq(S) /\ Cardinality(A) = Cardinality(B)
  <2> HIDE DEF Q
  <2> QED
    BY ChosenSpots
<1>5. \A i, j \in B : i = j
  BY DEF Spots
<1> HIDE DEF c, Q
<1>6. IsFiniteSet(A) /\ IsFiniteSet(B)
  BY <1>4, SpotsFinite
<1> HIDE DEF A, B
<1>7. Cardinality({a, b}) = 2
  <2>1. IsFiniteSet({a}) /\ Cardinality({a}) = 1
    BY FS_Singleton
  <2>2. Cardinality({a} \union {b}) = Cardinality({a}) + 1
    BY <1>1, <2>1, FS_AddElement
  <2>3. {a} \union {b} = {a, b}
    OBVIOUS
  <2> QED
    BY <2>1, <2>2, <2>3
<1>8. Cardinality({a, b}) <= Cardinality(A)
  <2>1. {a, b} \in SUBSET A
    BY <1>3
  <2> QED
    BY <1>6, <2>1, FS_Subset
<1>9. \E i : B \subseteq {i}
  BY <1>5
<1>10. PICK i : B \subseteq {i}
  BY <1>9
<1>11. Cardinality(B) <= Cardinality({i}) /\ Cardinality({i}) = 1
  <2>1. IsFiniteSet({i}) /\ Cardinality({i}) = 1
    BY FS_Singleton
  <2>2. B \in SUBSET {i}
    BY <1>10
  <2> QED
    BY <2>1, <2>2, FS_Subset
<1>12. Cardinality(A) \in Nat /\ Cardinality(B) \in Nat
  BY <1>6, FS_CardinalityType
<1> QED
  BY <1>4, <1>7, <1>8, <1>11, <1>12
=============================================================================
