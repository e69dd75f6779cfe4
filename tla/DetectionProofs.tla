-------------------------- MODULE DetectionProofs --------------------------
(***************************************************************************)
(* That the lines shown with a finding are lines of its file, for every    *)
(* key, every file and every number of lines asked for.                    *)
(***************************************************************************)
EXTENDS Detection, Folding

(* The library's operators in Detectors are those of the lemmas. *)
LEMMA SameCardinality == \A S : Line!Cardinality(S) = Cardinality(S)
  BY Zenon DEF Line!Cardinality, Cardinality
(* And so is its concatenation. *)
LEMMA SameFlattening == \A s : Line!FlattenSeq(s) = FlattenSeq(s)
  BY Zenon DEF Line!FlattenSeq, FlattenSeq

-----------------------------------------------------------------------------
(* Numbers.                                                                  *)

(* Min of such a set is its least member. *)
LEMMA MinOf ==
  ASSUME NEW S, IsFiniteSet(S), S \subseteq Int, S # {}
  PROVE  Line!Min(S) \in S /\ \A y \in S : Line!Min(S) <= y
  BY LeastExists DEF Line!Min

(* Max of such a set is its greatest member. *)
LEMMA MaxOf ==
  ASSUME NEW S, IsFiniteSet(S), S \subseteq Int, S # {}
  PROVE  Line!Max(S) \in S /\ \A y \in S : Line!Max(S) >= y
<1> DEFINE N == {-x : x \in S}
           f == [x \in S |-> -x]
<1>1. f \in Surjection(S, N)
  BY DEF Surjection
<1>2. IsFiniteSet(N)
  <2> HIDE DEF f, N
  <2> QED
    BY <1>1, FS_Surjection
<1>3. N \subseteq Int /\ N # {}
  OBVIOUS
<1>4. PICK x \in N : \A y \in N : x <= y
  <2> HIDE DEF N
  <2> QED
    BY <1>2, <1>3, LeastExists
<1>5. -x \in S /\ \A y \in S : -x >= y
  <2>1. PICK z \in S : x = -z
    OBVIOUS
  <2>2. \A y \in S : -y \in N
    OBVIOUS
  <2>3. \A y \in S : x <= -y
    BY <1>4, <2>2
  <2> HIDE DEF N
  <2> QED
    BY <2>1, <2>3
<1> QED
  BY <1>5 DEF Line!Max

-----------------------------------------------------------------------------
(* Texts: what the helpers on strings return is a text.  The provers do not know *)
(* of a string literal that it is a string: those the detectors write are named.  *)
Characters == STRING \union {" ", "=", ".", "resource", "param", "variable"}
Texts == Seq(Characters)

(* What lies between two places of a text is a text. *)
LEMMA SpannedText ==
  ASSUME NEW D, NEW s \in Seq(D), NEW at, at \subseteq DOMAIN s
  PROVE  Line!Spanned(s, at) \in Seq(D)
<1>1. CASE at = {}
  BY <1>1 DEF Line!Spanned
<1>2. CASE at # {}
  <2>1. Len(s) \in Nat /\ DOMAIN s = 1 .. Len(s)
    OBVIOUS
  <2>2. IsFiniteSet(DOMAIN s)
    BY <2>1, FS_Interval
  <2>3. IsFiniteSet(at) /\ at \subseteq Int
    BY <2>1, <2>2, FS_Subset
  <2>4. Line!Min(at) \in 1 .. Len(s) /\ Line!Max(at) \in 1 .. Len(s)
    BY <1>2, <2>1, <2>3, MinOf, MaxOf
  <2>5. SubSeq(s, Line!Min(at), Line!Max(at)) \in Seq(D)
    BY <2>1, <2>4
  <2> QED
    BY <1>2, <2>5 DEF Line!Spanned
<1> QED
  BY <1>1, <1>2

(* A text without some characters at its ends is a text. *)
LEMMA KeptText ==
  ASSUME NEW D, NEW s \in Seq(D), NEW dropped
  PROVE  Line!Kept(s, dropped) \in Seq(D) /\ Line!Trim(s) \in Seq(D)
<1>1. {i \in DOMAIN s : s[i] \notin dropped} \subseteq DOMAIN s
      /\ {i \in DOMAIN s : s[i] \notin {" ", "\t"}} \subseteq DOMAIN s
  OBVIOUS
<1> QED
  BY <1>1, SpannedText DEF Line!Kept, Line!Trim

(* The first occurrence begins early enough for all of it. *)
LEMMA IndexOf ==
  ASSUME NEW D, NEW s \in Seq(D), NEW t, Len(t) \in Nat, Line!Has(s, t)
  PROVE  Line!Index(s, t) \in 1 .. Len(s) - Len(t) + 1
<1> DEFINE N == Len(s) - Len(t) + 1
           O == Line!Occurrences(s, t)
<1>1. O \subseteq 1 .. N /\ N \in Int /\ O # {}
  <2>1. N \in Int
    OBVIOUS
  <2>2. O # {}
    BY DEF Line!Has
  <2>3. O \subseteq 1 .. N
    BY Zenon DEF Line!Occurrences
  <2> QED
    BY <2>1, <2>2, <2>3
<1>2. IsFiniteSet(1 .. N)
  BY <1>1, FS_Interval
<1>3. IsFiniteSet(O) /\ O \subseteq Int
  BY <1>1, <1>2, FS_Subset
<1> HIDE DEF N, O
<1>4. Line!Min(O) \in O
  BY <1>1, <1>3, MinOf
<1> QED
  BY <1>1, <1>4 DEF Line!Index, N, O

(* What is behind or before an occurrence is a text. *)
LEMMA CutText ==
  ASSUME NEW D, NEW s \in Seq(D), NEW t, Len(t) \in Nat, Line!Has(s, t)
  PROVE  Line!After(s, t) \in Seq(D) /\ Line!Before(s, t) \in Seq(D)
<1>1. Line!Index(s, t) \in 1 .. Len(s) - Len(t) + 1 /\ Len(s) \in Nat
  BY IndexOf
<1> DEFINE i == Line!Index(s, t)
<1>2. i \in 1 .. Len(s) - Len(t) + 1 /\ Len(s) \in Nat
  BY <1>1
<1> HIDE DEF i
<1>3. SubSeq(s, i + Len(t), Len(s)) \in Seq(D) /\ SubSeq(s, 1, i - 1) \in Seq(D)
  BY <1>2
<1> QED
  BY <1>3 DEF Line!After, Line!Before, i

(* In a set of m numbers there is a first one, a second one and so on to an m-th. *)
LEMMA NthExists ==
  ASSUME NEW S, IsFiniteSet(S), S \subseteq Int, NEW k \in 1 .. Cardinality(S)
  PROVE  Line!Nth(S, k) \in S
<1> DEFINE Below(T, i) == {j \in T : j <= i}
           X == {T \in SUBSET S : \E n \in 1 .. Cardinality(T) : \A i \in T : Cardinality(Below(T, i)) # n}
<1>1. ASSUME X # {} PROVE FALSE
  <2>1. PICK T \in X : \A U \in X : U \subseteq T => U = T
    <3>1. X \subseteq SUBSET S
      OBVIOUS
    <3> HIDE DEF X
    <3> QED
      BY ONLY IsFiniteSet(S), <1>1, <3>1, SmallestSet
  <2>2. T \subseteq S
    BY <2>1
  <2>3. PICK n \in 1 .. Cardinality(T) : \A i \in T : Cardinality(Below(T, i)) # n
    BY <2>1
  <2>4. IsFiniteSet(T) /\ T \subseteq Int /\ Cardinality(T) \in Nat
    BY <2>2, FS_Subset, FS_CardinalityType
  <2>5. T # {}
    BY <2>3, FS_EmptySet
  <2> DEFINE m == Line!Max(T)
             R == T \ {m}
  <2>6. m \in T /\ \A y \in T : m >= y
    BY <2>4, <2>5, MaxOf
  <2> HIDE DEF m
  <2>7. Cardinality(R) = Cardinality(T) - 1 /\ IsFiniteSet(R)
    BY <2>4, <2>6, FS_RemoveElement
  <2>8. Below(T, m) = T
    BY <2>6
  <2>9. n # Cardinality(T)
    BY <2>3, <2>6, <2>8
  <2>10. n \in 1 .. Cardinality(R)
    BY <2>3, <2>4, <2>7, <2>9
  <2>11. R \notin X
    <3>1. R \subseteq T /\ R # T
      BY <2>6
    <3> QED
      BY <2>1, <3>1
  <2>12. PICK i \in R : Cardinality(Below(R, i)) = n
    BY <2>2, <2>10, <2>11
  <2>13. Below(T, i) = Below(R, i)
    BY <2>4, <2>6, <2>12
  <2> QED
    BY <2>3, <2>12, <2>13
<1>2. \E i \in S : Cardinality(Below(S, i)) = k
  <2>1. S \notin X
    BY <1>1
  <2> QED
    BY ONLY <2>1, k \in 1 .. Cardinality(S)
<1> QED
  BY <1>2, SameCardinality DEF Line!Nth

(* The pieces between separators are texts. *)
LEMMA PiecesText ==
  ASSUME NEW D, NEW s \in Seq(D), NEW isSeparator
  PROVE  Line!Pieces(s, isSeparator) \in Seq(Seq(D))
<1> DEFINE n == Len(s)
           cut == {0, n + 1} \union {i \in DOMAIN s : isSeparator[i]}
<1>1. n \in Nat /\ DOMAIN s = 1 .. n
  OBVIOUS
<1>2. cut \subseteq 0 .. n + 1
  BY <1>1
<1>3. IsFiniteSet(cut) /\ cut \subseteq Int
  <2>1. 0 \in Int /\ n + 1 \in Int
    BY <1>1
  <2>2. IsFiniteSet(0 .. n + 1)
    BY <2>1, FS_Interval
  <2>3. cut \subseteq Int
    BY <1>1, <1>2
  <2> HIDE DEF cut
  <2>4. IsFiniteSet(cut)
    BY <1>2, <2>2, FS_Subset
  <2> QED
    BY <2>3, <2>4
<1>4. Cardinality(cut) \in Nat
  BY <1>3, FS_CardinalityType
<1> HIDE DEF cut
<1>5. ASSUME NEW k \in 1 .. Cardinality(cut) - 1
      PROVE  SubSeq(s, Line!Nth(cut, k) + 1, Line!Nth(cut, k + 1) - 1) \in Seq(D)
  <2>1. Line!Nth(cut, k) \in cut /\ Line!Nth(cut, k + 1) \in cut
    <3>1. k \in 1 .. Cardinality(cut) /\ k + 1 \in 1 .. Cardinality(cut)
      BY <1>4
    <3> QED
      BY <1>3, <3>1, NthExists
  <2> DEFINE a == Line!Nth(cut, k)
             b == Line!Nth(cut, k + 1)
  <2>2. a \in 0 .. n + 1 /\ b \in 0 .. n + 1
    BY <1>2, <2>1
  <2> HIDE DEF a, b
  <2>3. SubSeq(s, a + 1, b - 1) \in Seq(D)
    BY <1>1, <2>2
  <2> QED
    BY <2>3 DEF a, b
<1>6. Line!Between(s, cut) \in Seq(Seq(D))
  <2> DEFINE m == Cardinality(cut) - 1
             Part(k) == SubSeq(s, Line!Nth(cut, k) + 1, Line!Nth(cut, k + 1) - 1)
             last == IF m \in Nat THEN m ELSE 0
  <2>1. \A k \in 1 .. m : Part(k) \in Seq(D)
    BY <1>5
  <2>2. Line!Between(s, cut) = [k \in 1 .. m |-> Part(k)]
    BY Zenon, SameCardinality DEF Line!Between
  <2>3. last \in Nat /\ 1 .. m = 1 .. last
    BY <1>4
  <2> HIDE DEF Part, m, last
  <2>4. [k \in 1 .. last |-> Part(k)] \in Seq(Seq(D))
    <3>1. [k \in 1 .. last |-> Part(k)] \in [1 .. last -> Seq(D)]
      BY <2>1, <2>3
    <3> HIDE DEF Part
    <3> DEFINE p == [k \in 1 .. last |-> Part(k)]
    <3>2. p \in [1 .. last -> Seq(D)]
      BY <3>1
    <3> HIDE DEF p
    <3>3. p \in Seq(Seq(D))
      BY <2>3, <3>2
    <3> QED
      BY <3>3 DEF p
  <2> QED
    BY <2>2, <2>3, <2>4
<1> QED
  BY <1>6 DEF Line!Pieces, cut

(* What stands somewhere in a text occurs in it. *)
LEMMA HasItem ==
  ASSUME NEW D, NEW s \in Seq(D), NEW i \in DOMAIN s
  PROVE  Line!Has(s, <<s[i]>>)
<1>1. Len(<<s[i]>>) = 1 /\ i \in 1 .. Len(s) /\ Len(s) \in Nat
  OBVIOUS
<1>2. SubSeq(s, i, i) = <<s[i]>>
  <2>1. Len(SubSeq(s, i, i)) = 1 /\ SubSeq(s, i, i)[1] = s[i] /\ SubSeq(s, i, i) \in Seq(D)
    BY <1>1
  <2> DEFINE u == SubSeq(s, i, i)
  <2> HIDE DEF u
  <2>2. u \in Seq(D) /\ Len(u) = 1 /\ u[1] = s[i]
    BY <2>1 DEF u
  <2>3. u = <<s[i]>>
    BY <2>2
  <2> QED
    BY <2>3 DEF u
<1>3. i + 1 - 1 = i /\ i \in 1 .. Len(s) - 1 + 1
  BY <1>1
<1>4. i \in Line!Occurrences(s, <<s[i]>>)
  BY <1>1, <1>2, <1>3 DEF Line!Occurrences
<1> QED
  BY <1>4 DEF Line!Has

(* A line that gives an attribute a value has an equals sign. *)
LEMMA AssignedText ==
  ASSUME NEW name \in Texts, NEW line \in Texts, Line!Assigns(name, line)
  PROVE  Line!Has(Line!Trim(line), <<"=">>)
<1> DEFINE p == name \o <<" ", "=">>
           t == Line!Trim(line)
           n == Len(name) + 2
<1>1. p \in Texts /\ Len(p) = n /\ n \in Nat /\ p[n] = "=" /\ n >= 2
  <2>1. <<" ", "=">> \in Texts /\ Len(<<" ", "=">>) = 2 /\ <<" ", "=">>[2] = "="
    <3>1. " " \in Characters /\ "=" \in Characters
      BY DEF Characters
    <3> QED
      BY <3>1, Pair DEF Texts
  <2> DEFINE e == <<" ", "=">>
  <2> HIDE DEF e
  <2>2. e \in Texts /\ Len(e) = 2 /\ e[2] = "="
    BY <2>1 DEF e
  <2>3. name \in Seq(Characters) /\ e \in Seq(Characters)
    BY <2>2 DEF Texts
  <2> DEFINE w == name \o e
  <2>4. w \in Seq(Characters) /\ Len(w) = Len(name) + Len(e) /\ \A i \in 1 .. Len(e) : w[Len(name) + i] = e[i]
    BY <2>3, Concatenation
  <2>5. Len(name) \in Nat
    BY <2>3
  <2>5a. p = w
    BY Zenon DEF e
  <2> HIDE DEF w, p
  <2>6. 2 \in 1 .. Len(e) /\ w[Len(name) + 2] = "="
    BY <2>2, <2>4
  <2> QED
    BY <2>2, <2>4, <2>5, <2>5a, <2>6 DEF Texts
<1>2. t \in Texts
  BY KeptText DEF Texts
<1>3. Len(p) <= Len(t) /\ SubSeq(p, 1, Len(p)) = SubSeq(t, 1, Len(p))
  BY DEF Line!Assigns, Line!IsPrefix
<1> HIDE DEF p, t, n
<1>4. n \in DOMAIN t /\ t[n] = SubSeq(t, 1, n)[n]
  BY <1>1, <1>2, <1>3 DEF Texts
<1>5. t[n] = "="
  BY <1>1, <1>3, <1>4
<1>6. Line!Has(t, <<t[n]>>)
  BY <1>2, <1>4, HasItem DEF Texts
<1> QED
  BY <1>5, <1>6 DEF t

(* The first line of those that some are. *)
LEMMA FirstOf ==
  ASSUME NEW n \in Nat, NEW S, S \subseteq 1 .. n, S # {}
  PROVE  Line!Min(S) \in S
<1>1. IsFiniteSet(1 .. n)
  BY FS_Interval
<1>2. IsFiniteSet(S)
  BY <1>1, FS_Subset
<1>3. S \subseteq Int
  OBVIOUS
<1> QED
  BY <1>2, <1>3, MinOf

(* Nothing is a text too. *)
LEMMA EmptyText == <<>> \in Texts
  BY DEF Texts

(* An item of a list is a text, found or not (resolveListIndex). *)
LEMMA ListItemText ==
  ASSUME NEW name, NEW lines \in Seq(Texts), NEW index \in Nat
  PROVE  Line!ListItem(index, name, lines) \in Texts
<1> DEFINE long == {i \in DOMAIN lines : Line!AssignsList(name, lines[i]) /\ index < Len(Line!ItemsOn(lines[i]))}
<1>1. long \subseteq 1 .. Len(lines) /\ Len(lines) \in Nat
  OBVIOUS
<1>2. CASE long = {}
  BY Zenon, <1>2, EmptyText DEF Line!ListItem
<1>3. CASE long # {}
  <2> DEFINE i == Line!Min(long)
             items == Line!ItemsOn(lines[i])
  <2>1. i \in long
    <3> HIDE DEF long
    <3> QED
      BY <1>1, <1>3, FirstOf
  <2>2. lines[i] \in Texts /\ index < Len(items)
    BY <2>1
  <2> HIDE DEF long
  <2>3. items \in Seq(Texts)
    <3> DEFINE line == lines[i]
               open == Line!Index(line, <<"[">>)
               close == Line!Index(line, <<"]">>)
               shut == Line!Has(line, <<"[">>) /\ Line!Has(line, <<"]">>) /\ close > open
    <3>1. CASE ~shut
      BY <3>1 DEF Line!ItemsOn
    <3>2. CASE shut
      <4>1. Len(<<"[">>) = 1 /\ Len(<<"]">>) = 1
        OBVIOUS
      <4>2. open \in 1 .. Len(line) - 1 + 1 /\ close \in 1 .. Len(line) - 1 + 1
        BY <2>2, <3>2, <4>1, IndexOf DEF Texts
      <4> HIDE DEF open, close
      <4>3. SubSeq(line, open + 1, close - 1) \in Texts
        BY <2>2, <4>2 DEF Texts
      <4>4. Line!SplitCommas(SubSeq(line, open + 1, close - 1)) \in Seq(Texts)
        BY <4>3, PiecesText DEF Texts, Line!SplitCommas
      <4> QED
        BY <3>2, <4>4 DEF Line!ItemsOn, open, close
    <3> QED
      BY <3>1, <3>2
  <2> HIDE DEF items
  <2>4. items[index + 1] \in Texts
    BY <2>2, <2>3
  <2>5. Line!Kept(Line!Trim(items[index + 1]), {"\""}) \in Texts
    BY <2>4, KeptText DEF Texts
  <2> QED
    BY <1>3, <2>5 DEF Line!ListItem, items, i, long
<1> QED
  BY Zenon, <1>2, <1>3

(* The word around a place of a line is a text. *)
LEMMA WordText ==
  ASSUME NEW D, NEW line \in Seq(D), NEW from \in Nat, NEW to \in Int, to <= Len(line) + 1
  PROVE  Line!WordAround(line, from, to) \in Seq(D)
<1> DEFINE n == Len(line)
           gaps == {0, n + 1} \union {i \in DOMAIN line : line[i] = " "}
           left == {i \in gaps : i <= from}
           right == {i \in gaps : i >= to}
<1>1. n \in Nat /\ DOMAIN line = 1 .. n
  OBVIOUS
<1>2. gaps \subseteq 0 .. n + 1 /\ 0 \in left /\ n + 1 \in right
  <2>1. gaps \subseteq 0 .. n + 1
    <3>1. {i \in DOMAIN line : line[i] = " "} \subseteq 0 .. n + 1
      <4>1. {i \in DOMAIN line : line[i] = " "} \subseteq DOMAIN line
        BY Zenon
      <4>2. DOMAIN line \subseteq 0 .. n + 1
        BY <1>1
      <4> QED
        BY Zenon, <4>1, <4>2
    <3>2. {0, n + 1} \subseteq 0 .. n + 1
      BY <1>1
    <3> QED
      BY Zenon, <3>1, <3>2
  <2>2. 0 \in gaps /\ 0 <= from
    OBVIOUS
  <2>3. n + 1 \in gaps /\ n + 1 >= to
    BY <1>1
  <2> HIDE DEF gaps
  <2> QED
    BY <2>1, <2>2, <2>3
<1>3. left \subseteq 0 .. n + 1 /\ right \subseteq 0 .. n + 1 /\ left # {} /\ right # {}
  BY <1>2
<1>4. IsFiniteSet(0 .. n + 1) /\ 0 .. n + 1 \subseteq Int
  <2>1. 0 \in Int /\ n + 1 \in Int
    BY <1>1
  <2> QED
    BY <2>1, FS_Interval
<1> HIDE DEF left, right
<1>5. IsFiniteSet(left) /\ IsFiniteSet(right)
  BY <1>3, <1>4, FS_Subset
<1>6. left \subseteq Int /\ right \subseteq Int
  BY <1>3, <1>4
<1>7. Line!Max(left) \in left /\ Line!Min(right) \in right
  BY <1>3, <1>5, <1>6, MinOf, MaxOf
<1> DEFINE a == Line!Max(left)
           b == Line!Min(right)
<1>8. a \in 0 .. n + 1 /\ b \in 0 .. n + 1
  BY <1>3, <1>7
<1> HIDE DEF a, b
<1>9. SubSeq(line, a + 1, b - 1) \in Seq(D)
  BY <1>1, <1>8
<1> QED
  BY <1>9 DEF Line!WordAround, a, b, left, right

(* The end of a word without its last character is still in it. *)
LEMMA EndInside ==
  ASSUME NEW c, NEW word, NEW n \in Nat, NEW end \in 0 .. n
  PROVE  Line!EndBefore(c, word, end) \in 0 .. n
  BY DEF Line!EndBefore

(* A word without quotes and colon is a text (removeExtras). *)
LEMMA ExtrasRemoved ==
  ASSUME NEW D, NEW word \in Seq(D)
  PROVE  Line!RemoveExtras(word) \in Seq(D)
<1> DEFINE first == IF word[1] = "\"" THEN 2 ELSE 1
           mid == Line!EndBefore(":", word, Len(word))
           last == Line!EndBefore("\"", word, mid)
<1>1. Len(word) \in Nat /\ first \in {1, 2} /\ Len(word) \in 0 .. Len(word)
  OBVIOUS
<1>2. mid \in 0 .. Len(word)
  BY <1>1, EndInside
<1> HIDE DEF mid
<1>3. last \in 0 .. Len(word)
  BY <1>1, <1>2, EndInside
<1> HIDE DEF first, last
<1>4. SubSeq(word, first, last) \in Seq(D)
  BY <1>1, <1>3
<1> QED
  BY <1>4 DEF Line!RemoveExtras, first, last, mid

(* What is compared with a part is a text (ExtractLineFragment). *)
LEMMA FragmentText ==
  ASSUME NEW D, NEW line \in Seq(D), NEW substr, Len(substr) \in Nat, Line!Has(line, substr), NEW byKey
  PROVE  Line!ExtractLineFragment(line, substr, byKey) \in Seq(D)
<1> DEFINE i == Line!Index(line, substr)
<1>1. i \in 1 .. Len(line) - Len(substr) + 1 /\ Len(line) \in Nat
  BY IndexOf
<1> HIDE DEF i
<1>2. i \in Nat /\ i + Len(substr) \in Int /\ i + Len(substr) <= Len(line) + 1
  BY <1>1
<1>3. Line!RemoveExtras(Line!WordAround(line, i, i + Len(substr))) \in Seq(D)
  BY <1>2, WordText, ExtrasRemoved
<1>4. Line!Has(line, <<":">>) => Line!Before(line, <<":">>) \in Seq(D)
  <2>1. Len(<<":">>) \in Nat
    OBVIOUS
  <2> QED
    BY <2>1, CutText
<1> QED
  BY <1>3, <1>4 DEF Line!ExtractLineFragment, i

-----------------------------------------------------------------------------
(* The distance of two words is a number.                                    *)

(* The least of finitely many numbers is a number. *)
LEMMA LeastOfFunction ==
  ASSUME NEW n \in Nat \ {0}, NEW f, \A k \in 1 .. n : f[k] \in Int
  PROVE  Line!Min({f[k] : k \in 1 .. n}) \in Int
<1> DEFINE S == {f[k] : k \in 1 .. n}
           g == [k \in 1 .. n |-> f[k]]
<1>1. S \subseteq Int /\ S # {}
  <2>1. 1 \in 1 .. n
    OBVIOUS
  <2> QED
    BY <2>1
<1>2. IsFiniteSet(1 .. n)
  BY FS_Interval
<1>3. g \in Surjection(1 .. n, S)
  BY DEF Surjection
<1> HIDE DEF S, g
<1>4. IsFiniteSet(S)
  BY <1>2, <1>3, FS_Surjection
<1>5. Line!Min(S) \in S
  BY <1>1, <1>4, MinOf
<1> QED
  BY <1>1, <1>5 DEF S

Rows(m) == [1 .. m + 1 -> Int]

(* A row of distances follows a row of distances. *)
LEMMA NextRowTyped ==
  ASSUME NEW m \in Nat, NEW t, DOMAIN t = 1 .. m, NEW row \in Rows(m), NEW c
  PROVE  Line!NextRow(row, c, t) \in Rows(m)
<1> DEFINE first == <<row[1] + 1>>
           Stay(j) == Line!Min({row[j + 1] + 1, row[j] + (IF c = t[j] THEN 0 ELSE 1)})
           stays == [j \in DOMAIN t |-> Stay(j)]
           kept == first \o stays
           Come(j) == Line!Min({kept[k] + (j + 1 - k) : k \in 1 .. j + 1})
           comes == [j \in DOMAIN t |-> Come(j)]
<1>1. \A j \in 1 .. m + 1 : row[j] \in Int
  BY DEF Rows
<1>2. first \in Seq(Int) /\ Len(first) = 1
  <2>1. row[1] + 1 \in Int
    BY <1>1
  <2> QED
    BY <2>1
<1>3. \A j \in 1 .. m : Stay(j) \in Int
  <2>1. TAKE j \in 1 .. m
  <2> DEFINE a == row[j + 1] + 1
             b == row[j] + (IF c = t[j] THEN 0 ELSE 1)
  <2>2. a \in Int /\ b \in Int
    BY <1>1
  <2> HIDE DEF a, b
  <2>3. {a, b} \subseteq Int /\ {a, b} # {}
    BY <2>2
  <2>4. IsFiniteSet({a, b})
    <3>1. IsFiniteSet({a}) /\ {a, b} = {a} \union {b}
      BY FS_Singleton
    <3> QED
      BY <3>1, FS_AddElement
  <2>5. Line!Min({a, b}) \in {a, b}
    BY <2>3, <2>4, MinOf
  <2>6. Line!Min({a, b}) \in Int
    BY <2>3, <2>5
  <2> QED
    BY <2>6 DEF a, b
<1>4. stays \in Seq(Int) /\ Len(stays) = m
  <2>1. DOMAIN stays = 1 .. m /\ stays = [j \in DOMAIN stays |-> stays[j]]
    OBVIOUS
  <2>2. \A j \in 1 .. m : stays[j] \in Int
    BY <1>3
  <2> HIDE DEF stays
  <2> QED
    BY <2>1, <2>2, SequenceOf
<1> HIDE DEF first, stays
<1>5. kept \in Seq(Int) /\ Len(kept) = m + 1
  <2>1. kept \in Seq(Int) /\ Len(kept) = Len(first) + Len(stays)
    BY <1>2, <1>4, Concatenation
  <2> QED
    BY <1>2, <1>4, <2>1
<1> HIDE DEF kept
<1>6. \A j \in 1 .. m : Come(j) \in Int
  <2>1. TAKE j \in 1 .. m
  <2> DEFINE f == [k \in 1 .. j + 1 |-> kept[k] + (j + 1 - k)]
             n == j + 1
  <2>2. n \in Nat \ {0} /\ \A k \in 1 .. n : f[k] \in Int
    BY <1>5
  <2>3. {kept[k] + (j + 1 - k) : k \in 1 .. j + 1} = {f[k] : k \in 1 .. n}
    OBVIOUS
  <2> HIDE DEF f, n
  <2>4. Line!Min({f[k] : k \in 1 .. n}) \in Int
    BY <2>2, LeastOfFunction
  <2> QED
    BY <2>3, <2>4
<1>7. comes \in Seq(Int) /\ Len(comes) = m
  <2>1. DOMAIN comes = 1 .. m /\ comes = [j \in DOMAIN comes |-> comes[j]]
    OBVIOUS
  <2>2. \A j \in 1 .. m : comes[j] \in Int
    BY <1>6
  <2> HIDE DEF comes
  <2> QED
    BY <2>1, <2>2, SequenceOf
<1>8. Line!NextRow(row, c, t) = first \o comes
  BY Zenon DEF Line!NextRow, first, stays, kept
<1> HIDE DEF comes
<1> DEFINE all == first \o comes
<1>9. all \in Seq(Int) /\ Len(all) = Len(first) + Len(comes)
  BY <1>2, <1>7, Concatenation
<1> HIDE DEF all
<1>10. all \in Seq(Int) /\ Len(all) = m + 1
  BY <1>2, <1>7, <1>9
<1>11. all \in [1 .. m + 1 -> Int]
  BY <1>10
<1> QED
  BY <1>8, <1>11 DEF Rows, all

-----------------------------------------------------------------------------
(* Two words are some number apart (levenshtein.ComputeDistance). *)
LEMMA DistanceNumber ==
  ASSUME NEW s, Len(s) \in Nat, NEW D, NEW t \in Seq(D)
  PROVE  Line!Distance(s, t) \in Int
<1> DEFINE n == Len(s)
           m == Len(t)
           base == [j \in 1 .. m + 1 |-> j - 1]
           Row(r) == r = [i \in 0 .. n |-> IF i = 0 THEN base ELSE Line!NextRow(r[i - 1], s[i], t)]
           row == CHOOSE r : Row(r)
           step == [p \in (1 .. n) \X Rows(m) |-> Line!NextRow(p[2], s[p[1]], t)]
<1>1. n \in Nat /\ m \in Nat /\ DOMAIN t = 1 .. m
  OBVIOUS
<1>2. base \in Rows(m)
  BY <1>1 DEF Rows
<1>3. \A i \in 1 .. n, x \in Rows(m) : Line!NextRow(x, s[i], t) \in Rows(m)
  BY <1>1, NextRowTyped
<1>4. \A i \in 1 .. n, x \in Rows(m) : step[<<i, x>>] = Line!NextRow(x, s[i], t)
  OBVIOUS
<1>5. Line!Distance(s, t) = row[n][Len(row[n])]
  BY Zenon DEF Line!Distance, Line!Last
<1> HIDE DEF n, m, base, step
<1>6. \A i \in 1 .. n, x \in Rows(m) : step[<<i, x>>] \in Rows(m)
  BY <1>3, <1>4
<1>7. PICK g : Iterates(g, n, base, step) /\ \A i \in 0 .. n : g[i] \in Rows(m)
  BY <1>1, <1>2, <1>6, LoopExists
<1>8. Row(g)
  <2>1. \A i \in 0 .. n : i # 0 => g[i - 1] \in Rows(m) /\ i \in 1 .. n
    BY <1>1, <1>7
  <2>2. \A i \in 0 .. n : (IF i = 0 THEN base ELSE step[<<i, g[i - 1]>>])
                          = (IF i = 0 THEN base ELSE Line!NextRow(g[i - 1], s[i], t))
    BY <1>4, <2>1
  <2> QED
    BY <1>7, <2>2 DEF Iterates
<1>9. Row(row)
  BY <1>8
<1> DEFINE A == {i \in 0 .. n : row[i] \in Rows(m)}
<1>10. \A i \in 0 .. n : row[i] = IF i = 0 THEN base ELSE Line!NextRow(row[i - 1], s[i], t)
  BY <1>9
<1> HIDE DEF row
<1>11. 0 \in A
  BY <1>1, <1>2, <1>10
<1>12. \A i \in 1 .. n : i - 1 \in A => i \in A
  BY <1>1, <1>3, <1>10
<1> HIDE DEF A
<1>13. n \in A
  BY <1>1, <1>11, <1>12, UpTo
<1>14. row[n] \in Rows(m)
  BY <1>13 DEF A
<1> DEFINE last == row[n]
<1>15. last \in [1 .. m + 1 -> Int]
  BY <1>14 DEF Rows
<1> HIDE DEF last
<1>16. Len(last) = m + 1
  BY <1>1, <1>15
<1>17. last[Len(last)] \in Int
  BY <1>1, <1>15, <1>16
<1> QED
  BY <1>5, <1>17 DEF last

-----------------------------------------------------------------------------
(* What a part says of its line is two texts.                                *)

(* The same for one character. *)
LEMMA TextCut ==
  ASSUME NEW s \in Texts, NEW x, Line!Has(s, <<x>>)
  PROVE  Line!Before(s, <<x>>) \in Texts /\ Line!After(s, <<x>>) \in Texts
<1>1. Len(<<x>>) \in Nat
  OBVIOUS
<1> QED
  BY <1>1, CutText DEF Texts

(* The same for what is left when the ends are trimmed. *)
LEMMA TextTrimmed ==
  ASSUME NEW s \in Texts, NEW dropped
  PROVE  Line!Kept(s, dropped) \in Texts /\ Line!Trim(s) \in Texts
  BY KeptText DEF Texts

(* All but the last of a sequence. *)
LEMMA FrontText == ASSUME NEW D, NEW s \in Seq(D) PROVE Line!Front(s) \in Seq(D)
<1>1. SubSeq(s, 1, Len(s) - 1) \in Seq(D)
  OBVIOUS
<1> QED
  BY <1>1 DEF Line!Front

(* A text without the braces around it. *)
LEMMA UnbracedText == ASSUME NEW s \in Texts PROVE Line!Unbraced(s) \in Texts
<1>1. s # <<>> => Tail(s) \in Texts
  BY DEF Texts
<1>2. s # <<>> => Line!Front(Tail(s)) \in Texts
  BY <1>1, FrontText DEF Texts
<1> QED
  BY <1>2 DEF Line!Unbraced

(* base[label]: the base, and the label or the item of a list. *)
LEMMA LabelText ==
  ASSUME NEW base \in Texts, NEW label \in Texts, NEW lines \in Seq(Texts)
  PROVE  /\ Line!LabelOrItem(base, label, lines)[1] \in Texts
         /\ Line!LabelOrItem(base, label, lines)[2] \in Texts
<1>1. ASSUME NEW digit \in DOMAIN Line!Numbers PROVE Line!Numbers[digit] \in Nat
  <2>1. DOMAIN Line!Numbers = {"0", "1", "2"}
    BY Zenon DEF Line!Numbers
  <2>2. Line!Numbers[digit] = CASE digit = "0" -> 0 [] digit = "1" -> 1 [] OTHER -> 2
    BY Zenon, <2>1 DEF Line!Numbers
  <2>3. Line!Numbers[digit] \in {0, 1, 2}
    BY <2>2
  <2> QED
    BY <2>3
<1>2. label[1] \in DOMAIN Line!Numbers => Line!ListItem(Line!Numbers[label[1]], base, lines) \in Texts
  BY <1>1, ListItemText
<1> QED
  BY <1>2 DEF Line!LabelOrItem

(* name=value: the name, and the value given or read from the file. *)
LEMMA ValueText ==
  ASSUME NEW name \in Texts, NEW value \in Texts, NEW lines \in Seq(Texts)
  PROVE  /\ Line!NameAndValue(name, value, lines)[1] \in Texts
         /\ Line!NameAndValue(name, value, lines)[2] \in Texts
<1> DEFINE given == {i \in DOMAIN lines : Line!Assigns(name, lines[i])}
           line == lines[Line!Min(given)]
           found == Line!Trim(Line!After(Line!Trim(line), <<"=">>))
<1>1. Len(lines) \in Nat /\ given \subseteq 1 .. Len(lines)
  OBVIOUS
<1>2. given # {} => found \in Texts
  <2>1. SUFFICES ASSUME given # {} PROVE found \in Texts
    OBVIOUS
  <2>2. Line!Min(given) \in given
    <3> HIDE DEF given
    <3> QED
      BY <1>1, <2>1, FirstOf
  <2>3. line \in Texts /\ Line!Assigns(name, line)
    BY <2>2
  <2> HIDE DEF line
  <2>4. Line!Trim(line) \in Texts /\ Line!Has(Line!Trim(line), <<"=">>)
    BY <2>3, TextTrimmed, AssignedText
  <2>5. Line!After(Line!Trim(line), <<"=">>) \in Texts
    BY <2>4, TextCut
  <2> QED
    BY <2>5, TextTrimmed
<1>3. Line!NameAndValue(name, value, lines)
        = <<name, IF value = <<>> /\ name # <<>> /\ given # {} THEN found ELSE value>>
  BY Zenon DEF Line!NameAndValue
<1> HIDE DEF given, found
<1> QED
  BY <1>2, <1>3

(* Of any part two texts are made (GenerateSubstrings). *)
LEMMA SubstringsText ==
  ASSUME NEW part \in Texts, NEW lines \in Seq(Texts), NEW current \in Nat \ {0}
  PROVE  /\ Line!GenerateSubstrings(part, lines, current)[1] \in Texts
         /\ Line!GenerateSubstrings(part, lines, current)[2] \in Texts
<1> DEFINE labelled == part # <<>> /\ part[1] # "[" /\ Line!Has(part, <<"[">>) /\ Line!Last(part) = "]"
           base == Line!Before(part, <<"[">>)
           label == Line!Unbraced(Line!Kept(Line!Front(Line!After(part, <<"[">>)), {"\"", "'"}))
           parted == IF Line!Has(part, <<"=">>)
                     THEN <<Line!Before(part, <<"=">>), Line!After(part, <<"=">>)>> ELSE <<part, <<>>>>
           name == Line!Trim(parted[1])
           value == Line!Trim(parted[2])
           rest == SubSeq(lines, current, Len(lines))
<1>1. Line!GenerateSubstrings(part, lines, current)
        = IF labelled THEN Line!LabelOrItem(base, label, lines) ELSE Line!NameAndValue(name, value, rest)
  BY Zenon DEF Line!GenerateSubstrings
<1>2. labelled => base \in Texts /\ label \in Texts
  <2>1. SUFFICES ASSUME labelled PROVE base \in Texts /\ label \in Texts
    OBVIOUS
  <2>2. base \in Texts /\ Line!After(part, <<"[">>) \in Texts
    BY <2>1, TextCut
  <2>3. Line!Front(Line!After(part, <<"[">>)) \in Texts
    BY <2>2, FrontText DEF Texts
  <2>4. Line!Kept(Line!Front(Line!After(part, <<"[">>)), {"\"", "'"}) \in Texts
    BY <2>3, TextTrimmed
  <2> QED
    BY <2>2, <2>4, UnbracedText
<1>3. name \in Texts /\ value \in Texts
  <2>1. Line!Has(part, <<"=">>) => Line!Before(part, <<"=">>) \in Texts /\ Line!After(part, <<"=">>) \in Texts
    BY TextCut
  <2>2. parted[1] \in Texts /\ parted[2] \in Texts
    BY <2>1, EmptyText
  <2> HIDE DEF parted
  <2> QED
    BY <2>2, TextTrimmed
<1>4. rest \in Seq(Texts)
  OBVIOUS
<1> HIDE DEF labelled, base, label, name, value, rest
<1>5. CASE labelled
  BY <1>1, <1>2, <1>5, LabelText
<1>6. CASE ~labelled
  BY <1>1, <1>3, <1>4, <1>6, ValueText
<1> QED
  BY <1>5, <1>6

(* A text with the names that Bicep has is a text. *)
LEMMA BicepText == ASSUME NEW str \in Texts PROVE Line!BicepNames(str) \in Texts
<1> DEFINE W == Line!BicepWords
           new == [i \in DOMAIN str |-> IF str[i] \in DOMAIN W THEN W[str[i]] ELSE str[i]]
           n == Len(str)
<1>1. \A w \in DOMAIN W : W[w] \in Characters
  <2>1. "resource" \in Characters /\ "param" \in Characters /\ "variable" \in Characters
    BY DEF Characters
  <2> QED
    BY <2>1 DEF Line!BicepWords
<1>2. n \in Nat /\ DOMAIN str = 1 .. n /\ \A i \in 1 .. n : str[i] \in Characters
  BY DEF Texts
<1> HIDE DEF W, n
<1>3. DOMAIN new = 1 .. n /\ new = [i \in DOMAIN new |-> new[i]] /\ \A i \in 1 .. n : new[i] \in Characters
  BY <1>1, <1>2
<1>4. Line!BicepNames(str) = new
  BY Zenon DEF Line!BicepNames, W
<1> HIDE DEF new
<1>5. new \in Seq(Characters)
  BY <1>2, <1>3, SequenceOf
<1> QED
  BY <1>4, <1>5 DEF Texts

-----------------------------------------------------------------------------
(* The line that is found is a line of the file.                             *)

(* A line is some number away from a word it has. *)
LEMMA WordDistanceNumber ==
  ASSUME NEW line \in Texts, NEW str \in Texts, Line!Has(line, str)
  PROVE  Line!WordDistance(line, str) \in Int
<1>1. Len(str) \in Nat
  BY DEF Texts
<1>2. Line!ExtractLineFragment(line, str, FALSE) \in Texts
  BY <1>1, FragmentText DEF Texts
<1> DEFINE word == Line!ExtractLineFragment(line, str, FALSE)
<1> HIDE DEF word
<1>3. Len(word) \in Nat
  <2>1. word \in Texts
    BY <1>2 DEF word
  <2> QED
    BY <2>1 DEF Texts
<1>4. Line!Distance(word, str) \in Int
  BY <1>3, DistanceNumber DEF Texts
<1> QED
  BY <1>4 DEF Line!WordDistance, word

(* A line that looks like the part is some number away from it (checkLine). *)
LEMMA LineDistanceNumber ==
  ASSUME NEW line \in Texts, NEW str1 \in Texts, NEW str2 \in Texts, Line!LooksLike(str1, str2, line)
  PROVE  Line!LineDistance(str1, str2, line) \in Int
<1>1. Line!Has(line, str1) /\ (str2 # <<>> => Line!Has(Line!After(line, str1), str2))
  BY DEF Line!LooksLike
<1>2. Line!WordDistance(line, str1) \in Int
  BY <1>1, WordDistanceNumber
<1>3. Line!After(line, str1) \in Texts
  <2>1. Len(str1) \in Nat
    BY DEF Texts
  <2> QED
    BY <1>1, <2>1, CutText DEF Texts
<1>4. str2 # <<>> => Line!WordDistance(Line!After(line, str1), str2) \in Int
  BY <1>1, <1>3, WordDistanceNumber
<1> QED
  BY <1>2, <1>4 DEF Line!LineDistance

(* The nearest of some lines is one of them (SelectLineWithMinimumDistance). *)
LEMMA NearestLine ==
  ASSUME NEW n \in Nat, NEW S, S \subseteq 1 .. n, S # {}, NEW f \in [S -> Int]
  PROVE  Line!SelectLineWithMinimumDistance(f) \in S
<1> DEFINE V == {f[i] : i \in DOMAIN f}
           least == Line!Min(V)
           near == {i \in DOMAIN f : f[i] = least}
<1>1. IsFiniteSet(1 .. n)
  BY FS_Interval
<1>2. IsFiniteSet(S)
  BY <1>1, FS_Subset
<1>3. f \in Surjection(S, V)
  BY DEF Surjection
<1>4. V \subseteq Int /\ V # {} /\ DOMAIN f = S
  OBVIOUS
<1>5. IsFiniteSet(V)
  <2> HIDE DEF V
  <2> QED
    BY <1>2, <1>3, FS_Surjection
<1>6. least \in V
  <2> HIDE DEF V
  <2> QED
    BY <1>4, <1>5, MinOf
<1> HIDE DEF least
<1>7. near # {} /\ near \subseteq 1 .. n /\ near \subseteq S
  BY <1>4, <1>6
<1> HIDE DEF near
<1>8. Line!Min(near) \in near
  BY <1>7, FirstOf
<1> QED
  BY <1>7, <1>8 DEF Line!SelectLineWithMinimumDistance, near, least

Positions(n) ==
  {d \in [at : Nat \ {0}, found : BOOLEAN, isBreak : BOOLEAN] : d.found => d.at \in 1 .. n}

(* One search leaves the position in the file (DetectCurrentLine). *)
LEMMA CurrentLine ==
  ASSUME NEW lines \in Seq(Texts), NEW d \in Positions(Len(lines)), NEW str1 \in Texts, NEW str2 \in Texts
  PROVE  Line!DetectCurrentLine(d, str1, str2, lines) \in Positions(Len(lines))
<1> DEFINE n == Len(lines)
           T(i) == Line!Trim(lines[i])
           S == {j \in d.at .. n : Line!LooksLike(str1, str2, T(j))}
           f == [i \in S |-> Line!LineDistance(str1, str2, T(i))]
<1>1. n \in Nat /\ \A i \in 1 .. n : T(i) \in Texts
  BY TextTrimmed
<1>2. d.at \in Nat \ {0}
  BY DEF Positions
<1>3. S \subseteq 1 .. n
  BY <1>1, <1>2
<1>4. \A i \in S : Line!LineDistance(str1, str2, T(i)) \in Int
  BY <1>1, <1>3, LineDistanceNumber
<1>5. Line!DetectCurrentLine(d, str1, str2, lines) = Line!Nearest(d, f)
  BY Zenon DEF Line!DetectCurrentLine
<1> HIDE DEF n, S, T
<1>6. f \in [S -> Int] /\ DOMAIN f = S
  BY <1>4
<1> HIDE DEF f
<1>7. CASE S = {}
  <2>1. Line!Nearest(d, f) = [d EXCEPT !.isBreak = TRUE]
    BY <1>6, <1>7 DEF Line!Nearest
  <2> QED
    BY <1>5, <2>1 DEF Positions, n
<1>8. CASE S # {}
  <2>1. Line!SelectLineWithMinimumDistance(f) \in 1 .. n
    BY <1>1, <1>3, <1>6, <1>8, NearestLine
  <2>2. Line!Nearest(d, f) = [at |-> Line!SelectLineWithMinimumDistance(f), found |-> TRUE, isBreak |-> FALSE]
    BY <1>6, <1>8 DEF Line!Nearest
  <2> QED
    BY <1>1, <1>5, <2>1, <2>2 DEF Positions, n
<1> QED
  BY <1>7, <1>8

(* So does one part of the key. *)
LEMMA PartFound ==
  ASSUME NEW lines \in Seq(Texts), NEW d \in Positions(Len(lines)), NEW part \in Texts, NEW bicep
  PROVE  Line!DetectPart(d, part, lines, bicep) \in Positions(Len(lines))
<1> DEFINE str == Line!GenerateSubstrings(part, lines, d.at)
           str1 == IF bicep THEN Line!BicepNames(str[1]) ELSE str[1]
<1>1. d.at \in Nat \ {0}
  BY DEF Positions
<1>2. str[1] \in Texts /\ str[2] \in Texts
  BY <1>1, SubstringsText
<1> HIDE DEF str
<1>3. str1 \in Texts
  BY <1>2, BicepText
<1> HIDE DEF str1
<1>4. Line!DetectCurrentLine(d, str1, str[2], lines) \in Positions(Len(lines))
  BY <1>2, <1>3, CurrentLine
<1> QED
  BY <1>4 DEF Line!DetectPart, Line!DetectSubstrings, str, str1

(* So do all of them, whatever they are (the loop of DetectLine). *)
LEMMA PartsFound ==
  ASSUME NEW lines \in Seq(Texts), NEW parts \in Seq(Texts), NEW bicep
  PROVE  Line!DetectParts(parts, lines, bicep) \in Positions(Len(lines))
<1> DEFINE n == Len(parts)
           P == Positions(Len(lines))
           Step(d, i) == Line!DetectPart(d, parts[i], lines, bicep)
           Loop(r) == r = [i \in 0 .. n |-> IF i = 0 THEN Line!Start ELSE Step(r[i - 1], i)]
           after == CHOOSE r : Loop(r)
           step == [p \in (1 .. n) \X P |-> Step(p[2], p[1])]
           base == Line!Start
<1>1. n \in Nat
  OBVIOUS
<1>2. base \in P
  BY DEF Positions, Line!Start
<1>3. \A i \in 1 .. n, d \in P : Step(d, i) \in P
  BY PartFound
<1>4. \A i \in 1 .. n, d \in P : step[<<i, d>>] = Step(d, i)
  OBVIOUS
<1>5. Line!DetectParts(parts, lines, bicep) = after[n]
  BY Zenon DEF Line!DetectParts
<1> HIDE DEF n, P, Step, step, base
<1>6. \A i \in 1 .. n, d \in P : step[<<i, d>>] \in P
  BY <1>3, <1>4
<1>7. PICK g : Iterates(g, n, base, step) /\ \A i \in 0 .. n : g[i] \in P
  BY <1>1, <1>2, <1>6, LoopExists
<1>8. Loop(g)
  <2>1. \A i \in 0 .. n : i # 0 => g[i - 1] \in P /\ i \in 1 .. n
    BY <1>1, <1>7
  <2>2. \A i \in 0 .. n : (IF i = 0 THEN base ELSE step[<<i, g[i - 1]>>])
                          = (IF i = 0 THEN base ELSE Step(g[i - 1], i))
    BY <1>4, <2>1
  <2> QED
    BY <1>7, <2>2 DEF Iterates, base
<1>9. Loop(after)
  BY <1>8
<1>10. \A i \in 0 .. n : after[i] = IF i = 0 THEN base ELSE Step(after[i - 1], i)
  BY <1>9 DEF base
<1> HIDE DEF after
<1> DEFINE A == {i \in 0 .. n : after[i] \in P}
<1>11. 0 \in A
  BY <1>1, <1>2, <1>10
<1>12. \A i \in 1 .. n : i - 1 \in A => i \in A
  BY <1>1, <1>3, <1>10
<1> HIDE DEF A
<1>13. n \in A
  <2>1. \A i \in 0 .. n : i \in A
    BY <1>1, <1>11, <1>12, UpTo
  <2> QED
    BY <1>1, <2>1
<1> QED
  BY <1>5, <1>13 DEF A, P

(* The parts of a key are texts. *)
LEMMA JoinedText ==
  ASSUME NEW parts \in Seq(Texts)
  PROVE  Line!Joined(parts) \in Texts
<1> DEFINE dotted == [i \in DOMAIN parts |-> IF i = 1 THEN parts[i] ELSE <<".">> \o parts[i]]
           n == Len(parts)
<1>1. n \in Nat /\ DOMAIN parts = 1 .. n
  OBVIOUS
<1>2. \A i \in 1 .. n : parts[i] \in Texts
  OBVIOUS
<1>3. <<".">> \in Texts
  <2>1. "." \in Characters
    BY DEF Characters
  <2> QED
    BY <2>1 DEF Texts
<1>4. \A i \in 1 .. n : <<".">> \o parts[i] \in Texts
  BY <1>2, <1>3, Concatenation DEF Texts
<1>5. DOMAIN dotted = 1 .. n /\ dotted = [i \in DOMAIN dotted |-> dotted[i]] /\ \A i \in 1 .. n : dotted[i] \in Texts
  BY <1>1, <1>2, <1>4
<1>6. Line!Joined(parts) = FlattenSeq(dotted)
  BY Zenon, SameFlattening DEF Line!Joined
<1> HIDE DEF dotted
<1>7. dotted \in Seq(Texts)
  BY <1>1, <1>5, SequenceOf
<1>8. FlattenSeq(dotted) \in Texts
  BY <1>7, FlattenType DEF Texts
<1> QED
  BY <1>6, <1>8

(* The parts of a key, references joined, are texts. *)
LEMMA PartsText == ASSUME NEW key \in Texts PROVE Line!Parts(key) \in Seq(Texts)
<1> DEFINE parts == Line!SplitKey(key, Line!Braced(key))
           refs == {i \in DOMAIN parts : "$ref" \in Line!ToSet(parts[i])}
           at == Line!Min(refs)
           rest == SubSeq(parts, at, Len(parts))
           front == SubSeq(parts, 1, at - 1)
<1>1. parts \in Seq(Texts)
  BY PiecesText DEF Line!SplitKey, Texts
<1>2. Line!Parts(key) = IF refs = {} THEN parts ELSE front \o <<Line!Joined(rest)>>
  BY Zenon DEF Line!Parts, Line!ReferenceAsOne
<1> HIDE DEF parts
<1>3. refs \subseteq 1 .. Len(parts) /\ Len(parts) \in Nat
  BY <1>1
<1> HIDE DEF refs
<1>4. CASE refs = {}
  BY <1>1, <1>2, <1>4
<1>5. CASE refs # {}
  <2>1. at \in 1 .. Len(parts)
    BY <1>3, <1>5, FirstOf
  <2> HIDE DEF at
  <2>2. rest \in Seq(Texts) /\ front \in Seq(Texts)
    BY <1>1, <1>3, <2>1
  <2> HIDE DEF rest, front
  <2>3. <<Line!Joined(rest)>> \in Seq(Texts)
    BY <2>2, JoinedText
  <2>4. front \o <<Line!Joined(rest)>> \in Seq(Texts)
    BY <2>2, <2>3, Concatenation
  <2> QED
    BY <1>2, <1>5, <2>4
<1> QED
  BY <1>4, <1>5

(* The parts of a key of a Terraform file are texts (sanitizeSearchKey). *)
LEMMA KeyPartsText == ASSUME NEW key \in Texts PROVE Line!KeyParts(key) \in Seq(Texts)
<1> DEFINE all == Line!Pieces(key, [i \in DOMAIN key |-> key[i] \in {".", "/"}])
           n == Len(all)
           some == [i \in DOMAIN all |-> IF all[i] = <<>> THEN <<>> ELSE <<all[i]>>]
<1>1. all \in Seq(Texts)
  BY PiecesText DEF Texts
<1>2. Line!KeyParts(key) = FlattenSeq(some)
  BY Zenon, SameFlattening DEF Line!KeyParts
<1> HIDE DEF all
<1>3. n \in Nat /\ DOMAIN all = 1 .. n /\ \A i \in 1 .. n : all[i] \in Texts
  BY <1>1
<1>4. \A i \in 1 .. n : <<all[i]>> \in Seq(Texts)
  BY <1>3
<1>5. DOMAIN some = 1 .. n /\ some = [i \in DOMAIN some |-> some[i]] /\ \A i \in 1 .. n : some[i] \in Seq(Texts)
  BY <1>3, <1>4
<1> HIDE DEF some
<1>6. some \in Seq(Seq(Texts))
  BY <1>3, <1>5, SequenceOf
<1>7. FlattenSeq(some) \in Seq(Texts)
  BY <1>6, FlattenType
<1> QED
  BY <1>2, <1>7

-----------------------------------------------------------------------------
(* The window of lines around a line of the file.                            *)

WindowRight(at, shown, wanted, n) ==
  /\ at \in shown /\ shown \subseteq 1 .. n
  /\ \A i, j \in shown : i .. j \subseteq shown
  /\ Cardinality(shown) <= wanted
  /\ at > wanted \div 2 /\ at + wanted \div 2 <= n => Cardinality(shown) = wanted

(* Half of a number, and half of the next odd number below an even one. *)
LEMMA Halves ==
  ASSUME NEW wanted \in Nat \ {0}
  PROVE  /\ wanted \div 2 \in Nat /\ wanted % 2 \in {0, 1}
         /\ wanted = 2 * (wanted \div 2) + (wanted % 2)
         /\ (IF wanted % 2 = 0 THEN wanted - 1 ELSE wanted) \div 2
              = wanted \div 2 - (IF wanted % 2 = 0 THEN 1 ELSE 0)
  OBVIOUS

(* An interval with these ends is a right window. *)
LEMMA WindowOf ==
  ASSUME NEW n \in Nat, NEW at \in 1 .. n, NEW wanted \in Nat \ {0},
         NEW a \in Int, NEW b \in Int, 1 <= a, a <= at, at <= b, b <= n, b - a < wanted,
         at > wanted \div 2 /\ at + wanted \div 2 <= n => b - a + 1 = wanted
  PROVE  WindowRight(at, a .. b, wanted, n)
<1>1. Cardinality(a .. b) = b - a + 1
  BY FS_Interval
<1>2. at \in a .. b /\ a .. b \subseteq 1 .. n
  OBVIOUS
<1>3. \A i, j \in a .. b : i .. j \subseteq a .. b
  OBVIOUS
<1>4. Cardinality(a .. b) <= wanted
  BY <1>1
<1> QED
  BY <1>1, <1>2, <1>3, <1>4 DEF WindowRight

(* The window around any line of a file is right (GetAdjacentVulnLines). *)
LEMMA Window ==
  ASSUME NEW n \in Nat, NEW at \in 1 .. n, NEW adj \in Nat \ {0}
  PROVE  WindowRight(at, Line!AdjacentVulnLines(at, adj, n), adj, n)
<1> DEFINE h == adj \div 2
           wanted == Line!Min({adj, n})
           back == (IF adj % 2 = 0 THEN adj - 1 ELSE adj) \div 2
           up == Line!Min({at + h, n})
           down == Line!Max({at - back, 1})
           last == IF adj <= n THEN up ELSE n
           first == IF adj <= n THEN down ELSE 1
<1>1. /\ h \in Nat /\ back \in Int
      /\ \/ adj = 2 * h + 1 /\ back = h
         \/ adj = 2 * h /\ back = h - 1
  BY Halves
<1>2. \A x, y \in Int : /\ Line!Min({x, y}) = IF x <= y THEN x ELSE y
                        /\ Line!Max({x, y}) = IF x >= y THEN x ELSE y
  <2>1. TAKE x, y \in Int
  <2>2. {x, y} \subseteq Int /\ {x, y} # {}
    OBVIOUS
  <2>3. IsFiniteSet({x, y})
    <3>1. IsFiniteSet({x}) /\ {x, y} = {x} \union {y}
      BY FS_Singleton
    <3> QED
      BY <3>1, FS_AddElement
  <2>4. /\ Line!Min({x, y}) \in {x, y} /\ \A z \in {x, y} : Line!Min({x, y}) <= z
        /\ Line!Max({x, y}) \in {x, y} /\ \A z \in {x, y} : Line!Max({x, y}) >= z
    BY <2>2, <2>3, MinOf, MaxOf
  <2> QED
    BY <2>4
<1>3. Line!AdjacentVulnLines(at, adj, n)
        = IF at = 1 THEN 1 .. wanted ELSE IF at = n THEN (n - wanted + 1) .. n ELSE first .. last
  BY Zenon DEF Line!AdjacentVulnLines
<1>4. wanted = IF adj <= n THEN adj ELSE n
  BY <1>2
<1>5. up = IF at + h <= n THEN at + h ELSE n
  BY <1>1, <1>2
<1>6. down = IF at - back >= 1 THEN at - back ELSE 1
  <2> DEFINE x == at - back
  <2>1. x \in Int /\ 1 \in Int
    BY <1>1
  <2> HIDE DEF x
  <2>2. Line!Max({x, 1}) = IF x >= 1 THEN x ELSE 1
    BY <1>2, <2>1
  <2> QED
    BY <2>2 DEF x
<1> HIDE DEF wanted, back, up, down
<1>7. CASE at = 1
  <2>1. WindowRight(at, 1 .. wanted, adj, n)
    <3>1. 1 \in Int /\ wanted \in Int /\ 1 <= 1 /\ 1 <= at /\ at <= wanted /\ wanted <= n /\ wanted - 1 < adj
      BY <1>4, <1>7
    <3>2. at > h /\ at + h <= n => wanted - 1 + 1 = adj
      BY <1>1, <1>4, <1>7
    <3> QED
      BY <3>1, <3>2, WindowOf
  <2> QED
    BY <1>3, <1>7, <2>1
<1>8. CASE at # 1 /\ at = n
  <2> DEFINE a == n - wanted + 1
  <2>1. a \in Int /\ n \in Int /\ 1 <= a /\ a <= at /\ at <= n /\ n <= n /\ n - a < adj
    BY <1>4, <1>8
  <2>2. at > h /\ at + h <= n => n - a + 1 = adj
    BY <1>1, <1>4, <1>8
  <2> HIDE DEF a
  <2>3. WindowRight(at, a .. n, adj, n)
    BY <2>1, <2>2, WindowOf
  <2> QED
    BY <1>3, <1>8, <2>3 DEF a
<1>9. CASE at # 1 /\ at # n
  <2>1. /\ first \in Int /\ last \in Int /\ 1 <= first /\ first <= at /\ at <= last /\ last <= n
        /\ last - first < adj
    BY <1>1, <1>5, <1>6, <1>9
  <2>2. at > h /\ at + h <= n => last - first + 1 = adj
    BY <1>1, <1>5, <1>6, <1>9
  <2> HIDE DEF first, last
  <2>3. WindowRight(at, first .. last, adj, n)
    BY <2>1, <2>2, WindowOf
  <2> QED
    BY <1>3, <1>9, <2>3
<1> QED
  BY <1>7, <1>8, <1>9

-----------------------------------------------------------------------------
(* Helm: as many lines are left as there are lines that are no markers.      *)

MarkersOf(lines, m) == {i \in DOMAIN lines : i <= m /\ Line!IsMarker(lines[i])}
Slices(lines) ==
  {s \in [array : [DOMAIN lines -> Texts], n : Int, removed : Seq(Int), panic : BOOLEAN] : s.n <= Len(lines)}
(* After i turns of the loop, with k markers out, the lines behind are k further up. *)
Cleared(lines, i, s) ==
  LET k == Len(s.removed)
  IN  /\ s.n = Len(lines) - k
      /\ \A j \in i + 1 .. s.n : s.array[j] = lines[j + k]
      /\ k = Cardinality(MarkersOf(lines, i + k))

(* One line further there is one marker more, or none. *)
LEMMA OneMore ==
  ASSUME NEW lines, NEW N \in Nat, DOMAIN lines = 1 .. N, NEW m \in Int
  PROVE  /\ IsFiniteSet(MarkersOf(lines, m)) /\ Cardinality(MarkersOf(lines, m)) \in Nat
         /\ (m + 1 \in 1 .. N /\ Line!IsMarker(lines[m + 1])) =>
              Cardinality(MarkersOf(lines, m + 1)) = Cardinality(MarkersOf(lines, m)) + 1
         /\ ~(m + 1 \in 1 .. N /\ Line!IsMarker(lines[m + 1])) => MarkersOf(lines, m + 1) = MarkersOf(lines, m)
<1> DEFINE M == MarkersOf(lines, m)
           O == MarkersOf(lines, m + 1)
<1>1. IsFiniteSet(M)
  <2>1. IsFiniteSet(1 .. N)
    BY FS_Interval
  <2>2. M \subseteq 1 .. N
    BY DEF MarkersOf
  <2> HIDE DEF M
  <2> QED
    BY <2>1, <2>2, FS_Subset
<1>2. Cardinality(M) \in Nat
  <2> HIDE DEF M
  <2> QED
    BY <1>1, FS_CardinalityType
<1>3. ASSUME m + 1 \in 1 .. N, Line!IsMarker(lines[m + 1]) PROVE Cardinality(O) = Cardinality(M) + 1
  <2>1. O = M \union {m + 1} /\ m + 1 \notin M
    BY <1>3 DEF MarkersOf
  <2> HIDE DEF M, O
  <2> QED
    BY <1>1, <2>1, FS_AddElement
<1>4. ASSUME ~(m + 1 \in 1 .. N /\ Line!IsMarker(lines[m + 1])) PROVE O = M
  BY <1>4 DEF MarkersOf
<1> QED
  BY <1>1, <1>2, <1>3, <1>4

(* A turn of the loop leaves a slice of the same array. *)
LEMMA SliceKept ==
  ASSUME NEW lines \in Seq(Texts), NEW s \in Slices(lines), NEW i \in 1 .. Len(lines)
  PROVE  Line!DeleteAt(s, i) \in Slices(lines)
<1> DEFINE N == Len(lines)
           moved == [k \in DOMAIN s.array |-> IF k \in i .. s.n - 1 THEN s.array[k + 1] ELSE s.array[k]]
<1>1. /\ N \in Nat /\ DOMAIN lines = 1 .. N /\ s.array \in [1 .. N -> Texts] /\ s.n \in Int /\ s.n <= N
      /\ s.removed \in Seq(Int) /\ i \in 1 .. N
  BY DEF Slices
<1>2. moved \in [1 .. N -> Texts]
  <2>1. \A k \in i .. s.n - 1 : k + 1 \in 1 .. N
    BY <1>1
  <2> QED
    BY <1>1, <2>1
<1>3. Append(s.removed, i) \in Seq(Int)
  BY <1>1
<1>4. [s EXCEPT !.panic = TRUE] \in Slices(lines)
  BY DEF Slices
<1> HIDE DEF N, moved
<1>5. [array |-> moved, n |-> s.n - 1, removed |-> Append(s.removed, i), panic |-> FALSE] \in Slices(lines)
  BY <1>1, <1>2, <1>3 DEF Slices, N
<1> QED
  BY <1>4, <1>5 DEF Line!DeleteAt, moved

(* A turn of the loop keeps what is behind it in place.  Where markers stand apart
   the line that moves up to the place of a marker, and is passed over, is none. *)
LEMMA OneTurn ==
  ASSUME NEW lines \in Seq(Texts), NEW s \in Slices(lines), NEW i \in 1 .. Len(lines),
         \A j \in DOMAIN lines : Line!IsMarker(lines[j]) /\ j + 1 \in DOMAIN lines => ~Line!IsMarker(lines[j + 1]),
         ~s.panic, Cleared(lines, i - 1, s), ~Line!DeleteAt(s, i).panic
  PROVE  Cleared(lines, i, Line!DeleteAt(s, i))
<1> DEFINE N == Len(lines)
           k == Len(s.removed)
           t == Line!DeleteAt(s, i)
           M(m) == MarkersOf(lines, m)
<1>1. N \in Nat /\ DOMAIN lines = 1 .. N /\ i \in 1 .. N
  OBVIOUS
<1>2. /\ k \in Nat /\ s.n = N - k /\ s.array \in [1 .. N -> Texts] /\ s.removed \in Seq(Int)
      /\ \A j \in i .. s.n : s.array[j] = lines[j + k]
      /\ k = Cardinality(M(i - 1 + k))
  <2>1. i - 1 + 1 = i
    BY <1>1
  <2> QED
    BY <1>1, <2>1 DEF Cleared, Slices
<1>3. i - 1 + k \in Int /\ i - 1 + k + 1 = i + k /\ i + k \in Int /\ i + k + 1 \in Int
  BY <1>1, <1>2
<1>4. CASE ~Line!IsMarker(s.array[i])
  <2>1. t = s
    BY <1>4 DEF Line!DeleteAt
  <2>2. ~(i + k \in 1 .. N /\ Line!IsMarker(lines[i + k]))
    <3>1. i + k \in 1 .. N => i \in i .. s.n
      BY <1>1, <1>2
    <3>2. i + k \in 1 .. N => s.array[i] = lines[i + k]
      BY <1>2, <3>1
    <3> QED
      BY <1>4, <3>2
  <2>3. M(i + k) = M(i - 1 + k)
    BY <1>1, <1>3, <2>2, OneMore
  <2>4. \A j \in i + 1 .. s.n : s.array[j] = lines[j + k]
    <3>1. TAKE j \in i + 1 .. s.n
    <3>2. j \in i .. s.n
      BY <1>1, <1>2
    <3> QED
      BY <1>2, <3>2
  <2> HIDE DEF t, M
  <2>5. k = Cardinality(M(i + k)) /\ s.n = N - k
    BY <1>2, <2>3
  <2> QED
    BY <2>1, <2>4, <2>5 DEF Cleared, t, M
<1>5. CASE Line!IsMarker(s.array[i])
  <2> DEFINE moved == [j \in DOMAIN s.array |-> IF j \in i .. s.n - 1 THEN s.array[j + 1] ELSE s.array[j]]
             left == [array |-> moved, n |-> s.n - 1, removed |-> Append(s.removed, i), panic |-> FALSE]
  <2>1. i <= s.n
    <3>1. i > s.n => t = [s EXCEPT !.panic = TRUE]
      BY <1>5 DEF Line!DeleteAt
    <3>2. [s EXCEPT !.panic = TRUE].panic
      BY DEF Slices
    <3>3. ~(i > s.n)
      BY <3>1, <3>2
    <3>4. i \in Int /\ s.n \in Int
      BY <1>1, <1>2
    <3> HIDE DEF t
    <3> QED
      BY <3>3, <3>4
  <2>2. t = left
    BY <1>1, <1>2, <1>5, <2>1 DEF Line!DeleteAt
  <2>3. i + k \in 1 .. N /\ i \in i .. s.n
    BY <1>1, <1>2, <2>1
  <2>4. lines[i + k] = s.array[i]
    BY <1>2, <2>3
  <2>5. Line!IsMarker(lines[i + k])
    BY <1>5, <2>4
  <2>6. Cardinality(M(i + k)) = k + 1
    BY <1>1, <1>2, <1>3, <2>3, <2>5, OneMore
  <2>7. ~(i + k + 1 \in 1 .. N /\ Line!IsMarker(lines[i + k + 1]))
    BY <1>1, <2>3, <2>5
  <2>8. M(i + k + 1) = M(i + k)
    BY <1>1, <1>3, <2>7, OneMore
  <2>9. Len(Append(s.removed, i)) = k + 1
    BY <1>2
  <2>10. \A j \in i + 1 .. s.n - 1 : moved[j] = lines[j + (k + 1)]
    <3>1. TAKE j \in i + 1 .. s.n - 1
    <3>2. j \in i .. s.n - 1 /\ j + 1 \in i .. s.n /\ j \in 1 .. N /\ j + 1 + k = j + (k + 1)
      BY <1>1, <1>2
    <3>3. moved[j] = s.array[j + 1]
      BY <1>2, <3>2
    <3>4. s.array[j + 1] = lines[j + 1 + k]
      BY <1>2, <3>2
    <3> QED
      BY <3>2, <3>3, <3>4
  <2>11. i + (k + 1) = i + k + 1 /\ s.n - 1 = N - (k + 1)
    BY <1>1, <1>2
  <2>12. /\ left.array = moved /\ left.n = s.n - 1 /\ left.removed = Append(s.removed, i)
    OBVIOUS
  <2> HIDE DEF left, moved, t, M
  <2>13. Len(left.removed) = k + 1 /\ left.n = N - (k + 1)
    BY <2>9, <2>11, <2>12
  <2>14. k + 1 = Cardinality(M(i + (k + 1)))
    BY <2>6, <2>8, <2>11
  <2>15. \A j \in i + 1 .. left.n : left.array[j] = lines[j + (k + 1)]
    BY <2>10, <2>12
  <2> DEFINE q == k + 1
  <2>16. Len(left.removed) = q /\ left.n = N - q /\ q = Cardinality(M(i + q))
         /\ \A j \in i + 1 .. left.n : left.array[j] = lines[j + q]
    BY <2>13, <2>14, <2>15
  <2> HIDE DEF q
  <2>17. Cleared(lines, i, left)
    BY <2>16 DEF Cleared, M
  <2> QED
    BY <2>2, <2>17 DEF t
<1> QED
  BY <1>4, <1>5

(* Of a template with no empty manifest, that the loop gets through, as many lines *)
(* are left as a reader sees.                                                     *)
LEMMA MarkersRemoved ==
  ASSUME NEW lines \in Seq(Texts),
         \A j \in DOMAIN lines : Line!IsMarker(lines[j]) /\ j + 1 \in DOMAIN lines => ~Line!IsMarker(lines[j + 1]),
         ~Line!RemoveMarkers(lines).panic
  PROVE  Line!RemoveMarkers(lines).n = Len(lines) - Cardinality({i \in DOMAIN lines : Line!IsMarker(lines[i])})
<1> DEFINE N == Len(lines)
           P == Slices(lines)
           base == [array |-> lines, n |-> N, removed |-> <<>>, panic |-> FALSE]
           Step(s, i) == Line!DeleteAt(s, i)
           Loop(r) == r = [i \in 0 .. N |-> IF i = 0 THEN base ELSE Step(r[i - 1], i)]
           met == CHOOSE r : Loop(r)
           step == [p \in (1 .. N) \X P |-> Step(p[2], p[1])]
<1>1. N \in Nat /\ DOMAIN lines = 1 .. N
  OBVIOUS
<1>2. base \in P
  BY <1>1 DEF Slices
<1>3. \A i \in 1 .. N, s \in P : Step(s, i) \in P
  BY SliceKept
<1>4. \A i \in 1 .. N, s \in P : step[<<i, s>>] = Step(s, i)
  OBVIOUS
<1>5. Line!RemoveMarkers(lines) = met[N]
  BY Zenon DEF Line!RemoveMarkers
<1>6. Cleared(lines, 0, base)
  <2>1. base.n = N /\ base.array = lines /\ base.removed = <<>> /\ Len(<<>>) = 0
    OBVIOUS
  <2>2. MarkersOf(lines, 0) = {}
    BY <1>1 DEF MarkersOf
  <2>3. Cardinality(MarkersOf(lines, 0)) = 0
    BY <2>2, FS_EmptySet
  <2> HIDE DEF base
  <2>4. \A j \in 0 + 1 .. N : base.array[j] = lines[j + 0]
    BY <1>1, <2>1
  <2> QED
    BY <1>1, <2>1, <2>3, <2>4 DEF Cleared
<1>6a. ~base.panic
  OBVIOUS
<1>6b. \A s \in P, i \in 1 .. N : s.panic => Step(s, i).panic
  BY DEF Line!DeleteAt
<1> DEFINE Clear(s, i) == ~s.panic => Cleared(lines, i, s)
<1>6c. \A s \in P, i \in 1 .. N : Clear(s, i - 1) => Clear(Step(s, i), i)
  BY <1>6b, OneTurn
<1>6d. Clear(base, 0)
  BY <1>6
<1> HIDE DEF Step, step, base, P, Clear
<1>7. \A i \in 1 .. N, s \in P : step[<<i, s>>] \in P
  BY <1>3, <1>4
<1>8. PICK g : Iterates(g, N, base, step) /\ \A i \in 0 .. N : g[i] \in P
  BY <1>1, <1>2, <1>7, LoopExists
<1>9. Loop(g)
  <2>1. \A i \in 0 .. N : i # 0 => g[i - 1] \in P /\ i \in 1 .. N
    BY <1>1, <1>8
  <2>2. \A i \in 0 .. N : (IF i = 0 THEN base ELSE step[<<i, g[i - 1]>>])
                          = (IF i = 0 THEN base ELSE Step(g[i - 1], i))
    BY <1>4, <2>1
  <2> QED
    BY <1>8, <2>2 DEF Iterates
<1>10. Loop(met)
  BY <1>9
<1>11. \A i \in 0 .. N : met[i] = IF i = 0 THEN base ELSE Step(met[i - 1], i)
  BY <1>10
<1> HIDE DEF met
<1> DEFINE A == {i \in 0 .. N : met[i] \in P /\ Clear(met[i], i)}
<1>12. 0 \in A
  BY <1>1, <1>2, <1>6d, <1>11
<1>13. \A i \in 1 .. N : i - 1 \in A => i \in A
  <2>1. TAKE i \in 1 .. N
  <2>2. HAVE i - 1 \in A
  <2>3. met[i] = Step(met[i - 1], i) /\ i \in 0 .. N
    BY <1>1, <1>11
  <2> QED
    BY <1>3, <1>6c, <2>2, <2>3
<1> HIDE DEF A
<1>14. N \in A
  <2>1. \A i \in 0 .. N : i \in A
    BY <1>1, <1>12, <1>13, UpTo
  <2> QED
    BY <1>1, <2>1
<1> DEFINE s == met[N]
           k == Len(s.removed)
<1>15. s \in Slices(lines) /\ Cleared(lines, N, s)
  BY <1>5, <1>14 DEF A, P, Clear
<1> HIDE DEF s
<1>16. k \in Nat /\ s.n = N - k /\ k = Cardinality(MarkersOf(lines, N + k))
  BY <1>15 DEF Slices, Cleared
<1>17. MarkersOf(lines, N + k) = {i \in DOMAIN lines : Line!IsMarker(lines[i])}
  <2>1. \A i \in DOMAIN lines : i <= N + k
    BY <1>1, <1>16
  <2> QED
    BY <2>1 DEF MarkersOf
<1> QED
  BY <1>5, <1>16, <1>17 DEF s

-----------------------------------------------------------------------------
(* The line and the window that are reported, for each kind of file.         *)

Reported(search, found) ==
  found.line # -1 /\ NoneEmpty(search.file) =>
    WindowRight(found.line, found.shown, search.outputLines, Seen(search.file))

(* What is searched for, and where, are texts. *)
LEMMA TextOfStrings ==
  ASSUME NEW search \in Searches
  PROVE  /\ search.key \in Texts /\ search.file.lines \in Seq(Texts)
         /\ search.outputLines \in Nat \ {0}
<1>1. search.key \in Seq(STRING) /\ search.file.lines \in Seq(Seq(STRING))
  BY SearchesTyped
<1>2. STRING \subseteq Characters
  BY DEF Characters
<1>3. Seq(STRING) \subseteq Seq(Characters)
  BY <1>2, WiderSeq
<1>4. search.key \in Seq(Characters) /\ search.file.lines \in Seq(Seq(Characters))
  BY <1>1, <1>3, WiderSeq
<1> QED
  BY <1>4, SearchesTyped DEF Texts

(* All lines are seen but for the markers of Helm. *)
LEMMA NothingHidden ==
  ASSUME NEW search \in Searches, search.file.kind # "HELM"
  PROVE  Seen(search.file) = Len(search.file.lines)
<1>1. Hidden(search.file) = {}
  BY DEF Hidden
<1>2. Cardinality(Hidden(search.file)) = 0
  BY <1>1, FS_EmptySet
<1>3. Len(search.file.lines) \in Nat
  BY TextOfStrings
<1> QED
  BY <1>2, <1>3 DEF Seen

(* The default detector reports a line with its window. *)
LEMMA ByDefault ==
  ASSUME NEW search \in Searches, search.file.kind # "HELM", NEW bicep
  PROVE  Reported(search, Line!DetectLine(search.key, search.file.lines, search.outputLines, bicep))
<1> DEFINE lines == search.file.lines
           n == Len(lines)
           d == Line!DetectParts(Line!Parts(search.key), lines, bicep)
           found == Line!DetectLine(search.key, lines, search.outputLines, bicep)
<1>1. search.key \in Texts /\ lines \in Seq(Texts) /\ search.outputLines \in Nat \ {0} /\ n \in Nat
  BY TextOfStrings
<1>2. d \in Positions(n)
  BY <1>1, PartsText, PartsFound
<1>3. found = Line!ShowLine(d, search.outputLines, n)
  BY DEF Line!DetectLine
<1>4. Seen(search.file) = n
  BY NothingHidden
<1> HIDE DEF d, found, n
<1>5. ASSUME found.line # -1
      PROVE  d.found /\ found.line = d.at /\ found.shown = Line!AdjacentVulnLines(d.at, search.outputLines, n)
  BY <1>3, <1>5 DEF Line!ShowLine, Line!Undetected
<1>6. ASSUME found.line # -1
      PROVE  WindowRight(found.line, found.shown, search.outputLines, n)
  <2>1. d.at \in 1 .. n
    BY <1>2, <1>5, <1>6 DEF Positions
  <2> QED
    BY <1>1, <1>5, <1>6, <2>1, Window
<1> QED
  BY <1>4, <1>6 DEF Reported, found

(* So does the Terraform detector, whose line of insertion is in the file or none is found. *)
LEMMA InTerraform ==
  ASSUME NEW search \in Searches, search.file.kind # "HELM", NEW blocks
  PROVE  Reported(search, Line!Locate(search.key, search.file.lines, search.outputLines, blocks))
<1> DEFINE lines == search.file.lines
           n == Len(lines)
           d == Line!DetectParts(Line!KeyParts(search.key), lines, FALSE)
           found == Line!Locate(search.key, lines, search.outputLines, blocks)
<1>1. search.key \in Texts /\ lines \in Seq(Texts) /\ search.outputLines \in Nat \ {0} /\ n \in Nat
  BY TextOfStrings
<1>2. d \in Positions(n)
  BY <1>1, KeyPartsText, PartsFound
<1>3. Seen(search.file) = n
  BY NothingHidden
<1>4. found = Line!LocateBlock(d, lines, search.outputLines, blocks)
  BY DEF Line!Locate
<1>5. Line!NothingFound.line = -1 /\ [Line!NothingFound EXCEPT !.panic = TRUE].line = -1
  BY DEF Line!NothingFound, Line!Undetected
<1> HIDE DEF d, found
<1>6. \A block, place :
        LET p == Line!PlaceIn(block, d.at, place, lines, search.outputLines)
        IN  p.line # -1 => p.line = d.at /\ p.shown = Line!AdjacentVulnLines(d.at, search.outputLines, n)
  BY <1>5 DEF Line!PlaceIn
<1>7. ASSUME found.line # -1
      PROVE  d.found /\ found.line = d.at /\ found.shown = Line!AdjacentVulnLines(d.at, search.outputLines, n)
  <2> DEFINE within == SelectSeq(blocks, LAMBDA b : d.at \in b.from .. b.to)
             block == within[1]
             place == Line!InsertionLine(block, d.at, lines)
             p == Line!PlaceIn(block, d.at, place, lines, search.outputLines)
  <2>1. found = IF ~d.found \/ within = <<>> THEN Line!NothingFound ELSE p
    BY Zenon, <1>4 DEF Line!LocateBlock
  <2> HIDE DEF within, place, block
  <2>2. d.found /\ found = p
    BY <1>5, <1>7, <2>1
  <2> QED
    BY <1>6, <1>7, <2>2
<1> HIDE DEF n
<1>8. ASSUME found.line # -1
      PROVE  WindowRight(found.line, found.shown, search.outputLines, n)
  <2>1. d.at \in 1 .. n
    BY <1>2, <1>7, <1>8 DEF Positions
  <2> QED
    BY <1>1, <1>7, <1>8, <2>1, Window
<1> QED
  BY <1>3, <1>8 DEF Reported, found

(* So does the Helm detector, in the file without its markers. *)
LEMMA InHelm ==
  ASSUME NEW search \in Searches, search.file.kind = "HELM", NEW id, NEW own
  PROVE  Reported(search, Line!DetectHelm(search.key, search.file.lines, search.outputLines, id, own))
<1> DEFINE lines == search.file.lines
           left == Line!RemoveMarkers(lines)
           found == Line!DetectHelm(search.key, lines, search.outputLines, id, own)
           n == Seen(search.file)
<1>1. lines \in Seq(Texts) /\ search.outputLines \in Nat \ {0} /\ Len(lines) \in Nat
  BY TextOfStrings
<1>2. PICK d : found = Line!Cleaned(d, left, search.outputLines)
  BY Zenon DEF Line!DetectHelm
<1> HIDE DEF found
<1>3. Line!NotFound.line = -1 /\ [Line!NotFound EXCEPT !.panic = TRUE].line = -1
  BY DEF Line!NotFound, Line!Undetected
<1>4. ASSUME found.line # -1
      PROVE  /\ ~left.panic /\ found.line \in 1 .. left.n
             /\ found.shown = Line!AdjacentVulnLines(found.line, search.outputLines, left.n)
  <2> DEFINE at == Line!RemoveLines(IF d.unique THEN d.at ELSE d.lastUnique, left.removed)
  <2>1. found = IF ~d.found THEN Line!NotFound
                ELSE IF left.panic THEN [Line!NotFound EXCEPT !.panic = TRUE]
                ELSE Line!ShowAt(at, left.n, search.outputLines)
    BY Zenon, <1>2 DEF Line!Cleaned
  <2> HIDE DEF at, left
  <2>2. ~left.panic /\ found = Line!ShowAt(at, left.n, search.outputLines)
    BY <1>3, <1>4, <2>1
  <2>3. at \in 1 .. left.n
    BY <1>3, <1>4, <2>2 DEF Line!ShowAt
  <2>4. found = [line |-> at, shown |-> Line!AdjacentVulnLines(at, search.outputLines, left.n), panic |-> FALSE]
    BY <2>2, <2>3 DEF Line!ShowAt
  <2> QED
    BY <2>2, <2>3, <2>4
<1>5. ASSUME found.line # -1, NoneEmpty(search.file)
      PROVE  left.n = n /\ n \in Int
  <2> DEFINE H == {i \in DOMAIN lines : Line!IsMarker(lines[i])}
  <2>1. Hidden(search.file) = H
    BY DEF Hidden
  <2>2. \A j \in DOMAIN lines : Line!IsMarker(lines[j]) /\ j + 1 \in DOMAIN lines => ~Line!IsMarker(lines[j + 1])
    BY <1>5, <2>1 DEF NoneEmpty
  <2>3. left.n = Len(lines) - Cardinality(H)
    BY <1>1, <1>4, <1>5, <2>2, MarkersRemoved
  <2>4. Cardinality(H) \in Nat
    <3>1. DOMAIN lines = 1 .. Len(lines) /\ H \subseteq DOMAIN lines
      BY <1>1
    <3>2. IsFiniteSet(DOMAIN lines)
      BY <1>1, <3>1, FS_Interval
    <3> HIDE DEF H
    <3>3. IsFiniteSet(H)
      BY <3>1, <3>2, FS_Subset
    <3> QED
      BY <3>3, FS_CardinalityType
  <2> HIDE DEF H, left
  <2> QED
    BY <1>1, <2>1, <2>3, <2>4 DEF Seen
<1> HIDE DEF left, n
<1>6. ASSUME found.line # -1, NoneEmpty(search.file)
      PROVE  WindowRight(found.line, found.shown, search.outputLines, n)
  <2>1. found.line \in 1 .. n /\ n \in Nat
    BY <1>4, <1>5, <1>6
  <2>2. found.shown = Line!AdjacentVulnLines(found.line, search.outputLines, n)
    BY <1>4, <1>5, <1>6
  <2> QED
    BY <1>1, <2>1, <2>2, Window
<1> QED
  BY <1>6 DEF Reported, found, n

(* So does DetectLine, by the kind of the file. *)
LEMMA ReportedRight ==
  ASSUME NEW search \in Searches
  PROVE  Reported(search, Line!Detected(search.key, search.file, search.outputLines))
<1>1. CASE search.file.kind = "TERRAFORM"
  <2>1. search.file.kind # "HELM"
    BY <1>1
  <2> QED
    BY <1>1, <2>1, InTerraform DEF Line!Detected
<1>2. CASE search.file.kind = "HELM"
  BY <1>2, InHelm DEF Line!Detected
<1>3. CASE search.file.kind \notin {"TERRAFORM", "HELM"}
  BY <1>3, ByDefault DEF Line!Detected
<1> QED
  BY <1>1, <1>2, <1>3

-----------------------------------------------------------------------------
(* The output is what DetectLine returns for the input. *)
Answered ==
  /\ call = "detect" /\ input \in Searches
  /\ returned => output = Line!Detected(input.key, input.file, input.outputLines)

(* A call that has returned has returned that line. *)
LEMMA AlwaysAnswered == DetectionSpec => []Answered
<1>1. DetectionInit => Answered
  BY DEF DetectionInit, Called, Answered
<1>2. Answered /\ [DetectLine]_vars => Answered'
  <2>1. SUFFICES ASSUME Answered, [DetectLine]_vars PROVE Answered'
    OBVIOUS
  <2>2. CASE DetectLine
    BY <2>1, <2>2 DEF DetectLine, Return, Answered
  <2>3. CASE UNCHANGED vars
    BY <2>1, <2>3 DEF vars, Answered
  <2> QED
    BY <2>1, <2>2, <2>3
<1> QED
  BY <1>1, <1>2, PTL DEF DetectionSpec

(* Whatever the kind of the file, its lines and the key, a line that is found is one *)
(* of those shown, and those shown are lines of the file, without a gap, as many as  *)
(* asked for where the file has them (DetectLine, GetAdjacentVulnLines).             *)
THEOREM LineIsShown == DetectionSpec => []FoundLineShown
<1>1. Answered => FoundLineShown
  <2>1. SUFFICES ASSUME Answered, LineDetected, output.line # -1, NoneEmpty(input.file)
                 PROVE  WindowRight(output.line, output.shown, input.outputLines, Seen(input.file))
    BY DEF FoundLineShown, WindowRight
  <2> DEFINE found == Line!Detected(input.key, input.file, input.outputLines)
  <2>2. input \in Searches /\ output = found
    BY <2>1 DEF Answered, LineDetected
  <2>3. Reported(input, found)
    BY <2>2, ReportedRight
  <2> HIDE DEF found
  <2> QED
    BY <2>1, <2>2, <2>3 DEF Reported
<1> QED
  BY <1>1, AlwaysAnswered, PTL
=============================================================================
