---------------------------- MODULE LineLogProofs ----------------------------
(***************************************************************************)
(* Facts about the line-oriented files, for the proofs about the services  *)
(* that keep them.                                                         *)
(***************************************************************************)
EXTENDS LineLog, FiniteSetTheorems, TLAPS

\* A set of natural numbers has a least element.
LEMMA LeastNatural ==
  ASSUME NEW T \in SUBSET Nat, T # {}
  PROVE  \E x \in T : \A y \in T : x <= y
<1> DEFINE R == OpToRel(<, Nat)
<1>1. \E x \in T : \A y \in T : ~(<<y, x>> \in R)
  BY Zenon, NatLessThanWellFounded, WFMin
<1>2. \A x, y \in Nat : y < x => <<y, x>> \in R
  BY Zenon DEF OpToRel
<1> HIDE DEF R
<1>3. \E x \in T : \A y \in T : ~(y < x)
  BY Zenon, <1>1, <1>2
<1> QED
  BY <1>3

\* A page's counter is a number.
LEMMA LineStartsFinite ==
  ASSUME NEW f \in File, NEW S \in SUBSET LineStarts(f)
  PROVE  Cardinality(S) \in Nat
<1>1. Len(f) \in Nat
  BY DEF File
<1>2. IsFiniteSet(1..Len(f))
  BY <1>1, FS_Interval
<1>3. S \subseteq 1..Len(f)
  BY DEF LineStarts
<1> QED
  BY Zenon, <1>2, <1>3, FS_Subset, FS_CardinalityType

\* A write at the end of the log adds what it writes and drops nothing.
LEMMA WrittenAppend ==
  ASSUME NEW f \in File, NEW x \in Body \cup {NL}
  PROVE  Written(Append(f, x)) = Written(f) \cup ({x} \ {NL})
<1> DEFINE g == Append(f, x)
<1>1. /\ Len(f) \in Nat /\ Len(g) = Len(f) + 1 /\ g[Len(g)] = x
      /\ \A i \in 1..Len(f) : g[i] = f[i]
  BY DEF File
<1>2. 1..Len(g) = 1..Len(f) \cup {Len(g)}
  BY <1>1
<1> HIDE DEF g
<1> QED
  BY <1>1, <1>2 DEF Written, g

\* What a write at the end of the file does to its lines.
LEMMA LinesAppend ==
  ASSUME NEW f \in File, NEW x \in Body \cup {NL}, NEW g, g = Append(f, x)
  PROVE  /\ g \in File /\ Len(f) \in Nat /\ Len(g) = Len(f) + 1 /\ g[Len(f) + 1] = x
         /\ \A i \in 1..Len(f) : g[i] = f[i]
         /\ LineStarts(f) \subseteq 1..Len(f)
         /\ LineStarts(g) = LineStarts(f) \cup
              (IF x # NL /\ ~Unterminated(f) THEN {Len(f) + 1} ELSE {})
         /\ Glued(g) <=> Glued(f) \/ (x # NL /\ Unterminated(f))
         /\ Unterminated(g) <=> x # NL
<1>1. /\ Len(f) \in Nat /\ g \in File /\ Len(g) = Len(f) + 1 /\ g[Len(f) + 1] = x
      /\ \A i \in 1..Len(f) : g[i] = f[i]
  BY DEF File
<1>2. 1..Len(g) = 1..Len(f) \cup {Len(f) + 1}
  BY <1>1
<1>3. LineStarts(f) \subseteq 1..Len(f)
  BY DEF LineStarts
<1>4. \A i \in 1..Len(f) : i \in LineStarts(g) <=> i \in LineStarts(f)
  BY <1>1 DEF LineStarts
<1>5. Len(f) + 1 \in LineStarts(g) <=> x # NL /\ ~Unterminated(f)
  BY <1>1 DEF LineStarts, Unterminated
<1>6. LineStarts(g) = LineStarts(f) \cup
        (IF x # NL /\ ~Unterminated(f) THEN {Len(f) + 1} ELSE {})
  <2>1. LineStarts(g) \subseteq 1..Len(f) \cup {Len(f) + 1}
    BY <1>2 DEF LineStarts
  <2> QED
    BY <1>3, <1>4, <1>5, <2>1
<1>7. Glued(g) <=> Glued(f) \/ (x # NL /\ Unterminated(f))
  BY <1>1 DEF Glued, Unterminated
<1>8. Unterminated(g) <=> x # NL
  BY <1>1 DEF Unterminated
<1> QED
  BY <1>1, <1>3, <1>6, <1>7, <1>8

\* The bodies of two files are those of the one written after the other.
LEMMA WrittenConcat ==
  ASSUME NEW f \in File, NEW g \in File
  PROVE  f \o g \in File /\ Written(f \o g) = Written(f) \cup Written(g)
<1> DEFINE h == f \o g
<1>1. /\ Len(f) \in Nat /\ Len(g) \in Nat /\ Len(h) = Len(f) + Len(g) /\ h \in File
      /\ \A i \in 1..Len(f) : h[i] = f[i]
      /\ \A i \in 1..Len(h) : i > Len(f) => h[i] = g[i - Len(f)]
  BY DEF File
<1> HIDE DEF h
<1>2. Written(h) \subseteq Written(f) \cup Written(g)
  BY <1>1 DEF Written
<1>3. Written(f) \subseteq Written(h)
  BY <1>1 DEF Written
<1>4. Written(g) \subseteq Written(h)
  <2>1. \A i \in 1..Len(g) : i + Len(f) \in 1..Len(h) /\ h[i + Len(f)] = g[i]
    BY <1>1
  <2> QED
    BY <2>1 DEF Written
<1> QED
  BY <1>1, <1>2, <1>3, <1>4 DEF h

\* A line runs from its start to the next NL or to the end of the file; it begins
\* with the body there, and is that body alone where no line is glued.
LEMMA LineAtProperties ==
  ASSUME NEW f \in File, NEW i \in LineStarts(f)
  PROVE  /\ LineAt(f, i) \in Seq(Body) /\ Len(LineAt(f, i)) \in Nat \ {0}
         /\ LineAt(f, i)[1] = f[i]
         /\ \A j \in 1..Len(LineAt(f, i)) : LineAt(f, i)[j] \in Written(f)
         /\ i + Len(LineAt(f, i)) <= Len(f) + 1
         /\ ~Glued(f) => Len(LineAt(f, i)) = 1
<1>1. Len(f) \in Nat /\ i \in 1..Len(f) /\ f[i] # NL /\ \A j \in 1..Len(f) : f[j] \in Body \cup {NL}
  BY DEF File, LineStarts
<1> DEFINE Ends(k) == /\ \A j \in i..k : f[j] # NL
                      /\ k = Len(f) \/ f[k + 1] = NL
<1>2. \E k \in i..Len(f) : Ends(k)
  <2> DEFINE T == {k \in i..Len(f) : k = Len(f) \/ f[k + 1] = NL}
  <2>1. T \in SUBSET Nat /\ T # {}
    BY <1>1
  <2>2. PICK k \in T : \A y \in T : k <= y
    BY ZenonT(30), <2>1, LeastNatural
  <2>3. ASSUME NEW j \in i..k PROVE f[j] # NL
    <3>1. CASE j = i
      BY <1>1, <3>1
    <3>2. CASE j # i
      <4>1. j - 1 \in i..Len(f) /\ j - 1 < k /\ (j - 1) + 1 = j
        BY <1>1, <2>3, <3>2
      <4>2. j - 1 \notin T
        BY <2>1, <2>2, <4>1
      <4> QED
        BY <4>1, <4>2
    <3> QED
      BY <3>1, <3>2
  <2> QED
    BY <2>2, <2>3
<1> DEFINE last == CHOOSE k \in i..Len(f) : Ends(k)
<1>3. last \in i..Len(f) /\ Ends(last)
  BY <1>2
<1>4. LineAt(f, i) = SubSeq(f, i, last)
  BY DEF LineAt
<1> HIDE DEF last
<1>5. PICK l \in Nat : l = last /\ l >= i /\ l <= Len(f) /\ Ends(l)
  BY <1>1, <1>3
<1> DEFINE s == LineAt(f, i)
<1>6. \A j \in i..l : f[j] \in Body
  BY <1>1, <1>5
<1>7. s \in Seq(Body) /\ Len(s) = l - i + 1 /\ \A j \in 1..(l - i + 1) : s[j] = f[i + j - 1]
  BY <1>1, <1>4, <1>5, <1>6 DEF File
<1> HIDE DEF s
<1>8. s[1] = f[i] /\ Len(s) \in Nat \ {0} /\ i + Len(s) <= Len(f) + 1
  BY <1>1, <1>5, <1>7
<1>9. \A j \in 1..Len(s) : s[j] \in Written(f)
  <2> SUFFICES ASSUME NEW j \in 1..Len(s) PROVE s[j] \in Written(f)
    OBVIOUS
  <2>1. s[j] = f[i + j - 1]
    BY <1>1, <1>5, <1>7
  <2>2. i + j - 1 \in i..l /\ i + j - 1 \in 1..Len(f)
    BY <1>1, <1>5, <1>7
  <2>3. f[i + j - 1] # NL
    BY <1>5, <2>2
  <2> QED
    BY <2>1, <2>2, <2>3 DEF Written
<1>10. ASSUME ~Glued(f) PROVE Len(s) = 1
  <2>1. CASE l = i
    BY <1>1, <1>7, <2>1
  <2>2. CASE l # i
    <3>1. i + 1 \in 1..Len(f) /\ i + 1 > 1 /\ (i + 1) - 1 = i /\ f[i + 1] # NL
      BY <1>1, <1>5, <2>2
    <3> QED
      BY <1>1, <1>10, <3>1 DEF Glued
  <2> QED
    BY <2>1, <2>2
<1> QED
  BY <1>7, <1>8, <1>9, <1>10 DEF s
=============================================================================
