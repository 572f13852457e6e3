-------------------------- MODULE CommandLineProofs ---------------------------
(***************************************************************************)
(* Proofs about CommandLine, for lines of any length: cleanString is its   *)
(* reference, parse finds the words that a reader finds who takes the line *)
(* character by character, and a line is printed as it is.                 *)
(*                                                                         *)
(* The recursive functions of that module are known by their equations     *)
(* (Recursion), and what they compute by induction over a set of positions *)
(* (IntervalInduction, StaysIn).                                           *)
(***************************************************************************)
EXTENDS CommandLine, Integers, SequenceTheorems, WellFoundedInduction,
        TLAPS

-----------------------------------------------------------------------------
(* Induction and recursion, for sets and functions.  The theorems of the   *)
(* library on both are about operators, and cannot be used here; these are *)
(* about sets, and follow from WFMin.                                      *)

\* A set of numbers has a smallest one.
LEMMA Minimum ==
    ASSUME NEW T \in SUBSET Nat, T # {}
    PROVE  \E x \in T : \A y \in T : x <= y
  <1> DEFINE R == {p \in Nat \X Nat : p[1] < p[2]}
  <1>1. IsWellFoundedOn(R, Nat)
    BY NatLessThanWellFounded, Zenon DEF OpToRel
  <1>2. \A x, y \in Nat : x < y => <<x, y>> \in R
    OBVIOUS
  <1> HIDE DEF R
  <1>3. PICK x \in T : \A y \in T : ~(<<y, x>> \in R)
    BY <1>1, WFMin, Zenon
  <1>4. \A y \in T : ~(y < x)
    BY <1>2, <1>3
  <1> QED
    BY <1>4

LEMMA SetInduction ==
    ASSUME NEW S, 0 \in S, \A i \in Nat : i \in S => i + 1 \in S
    PROVE  Nat \subseteq S
  <1> DEFINE T == Nat \ S
  <1> SUFFICES ASSUME T # {} PROVE FALSE
    OBVIOUS
  <1>1. PICK x \in T : \A y \in T : x <= y
    BY Minimum
  <1>2. x # 0 /\ x - 1 \in Nat /\ x - 1 \notin T
    BY <1>1
  <1> QED
    BY <1>2

\* From a to b, one at a time.
LEMMA IntervalInduction ==
    ASSUME NEW a \in Nat, NEW b \in Nat, NEW S, a \in S,
           \A i \in a..b : i \in S /\ i < b => i + 1 \in S
    PROVE  a..b \subseteq S
  <1> DEFINE T == {i \in Nat : a + i \in a..b => a + i \in S}
  <1>1. 0 \in T
    OBVIOUS
  <1>2. \A i \in Nat : i \in T => i + 1 \in T
    OBVIOUS
  <1> HIDE DEF T
  <1>3. Nat \subseteq T
    BY <1>1, <1>2, SetInduction
  <1>4. ASSUME NEW i \in a..b PROVE i \in S
    <2>1. i - a \in Nat /\ a + (i - a) = i
      OBVIOUS
    <2>2. i - a \in T
      BY <1>3, <2>1
    <2> QED
      BY <2>1, <2>2 DEF T
  <1> QED
    BY <1>4

\* f[i] is Step[i] of the element before it, and f[0] is v.
Follows(f, n, V, v, Step) ==
    /\ f \in [0..n -> V]
    /\ f[0] = v
    /\ \A i \in 1..n : f[i] = Step[i][f[i - 1]]

\* Such a definition of f is one.
LEMMA Recursion ==
    ASSUME NEW n \in Nat, NEW V, NEW v \in V,
           NEW Step, Step \in [1..n -> [V -> V]]
    PROVE  \E f : Follows(f, n, V, v, Step)
  <1> DEFINE N == {k \in Nat : k <= n => \E f : Follows(f, k, V, v, Step)}
  <1>1. 0 \in N
    <2> DEFINE f == [i \in 0..0 |-> v]
    <2>1. Follows(f, 0, V, v, Step)
      BY DEF Follows
    <2> QED
      BY <2>1
  <1>2. ASSUME NEW k \in Nat, k \in N PROVE k + 1 \in N
    <2> SUFFICES ASSUME k + 1 <= n
                 PROVE  \E f : Follows(f, k + 1, V, v, Step)
      OBVIOUS
    <2>1. PICK f : Follows(f, k, V, v, Step)
      BY <1>2
    <2> DEFINE g == [i \in 0..(k + 1) |->
                        IF i = k + 1 THEN Step[k + 1][f[k]] ELSE f[i]]
    <2>2. f \in [0..k -> V] /\ f[k] \in V /\ Step[k + 1][f[k]] \in V
      BY <2>1 DEF Follows
    <2>3. g \in [0..(k + 1) -> V]
      BY <2>2
    <2>4. g[0] = v
      BY <2>1 DEF Follows
    <2>5. ASSUME NEW i \in 1..(k + 1) PROVE g[i] = Step[i][g[i - 1]]
      <3>1. g[i - 1] = f[i - 1]
        OBVIOUS
      <3>2. CASE i = k + 1
        BY <3>1, <3>2
      <3>3. CASE i # k + 1
        <4>1. i \in 1..k /\ g[i] = f[i]
          BY <3>3
        <4> HIDE DEF g
        <4> QED
          BY <2>1, <3>1, <4>1 DEF Follows
      <3> QED
        BY <3>2, <3>3
    <2> HIDE DEF g
    <2> QED
      BY <2>3, <2>4, <2>5 DEF Follows
  <1> HIDE DEF N
  <1>3. n \in N
    BY <1>1, <1>2, SetInduction
  <1> QED
    BY <1>3 DEF N

\* Values that stay in a set step by step.
LEMMA StaysIn ==
    ASSUME NEW n \in Nat, NEW V, NEW F, F[0] \in V,
           \A i \in 1..n : F[i - 1] \in V => F[i] \in V
    PROVE  \A i \in 0..n : F[i] \in V
  <1> DEFINE S == {i \in 0..n : F[i] \in V}
  <1>1. 0 \in S
    OBVIOUS
  <1>2. \A i \in 0..n : i \in S /\ i < n => i + 1 \in S
    <2> TAKE i \in 0..n
    <2> HAVE i \in S /\ i < n
    <2>1. i + 1 \in 1..n /\ i + 1 \in 0..n /\ (i + 1) - 1 = i
      OBVIOUS
    <2> QED
      BY <2>1
  <1> HIDE DEF S
  <1>3. 0..n \subseteq S
    BY <1>1, <1>2, IntervalInduction
  <1> QED
    BY <1>3 DEF S

-----------------------------------------------------------------------------
(* cleanString.                                                            *)

SecondOf(s, i) == i > 1 /\ s[i] = Percent /\ s[i - 1] = Percent

LEMMA SkippedFacts ==
    ASSUME NEW s \in Seq(Nat)
    PROVE  \A i \in 1..Len(s) :
              /\ Skipped(s)[i] \in BOOLEAN
              /\ Skipped(s)[i] <=> SecondOf(s, i) /\ ~Skipped(s)[i - 1]
  <1> DEFINE n == Len(s)
             Step == [i \in 1..n |-> [b \in BOOLEAN |-> SecondOf(s, i) /\ ~b]]
             Eq(f) == f = [i \in 0..n |-> /\ i > 1
                                          /\ s[i] = Percent /\ s[i - 1] = Percent
                                          /\ ~f[i - 1]]
  <1>1. n \in Nat
    OBVIOUS
  <1>2. Step \in [1..n -> [BOOLEAN -> BOOLEAN]]
    BY DEF SecondOf
  <1>3. \A i \in 1..n, b \in BOOLEAN : Step[i][b] = (SecondOf(s, i) /\ ~b)
    OBVIOUS
  <1>4. PICK f : Follows(f, n, BOOLEAN, FALSE, Step)
    <2> HIDE DEF n, Step
    <2> QED
      BY <1>1, <1>2, Recursion
  <1>5. Eq(f)
    <2> DEFINE body(i) == /\ i > 1
                          /\ s[i] = Percent /\ s[i - 1] = Percent
                          /\ ~f[i - 1]
    <2>1. f \in [0..n -> BOOLEAN]
      BY <1>4 DEF Follows
    <2>2. ASSUME NEW i \in 0..n PROVE f[i] = body(i)
      <3>1. CASE i = 0
        <4>1. f[i] = FALSE /\ ~(i > 1)
          BY <1>4, <3>1 DEF Follows
        <4>2. body(i) = FALSE
          BY <4>1, Zenon
        <4> QED
          BY <4>1, <4>2, Zenon
      <3>2. CASE i # 0
        <4>1. i \in 1..n /\ i - 1 \in 0..n
          BY <3>2
        <4>2. f[i] = Step[i][f[i - 1]]
          BY <1>4, <4>1 DEF Follows
        <4>3. f[i] = (SecondOf(s, i) /\ ~f[i - 1])
          BY <1>3, <2>1, <4>1, <4>2
        <4> QED
          BY <4>3, Zenon DEF SecondOf
      <3> QED
        BY <3>1, <3>2
    <2> HIDE DEF n, body
    <2>3. f = [i \in 0..n |-> body(i)]
      BY <2>1, <2>2
    <2> QED
      BY <2>3 DEF body
  <1> DEFINE F == CHOOSE g : Eq(g)
  <1>6. Skipped(s) = F
    BY Zenon DEF Skipped
  <1>7. Eq(F)
    <2> HIDE DEF Eq
    <2> QED
      BY <1>5, Zenon
  <1> HIDE DEF F
  <1>8. \A i \in 0..n : F[i] = (SecondOf(s, i) /\ ~F[i - 1])
    BY <1>7, Zenon DEF SecondOf
  <1>9. \A i \in 1..n : i \in 0..n
    OBVIOUS
  <1> HIDE DEF n
  <1>10. \A i \in 1..n : /\ F[i] \in BOOLEAN
                         /\ F[i] <=> SecondOf(s, i) /\ ~F[i - 1]
    BY <1>8, <1>9, Zenon
  <1> QED
    BY <1>6, <1>10, Zenon DEF n

\* There are exactly k percent signs in front of the one at i, without a gap.
Row(s, i, k) ==
    /\ k \in 0..i - 1
    /\ \A j \in i - k..i : s[j] = Percent
    /\ i - k = 1 \/ s[i - k - 1] # Percent

LEMMA OneRow ==
    ASSUME NEW s, NEW i \in Nat, NEW k, NEW l, Row(s, i, k), Row(s, i, l)
    PROVE  k = l
  <1>1. ASSUME NEW a \in Nat, NEW b \in Nat, a < b, Row(s, i, a), Row(s, i, b)
        PROVE  FALSE
    <2>1. i - a - 1 \in i - b..i /\ i - a # 1
      BY <1>1 DEF Row
    <2> QED
      BY <1>1, <2>1 DEF Row
  <1>2. k \in Nat /\ l \in Nat
    BY DEF Row
  <1> QED
    BY <1>1, <1>2

\* The loop skips every second percent sign of a row.
LEMMA EverySecond ==
    ASSUME NEW s \in Seq(Nat), NEW i \in 1..Len(s), s[i] = Percent
    PROVE  \E k \in Nat : Row(s, i, k) /\ (Skipped(s)[i] <=> k % 2 = 1)
  <1> DEFINE P(j) == s[j] = Percent =>
                \E k \in Nat : Row(s, j, k) /\ (Skipped(s)[j] <=> k % 2 = 1)
             N == {j \in 1..Len(s) : P(j)}
  <1>0. Len(s) \in Nat
    OBVIOUS
  <1>1. 1 \in N
    <2>1. SUFFICES P(1)
      OBVIOUS
    <2> SUFFICES ASSUME s[1] = Percent
                 PROVE  Row(s, 1, 0) /\ (Skipped(s)[1] <=> 0 % 2 = 1)
      OBVIOUS
    <2>2. Row(s, 1, 0)
      BY DEF Row
    <2>3. ~Skipped(s)[1]
      <3>1. ~SecondOf(s, 1) /\ 1 \in 1..Len(s)
        BY DEF SecondOf
      <3> QED
        BY <3>1, SkippedFacts, Zenon
    <2> QED
      BY <2>2, <2>3
  <1>2. ASSUME NEW j \in 1..Len(s), j \in N, j < Len(s) PROVE j + 1 \in N
    <2>1. j + 1 \in 1..Len(s) /\ (j + 1) - 1 = j
      BY <1>2
    <2> SUFFICES ASSUME s[j + 1] = Percent
                 PROVE  \E k \in Nat : /\ Row(s, j + 1, k)
                                       /\ Skipped(s)[j + 1] <=> k % 2 = 1
      BY <2>1
    <2>2. CASE s[j] = Percent
      <3>1. PICK k \in Nat : Row(s, j, k) /\ (Skipped(s)[j] <=> k % 2 = 1)
        BY <1>2, <2>2
      <3>2. Row(s, j + 1, k + 1)
        BY <3>1 DEF Row
      <3>3. Skipped(s)[j + 1] <=> ~Skipped(s)[j]
        <4>1. SecondOf(s, j + 1)
          BY <2>2 DEF SecondOf
        <4>2. /\ Skipped(s)[j + 1] <=> ~Skipped(s)[(j + 1) - 1]
              /\ (j + 1) - 1 = j
          BY <2>1, <4>1, SkippedFacts, Zenon
        <4> QED
          BY <4>2, Zenon
      <3>4. (k + 1) % 2 = 1 <=> ~(k % 2 = 1)
        OBVIOUS
      <3> QED
        BY <3>1, <3>2, <3>3, <3>4
    <2>3. CASE s[j] # Percent
      <3>1. Row(s, j + 1, 0)
        BY <2>3 DEF Row
      <3>2. ~Skipped(s)[j + 1]
        <4>1. ~SecondOf(s, j + 1)
          BY <2>3 DEF SecondOf
        <4> QED
          BY <2>1, <4>1, SkippedFacts, Zenon
      <3> QED
        BY <3>1, <3>2
    <2> QED
      BY <2>2, <2>3
  <1> HIDE DEF N
  <1>3. i \in N
    <2>1. 1..Len(s) \subseteq N
      BY <1>0, <1>1, <1>2, IntervalInduction
    <2> QED
      BY <2>1
  <1> QED
    BY <1>3 DEF N

\* cleanString replaces the percent signs that are not one of a pair, and
\* leaves the rest of the text.
THEOREM CleanIsReference ==
    ASSUME NEW s \in Seq(Nat)
    PROVE  Clean(s) = CleanReference(s)
  <1> DEFINE odd(i) == \E k \in 0..i - 1 :
                 /\ k % 2 = 0
                 /\ \A j \in i - k..i : s[j] = Percent
                 /\ i - k = 1 \/ s[i - k - 1] # Percent
  <1>1. ASSUME NEW i \in 1..Len(s), s[i] = Percent
        PROVE  odd(i) <=> ~Skipped(s)[i]
    <2>1. PICK k \in Nat : Row(s, i, k) /\ (Skipped(s)[i] <=> k % 2 = 1)
      BY <1>1, EverySecond
    <2>2. k % 2 = 0 <=> ~(k % 2 = 1)
      OBVIOUS
    <2>3. k % 2 = 0 => odd(i)
      BY <2>1 DEF Row
    <2>4. ASSUME odd(i) PROVE k % 2 = 0
      <3>1. PICK l \in 0..i - 1 :
                 /\ l % 2 = 0
                 /\ \A j \in i - l..i : s[j] = Percent
                 /\ i - l = 1 \/ s[i - l - 1] # Percent
        BY <2>4
      <3>2. Row(s, i, l)
        BY <3>1 DEF Row
      <3>3. k = l
        BY <2>1, <3>2, OneRow
      <3> QED
        BY <3>1, <3>3
    <2> HIDE DEF odd
    <2> QED
      BY <2>1, <2>2, <2>3, <2>4
  <1>2. DOMAIN s = 1..Len(s)
    OBVIOUS
  <1>3. ASSUME NEW i \in DOMAIN s
        PROVE  (/\ s[i] = Percent /\ ~Skipped(s)[i]
                /\ i = Len(s) \/ s[i + 1] # Percent)
               <=> (/\ s[i] = Percent
                    /\ i = Len(s) \/ s[i + 1] # Percent
                    /\ odd(i))
    <2> HIDE DEF odd
    <2> QED
      BY <1>1, <1>2, Zenon
  <1>4. ASSUME NEW i \in DOMAIN s PROVE Clean(s)[i] = CleanReference(s)[i]
    BY <1>3, Zenon DEF Clean, CleanReference
  <1>5. /\ Clean(s) = [i \in DOMAIN s |-> Clean(s)[i]]
        /\ CleanReference(s) = [i \in DOMAIN s |-> CleanReference(s)[i]]
    BY Zenon DEF Clean, CleanReference
  <1> QED
    BY <1>4, <1>5, Zenon

\* The length stays, and every character but for a percent sign.
LEMMA CleanFacts ==
    ASSUME NEW s \in Seq(Nat)
    PROVE  /\ Clean(s) \in Seq(Nat) /\ Len(Clean(s)) = Len(s)
           /\ \A i \in 1..Len(s) : Clean(s)[i] \in {s[i], Space}
  <1> DEFINE c(i) == IF /\ s[i] = Percent /\ ~Skipped(s)[i]
                        /\ i = Len(s) \/ s[i + 1] # Percent
                     THEN Space ELSE s[i]
  <1>1. Clean(s) = [i \in DOMAIN s |-> c(i)]
    BY Zenon DEF Clean
  <1>2. \A i : c(i) \in {s[i], Space}
    BY Zenon
  <1> HIDE DEF c
  <1>3. \A i \in 1..Len(s) : c(i) \in Nat
    BY <1>2 DEF Space
  <1>4. DOMAIN s = 1..Len(s) /\ Len(s) \in Nat
    OBVIOUS
  <1>5. Clean(s) \in Seq(Nat)
    BY <1>1, <1>3, <1>4
  <1> QED
    BY <1>1, <1>2, <1>4, <1>5

-----------------------------------------------------------------------------
(* Where the words of a line are.                                          *)

LEMMA MinFacts ==
    ASSUME NEW S \in SUBSET Nat, S # {}
    PROVE  Min(S) \in S /\ \A x \in S : Min(S) <= x
  <1>1. \E x \in S : \A y \in S : x <= y
    BY Minimum
  <1> QED
    BY <1>1 DEF Min

\* The first of the positions from a on that are in S, or the one behind b.
First(S, b) == IF S = {} THEN b + 1 ELSE Min(S)

LEMMA FirstFacts ==
    ASSUME NEW a \in Nat, NEW b \in Nat, a <= b + 1,
           NEW S, S \in SUBSET (a..b)
    PROVE  /\ First(S, b) \in a..b + 1
           /\ \A i \in a..First(S, b) - 1 : i \notin S
           /\ First(S, b) <= b => First(S, b) \in S
           /\ First(S, b) <= b <=> S # {}
  <1>1. CASE S = {}
    BY <1>1 DEF First
  <1>2. CASE S # {}
    <2>1. S \in SUBSET Nat
      OBVIOUS
    <2>2. Min(S) \in S /\ \A x \in S : Min(S) <= x
      BY <1>2, <2>1, MinFacts
    <2>3. First(S, b) = Min(S)
      BY <1>2 DEF First
    <2>4. Min(S) \in a..b
      BY <2>2
    <2>5. \A i \in a..Min(S) - 1 : i \notin S
      BY <2>2, <2>4
    <2> QED
      BY <1>2, <2>2, <2>3, <2>4, <2>5
  <1> QED
    BY <1>1, <1>2

LEMMA SkipBlanksFacts ==
    ASSUME NEW line \in Seq(Nat), NEW o \in 1..Len(line) + 1
    PROVE  LET start == SkipBlanks(line, o) IN
           /\ start \in o..Len(line) + 1
           /\ \A i \in o..start - 1 : Blank(line[i])
           /\ start <= Len(line) => ~Blank(line[start])
  <1> DEFINE S == {i \in o..Len(line) : ~Blank(line[i])}
             f == First(S, Len(line))
  <1>0. Len(line) \in Nat /\ o \in Nat /\ o <= Len(line) + 1
    OBVIOUS
  <1>1. SkipBlanks(line, o) = f
    BY DEF SkipBlanks, First
  <1>2. S \in SUBSET (o..Len(line))
    OBVIOUS
  <1>3. /\ f \in o..Len(line) + 1
        /\ \A i \in o..f - 1 : i \notin S
        /\ f <= Len(line) => f \in S
    <2> HIDE DEF S
    <2> QED
      BY <1>0, <1>2, FirstFacts
  <1> HIDE DEF f
  <1> QED
    BY <1>0, <1>1, <1>3

\* A word that is not a quote ends in front of a blank or the end of the line.
LEMMA PlainWordFacts ==
    ASSUME NEW line \in Seq(Nat), NEW start \in 1..Len(line),
           line[start] # Quote, ~Blank(line[start])
    PROVE  LET o2 == WordAt(line, start).o2 IN
           /\ o2 \in start + 1..Len(line) + 1
           /\ \A i \in start..o2 - 1 : ~Blank(line[i])
           /\ o2 <= Len(line) => Blank(line[o2])
  <1> DEFINE S == BlankEnds(line, start)
             f == First(S, Len(line))
  <1>0. Len(line) \in Nat /\ start \in Nat /\ start <= Len(line) + 1
    OBVIOUS
  <1>1. WordAt(line, start).o2 = f
    <2> HIDE DEF S
    <2>1. WordAt(line, start) =
            IF S = {} THEN [o2 |-> Len(line) + 1, ended |-> FALSE]
            ELSE [o2 |-> Min(S), ended |-> TRUE]
      BY DEF WordAt, S
    <2> QED
      BY <2>1 DEF First
  <1>2. S \in SUBSET (start..Len(line))
    BY DEF BlankEnds
  <1>3. /\ f \in start..Len(line) + 1
        /\ \A i \in start..f - 1 : i \notin S
        /\ f <= Len(line) => f \in S
    <2> HIDE DEF S
    <2> QED
      BY <1>0, <1>2, FirstFacts
  <1>4. start \notin S
    BY DEF BlankEnds
  <1> HIDE DEF f
  <1>5. f # start
    BY <1>3, <1>4
  <1> QED
    BY <1>1, <1>3, <1>5 DEF BlankEnds

\* A quote ends with the first quotation mark that no backslash precedes, if
\* there is one.
LEMMA QuoteFacts ==
    ASSUME NEW line \in Seq(Nat), NEW start \in 1..Len(line),
           line[start] = Quote
    PROVE  \E e \in start + 1..Len(line) + 1 :
              /\ \A i \in start + 1..e - 1 : i \notin QuoteEnds(line, start)
              /\ e <= Len(line) => e \in QuoteEnds(line, start)
              /\ WordAt(line, start).o2 = IF e <= Len(line) THEN e + 1 ELSE e
              /\ WordAt(line, start).ended <=> e <= Len(line)
  <1> DEFINE S == QuoteEnds(line, start)
             f == First(S, Len(line))
             a == start + 1
  <1>0. Len(line) \in Nat /\ a \in Nat /\ a <= Len(line) + 1
    OBVIOUS
  <1>1. WordAt(line, start) =
          IF S = {} THEN [o2 |-> Len(line) + 1, ended |-> FALSE]
          ELSE [o2 |-> Min(S) + 1, ended |-> TRUE]
    BY DEF WordAt
  <1>2. S \in SUBSET (a..Len(line))
    BY DEF QuoteEnds
  <1>3. /\ f \in a..Len(line) + 1
        /\ \A i \in a..f - 1 : i \notin S
        /\ f <= Len(line) => f \in S
    <2> HIDE DEF S, a
    <2> QED
      BY <1>0, <1>2, FirstFacts
  <1>4. /\ f <= Len(line) <=> S # {}
        /\ WordAt(line, start).o2 = IF f <= Len(line) THEN f + 1 ELSE f
        /\ WordAt(line, start).ended <=> S # {}
    <2> HIDE DEF S
    <2>1. CASE S = {}
      BY <1>0, <1>1, <2>1 DEF First
    <2>2. CASE S # {}
      <3>1. f = Min(S) /\ f <= Len(line)
        <4>1. f <= Len(line)
          <5> HIDE DEF a
          <5> QED
            BY <1>0, <1>2, <2>2, FirstFacts
        <4> QED
          BY <2>2, <4>1 DEF First
      <3>2. /\ WordAt(line, start).o2 = Min(S) + 1
            /\ WordAt(line, start).ended
        BY <1>1, <2>2
      <3> HIDE DEF f
      <3> QED
        BY <2>2, <3>1, <3>2
    <2> QED
      BY <2>1, <2>2
  <1> HIDE DEF f, S
  <1> QED
    BY <1>3, <1>4 DEF S

\* The next search is at most behind the line, and behind the word.
LEMMA AfterWordFacts ==
    ASSUME NEW line \in Seq(Nat), NEW o \in 1..Len(line) + 1
    PROVE  /\ AfterWord(line, o) \in o..Len(line) + 1
           /\ HasWord(line, o) => AfterWord(line, o) > o
  <1> DEFINE start == SkipBlanks(line, o)
  <1>0. Len(line) \in Nat
    OBVIOUS
  <1>1. CASE ~HasWord(line, o)
    BY <1>0, <1>1 DEF AfterWord
  <1>2. CASE HasWord(line, o)
    <2>1. start \in o..Len(line) /\ ~Blank(line[start])
      BY <1>2, SkipBlanksFacts DEF HasWord
    <2>2. WordAt(line, start).o2 \in start + 1..Len(line) + 1
      <3> HIDE DEF start
      <3>1. start \in 1..Len(line)
        BY <2>1
      <3>2. CASE line[start] # Quote
        BY <2>1, <3>1, <3>2, PlainWordFacts
      <3>3. CASE line[start] = Quote
        <4>1. PICK e \in start + 1..Len(line) + 1 :
                 WordAt(line, start).o2 = IF e <= Len(line) THEN e + 1 ELSE e
          BY <3>1, <3>3, QuoteFacts
        <4> QED
          BY <1>0, <2>1, <4>1
      <3> QED
        BY <3>2, <3>3
    <2>3. AfterWord(line, o) = WordAt(line, start).o2
      BY <1>2 DEF AfterWord
    <2> HIDE DEF start
    <2> QED
      BY <1>0, <2>1, <2>2, <2>3
  <1> QED
    BY <1>1, <1>2

-----------------------------------------------------------------------------
(* addWord.                                                                *)

\* A backslash that is left out.
Escape(w, i) == i < Len(w) /\ w[i] = Backslash /\ w[i + 1] = Quote

LEMMA UnescapedFacts ==
    ASSUME NEW w \in Seq(Nat)
    PROVE  /\ UnescapedUpto(w)[0] = <<>>
           /\ \A i \in 0..Len(w) : UnescapedUpto(w)[i] \in Seq(Nat)
           /\ \A i \in 1..Len(w) : UnescapedUpto(w)[i] =
                IF Escape(w, i) THEN UnescapedUpto(w)[i - 1]
                ELSE Append(UnescapedUpto(w)[i - 1], w[i])
  <1> DEFINE n == Len(w)
             V == Seq(Nat)
             next(i, t) == IF Escape(w, i) THEN t ELSE Append(t, w[i])
             Step == [i \in 1..n |-> [t \in V |-> next(i, t)]]
             Eq(f) == f = [i \in 0..n |->
                            IF i = 0 THEN <<>> ELSE next(i, f[i - 1])]
  <1>1. n \in Nat /\ <<>> \in V
    OBVIOUS
  <1>2. \A i \in 1..n, t \in V : next(i, t) \in V
    OBVIOUS
  <1>3. Step \in [1..n -> [V -> V]]
    <2> HIDE DEF next, V, n
    <2> QED
      BY <1>2
  <1>4. PICK f : Follows(f, n, V, <<>>, Step)
    <2> HIDE DEF n, Step, V
    <2> QED
      BY <1>1, <1>3, Recursion
  <1>5. Eq(f)
    <2> HIDE DEF next, V, n
    <2>1. \A i \in 1..n : f[i - 1] \in V
      BY <1>1, <1>4 DEF Follows
    <2>2. ASSUME NEW i \in 0..n
          PROVE  f[i] = IF i = 0 THEN <<>> ELSE next(i, f[i - 1])
      <3>1. CASE i = 0
        BY <1>4, <3>1 DEF Follows
      <3>2. CASE i # 0
        <4>1. i \in 1..n
          BY <1>1, <3>2
        <4> QED
          BY <1>4, <2>1, <3>2, <4>1 DEF Follows
      <3> QED
        BY <3>1, <3>2
    <2> QED
      BY <1>4, <2>2 DEF Follows
  <1> DEFINE F == CHOOSE g : Eq(g)
  <1>6. UnescapedUpto(w) = F
    BY Zenon DEF UnescapedUpto, Escape
  <1>7. Eq(F)
    <2> HIDE DEF Eq
    <2> QED
      BY <1>5, Zenon
  <1> HIDE DEF F
  <1>8. F[0] = <<>> /\ \A i \in 1..n : F[i] = next(i, F[i - 1])
    <2> HIDE DEF next, n
    <2> QED
      BY <1>1, <1>7
  <1>9. \A i \in 0..n : F[i] \in V
    <2> HIDE DEF next, n, V
    <2> QED
      BY <1>1, <1>2, <1>8, StaysIn
  <1> QED
    BY <1>6, <1>8, <1>9

-----------------------------------------------------------------------------
(* parse.                                                                  *)

\* Where the searches for words begin.
LEMMA SearchesFacts ==
    ASSUME NEW line \in Seq(Nat)
    PROVE  /\ Searches(line)[0] = 1
           /\ \A n \in 0..Len(line) : Searches(line)[n] \in 1..Len(line) + 1
           /\ \A n \in 1..Len(line) :
                Searches(line)[n] = AfterWord(line, Searches(line)[n - 1])
  <1> DEFINE n == Len(line)
             V == 1..Len(line) + 1
             next(o) == [i \in V |-> AfterWord(line, i)][o]
             Step == [i \in 1..n |-> [o \in V |-> next(o)]]
             Eq(f) == f = [i \in 0..n |-> IF i = 0 THEN 1 ELSE next(f[i - 1])]
  <1>1. n \in Nat /\ 1 \in V
    OBVIOUS
  <1>2. \A o \in V : next(o) \in V /\ next(o) = AfterWord(line, o)
    <2> TAKE o \in V
    <2>1. AfterWord(line, o) \in o..n + 1
      BY AfterWordFacts
    <2> QED
      BY <2>1
  <1>3. Step \in [1..n -> [V -> V]]
    <2> HIDE DEF next, V, n
    <2> QED
      BY <1>2
  <1>4. PICK f : Follows(f, n, V, 1, Step)
    <2> HIDE DEF n, Step, V
    <2> QED
      BY <1>1, <1>3, Recursion
  <1>5. Eq(f)
    <2> HIDE DEF next, V, n
    <2>1. \A i \in 1..n : f[i - 1] \in V
      BY <1>1, <1>4 DEF Follows
    <2>2. ASSUME NEW i \in 0..n
          PROVE  f[i] = IF i = 0 THEN 1 ELSE next(f[i - 1])
      <3>1. CASE i = 0
        BY <1>4, <3>1 DEF Follows
      <3>2. CASE i # 0
        <4>1. i \in 1..n
          BY <1>1, <3>2
        <4> QED
          BY <1>4, <2>1, <3>2, <4>1 DEF Follows
      <3> QED
        BY <3>1, <3>2
    <2> QED
      BY <1>4, <2>2 DEF Follows
  <1> DEFINE F == CHOOSE g : Eq(g)
  <1>6. Searches(line) = F
    BY Zenon DEF Searches
  <1>7. Eq(F)
    <2> HIDE DEF Eq
    <2> QED
      BY <1>5, Zenon
  <1> HIDE DEF F
  <1>8. F[0] = 1 /\ \A i \in 1..n : F[i] = next(F[i - 1])
    <2> HIDE DEF next, n
    <2> QED
      BY <1>1, <1>7
  <1>9. \A i \in 0..n : F[i] \in V
    <2> HIDE DEF next, n, V
    <2> QED
      BY <1>1, <1>2, <1>8, StaysIn
  <1>10. \A i \in 1..n : F[i] = AfterWord(line, F[i - 1])
    <2> HIDE DEF next, V
    <2>1. \A i \in 1..n : i - 1 \in 0..n
      BY <1>1
    <2> HIDE DEF n
    <2> QED
      BY <1>2, <1>8, <1>9, <2>1
  <1> QED
    BY <1>6, <1>8, <1>9, <1>10

-----------------------------------------------------------------------------
(* The reference reader.                                                   *)

Readings ==
    [mode : {"gap", "word", "quote"}, word : Seq(Nat), words : Seq(Seq(Nat)),
     starts : Seq(Nat)]

LEMMA ReadingTypes ==
    ASSUME NEW a \in Readings
    PROVE  /\ a.mode \in {"gap", "word", "quote"} /\ a.word \in Seq(Nat)
           /\ a.words \in Seq(Seq(Nat)) /\ a.starts \in Seq(Nat)
  BY DEF Readings

\* The cases of ReadNext.
LEMMA EndedType ==
    ASSUME NEW a \in Readings
    PROVE  Ended(a) \in Readings
  <1>1. Append(a.words, a.word) \in Seq(Seq(Nat))
    BY ReadingTypes
  <1> QED
    BY <1>1, ReadingTypes DEF Ended, Readings

LEMMA BegunType ==
    ASSUME NEW a \in Readings, NEW i \in Nat, NEW m \in {"word", "quote"},
           NEW w \in Seq(Nat)
    PROVE  Begun(a, i, m, w) \in Readings
  <1>1. Append(a.starts, i) \in Seq(Nat)
    BY ReadingTypes
  <1> QED
    BY <1>1, ReadingTypes DEF Begun, Readings

LEMMA GoesType ==
    ASSUME NEW a \in Readings, NEW w \in Seq(Nat)
    PROVE  Goes(a, w) \in Readings
  BY ReadingTypes DEF Goes, Readings

LEMMA ReadNextType ==
    ASSUME NEW a \in Readings, NEW c \in Nat, NEW i \in Nat
    PROVE  ReadNext(a, c, i) \in Readings
  <1>1. Ended(a) \in Readings
    BY EndedType
  <1>2. Begun(a, i, "quote", <<>>) \in Readings
    <2>1. <<>> \in Seq(Nat)
      OBVIOUS
    <2> QED
      BY <2>1, BegunType
  <1>3. Begun(a, i, "word", <<c>>) \in Readings
    <2>1. <<c>> \in Seq(Nat)
      OBVIOUS
    <2> QED
      BY <2>1, BegunType
  <1>4. a.word # <<>> => Goes(a, Append(Front(a.word), Quote)) \in Readings
    <2>1. a.word # <<>> => Append(Front(a.word), Quote) \in Seq(Nat)
      BY ReadingTypes DEF Front, Quote
    <2> QED
      BY <2>1, GoesType
  <1>5. Goes(a, Append(a.word, c)) \in Readings
    <2>1. Append(a.word, c) \in Seq(Nat)
      BY ReadingTypes
    <2> QED
      BY <2>1, GoesType
  <1> QED
    BY <1>1, <1>2, <1>3, <1>4, <1>5, Zenon DEF ReadNext

\* ReadNext by cases: between words, in a word and in a quote.
LEMMA InGap ==
    ASSUME NEW a, NEW c, NEW i, a.mode = "gap"
    PROVE  /\ Blank(c) => ReadNext(a, c, i) = a
           /\ ~Blank(c) /\ c # Quote =>
                ReadNext(a, c, i) = Begun(a, i, "word", <<c>>)
           /\ c = Quote => ReadNext(a, c, i) = Begun(a, i, "quote", <<>>)
  <1>1. ~Blank(Quote)
    BY DEF Blank, Quote, Space
  <1> QED
    BY <1>1, Zenon DEF ReadNext

LEMMA InWord ==
    ASSUME NEW a, NEW c, NEW i, a.mode = "word"
    PROVE  /\ Blank(c) => ReadNext(a, c, i) = Ended(a)
           /\ ~Blank(c) => ReadNext(a, c, i) = Goes(a, Append(a.word, c))
  <1>1. a.mode # "gap" /\ a.mode # "quote"
    OBVIOUS
  <1> QED
    BY <1>1, Zenon DEF ReadNext

LEMMA InQuote ==
    ASSUME NEW a, NEW c, NEW i, a.mode = "quote"
    PROVE  LET escape == a.word # <<>> /\ Last(a.word) = Backslash IN
           /\ c = Quote /\ escape =>
                ReadNext(a, c, i) = Goes(a, Append(Front(a.word), Quote))
           /\ c = Quote /\ ~escape => ReadNext(a, c, i) = Ended(a)
           /\ c # Quote => ReadNext(a, c, i) = Goes(a, Append(a.word, c))
  <1>1. a.mode # "gap" /\ a.mode # "word"
    OBVIOUS
  <1> QED
    BY <1>1, Zenon DEF ReadNext

\* The state of the reader after each character.
LEMMA ReadUptoFacts ==
    ASSUME NEW line \in Seq(Nat)
    PROVE  /\ ReadUpto(line)[0] = Reading
           /\ \A i \in 0..Len(line) : ReadUpto(line)[i] \in Readings
           /\ \A i \in 1..Len(line) :
                ReadUpto(line)[i] = ReadNext(ReadUpto(line)[i - 1], line[i], i)
  <1> DEFINE n == Len(line)
             next(i, a) == ReadNext(a, line[i], i)
             Step == [i \in 1..n |-> [a \in Readings |-> next(i, a)]]
             Eq(f) == f = [i \in 0..n |->
                            IF i = 0 THEN Reading ELSE next(i, f[i - 1])]
  <1>1. n \in Nat /\ Reading \in Readings
    BY DEF Reading, Readings
  <1>2. \A i \in 1..n, a \in Readings : next(i, a) \in Readings
    <2> TAKE i \in 1..n, a \in Readings
    <2>1. line[i] \in Nat /\ i \in Nat
      OBVIOUS
    <2> QED
      BY <2>1, ReadNextType
  <1>3. Step \in [1..n -> [Readings -> Readings]]
    <2> HIDE DEF next, n
    <2> QED
      BY <1>2
  <1>4. PICK f : Follows(f, n, Readings, Reading, Step)
    <2> HIDE DEF n, Step
    <2> QED
      BY <1>1, <1>3, Recursion
  <1>5. Eq(f)
    <2> HIDE DEF next, n
    <2>1. \A i \in 1..n : f[i - 1] \in Readings
      BY <1>1, <1>4 DEF Follows
    <2>2. ASSUME NEW i \in 0..n
          PROVE  f[i] = IF i = 0 THEN Reading ELSE next(i, f[i - 1])
      <3>1. CASE i = 0
        BY <1>4, <3>1 DEF Follows
      <3>2. CASE i # 0
        <4>1. i \in 1..n
          BY <1>1, <3>2
        <4> QED
          BY <1>4, <2>1, <3>2, <4>1 DEF Follows
      <3> QED
        BY <3>1, <3>2
    <2> QED
      BY <1>4, <2>2 DEF Follows
  <1> DEFINE F == CHOOSE g : Eq(g)
  <1>6. ReadUpto(line) = F
    BY Zenon DEF ReadUpto
  <1>7. Eq(F)
    <2> HIDE DEF Eq
    <2> QED
      BY <1>5, Zenon
  <1> HIDE DEF F
  <1>8. F[0] = Reading /\ \A i \in 1..n : F[i] = next(i, F[i - 1])
    <2> HIDE DEF next, n
    <2> QED
      BY <1>1, <1>7
  <1>9. \A i \in 0..n : F[i] \in Readings
    <2> HIDE DEF next, n
    <2> QED
      BY <1>1, <1>2, <1>8, StaysIn
  <1> QED
    BY <1>6, <1>8, <1>9

\* A reader at a position where a search may begin: between words, or at the
\* end of one.
Ready(line, o) ==
    LET a == ReadUpto(line)[o - 1] IN
    \/ a.mode = "gap"
    \/ a.mode = "word" /\ (o > Len(line) \/ Blank(line[o]))

\* Blanks only end a word.
LEMMA ReadBlanks ==
    ASSUME NEW line \in Seq(Nat), NEW o \in 1..Len(line) + 1, Ready(line, o)
    PROVE  LET start == SkipBlanks(line, o)
               a == ReadUpto(line)[o - 1]
               b == ReadUpto(line)[start - 1]
           IN  /\ Closed(b) = Closed(a)
               /\ b.mode # "quote"
               /\ start <= Len(line) => b = Closed(a) /\ b.mode = "gap"
  <1> DEFINE start == SkipBlanks(line, o)
             R == ReadUpto(line)
             a == R[o - 1]
             S == {i \in o - 1..start - 1 : R[i] = IF i = o - 1 THEN a ELSE Closed(a)}
  <1>1. /\ start \in o..Len(line) + 1
        /\ \A i \in o..start - 1 : Blank(line[i])
        /\ start <= Len(line) => ~Blank(line[start])
    BY SkipBlanksFacts
  <1>2. Len(line) \in Nat /\ start \in Nat /\ o \in Nat /\ o - 1 \in Nat
        /\ start - 1 \in Nat /\ o - 1 \in 0..Len(line)
    BY <1>1
  <1> HIDE DEF start, R
  <1>3. a \in Readings /\ a.mode \in {"gap", "word"}
    BY <1>2, ReadUptoFacts DEF R, Ready
  <1>4. Closed(a).mode = "gap" /\ Closed(Closed(a)) = Closed(a)
    BY <1>3, Zenon DEF Closed, Ended
  <1>5. o - 1 \in S
    BY <1>1, <1>2
  <1>6. ASSUME NEW i \in o - 1..start - 1, i \in S, i < start - 1
        PROVE  i + 1 \in S
    <2>1. /\ i + 1 \in o - 1..start - 1 /\ i + 1 # o - 1
          /\ i + 1 \in 1..Len(line) /\ (i + 1) - 1 = i
      BY <1>1, <1>2, <1>6
    <2>2. Blank(line[i + 1])
      BY <1>1, <1>2, <2>1
    <2>3. R[i + 1] = ReadNext(R[i], line[i + 1], i + 1)
      BY <2>1, ReadUptoFacts DEF R
    <2> DEFINE r == R[i]
               c == line[i + 1]
               j == i + 1
    <2>4. (r = a \/ r = Closed(a)) /\ Blank(c)
      BY <1>6, <2>2
    <2> HIDE DEF r, c, j
    <2>5. ReadNext(r, c, j) = Closed(a)
      <3>1. CASE r.mode = "gap"
        <4>1. r = Closed(a)
          BY <1>3, <2>4, <3>1 DEF Closed
        <4> QED
          BY <2>4, <3>1, <4>1, InGap
      <3>2. CASE r.mode = "word"
        <4>1. r = a
          BY <1>4, <2>4, <3>2
        <4> QED
          BY <2>4, <3>2, <4>1, InWord DEF Closed
      <3> QED
        BY <1>3, <1>4, <2>4, <3>1, <3>2
    <2>6. R[i + 1] = Closed(a)
      BY <2>3, <2>5 DEF r, c, j
    <2> QED
      BY <2>1, <2>6
  <1>7. o - 1..start - 1 \subseteq S
    <2> DEFINE lo == o - 1
               hi == start - 1
    <2>1. \A i \in lo..hi : i \in S /\ i < hi => i + 1 \in S
      BY <1>6
    <2>2. lo \in Nat /\ hi \in Nat /\ lo \in S
      BY <1>2, <1>5
    <2> HIDE DEF S, lo, hi
    <2>3. lo..hi \subseteq S
      BY <2>1, <2>2, IntervalInduction
    <2> QED
      BY <2>3 DEF lo, hi
  <1>8. start - 1 \in S
    BY <1>1, <1>2, <1>7
  <1>9. CASE start = o
    <2>1. R[start - 1] = a
      BY <1>9
    <2>2. start <= Len(line) => a.mode = "gap"
      BY <1>1, <1>9, <1>3 DEF Ready, R
    <2>3. start <= Len(line) => a = Closed(a)
      BY <2>2 DEF Closed
    <2> QED
      BY <1>3, <2>1, <2>2, <2>3 DEF R, start
  <1>10. CASE start # o
    <2>1. R[start - 1] = Closed(a)
      BY <1>1, <1>2, <1>8, <1>10
    <2> QED
      BY <1>4, <2>1 DEF R, start
  <1> QED
    BY <1>9, <1>10

\* A part of a line, one character longer.
LEMMA OneMore ==
    ASSUME NEW line \in Seq(Nat), NEW m \in 1..Len(line) + 1, NEW i \in Nat,
           m <= i + 1, i < Len(line)
    PROVE  /\ SubSeq(line, m, i + 1) = Append(SubSeq(line, m, i), line[i + 1])
           /\ SubSeq(line, m, i) \in Seq(Nat)
  <1> DEFINE c == line[i + 1]
             t == SubSeq(line, m, i)
  <1>1. /\ m \in 1..Len(line) /\ m \in Int /\ i + 1 \in m..Len(line)
        /\ (i + 1) - 1 = i /\ c \in Nat /\ \A k \in m..i : line[k] \in Nat
    OBVIOUS
  <1>2. SubSeq(line, m, i + 1) = t \o <<c>>
    BY <1>1, SubSeqRecursiveSecond
  <1>3. t \in Seq(Nat)
    BY <1>1, SubSeqProperties
  <1> HIDE DEF t, c
  <1>4. Append(t, c) = t \o <<c>>
    BY <1>1, <1>3, AppendIsConcat
  <1> QED
    BY <1>2, <1>3, <1>4 DEF t, c

LEMMA SingleSubSeq ==
    ASSUME NEW line \in Seq(Nat), NEW m \in 1..Len(line)
    PROVE  SubSeq(line, m, m) = <<line[m]>>
  <1>1. m \in m..Len(line) /\ m \in Int /\ m - 1 \in Int /\ m - 1 < m
    OBVIOUS
  <1>2. SubSeq(line, m, m) = SubSeq(line, m, m - 1) \o <<line[m]>>
    BY <1>1, SubSeqRecursiveSecond
  <1>3. SubSeq(line, m, m - 1) = <<>>
    BY <1>1, SubSeqEmpty
  <1>4. <<line[m]>> \in Seq(Nat)
    OBVIOUS
  <1> QED
    BY <1>2, <1>3, <1>4, ConcatEmptySeq

\* A word is read up to the blank or the end of the line behind it.
LEMMA ReadPlainWord ==
    ASSUME NEW line \in Seq(Nat), NEW start \in 1..Len(line),
           line[start] # Quote, ~Blank(line[start]),
           NEW b, b = ReadUpto(line)[start - 1], b.mode = "gap"
    PROVE  LET o2 == WordAt(line, start).o2
               a == ReadUpto(line)[o2 - 1]
           IN  /\ o2 \in start + 1..Len(line) + 1
               /\ a.mode = "word" /\ (o2 > Len(line) \/ Blank(line[o2]))
               /\ Closed(a).words = Append(b.words, SubSeq(line, start, o2 - 1))
               /\ Closed(a).starts = Append(b.starts, start)
  <1> DEFINE R == ReadUpto(line)
             o2 == WordAt(line, start).o2
             In(r, i) == /\ r.mode = "word" /\ r.word = SubSeq(line, start, i)
                         /\ r.words = b.words
                         /\ r.starts = Append(b.starts, start)
             last == o2 - 1
             S == {i \in start..last : In(R[i], i)}
  <1>1. /\ o2 \in start + 1..Len(line) + 1
        /\ \A i \in start..o2 - 1 : ~Blank(line[i])
        /\ o2 <= Len(line) => Blank(line[o2])
    BY PlainWordFacts
  <1> HIDE DEF o2, R
  <1>2. /\ start \in Nat /\ last \in Nat /\ last \in start..Len(line)
        /\ Len(line) \in Nat
    BY <1>1
  <1>3. start \in S
    <2> DEFINE c == line[start]
    <2>1. R[start] = ReadNext(b, c, start)
      BY ReadUptoFacts DEF R
    <2>2. c # Quote /\ ~Blank(c) /\ c \in Nat
      OBVIOUS
    <2>3. SubSeq(line, start, start) = <<c>>
      BY SingleSubSeq
    <2> HIDE DEF c
    <2>4. ReadNext(b, c, start) = Begun(b, start, "word", <<c>>)
      BY <2>2, InGap
    <2>5. In(ReadNext(b, c, start), start)
      BY <2>3, <2>4 DEF Begun
    <2>6. start \in start..last
      BY <1>2
    <2> HIDE DEF In
    <2> QED
      BY <2>1, <2>5, <2>6
  <1>4. ASSUME NEW i \in start..last, i \in S, i < last
        PROVE  i + 1 \in S
    <2> DEFINE r == R[i]
               c == line[i + 1]
               j == i + 1
    <2>1. j \in start..last /\ j \in 1..Len(line) /\ j - 1 = i
      <3> HIDE DEF last
      <3> QED
        BY <1>2, <1>4
    <2>2. R[j] = ReadNext(r, c, j)
      BY <2>1, ReadUptoFacts DEF R
    <2>3. ~Blank(c)
      BY <1>1, <2>1
    <2>4. SubSeq(line, start, j) = Append(SubSeq(line, start, i), c)
      BY <1>2, <1>4, <2>1, OneMore
    <2>5. In(r, i)
      BY <1>4
    <2> HIDE DEF r, c, j
    <2>6. ReadNext(r, c, j) = Goes(r, Append(r.word, c))
      BY <2>3, <2>5, InWord
    <2>7. In(ReadNext(r, c, j), j)
      BY <2>4, <2>5, <2>6 DEF Goes
    <2> HIDE DEF In
    <2>8. j \in S
      BY <2>1, <2>2, <2>7
    <2> QED
      BY <2>8 DEF j
  <1>5. start..last \subseteq S
    <2> HIDE DEF S, last
    <2> QED
      BY <1>2, <1>3, <1>4, IntervalInduction
  <1>6. In(R[last], last)
    <2>1. last \in S
      BY <1>2, <1>5
    <2> HIDE DEF In
    <2> QED
      BY <2>1
  <1> DEFINE a == R[last]
  <1> HIDE DEF a
  <1>7. In(a, last)
    BY <1>6 DEF a
  <1>8. Closed(a) = Ended(a) /\ a.mode = "word"
    BY <1>7 DEF Closed
  <1>9. /\ Closed(a).words = Append(b.words, SubSeq(line, start, last))
        /\ Closed(a).starts = Append(b.starts, start)
    <2>1. /\ Ended(a).words = Append(a.words, a.word)
          /\ Ended(a).starts = a.starts
      BY DEF Ended
    <2> QED
      BY <1>7, <1>8, <2>1, Zenon
  <1> QED
    BY <1>1, <1>8, <1>9 DEF a, R, o2

\* What a reader of w has after k characters: with the backslash that the next
\* one may replace.
Typed(w, k) ==
    IF k >= 1 /\ Escape(w, k) THEN Append(UnescapedUpto(w)[k], Backslash)
    ELSE UnescapedUpto(w)[k]

\* The reader's last character is a backslash.
Escaping(t) == t # <<>> /\ Last(t) = Backslash

LEMMA LastFacts ==
    ASSUME NEW s \in Seq(Nat), NEW c \in Nat
    PROVE  /\ Append(s, c) \in Seq(Nat) /\ Append(s, c) # <<>>
           /\ Last(Append(s, c)) = c /\ Front(Append(s, c)) = s
  <1> DEFINE t == Append(s, c)
  <1>1. /\ t \in Seq(Nat) /\ t # <<>> /\ Len(t) = Len(s) + 1
        /\ \A i \in 1..Len(s) : t[i] = s[i]
        /\ t[Len(s) + 1] = c
    BY AppendProperties
  <1>2. Len(s) \in Nat
    OBVIOUS
  <1> HIDE DEF t
  <1>3. Last(t) = c
    BY <1>1, <1>2 DEF Last
  <1>4. Front(t) = s
    <2>1. Front(t) = SubSeq(t, 1, Len(s))
      BY <1>1, <1>2 DEF Front
    <2>2. \A i \in 1..Len(s) : t[i] \in Nat
      BY <1>1
    <2>3. /\ SubSeq(t, 1, Len(s)) \in Seq(Nat)
          /\ Len(SubSeq(t, 1, Len(s))) = Len(s)
          /\ \A i \in 1..Len(s) : SubSeq(t, 1, Len(s))[i] = t[i]
      BY <1>2, <2>2, SubSeqProperties
    <2> DEFINE f == SubSeq(t, 1, Len(s))
    <2> HIDE DEF f
    <2>4. f \in Seq(Nat) /\ Len(f) = Len(s) /\ \A i \in 1..Len(s) : f[i] = s[i]
      BY <1>1, <2>3 DEF f
    <2>5. f = s
      BY <2>4, SeqEqual
    <2> QED
      BY <2>1, <2>5 DEF f
  <1> QED
    BY <1>1, <1>3, <1>4 DEF t

LEMMA TypedFacts ==
    ASSUME NEW w \in Seq(Nat), NEW k \in 0..Len(w)
    PROVE  /\ Typed(w, k) \in Seq(Nat)
           /\ Escaping(Typed(w, k)) <=> k >= 1 /\ w[k] = Backslash
           /\ k = 0 => Typed(w, k) = <<>>
           /\ k = Len(w) => Typed(w, k) = Unescaped(w)
  <1> DEFINE U == UnescapedUpto(w)
             t == Typed(w, k)
  <1>0. Len(w) \in Nat /\ Backslash \in Nat /\ U[k] \in Seq(Nat)
    BY UnescapedFacts DEF Backslash
  <1>1. CASE k = 0
    <2>1. t = <<>>
      BY <1>1, UnescapedFacts DEF Typed
    <2>2. k = Len(w) => Typed(w, k) = Unescaped(w)
      BY <1>1 DEF Typed, Unescaped
    <2>3. ~Escaping(t) /\ t \in Seq(Nat)
      <3> HIDE DEF t
      <3> QED
        BY <2>1 DEF Escaping
    <2> HIDE DEF t
    <2>4. ~(k >= 1)
      BY <1>1
    <2> QED
      BY <2>1, <2>2, <2>3, <2>4, Zenon DEF t
  <1>2. CASE k # 0
    <2>0. k >= 1 /\ k \in 1..Len(w) /\ k - 1 \in 0..Len(w) /\ w[k] \in Nat
      BY <1>2
    <2>1. CASE Escape(w, k)
      <3>1. t = Append(U[k], Backslash) /\ w[k] = Backslash /\ k # Len(w)
        BY <2>0, <2>1 DEF Typed, Escape
      <3>2. t \in Seq(Nat) /\ t # <<>> /\ Last(t) = Backslash
        <4> HIDE DEF t, U
        <4> QED
          BY <1>0, <3>1, LastFacts
      <3>3. Escaping(t)
        <4> HIDE DEF t
        <4> QED
          BY <3>2 DEF Escaping
      <3> HIDE DEF t
      <3>4. Escaping(t) <=> k >= 1 /\ w[k] = Backslash
        BY <2>0, <3>1, <3>3
      <3> QED
        BY <1>2, <3>1, <3>2, <3>4 DEF t
    <2>2. CASE ~Escape(w, k)
      <3>1. t = U[k] /\ U[k] = Append(U[k - 1], w[k])
        BY <2>0, <2>2, UnescapedFacts DEF Typed
      <3>2. U[k - 1] \in Seq(Nat)
        BY <2>0, UnescapedFacts
      <3> DEFINE u == U[k - 1]
                 c == w[k]
      <3>3. t \in Seq(Nat) /\ t # <<>> /\ Last(t) = c
        <4>1. t = Append(u, c) /\ u \in Seq(Nat) /\ c \in Nat
          BY <2>0, <3>1, <3>2
        <4> HIDE DEF t, u, c
        <4> QED
          BY <4>1, LastFacts
      <3>4. k = Len(w) => t = Unescaped(w)
        BY <3>1 DEF Unescaped
      <3> QED
        BY <1>2, <2>0, <3>3, <3>4 DEF Escaping
    <2> QED
      BY <2>1, <2>2
  <1> QED
    BY <1>1, <1>2

\* The next character of w.
LEMMA TypedNext ==
    ASSUME NEW w \in Seq(Nat), NEW k \in 0..Len(w), k < Len(w)
    PROVE  /\ w[k + 1] = Quote /\ Escaping(Typed(w, k)) =>
                Typed(w, k + 1) = Append(Front(Typed(w, k)), Quote)
           /\ w[k + 1] # Quote => Typed(w, k + 1) = Append(Typed(w, k), w[k + 1])
  <1> DEFINE U == UnescapedUpto(w)
             c == w[k + 1]
             j == k + 1
  <1>0. /\ Len(w) \in Nat /\ Backslash \in Nat /\ Quote \in Nat
        /\ Backslash # Quote /\ U[k] \in Seq(Nat) /\ c \in Nat
        /\ j \in 1..Len(w) /\ j - 1 = k /\ j >= 1
    BY UnescapedFacts DEF Backslash, Quote
  <1>1. U[j] = IF Escape(w, j) THEN U[k] ELSE Append(U[k], c)
    BY <1>0, UnescapedFacts
  <1>2. ASSUME c = Quote, Escaping(Typed(w, k))
        PROVE  Typed(w, j) = Append(Front(Typed(w, k)), Quote)
    <2>1. k >= 1 /\ Escape(w, k)
      BY <1>0, <1>2, TypedFacts DEF Escape
    <2>2. Typed(w, k) = Append(U[k], Backslash)
      BY <2>1 DEF Typed
    <2>3. Front(Typed(w, k)) = U[k]
      <3> HIDE DEF U
      <3> QED
        BY <1>0, <2>2, LastFacts
    <2>4. ~Escape(w, j)
      BY <1>0, <1>2 DEF Escape
    <2>5. Typed(w, j) = Append(U[k], c)
      BY <1>1, <2>4 DEF Typed
    <2> HIDE DEF c, U, j
    <2> QED
      BY <1>2, <2>3, <2>5
  <1>3. ASSUME c # Quote
        PROVE  Typed(w, j) = Append(Typed(w, k), c)
    <2>1. Typed(w, k) = U[k]
      BY <1>3 DEF Typed, Escape
    <2>2. CASE Escape(w, j)
      <3>1. Typed(w, j) = Append(U[j], Backslash) /\ c = Backslash
        BY <1>0, <2>2 DEF Typed, Escape
      <3> HIDE DEF c, U, j
      <3> QED
        BY <1>1, <2>1, <2>2, <3>1
    <2>3. CASE ~Escape(w, j)
      <3>1. Typed(w, j) = U[j]
        BY <2>3 DEF Typed
      <3> HIDE DEF c, U, j
      <3> QED
        BY <1>1, <2>1, <2>3, <3>1
    <2> QED
      BY <2>2, <2>3
  <1> QED
    BY <1>2, <1>3

\* The quote that starts at start ends at e, or not at all.
EndsQuote(line, start, e) ==
    /\ \A i \in start + 1..e - 1 : i \notin QuoteEnds(line, start)
    /\ e <= Len(line) => e \in QuoteEnds(line, start)

\* From the state b in front of it, that quote is read to its end, or to the
\* end of the line and left open.
QuoteRead(line, start, b, e) ==
    /\ e > Len(line) => ReadUpto(line)[Len(line)].mode = "quote"
    /\ e <= Len(line) =>
         LET a == ReadUpto(line)[e]
             w == SubSeq(line, start + 1, e - 1)
         IN  /\ a.mode = "gap"
             /\ a.words = Append(b.words, Unescaped(w))
             /\ a.starts = Append(b.starts, start)

LEMMA QuoteBounds ==
    ASSUME NEW n \in Nat, NEW start \in 1..n, NEW e \in start + 1..n + 1
    PROVE  /\ start \in Nat /\ e \in Nat
           /\ e - 1 \in Nat /\ e - 1 \in start..n /\ (e - 1) - start \in Nat
  OBVIOUS

LEMMA ReadQuote ==
    ASSUME NEW line \in Seq(Nat), NEW start \in 1..Len(line),
           line[start] = Quote,
           NEW b, b = ReadUpto(line)[start - 1], b.mode = "gap",
           NEW e \in start + 1..Len(line) + 1, EndsQuote(line, start, e)
    PROVE  QuoteRead(line, start, b, e)
  <1> DEFINE R == ReadUpto(line)
             w == SubSeq(line, start + 1, e - 1)
             In(r, i) == /\ r.mode = "quote" /\ r.word = Typed(w, i - start)
                         /\ r.words = b.words
                         /\ r.starts = Append(b.starts, start)
             last == e - 1
             S == {i \in start..last : In(R[i], i)}
  <1>1. /\ start \in Nat /\ last \in Nat /\ last \in start..Len(line)
        /\ Len(line) \in Nat /\ e \in Nat /\ last - start \in Nat
    <2>1. Len(line) \in Nat
      BY LenProperties
    <2> QED
      BY <2>1, QuoteBounds
  <1>2. /\ w \in Seq(Nat) /\ Len(w) = last - start
        /\ \A k \in 1..Len(w) : w[k] = line[start + k]
    <2> DEFINE m == start + 1
    <2>1. m \in Int /\ last \in Int /\ \A i \in m..last : line[i] \in Nat
      BY <1>1
    <2>2. /\ SubSeq(line, m, last) \in Seq(Nat)
          /\ Len(SubSeq(line, m, last)) = IF m <= last THEN last - m + 1 ELSE 0
          /\ \A k \in 1..last - m + 1 : SubSeq(line, m, last)[k] = line[m + k - 1]
      <3> HIDE DEF m, last
      <3> QED
        BY <2>1, SubSeqProperties
    <2>3. w = SubSeq(line, m, last)
      OBVIOUS
    <2> HIDE DEF w, last
    <2>4. Len(w) = last - start
      BY <1>1, <2>2, <2>3
    <2>5. \A k \in 1..Len(w) : w[k] = line[start + k]
      <3> TAKE k \in 1..Len(w)
      <3>1. k \in 1..last - m + 1 /\ m + k - 1 = start + k
        BY <1>1, <2>4
      <3> HIDE DEF m
      <3> QED
        BY <2>2, <2>3, <3>1
    <2> QED
      BY <2>2, <2>3, <2>4, <2>5
  <1> HIDE DEF R, w, last
  <1>3. start \in S
    <2>1. R[start] = ReadNext(b, Quote, start)
      BY ReadUptoFacts DEF R
    <2>2. ReadNext(b, Quote, start) = Begun(b, start, "quote", <<>>)
      BY InGap
    <2>3. Typed(w, start - start) = <<>>
      <3>1. start - start = 0 /\ 0 \in 0..Len(w)
        BY <1>1, <1>2
      <3> QED
        BY <1>2, <3>1, TypedFacts
    <2>4. In(ReadNext(b, Quote, start), start)
      <3> DEFINE r == Begun(b, start, "quote", <<>>)
      <3>1. /\ r.mode = "quote" /\ r.word = <<>> /\ r.words = b.words
            /\ r.starts = Append(b.starts, start)
        BY DEF Begun
      <3> HIDE DEF r
      <3>2. In(r, start)
        BY <2>3, <3>1, Zenon
      <3> QED
        BY <2>2, <3>2 DEF r
    <2>5. start \in start..last
      BY <1>1
    <2> HIDE DEF In
    <2> QED
      BY <2>1, <2>4, <2>5
  <1>4. ASSUME NEW i \in start..last, i \in S, i < last
        PROVE  i + 1 \in S
    <2> DEFINE r == R[i]
               c == line[i + 1]
               j == i + 1
               k == i - start
               t == Typed(w, k)
    <2>1. /\ j \in start..last /\ j \in 1..Len(line) /\ j - 1 = i
          /\ k \in 0..Len(w) /\ k < Len(w) /\ k + 1 \in 1..Len(w)
          /\ start + (k + 1) = j /\ j - start = k + 1
      BY <1>1, <1>2, <1>4
    <2>2. R[j] = ReadNext(r, c, j)
      <3> HIDE DEF j
      <3>1. R[j] = ReadNext(R[j - 1], line[j], j)
        BY <2>1, ReadUptoFacts DEF R
      <3>2. r = R[j - 1] /\ c = line[j]
        BY <2>1 DEF j
      <3> QED
        BY <3>1, <3>2
    <2>3. w[k + 1] = c
      <3> HIDE DEF k, j
      <3>1. w[k + 1] = line[start + (k + 1)]
        BY <1>2, <2>1
      <3> QED
        BY <2>1, <3>1 DEF j
    <2>4. c = Quote => Escaping(t)
      <3> SUFFICES ASSUME c = Quote PROVE Escaping(t)
        OBVIOUS
      <3>1. j \notin QuoteEnds(line, start) /\ j \in start + 1..Len(line)
        <4>1. j \in start + 1..last /\ last <= Len(line)
          BY <1>1, <1>4
        <4> HIDE DEF j
        <4> QED
          BY <1>1, <4>1 DEF last, EndsQuote
      <3>2. j # start + 1 /\ line[j - 1] = Backslash
        BY <3>1 DEF QuoteEnds
      <3>3. k >= 1 /\ k \in 1..Len(w) /\ w[k] = line[start + k] /\ start + k = i
        BY <1>1, <1>2, <1>4, <2>1, <3>2
      <3>4. w[k] = Backslash
        BY <2>1, <3>2, <3>3
      <3> HIDE DEF k, j, c, r
      <3> QED
        BY <1>2, <2>1, <3>3, <3>4, TypedFacts DEF t
    <2>5. /\ c = Quote => Typed(w, k + 1) = Append(Front(t), Quote)
          /\ c # Quote => Typed(w, k + 1) = Append(t, c)
      <3> HIDE DEF k, c, j, r
      <3> QED
        BY <1>2, <2>1, <2>3, <2>4, TypedNext DEF t
    <2>6. In(r, i)
      BY <1>4
    <2>7. r.word = t /\ r.mode = "quote" /\ r.words = b.words
          /\ r.starts = Append(b.starts, start)
      BY <2>6
    <2> HIDE DEF r, c, j, k, t
    <2>8. /\ c = Quote => ReadNext(r, c, j) = Goes(r, Append(Front(t), Quote))
          /\ c # Quote => ReadNext(r, c, j) = Goes(r, Append(t, c))
      BY <2>4, <2>7, InQuote DEF Escaping
    <2>9. ReadNext(r, c, j) = Goes(r, Typed(w, k + 1))
      BY <2>5, <2>8
    <2>10. In(ReadNext(r, c, j), j)
      <3> DEFINE g == Goes(r, Typed(w, k + 1))
      <3>1. /\ g.mode = r.mode /\ g.word = Typed(w, k + 1)
            /\ g.words = r.words /\ g.starts = r.starts
        BY DEF Goes
      <3> HIDE DEF g
      <3>2. g.word = Typed(w, j - start)
        BY <2>1, <3>1, Zenon
      <3>3. In(g, j)
        BY <2>7, <3>1, <3>2, Zenon
      <3> QED
        BY <2>9, <3>3 DEF g
    <2> HIDE DEF In
    <2>11. j \in S
      BY <2>1, <2>2, <2>10
    <2> QED
      BY <2>11 DEF j
  <1>5. start..last \subseteq S
    <2> HIDE DEF S
    <2> QED
      BY <1>1, <1>3, <1>4, IntervalInduction
  <1>6. In(R[last], last)
    <2>1. last \in S
      BY <1>1, <1>5
    <2> HIDE DEF In
    <2> QED
      BY <2>1
  <1>7. CASE e > Len(line)
    <2>1. last = Len(line)
      BY <1>1, <1>7 DEF last
    <2>2. ReadUpto(line)[Len(line)].mode = "quote"
      BY <1>6, <2>1 DEF R
    <2> QED
      BY <1>7, <2>2 DEF QuoteRead
  <1>8. CASE e <= Len(line)
    <2> DEFINE r == R[last]
               a == R[e]
    <2>1. e \in 1..Len(line) /\ e - 1 = last /\ e >= start + 1
      BY <1>1, <1>8 DEF last
    <2>2. line[e] = Quote /\ (e = start + 1 \/ line[e - 1] # Backslash)
      BY <1>8 DEF QuoteEnds, EndsQuote
    <2>3. a = ReadNext(r, Quote, e)
      BY <2>1, <2>2, ReadUptoFacts DEF R
    <2>4. r.word = Unescaped(w) /\ ~Escaping(r.word)
      <3> DEFINE k == last - start
      <3>1. k \in 0..Len(w) /\ k = Len(w)
        BY <1>1, <1>2
      <3>2. k >= 1 => w[k] # Backslash
        <4> SUFFICES ASSUME k >= 1 PROVE w[k] # Backslash
          OBVIOUS
        <4>1. w[k] = line[start + k] /\ start + k = last /\ e # start + 1
          BY <1>1, <1>2, <2>1, <3>1
        <4> QED
          BY <2>1, <2>2, <4>1
      <3>3. r.word = Typed(w, k)
        BY <1>6
      <3> HIDE DEF k, r
      <3>4. Typed(w, k) = Unescaped(w) /\ ~Escaping(Typed(w, k))
        BY <1>2, <3>1, <3>2, TypedFacts
      <3> QED
        BY <3>3, <3>4
    <2>5. /\ r.mode = "quote" /\ r.words = b.words
          /\ r.starts = Append(b.starts, start)
      BY <1>6
    <2> HIDE DEF r, a
    <2>6. a = Ended(r)
      BY <2>3, <2>4, <2>5, InQuote DEF Escaping
    <2>7. /\ a.mode = "gap"
          /\ a.words = Append(b.words, Unescaped(w))
          /\ a.starts = Append(b.starts, start)
      BY <2>4, <2>5, <2>6 DEF Ended
    <2> QED
      BY <1>8, <2>7 DEF a, w, R, last, QuoteRead
  <1> QED
    BY <1>1, <1>7, <1>8

\* One word: the reader is ready for the next search behind it, and has read
\* what addWord takes.
WordRead(line, start, o2, a, b) ==
    LET w == WordAt(line, start) IN
    /\ Ready(line, o2)
    /\ b.words = Append(a.words, AddWord(line, start, w.o2, w.ended))
    /\ b.starts = Append(a.starts, start)

LEMMA ReadWord ==
    ASSUME NEW line \in Seq(Nat), ~OpenQuote(line),
           NEW o \in 1..Len(line) + 1, Ready(line, o), HasWord(line, o),
           NEW start, start = SkipBlanks(line, o),
           NEW o2, o2 = AfterWord(line, o),
           NEW a, a = Closed(ReadUpto(line)[o - 1]),
           NEW b, b = Closed(ReadUpto(line)[o2 - 1])
    PROVE  WordRead(line, start, o2, a, b)
  <1> DEFINE R == ReadUpto(line)
             w == WordAt(line, start)
             r == R[start - 1]
  <1>1. /\ start \in 1..Len(line) /\ ~Blank(line[start]) /\ start <= Len(line)
        /\ Len(line) \in Nat
    BY SkipBlanksFacts DEF HasWord
  <1>2. r = a /\ r.mode = "gap"
    BY <1>1, ReadBlanks
  <1>3. o2 = w.o2
    BY DEF AfterWord
  <1>4. CASE line[start] # Quote
    <2> DEFINE p == R[o2 - 1]
    <2>1. /\ o2 \in start + 1..Len(line) + 1
          /\ p.mode = "word" /\ (o2 > Len(line) \/ Blank(line[o2]))
          /\ Closed(p).words = Append(r.words, SubSeq(line, start, o2 - 1))
          /\ Closed(p).starts = Append(r.starts, start)
      <3> HIDE DEF r
      <3>1. r = ReadUpto(line)[start - 1]
        BY DEF r
      <3>2. r.mode = "gap" /\ start \in 1..Len(line) /\ ~Blank(line[start])
        BY <1>1, <1>2
      <3> HIDE DEF R, w, p
      <3>3. LET p2 == ReadUpto(line)[w.o2 - 1] IN
            /\ w.o2 \in start + 1..Len(line) + 1
            /\ p2.mode = "word" /\ (w.o2 > Len(line) \/ Blank(line[w.o2]))
            /\ Closed(p2).words = Append(r.words, SubSeq(line, start, w.o2 - 1))
            /\ Closed(p2).starts = Append(r.starts, start)
        BY <1>4, <3>1, <3>2, ReadPlainWord, Zenon DEF w
      <3> QED
        BY <1>3, <3>3 DEF p, R
    <2>2. AddWord(line, start, w.o2, w.ended) = SubSeq(line, start, o2 - 1)
      BY <1>3, <1>4 DEF AddWord
    <2>3. Ready(line, o2)
      BY <2>1 DEF Ready
    <2>4. b = Closed(p)
      OBVIOUS
    <2> HIDE DEF p, r, w
    <2> QED
      BY <1>2, <2>1, <2>2, <2>3, <2>4 DEF w, WordRead
  <1>5. CASE line[start] = Quote
    <2>1. PICK e \in start + 1..Len(line) + 1 :
              /\ \A i \in start + 1..e - 1 : i \notin QuoteEnds(line, start)
              /\ e <= Len(line) => e \in QuoteEnds(line, start)
              /\ w.o2 = IF e <= Len(line) THEN e + 1 ELSE e
              /\ w.ended <=> e <= Len(line)
      BY <1>1, <1>5, QuoteFacts
    <2> DEFINE p == R[e]
               q == SubSeq(line, start + 1, e - 1)
    <2>2. /\ e > Len(line) => ReadUpto(line)[Len(line)].mode = "quote"
          /\ e <= Len(line) => /\ p.mode = "gap"
                               /\ p.words = Append(r.words, Unescaped(q))
                               /\ p.starts = Append(r.starts, start)
      <3> HIDE DEF r
      <3>1. r = ReadUpto(line)[start - 1]
        BY DEF r
      <3>2. r.mode = "gap" /\ start \in 1..Len(line)
        BY <1>1, <1>2
      <3>3. EndsQuote(line, start, e)
        BY <2>1 DEF EndsQuote
      <3>4. QuoteRead(line, start, r, e)
        BY <1>5, <3>1, <3>2, <3>3, ReadQuote
      <3> QED
        BY <3>4 DEF QuoteRead
    <2>3. e <= Len(line)
      <3> SUFFICES ASSUME e > Len(line) PROVE FALSE
        BY <1>1, <2>1
      <3>1. R[Len(line)].mode = "quote"
        BY <2>2
      <3> QED
        BY <3>1 DEF OpenQuote, ReadLine, Closed
    <2>4. o2 = e + 1 /\ o2 - 1 = e /\ o2 - 2 = e - 1 /\ w.ended
      BY <1>1, <1>3, <2>1, <2>3
    <2>5. AddWord(line, start, w.o2, w.ended) = Unescaped(q)
      BY <1>3, <1>5, <2>4 DEF AddWord
    <2>6. b = Closed(p)
      BY <2>4
    <2> HIDE DEF r, w, q, p
    <2>7. b = p
      BY <2>2, <2>3, <2>6 DEF Closed
    <2>8. Ready(line, o2)
      BY <2>2, <2>3, <2>4 DEF Ready, p
    <2> QED
      BY <1>2, <2>2, <2>3, <2>5, <2>7, <2>8 DEF w, WordRead
  <1> QED
    BY <1>4, <1>5

\* Behind the last word only blanks are left.
LEMMA ReadNoWord ==
    ASSUME NEW line \in Seq(Nat), ~OpenQuote(line),
           NEW o \in 1..Len(line) + 1, Ready(line, o), ~HasWord(line, o)
    PROVE  ReadLine(line) = Closed(ReadUpto(line)[o - 1])
  <1> DEFINE R == ReadUpto(line)
             start == SkipBlanks(line, o)
             n == Len(line)
             r == R[start - 1]
  <1>1. start \in 1..n + 1 /\ n \in Nat
    BY SkipBlanksFacts
  <1>2. /\ Closed(r) = Closed(R[o - 1])
        /\ start <= n => r.mode = "gap"
    BY ReadBlanks
  <1>3. CASE start <= n
    <2>1. start = n /\ line[start] = Quote
      BY <1>3 DEF HasWord
    <2>2. n \in 1..n
      BY <1>1, <2>1
    <2>3. R[n] = ReadNext(r, Quote, n)
      BY <2>1, <2>2, ReadUptoFacts
    <2>4. ReadNext(r, Quote, n) = Begun(r, n, "quote", <<>>)
      <3> HIDE DEF r, n
      <3> QED
        BY <1>2, <1>3, InGap
    <2>5. R[n].mode = "quote"
      BY <2>3, <2>4 DEF Begun
    <2> QED
      BY <2>5 DEF OpenQuote, ReadLine, Closed
  <1>4. CASE ~(start <= n)
    <2>1. start - 1 = n
      BY <1>1, <1>4
    <2> QED
      BY <1>2, <2>1 DEF ReadLine
  <1> QED
    BY <1>3, <1>4

\* The searches end: count of them find a word, and the next one none.
LEMMA GetWordsFacts ==
    ASSUME NEW line \in Seq(Nat)
    PROVE  \E count \in 0..Len(line) :
              /\ \A n \in 0..count - 1 : HasWord(line, Searches(line)[n])
              /\ ~HasWord(line, Searches(line)[count])
              /\ DOMAIN GetWords(line) = 1..count
              /\ \A k \in 1..count :
                    LET start == SkipBlanks(line, Searches(line)[k - 1])
                        w == WordAt(line, start)
                    IN  /\ GetWords(line)[k].text =
                                AddWord(line, start, w.o2, w.ended)
                        /\ GetWords(line)[k].start = start
  <1> DEFINE O == Searches(line)
             H == {n \in 0..Len(line) : ~HasWord(line, O[n])}
             count == Min(H)
  <1>0. Len(line) \in Nat /\ \A n \in 0..Len(line) : O[n] \in 1..Len(line) + 1
    BY SearchesFacts
  <1>1. H # {}
    <2> SUFFICES ASSUME H = {} PROVE FALSE
      OBVIOUS
    <2> DEFINE S == {n \in 0..Len(line) : O[n] >= n + 1}
    <2>1. 0 \in S
      BY <1>0, SearchesFacts
    <2>2. ASSUME NEW n \in 0..Len(line), n \in S, n < Len(line)
          PROVE  n + 1 \in S
      <3> DEFINE o == O[n]
                 j == n + 1
      <3>1. j \in 1..Len(line) /\ j - 1 = n /\ j \in 0..Len(line)
        BY <2>2
      <3>2. HasWord(line, o) /\ o \in 1..Len(line) + 1 /\ o >= n + 1
        BY <1>0, <2>2
      <3>3. O[j] = AfterWord(line, o)
        BY <3>1, SearchesFacts
      <3>4. AfterWord(line, o) \in o..Len(line) + 1 /\ AfterWord(line, o) > o
        <4> HIDE DEF o
        <4> QED
          BY <3>2, AfterWordFacts
      <3> HIDE DEF O, o
      <3>5. O[j] >= j + 1
        BY <3>2, <3>3, <3>4
      <3> HIDE DEF j
      <3>6. j \in S
        BY <3>1, <3>5
      <3> QED
        BY <3>6 DEF j
    <2>3. 0..Len(line) \subseteq S
      <3> HIDE DEF S, O
      <3>1. 0 \in Nat
        OBVIOUS
      <3> QED
        BY <1>0, <2>1, <2>2, <3>1, IntervalInduction
    <2> DEFINE o == O[Len(line)]
    <2>4. o = Len(line) + 1 /\ HasWord(line, o)
      <3>1. Len(line) \in S /\ Len(line) \in 0..Len(line)
        BY <1>0, <2>3
      <3> QED
        BY <1>0, <3>1
    <2> HIDE DEF o
    <2>5. SkipBlanks(line, o) >= Len(line) + 1
      BY <1>0, <2>4, SkipBlanksFacts
    <2>6. SkipBlanks(line, o) <= Len(line)
      BY <2>4 DEF HasWord
    <2>7. SkipBlanks(line, o) \in o..Len(line) + 1
      BY <1>0, <2>4, SkipBlanksFacts
    <2> QED
      BY <1>0, <2>4, <2>5, <2>6, <2>7
  <1>2. count \in H /\ \A n \in H : count <= n
    <2>1. H \in SUBSET Nat
      OBVIOUS
    <2> HIDE DEF H
    <2> QED
      BY <1>1, <2>1, MinFacts
  <1>3. GetWords(line) =
          [k \in 1..count |->
            [text |-> AddWord(line, SkipBlanks(line, O[k - 1]),
                        WordAt(line, SkipBlanks(line, O[k - 1])).o2,
                        WordAt(line, SkipBlanks(line, O[k - 1])).ended),
             start |-> SkipBlanks(line, O[k - 1])]]
    BY Zenon DEF GetWords
  <1> HIDE DEF count, O
  <1>4. \A n \in 0..count - 1 : HasWord(line, O[n])
    BY <1>0, <1>2
  <1>5. count \in 0..Len(line) /\ ~HasWord(line, O[count])
    BY <1>2
  <1>6. DOMAIN GetWords(line) = 1..count
    BY <1>3, Zenon
  <1>7. \A k \in 1..count :
          /\ GetWords(line)[k].text =
                AddWord(line, SkipBlanks(line, O[k - 1]),
                        WordAt(line, SkipBlanks(line, O[k - 1])).o2,
                        WordAt(line, SkipBlanks(line, O[k - 1])).ended)
          /\ GetWords(line)[k].start = SkipBlanks(line, O[k - 1])
    BY <1>3
  <1> QED
    BY <1>4, <1>5, <1>6, <1>7 DEF O

LEMMA ClosedType ==
    ASSUME NEW line \in Seq(Nat), NEW o \in 1..Len(line) + 1
    PROVE  /\ Closed(ReadUpto(line)[o - 1]).words \in Seq(Seq(Nat))
           /\ Closed(ReadUpto(line)[o - 1]).starts \in Seq(Nat)
  <1> DEFINE r == ReadUpto(line)[o - 1]
  <1>1. r \in Readings
    <2>1. o - 1 \in 0..Len(line)
      OBVIOUS
    <2> QED
      BY <2>1, ReadUptoFacts
  <1> HIDE DEF r
  <1>2. Closed(r) \in Readings
    BY <1>1, EndedType DEF Closed
  <1>3. Closed(r).words \in Seq(Seq(Nat)) /\ Closed(r).starts \in Seq(Nat)
    <2> DEFINE c == Closed(r)
    <2> HIDE DEF c
    <2>1. c \in Readings
      BY <1>2 DEF c
    <2>2. c.words \in Seq(Seq(Nat)) /\ c.starts \in Seq(Nat)
      BY <2>1, ReadingTypes
    <2> QED
      BY <2>2 DEF c
  <1> QED
    BY <1>3 DEF r

LEMMA AppendOne ==
    ASSUME NEW V, NEW s \in Seq(V), NEW x
    PROVE  /\ Len(Append(s, x)) = Len(s) + 1
           /\ \A i \in 1..Len(s) : Append(s, x)[i] = s[i]
           /\ Append(s, x)[Len(s) + 1] = x
  <1> DEFINE W == V \cup {x}
  <1>1. s \in Seq(W) /\ x \in W
    OBVIOUS
  <1> HIDE DEF W
  <1> QED
    BY <1>1, AppendProperties

\* s has the first n elements of f.
Agrees(s, n, f) == Len(s) = n /\ \A k \in 1..n : s[k] = f[k]

LEMMA AgreesLonger ==
    ASSUME NEW V, NEW s \in Seq(V), NEW f, NEW n \in Nat, Agrees(s, n, f),
           NEW x, x = f[n + 1]
    PROVE  Agrees(Append(s, x), n + 1, f)
  <1> DEFINE t == Append(s, x)
  <1>1. /\ Len(t) = n + 1
        /\ \A i \in 1..n : t[i] = s[i] /\ s[i] = f[i]
        /\ t[n + 1] = x
    BY AppendOne DEF Agrees
  <1> HIDE DEF t
  <1>2. ASSUME NEW k \in 1..n + 1 PROVE t[k] = f[k]
    <2>1. CASE k = n + 1
      BY <1>1, <2>1
    <2>2. CASE k # n + 1
      BY <1>1, <2>2
    <2> QED
      BY <2>1, <2>2
  <1> QED
    BY <1>1, <1>2 DEF t, Agrees

\* Splitline::parse, which searches for the next blank or the next quote, finds
\* the words of any line, and where they start, as a reader does who takes it
\* character by character; unless a quote is left open.
THEOREM WordsRead ==
    ASSUME NEW line \in Seq(Nat), ~OpenQuote(line)
    PROVE  LET words == GetWords(line) IN
           /\ WordsReference(line) = [k \in DOMAIN words |-> words[k].text]
           /\ ReadLine(line).starts = [k \in DOMAIN words |-> words[k].start]
           /\ \E count \in Nat : DOMAIN words = 1..count
           /\ WordsReference(line) \in Seq(Seq(Nat))
           /\ ReadLine(line).starts \in Seq(Nat)
  <1> DEFINE O == Searches(line)
             G == GetWords(line)
             T == [k \in DOMAIN G |-> G[k].text]
             P == [k \in DOMAIN G |-> G[k].start]
             C(n) == Closed(ReadUpto(line)[O[n] - 1])
             Good(n) == /\ Ready(line, O[n])
                        /\ Len(C(n).words) = n /\ Len(C(n).starts) = n
                        /\ \A k \in 1..n : C(n).words[k] = T[k]
                        /\ \A k \in 1..n : C(n).starts[k] = P[k]
  <1>1. PICK count \in 0..Len(line) :
              /\ \A n \in 0..count - 1 : HasWord(line, O[n])
              /\ ~HasWord(line, O[count])
              /\ DOMAIN G = 1..count
              /\ \A k \in 1..count :
                    LET start == SkipBlanks(line, O[k - 1])
                        w == WordAt(line, start)
                    IN  /\ G[k].text = AddWord(line, start, w.o2, w.ended)
                        /\ G[k].start = start
    BY GetWordsFacts
  <1>2. /\ Len(line) \in Nat /\ count \in Nat /\ count <= Len(line)
        /\ O[0] = 1 /\ \A n \in 0..Len(line) : O[n] \in 1..Len(line) + 1
    BY <1>1, SearchesFacts
  <1>3. \A n \in 0..count : /\ C(n).words \in Seq(Seq(Nat))
                            /\ C(n).starts \in Seq(Nat)
    <2> TAKE n \in 0..count
    <2> DEFINE o == O[n]
    <2>1. o \in 1..Len(line) + 1
      BY <1>2
    <2> HIDE DEF o
    <2>2. /\ Closed(ReadUpto(line)[o - 1]).words \in Seq(Seq(Nat))
          /\ Closed(ReadUpto(line)[o - 1]).starts \in Seq(Nat)
      BY <2>1, ClosedType
    <2> QED
      BY <2>2 DEF o
  <1>4. Good(0)
    <2>1. O[0] - 1 = 0 /\ ReadUpto(line)[0] = Reading
      BY <1>2, ReadUptoFacts
    <2>2. /\ Reading.mode = "gap" /\ Closed(Reading) = Reading
          /\ Reading.words = <<>> /\ Reading.starts = <<>>
      BY DEF Reading, Closed
    <2>3. Ready(line, O[0])
      BY <2>1, <2>2 DEF Ready
    <2>4. C(0).words = <<>> /\ C(0).starts = <<>>
      BY <2>1, <2>2
    <2> HIDE DEF C, T, P, O
    <2> QED
      BY <2>3, <2>4
  <1>5. ASSUME NEW n \in 0..count, Good(n), n < count PROVE Good(n + 1)
    <2> DEFINE o == O[n]
               o2 == O[n + 1]
               start == SkipBlanks(line, o)
               w == WordAt(line, start)
               a == C(n)
               b == C(n + 1)
               k == n + 1
    <2>1. /\ n \in 0..count - 1 /\ k \in 1..count /\ k \in 1..Len(line)
          /\ k - 1 = n /\ n \in 0..Len(line) /\ n \in Nat
      BY <1>2, <1>5
    <2>2. HasWord(line, o) /\ o \in 1..Len(line) + 1 /\ Ready(line, o)
      BY <1>1, <1>2, <1>5, <2>1
    <2>3. o2 = AfterWord(line, o)
      <3> HIDE DEF k
      <3>1. O[k] = AfterWord(line, O[k - 1])
        BY <2>1, SearchesFacts
      <3> QED
        BY <2>1, <3>1 DEF k
    <2>4. /\ T[k] = AddWord(line, start, w.o2, w.ended) /\ P[k] = start
      <3> HIDE DEF k, O
      <3>1. /\ G[k].text = AddWord(line, SkipBlanks(line, O[k - 1]),
                    WordAt(line, SkipBlanks(line, O[k - 1])).o2,
                    WordAt(line, SkipBlanks(line, O[k - 1])).ended)
            /\ G[k].start = SkipBlanks(line, O[k - 1])
        BY <1>1, <2>1
      <3>2. T[k] = G[k].text /\ P[k] = G[k].start
        <4> HIDE DEF G
        <4> QED
          BY <1>1, <2>1
      <3> QED
        BY <2>1, <3>1, <3>2
    <2>5. /\ Ready(line, o2)
          /\ b.words = Append(a.words, T[k]) /\ b.starts = Append(a.starts, P[k])
      <3>1. /\ a = Closed(ReadUpto(line)[o - 1])
            /\ b = Closed(ReadUpto(line)[o2 - 1])
            /\ start = SkipBlanks(line, o)
        OBVIOUS
      <3> HIDE DEF o, o2, a, b, start, T, P, k
      <3>2. WordRead(line, start, o2, a, b)
        BY <2>2, <2>3, <3>1, ReadWord
      <3> QED
        BY <2>4, <3>2 DEF WordRead, w
    <2>6. /\ a.words \in Seq(Seq(Nat)) /\ a.starts \in Seq(Nat)
          /\ Len(a.words) = n /\ Len(a.starts) = n
          /\ \A i \in 1..n : a.words[i] = T[i]
          /\ \A i \in 1..n : a.starts[i] = P[i]
      BY <1>3, <1>5
    <2>7. Agrees(a.words, n, T) /\ Agrees(a.starts, n, P)
      BY <2>6 DEF Agrees
    <2>8. Agrees(b.words, n + 1, T) /\ Agrees(b.starts, n + 1, P)
      <3> DEFINE aw == a.words
                 as == a.starts
                 x == T[k]
                 y == P[k]
      <3>1. /\ aw \in Seq(Seq(Nat)) /\ as \in Seq(Nat)
            /\ n \in Nat /\ Agrees(aw, n, T) /\ Agrees(as, n, P)
            /\ x = T[n + 1] /\ y = P[n + 1]
            /\ b.words = Append(aw, x) /\ b.starts = Append(as, y)
        BY <2>1, <2>5, <2>6, <2>7
      <3> HIDE DEF aw, as, a, b, T, P, k, x, y
      <3>2. Agrees(Append(aw, x), n + 1, T)
        BY <3>1, AgreesLonger
      <3>3. Agrees(Append(as, y), n + 1, P)
        BY <3>1, AgreesLonger
      <3> QED
        BY <3>1, <3>2, <3>3
    <2> HIDE DEF T, P, C, O
    <2> QED
      BY <2>5, <2>8 DEF Agrees
  <1>6. Good(count)
    <2> DEFINE S == {n \in 0..count : Good(n)}
    <2> HIDE DEF Good
    <2>1. 0 \in S /\ \A n \in 0..count : n \in S /\ n < count => n + 1 \in S
      BY <1>2, <1>4, <1>5
    <2>2. 0..count \subseteq S
      <3> HIDE DEF S
      <3>1. 0 \in Nat
        OBVIOUS
      <3> QED
        BY <1>2, <2>1, <3>1, IntervalInduction
    <2>3. count \in 0..count
      BY <1>2
    <2> QED
      BY <2>2, <2>3
  <1>7. ReadLine(line) = C(count)
    <2> DEFINE o == O[count]
    <2>1. o \in 1..Len(line) + 1 /\ Ready(line, o) /\ ~HasWord(line, o)
      BY <1>1, <1>2, <1>6
    <2> HIDE DEF o
    <2>2. ReadLine(line) = Closed(ReadUpto(line)[o - 1])
      BY <2>1, ReadNoWord
    <2> QED
      BY <2>2 DEF o
  <1>8. C(count).words \in Seq(Seq(Nat)) /\ C(count).starts \in Seq(Nat)
    <2>1. count \in 0..count
      BY <1>2
    <2> HIDE DEF C
    <2> QED
      BY <1>3, <2>1
  <1> DEFINE cw == C(count).words
             cs == C(count).starts
  <1>9. /\ cw \in Seq(Seq(Nat)) /\ Len(cw) = count
        /\ \A k \in 1..count : cw[k] = T[k]
        /\ cs \in Seq(Nat) /\ Len(cs) = count
        /\ \A k \in 1..count : cs[k] = P[k]
    BY <1>6, <1>8
  <1>10. T = [k \in 1..count |-> T[k]] /\ P = [k \in 1..count |-> P[k]]
    <2> HIDE DEF G
    <2> QED
      BY <1>1
  <1>11. cw = T /\ cs = P
    <2> HIDE DEF cw, cs, T, P
    <2>1. cw = [k \in 1..count |-> cw[k]] /\ cs = [k \in 1..count |-> cs[k]]
      BY <1>9
    <2> QED
      BY <1>9, <1>10, <2>1
  <1>12. WordsReference(line) = cw /\ ReadLine(line).starts = cs
    BY <1>7 DEF WordsReference
  <1> HIDE DEF cw, cs
  <1> QED
    BY <1>1, <1>2, <1>9, <1>11, <1>12

-----------------------------------------------------------------------------
(* uPrintf.                                                                *)

\* What the i-th character of s prints: the slash before it, then itself.
Held(s, i) == IF i > 1 /\ s[i - 1] = Slash THEN <<Slash>> ELSE <<>>
Shown(s, i) ==
    IF s[i] = Slash THEN <<>> ELSE IF s[i] = LF THEN <<CR, LF>> ELSE <<s[i]>>

LEMMA PrintedUptoFacts ==
    ASSUME NEW s \in Seq(Nat)
    PROVE  /\ PrintedUpto(s)[0] = <<>>
           /\ \A i \in 0..Len(s) : PrintedUpto(s)[i] \in Seq(Nat)
           /\ \A i \in 1..Len(s) :
                PrintedUpto(s)[i] = PrintedUpto(s)[i - 1] \o Held(s, i) \o Shown(s, i)
  <1> DEFINE n == Len(s)
             V == Seq(Nat)
             next(i, t) == t \o Held(s, i) \o Shown(s, i)
             Step == [i \in 1..n |-> [t \in V |-> next(i, t)]]
             Eq(f) == f = [i \in 0..n |->
                            IF i = 0 THEN <<>> ELSE next(i, f[i - 1])]
  <1>1. n \in Nat /\ <<>> \in V
    OBVIOUS
  <1>2. \A i \in 1..n, t \in V : next(i, t) \in V
    <2> TAKE i \in 1..n, t \in V
    <2>1. Held(s, i) \in Seq(Nat)
      BY DEF Held, Slash
    <2>2. Shown(s, i) \in Seq(Nat)
      <3>1. s[i] \in Nat /\ CR \in Nat /\ LF \in Nat
        BY DEF CR, LF
      <3> QED
        BY <3>1 DEF Shown
    <2> QED
      BY <2>1, <2>2, ConcatProperties
  <1>3. Step \in [1..n -> [V -> V]]
    <2> HIDE DEF next, V, n
    <2> QED
      BY <1>2
  <1>4. PICK f : Follows(f, n, V, <<>>, Step)
    <2> HIDE DEF n, Step, V
    <2> QED
      BY <1>1, <1>3, Recursion
  <1>5. Eq(f)
    <2> HIDE DEF next, V, n
    <2>1. \A i \in 1..n : f[i - 1] \in V
      BY <1>1, <1>4 DEF Follows
    <2>2. ASSUME NEW i \in 0..n
          PROVE  f[i] = IF i = 0 THEN <<>> ELSE next(i, f[i - 1])
      <3>1. CASE i = 0
        BY <1>4, <3>1 DEF Follows
      <3>2. CASE i # 0
        <4>1. i \in 1..n
          BY <1>1, <3>2
        <4> QED
          BY <1>4, <2>1, <3>2, <4>1 DEF Follows
      <3> QED
        BY <3>1, <3>2
    <2> QED
      BY <1>4, <2>2 DEF Follows
  <1> DEFINE F == CHOOSE g : Eq(g)
  <1>6. PrintedUpto(s) = F
    BY Zenon DEF PrintedUpto, Held, Shown
  <1>7. Eq(F)
    <2> HIDE DEF Eq
    <2> QED
      BY <1>5, Zenon
  <1> HIDE DEF F
  <1>8. F[0] = <<>> /\ \A i \in 1..n : F[i] = next(i, F[i - 1])
    <2> HIDE DEF next, n
    <2> QED
      BY <1>1, <1>7
  <1>9. \A i \in 0..n : F[i] \in V
    <2> HIDE DEF next, n, V
    <2> QED
      BY <1>1, <1>2, <1>8, StaysIn
  <1> QED
    BY <1>6, <1>8, <1>9

\* uPrintf sends a line as it is, with the slashes it holds back, and a carriage
\* return in front of the line feed at its end.
THEOREM PrintedLine ==
    ASSUME NEW x \in Seq(Nat), \A i \in 1..Len(x) : x[i] # LF
    PROVE  Printed(x \o <<LF>>) = x \o <<CR, LF>>
  <1> DEFINE s == x \o <<LF>>
             n == Len(x)
             U == PrintedUpto(s)
             P(i) == SubSeq(s, 1, i)
             end(i) == IF i >= 1 /\ s[i] = Slash THEN i - 1 ELSE i
             S == {i \in 0..n : U[i] = P(end(i))}
  <1>1. /\ n \in Nat /\ s \in Seq(Nat) /\ Len(s) = n + 1 /\ s[n + 1] = LF
        /\ \A i \in 1..n : s[i] = x[i] /\ s[i] # LF
    BY DEF LF
  <1> HIDE DEF n, s
  <1>2. /\ P(0) = <<>>
        /\ \A i \in 0..n : P(i) \in Seq(Nat)
        /\ \A i \in 1..n : P(i) = P(i - 1) \o <<s[i]>>
    <2>1. P(0) = <<>>
      BY SubSeqEmpty
    <2>2. ASSUME NEW i \in 0..n PROVE P(i) \in Seq(Nat)
      <3>1. 1 \in Int /\ i \in Int /\ \A k \in 1..i : s[k] \in Nat
        BY <1>1
      <3> QED
        BY <3>1, SubSeqProperties
    <2>3. ASSUME NEW i \in 1..n PROVE P(i) = P(i - 1) \o <<s[i]>>
      <3>1. 1 \in 1..Len(s) /\ i \in 1..Len(s)
        BY <1>1
      <3> QED
        BY <1>1, <3>1, SubSeqRecursiveSecond
    <2> QED
      BY <2>1, <2>2, <2>3
  <1>3. P(n) = x
    <2>1. 1 \in Int /\ n \in Int /\ \A k \in 1..n : s[k] \in Nat
      BY <1>1
    <2>2. /\ Len(P(n)) = n /\ P(n) \in Seq(Nat)
          /\ \A k \in 1..n : P(n)[k] = s[k]
      <3>1. /\ SubSeq(s, 1, n) \in Seq(Nat)
            /\ Len(SubSeq(s, 1, n)) = IF 1 <= n THEN n - 1 + 1 ELSE 0
            /\ \A k \in 1..n - 1 + 1 : SubSeq(s, 1, n)[k] = s[1 + k - 1]
        BY <2>1, SubSeqProperties
      <3> QED
        BY <1>1, <3>1
    <2> DEFINE p == P(n)
    <2> HIDE DEF p
    <2>3. p \in Seq(Nat) /\ Len(p) = Len(x) /\ \A k \in 1..Len(p) : p[k] = x[k]
      BY <1>1, <2>2 DEF p, n
    <2>4. p = x
      BY <2>3, SeqEqual
    <2> QED
      BY <2>4 DEF p
  <1> HIDE DEF P
  <1>4. 0 \in S
    BY <1>1, <1>2, PrintedUptoFacts
  \* Up to a character and with the slash that was held back.
  <1>5. ASSUME NEW i \in 0..n, i \in S
        PROVE  U[i] \o Held(s, i + 1) = P(i)
    <2>1. (i + 1) - 1 = i /\ i \in Nat
      BY <1>1
    <2>2. CASE i >= 1 /\ s[i] = Slash
      <3>1. Held(s, i + 1) = <<Slash>>
        <4> DEFINE j == i + 1
        <4>1. j > 1 /\ s[j - 1] = Slash
          BY <2>1, <2>2
        <4> HIDE DEF j
        <4>2. Held(s, j) = <<Slash>>
          BY <4>1 DEF Held
        <4> QED
          BY <4>2 DEF j
      <3>2. U[i] = P(i - 1)
        BY <1>5, <2>2
      <3>3. P(i) = P(i - 1) \o <<Slash>>
        BY <1>2, <2>1, <2>2
      <3> QED
        BY <3>1, <3>2, <3>3
    <2>3. CASE ~(i >= 1 /\ s[i] = Slash)
      <3>1. Held(s, i + 1) = <<>>
        <4> DEFINE j == i + 1
        <4>1. ~(j > 1 /\ s[j - 1] = Slash)
          BY <2>1, <2>3
        <4> HIDE DEF j
        <4>2. Held(s, j) = <<>>
          BY <4>1 DEF Held
        <4> QED
          BY <4>2 DEF j
      <3>2. U[i] = P(i)
        BY <1>5, <2>3
      <3>3. P(i) \o <<>> = P(i)
        BY <1>2, ConcatEmptySeq
      <3> QED
        BY <3>1, <3>2, <3>3
    <2> QED
      BY <2>2, <2>3
  <1>6. ASSUME NEW i \in 0..n, i \in S, i < n PROVE i + 1 \in S
    <2> DEFINE j == i + 1
    <2>1. /\ j \in 1..n /\ j \in 0..n /\ j \in 1..Len(s) /\ j - 1 = i
          /\ j >= 1 /\ s[j] # LF
      BY <1>1, <1>6
    <2>2. U[j] = P(i) \o Shown(s, j)
      <3>1. U[i] \o Held(s, j) = P(i)
        BY <1>5, <1>6
      <3> HIDE DEF j
      <3>2. U[j] = U[j - 1] \o Held(s, j) \o Shown(s, j)
        BY <1>1, <2>1, PrintedUptoFacts
      <3> QED
        BY <2>1, <3>1, <3>2
    <2> HIDE DEF j
    <2>3. U[j] = P(end(j))
      <3>1. CASE s[j] = Slash
        <4>1. Shown(s, j) = <<>> /\ end(j) = i
          BY <2>1, <3>1 DEF Shown
        <4>2. P(i) \o <<>> = P(i)
          BY <1>2, ConcatEmptySeq
        <4> HIDE DEF U, end
        <4> QED
          BY <2>2, <4>1, <4>2
      <3>2. CASE s[j] # Slash
        <4>1. Shown(s, j) = <<s[j]>> /\ end(j) = j
          BY <2>1, <3>2 DEF Shown
        <4>2. P(j) = P(i) \o <<s[j]>>
          <5>1. P(j) = P(j - 1) \o <<s[j]>>
            BY <1>2, <2>1
          <5> QED
            BY <2>1, <5>1
        <4> HIDE DEF U, end
        <4> QED
          BY <2>2, <4>1, <4>2
      <3> QED
        BY <3>1, <3>2
    <2>4. j \in S
      BY <2>1, <2>3
    <2> QED
      BY <2>4 DEF j
  <1>7. n \in S
    <2>1. 0..n \subseteq S
      <3> HIDE DEF S
      <3>1. 0 \in Nat
        OBVIOUS
      <3> QED
        BY <1>1, <1>4, <1>6, <3>1, IntervalInduction
    <2>2. n \in 0..n
      BY <1>1
    <2> QED
      BY <2>1, <2>2
  <1> DEFINE j == n + 1
  <1>8. j \in 1..Len(s) /\ j - 1 = n /\ s[j] = LF /\ Len(s) = j
    BY <1>1
  <1>9. U[n] \o Held(s, j) = x
    <2>1. n \in 0..n
      BY <1>1
    <2> HIDE DEF S
    <2> QED
      BY <1>3, <1>5, <1>7, <2>1
  <1> HIDE DEF j
  <1>10. U[j] = U[j - 1] \o Held(s, j) \o Shown(s, j)
    BY <1>1, <1>8, PrintedUptoFacts
  <1>11. Shown(s, j) = <<CR, LF>>
    BY <1>8 DEF Shown, LF, Slash
  <1>12. U[j] = x \o <<CR, LF>>
    BY <1>8, <1>9, <1>10, <1>11
  <1> QED
    BY <1>8, <1>12 DEF Printed, s

-----------------------------------------------------------------------------
(* The words of any line.                                                  *)

LEMMA PartType ==
    ASSUME NEW s \in Seq(Nat), NEW m \in Nat, NEW n \in Int, m >= 1, n <= Len(s)
    PROVE  SubSeq(s, m, n) \in Seq(Nat)
  <1>1. m \in Int /\ \A i \in m..n : s[i] \in Nat
    OBVIOUS
  <1> QED
    BY <1>1, SubSeqProperties

LEMMA AddWordType ==
    ASSUME NEW line \in Seq(Nat), NEW start \in 1..Len(line),
           NEW o2 \in 1..Len(line) + 1, NEW ended
    PROVE  AddWord(line, start, o2, ended) \in Seq(Nat)
  <1>1. \A w \in Seq(Nat) : Unescaped(w) \in Seq(Nat)
    <2> TAKE w \in Seq(Nat)
    <2>1. Len(w) \in 0..Len(w)
      OBVIOUS
    <2> QED
      BY <2>1, UnescapedFacts DEF Unescaped
  <1>2. SubSeq(line, start, o2 - 1) \in Seq(Nat)
    <2> DEFINE n == o2 - 1
    <2>1. n \in Int /\ n <= Len(line) /\ start \in Nat /\ start >= 1
      OBVIOUS
    <2> HIDE DEF n
    <2>2. SubSeq(line, start, n) \in Seq(Nat)
      BY <2>1, PartType
    <2> QED
      BY <2>2 DEF n
  <1>3. SubSeq(line, start + 1, o2 - 2) \in Seq(Nat)
    <2> DEFINE n == o2 - 2
               m == start + 1
    <2>1. n \in Int /\ n <= Len(line) /\ m \in Nat /\ m >= 1
      OBVIOUS
    <2> HIDE DEF n, m
    <2>2. SubSeq(line, m, n) \in Seq(Nat)
      BY <2>1, PartType
    <2> QED
      BY <2>2 DEF n, m
  <1>4. SubSeq(line, 2, Len(line)) \in Seq(Nat)
    <2> DEFINE n == Len(line)
    <2>1. n \in Int /\ n <= Len(line) /\ 2 \in Nat /\ 2 >= 1
      OBVIOUS
    <2> HIDE DEF n
    <2>2. SubSeq(line, 2, n) \in Seq(Nat)
      BY <2>1, PartType
    <2> QED
      BY <2>2 DEF n
  <1> QED
    BY <1>1, <1>2, <1>3, <1>4 DEF AddWord

LEMMA GetWordsType ==
    ASSUME NEW line \in Seq(Nat)
    PROVE  LET words == GetWords(line) IN
           /\ \E count \in Nat : DOMAIN words = 1..count
           /\ [k \in DOMAIN words |-> words[k].text] \in Seq(Seq(Nat))
           /\ [k \in DOMAIN words |-> words[k].start] \in Seq(1..Len(line))
  <1> DEFINE O == Searches(line)
             G == GetWords(line)
  <1>1. PICK count \in 0..Len(line) :
              /\ \A n \in 0..count - 1 : HasWord(line, O[n])
              /\ ~HasWord(line, O[count])
              /\ DOMAIN G = 1..count
              /\ \A k \in 1..count :
                    LET start == SkipBlanks(line, O[k - 1])
                        w == WordAt(line, start)
                    IN  /\ G[k].text = AddWord(line, start, w.o2, w.ended)
                        /\ G[k].start = start
    BY GetWordsFacts
  <1>2. count \in Nat /\ Len(line) \in Nat
    BY <1>1
  <1>3. ASSUME NEW k \in 1..count
        PROVE  G[k].text \in Seq(Nat) /\ G[k].start \in 1..Len(line)
    <2> DEFINE o == O[k - 1]
               start == SkipBlanks(line, o)
               w == WordAt(line, start)
    <2>1. k - 1 \in 0..count - 1 /\ k - 1 \in 0..Len(line)
      BY <1>1, <1>2
    <2>2. HasWord(line, o) /\ o \in 1..Len(line) + 1
      BY <1>1, <2>1, SearchesFacts
    <2>3. G[k].text = AddWord(line, start, w.o2, w.ended) /\ G[k].start = start
      BY <1>1
    <2> HIDE DEF o, G
    <2>4. start \in 1..Len(line)
      BY <1>2, <2>2, SkipBlanksFacts DEF HasWord
    <2>5. w.o2 \in 1..Len(line) + 1
      <3>1. AfterWord(line, o) \in o..Len(line) + 1 /\ AfterWord(line, o) = w.o2
        BY <2>2, AfterWordFacts DEF AfterWord
      <3> QED
        BY <1>2, <2>2, <3>1
    <2> HIDE DEF start, w
    <2>6. AddWord(line, start, w.o2, w.ended) \in Seq(Nat)
      BY <2>4, <2>5, AddWordType
    <2> QED
      BY <2>3, <2>4, <2>6
  <1> HIDE DEF G, O
  <1>4. /\ [k \in 1..count |-> G[k].text] \in Seq(Seq(Nat))
        /\ [k \in 1..count |-> G[k].start] \in Seq(1..Len(line))
    BY <1>2, <1>3
  <1> QED
    BY <1>1, <1>2, <1>4 DEF G
===============================================================================
