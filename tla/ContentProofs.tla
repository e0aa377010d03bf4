--------------------------- MODULE ContentProofs ---------------------------
(***************************************************************************)
(* Proofs about Content, for every description, title, table of skills and *)
(* of triggers, limit, and number of attempts.                             *)
(*                                                                         *)
(* What the code sorts and filters is Sorted: that it is well defined, a   *)
(* bijection in the order asked for, rests on one fact, that the ranks of  *)
(* the elements of a finite ordered set are all different (Ranking).       *)
(***************************************************************************)
EXTENDS Content, FiniteSetTheorems, SequenceTheorems, TLAPS

-----------------------------------------------------------------------------
(* Finite ordered sets.                                                    *)

\* B says for every element of S which ones come before it, in a strict total
\* order.
Ordered(S, B) ==
    /\ B \in [S -> SUBSET S]
    /\ \A x \in S : x \notin B[x]
    /\ \A x, y \in S : x = y \/ x \in B[y] \/ y \in B[x]
    /\ \A x, y \in S : x \in B[y] => B[x] \subseteq B[y]

\* o lists every element of S once, in the order of B.
Lists(o, S, B) ==
    /\ \A n \in 1..Cardinality(S) : o[n] \in S
    /\ \A m, n \in 1..Cardinality(S) : m < n <=> o[m] \in B[o[n]]
    /\ \A x \in S : \E n \in 1..Cardinality(S) : o[n] = x

\* Every rank is taken once, and a larger rank comes later.
LEMMA Ranking ==
    ASSUME NEW S, IsFiniteSet(S), NEW B, Ordered(S, B)
    PROVE  /\ Cardinality(S) \in Nat
           /\ \A x \in S : Cardinality(B[x]) \in 0..(Cardinality(S) - 1)
           /\ \A x, y \in S : x \in B[y] <=> Cardinality(B[x]) < Cardinality(B[y])
           /\ \A x, y \in S : Cardinality(B[x]) = Cardinality(B[y]) => x = y
           /\ \A n \in 1..Cardinality(S) : \E x \in S : Cardinality(B[x]) = n - 1
<1> DEFINE rank == [x \in S |-> Cardinality(B[x]) + 1]
           N == Cardinality(S)
<1> USE DEF Ordered
<1>1. N \in Nat
  BY FS_CardinalityType
<1>2. ASSUME NEW x \in S
      PROVE  IsFiniteSet(B[x]) /\ Cardinality(B[x]) \in 0..(N - 1)
  <2>1. B[x] \in SUBSET S
    OBVIOUS
  <2>2. IsFiniteSet(B[x]) /\ Cardinality(B[x]) <= N /\ B[x] # S
    BY <2>1, FS_Subset
  <2>3. Cardinality(B[x]) # N
    BY <2>1, <2>2, FS_Subset
  <2>4. Cardinality(B[x]) \in Nat
    BY <2>2, FS_CardinalityType
  <2> QED
    BY <1>1, <2>2, <2>3, <2>4
<1>3. ASSUME NEW x \in S, NEW y \in S, x \in B[y]
      PROVE  Cardinality(B[x]) < Cardinality(B[y])
  <2>1. B[x] \in SUBSET B[y] /\ B[x] # B[y]
    BY <1>3
  <2>2. Cardinality(B[x]) <= Cardinality(B[y]) /\ Cardinality(B[x]) # Cardinality(B[y])
    BY <1>2, <2>1, FS_Subset
  <2> QED
    BY <1>2, <2>2
<1>4. \A x, y \in S : x \in B[y] <=> Cardinality(B[x]) < Cardinality(B[y])
  <2> SUFFICES ASSUME NEW x \in S, NEW y \in S,
                      Cardinality(B[x]) < Cardinality(B[y])
               PROVE  x \in B[y]
    BY <1>3
  <2>1. ~ (y \in B[x]) /\ x # y
    BY <1>2, <1>3
  <2> QED
    BY <2>1
<1>5. \A x, y \in S : Cardinality(B[x]) = Cardinality(B[y]) => x = y
  BY <1>2, <1>3
<1>6. rank \in Injection(S, 1..N)
  <2>1. rank \in [S -> 1..N]
    BY <1>1, <1>2
  <2>2. \A x, y \in S : rank[x] = rank[y] => x = y
    BY <1>2, <1>5
  <2> QED
    BY <2>1, <2>2 DEF Injection, IsInjective
<1>7. IsFiniteSet(1..N) /\ Cardinality(1..N) = N
  BY <1>1, FS_Interval
<1>8. rank \in Surjection(S, 1..N)
  BY <1>6, <1>7, FS_Injection
<1>9. ASSUME NEW n \in 1..N
      PROVE  \E x \in S : Cardinality(B[x]) = n - 1
  <2>1. PICK x \in S : rank[x] = n
    BY <1>8 DEF Surjection
  <2> QED
    BY <1>1, <1>2, <2>1
<1> QED
  BY <1>1, <1>2, <1>4, <1>5, <1>9

LEMMA SortedInTurn ==
    ASSUME NEW S, IsFiniteSet(S), NEW B, Ordered(S, B)
    PROVE  Cardinality(S) \in Nat /\ Lists(Sorted(S, B), S, B)
<1> DEFINE N == Cardinality(S)
           o == Sorted(S, B)
<1>1. /\ N \in Nat
      /\ \A x \in S : Cardinality(B[x]) \in 0..(N - 1)
      /\ \A x, y \in S : x \in B[y] <=> Cardinality(B[x]) < Cardinality(B[y])
      /\ \A x, y \in S : Cardinality(B[x]) = Cardinality(B[y]) => x = y
      /\ \A n \in 1..N : \E x \in S : Cardinality(B[x]) = n - 1
  BY Ranking
<1>2. \A n \in 1..N : o[n] = CHOOSE x \in S : Cardinality(B[x]) = n - 1
  BY DEF Sorted
<1> HIDE DEF N, o
<1>3. ASSUME NEW n \in 1..N
      PROVE  o[n] \in S /\ Cardinality(B[o[n]]) = n - 1
  <2>1. \E x \in S : Cardinality(B[x]) = n - 1
    BY <1>1
  <2>2. o[n] = CHOOSE x \in S : Cardinality(B[x]) = n - 1
    BY <1>2
  <2> QED
    BY <2>1, <2>2
<1>4. ASSUME NEW m \in 1..N, NEW n \in 1..N
      PROVE  m < n <=> o[m] \in B[o[n]]
  <2>1. /\ o[m] \in S /\ Cardinality(B[o[m]]) = m - 1
        /\ o[n] \in S /\ Cardinality(B[o[n]]) = n - 1
    BY <1>3
  <2>2. o[m] \in B[o[n]] <=> Cardinality(B[o[m]]) < Cardinality(B[o[n]])
    BY <1>1, <2>1
  <2>3. m - 1 < n - 1 <=> m < n
    BY <1>1
  <2> QED
    BY <2>1, <2>2, <2>3
<1>5. ASSUME NEW x \in S
      PROVE  \E n \in 1..N : o[n] = x
  <2> DEFINE n == Cardinality(B[x]) + 1
  <2>1. n \in 1..N /\ n - 1 = Cardinality(B[x])
    BY <1>1
  <2>2. o[n] \in S /\ Cardinality(B[o[n]]) = Cardinality(B[x])
    BY <1>3, <2>1
  <2> QED
    BY <1>1, <2>1, <2>2
<1> QED
  BY <1>1, <1>3, <1>4, <1>5 DEF N, o, Lists

\* Sorting numbers.
LEMMA SortedNumbers ==
    ASSUME NEW P \in SUBSET Nat, IsFiniteSet(P)
    PROVE  /\ Cardinality(P) \in Nat
           /\ \A n \in 1..Cardinality(P) : InOrder(P)[n] \in P
           /\ \A m, n \in 1..Cardinality(P) : m < n <=> InOrder(P)[m] < InOrder(P)[n]
           /\ \A i \in P : \E n \in 1..Cardinality(P) : InOrder(P)[n] = i
<1> DEFINE B == [i \in P |-> {j \in P : j < i}]
<1>1. /\ P \subseteq Nat /\ B \in [P -> SUBSET P]
      /\ \A i, j \in P : i \in B[j] <=> i < j
  OBVIOUS
<1>2. InOrder(P) = Sorted(P, B)
  BY DEF InOrder
<1> HIDE DEF B
<1>3. /\ \A x \in P : x \notin B[x]
      /\ \A x, y \in P : x = y \/ x \in B[y] \/ y \in B[x]
  BY <1>1
<1>4. ASSUME NEW x \in P, NEW y \in P, x \in B[y], NEW z \in B[x]
      PROVE  z \in B[y]
  <2>1. x \in Nat /\ y \in Nat /\ z \in P /\ z \in Nat
    BY <1>1
  <2>2. z < x /\ x < y
    BY <1>1, <1>4, <2>1
  <2>3. z < y
    BY <2>1, <2>2
  <2> QED
    BY <1>1, <2>1, <2>3
<1>5. \A x, y \in P : x \in B[y] => B[x] \subseteq B[y]
  BY <1>4
<1>6. Ordered(P, B)
  BY <1>1, <1>3, <1>5 DEF Ordered
<1>7. Cardinality(P) \in Nat /\ Lists(InOrder(P), P, B)
  BY <1>2, <1>6, SortedInTurn
<1> QED
  BY <1>1, <1>7 DEF Lists

-----------------------------------------------------------------------------
(* breakdown_description.                                                  *)

\* A heading starts with the triggers of one section.
LEMMA OneSection ==
    ASSUME NEW l, NEW s \in _match_section(l), NEW q \in _match_section(l)
    PROVE  s = q
BY TriggersAssumption DEF _match_section

LEMMA HeadingsMatch ==
    ASSUME NEW l
    PROVE  IsHeading(l) <=> _match_section(l) # {}
BY DEF IsHeading, _match_section

\* A heading ends the section above it; other lines leave it as it is.
LEMMA HeadingStep ==
    ASSUME NEW d, NEW n \in Nat \ {0}
    PROVE  /\ IsHeading(d[n]) => HeadingOf(d, n) = n
           /\ ~IsHeading(d[n]) => HeadingOf(d, n) = HeadingOf(d, n - 1)
<1> DEFINE H(i) == {0} \cup {j \in 1..i : IsHeading(d[j])}
<1>1. CASE IsHeading(d[n])
  <2>1. n \in H(n) /\ \A j \in H(n) : j \in Nat /\ n >= j
    BY <1>1
  <2>2. \A x \in H(n) : (\A j \in H(n) : x >= j) => x = n
    BY <2>1
  <2>3. Max(H(n)) = CHOOSE x \in H(n) : \A j \in H(n) : x >= j
    BY DEF Max
  <2> HIDE DEF H
  <2>4. Max(H(n)) = n
    BY <2>1, <2>2, <2>3
  <2> QED
    BY <1>1, <2>4 DEF HeadingOf, H
<1>2. CASE ~IsHeading(d[n])
  <2>1. H(n) = H(n - 1)
    BY <1>2
  <2> QED
    BY <1>2, <2>1 DEF HeadingOf
<1> QED
  BY <1>1, <1>2

\* c is the section that the first n lines of d end in.
InSection(c, d, n) ==
    \/ HeadingOf(d, n) = 0 /\ c = "requirements"
    \/ HeadingOf(d, n) # 0 /\ c \in _match_section(d[HeadingOf(d, n)])

LEMMA InSectionIsSectionOf ==
    ASSUME NEW c, NEW d, NEW n, InSection(c, d, n)
    PROVE  SectionOf(d, n) = c /\ c \in Sections
<1>1. CASE HeadingOf(d, n) = 0
  BY <1>1 DEF InSection, SectionOf, Sections
<1>2. CASE HeadingOf(d, n) # 0
  <2> DEFINE l == d[HeadingOf(d, n)]
  <2>1. c \in _match_section(l)
    BY <1>2 DEF InSection
  <2>2. c \in Sections /\ Head(l.before).word \in Triggers[c]
    BY <2>1 DEF _match_section
  <2>3. \A s \in Sections : Head(l.before).word \in Triggers[s] => s = c
    BY <2>1, OneSection DEF _match_section
  <2>4. SectionOf(d, n) = CHOOSE s \in Sections : Head(l.before).word \in Triggers[s]
    BY <1>2 DEF SectionOf
  <2> HIDE DEF l
  <2> QED
    BY <2>2, <2>3, <2>4
<1> QED
  BY <1>1, <1>2

\* The loop begins in "requirements".
LEMMA InSectionInit ==
    ASSUME NEW d
    PROVE  InSection("requirements", d, 0)
<1>1. {0} \cup {j \in 1..0 : IsHeading(d[j])} = {0}
  OBVIOUS
<1>2. Max({0}) = 0
  BY DEF Max
<1> QED
  BY <1>1, <1>2 DEF InSection, HeadingOf

\* What one line does to the section.
LEMMA InSectionStep ==
    ASSUME NEW c, NEW d, NEW n \in Nat \ {0}, InSection(c, d, n - 1)
    PROVE  /\ ~IsHeading(d[n]) => InSection(c, d, n)
           /\ \A s \in _match_section(d[n]) : InSection(s, d, n)
<1>1. ~IsHeading(d[n]) => InSection(c, d, n)
  BY HeadingStep DEF InSection
<1>2. ASSUME NEW s \in _match_section(d[n])
      PROVE  InSection(s, d, n)
  <2>1. HeadingOf(d, n) = n
    BY <1>2, HeadingsMatch, HeadingStep
  <2> QED
    BY <2>1 DEF InSection
<1> QED
  BY <1>1, <1>2

LEMMA LinesOfStep ==
    ASSUME NEW d, NEW s, NEW n \in Nat
    PROVE  /\ IsFiniteSet(LinesOf(d, s, n))
           /\ Cardinality(LinesOf(d, s, n)) \in Nat
           /\ \A i \in LinesOf(d, s, n) :
                 Cardinality(LinesOf(d, s, i)) \in 1..Cardinality(LinesOf(d, s, n))
           /\ n # 0 /\ SectionOf(d, n) = s /\ Speaks(d, n) =>
                 /\ LinesOf(d, s, n) = LinesOf(d, s, n - 1) \cup {n}
                 /\ Cardinality(LinesOf(d, s, n)) = Cardinality(LinesOf(d, s, n - 1)) + 1
           /\ n # 0 /\ ~(SectionOf(d, n) = s /\ Speaks(d, n)) =>
                 LinesOf(d, s, n) = LinesOf(d, s, n - 1)
<1>1. ASSUME NEW i \in Nat
      PROVE  IsFiniteSet(LinesOf(d, s, i)) /\ Cardinality(LinesOf(d, s, i)) \in Nat
  <2>1. LinesOf(d, s, i) \in SUBSET (1..i)
    BY DEF LinesOf
  <2>2. IsFiniteSet(1..i)
    BY FS_Interval
  <2> QED
    BY <2>1, <2>2, FS_Subset, FS_CardinalityType
<1>2. ASSUME NEW i \in LinesOf(d, s, n)
      PROVE  Cardinality(LinesOf(d, s, i)) \in 1..Cardinality(LinesOf(d, s, n))
  <2>1. i \in 1..n /\ i \in Nat
    BY DEF LinesOf
  <2>2. LinesOf(d, s, i) \in SUBSET LinesOf(d, s, n) /\ i \in LinesOf(d, s, i)
    BY <2>1 DEF LinesOf
  <2>3. Cardinality(LinesOf(d, s, i)) <= Cardinality(LinesOf(d, s, n))
    BY <1>1, <2>2, FS_Subset
  <2>4. Cardinality(LinesOf(d, s, i)) # 0
    BY <1>1, <2>1, <2>2, FS_EmptySet
  <2> QED
    BY <1>1, <2>1, <2>3, <2>4
<1>3. ASSUME n # 0, SectionOf(d, n) = s, Speaks(d, n)
      PROVE  /\ LinesOf(d, s, n) = LinesOf(d, s, n - 1) \cup {n}
             /\ Cardinality(LinesOf(d, s, n)) = Cardinality(LinesOf(d, s, n - 1)) + 1
  <2>1. LinesOf(d, s, n) = LinesOf(d, s, n - 1) \cup {n} /\ n \notin LinesOf(d, s, n - 1)
    BY <1>3 DEF LinesOf
  <2>2. n - 1 \in Nat
    BY <1>3
  <2> QED
    BY <1>1, <2>1, <2>2, FS_AddElement
<1>4. ASSUME n # 0, ~(SectionOf(d, n) = s /\ Speaks(d, n))
      PROVE  LinesOf(d, s, n) = LinesOf(d, s, n - 1)
  BY <1>4 DEF LinesOf
<1> QED
  BY <1>1, <1>2, <1>3, <1>4

\* b holds what the first n lines of d say, section by section and in order.
Filled(b, d, n) ==
    \A s \in Sections :
        /\ b[s] \in Seq(Seq(Token))
        /\ Len(b[s]) = Cardinality(LinesOf(d, s, n))
        /\ \A i \in LinesOf(d, s, n) : b[s][Cardinality(LinesOf(d, s, i))] = Said(d, i)

\* Nothing is lost of a line that says nothing.
LEMMA FilledBySilence ==
    ASSUME NEW b, NEW d, NEW n \in Nat \ {0}, Filled(b, d, n - 1), ~Speaks(d, n)
    PROVE  Filled(b, d, n)
<1>1. \A s \in Sections : LinesOf(d, s, n) = LinesOf(d, s, n - 1)
  BY LinesOfStep
<1> QED
  BY <1>1 DEF Filled

\* A line goes to the end of the bucket of its section.
LEMMA FilledByAppend ==
    ASSUME NEW d, NEW n \in Nat \ {0}, NEW q \in Sections, q = SectionOf(d, n),
           NEW b, DOMAIN b = Sections, Filled(b, d, n - 1), Speaks(d, n),
           Said(d, n) \in Seq(Token)
    PROVE  Filled([b EXCEPT ![q] = Append(@, Said(d, n))], d, n)
<1> DEFINE c == [b EXCEPT ![q] = Append(@, Said(d, n))]
<1> SUFFICES ASSUME NEW s \in Sections
             PROVE  /\ c[s] \in Seq(Seq(Token))
                    /\ Len(c[s]) = Cardinality(LinesOf(d, s, n))
                    /\ \A i \in LinesOf(d, s, n) :
                          c[s][Cardinality(LinesOf(d, s, i))] = Said(d, i)
  BY DEF Filled
<1>1. /\ b[s] \in Seq(Seq(Token))
      /\ Len(b[s]) = Cardinality(LinesOf(d, s, n - 1))
      /\ \A i \in LinesOf(d, s, n - 1) : b[s][Cardinality(LinesOf(d, s, i))] = Said(d, i)
  BY DEF Filled
<1>2. CASE s # q
  <2>1. c[s] = b[s] /\ LinesOf(d, s, n) = LinesOf(d, s, n - 1)
    BY <1>2, LinesOfStep
  <2> HIDE DEF c
  <2> QED
    BY <1>1, <2>1
<1>3. CASE s = q
  <2> DEFINE k == Cardinality(LinesOf(d, s, n - 1))
  <2>1. c[s] = Append(b[s], Said(d, n))
    BY <1>3
  <2>2. /\ LinesOf(d, s, n) = LinesOf(d, s, n - 1) \cup {n}
        /\ Cardinality(LinesOf(d, s, n)) = k + 1
    BY <1>3, LinesOfStep
  <2>3. k \in Nat /\ \A i \in LinesOf(d, s, n - 1) : Cardinality(LinesOf(d, s, i)) \in 1..k
    <3>1. n - 1 \in Nat
      OBVIOUS
    <3> QED
      BY <3>1, LinesOfStep
  <2> HIDE DEF c
  <2>4. /\ c[s] \in Seq(Seq(Token)) /\ Len(c[s]) = k + 1
        /\ c[s][k + 1] = Said(d, n)
        /\ \A m \in 1..k : c[s][m] = b[s][m]
    BY <1>1, <2>1
  <2>5. ASSUME NEW i \in LinesOf(d, s, n)
        PROVE  c[s][Cardinality(LinesOf(d, s, i))] = Said(d, i)
    <3>1. CASE i = n
      BY <2>2, <2>4, <3>1
    <3>2. CASE i # n
      BY <1>1, <2>2, <2>3, <2>4, <3>2
    <3> QED
      BY <3>1, <3>2
  <2> QED
    BY <2>2, <2>4, <2>5
<1> QED
  BY <1>2, <1>3

-----------------------------------------------------------------------------
(* The two activities.                                                     *)

Inputs == title \in Titles /\ description \in Descriptions /\ asked \in Asked

\* Where the loop is, and what it has put into the buckets.
LoopInv ==
    /\ line \in 1..(Len(description) + 1)
    /\ InSection(current, description, line - 1)
    /\ DOMAIN buckets = Sections
    /\ Filled(buckets, description, line - 1)

StoredInv ==
    structured_content = None \/
        /\ DOMAIN structured_content = Sections
        /\ Filled(structured_content, description, Len(description))

BreakdownInv == Inputs /\ LoopInv /\ StoredInv

LEMMA DescriptionType ==
    ASSUME Inputs
    PROVE  description \in Seq(Line) /\ Len(description) \in Nat
BY TextAssumption DEF Inputs

\* At the start of the loop nothing is filled.
LEMMA LoopStart ==
    ASSUME NEW d \in Seq(Line)
    PROVE  /\ 1 \in 1..(Len(d) + 1) /\ 1 - 1 = 0
           /\ InSection("requirements", d, 0)
           /\ DOMAIN NoLines = Sections
           /\ Filled(NoLines, d, 0)
<1>1. ASSUME NEW s \in Sections
      PROVE  /\ NoLines[s] = <<>> /\ <<>> \in Seq(Seq(Token)) /\ Len(<<>>) = 0
             /\ LinesOf(d, s, 0) = {} /\ Cardinality(LinesOf(d, s, 0)) = 0
  <2>1. LinesOf(d, s, 0) = {}
    BY DEF LinesOf
  <2>2. NoLines[s] = <<>>
    BY DEF NoLines
  <2>3. <<>> \in Seq(Seq(Token)) /\ Len(<<>>) = 0
    BY EmptySeq
  <2>4. Cardinality(LinesOf(d, s, 0)) = 0
    BY <2>1, FS_EmptySet
  <2> QED
    BY <2>1, <2>2, <2>3, <2>4
<1>2. Filled(NoLines, d, 0)
  BY <1>1 DEF Filled
<1> QED
  BY <1>2, InSectionInit DEF NoLines

LEMMA LoopStep ==
    ASSUME Inputs, LoopInv, ReadLine
    PROVE  LoopInv'
<1> DEFINE d == description
           n == line
           l == d[n]
<1>1. /\ d \in Seq(Line) /\ Len(d) \in Nat /\ n \in 1..Len(d) /\ n \in Nat \ {0}
      /\ l.before \in Seq(Token) /\ l.after \in Seq(Token)
      /\ d' = d /\ line' = n + 1
  <2>1. d \in Seq(Line) /\ Len(d) \in Nat
    BY DescriptionType
  <2>2. n \in 1..Len(d) /\ n \in Nat \ {0}
    BY <2>1 DEF LoopInv, ReadLine
  <2>3. l \in Line
    BY <2>1, <2>2
  <2> QED
    BY <2>1, <2>2, <2>3 DEF Line, ReadLine, job
<1>2. /\ InSection(current, d, n - 1)
      /\ DOMAIN buckets = Sections
      /\ Filled(buckets, d, n - 1)
  BY DEF LoopInv
<1>3. SUFFICES /\ InSection(current', d, n)
               /\ DOMAIN buckets' = Sections
               /\ Filled(buckets', d, n)
  <2>1. line' - 1 = n /\ line' \in 1..(Len(d) + 1)
    BY <1>1
  <2> QED
    BY <1>1, <1>3, <2>1 DEF LoopInv
<1>4. CASE Blank(l) /\ UNCHANGED <<current, buckets>>
  <2>1. ~IsHeading(l) /\ ~Speaks(d, n)
    BY <1>4 DEF Blank, IsHeading, Speaks
  <2> QED
    BY <1>1, <1>2, <1>4, <2>1, InSectionStep, FilledBySilence
<1>5. ASSUME NEW s \in Heading(l), current' = s,
             buckets' = IF l.after # <<>>
                        THEN [buckets EXCEPT ![s] = Append(@, l.after)] ELSE buckets
      PROVE  /\ InSection(current', d, n)
             /\ DOMAIN buckets' = Sections
             /\ Filled(buckets', d, n)
  <2>1. InSection(s, d, n) /\ IsHeading(l)
    BY <1>1, <1>2, InSectionStep, HeadingsMatch DEF Heading
  <2>2. s \in Sections /\ s = SectionOf(d, n) /\ Said(d, n) = l.after
    BY <2>1, InSectionIsSectionOf DEF Said
  <2>3. CASE l.after # <<>>
    <3>1. Speaks(d, n) /\ buckets' = [buckets EXCEPT ![s] = Append(@, Said(d, n))]
      BY <1>5, <2>1, <2>2, <2>3 DEF Speaks
    <3>2. Filled([buckets EXCEPT ![s] = Append(@, Said(d, n))], d, n)
      BY <1>1, <1>2, <2>2, <3>1, FilledByAppend
    <3> QED
      BY <1>2, <1>5, <2>1, <3>1, <3>2
  <2>4. CASE l.after = <<>>
    <3>1. ~Speaks(d, n) /\ buckets' = buckets
      BY <1>5, <2>1, <2>4 DEF Speaks
    <3> QED
      BY <1>1, <1>2, <1>5, <2>1, <3>1, FilledBySilence
  <2> QED
    BY <2>3, <2>4
<1>6. CASE /\ ~Blank(l) /\ Heading(l) = {}
           /\ buckets' = [buckets EXCEPT ![current] = Append(@, l.before \o l.after)]
           /\ UNCHANGED current
  <2>1. ~IsHeading(l) /\ Speaks(d, n)
    BY <1>6, HeadingsMatch DEF Blank, Heading, Speaks
  <2>2. InSection(current, d, n)
    BY <1>1, <1>2, <2>1, InSectionStep
  <2>3. current \in Sections /\ current = SectionOf(d, n) /\ Said(d, n) = l.before \o l.after
    BY <2>1, <2>2, InSectionIsSectionOf DEF Said
  <2>4. Filled([buckets EXCEPT ![current] = Append(@, Said(d, n))], d, n)
    <3>1. Said(d, n) \in Seq(Token)
      BY <1>1, <2>3, ConcatProperties
    <3> QED
      BY <1>1, <1>2, <2>1, <2>3, <3>1, FilledByAppend
  <2>5. buckets' = [buckets EXCEPT ![current] = Append(@, Said(d, n))] /\ current' = current
    BY <1>6, <2>3
  <2> QED
    BY <1>2, <2>2, <2>4, <2>5
<1> QED
  BY <1>4, <1>5, <1>6 DEF ReadLine

LEMMA BreakdownInvInit == Init => BreakdownInv
<1> SUFFICES ASSUME Init PROVE BreakdownInv
  OBVIOUS
<1>1. Inputs
  BY DEF Init, Inputs
<1>2. description \in Seq(Line)
  BY <1>1, DescriptionType
<1>3. LoopInv
  BY <1>2, LoopStart DEF Init, LoopInv
<1> QED
  BY <1>1, <1>3 DEF Init, StoredInv, BreakdownInv

LEMMA BreakdownInvNext == BreakdownInv /\ [Next]_vars => BreakdownInv'
<1> SUFFICES ASSUME BreakdownInv, [Next]_vars PROVE BreakdownInv'
  OBVIOUS
<1>1. Inputs'
  BY DEF BreakdownInv, Inputs, Next, vars, job, ReadLine, BreakDown, Retry, Extract
<1>2. CASE ReadLine
  <2>1. LoopInv'
    BY <1>2, LoopStep DEF BreakdownInv
  <2>2. StoredInv'
    BY <1>2 DEF BreakdownInv, StoredInv, ReadLine, job
  <2> QED
    BY <1>1, <2>1, <2>2 DEF BreakdownInv
<1>3. CASE BreakDown
  <2>1. LoopInv'
    BY <1>3 DEF BreakdownInv, LoopInv, BreakDown, job, loop
  <2>2. line - 1 = Len(description)
    BY <1>3, DescriptionType DEF BreakdownInv, LoopInv, BreakDown
  <2>3. StoredInv'
    BY <1>3, <2>2 DEF BreakdownInv, LoopInv, StoredInv, BreakDown, job
  <2> QED
    BY <1>1, <2>1, <2>3 DEF BreakdownInv
<1>4. CASE Retry
  <2>1. /\ line' = 1 /\ current' = "requirements" /\ buckets' = NoLines
        /\ description' = description /\ description \in Seq(Line)
    BY <1>4, DescriptionType DEF BreakdownInv, Retry, job
  <2>2. LoopInv'
    BY <2>1, LoopStart DEF LoopInv
  <2>3. StoredInv'
    BY <1>4 DEF BreakdownInv, StoredInv, Retry, job
  <2> QED
    BY <1>1, <2>2, <2>3 DEF BreakdownInv
<1>5. CASE Extract
  BY <1>1, <1>5 DEF BreakdownInv, LoopInv, StoredInv, Extract, job, loop
<1>6. CASE UNCHANGED vars
  BY <1>1, <1>6 DEF BreakdownInv, LoopInv, StoredInv, vars, job, loop
<1> QED
  BY <1>2, <1>3, <1>4, <1>5, <1>6 DEF Next

\* What is stored by section is what the lines say, whatever the description,
\* and however often breakdown_job starts over, is lost or is repeated.
THEOREM DescriptionIsKept == Spec => []StoredBySection
<1>1. BreakdownInv => StoredBySection
  BY DEF BreakdownInv, StoredInv, Filled, StoredBySection
<1> QED
  BY <1>1, BreakdownInvInit, BreakdownInvNext, PTL DEF Spec

-----------------------------------------------------------------------------
(* extract_keywords.                                                       *)

LEMMA TextType ==
    ASSUME Inputs
    PROVE  Text \in Seq(Seq(Token))
<1> DEFINE rest == [i \in DOMAIN description |->
                        description[i].before \o description[i].after]
<1>1. title \in Seq(Token) /\ description \in Seq(Line)
  BY TextAssumption DEF Inputs
<1>2. DOMAIN description = 1..Len(description) /\ Len(description) \in Nat
  BY <1>1
<1>3. ASSUME NEW i \in 1..Len(description)
      PROVE  description[i].before \o description[i].after \in Seq(Token)
  <2>1. description[i] \in Line
    BY <1>1, <1>3
  <2>2. description[i].before \in Seq(Token) /\ description[i].after \in Seq(Token)
    BY <2>1 DEF Line
  <2> QED
    BY <2>2, ConcatProperties
<1>4. rest \in [1..Len(description) -> Seq(Token)]
  BY <1>2, <1>3
<1>5. rest \in Seq(Seq(Token))
  <2> HIDE DEF rest
  <2> QED
    BY <1>2, <1>4, SeqDef
<1>6. <<title>> \in Seq(Seq(Token))
  BY <1>1
<1> HIDE DEF rest
<1>7. <<title>> \o rest \in Seq(Seq(Token))
  BY <1>5, <1>6, ConcatProperties
<1> QED
  BY <1>7 DEF Text, rest

\* A text has finitely many places, so words can be counted.
LEMMA TextIsFinite ==
    ASSUME NEW text \in Seq(Seq(Token))
    PROVE  /\ IsFiniteSet(Tokens(text)) /\ Tokens(text) \subseteq Token
           /\ \A t : counts(text, t) \in Nat
<1> DEFINE D == DOMAIN text
           row == [i \in D |-> {i} \X DOMAIN text[i]]
           Rows == {{i} \X DOMAIN text[i] : i \in D}
<1>1. D = 1..Len(text) /\ Len(text) \in Nat /\ \A i \in D : text[i] \in Seq(Token)
  OBVIOUS
<1>2. ASSUME NEW i \in D
      PROVE  IsFiniteSet({i} \X DOMAIN text[i])
  <2>1. DOMAIN text[i] = 1..Len(text[i]) /\ Len(text[i]) \in Nat
    BY <1>1
  <2>2. IsFiniteSet(1..Len(text[i]))
    BY <2>1, FS_Interval
  <2>3. IsFiniteSet({i})
    BY FS_Singleton
  <2> QED
    BY <2>1, <2>2, <2>3, FS_Product
<1>3. IsFiniteSet(Rows)
  <2>1. IsFiniteSet(D)
    BY <1>1, FS_Interval
  <2>2. row \in Surjection(D, Rows)
    BY DEF Surjection
  <2> QED
    BY <2>1, <2>2, FS_Surjection
<1>4. IsFiniteSet(Places(text))
  <2>1. \A R \in Rows : IsFiniteSet(R)
    BY <1>2
  <2> HIDE DEF Rows
  <2>2. IsFiniteSet(UNION Rows)
    BY <1>3, <2>1, FS_UNION
  <2> QED
    BY <2>2 DEF Rows, Places
<1>5. IsFiniteSet(Tokens(text))
  <2> DEFINE word == [p \in Places(text) |-> At(text, p)]
  <2>1. word \in Surjection(Places(text), Tokens(text))
    BY DEF Surjection, Tokens
  <2> QED
    BY <1>4, <2>1, FS_Surjection
<1>6. ASSUME NEW p \in Places(text)
      PROVE  At(text, p) \in Token
  <2>1. PICK i \in D : p \in {i} \X DOMAIN text[i]
    BY DEF Places
  <2>2. p[1] = i /\ p[2] \in DOMAIN text[i]
    BY <2>1
  <2> QED
    BY <1>1, <2>2 DEF At
<1>7. ASSUME NEW t
      PROVE  counts(text, t) \in Nat
  <2>1. {p \in Places(text) : At(text, p) = t} \in SUBSET Places(text)
    OBVIOUS
  <2> QED
    BY <1>4, <2>1, FS_Subset, FS_CardinalityType DEF counts
<1> QED
  BY <1>5, <1>6, <1>7 DEF Tokens

\* By count and then by word is a strict total order.
LEMMA BeforeIsOrder ==
    ASSUME NEW text \in Seq(Seq(Token))
    PROVE  /\ \A t \in Token : ~Before(text, t, t)
           /\ \A t, u \in Token : t = u \/ Before(text, t, u) \/ Before(text, u, t)
           /\ \A t, u, v \in Token :
                 Before(text, t, u) /\ Before(text, u, v) => Before(text, t, v)
<1>1. \A t \in Token : counts(text, t) \in Nat /\ t.word \in Int /\ t.dotted \in BOOLEAN
  BY TextIsFinite DEF Token
<1>2. ASSUME NEW t \in Token
      PROVE  ~Before(text, t, t)
  BY <1>1 DEF Before, ByWord
<1>3. ASSUME NEW t \in Token, NEW u \in Token, ~Before(text, t, u), ~Before(text, u, t)
      PROVE  t = u
  <2>1. t.word = u.word /\ t.dotted = u.dotted
    BY <1>1, <1>3 DEF Before, ByWord
  <2> QED
    BY <2>1 DEF Token
<1>4. ASSUME NEW t \in Token, NEW u \in Token, NEW v \in Token,
             Before(text, t, u), Before(text, u, v)
      PROVE  Before(text, t, v)
  BY <1>1, <1>4 DEF Before, ByWord
<1> QED
  BY <1>2, <1>3, <1>4

\* sorted() lists every keyword, each before those that rank after it.
LEMMA RankedKeywords ==
    ASSUME NEW text \in Seq(Seq(Token))
    PROVE  LET N == Cardinality(Keywords(text)) IN
           /\ N \in Nat
           /\ \A n \in 1..N : Ranked(text)[n] \in Keywords(text)
           /\ \A m, n \in 1..N : m < n => Before(text, Ranked(text)[m], Ranked(text)[n])
           /\ \A t \in Keywords(text) : \E n \in 1..N : Ranked(text)[n] = t
<1> DEFINE C == Keywords(text)
           B == [t \in C |-> {u \in C : Before(text, u, t)}]
           R == Ranked(text)
<1>1. IsFiniteSet(C) /\ C \subseteq Token
  <2>1. C \in SUBSET Tokens(text)
    BY DEF Keywords
  <2> QED
    BY <2>1, TextIsFinite, FS_Subset
<1>2. R = Sorted(C, B)
  BY DEF Ranked
<1> HIDE DEF C, R
<1>3. B \in [C -> SUBSET C] /\ \A t, u \in C : u \in B[t] <=> Before(text, u, t)
  OBVIOUS
<1> HIDE DEF B
<1>4. Ordered(C, B)
  BY <1>1, <1>3, BeforeIsOrder DEF Ordered
<1>5. Cardinality(C) \in Nat /\ Lists(R, C, B)
  BY <1>1, <1>2, <1>4, SortedInTurn
<1>6. \A m, n \in 1..Cardinality(C) : m < n => Before(text, R[m], R[n])
  BY <1>3, <1>5 DEF Lists
<1> QED
  BY <1>5, <1>6 DEF C, R, Lists

\* What is kept are the first keywords, up to the limit.
LEMMA ExtractedKeywords ==
    ASSUME NEW text \in Seq(Seq(Token)), NEW K, K = extract_keywords(text)
    PROVE  /\ K \in Seq(Token) /\ Len(K) <= KeywordLimit
           /\ \A i \in DOMAIN K : K[i] \in Keywords(text)
           /\ \A i, j \in DOMAIN K : i < j => Before(text, K[i], K[j])
           /\ \A t \in Keywords(text) :
                 \/ t \in Range(K)
                 \/ Len(K) = KeywordLimit /\ \A i \in DOMAIN K : Before(text, K[i], t)
<1> DEFINE N == Cardinality(Keywords(text))
           M == Min({limit, N})
           R == Ranked(text)
<1>1. /\ N \in Nat
      /\ \A n \in 1..N : R[n] \in Keywords(text)
      /\ \A m, n \in 1..N : m < n => Before(text, R[m], R[n])
      /\ \A t \in Keywords(text) : \E n \in 1..N : R[n] = t
  BY RankedKeywords
<1> HIDE DEF N, R
<1>2. M \in Nat /\ M <= KeywordLimit /\ M <= N /\ (M = KeywordLimit \/ M = N)
  <2>1. KeywordLimit \in Nat /\ limit = KeywordLimit
    BY BoundsAssumption DEF limit
  <2>2. \E x \in {KeywordLimit, N} : \A y \in {KeywordLimit, N} : x <= y
    BY <1>1, <2>1
  <2>3. M \in {KeywordLimit, N} /\ \A y \in {KeywordLimit, N} : M <= y
    BY <2>1, <2>2 DEF Min
  <2> HIDE DEF M
  <2> QED
    BY <1>1, <2>1, <2>3
<1> HIDE DEF M
<1>3. K = [i \in 1..M |-> R[i]] /\ DOMAIN K = 1..M
  BY DEF extract_keywords, M, N, R
<1>4. \A i \in 1..M : i \in 1..N /\ K[i] = R[i]
  BY <1>1, <1>2, <1>3
<1>5. K \in Seq(Token) /\ Len(K) = M
  <2>1. Keywords(text) \subseteq Token
    BY TextIsFinite DEF Keywords
  <2>2. K \in [1..M -> Token]
    BY <1>1, <1>3, <1>4, <2>1
  <2> QED
    BY <1>2, <2>2, SeqDef
<1>6. ASSUME NEW t \in Keywords(text), t \notin Range(K)
      PROVE  Len(K) = KeywordLimit /\ \A i \in DOMAIN K : Before(text, K[i], t)
  <2>1. PICK n \in 1..N : R[n] = t
    BY <1>1
  <2>2. ~(n <= M)
    <3>1. SUFFICES ASSUME n <= M PROVE FALSE
      OBVIOUS
    <3>2. n \in DOMAIN K /\ K[n] = t
      BY <1>1, <1>2, <1>3, <1>4, <2>1, <3>1
    <3> QED
      BY <1>6, <3>2 DEF Range
  <2>3. M = KeywordLimit
    BY <1>1, <1>2, <2>1, <2>2
  <2>4. \A i \in 1..M : i \in 1..N /\ i < n
    BY <1>1, <1>2, <2>1, <2>2
  <2> QED
    BY <1>1, <1>3, <1>4, <1>5, <2>1, <2>3, <2>4
<1> QED
  BY <1>1, <1>2, <1>3, <1>4, <1>5, <1>6

-----------------------------------------------------------------------------
(* extract_skills and their merging.                                       *)

LEMMA LeastNumber ==
    ASSUME NEW T \in SUBSET Nat, T # {}
    PROVE  \E n \in T : \A m \in T : n <= m
<1>1. IsWellFoundedOn(OpToRel(<, Nat), Nat)
  BY NatLessThanWellFounded
<1>2. PICK n \in T : \A m \in T : ~ (<<m, n>> \in OpToRel(<, Nat))
  BY <1>1, WFMin
<1>3. ASSUME NEW m \in T
      PROVE  n <= m
  <2>1. m \in Nat /\ n \in Nat
    OBVIOUS
  <2>2. ~ (m < n)
    BY <1>2, <2>1 DEF OpToRel
  <2> QED
    BY <2>1, <2>2
<1> QED
  BY <1>3

\* s[i] occurs nowhere before i.
IsFirst(s, i) == \A j \in 1..(i - 1) : s[j] # s[i]

LEMMA FirstOccurrence ==
    ASSUME NEW s \in Seq(Int), NEW i \in DOMAIN s
    PROVE  /\ IsFirst(s, i) => First(s, s[i]) = i
           /\ \E k \in DOMAIN s : k <= i /\ s[k] = s[i] /\ IsFirst(s, k)
<1>1. DOMAIN s = 1..Len(s) /\ Len(s) \in Nat /\ i \in Nat
  OBVIOUS
<1>2. ASSUME IsFirst(s, i)
      PROVE  First(s, s[i]) = i
  <2> DEFINE P(k) == s[k] = s[i] /\ \A j \in 1..(k - 1) : s[j] # s[i]
  <2>1. P(i)
    BY <1>2 DEF IsFirst
  <2>2. ASSUME NEW k \in DOMAIN s, P(k)
        PROVE  k = i
    <3>1. k \in Nat /\ k \in 1..Len(s) /\ i \in 1..Len(s)
      BY <1>1
    <3>2. ~ (k < i) /\ ~ (i < k)
      BY <2>1, <2>2, <3>1
    <3> QED
      BY <3>1, <3>2
  <2>3. First(s, s[i]) = CHOOSE k \in DOMAIN s : P(k)
    BY DEF First
  <2> HIDE DEF P
  <2> QED
    BY <2>1, <2>2, <2>3
<1>3. \E k \in DOMAIN s : k <= i /\ s[k] = s[i] /\ IsFirst(s, k)
  <2> DEFINE T == {k \in DOMAIN s : s[k] = s[i]}
  <2>1. T \in SUBSET Nat /\ i \in T
    BY <1>1
  <2>2. PICK k \in T : \A m \in T : k <= m
    BY <2>1, LeastNumber
  <2>3. k \in 1..Len(s) /\ k \in Nat /\ s[k] = s[i] /\ k <= i
    BY <1>1, <2>1, <2>2
  <2>4. ASSUME NEW j \in 1..(k - 1), s[j] = s[k]
        PROVE  FALSE
    <3>1. j \in Nat /\ j \in 1..Len(s) /\ j < k
      BY <1>1, <2>3
    <3>2. j \in T
      BY <1>1, <2>3, <2>4, <3>1
    <3> QED
      BY <2>2, <2>3, <3>1, <3>2
  <2> QED
    BY <1>1, <2>3, <2>4 DEF IsFirst
<1> QED
  BY <1>2, <1>3

\* What is kept of s: the values at the positions in P, in their order.
LEMMA KeptValues ==
    ASSUME NEW s \in Seq(Int), NEW P \in SUBSET (DOMAIN s)
    PROVE  /\ Kept(s, P) \in Seq(Int)
           /\ \A n \in DOMAIN Kept(s, P) :
                 InOrder(P)[n] \in P /\ Kept(s, P)[n] = s[InOrder(P)[n]]
           /\ \A m, n \in DOMAIN Kept(s, P) : m < n <=> InOrder(P)[m] < InOrder(P)[n]
           /\ \A i \in P : \E n \in DOMAIN Kept(s, P) : InOrder(P)[n] = i
<1> DEFINE N == Cardinality(P)
           o == InOrder(P)
           r == Kept(s, P)
<1>1. DOMAIN s = 1..Len(s) /\ Len(s) \in Nat
  OBVIOUS
<1>2. P \in SUBSET Nat /\ IsFiniteSet(P)
  <2>1. IsFiniteSet(1..Len(s))
    BY <1>1, FS_Interval
  <2>2. P \in SUBSET (1..Len(s))
    BY <1>1
  <2> QED
    BY <1>1, <2>1, <2>2, FS_Subset
<1>3. /\ N \in Nat
      /\ \A n \in 1..N : o[n] \in P
      /\ \A m, n \in 1..N : m < n <=> o[m] < o[n]
      /\ \A i \in P : \E n \in 1..N : o[n] = i
  BY <1>2, SortedNumbers
<1>4. r = [n \in 1..N |-> s[o[n]]] /\ DOMAIN r = 1..N
  BY DEF Kept
<1> HIDE DEF N, o, r
<1>5. r \in Seq(Int)
  <2>1. \A n \in 1..N : s[o[n]] \in Int
    BY <1>1, <1>3
  <2>2. r \in [1..N -> Int]
    BY <1>4, <2>1
  <2> QED
    BY <1>3, <2>2, SeqDef
<1>6. \A n \in 1..N : r[n] = s[o[n]]
  BY <1>4
<1> QED
  BY <1>3, <1>4, <1>5, <1>6 DEF o, r

\* dict.fromkeys loses no value, and keeps the order of first occurrences.
LEMMA DistinctValues ==
    ASSUME NEW s \in Seq(Int), NEW r, r = Distinct(s)
    PROVE  /\ r \in Seq(Int) /\ Range(r) = Range(s)
           /\ \A m, n \in DOMAIN r : m < n =>
                 \E i, j \in DOMAIN s : /\ i < j /\ r[m] = s[i] /\ r[n] = s[j]
                                        /\ IsFirst(s, i) /\ IsFirst(s, j)
<1> DEFINE P == {i \in DOMAIN s : \A j \in 1..(i - 1) : s[j] # s[i]}
           o == InOrder(P)
<1>1. P \in SUBSET (DOMAIN s) /\ \A i \in DOMAIN s : i \in P <=> IsFirst(s, i)
  BY DEF IsFirst
<1>2. r = Kept(s, P)
  BY DEF Distinct
<1> HIDE DEF P
<1>3. /\ r \in Seq(Int)
      /\ \A n \in DOMAIN r : o[n] \in P /\ r[n] = s[o[n]]
      /\ \A m, n \in DOMAIN r : m < n <=> o[m] < o[n]
      /\ \A i \in P : \E n \in DOMAIN r : o[n] = i
  BY <1>1, <1>2, KeptValues
<1> HIDE DEF o
<1>4. Range(r) \subseteq Range(s)
  BY <1>1, <1>3 DEF Range
<1>5. ASSUME NEW i \in DOMAIN s
      PROVE  s[i] \in Range(r)
  <2>1. PICK k \in DOMAIN s : s[k] = s[i] /\ IsFirst(s, k)
    BY FirstOccurrence
  <2>2. PICK n \in DOMAIN r : o[n] = k
    BY <1>1, <1>3, <2>1
  <2> QED
    BY <1>3, <2>1, <2>2 DEF Range
<1>6. Range(r) = Range(s)
  BY <1>4, <1>5 DEF Range
<1> QED
  BY <1>1, <1>3, <1>6

\* The skills found are those of the table that occur, in the table's order.
LEMMA FoundSkills ==
    ASSUME NEW text \in Seq(Seq(Token)), NEW f, f = extract_skills(text)
    PROVE  /\ f \in Seq(Int)
           /\ Range(f) = {w \in Range(KnownSkills) : \E t \in Tokens(text) : t.word = w}
           /\ \A m, n \in DOMAIN f : m < n /\ IsFirst(f, m) /\ IsFirst(f, n) =>
                 First(KnownSkills, f[m]) < First(KnownSkills, f[n])
<1> DEFINE K == KnownSkills
           P == {i \in DOMAIN K : \E t \in Tokens(text) : t.word = K[i]}
           o == InOrder(P)
<1>1. K \in Seq(Int) /\ DOMAIN K = 1..Len(K) /\ Len(K) \in Nat
  BY TextAssumption
<1>2. f = Kept(K, P)
  BY DEF extract_skills
<1>3. /\ P \in SUBSET (DOMAIN K)
      /\ \A i \in DOMAIN K : i \in P <=> \E t \in Tokens(text) : t.word = K[i]
  OBVIOUS
<1> HIDE DEF K, P
<1>4. /\ f \in Seq(Int)
      /\ \A n \in DOMAIN f : o[n] \in P /\ f[n] = K[o[n]]
      /\ \A m, n \in DOMAIN f : m < n <=> o[m] < o[n]
      /\ \A i \in P : \E n \in DOMAIN f : o[n] = i
  BY <1>1, <1>2, <1>3, KeptValues
<1> HIDE DEF o
<1>5. Range(f) = {w \in Range(K) : \E t \in Tokens(text) : t.word = w}
  <2>1. ASSUME NEW n \in DOMAIN f
        PROVE  f[n] \in Range(K) /\ \E t \in Tokens(text) : t.word = f[n]
    <3>1. o[n] \in P /\ f[n] = K[o[n]]
      BY <1>4
    <3>2. o[n] \in DOMAIN K /\ \E t \in Tokens(text) : t.word = K[o[n]]
      BY <1>3, <3>1
    <3> QED
      BY <3>1, <3>2 DEF Range
  <2>2. ASSUME NEW i \in DOMAIN K, \E t \in Tokens(text) : t.word = K[i]
        PROVE  K[i] \in Range(f)
    <3>1. PICK n \in DOMAIN f : o[n] = i
      BY <1>3, <1>4, <2>2
    <3> QED
      BY <1>4, <3>1 DEF Range
  <2> QED
    BY <2>1, <2>2 DEF Range
<1>6. ASSUME NEW n \in DOMAIN f, IsFirst(f, n)
      PROVE  First(K, f[n]) = o[n]
  <2>1. o[n] \in DOMAIN K /\ f[n] = K[o[n]] /\ o[n] \in P
    BY <1>3, <1>4
  <2>2. ASSUME NEW k \in 1..(o[n] - 1), K[k] = K[o[n]]
        PROVE  FALSE
    <3>1. k \in DOMAIN K /\ k < o[n] /\ k \in Nat
      BY <1>1, <2>1
    <3>2. k \in P
      BY <1>3, <2>1, <2>2, <3>1
    <3>3. PICK m \in DOMAIN f : o[m] = k
      BY <1>4, <3>2
    <3>4. m < n /\ f[m] = f[n]
      BY <1>4, <2>1, <2>2, <3>1, <3>3
    <3>5. m \in 1..(n - 1)
      BY <1>4, <3>4
    <3> QED
      BY <1>6, <3>4, <3>5 DEF IsFirst
  <2>3. IsFirst(K, o[n])
    BY <2>2 DEF IsFirst
  <2> QED
    BY <1>1, <2>1, <2>3, FirstOccurrence
<1>7. ASSUME NEW m \in DOMAIN f, NEW n \in DOMAIN f, m < n, IsFirst(f, m), IsFirst(f, n)
      PROVE  First(K, f[m]) < First(K, f[n])
  <2>1. o[m] < o[n]
    BY <1>4, <1>7
  <2>2. First(K, f[m]) = o[m] /\ First(K, f[n]) = o[n]
    BY <1>6, <1>7
  <2> QED
    BY <2>1, <2>2
<1> QED
  BY <1>4, <1>5, <1>7 DEF K

\* The order of r: what a asks for first, then by the table of skills.
InTurn(r, a) ==
    \A i, j \in DOMAIN r : i < j =>
        IF r[j] \in Range(a)
        THEN r[i] \in Range(a) /\ First(a, r[i]) < First(a, r[j])
        ELSE r[i] \in Range(a) \/ First(KnownSkills, r[i]) < First(KnownSkills, r[j])

\* Merging the skills found into what was asked for, or into what an earlier
\* run has made of it, gives the same set in the same order.
LEMMA MergedOnce ==
    ASSUME NEW a \in Seq(Int), NEW r \in Seq(Int), NEW text \in Seq(Seq(Token)),
           NEW f, f = extract_skills(text),
           r = a \/ (Range(r) = Range(a) \cup Range(f) /\ InTurn(r, a)),
           NEW q, q = Merged(r, f)
    PROVE  q \in Seq(Int) /\ Range(q) = Range(a) \cup Range(f) /\ InTurn(q, a)
<1> DEFINE s == r \o f
           R == Len(r)
<1>1. /\ f \in Seq(Int)
      /\ \A m, n \in DOMAIN f : m < n /\ IsFirst(f, m) /\ IsFirst(f, n) =>
            First(KnownSkills, f[m]) < First(KnownSkills, f[n])
  BY FoundSkills
<1>2. /\ s \in Seq(Int) /\ Len(s) = R + Len(f)
      /\ \A i \in 1..(R + Len(f)) : s[i] = IF i <= R THEN r[i] ELSE f[i - R]
  BY <1>1, ConcatProperties
<1>3. q = Distinct(s)
  BY DEF Merged
<1>4. /\ R \in Nat /\ Len(f) \in Nat /\ DOMAIN r = 1..R /\ DOMAIN f = 1..Len(f)
      /\ DOMAIN s = 1..(R + Len(f))
  <2>1. Len(s) \in Nat /\ DOMAIN s = 1..Len(s)
    BY <1>2
  <2> QED
    BY <1>1, <1>2, <2>1
<1> HIDE DEF s, R
<1>5. \A i \in 1..R : i \in DOMAIN s /\ s[i] = r[i]
  BY <1>2, <1>4
<1>6. /\ \A i \in DOMAIN s : ~(i <= R) => i - R \in 1..Len(f) /\ s[i] = f[i - R]
      /\ \A k \in 1..Len(f) : R + k \in DOMAIN s /\ s[R + k] = f[k]
  <2>1. ASSUME NEW i \in DOMAIN s, ~(i <= R)
        PROVE  i - R \in 1..Len(f) /\ s[i] = f[i - R]
    <3>1. i \in 1..(R + Len(f)) /\ i \in Nat
      BY <1>4
    <3>2. i - R \in 1..Len(f)
      BY <1>4, <2>1, <3>1
    <3>3. s[i] = IF i <= R THEN r[i] ELSE f[i - R]
      BY <1>2, <3>1
    <3> QED
      BY <2>1, <3>2, <3>3
  <2>2. ASSUME NEW k \in 1..Len(f)
        PROVE  R + k \in DOMAIN s /\ s[R + k] = f[k]
    <3>1. R + k \in 1..(R + Len(f)) /\ ~(R + k <= R) /\ (R + k) - R = k
      BY <1>4
    <3>2. s[R + k] = IF R + k <= R THEN r[R + k] ELSE f[(R + k) - R]
      BY <1>2, <3>1
    <3> QED
      BY <1>4, <3>1, <3>2
  <2> QED
    BY <2>1, <2>2
<1>7. Range(s) = Range(r) \cup Range(f)
  <2>1. ASSUME NEW i \in DOMAIN s
        PROVE  s[i] \in Range(r) \cup Range(f)
    <3>1. CASE i <= R
      <4>1. i \in 1..R
        BY <1>4, <3>1
      <4> QED
        BY <1>4, <1>5, <4>1 DEF Range
    <3>2. CASE ~(i <= R)
      BY <1>4, <1>6, <3>2 DEF Range
    <3> QED
      BY <3>1, <3>2
  <2>2. \A i \in DOMAIN r : r[i] \in Range(s)
    BY <1>4, <1>5 DEF Range
  <2>3. \A k \in DOMAIN f : f[k] \in Range(s)
    <3>1. \A k \in DOMAIN f : R + k \in DOMAIN s /\ s[R + k] = f[k]
      BY <1>4, <1>6
    <3> QED
      BY <3>1, Zenon DEF Range
  <2>4. Range(s) \subseteq Range(r) \cup Range(f)
    <3> HIDE DEF R
    <3> QED
      BY <2>1, Zenon DEF Range
  <2>5. Range(r) \subseteq Range(s)
    <3>1. \A x \in Range(r) : \E i \in DOMAIN r : x = r[i]
      BY DEF Range
    <3> QED
      BY <2>2, <3>1
  <2>6. Range(f) \subseteq Range(s)
    <3>1. \A x \in Range(f) : \E i \in DOMAIN f : x = f[i]
      BY DEF Range
    <3> QED
      BY <2>3, <3>1
  <2> QED
    BY <2>4, <2>5, <2>6
<1>8. /\ q \in Seq(Int) /\ Range(q) = Range(s)
      /\ \A m, n \in DOMAIN q : m < n =>
            \E i, j \in DOMAIN s : /\ i < j /\ q[m] = s[i] /\ q[n] = s[j]
                                   /\ IsFirst(s, i) /\ IsFirst(s, j)
  BY <1>2, <1>3, DistinctValues
<1>9. Range(q) = Range(a) \cup Range(f)
  BY <1>7, <1>8
\* A first occurrence past r is not in r, and a first one among those found.
<1>10. ASSUME NEW j \in DOMAIN s, IsFirst(s, j), ~(j <= R)
       PROVE  s[j] \notin Range(r) /\ IsFirst(f, j - R)
  <2>1. s[j] \notin Range(r)
    <3>1. \A i \in 1..R : i \in 1..(j - 1)
      BY <1>4, <1>10
    <3> QED
      BY <1>4, <1>5, <1>10, <3>1 DEF IsFirst, Range
  <2>2. ASSUME NEW k \in 1..((j - R) - 1), f[k] = f[j - R]
        PROVE  FALSE
    <3>1. j \in 1..(R + Len(f)) /\ j \in Nat
      BY <1>4
    <3>2. k \in Nat /\ k \in 1..Len(f) /\ R + k \in 1..(j - 1)
      BY <1>4, <1>10, <3>1
    <3>3. s[R + k] = f[k] /\ s[j] = f[j - R]
      BY <1>6, <1>10, <3>2
    <3> QED
      BY <1>10, <2>2, <3>2, <3>3 DEF IsFirst
  <2> QED
    BY <2>1, <2>2 DEF IsFirst
<1>11. ASSUME NEW i \in DOMAIN s, NEW j \in DOMAIN s, i < j, IsFirst(s, i), IsFirst(s, j)
       PROVE  IF s[j] \in Range(a)
              THEN s[i] \in Range(a) /\ First(a, s[i]) < First(a, s[j])
              ELSE \/ s[i] \in Range(a)
                   \/ First(KnownSkills, s[i]) < First(KnownSkills, s[j])
  <2>1. CASE r = a
    <3>1. CASE j <= R
      <4>1. i \in 1..R /\ j \in 1..R /\ s[i] = r[i] /\ s[j] = r[j]
        BY <1>4, <1>5, <1>11, <3>1
      <4>2. IsFirst(r, i) /\ IsFirst(r, j)
        BY <1>4, <1>5, <1>11, <4>1 DEF IsFirst
      <4>3. First(r, r[i]) = i /\ First(r, r[j]) = j
        BY <1>4, <4>1, <4>2, FirstOccurrence
      <4>4. r[i] \in Range(r) /\ r[j] \in Range(r)
        BY <1>4, <4>1 DEF Range
      <4> QED
        BY <1>11, <2>1, <4>1, <4>3, <4>4
    <3>2. CASE ~(j <= R) /\ i <= R
      BY <1>4, <1>5, <1>10, <1>11, <2>1, <3>2 DEF Range
    <3>3. CASE ~(j <= R) /\ ~(i <= R)
      <4>1. IsFirst(f, i - R) /\ IsFirst(f, j - R) /\ s[j] \notin Range(a)
        BY <1>10, <1>11, <2>1, <3>3
      <4>2. i - R \in 1..Len(f) /\ j - R \in 1..Len(f) /\ i - R < j - R
        BY <1>4, <1>6, <1>11, <3>3
      <4> QED
        BY <1>1, <1>4, <1>6, <1>11, <3>3, <4>1, <4>2
    <3> QED
      BY <1>4, <3>1, <3>2, <3>3
  <2>2. CASE Range(r) = Range(a) \cup Range(f) /\ InTurn(r, a)
    <3>1. j <= R
      <4>1. SUFFICES ASSUME ~(j <= R) PROVE FALSE
        OBVIOUS
      <4>2. s[j] \in Range(f)
        BY <1>4, <1>6, <4>1 DEF Range
      <4> QED
        BY <1>10, <1>11, <2>2, <4>1, <4>2
    <3>2. i \in 1..R /\ j \in 1..R /\ s[i] = r[i] /\ s[j] = r[j]
      BY <1>4, <1>5, <1>11, <3>1
    <3> QED
      BY <1>4, <1>11, <2>2, <3>2 DEF InTurn
  <2> QED
    BY <2>1, <2>2
<1>12. InTurn(q, a)
  BY <1>8, <1>11 DEF InTurn
<1> QED
  BY <1>8, <1>9, <1>12

-----------------------------------------------------------------------------
(* The two columns that extract_job_skills_keywords commits.               *)

\* Before the first run the skills are those asked for; after it, and after every
\* other, they are merged and in turn, so that one more run changes nothing of that.
SkillsInv ==
    /\ attempts \in Nat
    /\ required_skills \in Seq(Int)
    /\ attempts = 0 => required_skills = asked
    /\ attempts > 0 =>
          /\ Range(required_skills) = Range(asked) \cup Range(extract_skills(Text))
          /\ InTurn(required_skills, asked)

LEMMA SkillsInvInit == Init => SkillsInv
BY TextAssumption DEF Init, SkillsInv

LEMMA SkillsInvNext == BreakdownInv /\ SkillsInv /\ [Next]_vars => SkillsInv'
<1> SUFFICES ASSUME BreakdownInv, SkillsInv, [Next]_vars PROVE SkillsInv'
  OBVIOUS
<1>1. Text \in Seq(Seq(Token)) /\ asked \in Seq(Int)
  BY TextType, TextAssumption DEF BreakdownInv, Inputs
<1>2. Text' = Text /\ asked' = asked
  BY DEF Text, Next, vars, job, ReadLine, BreakDown, Retry, Extract
<1>3. CASE Extract
  <2> DEFINE f == extract_skills(Text)
             q == Merged(required_skills, f)
  <2>1. required_skills' = q /\ attempts' = attempts + 1
    BY <1>3 DEF Extract
  <2>2. /\ required_skills \in Seq(Int) /\ attempts \in Nat
        /\ \/ required_skills = asked
           \/ /\ Range(required_skills) = Range(asked) \cup Range(f)
              /\ InTurn(required_skills, asked)
    BY DEF SkillsInv
  <2> HIDE DEF f, q
  <2>3. q \in Seq(Int) /\ Range(q) = Range(asked) \cup Range(f) /\ InTurn(q, asked)
    BY <1>1, <2>2, MergedOnce DEF f, q
  <2>4. attempts' \in Nat /\ attempts' # 0
    BY <2>1, <2>2
  <2>5. extract_skills(Text)' = f
    BY <1>2 DEF f, extract_skills
  <2>6. InTurn(required_skills, asked)' <=> InTurn(q, asked)
    BY <1>2, <2>1 DEF InTurn
  <2> QED
    BY <1>2, <2>1, <2>3, <2>4, <2>5, <2>6 DEF SkillsInv
<1>4. CASE UNCHANGED <<required_skills, attempts>>
  <2>1. extract_skills(Text)' = extract_skills(Text)
    BY <1>2 DEF extract_skills
  <2>2. InTurn(required_skills, asked)' <=> InTurn(required_skills, asked)
    BY <1>2, <1>4 DEF InTurn
  <2> QED
    BY <1>2, <1>4, <2>1, <2>2 DEF SkillsInv
<1> QED
  BY <1>3, <1>4 DEF Next, vars, ReadLine, BreakDown, Retry

\* IMPLEMENTATION.md's idempotence of the activity: run once or again, it leaves
\* the skills asked for, each once and first, and then those the text mentions.
THEOREM SkillsAreMergedOnce == Spec => []SkillsMergedOnce
<1>1. BreakdownInv /\ SkillsInv => SkillsMergedOnce
  <2> SUFFICES ASSUME BreakdownInv, SkillsInv, attempts > 0 PROVE SkillsMergedOnce
    BY DEF SkillsMergedOnce
  <2>1. Text \in Seq(Seq(Token))
    BY TextType DEF BreakdownInv
  <2>2. Range(extract_skills(Text)) = Found
    BY <2>1, FoundSkills DEF Found
  <2>3. Range(required_skills) = Range(asked) \cup Found /\ InTurn(required_skills, asked)
    BY <2>2 DEF SkillsInv
  <2> QED
    BY <2>3 DEF InTurn, SkillsMergedOnce
<1> QED
  BY <1>1, BreakdownInvInit, BreakdownInvNext, SkillsInvInit, SkillsInvNext, PTL DEF Spec

\* The keywords of every run are those of the text.
KeywordsInv ==
    /\ attempts \in 0..MaxAttempts
    /\ extracted_keywords = IF attempts = 0 THEN None ELSE extract_keywords(Text)

LEMMA KeywordsInvInit == Init => KeywordsInv
BY BoundsAssumption DEF Init, KeywordsInv

LEMMA KeywordsInvNext == KeywordsInv /\ [Next]_vars => KeywordsInv'
<1> SUFFICES ASSUME KeywordsInv, [Next]_vars PROVE KeywordsInv'
  OBVIOUS
<1>1. Text' = Text
  BY DEF Text, Next, vars, job, ReadLine, BreakDown, Retry, Extract
<1>2. extract_keywords(Text)' = extract_keywords(Text)
  BY <1>1 DEF extract_keywords
<1>3. CASE Extract
  <2>1. /\ extracted_keywords' = extract_keywords(Text)
        /\ attempts' = attempts + 1 /\ attempts < MaxAttempts
    BY <1>3 DEF Extract
  <2>2. attempts' \in 0..MaxAttempts /\ attempts' # 0
    BY <2>1, BoundsAssumption DEF KeywordsInv
  <2> QED
    BY <1>2, <2>1, <2>2 DEF KeywordsInv
<1>4. CASE UNCHANGED <<extracted_keywords, attempts>>
  BY <1>2, <1>4 DEF KeywordsInv
<1> QED
  BY <1>3, <1>4 DEF Next, vars, ReadLine, BreakDown, Retry

LEMMA KeywordsOfText ==
    ASSUME BreakdownInv, KeywordsInv
    PROVE  /\ extracted_keywords = None <=> attempts = 0
           /\ extracted_keywords # None => extracted_keywords = extract_keywords(Text)
           /\ Text \in Seq(Seq(Token))
<1>1. Text \in Seq(Seq(Token))
  BY TextType DEF BreakdownInv
<1>2. extract_keywords(Text) \in Seq(Token)
  BY <1>1, ExtractedKeywords
<1> QED
  BY <1>1, <1>2, TextAssumption DEF KeywordsInv

\* The keywords stored are the best ranked of the text, as many as there is room
\* for, and none is a bare stop word.
THEOREM KeywordsAreRanked == Spec => []KeywordsRanked
<1>1. BreakdownInv /\ KeywordsInv => KeywordsRanked
  <2> SUFFICES ASSUME BreakdownInv, KeywordsInv, extracted_keywords # None
               PROVE  KeywordsRanked
    BY DEF KeywordsRanked
  <2> DEFINE K == extracted_keywords
  <2>1. Text \in Seq(Seq(Token)) /\ K = extract_keywords(Text)
    BY KeywordsOfText
  <2> HIDE DEF K
  <2>2. /\ K \in Seq(Token)
        /\ \A i \in DOMAIN K : K[i] \in Keywords(Text)
        /\ \A i, j \in DOMAIN K : i < j => Before(Text, K[i], K[j])
        /\ \A t \in Keywords(Text) :
              \/ t \in Range(K)
              \/ Len(K) = KeywordLimit /\ \A i \in DOMAIN K : Before(Text, K[i], t)
    BY <2>1, ExtractedKeywords
  <2>3. \A t, u : Before(Text, t, u) <=> Ranks(t, u)
    BY DEF Before, Ranks, counts
  <2>4. \A i \in DOMAIN K :
           K[i] \in Tokens(Text) /\ (K[i].dotted \/ K[i].word \notin Stopwords)
    BY <2>2 DEF Keywords, Keyword
  <2>5. \A i, j \in DOMAIN K : i < j => Ranks(K[i], K[j])
    BY <2>2, <2>3
  <2>6. ASSUME NEW t \in Tokens(Text) \ Range(K)
        PROVE  \/ ~t.dotted /\ t.word \in Stopwords \cup Short
               \/ Len(K) = KeywordLimit /\ \A i \in DOMAIN K : Ranks(K[i], t)
    BY <2>2, <2>3, <2>6 DEF Keywords, Keyword
  <2> QED
    BY <2>4, <2>5, <2>6 DEF KeywordsRanked, K
<1> QED
  BY <1>1, BreakdownInvInit, BreakdownInvNext, KeywordsInvInit, KeywordsInvNext, PTL DEF Spec

\* The loop stays within the description and its sections, the columns have their
\* shape, and the keywords their limit.
THEOREM ContentTypeCorrect == Spec => []TypeOK
<1>1. BreakdownInv /\ KeywordsInv => TypeOK
  <2> SUFFICES ASSUME BreakdownInv, KeywordsInv PROVE TypeOK
    OBVIOUS
  <2>1. /\ line \in 1..(Len(description) + 1) /\ DOMAIN buckets = Sections
        /\ structured_content = None \/ DOMAIN structured_content = Sections
    BY DEF BreakdownInv, LoopInv, StoredInv
  <2>2. current \in Sections
    BY InSectionIsSectionOf DEF BreakdownInv, LoopInv
  <2>3. /\ attempts \in 0..MaxAttempts
        /\ extracted_keywords = None <=> attempts = 0
    BY KeywordsOfText DEF KeywordsInv
  <2>4. extracted_keywords # None => Len(extracted_keywords) <= KeywordLimit
    BY KeywordsOfText, ExtractedKeywords
  <2> QED
    BY <2>1, <2>2, <2>3, <2>4 DEF TypeOK
<1> QED
  BY <1>1, BreakdownInvInit, BreakdownInvNext, KeywordsInvInit, KeywordsInvNext, PTL DEF Spec

=============================================================================
