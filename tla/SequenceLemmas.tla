---------------------------- MODULE SequenceLemmas ----------------------------
(***************************************************************************)
(* Facts about sequences that the proofs of several components cite.       *)
(***************************************************************************)
EXTENDS Integers, Sequences, SequencesExt, SequenceTheorems, WellFoundedInduction, TLAPS

(* What Last, Front, Append and InsertAt do to sequences over a set.        *)
LEMMA PrefixSeq ==
  ASSUME NEW S, NEW s \in Seq(S), NEW p \in Nat, p <= Len(s)
  PROVE  /\ SubSeq(s, 1, p) \in Seq(S)
         /\ Len(SubSeq(s, 1, p)) = p
         /\ \A i \in 1..p : SubSeq(s, 1, p)[i] = s[i]
<1>1. \A i \in 1..p : s[i] \in S
  OBVIOUS
<1> QED BY <1>1, SubSeqProperties

LEMMA LastFront ==
  ASSUME NEW S, NEW s \in Seq(S), s # <<>>
  PROVE  /\ Len(s) \in Nat \ {0}
         /\ Last(s) = s[Len(s)]
         /\ Last(s) \in S
         /\ Front(s) \in Seq(S)
         /\ Len(Front(s)) = Len(s) - 1
         /\ \A i \in 1..Len(s) - 1 : Front(s)[i] = s[i]
<1>1. Len(s) \in Nat /\ Len(s) > 0
  OBVIOUS
<1>2. Len(s) - 1 \in Nat /\ Len(s) - 1 <= Len(s)
  BY <1>1
<1>3. /\ Front(s) \in Seq(S)
      /\ Len(Front(s)) = Len(s) - 1
      /\ \A i \in 1..Len(s) - 1 : Front(s)[i] = s[i]
  BY <1>2, PrefixSeq DEF Front
<1>4. Last(s) = s[Len(s)] /\ Last(s) \in S
  BY <1>1 DEF Last
<1> QED BY <1>1, <1>3, <1>4

LEMMA AppendLast ==
  ASSUME NEW S, NEW s \in Seq(S), NEW e \in S
  PROVE  /\ Append(s, e) \in Seq(S)
         /\ Append(s, e) # <<>>
         /\ Len(Append(s, e)) = Len(s) + 1
         /\ \A i \in 1..Len(s) : Append(s, e)[i] = s[i]
         /\ Append(s, e)[Len(s) + 1] = e
  OBVIOUS

(* The stack t is s with e on top, or with e in place of what was on top.   *)
IsPushed(S, t, s, e) ==
  /\ t \in Seq(S) /\ t # << >> /\ Len(s) \in Nat /\ Len(t) = Len(s) + 1
  /\ \A i \in 1 .. Len(s) : t[i] = s[i]
  /\ t[Len(s) + 1] = e /\ Last(t) = e /\ Front(t) = s

IsReplaced(S, t, s, e) ==
  /\ t \in Seq(S) /\ t # << >> /\ Len(s) \in Nat \ {0} /\ Len(t) = Len(s)
  /\ \A i \in 1 .. Len(s) : i # Len(s) => t[i] = s[i]
  /\ t[Len(s)] = e /\ Last(t) = e /\ Front(t) = Front(s) /\ Last(s) = s[Len(s)]

LEMMA ElementPushed ==
  ASSUME NEW S, NEW s \in Seq(S), NEW e \in S
  PROVE  IsPushed(S, Append(s, e), s, e)
<1>0. PICK t : t = Append(s, e)
  OBVIOUS
<1>1. /\ t \in Seq(S) /\ t # << >> /\ Len(s) \in Nat /\ Len(t) = Len(s) + 1
      /\ \A i \in 1 .. Len(s) : t[i] = s[i]
      /\ t[Len(s) + 1] = e
  BY <1>0, AppendLast
<1>2. Last(t) = e
  BY <1>1 DEF Last
<1>3. Front(t) = s
  <2>1. /\ Front(t) \in Seq(S) /\ Len(Front(t)) = Len(t) - 1
        /\ \A i \in 1 .. Len(t) - 1 : Front(t)[i] = t[i]
    BY <1>1, LastFront, Zenon
  <2>2. Len(t) - 1 = Len(s)
    BY <1>1
  <2>3. Len(Front(t)) = Len(s) /\ \A i \in 1 .. Len(s) : Front(t)[i] = s[i]
    BY <1>1, <2>1, <2>2, Zenon
  <2> QED BY <2>1, <2>3, SeqEqual
<1>4. IsPushed(S, t, s, e)
  BY <1>1, <1>2, <1>3 DEF IsPushed
<1> QED BY <1>0, <1>4, Zenon

LEMMA ElementReplaced ==
  ASSUME NEW S, NEW s \in Seq(S), s # << >>, NEW e \in S
  PROVE  IsReplaced(S, Append(Front(s), e), s, e)
<1>1. PICK f \in Seq(S) : /\ f = Front(s) /\ Len(f) = Len(s) - 1
                         /\ \A i \in 1 .. Len(s) - 1 : f[i] = s[i]
  BY LastFront
<1>2. Len(s) \in Nat \ {0} /\ Last(s) = s[Len(s)]
  BY LastFront
<1>3. PICK t : t = Append(f, e)
  OBVIOUS
<1>4. IsPushed(S, t, f, e)
  BY <1>3, ElementPushed, Zenon
<1>5. Len(f) + 1 = Len(s)
  BY <1>1, <1>2
<1>6. \A i \in 1 .. Len(s) : i # Len(s) => i \in 1 .. Len(f)
  BY <1>1, <1>2
<1>7. \A i \in 1 .. Len(s) : i # Len(s) => t[i] = s[i]
  <2> SUFFICES ASSUME NEW i \in 1 .. Len(s), i # Len(s) PROVE t[i] = s[i]
    OBVIOUS
  <2>1. i \in 1 .. Len(f) /\ i \in 1 .. Len(s) - 1
    BY <1>1, <1>6
  <2> QED BY <1>1, <1>4, <2>1 DEF IsPushed
<1>8. Len(t) = Len(s) /\ t[Len(s)] = e
  BY <1>4, <1>5 DEF IsPushed
<1>9. IsReplaced(S, t, s, e)
  BY <1>1, <1>2, <1>4, <1>7, <1>8, Zenon DEF IsPushed, IsReplaced
<1> QED BY <1>1, <1>3, <1>9, Zenon

LEMMA ElementPopped ==
  ASSUME NEW S, NEW s \in Seq(S), s # << >>
  PROVE  IsPushed(S, s, Front(s), Last(s))
<1>1. PICK f \in Seq(S) : /\ f = Front(s) /\ Len(f) = Len(s) - 1
                         /\ \A i \in 1 .. Len(s) - 1 : f[i] = s[i]
  BY LastFront
<1>2. Len(s) \in Nat \ {0} /\ Last(s) = s[Len(s)]
  BY LastFront
<1>3. Len(f) + 1 = Len(s) /\ Len(f) = Len(s) - 1 /\ Len(f) \in Nat
  BY <1>1, <1>2
<1>4. IsPushed(S, s, f, Last(s))
  BY <1>1, <1>2, <1>3 DEF IsPushed
<1> QED BY <1>1, <1>4, Zenon

LEMMA InsertAtSeq ==
  ASSUME NEW S, NEW s \in Seq(S), NEW e \in S, NEW p \in Nat, p <= Len(s)
  PROVE  /\ InsertAt(s, p + 1, e) \in Seq(S)
         /\ Len(InsertAt(s, p + 1, e)) = Len(s) + 1
<1> DEFINE before == SubSeq(s, 1, p) \o <<e>>
           after  == SubSeq(s, p + 1, Len(s))
<1>1. before \in Seq(S) /\ Len(before) = p + 1
  <2>1. SubSeq(s, 1, p) \in Seq(S) /\ Len(SubSeq(s, 1, p)) = p
    BY PrefixSeq
  <2>2. <<e>> \in Seq(S) /\ Len(<<e>>) = 1
    OBVIOUS
  <2> QED BY <2>1, <2>2, ConcatProperties
<1>2. after \in Seq(S) /\ Len(after) = Len(s) - p
  BY SubSeqProperties
<1>3. InsertAt(s, p + 1, e) = before \o after
  <2>1. (p + 1) - 1 = p
    OBVIOUS
  <2>2. InsertAt(s, p + 1, e)
          = (SubSeq(s, 1, (p + 1) - 1) \o <<e>>) \o SubSeq(s, p + 1, Len(s))
    BY Zenon DEF InsertAt
  <2>3. SubSeq(s, 1, (p + 1) - 1) = SubSeq(s, 1, p)
    BY <2>1, Zenon
  <2> QED BY <2>2, <2>3, Zenon
<1> HIDE DEF before, after
<1>4. /\ before \o after \in Seq(S)
      /\ Len(before \o after) = Len(before) + Len(after)
  BY <1>1, <1>2, ConcatProperties
<1>5. Len(before) + Len(after) = Len(s) + 1
  BY <1>1, <1>2
<1> QED BY <1>3, <1>4, <1>5

LEMMA InsertAtElements ==
  ASSUME NEW S, NEW s \in Seq(S), NEW e \in S, NEW p \in Nat, p <= Len(s)
  PROVE  /\ \A i \in 1 .. p : InsertAt(s, p + 1, e)[i] = s[i]
         /\ InsertAt(s, p + 1, e)[p + 1] = e
         /\ \A i \in p + 1 .. Len(s) : InsertAt(s, p + 1, e)[i + 1] = s[i]
<1>0. Len(s) \in Nat
  OBVIOUS
<1>1. PICK a : a = SubSeq(s, 1, p)
  OBVIOUS
<1>2. a \in Seq(S) /\ Len(a) = p /\ \A i \in 1 .. p : a[i] = s[i]
  BY <1>1, PrefixSeq
<1>3. PICK c : c = SubSeq(s, p + 1, Len(s))
  OBVIOUS
<1>4. c \in Seq(S) /\ Len(c) = Len(s) - p /\ \A i \in 1 .. Len(s) - p : c[i] = s[p + i]
  <2>1. \A i \in p + 1 .. Len(s) : s[i] \in S
    OBVIOUS
  <2> QED BY <1>0, <1>3, <2>1, SubSeqProperties
<1>5. PICK b : b = a \o <<e>>
  OBVIOUS
<1>6. b \in Seq(S) /\ Len(b) = p + 1 /\ b[p + 1] = e /\ \A i \in 1 .. p : b[i] = s[i]
  <2>1. <<e>> \in Seq(S) /\ Len(<<e>>) = 1 /\ <<e>>[1] = e
    OBVIOUS
  <2>2. /\ b \in Seq(S) /\ Len(b) = p + 1
        /\ \A i \in 1 .. p + 1 : b[i] = IF i <= p THEN a[i] ELSE <<e>>[i - p]
    BY <1>2, <1>5, <2>1, ConcatProperties
  <2>3. p + 1 \in 1 .. p + 1 /\ ~(p + 1 <= p) /\ (p + 1) - p = 1
    OBVIOUS
  <2>4. b[p + 1] = e
    BY <2>1, <2>2, <2>3
  <2>5. \A i \in 1 .. p : i \in 1 .. p + 1 /\ i <= p
    OBVIOUS
  <2> QED BY <1>2, <2>2, <2>4, <2>5
<1>7. PICK r : r = b \o c
  OBVIOUS
<1>8. \A i \in 1 .. (p + 1) + (Len(s) - p) : r[i] = IF i <= p + 1 THEN b[i] ELSE c[i - (p + 1)]
  BY <1>4, <1>6, <1>7, ConcatProperties
<1>9. r = InsertAt(s, p + 1, e)
  <2>1. (p + 1) - 1 = p
    OBVIOUS
  <2> QED BY <1>1, <1>3, <1>5, <1>7, <2>1, Zenon DEF InsertAt
<1>10. \A i \in 1 .. p + 1 : i \in 1 .. (p + 1) + (Len(s) - p) /\ i <= p + 1
  BY <1>0
<1>11. /\ \A i \in 1 .. p : i \in 1 .. p + 1 /\ i # p + 1
       /\ p + 1 \in 1 .. p + 1
  OBVIOUS
<1>12. ASSUME NEW i \in p + 1 .. Len(s) PROVE r[i + 1] = s[i]
  <2>1. /\ i + 1 \in 1 .. (p + 1) + (Len(s) - p) /\ ~(i + 1 <= p + 1)
        /\ (i + 1) - (p + 1) = i - p /\ i - p \in 1 .. Len(s) - p /\ p + (i - p) = i
    BY <1>0
  <2> QED BY <1>4, <1>8, <2>1
<1>13. (\A i \in 1 .. p : r[i] = s[i]) /\ r[p + 1] = e
  BY <1>6, <1>8, <1>10, <1>11
<1> QED BY <1>9, <1>12, <1>13

(* Sequences of two.                                                        *)
LEMMA PairFacts ==
  ASSUME NEW S, NEW c \in S, NEW d \in S
  PROVE  Append(<<c>>, d) = <<c, d>> /\ Last(<<c, d>>) = d /\ Front(<<c, d>>) = <<c>>
<1>1. /\ <<c>> \in Seq(S) /\ Len(<<c>>) = 1 /\ <<c>>[1] = c
      /\ <<c, d>> \in Seq(S) /\ Len(<<c, d>>) = 2 /\ <<c, d>>[1] = c /\ <<c, d>>[2] = d
  OBVIOUS
<1>2. Append(<<c>>, d) = <<c, d>>
  <2>1. /\ Append(<<c>>, d) \in Seq(S) /\ Len(Append(<<c>>, d)) = 2
        /\ Append(<<c>>, d)[1] = c /\ Append(<<c>>, d)[2] = d
    BY <1>1, AppendLast
  <2>2. \A i \in 1..2 : Append(<<c>>, d)[i] = <<c, d>>[i]
    BY <1>1, <2>1
  <2> QED BY <1>1, <2>1, <2>2, SeqEqual
<1>3. <<c, d>> # <<>>
  OBVIOUS
<1>4. Front(<<c, d>>) = <<c>>
  <2>1. /\ Front(<<c, d>>) \in Seq(S) /\ Len(Front(<<c, d>>)) = 1
        /\ Front(<<c, d>>)[1] = c
    <3> DEFINE two == <<c, d>>
    <3>1. two \in Seq(S) /\ two # <<>> /\ Len(two) = 2 /\ two[1] = c
      BY <1>1, <1>3
    <3> HIDE DEF two
    <3>2. /\ Front(two) \in Seq(S) /\ Len(Front(two)) = Len(two) - 1
          /\ \A i \in 1..Len(two) - 1 : Front(two)[i] = two[i]
      BY <3>1, LastFront
    <3>3. 1 \in 1..Len(two) - 1 /\ Len(two) - 1 = 1
      BY <3>1
    <3>4. /\ Front(two) \in Seq(S) /\ Len(Front(two)) = 1 /\ Front(two)[1] = c
      BY <3>1, <3>2, <3>3
    <3> QED BY <3>4 DEF two
  <2>2. \A i \in 1..1 : Front(<<c, d>>)[i] = <<c>>[i]
    BY <1>1, <2>1
  <2> QED BY <1>1, <2>1, <2>2, SeqEqual
<1> QED BY <1>1, <1>2, <1>4 DEF Last

-----------------------------------------------------------------------------
(* Induction, in the form of sets of numbers.                               *)
Less == {ss \in Nat \X Nat : ss[1] < ss[2]}

LEMMA LeastElement ==
  ASSUME NEW S, S \subseteq Nat, S # {}
  PROVE  \E m \in S : \A k \in S : m <= k
<1>1. IsWellFoundedOn(Less, Nat)
  BY NatLessThanWellFounded DEF OpToRel, Less
<1>2. PICK m \in S : \A k \in S : <<k, m>> \notin Less
  BY <1>1, WFMin
<1>3. \A k \in S : ~(k < m)
  BY <1>2 DEF Less
<1> QED BY <1>3

(* A set that holds 0 and the successors of its members holds all numbers.  *)
LEMMA SetInduction ==
  ASSUME NEW S, 0 \in S, \A n \in Nat : n \in S => n + 1 \in S
  PROVE  Nat \subseteq S
<1> SUFFICES ASSUME Nat \ S # {} PROVE FALSE
  OBVIOUS
<1>1. PICK m \in Nat \ S : \A k \in Nat \ S : m <= k
  BY LeastElement
<1>2. m # 0 /\ m - 1 \in Nat
  BY <1>1
<1>3. m - 1 \in S
  BY <1>1, <1>2
<1>4. (m - 1) + 1 \in S
  BY <1>2, <1>3
<1> QED BY <1>1, <1>4

-----------------------------------------------------------------------------
(* Recursion.  A step computes the value at s from a function it reads only *)
(* at what R puts before s; f follows the step on D.                        *)
HasMinima(R, S) ==
  \A T \in SUBSET S : T # {} => \E x \in T : \A y \in T : <<y, x>> \notin R

ReadsBefore(step, R, S, V) ==
  \A s \in S : \A f, g \in [S -> V] :
    (\A t \in S : <<t, s>> \in R => f[t] = g[t]) => step[<<s, f>>] = step[<<s, g>>]

Solves(f, step, R, S, D) ==
  /\ D \subseteq S
  /\ \A s \in D : \A t \in S : <<t, s>> \in R => t \in D
  /\ \A s \in D : f[s] = step[<<s, f>>]

LEMMA SolutionsAgree ==
  ASSUME NEW S, NEW V, NEW R, NEW step, HasMinima(R, S), ReadsBefore(step, R, S, V),
         NEW f \in [S -> V], NEW g \in [S -> V], NEW D, NEW E,
         Solves(f, step, R, S, D), Solves(g, step, R, S, E), NEW s \in D \cap E
  PROVE  f[s] = g[s]
<1> DEFINE T == {t \in D \cap E : f[t] # g[t]}
<1> SUFFICES ASSUME T # {} PROVE FALSE
  OBVIOUS
<1>1. T \in SUBSET S
  BY DEF Solves
<1>2. PICK x \in T : \A y \in T : <<y, x>> \notin R
  BY <1>1 DEF HasMinima
<1>3. x \in S /\ x \in D /\ x \in E /\ f[x] # g[x]
  BY <1>1, <1>2
<1>4. ASSUME NEW t \in S, <<t, x>> \in R PROVE f[t] = g[t]
  <2>1. t \in D /\ t \in E
    BY <1>3, <1>4 DEF Solves
  <2> QED BY <1>2, <1>4, <2>1
<1>5. step[<<x, f>>] = step[<<x, g>>]
  BY <1>3, <1>4 DEF ReadsBefore
<1>6. f[x] = step[<<x, f>>] /\ g[x] = step[<<x, g>>]
  BY <1>3 DEF Solves
<1> QED BY <1>3, <1>5, <1>6

LEMMA RecursionExists ==
  ASSUME NEW S, NEW V, NEW R, NEW step \in [S \X [S -> V] -> V], NEW v \in V,
         HasMinima(R, S), ReadsBefore(step, R, S, V)
  PROVE  \E f \in [S -> V] : Solves(f, step, R, S, S)
<1> DEFINE All   == {s \in S : \E g \in [S -> V] : \E D : Solves(g, step, R, S, D) /\ s \in D}
           At(s) == CHOOSE g \in [S -> V] : \E D : Solves(g, step, R, S, D) /\ s \in D
           f     == [s \in S |-> IF s \in All THEN At(s)[s] ELSE v]
<1>1. ASSUME NEW s \in All PROVE At(s) \in [S -> V] /\ \E D : Solves(At(s), step, R, S, D) /\ s \in D
  BY <1>1
<1>2. f \in [S -> V]
  BY <1>1
<1>3. ASSUME NEW g \in [S -> V], NEW D, Solves(g, step, R, S, D), NEW s \in D
      PROVE  s \in All /\ f[s] = g[s]
  <2>1. s \in S /\ s \in All
    BY <1>3 DEF Solves
  <2>2. PICK E : Solves(At(s), step, R, S, E) /\ s \in E
    BY <1>1, <2>1
  <2>3. At(s) \in [S -> V]
    BY <1>1, <2>1
  <2> HIDE DEF At
  <2>4. At(s)[s] = g[s]
    BY <1>3, <2>2, <2>3, SolutionsAgree
  <2>5. f[s] = At(s)[s]
    BY <2>1
  <2> QED BY <2>1, <2>4, <2>5
<1>4. Solves(f, step, R, S, All)
  <2>1. ASSUME NEW s \in All
        PROVE  /\ \A t \in S : <<t, s>> \in R => t \in All
               /\ f[s] = step[<<s, f>>]
    <3>1. PICK g \in [S -> V] : \E D : Solves(g, step, R, S, D) /\ s \in D
      BY <2>1
    <3>2. PICK D : Solves(g, step, R, S, D) /\ s \in D
      BY <3>1
    <3>3. \A t \in D : t \in All /\ f[t] = g[t]
      BY <1>3, <3>2
    <3> HIDE DEF All, f
    <3>4. s \in S /\ \A t \in S : <<t, s>> \in R => t \in D
      BY <3>2 DEF Solves
    <3>5. step[<<s, f>>] = step[<<s, g>>]
      BY <1>2, <3>3, <3>4 DEF ReadsBefore
    <3>6. g[s] = step[<<s, g>>]
      BY <3>2 DEF Solves
    <3> QED BY <3>2, <3>3, <3>4, <3>5, <3>6
  <2>2. All \subseteq S
    OBVIOUS
  <2> HIDE DEF All, f
  <2> QED BY <2>1, <2>2 DEF Solves
<1>5. S \subseteq All
  <2> SUFFICES ASSUME S \ All # {} PROVE FALSE
    OBVIOUS
  <2>1. PICK x \in S \ All : \A y \in S \ All : <<y, x>> \notin R
    BY DEF HasMinima
  <2> DEFINE g == [f EXCEPT ![x] = step[<<x, f>>]]
             D == All \cup {x}
  <2>2. step[<<x, f>>] \in V
    BY <1>2, <2>1
  <2> HIDE DEF All, f
  <2>3. g \in [S -> V] /\ g[x] = step[<<x, f>>] /\ \A s \in S : s # x => g[s] = f[s]
    BY <1>2, <2>1, <2>2
  <2> HIDE DEF g
  <2>4. \A s \in D : \A t \in S : <<t, s>> \in R => t \in All
    BY <1>4, <2>1 DEF Solves
  <2>5. \A t \in All : t # x
    BY <2>1
  <2>6. \A s \in D : step[<<s, g>>] = step[<<s, f>>]
    <3>1. All \subseteq S
      BY <1>4 DEF Solves
    <3> SUFFICES ASSUME NEW s \in D PROVE step[<<s, g>>] = step[<<s, f>>]
      OBVIOUS
    <3>2. s \in S
      BY <2>1, <3>1
    <3>3. \A t \in S : <<t, s>> \in R => g[t] = f[t]
      BY <2>3, <2>4, <2>5
    <3> QED BY <1>2, <2>3, <3>2, <3>3 DEF ReadsBefore
  <2>7. \A s \in D : g[s] = step[<<s, g>>]
    BY <1>4, <2>1, <2>3, <2>5, <2>6 DEF Solves
  <2>8. Solves(g, step, R, S, D)
    BY <1>4, <2>1, <2>4, <2>7 DEF Solves
  <2>9. x \in All
    <3>1. x \in D
      OBVIOUS
    <3> HIDE DEF D
    <3> QED BY <1>3, <2>3, <2>8, <3>1
  <2> QED BY <2>1, <2>9
<1> HIDE DEF All, f
<1> QED BY <1>2, <1>4, <1>5 DEF Solves

-----------------------------------------------------------------------------
(* The elements of s after the first p, up to the q-th; and all after p.    *)
Slice(s, p, q) == SubSeq(s, p + 1, q)
Beyond(s, p)   == SubSeq(s, p + 1, Len(s))

IsSlice(S, t, s, p, q) ==
  /\ t \in Seq(S) /\ Len(t) = q - p
  /\ \A i \in 1 .. q - p : t[i] = s[p + i] /\ s[p + i] \in S

LEMMA SliceFacts ==
  ASSUME NEW S, NEW s \in Seq(S), NEW p \in Nat, NEW q \in Nat, p <= q, q <= Len(s)
  PROVE  IsSlice(S, Slice(s, p, q), s, p, q)
<1>1. \A i \in p + 1 .. q : s[i] \in S
  OBVIOUS
<1>2. /\ SubSeq(s, p + 1, q) \in Seq(S)
      /\ Len(SubSeq(s, p + 1, q)) = IF p + 1 <= q THEN q - (p + 1) + 1 ELSE 0
      /\ \A i \in 1 .. q - (p + 1) + 1 : SubSeq(s, p + 1, q)[i] = s[(p + 1) + i - 1]
  BY <1>1, SubSeqProperties
<1>3. /\ (IF p + 1 <= q THEN q - (p + 1) + 1 ELSE 0) = q - p /\ q - (p + 1) + 1 = q - p
  OBVIOUS
<1>4. \A i \in 1 .. q - p : (p + 1) + i - 1 = p + i /\ p + i \in p + 1 .. q
  OBVIOUS
<1> QED BY <1>1, <1>2, <1>3, <1>4 DEF Slice, IsSlice

LEMMA SliceEnds ==
  ASSUME NEW S, NEW s \in Seq(S), NEW p \in Nat, p <= Len(s)
  PROVE  /\ Slice(s, p, p) = <<>> /\ Beyond(s, p) = Slice(s, p, Len(s))
         /\ Slice(s, 0, Len(s)) = s
         /\ Beyond(s, Len(s)) = <<>> /\ Beyond(s, 0) = s
         /\ p < Len(s) => Slice(s, p, p + 1) = <<s[p + 1]>>
<1>1. Slice(s, p, p) = <<>>
  BY SubSeqEmpty DEF Slice
<1>2. Beyond(s, p) = Slice(s, p, Len(s))
  BY DEF Slice, Beyond
<1>3. Slice(s, 0, Len(s)) = s
  <2>1. 0 \in Nat /\ Len(s) \in Nat /\ 0 <= Len(s) /\ Len(s) - 0 = Len(s)
    OBVIOUS
  <2>4. IsSlice(S, Slice(s, 0, Len(s)), s, 0, Len(s))
    BY <2>1, SliceFacts
  <2>2. /\ Slice(s, 0, Len(s)) \in Seq(S) /\ Len(Slice(s, 0, Len(s))) = Len(s)
        /\ \A i \in 1 .. Len(s) : Slice(s, 0, Len(s))[i] = s[0 + i]
    BY <2>1, <2>4 DEF IsSlice
  <2>3. \A i \in 1 .. Len(s) : 0 + i = i
    OBVIOUS
  <2> QED BY <2>2, <2>3, SeqEqual
<1>4. Beyond(s, Len(s)) = <<>>
  BY SubSeqEmpty DEF Beyond
<1>5. Beyond(s, 0) = Slice(s, 0, Len(s))
  BY DEF Beyond, Slice
<1>6. ASSUME p < Len(s) PROVE Slice(s, p, p + 1) = <<s[p + 1]>>
  <2>4. p + 1 \in Nat /\ p <= p + 1 /\ p + 1 <= Len(s)
    BY <1>6
  <2>5. IsSlice(S, Slice(s, p, p + 1), s, p, p + 1)
    BY <2>4, SliceFacts
  <2>1. /\ Slice(s, p, p + 1) \in Seq(S) /\ Len(Slice(s, p, p + 1)) = (p + 1) - p
        /\ \A i \in 1 .. (p + 1) - p : Slice(s, p, p + 1)[i] = s[p + i] /\ s[p + i] \in S
    BY <2>5 DEF IsSlice
  <2>2. (p + 1) - p = 1
    OBVIOUS
  <2>3. <<s[p + 1]>> \in Seq(S) /\ Len(<<s[p + 1]>>) = 1
    BY <2>1, <2>2
  <2> QED BY <2>1, <2>2, <2>3, SeqEqual
<1> QED BY <1>1, <1>2, <1>3, <1>4, <1>5, <1>6

LEMMA SliceSplit ==
  ASSUME NEW S, NEW s \in Seq(S), NEW p \in Nat, NEW q \in Nat, NEW r \in Nat,
         p <= q, q <= r, r <= Len(s)
  PROVE  Slice(s, p, r) = Slice(s, p, q) \o Slice(s, q, r)
<1>1. PICK a : a = Slice(s, p, q)
  OBVIOUS
<1>2. PICK b : b = Slice(s, q, r)
  OBVIOUS
<1>3. PICK c : c = Slice(s, p, r)
  OBVIOUS
<1>0. p <= r /\ q <= Len(s) /\ Len(s) \in Nat
  OBVIOUS
<1>10. IsSlice(S, a, s, p, q) /\ IsSlice(S, b, s, q, r) /\ IsSlice(S, c, s, p, r)
  BY <1>0, <1>1, <1>2, <1>3, SliceFacts
<1>4. a \in Seq(S) /\ Len(a) = q - p /\ \A i \in 1 .. q - p : a[i] = s[p + i]
  BY <1>10 DEF IsSlice
<1>5. b \in Seq(S) /\ Len(b) = r - q /\ \A i \in 1 .. r - q : b[i] = s[q + i]
  BY <1>10 DEF IsSlice
<1>6. c \in Seq(S) /\ Len(c) = r - p /\ \A i \in 1 .. r - p : c[i] = s[p + i]
  BY <1>10 DEF IsSlice
<1>7. /\ a \o b \in Seq(S) /\ Len(a \o b) = Len(a) + Len(b)
      /\ \A i \in 1 .. Len(a) + Len(b) : (a \o b)[i] = IF i <= Len(a) THEN a[i] ELSE b[i - Len(a)]
  BY <1>4, <1>5, ConcatProperties
<1>8. Len(a) + Len(b) = r - p
  BY <1>4, <1>5
<1>9. ASSUME NEW i \in 1 .. r - p PROVE c[i] = (a \o b)[i]
  <2>1. CASE i <= q - p
    <3>1. i \in 1 .. q - p
      BY <2>1
    <3> QED BY <1>4, <1>6, <1>7, <1>8, <2>1, <3>1
  <2>2. CASE ~(i <= q - p)
    <3>1. i - (q - p) \in 1 .. r - q /\ q + (i - (q - p)) = p + i
      BY <2>2
    <3> QED BY <1>4, <1>5, <1>6, <1>7, <1>8, <2>2, <3>1
  <2> QED BY <2>1, <2>2
<1> QED BY <1>1, <1>2, <1>3, <1>6, <1>7, <1>8, <1>9, SeqEqual

LEMMA SliceOfConcat ==
  ASSUME NEW S, NEW s \in Seq(S), NEW t \in Seq(S), NEW p \in Nat, NEW q \in Nat, p <= q
  PROVE  /\ q <= Len(s) => Slice(s \o t, p, q) = Slice(s, p, q)
         /\ q <= Len(t) => Slice(s \o t, Len(s) + p, Len(s) + q) = Slice(t, p, q)
<1>1. PICK c : c = s \o t
  OBVIOUS
<1>2. /\ c \in Seq(S) /\ Len(c) = Len(s) + Len(t) /\ Len(s) \in Nat /\ Len(t) \in Nat
      /\ \A i \in 1 .. Len(s) + Len(t) : c[i] = IF i <= Len(s) THEN s[i] ELSE t[i - Len(s)]
  BY <1>1, ConcatProperties
<1>3. ASSUME q <= Len(s) PROVE Slice(c, p, q) = Slice(s, p, q)
  <2>1. q <= Len(c)
    BY <1>2, <1>3
  <2>6. IsSlice(S, Slice(c, p, q), c, p, q) /\ IsSlice(S, Slice(s, p, q), s, p, q)
    BY <1>2, <1>3, <2>1, SliceFacts
  <2>2. Slice(c, p, q) \in Seq(S) /\ Len(Slice(c, p, q)) = q - p
        /\ \A i \in 1 .. q - p : Slice(c, p, q)[i] = c[p + i]
    BY <2>6 DEF IsSlice
  <2>3. Slice(s, p, q) \in Seq(S) /\ Len(Slice(s, p, q)) = q - p
        /\ \A i \in 1 .. q - p : Slice(s, p, q)[i] = s[p + i]
    BY <2>6 DEF IsSlice
  <2>4. \A i \in 1 .. q - p : p + i \in 1 .. Len(s) + Len(t) /\ p + i <= Len(s)
    BY <1>2, <1>3
  <2>5. \A i \in 1 .. q - p : c[p + i] = s[p + i]
    BY <1>2, <2>4
  <2> QED BY <2>2, <2>3, <2>5, SeqEqual
<1>4. ASSUME q <= Len(t) PROVE Slice(c, Len(s) + p, Len(s) + q) = Slice(t, p, q)
  <2>1. PICK m \in Nat, n \in Nat : m = Len(s) + p /\ n = Len(s) + q
    <3>1. Len(s) \in Nat
      BY <1>2
    <3>2. Len(s) + p \in Nat /\ Len(s) + q \in Nat
      BY <3>1
    <3> QED BY <3>2
  <2>2. m <= n /\ n <= Len(c) /\ n - m = q - p
    BY <1>2, <1>4, <2>1
  <2>8. IsSlice(S, Slice(c, m, n), c, m, n) /\ IsSlice(S, Slice(t, p, q), t, p, q)
    BY <1>2, <1>4, <2>2, SliceFacts
  <2>3. Slice(c, m, n) \in Seq(S) /\ Len(Slice(c, m, n)) = q - p
        /\ \A i \in 1 .. q - p : Slice(c, m, n)[i] = c[m + i]
    BY <2>2, <2>8 DEF IsSlice
  <2>4. Slice(t, p, q) \in Seq(S) /\ Len(Slice(t, p, q)) = q - p
        /\ \A i \in 1 .. q - p : Slice(t, p, q)[i] = t[p + i]
    BY <2>8 DEF IsSlice
  <2>5. \A i \in 1 .. q - p : m + i \in 1 .. Len(s) + Len(t) /\ ~(m + i <= Len(s)) /\ (m + i) - Len(s) = p + i
    BY <1>2, <1>4, <2>1
  <2>6. \A i \in 1 .. q - p : c[m + i] = t[p + i]
    BY <1>2, <2>5
  <2>7. Slice(c, m, n) = Slice(t, p, q)
    <3>1. PICK u : u = Slice(c, m, n)
      OBVIOUS
    <3>2. PICK w : w = Slice(t, p, q)
      OBVIOUS
    <3>3. u \in Seq(S) /\ w \in Seq(S) /\ Len(u) = Len(w) /\ Len(u) = q - p
      BY <2>3, <2>4, <3>1, <3>2
    <3>4. \A i \in 1 .. Len(u) : u[i] = w[i]
      BY <2>3, <2>4, <2>6, <3>1, <3>2, <3>3
    <3>5. u = w
      BY <3>3, <3>4, SeqEqual
    <3> QED BY <3>1, <3>2, <3>5
  <2> QED BY <2>1, <2>7
<1> QED BY <1>1, <1>3, <1>4

LEMMA BeyondType ==
  ASSUME NEW S, NEW s \in Seq(S), NEW p \in Nat, p <= Len(s)
  PROVE  Beyond(s, p) \in Seq(S) /\ Len(Beyond(s, p)) = Len(s) - p
<1>1. Len(s) \in Nat
  OBVIOUS
<1>2. IsSlice(S, Slice(s, p, Len(s)), s, p, Len(s))
  BY <1>1, SliceFacts
<1> QED BY <1>2 DEF IsSlice, Slice, Beyond

LEMMA BeyondSplit ==
  ASSUME NEW S, NEW s \in Seq(S), NEW p \in Nat, NEW q \in Nat, p <= q, q <= Len(s)
  PROVE  Beyond(s, p) = Slice(s, p, q) \o Beyond(s, q)
<1>1. Len(s) \in Nat /\ Len(s) <= Len(s)
  OBVIOUS
<1>2. Slice(s, p, Len(s)) = Slice(s, p, q) \o Slice(s, q, Len(s))
  BY <1>1, SliceSplit
<1> QED BY <1>2 DEF Slice, Beyond

(* Reading the next element; writing one at the end.                        *)
LEMMA BeyondNext ==
  ASSUME NEW S, NEW s \in Seq(S), NEW p \in Nat, p < Len(s)
  PROVE  Beyond(s, p) = <<s[p + 1]>> \o Beyond(s, p + 1)
<1>1. p + 1 \in Nat /\ p <= p + 1 /\ p + 1 <= Len(s) /\ p <= Len(s)
  OBVIOUS
<1>2. Slice(s, p, p + 1) = <<s[p + 1]>>
  BY <1>1, SliceEnds
<1> QED BY <1>1, <1>2, BeyondSplit

(* What lies behind a position, across the end of the first of two          *)
(* sequences.                                                               *)
LEMMA BeyondConcat ==
  ASSUME NEW S, NEW s \in Seq(S), NEW t \in Seq(S), NEW p \in Nat, p <= Len(s)
  PROVE  Beyond(s \o t, p) = Beyond(s, p) \o t
<1>1. PICK c : c = s \o t
  OBVIOUS
<1>2. /\ c \in Seq(S) /\ Len(c) = Len(s) + Len(t) /\ Len(s) \in Nat /\ Len(t) \in Nat
      /\ Len(s) <= Len(c)
  BY <1>1, ConcatProperties
<1>3. Beyond(c, p) = Slice(c, p, Len(s)) \o Beyond(c, Len(s))
  BY <1>2, BeyondSplit
<1>4. Slice(c, p, Len(s)) = Slice(s, p, Len(s))
  BY <1>1, <1>2, SliceOfConcat
<1>5. Slice(c, Len(s) + 0, Len(s) + Len(t)) = Slice(t, 0, Len(t))
  BY <1>1, <1>2, SliceOfConcat
<1>6. Slice(t, 0, Len(t)) = t
  <2>1. 0 \in Nat /\ 0 <= Len(t)
    BY <1>2
  <2> QED BY <2>1, SliceEnds
<1>7. Len(s) + 0 = Len(s)
  BY <1>2
<1>8. Beyond(c, Len(s)) = t
  BY <1>2, <1>5, <1>6, <1>7 DEF Slice, Beyond
<1>9. Beyond(s, p) = Slice(s, p, Len(s))
  BY DEF Slice, Beyond
<1> QED BY <1>1, <1>3, <1>4, <1>8, <1>9

LEMMA BeyondAppend ==
  ASSUME NEW S, NEW s \in Seq(S), NEW e \in S, NEW p \in Nat, p <= Len(s)
  PROVE  Beyond(Append(s, e), p) = Beyond(s, p) \o <<e>>
<1>1. <<e>> \in Seq(S) /\ Append(s, e) = s \o <<e>>
  OBVIOUS
<1> QED BY <1>1, BeyondConcat

(* What lies behind a position, seen from an earlier one.                   *)
LEMMA BeyondBeyond ==
  ASSUME NEW S, NEW c \in Seq(S), NEW u \in Seq(S), NEW b \in Nat, NEW p \in Nat,
         b <= p, p <= Len(c)
  PROVE  /\ Beyond(Beyond(c, b) \o u, p - b) = Beyond(c, p) \o u
         /\ SubSeq(Beyond(c, b) \o u, 1, p - b) = Slice(c, b, p)
<1>0. b <= Len(c) /\ p - b \in Nat /\ Len(c) \in Nat
  OBVIOUS
<1>1. PICK x : x = Slice(c, b, p)
  OBVIOUS
<1>2. PICK y : y = Beyond(c, p)
  OBVIOUS
<1>3. x \in Seq(S) /\ Len(x) = p - b /\ y \in Seq(S)
  BY <1>1, <1>2, SliceFacts, BeyondType DEF IsSlice
<1>4. Beyond(c, b) = x \o y
  BY <1>1, <1>2, BeyondSplit
<1>5. PICK z : z = y \o u
  OBVIOUS
<1>6. z \in Seq(S) /\ (x \o y) \o u = x \o z
  BY <1>3, <1>5, ConcatProperties, ConcatAssociative
<1>k. PICK k \in Nat : k = p - b /\ k = Len(x) /\ k <= Len(x)
  BY <1>0, <1>3
<1>7. Beyond(x \o z, k) = Beyond(x, k) \o z
  BY <1>3, <1>6, <1>k, BeyondConcat
<1>8. Beyond(x, k) = <<>> /\ Slice(x, 0, Len(x)) = x
  BY <1>3, <1>k, SliceEnds
<1>9. <<>> \o z = z
  BY <1>6, ConcatEmptySeq
<1>10. Slice(x \o z, 0, p - b) = Slice(x, 0, p - b)
  <2>1. 0 \in Nat /\ 0 <= p - b /\ p - b <= Len(x)
    BY <1>0, <1>3
  <2> QED BY <1>0, <1>3, <1>6, <2>1, SliceOfConcat
<1>11. SubSeq(x \o z, 1, p - b) = Slice(x \o z, 0, p - b)
  <2>1. 0 + 1 = 1
    OBVIOUS
  <2> QED BY <2>1 DEF Slice
<1> QED BY <1>1, <1>2, <1>3, <1>4, <1>5, <1>6, <1>k, <1>7, <1>8, <1>9, <1>10, <1>11

(* An element put in place of those between two positions.                  *)
Spliced(s, q, p, e) == (SubSeq(s, 1, q) \o <<e>>) \o Beyond(s, p)

IsSplice(S, t, s, q, p, e, b) ==
  /\ t \in Seq(S)
  /\ Len(t) = q + 1 + (Len(s) - p)
  /\ Beyond(t, b) = (Slice(s, b, q) \o <<e>>) \o Beyond(s, p)
  /\ Beyond(t, q + 1) = Beyond(s, p)

LEMMA SplicedFacts ==
  ASSUME NEW S, NEW s \in Seq(S), NEW e \in S, NEW q \in Nat, NEW p \in Nat, q <= p, p <= Len(s),
         NEW b \in Nat, b <= q
  PROVE  IsSplice(S, Spliced(s, q, p, e), s, q, p, e, b)
<1>0. q <= Len(s) /\ b <= Len(s) /\ Len(s) \in Nat /\ 0 \in Nat /\ 0 <= q /\ q - 0 = q /\ 0 + 1 = 1
  OBVIOUS
<1>1. PICK x : x = SubSeq(s, 1, q)
  OBVIOUS
<1>2. x = Slice(s, 0, q)
  BY <1>0, <1>1 DEF Slice
<1>3. IsSlice(S, x, s, 0, q)
  BY <1>0, <1>2, SliceFacts
<1>4. x \in Seq(S) /\ Len(x) = q
  BY <1>0, <1>3 DEF IsSlice
<1>5. PICK y : y = Beyond(s, p)
  OBVIOUS
<1>6. y \in Seq(S) /\ Len(y) = Len(s) - p
  BY <1>5, BeyondType
<1>7. PICK a : a = x \o <<e>>
  OBVIOUS
<1>8. <<e>> \in Seq(S) /\ Len(<<e>>) = 1
  OBVIOUS
<1>9. a \in Seq(S) /\ Len(a) = q + 1
  BY <1>4, <1>7, <1>8, ConcatProperties
<1>10. a \o y \in Seq(S) /\ Len(a \o y) = q + 1 + (Len(s) - p)
  <2>1. a \o y \in Seq(S) /\ Len(a \o y) = Len(a) + Len(y)
    BY <1>6, <1>9, ConcatProperties
  <2> QED BY <1>6, <1>9, <2>1
<1>11. Beyond(a \o y, b) = Beyond(a, b) \o y /\ Beyond(a \o y, q + 1) = Beyond(a, q + 1) \o y
  <2>1. b <= Len(a) /\ q + 1 \in Nat /\ q + 1 <= Len(a)
    BY <1>9
  <2> QED BY <1>6, <1>9, <2>1, BeyondConcat
<1>12. Beyond(a, b) = Beyond(x, b) \o <<e>>
  BY <1>4, <1>7, <1>8, BeyondConcat
<1>13. Beyond(x, b) = Slice(s, b, q)
  <2>1. Beyond(x, b) = Slice(x, b, q)
    BY <1>4 DEF Beyond, Slice
  <2>2. s = x \o Beyond(s, q)
    <3>1. Beyond(s, 0) = s
      BY <1>0, SliceEnds
    <3> QED BY <1>0, <1>2, <3>1, BeyondSplit
  <2>3. Beyond(s, q) \in Seq(S)
    BY <1>0, BeyondType
  <2>4. PICK z : z = Beyond(s, q)
    OBVIOUS
  <2>5. Slice(x \o z, b, q) = Slice(x, b, q)
    BY <1>4, <2>3, <2>4, SliceOfConcat
  <2> QED BY <2>1, <2>2, <2>4, <2>5
<1>14. Beyond(a, q + 1) \o y = y
  <2>1. Beyond(a, q + 1) = <<>>
    BY <1>9, SliceEnds
  <2> QED BY <1>6, <2>1, ConcatEmptySeq
<1> QED BY <1>1, <1>5, <1>7, <1>10, <1>11, <1>12, <1>13, <1>14 DEF Spliced, IsSplice
=============================================================================
