------------------------------ MODULE LdaProofs -----------------------------
(***************************************************************************)
(* For files of any number of lines and any number of parses: the parser   *)
(* links every entry as the levels of the lines say (LinkedByLevelCorrect),*)
(* under the head that Natural gives it (UnderItsHeadCorrect), crashes     *)
(* only where an ignored line has left another one without a place         *)
(* (CrashesOnlyWithoutHeadCorrect), and every entry of a list is freed     *)
(* once (FreedOnceCorrect).                                                *)
(*                                                                         *)
(* The inductive invariant says that the entries of a parse are in order   *)
(* of their lines and linked as the levels say, and, while the walk back   *)
(* runs, that they are so but for the new one, and that the lines passed   *)
(* are deeper than it or leave it no place.  Of the free it says which     *)
(* lines are done: those in front of the line the first call is at, but    *)
(* for the lines to whose groups a call has gone down.                     *)
(***************************************************************************)
EXTENDS LdaParser, Integers, SequencesExt, FiniteSetTheorems, SequenceTheorems, TLAPS

-----------------------------------------------------------------------------
(***************************************************************************)
(* Natural numbers and sequences.                                          *)
(***************************************************************************)

(* A set of naturals has a least element: what proofs by induction use. *)
LEMMA LeastNat ==
  ASSUME NEW T, T \subseteq Nat, T # {}
  PROVE  \E m \in T : \A n \in T : m <= n
<1> DEFINE Below(n) == 0..(n - 1)
           R == StrictSubsetOrdering(Nat)
           F == FiniteSubsetsOf(Nat)
           B == {Below(n) : n \in T}
<1>1. IsWellFoundedOn(R, F)
  BY FS_StrictSubsetOrderingWellFounded
<1>2. \A n \in T : Below(n) \in F
  BY FS_Interval DEF FiniteSubsetsOf
<1>3. B \subseteq F /\ B # {}
  BY <1>2
<1>4. PICK x \in B : \A y \in B : ~(<<y, x>> \in R)
  <2> HIDE DEF R, F, B
  <2> QED BY <1>1, <1>3, WFMin
<1>5. PICK m \in T : x = Below(m)
  BY <1>4
<1>6. ASSUME NEW n \in T, n < m PROVE FALSE
  <2>1. Below(n) \subseteq Below(m) /\ Below(n) # Below(m)
    <3>1. n \in Below(m) /\ n \notin Below(n)
      BY <1>6
    <3>2. \A i \in Below(n) : i \in Below(m)
      BY <1>6
    <3> QED BY <3>1, <3>2
  <2>2. Below(n) \in SUBSET Nat /\ Below(m) \in SUBSET Nat
    OBVIOUS
  <2>3. <<Below(n), Below(m)>> \in R
    BY <2>1, <2>2 DEF StrictSubsetOrdering
  <2> QED BY <2>3, <1>4, <1>5
<1> QED BY <1>6

(* A bounded set of naturals has a greatest element. *)
LEMMA GreatestNat ==
  ASSUME NEW T, T \subseteq Nat, T # {}, NEW b \in Nat, \A n \in T : n <= b
  PROVE  \E m \in T : \A n \in T : n <= m
<1> DEFINE D == {b - n : n \in T}
<1>1. D \subseteq Nat /\ D # {}
  <2>1. \A n \in T : n \in Nat /\ n <= b
    OBVIOUS
  <2>2. \A n \in Nat : n <= b => b - n \in Nat
    OBVIOUS
  <2> QED BY <2>1, <2>2
<1>2. PICK d \in D : \A c \in D : d <= c
  <2> HIDE DEF D
  <2> QED BY <1>1, LeastNat
<1>3. PICK m \in T : d = b - m
  OBVIOUS
<1>4. ASSUME NEW n \in T PROVE n <= m
  <2>1. b - n \in D
    OBVIOUS
  <2>2. b - m <= b - n
    <3> HIDE DEF D
    <3> QED BY <2>1, <1>2, <1>3
  <2>3. n \in Nat /\ m \in Nat
    OBVIOUS
  <2> QED BY <2>2, <2>3
<1> QED BY <1>4

(* Where the elements of two sequences are in their concatenation. *)
LEMMA ConcatParts ==
  ASSUME NEW S, NEW s \in Seq(S), NEW t \in Seq(S)
  PROVE  /\ s \o t \in Seq(S)
         /\ Len(s) \in Nat /\ Len(t) \in Nat /\ Len(s \o t) = Len(s) + Len(t)
         /\ \A i \in 1..Len(s) : (s \o t)[i] = s[i]
         /\ \A i \in 1..Len(t) : (s \o t)[Len(s) + i] = t[i]
<1>1. Len(s) \in Nat /\ Len(t) \in Nat
  BY LenProperties
<1>2. /\ s \o t \in Seq(S) /\ Len(s \o t) = Len(s) + Len(t)
      /\ \A i \in 1..Len(s) + Len(t) : (s \o t)[i] = IF i <= Len(s) THEN s[i] ELSE t[i - Len(s)]
  BY ConcatProperties
<1>3. ASSUME NEW i \in 1..Len(t) PROVE (s \o t)[Len(s) + i] = t[i]
  <2>1. Len(s) + i \in 1..Len(s) + Len(t) /\ ~(Len(s) + i <= Len(s)) /\ (Len(s) + i) - Len(s) = i
    BY <1>1
  <2> QED BY <2>1, <1>2
<1>4. \A i \in 1..Len(s) : i \in 1..Len(s) + Len(t) /\ i <= Len(s)
  BY <1>1
<1> QED BY <1>1, <1>2, <1>3, <1>4

-----------------------------------------------------------------------------
(***************************************************************************)
(* Texts as Natural stores them.                                           *)
(***************************************************************************)
Declares(t, i) == i \in 1..Len(t) /\ t[i].kind # "note"

(* p is the line in front of line i that declares something. *)
IsBefore(t, p, i) ==
  Declares(t, p) /\ p < i /\ \A k \in 1..Len(t) : Declares(t, k) /\ k < i => k <= p

Follows(t, i) ==
  /\ (\A k \in 1..Len(t) : ~(Declares(t, k) /\ k < i)) => t[i].level = 1
  /\ \A p \in 1..Len(t) : IsBefore(t, p, i) =>
       IF t[p].kind \in Heads THEN t[i].level = t[p].level + 1 ELSE t[i].level <= t[p].level

IsStored(t) == \A i \in 1..Len(t) : Declares(t, i) => Follows(t, i)

(* Lines and their levels. *)
LEMMA LineTypes ==
  ASSUME NEW t \in Seq(Lines)
  PROVE  /\ Len(t) \in Nat
         /\ \A i \in 1..Len(t) : /\ t[i] \in Lines /\ t[i].level \in Nat \ {0}
                                 /\ t[i].kind \in LineKinds /\ t[i].says \in Words
<1>1. Len(t) \in Nat /\ \A i \in 1..Len(t) : t[i] \in Lines
  BY LenProperties, ElementOfSeq
<1>2. \A l \in Lines : l.level \in Nat \ {0} /\ l.kind \in LineKinds /\ l.says \in Words
  BY LinesAssumption
<1> QED BY <1>1, <1>2

(* There is a line in front, if any line in front declares something. *)
LEMMA BeforeExists ==
  ASSUME NEW t \in Seq(Lines), NEW i \in Nat, NEW k \in 1..Len(t), Declares(t, k), k < i
  PROVE  \E p \in 1..Len(t) : IsBefore(t, p, i)
<1> DEFINE T == {j \in 1..Len(t) : Declares(t, j) /\ j < i}
<1>1. T \subseteq Nat /\ T # {} /\ Len(t) \in Nat /\ \A j \in T : j <= Len(t)
  BY LineTypes
<1>2. PICK p \in T : \A j \in T : j <= p
  <2> HIDE DEF T
  <2> QED BY <1>1, GreatestNat
<1>3. IsBefore(t, p, i)
  BY <1>2 DEF IsBefore
<1> QED BY <1>3

(* What Natural stores keeps being a stored text, line by line. *)
LEMMA StoredAppend ==
  ASSUME NEW t \in Seq(Lines), NEW line \in Lines, IsStored(t), MayFollow(t, line)
  PROVE  IsStored(Append(t, line))
<1> DEFINE u == Append(t, line)
           n == Len(t) + 1
<1>1. /\ u \in Seq(Lines) /\ Len(u) = n /\ u[n] = line
      /\ \A i \in 1..Len(t) : u[i] = t[i]
  BY AppendProperties
<1>2. Len(t) \in Nat /\ 1..n = 1..Len(t) \cup {n}
  BY LineTypes
<1> HIDE DEF u
<1>3. \A k : k < n => (Declares(u, k) <=> Declares(t, k))
  BY <1>1, <1>2 DEF Declares
<1>4. ASSUME NEW i \in 1..Len(t), Declares(u, i) PROVE Follows(u, i)
  <2>1. Declares(t, i) /\ Follows(t, i) /\ u[i] = t[i] /\ i < n
    BY <1>1, <1>2, <1>3, <1>4 DEF IsStored
  <2>2. ASSUME \A k \in 1..Len(u) : ~(Declares(u, k) /\ k < i) PROVE u[i].level = 1
    <3>1. \A k \in 1..Len(t) : ~(Declares(t, k) /\ k < i)
      <4> SUFFICES ASSUME NEW k \in 1..Len(t), Declares(t, k), k < i PROVE FALSE
        OBVIOUS
      <4>1. k \in 1..Len(u) /\ k < n
        BY <1>1, <1>2
      <4> QED BY <4>1, <2>2, <1>3
    <3> QED BY <3>1, <2>1 DEF Follows
  <2>3. ASSUME NEW p \in 1..Len(u), IsBefore(u, p, i)
        PROVE  IF u[p].kind \in Heads THEN u[i].level = u[p].level + 1 ELSE u[i].level <= u[p].level
    <3>1. p \in 1..Len(t) /\ p < n /\ p < i
      BY <2>3, <1>1, <1>2 DEF IsBefore
    <3>2. \A k \in 1..Len(t) : Declares(t, k) /\ k < i => k <= p
      <4> SUFFICES ASSUME NEW k \in 1..Len(t), Declares(t, k), k < i PROVE k <= p
        OBVIOUS
      <4>1. k \in 1..Len(u) /\ k < n
        BY <1>1, <1>2
      <4> QED BY <4>1, <2>3, <1>3 DEF IsBefore
    <3>3. IsBefore(t, p, i)
      BY <3>1, <3>2, <2>3, <1>3 DEF IsBefore
    <3> QED BY <3>1, <3>3, <2>1, <1>1 DEF Follows
  <2> QED BY <2>2, <2>3 DEF Follows
<1>5. ASSUME Declares(u, n) PROVE Follows(u, n)
  <2>1. line.kind # "note"
    BY <1>1, <1>5 DEF Declares
  <2> DEFINE before == DeclaredBefore(t, Len(t) + 1)
             last == CHOOSE j \in before : \A k \in before : k <= j
  <2>2. \A k : k \in before <=> Declares(t, k)
    BY <1>2 DEF DeclaredBefore, Declares
  <2>3. IF before = {} THEN line.level = 1
        ELSE IF t[last].kind \in Heads THEN line.level = t[last].level + 1
        ELSE line.level <= t[last].level
    BY <2>1 DEF MayFollow
  <2> HIDE DEF before
  <2>4. ASSUME \A k \in 1..Len(u) : ~(Declares(u, k) /\ k < n) PROVE u[n].level = 1
    <3>1. before = {}
      <4> SUFFICES ASSUME NEW k \in before PROVE FALSE
        OBVIOUS
      <4>1. Declares(t, k) /\ k \in 1..Len(t)
        BY <2>2 DEF Declares
      <4>2. k \in 1..Len(u) /\ k < n
        BY <4>1, <1>1, <1>2
      <4> QED BY <4>1, <4>2, <2>4, <1>3
    <3> QED BY <3>1, <2>3, <1>1
  <2>5. ASSUME NEW p \in 1..Len(u), IsBefore(u, p, n)
        PROVE  IF u[p].kind \in Heads THEN u[n].level = u[p].level + 1 ELSE u[n].level <= u[p].level
    <3>1. p \in 1..Len(t) /\ Declares(t, p) /\ u[p] = t[p]
      BY <2>5, <1>1, <1>2, <1>3 DEF IsBefore
    <3>2. p \in before
      BY <3>1, <2>2
    <3>3. ASSUME NEW k \in before PROVE k <= p
      <4>1. Declares(t, k) /\ k \in 1..Len(t)
        BY <2>2 DEF Declares
      <4>2. k \in 1..Len(u) /\ k < n
        BY <4>1, <1>1, <1>2
      <4> QED BY <4>1, <4>2, <2>5, <1>3 DEF IsBefore
    <3>4. \A j \in before : (\A k \in before : k <= j) => j = p
      <4> SUFFICES ASSUME NEW j \in before, \A k \in before : k <= j PROVE j = p
        OBVIOUS
      <4>1. j <= p /\ p <= j
        BY <3>2, <3>3
      <4>2. j \in Int /\ p \in Int
        BY <3>1, <2>2 DEF Declares
      <4> QED BY <4>1, <4>2
    <3>5. last = p
      BY <3>2, <3>3, <3>4
    <3> HIDE DEF last
    <3> QED BY <3>1, <3>2, <3>5, <2>3, <1>1
  <2> QED BY <2>4, <2>5 DEF Follows
<1>6. \A i \in 1..Len(u) : i \in 1..Len(t) \/ i = n
  BY <1>1, <1>2
<1>7. IsStored(u)
  BY <1>4, <1>5, <1>6 DEF IsStored
<1> QED BY <1>7 DEF u

-----------------------------------------------------------------------------
(* A line has at most one head. *)
LEMMA HeadUnique ==
  ASSUME NEW t \in Seq(Lines), NEW i \in 1..Len(t), NEW j, NEW k, IsHeadOf(t, j, i), IsHeadOf(t, k, i)
  PROVE  j = k
<1>1. /\ j \in DeclaredBefore(t, i) /\ k \in DeclaredBefore(t, i) /\ j \in Int /\ k \in Int
      /\ j \in 1..Len(t) /\ k \in 1..Len(t)
  BY DEF IsHeadOf, DeclaredBefore
<1>2. t[j].level < t[i].level /\ t[k].level < t[i].level
  BY DEF IsHeadOf
<1>3. /\ j < k => t[k].level >= t[i].level
      /\ k < j => t[j].level >= t[i].level
  BY <1>1 DEF IsHeadOf
<1>4. t[i].level \in Nat /\ t[j].level \in Nat /\ t[k].level \in Nat
  BY <1>1, LineTypes
<1> QED BY <1>1, <1>2, <1>3, <1>4

(* What HeadOf chooses. *)
LEMMA HeadIs ==
  ASSUME NEW t \in Seq(Lines), NEW i \in 1..Len(t), NEW j, IsHeadOf(t, j, i)
  PROVE  HeadOf(t, i) = j
<1>1. j \in 1..Len(t)
  BY DEF IsHeadOf, DeclaredBefore
<1>2. \A k \in 1..Len(t) : IsHeadOf(t, k, i) => k = j
  BY HeadUnique
<1> QED BY <1>1, <1>2 DEF HeadOf

(* A line of level 1 has no head. *)
LEMMA NoHead ==
  ASSUME NEW t \in Seq(Lines), NEW i \in 1..Len(t), t[i].level = 1
  PROVE  HeadOf(t, i) = 0
<1>1. ASSUME NEW j \in 1..Len(t), IsHeadOf(t, j, i) PROVE FALSE
  <2>1. t[j].level < 1 /\ t[j].level \in Nat \ {0}
    BY <1>1, LineTypes DEF IsHeadOf
  <2> QED BY <2>1
<1> QED BY <1>1 DEF HeadOf

(***************************************************************************)
(* In a stored text every deeper line has a head, one level above it, and  *)
(* that is a group or a redefinition.                                      *)
(***************************************************************************)
LEMMA HeadIsHead ==
  ASSUME NEW t \in Seq(Lines), IsStored(t), NEW i \in 1..Len(t), Declares(t, i), t[i].level > 1
  PROVE  \E h \in 1..Len(t) : /\ IsHeadOf(t, h, i) /\ h < i /\ Declares(t, h)
                              /\ t[h].kind \in Heads /\ t[i].level = t[h].level + 1
<1> DEFINE Above == {j \in 1..Len(t) : Declares(t, j) /\ j < i /\ t[j].level < t[i].level}
           Declared == {j \in 1..Len(t) : Declares(t, j)}
<1>1. Len(t) \in Nat /\ \A j \in 1..Len(t) : t[j].level \in Nat \ {0}
  BY LineTypes
<1>2. Above # {}
  <2>1. PICK f \in Declared : \A j \in Declared : f <= j
    <3>1. Declared \subseteq Nat /\ Declared # {}
      OBVIOUS
    <3> HIDE DEF Declared
    <3> QED BY <3>1, LeastNat
  <2>2. f \in 1..Len(t) /\ Declares(t, f)
    OBVIOUS
  <2>3. t[f].level = 1
    <3>1. \A k \in 1..Len(t) : ~(Declares(t, k) /\ k < f)
      BY <2>1
    <3> QED BY <3>1, <2>2 DEF IsStored, Follows
  <2>4. f < i
    <3>1. f <= i /\ f # i
      BY <2>1, <2>3
    <3> QED BY <3>1
  <2> QED BY <2>2, <2>3, <2>4
<1>3. PICK h \in Above : \A j \in Above : j <= h
  <2>1. Above \subseteq Nat /\ \A j \in Above : j <= Len(t)
    BY <1>1
  <2> HIDE DEF Above
  <2> QED BY <2>1, <1>1, <1>2, GreatestNat
<1>4. h \in 1..Len(t) /\ Declares(t, h) /\ h < i /\ t[h].level < t[i].level
  OBVIOUS
<1>5. ASSUME NEW k \in 1..Len(t), Declares(t, k), k < i, h < k PROVE t[k].level >= t[i].level
  <2>1. k \notin Above
    <3> HIDE DEF Above
    <3>1. k \in Int /\ h \in Int
      BY <1>4
    <3> QED BY <3>1, <1>3, <1>5
  <2>2. ~(t[k].level < t[i].level)
    BY <2>1, <1>5
  <2> QED BY <2>2, <1>1
<1>6. IsHeadOf(t, h, i)
  <2>1. h \in DeclaredBefore(t, i)
    BY <1>4 DEF DeclaredBefore, Declares
  <2>2. \A k \in DeclaredBefore(t, i) : h < k => t[k].level >= t[i].level
    BY <1>5 DEF DeclaredBefore, Declares
  <2> QED BY <2>1, <2>2, <1>4 DEF IsHeadOf
(* The line behind the head. *)
<1> DEFINE Behind == {j \in 1..Len(t) : Declares(t, j) /\ h < j}
<1>7. PICK m \in Behind : \A j \in Behind : m <= j
  <2>1. Behind \subseteq Nat /\ i \in Behind
    BY <1>4
  <2> HIDE DEF Behind
  <2> QED BY <2>1, LeastNat
<1>8. m \in 1..Len(t) /\ Declares(t, m) /\ h < m /\ m <= i
  <2>1. i \in Behind
    BY <1>4
  <2> QED BY <2>1, <1>7
<1>9. IsBefore(t, h, m)
  <2>1. ASSUME NEW k \in 1..Len(t), Declares(t, k), k < m PROVE k <= h
    <3>1. k \notin Behind
      <4> HIDE DEF Behind
      <4>1. k \in Int /\ m \in Int
        BY <1>8
      <4> QED BY <4>1, <1>7, <2>1
    <3>2. ~(h < k)
      BY <3>1, <2>1
    <3> QED BY <3>2, <1>4
  <2> QED BY <2>1, <1>4, <1>8 DEF IsBefore
<1>10. IF t[h].kind \in Heads THEN t[m].level = t[h].level + 1 ELSE t[m].level <= t[h].level
  BY <1>4, <1>8, <1>9 DEF IsStored, Follows
<1>11. t[m].level >= t[i].level
  <2>1. CASE m = i
    BY <2>1, <1>1
  <2>2. CASE m # i
    BY <2>2, <1>5, <1>8
  <2> QED BY <2>1, <2>2
<1>12. t[h].level \in Nat /\ t[m].level \in Nat /\ t[i].level \in Nat
  BY <1>1, <1>4, <1>8
<1>13. t[h].kind \in Heads /\ t[i].level = t[h].level + 1
  BY <1>4, <1>10, <1>11, <1>12
<1> QED BY <1>4, <1>6, <1>13

-----------------------------------------------------------------------------
(***************************************************************************)
(* The links that the levels describe.                                     *)
(***************************************************************************)
(* Line j is the first kept line behind line i, and deeper. *)
IsLineBelow(t, i, j) ==
  /\ i < j
  /\ t[j].level > t[i].level
  /\ \A k \in KeptLines(t) : ~(i < k /\ k < j)

(* A kept line and its level. *)
LEMMA KeptTypes ==
  ASSUME NEW t \in Seq(Lines), NEW i \in KeptLines(t)
  PROVE  i \in 1..Len(t) /\ i \in Nat \ {0} /\ t[i].level \in Nat \ {0}
BY LineTypes DEF KeptLines

(* At most one line is next on the level of line i. *)
LEMMA NextUnique ==
  ASSUME NEW t \in Seq(Lines), NEW i, NEW j \in KeptLines(t), NEW k \in KeptLines(t),
         IsNextLine(t, i, j), IsNextLine(t, i, k)
  PROVE  j = k
<1>1. j \in Int /\ k \in Int
  BY KeptTypes
<1>2. ~(j < k)
  <2> SUFFICES ASSUME j < k PROVE FALSE
    OBVIOUS
  <2>1. t[j].level > t[i].level /\ t[i].level = t[j].level
    BY DEF IsNextLine
  <2>2. t[j].level \in Nat
    BY KeptTypes
  <2> QED BY <2>1, <2>2
<1>3. ~(k < j)
  <2> SUFFICES ASSUME k < j PROVE FALSE
    OBVIOUS
  <2>1. t[k].level > t[i].level /\ t[i].level = t[k].level
    BY DEF IsNextLine
  <2>2. t[k].level \in Nat
    BY KeptTypes
  <2> QED BY <2>1, <2>2
<1> QED BY <1>1, <1>2, <1>3

(* NextLine is the line that is next. *)
LEMMA NextIs ==
  ASSUME NEW t \in Seq(Lines), NEW i, NEW j \in KeptLines(t), IsNextLine(t, i, j)
  PROVE  NextLine(t, i) = j
<1>1. \A k \in KeptLines(t) : IsNextLine(t, i, k) => k = j
  BY NextUnique
<1> QED BY <1>1 DEF NextLine

(* What NextLine finds is next. *)
LEMMA NextMeans ==
  ASSUME NEW t \in Seq(Lines), NEW i, NextLine(t, i) # 0
  PROVE  NextLine(t, i) \in KeptLines(t) /\ IsNextLine(t, i, NextLine(t, i))
BY DEF NextLine

(* LineBelow is the line that is below. *)
LEMMA BelowIs ==
  ASSUME NEW t \in Seq(Lines), NEW i, NEW j \in KeptLines(t), IsLineBelow(t, i, j)
  PROVE  LineBelow(t, i) = j
<1>1. i < j /\ t[j].level > t[i].level /\ \A k \in KeptLines(t) : ~(i < k /\ k < j)
  BY DEF IsLineBelow
<1>2. \A k \in KeptLines(t) : i < k => j <= k
  <2> SUFFICES ASSUME NEW k \in KeptLines(t), i < k PROVE j <= k
    OBVIOUS
  <2>1. ~(k < j) /\ k \in Int /\ j \in Int
    BY <1>1, KeptTypes
  <2> QED BY <2>1
<1>3. IsBelow(t, i, j)
  <2>1. ASSUME NEW k \in KeptLines(t), i < k, k <= j PROVE k = j
    <3>1. j <= k /\ k \in Int /\ j \in Int
      BY <1>2, <2>1, KeptTypes
    <3> QED BY <3>1, <2>1
  <2> QED BY <2>1, <1>1 DEF IsBelow
<1>4. \A k \in KeptLines(t) : (i < k /\ \A m \in KeptLines(t) : i < m => k <= m) => k = j
  <2> SUFFICES ASSUME NEW k \in KeptLines(t), i < k, \A m \in KeptLines(t) : i < m => k <= m
               PROVE k = j
    OBVIOUS
  <2>1. k <= j /\ j <= k /\ k \in Int /\ j \in Int
    BY <1>1, <1>2, KeptTypes
  <2> QED BY <2>1
<1> QED BY <1>1, <1>2, <1>3, <1>4 DEF LineBelow

(* What LineBelow finds is below: some later line is deeper, so the first one is. *)
LEMMA BelowMeans ==
  ASSUME NEW t \in Seq(Lines), NEW i \in Nat, LineBelow(t, i) # 0
  PROVE  LineBelow(t, i) \in KeptLines(t) /\ IsLineBelow(t, i, LineBelow(t, i))
<1>1. PICK j \in KeptLines(t) : i < j /\ IsBelow(t, i, j)
  BY DEF LineBelow
<1> DEFINE After == {k \in KeptLines(t) : i < k}
<1>2. PICK m \in After : \A k \in After : m <= k
  <2>1. After \subseteq Nat /\ j \in After
    BY <1>1, KeptTypes
  <2> HIDE DEF After
  <2> QED BY <2>1, LeastNat
<1>3. m \in KeptLines(t) /\ i < m /\ m <= j
  <2>1. j \in After
    BY <1>1
  <2> QED BY <2>1, <1>2
<1>4. IsLineBelow(t, i, m)
  <2>1. t[m].level > t[i].level
    BY <1>1, <1>3 DEF IsBelow
  <2>2. \A k \in KeptLines(t) : ~(i < k /\ k < m)
    <3> SUFFICES ASSUME NEW k \in KeptLines(t), i < k, k < m PROVE FALSE
      OBVIOUS
    <3>1. m <= k /\ m \in Int /\ k \in Int
      BY <1>2, <1>3, KeptTypes
    <3> QED BY <3>1
  <2> QED BY <2>1, <2>2, <1>3 DEF IsLineBelow
<1> QED BY <1>3, <1>4, BelowIs

(* FirstLine is the first kept line. *)
LEMMA FirstIs ==
  ASSUME NEW t \in Seq(Lines), NEW f \in KeptLines(t), \A j \in KeptLines(t) : f <= j
  PROVE  FirstLine(t) = f
<1>1. \A i \in KeptLines(t) : (\A j \in KeptLines(t) : i <= j) => i = f
  <2> SUFFICES ASSUME NEW i \in KeptLines(t), \A j \in KeptLines(t) : i <= j PROVE i = f
    OBVIOUS
  <2>1. i <= f /\ f <= i /\ i \in Int /\ f \in Int
    BY KeptTypes
  <2> QED BY <2>1
<1> QED BY <1>1 DEF FirstLine

(* Where a line is kept, there is a first one. *)
LEMMA FirstMeans ==
  ASSUME NEW t \in Seq(Lines), KeptLines(t) # {}
  PROVE  FirstLine(t) \in KeptLines(t) /\ \A j \in KeptLines(t) : FirstLine(t) <= j
<1>1. KeptLines(t) \subseteq Nat
  BY KeptTypes
<1>2. PICK f \in KeptLines(t) : \A j \in KeptLines(t) : f <= j
  BY <1>1, LeastNat
<1> QED BY <1>2, FirstIs

(***************************************************************************)
(* A line has one place: nothing precedes it twice, on its level or above. *)
(***************************************************************************)
LEMMA OnePlace ==
  ASSUME NEW t \in Seq(Lines), NEW j \in KeptLines(t), NEW i \in KeptLines(t), NEW k \in KeptLines(t),
         IsNextLine(t, i, j) \/ IsLineBelow(t, i, j), IsNextLine(t, k, j) \/ IsLineBelow(t, k, j)
  PROVE  i = k /\ (IsNextLine(t, i, j) <=> ~IsLineBelow(t, i, j))
<1>1. /\ i \in Int /\ j \in Int /\ k \in Int
      /\ t[i].level \in Nat /\ t[j].level \in Nat /\ t[k].level \in Nat
  BY KeptTypes
<1>2. \A a, b \in {i, k} : a < b => FALSE
  <2> SUFFICES ASSUME NEW a \in {i, k}, NEW b \in {i, k}, a < b PROVE FALSE
    OBVIOUS
  <2>1. /\ a \in KeptLines(t) /\ b \in KeptLines(t) /\ t[a].level \in Nat /\ t[b].level \in Nat
        /\ IsNextLine(t, a, j) \/ IsLineBelow(t, a, j)
        /\ IsNextLine(t, b, j) \/ IsLineBelow(t, b, j)
    BY <1>1
  <2>2. b < j /\ t[b].level <= t[j].level
    BY <2>1, <1>1 DEF IsNextLine, IsLineBelow
  <2>3. IsNextLine(t, a, j)
    BY <2>1, <2>2 DEF IsLineBelow
  <2>4. t[a].level = t[j].level /\ t[b].level > t[a].level
    BY <2>1, <2>2, <2>3 DEF IsNextLine
  <2> QED BY <2>1, <2>2, <2>4, <1>1
<1>3. i = k
  BY <1>1, <1>2
<1>4. IsNextLine(t, i, j) <=> ~IsLineBelow(t, i, j)
  BY <1>1 DEF IsNextLine, IsLineBelow
<1> QED BY <1>3, <1>4

-----------------------------------------------------------------------------
(***************************************************************************)
(* One more line.                                                          *)
(***************************************************************************)
IsOneMore(t, line, u, n) ==
  /\ u \in Seq(Lines) /\ Len(u) = n /\ n \in Nat \ {0} /\ u[n] = line
  /\ \A i \in 1..Len(t) : u[i] = t[i]
  /\ \A i \in KeptLines(t) : i < n /\ u[i] = t[i]
  /\ KeptLines(u) = IF Kept(line) THEN KeptLines(t) \cup {n} ELSE KeptLines(t)

(* One more line leaves the lines before it as they are. *)
LEMMA OneMore ==
  ASSUME NEW t \in Seq(Lines), NEW line \in Lines
  PROVE  IsOneMore(t, line, Append(t, line), Len(t) + 1)
<1> DEFINE u == Append(t, line)
           n == Len(t) + 1
<1>1. /\ u \in Seq(Lines) /\ Len(u) = n /\ u[n] = line /\ Len(t) \in Nat
      /\ \A i \in 1..Len(t) : u[i] = t[i]
  BY AppendProperties, LineTypes
<1>2. 1..n = 1..Len(t) \cup {n} /\ n \notin 1..Len(t)
  BY <1>1
<1>3. \A i \in KeptLines(t) : i \in 1..Len(t) /\ i < n /\ u[i] = t[i]
  BY <1>1 DEF KeptLines
<1>4. ASSUME NEW i PROVE i \in KeptLines(u) <=> i \in KeptLines(t) \/ (i = n /\ Kept(line))
  BY <1>1, <1>2 DEF KeptLines
<1>5. KeptLines(u) = IF Kept(line) THEN KeptLines(t) \cup {n} ELSE KeptLines(t)
  BY <1>4
<1>6. n \in Nat \ {0}
  BY <1>1
<1> QED BY <1>1, <1>3, <1>5, <1>6 DEF IsOneMore

(* It may be the next line of one of the lines so far. *)
LEMMA NextAppend ==
  ASSUME NEW t \in Seq(Lines), NEW line \in Lines, NEW u, NEW n, IsOneMore(t, line, u, n),
         NEW i \in KeptLines(t)
  PROVE  NextLine(u, i) = IF Kept(line) /\ IsNextLine(u, i, n) THEN n ELSE NextLine(t, i)
<1>1. /\ u \in Seq(Lines) /\ n \in Nat /\ u[i] = t[i] /\ i \in KeptLines(u) /\ i \in Nat
      /\ \A k \in KeptLines(t) : k < n /\ k \in Nat /\ u[k] = t[k] /\ k \in KeptLines(u)
      /\ \A k \in KeptLines(u) : k \in KeptLines(t) \/ (k = n /\ Kept(line))
      /\ Kept(line) => n \in KeptLines(u)
  <2>1. /\ u \in Seq(Lines) /\ Len(u) = n /\ n \in Nat \ {0}
        /\ \A k \in KeptLines(t) : k < n /\ u[k] = t[k]
        /\ KeptLines(u) = IF Kept(line) THEN KeptLines(t) \cup {n} ELSE KeptLines(t)
    BY DEF IsOneMore
  <2>2. \A k \in KeptLines(t) : k \in Nat
    BY KeptTypes
  <2> QED BY <2>1, <2>2
<1>2. ASSUME NEW j \in KeptLines(t) PROVE IsNextLine(u, i, j) <=> IsNextLine(t, i, j)
  <2>1. \A k \in KeptLines(u) : k < j => k \in KeptLines(t)
    BY <1>1
  <2> QED BY <2>1, <1>1 DEF IsNextLine
<1>3. CASE Kept(line) /\ IsNextLine(u, i, n)
  BY <1>1, <1>3, NextIs
<1>4. CASE ~(Kept(line) /\ IsNextLine(u, i, n))
  <2>1. \A j : j \in KeptLines(u) /\ IsNextLine(u, i, j) <=> j \in KeptLines(t) /\ IsNextLine(t, i, j)
    BY <1>1, <1>2, <1>4
  <2>2. CASE NextLine(t, i) # 0
    <3>1. NextLine(t, i) \in KeptLines(t) /\ IsNextLine(t, i, NextLine(t, i))
      BY <2>2, NextMeans
    <3>2. NextLine(t, i) \in KeptLines(u) /\ IsNextLine(u, i, NextLine(t, i))
      BY <2>1, <3>1
    <3> QED BY <1>1, <1>4, <3>2, NextIs
  <2>3. CASE NextLine(t, i) = 0
    <3>1. ASSUME NextLine(u, i) # 0 PROVE FALSE
      <4>1. NextLine(u, i) \in KeptLines(t) /\ IsNextLine(t, i, NextLine(u, i))
        BY <1>1, <2>1, <3>1, NextMeans
      <4>2. NextLine(t, i) = NextLine(u, i)
        BY <4>1, NextIs
      <4> QED BY <2>3, <3>1, <4>2
    <3> QED BY <1>4, <2>3, <3>1
  <2> QED BY <2>2, <2>3
<1> QED BY <1>3, <1>4

(* It may be the line below the last of them. *)
LEMMA BelowAppend ==
  ASSUME NEW t \in Seq(Lines), NEW line \in Lines, NEW u, NEW n, IsOneMore(t, line, u, n),
         NEW i \in KeptLines(t)
  PROVE  LineBelow(u, i) = IF Kept(line) /\ IsLineBelow(u, i, n) THEN n ELSE LineBelow(t, i)
<1>1. /\ u \in Seq(Lines) /\ n \in Nat /\ u[i] = t[i] /\ i \in KeptLines(u) /\ i \in Nat
      /\ \A k \in KeptLines(t) : k < n /\ k \in Nat /\ u[k] = t[k] /\ k \in KeptLines(u)
      /\ \A k \in KeptLines(u) : k \in KeptLines(t) \/ (k = n /\ Kept(line))
      /\ Kept(line) => n \in KeptLines(u)
  <2>1. /\ u \in Seq(Lines) /\ Len(u) = n /\ n \in Nat \ {0}
        /\ \A k \in KeptLines(t) : k < n /\ u[k] = t[k]
        /\ KeptLines(u) = IF Kept(line) THEN KeptLines(t) \cup {n} ELSE KeptLines(t)
    BY DEF IsOneMore
  <2>2. \A k \in KeptLines(t) : k \in Nat
    BY KeptTypes
  <2> QED BY <2>1, <2>2
<1>2. ASSUME NEW j \in KeptLines(t) PROVE IsLineBelow(u, i, j) <=> IsLineBelow(t, i, j)
  <2>1. \A k \in KeptLines(u) : k < j => k \in KeptLines(t)
    BY <1>1
  <2> QED BY <2>1, <1>1 DEF IsLineBelow
<1>3. CASE Kept(line) /\ IsLineBelow(u, i, n)
  BY <1>1, <1>3, BelowIs
<1>4. CASE ~(Kept(line) /\ IsLineBelow(u, i, n))
  <2>1. \A j : j \in KeptLines(u) /\ IsLineBelow(u, i, j) <=> j \in KeptLines(t) /\ IsLineBelow(t, i, j)
    BY <1>1, <1>2, <1>4
  <2>2. CASE LineBelow(t, i) # 0
    <3>1. LineBelow(t, i) \in KeptLines(t) /\ IsLineBelow(t, i, LineBelow(t, i))
      BY <1>1, <2>2, BelowMeans
    <3>2. LineBelow(t, i) \in KeptLines(u) /\ IsLineBelow(u, i, LineBelow(t, i))
      BY <2>1, <3>1
    <3> QED BY <1>1, <1>4, <3>2, BelowIs
  <2>3. CASE LineBelow(t, i) = 0
    <3>1. ASSUME LineBelow(u, i) # 0 PROVE FALSE
      <4>1. LineBelow(u, i) \in KeptLines(t) /\ IsLineBelow(t, i, LineBelow(u, i))
        BY <1>1, <2>1, <3>1, BelowMeans
      <4>2. LineBelow(t, i) = LineBelow(u, i)
        BY <4>1, BelowIs
      <4> QED BY <2>3, <3>1, <4>2
    <3> QED BY <1>4, <2>3, <3>1
  <2> QED BY <2>2, <2>3
<1> QED BY <1>3, <1>4

(* Nothing follows it, and it is the first one only if there was none. *)
LEMMA LastAppend ==
  ASSUME NEW t \in Seq(Lines), NEW line \in Lines, NEW u, NEW n, IsOneMore(t, line, u, n)
  PROVE  /\ NextLine(u, n) = 0 /\ LineBelow(u, n) = 0
         /\ KeptLines(t) # {} => FirstLine(u) = FirstLine(t)
         /\ KeptLines(t) = {} /\ Kept(line) => FirstLine(u) = n
         /\ ~Kept(line) => FirstLine(u) = FirstLine(t)
<1>1. /\ u \in Seq(Lines) /\ n \in Nat
      /\ \A k \in KeptLines(t) : k < n /\ k \in Nat
      /\ KeptLines(u) = IF Kept(line) THEN KeptLines(t) \cup {n} ELSE KeptLines(t)
  <2>1. /\ u \in Seq(Lines) /\ Len(u) = n /\ n \in Nat \ {0}
        /\ \A k \in KeptLines(t) : k < n /\ u[k] = t[k]
        /\ KeptLines(u) = IF Kept(line) THEN KeptLines(t) \cup {n} ELSE KeptLines(t)
    BY DEF IsOneMore
  <2>2. \A k \in KeptLines(t) : k \in Nat
    BY KeptTypes
  <2> QED BY <2>1, <2>2
<1>2. \A k \in KeptLines(u) : ~(n < k)
  BY <1>1
<1>3. NextLine(u, n) = 0 /\ LineBelow(u, n) = 0
  BY <1>2 DEF NextLine, LineBelow, IsNextLine
<1>4. ASSUME KeptLines(t) # {} PROVE FirstLine(u) = FirstLine(t)
  <2>1. FirstLine(t) \in KeptLines(t) /\ \A j \in KeptLines(t) : FirstLine(t) <= j
    BY <1>4, FirstMeans
  <2>2. FirstLine(t) \in KeptLines(u) /\ \A j \in KeptLines(u) : FirstLine(t) <= j
    BY <2>1, <1>1
  <2> QED BY <2>2, <1>1, FirstIs
<1>5. ASSUME KeptLines(t) = {}, Kept(line) PROVE FirstLine(u) = n
  <2>1. n \in KeptLines(u) /\ \A j \in KeptLines(u) : n <= j
    BY <1>1, <1>5
  <2> QED BY <2>1, <1>1, FirstIs
<1>6. ASSUME ~Kept(line) PROVE FirstLine(u) = FirstLine(t)
  <2>1. CASE KeptLines(t) = {}
    BY <2>1, <1>1, <1>6 DEF FirstLine
  <2> QED BY <2>1, <1>4
<1> QED BY <1>3, <1>4, <1>5, <1>6

-----------------------------------------------------------------------------
(***************************************************************************)
(* Heads and links.  A text is accepted when no line but the last is       *)
(* rejected.                                                               *)
(***************************************************************************)
Accepted(t) == \A i \in 1..Len(t) : i < Len(t) => ~Rejected(t[i])

(* When no head is lost, the head of a deeper line is kept. *)
KeptHead(t, h, j) ==
  /\ IsHeadOf(t, h, j) /\ h < j /\ t[j].level = t[h].level + 1
  /\ \A k \in KeptLines(t) : h < k /\ k < j => t[k].level >= t[j].level

(* Without an ignored head, the head of a kept line is kept. *)
LEMMA HeadKept ==
  ASSUME NEW t \in Seq(Lines), IsStored(t), Accepted(t), ~LosesHead(t),
         NEW j \in KeptLines(t), t[j].level > 1
  PROVE  \E h \in KeptLines(t) : KeptHead(t, h, j)
<1>1. j \in 1..Len(t) /\ Declares(t, j) /\ Len(t) \in Nat
  BY LineTypes DEF KeptLines, Kept, Ignored, Rejected, Declares
<1>2. PICK h \in 1..Len(t) : /\ IsHeadOf(t, h, j) /\ h < j /\ Declares(t, h)
                             /\ t[h].kind \in Heads /\ t[j].level = t[h].level + 1
  BY <1>1, HeadIsHead
<1>3. h \in KeptLines(t)
  <2>1. h < Len(t)
    BY <1>1, <1>2
  <2>2. ~Rejected(t[h]) /\ ~Ignored(t[h])
    BY <1>2, <2>1 DEF Accepted, LosesHead
  <2> QED BY <1>2, <2>2 DEF KeptLines, Kept
<1>4. ASSUME NEW k \in KeptLines(t), h < k, k < j PROVE t[k].level >= t[j].level
  <2>1. k \in DeclaredBefore(t, j)
    BY <1>4 DEF DeclaredBefore, KeptLines, Kept, Ignored, Rejected
  <2> QED BY <1>2, <1>4, <2>1 DEF IsHeadOf
<1> QED BY <1>2, <1>3, <1>4 DEF KeptHead

(* The first kept line is on level 1. *)
LEMMA FirstIsTop ==
  ASSUME NEW t \in Seq(Lines), IsStored(t), Accepted(t), ~LosesHead(t),
         NEW f \in KeptLines(t), \A j \in KeptLines(t) : f <= j
  PROVE  t[f].level = 1
<1>1. t[f].level \in Nat \ {0} /\ f \in Int
  BY KeptTypes
<1>2. ASSUME t[f].level > 1 PROVE FALSE
  <2>1. PICK h \in KeptLines(t) : KeptHead(t, h, f)
    BY <1>2, HeadKept
  <2>2. h < f /\ f <= h /\ h \in Int
    BY <2>1, KeptTypes DEF KeptHead
  <2> QED BY <1>1, <2>2
<1> QED BY <1>1, <1>2

(***************************************************************************)
(* Every kept line has a place when no head is lost.                       *)
(***************************************************************************)
LEMMA HasPlace ==
  ASSUME NEW t \in Seq(Lines), IsStored(t), Accepted(t), ~LosesHead(t),
         NEW j \in KeptLines(t), j # FirstLine(t)
  PROVE  \E i \in KeptLines(t) : IsNextLine(t, i, j) \/ IsLineBelow(t, i, j)
<1> DEFINE f == FirstLine(t)
           Above == {i \in KeptLines(t) : i < j /\ t[i].level <= t[j].level}
<1>1. f \in KeptLines(t) /\ \A i \in KeptLines(t) : f <= i
  BY FirstMeans
<1> HIDE DEF f
<1>2. /\ j \in Nat /\ t[j].level \in Nat \ {0}
      /\ \A i \in KeptLines(t) : i \in Nat /\ t[i].level \in Nat \ {0}
  BY KeptTypes
<1>3. f \in Above
  <2>1. t[f].level = 1
    BY <1>1, FirstIsTop
  <2>2. f < j
    <3>1. f <= j /\ f # j
      BY <1>1 DEF f
    <3>2. f \in Nat
      BY <1>1, <1>2
    <3> QED BY <3>1, <3>2, <1>2
  <2> QED BY <1>1, <1>2, <2>1, <2>2
<1>4. PICK i \in Above : \A k \in Above : k <= i
  <2>1. \A k \in Above : k \in Nat /\ k < j
    BY <1>2
  <2>2. Above \subseteq Nat /\ Above # {} /\ \A k \in Above : k <= j
    <3> HIDE DEF Above
    <3> QED BY <2>1, <1>2, <1>3
  <2> HIDE DEF Above
  <2> QED BY <2>2, <1>2, GreatestNat
<1>5. i \in KeptLines(t) /\ i < j /\ t[i].level <= t[j].level
  OBVIOUS
<1>6. ASSUME NEW k \in KeptLines(t), i < k, k < j PROVE t[k].level > t[j].level
  <2>1. k \notin Above
    <3> HIDE DEF Above
    <3> QED BY <1>2, <1>4, <1>5, <1>6
  <2>2. ~(t[k].level <= t[j].level)
    BY <2>1, <1>6
  <2> QED BY <2>2, <1>2
<1> HIDE DEF Above
<1>7. CASE t[i].level = t[j].level
  <2>1. IsNextLine(t, i, j)
    BY <1>5, <1>6, <1>7 DEF IsNextLine
  <2> QED BY <1>5, <2>1
<1>8. CASE t[i].level < t[j].level
  <2>1. t[j].level > 1
    BY <1>2, <1>5, <1>8
  <2>2. PICK h \in KeptLines(t) : KeptHead(t, h, j)
    BY <2>1, HeadKept
  <2>3. h < j /\ t[j].level = t[h].level + 1
    BY <2>2 DEF KeptHead
  <2>4. ~(i < h)
    <3> SUFFICES ASSUME i < h PROVE FALSE
      OBVIOUS
    <3>1. t[h].level > t[j].level
      BY <1>6, <2>3
    <3> QED BY <3>1, <2>3, <1>2
  <2>5. ~(h < i)
    <3> SUFFICES ASSUME h < i PROVE FALSE
      OBVIOUS
    <3>1. t[i].level >= t[j].level
      BY <1>5, <2>2 DEF KeptHead
    <3> QED BY <3>1, <1>2, <1>5, <1>8
  <2>6. t[j].level = t[i].level + 1
    <3>1. h = i
      <4>1. h \in Nat /\ i \in Nat
        BY <1>2, <1>5
      <4> QED BY <4>1, <2>4, <2>5
    <3> QED BY <3>1, <2>3
  <2> DEFINE Between == {k \in KeptLines(t) : i < k /\ k < j}
  <2>7. ASSUME Between # {} PROVE FALSE
    <3>1. PICK k \in Between : \A m \in Between : k <= m
      <4>1. Between \subseteq Nat
        BY <1>2
      <4> HIDE DEF Between
      <4> QED BY <2>7, <4>1, LeastNat
    <3>2. k \in KeptLines(t) /\ i < k /\ k < j /\ t[k].level > t[j].level
      BY <1>6
    <3>3. PICK g \in KeptLines(t) : KeptHead(t, g, k)
      <4>1. t[k].level > 1
        BY <3>2, <1>2
      <4> QED BY <3>2, <4>1, HeadKept
    <3>4. g < k /\ t[k].level = t[g].level + 1 /\ g \in Nat
      BY <3>3, <1>2 DEF KeptHead
    <3>5. g \notin Between
      <4>1. ~(k <= g)
        BY <3>2, <3>4, <1>2
      <4> HIDE DEF Between
      <4> QED BY <3>1, <4>1
    <3>6. ~(i < g)
      BY <3>2, <3>4, <3>5, <1>2
    <3>7. g = i
      <4> SUFFICES ASSUME g < i PROVE FALSE
        BY <3>4, <3>6, <1>2, <1>5
      <4>1. t[i].level >= t[k].level
        BY <1>5, <3>2, <3>3 DEF KeptHead
      <4>2. t[i].level \in Nat /\ t[k].level \in Nat /\ t[j].level \in Nat
        BY <1>2, <1>5, <3>2
      <4> QED BY <4>1, <4>2, <3>2, <1>8
    <3>8. t[i].level \in Nat /\ t[k].level \in Nat /\ t[j].level \in Nat
      BY <1>2, <1>5, <3>2
    <3> QED BY <3>2, <3>4, <3>7, <3>8, <2>6
  <2>8. IsLineBelow(t, i, j)
    BY <1>5, <1>8, <1>2, <2>7 DEF IsLineBelow
  <2> QED BY <1>5, <2>8
<1> QED BY <1>2, <1>5, <1>7, <1>8

(* So a line without a place tells of a lost head. *)
LEMMA OrphanLosesHead ==
  ASSUME NEW t \in Seq(Lines), IsStored(t), Accepted(t), HasOrphan(t)
  PROVE  LosesHead(t)
<1> SUFFICES ASSUME ~LosesHead(t) PROVE FALSE
  OBVIOUS
<1>1. PICK j \in KeptLines(t) \ {FirstLine(t)} :
        \A i \in KeptLines(t) : NextLine(t, i) # j /\ LineBelow(t, i) # j
  BY DEF HasOrphan
<1>2. PICK i \in KeptLines(t) : IsNextLine(t, i, j) \/ IsLineBelow(t, i, j)
  BY HasPlace
<1>3. NextLine(t, i) = j \/ LineBelow(t, i) = j
  BY <1>2, NextIs, BelowIs
<1> QED BY <1>1, <1>3

(* The line below another one is a member of it. *)
LEMMA HeadOfBelow ==
  ASSUME NEW t \in Seq(Lines), IsStored(t), Accepted(t), ~LosesHead(t),
         NEW i \in KeptLines(t), NEW j \in KeptLines(t), IsLineBelow(t, i, j)
  PROVE  HeadOf(t, j) = i
<1>1. /\ j \in 1..Len(t) /\ i \in Nat /\ j \in Nat
      /\ t[i].level \in Nat \ {0} /\ t[j].level \in Nat \ {0}
  BY KeptTypes
<1>2. i < j /\ t[j].level > t[i].level /\ \A k \in KeptLines(t) : ~(i < k /\ k < j)
  BY DEF IsLineBelow
<1>3. t[j].level > 1
  BY <1>1, <1>2
<1>4. PICK h \in KeptLines(t) : KeptHead(t, h, j)
  BY <1>3, HeadKept
<1>5. h < j /\ IsHeadOf(t, h, j) /\ h \in Nat
  BY <1>4, KeptTypes DEF KeptHead
<1>6. ~(h < i)
  <2> SUFFICES ASSUME h < i PROVE FALSE
    OBVIOUS
  <2>1. t[i].level >= t[j].level
    BY <1>2, <1>4 DEF KeptHead
  <2> QED BY <2>1, <1>1, <1>2
<1>7. h = i
  BY <1>1, <1>2, <1>5, <1>6
<1> QED BY <1>1, <1>5, <1>7, HeadIs

(* The next line of another one has the same head. *)
LEMMA HeadOfNext ==
  ASSUME NEW t \in Seq(Lines), IsStored(t), Accepted(t), ~LosesHead(t),
         NEW i \in KeptLines(t), NEW j \in KeptLines(t), IsNextLine(t, i, j)
  PROVE  HeadOf(t, j) = HeadOf(t, i)
<1>1. /\ i \in 1..Len(t) /\ j \in 1..Len(t) /\ i \in Nat /\ j \in Nat
      /\ t[i].level \in Nat \ {0} /\ t[j].level \in Nat \ {0}
  BY KeptTypes
<1>2. /\ i < j /\ t[i].level = t[j].level
      /\ \A k \in KeptLines(t) : i < k /\ k < j => t[k].level > t[i].level
  BY DEF IsNextLine
<1>3. CASE t[i].level = 1
  BY <1>1, <1>2, <1>3, NoHead
<1>4. CASE t[i].level > 1
  <2>1. PICK h \in KeptLines(t) : KeptHead(t, h, j)
    BY <1>2, <1>4, HeadKept
  <2>2. h < j /\ IsHeadOf(t, h, j) /\ t[j].level = t[h].level + 1 /\ h \in Nat /\ t[h].level \in Nat
    BY <2>1, KeptTypes DEF KeptHead
  <2>3. ~(i < h) /\ h # i
    BY <1>1, <1>2, <2>2
  <2>4. h < i
    BY <1>1, <2>2, <2>3
  <2>5. IsHeadOf(t, h, i)
    <3>1. h \in DeclaredBefore(t, i)
      BY <2>2, <2>4 DEF IsHeadOf, DeclaredBefore
    <3>2. ASSUME NEW k \in DeclaredBefore(t, i), h < k PROVE t[k].level >= t[i].level
      <4>1. k \in DeclaredBefore(t, j)
        BY <1>1, <1>2, <3>2 DEF DeclaredBefore
      <4> QED BY <1>2, <2>2, <3>2, <4>1 DEF IsHeadOf
    <3>3. t[h].level < t[i].level
      BY <1>2, <2>2
    <3> QED BY <3>1, <3>2, <3>3 DEF IsHeadOf
  <2> QED BY <1>1, <2>2, <2>5, HeadIs
<1> QED BY <1>1, <1>3, <1>4

-----------------------------------------------------------------------------
(***************************************************************************)
(* The list.  The entries P of heap h stand for the kept lines of text t,  *)
(* in their order, and are linked as the levels say.                       *)
(***************************************************************************)
LineIn(h, e) == IF e = 0 THEN 0 ELSE h[e].line

Stands(h, P, t) ==
  /\ P \subseteq Nat \ {0}
  /\ \A e \in P : h[e].line \in KeptLines(t) /\ h[e].level = t[h[e].line].level
  /\ \A i \in KeptLines(t) : \E e \in P : h[e].line = i
  /\ \A e, f \in P : e < f <=> h[e].line < h[f].line

LinkedIn(h, P, t, e) ==
  /\ h[e].next \in P \cup {0} /\ LineIn(h, h[e].next) = NextLine(t, h[e].line)
  /\ h[e].nextlvl \in P \cup {0} /\ LineIn(h, h[e].nextlvl) = LineBelow(t, h[e].line)
  /\ h[e].prev \in P \cup {0}
  /\ h[e].prev = 0 <=> h[e].line = FirstLine(t)
  /\ h[e].prev # 0 => e \in {h[h[e].prev].next, h[h[e].prev].nextlvl}

Linked(h, P, t) == \A e \in P : LinkedIn(h, P, t, e)

(* Two entries do not stand for the same line. *)
LEMMA OneEntry ==
  ASSUME NEW t \in Seq(Lines), NEW h, NEW P, Stands(h, P, t), NEW e \in P, NEW f \in P,
         h[e].line = h[f].line
  PROVE  e = f
<1>1. e \in Nat /\ f \in Nat /\ h[e].line \in Nat /\ h[f].line \in Nat
  BY KeptTypes DEF Stands
<1>2. ~(e < f) /\ ~(f < e)
  <2>1. ~(h[e].line < h[f].line) /\ ~(h[f].line < h[e].line)
    BY <1>1
  <2> QED BY <2>1 DEF Stands
<1> QED BY <1>1, <1>2

(* A line that makes no entry changes no link. *)
LEMMA LinkIgnored ==
  ASSUME NEW t \in Seq(Lines), NEW line \in Lines, NEW u, NEW n, IsOneMore(t, line, u, n),
         NEW h, NEW P, Stands(h, P, t), Linked(h, P, t), ~Kept(line)
  PROVE  Stands(h, P, u) /\ Linked(h, P, u)
<1>1. KeptLines(u) = KeptLines(t) /\ \A i \in KeptLines(t) : u[i] = t[i]
  BY DEF IsOneMore
<1>2. FirstLine(u) = FirstLine(t)
  BY LastAppend
<1>3. \A i \in KeptLines(t) : NextLine(u, i) = NextLine(t, i) /\ LineBelow(u, i) = LineBelow(t, i)
  BY NextAppend, BelowAppend
<1>4. Stands(h, P, u)
  BY <1>1 DEF Stands
<1>5. \A e \in P : h[e].line \in KeptLines(t)
  BY DEF Stands
<1>6. ASSUME NEW e \in P PROVE LinkedIn(h, P, u, e)
  <2>1. LinkedIn(h, P, t, e) /\ h[e].line \in KeptLines(t)
    BY <1>5 DEF Linked
  <2> QED BY <2>1, <1>2, <1>3 DEF LinkedIn
<1> QED BY <1>4, <1>6 DEF Linked

(***************************************************************************)
(* Entry e of the line read last is put behind entry p, on its level or    *)
(* below it; p is 0 for the first entry of the list.                       *)
(***************************************************************************)
IsPut(h, g, P, t, line, u, n, e, p) ==
  /\ e \in Nat \ {0} /\ \A f \in P : f < e
  /\ g[e].line = n /\ g[e].level = line.level
  /\ g[e].prev = p /\ g[e].next = 0 /\ g[e].nextlvl = 0
  /\ \A f \in P : /\ g[f].line = h[f].line /\ g[f].level = h[f].level /\ g[f].prev = h[f].prev
                  /\ f # p => g[f].next = h[f].next /\ g[f].nextlvl = h[f].nextlvl
  /\ p = 0 => P = {}
  /\ p # 0 => p \in P
  /\ p # 0 => \/ IsNextLine(u, h[p].line, n) /\ g[p].next = e /\ g[p].nextlvl = h[p].nextlvl
              \/ IsLineBelow(u, h[p].line, n) /\ g[p].nextlvl = e /\ g[p].next = h[p].next

(* Putting one more entry keeps the list one entry per kept line. *)
LEMMA PutStands ==
  ASSUME NEW t \in Seq(Lines), NEW line \in Lines, NEW u, NEW n, IsOneMore(t, line, u, n),
         NEW h, NEW P, Stands(h, P, t), Kept(line),
         NEW g, NEW e, NEW p, IsPut(h, g, P, t, line, u, n, e, p)
  PROVE  Stands(g, P \cup {e}, u)
<1>1. /\ KeptLines(u) = KeptLines(t) \cup {n} /\ u[n] = line
      /\ \A i \in KeptLines(t) : u[i] = t[i] /\ i < n
  BY DEF IsOneMore
<1>2. /\ e \in Nat \ {0} /\ g[e].line = n /\ g[e].level = line.level
      /\ \A f \in P : f < e /\ g[f].line = h[f].line /\ g[f].level = h[f].level
  BY DEF IsPut
<1>3. /\ P \subseteq Nat \ {0}
      /\ \A f \in P : h[f].line \in KeptLines(t) /\ h[f].level = t[h[f].line].level
      /\ \A i \in KeptLines(t) : \E f \in P : h[f].line = i
      /\ \A d, f \in P : d < f <=> h[d].line < h[f].line
  BY DEF Stands
<1>4. n \in Nat /\ \A f \in P : f \in Nat /\ h[f].line \in Nat
  BY <1>3, KeptTypes DEF IsOneMore
<1>5. \A f \in P \cup {e} : g[f].line \in KeptLines(u) /\ g[f].level = u[g[f].line].level
  BY <1>1, <1>2, <1>3
<1>6. \A i \in KeptLines(u) : \E f \in P \cup {e} : g[f].line = i
  BY <1>1, <1>2, <1>3
<1>7. ASSUME NEW d \in P \cup {e}, NEW f \in P \cup {e} PROVE d < f <=> g[d].line < g[f].line
  <2>1. CASE d \in P /\ f \in P
    BY <2>1, <1>2, <1>3
  <2>2. CASE d \in P /\ f = e
    BY <2>2, <1>1, <1>2, <1>3
  <2>3. CASE d = e /\ f \in P
    <3>1. ~(d < f)
      BY <2>3, <1>2, <1>4
    <3>2. h[f].line < n /\ g[f].line = h[f].line
      BY <2>3, <1>1, <1>2, <1>3
    <3>3. ~(g[d].line < g[f].line)
      BY <2>3, <3>2, <1>2, <1>4
    <3> QED BY <3>1, <3>3
  <2>4. CASE d = e /\ f = e
    BY <2>4, <1>2, <1>4
  <2> QED BY <2>1, <2>2, <2>3, <2>4
<1> QED BY <1>2, <1>3, <1>5, <1>6, <1>7 DEF Stands

(* The links that there were are still right, and those of the new entry. *)
LEMMA PutLinked ==
  ASSUME NEW t \in Seq(Lines), NEW line \in Lines, NEW u, NEW n, IsOneMore(t, line, u, n),
         NEW h, NEW P, Stands(h, P, t), Linked(h, P, t), Kept(line),
         NEW g, NEW e, NEW p, IsPut(h, g, P, t, line, u, n, e, p)
  PROVE  Linked(g, P \cup {e}, u)
<1>1. /\ u \in Seq(Lines) /\ KeptLines(u) = KeptLines(t) \cup {n} /\ u[n] = line /\ n \in Nat \ {0}
      /\ \A i \in KeptLines(t) : u[i] = t[i] /\ i < n
  BY DEF IsOneMore
<1>2. /\ e \in Nat \ {0} /\ g[e].line = n
      /\ g[e].prev = p /\ g[e].next = 0 /\ g[e].nextlvl = 0
      /\ \A f \in P : /\ f < e /\ g[f].line = h[f].line /\ g[f].prev = h[f].prev
                      /\ f # p => g[f].next = h[f].next /\ g[f].nextlvl = h[f].nextlvl
      /\ p = 0 => P = {}
      /\ p # 0 => p \in P
  BY DEF IsPut
<1>3. /\ P \subseteq Nat \ {0} /\ \A f \in P : h[f].line \in KeptLines(t)
      /\ \A i \in KeptLines(t) : \E f \in P : h[f].line = i
  BY DEF Stands
<1>4. e \notin P
  BY <1>2, <1>3
<1>5. \A f \in P \cup {0} : LineIn(g, f) = LineIn(h, f)
  BY <1>2 DEF LineIn
<1>6. LineIn(g, e) = n
  BY <1>2 DEF LineIn
(* The new entry. *)
<1>7. LinkedIn(g, P \cup {e}, u, e)
  <2>1. NextLine(u, n) = 0 /\ LineBelow(u, n) = 0
    BY LastAppend
  <2>2. p = 0 => FirstLine(u) = n
    <3> SUFFICES ASSUME p = 0 PROVE FirstLine(u) = n
      OBVIOUS
    <3>1. KeptLines(t) = {}
      BY <1>2, <1>3
    <3> QED BY <3>1, LastAppend
  <2>3. p # 0 => FirstLine(u) # n
    <3> SUFFICES ASSUME p # 0 PROVE FirstLine(u) # n
      OBVIOUS
    <3>1. KeptLines(t) # {}
      BY <1>2, <1>3
    <3>2. FirstLine(u) = FirstLine(t) /\ FirstLine(t) \in KeptLines(t)
      BY <3>1, LastAppend, FirstMeans
    <3>3. \A i \in KeptLines(t) : i # n
      BY <1>1
    <3> QED BY <3>2, <3>3
  <2>4. p # 0 => e \in {g[p].next, g[p].nextlvl}
    BY DEF IsPut
  <2> QED BY <1>2, <2>1, <2>2, <2>3, <2>4 DEF LinkedIn, LineIn
(* The entries that were there. *)
<1>8. ASSUME NEW f \in P PROVE LinkedIn(g, P \cup {e}, u, f)
  <2> DEFINE i == h[f].line
  <2>1. i \in KeptLines(t) /\ p # 0 /\ p \in P /\ n \in KeptLines(u) /\ i \in KeptLines(u)
    BY <1>1, <1>2, <1>3
  <2>2. LinkedIn(h, P, t, f) /\ LinkedIn(h, P, t, p)
    BY <2>1 DEF Linked
  <2>3. /\ NextLine(u, i) = IF IsNextLine(u, i, n) THEN n ELSE NextLine(t, i)
        /\ LineBelow(u, i) = IF IsLineBelow(u, i, n) THEN n ELSE LineBelow(t, i)
    BY <2>1, NextAppend, BelowAppend
  <2>4. FirstLine(u) = FirstLine(t)
    <3>1. KeptLines(t) # {}
      BY <2>1
    <3> QED BY <3>1, LastAppend
  <2>5. \/ IsNextLine(u, h[p].line, n) /\ g[p].next = e /\ g[p].nextlvl = h[p].nextlvl
        \/ IsLineBelow(u, h[p].line, n) /\ g[p].nextlvl = e /\ g[p].next = h[p].next
    BY <2>1 DEF IsPut
  <2>6. h[p].line \in KeptLines(u)
    BY <2>1, <1>1, <1>3
  <2>7. IsNextLine(u, i, n) \/ IsLineBelow(u, i, n) => f = p
    <3> SUFFICES ASSUME IsNextLine(u, i, n) \/ IsLineBelow(u, i, n) PROVE f = p
      OBVIOUS
    <3>1. i = h[p].line
      BY <1>1, <2>1, <2>5, <2>6, OnePlace
    <3> QED BY <3>1, <2>1, OneEntry
  <2>8. ~(IsNextLine(u, h[p].line, n) /\ IsLineBelow(u, h[p].line, n))
    BY <1>1, <2>1, <2>6, OnePlace
  <2>9. g[f].next \in P \cup {e, 0} /\ LineIn(g, g[f].next) = NextLine(u, i)
    <3>1. CASE f = p /\ IsNextLine(u, i, n)
      BY <3>1, <1>6, <2>3, <2>5, <2>8
    <3>2. CASE ~(f = p /\ IsNextLine(u, i, n))
      <4>1. NextLine(u, i) = NextLine(t, i)
        BY <3>2, <2>3, <2>7
      <4>2. g[f].next = h[f].next
        BY <3>2, <1>2, <2>5
      <4>3. h[f].next \in P \cup {0} /\ LineIn(h, h[f].next) = NextLine(t, i)
        BY <2>2 DEF LinkedIn
      <4> QED BY <4>1, <4>2, <4>3, <1>5
    <3> QED BY <3>1, <3>2
  <2>10. g[f].nextlvl \in P \cup {e, 0} /\ LineIn(g, g[f].nextlvl) = LineBelow(u, i)
    <3>1. CASE f = p /\ IsLineBelow(u, i, n)
      BY <3>1, <1>6, <2>3, <2>5, <2>8
    <3>2. CASE ~(f = p /\ IsLineBelow(u, i, n))
      <4>1. LineBelow(u, i) = LineBelow(t, i)
        BY <3>2, <2>3, <2>7
      <4>2. g[f].nextlvl = h[f].nextlvl
        BY <3>2, <1>2, <2>5
      <4>3. h[f].nextlvl \in P \cup {0} /\ LineIn(h, h[f].nextlvl) = LineBelow(t, i)
        BY <2>2 DEF LinkedIn
      <4> QED BY <4>1, <4>2, <4>3, <1>5
    <3> QED BY <3>1, <3>2
  (* The field that is written was 0. *)
  <2>11. /\ IsNextLine(u, h[p].line, n) => h[p].next = 0
         /\ IsLineBelow(u, h[p].line, n) => h[p].nextlvl = 0
    <3> DEFINE k == h[p].line
    <3>1. k \in KeptLines(t) /\ k \in Nat
      BY <2>1, <1>3, KeptTypes
    <3>2. \A d \in P : LineIn(h, d) # 0 /\ LineIn(h, d) \in KeptLines(t)
      BY <1>3, KeptTypes DEF LineIn
    <3>3. ASSUME IsNextLine(u, k, n), h[p].next # 0 PROVE FALSE
      <4>1. NextLine(t, k) # 0
        BY <2>2, <3>2, <3>3 DEF LinkedIn
      <4>2. NextLine(t, k) \in KeptLines(t) /\ IsNextLine(t, k, NextLine(t, k))
        BY <4>1, NextMeans
      <4> DEFINE j == NextLine(t, k)
      <4>3. j \in KeptLines(t) /\ k < j /\ t[k].level = t[j].level /\ t[j].level \in Nat
        BY <4>2, KeptTypes DEF IsNextLine
      <4> HIDE DEF j
      <4>4. u[j].level > u[k].level /\ u[j] = t[j] /\ u[k] = t[k]
        BY <4>3, <3>1, <3>3, <1>1 DEF IsNextLine
      <4> QED BY <4>3, <4>4
    <3>4. ASSUME IsLineBelow(u, k, n), h[p].nextlvl # 0 PROVE FALSE
      <4>1. LineBelow(t, k) # 0
        BY <2>2, <3>2, <3>4 DEF LinkedIn
      <4>2. LineBelow(t, k) \in KeptLines(t) /\ IsLineBelow(t, k, LineBelow(t, k))
        BY <3>1, <4>1, BelowMeans
      <4>3. LineBelow(t, k) \in KeptLines(u) /\ k < LineBelow(t, k) /\ LineBelow(t, k) < n
        BY <4>2, <1>1 DEF IsLineBelow
      <4> QED BY <4>3, <3>4 DEF IsLineBelow
    <3> QED BY <3>3, <3>4
  <2>12. /\ g[f].prev \in P \cup {0}
         /\ g[f].prev = 0 <=> g[f].line = FirstLine(u)
         /\ g[f].prev # 0 => f \in {g[g[f].prev].next, g[g[f].prev].nextlvl}
    <3>1. /\ g[f].prev = h[f].prev /\ h[f].prev \in P \cup {0}
          /\ h[f].prev = 0 <=> h[f].line = FirstLine(t)
          /\ h[f].prev # 0 => f \in {h[h[f].prev].next, h[h[f].prev].nextlvl}
      BY <1>2, <2>2 DEF LinkedIn
    <3>2. f # 0 /\ g[f].line = h[f].line
      BY <1>2, <1>3
    <3>3. ASSUME h[f].prev # 0 PROVE f \in {g[h[f].prev].next, g[h[f].prev].nextlvl}
      <4>1. CASE h[f].prev # p
        BY <4>1, <3>1, <3>3, <1>2
      <4>2. CASE h[f].prev = p
        BY <4>2, <3>1, <3>2, <3>3, <2>5, <2>11
      <4> QED BY <4>1, <4>2
    <3> QED BY <3>1, <3>2, <3>3, <2>4
  <2> QED BY <2>9, <2>10, <2>12, <1>2 DEF LinkedIn
<1> QED BY <1>7, <1>8 DEF Linked

-----------------------------------------------------------------------------
(***************************************************************************)
(* The inductive invariant.                                                *)
(***************************************************************************)
Entry == [level : Nat, kind : LineKinds, parse : Nat, line : Nat,
          prev : Nat, next : Nat, nextlvl : Nat]

Mine == {e \in Entries : heap[e].parse = parses}

Types ==
  /\ pc \in {"idle", "reading", "climbing", "crashed", "returned", "freeing"}
  /\ parses \in Nat
  /\ text \in Seq(Lines)
  /\ heap \in Seq(Entry)

Texts ==
  /\ IsStored(text)
  /\ Accepted(text)
  /\ pc \in {"reading", "climbing", "crashed"} => \A i \in 1..Len(text) : ~Rejected(text[i])

(* Entries of different parses are not linked. *)
Apart ==
  \A e \in Entries :
    /\ heap[e].parse <= parses
    /\ \A l \in {heap[e].prev, heap[e].next, heap[e].nextlvl} :
         l # 0 => l \in Entries /\ heap[l].parse = heap[e].parse

(* The list is whole, and the pointers lead to its first and last entry. *)
Heads0(P, t, p) == (p = 0 /\ P = {}) \/ (p \in P /\ heap[p].line = FirstLine(t))
IsLastOf(P, p) == (p = 0 /\ P = {}) \/ (p \in P /\ \A e \in P : e <= p)

Whole ==
  pc \notin {"climbing", "crashed"} =>
    /\ Stands(heap, Mine, text)
    /\ Linked(heap, Mine, text)
    /\ pc = "reading" => Heads0(Mine, text, anker) /\ IsLastOf(Mine, curptr)
    /\ pc # "reading" => anker = 0 /\ curptr = 0
    /\ pc \in {"returned", "freeing"} => Heads0(Mine, text, result)

(* The walk back has seen only deeper lines, or has passed the place where *)
(* the line of level n could not be put.                                   *)
OnlyDeeper(t, l, n) == \A i \in KeptLines(t) : i > l => t[i].level > n
Passed(t, n) == \E i \in KeptLines(t) : t[i].level < n /\ OnlyDeeper(t, i, n)

(* While entry New has no place, the others are the list of what was read  *)
(* before.                                                                 *)
Others == Mine \ {New}

IsWaiting(t, line) ==
  /\ text = Append(t, line)
  /\ Kept(line)
  /\ New \in Mine
  /\ heap[New].line = Len(t) + 1 /\ heap[New].level = line.level
  /\ heap[New].prev = 0 /\ heap[New].next = 0 /\ heap[New].nextlvl = 0
  /\ Stands(heap, Others, t)
  /\ Linked(heap, Others, t)
  /\ anker \in Others /\ heap[anker].line = FirstLine(t)
  /\ curptr \in Others /\ heap[curptr].level > line.level
  /\ \A e \in Others : e <= curptr
  /\ pc = "climbing" =>
       /\ hptr \in Others
       /\ \/ OnlyDeeper(t, heap[hptr].line, line.level)
          \/ heap[hptr].level < line.level /\ Passed(t, line.level)
  /\ pc = "crashed" => OnlyDeeper(t, 0, line.level) \/ Passed(t, line.level)

Waits ==
  pc \in {"climbing", "crashed"} => \E t \in Seq(Lines), line \in Lines : IsWaiting(t, line)

Inv == Types /\ Texts /\ Apart /\ Whole /\ Waits

-----------------------------------------------------------------------------
(* What one more line does to a text that is read. *)
LEMMA ReadLine ==
  ASSUME Inv, NEW line \in Lines, Read(line)
  PROVE  /\ pc = "reading" /\ text' = Append(text, line) /\ parses' = parses
         /\ IsOneMore(text, line, text', Len(text) + 1)
         /\ IsStored(text') /\ Accepted(text') /\ text' \in Seq(Lines)
         /\ ~Rejected(line) => \A i \in 1..Len(text') : ~Rejected(text'[i])
<1>1. /\ pc = "reading" /\ text' = Append(text, line) /\ parses' = parses
      /\ MayFollow(text, line)
  BY DEF Read
<1>2. text \in Seq(Lines) /\ IsStored(text) /\ \A i \in 1..Len(text) : ~Rejected(text[i])
  BY <1>1 DEF Inv, Types, Texts
<1>3. IsOneMore(text, line, text', Len(text) + 1)
  BY <1>1, <1>2, OneMore
<1>4. IsStored(text')
  BY <1>1, <1>2, StoredAppend
<1>5. Len(text) \in Nat
  BY <1>2, LineTypes
<1>6. /\ Len(text') = Len(text) + 1 /\ text'[Len(text) + 1] = line
      /\ \A i \in 1..Len(text) : text'[i] = text[i] /\ ~Rejected(text'[i])
  BY <1>2, <1>3 DEF IsOneMore
<1>7. \A i \in 1..Len(text') : i \in 1..Len(text) \/ i = Len(text) + 1
  BY <1>5, <1>6
<1>8. Accepted(text')
  <2> SUFFICES ASSUME NEW i \in 1..Len(text'), i < Len(text') PROVE ~Rejected(text'[i])
    BY DEF Accepted
  <2>1. i \in 1..Len(text)
    BY <1>5, <1>6
  <2> QED BY <2>1, <1>6
<1>9. ~Rejected(line) => \A i \in 1..Len(text') : ~Rejected(text'[i])
  BY <1>6, <1>7
<1>10. text' \in Seq(Lines)
  BY <1>3 DEF IsOneMore
<1> QED BY <1>1, <1>3, <1>4, <1>8, <1>9, <1>10

(* A line of which no entry is made. *)
LEMMA SkipLine ==
  ASSUME Inv, NEW line \in Lines, Read(line), ~Kept(line), heap' = heap
  PROVE  /\ Stands(heap', Mine', text') /\ Linked(heap', Mine', text') /\ Mine' = Mine
         /\ FirstLine(text') = FirstLine(text)
         /\ Apart'
<1>1. /\ pc = "reading" /\ parses' = parses
      /\ IsOneMore(text, line, text', Len(text) + 1)
  BY ReadLine
<1>2. Mine' = Mine
  BY <1>1 DEF Mine, Entries
<1>3. text \in Seq(Lines) /\ Stands(heap, Mine, text) /\ Linked(heap, Mine, text)
  BY <1>1 DEF Inv, Types, Whole
<1>4. Stands(heap, Mine, text') /\ Linked(heap, Mine, text')
  BY <1>1, <1>3, LinkIgnored
<1>5. FirstLine(text') = FirstLine(text)
  BY <1>1, <1>3, LastAppend
<1>6. Apart'
  BY <1>1 DEF Inv, Apart, Entries
<1> QED BY <1>2, <1>4, <1>5, <1>6

(* A line that is ignored changes no link that the levels describe. *)
LEMMA IgnoreStep == ASSUME NEW line \in Lines PROVE Inv /\ IgnoreLine(line) => Inv'
<1> SUFFICES ASSUME Inv, IgnoreLine(line) PROVE Inv'
  OBVIOUS
<1>1. /\ Read(line) /\ ~Kept(line) /\ ~Rejected(line) /\ heap' = heap /\ anker' = anker
      /\ curptr' = curptr /\ pc' = pc
  BY DEF IgnoreLine, Ignored, Rejected, Kept, links
<1>2. /\ pc = "reading" /\ text' \in Seq(Lines) /\ IsStored(text') /\ Accepted(text')
      /\ parses' = parses /\ \A i \in 1..Len(text') : ~Rejected(text'[i])
  BY <1>1, ReadLine
<1>3. /\ Stands(heap', Mine', text') /\ Linked(heap', Mine', text') /\ Mine' = Mine /\ Apart'
      /\ FirstLine(text') = FirstLine(text)
  BY <1>1, SkipLine
<1>4. Heads0(Mine, text, anker) /\ IsLastOf(Mine, curptr)
  BY <1>2 DEF Inv, Whole
<1>5. Heads0(Mine, text, anker)' /\ IsLastOf(Mine, curptr)'
  BY <1>1, <1>3, <1>4 DEF Heads0, IsLastOf
<1>6. Types' /\ Texts'
  BY <1>1, <1>2 DEF Inv, Types, Texts
<1>7. Whole' /\ Waits'
  BY <1>1, <1>2, <1>3, <1>5 DEF Whole, Waits
<1> QED BY <1>3, <1>6, <1>7 DEF Inv

(* A parse that ends with an error ends with the list of what it kept. *)
LEMMA RejectStep == ASSUME NEW line \in Lines PROVE Inv /\ RejectLine(line) => Inv'
<1> SUFFICES ASSUME Inv, RejectLine(line) PROVE Inv'
  OBVIOUS
<1>1. /\ Read(line) /\ ~Kept(line) /\ heap' = heap /\ anker' = 0
      /\ curptr' = 0 /\ pc' = "returned" /\ result' = anker
  BY DEF RejectLine, Kept, Return, NULL
<1>2. /\ pc = "reading" /\ text' \in Seq(Lines) /\ IsStored(text') /\ Accepted(text')
      /\ parses' = parses
  BY <1>1, ReadLine
<1>3. /\ Stands(heap', Mine', text') /\ Linked(heap', Mine', text') /\ Mine' = Mine /\ Apart'
      /\ FirstLine(text') = FirstLine(text)
  BY <1>1, SkipLine
<1>4. Heads0(Mine, text, anker)
  BY <1>2 DEF Inv, Whole
<1>5. Heads0(Mine, text, result)'
  BY <1>1, <1>3, <1>4 DEF Heads0
<1>6. Types' /\ Texts'
  BY <1>1, <1>2 DEF Inv, Types, Texts
<1>7. Whole' /\ Waits'
  BY <1>1, <1>2, <1>3, <1>5 DEF Whole, Waits
<1> QED BY <1>3, <1>6, <1>7 DEF Inv

(* The end of the file. *)
LEMMA EndOfFileStep == Inv /\ EndOfFile => Inv'
<1> SUFFICES ASSUME Inv, EndOfFile PROVE Inv'
  OBVIOUS
<1>1. /\ pc = "reading" /\ heap' = heap /\ anker' = 0 /\ text' = text
      /\ curptr' = 0 /\ pc' = "returned" /\ result' = anker /\ parses' = parses
  BY DEF EndOfFile, Return, NULL
<1>2. Mine' = Mine
  BY <1>1 DEF Mine, Entries
<1>3. /\ Stands(heap, Mine, text) /\ Linked(heap, Mine, text) /\ Heads0(Mine, text, anker)
  BY <1>1 DEF Inv, Whole
<1>4. Heads0(Mine, text, result)'
  BY <1>1, <1>2, <1>3 DEF Heads0
<1>5. Types' /\ Texts' /\ Whole' /\ Waits' /\ Apart'
  BY <1>1, <1>2, <1>3, <1>4 DEF Inv, Types, Texts, Whole, Waits, Apart, Entries
<1> QED BY <1>5 DEF Inv

(* A new parse begins with nothing of its own. *)
LEMMA StartStep == Inv /\ StartParser => Inv'
<1> SUFFICES ASSUME Inv, StartParser PROVE Inv'
  OBVIOUS
<1>1. /\ pc = "idle" /\ heap' = heap /\ anker' = anker /\ text' = <<>>
      /\ curptr' = curptr /\ pc' \in {"idle", "reading"} /\ parses' = parses + 1
  BY DEF StartParser, links
<1>2. parses \in Nat /\ \A e \in Entries : heap[e].parse <= parses /\ heap[e].parse \in Nat
  <2>1. \A e \in Entries : heap[e] \in Entry
    BY ElementOfSeq DEF Inv, Types, Entries
  <2> QED BY <2>1 DEF Inv, Types, Apart, Entry
<1>3. Mine' = {}
  BY <1>1, <1>2 DEF Mine, Entries
<1>4. <<>> \in Seq(Lines) /\ Len(<<>>) = 0 /\ KeptLines(<<>>) = {} /\ 1..Len(<<>>) = {}
  BY EmptySeq DEF KeptLines
<1>5. Types' /\ Texts'
  BY <1>1, <1>4 DEF Inv, Types, Texts, IsStored, Accepted
<1>6. Apart'
  BY <1>1, <1>2 DEF Inv, Apart, Entries
<1>7. Whole'
  BY <1>1, <1>3, <1>4 DEF Inv, Whole, Stands, Linked, Heads0, IsLastOf
<1>8. Waits'
  BY <1>1 DEF Waits
<1> QED BY <1>5, <1>6, <1>7, <1>8 DEF Inv

(* The steps of the caller of the parser. *)
LEMMA FreeSteps ==
  Inv /\ (FreeList \/ ForgetList \/ FreeBelow \/ FreeEntry \/ EndFork \/ EndFree \/ UNCHANGED vars)
    => Inv'
<1> SUFFICES ASSUME Inv, FreeList \/ ForgetList \/ FreeBelow \/ FreeEntry \/ EndFork \/ EndFree
                           \/ UNCHANGED vars
             PROVE Inv'
  OBVIOUS
<1>1. /\ heap' = heap /\ anker' = anker /\ curptr' = curptr /\ text' = text /\ parses' = parses
      /\ result' = result /\ hptr' = hptr
      /\ \/ pc' = pc
         \/ pc = "returned" /\ pc' = "freeing"
         \/ pc \in {"returned", "freeing"} /\ pc' = "idle"
  BY DEF FreeList, ForgetList, FreeBelow, FreeEntry, EndFork, EndFree, links, vars
<1>2. Mine' = Mine
  BY <1>1 DEF Mine, Entries
<1>3. Types' /\ Texts' /\ Apart'
  BY <1>1 DEF Inv, Types, Texts, Apart, Entries
<1>4. Whole'
  BY <1>1, <1>2 DEF Inv, Whole, Heads0, IsLastOf
<1>5. Waits'
  <2> SUFFICES ASSUME pc' \in {"climbing", "crashed"}
               PROVE \E t \in Seq(Lines), line \in Lines : IsWaiting(t, line)'
    BY DEF Waits
  <2>1. PICK t \in Seq(Lines), line \in Lines : IsWaiting(t, line)
    BY <1>1 DEF Inv, Waits
  <2>2. IsWaiting(t, line)'
    BY <1>1, <1>2, <2>1 DEF IsWaiting, Others, New
  <2> QED BY <2>2
<1> QED BY <1>3, <1>4, <1>5 DEF Inv

-----------------------------------------------------------------------------
(* The line of the last entry is the last kept line. *)
LEMMA LastLine ==
  ASSUME NEW t \in Seq(Lines), NEW h, NEW P, Stands(h, P, t), NEW p \in P, \A e \in P : e <= p,
         NEW k \in KeptLines(t)
  PROVE  ~(h[p].line < k)
<1>1. PICK e \in P : h[e].line = k
  BY DEF Stands
<1>2. p \in Nat /\ e \in Nat /\ e <= p
  BY DEF Stands
<1>3. ~(p < e)
  BY <1>2
<1> QED BY <1>1, <1>3 DEF Stands

(* The types of an entry that is made, and of one with a link changed. *)
LEMMA EntryTypes ==
  ASSUME NEW en \in Entry, NEW n \in Nat
  PROVE  /\ [en EXCEPT !.next = n] \in Entry /\ [en EXCEPT !.nextlvl = n] \in Entry
         /\ [en EXCEPT !.prev = n] \in Entry
BY DEF Entry

(* What a new entry holds. *)
LEMMA NewEntryTypes ==
  ASSUME Inv, NEW line \in Lines, NEW p \in Nat
  PROVE  /\ NewEntry(line, p) \in Entry
         /\ LET en == NewEntry(line, p)
            IN /\ en.line = Len(text) + 1 /\ en.level = line.level /\ en.parse = parses
               /\ en.prev = p /\ en.next = 0 /\ en.nextlvl = 0
<1>1. line.level \in Nat /\ line.kind \in LineKinds
  BY LinesAssumption
<1>2. parses \in Nat /\ Len(text) + 1 \in Nat
  BY LineTypes DEF Inv, Types
<1> QED BY <1>1, <1>2 DEF NewEntry, Entry, NULL

(***************************************************************************)
(* An entry that is put behind the last one, or is the first one.          *)
(***************************************************************************)
LEMMA PutStep ==
  ASSUME Inv, NEW line \in Lines, Read(line), Kept(line), NEW p,
         IsPut(heap, heap', Mine, text, line, text', Len(text) + 1, Len(heap) + 1, p),
         heap' \in Seq(Entry), Len(heap') = Len(heap) + 1,
         \A f \in Entries : heap'[f].parse = heap[f].parse /\ (f # p => heap'[f] = heap[f]),
         heap'[Len(heap) + 1].parse = parses,
         pc' = pc, curptr' = Len(heap) + 1, anker' = IF p = 0 THEN Len(heap) + 1 ELSE anker
  PROVE  Inv'
<1> DEFINE e == Len(heap) + 1
           n == Len(text) + 1
<1>1. /\ pc = "reading" /\ text' \in Seq(Lines) /\ IsStored(text') /\ Accepted(text')
      /\ parses' = parses /\ IsOneMore(text, line, text', n)
  BY ReadLine
<1>2. \A i \in 1..Len(text') : ~Rejected(text'[i])
  BY ReadLine DEF Kept
<1>3. text \in Seq(Lines) /\ heap \in Seq(Entry) /\ Len(heap) \in Nat /\ parses \in Nat
  BY LenProperties DEF Inv, Types
<1>4. Stands(heap, Mine, text) /\ Linked(heap, Mine, text) /\ Heads0(Mine, text, anker)
  BY <1>1 DEF Inv, Whole
<1>5. Entries' = Entries \cup {e}
  BY <1>3 DEF Entries
<1>6. Mine' = Mine \cup {e}
  BY <1>1, <1>5 DEF Mine
<1>7. Stands(heap', Mine', text') /\ Linked(heap', Mine', text')
  BY <1>1, <1>3, <1>4, <1>6, PutStands, PutLinked
<1>8. IsLastOf(Mine, curptr)'
  <2>1. \A f \in Mine : f <= e
    <3>1. \A f \in Mine : f \in Nat /\ f <= Len(heap)
      BY <1>3 DEF Mine, Entries
    <3> QED BY <3>1, <1>3
  <2> QED BY <2>1, <1>3, <1>6 DEF IsLastOf
<1>9. Heads0(Mine, text, anker)'
  <2>1. CASE p = 0
    <3>1. Mine = {} /\ heap'[e].line = n
      BY <2>1 DEF IsPut
    <3>2. KeptLines(text) = {}
      BY <3>1, <1>4 DEF Stands
    <3>3. FirstLine(text') = n
      BY <3>2, <1>1, <1>3, LastAppend
    <3> QED BY <2>1, <3>1, <3>3, <1>6 DEF Heads0
  <2>2. CASE p # 0
    <3>1. p \in Mine
      BY <2>2 DEF IsPut
    <3>2. anker \in Mine /\ heap[anker].line = FirstLine(text) /\ heap[anker].line \in KeptLines(text)
      BY <3>1, <1>4 DEF Heads0, Stands
    <3>3. FirstLine(text') = FirstLine(text)
      BY <3>2, <1>1, <1>3, LastAppend
    <3>4. heap'[anker].line = heap[anker].line
      BY <3>2 DEF IsPut
    <3> QED BY <2>2, <3>2, <3>3, <3>4, <1>6 DEF Heads0
  <2> QED BY <2>1, <2>2
<1>10. Apart'
  <2>1. p = 0 \/ p \in Mine
    BY DEF IsPut
  <2>2. p # 0 => p \in Entries /\ heap[p].parse = parses
    BY <2>1 DEF Mine
  <2>3. e \notin Entries
    BY <1>3 DEF Entries
  <2>4. ASSUME NEW f \in Entries
        PROVE /\ heap'[f].parse <= parses
              /\ \A l \in {heap'[f].prev, heap'[f].next, heap'[f].nextlvl} :
                   l # 0 => l \in Entries' /\ heap'[l].parse = heap'[f].parse
    <3>1. /\ heap[f].parse <= parses
          /\ \A l \in {heap[f].prev, heap[f].next, heap[f].nextlvl} :
               l # 0 => l \in Entries' /\ heap'[l].parse = heap'[f].parse
      BY <1>5 DEF Inv, Apart
    <3>2. CASE f # p
      BY <3>1, <3>2
    <3>3. CASE f = p
      <4>1. p # 0 /\ p \in Mine
        BY <3>3, <2>1, <1>3 DEF Entries
      <4>2. /\ heap'[p].prev = heap[p].prev
            /\ heap'[p].next \in {heap[p].next, e} /\ heap'[p].nextlvl \in {heap[p].nextlvl, e}
        BY <4>1 DEF IsPut
      <4>3. heap'[e].parse = heap'[p].parse /\ e \in Entries'
        BY <4>1, <2>2, <1>5
      <4> QED BY <3>1, <3>3, <4>2, <4>3
    <3> QED BY <3>2, <3>3
  <2>5. /\ heap'[e].parse <= parses
        /\ \A l \in {heap'[e].prev, heap'[e].next, heap'[e].nextlvl} :
             l # 0 => l \in Entries' /\ heap'[l].parse = heap'[e].parse
    <3>1. heap'[e].prev = p /\ heap'[e].next = 0 /\ heap'[e].nextlvl = 0
      BY DEF IsPut
    <3>2. p # 0 => p \in Entries' /\ heap'[p].parse = parses
      BY <2>2, <1>5
    <3> QED BY <3>1, <3>2, <1>3
  <2> QED BY <2>4, <2>5, <1>1, <1>5 DEF Apart
<1>11. Types' /\ Texts'
  BY <1>1, <1>2 DEF Inv, Types, Texts
<1>12. Whole' /\ Waits'
  BY <1>1, <1>7, <1>8, <1>9 DEF Whole, Waits
<1> QED BY <1>10, <1>11, <1>12 DEF Inv

(* Where the list is empty. *)
LEMMA SaveFirstStep == ASSUME NEW line \in Lines PROVE Inv /\ SaveFirst(line) => Inv'
<1> SUFFICES ASSUME Inv, SaveFirst(line) PROVE Inv'
  OBVIOUS
<1> DEFINE e == Len(heap) + 1
           en == NewEntry(line, 0)
<1>1. /\ Read(line) /\ Kept(line) /\ anker = 0 /\ heap' = Append(heap, en)
      /\ anker' = e /\ curptr' = e /\ pc' = pc
  BY DEF SaveFirst, NULL
<1>2. pc = "reading" /\ heap \in Seq(Entry) /\ Len(heap) \in Nat
  BY <1>1, LenProperties DEF Read, Inv, Types
<1>3. Mine = {}
  BY <1>1, <1>2 DEF Inv, Whole, Heads0, Stands
<1>4. /\ en \in Entry /\ en.line = Len(text) + 1 /\ en.level = line.level /\ en.parse = parses
      /\ en.prev = 0 /\ en.next = 0 /\ en.nextlvl = 0
  BY NewEntryTypes
<1> HIDE DEF en
<1>5. /\ heap' \in Seq(Entry) /\ Len(heap') = e /\ heap'[e] = en
      /\ \A f \in Entries : heap'[f] = heap[f]
  BY <1>1, <1>2, <1>4, AppendProperties DEF Entries
<1>6. IsPut(heap, heap', Mine, text, line, text', Len(text) + 1, e, 0)
  BY <1>2, <1>3, <1>4, <1>5 DEF IsPut
<1> HIDE DEF e
<1> QED BY <1>1, <1>4, <1>5, <1>6, PutStep DEF e

(* The last entry, when there is one. *)
LEMMA LastEntry ==
  ASSUME Inv, pc = "reading", anker # 0
  PROVE  /\ curptr \in Mine /\ curptr # 0 /\ curptr \in Entries /\ heap[curptr] \in Entry
         /\ heap[curptr].line \in KeptLines(text) /\ heap[curptr].level = text[heap[curptr].line].level
         /\ \A k \in KeptLines(text) : ~(heap[curptr].line < k)
<1>1. /\ Stands(heap, Mine, text) /\ Heads0(Mine, text, anker) /\ IsLastOf(Mine, curptr)
      /\ text \in Seq(Lines) /\ heap \in Seq(Entry)
  BY DEF Inv, Types, Whole
<1>2. curptr \in Mine /\ \A e \in Mine : e <= curptr
  BY <1>1 DEF Heads0, IsLastOf
<1>3. \A k \in KeptLines(text) : ~(heap[curptr].line < k)
  BY <1>1, <1>2, LastLine
<1>4. curptr \in Entries /\ heap[curptr] \in Entry
  BY <1>1, <1>2, ElementOfSeq DEF Mine, Entries
<1> QED BY <1>1, <1>2, <1>3, <1>4 DEF Stands

(* The new entry is put behind the last one. *)
LEMMA BehindLastStep ==
  ASSUME Inv, NEW line \in Lines, Read(line), Kept(line), anker # 0, NEW n, n = Len(text) + 1,
         NEW e, e = Len(heap) + 1, NEW p, p = curptr, NEW last \in Entry,
         last.line = heap[p].line, last.level = heap[p].level,
         last.parse = heap[p].parse, last.prev = heap[p].prev,
         \/ IsNextLine(text', heap[p].line, n) /\ last.next = e /\ last.nextlvl = heap[p].nextlvl
         \/ IsLineBelow(text', heap[p].line, n) /\ last.nextlvl = e /\ last.next = heap[p].next,
         heap' = Append([heap EXCEPT ![p] = last], NewEntry(line, p)),
         anker' = anker, curptr' = e, pc' = pc
  PROVE  Inv'
<1> DEFINE en == NewEntry(line, p)
           g == [heap EXCEPT ![p] = last]
<1>1. pc = "reading" /\ heap \in Seq(Entry) /\ Len(heap) \in Nat
  BY LenProperties DEF Read, Inv, Types
<1>2. p \in Mine /\ p # 0 /\ p \in Entries /\ p \in Nat
  BY <1>1, LastEntry DEF Entries
<1>3. /\ en \in Entry /\ en.line = n /\ en.level = line.level /\ en.parse = parses
      /\ en.prev = p /\ en.next = 0 /\ en.nextlvl = 0
  BY <1>2, NewEntryTypes
<1>4. /\ g \in Seq(Entry) /\ Len(g) = Len(heap)
      /\ \A f \in Entries : g[f] = IF f = p THEN last ELSE heap[f]
  BY <1>1, <1>2, ExceptSeq DEF Entries
<1> HIDE DEF en, g
<1>5. /\ heap' \in Seq(Entry) /\ Len(heap') = e /\ heap'[e] = en
      /\ \A f \in Entries : heap'[f] = IF f = p THEN last ELSE heap[f]
  BY <1>1, <1>3, <1>4, AppendProperties DEF Entries, en, g
<1>6. IsPut(heap, heap', Mine, text, line, text', n, e, p)
  <2>1. \A f \in Mine : f \in Entries /\ f < e
    BY <1>1 DEF Mine, Entries
  <2>2. \A f \in Mine : /\ heap'[f].line = heap[f].line /\ heap'[f].level = heap[f].level
                        /\ heap'[f].prev = heap[f].prev
                        /\ f # p => heap'[f] = heap[f]
    BY <2>1, <1>5
  <2>3. e \in Nat \ {0} /\ heap'[p] = last
    BY <1>1, <1>2, <1>5
  <2> QED BY <2>1, <2>2, <2>3, <1>2, <1>3, <1>5 DEF IsPut
<1>7. \A f \in Entries : heap'[f].parse = heap[f].parse /\ (f # p => heap'[f] = heap[f])
  BY <1>5
<1>8. /\ IsPut(heap, heap', Mine, text, line, text', Len(text) + 1, Len(heap) + 1, p)
      /\ heap' \in Seq(Entry) /\ Len(heap') = Len(heap) + 1
      /\ heap'[Len(heap) + 1].parse = parses /\ curptr' = Len(heap) + 1
      /\ anker' = IF p = 0 THEN Len(heap) + 1 ELSE anker
  BY <1>2, <1>3, <1>5, <1>6
<1> QED BY <1>7, <1>8, PutStep

(* Behind the last entry, on its level. *)
LEMMA SaveSameLevelStep == ASSUME NEW line \in Lines PROVE Inv /\ SaveSameLevel(line) => Inv'
<1> SUFFICES ASSUME Inv, SaveSameLevel(line) PROVE Inv'
  OBVIOUS
<1>1. PICK p : p = curptr
  OBVIOUS
<1>2. PICK e : e = Len(heap) + 1
  OBVIOUS
<1>3. PICK n : n = Len(text) + 1
  OBVIOUS
<1> DEFINE last == [heap[p] EXCEPT !.next = e]
<1>4. /\ Read(line) /\ Kept(line) /\ anker # 0 /\ line.level = heap[p].level
      /\ heap' = Append([heap EXCEPT ![p] = last], NewEntry(line, p))
      /\ anker' = anker /\ curptr' = e /\ pc' = pc
  BY <1>1, <1>2 DEF SaveSameLevel, NULL
<1>5. /\ heap[p] \in Entry /\ heap[p].level = text[heap[p].line].level
      /\ heap[p].line \in KeptLines(text) /\ \A k \in KeptLines(text) : ~(heap[p].line < k)
  BY <1>1, <1>4, LastEntry DEF Read
<1>6. e \in Nat
  BY <1>2, LenProperties DEF Inv, Types
<1>7. last \in Entry
  BY <1>5, <1>6, EntryTypes
<1>8. /\ last.line = heap[p].line /\ last.level = heap[p].level /\ last.parse = heap[p].parse
      /\ last.prev = heap[p].prev /\ last.next = e /\ last.nextlvl = heap[p].nextlvl
  BY <1>5 DEF Entry
<1> HIDE DEF last
<1>9. IsNextLine(text', heap[p].line, n)
  <2>1. IsOneMore(text, line, text', n)
    BY <1>3, <1>4, ReadLine
  <2>2. /\ \A k \in KeptLines(text) : k < n /\ text'[k] = text[k]
        /\ KeptLines(text') = KeptLines(text) \cup {n} /\ text'[n] = line /\ n \in Nat
    BY <2>1, <1>4 DEF IsOneMore
  <2>3. \A k \in KeptLines(text') : ~(heap[p].line < k /\ k < n)
    BY <2>2, <1>5
  <2> QED BY <2>2, <2>3, <1>4, <1>5 DEF IsNextLine
<1> QED BY <1>1, <1>2, <1>3, <1>4, <1>7, <1>8, <1>9, BehindLastStep

(* Behind the last entry, below it. *)
LEMMA SaveNextLevelStep == ASSUME NEW line \in Lines PROVE Inv /\ SaveNextLevel(line) => Inv'
<1> SUFFICES ASSUME Inv, SaveNextLevel(line) PROVE Inv'
  OBVIOUS
<1>1. PICK p : p = curptr
  OBVIOUS
<1>2. PICK e : e = Len(heap) + 1
  OBVIOUS
<1>3. PICK n : n = Len(text) + 1
  OBVIOUS
<1> DEFINE last == [heap[p] EXCEPT !.nextlvl = e]
<1>4. /\ Read(line) /\ Kept(line) /\ anker # 0 /\ line.level > heap[p].level
      /\ heap' = Append([heap EXCEPT ![p] = last], NewEntry(line, p))
      /\ anker' = anker /\ curptr' = e /\ pc' = pc
  BY <1>1, <1>2 DEF SaveNextLevel, NULL
<1>5. /\ heap[p] \in Entry /\ heap[p].level = text[heap[p].line].level
      /\ heap[p].line \in KeptLines(text) /\ \A k \in KeptLines(text) : ~(heap[p].line < k)
  BY <1>1, <1>4, LastEntry DEF Read
<1>6. e \in Nat
  BY <1>2, LenProperties DEF Inv, Types
<1>7. last \in Entry
  BY <1>5, <1>6, EntryTypes
<1>8. /\ last.line = heap[p].line /\ last.level = heap[p].level /\ last.parse = heap[p].parse
      /\ last.prev = heap[p].prev /\ last.nextlvl = e /\ last.next = heap[p].next
  BY <1>5 DEF Entry
<1> HIDE DEF last
<1>9. IsLineBelow(text', heap[p].line, n)
  <2>1. IsOneMore(text, line, text', n)
    BY <1>3, <1>4, ReadLine
  <2>2. /\ \A k \in KeptLines(text) : k < n /\ text'[k] = text[k]
        /\ KeptLines(text') = KeptLines(text) \cup {n} /\ text'[n] = line /\ n \in Nat
    BY <2>1, <1>4 DEF IsOneMore
  <2>3. \A k \in KeptLines(text') : ~(heap[p].line < k /\ k < n)
    BY <2>2, <1>5
  <2> QED BY <2>2, <2>3, <1>4, <1>5 DEF IsLineBelow
<1> QED BY <1>1, <1>2, <1>3, <1>4, <1>7, <1>8, <1>9, BehindLastStep

(* A list stays what it is where its entries do. *)
LEMMA SameList ==
  ASSUME NEW t, NEW h, NEW g, NEW P, Stands(h, P, t), Linked(h, P, t), \A f \in P : g[f] = h[f]
  PROVE  Stands(g, P, t) /\ Linked(g, P, t)
<1>1. Stands(g, P, t)
  BY DEF Stands
<1>2. ASSUME NEW f \in P PROVE LinkedIn(g, P, t, f)
  <2>1. LinkedIn(h, P, t, f)
    BY DEF Linked
  <2>2. \A d \in P \cup {0} : LineIn(g, d) = LineIn(h, d)
    BY DEF LineIn
  <2>3. \A d \in P : g[d] = h[d]
    OBVIOUS
  <2> QED BY <2>1, <2>2, <2>3 DEF LinkedIn
<1> QED BY <1>1, <1>2 DEF Linked

(* The walk back begins at the last entry. *)
LEMMA SaveAboveStep == ASSUME NEW line \in Lines PROVE Inv /\ SaveAbove(line) => Inv'
<1> SUFFICES ASSUME Inv, SaveAbove(line) PROVE Inv'
  OBVIOUS
<1>1. PICK e : e = Len(heap) + 1
  OBVIOUS
<1> DEFINE en == NewEntry(line, 0)
<1>2. /\ Read(line) /\ Kept(line) /\ anker # 0 /\ line.level < heap[curptr].level
      /\ heap' = Append(heap, en) /\ hptr' = curptr
      /\ anker' = anker /\ curptr' = curptr /\ pc' = "climbing"
  BY DEF SaveAbove, NULL
<1>3. /\ pc = "reading" /\ heap \in Seq(Entry) /\ Len(heap) \in Nat /\ text \in Seq(Lines)
      /\ parses \in Nat
  BY <1>2, LenProperties DEF Read, Inv, Types
<1>4. /\ curptr \in Mine /\ heap[curptr] \in Entry /\ line.level \in Nat
      /\ \A k \in KeptLines(text) : ~(heap[curptr].line < k)
  BY <1>2, <1>3, LastEntry, LinesAssumption
<1>5. /\ Stands(heap, Mine, text) /\ Linked(heap, Mine, text)
      /\ anker \in Mine /\ heap[anker].line = FirstLine(text)
  BY <1>2, <1>3 DEF Inv, Whole, Heads0
<1>6. /\ en \in Entry /\ en.line = Len(text) + 1 /\ en.level = line.level /\ en.parse = parses
      /\ en.prev = 0 /\ en.next = 0 /\ en.nextlvl = 0
  BY NewEntryTypes
<1> HIDE DEF en
<1>7. /\ heap' \in Seq(Entry) /\ Len(heap') = e /\ heap'[e] = en
      /\ \A f \in Entries : heap'[f] = heap[f]
  BY <1>1, <1>2, <1>3, <1>6, AppendProperties DEF Entries
<1>8. /\ text' = Append(text, line) /\ text' \in Seq(Lines) /\ IsStored(text') /\ Accepted(text')
      /\ parses' = parses
  BY <1>2, ReadLine
<1>9. \A i \in 1..Len(text') : ~Rejected(text'[i])
  BY <1>2, ReadLine DEF Kept
<1>10. Entries' = Entries \cup {e} /\ e \notin Entries
  BY <1>1, <1>3, <1>7 DEF Entries
<1>11. Mine' = Mine \cup {e} /\ New' = e /\ Others' = Mine /\ \A f \in Mine : heap'[f] = heap[f]
  BY <1>6, <1>7, <1>8, <1>10 DEF Mine, New, Others
<1>12. Stands(heap', Mine, text) /\ Linked(heap', Mine, text)
  BY <1>5, <1>11, SameList
<1>13. OnlyDeeper(text, heap[curptr].line, line.level)
  BY <1>4 DEF OnlyDeeper
<1>14. heap'[anker] = heap[anker] /\ heap'[curptr] = heap[curptr]
  BY <1>4, <1>5, <1>11
<1>15. heap[curptr].level > line.level
  <2>1. heap[curptr].level \in Nat
    BY <1>4 DEF Entry
  <2> QED BY <2>1, <1>2, <1>4
<1>16. PICK t \in Seq(Lines) : t = text
  BY <1>3
<1>17. IsWaiting(t, line)'
  <2>1. heap'[New'] = en /\ New' \in Mine'
    BY <1>7, <1>11
  <2>2. OnlyDeeper(t, heap'[hptr'].line, line.level)
    BY <1>2, <1>13, <1>14, <1>16
  <2>3. anker' \in Others' /\ curptr' \in Others' /\ hptr' \in Others'
    BY <1>2, <1>4, <1>5, <1>11
  <2>4. /\ text' = Append(t, line) /\ Kept(line)
        /\ Stands(heap', Others', t) /\ Linked(heap', Others', t)
        /\ heap'[anker'].line = FirstLine(t) /\ heap'[curptr'].level > line.level
    BY <1>2, <1>5, <1>8, <1>11, <1>12, <1>14, <1>15, <1>16
  <2>5. en.line = Len(t) + 1
    BY <1>6, <1>16
  <2>6. \A f \in Others' : f <= curptr'
    <3>1. \A f \in Mine : f <= curptr
      BY <1>3, <1>4 DEF Inv, Whole, IsLastOf
    <3> QED BY <3>1, <1>2, <1>11
  <2> QED BY <2>1, <2>2, <2>3, <2>4, <2>5, <2>6, <1>2, <1>6 DEF IsWaiting
<1>18. Apart'
  <2>1. ASSUME NEW f \in Entries
        PROVE /\ heap'[f].parse <= parses
              /\ \A l \in {heap'[f].prev, heap'[f].next, heap'[f].nextlvl} :
                   l # 0 => l \in Entries' /\ heap'[l].parse = heap'[f].parse
    <3>1. /\ heap[f].parse <= parses
          /\ \A l \in {heap[f].prev, heap[f].next, heap[f].nextlvl} :
               l # 0 => l \in Entries /\ heap[l].parse = heap[f].parse
      BY DEF Inv, Apart
    <3> QED BY <3>1, <1>7, <1>10
  <2>2. /\ heap'[e].parse <= parses
        /\ \A l \in {heap'[e].prev, heap'[e].next, heap'[e].nextlvl} : l = 0
    BY <1>3, <1>6, <1>7
  <2> QED BY <2>1, <2>2, <1>8, <1>10 DEF Apart
<1>19. Types' /\ Texts'
  BY <1>2, <1>7, <1>8, <1>9 DEF Inv, Types, Texts
<1>20. Waits'
  <2>1. \E u \in Seq(Lines), l \in Lines : IsWaiting(u, l)'
    BY <1>17
  <2> QED BY <2>1 DEF Waits
<1>21. Whole'
  BY <1>2 DEF Whole
<1> QED BY <1>18, <1>19, <1>20, <1>21 DEF Inv

(* The entry that prev leads to stands on the line in front. *)
LEMMA PrevLine ==
  ASSUME NEW t \in Seq(Lines), NEW h, NEW P, Stands(h, P, t), Linked(h, P, t), NEW e \in P,
         NEW p, p = h[e].prev
  PROVE  /\ p = 0 => h[e].line = FirstLine(t)
         /\ p # 0 => p \in P /\ e \in {h[p].next, h[p].nextlvl}
         /\ p # 0 /\ e = h[p].next => IsNextLine(t, h[p].line, h[e].line)
         /\ p # 0 /\ e = h[p].nextlvl => IsLineBelow(t, h[p].line, h[e].line)
<1>1. LinkedIn(h, P, t, e)
  BY DEF Linked
<1>2. /\ p = 0 => h[e].line = FirstLine(t)
      /\ p # 0 => p \in P /\ e \in {h[p].next, h[p].nextlvl}
  BY <1>1 DEF LinkedIn
<1>3. e # 0 /\ LineIn(h, e) = h[e].line /\ h[e].line \in Nat \ {0}
  BY KeptTypes DEF Stands, LineIn
<1>4. ASSUME p # 0, e = h[p].next PROVE IsNextLine(t, h[p].line, h[e].line)
  <2>1. LinkedIn(h, P, t, p)
    BY <1>2, <1>4 DEF Linked
  <2>2. NextLine(t, h[p].line) = h[e].line
    BY <2>1, <1>3, <1>4 DEF LinkedIn
  <2> QED BY <2>2, <1>3, NextMeans
<1>5. ASSUME p # 0, e = h[p].nextlvl PROVE IsLineBelow(t, h[p].line, h[e].line)
  <2>1. LinkedIn(h, P, t, p) /\ h[p].line \in Nat
    BY <1>2, <1>5, KeptTypes DEF Linked, Stands
  <2>2. LineBelow(t, h[p].line) = h[e].line
    BY <2>1, <1>3, <1>5 DEF LinkedIn
  <2> QED BY <2>1, <2>2, <1>3, BelowMeans
<1> QED BY <1>2, <1>4, <1>5

(***************************************************************************)
(* One round back, from line i to line j in front of it or to the end.     *)
(***************************************************************************)
LEMMA RoundBack ==
  ASSUME NEW t \in Seq(Lines), NEW n \in Nat, NEW i \in KeptLines(t), t[i].level # n,
         OnlyDeeper(t, i, n) \/ (t[i].level < n /\ Passed(t, n))
  PROVE  /\ \A j \in KeptLines(t) : IsNextLine(t, j, i) \/ IsLineBelow(t, j, i) =>
              OnlyDeeper(t, j, n) \/ (t[j].level < n /\ Passed(t, n))
         /\ i = FirstLine(t) => OnlyDeeper(t, 0, n) \/ Passed(t, n)
<1>1. i \in Nat /\ t[i].level \in Nat
  BY KeptTypes
<1>2. CASE t[i].level < n
  <2>1. Passed(t, n)
    BY <1>2 DEF Passed
  <2>2. ASSUME NEW j \in KeptLines(t), IsNextLine(t, j, i) \/ IsLineBelow(t, j, i) PROVE t[j].level < n
    <3>1. t[j].level <= t[i].level /\ t[j].level \in Nat
      BY <2>2, <1>1, KeptTypes DEF IsNextLine, IsLineBelow
    <3> QED BY <3>1, <1>1, <1>2
  <2> QED BY <2>1, <2>2
<1>3. CASE t[i].level > n
  <2>1. \A k \in KeptLines(t) : k > i => t[k].level > n
    BY <1>1, <1>3 DEF OnlyDeeper
  <2>2. ASSUME NEW j \in KeptLines(t), IsNextLine(t, j, i) \/ IsLineBelow(t, j, i),
               NEW k \in KeptLines(t), k > j
        PROVE  t[k].level > n
    <3>1. k \in Nat /\ t[k].level \in Nat /\ j \in Nat /\ t[j].level \in Nat
      BY KeptTypes
    <3>2. CASE k > i
      BY <3>2, <2>1
    <3>3. CASE k = i
      BY <3>3, <1>3
    <3>4. CASE k < i
      <4>1. IsNextLine(t, j, i)
        BY <3>1, <3>4, <2>2, <1>1 DEF IsLineBelow
      <4>2. t[k].level > t[j].level /\ t[j].level = t[i].level
        BY <4>1, <3>1, <3>4, <2>2, <1>1 DEF IsNextLine
      <4> QED BY <4>2, <3>1, <1>1, <1>3
    <3> QED BY <3>1, <3>2, <3>3, <3>4, <1>1
  <2>3. ASSUME i = FirstLine(t), NEW k \in KeptLines(t) PROVE t[k].level > n
    <3>1. i <= k /\ k \in Nat
      BY <2>3, FirstMeans, KeptTypes
    <3>2. CASE k = i
      BY <3>2, <1>3
    <3>3. CASE k > i
      BY <3>3, <2>1
    <3> QED BY <3>1, <3>2, <3>3, <1>1
  <2> QED BY <2>2, <2>3 DEF OnlyDeeper
<1> QED BY <1>1, <1>2, <1>3

(* One round of the walk back goes on with what it has seen. *)
LEMMA ClimbStep == Inv /\ Climb => Inv'
<1> SUFFICES ASSUME Inv, Climb PROVE Inv'
  OBVIOUS
<1>1. /\ pc = "climbing" /\ heap[hptr].level # heap[New].level /\ hptr' = heap[hptr].prev
      /\ pc' = (IF hptr' = 0 THEN "crashed" ELSE "climbing")
      /\ parses' = parses /\ text' = text /\ heap' = heap /\ anker' = anker /\ curptr' = curptr
  BY DEF Climb, Arrived, links, NULL
<1>2. PICK t \in Seq(Lines), line \in Lines : IsWaiting(t, line)
  BY <1>1 DEF Inv, Waits
<1>3. /\ Stands(heap, Others, t) /\ Linked(heap, Others, t) /\ hptr \in Others
      /\ heap[New].level = line.level
      /\ \/ OnlyDeeper(t, heap[hptr].line, line.level)
         \/ heap[hptr].level < line.level /\ Passed(t, line.level)
  BY <1>1, <1>2 DEF IsWaiting
<1> DEFINE i == heap[hptr].line
           p == heap[hptr].prev
           n == line.level
<1>4. n \in Nat
  BY LinesAssumption
<1>5. i \in KeptLines(t) /\ heap[hptr].level = t[i].level
  BY <1>3 DEF Stands
<1>6. t[i].level # n /\ (OnlyDeeper(t, i, n) \/ (t[i].level < n /\ Passed(t, n)))
  BY <1>1, <1>3, <1>5
<1>7. /\ p = 0 => i = FirstLine(t)
      /\ p # 0 => p \in Others
      /\ p # 0 => IsNextLine(t, heap[p].line, i) \/ IsLineBelow(t, heap[p].line, i)
  BY <1>3, PrevLine
<1>8. p # 0 => heap[p].line \in KeptLines(t) /\ heap[p].level = t[heap[p].line].level
  BY <1>3, <1>7 DEF Stands
<1> HIDE DEF i, p, n
<1>9. p = 0 => OnlyDeeper(t, 0, n) \/ Passed(t, n)
  BY <1>4, <1>5, <1>6, <1>7, RoundBack
<1>10. p # 0 => OnlyDeeper(t, heap[p].line, n) \/ (heap[p].level < n /\ Passed(t, n))
  BY <1>4, <1>5, <1>6, <1>7, <1>8, RoundBack
<1>11. Mine' = Mine /\ Others' = Others /\ New' = New
  BY <1>1 DEF Mine, Others, New, Entries
<1>12. IsWaiting(t, line)'
  <2>1. hptr' = p
    BY <1>1 DEF p
  <2>2. pc' = "climbing" => /\ hptr' \in Others'
                            /\ \/ OnlyDeeper(t, heap'[hptr'].line, line.level)
                               \/ heap'[hptr'].level < line.level /\ Passed(t, line.level)
    BY <2>1, <1>1, <1>7, <1>10, <1>11 DEF n
  <2>3. pc' = "crashed" => OnlyDeeper(t, 0, line.level) \/ Passed(t, line.level)
    BY <2>1, <1>1, <1>9 DEF n
  <2> QED BY <2>2, <2>3, <1>1, <1>2, <1>11 DEF IsWaiting
<1>13. Waits'
  <2>1. \E u \in Seq(Lines), l \in Lines : IsWaiting(u, l)'
    BY <1>12
  <2> QED BY <2>1 DEF Waits
<1>14. Types' /\ Texts' /\ Apart' /\ Whole'
  BY <1>1 DEF Inv, Types, Texts, Apart, Entries, Whole
<1> QED BY <1>13, <1>14 DEF Inv

(* The walk back ends where New is put. *)
LEMMA EndClimbStep == Inv /\ EndClimb => Inv'
<1> SUFFICES ASSUME Inv, EndClimb PROVE Inv'
  OBVIOUS
<1>1. PICK p : p = hptr
  OBVIOUS
<1>2. PICK e : e = New
  OBVIOUS
<1>3. /\ pc = "climbing" /\ heap[p].level = heap[e].level
      /\ heap' = [heap EXCEPT ![p].next = e, ![e].prev = p]
      /\ pc' = "reading" /\ curptr' = e
      /\ parses' = parses /\ text' = text /\ anker' = anker
  BY <1>1, <1>2 DEF EndClimb, Arrived
<1>4. PICK t \in Seq(Lines), line \in Lines : IsWaiting(t, line)
  BY <1>3 DEF Inv, Waits
<1>5. /\ text = Append(t, line) /\ Kept(line) /\ e \in Mine
      /\ heap[e].line = Len(t) + 1 /\ heap[e].level = line.level
      /\ heap[e].prev = 0 /\ heap[e].next = 0 /\ heap[e].nextlvl = 0
      /\ Stands(heap, Others, t) /\ Linked(heap, Others, t)
      /\ anker \in Others /\ heap[anker].line = FirstLine(t)
      /\ p \in Others
      /\ \/ OnlyDeeper(t, heap[p].line, line.level)
         \/ heap[p].level < line.level /\ Passed(t, line.level)
  BY <1>1, <1>2, <1>3, <1>4 DEF IsWaiting
<1>6. /\ heap \in Seq(Entry) /\ Len(heap) \in Nat /\ text \in Seq(Lines) /\ line.level \in Nat
      /\ e = Len(heap)
  BY <1>2, LenProperties, LinesAssumption DEF Inv, Types, New
<1>7. /\ e \in Entries /\ p \in Entries /\ p # e /\ p \in Mine /\ e \in Nat \ {0} /\ p \in Nat \ {0}
      /\ heap[e].parse = parses /\ heap[p].parse = parses
  BY <1>2, <1>5 DEF Others, Mine, Entries
<1>8. \A f \in Others : f < e /\ f \in Entries
  BY <1>2, <1>6 DEF Others, Mine, Entries
<1>9. IsOneMore(t, line, text, Len(t) + 1)
  BY <1>5, OneMore
<1>10. \A f \in Entries : heap[f] \in Entry
  BY <1>6, ElementOfSeq DEF Entries
(* The fields after the step. *)
<1> DEFINE at == [heap[p] EXCEPT !.next = e]
           new == [heap[e] EXCEPT !.prev = p]
<1>11. /\ heap' \in Seq(Entry) /\ Len(heap') = Len(heap)
       /\ \A f \in Entries : heap'[f] = IF f = e THEN new ELSE IF f = p THEN at ELSE heap[f]
  <2>1. at \in Entry /\ new \in Entry
    BY <1>7, <1>10, EntryTypes
  <2>2. heap' = [[heap EXCEPT ![p] = at] EXCEPT ![e] = new]
    BY <1>3, <1>6, <1>7 DEF Entries
  <2> HIDE DEF at, new
  <2> DEFINE g == [heap EXCEPT ![p] = at]
  <2>3. /\ g \in Seq(Entry) /\ Len(g) = Len(heap)
        /\ \A f \in Entries : g[f] = IF f = p THEN at ELSE heap[f]
    BY <2>1, <1>6, <1>7, ExceptSeq DEF Entries
  <2> HIDE DEF g
  <2>4. heap' = [g EXCEPT ![e] = new]
    BY <2>2 DEF g
  <2>5. /\ heap' \in Seq(Entry) /\ Len(heap') = Len(g)
        /\ \A f \in 1..Len(g) : heap'[f] = IF f = e THEN new ELSE g[f]
    BY <2>1, <2>3, <2>4, <1>7, ExceptSeq DEF Entries
  <2> QED BY <2>3, <2>5 DEF Entries
<1>12. /\ at.next = e /\ at.nextlvl = heap[p].nextlvl /\ at.prev = heap[p].prev
       /\ at.line = heap[p].line /\ at.level = heap[p].level /\ at.parse = heap[p].parse
       /\ new.next = heap[e].next /\ new.nextlvl = heap[e].nextlvl /\ new.prev = p
       /\ new.line = heap[e].line /\ new.level = heap[e].level /\ new.parse = heap[e].parse
  BY <1>7, <1>10 DEF Entry
<1> HIDE DEF at, new
<1>13. /\ heap'[e] = new /\ heap'[p] = at
       /\ \A f \in Entries : f # e /\ f # p => heap'[f] = heap[f]
       /\ \A f \in Entries : heap'[f].parse = heap[f].parse
  BY <1>7, <1>11, <1>12
(* The place is right. *)
<1>14. IsNextLine(text, heap[p].line, Len(t) + 1)
  <2> DEFINE n == Len(t) + 1
             i == heap[p].line
  <2>1. i \in KeptLines(t) /\ heap[p].level = t[i].level
    BY <1>5 DEF Stands
  <2>2. OnlyDeeper(t, i, line.level)
    BY <1>3, <1>5, <1>6
  <2>3. /\ KeptLines(text) = KeptLines(t) \cup {n} /\ text[n] = line /\ n \in Nat
        /\ \A k \in KeptLines(t) : k < n /\ text[k] = t[k]
    BY <1>5, <1>9 DEF IsOneMore
  <2>4. text[i].level = text[n].level
    BY <2>1, <2>3, <1>3, <1>5
  <2>5. ASSUME NEW k \in KeptLines(text), i < k, k < n PROVE text[k].level > text[i].level
    <3>1. k \in KeptLines(t) /\ k > i
      BY <2>3, <2>5
    <3> QED BY <3>1, <2>2, <2>3, <2>4 DEF OnlyDeeper
  <2> QED BY <2>1, <2>3, <2>4, <2>5 DEF IsNextLine
<1>15. IsPut(heap, heap', Others, t, line, text, Len(t) + 1, e, p)
  <2>1. \A f \in Others : /\ heap'[f].line = heap[f].line /\ heap'[f].level = heap[f].level
                          /\ heap'[f].prev = heap[f].prev
                          /\ f # p => heap'[f] = heap[f]
    <3>1. \A f \in Others : f # e /\ f \in Entries
      BY <1>2 DEF Others, Mine
    <3> QED BY <3>1, <1>12, <1>13
  <2> QED BY <2>1, <1>5, <1>7, <1>8, <1>12, <1>13, <1>14 DEF IsPut
<1>16. Stands(heap', Others \cup {e}, text) /\ Linked(heap', Others \cup {e}, text)
  BY <1>5, <1>9, <1>15, PutStands, PutLinked
<1>17. Mine' = Mine /\ Mine = Others \cup {e} /\ Entries' = Entries
  <2>1. Entries' = Entries
    BY <1>11 DEF Entries
  <2>2. Mine' = Mine
    BY <2>1, <1>3, <1>13 DEF Mine
  <2> QED BY <2>1, <2>2, <1>2, <1>5 DEF Others
<1>18. Heads0(Mine, text, anker)' /\ IsLastOf(Mine, curptr)'
  <2>1. FirstLine(text) = FirstLine(t)
    <3>1. heap[p].line \in KeptLines(t)
      BY <1>5 DEF Stands
    <3> QED BY <3>1, <1>9, LastAppend
  <2>2. heap'[anker].line = heap[anker].line
    BY <1>5, <1>15 DEF IsPut
  <2>3. \A f \in Mine : f <= e
    BY <1>8, <1>7, <1>17 DEF Entries
  <2> QED BY <2>1, <2>2, <2>3, <1>3, <1>5, <1>17 DEF Heads0, IsLastOf
<1>19. Apart'
  <2>1. \A f \in Entries : heap'[f].parse = heap[f].parse
    BY <1>13
  <2>2. ASSUME NEW f \in Entries
        PROVE /\ heap'[f].parse <= parses
              /\ \A l \in {heap'[f].prev, heap'[f].next, heap'[f].nextlvl} :
                   l # 0 => l \in Entries /\ heap'[l].parse = heap'[f].parse
    <3>1. /\ heap[f].parse <= parses
          /\ \A l \in {heap[f].prev, heap[f].next, heap[f].nextlvl} :
               l # 0 => l \in Entries /\ heap'[l].parse = heap'[f].parse
      BY <2>1 DEF Inv, Apart
    <3>2. CASE f # e /\ f # p
      BY <3>1, <3>2, <1>13
    <3>3. CASE f = e
      BY <3>1, <3>3, <1>7, <1>12, <1>13
    <3>4. CASE f = p
      BY <3>1, <3>4, <1>7, <1>12, <1>13
    <3> QED BY <3>2, <3>3, <3>4
  <2> QED BY <2>2, <1>3, <1>17, ZenonT(20) DEF Apart
<1>20. Types' /\ Texts'
  BY <1>3, <1>11 DEF Inv, Types, Texts
<1>21. Whole' /\ Waits'
  BY <1>3, <1>16, <1>17, <1>18 DEF Whole, Waits
<1> QED BY <1>19, <1>20, <1>21 DEF Inv

-----------------------------------------------------------------------------
(* Before the first parse there is nothing. *)
LEMMA InitInv == Init => Inv
<1> SUFFICES ASSUME Init PROVE Inv
  OBVIOUS
<1>1. /\ pc = "idle" /\ parses = 0 /\ text = <<>> /\ heap = <<>> /\ anker = 0 /\ curptr = 0
  BY DEF Init, NULL
<1>2. /\ <<>> \in Seq(Lines) /\ <<>> \in Seq(Entry) /\ 1..Len(<<>>) = {}
  BY EmptySeq
<1>3. Entries = {} /\ Mine = {} /\ KeptLines(<<>>) = {}
  BY <1>1, <1>2 DEF Mine, Entries, KeptLines
<1>4. Types /\ Texts
  BY <1>1, <1>2 DEF Types, Texts, IsStored, Accepted
<1>5. Apart /\ Waits
  BY <1>1, <1>3 DEF Apart, Waits
<1>6. Whole
  BY <1>1, <1>3 DEF Whole, Stands, Linked
<1> QED BY <1>4, <1>5, <1>6 DEF Inv

(* The invariant is inductive. *)
LEMMA InvStep == Inv /\ [Next]_vars => Inv'
<1> SUFFICES ASSUME Inv, [Next]_vars PROVE Inv'
  OBVIOUS
<1>1. CASE StartParser
  BY <1>1, StartStep
<1>2. ASSUME NEW line \in Lines, ParseLine(line) PROVE Inv'
  <2>1. CASE IgnoreLine(line)
    BY <2>1, IgnoreStep
  <2>2. CASE RejectLine(line)
    BY <2>2, RejectStep
  <2>3. CASE SaveFirst(line)
    BY <2>3, SaveFirstStep
  <2>4. CASE SaveSameLevel(line)
    BY <2>4, SaveSameLevelStep
  <2>5. CASE SaveNextLevel(line)
    BY <2>5, SaveNextLevelStep
  <2>6. CASE SaveAbove(line)
    BY <2>6, SaveAboveStep
  <2> QED BY <1>2, <2>1, <2>2, <2>3, <2>4, <2>5, <2>6 DEF ParseLine
<1>3. CASE Climb
  BY <1>3, ClimbStep
<1>4. CASE EndClimb
  BY <1>4, EndClimbStep
<1>5. CASE EndOfFile
  BY <1>5, EndOfFileStep
<1>6. CASE FreeList \/ ForgetList \/ FreeBelow \/ FreeEntry \/ EndFork \/ EndFree \/ UNCHANGED vars
  BY <1>6, FreeSteps
<1> QED BY <1>1, <1>2, <1>3, <1>4, <1>5, <1>6 DEF Next

(* So it holds in every reachable state. *)
LEMMA LdaInvariance == Spec => []Inv
BY InitInv, InvStep, PTL DEF Spec

-----------------------------------------------------------------------------
(* Where the list is whole, every entry of it has its place. *)
LEMMA PlacedIsMine ==
  /\ pc # "climbing" => Placed = Mine
  /\ pc = "climbing" => Placed = Others
BY DEF Placed, Mine, Others

(* The invariant holds the links to the levels. *)
LEMMA InvLinkedByLevel ==
  ASSUME Inv
  PROVE  LinkedByLevel
<1>1. ASSUME pc \notin {"crashed", "climbing"}, NEW e \in Placed
      PROVE  /\ LineOf(heap[e].next) = NextLine(text, heap[e].line)
             /\ LineOf(heap[e].nextlvl) = LineBelow(text, heap[e].line)
             /\ LineOf(heap[e].prev) = 0 <=> heap[e].line = FirstLine(text)
             /\ heap[e].prev # NULL => e \in {heap[heap[e].prev].next, heap[heap[e].prev].nextlvl}
  <2>1. e \in Mine /\ Stands(heap, Mine, text) /\ text \in Seq(Lines)
    BY <1>1, PlacedIsMine DEF Inv, Types, Whole
  <2>2. LinkedIn(heap, Mine, text, e)
    BY <1>1, <2>1 DEF Inv, Whole, Linked
  <2>3. \A f : LineOf(f) = LineIn(heap, f)
    BY DEF LineOf, LineIn, NULL
  <2>4. LineOf(heap[e].prev) = 0 <=> heap[e].prev = 0
    <3>1. \A f \in Mine : heap[f].line # 0
      BY <2>1, KeptTypes DEF Stands
    <3> QED BY <2>2, <3>1 DEF LinkedIn, LineOf, NULL
  <2> QED BY <2>2, <2>3, <2>4 DEF LinkedIn, NULL
<1>2. \A e \in Entries : \A l \in {heap[e].prev, heap[e].next, heap[e].nextlvl} :
        l # NULL => heap[l].parse = heap[e].parse
  BY DEF Inv, Apart, NULL
<1>3. ASSUME pc = "returned", result # NULL PROVE heap[result].parse = parses
  BY <1>3 DEF Inv, Whole, Heads0, Mine, NULL
<1> QED BY <1>1, <1>2, <1>3 DEF LinkedByLevel

(* The links of one more line are those of the lines so far. *)
LEMMA LinksAppend ==
  ASSUME NEW t \in Seq(Lines), NEW line \in Lines, NEW u, NEW n, IsOneMore(t, line, u, n),
         NEW i \in KeptLines(t), NEW j \in KeptLines(t)
  PROVE  /\ IsNextLine(t, i, j) => IsNextLine(u, i, j)
         /\ IsLineBelow(t, i, j) => IsLineBelow(u, i, j)
<1>1. /\ u[i] = t[i] /\ u[j] = t[j] /\ j < n /\ n \in Nat
      /\ \A k \in KeptLines(t) : u[k] = t[k]
      /\ \A k \in KeptLines(u) : k \in KeptLines(t) \/ k = n
  BY DEF IsOneMore
<1>2. j \in Nat
  BY KeptTypes
<1>3. \A k \in KeptLines(u) : k < j => k \in KeptLines(t)
  BY <1>1, <1>2
<1> QED BY <1>1, <1>3 DEF IsNextLine, IsLineBelow

(* How an entry that has its place is linked to the one in front of it. *)
LEMMA PlacedPrev ==
  ASSUME Inv, pc # "crashed", NEW e \in Placed, NEW p, p = heap[e].prev
  PROVE  /\ heap[e].line \in KeptLines(text)
         /\ p = 0 => heap[e].line = FirstLine(text)
         /\ p # 0 => heap[p].line \in KeptLines(text) /\ e \in {heap[p].next, heap[p].nextlvl}
         /\ p # 0 /\ e = heap[p].next => IsNextLine(text, heap[p].line, heap[e].line)
         /\ p # 0 /\ e = heap[p].nextlvl => IsLineBelow(text, heap[p].line, heap[e].line)
<1>1. CASE pc # "climbing"
  <2>1. /\ e \in Mine /\ Stands(heap, Mine, text) /\ Linked(heap, Mine, text)
        /\ text \in Seq(Lines)
    BY <1>1, PlacedIsMine DEF Inv, Types, Whole
  <2>2. /\ p = 0 => heap[e].line = FirstLine(text)
        /\ p # 0 => p \in Mine /\ e \in {heap[p].next, heap[p].nextlvl}
        /\ p # 0 /\ e = heap[p].next => IsNextLine(text, heap[p].line, heap[e].line)
        /\ p # 0 /\ e = heap[p].nextlvl => IsLineBelow(text, heap[p].line, heap[e].line)
    BY <2>1, PrevLine
  <2> QED BY <2>1, <2>2 DEF Stands
<1>2. CASE pc = "climbing"
  <2>1. PICK t \in Seq(Lines), line \in Lines : IsWaiting(t, line)
    BY <1>2 DEF Inv, Waits
  <2>2. /\ text = Append(t, line) /\ e \in Others
        /\ Stands(heap, Others, t) /\ Linked(heap, Others, t)
    BY <1>2, <2>1, PlacedIsMine DEF IsWaiting
  <2>3. /\ p = 0 => heap[e].line = FirstLine(t)
        /\ p # 0 => p \in Others /\ e \in {heap[p].next, heap[p].nextlvl}
        /\ p # 0 /\ e = heap[p].next => IsNextLine(t, heap[p].line, heap[e].line)
        /\ p # 0 /\ e = heap[p].nextlvl => IsLineBelow(t, heap[p].line, heap[e].line)
    BY <2>2, PrevLine
  <2>4. /\ heap[e].line \in KeptLines(t)
        /\ p # 0 => heap[p].line \in KeptLines(t)
    BY <2>2, <2>3 DEF Stands
  <2>5. IsOneMore(t, line, text, Len(t) + 1)
    BY <2>2, OneMore
  <2>6. \A i \in KeptLines(t) : i \in KeptLines(text)
    BY <2>5 DEF IsOneMore
  <2>7. FirstLine(text) = FirstLine(t)
    BY <2>4, <2>5, LastAppend
  <2>8. p # 0 /\ e = heap[p].next => IsNextLine(text, heap[p].line, heap[e].line)
    BY <2>3, <2>4, <2>5, LinksAppend
  <2>9. p # 0 /\ e = heap[p].nextlvl => IsLineBelow(text, heap[p].line, heap[e].line)
    BY <2>3, <2>4, <2>5, LinksAppend
  <2> QED BY <2>3, <2>4, <2>6, <2>7, <2>8, <2>9
<1> QED BY <1>1, <1>2

(* The invariant puts every entry under its head. *)
LEMMA InvUnderItsHead ==
  ASSUME Inv
  PROVE  UnderItsHead
<1> SUFFICES ASSUME pc # "crashed", ~LosesHead(text), NEW e \in Placed
             PROVE LET p == heap[e].prev
                   IN IF p = NULL THEN HeadLine(e) = 0
                      ELSE IF heap[p].nextlvl = e THEN HeadLine(e) = heap[p].line
                      ELSE HeadLine(e) = HeadLine(p)
  BY DEF UnderItsHead
<1> DEFINE p == heap[e].prev
<1>1. text \in Seq(Lines) /\ IsStored(text) /\ Accepted(text)
  BY DEF Inv, Types, Texts
<1>2. /\ heap[e].line \in KeptLines(text)
      /\ p = 0 => heap[e].line = FirstLine(text)
      /\ p # 0 => heap[p].line \in KeptLines(text) /\ e \in {heap[p].next, heap[p].nextlvl}
      /\ p # 0 /\ e = heap[p].next => IsNextLine(text, heap[p].line, heap[e].line)
      /\ p # 0 /\ e = heap[p].nextlvl => IsLineBelow(text, heap[p].line, heap[e].line)
  BY PlacedPrev
<1> HIDE DEF p
<1>3. ASSUME p = 0 PROVE HeadLine(e) = 0
  <2>1. \A j \in KeptLines(text) : heap[e].line <= j
    BY <1>1, <1>2, <1>3, FirstMeans
  <2>2. text[heap[e].line].level = 1 /\ heap[e].line \in 1..Len(text)
    BY <1>1, <1>2, <2>1, FirstIsTop, KeptTypes
  <2> QED BY <1>1, <2>2, NoHead DEF HeadLine
<1>4. ASSUME p # 0, heap[p].nextlvl = e PROVE HeadLine(e) = heap[p].line
  BY <1>1, <1>2, <1>4, HeadOfBelow DEF HeadLine
<1>5. ASSUME p # 0, heap[p].nextlvl # e PROVE HeadLine(e) = HeadLine(p)
  BY <1>1, <1>2, <1>5, HeadOfNext DEF HeadLine
<1> QED BY <1>3, <1>4, <1>5 DEF p, NULL

(***************************************************************************)
(* A line that the walk finds no place for has none.                       *)
(***************************************************************************)
LEMMA CrashIsOrphan ==
  ASSUME Inv, pc = "crashed"
  PROVE  HasOrphan(text)
<1>1. PICK t \in Seq(Lines), line \in Lines : IsWaiting(t, line)
  BY DEF Inv, Waits
<1> DEFINE n == Len(t) + 1
           lev == line.level
<1>2. /\ text = Append(t, line) /\ Kept(line) /\ Stands(heap, Others, t)
      /\ curptr \in Others /\ heap[curptr].level > lev
      /\ OnlyDeeper(t, 0, lev) \/ Passed(t, lev)
      /\ lev \in Nat
  BY <1>1, LinesAssumption DEF IsWaiting
<1>3. IsOneMore(t, line, text, n)
  BY <1>2, OneMore
<1>4. /\ text \in Seq(Lines) /\ n \in Nat \ {0} /\ text[n] = line
      /\ KeptLines(text) = KeptLines(t) \cup {n}
      /\ \A k \in KeptLines(t) : k < n /\ text[k] = t[k] /\ k \in Nat /\ t[k].level \in Nat
  <2>1. /\ text \in Seq(Lines) /\ n \in Nat \ {0} /\ text[n] = line
        /\ KeptLines(text) = KeptLines(t) \cup {n}
        /\ \A k \in KeptLines(t) : k < n /\ text[k] = t[k]
    BY <1>2, <1>3 DEF IsOneMore
  <2>2. \A k \in KeptLines(t) : k \in Nat /\ t[k].level \in Nat
    BY KeptTypes
  <2> QED BY <2>1, <2>2
<1> HIDE DEF n, lev
<1>5. n # FirstLine(text)
  <2>1. heap[curptr].line \in KeptLines(t)
    BY <1>2 DEF Stands
  <2>2. FirstLine(text) <= heap[curptr].line /\ FirstLine(text) \in KeptLines(text)
    BY <1>4, <2>1, FirstMeans
  <2> QED BY <1>4, <2>1, <2>2
<1>6. ASSUME NEW i \in KeptLines(text) PROVE NextLine(text, i) # n
  <2> SUFFICES ASSUME NextLine(text, i) = n PROVE FALSE
    OBVIOUS
  <2>1. IsNextLine(text, i, n)
    BY <1>4, NextMeans
  <2>2. i < n /\ text[i].level = lev
    BY <2>1, <1>4 DEF IsNextLine, lev
  <2>3. i \in KeptLines(t) /\ t[i].level = lev
    BY <2>2, <1>4
  <2>4. CASE OnlyDeeper(t, 0, lev)
    <3>1. i > 0 /\ i \in Nat \ {0}
      BY <2>3, KeptTypes
    <3>2. t[i].level > lev
      BY <2>3, <2>4, <3>1 DEF OnlyDeeper
    <3> QED BY <2>3, <3>2, <1>2
  <2>5. CASE Passed(t, lev)
    <3>1. PICK k \in KeptLines(t) : t[k].level < lev /\ OnlyDeeper(t, k, lev)
      BY <2>5 DEF Passed
    <3>2. CASE i < k
      <4>1. text[k].level > text[i].level
        BY <2>1, <3>1, <3>2, <1>4 DEF IsNextLine
      <4>2. text[k] = t[k] /\ t[k].level \in Nat /\ text[i].level = lev
        BY <2>2, <3>1, <1>4
      <4>3. t[k].level > lev /\ t[k].level < lev
        BY <4>1, <4>2, <3>1
      <4> QED BY <4>2, <4>3, <1>2
    <3>3. CASE i = k
      BY <2>3, <3>1, <3>3, <1>2
    <3>4. CASE i > k
      <4>1. t[i].level > lev
        BY <2>3, <3>1, <3>4 DEF OnlyDeeper
      <4> QED BY <4>1, <2>3, <1>2
    <3>5. i \in Nat /\ k \in Nat
      BY <2>3, <1>4
    <3> QED BY <3>2, <3>3, <3>4, <3>5
  <2> QED BY <2>4, <2>5, <1>2
<1>7. ASSUME NEW i \in KeptLines(text) PROVE LineBelow(text, i) # n
  <2> SUFFICES ASSUME LineBelow(text, i) = n PROVE FALSE
    OBVIOUS
  <2>1. i \in Nat
    BY <1>4
  <2>2. IsLineBelow(text, i, n)
    BY <2>1, <1>4, BelowMeans
  <2>3. /\ i < n /\ lev > text[i].level
        /\ \A k \in KeptLines(text) : ~(i < k /\ k < n)
    BY <2>2, <1>4 DEF IsLineBelow, lev
  <2> DEFINE c == heap[curptr].line
  <2>4. c \in KeptLines(t) /\ t[c].level > lev
    BY <1>2 DEF Stands, lev
  <2> HIDE DEF c
  <2>5. ~(i < c) /\ i \in KeptLines(t) /\ t[i].level < lev
    BY <2>3, <2>4, <1>2, <1>4
  <2>6. i # c
    BY <2>4, <2>5, <1>2, <1>4
  <2>7. c < i
    BY <2>1, <2>4, <2>5, <2>6, <1>4
  <2>8. PICK f \in Others : heap[f].line = i
    BY <1>2, <2>5 DEF Stands
  <2>9. ~(f <= curptr)
    <3>1. curptr < f
      BY <1>2, <2>7, <2>8 DEF Stands, c
    <3>2. curptr \in Nat /\ f \in Nat
      BY <1>2 DEF Stands
    <3> QED BY <3>1, <3>2
  <2> QED BY <2>8, <2>9, <1>1 DEF IsWaiting
<1>8. n \in KeptLines(text)
  BY <1>4
<1> QED BY <1>5, <1>6, <1>7, <1>8 DEF HasOrphan

(* The invariant keeps orphans and crashes together. *)
LEMMA InvCrashesOnlyWithoutHead ==
  ASSUME Inv
  PROVE  CrashesOnlyWithoutHead
<1>1. text \in Seq(Lines) /\ IsStored(text) /\ Accepted(text)
  BY DEF Inv, Types, Texts
<1>2. ASSUME pc = "crashed" PROVE HasOrphan(text) /\ LosesHead(text)
  BY <1>1, <1>2, CrashIsOrphan, OrphanLosesHead
<1>3. ASSUME HasOrphan(text), pc \notin {"climbing", "crashed"} PROVE FALSE
  <2>1. PICK j \in KeptLines(text) \ {FirstLine(text)} :
          \A i \in KeptLines(text) : NextLine(text, i) # j /\ LineBelow(text, i) # j
    BY <1>3 DEF HasOrphan
  <2>2. Stands(heap, Mine, text) /\ Linked(heap, Mine, text)
    BY <1>3 DEF Inv, Whole
  <2>3. PICK e \in Mine : heap[e].line = j
    BY <2>1, <2>2 DEF Stands
  <2>4. PICK p : p = heap[e].prev
    OBVIOUS
  <2>5. /\ p # 0 /\ p \in Mine
        /\ IsNextLine(text, heap[p].line, j) \/ IsLineBelow(text, heap[p].line, j)
    BY <1>1, <2>1, <2>2, <2>3, <2>4, PrevLine
  <2>6. heap[p].line \in KeptLines(text)
    BY <2>2, <2>5 DEF Stands
  <2>7. NextLine(text, heap[p].line) = j \/ LineBelow(text, heap[p].line) = j
    BY <1>1, <2>1, <2>5, NextIs, BelowIs
  <2> QED BY <2>1, <2>6, <2>7
<1> QED BY <1>2, <1>3 DEF CrashesOnlyWithoutHead

-----------------------------------------------------------------------------
(***************************************************************************)
(* For files of any length and any number of parses: whenever the parser   *)
(* is between two lines, the links of every entry are those that the       *)
(* levels of all lines read describe, whichever way the walk back took,    *)
(* and no entry leads to one of another parse, though an error leaves the  *)
(* list of its call unfinished (rh4nldaSaveEntry, rh4nldaStartParser).     *)
(***************************************************************************)
THEOREM LinkedByLevelCorrect == Spec => []LinkedByLevel
<1>1. Inv => LinkedByLevel
  BY InvLinkedByLevel
<1> QED BY <1>1, LdaInvariance, PTL

(***************************************************************************)
(* For files of any length: unless the line of a head was ignored, every   *)
(* entry hangs below the group or redefinition under which Natural, which  *)
(* checks the text before it stores it, has it (rh4nldaSaveEntry).         *)
(***************************************************************************)
THEOREM UnderItsHeadCorrect == Spec => []UnderItsHead
<1>1. Inv => UnderItsHead
  BY InvUnderItsHead
<1> QED BY <1>1, LdaInvariance, PTL

(***************************************************************************)
(* For files of any length: the walk back runs off the list, which crashes *)
(* the process, only where the levels leave no place for the line, and     *)
(* that only after the line of a head was ignored; a line without a place  *)
(* is never linked anywhere (the loop of rh4nldaSaveEntry).                *)
(***************************************************************************)
THEOREM CrashesOnlyWithoutHeadCorrect == Spec => []CrashesOnlyWithoutHead
<1>1. Inv => CrashesOnlyWithoutHead
  BY InvCrashesOnlyWithoutHead
<1> QED BY <1>1, LdaInvariance, PTL

-----------------------------------------------------------------------------
(***************************************************************************)
(* The free of the list, told by lines.                                    *)
(***************************************************************************)
(* The loop that began below line u, or at the first line if u is 0, gets  *)
(* to line i.                                                              *)
Reaches(t, u, i) ==
  /\ u < i
  /\ u # 0 => u \in KeptLines(t) /\ t[i].level > t[u].level
  /\ \A x \in KeptLines(t) : u < x /\ x <= i => t[x].level >= t[i].level

(* What is in front of line i or in its group. *)
UpTo(t, i, x) == x <= i \/ IsBelow(t, i, x)

(* Every line but the first has its place. *)
AllPlaced(t) ==
  \A y \in KeptLines(t) : y # FirstLine(t) =>
    \E p \in KeptLines(t) : IsNextLine(t, p, y) \/ IsLineBelow(t, p, y)

(* The loop below line i begins at the line behind it. *)
LEMMA ReachesBelow ==
  ASSUME NEW t \in Seq(Lines), NEW i \in KeptLines(t), NEW b \in KeptLines(t), IsLineBelow(t, i, b)
  PROVE  /\ Reaches(t, i, b)
         /\ \A x \in KeptLines(t) : x < b <=> x <= i
<1>1. i < b /\ t[b].level > t[i].level /\ \A k \in KeptLines(t) : ~(i < k /\ k < b)
  BY DEF IsLineBelow
<1>2. i \in Nat \ {0} /\ b \in Nat /\ t[b].level \in Nat /\ \A x \in KeptLines(t) : x \in Nat
  BY KeptTypes
<1>3. ASSUME NEW x \in KeptLines(t) PROVE x < b <=> x <= i
  <2>1. ~(i < x /\ x < b) /\ x \in Nat
    BY <1>1, <1>2
  <2> QED BY <2>1, <1>1, <1>2
<1>4. ASSUME NEW x \in KeptLines(t), i < x, x <= b PROVE t[x].level >= t[b].level
  <2>1. ~(x < b) /\ x \in Nat
    BY <1>1, <1>2, <1>4
  <2>2. x = b
    BY <2>1, <1>2, <1>4
  <2> QED BY <2>2, <1>2
<1> QED BY <1>1, <1>2, <1>3, <1>4 DEF Reaches

(* The loop goes on to the next line, behind the group of line i. *)
LEMMA ReachesNext ==
  ASSUME NEW t \in Seq(Lines), NEW i \in KeptLines(t), NEW c \in KeptLines(t), IsNextLine(t, i, c),
         NEW u \in Nat, Reaches(t, u, i)
  PROVE  /\ Reaches(t, u, c)
         /\ \A x \in KeptLines(t) : x < c <=> UpTo(t, i, x)
<1>1. /\ i < c /\ t[i].level = t[c].level
      /\ \A k \in KeptLines(t) : i < k /\ k < c => t[k].level > t[i].level
  BY DEF IsNextLine
<1>2. /\ i \in Nat /\ c \in Nat /\ t[i].level \in Nat
      /\ \A x \in KeptLines(t) : x \in Nat /\ t[x].level \in Nat
  BY KeptTypes
<1>3. ASSUME NEW x \in KeptLines(t) PROVE x < c <=> UpTo(t, i, x)
  <2>1. ASSUME x < c, ~(x <= i) PROVE IsBelow(t, i, x)
    <3>1. i < x
      <4>1. x \in Nat
        BY <1>2
      <4> QED BY <4>1, <2>1, <1>2
    <3>2. \A j \in KeptLines(t) : i < j /\ j <= x => t[j].level > t[i].level
      <4> SUFFICES ASSUME NEW j \in KeptLines(t), i < j, j <= x PROVE j < c
        BY <1>1
      <4> QED BY <2>1, <1>2
    <3> QED BY <3>1, <3>2 DEF IsBelow
  <2>2. ASSUME IsBelow(t, i, x), ~(x < c) PROVE FALSE
    <3>1. c <= x
      <4>1. x \in Nat
        BY <1>2
      <4> QED BY <4>1, <2>2, <1>2
    <3>2. t[c].level > t[i].level
      BY <3>1, <2>2, <1>1 DEF IsBelow
    <3> QED BY <3>2, <1>1, <1>2
  <2>3. x <= i => x < c
    BY <1>1, <1>2
  <2> QED BY <2>1, <2>2, <2>3 DEF UpTo
<1>4. u < c
  BY <1>1, <1>2 DEF Reaches
<1>5. ASSUME NEW x \in KeptLines(t), u < x, x <= c PROVE t[x].level >= t[c].level
  <2>1. CASE x <= i
    BY <2>1, <1>5, <1>1 DEF Reaches
  <2>2. CASE i < x /\ x < c
    <3>1. t[x].level > t[i].level
      BY <2>2, <1>1
    <3> QED BY <3>1, <1>1, <1>2
  <2>3. CASE x = c
    BY <2>3, <1>2
  <2> QED BY <2>1, <2>2, <2>3, <1>2, <1>5
<1>6. u # 0 => u \in KeptLines(t) /\ t[c].level > t[u].level
  BY <1>1 DEF Reaches
<1> QED BY <1>3, <1>4, <1>5, <1>6 DEF Reaches

(* Where no line is below line i, its group is empty. *)
LEMMA NoneBelow ==
  ASSUME NEW t \in Seq(Lines), NEW i \in KeptLines(t), LineBelow(t, i) = 0,
         NEW x \in KeptLines(t)
  PROVE  ~IsBelow(t, i, x)
<1> SUFFICES ASSUME IsBelow(t, i, x) PROVE FALSE
  OBVIOUS
<1> DEFINE After == {k \in KeptLines(t) : i < k}
<1>1. i < x
  BY DEF IsBelow
<1>2. After \subseteq Nat /\ After # {}
  BY <1>1, KeptTypes
<1>3. PICK m \in After : \A k \in After : m <= k
  <2> HIDE DEF After
  <2> QED BY <1>2, LeastNat
<1>4. \E j \in KeptLines(t) : i < j /\ \A k \in KeptLines(t) : i < k => j <= k
  BY <1>3
<1>5. LineBelow(t, i) \in KeptLines(t)
  BY <1>1, <1>4 DEF LineBelow
<1> QED BY <1>5, KeptTypes

(***************************************************************************)
(* Where the loop ends, line i and its group are the last of the level:    *)
(* the line behind them would have no place.                               *)
(***************************************************************************)
LEMMA ReachesEnd ==
  ASSUME NEW t \in Seq(Lines), AllPlaced(t), NEW i \in KeptLines(t), NextLine(t, i) = 0,
         NEW u \in Nat, Reaches(t, u, i), NEW x \in KeptLines(t)
  PROVE  UpTo(t, i, x) <=> (u = 0 \/ UpTo(t, u, x))
<1>1. /\ i \in Nat \ {0} /\ t[i].level \in Nat
      /\ \A y \in KeptLines(t) : y \in Nat \ {0} /\ t[y].level \in Nat
  BY KeptTypes
<1>2. /\ u < i
      /\ u # 0 => u \in KeptLines(t) /\ t[i].level > t[u].level /\ t[u].level \in Nat
      /\ \A y \in KeptLines(t) : u < y /\ y <= i => t[y].level >= t[i].level
  BY <1>1 DEF Reaches
<1>3. ASSUME UpTo(t, i, x), u # 0, ~(x <= u) PROVE IsBelow(t, u, x)
  <2>1. u < x
    BY <1>1, <1>2, <1>3
  <2>2. ASSUME NEW j \in KeptLines(t), u < j, j <= x PROVE t[j].level >= t[i].level
    <3>1. CASE j <= i
      BY <3>1, <2>2, <1>2
    <3>2. CASE i < j
      <4>1. ~(x <= i)
        <5>1. x \in Nat /\ j \in Nat
          BY <1>1
        <5> QED BY <5>1, <3>2, <2>2, <1>1
      <4>2. t[j].level > t[i].level
        BY <3>2, <4>1, <2>2, <1>3 DEF UpTo, IsBelow
      <4> QED BY <4>2, <1>1
    <3>3. j \in Nat
      BY <1>1
    <3> QED BY <3>1, <3>2, <3>3, <1>1
  <2>3. \A j \in KeptLines(t) : u < j /\ j <= x => t[j].level > t[u].level
    <3> SUFFICES ASSUME NEW j \in KeptLines(t), u < j, j <= x PROVE t[j].level > t[u].level
      OBVIOUS
    <3>1. t[j].level >= t[i].level
      BY <2>2
    <3>2. t[i].level > t[u].level /\ t[u].level \in Nat /\ t[j].level \in Nat
      BY <1>1, <1>2, <1>3
    <3> QED BY <3>1, <3>2, <1>1
  <2> QED BY <2>1, <2>3 DEF IsBelow
<1>4. ASSUME ~UpTo(t, i, x), u = 0 \/ UpTo(t, u, x) PROVE FALSE
  <2>1. i < x /\ ~IsBelow(t, i, x)
    <3>1. x \in Nat /\ ~(x <= i) /\ ~IsBelow(t, i, x)
      BY <1>1, <1>4 DEF UpTo
    <3> QED BY <3>1, <1>1
  <2> DEFINE Out == {y \in KeptLines(t) : i < y /\ y <= x /\ ~(t[y].level > t[i].level)}
  <2>2. Out \subseteq Nat /\ Out # {}
    BY <2>1, <1>1 DEF IsBelow
  <2>3. PICK y \in Out : \A z \in Out : y <= z
    <3> HIDE DEF Out
    <3> QED BY <2>2, LeastNat
  <2>4. /\ y \in KeptLines(t) /\ i < y /\ y <= x /\ ~(t[y].level > t[i].level)
        /\ \A k \in KeptLines(t) : i < k /\ k < y => t[k].level > t[i].level
    <3>1. y \in KeptLines(t) /\ i < y /\ y <= x /\ ~(t[y].level > t[i].level)
      BY <2>3
    <3>2. ASSUME NEW k \in KeptLines(t), i < k, k < y, ~(t[k].level > t[i].level) PROVE FALSE
      <4>1. k <= x /\ ~(y <= k)
        BY <3>1, <3>2, <1>1
      <4> QED BY <4>1, <3>2, <2>3
    <3> QED BY <3>1, <3>2
  <2> HIDE DEF Out
  <2>5. t[y].level # t[i].level
    <3> SUFFICES ASSUME t[y].level = t[i].level PROVE FALSE
      OBVIOUS
    <3>1. IsNextLine(t, i, y)
      BY <2>4 DEF IsNextLine
    <3>2. NextLine(t, i) = y
      BY <3>1, <2>4, NextIs
    <3> QED BY <3>2, <2>4, <1>1
  <2>6. t[y].level < t[i].level
    BY <2>4, <2>5, <1>1
  <2>7. y # FirstLine(t)
    <3>1. FirstLine(t) <= i /\ FirstLine(t) \in KeptLines(t)
      BY FirstMeans
    <3> QED BY <3>1, <2>4, <1>1
  <2>8. PICK p \in KeptLines(t) : IsNextLine(t, p, y) \/ IsLineBelow(t, p, y)
    BY <2>4, <2>7 DEF AllPlaced
  <2>9. p \in Nat \ {0} /\ t[p].level \in Nat /\ y \in Nat /\ t[y].level \in Nat /\ x \in Nat
    BY <2>4, <2>8, <1>1
  <2>10. p < y /\ t[p].level <= t[y].level
    BY <2>8, <2>9 DEF IsNextLine, IsLineBelow
  <2>11. ~(i < p) /\ p # i
    <3>1. ASSUME i < p PROVE FALSE
      <4>1. t[p].level > t[i].level
        BY <3>1, <2>4, <2>10
      <4> QED BY <4>1, <2>6, <2>9, <2>10, <1>1
    <3>2. ASSUME p = i PROVE FALSE
      BY <3>2, <2>6, <2>9, <2>10
    <3> QED BY <3>1, <3>2
  <2>12. p < i
    BY <2>9, <2>11, <1>1
  <2>13. IsNextLine(t, p, y)
    BY <2>4, <2>8, <2>12 DEF IsLineBelow
  <2>14. t[p].level = t[y].level /\ \A k \in KeptLines(t) : p < k /\ k < y => t[k].level > t[p].level
    BY <2>13 DEF IsNextLine
  <2>15. ~(u < p)
    <3> SUFFICES ASSUME u < p PROVE FALSE
      OBVIOUS
    <3>1. t[p].level >= t[i].level
      BY <2>12, <2>9, <1>1, <1>2
    <3> QED BY <3>1, <2>6, <2>9, <2>14, <1>1
  <2>16. u # 0 /\ p <= u
    BY <2>9, <2>15
  <2>17. u \in KeptLines(t) /\ t[u].level \in Nat
    <3>1. u # 0
      BY <2>16
    <3> QED BY <3>1, <1>2
  <2>18. ~(x <= u) /\ u < y
    <3>1. u < i /\ i < y /\ i < x
      BY <2>1, <2>4, <1>2
    <3> QED BY <3>1, <2>9, <1>1
  <2>19. t[y].level > t[u].level
    BY <1>4, <2>16, <2>18, <2>4 DEF UpTo, IsBelow
  <2>20. CASE p = u
    BY <2>20, <2>14, <2>19, <2>9
  <2>21. CASE p < u
    <3>1. t[u].level > t[p].level
      BY <2>21, <2>14, <2>17, <2>18
    <3> QED BY <3>1, <2>14, <2>17, <2>19, <2>9
  <2> QED BY <2>20, <2>21, <2>16, <2>9
<1> QED BY <1>3, <1>4, <1>2 DEF UpTo

-----------------------------------------------------------------------------
(***************************************************************************)
(* The calls of rh4nldaFreeFork.                                           *)
(***************************************************************************)
CallsOf == [at : Nat, below : BOOLEAN]

CallLine(h, s, k) == LineIn(h, s[k].at)

(* The line below which call k began; 0 for the outermost call. *)
Above(h, s, k) == IF k < Len(s) THEN CallLine(h, s, k + 1) ELSE 0

(* The lines whose group is being freed. *)
Opened(h, s) == {CallLine(h, s, k) : k \in 2..Len(s)}

(* The entry of line x is freed when the calls are s. *)
Done(h, t, s, x) ==
  \/ Len(s) = 0
  \/ /\ x \notin Opened(h, s)
     /\ s[1].at # 0 /\ ~s[1].below => x < CallLine(h, s, 1)
     /\ s[1].at # 0 /\ s[1].below => x # CallLine(h, s, 1) /\ UpTo(t, CallLine(h, s, 1), x)
     /\ s[1].at = 0 => Above(h, s, 1) = 0 \/ UpTo(t, Above(h, s, 1), x)

IsCalls(h, P, t, s) ==
  /\ s \in Seq(CallsOf)
  /\ \A k \in 1..Len(s) : s[k].at \in P \cup {0}
  /\ \A k \in 2..Len(s) : s[k].at # 0 /\ s[k].below
  /\ \A k \in 1..Len(s) : s[k].at # 0 => Reaches(t, Above(h, s, k), CallLine(h, s, k))
  /\ \A j, k \in 1..Len(s) : j < k /\ s[j].at # 0 => CallLine(h, s, k) < CallLine(h, s, j)

(* A call is made: it comes first, and the call that made it waits. *)
Pushed(s, r, a, b) ==
  /\ r \in Seq(CallsOf) /\ Len(r) = Len(s) + 1 /\ r[1] = a /\ r[2] = b
  /\ \A k \in 2..Len(s) : r[k + 1] = s[k]

(* The first call goes on. *)
WentOn(s, r, a) ==
  /\ r \in Seq(CallsOf) /\ Len(r) = Len(s) /\ r[1] = a
  /\ \A k \in 2..Len(s) : r[k] = s[k]

(* The first call returns. *)
Popped(s, r) ==
  /\ r \in Seq(CallsOf) /\ Len(r) = Len(s) - 1
  /\ \A k \in 1..Len(s) - 1 : r[k] = s[k + 1]

(* What a sequence is put in front of all but the first. *)
LEMMA OnTail ==
  ASSUME NEW s \in Seq(CallsOf), s # <<>>, NEW f \in Seq(CallsOf)
  PROVE  /\ f \o Tail(s) \in Seq(CallsOf) /\ Len(f \o Tail(s)) = Len(f) + (Len(s) - 1)
         /\ \A i \in 1..Len(f) : (f \o Tail(s))[i] = f[i]
         /\ \A k \in 2..Len(s) : (f \o Tail(s))[Len(f) + (k - 1)] = s[k]
<1>1. PICK q \in Seq(CallsOf) : q = Tail(s)
  BY HeadTailProperties
<1>2. /\ Len(q) = Len(s) - 1 /\ Len(s) \in Nat \ {0}
      /\ \A i \in 1..Len(q) : q[i] = s[i + 1]
  BY <1>1, HeadTailProperties, EmptySeq
<1>3. /\ f \o q \in Seq(CallsOf) /\ Len(f \o q) = Len(f) + Len(q)
      /\ \A i \in 1..Len(f) : (f \o q)[i] = f[i]
      /\ \A i \in 1..Len(q) : (f \o q)[Len(f) + i] = q[i]
  BY ConcatParts
<1>4. ASSUME NEW k \in 2..Len(s) PROVE (f \o q)[Len(f) + (k - 1)] = s[k]
  <2>1. k - 1 \in 1..Len(q) /\ (k - 1) + 1 = k
    BY <1>2
  <2>2. (f \o q)[Len(f) + (k - 1)] = q[k - 1] /\ q[k - 1] = s[(k - 1) + 1]
    BY <1>2, <1>3, <2>1
  <2> QED BY <2>1, <2>2
<1> QED BY <1>1, <1>2, <1>3, <1>4

(* What FreeBelow makes of the calls. *)
LEMMA PushedIs ==
  ASSUME NEW s \in Seq(CallsOf), s # <<>>, NEW a \in CallsOf, NEW b \in CallsOf
  PROVE  Pushed(s, <<a, b>> \o Tail(s), a, b)
<1>1. PICK f \in Seq(CallsOf) : f = <<a, b>>
  <2>1. <<a, b>> \in Seq(CallsOf)
    OBVIOUS
  <2> QED BY <2>1
<1>2. Len(f) = 2 /\ f[1] = a /\ f[2] = b
  BY <1>1
<1>3. PICK r : r = f \o Tail(s)
  OBVIOUS
<1>4. /\ r \in Seq(CallsOf) /\ Len(r) = 2 + (Len(s) - 1)
      /\ \A i \in 1..2 : r[i] = f[i]
      /\ \A k \in 2..Len(s) : r[2 + (k - 1)] = s[k]
  <2>1. /\ r \in Seq(CallsOf) /\ Len(r) = Len(f) + (Len(s) - 1)
        /\ \A i \in 1..Len(f) : r[i] = f[i]
        /\ \A k \in 2..Len(s) : r[Len(f) + (k - 1)] = s[k]
    BY <1>3, OnTail
  <2> QED BY <2>1, <1>2
<1>5. Len(s) \in Nat /\ 1 \in 1..2 /\ 2 \in 1..2
  BY LenProperties
<1>6. \A k \in 2..Len(s) : r[k + 1] = s[k]
  <2> SUFFICES ASSUME NEW k \in 2..Len(s) PROVE r[k + 1] = s[k]
    OBVIOUS
  <2>1. 2 + (k - 1) = k + 1
    BY <1>5
  <2> QED BY <2>1, <1>4
<1>7. Len(r) = Len(s) + 1
  BY <1>4, <1>5
<1>8. Pushed(s, r, a, b)
  BY <1>2, <1>4, <1>5, <1>6, <1>7 DEF Pushed
<1> QED BY <1>1, <1>3, <1>8

(* What FreeEntry makes of the calls. *)
LEMMA WentOnIs ==
  ASSUME NEW s \in Seq(CallsOf), s # <<>>, NEW a \in CallsOf
  PROVE  WentOn(s, <<a>> \o Tail(s), a)
<1>1. PICK f \in Seq(CallsOf) : f = <<a>>
  <2>1. <<a>> \in Seq(CallsOf)
    OBVIOUS
  <2> QED BY <2>1
<1>2. Len(f) = 1 /\ f[1] = a
  BY <1>1
<1>3. PICK r : r = f \o Tail(s)
  OBVIOUS
<1>4. /\ r \in Seq(CallsOf) /\ Len(r) = 1 + (Len(s) - 1)
      /\ \A i \in 1..1 : r[i] = f[i]
      /\ \A k \in 2..Len(s) : r[1 + (k - 1)] = s[k]
  <2>1. /\ r \in Seq(CallsOf) /\ Len(r) = Len(f) + (Len(s) - 1)
        /\ \A i \in 1..Len(f) : r[i] = f[i]
        /\ \A k \in 2..Len(s) : r[Len(f) + (k - 1)] = s[k]
    BY <1>3, OnTail
  <2> QED BY <2>1, <1>2
<1>5. Len(s) \in Nat /\ 1 \in 1..1
  BY LenProperties
<1>6. \A k \in 2..Len(s) : r[k] = s[k]
  <2> SUFFICES ASSUME NEW k \in 2..Len(s) PROVE r[k] = s[k]
    OBVIOUS
  <2>1. 1 + (k - 1) = k
    BY <1>5
  <2> QED BY <2>1, <1>4
<1>7. Len(r) = Len(s)
  BY <1>4, <1>5
<1>8. WentOn(s, r, a)
  BY <1>2, <1>4, <1>5, <1>6, <1>7 DEF WentOn
<1> QED BY <1>1, <1>3, <1>8

(* What EndFork makes of the calls. *)
LEMMA PoppedIs ==
  ASSUME NEW s \in Seq(CallsOf), s # <<>>
  PROVE  Popped(s, Tail(s))
BY HeadTailProperties, EmptySeq DEF Popped

(* The line of an entry of the list. *)
LEMMA EntryLine ==
  ASSUME NEW t \in Seq(Lines), NEW h, NEW P, Stands(h, P, t), NEW e \in P
  PROVE  LineIn(h, e) = h[e].line /\ h[e].line \in KeptLines(t) /\ h[e].line \in Nat \ {0} /\ e # 0
BY KeptTypes DEF Stands, LineIn

(* The group of an entry is freed before the entry. *)
LEMMA CallsBelow ==
  ASSUME NEW t \in Seq(Lines), NEW h, NEW P, Stands(h, P, t), Linked(h, P, t),
         NEW s, IsCalls(h, P, t, s), Len(s) # 0, NEW a, a = s[1].at, a # 0, ~s[1].below,
         NEW b, b = h[a].nextlvl, b # 0,
         NEW r, Pushed(s, r, Fork(b), [s[1] EXCEPT !.below = TRUE])
  PROVE  /\ IsCalls(h, P, t, r)
         /\ \A x \in KeptLines(t) : Done(h, t, r, x) <=> Done(h, t, s, x)
<1> DEFINE i == h[a].line
           j == h[b].line
           u == Above(h, s, 1)
<1>1. Len(s) \in Nat \ {0} /\ s \in Seq(CallsOf) /\ s[1] \in CallsOf
  BY LenProperties, ElementOfSeq DEF IsCalls
<1>2. a \in P /\ LineIn(h, a) = i /\ i \in KeptLines(t) /\ i \in Nat \ {0}
  BY <1>1, EntryLine DEF IsCalls
<1>3. b \in P /\ LineIn(h, b) = j /\ j \in KeptLines(t) /\ j \in Nat \ {0} /\ j = LineBelow(t, i)
  BY <1>2, EntryLine DEF Linked, LinkedIn
<1>4. IsLineBelow(t, i, j)
  BY <1>2, <1>3, BelowMeans
<1> HIDE DEF i, j
<1>5. Reaches(t, i, j) /\ \A x \in KeptLines(t) : x < j <=> x <= i
  BY <1>2, <1>3, <1>4, ReachesBelow
<1>6. /\ r \in Seq(CallsOf) /\ Len(r) = Len(s) + 1
      /\ r[1].at = b /\ r[1].below = FALSE /\ r[2].at = a /\ r[2].below = TRUE
      /\ \A k \in 2..Len(s) : r[k + 1] = s[k]
  BY <1>1 DEF Pushed, Fork, CallsOf
<1>7. \A k \in 1..Len(r) : k = 1 \/ k = 2 \/ (k > 2 /\ k - 1 \in 2..Len(s) /\ r[k] = s[k - 1])
  <2> SUFFICES ASSUME NEW k \in 1..Len(r), k > 2 PROVE k - 1 \in 2..Len(s) /\ r[k] = s[k - 1]
    BY <1>1, <1>6
  <2>1. k - 1 \in 2..Len(s) /\ (k - 1) + 1 = k
    BY <1>1, <1>6
  <2>2. r[(k - 1) + 1] = s[k - 1]
    BY <1>6, <2>1
  <2> QED BY <2>1, <2>2
<1>8. /\ CallLine(h, r, 1) = j /\ CallLine(h, r, 2) = i /\ CallLine(h, s, 1) = i
      /\ \A k \in 1..Len(r) : k > 2 => CallLine(h, r, k) = CallLine(h, s, k - 1)
  BY <1>2, <1>3, <1>6, <1>7 DEF CallLine
<1>9. /\ Above(h, r, 1) = i /\ Above(h, r, 2) = Above(h, s, 1)
      /\ \A k \in 1..Len(r) : k > 2 => Above(h, r, k) = Above(h, s, k - 1)
  <2>1. Above(h, r, 1) = i
    BY <1>1, <1>6, <1>8 DEF Above
  <2>2. ASSUME NEW k \in 2..Len(r) PROVE Above(h, r, k) = Above(h, s, k - 1)
    <3>1. k < Len(r) <=> k - 1 < Len(s)
      BY <1>1, <1>6
    <3>2. ASSUME k < Len(r) PROVE CallLine(h, r, k + 1) = CallLine(h, s, (k - 1) + 1)
      <4>1. k + 1 \in 1..Len(r) /\ k + 1 > 2 /\ (k + 1) - 1 = (k - 1) + 1
        BY <3>2, <1>1, <1>6
      <4> QED BY <4>1, <1>8
    <3> QED BY <3>1, <3>2 DEF Above
  <2>3. 2 \in 2..Len(r) /\ 2 - 1 = 1 /\ \A k \in 1..Len(r) : k > 2 => k \in 2..Len(r)
    BY <1>1, <1>6
  <2> QED BY <2>1, <2>2, <2>3
<1>10. Opened(h, r) = Opened(h, s) \cup {i}
  <2>1. ASSUME NEW k \in 2..Len(r) PROVE CallLine(h, r, k) \in Opened(h, s) \cup {i}
    <3>1. k = 2 \/ (k > 2 /\ k \in 1..Len(r) /\ k - 1 \in 2..Len(s))
      BY <1>1, <1>6
    <3> QED BY <3>1, <1>8 DEF Opened
  <2>2. ASSUME NEW k \in 2..Len(s) PROVE CallLine(h, s, k) \in Opened(h, r)
    <3>1. k + 1 \in 2..Len(r) /\ k + 1 \in 1..Len(r) /\ k + 1 > 2 /\ (k + 1) - 1 = k
      BY <1>1, <1>6
    <3>2. CallLine(h, r, k + 1) = CallLine(h, s, k)
      BY <3>1, <1>8
    <3> QED BY <3>1, <3>2 DEF Opened
  <2>3. i \in Opened(h, r)
    <3>1. 2 \in 2..Len(r)
      BY <1>1, <1>6
    <3> QED BY <3>1, <1>8 DEF Opened
  <2>4. \A y \in Opened(h, r) : y \in Opened(h, s) \cup {i}
    BY <2>1 DEF Opened
  <2>5. \A y \in Opened(h, s) : y \in Opened(h, r)
    BY <2>2 DEF Opened
  <2> QED BY <2>3, <2>4, <2>5
<1>11. ASSUME NEW x \in KeptLines(t) PROVE Done(h, t, r, x) <=> Done(h, t, s, x)
  <2>1. Len(r) # 0 /\ x \in Nat
    BY <1>1, <1>6, KeptTypes
  <2>2. Done(h, t, r, x) <=> x \notin Opened(h, s) \cup {i} /\ x < j
    BY <2>1, <1>3, <1>6, <1>8, <1>10 DEF Done
  <2>3. Done(h, t, s, x) <=> x \notin Opened(h, s) /\ x < i
    BY <1>8 DEF Done
  <2>4. x < j <=> x <= i
    BY <1>5
  <2> QED BY <2>1, <2>2, <2>3, <2>4, <1>2
<1>12. ASSUME NEW k \in 1..Len(r) PROVE r[k].at \in P \cup {0}
  <2>1. CASE k > 2
    <3>1. k - 1 \in 1..Len(s) /\ r[k] = s[k - 1]
      BY <2>1, <1>1, <1>7
    <3> QED BY <3>1 DEF IsCalls
  <2> QED BY <2>1, <1>2, <1>3, <1>6, <1>7
<1>13. ASSUME NEW k \in 2..Len(r) PROVE r[k].at # 0 /\ r[k].below
  <2>1. k = 2 \/ (k \in 1..Len(r) /\ k # 1 /\ k # 2)
    BY <1>1, <1>6
  <2>2. CASE k # 2
    <3>1. k - 1 \in 2..Len(s) /\ r[k] = s[k - 1]
      BY <2>1, <2>2, <1>7
    <3> QED BY <3>1 DEF IsCalls
  <2> QED BY <2>1, <2>2, <1>6
<1>14. ASSUME NEW k \in 1..Len(r), r[k].at # 0 PROVE Reaches(t, Above(h, r, k), CallLine(h, r, k))
  <2>1. CASE k = 1
    BY <2>1, <1>5, <1>8, <1>9
  <2>2. CASE k = 2
    <3>1. Reaches(t, Above(h, s, 1), i)
      BY <1>1, <1>8 DEF IsCalls
    <3> QED BY <3>1, <2>2, <1>8, <1>9
  <2>3. CASE k > 2
    <3>1. k - 1 \in 1..Len(s) /\ s[k - 1].at # 0
      BY <2>3, <1>7, <1>14, <1>1
    <3>2. Reaches(t, Above(h, s, k - 1), CallLine(h, s, k - 1))
      BY <3>1 DEF IsCalls
    <3> QED BY <3>2, <2>3, <1>8, <1>9
  <2> QED BY <2>1, <2>2, <2>3, <1>7
<1>15. ASSUME NEW m \in 1..Len(r), NEW k \in 1..Len(r), m < k, r[m].at # 0
       PROVE  CallLine(h, r, k) < CallLine(h, r, m)
  <2>1. \A n \in 2..Len(s) : CallLine(h, s, n) < i
    <3> SUFFICES ASSUME NEW n \in 2..Len(s) PROVE CallLine(h, s, n) < CallLine(h, s, 1)
      BY <1>8
    <3>1. 1 \in 1..Len(s) /\ n \in 1..Len(s) /\ 1 < n
      BY <1>1
    <3> QED BY <3>1 DEF IsCalls
  <2>2. i < j
    BY <1>4 DEF IsLineBelow
  <2>3. CASE m = 1 /\ k = 2
    BY <2>2, <2>3, <1>8
  <2>4. CASE m = 1 /\ k > 2
    <3>1. k - 1 \in 2..Len(s)
      BY <2>4, <1>7
    <3>2. CallLine(h, s, k - 1) < i /\ CallLine(h, s, k - 1) \in Nat
      <4>1. s[k - 1].at \in P
        BY <3>1 DEF IsCalls
      <4> QED BY <3>1, <4>1, <2>1, EntryLine DEF CallLine
    <3> QED BY <3>2, <2>2, <2>4, <1>2, <1>3, <1>8
  <2>5. CASE m = 2 /\ k > 2
    <3>1. k - 1 \in 2..Len(s)
      BY <2>5, <1>7
    <3> QED BY <3>1, <2>1, <2>5, <1>8
  <2>6. CASE m > 2
    <3>1. k > 2
      BY <2>6, <1>15
    <3>2. m - 1 \in 1..Len(s) /\ k - 1 \in 1..Len(s) /\ m - 1 < k - 1 /\ s[m - 1].at # 0
      BY <2>6, <3>1, <1>1, <1>7, <1>15
    <3>3. CallLine(h, s, k - 1) < CallLine(h, s, m - 1)
      BY <3>2 DEF IsCalls
    <3> QED BY <3>1, <3>3, <2>6, <1>8
  <2> QED BY <2>3, <2>4, <2>5, <2>6, <1>7, <1>15
<1>16. IsCalls(h, P, t, r)
  BY <1>6, <1>12, <1>13, <1>14, <1>15 DEF IsCalls
<1> QED BY <1>11, <1>16

(* An entry is freed when the group below it is, and its loop goes on. *)
LEMMA CallsNext ==
  ASSUME NEW t \in Seq(Lines), NEW h, NEW P, Stands(h, P, t), Linked(h, P, t), AllPlaced(t),
         NEW s, IsCalls(h, P, t, s), Len(s) # 0, NEW a, a = s[1].at, a # 0,
         h[a].nextlvl # 0 => s[1].below,
         NEW r, WentOn(s, r, Fork(h[a].next))
  PROVE  /\ IsCalls(h, P, t, r)
         /\ h[a].line \in KeptLines(t) /\ ~Done(h, t, s, h[a].line)
         /\ \A x \in KeptLines(t) : Done(h, t, r, x) <=> Done(h, t, s, x) \/ x = h[a].line
<1> DEFINE i == h[a].line
           c == h[a].next
           u == Above(h, s, 1)
<1>1. Len(s) \in Nat \ {0} /\ s \in Seq(CallsOf) /\ s[1] \in CallsOf
  BY LenProperties, ElementOfSeq DEF IsCalls
<1>2. a \in P /\ LineIn(h, a) = i /\ i \in KeptLines(t) /\ i \in Nat \ {0} /\ CallLine(h, s, 1) = i
  BY <1>1, EntryLine DEF IsCalls, CallLine
<1>3. /\ c \in P \cup {0} /\ LineIn(h, c) = NextLine(t, i)
      /\ h[a].nextlvl \in P \cup {0} /\ LineIn(h, h[a].nextlvl) = LineBelow(t, i)
  BY <1>2 DEF Linked, LinkedIn
<1>4. Reaches(t, u, i) /\ u \in Nat /\ u < i
  <2>1. Reaches(t, u, i)
    BY <1>1, <1>2 DEF IsCalls
  <2>2. u \in Nat
    <3>1. CASE 1 < Len(s)
      <4>1. 1 + 1 \in 2..Len(s)
        BY <3>1, <1>1
      <4>2. s[1 + 1].at \in P
        BY <4>1 DEF IsCalls
      <4> QED BY <3>1, <4>2, EntryLine DEF Above, CallLine
    <3> QED BY <3>1 DEF Above
  <2> QED BY <2>1, <2>2 DEF Reaches
<1>5. s[1].below \/ \A x \in KeptLines(t) : ~IsBelow(t, i, x)
  <2>1. CASE h[a].nextlvl = 0
    <3>1. LineBelow(t, i) = 0
      BY <2>1, <1>3 DEF LineIn
    <3> QED BY <3>1, <1>2, NoneBelow
  <2> QED BY <2>1
<1>6. /\ r \in Seq(CallsOf) /\ Len(r) = Len(s) /\ r[1].at = c /\ ~r[1].below
      /\ \A k \in 2..Len(s) : r[k] = s[k]
  BY <1>1 DEF WentOn, Fork
<1>7. \A k \in 1..Len(s) : k = 1 \/ k \in 2..Len(s)
  BY <1>1
<1>8. \A k \in 2..Len(s) : CallLine(h, r, k) = CallLine(h, s, k)
  BY <1>6 DEF CallLine
<1>9. \A k \in 1..Len(s) : Above(h, r, k) = Above(h, s, k)
  <2> SUFFICES ASSUME NEW k \in 1..Len(s), k < Len(s)
               PROVE CallLine(h, r, k + 1) = CallLine(h, s, k + 1)
    BY <1>6 DEF Above
  <2>1. k + 1 \in 2..Len(s)
    BY <1>1
  <2> QED BY <2>1, <1>8
<1>10. Opened(h, r) = Opened(h, s)
  BY <1>6, <1>8 DEF Opened
<1>11. ASSUME NEW k \in 2..Len(s) PROVE CallLine(h, s, k) < i /\ CallLine(h, s, k) \in Nat
  <2>1. 1 \in 1..Len(s) /\ k \in 1..Len(s) /\ 1 < k /\ s[1].at # 0 /\ s[k].at \in P
    BY <1>1 DEF IsCalls
  <2> QED BY <2>1, <1>2, EntryLine DEF IsCalls, CallLine
<1>12. i \notin Opened(h, s)
  <2> SUFFICES ASSUME NEW k \in 2..Len(s), i = CallLine(h, s, k) PROVE FALSE
    BY DEF Opened
  <2> QED BY <1>2, <1>11
<1> HIDE DEF i, c, u
<1>13. ASSUME NEW x \in KeptLines(t)
       PROVE  Done(h, t, s, x) \/ x = i <=> x \notin Opened(h, s) /\ UpTo(t, i, x)
  <2>1. x \in Nat
    BY KeptTypes
  <2>2. CASE s[1].below
    <3>1. Done(h, t, s, x) <=> x \notin Opened(h, s) /\ x # i /\ UpTo(t, i, x)
      BY <2>2, <1>2 DEF Done
    <3>2. UpTo(t, i, i)
      BY <1>2 DEF UpTo
    <3> QED BY <3>1, <3>2, <1>12
  <2>3. CASE ~s[1].below
    <3>1. Done(h, t, s, x) <=> x \notin Opened(h, s) /\ x < i
      BY <2>3, <1>2 DEF Done
    <3>2. UpTo(t, i, x) <=> x <= i
      BY <2>3, <1>5 DEF UpTo
    <3> QED BY <3>1, <3>2, <2>1, <1>2, <1>12
  <2> QED BY <2>2, <2>3
<1>14. ~Done(h, t, s, i)
  <2>1. ~(i < i)
    BY <1>2
  <2> QED BY <2>1, <1>2 DEF Done
<1>15. CASE c # 0
  <2> DEFINE j == h[c].line
  <2>1. c \in P /\ LineIn(h, c) = j /\ j \in KeptLines(t) /\ j \in Nat \ {0} /\ j = NextLine(t, i)
    BY <1>3, <1>15, EntryLine
  <2> HIDE DEF j
  <2>2. IsNextLine(t, i, j)
    BY <2>1, NextMeans
  <2>3. Reaches(t, u, j) /\ (\A x \in KeptLines(t) : x < j <=> UpTo(t, i, x)) /\ i < j
    BY <2>1, <2>2, <1>2, <1>4, ReachesNext DEF IsNextLine
  <2>4. CallLine(h, r, 1) = j
    BY <2>1, <1>6 DEF CallLine
  <2>5. \A x \in KeptLines(t) : Done(h, t, r, x) <=> x \notin Opened(h, s) /\ x < j
    BY <2>4, <1>1, <1>6, <1>10, <1>15 DEF Done
  <2>6. \A k \in 1..Len(r) : r[k].at \in P \cup {0}
    BY <2>1, <1>6, <1>7 DEF IsCalls
  <2>7. \A k \in 2..Len(r) : r[k].at # 0 /\ r[k].below
    BY <1>6 DEF IsCalls
  <2>8. ASSUME NEW k \in 1..Len(r), r[k].at # 0 PROVE Reaches(t, Above(h, r, k), CallLine(h, r, k))
    <3>1. CASE k = 1
      BY <3>1, <2>3, <2>4, <1>1, <1>9 DEF u
    <3>2. CASE k \in 2..Len(s)
      <4>1. k \in 1..Len(s) /\ s[k].at # 0
        BY <3>2, <1>1 DEF IsCalls
      <4>2. Reaches(t, Above(h, s, k), CallLine(h, s, k))
        BY <4>1 DEF IsCalls
      <4> QED BY <3>2, <4>1, <4>2, <1>8, <1>9
    <3> QED BY <3>1, <3>2, <1>6, <1>7
  <2>9. ASSUME NEW m \in 1..Len(r), NEW k \in 1..Len(r), m < k, r[m].at # 0
        PROVE  CallLine(h, r, k) < CallLine(h, r, m)
    <3>1. k \in 2..Len(s) /\ k \in 1..Len(s)
      BY <2>9, <1>1, <1>6
    <3>2. CASE m = 1
      <4>1. CallLine(h, s, k) < i /\ CallLine(h, s, k) \in Nat
        BY <3>1, <1>11
      <4>2. CallLine(h, r, k) = CallLine(h, s, k)
        BY <3>1, <1>8
      <4> QED BY <4>1, <4>2, <3>2, <2>1, <2>3, <2>4, <1>2
    <3>3. CASE m \in 2..Len(s)
      <4>1. m \in 1..Len(s) /\ s[m].at # 0
        BY <3>3, <1>1 DEF IsCalls
      <4>2. CallLine(h, s, k) < CallLine(h, s, m)
        BY <3>1, <4>1, <2>9 DEF IsCalls
      <4> QED BY <3>1, <3>3, <4>2, <1>8
    <3> QED BY <3>2, <3>3, <1>6, <1>7
  <2>10. IsCalls(h, P, t, r)
    BY <2>6, <2>7, <2>8, <2>9, <1>6 DEF IsCalls
  <2> QED BY <2>3, <2>5, <2>10, <1>2, <1>13, <1>14 DEF i
<1>16. CASE c = 0
  <2>1. NextLine(t, i) = 0
    BY <1>3, <1>16 DEF LineIn
  <2>2. \A x \in KeptLines(t) : UpTo(t, i, x) <=> (u = 0 \/ UpTo(t, u, x))
    BY <2>1, <1>2, <1>4, ReachesEnd
  <2>3. \A x \in KeptLines(t) : Done(h, t, r, x) <=> x \notin Opened(h, s) /\ (u = 0 \/ UpTo(t, u, x))
    <3>1. Above(h, r, 1) = u /\ r[1].at = 0 /\ Len(r) # 0
      BY <1>1, <1>6, <1>9, <1>16 DEF u
    <3> QED BY <3>1, <1>10 DEF Done
  <2>4. \A k \in 1..Len(r) : r[k].at \in P \cup {0}
    BY <1>3, <1>6, <1>7 DEF IsCalls
  <2>5. \A k \in 2..Len(r) : r[k].at # 0 /\ r[k].below
    BY <1>6 DEF IsCalls
  <2>6. ASSUME NEW k \in 1..Len(r), r[k].at # 0 PROVE k \in 2..Len(s)
    BY <2>6, <1>6, <1>7, <1>16
  <2>7. ASSUME NEW k \in 1..Len(r), r[k].at # 0 PROVE Reaches(t, Above(h, r, k), CallLine(h, r, k))
    <3>1. k \in 2..Len(s) /\ k \in 1..Len(s) /\ s[k].at # 0
      BY <2>6, <2>7, <1>6
    <3>2. Reaches(t, Above(h, s, k), CallLine(h, s, k))
      BY <3>1 DEF IsCalls
    <3> QED BY <3>1, <3>2, <1>8, <1>9
  <2>8. ASSUME NEW m \in 1..Len(r), NEW k \in 1..Len(r), m < k, r[m].at # 0
        PROVE  CallLine(h, r, k) < CallLine(h, r, m)
    <3>1. m \in 2..Len(s) /\ m \in 1..Len(s) /\ s[m].at # 0
      BY <2>6, <2>8, <1>6
    <3>2. k \in 2..Len(s) /\ k \in 1..Len(s)
      BY <2>8, <3>1, <1>1, <1>6
    <3>3. CallLine(h, s, k) < CallLine(h, s, m)
      BY <3>1, <3>2, <2>8 DEF IsCalls
    <3> QED BY <3>1, <3>2, <3>3, <1>8
  <2>9. IsCalls(h, P, t, r)
    BY <2>4, <2>5, <2>7, <2>8, <1>6 DEF IsCalls
  <2> QED BY <2>2, <2>3, <2>9, <1>2, <1>13, <1>14 DEF i
<1> QED BY <1>15, <1>16

(* A call for nothing returns. *)
LEMMA CallsEnd ==
  ASSUME NEW t \in Seq(Lines), NEW h, NEW P, Stands(h, P, t),
         NEW s, IsCalls(h, P, t, s), Len(s) # 0, s[1].at = 0,
         NEW r, Popped(s, r)
  PROVE  /\ IsCalls(h, P, t, r)
         /\ \A x \in KeptLines(t) : Done(h, t, r, x) <=> Done(h, t, s, x)
<1>1. Len(s) \in Nat \ {0} /\ s \in Seq(CallsOf)
  BY LenProperties DEF IsCalls
<1>2. /\ r \in Seq(CallsOf) /\ Len(r) = Len(s) - 1
      /\ \A k \in 1..Len(r) : r[k] = s[k + 1] /\ k + 1 \in 2..Len(s)
  BY <1>1 DEF Popped
<1>3. \A k \in 1..Len(r) : CallLine(h, r, k) = CallLine(h, s, k + 1)
  BY <1>2 DEF CallLine
<1>4. ASSUME NEW k \in 1..Len(r) PROVE Above(h, r, k) = Above(h, s, k + 1)
  <2>1. k < Len(r) <=> k + 1 < Len(s)
    BY <1>1, <1>2
  <2>2. ASSUME k < Len(r) PROVE CallLine(h, r, k + 1) = CallLine(h, s, (k + 1) + 1)
    <3>1. k + 1 \in 1..Len(r)
      BY <2>2, <1>1, <1>2
    <3> QED BY <3>1, <1>3
  <2> QED BY <2>1, <2>2 DEF Above
<1>5. \A k \in 1..Len(r) : /\ s[k + 1].at \in P /\ s[k + 1].at # 0 /\ s[k + 1].below
                           /\ Reaches(t, Above(h, s, k + 1), CallLine(h, s, k + 1))
  <2> SUFFICES ASSUME NEW k \in 1..Len(r)
               PROVE /\ s[k + 1].at \in P /\ s[k + 1].at # 0 /\ s[k + 1].below
                     /\ Reaches(t, Above(h, s, k + 1), CallLine(h, s, k + 1))
    OBVIOUS
  <2>1. k + 1 \in 2..Len(s) /\ k + 1 \in 1..Len(s)
    BY <1>1, <1>2
  <2> QED BY <2>1 DEF IsCalls
<1>6. ASSUME NEW m \in 1..Len(r), NEW k \in 1..Len(r), m < k
      PROVE  CallLine(h, r, k) < CallLine(h, r, m)
  <2>1. m + 1 \in 1..Len(s) /\ k + 1 \in 1..Len(s) /\ m + 1 < k + 1 /\ s[m + 1].at # 0
    BY <1>1, <1>2, <1>5, <1>6
  <2>2. CallLine(h, s, k + 1) < CallLine(h, s, m + 1)
    BY <2>1 DEF IsCalls
  <2> QED BY <2>2, <1>3
<1>7. \A k \in 2..Len(r) : k \in 1..Len(r)
  BY <1>1, <1>2
<1>8. IsCalls(h, P, t, r)
  BY <1>2, <1>3, <1>4, <1>5, <1>6, <1>7 DEF IsCalls
<1>9. ASSUME Len(r) = 0, NEW x \in KeptLines(t) PROVE Done(h, t, s, x) /\ Done(h, t, r, x)
  <2>1. Len(s) = 1 /\ Above(h, s, 1) = 0
    <3>1. Len(s) = 1
      BY <1>1, <1>2, <1>9
    <3>2. ~(1 < Len(s))
      BY <3>1
    <3> QED BY <3>1, <3>2 DEF Above
  <2>2. Opened(h, s) = {}
    BY <2>1 DEF Opened
  <2> QED BY <1>9, <2>1, <2>2 DEF Done
<1>10. ASSUME Len(r) # 0, NEW x \in KeptLines(t) PROVE Done(h, t, r, x) <=> Done(h, t, s, x)
  <2> DEFINE u == CallLine(h, s, 2)
  <2>1. 1 \in 1..Len(r) /\ 1 < Len(s) /\ 1 + 1 = 2 /\ Len(s) # 0
    BY <1>1, <1>2, <1>10
  <2>2. Above(h, s, 1) = u /\ CallLine(h, r, 1) = u /\ r[1].at # 0 /\ r[1].below
    BY <2>1, <1>2, <1>3, <1>5 DEF Above
  <2>3. u \in Nat \ {0}
    <3>1. s[2].at \in P
      BY <2>1, <1>5
    <3> QED BY <3>1, EntryLine DEF CallLine
  <2> HIDE DEF u
  <2>4. Opened(h, s) = Opened(h, r) \cup {u}
    <3>1. ASSUME NEW k \in 2..Len(s) PROVE CallLine(h, s, k) \in Opened(h, r) \cup {u}
      <4>1. CASE k = 2
        BY <4>1 DEF u
      <4>2. CASE k > 2
        <5>1. k - 1 \in 2..Len(r) /\ k - 1 \in 1..Len(r) /\ (k - 1) + 1 = k
          BY <4>2, <1>1, <1>2
        <5>2. CallLine(h, r, k - 1) = CallLine(h, s, k)
          BY <5>1, <1>3
        <5> QED BY <5>1, <5>2 DEF Opened
      <4>3. k = 2 \/ k > 2
        BY <1>1
      <4> QED BY <4>1, <4>2, <4>3
    <3>2. ASSUME NEW k \in 2..Len(r) PROVE CallLine(h, r, k) \in Opened(h, s)
      <4>1. k \in 1..Len(r) /\ k + 1 \in 2..Len(s)
        BY <1>1, <1>2
      <4>2. CallLine(h, r, k) = CallLine(h, s, k + 1)
        BY <4>1, <1>3
      <4> QED BY <4>1, <4>2 DEF Opened
    <3>3. u \in Opened(h, s)
      <4>1. 2 \in 2..Len(s)
        BY <2>1, <1>1
      <4> QED BY <4>1 DEF Opened, u
    <3>4. \A y \in Opened(h, s) : y \in Opened(h, r) \cup {u}
      BY <3>1 DEF Opened
    <3>5. \A y \in Opened(h, r) : y \in Opened(h, s)
      BY <3>2 DEF Opened
    <3> QED BY <3>3, <3>4, <3>5
  <2>5. Done(h, t, s, x) <=> x \notin Opened(h, s) /\ UpTo(t, u, x)
    BY <2>1, <2>2, <2>3 DEF Done
  <2>6. Done(h, t, r, x) <=> x \notin Opened(h, r) /\ x # u /\ UpTo(t, u, x)
    BY <2>2, <1>10 DEF Done
  <2> QED BY <2>4, <2>5, <2>6
<1> QED BY <1>8, <1>9, <1>10

(* The calls of a loop that begins at the first line have freed nothing. *)
LEMMA CallsBegin ==
  ASSUME NEW t \in Seq(Lines), NEW h, NEW P, Stands(h, P, t), NEW a,
         (a = 0 /\ P = {}) \/ (a \in P /\ h[a].line = FirstLine(t))
  PROVE  /\ IsCalls(h, P, t, <<Fork(a)>>)
         /\ \A x \in KeptLines(t) : ~Done(h, t, <<Fork(a)>>, x)
<1>1. PICK s \in Seq(CallsOf) : s = <<Fork(a)>>
  <2>1. a \in Nat
    <3>1. P \subseteq Nat \ {0}
      BY DEF Stands
    <3>2. 0 \in Nat
      OBVIOUS
    <3> QED BY <3>1, <3>2
  <2>2. Fork(a) \in CallsOf
    BY <2>1 DEF Fork, CallsOf
  <2>3. <<Fork(a)>> \in Seq(CallsOf)
    BY <2>2
  <2> QED BY <2>3
<1>2. Len(s) = 1 /\ s[1] = Fork(a) /\ s[1].at = a /\ ~s[1].below
  BY <1>1 DEF Fork
<1>3. Opened(h, s) = {} /\ Above(h, s, 1) = 0 /\ 1..Len(s) = {1} /\ 2..Len(s) = {}
  <2>1. ~(1 < Len(s)) /\ 1..Len(s) = {1} /\ 2..Len(s) = {}
    BY <1>2
  <2> QED BY <2>1 DEF Opened, Above
<1>4. CASE a = 0
  <2>1. IsCalls(h, P, t, s)
    BY <1>2, <1>3, <1>4 DEF IsCalls
  <2>2. KeptLines(t) = {}
    <3>1. a \notin P
      BY <1>4 DEF Stands
    <3> QED BY <3>1 DEF Stands
  <2> QED BY <1>1, <2>1, <2>2
<1>5. CASE a # 0
  <2>1. a \in P /\ h[a].line = FirstLine(t)
    BY <1>5
  <2>2. CallLine(h, s, 1) = FirstLine(t) /\ FirstLine(t) \in KeptLines(t) /\ FirstLine(t) \in Nat \ {0}
    BY <2>1, <1>2, EntryLine DEF CallLine
  <2> DEFINE f == FirstLine(t)
  <2>3. \A x \in KeptLines(t) : x \in Nat /\ f <= x
    BY <2>2, FirstMeans, KeptTypes
  <2> HIDE DEF f
  <2>4. ASSUME NEW x \in KeptLines(t), x <= f PROVE t[x].level >= t[f].level
    <3>1. x = f
      BY <2>2, <2>3, <2>4 DEF f
    <3>2. t[f].level \in Nat
      BY <2>2, KeptTypes DEF f
    <3> QED BY <3>1, <3>2
  <2>5. Reaches(t, 0, f)
    BY <2>2, <2>4 DEF Reaches, f
  <2>6. IsCalls(h, P, t, s)
    BY <1>2, <1>3, <2>1, <2>2, <2>5 DEF IsCalls, f
  <2>7. ASSUME NEW x \in KeptLines(t), Done(h, t, s, x) PROVE FALSE
    <3>1. x < f
      BY <2>7, <1>2, <1>5, <2>2 DEF Done, f
    <3> QED BY <3>1, <2>2, <2>3 DEF f
  <2> QED BY <1>1, <2>6, <2>7
<1> QED BY <1>4, <1>5

-----------------------------------------------------------------------------
(***************************************************************************)
(* What is freed, and what the calls of rh4nldaFreeFork still free.        *)
(***************************************************************************)
IsFreed(e) == \E i \in 1..Len(freed) : freed[i] = e

Frees ==
  /\ freed \in Seq(Nat)
  /\ \A i \in 1..Len(freed) : freed[i] \in Entries
  /\ \A i, j \in 1..Len(freed) : freed[i] = freed[j] => i = j
  /\ pc \notin {"idle", "freeing"} => \A e \in Mine : ~IsFreed(e)
  /\ pc # "freeing" => Len(todo) = 0
  /\ pc = "freeing" =>
       /\ IsCalls(heap, Mine, text, todo)
       /\ \A e \in Mine : IsFreed(e) <=> Done(heap, text, todo, heap[e].line)

(* The list that is freed is whole, so every line of it has its place. *)
LEMMA WholeIsPlaced ==
  ASSUME Inv, pc \notin {"climbing", "crashed"}
  PROVE  Stands(heap, Mine, text) /\ Linked(heap, Mine, text) /\ AllPlaced(text) /\ text \in Seq(Lines)
<1>1. Stands(heap, Mine, text) /\ Linked(heap, Mine, text) /\ text \in Seq(Lines)
  BY DEF Inv, Types, Whole
<1>2. ASSUME NEW y \in KeptLines(text), y # FirstLine(text)
      PROVE  \E p \in KeptLines(text) : IsNextLine(text, p, y) \/ IsLineBelow(text, p, y)
  <2>1. PICK e \in Mine : heap[e].line = y
    BY <1>1 DEF Stands
  <2>2. PICK p : p = heap[e].prev
    OBVIOUS
  <2>3. p # 0 /\ p \in Mine /\ (IsNextLine(text, heap[p].line, y) \/ IsLineBelow(text, heap[p].line, y))
    BY <1>1, <1>2, <2>1, <2>2, PrevLine
  <2>4. heap[p].line \in KeptLines(text)
    BY <1>1, <2>3 DEF Stands
  <2> QED BY <2>3, <2>4
<1> QED BY <1>1, <1>2 DEF AllPlaced

(* The entries only grow in number, and keep their parse, while none is freed. *)
Grows ==
  /\ Entries \subseteq Entries'
  /\ \A e \in Entries : heap'[e].parse = heap[e].parse

(* While a list is read, none of its entries is freed. *)
LEMMA FreesWhileParsing ==
  ASSUME Inv, Frees, freed' = freed, todo' = todo, parses' = parses, Grows,
         pc \notin {"idle", "freeing"}, pc' # "freeing"
  PROVE  Frees'
<1>1. ASSUME NEW e \in Mine' PROVE ~IsFreed(e)
  <2>1. CASE e \in Entries
    <3>1. e \in Mine
      BY <2>1 DEF Mine, Grows
    <3> QED BY <3>1 DEF Frees
  <2>2. CASE e \notin Entries
    BY <2>2 DEF Frees, IsFreed
  <2> QED BY <2>1, <2>2
<1>2. \A e \in Mine' : ~IsFreed(e)'
  BY <1>1 DEF IsFreed
<1>3. \A i \in 1..Len(freed') : freed'[i] \in Entries'
  BY DEF Frees, Grows
<1> QED BY <1>2, <1>3 DEF Frees

(* Every step keeps it so. *)
LEMMA FreesSteps == Inv /\ Frees /\ [Next]_vars => Frees'
<1> SUFFICES ASSUME Inv, Frees, [Next]_vars PROVE Frees'
  OBVIOUS
<1>1. heap \in Seq(Entry) /\ parses \in Nat /\ text \in Seq(Lines)
  BY DEF Inv, Types
<1>2. CASE StartParser
  <2>1. /\ pc = "idle" /\ parses' = parses + 1 /\ heap' = heap /\ freed' = freed /\ todo' = todo
        /\ pc' \in {"reading", "idle"}
    BY <1>2 DEF StartParser, links
  <2>2. Mine' = {} /\ Entries' = Entries
    <3>1. \A e \in Entries : heap[e].parse <= parses /\ heap[e].parse \in Nat
      <4>1. \A e \in Entries : heap[e] \in Entry
        BY <1>1, ElementOfSeq DEF Entries
      <4> QED BY <4>1 DEF Inv, Apart, Entry
    <3>2. \A e \in Entries : heap[e].parse # parses + 1
      BY <3>1, <1>1
    <3> QED BY <2>1, <3>2 DEF Mine, Entries
  <2> QED BY <2>1, <2>2 DEF Frees
<1>3. ASSUME NEW line \in Lines, ParseLine(line) PROVE Frees'
  <2>1. /\ pc = "reading" /\ parses' = parses /\ freed' = freed /\ todo' = todo
        /\ pc' \in {"reading", "returned", "climbing"}
    BY <1>3 DEF ParseLine, IgnoreLine, RejectLine, SaveFirst, SaveSameLevel, SaveNextLevel, SaveAbove,
                Read, Return
  <2>2. Grows
    <3>1. CASE heap' = heap
      BY <3>1 DEF Grows, Entries
    <3>2. CASE \E g \in Seq(Entry), en \in Entry :
                 /\ heap' = Append(g, en) /\ Len(g) = Len(heap)
                 /\ \A e \in Entries : g[e].parse = heap[e].parse
      <4>1. PICK g \in Seq(Entry), en \in Entry :
                 /\ heap' = Append(g, en) /\ Len(g) = Len(heap)
                 /\ \A e \in Entries : g[e].parse = heap[e].parse
        BY <3>2
      <4>2. /\ Len(heap') = Len(heap) + 1 /\ Len(heap) \in Nat
            /\ \A e \in 1..Len(g) : heap'[e] = g[e]
        BY <4>1, AppendProperties, LenProperties
      <4>3. Entries \subseteq Entries'
        BY <4>2 DEF Entries
      <4> QED BY <4>1, <4>2, <4>3 DEF Grows, Entries
    <3>3. CASE SaveFirst(line)
      <4>1. NewEntry(line, 0) \in Entry /\ heap' = Append(heap, NewEntry(line, 0))
        BY <3>3, NewEntryTypes DEF SaveFirst, NULL
      <4> QED BY <4>1, <1>1, <3>2
    <3>4. CASE SaveAbove(line)
      <4>1. NewEntry(line, 0) \in Entry /\ heap' = Append(heap, NewEntry(line, 0))
        BY <3>4, NewEntryTypes DEF SaveAbove, NULL
      <4> QED BY <4>1, <1>1, <3>2
    <3>5. ASSUME SaveSameLevel(line) \/ SaveNextLevel(line)
          PROVE \E g \in Seq(Entry), en \in Entry :
                 /\ heap' = Append(g, en) /\ Len(g) = Len(heap)
                 /\ \A e \in Entries : g[e].parse = heap[e].parse
      <4>1. anker # 0 /\ NULL = 0
        BY <3>5 DEF SaveSameLevel, SaveNextLevel, NULL
      <4>2. curptr \in Mine /\ curptr \in Entries /\ heap[curptr] \in Entry
        BY <2>1, <4>1, LastEntry DEF Mine
      <4> DEFINE n == Len(heap) + 1
                 same == [heap[curptr] EXCEPT !.next = n]
                 down == [heap[curptr] EXCEPT !.nextlvl = n]
      <4>3. n \in Nat /\ curptr \in Nat
        BY <1>1, <4>2, LenProperties DEF Entries
      <4>4. same \in Entry /\ down \in Entry /\ same.parse = heap[curptr].parse /\ down.parse = heap[curptr].parse
        BY <4>2, <4>3 DEF Entry
      <4> HIDE DEF same, down
      <4>5. NewEntry(line, curptr) \in Entry
        BY <4>3, NewEntryTypes
      <4>6. \A en \in {same, down} :
              /\ [heap EXCEPT ![curptr] = en] \in Seq(Entry)
              /\ Len([heap EXCEPT ![curptr] = en]) = Len(heap)
              /\ \A e \in Entries : [heap EXCEPT ![curptr] = en][e].parse = heap[e].parse
        <5> SUFFICES ASSUME NEW en \in {same, down}
                     PROVE /\ [heap EXCEPT ![curptr] = en] \in Seq(Entry)
                           /\ Len([heap EXCEPT ![curptr] = en]) = Len(heap)
                           /\ \A e \in Entries : [heap EXCEPT ![curptr] = en][e].parse = heap[e].parse
          OBVIOUS
        <5>1. en \in Entry /\ en.parse = heap[curptr].parse
          BY <4>4
        <5> QED BY <5>1, <4>2, <1>1, ExceptSeq DEF Entries
      <4>7. heap' = Append([heap EXCEPT ![curptr] = same], NewEntry(line, curptr))
              \/ heap' = Append([heap EXCEPT ![curptr] = down], NewEntry(line, curptr))
        BY <3>5 DEF SaveSameLevel, SaveNextLevel, same, down
      <4> QED BY <4>5, <4>6, <4>7
    <3>6. CASE IgnoreLine(line) \/ RejectLine(line)
      BY <3>1, <3>6 DEF IgnoreLine, RejectLine, Return, links
    <3> QED BY <1>3, <3>2, <3>3, <3>4, <3>5, <3>6 DEF ParseLine
  <2> QED BY <2>1, <2>2, FreesWhileParsing
<1>4. CASE Climb \/ EndOfFile \/ ForgetList
  <2>1. /\ pc \in {"climbing", "reading", "returned"} /\ heap' = heap /\ parses' = parses
        /\ freed' = freed /\ todo' = todo /\ pc' # "freeing"
    BY <1>4 DEF Climb, EndOfFile, ForgetList, Return, links
  <2>2. Grows
    BY <2>1 DEF Grows, Entries
  <2> QED BY <2>1, <2>2, FreesWhileParsing
<1>5. CASE EndClimb
  <2>1. /\ pc = "climbing" /\ parses' = parses /\ freed' = freed /\ todo' = todo /\ pc' = "reading"
        /\ heap' = [heap EXCEPT ![hptr].next = New, ![New].prev = hptr]
    BY <1>5 DEF EndClimb
  <2>2. Grows
    <3>1. hptr \in Entries /\ New \in Entries /\ DOMAIN heap = Entries /\ \A e \in Entries : heap[e] \in Entry
      <4>1. PICK t \in Seq(Lines), l \in Lines : IsWaiting(t, l)
        BY <2>1 DEF Inv, Waits
      <4> QED BY <2>1, <4>1, <1>1, LenProperties, ElementOfSeq DEF IsWaiting, Others, Mine, Entries
    <3>2. \A e \in Entries : heap'[e].parse = heap[e].parse
      BY <2>1, <3>1 DEF Entry
    <3>3. Len(heap') = Len(heap)
      <4>1. DOMAIN heap' = DOMAIN heap
        BY <2>1
      <4>2. heap' \in Seq(Entry)
        BY <1>5, EndClimbStep DEF Inv, Types
      <4> QED BY <4>1, <4>2, <1>1, LenProperties
    <3> QED BY <3>2, <3>3 DEF Grows, Entries
  <2> QED BY <2>1, <2>2, FreesWhileParsing
<1>6. CASE FreeList
  <2>1. /\ pc = "returned" /\ pc' = "freeing" /\ todo' = <<Fork(result)>> /\ heap' = heap /\ text' = text
        /\ parses' = parses /\ freed' = freed
    BY <1>6 DEF FreeList, links
  <2>2. /\ Stands(heap, Mine, text)
        /\ (result = 0 /\ Mine = {}) \/ (result \in Mine /\ heap[result].line = FirstLine(text))
    BY <2>1 DEF Inv, Whole, Heads0
  <2>3. /\ IsCalls(heap, Mine, text, todo')
        /\ \A x \in KeptLines(text) : ~Done(heap, text, todo', x)
    BY <2>1, <2>2, <1>1, CallsBegin
  <2>4. \A e \in Mine : ~IsFreed(e) /\ heap[e].line \in KeptLines(text)
    BY <2>1, <2>2 DEF Frees, Stands
  <2>5. Mine' = Mine /\ Entries' = Entries /\ \A e : IsFreed(e)' <=> IsFreed(e)
    BY <2>1 DEF Mine, Entries, IsFreed
  <2>6. \A e \in Mine' : IsFreed(e)' <=> Done(heap', text', todo', heap'[e].line)
    BY <2>1, <2>3, <2>4, <2>5
  <2> QED BY <2>1, <2>3, <2>5, <2>6 DEF Frees
<1>7. CASE FreeBelow \/ EndFork
  <2>1. /\ pc = "freeing" /\ pc' = "freeing" /\ todo # <<>> /\ heap' = heap /\ text' = text
        /\ parses' = parses /\ freed' = freed
    BY <1>7 DEF FreeBelow, EndFork, links
  <2>2. /\ Stands(heap, Mine, text) /\ Linked(heap, Mine, text)
        /\ IsCalls(heap, Mine, text, todo) /\ todo \in Seq(CallsOf) /\ Len(todo) # 0
        /\ Call = todo[1] /\ Call \in CallsOf
    <3>1. IsCalls(heap, Mine, text, todo) /\ todo \in Seq(CallsOf)
      BY <2>1 DEF Frees, IsCalls
    <3>2. Len(todo) # 0 /\ Call = todo[1] /\ Call \in CallsOf
      BY <2>1, <3>1, EmptySeq, HeadTailProperties DEF Call
    <3> QED BY <2>1, <3>1, <3>2, WholeIsPlaced
  <2>3. /\ IsCalls(heap, Mine, text, todo')
        /\ \A x \in KeptLines(text) : Done(heap, text, todo', x) <=> Done(heap, text, todo, x)
    <3>1. CASE FreeBelow
      <4>1. PICK b : b = heap[Call.at].nextlvl
        OBVIOUS
      <4>2. PICK c : c = [Call EXCEPT !.below = TRUE]
        OBVIOUS
      <4>3. /\ Call.at # 0 /\ ~Call.below /\ b # 0
            /\ todo' = <<Fork(b), c>> \o Tail(todo)
        BY <3>1, <4>1, <4>2 DEF FreeBelow, HasBelow, NULL
      <4>4. Fork(b) \in CallsOf /\ c \in CallsOf
        <5>1. Call.at \in Mine
          BY <2>2, <4>3 DEF IsCalls
        <5>2. b \in Nat
          <6>1. Mine \subseteq Nat /\ 0 \in Nat
            BY <2>2 DEF Stands
          <6>2. b \in Mine \cup {0}
            BY <2>2, <4>1, <5>1 DEF Linked, LinkedIn
          <6> QED BY <6>1, <6>2
        <5> QED BY <5>2, <2>2, <4>2 DEF Fork, CallsOf
      <4>5. Pushed(todo, todo', Fork(b), c)
        BY <2>1, <2>2, <4>3, <4>4, PushedIs
      <4>6. PICK a : a = todo[1].at
        OBVIOUS
      <4>7. /\ a # 0 /\ ~todo[1].below /\ b = heap[a].nextlvl /\ b # 0
            /\ Pushed(todo, todo', Fork(b), [todo[1] EXCEPT !.below = TRUE])
        BY <2>2, <4>1, <4>2, <4>3, <4>5, <4>6
      <4>8. Stands(heap, Mine, text) /\ Linked(heap, Mine, text) /\ IsCalls(heap, Mine, text, todo)
            /\ Len(todo) # 0 /\ text \in Seq(Lines)
        BY <2>2, <1>1
      <4> QED BY <4>6, <4>7, <4>8, CallsBelow
    <3>2. CASE EndFork
      <4>1. Call.at = 0 /\ Popped(todo, todo')
        BY <3>2, <2>1, <2>2, PoppedIs DEF EndFork, NULL
      <4> QED BY <4>1, <2>2, <1>1, CallsEnd
    <3> QED BY <1>7, <3>1, <3>2
  <2>4. \A e \in Mine : heap[e].line \in KeptLines(text)
    BY <2>2 DEF Stands
  <2>5. Mine' = Mine /\ Entries' = Entries /\ \A e : IsFreed(e)' <=> IsFreed(e)
    BY <2>1 DEF Mine, Entries, IsFreed
  <2>6. \A e \in Mine' : IsFreed(e)' <=> Done(heap', text', todo', heap'[e].line)
    <3>1. \A e \in Mine : IsFreed(e) <=> Done(heap, text, todo, heap[e].line)
      BY <2>1 DEF Frees
    <3> QED BY <2>1, <2>3, <2>4, <2>5, <3>1
  <2> QED BY <2>1, <2>3, <2>5, <2>6 DEF Frees
<1>8. CASE FreeEntry
  <2>1. /\ pc = "freeing" /\ pc' = "freeing" /\ todo # <<>> /\ heap' = heap /\ text' = text
        /\ parses' = parses
    BY <1>8 DEF FreeEntry, links
  <2>2. /\ Stands(heap, Mine, text) /\ Linked(heap, Mine, text) /\ AllPlaced(text)
        /\ IsCalls(heap, Mine, text, todo) /\ todo \in Seq(CallsOf) /\ Len(todo) # 0
        /\ Call = todo[1] /\ Call \in CallsOf
    <3>1. IsCalls(heap, Mine, text, todo) /\ todo \in Seq(CallsOf)
      BY <2>1 DEF Frees, IsCalls
    <3>2. Len(todo) # 0 /\ Call = todo[1] /\ Call \in CallsOf
      BY <2>1, <3>1, EmptySeq, HeadTailProperties DEF Call
    <3> QED BY <2>1, <3>1, <3>2, WholeIsPlaced
  <2>3. PICK a : a = Call.at
    OBVIOUS
  <2>4. /\ a # 0 /\ (heap[a].nextlvl # 0 => Call.below) /\ freed' = Append(freed, a)
        /\ todo' = <<Fork(heap[a].next)>> \o Tail(todo)
    BY <1>8, <2>3 DEF FreeEntry, HasBelow, NULL
  <2>5. a \in Mine /\ a \in Entries /\ a \in Nat /\ heap[a].next \in Nat
    <3>1. a \in Mine
      BY <2>2, <2>3, <2>4 DEF IsCalls
    <3> QED BY <3>1, <2>2 DEF Linked, LinkedIn, Stands, Mine
  <2>6. WentOn(todo, todo', Fork(heap[a].next))
    <3>1. Fork(heap[a].next) \in CallsOf
      BY <2>5 DEF Fork, CallsOf
    <3> QED BY <3>1, <2>1, <2>2, <2>4, WentOnIs
  <2>7. /\ IsCalls(heap, Mine, text, todo')
        /\ ~Done(heap, text, todo, heap[a].line)
        /\ \A x \in KeptLines(text) :
             Done(heap, text, todo', x) <=> Done(heap, text, todo, x) \/ x = heap[a].line
    <3>1. /\ a = todo[1].at /\ a # 0 /\ (heap[a].nextlvl # 0 => todo[1].below)
          /\ WentOn(todo, todo', Fork(heap[a].next))
      BY <2>2, <2>3, <2>4, <2>6
    <3>2. /\ Stands(heap, Mine, text) /\ Linked(heap, Mine, text) /\ AllPlaced(text)
          /\ IsCalls(heap, Mine, text, todo) /\ Len(todo) # 0 /\ text \in Seq(Lines)
      BY <2>2, <1>1
    <3>3. \A r : WentOn(todo, r, Fork(heap[a].next)) =>
                 /\ IsCalls(heap, Mine, text, r)
                 /\ ~Done(heap, text, todo, heap[a].line)
                 /\ \A x \in KeptLines(text) :
                      Done(heap, text, r, x) <=> Done(heap, text, todo, x) \/ x = heap[a].line
      BY <3>1, <3>2, CallsNext
    <3> QED BY <3>1, <3>3
  <2>8. \A e \in Mine : IsFreed(e) <=> Done(heap, text, todo, heap[e].line)
    BY <2>1 DEF Frees
  <2>9. ~IsFreed(a)
    BY <2>5, <2>7, <2>8
  <2>10. /\ freed' \in Seq(Nat) /\ Len(freed) \in Nat /\ Len(freed') = Len(freed) + 1
         /\ freed'[Len(freed) + 1] = a /\ \A i \in 1..Len(freed) : freed'[i] = freed[i]
    <3>1. freed \in Seq(Nat)
      BY DEF Frees
    <3> QED BY <3>1, <2>4, <2>5, AppendProperties, LenProperties
  <2>11. \A i \in 1..Len(freed') : i \in 1..Len(freed) \/ i = Len(freed) + 1
    BY <2>10
  <2>12. \A e : IsFreed(e)' <=> IsFreed(e) \/ e = a
    <3>1. 1..Len(freed) \subseteq 1..Len(freed') /\ Len(freed) + 1 \in 1..Len(freed')
      BY <2>10
    <3> QED BY <3>1, <2>10, <2>11 DEF IsFreed
  <2>13. ASSUME NEW i \in 1..Len(freed'), NEW j \in 1..Len(freed'), freed'[i] = freed'[j] PROVE i = j
    <3>1. \A k \in 1..Len(freed) : freed'[k] # a
      BY <2>9, <2>10 DEF IsFreed
    <3> QED BY <3>1, <2>10, <2>11, <2>13 DEF Frees
  <2>14. Mine' = Mine /\ Entries' = Entries
    BY <2>1 DEF Mine, Entries
  <2>15. \A i \in 1..Len(freed') : freed'[i] \in Entries'
    BY <2>5, <2>10, <2>11, <2>14 DEF Frees
  <2>16. ASSUME NEW e \in Mine PROVE IsFreed(e)' <=> Done(heap, text, todo', heap[e].line)
    <3>1. heap[e].line \in KeptLines(text) /\ (heap[e].line = heap[a].line => e = a)
      BY <2>2, <2>5, <1>1, OneEntry DEF Stands
    <3> QED BY <3>1, <2>7, <2>8, <2>12
  <2>17. \A e \in Mine' : IsFreed(e)' <=> Done(heap', text', todo', heap'[e].line)
    BY <2>1, <2>14, <2>16
  <2> QED BY <2>1, <2>7, <2>10, <2>13, <2>14, <2>15, <2>17 DEF Frees
<1>9. CASE EndFree
  <2>1. pc' = "idle" /\ todo = <<>> /\ todo' = todo /\ freed' = freed /\ heap' = heap
    BY <1>9 DEF EndFree, links
  <2>2. Len(todo') = 0 /\ Entries' = Entries
    BY <2>1 DEF Entries
  <2> QED BY <2>1, <2>2 DEF Frees
<1>10. CASE UNCHANGED vars
  BY <1>10 DEF vars, links, Frees, IsFreed, Mine, Entries
<1> QED BY <1>2, <1>3, <1>4, <1>5, <1>6, <1>7, <1>8, <1>9, <1>10 DEF Next

(* So what is freed is known in every reachable state. *)
LEMMA FreesInvariance == Spec => []Frees
<1>1. Init => Frees
  <2> SUFFICES ASSUME Init PROVE Frees
    OBVIOUS
  <2>1. pc = "idle" /\ todo = <<>> /\ freed = <<>>
    BY DEF Init
  <2>2. <<>> \in Seq(Nat) /\ 1..Len(<<>>) = {} /\ Len(<<>>) = 0
    BY EmptySeq
  <2> QED BY <2>1, <2>2 DEF Frees
<1>2. Inv /\ Inv' /\ Frees /\ [Next]_vars => Frees'
  BY FreesSteps
<1> QED BY <1>1, <1>2, LdaInvariance, PTL DEF Spec

(* It is freed once, and whole. *)
LEMMA FreesMeansOnce ==
  ASSUME Inv, Frees
  PROVE  FreedOnce
<1>1. ASSUME NEW i \in 1..Len(todo), NEW j \in 1..Len(freed), todo[i].at = freed[j] PROVE FALSE
  <2>1. pc = "freeing"
    BY <1>1 DEF Frees
  <2>2. IsCalls(heap, Mine, text, todo) /\ Stands(heap, Mine, text) /\ text \in Seq(Lines)
        /\ todo \in Seq(CallsOf) /\ Len(todo) \in Nat
    BY <2>1, WholeIsPlaced, LenProperties DEF Frees, IsCalls
  <2>3. freed[j] \in Entries /\ freed[j] # 0
    BY DEF Frees, Entries
  <2>4. todo[i].at \in Mine
    BY <1>1, <2>2, <2>3 DEF IsCalls
  <2>5. Done(heap, text, todo, heap[todo[i].at].line)
    BY <1>1, <2>1, <2>4 DEF Frees, IsFreed
  <2>6. CallLine(heap, todo, i) = heap[todo[i].at].line /\ Len(todo) # 0 /\ heap[todo[i].at].line \in Nat
    BY <1>1, <2>2, <2>3, <2>4, EntryLine DEF CallLine
  <2>7. i = 1 \/ i \in 2..Len(todo)
    BY <2>2
  <2>8. CASE i = 1
    BY <2>3, <2>5, <2>6, <2>8, <1>1 DEF Done
  <2>9. CASE i \in 2..Len(todo)
    BY <2>5, <2>6, <2>9 DEF Done, Opened
  <2> QED BY <2>7, <2>8, <2>9
<1>2. ASSUME pc = "freeing", todo = <<>>, NEW e \in Placed PROVE e \in {freed[i] : i \in 1..Len(freed)}
  <2>1. e \in Mine
    BY <1>2 DEF Placed, Mine
  <2>2. Len(todo) = 0
    BY <1>2
  <2>3. Done(heap, text, todo, heap[e].line)
    BY <2>2 DEF Done
  <2> QED BY <1>2, <2>1, <2>3 DEF Frees, IsFreed
<1>3. \A i, j \in 1..Len(freed) : freed[i] = freed[j] => i = j
  BY DEF Frees
<1> QED BY <1>1, <1>2, <1>3 DEF FreedOnce

(***************************************************************************)
(* For files of any length and any number of parses: the free visits every *)
(* entry of the list once, frees none to which a call of rh4nldaFreeFork   *)
(* still has to return, and leaves none, because every entry has its place *)
(* and the entries of a parse lead to no other ones (rh4nldaFreeList).     *)
(***************************************************************************)
THEOREM FreedOnceCorrect == Spec => []FreedOnce
<1>1. Inv /\ Frees => FreedOnce
  BY FreesMeansOnce
<1> QED BY <1>1, LdaInvariance, FreesInvariance, PTL
=============================================================================
