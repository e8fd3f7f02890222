--------------------------- MODULE VarLinksProofs ---------------------------
(***************************************************************************)
(* Proofs about a variable list and its links, for any number of entries   *)
(* and any names.  First what levels are and what the operators of VarTree *)
(* do to them; then that the links a state has are those of levels that    *)
(* are a tree (Inv), which every call keeps; then what follows: VarLinks   *)
(* implements VarList, and a list stays a tree in which everything that    *)
(* was created is found.                                                   *)
(***************************************************************************)
EXTENDS VarLinks, Integers, SequencesExt, FiniteSetTheorems, SequenceTheorems, TLAPS

-----------------------------------------------------------------------------
(***************************************************************************)
(* Natural numbers and sequences.                                          *)
(***************************************************************************)

(* A set of naturals has a least element: what proofs by induction use. *)
LEMMA LeastNat ==
  ASSUME NEW T, T \subseteq Nat, T # {}
  PROVE  \E m \in T : \A n \in T : m <= n
<1> DEFINE Below(n) == 0..(n - 1)
           R == StrictSubsetOrdering(Nat)
           F == FiniteSubsetsOf(Nat)
           B == {Below(n) : n \in T}
<1>1. IsWellFoundedOn(R, F)
  BY FS_StrictSubsetOrderingWellFounded
<1>2. \A n \in T : Below(n) \in F
  BY FS_Interval DEF FiniteSubsetsOf
<1>3. B \subseteq F /\ B # {}
  BY <1>2
<1>4. PICK x \in B : \A y \in B : ~(<<y, x>> \in R)
  <2> HIDE DEF R, F, B
  <2> QED BY <1>1, <1>3, WFMin
<1>5. PICK m \in T : x = Below(m)
  BY <1>4
<1>6. ASSUME NEW n \in T, n < m PROVE FALSE
  <2>1. Below(n) \subseteq Below(m) /\ Below(n) # Below(m)
    <3>1. n \in Below(m) /\ n \notin Below(n)
      BY <1>6
    <3>2. \A i \in Below(n) : i \in Below(m)
      BY <1>6
    <3> QED BY <3>1, <3>2
  <2>2. Below(n) \in SUBSET Nat /\ Below(m) \in SUBSET Nat
    OBVIOUS
  <2>3. <<Below(n), Below(m)>> \in R
    BY <2>1, <2>2 DEF StrictSubsetOrdering
  <2> QED BY <2>3, <1>4, <1>5
<1> QED BY <1>6

(* A function on 1..n is a sequence. *)
LEMMA FunctionIsSeq ==
  ASSUME NEW S, NEW n \in Nat, NEW f \in [1..n -> S]
  PROVE  f \in Seq(S) /\ Len(f) = n /\ (n # 0 => f # <<>>)
<1>1. f \in Seq(S)
  BY SeqDef
<1>2. Len(f) \in Nat /\ DOMAIN f = 1..Len(f) /\ DOMAIN f = 1..n
  BY <1>1, LenProperties
<1>3. Len(f) = n
  BY <1>2
<1>4. Len(<<>>) = 0
  OBVIOUS
<1> QED BY <1>1, <1>3, <1>4

(***************************************************************************)
(* Steps taken one after the other: where they lead is a function of how   *)
(* many have been taken.                                                   *)
(***************************************************************************)
StepsFrom(s0, step, len, f) == f[0] = s0 /\ \A i \in 1..len : f[i] = step[i][f[i - 1]]

LEMMA StepsExist ==
  ASSUME NEW S, NEW len \in Nat, NEW s0 \in S, NEW step \in [1..len -> [S -> S]]
  PROVE  \E f \in [0..len -> S] : StepsFrom(s0, step, len, f)
<1> DEFINE Goes(f, n) == f[0] = s0 /\ \A i \in 1..n : f[i] = step[i][f[i - 1]]
           Wrong == {n \in Nat : n <= len /\ ~ \E f \in [0..n -> S] : Goes(f, n)}
<1> SUFFICES Wrong = {}
  <2>1. len <= len
    OBVIOUS
  <2>2. \E f \in [0..len -> S] : Goes(f, len)
    BY <2>1
  <2> QED BY <2>2 DEF StepsFrom
<1> SUFFICES ASSUME Wrong # {} PROVE FALSE
  OBVIOUS
<1>1. PICK n \in Wrong : \A m \in Wrong : n <= m
  <2> Wrong \subseteq Nat
    OBVIOUS
  <2> HIDE DEF Wrong
  <2> QED BY LeastNat
<1>2. n \in Nat /\ n <= len /\ ~ \E f \in [0..n -> S] : Goes(f, n)
  BY <1>1
<1>3. n # 0
  <2> SUFFICES ASSUME n = 0 PROVE FALSE
    OBVIOUS
  <2> DEFINE f == [i \in 0..n |-> s0]
  <2>1. 0 \in 0..n /\ 1..n = {}
    OBVIOUS
  <2>2. f \in [0..n -> S] /\ f[0] = s0
    BY <2>1
  <2> HIDE DEF f
  <2>3. Goes(f, n)
    BY <2>1, <2>2
  <2> QED BY <2>2, <2>3, <1>2
<1>4. n - 1 \in Nat /\ n - 1 <= len /\ ~(n <= n - 1)
  BY <1>2, <1>3
<1>5. n - 1 \notin Wrong
  <2> HIDE DEF Wrong
  <2> QED BY <1>1, <1>4
<1>6. PICK g \in [0..n - 1 -> S] : Goes(g, n - 1)
  BY <1>4, <1>5
<1> DEFINE f == [i \in 0..n |-> IF i < n THEN g[i] ELSE step[n][g[n - 1]]]
<1>7. n \in 1..len /\ n \in 0..n /\ n - 1 \in 0..n - 1
  BY <1>2, <1>3
<1>8. step[n][g[n - 1]] \in S
  BY <1>6, <1>7
<1>9. \A i \in 0..n : (i < n => i \in 0..n - 1)
  BY <1>2
<1>10. f \in [0..n -> S]
  BY <1>6, <1>8, <1>9
<1>11. f[n] = step[n][g[n - 1]]
  BY <1>7
<1>12. \A i \in 0..n - 1 : f[i] = g[i]
  BY <1>2
<1> HIDE DEF f
<1>13. f[0] = s0
  <2>1. 0 \in 0..n - 1
    BY <1>4
  <2> QED BY <2>1, <1>6, <1>12
<1>14. ASSUME NEW i \in 1..n PROVE f[i] = step[i][f[i - 1]]
  <2>1. i - 1 \in 0..n - 1
    BY <1>2
  <2>2. CASE i = n
    BY <2>1, <2>2, <1>11, <1>12
  <2>3. CASE i # n
    <3>1. i \in 1..n - 1 /\ i \in 0..n - 1
      BY <2>3, <1>2
    <3> QED BY <3>1, <2>1, <1>6, <1>12
  <2> QED BY <2>2, <2>3
<1> QED BY <1>2, <1>10, <1>13, <1>14

(* Two such functions that begin alike and step alike are alike. *)
StepAlike(len, f, g) == f[0] = g[0] /\ \A i \in 1..len : f[i - 1] = g[i - 1] => f[i] = g[i]

LEMMA StepsAgree ==
  ASSUME NEW len \in Nat, NEW f, NEW g, StepAlike(len, f, g)
  PROVE  \A i \in 0..len : f[i] = g[i]
<1> DEFINE Differ == {i \in Nat : i <= len /\ f[i] # g[i]}
<1> SUFFICES ASSUME NEW k \in 0..len, f[k] # g[k] PROVE FALSE
  OBVIOUS
<1>1. k \in Differ
  OBVIOUS
<1>2. PICK n \in Differ : \A m \in Differ : n <= m
  <2> Differ \subseteq Nat
    OBVIOUS
  <2> HIDE DEF Differ
  <2> QED BY <1>1, LeastNat
<1>3. n \in Nat /\ n <= len /\ f[n] # g[n]
  BY <1>2
<1>4. n # 0
  BY <1>3 DEF StepAlike
<1>5. n \in 1..len /\ n - 1 \in Nat /\ n - 1 <= len /\ ~(n <= n - 1)
  BY <1>3, <1>4
<1>6. f[n - 1] = g[n - 1]
  <2>1. n - 1 \notin Differ
    <3> HIDE DEF Differ
    <3> QED BY <1>2, <1>5
  <2> QED BY <2>1, <1>5
<1> QED BY <1>3, <1>4, <1>5, <1>6 DEF StepAlike

(***************************************************************************)
(* The first entry of a level, 0 if there is none.                         *)
(***************************************************************************)
FirstIn(s) == IF s = <<>> THEN 0 ELSE s[1]

(***************************************************************************)
(* The levels of n entries: every entry is at one position of one level.   *)
(***************************************************************************)
IsLevels(n, kids) ==
  /\ n \in Nat
  /\ kids \in [0..n -> Seq(1..n)]
  /\ \A e \in 1..n : \E g \in 0..n : \E i \in 1..Len(kids[g]) : kids[g][i] = e
  /\ \A g, h \in 0..n : \A i \in 1..Len(kids[g]) : \A j \in 1..Len(kids[h]) :
       kids[g][i] = kids[h][j] => g = h /\ i = j

(* The next links of the levels. *)
NextIsOf(n, kids, nx) ==
  \A g \in 0..n : \A i \in 1..Len(kids[g]) :
    nx[kids[g][i]] = IF i = Len(kids[g]) THEN 0 ELSE kids[g][i + 1]

(* Chain as a function of the links. *)
ChainOf(n, nx, e) ==
  LET chain[i \in 0..n] == IF i = 0 THEN <<>> ELSE <<i>> \o chain[nx[i]]
  IN chain[e]

(* What the levels of n entries are made of. *)
LEMMA LevelFacts ==
  ASSUME NEW n, NEW kids, IsLevels(n, kids), NEW g \in 0..n
  PROVE  /\ kids[g] \in Seq(1..n) /\ Len(kids[g]) \in Nat
         /\ \A i \in 1..Len(kids[g]) : kids[g][i] \in 1..n
         /\ kids[g] # <<>> => Len(kids[g]) \in 1..Len(kids[g]) /\ 1 \in 1..Len(kids[g])
         /\ kids[g] = <<>> => Len(kids[g]) = 0
         /\ FirstIn(kids[g]) \in 0..n
         /\ FirstIn(kids[g]) = 0 <=> kids[g] = <<>>
<1>1. kids[g] \in Seq(1..n) /\ n \in Nat
  BY DEF IsLevels
<1>2. Len(kids[g]) \in Nat /\ \A i \in 1..Len(kids[g]) : kids[g][i] \in 1..n
  BY <1>1, LenProperties, ElementOfSeq
<1>3. kids[g] # <<>> => Len(kids[g]) \in Nat \ {0}
  BY <1>1, EmptySeq
<1>4. kids[g] = <<>> => Len(kids[g]) = 0
  BY EmptySeq
<1>5. kids[g] # <<>> => Len(kids[g]) \in 1..Len(kids[g]) /\ 1 \in 1..Len(kids[g])
  BY <1>3
<1>6. kids[g] # <<>> => FirstIn(kids[g]) = kids[g][1] /\ kids[g][1] \in 1..n
  BY <1>2, <1>5 DEF FirstIn
<1>7. kids[g] = <<>> => FirstIn(kids[g]) = 0
  BY DEF FirstIn
<1>8. 0 \in 0..n /\ \A x \in 1..n : x \in 0..n /\ x # 0
  BY <1>1
<1> QED BY <1>1, <1>2, <1>4, <1>5, <1>6, <1>7, <1>8

(***************************************************************************)
(* Following next from the first entry of a level meets the level.         *)
(***************************************************************************)
LEMMA ChainsAreLevels ==
  ASSUME NEW n, NEW kids, IsLevels(n, kids), NEW nx, NextIsOf(n, kids, nx), NEW g \in 0..n
  PROVE  ChainOf(n, nx, FirstIn(kids[g])) = kids[g]
<1> DEFINE Behind(h, i) == SubSeq(kids[h], i, Len(kids[h]))
           Lvl(x) == CHOOSE h \in 0..n : \E i \in 1..Len(kids[h]) : kids[h][i] = x
           Pos(x) == CHOOSE i \in 1..Len(kids[Lvl(x)]) : kids[Lvl(x)][i] = x
           F == [x \in 0..n |-> IF x = 0 THEN <<>> ELSE Behind(Lvl(x), Pos(x))]
           chain == CHOOSE f : f = [x \in 0..n |-> IF x = 0 THEN <<>> ELSE <<x>> \o f[nx[x]]]
<1>0. n \in Nat
  BY DEF IsLevels
<1>a. \A d, h \in 0..n : \A j \in 1..Len(kids[d]) : \A i \in 1..Len(kids[h]) :
        kids[d][j] = kids[h][i] => d = h /\ j = i
  BY DEF IsLevels
<1>1. ASSUME NEW h \in 0..n, NEW i \in 1..Len(kids[h])
      PROVE  Lvl(kids[h][i]) = h /\ Pos(kids[h][i]) = i
  <2>1. Lvl(kids[h][i]) \in 0..n /\ \E j \in 1..Len(kids[Lvl(kids[h][i])]) : kids[Lvl(kids[h][i])][j] = kids[h][i]
    OBVIOUS
  <2>2. Lvl(kids[h][i]) = h
    <3> HIDE DEF Lvl
    <3>1. PICK j \in 1..Len(kids[Lvl(kids[h][i])]) : kids[Lvl(kids[h][i])][j] = kids[h][i]
      BY <2>1
    <3> QED BY <2>1, <3>1, <1>a, Zenon
  <2> HIDE DEF Lvl
  <2>3. Pos(kids[h][i]) \in 1..Len(kids[h]) /\ kids[h][Pos(kids[h][i])] = kids[h][i]
    BY <2>2
  <2> HIDE DEF Pos
  <2> QED BY <2>2, <2>3, <1>a, Zenon
<1>2. ASSUME NEW h \in 0..n, NEW i \in 1..Len(kids[h])
      PROVE  /\ kids[h][i] \in 1..n
             /\ i # Len(kids[h]) => i + 1 \in 1..Len(kids[h])
             /\ Behind(h, i) = <<kids[h][i]>> \o (IF i = Len(kids[h]) THEN <<>> ELSE Behind(h, i + 1))
  <2>1. kids[h] \in Seq(1..n) /\ Len(kids[h]) \in Nat /\ kids[h][i] \in 1..n
    BY LevelFacts
  <2>2. i \in 1..Len(kids[h]) /\ Len(kids[h]) \in i..Len(kids[h]) /\ i + 1 \in Int
    BY <2>1
  <2>3. Behind(h, i) = <<kids[h][i]>> \o Behind(h, i + 1)
    BY <2>1, <2>2, SubSeqRecursiveFirst
  <2>4. CASE i = Len(kids[h])
    <3>1. Len(kids[h]) < i + 1
      BY <2>1, <2>4
    <3>2. Behind(h, i + 1) = <<>>
      BY <3>1, <2>1, <2>2, SubSeqEmpty
    <3> QED BY <3>2, <2>1, <2>3, <2>4
  <2>5. CASE i # Len(kids[h])
    <3>1. i + 1 \in 1..Len(kids[h])
      BY <2>1, <2>5
    <3> HIDE DEF Behind
    <3> QED BY <3>1, <2>1, <2>3, <2>5
  <2> QED BY <2>4, <2>5
<1>3. F[0] = <<>> /\ \A h \in 0..n : \A i \in 1..Len(kids[h]) : F[kids[h][i]] = Behind(h, i)
  <2>1. 0 \in 0..n /\ \A x \in 1..n : x \in 0..n /\ x # 0
    BY <1>0
  <2>2. F[0] = <<>>
    BY <2>1
  <2>3. \A x \in 1..n : F[x] = Behind(Lvl(x), Pos(x))
    BY <2>1
  <2> HIDE DEF F, Lvl, Pos, Behind
  <2> QED BY <2>2, <2>3, <1>1, <1>2
<1>4. F = [x \in 0..n |-> IF x = 0 THEN <<>> ELSE <<x>> \o F[nx[x]]]
  <2>1. ASSUME NEW x \in 0..n, x # 0 PROVE F[x] = <<x>> \o F[nx[x]]
    <3>1. x \in 1..n
      BY <2>1, <1>0
    <3>2. PICK h \in 0..n : \E i \in 1..Len(kids[h]) : kids[h][i] = x
      BY <3>1 DEF IsLevels
    <3>3. PICK i \in 1..Len(kids[h]) : kids[h][i] = x
      BY <3>2
    <3>4. nx[x] = IF i = Len(kids[h]) THEN 0 ELSE kids[h][i + 1]
      BY <3>3 DEF NextIsOf
    <3>5. F[nx[x]] = IF i = Len(kids[h]) THEN <<>> ELSE Behind(h, i + 1)
      <4> HIDE DEF F, Behind
      <4> QED BY <3>4, <1>2, <1>3
    <3>6. F[x] = Behind(h, i) /\ Behind(h, i) = <<x>> \o (IF i = Len(kids[h]) THEN <<>> ELSE Behind(h, i + 1))
      <4> HIDE DEF F, Behind
      <4> QED BY <3>3, <1>2, <1>3
    <3> HIDE DEF F, Behind
    <3> QED BY <3>5, <3>6
  <2>2. F = [x \in 0..n |-> F[x]]
    OBVIOUS
  <2> HIDE DEF F
  <2> QED BY <2>1, <2>2, <1>3
<1>5. chain = [x \in 0..n |-> IF x = 0 THEN <<>> ELSE <<x>> \o chain[nx[x]]]
  <2> HIDE DEF F
  <2> QED BY <1>4
<1> HIDE DEF F, Lvl, Pos
<1>6. chain[0] = <<>> /\ \A x \in 1..n : chain[x] = <<x>> \o chain[nx[x]]
  <2>1. 0 \in 0..n /\ \A x \in 1..n : x \in 0..n /\ x # 0
    BY <1>0
  <2> HIDE DEF chain
  <2> QED BY <1>5, <2>1
<1>7. ChainOf(n, nx, FirstIn(kids[g])) = chain[FirstIn(kids[g])]
  BY DEF ChainOf
<1> HIDE DEF chain
<1>8. \A i \in 1..Len(kids[g]) : chain[kids[g][i]] = Behind(g, i)
  <2> DEFINE Failing == {d \in Nat : d < Len(kids[g]) /\ chain[kids[g][Len(kids[g]) - d]] # Behind(g, Len(kids[g]) - d)}
  <2> SUFFICES ASSUME NEW k \in 1..Len(kids[g]), chain[kids[g][k]] # Behind(g, k) PROVE FALSE
    OBVIOUS
  <2>0. Len(kids[g]) \in Nat
    BY LevelFacts
  <2>1. Len(kids[g]) - k \in Nat /\ Len(kids[g]) - k < Len(kids[g]) /\ Len(kids[g]) - (Len(kids[g]) - k) = k
    BY <2>0
  <2>2. Len(kids[g]) - k \in Failing
    <3> HIDE DEF Behind
    <3> QED BY <2>1
  <2>3. PICK d \in Failing : \A m \in Failing : d <= m
    <3> Failing \subseteq Nat
      OBVIOUS
    <3> HIDE DEF Failing
    <3> QED BY <2>2, LeastNat
  <2> DEFINE i == Len(kids[g]) - d
  <2>4. d \in Nat /\ d < Len(kids[g]) /\ chain[kids[g][i]] # Behind(g, i)
    BY <2>3
  <2>5. i \in 1..Len(kids[g]) /\ (i = Len(kids[g]) <=> d = 0)
    BY <2>4, <2>0
  <2>6. d # 0 => d - 1 \in Nat /\ d - 1 < Len(kids[g]) /\ Len(kids[g]) - (d - 1) = i + 1 /\ ~(d <= d - 1)
    BY <2>4, <2>0
  <2>7. d # 0 => chain[kids[g][i + 1]] = Behind(g, i + 1)
    <3> SUFFICES ASSUME d # 0 PROVE chain[kids[g][i + 1]] = Behind(g, i + 1)
      OBVIOUS
    <3>1. d - 1 \notin Failing
      <4> HIDE DEF Failing, Behind, i
      <4> QED BY <2>3, <2>6
    <3>2. d - 1 \in Nat /\ d - 1 < Len(kids[g]) /\ Len(kids[g]) - (d - 1) = i + 1
      BY <2>6
    <3> HIDE DEF Behind, i
    <3> QED BY <3>1, <3>2
  <2> HIDE DEF Failing, i
  <2>8. chain[kids[g][i]] = <<kids[g][i]>> \o chain[nx[kids[g][i]]]
    BY <2>5, <1>2, <1>6
  <2>9. chain[nx[kids[g][i]]] = IF i = Len(kids[g]) THEN <<>> ELSE Behind(g, i + 1)
    <3> HIDE DEF Behind
    <3> QED BY <2>5, <2>7, <1>6 DEF NextIsOf
  <2> HIDE DEF Behind
  <2> QED BY <2>4, <2>5, <2>8, <2>9, <1>2
<1>9. CASE kids[g] = <<>>
  BY <1>9, <1>6, <1>7 DEF FirstIn
<1>10. CASE kids[g] # <<>>
  <2>1. 1 \in 1..Len(kids[g]) /\ kids[g] \in Seq(1..n)
    BY <1>10, LevelFacts
  <2>2. FirstIn(kids[g]) = kids[g][1]
    BY <1>10 DEF FirstIn
  <2>3. Behind(g, 1) = kids[g]
    BY <2>1, SubSeqFull
  <2> HIDE DEF Behind
  <2> QED BY <2>1, <2>2, <2>3, <1>7, <1>8
<1> QED BY <1>9, <1>10

-----------------------------------------------------------------------------
(***************************************************************************)
(* A list whose levels are a tree.                                         *)
(***************************************************************************)
GroupsOnly(t) ==
  \A g \in 1..Len(t.name) : \A i \in 1..Len(t.kids[g]) :
    /\ t.type[g] = "GROUP"
    /\ t.type[t.kids[g][i]] = "GROUP" => g < t.kids[g][i]

IsTreeOf(t) ==
  /\ t = [name |-> t.name, type |-> t.type, kids |-> t.kids]
  /\ t.name \in Seq(Names)
  /\ t.type \in Seq(VarTypes)
  /\ Len(t.type) = Len(t.name)
  /\ IsLevels(Len(t.name), t.kids)
  /\ GroupsOnly(t)

(* What a search returns. *)
Results(n) == {[ret |-> r, var |-> v] : r \in {"OK", "VAR_PTR_ERR", "UNKOWN_VAR"}, v \in 0..n}

(* What a search returns: the first entry of the level that has the name, if one has. *)
LEMMA SearchFacts ==
  ASSUME NEW t, IsLevels(Len(t.name), t.kids), NEW at \in 0..Len(t.name), NEW nm
  PROVE  /\ Search(t, at, nm) \in Results(Len(t.name))
         /\ Search(t, at, nm).var \in 0..Len(t.name)
         /\ Search(t, at, nm).ret = "OK" <=> Named(t, at, nm) # {}
         /\ Search(t, at, nm).ret = "OK" =>
              \E i \in Named(t, at, nm) :
                /\ \A j \in Named(t, at, nm) : i <= j
                /\ Search(t, at, nm) = [ret |-> "OK", var |-> t.kids[at][i]]
                /\ t.kids[at][i] \in 1..Len(t.name)
         /\ Search(t, at, nm).ret # "OK" =>
              Search(t, at, nm) = [ret |-> IF t.kids[at] = <<>> THEN "VAR_PTR_ERR" ELSE "UNKOWN_VAR",
                                   var |-> 0]
<1> DEFINE n == Len(t.name)
           K == Named(t, at, nm)
           least == CHOOSE i \in K : \A j \in K : i <= j
<1>1. /\ t.kids[at] = <<>> => Len(t.kids[at]) = 0
      /\ Len(t.kids[at]) \in Nat
      /\ \A i \in 1..Len(t.kids[at]) : t.kids[at][i] \in 1..n
  BY LevelFacts
<1>2. t.kids[at] = <<>> => K = {}
  BY <1>1 DEF Named
<1>3. Search(t, at, nm) = [ret |-> SearchRet(t, at, nm),
                           var |-> IF SearchRet(t, at, nm) = "OK" THEN First(t, at, nm) ELSE 0]
  BY DEF Search, Root
<1>4. n \in Nat /\ 0 \in 0..n /\ \A x \in 1..n : x \in 0..n
  BY DEF IsLevels
<1>5. CASE K = {}
  <2>1. SearchRet(t, at, nm) = IF t.kids[at] = <<>> THEN "VAR_PTR_ERR" ELSE "UNKOWN_VAR"
    BY <1>5 DEF SearchRet
  <2>2. SearchRet(t, at, nm) # "OK" /\ SearchRet(t, at, nm) \in {"OK", "VAR_PTR_ERR", "UNKOWN_VAR"}
    BY <2>1
  <2>3. Search(t, at, nm) = [ret |-> SearchRet(t, at, nm), var |-> 0]
    BY <2>2, <1>3
  <2>4. Search(t, at, nm) \in Results(n)
    BY <2>2, <2>3, <1>4 DEF Results
  <2> QED BY <2>1, <2>2, <2>3, <2>4, <1>4, <1>5
<1>6. CASE K # {}
  <2>1. SearchRet(t, at, nm) = "OK"
    BY <1>2, <1>6 DEF SearchRet
  <2>2. \E i \in K : \A j \in K : i <= j
    <3> K \subseteq Nat
      BY <1>1 DEF Named
    <3> HIDE DEF K
    <3> QED BY <1>6, LeastNat
  <2>3. least \in K /\ \A j \in K : least <= j
    <3> HIDE DEF K
    <3> QED BY <2>2
  <2>4. First(t, at, nm) = t.kids[at][least]
    BY DEF First
  <2>5. least \in 1..Len(t.kids[at])
    BY <2>3 DEF Named
  <2> HIDE DEF least, K
  <2>6. t.kids[at][least] \in 1..n
    BY <2>5, <1>1
  <2>7. Search(t, at, nm) = [ret |-> "OK", var |-> t.kids[at][least]]
    BY <2>1, <2>4, <1>3
  <2>8. Search(t, at, nm) \in Results(n)
    BY <2>6, <2>7, <1>4 DEF Results
  <2> HIDE DEF n
  <2> QED BY <2>3, <2>6, <2>7, <2>8, <1>4, <1>6 DEF n, K
<1> QED BY <1>5, <1>6

(* The steps of a walk. *)
Walks(t, at, path, w) ==
  /\ w \in [0..Len(path) -> Results(Len(t.name))]
  /\ w[0] = [ret |-> "OK", var |-> at]
  /\ \A i \in 1..Len(path) : w[i] = WalkStep(t, w[i - 1], path[i])
  /\ w[Len(path)] = Walk(t, at, path)

(* A walk down a path has its steps. *)
LEMMA WalkExists ==
  ASSUME NEW t, IsLevels(Len(t.name), t.kids), NEW at \in 0..Len(t.name), NEW path \in Seq(Names)
  PROVE  \E w : Walks(t, at, path, w)
<1> DEFINE S == Results(Len(t.name))
           len == Len(path)
           s0 == [ret |-> "OK", var |-> at]
           step == [i \in 1..len |-> [w \in S |-> WalkStep(t, w, path[i])]]
           g == CHOOSE w : w = [i \in 0..len |-> IF i = 0 THEN s0 ELSE WalkStep(t, w[i - 1], path[i])]
<1>1. len \in Nat
  BY LenProperties
<1>2. s0 \in S
  BY DEF Results
<1>3. step \in [1..len -> [S -> S]]
  <2>1. ASSUME NEW i \in 1..len, NEW w \in S PROVE WalkStep(t, w, path[i]) \in S
    <3>1. w.var \in 0..Len(t.name)
      BY DEF Results
    <3>2. Search(t, w.var, path[i]) \in S
      <4> HIDE DEF S
      <4> QED BY <3>1, SearchFacts DEF S
    <3> QED BY <3>2 DEF WalkStep
  <2> HIDE DEF S, len
  <2> QED BY <2>1
<1>4. PICK f \in [0..len -> S] : StepsFrom(s0, step, len, f)
  <2> HIDE DEF S, len, s0, step, g
  <2> QED BY <1>1, <1>2, <1>3, StepsExist
<1>5. \A i \in 1..len : i - 1 \in 0..len
  BY <1>1
<1>6. \A i \in 1..len : f[i] = WalkStep(t, f[i - 1], path[i])
  <2> HIDE DEF S, len, s0
  <2> QED BY <1>4, <1>5 DEF StepsFrom
<1>7. f = [i \in 0..len |-> IF i = 0 THEN s0 ELSE WalkStep(t, f[i - 1], path[i])]
  <2>1. \A i \in 0..len : i # 0 => i \in 1..len
    BY <1>1
  <2>2. \A i \in 0..len : f[i] = IF i = 0 THEN s0 ELSE WalkStep(t, f[i - 1], path[i])
    BY <2>1, <1>4, <1>6 DEF StepsFrom
  <2> HIDE DEF S, len, s0, step
  <2> QED BY <2>2, <1>4
<1> HIDE DEF step
<1>8. g = [i \in 0..len |-> IF i = 0 THEN s0 ELSE WalkStep(t, g[i - 1], path[i])]
  <2> HIDE DEF S, len, s0
  <2> QED BY <1>7
<1>9. Walk(t, at, path) = g[len]
  BY DEF Walk
<1>10. \A i \in 0..len : f[i] = g[i]
  <2>1. 0 \in 0..len /\ \A i \in 1..len : i \in 0..len /\ i # 0
    BY <1>1
  <2> HIDE DEF g, S, len, s0
  <2>2. g[0] = s0 /\ \A i \in 1..len : g[i] = WalkStep(t, g[i - 1], path[i])
    BY <2>1, <1>8
  <2>3. StepAlike(len, f, g)
    BY <2>2, <1>4, <1>6 DEF StepsFrom, StepAlike
  <2>4. len \in Nat
    BY <1>1
  <2>5. \A i \in 0..len : f[i] = g[i]
    <3> HIDE DEF len
    <3> QED BY <2>3, <2>4, StepsAgree
  <2> QED BY <2>5
<1>11. f[len] = Walk(t, at, path)
  <2> HIDE DEF g, S, s0
  <2> QED BY <1>1, <1>9, <1>10
<1> HIDE DEF g
<1> QED BY <1>4, <1>6, <1>11 DEF StepsFrom, Walks

(* A path is its front and its last name. *)
LEMMA FrontLast ==
  ASSUME NEW S, NEW path \in Seq(S), path # <<>>
  PROVE  /\ Len(path) \in Nat \ {0}
         /\ Front(path) \in Seq(S) /\ Len(Front(path)) = Len(path) - 1
         /\ \A i \in 1..Len(path) - 1 : Front(path)[i] = path[i]
         /\ Last(path) = path[Len(path)] /\ Last(path) \in S
<1>1. Len(path) \in Nat \ {0}
  BY EmptySeq
<1>2. \A i \in 1..Len(path) : path[i] \in S
  BY ElementOfSeq
<1> DEFINE m == Len(path) - 1
<1>3. m \in Int /\ 1 \in Int /\ \A i \in 1..m : path[i] \in S
  BY <1>1, <1>2
<1>4. /\ SubSeq(path, 1, m) \in Seq(S)
      /\ Len(SubSeq(path, 1, m)) = IF 1 <= m THEN m - 1 + 1 ELSE 0
      /\ \A i \in 1..m - 1 + 1 : SubSeq(path, 1, m)[i] = path[1 + i - 1]
  <2> HIDE DEF m
  <2> QED BY <1>3, SubSeqProperties
<1>5. (IF 1 <= m THEN m - 1 + 1 ELSE 0) = m /\ m - 1 + 1 = m /\ \A i \in 1..m : 1 + i - 1 = i
  <2>1. m \in Nat
    BY <1>1
  <2> HIDE DEF m
  <2> QED BY <2>1
<1>6. Front(path) = SubSeq(path, 1, m) /\ Last(path) = path[Len(path)]
  BY DEF Front, Last
<1>7. Len(path) \in 1..Len(path)
  BY <1>1
<1> QED BY <1>1, <1>2, <1>4, <1>5, <1>6, <1>7

(* A walk down no groups stays where it is. *)
LEMMA WalkEmpty ==
  ASSUME NEW t, IsLevels(Len(t.name), t.kids), NEW at \in 0..Len(t.name)
  PROVE  Walk(t, at, <<>>) = [ret |-> "OK", var |-> at]
<1>1. <<>> \in Seq(Names) /\ Len(<<>>) = 0
  BY EmptySeq
<1>2. PICK w : Walks(t, at, <<>>, w)
  BY <1>1, WalkExists
<1> QED BY <1>1, <1>2 DEF Walks

(* The last step of a walk. *)
LEMMA WalkLast ==
  ASSUME NEW t, IsLevels(Len(t.name), t.kids), NEW at \in 0..Len(t.name),
         NEW path \in Seq(Names), path # <<>>
  PROVE  Walk(t, at, path) = WalkStep(t, Walk(t, at, Front(path)), Last(path))
<1> DEFINE len == Len(path)
<1>1. /\ len \in Nat \ {0} /\ Front(path) \in Seq(Names) /\ Len(Front(path)) = len - 1
      /\ \A i \in 1..len - 1 : Front(path)[i] = path[i]
      /\ Last(path) = path[len]
  BY FrontLast
<1>2. PICK w : Walks(t, at, path, w)
  BY WalkExists
<1>3. PICK v : Walks(t, at, Front(path), v)
  BY <1>1, WalkExists
<1> DEFINE m == len - 1
<1>4. m \in Nat /\ m \in 0..m /\ len \in 1..len /\ \A i \in 1..m : i \in 1..len
  BY <1>1
<1>5. /\ w[0] = [ret |-> "OK", var |-> at]
      /\ \A i \in 1..len : w[i] = WalkStep(t, w[i - 1], path[i])
      /\ w[len] = Walk(t, at, path)
  BY <1>2 DEF Walks
<1>6. /\ v[0] = [ret |-> "OK", var |-> at]
      /\ \A i \in 1..m : v[i] = WalkStep(t, v[i - 1], path[i])
      /\ v[m] = Walk(t, at, Front(path))
  BY <1>1, <1>3 DEF Walks
<1>7. w[len] = WalkStep(t, w[m], path[len])
  BY <1>4, <1>5
<1> HIDE DEF m
<1>8. StepAlike(m, w, v)
  BY <1>4, <1>5, <1>6 DEF StepAlike
<1>9. \A i \in 0..m : w[i] = v[i]
  BY <1>4, <1>8, StepsAgree
<1> HIDE DEF len
<1> QED BY <1>1, <1>4, <1>5, <1>6, <1>7, <1>9

(* A walk that succeeds has succeeded before, and is at an entry. *)
LEMMA WalkFacts ==
  ASSUME NEW t, IsLevels(Len(t.name), t.kids), NEW at \in 0..Len(t.name), NEW path \in Seq(Names)
  PROVE  /\ Walk(t, at, path) \in Results(Len(t.name))
         /\ Walk(t, at, path).var \in 0..Len(t.name)
         /\ path # <<>> /\ Walk(t, at, path).ret = "OK" =>
              /\ Walk(t, at, Front(path)).ret = "OK"
              /\ Walk(t, at, path).var \in 1..Len(t.name)
<1>1. PICK w : Walks(t, at, path, w)
  BY WalkExists
<1>2. Walk(t, at, path) \in Results(Len(t.name))
  <2>1. Len(path) \in 0..Len(path)
    <3> Len(path) \in Nat
      BY LenProperties
    <3> QED OBVIOUS
  <2> QED BY <1>1, <2>1 DEF Walks
<1>3. Walk(t, at, path).var \in 0..Len(t.name)
  BY <1>2 DEF Results
<1>4. ASSUME path # <<>>, Walk(t, at, path).ret = "OK"
      PROVE  Walk(t, at, Front(path)).ret = "OK" /\ Walk(t, at, path).var \in 1..Len(t.name)
  <2> DEFINE v == Walk(t, at, Front(path))
  <2>1. Front(path) \in Seq(Names)
    BY <1>4, FrontLast
  <2>2. Walk(t, at, path) = WalkStep(t, v, Last(path))
    BY <1>4, WalkLast
  <2>3. v \in Results(Len(t.name)) /\ v.var \in 0..Len(t.name)
    <3>1. PICK u : Walks(t, at, Front(path), u)
      BY <2>1, WalkExists
    <3>2. Len(Front(path)) \in 0..Len(Front(path))
      <4> Len(Front(path)) \in Nat
        BY <2>1, LenProperties
      <4> QED OBVIOUS
    <3>3. v \in Results(Len(t.name))
      BY <3>1, <3>2 DEF Walks
    <3> HIDE DEF v
    <3> QED BY <3>3 DEF Results
  <2> HIDE DEF v
  <2>4. v.ret = "OK"
    BY <1>4, <2>2 DEF WalkStep
  <2>5. Walk(t, at, path) = Search(t, v.var, Last(path))
    BY <2>2, <2>4 DEF WalkStep
  <2>6. PICK i \in Named(t, v.var, Last(path)) :
          /\ Search(t, v.var, Last(path)) = [ret |-> "OK", var |-> t.kids[v.var][i]]
          /\ t.kids[v.var][i] \in 1..Len(t.name)
    <3>1. Search(t, v.var, Last(path)).ret = "OK"
      BY <1>4, <2>5
    <3> QED BY <2>3, <3>1, SearchFacts
  <2>7. Walk(t, at, path).var = t.kids[v.var][i]
    BY <2>5, <2>6
  <2> QED BY <2>4, <2>6, <2>7 DEF v
<1> QED BY <1>2, <1>3, <1>4

-----------------------------------------------------------------------------
(***************************************************************************)
(* What a new entry does to a list.                                        *)
(***************************************************************************)
IsAdded(t, at, nm, tp, new) ==
  LET n == Len(t.name)
  IN /\ n \in Nat
     /\ new.name \in Seq(Names) /\ Len(new.name) = n + 1 /\ new.name[n + 1] = nm
     /\ new.type \in Seq(VarTypes) /\ Len(new.type) = n + 1 /\ new.type[n + 1] = tp
     /\ \A i \in 1..n : new.name[i] = t.name[i] /\ new.type[i] = t.type[i]
     /\ new.kids[n + 1] = <<>>
     /\ new.kids[at] = Append(t.kids[at], n + 1)
     /\ \A g \in 0..n : g # at => new.kids[g] = t.kids[g]
     /\ new.kids \in [0..n + 1 -> Seq(1..n + 1)]
     /\ Len(new.kids[at]) = Len(t.kids[at]) + 1
     /\ new.kids[at][Len(t.kids[at]) + 1] = n + 1
     /\ \A g \in 0..n : \A i \in 1..Len(t.kids[g]) : new.kids[g][i] = t.kids[g][i]
     /\ \A g \in 0..n : g # at => Len(new.kids[g]) = Len(t.kids[g])

(* Added is what IsAdded says of it. *)
LEMMA AddedIs ==
  ASSUME NEW t, IsTreeOf(t), NEW at \in 0..Len(t.name), NEW nm \in Names, NEW tp \in VarTypes
  PROVE  IsAdded(t, at, nm, tp, Added(t, at, nm, tp))
<1> DEFINE n == Len(t.name)
           new == Added(t, at, nm, tp)
           K == [g \in 0..n + 1 |-> IF g = n + 1 THEN <<>> ELSE IF g = at THEN Append(t.kids[g], n + 1) ELSE t.kids[g]]
<1>1. n \in Nat /\ \A g \in 0..n : t.kids[g] \in Seq(1..n)
  BY DEF IsTreeOf, IsLevels
<1>2. new = [name |-> Append(t.name, nm), type |-> Append(t.type, tp), kids |-> K]
  BY DEF Added, Root
<1>3. new.name = Append(t.name, nm) /\ new.type = Append(t.type, tp) /\ new.kids = K
  BY <1>2
<1>4. /\ new.name \in Seq(Names) /\ Len(new.name) = n + 1 /\ new.name[n + 1] = nm
      /\ \A i \in 1..n : new.name[i] = t.name[i]
  <2>1. t.name \in Seq(Names)
    BY DEF IsTreeOf
  <2> QED BY <2>1, <1>3, AppendProperties
<1>5. /\ new.type \in Seq(VarTypes) /\ Len(new.type) = n + 1 /\ new.type[n + 1] = tp
      /\ \A i \in 1..n : new.type[i] = t.type[i]
  <2>1. t.type \in Seq(VarTypes) /\ Len(t.type) = n
    BY DEF IsTreeOf
  <2>2. /\ Append(t.type, tp) \in Seq(VarTypes) /\ Len(Append(t.type, tp)) = Len(t.type) + 1
        /\ \A i \in 1..Len(t.type) : Append(t.type, tp)[i] = t.type[i]
        /\ Append(t.type, tp)[Len(t.type) + 1] = tp
    BY <2>1, AppendProperties
  <2> HIDE DEF n, new, K
  <2> QED BY <2>1, <2>2, <1>3
<1> HIDE DEF new
<1>6. n + 1 \in 0..n + 1 /\ \A g \in 0..n : g \in 0..n + 1 /\ g # n + 1
  BY <1>1
<1>7. /\ K[n + 1] = <<>> /\ K[at] = Append(t.kids[at], n + 1)
      /\ \A g \in 0..n : g # at => K[g] = t.kids[g]
  BY <1>6
<1>8. \A g \in 0..n : t.kids[g] \in Seq(1..n + 1)
  <2>1. 1..n \subseteq 1..n + 1
    <3> n \in Nat
      BY <1>1
    <3> HIDE DEF n
    <3> QED OBVIOUS
  <2> QED BY <2>1, <1>1, SeqMonotonic
<1>9. /\ Append(t.kids[at], n + 1) \in Seq(1..n + 1)
      /\ Len(Append(t.kids[at], n + 1)) = Len(t.kids[at]) + 1
      /\ \A i \in 1..Len(t.kids[at]) : Append(t.kids[at], n + 1)[i] = t.kids[at][i]
      /\ Append(t.kids[at], n + 1)[Len(t.kids[at]) + 1] = n + 1
  <2>1. n + 1 \in 1..n + 1
    <3> n \in Nat
      BY <1>1
    <3> HIDE DEF n
    <3> QED OBVIOUS
  <2> QED BY <2>1, <1>8, AppendProperties
<1>10. K \in [0..n + 1 -> Seq(1..n + 1)]
  <2>1. <<>> \in Seq(1..n + 1)
    BY EmptySeq
  <2>2. \A g \in 0..n + 1 : g # n + 1 => g \in 0..n
    <3> n \in Nat
      BY <1>1
    <3> HIDE DEF n, K
    <3> QED OBVIOUS
  <2>3. \A g \in 0..n + 1 : K[g] \in Seq(1..n + 1)
    <3> HIDE DEF K
    <3> QED BY <2>1, <2>2, <1>7, <1>8, <1>9
  <2>4. K = [g \in 0..n + 1 |-> K[g]]
    OBVIOUS
  <2> HIDE DEF K
  <2> QED BY <2>3, <2>4
<1> HIDE DEF K, n
<1>11. /\ new.kids[n + 1] = <<>>
       /\ new.kids[at] = Append(t.kids[at], n + 1)
       /\ \A g \in 0..n : g # at => new.kids[g] = t.kids[g]
       /\ new.kids \in [0..n + 1 -> Seq(1..n + 1)]
  BY <1>3, <1>7, <1>10
<1>12. /\ Len(new.kids[at]) = Len(t.kids[at]) + 1
       /\ new.kids[at][Len(t.kids[at]) + 1] = n + 1
       /\ \A g \in 0..n : \A i \in 1..Len(t.kids[g]) : new.kids[g][i] = t.kids[g][i]
       /\ \A g \in 0..n : g # at => Len(new.kids[g]) = Len(t.kids[g])
  BY <1>9, <1>11
<1> QED BY <1>1, <1>4, <1>5, <1>11, <1>12 DEF n, new, IsAdded

(* The positions of a level: those that it had and, at the end of at, one more. *)
PositionsAre(t, at, new, g) ==
  /\ Len(t.kids[at]) \in Nat
  /\ \A i \in 1..Len(t.kids[g]) : i \in 1..Len(new.kids[g])
  /\ \A i \in 1..Len(new.kids[g]) :
       \/ /\ i \in 1..Len(t.kids[g])
          /\ new.kids[g][i] = t.kids[g][i]
          /\ new.kids[g][i] \in 1..Len(t.name)
       \/ g = at /\ i = Len(t.kids[at]) + 1 /\ new.kids[g][i] = Len(t.name) + 1

(* The positions of a level after an entry has been added. *)
LEMMA AddedPositions ==
  ASSUME NEW t, IsTreeOf(t), NEW at \in 0..Len(t.name), NEW nm, NEW tp, NEW new,
         IsAdded(t, at, nm, tp, new), NEW g \in 0..Len(t.name)
  PROVE  PositionsAre(t, at, new, g)
<1> DEFINE n == Len(t.name)
           len(h) == Len(t.kids[h])
<1>1. /\ Len(new.kids[at]) = len(at) + 1
      /\ new.kids[at][len(at) + 1] = n + 1
      /\ \A i \in 1..len(g) : new.kids[g][i] = t.kids[g][i]
      /\ g # at => Len(new.kids[g]) = len(g)
  BY DEF IsAdded
<1>2. len(at) \in Nat /\ len(g) \in Nat /\ \A i \in 1..len(g) : t.kids[g][i] \in 1..n
  BY LevelFacts DEF IsTreeOf
<1> HIDE DEF n, len
<1>3. ASSUME NEW i \in 1..Len(new.kids[g])
      PROVE  \/ i \in 1..len(g) /\ new.kids[g][i] = t.kids[g][i] /\ new.kids[g][i] \in 1..n
             \/ g = at /\ i = len(at) + 1 /\ new.kids[g][i] = n + 1
  <2>1. CASE g # at
    <3>1. i \in 1..len(g)
      BY <2>1, <1>1
    <3> QED BY <3>1, <1>1, <1>2
  <2>2. CASE g = at
    <3>1. i \in 1..len(at) + 1
      BY <2>2, <1>1
    <3>2. i \in 1..len(at) \/ i = len(at) + 1
      BY <3>1, <1>2
    <3> QED BY <2>2, <3>2, <1>1, <1>2
  <2> QED BY <2>1, <2>2
<1>4. ASSUME NEW i \in 1..len(g) PROVE i \in 1..Len(new.kids[g])
  <2>1. Len(new.kids[g]) = len(g) \/ Len(new.kids[g]) = len(g) + 1
    BY <1>1
  <2> QED BY <2>1, <1>2
<1> QED BY <1>2, <1>3, <1>4 DEF n, len, PositionsAre

(* A new entry in the list or in a group of it leaves the levels a tree. *)
LEMMA AddedIsTree ==
  ASSUME NEW t, IsTreeOf(t), NEW at \in 0..Len(t.name), NEW nm \in Names, NEW tp \in VarTypes,
         at = 0 \/ t.type[at] = "GROUP"
  PROVE  IsTreeOf(Added(t, at, nm, tp))
<1> DEFINE n == Len(t.name)
           new == Added(t, at, nm, tp)
           len(g) == Len(t.kids[g])
<1>0. IsAdded(t, at, nm, tp, new)
  BY AddedIs
<1>1. /\ n \in Nat
      /\ new.name \in Seq(Names) /\ Len(new.name) = n + 1
      /\ new.type \in Seq(VarTypes) /\ Len(new.type) = n + 1
      /\ \A i \in 1..n : new.type[i] = t.type[i]
  BY <1>0 DEF IsAdded
<1>2. /\ new.kids[n + 1] = <<>>
      /\ new.kids \in [0..n + 1 -> Seq(1..n + 1)]
      /\ Len(new.kids[at]) = len(at) + 1
      /\ new.kids[at][len(at) + 1] = n + 1
      /\ \A g \in 0..n : \A i \in 1..len(g) : new.kids[g][i] = t.kids[g][i]
      /\ \A g \in 0..n : g # at => Len(new.kids[g]) = len(g)
  BY <1>0 DEF IsAdded
<1>3. IsLevels(n, t.kids) /\ GroupsOnly(t)
  BY DEF IsTreeOf
<1>4. \A g \in 0..n : len(g) \in Nat /\ \A i \in 1..len(g) : t.kids[g][i] \in 1..n
  BY <1>3, LevelFacts
<1> HIDE DEF new, n, len
<1>5. /\ \A g \in 0..n + 1 : g = n + 1 \/ g \in 0..n
      /\ \A g \in 0..n : g \in 0..n + 1
      /\ \A g \in 1..n + 1 : g = n + 1 \/ g \in 1..n
      /\ \A g \in 1..n : g \in 0..n /\ g \in 1..n + 1 /\ g # n + 1
      /\ 1..0 = {} /\ at \in 0..n
  BY <1>1 DEF n
<1>6. ASSUME NEW g \in 0..n, NEW i \in 1..Len(new.kids[g])
      PROVE  \/ i \in 1..len(g) /\ new.kids[g][i] = t.kids[g][i] /\ new.kids[g][i] \in 1..n
             \/ g = at /\ i = len(at) + 1 /\ new.kids[g][i] = n + 1
  <2>1. PositionsAre(t, at, new, g)
    BY <1>0, AddedPositions DEF n
  <2> QED BY <2>1 DEF n, len, PositionsAre
<1>7. ASSUME NEW g \in 0..n, NEW i \in 1..len(g) PROVE i \in 1..Len(new.kids[g])
  <2>1. PositionsAre(t, at, new, g)
    BY <1>0, AddedPositions DEF n
  <2> QED BY <2>1 DEF len, PositionsAre
<1>8. ASSUME NEW g \in 0..n + 1, NEW i \in 1..Len(new.kids[g]) PROVE g \in 0..n
  <2>1. CASE g = n + 1
    <3>1. Len(new.kids[g]) = 0
      BY <2>1, <1>2, EmptySeq
    <3> QED BY <3>1, <1>5
  <2> QED BY <2>1, <1>5
<1>9. ASSUME NEW e \in 1..n + 1
      PROVE  \E g \in 0..n + 1 : \E i \in 1..Len(new.kids[g]) : new.kids[g][i] = e
  <2>1. CASE e \in 1..n
    <3>1. PICK g \in 0..n : \E i \in 1..Len(t.kids[g]) : t.kids[g][i] = e
      BY <2>1, <1>3 DEF IsLevels
    <3>2. PICK i \in 1..len(g) : t.kids[g][i] = e
      BY <3>1 DEF len
    <3> QED BY <3>2, <1>2, <1>5, <1>7
  <2>2. CASE e = n + 1
    <3>1. len(at) \in Nat
      BY <1>4, <1>5
    <3>2. len(at) + 1 \in 1..Len(new.kids[at])
      BY <3>1, <1>2
    <3> QED BY <3>2, <2>2, <1>2, <1>5
  <2> QED BY <2>1, <2>2, <1>5
<1>10. ASSUME NEW g \in 0..n + 1, NEW h \in 0..n + 1,
              NEW i \in 1..Len(new.kids[g]), NEW j \in 1..Len(new.kids[h]),
              new.kids[g][i] = new.kids[h][j]
       PROVE  g = h /\ i = j
  <2>1. g \in 0..n /\ h \in 0..n
    BY <1>8
  <2>2. n + 1 \notin 1..n
    BY <1>1
  <2>3. CASE i \in 1..len(g) /\ j \in 1..len(h) /\ new.kids[g][i] = t.kids[g][i] /\ new.kids[h][j] = t.kids[h][j]
    <3>1. \A a, b \in 0..n : \A k \in 1..len(a) : \A l \in 1..len(b) :
            t.kids[a][k] = t.kids[b][l] => a = b /\ k = l
      BY <1>3 DEF IsLevels, len
    <3>2. t.kids[g][i] = t.kids[h][j]
      BY <2>3, <1>10
    <3> HIDE DEF n, len
    <3> QED BY <2>1, <2>3, <3>1, <3>2
  <2> QED BY <2>1, <2>2, <2>3, <1>6, <1>10
<1>11. IsLevels(Len(new.name), new.kids)
  <2>1. n + 1 \in Nat
    BY <1>1
  <2> QED BY <2>1, <1>1, <1>2, <1>9, <1>10 DEF IsLevels
<1>12. ASSUME NEW g \in 1..n + 1, NEW i \in 1..Len(new.kids[g])
       PROVE  new.type[g] = "GROUP" /\ (new.type[new.kids[g][i]] = "GROUP" => g < new.kids[g][i])
  <2>1. g \in 1..n /\ g \in 0..n
    <3>1. g \in 0..n + 1
      BY <1>1
    <3>2. g \in 0..n
      BY <3>1, <1>8
    <3> QED BY <3>2, <1>1
  <2>2. new.type[g] = t.type[g]
    BY <2>1, <1>1
  <2>3. CASE i \in 1..len(g) /\ new.kids[g][i] = t.kids[g][i] /\ new.kids[g][i] \in 1..n
    <3>1. t.type[g] = "GROUP" /\ (t.type[t.kids[g][i]] = "GROUP" => g < t.kids[g][i])
      BY <2>1, <2>3, <1>3 DEF GroupsOnly, len, n
    <3> QED BY <3>1, <2>2, <2>3, <1>1
  <2>4. CASE g = at /\ i = len(at) + 1 /\ new.kids[g][i] = n + 1
    <3>1. at # 0 /\ g < n + 1
      BY <2>1, <2>4, <1>1
    <3> QED BY <3>1, <2>2, <2>4
  <2> QED BY <2>1, <2>3, <2>4, <1>6
<1>13. GroupsOnly(new)
  BY <1>1, <1>12 DEF GroupsOnly
<1>14. Len(new.type) = Len(new.name)
  BY <1>1
<1>15. new = [name |-> new.name, type |-> new.type, kids |-> new.kids]
  BY DEF new, Added
<1> QED BY <1>1, <1>11, <1>13, <1>14, <1>15 DEF IsTreeOf, new

-----------------------------------------------------------------------------
(***************************************************************************)
(* What was found in a list is found after a new entry has come, and so is *)
(* the new entry if there was none of its name.                            *)
(***************************************************************************)
LEMMA SearchKept ==
  ASSUME NEW t, IsTreeOf(t), NEW at \in 0..Len(t.name), NEW nm, NEW tp, NEW new,
         IsAdded(t, at, nm, tp, new), IsTreeOf(new),
         NEW h \in 0..Len(t.name), NEW x, Search(t, h, x).ret = "OK"
  PROVE  Search(new, h, x) = Search(t, h, x)
<1> DEFINE n == Len(t.name)
<1>1. PICK i \in Named(t, h, x) :
        /\ \A j \in Named(t, h, x) : i <= j
        /\ Search(t, h, x) = [ret |-> "OK", var |-> t.kids[h][i]]
  <2>1. IsLevels(Len(t.name), t.kids)
    BY DEF IsTreeOf
  <2> QED BY <2>1, SearchFacts
<1>2. h \in 0..Len(new.name)
  <2>1. n \in Nat /\ Len(new.name) = n + 1
    BY DEF IsAdded
  <2> QED BY <2>1
<1>3. /\ Len(t.kids[at]) \in Nat
      /\ \A k \in 1..Len(t.kids[h]) : k \in 1..Len(new.kids[h])
      /\ \A k \in 1..Len(new.kids[h]) :
           \/ /\ k \in 1..Len(t.kids[h])
              /\ new.kids[h][k] = t.kids[h][k]
              /\ new.kids[h][k] \in 1..n
           \/ h = at /\ k = Len(t.kids[at]) + 1 /\ new.kids[h][k] = n + 1
  <2>1. PositionsAre(t, at, new, h)
    BY AddedPositions
  <2> QED BY <2>1 DEF PositionsAre
<1>4. /\ \A k \in 1..n : new.name[k] = t.name[k]
      /\ \A k \in 1..Len(t.kids[h]) : new.kids[h][k] = t.kids[h][k]
  BY DEF IsAdded
<1>5. i \in 1..Len(t.kids[h]) /\ t.name[t.kids[h][i]] = x /\ t.kids[h][i] \in 1..n
  BY LevelFacts DEF Named, IsTreeOf
<1>6. i \in Named(new, h, x)
  BY <1>3, <1>4, <1>5 DEF Named
<1>7. ASSUME NEW j \in Named(new, h, x) PROVE i <= j
  <2>1. j \in 1..Len(new.kids[h]) /\ new.name[new.kids[h][j]] = x
    BY DEF Named
  <2>2. CASE j \in 1..Len(t.kids[h]) /\ new.kids[h][j] = t.kids[h][j] /\ new.kids[h][j] \in 1..n
    <3>1. j \in Named(t, h, x)
      BY <2>1, <2>2, <1>4 DEF Named
    <3> QED BY <3>1, <1>1
  <2>3. CASE h = at /\ j = Len(t.kids[at]) + 1
    <3>1. i \in 1..Len(t.kids[at]) /\ Len(t.kids[at]) \in Nat
      BY <2>3, <1>3, <1>5
    <3> QED BY <3>1, <2>3
  <2> QED BY <2>1, <2>2, <2>3, <1>3
<1>8. PICK k \in Named(new, h, x) :
        /\ \A j \in Named(new, h, x) : k <= j
        /\ Search(new, h, x) = [ret |-> "OK", var |-> new.kids[h][k]]
  <2>1. IsLevels(Len(new.name), new.kids)
    BY DEF IsTreeOf
  <2>2. Search(new, h, x).ret = "OK"
    BY <2>1, <1>2, <1>6, SearchFacts
  <2> QED BY <2>1, <2>2, <1>2, SearchFacts
<1>9. k = i
  <2>1. k <= i /\ i <= k /\ k \in 1..Len(new.kids[h])
    BY <1>6, <1>7, <1>8 DEF Named
  <2> QED BY <2>1, <1>5
<1> QED BY <1>1, <1>4, <1>5, <1>8, <1>9

(* No entry of the level had the name. *)
LEMMA NameIsNew ==
  ASSUME NEW t, IsTreeOf(t), NEW at \in 0..Len(t.name), NEW nm, Search(t, at, nm).ret # "OK"
  PROVE  Named(t, at, nm) = {} /\ \A i \in 1..Len(t.kids[at]) : t.name[t.kids[at][i]] # nm
<1>1. Named(t, at, nm) = {}
  <2>1. IsLevels(Len(t.name), t.kids)
    BY DEF IsTreeOf
  <2> QED BY <2>1, SearchFacts
<1> QED BY <1>1 DEF Named

(* A new entry whose name the level did not have is found there. *)
LEMMA NewIsFound ==
  ASSUME NEW t, IsTreeOf(t), NEW at \in 0..Len(t.name), NEW nm, NEW tp, NEW new,
         IsAdded(t, at, nm, tp, new), IsTreeOf(new), Search(t, at, nm).ret # "OK"
  PROVE  Search(new, at, nm) = [ret |-> "OK", var |-> Len(new.name)]
<1> DEFINE n == Len(t.name)
           last == Len(t.kids[at]) + 1
<1>1. Named(t, at, nm) = {}
  BY NameIsNew
<1>2. n \in Nat /\ Len(new.name) = n + 1 /\ new.name[n + 1] = nm
      /\ (\A k \in 1..n : new.name[k] = t.name[k])
      /\ Len(new.kids[at]) = last /\ new.kids[at][last] = n + 1
  BY DEF IsAdded
<1>3. Len(t.kids[at]) \in Nat
      /\ \A k \in 1..Len(new.kids[at]) :
           \/ /\ k \in 1..Len(t.kids[at])
              /\ new.kids[at][k] = t.kids[at][k]
              /\ new.kids[at][k] \in 1..n
           \/ k = last
  <2>1. PositionsAre(t, at, new, at)
    BY AddedPositions
  <2> QED BY <2>1 DEF PositionsAre
<1>4. last \in Named(new, at, nm)
  <2>1. last \in 1..last
    BY <1>3
  <2> HIDE DEF last
  <2> QED BY <2>1, <1>2 DEF Named
<1>5. \A k \in Named(new, at, nm) : k = last
  BY <1>1, <1>2, <1>3 DEF Named
<1>6. at \in 0..Len(new.name)
  BY <1>2
<1>7. IsLevels(Len(new.name), new.kids)
  BY DEF IsTreeOf
<1>8. Search(new, at, nm).ret = "OK"
  BY <1>4, <1>6, <1>7, SearchFacts
<1>9. PICK k \in Named(new, at, nm) : Search(new, at, nm) = [ret |-> "OK", var |-> new.kids[at][k]]
  BY <1>6, <1>7, <1>8, SearchFacts
<1> HIDE DEF last, n
<1> QED BY <1>2, <1>5, <1>9

(* A walk that led somewhere leads there still when an entry has been added. *)
LEMMA WalkKept ==
  ASSUME NEW t, IsTreeOf(t), NEW at \in 0..Len(t.name), NEW nm, NEW tp, NEW new,
         IsAdded(t, at, nm, tp, new), IsTreeOf(new),
         NEW h \in 0..Len(t.name), NEW path \in Seq(Names), Walk(t, h, path).ret = "OK"
  PROVE  Walk(new, h, path) = Walk(t, h, path)
<1> DEFINE Same(p) == Walk(t, h, p).ret = "OK" => Walk(new, h, p) = Walk(t, h, p)
           Failing == {k \in Nat : \E p \in Seq(Names) : Len(p) = k /\ ~Same(p)}
<1> SUFFICES ASSUME ~Same(path) PROVE FALSE
  OBVIOUS
<1>1. IsLevels(Len(t.name), t.kids) /\ IsLevels(Len(new.name), new.kids) /\ h \in 0..Len(new.name)
  <2>1. Len(t.name) \in Nat /\ Len(new.name) = Len(t.name) + 1
    BY DEF IsAdded
  <2>2. h \in 0..Len(new.name)
    BY <2>1
  <2> QED BY <2>2 DEF IsTreeOf
<1>2. Len(path) \in Failing
  BY LenProperties
<1>3. PICK k \in Failing : \A j \in Failing : k <= j
  <2> Failing \subseteq Nat
    OBVIOUS
  <2> HIDE DEF Failing
  <2> QED BY <1>2, LeastNat
<1>4. PICK p \in Seq(Names) : Len(p) = k /\ ~Same(p)
  BY <1>3
<1>5. p # <<>>
  BY <1>1, <1>4, WalkEmpty
<1>6. /\ Front(p) \in Seq(Names) /\ Len(Front(p)) = k - 1 /\ k \in Nat \ {0}
      /\ Last(p) \in Names
  BY <1>4, <1>5, FrontLast
<1>7. k - 1 \in Nat /\ ~(k <= k - 1)
  BY <1>6
<1>8. Same(Front(p))
  <2>1. k - 1 \notin Failing
    <3> HIDE DEF Failing
    <3> QED BY <1>3, <1>7
  <2> HIDE DEF Same
  <2> QED BY <2>1, <1>6, <1>7
<1>9. Walk(t, h, p).ret = "OK" /\ Walk(t, h, Front(p)).ret = "OK" /\ Walk(t, h, Front(p)).var \in 0..Len(t.name)
  BY <1>1, <1>4, <1>5, <1>6, WalkFacts
<1>10. Walk(new, h, Front(p)) = Walk(t, h, Front(p))
  BY <1>8, <1>9
<1> DEFINE v == Walk(t, h, Front(p)).var
<1>11. /\ Walk(t, h, p) = WalkStep(t, Walk(t, h, Front(p)), Last(p))
       /\ Walk(new, h, p) = WalkStep(new, Walk(new, h, Front(p)), Last(p))
  BY <1>1, <1>5, WalkLast
<1>12. Walk(t, h, p) = Search(t, v, Last(p)) /\ Walk(new, h, p) = Search(new, v, Last(p))
  BY <1>9, <1>10, <1>11 DEF WalkStep
<1>13. Search(t, v, Last(p)).ret = "OK" /\ v \in 0..Len(t.name)
  BY <1>9, <1>12
<1> HIDE DEF v
<1>14. Search(new, v, Last(p)) = Search(t, v, Last(p))
  BY <1>13, SearchKept
<1> QED BY <1>4, <1>12, <1>14

(* A list that has entries has one at the top: a group is younger than what it is in. *)
LEMMA TopIsNotEmpty ==
  ASSUME NEW t, IsTreeOf(t), t.kids[0] = <<>>
  PROVE  Len(t.name) = 0
<1> DEFINE n == Len(t.name)
           G == {g \in 1..n : Len(t.kids[g]) # 0}
<1>1. n \in Nat /\ IsLevels(n, t.kids) /\ GroupsOnly(t)
  BY DEF IsTreeOf, IsLevels
<1>2. ASSUME NEW e \in 1..n
      PROVE  \E g \in G : \E i \in 1..Len(t.kids[g]) : t.kids[g][i] = e
  <2>1. PICK g \in 0..n : \E i \in 1..Len(t.kids[g]) : t.kids[g][i] = e
    BY <1>1 DEF IsLevels
  <2>2. Len(t.kids[0]) = 0
    BY EmptySeq
  <2>3. Len(t.kids[g]) # 0
    BY <2>1
  <2>4. g \in 1..n
    BY <2>2, <2>3, <1>1
  <2> QED BY <2>1, <2>3, <2>4
<1> SUFFICES ASSUME n # 0 PROVE FALSE
  OBVIOUS
<1>3. 1 \in 1..n
  BY <1>1
<1>4. G # {} /\ G \subseteq Nat
  <2>1. G \subseteq Nat
    OBVIOUS
  <2> HIDE DEF G, n
  <2> QED BY <2>1, <1>2, <1>3
<1>5. PICK g \in G : \A h \in G : g <= h
  <2> HIDE DEF G
  <2> QED BY <1>4, LeastNat
<1>6. PICK h \in G : \E i \in 1..Len(t.kids[h]) : t.kids[h][i] = g
  BY <1>2
<1>7. PICK i \in 1..Len(t.kids[h]) : t.kids[h][i] = g
  BY <1>6
<1>8. t.type[g] = "GROUP"
  <2>1. g \in 1..n /\ Len(t.kids[g]) \in Nat /\ Len(t.kids[g]) # 0
    <3>1. g \in 1..n /\ g \in 0..n
      BY <1>1
    <3> QED BY <3>1, <1>1, LevelFacts
  <2>2. 1 \in 1..Len(t.kids[g])
    BY <2>1
  <2> QED BY <2>1, <2>2, <1>1 DEF GroupsOnly
<1>9. h < g
  <2>1. h \in 1..n
    OBVIOUS
  <2> QED BY <2>1, <1>1, <1>7, <1>8 DEF GroupsOnly
<1>10. g <= h /\ g \in Nat /\ h \in Nat
  <2> HIDE DEF G
  <2> QED BY <1>4, <1>5
<1> QED BY <1>9, <1>10

-----------------------------------------------------------------------------
(***************************************************************************)
(* What moving an entry does to a list.                                    *)
(***************************************************************************)
LEMMA RemoveAtIs ==
  ASSUME NEW S, NEW s \in Seq(S), NEW p \in 1..Len(s)
  PROVE  /\ RemoveAt(s, p) \in Seq(S)
         /\ Len(RemoveAt(s, p)) = Len(s) - 1
         /\ \A i \in 1..Len(s) - 1 : RemoveAt(s, p)[i] = IF i < p THEN s[i] ELSE s[i + 1]
<1> DEFINE len == Len(s)
           a == SubSeq(s, 1, p - 1)
           b == SubSeq(s, p + 1, len)
<1>1. len \in Nat /\ p \in 1..len /\ p \in Nat /\ p - 1 \in Nat /\ len - p \in Nat /\ p <= len
  BY LenProperties
<1>2. \A i \in 1..len : s[i] \in S
  BY ElementOfSeq
<1>3. /\ a \in Seq(S) /\ Len(a) = p - 1 /\ \A i \in 1..p - 1 : a[i] = s[i]
  <2> DEFINE q == p - 1
  <2>1. \A i \in 1..q : s[i] \in S
    BY <1>1, <1>2
  <2>2. /\ SubSeq(s, 1, q) \in Seq(S)
        /\ Len(SubSeq(s, 1, q)) = IF 1 <= q THEN q - 1 + 1 ELSE 0
        /\ \A i \in 1..q - 1 + 1 : SubSeq(s, 1, q)[i] = s[1 + i - 1]
    <3>1. q \in Int /\ 1 \in Int
      BY <1>1
    <3> HIDE DEF q
    <3> QED BY <2>1, <3>1, SubSeqProperties
  <2>3. (IF 1 <= q THEN q - 1 + 1 ELSE 0) = q /\ q - 1 + 1 = q /\ \A i \in 1..q : 1 + i - 1 = i
    <3>1. q \in Nat
      BY <1>1
    <3> HIDE DEF q
    <3> QED BY <3>1
  <2> QED BY <2>2, <2>3
<1>4. /\ b \in Seq(S) /\ Len(b) = len - p /\ \A i \in 1..len - p : b[i] = s[p + i]
  <2> DEFINE q == p + 1
  <2>1. \A i \in q..len : s[i] \in S
    BY <1>1, <1>2
  <2>2. /\ SubSeq(s, q, len) \in Seq(S)
        /\ Len(SubSeq(s, q, len)) = IF q <= len THEN len - q + 1 ELSE 0
        /\ \A i \in 1..len - q + 1 : SubSeq(s, q, len)[i] = s[q + i - 1]
    <3>1. q \in Int /\ len \in Int
      BY <1>1
    <3> HIDE DEF q, len
    <3> QED BY <2>1, <3>1, SubSeqProperties
  <2>3. (IF q <= len THEN len - q + 1 ELSE 0) = len - p /\ len - q + 1 = len - p
        /\ \A i \in 1..len - p : q + i - 1 = p + i
    <3>1. len \in Nat /\ p \in Nat /\ p <= len
      BY <1>1
    <3> HIDE DEF len
    <3> QED BY <3>1
  <2> QED BY <2>2, <2>3
<1>5. RemoveAt(s, p) = a \o b
  BY DEF RemoveAt
<1> HIDE DEF a, b, len
<1>6. /\ a \o b \in Seq(S) /\ Len(a \o b) = Len(a) + Len(b)
      /\ \A i \in 1..Len(a) + Len(b) : (a \o b)[i] = IF i <= Len(a) THEN a[i] ELSE b[i - Len(a)]
  BY <1>3, <1>4, ConcatProperties
<1>7. Len(a) + Len(b) = len - 1
  BY <1>1, <1>3, <1>4
<1>8. ASSUME NEW i \in 1..len - 1 PROVE RemoveAt(s, p)[i] = IF i < p THEN s[i] ELSE s[i + 1]
  <2>1. RemoveAt(s, p)[i] = IF i <= p - 1 THEN a[i] ELSE b[i - (p - 1)]
    BY <1>3, <1>5, <1>6, <1>7
  <2>2. CASE i < p
    <3>1. i \in 1..p - 1 /\ i <= p - 1
      BY <2>2, <1>1
    <3> QED BY <3>1, <2>1, <2>2, <1>3
  <2>3. CASE ~(i < p)
    <3>1. i - (p - 1) \in 1..len - p /\ ~(i <= p - 1) /\ p + (i - (p - 1)) = i + 1
      BY <2>3, <1>1
    <3> QED BY <3>1, <2>1, <2>3, <1>4
  <2> QED BY <2>2, <2>3
<1> QED BY <1>5, <1>6, <1>7, <1>8 DEF len

(* What moving the top level entry e, at position p, into the group g gives. *)
IsMoved(t, g, e, p, new) ==
  LET n == Len(t.name)
      top == Len(t.kids[0])
  IN /\ new = [name |-> t.name, type |-> t.type, kids |-> new.kids]
     /\ new.kids \in [0..n -> Seq(1..n)]
     /\ Len(new.kids[0]) = top - 1
     /\ \A i \in 1..top - 1 : new.kids[0][i] = IF i < p THEN t.kids[0][i] ELSE t.kids[0][i + 1]
     /\ new.kids[g] = Append(t.kids[g], e)
     /\ Len(new.kids[g]) = Len(t.kids[g]) + 1
     /\ \A i \in 1..Len(t.kids[g]) : new.kids[g][i] = t.kids[g][i]
     /\ new.kids[g][Len(t.kids[g]) + 1] = e
     /\ \A h \in 1..n : h # g => new.kids[h] = t.kids[h]

(* Moved is what IsMoved says of it. *)
LEMMA MovedIs ==
  ASSUME NEW t, IsTreeOf(t), NEW g \in 1..Len(t.name), NEW p \in 1..Len(t.kids[0])
  PROVE  IsMoved(t, g, t.kids[0][p], p, Moved(t, g, t.kids[0][p]))
<1> DEFINE n == Len(t.name)
           e == t.kids[0][p]
           K == [h \in 0..n |-> IF h = 0 THEN RemoveAt(t.kids[h], PositionOf(t, e))
                                ELSE IF h = g THEN Append(t.kids[h], e) ELSE t.kids[h]]
           new == Moved(t, g, e)
<1>0. n \in Nat /\ 0 \in 0..n /\ \A h \in 1..n : h \in 0..n /\ h # 0
  BY DEF IsTreeOf, IsLevels
<1>1. /\ \A h \in 0..n : t.kids[h] \in Seq(1..n)
      /\ DOMAIN t.kids = 0..n
      /\ e \in 1..n
  <2>1. IsLevels(n, t.kids)
    BY DEF IsTreeOf
  <2> QED BY <2>1, <1>0, LevelFacts DEF IsLevels
<1>2. PositionOf(t, e) = p
  <2>1. \A i \in 1..Len(t.kids[0]) : t.kids[0][i] = e => i = p
    BY <1>0 DEF IsTreeOf, IsLevels
  <2>2. PositionOf(t, e) \in 1..Len(t.kids[0]) /\ t.kids[0][PositionOf(t, e)] = e
    BY DEF PositionOf, Root
  <2> QED BY <2>1, <2>2
<1>3. new = [t EXCEPT !.kids = K]
  BY <1>1 DEF Moved, Root
<1> HIDE DEF new, K
<1>4. new = [name |-> t.name, type |-> t.type, kids |-> new.kids] /\ new.kids = K
  <2>1. t = [name |-> t.name, type |-> t.type, kids |-> t.kids]
    BY DEF IsTreeOf
  <2>2. new = [name |-> t.name, type |-> t.type, kids |-> K]
    BY <2>1, <1>3
  <2> QED BY <2>2
<1>5. /\ K[0] = RemoveAt(t.kids[0], p)
      /\ K[g] = Append(t.kids[g], e)
      /\ \A h \in 1..n : h # g => K[h] = t.kids[h]
      /\ K = [h \in 0..n |-> K[h]]
  BY <1>0, <1>2 DEF K
<1> HIDE DEF e
<1>6. /\ K[0] \in Seq(1..n)
      /\ Len(K[0]) = Len(t.kids[0]) - 1
      /\ \A i \in 1..Len(t.kids[0]) - 1 : K[0][i] = IF i < p THEN t.kids[0][i] ELSE t.kids[0][i + 1]
  <2>1. t.kids[0] \in Seq(1..n)
    BY <1>0, <1>1
  <2>2. p \in 1..Len(t.kids[0])
    OBVIOUS
  <2> HIDE DEF n
  <2>3. /\ RemoveAt(t.kids[0], p) \in Seq(1..n)
        /\ Len(RemoveAt(t.kids[0], p)) = Len(t.kids[0]) - 1
        /\ \A i \in 1..Len(t.kids[0]) - 1 :
             RemoveAt(t.kids[0], p)[i] = IF i < p THEN t.kids[0][i] ELSE t.kids[0][i + 1]
    BY <2>1, <2>2, RemoveAtIs
  <2> QED BY <2>3, <1>5
<1>7. /\ K[g] \in Seq(1..n)
      /\ Len(K[g]) = Len(t.kids[g]) + 1
      /\ \A i \in 1..Len(t.kids[g]) : K[g][i] = t.kids[g][i]
      /\ K[g][Len(t.kids[g]) + 1] = e
  <2>1. t.kids[g] \in Seq(1..n)
    BY <1>0, <1>1
  <2> HIDE DEF n
  <2> QED BY <2>1, <1>1, <1>5, AppendProperties
<1>8. K \in [0..n -> Seq(1..n)]
  <2>1. \A h \in 0..n : h = 0 \/ h \in 1..n
    BY <1>0
  <2>2. \A h \in 0..n : K[h] \in Seq(1..n)
    BY <2>1, <1>1, <1>5, <1>6, <1>7
  <2> QED BY <2>2, <1>5
<1> HIDE DEF n
<1> QED BY <1>4, <1>5, <1>6, <1>7, <1>8 DEF IsMoved, n, new, e

(* Where the entry at position j of the level h was before. *)
ComesFrom(t, g, p, h, j, h0, j0) ==
  \/ h = 0 /\ h0 = 0 /\ j0 = IF j < p THEN j ELSE j + 1
  \/ h = g /\ j # Len(t.kids[g]) + 1 /\ h0 = g /\ j0 = j
  \/ h = g /\ j = Len(t.kids[g]) + 1 /\ h0 = 0 /\ j0 = p
  \/ h # 0 /\ h # g /\ h0 = h /\ j0 = j

HasOrigin(t, g, p, new, h, j) ==
  \E h0 \in 0..Len(t.name) : \E j0 \in 1..Len(t.kids[h0]) :
    /\ ComesFrom(t, g, p, h, j, h0, j0)
    /\ new.kids[h][j] = t.kids[h0][j0]

(* Every entry of a level was somewhere before another was moved. *)
LEMMA MovedOrigins ==
  ASSUME NEW t, IsTreeOf(t), NEW g \in 1..Len(t.name), NEW p \in 1..Len(t.kids[0]), NEW new,
         IsMoved(t, g, t.kids[0][p], p, new),
         NEW h \in 0..Len(t.name), NEW j \in 1..Len(new.kids[h])
  PROVE  HasOrigin(t, g, p, new, h, j)
<1> DEFINE n == Len(t.name)
           len(x) == Len(t.kids[x])
           Old(h0, j0) == /\ h0 \in 0..n /\ j0 \in 1..len(h0)
                          /\ ComesFrom(t, g, p, h, j, h0, j0)
                          /\ new.kids[h][j] = t.kids[h0][j0]
<1> SUFFICES \E h0, j0 : Old(h0, j0)
  BY DEF HasOrigin
<1>1. n \in Nat /\ 0 \in 0..n /\ g # 0 /\ g \in 0..n /\ h \in 0..n
  BY DEF IsTreeOf, IsLevels
<1>2. len(0) \in Nat /\ len(g) \in Nat
  <2>1. IsLevels(Len(t.name), t.kids)
    BY DEF IsTreeOf
  <2> QED BY <2>1, <1>1, LevelFacts
<1>3. /\ Len(new.kids[0]) = len(0) - 1
      /\ \A i \in 1..len(0) - 1 : new.kids[0][i] = IF i < p THEN t.kids[0][i] ELSE t.kids[0][i + 1]
      /\ Len(new.kids[g]) = len(g) + 1
      /\ \A i \in 1..len(g) : new.kids[g][i] = t.kids[g][i]
      /\ new.kids[g][len(g) + 1] = t.kids[0][p]
      /\ \A x \in 1..n : x # g => new.kids[x] = t.kids[x]
  BY DEF IsMoved
<1> HIDE DEF n
<1>4. CASE h = 0
  <2>1. j \in 1..len(0) - 1
    BY <1>3, <1>4
  <2>2. j \in Nat /\ j \in 1..len(0) /\ j + 1 \in 1..len(0)
    BY <2>1, <1>2
  <2>3. CASE j < p
    <3>1. Old(0, j)
      BY <2>1, <2>2, <2>3, <1>1, <1>3, <1>4 DEF ComesFrom
    <3> QED BY <3>1
  <2>4. CASE ~(j < p)
    <3>1. Old(0, j + 1)
      BY <2>1, <2>2, <2>4, <1>1, <1>3, <1>4 DEF ComesFrom
    <3> QED BY <3>1
  <2> QED BY <2>3, <2>4
<1>5. CASE h = g
  <2>1. j \in 1..len(g) + 1
    BY <1>3, <1>5
  <2>2. CASE j = len(g) + 1
    <3>1. Old(0, p)
      BY <2>2, <1>1, <1>3, <1>5 DEF ComesFrom
    <3> QED BY <3>1
  <2>3. CASE j # len(g) + 1
    <3>1. j \in 1..len(g)
      BY <2>1, <2>3, <1>2
    <3>2. Old(g, j)
      BY <2>3, <3>1, <1>1, <1>3, <1>5 DEF ComesFrom
    <3> QED BY <3>2
  <2> QED BY <2>2, <2>3
<1>6. CASE h # 0 /\ h # g
  <2>1. h \in 1..n
    BY <1>1, <1>6
  <2>2. Old(h, j)
    BY <2>1, <1>1, <1>3, <1>6 DEF ComesFrom
  <2> QED BY <2>2
<1> QED BY <1>4, <1>5, <1>6

(* A variable moved from the top level into a group leaves the levels a tree. *)
LEMMA MovedIsTree ==
  ASSUME NEW t, IsTreeOf(t), NEW g \in 1..Len(t.name), NEW p \in 1..Len(t.kids[0]),
         t.type[g] = "GROUP", t.type[t.kids[0][p]] # "GROUP"
  PROVE  IsTreeOf(Moved(t, g, t.kids[0][p]))
<1> DEFINE n == Len(t.name)
           len(x) == Len(t.kids[x])
           e == t.kids[0][p]
           new == Moved(t, g, e)
<1>0. IsMoved(t, g, e, p, new)
  BY MovedIs
<1> HIDE DEF new
<1>b. /\ IsLevels(n, t.kids) /\ GroupsOnly(t)
      /\ t.name \in Seq(Names) /\ t.type \in Seq(VarTypes) /\ Len(t.type) = n
  BY DEF IsTreeOf
<1>1. n \in Nat /\ 0 \in 0..n /\ g # 0 /\ g \in 0..n /\ IsLevels(n, t.kids) /\ GroupsOnly(t)
  <2>1. n \in Nat
    BY <1>b DEF IsLevels
  <2>2. g \in 1..n
    OBVIOUS
  <2> HIDE DEF n
  <2>3. 0 \in 0..n /\ g # 0 /\ g \in 0..n
    BY <2>1, <2>2
  <2> QED BY <1>b, <2>1, <2>3
<1>2. \A x \in 0..n : len(x) \in Nat
  BY <1>1, LevelFacts
<1>a. new = [name |-> t.name, type |-> t.type, kids |-> new.kids]
  BY <1>0 DEF IsMoved
<1>3. /\ new.name = t.name /\ new.type = t.type
      /\ new.kids \in [0..n -> Seq(1..n)]
      /\ Len(new.kids[0]) = len(0) - 1
      /\ \A i \in 1..len(0) - 1 : new.kids[0][i] = IF i < p THEN t.kids[0][i] ELSE t.kids[0][i + 1]
      /\ Len(new.kids[g]) = len(g) + 1
      /\ \A i \in 1..len(g) : new.kids[g][i] = t.kids[g][i]
      /\ new.kids[g][len(g) + 1] = e
      /\ \A x \in 1..n : x # g => new.kids[x] = t.kids[x]
  <2> HIDE DEF n, e, len
  <2>1. new.name = t.name /\ new.type = t.type
    BY <1>a
  <2> USE DEF n, e, len
  <2> QED BY <2>1, <1>0 DEF IsMoved
<1>4. ASSUME NEW h \in 0..n, NEW j \in 1..Len(new.kids[h])
      PROVE  \E h0 \in 0..n : \E j0 \in 1..len(h0) :
               ComesFrom(t, g, p, h, j, h0, j0) /\ new.kids[h][j] = t.kids[h0][j0]
  <2>1. HasOrigin(t, g, p, new, h, j)
    BY <1>0, MovedOrigins
  <2> QED BY <2>1 DEF HasOrigin
<1> HIDE DEF n
<1>5. ASSUME NEW x \in 1..n
      PROVE  \E h \in 0..n : \E j \in 1..Len(new.kids[h]) : new.kids[h][j] = x
  <2>1. PICK h \in 0..n : \E i \in 1..Len(t.kids[h]) : t.kids[h][i] = x
    BY <1>1 DEF IsLevels
  <2>2. PICK i \in 1..len(h) : t.kids[h][i] = x
    BY <2>1
  <2>3. CASE h = 0 /\ i < p
    <3>1. i \in 1..len(0) - 1
      BY <2>2, <2>3, <1>1, <1>2
    <3> QED BY <3>1, <2>2, <2>3, <1>1, <1>3
  <2>4. CASE h = 0 /\ i = p
    <3>1. len(g) + 1 \in 1..Len(new.kids[g])
      BY <1>1, <1>2, <1>3
    <3> QED BY <3>1, <2>2, <2>4, <1>1, <1>3
  <2>5. CASE h = 0 /\ p < i
    <3>1. i - 1 \in 1..len(0) - 1 /\ ~(i - 1 < p) /\ (i - 1) + 1 = i
      BY <2>2, <2>5, <1>1, <1>2
    <3>2. new.kids[0][i - 1] = x
      BY <3>1, <2>2, <2>5, <1>3
    <3> QED BY <3>1, <3>2, <1>1, <1>3
  <2>6. CASE h = g
    <3>1. i \in 1..Len(new.kids[g])
      BY <2>2, <2>6, <1>1, <1>2, <1>3
    <3> QED BY <3>1, <2>2, <2>6, <1>1, <1>3
  <2>7. CASE h # 0 /\ h # g
    <3>1. h \in 1..n
      BY <2>7, <1>1
    <3> QED BY <3>1, <2>2, <2>7, <1>3
  <2>8. h = 0 => i < p \/ i = p \/ p < i
    BY <2>2, <1>1, <1>2
  <2> QED BY <2>3, <2>4, <2>5, <2>6, <2>7, <2>8
<1>6. ASSUME NEW h \in 0..n, NEW k \in 0..n,
             NEW i \in 1..Len(new.kids[h]), NEW j \in 1..Len(new.kids[k]),
             new.kids[h][i] = new.kids[k][j]
      PROVE  h = k /\ i = j
  <2>a. PICK h0 \in 0..n : \E i0 \in 1..len(h0) :
          ComesFrom(t, g, p, h, i, h0, i0) /\ new.kids[h][i] = t.kids[h0][i0]
    BY <1>4
  <2>1. PICK i0 \in 1..len(h0) :
          ComesFrom(t, g, p, h, i, h0, i0) /\ new.kids[h][i] = t.kids[h0][i0]
    BY <2>a
  <2>b. PICK k0 \in 0..n : \E j0 \in 1..len(k0) :
          ComesFrom(t, g, p, k, j, k0, j0) /\ new.kids[k][j] = t.kids[k0][j0]
    BY <1>4
  <2>2. PICK j0 \in 1..len(k0) :
          ComesFrom(t, g, p, k, j, k0, j0) /\ new.kids[k][j] = t.kids[k0][j0]
    BY <2>b
  <2>3. h0 = k0 /\ i0 = j0
    <3>1. \A a, b \in 0..n : \A x \in 1..len(a) : \A y \in 1..len(b) :
            t.kids[a][x] = t.kids[b][y] => a = b /\ x = y
      BY <1>1 DEF IsLevels
    <3>2. t.kids[h0][i0] = t.kids[k0][j0]
      BY <2>1, <2>2, <1>6
    <3> HIDE DEF len
    <3> QED BY <2>1, <2>2, <3>1, <3>2
  <2>4. i \in Nat /\ j \in Nat /\ p \in Nat /\ len(g) \in Nat
    BY <1>1, <1>2
  <2> HIDE DEF len
  <2> QED BY <2>1, <2>2, <2>3, <2>4, <1>1 DEF ComesFrom, len
<1>7. IsLevels(Len(new.name), new.kids)
  <2>1. IsLevels(n, new.kids)
    BY <1>1, <1>3, <1>5, <1>6 DEF IsLevels
  <2> QED BY <2>1, <1>3 DEF n
<1>8. ASSUME NEW h \in 1..n, NEW j \in 1..Len(new.kids[h])
      PROVE  t.type[h] = "GROUP" /\ (t.type[new.kids[h][j]] = "GROUP" => h < new.kids[h][j])
  <2>1. h \in 0..n /\ h # 0
    BY <1>1
  <2>a. PICK h0 \in 0..n : \E j0 \in 1..len(h0) :
          ComesFrom(t, g, p, h, j, h0, j0) /\ new.kids[h][j] = t.kids[h0][j0]
    BY <2>1, <1>4
  <2>2. PICK j0 \in 1..len(h0) :
          ComesFrom(t, g, p, h, j, h0, j0) /\ new.kids[h][j] = t.kids[h0][j0]
    BY <2>a
  <2>3. CASE h0 = h
    <3>1. h0 \in 1..n
      BY <2>3
    <3> QED BY <2>2, <2>3, <3>1, <1>1 DEF GroupsOnly, n
  <2>4. CASE h = g /\ h0 = 0 /\ j0 = p
    BY <2>2, <2>4
  <2> QED BY <2>1, <2>2, <2>3, <2>4 DEF ComesFrom
<1>9. GroupsOnly(new)
  BY <1>3, <1>8 DEF GroupsOnly, n
<1>10. IsTreeOf(new)
  BY <1>a, <1>b, <1>3, <1>7, <1>9 DEF IsTreeOf, n
<1> QED BY <1>10 DEF new

-----------------------------------------------------------------------------
(***************************************************************************)
(* The links of n entries are those of the levels kids.                    *)
(***************************************************************************)
PrevIsOf(n, kids, pv) ==
  \A g \in 0..n : \A i \in 1..Len(kids[g]) :
    pv[kids[g][i]] = IF i = 1 THEN g ELSE kids[g][i - 1]

IsLinked(n, kids, a, nx, nl, pv) ==
  /\ nx \in Seq(Nat) /\ Len(nx) = n
  /\ nl \in Seq(Nat) /\ Len(nl) = n
  /\ pv \in Seq(Nat) /\ Len(pv) = n
  /\ a = FirstIn(kids[0])
  /\ \A g \in 1..n : nl[g] = FirstIn(kids[g])
  /\ NextIsOf(n, kids, nx)
  /\ PrevIsOf(n, kids, pv)

(* The links of a new entry, last on its level. *)
AddsLinks(t, at, a, nx, nl, pv, a1, nx1, nl1, pv1) ==
  LET new == Len(t.name) + 1
      last == Last(t.kids[at])
  IN /\ a1 = IF t.kids[at] = <<>> /\ at = 0 THEN new ELSE a
     /\ nx1 = Append(IF t.kids[at] = <<>> THEN nx ELSE [nx EXCEPT ![last] = new], 0)
     /\ nl1 = Append(IF t.kids[at] = <<>> /\ at # 0 THEN [nl EXCEPT ![at] = new] ELSE nl, 0)
     /\ pv1 = Append(pv, IF t.kids[at] = <<>> THEN at ELSE last)

(* The links that a new entry changes are those of the levels with it. *)
LEMMA AddedIsLinked ==
  ASSUME NEW t, IsTreeOf(t), NEW at \in 0..Len(t.name), NEW nm, NEW tp, NEW new,
         IsAdded(t, at, nm, tp, new),
         NEW a, NEW nx, NEW nl, NEW pv, IsLinked(Len(t.name), t.kids, a, nx, nl, pv),
         NEW a1, NEW nx1, NEW nl1, NEW pv1, AddsLinks(t, at, a, nx, nl, pv, a1, nx1, nl1, pv1)
  PROVE  IsLinked(Len(new.name), new.kids, a1, nx1, nl1, pv1)
<1> DEFINE n == Len(t.name)
           len(g) == Len(t.kids[g])
           last == t.kids[at][len(at)]
           free == t.kids[at] = <<>>
<1>1. /\ n \in Nat /\ Len(new.name) = n + 1
      /\ new.kids[n + 1] = <<>>
      /\ \A g \in 0..n : g # at => new.kids[g] = t.kids[g]
      /\ Len(new.kids[at]) = len(at) + 1
      /\ new.kids[at][len(at) + 1] = n + 1
      /\ \A g \in 0..n : \A i \in 1..len(g) : new.kids[g][i] = t.kids[g][i]
  BY DEF IsAdded
<1>2. /\ IsLevels(n, t.kids)
      /\ at \in 0..n
  BY DEF IsTreeOf
<1>3. ASSUME NEW g \in 0..n
      PROVE  /\ len(g) \in Nat
             /\ \A i \in 1..len(g) : t.kids[g][i] \in 1..n
             /\ t.kids[g] # <<>> => len(g) \in 1..len(g) /\ 1 \in 1..len(g) /\ FirstIn(t.kids[g]) = t.kids[g][1]
             /\ t.kids[g] = <<>> => len(g) = 0 /\ FirstIn(t.kids[g]) = 0
  BY <1>2, LevelFacts DEF FirstIn
<1>4. \A g, h \in 0..n : \A i \in 1..len(g) : \A j \in 1..len(h) :
        t.kids[g][i] = t.kids[h][j] => g = h /\ i = j
  BY <1>2 DEF IsLevels
<1>5. /\ nx \in Seq(Nat) /\ Len(nx) = n
      /\ nl \in Seq(Nat) /\ Len(nl) = n
      /\ pv \in Seq(Nat) /\ Len(pv) = n
      /\ a = FirstIn(t.kids[0])
      /\ \A g \in 1..n : nl[g] = FirstIn(t.kids[g])
  BY DEF IsLinked
<1>6. /\ \A g \in 0..n : \A i \in 1..len(g) : nx[t.kids[g][i]] = IF i = len(g) THEN 0 ELSE t.kids[g][i + 1]
      /\ \A g \in 0..n : \A i \in 1..len(g) : pv[t.kids[g][i]] = IF i = 1 THEN g ELSE t.kids[g][i - 1]
  BY DEF IsLinked, NextIsOf, PrevIsOf
<1>7. /\ a1 = IF free /\ at = 0 THEN n + 1 ELSE a
      /\ nx1 = Append(IF free THEN nx ELSE [nx EXCEPT ![last] = n + 1], 0)
      /\ nl1 = Append(IF free /\ at # 0 THEN [nl EXCEPT ![at] = n + 1] ELSE nl, 0)
      /\ pv1 = Append(pv, IF free THEN at ELSE last)
  BY DEF AddsLinks, Last
<1>8. ~free => last \in 1..n
  BY <1>2, <1>3
<1>9. /\ \A g \in 0..n + 1 : g = n + 1 \/ g \in 0..n
      /\ \A g \in 1..n + 1 : g = n + 1 \/ g \in 1..n
      /\ \A g \in 1..n : g \in 0..n /\ g # 0
      /\ n + 1 \notin 0..n /\ n + 1 \in Nat /\ at # n + 1 /\ 0 \in 0..n
      /\ \A g \in 0..n : g \in Nat
  <2> n \in Nat /\ at \in 0..n
    BY <1>1, <1>2
  <2> HIDE DEF n
  <2> QED OBVIOUS
<1> HIDE DEF n, free, last
<1>10. /\ nx1 \in Seq(Nat) /\ Len(nx1) = n + 1 /\ nx1[n + 1] = 0
       /\ \A x \in 1..n : nx1[x] = IF ~free /\ x = last THEN n + 1 ELSE nx[x]
  <2> DEFINE mx == IF free THEN nx ELSE [nx EXCEPT ![last] = n + 1]
  <2>1. mx \in Seq(Nat) /\ Len(mx) = n /\ \A x \in 1..n : mx[x] = IF ~free /\ x = last THEN n + 1 ELSE nx[x]
    <3>1. CASE free
      BY <3>1, <1>5
    <3>2. CASE ~free
      <4>1. last \in 1..Len(nx) /\ n + 1 \in Nat /\ nx \in Seq(Nat)
        BY <3>2, <1>5, <1>8, <1>9
      <4>2. /\ [nx EXCEPT ![last] = n + 1] \in Seq(Nat)
            /\ Len([nx EXCEPT ![last] = n + 1]) = Len(nx)
            /\ \A x \in 1..Len(nx) : [nx EXCEPT ![last] = n + 1][x] = IF x = last THEN n + 1 ELSE nx[x]
        BY <4>1, ExceptSeq
      <4> QED BY <3>2, <4>2, <1>5
    <3> QED BY <3>1, <3>2
  <2>2. nx1 = Append(mx, 0)
    BY <1>7
  <2> HIDE DEF mx
  <2>3. /\ Append(mx, 0) \in Seq(Nat) /\ Len(Append(mx, 0)) = Len(mx) + 1
        /\ \A x \in 1..Len(mx) : Append(mx, 0)[x] = mx[x]
        /\ Append(mx, 0)[Len(mx) + 1] = 0
    BY <2>1, AppendProperties
  <2> QED BY <2>1, <2>2, <2>3
<1>11. /\ nl1 \in Seq(Nat) /\ Len(nl1) = n + 1 /\ nl1[n + 1] = 0
       /\ \A x \in 1..n : nl1[x] = IF free /\ x = at THEN n + 1 ELSE nl[x]
  <2> DEFINE mx == IF free /\ at # 0 THEN [nl EXCEPT ![at] = n + 1] ELSE nl
  <2>1. mx \in Seq(Nat) /\ Len(mx) = n /\ \A x \in 1..n : mx[x] = IF free /\ x = at THEN n + 1 ELSE nl[x]
    <3>1. CASE ~(free /\ at # 0)
      BY <3>1, <1>5, <1>9
    <3>2. CASE free /\ at # 0
      <4>1. at \in 1..Len(nl) /\ n + 1 \in Nat /\ nl \in Seq(Nat)
        <5>1. at \in 1..n
          BY <3>2, <1>1, <1>2
        <5> QED BY <5>1, <1>5, <1>9
      <4>2. /\ [nl EXCEPT ![at] = n + 1] \in Seq(Nat)
            /\ Len([nl EXCEPT ![at] = n + 1]) = Len(nl)
            /\ \A x \in 1..Len(nl) : [nl EXCEPT ![at] = n + 1][x] = IF x = at THEN n + 1 ELSE nl[x]
        BY <4>1, ExceptSeq
      <4> QED BY <3>2, <4>2, <1>5
    <3> QED BY <3>1, <3>2
  <2>2. nl1 = Append(mx, 0)
    BY <1>7
  <2> HIDE DEF mx
  <2>3. /\ Append(mx, 0) \in Seq(Nat) /\ Len(Append(mx, 0)) = Len(mx) + 1
        /\ \A x \in 1..Len(mx) : Append(mx, 0)[x] = mx[x]
        /\ Append(mx, 0)[Len(mx) + 1] = 0
    BY <2>1, AppendProperties
  <2> QED BY <2>1, <2>2, <2>3
<1>12. /\ pv1 \in Seq(Nat) /\ Len(pv1) = n + 1 /\ pv1[n + 1] = IF free THEN at ELSE last
       /\ \A x \in 1..n : pv1[x] = pv[x]
  <2> DEFINE y == IF free THEN at ELSE last
  <2>1. y \in Nat
    BY <1>2, <1>8, <1>9
  <2> HIDE DEF y
  <2>2. pv1 = Append(pv, y)
    BY <1>7 DEF y
  <2>3. /\ Append(pv, y) \in Seq(Nat) /\ Len(Append(pv, y)) = Len(pv) + 1
        /\ \A x \in 1..Len(pv) : Append(pv, y)[x] = pv[x]
        /\ Append(pv, y)[Len(pv) + 1] = y
    BY <2>1, <1>5, AppendProperties
  <2> QED BY <2>2, <2>3, <1>5 DEF y
<1>13. FirstIn(new.kids[at]) = IF free THEN n + 1 ELSE t.kids[at][1]
  <2>1. new.kids[at] # <<>>
    <3>1. Len(new.kids[at]) # 0
      BY <1>1, <1>2, <1>3
    <3> QED BY <3>1, EmptySeq
  <2>2. CASE free
    BY <2>1, <2>2, <1>1, <1>2, <1>3 DEF FirstIn, free
  <2>3. CASE ~free
    BY <2>1, <2>3, <1>1, <1>2, <1>3 DEF FirstIn, free
  <2> QED BY <2>2, <2>3
<1>14. a1 = FirstIn(new.kids[0])
  <2>1. CASE at = 0
    BY <2>1, <1>3, <1>5, <1>7, <1>9, <1>13 DEF free
  <2>2. CASE at # 0
    BY <2>2, <1>1, <1>5, <1>7, <1>9
  <2> QED BY <2>1, <2>2
<1>15. ASSUME NEW g \in 1..n + 1 PROVE nl1[g] = FirstIn(new.kids[g])
  <2>1. CASE g = n + 1
    BY <2>1, <1>1, <1>11 DEF FirstIn
  <2>2. CASE g \in 1..n /\ g # at
    BY <2>2, <1>1, <1>5, <1>9, <1>11
  <2>3. CASE g \in 1..n /\ g = at
    BY <2>3, <1>3, <1>5, <1>9, <1>11, <1>13 DEF free
  <2> QED BY <2>1, <2>2, <2>3, <1>9
<1>16. ASSUME NEW g \in 0..n + 1, NEW i \in 1..Len(new.kids[g])
       PROVE  /\ g \in 0..n
              /\ \/ i \in 1..len(g) /\ new.kids[g][i] = t.kids[g][i] /\ new.kids[g][i] \in 1..n
                 \/ g = at /\ i = len(at) + 1 /\ new.kids[g][i] = n + 1
  <2>1. g \in 0..n
    <3>1. Len(<<>>) = 0
      BY EmptySeq
    <3> QED BY <3>1, <1>1, <1>9
  <2>2. PositionsAre(t, at, new, g)
    BY <2>1, AddedPositions DEF n
  <2> QED BY <2>1, <2>2 DEF PositionsAre, n, len
<1>17. ASSUME NEW g \in 0..n + 1, NEW i \in 1..Len(new.kids[g])
       PROVE  nx1[new.kids[g][i]] = IF i = Len(new.kids[g]) THEN 0 ELSE new.kids[g][i + 1]
  <2>1. g \in 0..n
    BY <1>16
  <2>2. len(g) \in Nat /\ len(at) \in Nat
    BY <2>1, <1>2, <1>3
  <2>3. CASE i \in 1..len(g) /\ new.kids[g][i] = t.kids[g][i] /\ new.kids[g][i] \in 1..n
    <3>1. nx[t.kids[g][i]] = IF i = len(g) THEN 0 ELSE t.kids[g][i + 1]
      BY <2>1, <2>3, <1>6
    <3>2. i # len(g) => i + 1 \in 1..len(g) /\ new.kids[g][i + 1] = t.kids[g][i + 1]
      <4>1. i # len(g) => i + 1 \in 1..len(g)
        BY <2>2, <2>3
      <4> QED BY <4>1, <2>1, <1>1
    <3>3. CASE g # at
      <4>1. new.kids[g] = t.kids[g]
        BY <2>1, <3>3, <1>1
      <4>2. ~free => t.kids[g][i] # last
        BY <2>1, <2>3, <3>3, <1>2, <1>3, <1>4 DEF last, free
      <4> QED BY <2>3, <3>1, <4>1, <4>2, <1>10
    <3>4. CASE g = at /\ i = len(at)
      <4>1. ~free /\ t.kids[g][i] = last
        BY <2>3, <3>4, <1>2, <1>3 DEF free, last
      <4>2. i # Len(new.kids[g]) /\ new.kids[g][i + 1] = n + 1
        BY <2>2, <3>4, <1>1
      <4> QED BY <2>3, <4>1, <4>2, <1>10
    <3>5. CASE g = at /\ i # len(at)
      <4>1. ~free => t.kids[g][i] # last
        BY <2>1, <2>3, <3>5, <1>2, <1>3, <1>4 DEF last, free
      <4>2. i # Len(new.kids[g])
        BY <2>2, <2>3, <3>5, <1>1
      <4> QED BY <2>3, <3>1, <3>2, <3>5, <4>1, <4>2, <1>10
    <3> QED BY <3>3, <3>4, <3>5
  <2>4. CASE g = at /\ i = len(at) + 1 /\ new.kids[g][i] = n + 1
    BY <2>4, <1>1, <1>10
  <2> QED BY <2>3, <2>4, <1>16
<1>18. ASSUME NEW g \in 0..n + 1, NEW i \in 1..Len(new.kids[g])
       PROVE  pv1[new.kids[g][i]] = IF i = 1 THEN g ELSE new.kids[g][i - 1]
  <2>1. g \in 0..n
    BY <1>16
  <2>2. len(g) \in Nat /\ len(at) \in Nat
    BY <2>1, <1>2, <1>3
  <2>3. CASE i \in 1..len(g) /\ new.kids[g][i] = t.kids[g][i] /\ new.kids[g][i] \in 1..n
    <3>1. i # 1 => i - 1 \in 1..len(g)
      BY <2>2, <2>3
    <3>2. i # 1 => new.kids[g][i - 1] = t.kids[g][i - 1]
      BY <2>1, <3>1, <1>1
    <3>3. pv1[new.kids[g][i]] = pv[t.kids[g][i]]
      BY <2>3, <1>12
    <3>4. pv[t.kids[g][i]] = IF i = 1 THEN g ELSE t.kids[g][i - 1]
      BY <2>1, <2>3, <1>6
    <3> QED BY <3>2, <3>3, <3>4
  <2>4. CASE g = at /\ i = len(at) + 1 /\ new.kids[g][i] = n + 1
    <3>1. CASE free
      <4>1. i = 1
        BY <2>4, <3>1, <1>2, <1>3 DEF free
      <4> QED BY <2>4, <3>1, <4>1, <1>12
    <3>2. CASE ~free
      <4>1. i # 1 /\ i - 1 = len(at) /\ len(at) \in 1..len(at)
        BY <2>2, <2>4, <3>2, <1>2, <1>3 DEF free
      <4>2. new.kids[g][i - 1] = last
        BY <2>4, <4>1, <1>1, <1>2 DEF last
      <4> QED BY <2>4, <3>2, <4>1, <4>2, <1>12
    <3> QED BY <3>1, <3>2
  <2> QED BY <2>3, <2>4, <1>16
<1>19. NextIsOf(n + 1, new.kids, nx1) /\ PrevIsOf(n + 1, new.kids, pv1)
  BY <1>17, <1>18 DEF NextIsOf, PrevIsOf
<1>20. IsLinked(n + 1, new.kids, a1, nx1, nl1, pv1)
  BY <1>10, <1>11, <1>12, <1>14, <1>15, <1>19 DEF IsLinked
<1> QED BY <1>1, <1>20

(* The links of an entry that is moved to the end of a group's level. *)
MovesLinks(t, g, e, a, nx, nl, pv, a1, nx1, nl1, pv1) ==
  LET n == Len(t.name)
      free == t.kids[g] = <<>>
      last == Last(t.kids[g])
  IN /\ a1 = IF pv[e] = 0 THEN nx[e] ELSE a
     /\ nx1 \in Seq(Nat) /\ Len(nx1) = n
     /\ nl1 \in Seq(Nat) /\ Len(nl1) = n
     /\ pv1 \in Seq(Nat) /\ Len(pv1) = n
     /\ \A x \in 1..n : nx1[x] = IF ~free /\ x = last THEN e
                                 ELSE IF x = e THEN 0
                                 ELSE IF x = pv[e] THEN nx[e] ELSE nx[x]
     /\ \A x \in 1..n : nl1[x] = IF free /\ x = g THEN e ELSE nl[x]
     /\ \A x \in 1..n : pv1[x] = IF x = e THEN (IF free THEN g ELSE last)
                                 ELSE IF x = nx[e] THEN pv[e] ELSE pv[x]

(* The links that moving an entry changes are those of the levels after it. *)
LEMMA MovedIsLinked ==
  ASSUME NEW t, IsTreeOf(t), NEW g \in 1..Len(t.name), NEW p \in 1..Len(t.kids[0]), NEW new,
         IsMoved(t, g, t.kids[0][p], p, new),
         NEW a, NEW nx, NEW nl, NEW pv, IsLinked(Len(t.name), t.kids, a, nx, nl, pv),
         NEW a1, NEW nx1, NEW nl1, NEW pv1,
         MovesLinks(t, g, t.kids[0][p], a, nx, nl, pv, a1, nx1, nl1, pv1)
  PROVE  IsLinked(Len(new.name), new.kids, a1, nx1, nl1, pv1)
<1> DEFINE n == Len(t.name)
           len(h) == Len(t.kids[h])
           e == t.kids[0][p]
           last == t.kids[g][len(g)]
           free == t.kids[g] = <<>>
<1>1. /\ IsLevels(n, t.kids)
      /\ n \in Nat
      /\ g \in 0..n /\ 0 \in 0..n /\ g # 0
      /\ \A h \in 1..n : h \in 0..n /\ h # 0
      /\ \A h \in 0..n : h # 0 => h \in 1..n
  <2>1. IsLevels(n, t.kids)
    BY DEF IsTreeOf
  <2>2. n \in Nat
    BY <2>1 DEF IsLevels
  <2> QED BY <2>1, <2>2
<1>2. /\ Len(new.name) = n
      /\ Len(new.kids[0]) = len(0) - 1
      /\ \A i \in 1..len(0) - 1 : new.kids[0][i] = IF i < p THEN t.kids[0][i] ELSE t.kids[0][i + 1]
      /\ Len(new.kids[g]) = len(g) + 1
      /\ \A i \in 1..len(g) : new.kids[g][i] = t.kids[g][i]
      /\ new.kids[g][len(g) + 1] = e
      /\ \A h \in 1..n : h # g => new.kids[h] = t.kids[h]
  <2>1. new.name = t.name
    <3>1. new = [name |-> t.name, type |-> t.type, kids |-> new.kids]
      BY DEF IsMoved
    <3> QED BY <3>1
  <2> QED BY <2>1 DEF IsMoved
<1>3. ASSUME NEW h \in 0..n
      PROVE  /\ len(h) \in Nat
             /\ \A i \in 1..len(h) : t.kids[h][i] \in 1..n
             /\ t.kids[h] # <<>> => len(h) \in 1..len(h) /\ 1 \in 1..len(h) /\ FirstIn(t.kids[h]) = t.kids[h][1]
             /\ t.kids[h] = <<>> => len(h) = 0 /\ FirstIn(t.kids[h]) = 0
  BY <1>1, LevelFacts DEF FirstIn
<1>4. \A h, k \in 0..n : \A i \in 1..len(h) : \A j \in 1..len(k) :
        t.kids[h][i] = t.kids[k][j] => h = k /\ i = j
  BY <1>1 DEF IsLevels
<1>5. /\ a = FirstIn(t.kids[0])
      /\ \A h \in 1..n : nl[h] = FirstIn(t.kids[h])
      /\ \A h \in 0..n : \A i \in 1..len(h) : nx[t.kids[h][i]] = IF i = len(h) THEN 0 ELSE t.kids[h][i + 1]
      /\ \A h \in 0..n : \A i \in 1..len(h) : pv[t.kids[h][i]] = IF i = 1 THEN h ELSE t.kids[h][i - 1]
  BY DEF IsLinked, NextIsOf, PrevIsOf
<1>6. /\ a1 = IF pv[e] = 0 THEN nx[e] ELSE a
      /\ nx1 \in Seq(Nat) /\ Len(nx1) = n
      /\ nl1 \in Seq(Nat) /\ Len(nl1) = n
      /\ pv1 \in Seq(Nat) /\ Len(pv1) = n
  BY DEF MovesLinks
<1>7. /\ \A x \in 1..n : nx1[x] = IF ~free /\ x = last THEN e
                                 ELSE IF x = e THEN 0
                                 ELSE IF x = pv[e] THEN nx[e] ELSE nx[x]
      /\ \A x \in 1..n : nl1[x] = IF free /\ x = g THEN e ELSE nl[x]
      /\ \A x \in 1..n : pv1[x] = IF x = e THEN (IF free THEN g ELSE last)
                                 ELSE IF x = nx[e] THEN pv[e] ELSE pv[x]
  BY DEF MovesLinks, Last
<1>8. /\ e \in 1..n
      /\ nx[e] = IF p = len(0) THEN 0 ELSE t.kids[0][p + 1]
      /\ pv[e] = IF p = 1 THEN 0 ELSE t.kids[0][p - 1]
      /\ len(0) \in Nat /\ len(g) \in Nat
  BY <1>1, <1>3, <1>5
<1>9. /\ p # len(0) => p + 1 \in 1..len(0)
      /\ p # 1 => p - 1 \in 1..len(0)
  BY <1>8
<1>10. ~free => last \in 1..n /\ len(g) \in 1..len(g)
  BY <1>1, <1>3
<1> HIDE DEF n, free, last
(* What no other entry is. *)
<1>11. ASSUME NEW h \in 0..n, NEW i \in 1..len(h)
       PROVE  /\ t.kids[h][i] \in 1..n
              /\ t.kids[h][i] = e <=> h = 0 /\ i = p
              /\ t.kids[h][i] = nx[e] <=> h = 0 /\ p # len(0) /\ i = p + 1
              /\ t.kids[h][i] = pv[e] <=> h = 0 /\ p # 1 /\ i = p - 1
              /\ ~free /\ t.kids[h][i] = last <=> h = g /\ i = len(g)
  <2>1. t.kids[h][i] \in 1..n /\ t.kids[h][i] # 0
    BY <1>1, <1>3
  <2>2. t.kids[h][i] = e <=> h = 0 /\ i = p
    BY <1>1, <1>4
  <2>3. t.kids[h][i] = nx[e] <=> h = 0 /\ p # len(0) /\ i = p + 1
    <3>1. CASE p = len(0)
      BY <3>1, <2>1, <1>8
    <3>2. CASE p # len(0)
      <4> HIDE DEF len, e
      <4> QED BY <3>2, <1>1, <1>4, <1>8, <1>9
    <3> QED BY <3>1, <3>2
  <2>4. t.kids[h][i] = pv[e] <=> h = 0 /\ p # 1 /\ i = p - 1
    <3>1. CASE p = 1
      BY <3>1, <2>1, <1>8
    <3>2. CASE p # 1
      <4> HIDE DEF len, e
      <4> QED BY <3>2, <1>1, <1>4, <1>8, <1>9
    <3> QED BY <3>1, <3>2
  <2>5. ~free /\ t.kids[h][i] = last <=> h = g /\ i = len(g)
    <3>1. CASE free
      <4>1. len(g) = 0
        BY <3>1, <1>1, <1>3 DEF free
      <4> QED BY <3>1, <4>1
    <3>2. CASE ~free
      BY <3>2, <1>1, <1>4, <1>10 DEF last
    <3> QED BY <3>1, <3>2
  <2> QED BY <2>1, <2>2, <2>3, <2>4, <2>5
<1> HIDE DEF e, len
(* The links of the entry at a position before. *)
<1>12. ASSUME NEW h \in 0..n, NEW i \in 1..len(h)
       PROVE  /\ nx1[t.kids[h][i]] = IF h = g /\ i = len(g) THEN e
                                    ELSE IF h = 0 /\ i = p THEN 0
                                    ELSE IF h = 0 /\ p # 1 /\ i = p - 1 THEN nx[e]
                                    ELSE IF i = len(h) THEN 0 ELSE t.kids[h][i + 1]
              /\ pv1[t.kids[h][i]] = IF h = 0 /\ i = p THEN (IF free THEN g ELSE last)
                                    ELSE IF h = 0 /\ p # len(0) /\ i = p + 1 THEN pv[e]
                                    ELSE IF i = 1 THEN h ELSE t.kids[h][i - 1]
  <2> DEFINE x == t.kids[h][i]
  <2>1. /\ x \in 1..n
        /\ x = e <=> h = 0 /\ i = p
        /\ x = nx[e] <=> h = 0 /\ p # len(0) /\ i = p + 1
        /\ x = pv[e] <=> h = 0 /\ p # 1 /\ i = p - 1
        /\ ~free /\ x = last <=> h = g /\ i = len(g)
    BY <1>11
  <2>2. /\ nx[x] = IF i = len(h) THEN 0 ELSE t.kids[h][i + 1]
        /\ pv[x] = IF i = 1 THEN h ELSE t.kids[h][i - 1]
    BY <1>5
  <2>3. nx1[x] = IF ~free /\ x = last THEN e ELSE IF x = e THEN 0 ELSE IF x = pv[e] THEN nx[e] ELSE nx[x]
    BY <2>1, <1>7
  <2>4. pv1[x] = IF x = e THEN (IF free THEN g ELSE last) ELSE IF x = nx[e] THEN pv[e] ELSE pv[x]
    BY <2>1, <1>7
  <2> HIDE DEF x
  <2> QED BY <2>1, <2>2, <2>3, <2>4 DEF x
<1>13. ASSUME NEW h \in 0..n
       PROVE  /\ Len(new.kids[h]) = 0 => FirstIn(new.kids[h]) = 0
              /\ Len(new.kids[h]) # 0 => FirstIn(new.kids[h]) = new.kids[h][1]
  <2>1. new.kids[h] \in Seq(1..n)
    BY DEF IsMoved, n
  <2>2. new.kids[h] = <<>> <=> Len(new.kids[h]) = 0
    BY <2>1, EmptySeq
  <2> QED BY <2>2 DEF FirstIn
<1>14. a1 = FirstIn(new.kids[0])
  <2>1. CASE p = 1 /\ len(0) = 1
    <3>1. Len(new.kids[0]) = 0
      BY <2>1, <1>2
    <3> QED BY <3>1, <2>1, <1>1, <1>6, <1>8, <1>13
  <2>2. CASE p = 1 /\ len(0) # 1
    <3>1. 1 \in 1..len(0) - 1 /\ Len(new.kids[0]) # 0
      BY <2>2, <1>2, <1>8, <1>9
    <3>2. new.kids[0][1] = t.kids[0][2]
      BY <3>1, <2>2, <1>2
    <3> QED BY <3>1, <3>2, <2>2, <1>1, <1>6, <1>8, <1>13, SMTT(30)
  <2>3. CASE p # 1
    <3>1. 1 \in 1..len(0) - 1 /\ Len(new.kids[0]) # 0 /\ 1 < p /\ len(0) # 0
      BY <2>3, <1>2, <1>8, <1>9
    <3>2. new.kids[0][1] = t.kids[0][1]
      BY <3>1, <1>2
    <3>3. pv[e] # 0
      <4>1. pv[e] \in 1..n
        BY <2>3, <1>1, <1>3, <1>8, <1>9
      <4> QED BY <4>1, <1>1
    <3>4. a = t.kids[0][1]
      BY <3>1, <1>1, <1>3, <1>5
    <3> QED BY <3>1, <3>2, <3>3, <3>4, <1>1, <1>6, <1>13
  <2> QED BY <2>1, <2>2, <2>3
<1>15. ASSUME NEW h \in 1..n PROVE nl1[h] = FirstIn(new.kids[h])
  <2>1. CASE h # g
    BY <2>1, <1>2, <1>5, <1>7
  <2>2. CASE h = g
    <3>1. FirstIn(new.kids[g]) = new.kids[g][1] /\ 1 \in 1..len(g) + 1
      <4>1. len(g) + 1 # 0 /\ 1 \in 1..len(g) + 1
        BY <1>8
      <4> QED BY <4>1, <1>1, <1>2, <1>13
    <3>2. CASE free
      <4>1. len(g) = 0
        BY <3>2, <1>1, <1>3 DEF free
      <4>2. new.kids[g][1] = e
        BY <4>1, <1>2
      <4> QED BY <2>2, <3>1, <3>2, <4>2, <1>7
    <3>3. CASE ~free
      <4>1. 1 \in 1..len(g) /\ FirstIn(t.kids[g]) = t.kids[g][1]
        BY <3>3, <1>1, <1>3 DEF free
      <4> QED BY <2>2, <3>1, <3>3, <4>1, <1>2, <1>5, <1>7
    <3> QED BY <3>2, <3>3
  <2> QED BY <2>1, <2>2
<1>16. ASSUME NEW h \in 0..n, NEW j \in 1..Len(new.kids[h])
       PROVE  /\ nx1[new.kids[h][j]] = IF j = Len(new.kids[h]) THEN 0 ELSE new.kids[h][j + 1]
              /\ pv1[new.kids[h][j]] = IF j = 1 THEN h ELSE new.kids[h][j - 1]
  <2>0. j \in Nat /\ p \in Nat
    OBVIOUS
  <2>1. CASE h = 0 /\ j < p
    <3>1. /\ j \in 1..len(0) /\ j \in 1..len(0) - 1 /\ j # p
          /\ j = p - 1 => p # 1
          /\ j # len(0) /\ j # p + 1
      BY <2>0, <2>1, <1>2, <1>8
    <3>2. new.kids[0][j] = t.kids[0][j]
      BY <2>1, <3>1, <1>2
    <3>3. nx1[t.kids[0][j]] = IF j = p - 1 THEN nx[e] ELSE t.kids[0][j + 1]
      BY <3>1, <1>1, <1>12
    <3>4. pv1[t.kids[0][j]] = IF j = 1 THEN 0 ELSE t.kids[0][j - 1]
      BY <3>1, <1>1, <1>12
    <3>5. j # 1 => new.kids[0][j - 1] = t.kids[0][j - 1]
      <4>1. j # 1 => j - 1 \in 1..len(0) - 1 /\ j - 1 < p
        BY <2>0, <2>1, <3>1, <1>8
      <4> QED BY <4>1, <1>2
    <3>6. CASE j = p - 1
      <4>1. CASE p = len(0)
        <5>1. j = Len(new.kids[0])
          BY <3>6, <4>1, <1>2, <1>8
        <5> QED BY <2>1, <3>2, <3>3, <3>4, <3>5, <3>6, <4>1, <5>1, <1>8
      <4>2. CASE p # len(0)
        <5>1. j + 1 = p /\ p \in 1..len(0) - 1 /\ ~(p < p) /\ j # Len(new.kids[0])
          BY <2>0, <3>1, <3>6, <4>2, <1>2, <1>8, <1>9
        <5>2. new.kids[0][j + 1] = t.kids[0][p + 1]
          BY <5>1, <1>2
        <5> QED BY <2>1, <3>2, <3>3, <3>4, <3>5, <3>6, <4>2, <5>1, <5>2, <1>8
      <4> QED BY <4>1, <4>2
    <3>7. CASE j # p - 1
      <4>0. \A m, q, l \in Nat : m < q /\ m # q - 1 /\ q <= l /\ m \in 1..l - 1
               => m + 1 \in 1..l - 1 /\ m + 1 < q /\ m # l - 1
        OBVIOUS
      <4>1. j + 1 \in 1..len(0) - 1 /\ j + 1 < p /\ j # Len(new.kids[0])
        <5>1. p <= len(0)
          BY DEF len
        <5> QED BY <4>0, <5>1, <2>0, <2>1, <3>1, <3>7, <1>2, <1>8
      <4>2. new.kids[0][j + 1] = t.kids[0][j + 1]
        BY <4>1, <1>2
      <4> QED BY <2>1, <3>2, <3>3, <3>4, <3>5, <3>7, <4>1, <4>2
    <3> QED BY <3>6, <3>7
  <2>2. CASE h = 0 /\ ~(j < p)
    <3> DEFINE i == j + 1
    <3>1. /\ i \in 1..len(0) /\ j \in 1..len(0) - 1
          /\ i # p /\ i # p - 1 /\ (i = p + 1 <=> j = p) /\ i # 1 /\ i - 1 = j /\ i \in Nat
          /\ i = p + 1 => p # len(0)
          /\ (i = len(0) <=> j = Len(new.kids[0]))
      <4>0. \A m, q, l \in Nat : ~(m < q) /\ 1 <= q /\ q <= l /\ m \in 1..l - 1
               => /\ m + 1 \in 1..l /\ m + 1 # q /\ m + 1 # q - 1
                  /\ (m + 1 = q + 1 <=> m = q) /\ m + 1 # 1 /\ (m + 1) - 1 = m /\ m + 1 \in Nat
                  /\ m + 1 = q + 1 => q # l
                  /\ (m + 1 = l <=> m = l - 1)
        OBVIOUS
      <4>1. 1 <= p /\ p <= len(0)
        BY DEF len
      <4>2. j \in 1..len(0) - 1 /\ Len(new.kids[0]) = len(0) - 1
        BY <2>2, <1>2
      <4> QED BY <4>0, <4>1, <4>2, <2>0, <2>2, <1>8
    <3>2. new.kids[0][j] = t.kids[0][i]
      BY <2>2, <3>1, <1>2
    <3> HIDE DEF i
    <3>3. nx1[t.kids[0][i]] = IF i = len(0) THEN 0 ELSE t.kids[0][i + 1]
      BY <3>1, <1>1, <1>12
    <3>4. pv1[t.kids[0][i]] = IF i = p + 1 THEN pv[e] ELSE t.kids[0][j]
      BY <3>1, <1>1, <1>12
    <3>5. j # Len(new.kids[0]) => new.kids[0][j + 1] = t.kids[0][i + 1]
      <4>1. j # Len(new.kids[0]) => j + 1 \in 1..len(0) - 1 /\ ~(j + 1 < p)
        BY <2>0, <2>2, <3>1, <1>2, <1>8
      <4>2. j + 1 = i
        BY DEF i
      <4> QED BY <4>1, <4>2, <1>2
    <3>6. nx1[new.kids[0][j]] = IF j = Len(new.kids[0]) THEN 0 ELSE new.kids[0][j + 1]
      BY <3>1, <3>2, <3>3, <3>5
    <3>7. CASE j = p
      <4>1. j # 1 => j - 1 \in 1..len(0) - 1 /\ j - 1 < p
        BY <2>0, <3>1, <3>7, <1>8, SMTT(20)
      <4>2. j # 1 => new.kids[0][j - 1] = t.kids[0][p - 1]
        BY <3>7, <4>1, <1>2
      <4> QED BY <2>2, <3>1, <3>2, <3>4, <3>6, <3>7, <4>2, <1>8
    <3>8. CASE j # p
      <4>0. \A m, q, l \in Nat : ~(m < q) /\ m # q /\ 1 <= q /\ m \in 1..l - 1
               => m # 1 /\ m - 1 \in 1..l - 1 /\ ~(m - 1 < q) /\ (m - 1) + 1 = m
        OBVIOUS
      <4>a. 1 <= p /\ j \in Nat /\ p \in Nat
        BY <3>1
      <4>b. len(0) \in Nat
        BY <1>8
      <4>c. ~(j < p) /\ j # p /\ j \in 1..len(0) - 1
        BY <2>2, <3>1, <3>8
      <4>1. j # 1 /\ j - 1 \in 1..len(0) - 1 /\ ~(j - 1 < p) /\ (j - 1) + 1 = j
        BY <4>0, <4>a, <4>b, <4>c
      <4>2. new.kids[0][j - 1] = t.kids[0][j]
        BY <4>1, <1>2
      <4> QED BY <2>2, <3>1, <3>2, <3>4, <3>6, <3>8, <4>1, <4>2
    <3> QED BY <3>7, <3>8
  <2>3. CASE h = g /\ j = len(g) + 1
    <3>1. new.kids[g][j] = e /\ j = Len(new.kids[g])
      BY <2>3, <1>2
    <3>2. e = t.kids[0][p]
      BY DEF e
    <3>3. nx1[e] = 0
      BY <3>2, <1>1, <1>12 DEF len
    <3>4. pv1[e] = IF free THEN g ELSE last
      BY <3>2, <1>1, <1>12 DEF len
    <3>5. free => j = 1
      BY <2>3, <1>1, <1>3 DEF free
    <3>6. ~free => j # 1 /\ new.kids[g][j - 1] = last
      <4>1. ~free => len(g) \in 1..len(g)
        BY <1>10
      <4>2. ~free => j # 1 /\ j - 1 = len(g)
        <5>1. \A m \in Nat : (m + 1) - 1 = m /\ (m \in 1..m => m + 1 # 1)
          OBVIOUS
        <5> QED BY <5>1, <2>3, <4>1, <1>8
      <4> QED BY <4>1, <4>2, <1>2 DEF last, len
    <3> QED BY <2>3, <3>1, <3>3, <3>4, <3>5, <3>6
  <2>4. CASE h = g /\ j # len(g) + 1
    <3>1. j \in 1..len(g)
      BY <2>0, <2>4, <1>2, <1>8
    <3>2. new.kids[g][j] = t.kids[g][j] /\ j # Len(new.kids[g])
      BY <2>4, <3>1, <1>2
    <3>3. nx1[t.kids[g][j]] = IF j = len(g) THEN e ELSE t.kids[g][j + 1]
      BY <3>1, <1>1, <1>12
    <3>4. pv1[t.kids[g][j]] = IF j = 1 THEN g ELSE t.kids[g][j - 1]
      BY <3>1, <1>1, <1>12
    <3>5. j # len(g) => j + 1 \in 1..len(g)
      BY <3>1, <1>8
    <3>6. j # 1 => j - 1 \in 1..len(g)
      BY <3>1, <1>8
    <3>7. new.kids[g][j + 1] = IF j = len(g) THEN e ELSE t.kids[g][j + 1]
      BY <3>5, <1>2
    <3>8. j # 1 => new.kids[g][j - 1] = t.kids[g][j - 1]
      BY <3>6, <1>2
    <3> QED BY <2>4, <3>2, <3>3, <3>4, <3>7, <3>8
  <2>5. CASE h # 0 /\ h # g
    <3>1. h \in 1..n /\ new.kids[h] = t.kids[h]
      BY <2>5, <1>1, <1>2
    <3>2. j \in 1..len(h) /\ Len(new.kids[h]) = len(h)
      BY <3>1 DEF len
    <3>3. /\ nx1[t.kids[h][j]] = IF j = len(h) THEN 0 ELSE t.kids[h][j + 1]
          /\ pv1[t.kids[h][j]] = IF j = 1 THEN h ELSE t.kids[h][j - 1]
      BY <2>5, <3>2, <1>12
    <3> QED BY <3>1, <3>2, <3>3
  <2> QED BY <2>1, <2>2, <2>3, <2>4, <2>5
<1>17. NextIsOf(n, new.kids, nx1) /\ PrevIsOf(n, new.kids, pv1)
  BY <1>16 DEF NextIsOf, PrevIsOf
<1>18. IsLinked(n, new.kids, a1, nx1, nl1, pv1)
  BY <1>6, <1>14, <1>15, <1>17 DEF IsLinked
<1> QED BY <1>2, <1>18

-----------------------------------------------------------------------------
(***************************************************************************)
(* The levels that the links of a state make.                              *)
(***************************************************************************)
LevelsOf(n, a, nx, nl) == [g \in 0..n |-> ChainOf(n, nx, IF g = 0 THEN a ELSE nl[g])]

ListOf(nm, tp, kids) == [name |-> nm, type |-> tp, kids |-> kids]

(* The links of levels make those levels. *)
LEMMA LinksMakeLevels ==
  ASSUME NEW n, NEW kids, IsLevels(n, kids),
         NEW a, NEW nx, NEW nl, NEW pv, IsLinked(n, kids, a, nx, nl, pv)
  PROVE  LevelsOf(n, a, nx, nl) = kids
<1>1. kids = [g \in 0..n |-> kids[g]]
  BY DEF IsLevels
<1>2. ASSUME NEW g \in 0..n
      PROVE  ChainOf(n, nx, IF g = 0 THEN a ELSE nl[g]) = kids[g]
  <2>1. NextIsOf(n, kids, nx) /\ (IF g = 0 THEN a ELSE nl[g]) = FirstIn(kids[g])
    BY DEF IsLinked, IsLevels
  <2> QED BY <2>1, ChainsAreLevels
<1> QED BY <1>1, <1>2 DEF LevelsOf

(* The list of a state, and that of the next one. *)
LEMMA ListIs ==
  /\ List = ListOf(name, type, LevelsOf(Len(name), anker, next, nextlvl))
  /\ List' = ListOf(name', type', LevelsOf(Len(name'), anker', next', nextlvl'))
BY DEF List, ListOf, LevelsOf, Chain, ChainOf, Fork

(***************************************************************************)
(* The inductive invariant: the levels are a tree, and the links are those *)
(* of the levels.                                                          *)
(***************************************************************************)
Linked(t, n, a, nx, nl, pv) == IsTreeOf(t) /\ IsLinked(n, t.kids, a, nx, nl, pv)

Inv == Linked(List, Len(name), anker, next, nextlvl, prev)

(* A tree with the links of the state is the list of the state. *)
LEMMA ListIsTree ==
  ASSUME NEW t, t.name = name', t.type = type', IsTreeOf(t),
         IsLinked(Len(t.name), t.kids, anker', next', nextlvl', prev')
  PROVE  List' = t /\ Inv'
<1>1. LevelsOf(Len(t.name), anker', next', nextlvl') = t.kids
  BY LinksMakeLevels DEF IsTreeOf
<1>2. t = ListOf(t.name, t.type, t.kids)
  BY DEF IsTreeOf, ListOf
<1>3. List' = t
  BY <1>1, <1>2, ListIs
<1> QED BY <1>3 DEF Inv, Linked

-----------------------------------------------------------------------------
(***************************************************************************)
(* The operations on the links are those on the levels.                    *)
(***************************************************************************)
LEMMA StateFacts ==
  ASSUME Inv
  PROVE  /\ IsTreeOf(List) /\ IsLevels(Len(name), List.kids)
         /\ IsLinked(Len(name), List.kids, anker, next, nextlvl, prev)
         /\ Len(name) \in Nat /\ 0 \in 0..Len(name)
         /\ \A e \in 1..Len(name) : e \in 0..Len(name) /\ e # 0
         /\ List.name = name /\ List.type = type
<1>1. List.name = name /\ List.type = type
  BY DEF List
<1>2. IsTreeOf(List) /\ IsLinked(Len(name), List.kids, anker, next, nextlvl, prev)
  BY DEF Inv, Linked
<1>3. IsLevels(Len(name), List.kids)
  BY <1>1, <1>2 DEF IsTreeOf
<1>4. Len(name) \in Nat
  BY <1>3 DEF IsLevels
<1> HIDE DEF Inv
<1> QED BY <1>1, <1>2, <1>3, <1>4

(* What is at the first entry of a level, on the links and on the levels. *)
LEMMA ForkIs ==
  ASSUME Inv, NEW at \in 0..Len(name)
  PROVE  /\ Fork(at) = FirstIn(List.kids[at])
         /\ Fork(at) = 0 <=> List.kids[at] = <<>>
         /\ Chain(Fork(at)) = List.kids[at]
         /\ LastOf(Fork(at)) = Last(List.kids[at])
<1>1. Chain(Fork(at)) = List.kids[at]
  BY DEF List
<1>2. Fork(at) = FirstIn(List.kids[at])
  BY StateFacts DEF Fork, IsLinked
<1>3. FirstIn(List.kids[at]) = 0 <=> List.kids[at] = <<>>
  BY StateFacts, LevelFacts
<1> QED BY <1>1, <1>2, <1>3 DEF LastOf

(* rh4nvarSearchVarRef on the links is the search of the level. *)
LEMMA SearchIs ==
  ASSUME Inv, NEW at \in 0..Len(name), NEW nm
  PROVE  SearchVarRef(Fork(at), nm) = Search(List, at, nm)
<1>1. PICK t : t = List
  OBVIOUS
<1>2. PICK fork : fork = Fork(at)
  OBVIOUS
<1>3. /\ fork = 0 <=> t.kids[at] = <<>>
      /\ Chain(fork) = t.kids[at] /\ t.name = name
  BY <1>1, <1>2, ForkIs, StateFacts
<1> DEFINE K == {i \in 1..Len(t.kids[at]) : t.name[t.kids[at][i]] = nm}
           least == t.kids[at][CHOOSE i \in K : \A j \in K : i <= j]
<1>4. SearchVarRef(fork, nm) =
        IF t.kids[at] = <<>> THEN [ret |-> "VAR_PTR_ERR", var |-> 0]
        ELSE IF K = {} THEN [ret |-> "UNKOWN_VAR", var |-> 0]
        ELSE [ret |-> "OK", var |-> least]
  BY <1>3 DEF SearchVarRef, FirstOf
<1>5. Search(t, at, nm) =
        IF t.kids[at] = <<>> THEN [ret |-> "VAR_PTR_ERR", var |-> 0]
        ELSE IF K = {} THEN [ret |-> "UNKOWN_VAR", var |-> 0]
        ELSE [ret |-> "OK", var |-> least]
  <2>1. Named(t, at, nm) = K /\ First(t, at, nm) = least
    BY DEF Named, First
  <2> HIDE DEF K, least
  <2> QED BY <2>1 DEF Search, SearchRet, Root
<1> QED BY <1>1, <1>2, <1>4, <1>5

(* rh4nvarGetRef on the links is that of the levels. *)
LEMMA RefInIs ==
  ASSUME Inv, NEW at \in 0..Len(name), NEW grp, NEW nm
  PROVE  RefIn(Fork(at), grp, nm) = GetRef(List, at, grp, nm)
<1> DEFINE g == Search(List, at, grp[1])
<1>1. SearchVarRef(Fork(at), grp[1]) = g /\ SearchVarRef(Fork(at), nm) = Search(List, at, nm)
  BY SearchIs
<1>2. /\ g.var \in 0..Len(name)
      /\ g.ret = "OK" => g.var \in 1..Len(name)
      /\ g.ret # "OK" => g = [ret |-> g.ret, var |-> 0]
  <2>1. PICK t : t = List
    OBVIOUS
  <2>2. IsLevels(Len(t.name), t.kids) /\ at \in 0..Len(t.name) /\ t.name = name
    BY <2>1, StateFacts
  <2> QED BY <2>1, <2>2, SearchFacts
<1>3. CASE grp = NoGroup
  BY <1>1, <1>3 DEF RefIn, GetRef, GroupIn
<1>4. CASE grp # NoGroup
  <2>1. CASE g.ret # "OK"
    BY <1>1, <1>2, <1>4, <2>1 DEF RefIn, GetRef, GroupIn
  <2>2. CASE g.ret = "OK" /\ type[g.var] # "GROUP"
    BY <1>1, <1>2, <1>4, <2>2, StateFacts DEF RefIn, GetRef, GroupIn, Root
  <2>3. CASE g.ret = "OK" /\ type[g.var] = "GROUP"
    <3>1. GetRef(List, at, grp, nm) = Search(List, g.var, nm)
      BY <1>4, <2>3, StateFacts DEF GetRef, GroupIn
    <3>2. Fork(g.var) = nextlvl[g.var]
      BY <1>2, <2>3, StateFacts DEF Fork
    <3>3. SearchVarRef(nextlvl[g.var], nm) = Search(List, g.var, nm)
      BY <1>2, <3>2, SearchIs
    <3>4. CASE nextlvl[g.var] = 0
      <4>1. SearchVarRef(nextlvl[g.var], nm) = [ret |-> "VAR_PTR_ERR", var |-> 0]
        BY <3>4 DEF SearchVarRef
      <4> QED BY <1>1, <1>4, <2>3, <3>1, <3>3, <3>4, <4>1 DEF RefIn
    <3>5. CASE nextlvl[g.var] # 0
      BY <1>1, <1>4, <2>3, <3>1, <3>3, <3>5 DEF RefIn
    <3> QED BY <3>4, <3>5
  <2> QED BY <2>1, <2>2, <2>3
<1> QED BY <1>3, <1>4

(* The way down a path on the links is the walk on the levels. *)
LEMMA WalkDownIs ==
  ASSUME Inv, NEW path \in Seq(Names)
  PROVE  WalkDown(path) = Walk(List, 0, path)
<1> DEFINE S == Results(Len(name))
           len == Len(path)
           s0 == [ret |-> "OK", var |-> 0]
           down == CHOOSE w : w = [i \in 0..len |->
                     IF i = 0 THEN s0
                     ELSE IF w[i - 1].ret = "OK" THEN SearchVarRef(Fork(w[i - 1].var), path[i])
                     ELSE w[i - 1]]
<1>1. PICK t : t = List
  OBVIOUS
<1>2. IsLevels(Len(t.name), t.kids) /\ 0 \in 0..Len(t.name) /\ t.name = name /\ Len(name) \in Nat
  BY <1>1, StateFacts
<1>3. PICK v : Walks(t, 0, path, v)
  BY <1>2, WalkExists
<1>4. /\ v \in [0..len -> S] /\ v[0] = s0
      /\ \A i \in 1..len : v[i] = WalkStep(t, v[i - 1], path[i])
      /\ v[len] = Walk(t, 0, path)
  BY <1>2, <1>3 DEF Walks
<1>5. len \in Nat
  BY LenProperties
<1>6. \A at \in 0..Len(name) : \A nm : SearchVarRef(Fork(at), nm) = Search(t, at, nm)
  BY <1>1, SearchIs
<1>7. ASSUME NEW i \in 1..len
      PROVE  v[i] = IF v[i - 1].ret = "OK" THEN SearchVarRef(Fork(v[i - 1].var), path[i]) ELSE v[i - 1]
  <2>1. i - 1 \in 0..len
    BY <1>5
  <2>2. v[i - 1] \in S
    BY <1>4, <2>1
  <2>3. v[i - 1].var \in 0..Len(name)
    <3>1. \A r \in S : r.var \in 0..Len(name)
      BY DEF Results
    <3> QED BY <2>2, <3>1
  <2>4. v[i] = IF v[i - 1].ret = "OK" THEN Search(t, v[i - 1].var, path[i]) ELSE v[i - 1]
    BY <1>4 DEF WalkStep
  <2> QED BY <1>6, <2>3, <2>4
<1>8. v = [i \in 0..len |-> IF i = 0 THEN s0
                            ELSE IF v[i - 1].ret = "OK" THEN SearchVarRef(Fork(v[i - 1].var), path[i])
                            ELSE v[i - 1]]
  <2>1. \A i \in 0..len : i # 0 => i \in 1..len
    BY <1>5
  <2> HIDE DEF len, S, s0
  <2> QED BY <1>4, <1>7, <2>1
<1>9. down = [i \in 0..len |-> IF i = 0 THEN s0
                               ELSE IF down[i - 1].ret = "OK" THEN SearchVarRef(Fork(down[i - 1].var), path[i])
                               ELSE down[i - 1]]
  <2> HIDE DEF len, s0
  <2> QED BY <1>8
<1>10. WalkDown(path) = down[len]
  BY DEF WalkDown
<1> HIDE DEF down
<1>11. /\ down[0] = s0
       /\ \A i \in 1..len : down[i] = IF down[i - 1].ret = "OK"
                                        THEN SearchVarRef(Fork(down[i - 1].var), path[i])
                                        ELSE down[i - 1]
  <2>1. 0 \in 0..len /\ \A i \in 1..len : i \in 0..len /\ i # 0
    BY <1>5
  <2> HIDE DEF len, s0
  <2> QED BY <1>9, <2>1
<1>12. StepAlike(len, down, v)
  <2> HIDE DEF len, s0
  <2> QED BY <1>4, <1>7, <1>11 DEF StepAlike
<1>13. \A i \in 0..len : down[i] = v[i]
  <2> HIDE DEF len
  <2> QED BY <1>5, <1>12, StepsAgree
<1>14. len \in 0..len
  BY <1>5
<1> HIDE DEF len
<1> QED BY <1>1, <1>4, <1>10, <1>13, <1>14

-----------------------------------------------------------------------------
(***************************************************************************)
(* The operators of VarTree are the same in the instance of VarList.       *)
(***************************************************************************)
LEMMA SameSearch ==
  ASSUME NEW t
  PROVE  /\ \A at, nm : Levels!Search(t, at, nm) = Search(t, at, nm)
         /\ \A at, path : Levels!Walk(t, at, path) = Walk(t, at, path)
         /\ \A at, grp : Levels!GroupIn(t, at, grp) = GroupIn(t, at, grp)
         /\ \A at, grp, nm : Levels!GetRef(t, at, grp, nm) = GetRef(t, at, grp, nm)
         /\ \A path, nm : Levels!GetRef_m(t, path, nm) = GetRef_m(t, path, nm)
<1>1. ASSUME NEW at, NEW nm PROVE Levels!Search(t, at, nm) = Search(t, at, nm)
  BY DEF Levels!Search, Levels!SearchRet, Levels!First, Levels!Named, Levels!Root,
         Search, SearchRet, First, Named, Root
<1>2. ASSUME NEW at, NEW path PROVE Levels!Walk(t, at, path) = Walk(t, at, path)
  BY DEF Levels!Walk, Levels!WalkStep, Walk, WalkStep, Levels!Search, Levels!SearchRet, Levels!First,
         Levels!Named, Levels!Root, Search, SearchRet, First, Named, Root
<1>3. ASSUME NEW at, NEW grp PROVE Levels!GroupIn(t, at, grp) = GroupIn(t, at, grp)
  BY <1>1 DEF Levels!GroupIn, Levels!NoGroup, Levels!Root, GroupIn, NoGroup, Root
<1>4. ASSUME NEW at, NEW grp, NEW nm PROVE Levels!GetRef(t, at, grp, nm) = GetRef(t, at, grp, nm)
  BY <1>1, <1>3 DEF Levels!GetRef, GetRef
<1>5. ASSUME NEW path, NEW nm PROVE Levels!GetRef_m(t, path, nm) = GetRef_m(t, path, nm)
  BY <1>1, <1>2 DEF Levels!GetRef_m, GetRef_m, Levels!Root, Root
<1> QED BY <1>1, <1>2, <1>3, <1>4, <1>5

(* The same for what changes the list. *)
LEMMA SameCreate ==
  ASSUME NEW t
  PROVE  /\ \A at, nm, tp : Levels!Added(t, at, nm, tp) = Added(t, at, nm, tp)
         /\ \A to, e : Levels!Moved(t, to, e) = Moved(t, to, e)
         /\ \A at, grp, nm, tp : Levels!Create(t, at, grp, nm, tp) = Create(t, at, grp, nm, tp)
         /\ \A path, nm, tp : Levels!Create_m(t, path, nm, tp) = Create_m(t, path, nm, tp)
         /\ \A nm, grp : Levels!MoveVarToGroup(t, nm, grp) = MoveVarToGroup(t, nm, grp)
         /\ \A nm, path : Levels!MoveVarToGroup_m(t, nm, path) = MoveVarToGroup_m(t, nm, path)
<1>1. ASSUME NEW at, NEW nm, NEW tp PROVE Levels!Added(t, at, nm, tp) = Added(t, at, nm, tp)
  BY DEF Levels!Added, Added, Levels!Root, Root
<1>2. ASSUME NEW to, NEW e PROVE Levels!Moved(t, to, e) = Moved(t, to, e)
  BY DEF Levels!Moved, Moved, Levels!Root, Root, Levels!PositionOf, PositionOf, RemoveAt, Levels!RemoveAt
<1>3. ASSUME NEW at, NEW grp, NEW nm, NEW tp PROVE Levels!Create(t, at, grp, nm, tp) = Create(t, at, grp, nm, tp)
  BY <1>1, SameSearch DEF Levels!Create, Create, Levels!Exist, Exist
<1>4. ASSUME NEW path, NEW nm, NEW tp PROVE Levels!Create_m(t, path, nm, tp) = Create_m(t, path, nm, tp)
  <2>1. Levels!Front(path) = Front(path) /\ Levels!Last(path) = Last(path)
    BY DEF Levels!Front, Levels!Last, Front, Last
  <2> QED BY <1>3, <2>1, SameSearch DEF Levels!Create_m, Create_m, Levels!Root, Root, Levels!NoGroup, NoGroup
<1>5. ASSUME NEW nm, NEW grp PROVE Levels!MoveVarToGroup(t, nm, grp) = MoveVarToGroup(t, nm, grp)
  BY <1>2, SameSearch DEF Levels!MoveVarToGroup, MoveVarToGroup, Levels!Root, Root
<1>6. ASSUME NEW nm, NEW path PROVE Levels!MoveVarToGroup_m(t, nm, path) = MoveVarToGroup_m(t, nm, path)
  BY <1>2, SameSearch DEF Levels!MoveVarToGroup_m, MoveVarToGroup_m, Levels!Root, Root
<1> QED BY <1>1, <1>2, <1>3, <1>4, <1>5, <1>6

-----------------------------------------------------------------------------
(***************************************************************************)
(* What the calls do to the links is what VarList says they do to the      *)
(* levels.                                                                 *)
(***************************************************************************)
Adds(at, nm, tp) ==
  IF Fork(at) # 0 THEN AppendTo(Fork(at), nm, tp)
  ELSE IF at = 0 THEN BeginList(nm, tp) ELSE BeginGroup(at, nm, tp)

(* Linking a new entry adds it at the end of its level. *)
LEMMA AddsIsAdded ==
  ASSUME Inv, NEW at \in 0..Len(name), NEW nm \in Names, NEW tp \in VarTypes,
         at = 0 \/ type[at] = "GROUP", Adds(at, nm, tp)
  PROVE  Inv' /\ List' = Added(List, at, nm, tp)
<1>1. PICK t : t = List
  OBVIOUS
<1>2. /\ IsTreeOf(t) /\ t.name = name /\ t.type = type
      /\ IsLinked(Len(t.name), t.kids, anker, next, nextlvl, prev)
      /\ at \in 0..Len(t.name)
  BY <1>1, StateFacts
<1>3. Fork(at) = 0 <=> t.kids[at] = <<>>
  BY <1>1, ForkIs
<1>4. LastOf(Fork(at)) = Last(t.kids[at])
  BY <1>1, ForkIs
<1> DEFINE new == Added(t, at, nm, tp)
<1>5. /\ name' = Append(t.name, nm) /\ type' = Append(t.type, tp)
      /\ AddsLinks(t, at, anker, next, nextlvl, prev, anker', next', nextlvl', prev')
  <2>1. CASE Fork(at) # 0
    BY <1>2, <1>3, <1>4, <2>1 DEF Adds, AppendTo, LinkedAfter, Allocate, New, AddsLinks
  <2>2. CASE Fork(at) = 0 /\ at = 0
    BY <1>2, <1>3, <2>2 DEF Adds, BeginList, Allocate, New, AddsLinks
  <2>3. CASE Fork(at) = 0 /\ at # 0
    BY <1>2, <1>3, <2>3 DEF Adds, BeginGroup, New, AddsLinks
  <2> QED BY <2>1, <2>2, <2>3
<1>6. IsAdded(t, at, nm, tp, new) /\ new.name = Append(t.name, nm) /\ new.type = Append(t.type, tp)
  BY <1>2, AddedIs DEF Added
<1>7. IsTreeOf(new)
  BY <1>2, AddedIsTree
<1> HIDE DEF new
<1>8. IsLinked(Len(new.name), new.kids, anker', next', nextlvl', prev')
  BY <1>2, <1>5, <1>6, AddedIsLinked
<1>9. new.name = name' /\ new.type = type'
  BY <1>5, <1>6
<1>10. List' = new /\ Inv'
  BY <1>7, <1>8, <1>9, ListIsTree
<1> QED BY <1>1, <1>10 DEF new

(* A call that fails. *)
LEMMA FailsIs ==
  ASSUME Inv, NEW c, NEW r, Fails(c, r)
  PROVE  Inv' /\ List' = List /\ call' = c /\ ret' = r
<1>1. /\ anker' = anker /\ next' = next /\ nextlvl' = nextlvl /\ prev' = prev
      /\ name' = name /\ type' = type /\ call' = c /\ ret' = r
  BY DEF Fails, links
<1>2. List' = List
  BY <1>1, ListIs
<1>3. Inv'
  BY <1>1, <1>2 DEF Inv
<1> QED BY <1>1, <1>2, <1>3

(* What a call has done. *)
Did(c, r) == Inv' /\ call' = c /\ ret' = r.ret /\ List' = r.list

(* rh4nvarCreatenewVariable below a level is Create there. *)
LEMMA CreateInIs ==
  ASSUME Inv, NEW at \in 0..Len(name), NEW grp, NEW nm \in Names, NEW tp \in VarTypes, NEW c,
         grp = NoGroup => at = 0, CreateIn(Fork(at), grp, nm, tp, c)
  PROVE  Did(c, Create(List, at, grp, nm, tp))
<1>1. PICK t : t = List
  OBVIOUS
<1>2. /\ IsLevels(Len(t.name), t.kids) /\ at \in 0..Len(t.name)
      /\ t.name = name /\ t.type = type
      /\ Len(name) \in Nat /\ 0 \in 0..Len(name) /\ \A e \in 1..Len(name) : e \in 0..Len(name) /\ e # 0
  BY <1>1, StateFacts
<1> DEFINE ref == GetRef(t, at, grp, nm)
           s == Search(t, at, grp[1])
           g == GroupIn(t, at, grp)
           r == Create(t, at, grp, nm, tp)
<1> SUFFICES Did(c, r)
  BY <1>1
<1>3. RefIn(Fork(at), grp, nm) = ref /\ SearchVarRef(Fork(at), grp[1]) = s
  BY <1>1, RefInIs, SearchIs
<1>4. s.var \in 0..Len(name) /\ (s.ret = "OK" => s.var \in 1..Len(name))
  BY <1>2, SearchFacts
<1>5. r = IF ref.ret = "OK" THEN [ret |-> "VAR_EXISTS", list |-> t]
          ELSE IF g.ret # "OK" THEN [ret |-> g.ret, list |-> t]
          ELSE [ret |-> "OK", list |-> Added(t, g.var, nm, tp)]
  BY DEF Create, Exist
<1>6. g = IF grp = NoGroup THEN [ret |-> "OK", var |-> at]
          ELSE IF s.ret = "OK" /\ type[s.var] # "GROUP" THEN [ret |-> "UNKOWN_VAR", var |-> 0] ELSE s
  BY <1>2 DEF GroupIn, Root
<1> HIDE DEF ref, s, g, r
<1>7. ASSUME NEW x, Fails(c, x), r = [ret |-> x, list |-> t]
      PROVE  Did(c, r)
  <2>1. Inv' /\ List' = List /\ call' = c /\ ret' = x
    BY <1>7, FailsIs
  <2> QED BY <1>1, <1>7, <2>1 DEF Did
<1>8. ASSUME NEW h \in 0..Len(name), h = 0 \/ type[h] = "GROUP",
             Creates(c), Adds(h, nm, tp), g = [ret |-> "OK", var |-> h], ref.ret # "OK"
      PROVE  Did(c, r)
  <2>1. Inv' /\ List' = Added(t, h, nm, tp)
    BY <1>1, <1>8, AddsIsAdded
  <2>2. call' = c /\ ret' = "OK"
    BY <1>8 DEF Creates
  <2>3. r = [ret |-> "OK", list |-> Added(t, h, nm, tp)]
    BY <1>5, <1>8
  <2> QED BY <2>1, <2>2, <2>3 DEF Did
<1>9. CASE ref.ret = "OK"
  <2>1. Fails(c, "VAR_EXISTS")
    BY <1>3, <1>9 DEF CreateIn
  <2> QED BY <1>5, <1>7, <1>9, <2>1
<1>10. CASE ref.ret # "OK" /\ grp = NoGroup
  <2>1. at = 0 /\ Fork(at) = anker
    BY <1>10 DEF Fork
  <2>2. Creates(c) /\ Adds(at, nm, tp)
    BY <1>3, <1>10, <2>1 DEF CreateIn, Adds
  <2>3. g = [ret |-> "OK", var |-> at]
    BY <1>6, <1>10
  <2> QED BY <1>8, <1>10, <2>1, <2>2, <2>3
<1>11. CASE ref.ret # "OK" /\ grp # NoGroup
  <2>1. CASE s.ret # "OK"
    <3>1. Fails(c, s.ret)
      BY <1>3, <1>11, <2>1 DEF CreateIn
    <3> QED BY <1>5, <1>6, <1>7, <1>11, <2>1, <3>1
  <2>2. CASE s.ret = "OK" /\ type[s.var] # "GROUP"
    <3>1. Fails(c, "UNKOWN_VAR")
      BY <1>3, <1>11, <2>2 DEF CreateIn
    <3>2. g = [ret |-> "UNKOWN_VAR", var |-> 0]
      BY <1>6, <1>11, <2>2
    <3> QED BY <1>5, <1>7, <1>11, <3>1, <3>2
  <2>3. CASE s.ret = "OK" /\ type[s.var] = "GROUP"
    <3>1. s.var \in 1..Len(name) /\ s.var # 0 /\ s.var \in 0..Len(name) /\ Fork(s.var) = nextlvl[s.var]
      BY <1>2, <1>4, <2>3 DEF Fork
    <3>2. Creates(c) /\ Adds(s.var, nm, tp)
      BY <1>3, <1>11, <2>3, <3>1 DEF CreateIn, Adds
    <3>3. g = [ret |-> "OK", var |-> s.var]
      <4>1. s \in Results(Len(t.name))
        BY <1>2, SearchFacts DEF s
      <4>2. s = [ret |-> s.ret, var |-> s.var]
        BY <4>1 DEF Results
      <4> QED BY <1>6, <1>11, <2>3, <4>2
    <3> QED BY <1>8, <1>11, <2>3, <3>1, <3>2, <3>3
  <2> QED BY <2>1, <2>2, <2>3
<1> QED BY <1>9, <1>10, <1>11

(* Linking an entry elsewhere moves it to the end of the group's level. *)
LEMMA MoveToIs ==
  ASSUME Inv, NEW g \in 1..Len(name), NEW p \in 1..Len(List.kids[0]),
         type[g] = "GROUP", type[List.kids[0][p]] # "GROUP", MoveTo(g, List.kids[0][p])
  PROVE  Inv' /\ List' = Moved(List, g, List.kids[0][p])
<1>1. PICK t : t = List
  OBVIOUS
<1> DEFINE n == Len(name)
           e == t.kids[0][p]
           new == Moved(t, g, e)
           free == t.kids[g] = <<>>
           last == Last(t.kids[g])
<1>2. /\ IsTreeOf(t) /\ IsLevels(n, t.kids) /\ t.name = name /\ t.type = type
      /\ IsLinked(n, t.kids, anker, next, nextlvl, prev)
      /\ n \in Nat /\ 0 \in 0..n /\ \A x \in 1..n : x \in 0..n /\ x # 0
  BY <1>1, StateFacts
<1>3. p \in 1..Len(t.kids[0]) /\ type[e] # "GROUP" /\ MoveTo(g, e)
  BY <1>1
<1>4. e \in 1..n
  BY <1>2, <1>3, LevelFacts
<1>5. /\ Fork(g) = nextlvl[g]
      /\ nextlvl[g] = 0 <=> free
      /\ LastOf(nextlvl[g]) = last
  BY <1>1, <1>2, ForkIs DEF Fork
<1>6. ~free => last \in 1..n
  <2>1. g \in 0..n
    BY <1>2
  <2> QED BY <1>2, <2>1, LevelFacts DEF Last
<1>7. /\ next \in [1..n -> Nat] /\ nextlvl \in [1..n -> Nat] /\ prev \in [1..n -> Nat]
  <2>1. \A s \in Seq(Nat) : Len(s) = n => s \in [1..n -> Nat]
    BY LenProperties
  <2> QED BY <1>2, <2>1 DEF IsLinked
<1>8. next[e] \in Nat /\ prev[e] \in Nat
  BY <1>4, <1>7
<1> DEFINE wnext == [i \in 1..n |-> IF i = e THEN 0 ELSE IF i = prev[e] THEN next[e] ELSE next[i]]
           wprev == [i \in 1..n |-> IF i = e THEN 0 ELSE IF i = next[e] THEN prev[e] ELSE prev[i]]
<1>9. /\ anker' = IF prev[e] = 0 THEN next[e] ELSE anker
      /\ free => /\ nextlvl' = [nextlvl EXCEPT ![g] = e]
                 /\ prev' = [wprev EXCEPT ![e] = g]
                 /\ next' = wnext
      /\ ~free => /\ next' = [wnext EXCEPT ![last] = e]
                  /\ prev' = [wprev EXCEPT ![e] = last]
                  /\ nextlvl' = nextlvl
      /\ name' = name /\ type' = type
  BY <1>3, <1>5 DEF MoveTo, Without, Allocated
<1>10. wnext \in [1..n -> Nat] /\ wprev \in [1..n -> Nat]
  BY <1>7, <1>8
<1> HIDE DEF free, last, e, n
<1>11. /\ next' \in [1..n -> Nat] /\ nextlvl' \in [1..n -> Nat] /\ prev' \in [1..n -> Nat]
       /\ \A x \in 1..n : next'[x] = IF ~free /\ x = last THEN e
                                     ELSE IF x = e THEN 0
                                     ELSE IF x = prev[e] THEN next[e] ELSE next[x]
       /\ \A x \in 1..n : nextlvl'[x] = IF free /\ x = g THEN e ELSE nextlvl[x]
       /\ \A x \in 1..n : prev'[x] = IF x = e THEN (IF free THEN g ELSE last)
                                     ELSE IF x = next[e] THEN prev[e] ELSE prev[x]
  <2>1. e \in Nat /\ g \in Nat /\ g \in 1..n
    BY <1>2, <1>4 DEF n
  <2>2. \A f \in [1..n -> Nat] : \A k \in 1..n : \A v \in Nat :
          /\ [f EXCEPT ![k] = v] \in [1..n -> Nat]
          /\ \A x \in 1..n : [f EXCEPT ![k] = v][x] = IF x = k THEN v ELSE f[x]
    OBVIOUS
  <2>3. /\ \A x \in 1..n : wnext[x] = IF x = e THEN 0 ELSE IF x = prev[e] THEN next[e] ELSE next[x]
        /\ \A x \in 1..n : wprev[x] = IF x = e THEN 0 ELSE IF x = next[e] THEN prev[e] ELSE prev[x]
    OBVIOUS
  <2> HIDE DEF wnext, wprev
  <2>4. CASE free
    <3>1. next' = wnext /\ nextlvl' = [nextlvl EXCEPT ![g] = e] /\ prev' = [wprev EXCEPT ![e] = g]
      BY <1>9, <2>4
    <3>2. nextlvl' \in [1..n -> Nat] /\ \A x \in 1..n : nextlvl'[x] = IF x = g THEN e ELSE nextlvl[x]
      BY <1>7, <2>1, <2>2, <3>1
    <3>3. prev' \in [1..n -> Nat] /\ \A x \in 1..n : prev'[x] = IF x = e THEN g ELSE wprev[x]
      BY <1>4, <1>10, <2>1, <2>2, <3>1
    <3> QED BY <1>10, <2>3, <2>4, <3>1, <3>2, <3>3
  <2>5. CASE ~free
    <3>1. last \in Nat /\ last \in 1..n
      BY <1>2, <1>6, <2>5
    <3>2. next' = [wnext EXCEPT ![last] = e] /\ nextlvl' = nextlvl /\ prev' = [wprev EXCEPT ![e] = last]
      BY <1>9, <2>5
    <3>3. next' \in [1..n -> Nat] /\ \A x \in 1..n : next'[x] = IF x = last THEN e ELSE wnext[x]
      BY <1>10, <2>1, <2>2, <3>1, <3>2
    <3>4. prev' \in [1..n -> Nat] /\ \A x \in 1..n : prev'[x] = IF x = e THEN last ELSE wprev[x]
      BY <1>4, <1>10, <2>2, <3>1, <3>2
    <3> QED BY <1>7, <2>3, <2>5, <3>2, <3>3, <3>4
  <2> QED BY <2>4, <2>5
<1>12. MovesLinks(t, g, e, anker, next, nextlvl, prev, anker', next', nextlvl', prev')
  <2>1. \A f \in [1..n -> Nat] : f \in Seq(Nat) /\ Len(f) = n
    BY <1>2, FunctionIsSeq
  <2> QED BY <1>2, <1>9, <1>11, <2>1 DEF MovesLinks, n, free, last
<1>13. IsMoved(t, g, e, p, new) /\ IsTreeOf(new)
  <2>1. g \in 1..Len(t.name) /\ p \in 1..Len(t.kids[0])
    BY <1>2, <1>3 DEF n
  <2> QED BY <1>2, <1>3, <2>1, MovedIs, MovedIsTree DEF e
<1>14. new.name = name' /\ new.type = type' /\ Len(new.name) = n
  BY <1>2, <1>9, <1>13 DEF IsMoved, n
<1> HIDE DEF new
<1>15. IsLinked(Len(new.name), new.kids, anker', next', nextlvl', prev')
  <2>1. /\ g \in 1..Len(t.name) /\ p \in 1..Len(t.kids[0])
        /\ IsLinked(Len(t.name), t.kids, anker, next, nextlvl, prev)
    BY <1>2, <1>3 DEF n
  <2>2. /\ IsMoved(t, g, t.kids[0][p], p, new)
        /\ MovesLinks(t, g, t.kids[0][p], anker, next, nextlvl, prev, anker', next', nextlvl', prev')
    BY <1>12, <1>13 DEF e
  <2> QED BY <1>2, <2>1, <2>2, MovedIsLinked
<1>16. List' = new /\ Inv'
  BY <1>13, <1>14, <1>15, ListIsTree
<1> QED BY <1>1, <1>16 DEF new, e

(* The entry that is moved is the one that has the name, and a variable. *)
LEMMA MovingIs ==
  ASSUME Inv, NEW g \in 1..Len(name), NEW nm, type[g] = "GROUP", IsVariable(nm),
         Search(List, 0, nm).ret = "OK", MoveTo(g, Search(List, 0, nm).var)
  PROVE  Inv' /\ List' = Moved(List, g, Search(List, 0, nm).var)
<1>1. PICK t : t = List
  OBVIOUS
<1>2. IsLevels(Len(t.name), t.kids) /\ 0 \in 0..Len(t.name)
  BY <1>1, StateFacts
<1>3. PICK p \in Named(t, 0, nm) : Search(t, 0, nm) = [ret |-> "OK", var |-> t.kids[0][p]]
  BY <1>1, <1>2, SearchFacts
<1>4. p \in 1..Len(List.kids[0]) /\ Search(List, 0, nm).var = List.kids[0][p]
  BY <1>1, <1>3 DEF Named
<1>5. SearchVarRef(anker, nm) = Search(List, 0, nm)
  <2>1. Fork(0) = anker /\ 0 \in 0..Len(name)
    BY StateFacts DEF Fork
  <2> QED BY <2>1, SearchIs
<1>6. type[List.kids[0][p]] # "GROUP"
  BY <1>4, <1>5 DEF IsVariable
<1> QED BY <1>4, <1>6, MoveToIs

-----------------------------------------------------------------------------
(***************************************************************************)
(* Every call is the call of VarList.                                      *)
(***************************************************************************)
LEMMA SameCall ==
  /\ \A fn, path, nm : Levels!Call(fn, path, nm) = Call(fn, path, nm)
  /\ \A c, r : Did(c, r) <=> Inv' /\ Levels!Done(c, r)
  /\ Levels!HasRoom <=> HasRoom
BY DEF Levels!Call, Call, Did, Levels!Done, Levels!HasRoom, HasRoom, List

(* rh4nvarCreatenewVariable. *)
LEMMA CreatenewVariableIs ==
  ASSUME Inv, NEW grp, NEW nm \in Names, NEW tp \in NewTypes, CreatenewVariable(grp, nm, tp)
  PROVE  Inv' /\ Levels!CreatenewVariable(grp, nm, tp)
<1> DEFINE c == Call("rh4nvarCreatenewVariable", grp, nm)
           r == Create(List, 0, grp, nm, tp)
<1>1. 0 \in 0..Len(name) /\ Fork(0) = anker /\ tp \in VarTypes
  BY StateFacts, NewTypesAssumption DEF Fork
<1>2. HasRoom /\ CreateIn(Fork(0), grp, nm, tp, c)
  BY <1>1 DEF CreatenewVariable
<1>3. Did(c, r)
  BY <1>1, <1>2, CreateInIs
<1>4. Inv' /\ Levels!Done(c, r)
  BY <1>3, SameCall
<1>5. Levels!Create(List, Levels!Root, grp, nm, tp) = r
  BY SameCreate DEF Levels!Root
<1>6. Levels!Call("rh4nvarCreatenewVariable", grp, nm) = c
  BY SameCall
<1> HIDE DEF c, r
<1> QED BY <1>2, <1>4, <1>5, <1>6, SameCall DEF Levels!CreatenewVariable

(* rh4nvarCreatenewVariable_m. *)
LEMMA CreatenewVariable_mIs ==
  ASSUME Inv, NEW path \in Seq(Names), NEW nm \in Names, NEW tp \in NewTypes,
         CreatenewVariable_m(path, nm, tp)
  PROVE  Inv' /\ Levels!CreatenewVariable_m(path, nm, tp)
<1> DEFINE c == Call("rh4nvarCreatenewVariable_m", path, nm)
           r == Create_m(List, path, nm, tp)
           w == Walk(List, 0, Front(path))
<1>1. 0 \in 0..Len(name) /\ Fork(0) = anker /\ tp \in VarTypes /\ (anker = 0 <=> List.kids[0] = <<>>)
  BY StateFacts, ForkIs, NewTypesAssumption DEF Fork
<1>2. Did(c, r)
  <2>1. CASE anker = 0 \/ path = <<>>
    <3>1. CreateIn(Fork(0), NoGroup, nm, tp, c)
      BY <1>1, <2>1 DEF CreatenewVariable_m
    <3>2. r = Create(List, 0, NoGroup, nm, tp)
      BY <1>1, <2>1 DEF Create_m, Root
    <3>3. Did(c, Create(List, 0, NoGroup, nm, tp))
      BY <1>1, <3>1, CreateInIs
    <3> QED BY <3>2, <3>3
  <2>2. CASE ~(anker = 0 \/ path = <<>>)
    <3>1. Front(path) \in Seq(Names)
      BY <2>2, FrontLast
    <3>2. WalkDown(Front(path)) = w
      BY <3>1, WalkDownIs
    <3>3. r = IF w.ret # "OK" THEN [ret |-> w.ret, list |-> List]
              ELSE Create(List, w.var, <<Last(path)>>, nm, tp)
      BY <1>1, <2>2 DEF Create_m, Root
    <3>4. w.var \in 0..Len(name)
      <4>1. PICK t : t = List
        OBVIOUS
      <4>2. IsLevels(Len(t.name), t.kids) /\ 0 \in 0..Len(t.name) /\ t.name = name
        BY <4>1, StateFacts
      <4> QED BY <3>1, <4>1, <4>2, WalkFacts
    <3> HIDE DEF w
    <3>5. CASE w.ret # "OK"
      <4>1. Fails(c, w.ret)
        BY <2>2, <3>2, <3>5 DEF CreatenewVariable_m
      <4>2. Inv' /\ List' = List /\ call' = c /\ ret' = w.ret
        BY <4>1, FailsIs
      <4> QED BY <3>3, <3>5, <4>2 DEF Did
    <3>6. CASE w.ret = "OK"
      <4>1. CreateIn(Fork(w.var), <<Last(path)>>, nm, tp, c)
        BY <2>2, <3>2, <3>6 DEF CreatenewVariable_m
      <4>2. <<Last(path)>> # NoGroup
        BY DEF NoGroup
      <4>3. Did(c, Create(List, w.var, <<Last(path)>>, nm, tp))
        BY <1>1, <3>4, <4>1, <4>2, CreateInIs
      <4> QED BY <3>3, <3>6, <4>3
    <3> QED BY <3>5, <3>6
  <2> QED BY <2>1, <2>2
<1>3. HasRoom
  BY DEF CreatenewVariable_m
<1>4. Inv' /\ Levels!Done(c, r)
  BY <1>2, SameCall
<1>5. Levels!Create_m(List, path, nm, tp) = r
  BY SameCreate
<1>6. Levels!Call("rh4nvarCreatenewVariable_m", path, nm) = c
  BY SameCall
<1> HIDE DEF c, r
<1> QED BY <1>3, <1>4, <1>5, <1>6, SameCall DEF Levels!CreatenewVariable_m

(* The names of the variable and of the group, or the way down to it. *)
LEMMA SameVariable ==
  ASSUME Inv, NEW nm
  PROVE  /\ SearchVarRef(anker, nm) = Search(List, 0, nm)
         /\ Levels!IsVariable(nm) <=> IsVariable(nm)
         /\ \A nm1 : SearchVarRef(anker, nm1) = Search(List, 0, nm1)
<1>1. \A x : SearchVarRef(anker, x) = Search(List, 0, x)
  BY StateFacts, SearchIs DEF Fork
<1>2. \A x : Levels!Search(List, Levels!Root, x) = Search(List, 0, x)
  BY SameSearch DEF Levels!Root
<1>3. List.type = type
  BY StateFacts
<1> QED BY <1>1, <1>2, <1>3 DEF Levels!IsVariable, IsVariable

(* rh4nvarMoveVarToGroup. *)
LEMMA MoveToGroupIs ==
  ASSUME Inv, NEW nm \in Names, NEW grp \in Names, MoveToGroup(nm, grp)
  PROVE  Inv' /\ Levels!MoveToGroup(nm, grp)
<1> DEFINE c == Call("rh4nvarMoveVarToGroup", <<grp>>, nm)
           r == MoveVarToGroup(List, nm, grp)
           g == Search(List, 0, grp)
           v == Search(List, 0, nm)
<1>1. IsVariable(nm) /\ SearchVarRef(anker, grp) = g /\ SearchVarRef(anker, nm) = v
  BY SameVariable DEF MoveToGroup
<1>2. /\ g.ret # "OK" => Fails(c, g.ret)
      /\ g.ret = "OK" /\ type[g.var] # "GROUP" => Fails(c, "FORMAT_ERR")
      /\ g.ret = "OK" /\ type[g.var] = "GROUP" /\ v.ret # "OK" => Fails(c, v.ret)
      /\ g.ret = "OK" /\ type[g.var] = "GROUP" /\ v.ret = "OK" => Creates(c) /\ MoveTo(g.var, v.var)
  BY <1>1 DEF MoveToGroup
<1>3. r = IF g.ret # "OK" THEN [ret |-> g.ret, list |-> List]
          ELSE IF type[g.var] # "GROUP" THEN [ret |-> "FORMAT_ERR", list |-> List]
          ELSE IF v.ret # "OK" THEN [ret |-> v.ret, list |-> List]
          ELSE [ret |-> "OK", list |-> Moved(List, g.var, v.var)]
  BY StateFacts DEF MoveVarToGroup, Root
<1>4. g.ret = "OK" => g.var \in 1..Len(name)
  <2>1. PICK t : t = List
    OBVIOUS
  <2>2. IsLevels(Len(t.name), t.kids) /\ 0 \in 0..Len(t.name) /\ t.name = name
    BY <2>1, StateFacts
  <2> QED BY <2>1, <2>2, SearchFacts
<1>5. ASSUME g.ret = "OK", type[g.var] = "GROUP", v.ret = "OK", MoveTo(g.var, v.var)
      PROVE  Inv' /\ List' = Moved(List, g.var, v.var)
  BY <1>1, <1>4, <1>5, MovingIs
<1> HIDE DEF g, v, r, c
<1>6. Did(c, r)
  <2>1. ASSUME NEW x, Fails(c, x), r = [ret |-> x, list |-> List]
        PROVE  Did(c, r)
    BY <2>1, FailsIs DEF Did
  <2>2. CASE g.ret # "OK"
    BY <1>2, <1>3, <2>1, <2>2
  <2>3. CASE g.ret = "OK" /\ type[g.var] # "GROUP"
    BY <1>2, <1>3, <2>1, <2>3
  <2>4. CASE g.ret = "OK" /\ type[g.var] = "GROUP" /\ v.ret # "OK"
    BY <1>2, <1>3, <2>1, <2>4
  <2>5. CASE g.ret = "OK" /\ type[g.var] = "GROUP" /\ v.ret = "OK"
    <3>1. Creates(c) /\ Inv' /\ List' = Moved(List, g.var, v.var)
      BY <1>2, <1>5, <2>5
    <3>2. r = [ret |-> "OK", list |-> Moved(List, g.var, v.var)]
      BY <1>3, <2>5
    <3> QED BY <3>1, <3>2 DEF Did, Creates
  <2> QED BY <2>2, <2>3, <2>4, <2>5
<1>7. Inv' /\ Levels!Done(c, r)
  BY <1>6, SameCall
<1>8. Levels!MoveVarToGroup(List, nm, grp) = r
  BY SameCreate DEF r
<1>9. Levels!Call("rh4nvarMoveVarToGroup", <<grp>>, nm) = c
  BY SameCall DEF c
<1>10. Levels!IsVariable(nm)
  BY <1>1, SameVariable
<1> QED BY <1>7, <1>8, <1>9, <1>10 DEF Levels!MoveToGroup

(* rh4nvarMoveVarToGroup_m. *)
LEMMA MoveToGroup_mIs ==
  ASSUME Inv, NEW nm \in Names, NEW path \in Seq(Names), MoveToGroup_m(nm, path)
  PROVE  Inv' /\ Levels!MoveToGroup_m(nm, path)
<1> DEFINE c == Call("rh4nvarMoveVarToGroup_m", path, nm)
           r == MoveVarToGroup_m(List, nm, path)
           g == Walk(List, 0, path)
           v == Search(List, 0, nm)
<1>1. /\ IsVariable(nm) /\ WalkDown(path) = g /\ SearchVarRef(anker, nm) = v
      /\ path # <<>> /\ (g.ret = "OK" => type[g.var] = "GROUP")
  BY SameVariable, WalkDownIs DEF MoveToGroup_m
<1>2. /\ g.ret # "OK" => Fails(c, g.ret)
      /\ g.ret = "OK" /\ v.ret # "OK" => Fails(c, v.ret)
      /\ g.ret = "OK" /\ v.ret = "OK" => Creates(c) /\ MoveTo(g.var, v.var)
  BY <1>1 DEF MoveToGroup_m
<1>3. r = IF g.ret # "OK" THEN [ret |-> g.ret, list |-> List]
          ELSE IF v.ret # "OK" THEN [ret |-> v.ret, list |-> List]
          ELSE [ret |-> "OK", list |-> Moved(List, g.var, v.var)]
  BY DEF MoveVarToGroup_m, Root
<1>4. g.ret = "OK" => g.var \in 1..Len(name)
  <2>1. PICK t : t = List
    OBVIOUS
  <2>2. IsLevels(Len(t.name), t.kids) /\ 0 \in 0..Len(t.name) /\ t.name = name
    BY <2>1, StateFacts
  <2>3. path # <<>> /\ Walk(t, 0, path).ret = "OK" => Walk(t, 0, path).var \in 1..Len(t.name)
    BY <2>2, WalkFacts
  <2> QED BY <1>1, <2>1, <2>2, <2>3
<1>5. ASSUME g.ret = "OK", v.ret = "OK", MoveTo(g.var, v.var)
      PROVE  Inv' /\ List' = Moved(List, g.var, v.var)
  BY <1>1, <1>4, <1>5, MovingIs
<1>a. Levels!Walk(List, Levels!Root, path) = g /\ List.type = type
  BY SameSearch, StateFacts DEF Levels!Root
<1> HIDE DEF g, v, r, c
<1>6. Did(c, r)
  <2>1. ASSUME NEW x, Fails(c, x), r = [ret |-> x, list |-> List]
        PROVE  Did(c, r)
    BY <2>1, FailsIs DEF Did
  <2>2. CASE g.ret # "OK"
    BY <1>2, <1>3, <2>1, <2>2
  <2>3. CASE g.ret = "OK" /\ v.ret # "OK"
    BY <1>2, <1>3, <2>1, <2>3
  <2>4. CASE g.ret = "OK" /\ v.ret = "OK"
    <3>1. Creates(c) /\ Inv' /\ List' = Moved(List, g.var, v.var)
      BY <1>2, <1>5, <2>4
    <3>2. r = [ret |-> "OK", list |-> Moved(List, g.var, v.var)]
      BY <1>3, <2>4
    <3> QED BY <3>1, <3>2 DEF Did, Creates
  <2> QED BY <2>2, <2>3, <2>4
<1>7. Inv' /\ Levels!Done(c, r)
  BY <1>6, SameCall
<1>8. Levels!MoveVarToGroup_m(List, nm, path) = r
  BY SameCreate DEF r
<1>9. Levels!Call("rh4nvarMoveVarToGroup_m", path, nm) = c
  BY SameCall DEF c
<1>10. Levels!IsVariable(nm)
  BY <1>1, SameVariable
<1>11. Levels!LeadsToGroup(path)
  BY <1>1, <1>a DEF Levels!LeadsToGroup
<1> QED BY <1>7, <1>8, <1>9, <1>10, <1>11 DEF Levels!MoveToGroup_m

-----------------------------------------------------------------------------
(***************************************************************************)
(* What is created gets no name that its level has, and is found where it  *)
(* was created.                                                            *)
(***************************************************************************)
NewIsNew(t, new) ==
  Len(new.name) > Len(t.name) =>
    \A g \in 0..Len(t.name) : \A i, j \in 1..Len(new.kids[g]) :
      new.kids[g][i] = Len(new.name) /\ i # j
        => new.name[new.kids[g][j]] # new.name[Len(new.name)]

(* An entry is added where no entry had its name. *)
LEMMA AddedIsNew ==
  ASSUME NEW t, IsTreeOf(t), NEW at \in 0..Len(t.name), NEW nm, NEW tp, NEW new,
         IsAdded(t, at, nm, tp, new), IsTreeOf(new), Search(t, at, nm).ret # "OK"
  PROVE  NewIsNew(t, new)
<1> DEFINE n == Len(t.name)
<1>1. n \in Nat /\ Len(new.name) = n + 1 /\ new.name[n + 1] = nm
      /\ (\A k \in 1..n : new.name[k] = t.name[k])
  BY DEF IsAdded
<1>2. \A i \in 1..Len(t.kids[at]) : t.name[t.kids[at][i]] # nm
  BY NameIsNew
<1>3. ASSUME NEW g \in 0..n, NEW i \in 1..Len(new.kids[g]), NEW j \in 1..Len(new.kids[g]),
             new.kids[g][i] = n + 1, i # j
      PROVE  new.name[new.kids[g][j]] # nm
  <2>1. PositionsAre(t, at, new, g)
    BY AddedPositions
  <2>2. \A k \in 1..Len(new.kids[g]) :
          \/ k \in 1..Len(t.kids[g]) /\ new.kids[g][k] = t.kids[g][k] /\ new.kids[g][k] \in 1..n
          \/ g = at /\ k = Len(t.kids[at]) + 1 /\ new.kids[g][k] = n + 1
    BY <2>1 DEF PositionsAre
  <2>3. n + 1 \notin 1..n
    BY <1>1
  <2>4. g = at /\ i = Len(t.kids[at]) + 1
    BY <1>3, <2>2, <2>3
  <2>5. j \in 1..Len(t.kids[at]) /\ new.kids[g][j] = t.kids[at][j] /\ new.kids[g][j] \in 1..n
    BY <1>3, <2>2, <2>4
  <2> HIDE DEF n
  <2> QED BY <1>1, <1>2, <2>5
<1> QED BY <1>1, <1>3 DEF NewIsNew

(* What a call that creates in the level at, or in a group there, gives. *)
Created(t, at, grp, nm, r) ==
  /\ NewIsNew(t, r.list)
  /\ r.ret # "OK" => r.list = t
  /\ r.ret = "OK" =>
       /\ Len(t.name) \in Nat /\ Len(r.list.name) = Len(t.name) + 1
       /\ GetRef(r.list, at, grp, nm) = [ret |-> "OK", var |-> Len(r.list.name)]
       /\ \A h \in 0..Len(t.name) : \A path \in Seq(Names) :
            Walk(t, h, path).ret = "OK" => Walk(r.list, h, path) = Walk(t, h, path)
       /\ IsTreeOf(r.list)

(* rh4nvarCreatenewVariable creates what is then found, and hides nothing. *)
LEMMA CreateCreates ==
  ASSUME NEW t, IsTreeOf(t), NEW at \in 0..Len(t.name), NEW grp, NEW nm \in Names, NEW tp \in VarTypes,
         grp = NoGroup => at = 0
  PROVE  Created(t, at, grp, nm, Create(t, at, grp, nm, tp))
<1> DEFINE g == GroupIn(t, at, grp)
           s == Search(t, at, grp[1])
           r == Create(t, at, grp, nm, tp)
           ref == GetRef(t, at, grp, nm)
           new == Added(t, g.var, nm, tp)
<1>1. r = IF ref.ret = "OK" THEN [ret |-> "VAR_EXISTS", list |-> t]
          ELSE IF g.ret # "OK" THEN [ret |-> g.ret, list |-> t]
          ELSE [ret |-> "OK", list |-> new]
  BY DEF Create, Exist
<1>2. IsLevels(Len(t.name), t.kids) /\ Len(t.name) \in Nat
  BY DEF IsTreeOf, IsLevels
<1> SUFFICES Created(t, at, grp, nm, r)
  OBVIOUS
<1>3. CASE r.ret # "OK"
  <2>1. r.list = t
    BY <1>1, <1>3
  <2>2. ~(Len(t.name) > Len(t.name))
    BY <1>2
  <2> HIDE DEF r
  <2> QED BY <1>3, <2>1, <2>2 DEF Created, NewIsNew
<1>4. CASE r.ret = "OK"
  <2>1. r = [ret |-> "OK", list |-> new] /\ g.ret = "OK" /\ ref.ret # "OK"
    BY <1>1, <1>4
  <2>2. g = IF grp = NoGroup THEN [ret |-> "OK", var |-> at]
            ELSE IF s.ret = "OK" /\ t.type[s.var] # "GROUP" THEN [ret |-> "UNKOWN_VAR", var |-> 0] ELSE s
    BY DEF GroupIn, Root
  <2>3. /\ g.var \in 0..Len(t.name) /\ (g.var = 0 \/ t.type[g.var] = "GROUP")
        /\ grp # NoGroup => g = s
    <3>1. s.var \in 0..Len(t.name)
      BY <1>2, SearchFacts
    <3> HIDE DEF g, s
    <3> QED BY <2>1, <2>2, <3>1
  <2>4. Search(t, g.var, nm).ret # "OK"
    <3>1. ref = Search(t, g.var, nm)
      BY <2>1 DEF GetRef
    <3> QED BY <2>1, <3>1
  <2>5. IsAdded(t, g.var, nm, tp, new) /\ IsTreeOf(new)
    <3> HIDE DEF g
    <3> QED BY <2>3, AddedIs, AddedIsTree
  <2> HIDE DEF g, new, s, ref, r
  <2>6. NewIsNew(t, new)
    BY <2>3, <2>4, <2>5, AddedIsNew
  <2>7. Search(new, g.var, nm) = [ret |-> "OK", var |-> Len(new.name)]
    BY <2>3, <2>4, <2>5, NewIsFound
  <2>8. GroupIn(new, at, grp) = g
    <3>1. CASE grp = NoGroup
      BY <2>2, <3>1 DEF GroupIn
    <3>2. CASE grp # NoGroup
      <4>1. g = s /\ s.ret = "OK" /\ s = Search(t, at, grp[1])
        BY <2>1, <2>3, <3>2 DEF s
      <4>2. Search(new, at, grp[1]) = s
        BY <2>3, <2>5, <4>1, SearchKept
      <4>3. s.var \in 1..Len(t.name)
        BY <1>2, <4>1, SearchFacts
      <4>4. new.type[s.var] = t.type[s.var]
        BY <2>5, <4>3 DEF IsAdded
      <4>5. t.type[s.var] = "GROUP"
        BY <1>2, <2>3, <4>1, <4>3
      <4> QED BY <3>2, <4>1, <4>2, <4>4, <4>5 DEF GroupIn
    <3> QED BY <3>1, <3>2
  <2>9. GetRef(new, at, grp, nm) = [ret |-> "OK", var |-> Len(new.name)]
    BY <2>1, <2>7, <2>8 DEF GetRef
  <2>10. \A h \in 0..Len(t.name) : \A path \in Seq(Names) :
           Walk(t, h, path).ret = "OK" => Walk(new, h, path) = Walk(t, h, path)
    BY <2>3, <2>5, WalkKept
  <2>11. Len(new.name) = Len(t.name) + 1
    BY <2>5 DEF IsAdded
  <2>12. r.list = new /\ r.ret = "OK"
    BY <2>1
  <2> QED BY <1>2, <2>5, <2>6, <2>9, <2>10, <2>11, <2>12 DEF Created
<1> QED BY <1>3, <1>4

Created_m(t, path, nm, r) ==
  /\ NewIsNew(t, r.list)
  /\ r.ret = "OK" =>
       GetRef_m(r.list, IF Len(r.list.name) = 1 THEN <<>> ELSE path, nm)
         = [ret |-> "OK", var |-> Len(r.list.name)]

(* rh4nvarCreatenewVariable_m creates what is then found down its path. *)
LEMMA Create_mCreates ==
  ASSUME NEW t, IsTreeOf(t), NEW path \in Seq(Names), NEW nm \in Names, NEW tp \in VarTypes
  PROVE  Created_m(t, path, nm, Create_m(t, path, nm, tp))
<1> DEFINE r == Create_m(t, path, nm, tp)
<1>1. /\ IsLevels(Len(t.name), t.kids) /\ Len(t.name) \in Nat /\ 0 \in 0..Len(t.name)
  BY DEF IsTreeOf, IsLevels
<1>2. t.kids[0] = <<>> <=> Len(t.name) = 0
  <2>1. ASSUME Len(t.name) = 0 PROVE t.kids[0] = <<>>
    <3>1. t.kids[0] \in Seq(1..0) /\ Len(t.kids[0]) \in Nat /\ \A i \in 1..Len(t.kids[0]) : t.kids[0][i] \in 1..0
      BY <1>1, <2>1, LevelFacts
    <3>2. ~(1 \in 1..Len(t.kids[0]))
      BY <3>1
    <3> QED BY <1>1, <3>2, LevelFacts
  <2> QED BY <2>1, TopIsNotEmpty
<1> SUFFICES Created_m(t, path, nm, r)
  OBVIOUS
<1>3. CASE t.kids[0] = <<>> \/ path = <<>>
  <2>1. r = Create(t, 0, NoGroup, nm, tp)
    BY <1>3 DEF Create_m, Root
  <2>2. Created(t, 0, NoGroup, nm, r)
    BY <1>1, <2>1, CreateCreates
  <2> HIDE DEF r
  <2>3. ASSUME r.ret = "OK"
        PROVE  GetRef_m(r.list, IF Len(r.list.name) = 1 THEN <<>> ELSE path, nm)
                 = [ret |-> "OK", var |-> Len(r.list.name)]
    <3>1. /\ GetRef(r.list, 0, NoGroup, nm) = [ret |-> "OK", var |-> Len(r.list.name)]
          /\ IsTreeOf(r.list) /\ Len(r.list.name) = Len(t.name) + 1
      BY <2>2, <2>3 DEF Created
    <3>2. (IF Len(r.list.name) = 1 THEN <<>> ELSE path) = <<>>
      BY <1>1, <1>2, <1>3, <3>1
    <3>3. IsLevels(Len(r.list.name), r.list.kids) /\ 0 \in 0..Len(r.list.name)
      BY <1>1, <3>1 DEF IsTreeOf
    <3>4. Walk(r.list, 0, <<>>) = [ret |-> "OK", var |-> 0]
      BY <3>3, WalkEmpty
    <3>5. Search(r.list, 0, nm) = [ret |-> "OK", var |-> Len(r.list.name)]
      BY <3>1 DEF GetRef, GroupIn
    <3> QED BY <3>2, <3>4, <3>5 DEF GetRef_m, Root
  <2> QED BY <2>2, <2>3 DEF Created, Created_m
<1>4. CASE t.kids[0] # <<>> /\ path # <<>>
  <2> DEFINE w == Walk(t, 0, Front(path))
             grp == <<Last(path)>>
  <2>1. Front(path) \in Seq(Names) /\ Last(path) \in Names
    BY <1>4, FrontLast
  <2>2. w.var \in 0..Len(t.name)
    BY <1>1, <2>1, WalkFacts
  <2>3. grp # NoGroup /\ grp[1] = Last(path)
    BY DEF NoGroup
  <2>4. r = IF w.ret # "OK" THEN [ret |-> w.ret, list |-> t] ELSE Create(t, w.var, grp, nm, tp)
    BY <1>4 DEF Create_m, Root
  <2>5. CASE w.ret # "OK"
    <3>1. r.list = t /\ r.ret # "OK"
      BY <2>4, <2>5
    <3>2. ~(Len(t.name) > Len(t.name))
      BY <1>1
    <3> HIDE DEF r
    <3> QED BY <3>1, <3>2 DEF NewIsNew, Created_m
  <2>6. CASE w.ret = "OK"
    <3> HIDE DEF grp, w, r
    <3>1. Created(t, w.var, grp, nm, r)
      BY <2>2, <2>3, <2>4, <2>6, CreateCreates
    <3>2. ASSUME r.ret = "OK"
          PROVE  GetRef_m(r.list, IF Len(r.list.name) = 1 THEN <<>> ELSE path, nm)
                   = [ret |-> "OK", var |-> Len(r.list.name)]
      <4>1. /\ GetRef(r.list, w.var, grp, nm) = [ret |-> "OK", var |-> Len(r.list.name)]
            /\ IsTreeOf(r.list) /\ Len(r.list.name) = Len(t.name) + 1
            /\ \A h \in 0..Len(t.name) : \A p \in Seq(Names) :
                 Walk(t, h, p).ret = "OK" => Walk(r.list, h, p) = Walk(t, h, p)
        BY <3>1, <3>2 DEF Created
      <4>2. (IF Len(r.list.name) = 1 THEN <<>> ELSE path) = path
        BY <1>1, <1>2, <1>4, <4>1
      <4>3. IsLevels(Len(r.list.name), r.list.kids) /\ 0 \in 0..Len(r.list.name)
        BY <1>1, <4>1 DEF IsTreeOf
      <4>4. Walk(r.list, 0, Front(path)) = w
        BY <1>1, <2>1, <2>6, <4>1 DEF w
      <4>5. Walk(r.list, 0, path) = Search(r.list, w.var, Last(path))
        BY <1>4, <2>6, <4>3, <4>4, WalkLast DEF WalkStep
      <4>6. GroupIn(r.list, w.var, grp).ret = "OK"
            /\ Search(r.list, GroupIn(r.list, w.var, grp).var, nm) = [ret |-> "OK", var |-> Len(r.list.name)]
        BY <4>1 DEF GetRef
      <4>7. GroupIn(r.list, w.var, grp) = Search(r.list, w.var, Last(path))
        BY <2>3, <4>6 DEF GroupIn
      <4> QED BY <4>2, <4>5, <4>6, <4>7 DEF GetRef_m, Root
    <3> QED BY <3>1, <3>2 DEF Created, Created_m
  <2> QED BY <2>5, <2>6
<1> QED BY <1>3, <1>4

-----------------------------------------------------------------------------
(* An empty list. *)
LEMMA InitIs ==
  ASSUME Init
  PROVE  Inv /\ Levels!Init
<1> DEFINE t == [kids |-> [g \in {0} |-> <<>>], name |-> <<>>, type |-> <<>>]
<1>1. Len(<<>>) = 0 /\ 0..0 = {0} /\ 1..0 = {}
  OBVIOUS
<1>2. /\ t.name = <<>> /\ t.type = <<>> /\ t.kids = [g \in 0..0 |-> <<>>]
      /\ t = [name |-> t.name, type |-> t.type, kids |-> t.kids]
  BY <1>1
<1>3. t.kids \in [0..0 -> Seq(1..0)] /\ t.kids[0] = <<>> /\ \A g \in 0..0 : Len(t.kids[g]) = 0
  BY <1>1, <1>2, EmptySeq
<1>4. t.name \in Seq(Names) /\ t.type \in Seq(VarTypes) /\ Len(t.name) = 0 /\ Len(t.type) = 0
  BY <1>1, <1>2, EmptySeq
<1>5. <<>> \in Seq(Nat)
  BY EmptySeq
<1> HIDE DEF t
<1>6. IsLevels(0, t.kids)
  BY <1>1, <1>3 DEF IsLevels
<1>7. IsTreeOf(t)
  BY <1>1, <1>2, <1>4, <1>6 DEF IsTreeOf, GroupsOnly
<1>8. IsLinked(0, t.kids, 0, <<>>, <<>>, <<>>)
  BY <1>1, <1>3, <1>5 DEF IsLinked, NextIsOf, PrevIsOf, FirstIn
<1>9. LevelsOf(0, 0, <<>>, <<>>) = t.kids
  BY <1>6, <1>8, LinksMakeLevels
<1>10. anker = 0 /\ next = <<>> /\ nextlvl = <<>> /\ prev = <<>> /\ name = <<>> /\ type = <<>>
       /\ call = NoCall /\ ret = "OK"
  BY DEF Init
<1>11. List = t
  BY <1>1, <1>2, <1>9, <1>10, ListIs DEF ListOf
<1>12. Inv
  BY <1>1, <1>7, <1>8, <1>10, <1>11 DEF Inv, Linked
<1>13. Levels!Init
  BY <1>10, <1>11 DEF Levels!Init, Levels!NewList, Levels!NoCall, NoCall, Levels!Root, t
<1> QED BY <1>12, <1>13

(* Every step of the links is one of the levels. *)
LEMMA NextIs ==
  ASSUME Inv, [Next]_vars
  PROVE  Inv' /\ [Levels!Next]_(Levels!vars)
<1>1. Levels!Groups = Groups
  BY DEF Levels!Groups, Groups, Levels!NoGroup, NoGroup
<1>2. ASSUME NEW grp \in Groups, NEW nm \in Names, NEW tp \in NewTypes, CreatenewVariable(grp, nm, tp)
      PROVE  Inv' /\ Levels!Next
  BY <1>1, <1>2, CreatenewVariableIs DEF Levels!Next
<1>3. ASSUME NEW path \in Paths, NEW nm \in Names, NEW tp \in NewTypes, CreatenewVariable_m(path, nm, tp)
      PROVE  Inv' /\ Levels!Next
  <2>1. path \in Seq(Names)
    BY PathsAssumption
  <2> QED BY <1>3, <2>1, CreatenewVariable_mIs DEF Levels!Next
<1>4. ASSUME NEW nm \in Names, NEW grp \in Names, MoveToGroup(nm, grp)
      PROVE  Inv' /\ Levels!Next
  BY <1>4, MoveToGroupIs DEF Levels!Next
<1>5. ASSUME NEW nm \in Names, NEW path \in Paths, MoveToGroup_m(nm, path)
      PROVE  Inv' /\ Levels!Next
  <2>1. path \in Seq(Names)
    BY PathsAssumption
  <2> QED BY <1>5, <2>1, MoveToGroup_mIs DEF Levels!Next
<1>6. CASE UNCHANGED vars
  <2>1. List' = List /\ call' = call /\ ret' = ret
    BY <1>6 DEF vars, List, Chain, Fork
  <2>2. Inv'
    BY <1>6, <2>1 DEF vars, Inv, Linked
  <2> QED BY <2>1, <2>2 DEF Levels!vars
<1>7. CASE Next
  BY <1>2, <1>3, <1>4, <1>5, <1>7 DEF Next
<1> QED BY <1>6, <1>7

(***************************************************************************)
(* Inv is an invariant: whatever calls are made, the links of a list are   *)
(* those of levels that are a tree.                                        *)
(***************************************************************************)
THEOREM LinksCorrect == Spec => []Inv
<1>1. Init => Inv
  BY InitIs
<1>2. Inv /\ [Next]_vars => Inv'
  BY NextIs
<1> QED BY <1>1, <1>2, PTL DEF Spec

(***************************************************************************)
(* VarLinks implements VarList: what the calls do to the links of a list,  *)
(* and return, is what VarList says they do to its levels.                 *)
(***************************************************************************)
THEOREM ImplementsVarListCorrect == Spec => ImplementsVarList
<1>1. Init => Inv /\ Levels!Init
  BY InitIs
<1>2. Inv /\ [Next]_vars => Inv' /\ [Levels!Next]_(Levels!vars)
  BY NextIs
<1> QED BY <1>1, <1>2, PTL DEF Spec, ImplementsVarList, Levels!Spec

(***************************************************************************)
(* Whatever calls are made, the levels are a tree: every entry is at one   *)
(* position of one level, only groups have a level below them, and a group *)
(* is younger than the one it is in.                                       *)
(***************************************************************************)
THEOREM IsTreeCorrect == Spec => []IsTree
<1>1. Inv => IsTree
  <2> SUFFICES ASSUME Inv PROVE IsTree
    OBVIOUS
  <2>1. PICK t : t = List
    OBVIOUS
  <2>2. IsLevels(Len(t.name), t.kids) /\ GroupsOnly(t) /\ Len(t.name) \in Nat
    BY <2>1, StateFacts DEF IsTreeOf, IsLevels
  <2>3. ASSUME NEW e \in 1..Len(t.name)
        PROVE  \E g \in 0..Len(t.name) : \E i \in 1..Len(t.kids[g]) :
                 /\ t.kids[g][i] = e
                 /\ \A h \in 0..Len(t.name) : \A j \in 1..Len(t.kids[h]) :
                      t.kids[h][j] = e => h = g /\ j = i
    <3>1. PICK g \in 0..Len(t.name) : \E i \in 1..Len(t.kids[g]) : t.kids[g][i] = e
      BY <2>2 DEF IsLevels
    <3>2. PICK i \in 1..Len(t.kids[g]) : t.kids[g][i] = e
      BY <3>1
    <3>3. \A h \in 0..Len(t.name) : \A j \in 1..Len(t.kids[h]) : t.kids[h][j] = e => h = g /\ j = i
      <4>1. \A g1, h \in 0..Len(t.name) : \A i1 \in 1..Len(t.kids[g1]) : \A j \in 1..Len(t.kids[h]) :
              t.kids[g1][i1] = t.kids[h][j] => g1 = h /\ i1 = j
        BY <2>2 DEF IsLevels
      <4>2. \A h \in 0..Len(t.name) : \A j \in 1..Len(t.kids[h]) :
              t.kids[g][i] = t.kids[h][j] => g = h /\ i = j
        BY <4>1
      <4> QED BY <3>2, <4>2
    <3> QED BY <3>2, <3>3
  <2> DEFINE OnePlace(l) ==
               \A e \in 1..Len(l.name) :
                 \E g \in 0..Len(l.name) : \E i \in 1..Len(l.kids[g]) :
                   /\ l.kids[g][i] = e
                   /\ \A h \in 0..Len(l.name) : \A j \in 1..Len(l.kids[h]) :
                        l.kids[h][j] = e => h = g /\ j = i
  <2>4. Levels!InOnePlace
    <3>1. OnePlace(t)
      BY <2>3
    <3>2. OnePlace(List)
      <4> HIDE DEF OnePlace
      <4> QED BY <2>1, <3>1
    <3> QED BY <3>2 DEF Levels!InOnePlace, Levels!Entries, Levels!Root
  <2>5. Levels!LevelsReachable
    BY <2>1, <2>2 DEF Levels!LevelsReachable, Levels!Entries, GroupsOnly
  <2> QED BY <2>4, <2>5 DEF IsTree, Levels!IsTree
<1> QED BY <1>1, LinksCorrect, PTL

(* What a step of the levels creates. *)
LEMMA StepCreates ==
  ASSUME Inv, Levels!Next
  PROVE  NewIsNew(List, List') /\ CreatedIsFound'
<1>1. PICK t : t = List
  OBVIOUS
<1>2. IsTreeOf(t) /\ 0 \in 0..Len(t.name) /\ Len(t.name) \in Nat
  BY <1>1, StateFacts
<1>a. \A to, e : Moved(t, to, e).name = t.name
  <2>1. t = [name |-> t.name, type |-> t.type, kids |-> t.kids]
    BY <1>2 DEF IsTreeOf
  <2>2. ASSUME NEW k PROVE [t EXCEPT !.kids = k].name = t.name
    BY <2>1
  <2> QED BY <2>2 DEF Moved
<1>3. ASSUME NEW grp \in Levels!Groups, NEW nm \in Names, NEW tp \in NewTypes,
             Levels!CreatenewVariable(grp, nm, tp)
      PROVE  NewIsNew(t, List') /\ CreatedIsFound'
  <2> DEFINE r == Create(t, 0, grp, nm, tp)
  <2>1. tp \in VarTypes
    BY NewTypesAssumption
  <2>2. Created(t, 0, grp, nm, r)
    BY <1>2, <2>1, CreateCreates
  <2>3. Levels!Create(t, Levels!Root, grp, nm, tp) = r
    BY SameCreate DEF Levels!Root
  <2> HIDE DEF r
  <2>4. /\ call' = [fn |-> "rh4nvarCreatenewVariable", path |-> grp, name |-> nm]
        /\ ret' = r.ret /\ List' = r.list
    BY <1>1, <1>3, <2>3 DEF Levels!CreatenewVariable, Levels!Done, Levels!Call
  <2>5. r.ret = "OK" => GetRef(r.list, 0, grp, nm) = [ret |-> "OK", var |-> Len(r.list.name)]
    BY <2>2 DEF Created
  <2>6. Levels!GetRef(r.list, Levels!Root, grp, nm) = GetRef(r.list, 0, grp, nm)
    BY SameSearch DEF Levels!Root
  <2>7. CreatedIsFound'
    BY <2>4, <2>5, <2>6 DEF CreatedIsFound, Levels!CreatedIsFound
  <2> QED BY <2>2, <2>4, <2>7 DEF Created
<1>4. ASSUME NEW path \in Paths, NEW nm \in Names, NEW tp \in NewTypes,
             Levels!CreatenewVariable_m(path, nm, tp)
      PROVE  NewIsNew(t, List') /\ CreatedIsFound'
  <2> DEFINE r == Create_m(t, path, nm, tp)
             way == IF Len(r.list.name) = 1 THEN <<>> ELSE path
  <2>1. tp \in VarTypes /\ path \in Seq(Names)
    BY NewTypesAssumption, PathsAssumption
  <2>2. Created_m(t, path, nm, r)
    BY <1>2, <2>1, Create_mCreates
  <2>3. Levels!Create_m(t, path, nm, tp) = r
    BY SameCreate
  <2> HIDE DEF r
  <2>4. /\ call' = [fn |-> "rh4nvarCreatenewVariable_m", path |-> path, name |-> nm]
        /\ ret' = r.ret /\ List' = r.list
    BY <1>1, <1>4, <2>3 DEF Levels!CreatenewVariable_m, Levels!Done, Levels!Call
  <2>5. r.ret = "OK" => GetRef_m(r.list, way, nm) = [ret |-> "OK", var |-> Len(r.list.name)]
    BY <2>2 DEF Created_m
  <2>6. Levels!GetRef_m(r.list, way, nm) = GetRef_m(r.list, way, nm)
    BY SameSearch
  <2>7. CreatedIsFound'
    BY <2>4, <2>5, <2>6 DEF CreatedIsFound, Levels!CreatedIsFound
  <2> QED BY <2>2, <2>4, <2>7 DEF Created_m
<1>5. ASSUME NEW nm \in Names, NEW grp \in Names, Levels!MoveToGroup(nm, grp)
      PROVE  NewIsNew(t, List') /\ CreatedIsFound'
  <2>1. call'.fn = "rh4nvarMoveVarToGroup" /\ List' = Levels!MoveVarToGroup(t, nm, grp).list
    BY <1>1, <1>5 DEF Levels!MoveToGroup, Levels!Done, Levels!Call
  <2>2. List'.name = t.name
    BY <1>a, <2>1, SameCreate DEF MoveVarToGroup
  <2> QED BY <1>2, <2>1, <2>2 DEF NewIsNew, CreatedIsFound, Levels!CreatedIsFound
<1>6. ASSUME NEW nm \in Names, NEW path \in Paths, Levels!MoveToGroup_m(nm, path)
      PROVE  NewIsNew(t, List') /\ CreatedIsFound'
  <2>1. call'.fn = "rh4nvarMoveVarToGroup_m" /\ List' = Levels!MoveVarToGroup_m(t, nm, path).list
    BY <1>1, <1>6 DEF Levels!MoveToGroup_m, Levels!Done, Levels!Call
  <2>2. List'.name = t.name
    BY <1>a, <2>1, SameCreate DEF MoveVarToGroup_m
  <2> QED BY <1>2, <2>1, <2>2 DEF NewIsNew, CreatedIsFound, Levels!CreatedIsFound
<1>7. NewIsNew(t, List') /\ CreatedIsFound'
  BY <1>3, <1>4, <1>5, <1>6 DEF Levels!Next
<1> QED BY <1>1, <1>7

(***************************************************************************)
(* A variable that has been created is found where it was created, and not *)
(* another of its name, whatever calls came before.                        *)
(***************************************************************************)
THEOREM CreatedIsFoundCorrect == Spec => []CreatedIsFound
<1>1. Init => CreatedIsFound
  BY DEF Init, CreatedIsFound, Levels!CreatedIsFound, NoCall
<1>2. ASSUME Inv, CreatedIsFound, [Next]_vars
      PROVE  CreatedIsFound'
  <2>1. CASE Levels!Next
    BY <1>2, <2>1, StepCreates
  <2>2. CASE UNCHANGED Levels!vars
    BY <1>2, <2>2, SameSearch DEF Levels!vars, CreatedIsFound, Levels!CreatedIsFound
  <2> QED BY <1>2, <2>1, <2>2, NextIs
<1> QED BY <1>1, <1>2, LinksCorrect, PTL DEF Spec

(***************************************************************************)
(* What is created gets no name that its level has already, whatever calls *)
(* came before.                                                            *)
(***************************************************************************)
THEOREM NewNameIsNewCorrect == Spec => NewNameIsNew
<1> DEFINE A == Len(List'.name) > Len(List.name) =>
                  \A g \in DOMAIN List.kids : \A i, j \in 1..Len(List'.kids[g]) :
                    List'.kids[g][i] = Len(List'.name) /\ i # j
                      => List'.name[List'.kids[g][j]] # List'.name[Len(List'.name)]
<1>1. ASSUME Inv, [Next]_vars PROVE [A]_(Levels!vars)
  <2>1. CASE Levels!Next
    <3>1. NewIsNew(List, List')
      BY <1>1, <2>1, StepCreates
    <3>2. DOMAIN List.kids = 0..Len(List.name)
      BY DEF List
    <3> QED BY <3>1, <3>2 DEF NewIsNew
  <2>2. CASE UNCHANGED Levels!vars
    BY <2>2
  <2> QED BY <1>1, <2>1, <2>2, NextIs
<1> QED BY <1>1, LinksCorrect, PTL DEF Spec, NewNameIsNew, Levels!NewNameIsNew
=============================================================================
