---------------------------- MODULE NatCallProofs ---------------------------
(***************************************************************************)
(* For every request, every old file, every room on the disk and every     *)
(* call that fails: what natcaller loads is what was dumped or a beginning *)
(* of it that it tells from the whole, up to a list that has an entry      *)
(* without a name (LoadsABeginningCorrect, LoadTellsTruthCorrect), an      *)
(* error is in the output file (ErrorIsToldCorrect) and the session is     *)
(* closed (SessionIsClosedCorrect).                                        *)
(***************************************************************************)
EXTENDS NatCall, Integers, SequencesExt, FiniteSetTheorems, SequenceTheorems, TLAPS

-----------------------------------------------------------------------------
(***************************************************************************)
(* Natural numbers and sequences.                                          *)
(***************************************************************************)

(* A set of naturals has a least element: what proofs by induction use. *)
LEMMA LeastNat ==
  ASSUME NEW T, T \subseteq Nat, T # {}
  PROVE  \E m \in T : \A n \in T : m <= n
<1> DEFINE Below(n) == 0..(n - 1)
           R == StrictSubsetOrdering(Nat)
           F == FiniteSubsetsOf(Nat)
           B == {Below(n) : n \in T}
<1>1. IsWellFoundedOn(R, F)
  BY FS_StrictSubsetOrderingWellFounded
<1>2. \A n \in T : Below(n) \in F
  BY FS_Interval DEF FiniteSubsetsOf
<1>3. B \subseteq F /\ B # {}
  BY <1>2
<1>4. PICK x \in B : \A y \in B : ~(<<y, x>> \in R)
  <2> HIDE DEF R, F, B
  <2> QED BY <1>1, <1>3, WFMin
<1>5. PICK m \in T : x = Below(m)
  BY <1>4
<1>6. ASSUME NEW n \in T, n < m PROVE FALSE
  <2>1. Below(n) \subseteq Below(m) /\ Below(n) # Below(m)
    <3>1. n \in Below(m) /\ n \notin Below(n)
      BY <1>6
    <3>2. \A i \in Below(n) : i \in Below(m)
      BY <1>6
    <3> QED BY <3>1, <3>2
  <2>2. Below(n) \in SUBSET Nat /\ Below(m) \in SUBSET Nat
    OBVIOUS
  <2>3. <<Below(n), Below(m)>> \in R
    BY <2>1, <2>2 DEF StrictSubsetOrdering
  <2> QED BY <2>3, <1>4, <1>5
<1> QED BY <1>6

(* A function on 1..n is a sequence. *)
LEMMA FunctionIsSeq ==
  ASSUME NEW S, NEW n \in Nat, NEW f \in [1..n -> S]
  PROVE  f \in Seq(S) /\ Len(f) = n /\ (n # 0 => f # <<>>)
<1>1. f \in Seq(S)
  BY SeqDef
<1>2. Len(f) \in Nat /\ DOMAIN f = 1..Len(f) /\ DOMAIN f = 1..n
  BY <1>1, LenProperties
<1>3. Len(f) = n
  BY <1>2
<1>4. Len(<<>>) = 0
  OBVIOUS
<1> QED BY <1>1, <1>3, <1>4

(* Where the elements of two sequences are in their concatenation. *)
LEMMA ConcatParts ==
  ASSUME NEW S, NEW s \in Seq(S), NEW t \in Seq(S)
  PROVE  /\ s \o t \in Seq(S)
         /\ Len(s) \in Nat /\ Len(t) \in Nat /\ Len(s \o t) = Len(s) + Len(t)
         /\ \A i \in 1..Len(s) : (s \o t)[i] = s[i]
         /\ \A i \in 1..Len(t) : (s \o t)[Len(s) + i] = t[i]
<1>1. Len(s) \in Nat /\ Len(t) \in Nat
  BY LenProperties
<1>2. /\ s \o t \in Seq(S) /\ Len(s \o t) = Len(s) + Len(t)
      /\ \A i \in 1..Len(s) + Len(t) : (s \o t)[i] = IF i <= Len(s) THEN s[i] ELSE t[i - Len(s)]
  BY ConcatProperties
<1>3. ASSUME NEW i \in 1..Len(t) PROVE (s \o t)[Len(s) + i] = t[i]
  <2>1. Len(s) + i \in 1..Len(s) + Len(t) /\ ~(Len(s) + i <= Len(s)) /\ (Len(s) + i) - Len(s) = i
    BY <1>1
  <2> QED BY <2>1, <1>2
<1>4. \A i \in 1..Len(s) : i \in 1..Len(s) + Len(t) /\ i <= Len(s)
  BY <1>1
<1> QED BY <1>1, <1>2, <1>3, <1>4

(***************************************************************************)
(* FlattenSeq goes through its sequences from the first to the last and    *)
(* puts each behind what it has.                                           *)
(***************************************************************************)
LEMMA FlattenSteps ==
  ASSUME NEW S, NEW seqs \in Seq(Seq(S)), seqs # <<>>
  PROVE  \E f \in [0..Len(seqs) -> Seq(S)] :
           /\ f[0] = <<>>
           /\ \A i \in 1..Len(seqs) : f[i] = f[i - 1] \o seqs[i]
           /\ f[Len(seqs)] = FlattenSeq(seqs)
<1> DEFINE len == Len(seqs)
           Goes(f, n) == \A i \in 1..n : f[i] = IF i = 1 THEN seqs[i] ELSE f[i - 1] \o seqs[i]
           Wrong == {n \in Nat : n \in 1..len /\ ~ \E f \in [1..n -> Seq(S)] : Goes(f, n)}
<1>1. len \in Nat \ {0} /\ \A i \in 1..len : seqs[i] \in Seq(S)
  BY EmptySeq
<1>2. Wrong = {}
  <2> SUFFICES ASSUME Wrong # {} PROVE FALSE
    OBVIOUS
  <2>1. PICK n \in Wrong : \A m \in Wrong : n <= m
    <3> HIDE DEF Wrong
    <3> Wrong \subseteq Nat
      BY DEF Wrong
    <3> QED BY LeastNat
  <2>2. n \in Nat /\ n \in 1..len /\ ~ \E f \in [1..n -> Seq(S)] : Goes(f, n)
    BY <2>1
  <2>3. CASE n = 1
    <3> DEFINE f == [i \in 1..n |-> seqs[i]]
    <3>1. f \in [1..n -> Seq(S)] /\ Goes(f, n)
      BY <1>1, <2>2, <2>3
    <3> QED BY <3>1, <2>2
  <2>4. CASE n # 1
    <3>1. n - 1 \in Nat /\ n - 1 \in 1..len /\ n - 1 \notin Wrong
      <4> HIDE DEF Wrong, len
      <4> QED BY <2>1, <2>2, <2>4, <1>1
    <3>2. PICK g \in [1..n - 1 -> Seq(S)] : Goes(g, n - 1)
      BY <3>1
    <3> DEFINE f == [i \in 1..n |-> IF i < n THEN g[i] ELSE g[n - 1] \o seqs[n]]
    <3>3. f \in [1..n -> Seq(S)]
      <4>1. g[n - 1] \o seqs[n] \in Seq(S)
        BY <3>1, <3>2, <1>1, <2>2, ConcatProperties
      <4> QED BY <4>1, <2>2, <3>2
    <3>4. ASSUME NEW i \in 1..n
          PROVE  f[i] = IF i = 1 THEN seqs[i] ELSE f[i - 1] \o seqs[i]
      <4>1. CASE i = n
        <5>1. n \in 1..n /\ ~(n < n)
          BY <2>2
        <5>4. f[n] = g[n - 1] \o seqs[n]
          <6> HIDE DEF Goes, Wrong, len
          <6> QED BY <5>1
        <5>2. n - 1 \in 1..n /\ n - 1 < n
          BY <2>2, <2>4
        <5>3. f[i - 1] = g[n - 1]
          BY <4>1, <5>2
        <5> HIDE DEF f
        <5> QED BY <2>4, <4>1, <5>3, <5>4
      <4>2. CASE i # n
        <5>1. i \in 1..n - 1 /\ i < n /\ (i # 1 => i - 1 \in 1..n /\ i - 1 < n)
          BY <2>2, <4>2
        <5>2. f[i] = g[i] /\ (i # 1 => f[i - 1] = g[i - 1])
          BY <5>1
        <5> HIDE DEF f
        <5> QED BY <3>2, <5>1, <5>2
      <4> QED BY <4>1, <4>2
    <3> QED BY <3>3, <3>4, <2>2
  <2> QED BY <2>3, <2>4
<1>3. PICK g \in [1..len -> Seq(S)] : Goes(g, len)
  <2>1. len \in 1..len /\ len \notin Wrong
    <3> HIDE DEF Wrong, len
    <3> QED BY <1>1, <1>2
  <2> QED BY <2>1, <1>1
<1> DEFINE flatten == CHOOSE f : f = [i \in 1..len |-> IF i = 1 THEN seqs[i] ELSE f[i - 1] \o seqs[i]]
<1>4. g = [i \in 1..len |-> IF i = 1 THEN seqs[i] ELSE g[i - 1] \o seqs[i]]
  BY <1>3
<1>5. flatten = [i \in 1..len |-> IF i = 1 THEN seqs[i] ELSE flatten[i - 1] \o seqs[i]]
  BY <1>4
<1>6. FlattenSeq(seqs) = flatten[len]
  BY <1>1 DEF FlattenSeq
<1>7. \A i \in 1..len : flatten[i] = IF i = 1 THEN seqs[i] ELSE flatten[i - 1] \o seqs[i]
  <2> HIDE DEF flatten, len
  <2> QED BY <1>5
<1>8. \A i \in 1..len : flatten[i] = g[i]
  <2> HIDE DEF flatten, len
  <2> DEFINE Differ == {i \in Nat : i \in 1..len /\ flatten[i] # g[i]}
  <2> SUFFICES ASSUME NEW k \in 1..len, flatten[k] # g[k] PROVE FALSE
    OBVIOUS
  <2>0. k \in Differ
    BY <1>1
  <2>1. PICK n \in Differ : \A m \in Differ : n <= m
    <3> HIDE DEF Differ
    <3> Differ \subseteq Nat
      BY DEF Differ
    <3> QED BY <2>0, LeastNat
  <2>2. n = 1 \/ (n # 1 /\ n - 1 \in 1..len /\ flatten[n - 1] = g[n - 1])
    BY <2>1, <1>1
  <2>3. n \in 1..len /\ flatten[n] # g[n]
    BY <2>1
  <2>4. /\ flatten[n] = IF n = 1 THEN seqs[n] ELSE flatten[n - 1] \o seqs[n]
        /\ g[n] = IF n = 1 THEN seqs[n] ELSE g[n - 1] \o seqs[n]
    BY <2>3, <1>3, <1>7
  <2> HIDE DEF Differ
  <2> QED BY <2>2, <2>3, <2>4
<1> DEFINE h == [i \in 0..len |-> IF i = 0 THEN <<>> ELSE g[i]]
<1> HIDE DEF flatten, len
<1>9. h \in [0..len -> Seq(S)]
  BY <1>1, <1>3, EmptySeq
<1>10. h[0] = <<>> /\ \A i \in 1..len : h[i] = g[i]
  BY <1>1
<1>11. ASSUME NEW i \in 1..len PROVE h[i] = h[i - 1] \o seqs[i]
  <2> HIDE DEF h
  <2>1. CASE i = 1
    <3>1. seqs[i] \in Seq(S) /\ h[i - 1] = <<>> /\ h[i] = g[i]
      BY <2>1, <1>1, <1>10
    <3>2. g[i] = seqs[i]
      BY <2>1, <1>3 DEF len
    <3> QED BY <3>1, <3>2, ConcatEmptySeq
  <2>2. CASE i # 1
    <3>1. i - 1 \in 1..len
      BY <2>2, <1>1
    <3>2. h[i - 1] = g[i - 1] /\ h[i] = g[i]
      BY <3>1, <1>10
    <3> QED BY <2>2, <3>2, <1>3 DEF len
  <2> QED BY <2>1, <2>2
<1>12. h[len] = FlattenSeq(seqs)
  BY <1>1, <1>6, <1>8, <1>10
<1> HIDE DEF h
<1> QED BY <1>9, <1>10, <1>11, <1>12 DEF len

(***************************************************************************)
(* Where each sequence stands in the flat one: at[k] elements stand before *)
(* the k-th.                                                               *)
(***************************************************************************)
StandsAt(S, seqs, at) ==
  /\ at \in [1..Len(seqs) + 1 -> Nat]
  /\ at[1] = 0
  /\ at[Len(seqs) + 1] = Len(FlattenSeq(seqs))
  /\ FlattenSeq(seqs) \in Seq(S)
  /\ \A k \in 1..Len(seqs) :
       /\ at[k + 1] = at[k] + Len(seqs[k])
       /\ at[k + 1] <= Len(FlattenSeq(seqs))
       /\ \A i \in 1..Len(seqs[k]) : FlattenSeq(seqs)[at[k] + i] = seqs[k][i]

LEMMA FlattenParts ==
  ASSUME NEW S, NEW seqs \in Seq(Seq(S)), seqs # <<>>
  PROVE  \E at : StandsAt(S, seqs, at)
<1> DEFINE len == Len(seqs)
           flat == FlattenSeq(seqs)
<1>1. len \in Nat \ {0} /\ \A i \in 1..len : seqs[i] \in Seq(S)
  BY EmptySeq
<1>2. PICK f \in [0..len -> Seq(S)] :
        f[0] = <<>> /\ (\A i \in 1..len : f[i] = f[i - 1] \o seqs[i]) /\ f[len] = flat
  BY FlattenSteps
<1> HIDE DEF len, flat
<1>3. \A k \in 0..len : f[k] \in Seq(S) /\ Len(f[k]) \in Nat
  BY <1>2, LenProperties
<1>4. ASSUME NEW k \in 1..len
      PROVE  /\ k - 1 \in 0..len /\ k \in 0..len
             /\ Len(seqs[k]) \in Nat
             /\ Len(f[k]) = Len(f[k - 1]) + Len(seqs[k])
             /\ \A i \in 1..Len(f[k - 1]) : f[k][i] = f[k - 1][i]
             /\ \A i \in 1..Len(seqs[k]) : f[k][Len(f[k - 1]) + i] = seqs[k][i]
  <2>1. k - 1 \in 0..len /\ k \in 0..len
    BY <1>1
  <2>2. f[k - 1] \in Seq(S) /\ seqs[k] \in Seq(S) /\ f[k] = f[k - 1] \o seqs[k]
    BY <2>1, <1>1, <1>2
  <2> QED BY <2>1, <2>2, ConcatParts
<1>5. \A k \in 0..len : /\ Len(f[k]) <= Len(flat)
                        /\ \A i \in 1..Len(f[k]) : flat[i] = f[k][i]
  <2> DEFINE Holds(k) == /\ Len(f[k]) <= Len(flat)
                         /\ \A i \in 1..Len(f[k]) : flat[i] = f[k][i]
             Wrong == {d \in Nat : d \in 0..len /\ ~Holds(len - d)}
  <2> SUFFICES ASSUME NEW k \in 0..len, ~Holds(k) PROVE FALSE
    OBVIOUS
  <2>0. len - k \in Wrong
    BY <1>1
  <2>1. PICK d \in Wrong : \A m \in Wrong : d <= m
    <3> HIDE DEF Wrong
    <3> Wrong \subseteq Nat
      BY DEF Wrong
    <3> QED BY <2>0, LeastNat
  <2>2. d \in 0..len /\ ~Holds(len - d)
    BY <2>1
  <2>3. d # 0
    BY <2>2, <1>1, <1>2, <1>3
  <2>4. Holds((len - d) + 1)
    <3>1. d - 1 \notin Wrong /\ d - 1 \in Nat /\ d - 1 \in 0..len /\ len - (d - 1) = (len - d) + 1
      <4> HIDE DEF Wrong
      <4> QED BY <2>1, <2>2, <2>3, <1>1
    <3> QED BY <3>1
  <2> DEFINE j == (len - d) + 1
  <2>5. j \in 1..len /\ j - 1 = len - d /\ j \in 0..len /\ j - 1 \in 0..len
    BY <2>2, <2>3, <1>1
  <2>6. Holds(j) /\ ~Holds(j - 1)
    BY <2>2, <2>4, <2>5
  <2> HIDE DEF j
  <2>7. Len(f[j]) \in Nat /\ Len(f[j - 1]) \in Nat /\ Len(seqs[j]) \in Nat
    BY <2>5, <1>3, <1>4
  <2>8. Len(f[j]) = Len(f[j - 1]) + Len(seqs[j]) /\ \A i \in 1..Len(f[j - 1]) : f[j][i] = f[j - 1][i]
    BY <2>5, <1>4
  <2>9. flat \in Seq(S) /\ Len(flat) \in Nat
    BY <1>1, <1>2, <1>3
  <2> HIDE DEF Wrong
  <2>13. \A a, b, c, l \in Nat : c = a + b /\ c <= l => a <= l
    OBVIOUS
  <2>14. \A a, b, c \in Nat : c = a + b => \A i \in 1..a : i \in 1..c
    OBVIOUS
  <2>10. \A i \in 1..Len(f[j - 1]) : i \in 1..Len(f[j])
    <3> HIDE DEF Holds
    <3> QED BY <2>7, <2>8, <2>14
  <2>11. Len(f[j - 1]) <= Len(flat)
    <3>1. Len(f[j]) <= Len(flat)
      BY <2>6
    <3> HIDE DEF Holds
    <3> QED BY <3>1, <2>7, <2>8, <2>9, <2>13
  <2>12. \A i \in 1..Len(f[j - 1]) : flat[i] = f[j - 1][i]
    BY <2>6, <2>8, <2>10
  <2> QED BY <2>6, <2>11, <2>12
<1> DEFINE at == [k \in 1..len + 1 |-> Len(f[k - 1])]
<1>6. at \in [1..len + 1 -> Nat]
  BY <1>1, <1>3
<1>7. at[1] = 0 /\ at[len + 1] = Len(flat)
  BY <1>1, <1>2, EmptySeq
<1>8. ASSUME NEW k \in 1..len
      PROVE  /\ at[k + 1] = at[k] + Len(seqs[k])
             /\ at[k + 1] <= Len(flat)
             /\ \A i \in 1..Len(seqs[k]) : flat[at[k] + i] = seqs[k][i]
  <2>1. at[k] = Len(f[k - 1]) /\ at[k + 1] = Len(f[k])
    BY <1>1
  <2>2. k \in 0..len /\ k - 1 \in 0..len
    BY <1>4
  <2>3. ASSUME NEW i \in 1..Len(seqs[k]) PROVE flat[Len(f[k - 1]) + i] = seqs[k][i]
    <3>1. Len(f[k - 1]) + i \in 1..Len(f[k])
      <4>1. Len(f[k - 1]) \in Nat /\ Len(f[k]) = Len(f[k - 1]) + Len(seqs[k]) /\ Len(seqs[k]) \in Nat
        BY <1>3, <1>4, <2>2
      <4> HIDE DEF at
      <4>2. \A a, b, c \in Nat : c = a + b => \A n \in 1..b : a + n \in 1..c
        OBVIOUS
      <4> QED BY <4>1, <4>2, <1>3, <2>2
    <3> QED BY <3>1, <1>4, <1>5, <2>2
  <2> QED BY <2>1, <2>2, <2>3, <1>4, <1>5
<1>9. flat \in Seq(S)
  BY <1>1, <1>2, <1>3
<1> HIDE DEF at
<1>10. StandsAt(S, seqs, at)
  BY <1>6, <1>7, <1>8, <1>9 DEF len, flat, StandsAt
<1> QED BY <1>10

-----------------------------------------------------------------------------
(***************************************************************************)
(* The layout of the file.                                                 *)
(***************************************************************************)
FieldCount == 13
Name(k) == DumpLayout[k][1]
Kind(k) == DumpLayout[k][2]

(* Dump and load go through the same thirteen fields in the same order. *)
LEMMA Layouts ==
  /\ Len(DumpLayout) = FieldCount /\ LoadLayout = DumpLayout
  /\ Fields = {Name(k) : k \in 1..FieldCount}
  /\ \A k \in 1..FieldCount : Kind(k) \in {"fixed", "list", "text", "array"}
  /\ Kind(FieldCount) = "array"
  /\ \A k \in 1..FieldCount : Kind(k) = "list" => k < FieldCount /\ Kind(k + 1) \in {"list", "text"}
  /\ \A kind : OfKind(kind) = {Name(k) : k \in {j \in 1..FieldCount : Kind(j) = kind}}
<1>1. Len(DumpLayout) = FieldCount /\ LoadLayout = DumpLayout
  BY DEF DumpLayout, LoadLayout, FieldCount
<1>2. Fields = {Name(k) : k \in 1..FieldCount}
  BY <1>1 DEF Fields, Name
<1>3. \A kind : OfKind(kind) = {Name(k) : k \in {j \in 1..FieldCount : Kind(j) = kind}}
  BY <1>1 DEF OfKind, Name, Kind
<1>4. /\ Kind(1) = "fixed" /\ Kind(2) = "fixed" /\ Kind(3) = "text" /\ Kind(4) = "fixed"
      /\ Kind(5) = "fixed" /\ Kind(6) = "fixed" /\ Kind(7) = "list" /\ Kind(8) = "list"
      /\ Kind(9) = "text" /\ Kind(10) = "text" /\ Kind(11) = "text" /\ Kind(12) = "fixed"
      /\ Kind(13) = "array"
  BY DEF Kind, DumpLayout
<1>5. \A k \in 1..FieldCount : k \in {1, 2, 3, 4, 5, 6, 7, 8, 9, 10, 11, 12, 13}
  BY DEF FieldCount
<1>6. \A k \in 1..FieldCount : Kind(k) \in {"fixed", "list", "text", "array"}
  BY <1>4, <1>5
<1>7. \A k \in 1..FieldCount : Kind(k) = "list" => k < FieldCount /\ Kind(k + 1) \in {"list", "text"}
  BY <1>4, <1>5 DEF FieldCount
<1> QED BY <1>1, <1>2, <1>3, <1>4, <1>6, <1>7 DEF FieldCount

(* No field comes twice. *)
LEMMA NamesDiffer ==
  ASSUME NEW j \in 1..FieldCount, NEW k \in 1..FieldCount, Name(j) = Name(k)
  PROVE  j = k
<1>1. /\ Name(1) = "natlibrary" /\ Name(2) = "natprogram" /\ Name(3) = "natparms"
      /\ Name(4) = "c_loglevel" /\ Name(5) = "i_loglevel" /\ Name(6) = "httpreqtype"
      /\ Name(7) = "urlvars" /\ Name(8) = "bodyvars" /\ Name(9) = "natsrcpath"
      /\ Name(10) = "outputfile" /\ Name(11) = "logpath" /\ Name(12) = "errorrepresentation"
      /\ Name(13) = "username"
  BY DEF Name, DumpLayout
<1>2. j \in {1, 2, 3, 4, 5, 6, 7, 8, 9, 10, 11, 12, 13} /\ k \in {1, 2, 3, 4, 5, 6, 7, 8, 9, 10, 11, 12, 13}
  BY DEF FieldCount
<1> QED BY <1>1, <1>2

(* All the octets there are. *)
Known == Requests \cup (Earlier \ {NoRequest})
Octets == (UNION {Range(r[f]) : r \in Known, f \in Fields})
          \cup {[word |-> n] : n \in Int} \cup {[astray |-> TRUE]}

Part(r, k) == Encode(Kind(k), r[Name(k)])

(* A length, a flag or an end marker is one octet here. *)
LEMMA WordIsOctet ==
  ASSUME NEW n \in Int
  PROVE  Word(n) \in Seq(Octets) /\ Len(Word(n)) = 1 /\ Word(n)[1] = [word |-> n] /\ [word |-> n] \in Octets
<1>1. [word |-> n] \in Octets
  BY DEF Octets
<1> QED BY <1>1 DEF Word

(* Every field of every request is made of these octets. *)
LEMMA FieldsAreOctets ==
  ASSUME NEW r \in Known, NEW f \in Fields
  PROVE  r[f] \in Seq(Octets) /\ Len(r[f]) \in Nat
<1>1. r[f] \in Seq(Range(r[f]))
  BY RequestsAssumption DEF Known
<1>2. Range(r[f]) \subseteq Octets
  BY DEF Octets
<1> QED BY <1>1, <1>2, SeqMonotonic, LenProperties

(* What stands in the file for a field. *)
LEMMA Parts ==
  ASSUME NEW r \in Known, NEW k \in 1..FieldCount
  PROVE  /\ Part(r, k) \in Seq(Octets) /\ Len(Part(r, k)) \in Nat
         /\ Name(k) \in Fields
         /\ Kind(k) = "fixed" => /\ Part(r, k) = r[Name(k)]
                                 /\ Len(Part(r, k)) = Sizes[Name(k)] /\ Sizes[Name(k)] \in Nat \ {0}
         /\ Kind(k) = "list" =>
              /\ r[Name(k)] = <<>> =>
                   Len(Part(r, k)) = 1 /\ Part(r, k)[1] = [word |-> 0]
              /\ r[Name(k)] # <<>> =>
                   /\ Len(Part(r, k)) = Len(r[Name(k)]) + 2
                   /\ Part(r, k)[1] = [word |-> 1]
                   /\ \A i \in 1..Len(r[Name(k)]) : /\ Part(r, k)[i + 1] = r[Name(k)][i]
                                                    /\ r[Name(k)][i] # EndOfList
                   /\ Part(r, k)[Len(r[Name(k)]) + 2] = EndOfList
         /\ Kind(k) \in {"text", "array"} =>
              /\ Len(Part(r, k)) = Len(r[Name(k)]) + 1
              /\ Part(r, k)[1] = [word |-> Len(r[Name(k)])]
              /\ \A i \in 1..Len(r[Name(k)]) : Part(r, k)[i + 1] = r[Name(k)][i]
<1> DEFINE s == r[Name(k)]
<1>1. Name(k) \in Fields
  BY Layouts
<1>2. s \in Seq(Octets) /\ Len(s) \in Nat
  BY <1>1, FieldsAreOctets
<1>3. Kind(k) \in {"fixed", "list", "text", "array"}
  BY Layouts
<1> HIDE DEF s
<1>4. CASE Kind(k) = "fixed"
  <2>1. Part(r, k) = s
    BY <1>4 DEF Part, Encode, s
  <2>2. Name(k) \in OfKind("fixed")
    BY <1>4, Layouts
  <2>3. Len(s) = Sizes[Name(k)] /\ Sizes[Name(k)] \in Nat \ {0}
    BY <2>2, RequestsAssumption, SizesAssumption DEF Known, s
  <2> QED BY <1>1, <1>2, <1>4, <2>1, <2>3 DEF s
<1>5. CASE Kind(k) = "list"
  <2>1. CASE s = <<>>
    <3>1. Part(r, k) = Word(0)
      BY <1>5, <2>1 DEF Part, Encode, s
    <3> QED BY <1>1, <1>5, <2>1, <3>1, WordIsOctet DEF s
  <2>2. CASE s # <<>>
    <3> DEFINE last == <<EndOfList>>
               front == Word(1) \o s
    <3>1. Part(r, k) = front \o last
      BY <1>5, <2>2 DEF Part, Encode, s
    <3>2. last \in Seq(Octets) /\ Len(last) = 1 /\ last[1] = EndOfList
      <4>1. EndOfList \in Octets
        BY DEF EndOfList, Octets
      <4> QED BY <4>1
    <3>3. Word(1) \in Seq(Octets) /\ Len(Word(1)) = 1 /\ Word(1)[1] = [word |-> 1]
      BY WordIsOctet
    <3> HIDE DEF last
    <3>4. /\ front \in Seq(Octets) /\ Len(front) = 1 + Len(s)
          /\ front[1] = [word |-> 1]
          /\ \A i \in 1..Len(s) : front[1 + i] = s[i]
      <4>1. 1 \in 1..Len(Word(1))
        BY <3>3
      <4> QED BY <4>1, <3>3, <1>2, ConcatParts
    <3> HIDE DEF front
    <3> DEFINE p == Part(r, k)
    <3>5. /\ p \in Seq(Octets) /\ Len(p) = Len(front) + 1
          /\ \A i \in 1..Len(front) : p[i] = front[i]
          /\ p[Len(front) + 1] = EndOfList
      <4>1. 1 \in 1..Len(last)
        BY <3>2
      <4>2. /\ front \o last \in Seq(Octets)
            /\ Len(front \o last) = Len(front) + Len(last)
            /\ \A i \in 1..Len(front) : (front \o last)[i] = front[i]
            /\ \A i \in 1..Len(last) : (front \o last)[Len(front) + i] = last[i]
        BY <3>2, <3>4, ConcatParts, SMTT(20)
      <4> QED BY <4>1, <4>2, <3>1, <3>2 DEF p
    <3> HIDE DEF p
    <3>6. /\ Len(p) = Len(s) + 2
          /\ p[1] = [word |-> 1] /\ p[Len(s) + 2] = EndOfList
      <4>1. 1 \in 1..1 + Len(s) /\ (1 + Len(s)) + 1 = Len(s) + 2
        BY <1>2
      <4> QED BY <4>1, <3>4, <3>5
    <3>7. ASSUME NEW i \in 1..Len(s) PROVE p[i + 1] = s[i] /\ s[i] # EndOfList
      <4>1. 1 + i \in 1..1 + Len(s) /\ 1 + i = i + 1
        BY <1>2
      <4>2. p[i + 1] = s[i]
        BY <4>1, <3>4, <3>5
      <4>3. Name(k) \in OfKind("list")
        BY <1>5, Layouts
      <4>4. EndOfList \notin Range(s)
        BY <4>3, RequestsAssumption DEF Known, s
      <4>5. s[i] \in Range(s)
        BY <1>2 DEF Range
      <4> QED BY <4>2, <4>4, <4>5
    <3>8. Len(p) \in Nat
      BY <3>6, <1>2
    <3> QED BY <1>1, <1>5, <2>2, <3>5, <3>6, <3>7, <3>8 DEF s, p
  <2> QED BY <2>1, <2>2
<1>6. CASE Kind(k) \in {"text", "array"}
  <2>1. Part(r, k) = Word(Len(s)) \o s
    BY <1>6 DEF Part, Encode, s
  <2>2. Word(Len(s)) \in Seq(Octets) /\ Len(Word(Len(s))) = 1 /\ Word(Len(s))[1] = [word |-> Len(s)]
    BY <1>2, WordIsOctet
  <2> DEFINE w == Word(Len(s))
  <2> HIDE DEF w
  <2>3. w \in Seq(Octets) /\ Len(w) = 1 /\ w[1] = [word |-> Len(s)]
    BY <2>2 DEF w
  <2>4. /\ w \o s \in Seq(Octets) /\ Len(w \o s) = 1 + Len(s)
        /\ (w \o s)[1] = [word |-> Len(s)]
        /\ \A i \in 1..Len(s) : (w \o s)[1 + i] = s[i]
    <3>1. 1 \in 1..Len(w)
      BY <2>3
    <3>2. /\ w \o s \in Seq(Octets)
          /\ Len(w \o s) = Len(w) + Len(s)
          /\ \A i \in 1..Len(w) : (w \o s)[i] = w[i]
          /\ \A i \in 1..Len(s) : (w \o s)[Len(w) + i] = s[i]
      <4>1. w \in Seq(Octets)
        BY <2>3
      <4>2. s \in Seq(Octets)
        BY <1>2
      <4> QED BY <4>1, <4>2, ConcatParts
    <3> QED BY <3>1, <3>2, <2>3
  <2>5. 1 + Len(s) \in Nat /\ 1 + Len(s) = Len(s) + 1 /\ \A i \in 1..Len(s) : 1 + i = i + 1
    BY <1>2
  <2> QED BY <1>1, <1>6, <2>1, <2>4, <2>5 DEF s, w
<1> QED BY <1>3, <1>4, <1>5, <1>6

(* Start(r)[k]: how many octets of the dump stand before the k-th field. *)
IsStart(at, r) ==
  /\ at \in [1..FieldCount + 1 -> Nat]
  /\ at[1] = 0 /\ at[FieldCount + 1] = Len(Dumped(r))
  /\ Dumped(r) \in Seq(Octets)
  /\ \A k \in 1..FieldCount :
       /\ at[k + 1] = at[k] + Len(Part(r, k))
       /\ at[k + 1] <= Len(Dumped(r))
       /\ \A i \in 1..Len(Part(r, k)) : Dumped(r)[at[k] + i] = Part(r, k)[i]
Start(r) == CHOOSE at : IsStart(at, r)

(* There is such a start of every field, see FlattenParts. *)
LEMMA Starts == ASSUME NEW r \in Known PROVE IsStart(Start(r), r)
<1> DEFINE parts == [k \in 1..Len(DumpLayout) |-> Encode(DumpLayout[k][2], r[DumpLayout[k][1]])]
<1>1. Len(DumpLayout) = FieldCount /\ FieldCount \in Nat /\ FieldCount = 13
  BY Layouts DEF FieldCount
<1>2. \A k \in 1..FieldCount : parts[k] = Part(r, k)
  BY <1>1 DEF Part, Kind, Name
<1>3. parts \in [1..FieldCount -> Seq(Octets)]
  BY <1>1, Parts DEF Part, Kind, Name
<1>4. parts \in Seq(Seq(Octets)) /\ Len(parts) = FieldCount /\ parts # <<>>
  <2> HIDE DEF parts
  <2>1. FieldCount \in Nat /\ FieldCount # 0
    BY <1>1
  <2> QED BY <2>1, <1>3, FunctionIsSeq, Zenon
<1>6. FlattenSeq(parts) = Dumped(r)
  BY DEF Dumped
<1> HIDE DEF parts
<1>7. PICK at : StandsAt(Octets, parts, at)
  BY <1>4, FlattenParts
<1>8. /\ at \in [1..FieldCount + 1 -> Nat]
      /\ at[1] = 0 /\ at[FieldCount + 1] = Len(Dumped(r))
      /\ Dumped(r) \in Seq(Octets)
      /\ \A k \in 1..FieldCount :
           /\ at[k + 1] = at[k] + Len(parts[k])
           /\ at[k + 1] <= Len(Dumped(r))
           /\ \A i \in 1..Len(parts[k]) : Dumped(r)[at[k] + i] = parts[k][i]
  <2> HIDE DEF FieldCount
  <2>1. Len(parts) = FieldCount /\ FlattenSeq(parts) = Dumped(r)
    BY <1>4, <1>6
  <2> QED BY <2>1, <1>7, Zenon DEF StandsAt
<1>9. IsStart(at, r)
  BY <1>2, <1>8 DEF IsStart
<1> QED BY <1>9 DEF Start

-----------------------------------------------------------------------------
(***************************************************************************)
(* The dump: in the file stand the octets of the dump so far, or as many   *)
(* of them as there was room for, and then no room is left.                *)
(***************************************************************************)
FileTypes ==
  /\ request \in Requests
  /\ file \in Seq(Octets) /\ quota \in Nat
  /\ pos \in 1..Len(file) + 1
  /\ field \in 1..FieldCount + 1
  /\ phase \in {"dump", "load", "astray", "loaded", "killed"}
  /\ props \in [Fields -> Seq(Octets)]

Dumping ==
  phase = "dump" =>
    /\ props = Cleared /\ loadRet = "none"
    /\ pos - 1 <= Start(request)[field]
    /\ pos - 1 < Start(request)[field] => pos = Len(file) + 1 /\ quota <= Len(file)
    /\ \A i \in 1..pos - 1 : file[i] = Dumped(request)[i]

(* The writing of octets at an offset, with what was there before. *)
LEMMA WriteEffect ==
  ASSUME file \in Seq(Octets), quota \in Nat, pos \in 1..Len(file) + 1,
         NEW s \in Seq(Octets), Write(s)
  PROVE  /\ file' \in Seq(Octets)
         /\ Len(file) \in Nat /\ Len(file') \in Nat /\ Len(s) \in Nat
         /\ pos' \in pos..pos + Len(s) /\ pos' <= Len(file') + 1
         /\ \A i \in 1..pos - 1 : file'[i] = file[i]
         /\ \A i \in 1..pos' - pos : file'[pos - 1 + i] = s[i]
         /\ pos' < pos + Len(s) => pos' = Len(file') + 1 /\ quota <= Len(file')
         /\ pos = Len(file) + 1 /\ quota <= Len(file) => pos' = pos /\ Len(file') = Len(file)
<1> DEFINE limit == IF Len(file) > quota THEN Len(file) ELSE quota
           room == limit + 1 - pos
           n == IF Len(s) <= room THEN Len(s) ELSE room
           front == SubSeq(file, 1, pos - 1)
           new == SubSeq(s, 1, n)
           rest == SubSeq(file, pos + n, Len(file))
<1>1. Len(file) \in Nat /\ Len(s) \in Nat
  BY LenProperties
<1>2. /\ limit \in Nat /\ Len(file) <= limit /\ quota <= limit
      /\ (limit = Len(file) \/ limit = quota)
  BY <1>1
<1>3. n \in 0..Len(s) /\ n <= limit + 1 - pos /\ (n < Len(s) => n = limit + 1 - pos)
  BY <1>1, <1>2
<1>4. file' = front \o new \o rest /\ pos' = pos + n
  BY DEF Write
<1> HIDE DEF limit, room, n
<1>5. /\ front \in Seq(Octets) /\ Len(front) = pos - 1
      /\ \A i \in 1..pos - 1 : front[i] = file[i]
  <2>1. \A i \in 1..pos - 1 : file[i] \in Octets
    BY <1>1, ElementOfSeq
  <2>2. /\ front \in Seq(Octets)
        /\ Len(front) = IF 1 <= pos - 1 THEN (pos - 1) - 1 + 1 ELSE 0
        /\ \A i \in 1..(pos - 1) - 1 + 1 : front[i] = file[1 + i - 1]
    BY <2>1, <1>1, SubSeqProperties
  <2> HIDE DEF front
  <2> QED BY <2>2, <1>1
<1>6. /\ new \in Seq(Octets) /\ Len(new) = n
      /\ \A i \in 1..n : new[i] = s[i]
  <2>1. \A i \in 1..n : s[i] \in Octets
    BY <1>1, <1>3, ElementOfSeq
  <2>2. /\ new \in Seq(Octets)
        /\ Len(new) = IF 1 <= n THEN n - 1 + 1 ELSE 0
        /\ \A i \in 1..n - 1 + 1 : new[i] = s[1 + i - 1]
    BY <2>1, <1>1, <1>3, SubSeqProperties
  <2> HIDE DEF new
  <2> QED BY <2>2, <1>1, <1>3
<1>7. /\ rest \in Seq(Octets)
      /\ Len(rest) = IF pos + n <= Len(file) THEN Len(file) - (pos + n) + 1 ELSE 0
  <2>1. \A i \in pos + n..Len(file) : file[i] \in Octets
    BY <1>1, <1>3, ElementOfSeq
  <2>2. pos + n \in Int /\ Len(file) \in Int
    BY <1>1, <1>3
  <2> QED BY <2>1, <2>2, SubSeqProperties
<1> HIDE DEF front, new, rest
<1>8. /\ front \o new \in Seq(Octets) /\ Len(front \o new) = (pos - 1) + n
      /\ \A i \in 1..pos - 1 : (front \o new)[i] = file[i]
      /\ \A i \in 1..n : (front \o new)[pos - 1 + i] = s[i]
  <2>1. /\ front \o new \in Seq(Octets) /\ Len(front \o new) = Len(front) + Len(new)
        /\ \A i \in 1..Len(front) : (front \o new)[i] = front[i]
        /\ \A i \in 1..Len(new) : (front \o new)[Len(front) + i] = new[i]
    <3>1. front \in Seq(Octets) /\ new \in Seq(Octets)
      BY <1>5, <1>6
    <3> QED BY <3>1, ConcatParts
  <2> QED BY <2>1, <1>5, <1>6
<1>9. /\ file' \in Seq(Octets) /\ Len(file') = ((pos - 1) + n) + Len(rest)
      /\ \A i \in 1..(pos - 1) + n : file'[i] = (front \o new)[i]
  <2> DEFINE both == front \o new
  <2>1. both \in Seq(Octets) /\ rest \in Seq(Octets) /\ Len(both) = (pos - 1) + n /\ file' = both \o rest
    BY <1>4, <1>7, <1>8
  <2> HIDE DEF both
  <2>2. /\ both \o rest \in Seq(Octets) /\ Len(both \o rest) = Len(both) + Len(rest)
        /\ \A i \in 1..Len(both) : (both \o rest)[i] = both[i]
    BY <2>1, ConcatParts
  <2> QED BY <2>1, <2>2 DEF both
<1>10. Len(file') \in Nat
  BY <1>9, LenProperties
<1>11. \A i \in 1..pos - 1 : file'[i] = file[i]
  <2>1. \A i \in 1..pos - 1 : i \in 1..(pos - 1) + n
    BY <1>1, <1>3
  <2> QED BY <2>1, <1>8, <1>9
<1>12. \A i \in 1..n : file'[pos - 1 + i] = s[i]
  <2>1. \A i \in 1..n : pos - 1 + i \in 1..(pos - 1) + n
    BY <1>1, <1>3
  <2> QED BY <2>1, <1>8, <1>9
<1>13. Len(file') = IF pos + n <= Len(file) THEN Len(file) ELSE pos - 1 + n
  <2>1. \A a, b, c, l, m \in Int : a = ((b - 1) + c) + l /\ l = (IF b + c <= m THEN m - (b + c) + 1 ELSE 0)
            => a = IF b + c <= m THEN m ELSE b - 1 + c
    OBVIOUS
  <2>2. Len(rest) \in Int /\ pos \in Int /\ n \in Int /\ Len(file) \in Int /\ Len(file') \in Int
    BY <1>1, <1>3, <1>7, <1>10
  <2> QED BY <2>1, <2>2, <1>7, <1>9, ZenonT(20)
<1>14. pos' \in pos..pos + Len(s) /\ pos' <= Len(file') + 1 /\ pos' - pos = n
  BY <1>1, <1>3, <1>4, <1>13
<1>15. pos' < pos + Len(s) => pos' = Len(file') + 1 /\ quota <= Len(file')
  BY <1>1, <1>2, <1>3, <1>4, <1>13
<1>16. pos = Len(file) + 1 /\ quota <= Len(file) => pos' = pos /\ Len(file') = Len(file)
  BY <1>1, <1>2, <1>3, <1>4, <1>13
<1> QED BY <1>1, <1>9, <1>10, <1>11, <1>12, <1>14, <1>15, <1>16

(* How many fields there are. *)
LEMMA CountIsNat == FieldCount \in Nat /\ FieldCount = 13
BY DEF FieldCount

(* The fields before the load. *)
LEMMA Clear == Cleared \in [Fields -> Seq(Octets)] /\ \A k \in 1..FieldCount : Cleared[Name(k)] = <<>>
BY Layouts, EmptySeq DEF Cleared

(* Before the dump nothing is written. *)
LEMMA DumpInit == Init => FileTypes /\ Dumping
<1> SUFFICES ASSUME Init PROVE FileTypes /\ Dumping
  OBVIOUS
<1>1. file \in Seq(Octets)
  <2>1. PICK r \in Earlier : file = IF r = NoRequest THEN <<>> ELSE Dumped(r)
    BY DEF Init
  <2>2. CASE r = NoRequest
    BY <2>1, <2>2
  <2>3. CASE r # NoRequest
    <3>1. r \in Known
      BY <2>3 DEF Known
    <3> QED BY <2>1, <2>3, <3>1, Starts DEF IsStart
  <2> QED BY <2>2, <2>3
<1>2. Len(file) \in Nat
  BY <1>1, LenProperties
<1>3. request \in Known /\ Start(request)[1] = 0
  BY Starts DEF Init, Known, IsStart
<1>4. FileTypes
  BY <1>1, <1>2, Clear, CountIsNat, QuotasAssumption DEF Init, FileTypes
<1> QED BY <1>3, <1>4 DEF Init, Dumping

(* An index behind the offset, counted from the offset. *)
LEMMA Behind ==
  \A a, b, l, d \in Int :
     b >= 1 /\ b <= a /\ a <= b + l /\ d <= a - 1 /\ b <= d
       => d - (b - 1) \in 1..a - b /\ d - (b - 1) \in 1..l /\ b - 1 + (d - (b - 1)) = d
OBVIOUS

(* One field is written, whole, in part or not at all. *)
LEMMA DumpFieldKeeps ==
  ASSUME FileTypes, Dumping, DumpField
  PROVE  FileTypes' /\ Dumping'
<1>1. /\ phase = "dump" /\ field \in 1..FieldCount
      /\ Write(Part(request, field))
      /\ field' = field + 1
      /\ UNCHANGED <<request, quota, phase, props, tails, loadRet>>
  <2>1. Len(DumpLayout) = FieldCount
    BY Layouts
  <2> QED BY <2>1, CountIsNat DEF DumpField, Part, Kind, Name, FileTypes
<1>2. request \in Known
  BY DEF FileTypes, Known
<1> DEFINE part == Part(request, field)
           start == Start(request)
           dump == Dumped(request)
<1>3. part \in Seq(Octets) /\ Len(part) \in Nat
  BY <1>1, <1>2, Parts
<1>4. /\ start[field + 1] = start[field] + Len(part)
      /\ start[field] \in Nat
      /\ \A i \in 1..Len(part) : dump[start[field] + i] = part[i]
  <2>1. IsStart(Start(request), request)
    BY <1>2, Starts
  <2>2. field \in 1..FieldCount + 1
    BY <1>1, CountIsNat
  <2> QED BY <2>1, <2>2, <1>1 DEF IsStart
<1> HIDE DEF part, start, dump
<1>12. Start(request)' = start /\ Dumped(request)' = dump
  BY <1>1 DEF start, dump
<1>5. /\ file' \in Seq(Octets)
      /\ Len(file) \in Nat /\ Len(file') \in Nat /\ Len(part) \in Nat
      /\ pos' \in pos..pos + Len(part) /\ pos' <= Len(file') + 1
      /\ \A i \in 1..pos - 1 : file'[i] = file[i]
      /\ \A i \in 1..pos' - pos : file'[pos - 1 + i] = part[i]
      /\ pos' < pos + Len(part) => pos' = Len(file') + 1 /\ quota <= Len(file')
      /\ pos = Len(file) + 1 /\ quota <= Len(file) => pos' = pos /\ Len(file') = Len(file)
  <2>1. file \in Seq(Octets) /\ quota \in Nat /\ pos \in 1..Len(file) + 1
    BY DEF FileTypes
  <2>2. Write(part)
    BY <1>1 DEF part
  <2> QED BY <1>3, <2>1, <2>2, WriteEffect
<1>6. pos \in Nat \ {0} /\ pos <= Len(file) + 1
  BY <1>5 DEF FileTypes
<1>13. pos \in Nat /\ pos >= 1 /\ pos' \in Nat /\ pos <= pos' /\ pos' <= pos + Len(part)
  BY <1>5, <1>6
<1>7. pos' \in 1..Len(file') + 1 /\ field' \in 1..FieldCount + 1
  BY <1>1, <1>5, <1>6, CountIsNat
<1>8. FileTypes'
  BY <1>1, <1>5, <1>7 DEF FileTypes
<1>9. /\ pos - 1 <= start[field]
      /\ pos - 1 < start[field] => pos = Len(file) + 1 /\ quota <= Len(file)
      /\ \A i \in 1..pos - 1 : file[i] = dump[i]
  BY <1>1 DEF Dumping, start, dump
<1>10. CASE pos - 1 < start[field]
  <2>1. pos' = pos /\ Len(file') = Len(file) /\ pos = Len(file) + 1 /\ quota <= Len(file)
    BY <1>5, <1>9, <1>10
  <2>2. pos' - 1 < start[field + 1]
    BY <2>1, <1>3, <1>4, <1>6, <1>10
  <2>3. \A i \in 1..pos' - 1 : file'[i] = dump[i]
    BY <2>1, <1>5, <1>9
  <2>4. pos' = Len(file') + 1 /\ quota' <= Len(file') /\ pos' - 1 <= start[field + 1]
    BY <2>1, <2>2, <1>1, <1>4, <1>3, <1>6
  <2> QED BY <2>2, <2>3, <2>4, <1>1, <1>8, <1>12 DEF Dumping
<1>11. CASE pos - 1 = start[field]
  <2>1. pos' - 1 <= start[field + 1] /\ (pos' - 1 < start[field + 1] => pos' < pos + Len(part))
    BY <1>3, <1>4, <1>5, <1>6, <1>11
  <2>2. ASSUME NEW i \in 1..pos' - 1 PROVE file'[i] = dump[i]
    <3>1. CASE i \in 1..pos - 1
      BY <3>1, <1>5, <1>9
    <3>2. CASE i \notin 1..pos - 1
      <4> DEFINE j == i - (pos - 1)
      <4>1. j \in 1..pos' - pos /\ j \in 1..Len(part) /\ pos - 1 + j = i /\ start[field] + j = i
        <5>1. pos' \in Int /\ pos \in Int /\ Len(part) \in Int /\ i \in Int /\ pos >= 1
          BY <1>3, <1>13
        <5>2. pos <= pos' /\ pos' <= pos + Len(part)
          BY <1>13
        <5>6. i \in 1..pos' - 1
          OBVIOUS
        <5>7. \A p \in Int : \A n \in 1..p - 1 : n <= p - 1
          OBVIOUS
        <5>4. i <= pos' - 1
          BY <5>1, <5>6, <5>7
        <5>5. pos <= i
          BY <5>1, <3>2
        <5>3. /\ i - (pos - 1) \in 1..pos' - pos /\ i - (pos - 1) \in 1..Len(part)
              /\ pos - 1 + (i - (pos - 1)) = i
          BY <5>1, <5>2, <5>4, <5>5, Behind, ZenonT(20)
        <5> QED BY <5>3, <1>11
      <4> HIDE DEF j
      <4>2. file'[i] = part[j] /\ dump[i] = part[j]
        BY <4>1, <1>4, <1>5
      <4> QED BY <4>2
    <3> QED BY <3>1, <3>2
  <2> QED BY <2>1, <2>2, <1>1, <1>5, <1>8, <1>12 DEF Dumping
<1> QED BY <1>4, <1>6, <1>9, <1>10, <1>11

-----------------------------------------------------------------------------
(***************************************************************************)
(* The load: where the file and the dump both have an octet it is the same *)
(* one, and the loader stands at the start of the field it reads next.     *)
(* Only a list that the end of the file cuts lets the loader go on, and    *)
(* then nothing is left to read.  At an entry without a name it goes       *)
(* astray, and has every field up to there.                                *)
(***************************************************************************)
Agrees == \A i \in 1..Len(Dumped(request)) : i <= Len(file) => file[i] = Dumped(request)[i]

Whole(k) == props[Name(k)] = request[Name(k)]

(* The fields before the k-th are there, and none behind it. *)
UpTo(k) ==
  /\ \A j \in 1..FieldCount : j < k => Whole(j)
  /\ \A j \in 1..FieldCount : k < j => props[Name(j)] = <<>>
  /\ k \in 1..FieldCount => IsPrefix(props[Name(k)], request[Name(k)])

(* Every list before the k-th field is read to its end. *)
NamedBefore(k) == \A j \in 1..FieldCount : j < k => ~StopsEarly(j)

LoadingOn ==
  phase = "load" =>
    /\ loadRet = "none" /\ Agrees
    /\ \/ /\ pos - 1 = Start(request)[field] /\ UpTo(field) /\ NamedBefore(field)
          /\ field \in 1..FieldCount => props[Name(field)] = <<>>
       \/ /\ pos - 1 = Len(file) /\ Len(file) < Start(request)[field]
          /\ field \in 2..FieldCount /\ Kind(field) \in {"list", "text"} /\ UpTo(field - 1)

(* The load has left the k-th field at an entry without a name. *)
LostAt(k) ==
  /\ StopsEarly(k) /\ props[Name(k)] = Taken(k)
  /\ \A j \in 1..FieldCount : j < k => Whole(j) /\ ~StopsEarly(j)

Lost ==
  /\ phase = "astray" => loadRet = "none" /\ field - 1 \in 1..FieldCount /\ LostAt(field - 1)
  /\ phase = "killed" => loadRet = "none" /\ \E k \in 1..FieldCount : LostAt(k)

InStepToTheEnd ==
  /\ \E k \in 1..FieldCount : UpTo(k)
  /\ loadRet = "OK" => \A j \in 1..FieldCount : Whole(j) /\ ~StopsEarly(j)
  /\ loadRet = "FILE_ERR" => field = 1 \/ Len(file) < Len(Dumped(request))

Loaded ==
  phase = "loaded" =>
    /\ loadRet \in {"OK", "FILE_ERR"}
    /\ InStepToTheEnd \/ \E k \in 1..FieldCount : LostAt(k)

FileInv == FileTypes /\ Dumping /\ LoadingOn /\ Lost /\ Loaded

(* What IsPrefix says of the elements. *)
LEMMA PrefixElements ==
  ASSUME NEW S, NEW s \in Seq(S), NEW t \in Seq(S)
  PROVE  IsPrefix(s, t) <=> Len(s) <= Len(t) /\ \A i \in 1..Len(s) : s[i] = t[i]
<1>1. Len(s) \in Nat /\ Len(t) \in Nat
  BY LenProperties
<1>2. SubSeq(s, 1, Len(s)) = s
  BY SubSeqFull
<1> SUFFICES ASSUME Len(s) <= Len(t)
             PROVE  s = SubSeq(t, 1, Len(s)) <=> \A i \in 1..Len(s) : s[i] = t[i]
  BY <1>2 DEF IsPrefix
<1> DEFINE u == SubSeq(t, 1, Len(s))
<1>3. \A i \in 1..Len(s) : t[i] \in S
  BY <1>1, ElementOfSeq
<1>4. /\ u \in Seq(S)
      /\ Len(u) = IF 1 <= Len(s) THEN Len(s) - 1 + 1 ELSE 0
      /\ \A i \in 1..Len(s) - 1 + 1 : u[i] = t[1 + i - 1]
  BY <1>1, <1>3, SubSeqProperties
<1> HIDE DEF u
<1>5. Len(u) = Len(s) /\ \A i \in 1..Len(s) : u[i] = t[i]
  BY <1>1, <1>4
<1>6. (\A i \in 1..Len(s) : s[i] = u[i]) => s = u
  BY <1>4, <1>5, SeqEqual
<1>7. s = u => \A i \in 1..Len(s) : s[i] = t[i]
  BY <1>5
<1>8. (\A i \in 1..Len(s) : s[i] = t[i]) => s = u
  BY <1>5, <1>6
<1> QED BY <1>7, <1>8 DEF u

(* The reading of as many octets as s has, where those of s stand. *)
LEMMA ReadEffect ==
  ASSUME file \in Seq(Octets), NEW from \in 1..Len(file) + 1,
         NEW s \in Seq(Octets),
         \A i \in 1..Len(s) : from - 1 + i <= Len(file) => file[from - 1 + i] = s[i]
  PROVE  /\ Read(from, Len(s)) \in Seq(Octets) /\ Len(Read(from, Len(s))) \in Nat
         /\ IsPrefix(Read(from, Len(s)), s)
         /\ Len(Read(from, Len(s))) = Len(s) => Read(from, Len(s)) = s
         /\ from + Len(Read(from, Len(s))) <= Len(file) + 1
         /\ Len(Read(from, Len(s))) # Len(s) => Len(file) < from - 1 + Len(s)
<1> DEFINE end == IF from + Len(s) - 1 <= Len(file) THEN from + Len(s) - 1 ELSE Len(file)
           got == SubSeq(file, from, end)
<1>1. Len(s) \in Nat /\ Len(file) \in Nat /\ from \in Nat \ {0} /\ from <= Len(file) + 1
  BY LenProperties
<1>2. Read(from, Len(s)) = got
  BY DEF Read
<1>3. /\ end \in Nat /\ end <= Len(file) /\ end <= from - 1 + Len(s) /\ from - 1 <= end
      /\ end = Len(file) \/ end = from - 1 + Len(s)
  BY <1>1
<1> HIDE DEF end
<1>4. \A i \in from..end : file[i] \in Octets
  BY <1>1, <1>3, ElementOfSeq
<1>5. /\ got \in Seq(Octets)
      /\ Len(got) = IF from <= end THEN end - from + 1 ELSE 0
      /\ \A i \in 1..end - from + 1 : got[i] = file[from + i - 1]
  BY <1>1, <1>3, <1>4, SubSeqProperties
<1> HIDE DEF got
<1>6. Len(got) = end - from + 1
  BY <1>1, <1>3, <1>5
<1>7. /\ Len(got) \in Nat /\ Len(got) <= Len(s) /\ from + Len(got) <= Len(file) + 1
      /\ Len(got) # Len(s) => Len(file) < from - 1 + Len(s)
  BY <1>1, <1>3, <1>6
<1>8. ASSUME NEW i \in 1..Len(got) PROVE got[i] = s[i]
  <2>1. i \in 1..end - from + 1 /\ i \in 1..Len(s) /\ from + i - 1 = from - 1 + i /\ from - 1 + i <= Len(file)
    BY <1>1, <1>3, <1>6, <1>7
  <2> QED BY <2>1, <1>5
<1>9. IsPrefix(got, s)
  <2>1. got \in Seq(Octets) /\ s \in Seq(Octets)
    BY <1>5
  <2>2. IsPrefix(got, s) <=> Len(got) <= Len(s) /\ \A i \in 1..Len(got) : got[i] = s[i]
    BY <2>1, PrefixElements
  <2> QED BY <2>2, <1>7, <1>8
<1>10. Len(got) = Len(s) => got = s
  BY <1>5, <1>8, SeqEqual
<1> QED BY <1>2, <1>5, <1>7, <1>9, <1>10

(* The prefixes nothing and everything. *)
LEMMA EndPrefixes ==
  ASSUME NEW S, NEW s \in Seq(S)
  PROVE  IsPrefix(<<>>, s) /\ IsPrefix(s, s)
<1>1. <<>> \in Seq(S) /\ Len(<<>>) = 0 /\ Len(s) \in Nat
  BY EmptySeq, LenProperties
<1>2. ASSUME NEW e \in Seq(S), Len(e) = 0 PROVE IsPrefix(e, s)
  <2>1. IsPrefix(e, s) <=> Len(e) <= Len(s) /\ \A i \in 1..Len(e) : e[i] = s[i]
    BY PrefixElements
  <2> QED BY <2>1, <1>1, <1>2
<1>3. IsPrefix(s, s) <=> Len(s) <= Len(s) /\ \A i \in 1..Len(s) : s[i] = s[i]
  BY PrefixElements
<1>4. IsPrefix(<<>>, s)
  BY <1>1, <1>2, Zenon
<1> QED BY <1>1, <1>3, <1>4

(* After the next field has been read: all of it, or the file has ended. *)
LEMMA NextRead ==
  ASSUME NEW k \in 1..FieldCount, NEW got \in Seq(Octets), request \in Known,
         props \in [Fields -> Seq(Octets)], UpTo(k), props[Name(k)] = <<>>,
         IsPrefix(got, request[Name(k)]),
         props' = [props EXCEPT ![Name(k)] = got], request' = request
  PROVE  /\ UpTo(k)' /\ props' \in [Fields -> Seq(Octets)]
         /\ got = request[Name(k)] =>
              /\ UpTo(k + 1)'
              /\ k + 1 \in 1..FieldCount => props'[Name(k + 1)] = <<>>
              /\ k = FieldCount => \A j \in 1..FieldCount : Whole(j)'
<1>1. \A j \in 1..FieldCount : Name(j) \in Fields
  BY Layouts
<1>2. props' \in [Fields -> Seq(Octets)] /\ props'[Name(k)] = got
  BY <1>1
<1>3. \A j \in 1..FieldCount : j # k => props'[Name(j)] = props[Name(j)]
  BY <1>1, NamesDiffer
<1>4. \A j \in 1..FieldCount : j < k => props'[Name(j)] = request'[Name(j)]
  <2>1. \A j \in 1..FieldCount : j < k => j # k
    BY CountIsNat
  <2>2. \A j \in 1..FieldCount : j < k => props[Name(j)] = request[Name(j)]
    BY DEF UpTo, Whole
  <2> QED BY <2>1, <2>2, <1>3
<1>5. \A j \in 1..FieldCount : k < j => props'[Name(j)] = <<>>
  <2>1. \A j \in 1..FieldCount : k < j => j # k
    BY CountIsNat
  <2>2. \A j \in 1..FieldCount : k < j => props[Name(j)] = <<>>
    BY DEF UpTo
  <2> QED BY <2>1, <2>2, <1>3
<1>6. UpTo(k)'
  BY <1>2, <1>4, <1>5 DEF UpTo, Whole
<1>7. ASSUME got = request[Name(k)]
      PROVE  /\ UpTo(k + 1)'
             /\ k + 1 \in 1..FieldCount => props'[Name(k + 1)] = <<>>
             /\ k = FieldCount => \A j \in 1..FieldCount : Whole(j)'
  <2>1. \A j \in 1..FieldCount : j < k + 1 => props'[Name(j)] = request'[Name(j)]
    <3>1. \A j \in 1..FieldCount : j < k + 1 => j < k \/ j = k
      BY CountIsNat
    <3> QED BY <3>1, <1>2, <1>4, <1>7
  <2>2. \A j \in 1..FieldCount : k + 1 < j => k < j
    BY CountIsNat
  <2>3. k + 1 \in 1..FieldCount => props'[Name(k + 1)] = <<>>
    <3>1. k < k + 1
      BY CountIsNat
    <3> QED BY <3>1, <1>5
  <2>4. k + 1 \in 1..FieldCount => IsPrefix(props'[Name(k + 1)], request'[Name(k + 1)])
    <3>1. k + 1 \in 1..FieldCount => request[Name(k + 1)] \in Seq(Octets)
      BY <1>1, FieldsAreOctets
    <3> QED BY <3>1, <2>3, EndPrefixes
  <2>5. UpTo(k + 1)'
    BY <2>1, <2>2, <2>4, <1>5 DEF UpTo, Whole
  <2>6. k = FieldCount => \A j \in 1..FieldCount : Whole(j)'
    <3>1. k = FieldCount => \A j \in 1..FieldCount : j < k + 1
      BY CountIsNat
    <3> QED BY <3>1, <2>1 DEF Whole
  <2> QED BY <2>3, <2>5, <2>6
<1> QED BY <1>2, <1>6, <1>7

(* After the dump, file and dump agree as far as both go. *)
LEMMA DumpEndKeeps ==
  ASSUME FileTypes, Dumping, DumpEnd
  PROVE  FileTypes' /\ Dumping' /\ LoadingOn' /\ Lost' /\ Loaded'
<1>1. /\ phase = "dump" /\ field = FieldCount + 1
      /\ pos' = 1 /\ field' = 1 /\ phase' = "load" /\ props' = Cleared
      /\ UNCHANGED <<request, file, quota, tails, loadRet>>
  <2>1. Len(DumpLayout) = FieldCount /\ field \in 1..FieldCount + 1
    BY Layouts DEF FileTypes
  <2>2. field > FieldCount
    BY <2>1 DEF DumpEnd
  <2>3. field = FieldCount + 1
    BY <2>1, <2>2, CountIsNat
  <2> QED BY <2>3 DEF DumpEnd
<1>2. request \in Known /\ IsStart(Start(request), request)
  BY Starts DEF FileTypes, Known
<1>3. Len(file) \in Nat /\ Len(Dumped(request)) \in Nat
  BY <1>2, LenProperties DEF FileTypes, IsStart
<1>4. Agrees
  <2> SUFFICES ASSUME NEW i \in 1..Len(Dumped(request)), i <= Len(file)
               PROVE  file[i] = Dumped(request)[i]
    BY DEF Agrees
  <2>1. Start(request)[field] = Len(Dumped(request))
    BY <1>1, <1>2 DEF IsStart
  <2>2. i \in 1..pos - 1
    BY <2>1, <1>1, <1>3 DEF Dumping, FileTypes
  <2> QED BY <2>2, <1>1 DEF Dumping
<1>5. FileTypes'
  <2>1. 1 \in 1..Len(file) + 1 /\ 1 \in 1..FieldCount + 1
    BY <1>3, CountIsNat
  <2> QED BY <2>1, <1>1, Clear DEF FileTypes
<1>6. UpTo(1)' /\ props'[Name(1)] = <<>>
  <2>1. 1 \in 1..FieldCount
    BY CountIsNat
  <2>2. Name(1) \in Fields
    BY <2>1, Layouts
  <2>3. IsPrefix(props'[Name(1)], request'[Name(1)])
    BY <1>1, <1>2, <2>1, <2>2, Clear, FieldsAreOctets, EndPrefixes
  <2>4. \A j \in 1..FieldCount : ~(j < 1)
    BY CountIsNat
  <2> QED BY <1>1, <2>1, <2>3, <2>4, Clear DEF UpTo
<1>7. Agrees'
  BY <1>1, <1>4 DEF Agrees
<1>8. Start(request)'[1] = 0
  BY <1>1, <1>2 DEF IsStart
<1>9. NamedBefore(1)'
  <2>1. \A j \in 1..FieldCount : ~(j < 1)
    BY CountIsNat
  <2> QED BY <2>1 DEF NamedBefore
<1>10. NamedBefore(field)' /\ UpTo(field)'
  BY <1>1, <1>6, <1>9 DEF NamedBefore, UpTo
<1> QED BY <1>1, <1>5, <1>6, <1>7, <1>8, <1>10 DEF Dumping, LoadingOn, Lost, Loaded, FileTypes

(* The load of a field has come to an end of the file, or begins at the    *)
(* field's octets.                                                         *)
LEMMA AtField ==
  ASSUME FileInv, phase = "load", field <= FieldCount
  PROVE  /\ request \in Known /\ Agrees /\ loadRet = "none"
         /\ field \in 1..FieldCount
         /\ Len(file) \in Nat /\ pos \in 1..Len(file) + 1
         /\ Start(request)[field + 1] <= Len(Dumped(request))
         /\ Start(request)[field] \in Nat /\ Len(Part(request, field)) \in Nat /\ Len(Dumped(request)) \in Nat
         /\ Start(request)[field + 1] = Start(request)[field] + Len(Part(request, field))
         /\ \/ /\ pos - 1 = Start(request)[field] /\ UpTo(field) /\ props[Name(field)] = <<>>
               /\ NamedBefore(field)
               /\ \A i \in 1..Len(Part(request, field)) :
                    pos - 1 + i <= Len(file) => file[pos - 1 + i] = Part(request, field)[i]
            \/ /\ pos - 1 = Len(file) /\ Len(file) < Len(Dumped(request))
               /\ Kind(field) \in {"list", "text"}
               /\ \E k \in 1..FieldCount : UpTo(k)
<1>1. /\ request \in Known /\ IsStart(Start(request), request)
      /\ Agrees /\ loadRet = "none" /\ field \in 1..FieldCount /\ field \in 1..FieldCount + 1
  BY CountIsNat, Starts DEF FileInv, FileTypes, Known, LoadingOn
<1>2. Len(file) \in Nat /\ Len(Dumped(request)) \in Nat /\ Len(Part(request, field)) \in Nat
      /\ pos \in 1..Len(file) + 1
  BY <1>1, Parts, LenProperties DEF FileInv, FileTypes, IsStart
<1> DEFINE at == Start(request)[field]
           part == Part(request, field)
           dump == Dumped(request)
<1>3. /\ at \in Nat /\ Start(request)[field + 1] = at + Len(part) /\ at + Len(part) <= Len(dump)
      /\ \A i \in 1..Len(part) : dump[at + i] = part[i]
  BY <1>1 DEF IsStart
<1> HIDE DEF at, part, dump
<1>4. CASE pos - 1 = at /\ UpTo(field) /\ NamedBefore(field) /\ props[Name(field)] = <<>>
  <2>1. ASSUME NEW i \in 1..Len(part), pos - 1 + i <= Len(file) PROVE file[pos - 1 + i] = part[i]
    <3>1. at + i \in 1..Len(dump)
      BY <1>2, <1>3 DEF part, dump
    <3>2. file[at + i] = dump[at + i]
      BY <2>1, <3>1, <1>1, <1>4 DEF Agrees, dump
    <3> QED BY <3>2, <1>3, <1>4
  <2> QED BY <2>1, <1>1, <1>2, <1>3, <1>4 DEF at, part, dump
<1>5. CASE /\ pos - 1 = Len(file) /\ Len(file) < at
           /\ field \in 2..FieldCount /\ Kind(field) \in {"list", "text"} /\ UpTo(field - 1)
  <2>1. Len(file) < Len(dump) /\ field - 1 \in 1..FieldCount
    BY <1>2, <1>3, <1>5, CountIsNat DEF part, dump
  <2>2. \E k \in 1..FieldCount : UpTo(k)
    BY <2>1, <1>5
  <2> QED BY <2>1, <2>2, <1>1, <1>2, <1>3, <1>5 DEF at, part, dump
<1>6. \/ /\ pos - 1 = at /\ UpTo(field) /\ NamedBefore(field)
         /\ field \in 1..FieldCount => props[Name(field)] = <<>>
      \/ /\ pos - 1 = Len(file) /\ Len(file) < at
         /\ field \in 2..FieldCount /\ Kind(field) \in {"list", "text"} /\ UpTo(field - 1)
  BY DEF FileInv, LoadingOn, at
<1> QED BY <1>1, <1>4, <1>5, <1>6

(* The load gives up: nothing is left to read. *)
LEMMA GivesUp ==
  ASSUME FileInv, phase = "load", field <= FieldCount, pos - 1 = Len(file), Kind(field) # "fixed",
         ReadNothing, UNCHANGED <<request, file, quota>>
  PROVE  FileInv'
<1>1. /\ phase' = "loaded" /\ loadRet' = "FILE_ERR"
      /\ UNCHANGED <<request, file, quota, props, pos, field>>
  BY DEF ReadNothing
<1>2. (\E k \in 1..FieldCount : UpTo(k)) /\ Len(file) < Len(Dumped(request))
  <2>1. /\ request \in Known /\ field \in 1..FieldCount /\ Len(file) \in Nat
        /\ Start(request)[field + 1] <= Len(Dumped(request))
        /\ Start(request)[field] \in Nat /\ Len(Part(request, field)) \in Nat /\ Len(Dumped(request)) \in Nat
        /\ Start(request)[field + 1] = Start(request)[field] + Len(Part(request, field))
        /\ \/ pos - 1 = Start(request)[field] /\ UpTo(field)
           \/ /\ Len(file) < Len(Dumped(request))
              /\ \E k \in 1..FieldCount : UpTo(k)
    BY AtField
  <2>2. Len(Part(request, field)) > 0
    <3>1. request[Name(field)] \in Seq(Octets) /\ Len(request[Name(field)]) \in Nat
      BY <2>1, Parts, FieldsAreOctets
    <3>2. Kind(field) \in {"list", "text", "array"}
      BY <2>1, Layouts
    <3>3. CASE Kind(field) = "list"
      <4>1. Len(Part(request, field)) = 1 \/ Len(Part(request, field)) = Len(request[Name(field)]) + 2
        BY <3>3, <2>1, Parts
      <4>2. \A n \in Nat : n + 2 > 0 /\ 1 > 0
        OBVIOUS
      <4>3. Len(request[Name(field)]) \in Nat
        BY <3>1
      <4> QED BY <4>1, <4>2, <4>3, Zenon
    <3>4. CASE Kind(field) \in {"text", "array"}
      <4>1. Len(Part(request, field)) = Len(request[Name(field)]) + 1
        BY <3>4, <2>1, Parts
      <4>2. \A n \in Nat : n + 1 > 0
        OBVIOUS
      <4>3. Len(request[Name(field)]) \in Nat
        BY <3>1
      <4> QED BY <4>1, <4>2, <4>3, Zenon
    <3> QED BY <3>2, <3>3, <3>4
  <2> QED BY <2>1, <2>2
<1>3. FileTypes'
  BY <1>1 DEF FileInv, FileTypes
<1>4. Loaded'
  BY <1>1, <1>2 DEF Loaded, InStepToTheEnd, UpTo, Whole
<1> QED BY <1>1, <1>3, <1>4 DEF FileInv, Dumping, LoadingOn, Lost

(* An index and the same index one length further. *)
LEMMA Shifts ==
  \A c, p, l, m, j \in Int :
     c >= 0 /\ p = l + c /\ j \in 1..l => j + c \in 1..p /\ m - 1 + (j + c) = (m + c) - 1 + j
OBVIOUS

(* The load of the octets of a field that has nothing, or only its length, *)
(* before them.                                                            *)
LEMMA ReadsField ==
  ASSUME FileInv, phase = "load", field \in 1..FieldCount,
         NEW d \in {0, 1}, pos + d <= Len(file) + 1, pos - 1 = Start(request)[field],
         UpTo(field), props[Name(field)] = <<>>, NamedBefore(field), Kind(field) # "list",
         Len(Part(request, field)) = Len(request[Name(field)]) + d,
         \A i \in 1..Len(request[Name(field)]) : Part(request, field)[i + d] = request[Name(field)][i],
         ReadInto(Name(field), pos + d, Len(request[Name(field)])),
         UNCHANGED <<request, file, quota>>
  PROVE  FileInv'
<1> DEFINE s == request[Name(field)]
           at == Start(request)[field]
           part == Part(request, field)
           got == Read(pos + d, Len(s))
<1>1. /\ request \in Known /\ Agrees /\ loadRet = "none"
      /\ Len(file) \in Nat /\ pos \in 1..Len(file) + 1
      /\ at \in Nat /\ Len(part) \in Nat /\ Len(Dumped(request)) \in Nat
      /\ Start(request)[field + 1] = at + Len(part)
      /\ at + Len(part) <= Len(Dumped(request))
  <2>1. field <= FieldCount
    BY CountIsNat
  <2> QED BY <2>1, AtField
<1>2. \A i \in 1..Len(part) : pos - 1 + i <= Len(file) => file[pos - 1 + i] = part[i]
  <2> SUFFICES ASSUME NEW i \in 1..Len(part), pos - 1 + i <= Len(file)
               PROVE  file[pos - 1 + i] = part[i]
    OBVIOUS
  <2>1. IsStart(Start(request), request)
    BY <1>1, Starts
  <2>2. Dumped(request)[at + i] = part[i]
    BY <2>1 DEF IsStart
  <2>3. at + i \in 1..Len(Dumped(request)) /\ pos - 1 + i = at + i
    <3>1. \A a, l, m, j \in Nat : a + l <= m /\ j \in 1..l => a + j \in 1..m
      OBVIOUS
    <3>2. i \in Nat /\ pos - 1 = at
      BY <1>1
    <3> QED BY <3>1, <3>2, <1>1
  <2> QED BY <2>2, <2>3, <1>1 DEF Agrees
<1>3. Name(field) \in Fields /\ s \in Seq(Octets) /\ Len(s) \in Nat /\ Len(part) = Len(s) + d
  BY <1>1, Layouts, FieldsAreOctets
<1> HIDE DEF at, part, s
<1>4. ASSUME NEW i \in 1..Len(s), (pos + d) - 1 + i <= Len(file) PROVE file[(pos + d) - 1 + i] = s[i]
  <2>1. i + d \in 1..Len(part) /\ pos - 1 + (i + d) = (pos + d) - 1 + i
    <3>1. \A c, p, l, m, j \in Int : c >= 0 /\ p = l + c /\ j \in 1..l
             => j + c \in 1..p /\ m - 1 + (j + c) = (m + c) - 1 + j
      BY Shifts
    <3>2. Len(part) \in Int /\ Len(s) \in Int /\ pos \in Int /\ i \in Int
      BY <1>1, <1>3
    <3>3. d \in Int /\ d >= 0
      OBVIOUS
    <3> QED BY <3>1, <3>2, <3>3, <1>3
  <2>2. file[pos - 1 + (i + d)] = part[i + d]
    BY <2>1, <1>2, <1>4
  <2> QED BY <2>1, <2>2 DEF s, part
<1>5. /\ got \in Seq(Octets) /\ Len(got) \in Nat
      /\ IsPrefix(got, s)
      /\ Len(got) = Len(s) => got = s
      /\ pos + d + Len(got) <= Len(file) + 1
      /\ Len(got) # Len(s) => Len(file) < (pos + d) - 1 + Len(s)
  <2>1. pos + d \in 1..Len(file) + 1 /\ file \in Seq(Octets)
    BY <1>1 DEF FileInv, FileTypes
  <2> QED BY <2>1, <1>3, <1>4, ReadEffect
<1>6. /\ props' = [props EXCEPT ![Name(field)] = got]
      /\ pos' = (pos + d) + Len(got)
      /\ IF Len(got) = Len(s)
           THEN field' = field + 1 /\ UNCHANGED <<phase, loadRet>>
           ELSE phase' = "loaded" /\ loadRet' = "FILE_ERR" /\ UNCHANGED field
  BY DEF ReadInto, s
<1> HIDE DEF got
<1>7. PICK k \in 1..FieldCount : k = field
  OBVIOUS
<1>8. request \in Known /\ props \in [Fields -> Seq(Octets)] /\ request' = request
  BY <1>1 DEF FileInv, FileTypes
<1>9. /\ UpTo(k)' /\ props' \in [Fields -> Seq(Octets)]
      /\ got = request[Name(k)] =>
           /\ UpTo(k + 1)'
           /\ k + 1 \in 1..FieldCount => props'[Name(k + 1)] = <<>>
           /\ k = FieldCount => \A j \in 1..FieldCount : Whole(j)'
  BY <1>5, <1>6, <1>7, <1>8, NextRead DEF s
<1>10. pos' \in 1..Len(file') + 1
  <2>1. pos' \in 1..Len(file) + 1
    BY <1>1, <1>5, <1>6
  <2> QED BY <2>1
<1>13. NamedBefore(k + 1)'
  <2>1. \A j \in 1..FieldCount : j < k + 1 => j < k \/ j = k
    BY CountIsNat
  <2>2. ~StopsEarly(field)
    BY DEF StopsEarly, Kind
  <2>3. \A j \in 1..FieldCount : j < k + 1 => ~StopsEarly(j)
    BY <2>1, <2>2, <1>7 DEF NamedBefore
  <2> QED BY <2>3 DEF NamedBefore, StopsEarly
<1>11. CASE Len(got) = Len(s)
  <2>1. field' = k + 1 /\ phase' = "load" /\ loadRet' = "none" /\ field' \in 1..FieldCount + 1
    <3>1. field' = field + 1 /\ UNCHANGED <<phase, loadRet>>
      BY <1>6, <1>11
    <3>2. k + 1 \in 1..FieldCount + 1
      BY CountIsNat
    <3> QED BY <3>1, <3>2, <1>1, <1>7
  <2>2. UpTo(k + 1)' /\ (k + 1 \in 1..FieldCount => props'[Name(k + 1)] = <<>>)
    BY <1>5, <1>7, <1>9, <1>11 DEF s
  <2>3. UpTo(field)' /\ (field' \in 1..FieldCount => props'[Name(field')] = <<>>)
    BY <2>1, <2>2 DEF UpTo
  <2>4. pos' - 1 = Start(request')[field']
    BY <2>1, <1>1, <1>3, <1>5, <1>6, <1>7, <1>11 DEF at
  <2>5. FileTypes'
    BY <2>1, <1>9, <1>10 DEF FileInv, FileTypes
  <2>6. Agrees'
    BY <1>1 DEF Agrees
  <2>7. NamedBefore(field)'
    BY <2>1, <1>13 DEF NamedBefore
  <2> QED BY <2>1, <2>3, <2>4, <2>5, <2>6, <2>7 DEF FileInv, Dumping, LoadingOn, Lost, Loaded
<1>12. CASE Len(got) # Len(s)
  <2>1. field' = k /\ phase' = "loaded" /\ loadRet' = "FILE_ERR"
    BY <1>6, <1>7, <1>12
  <2>2. Len(file) < Len(Dumped(request))
    BY <1>1, <1>3, <1>5, <1>12 DEF at
  <2>3. FileTypes'
    BY <2>1, <1>7, <1>9, <1>10, CountIsNat DEF FileInv, FileTypes
  <2>4. Loaded'
    BY <2>1, <2>2, <1>9 DEF Loaded, InStepToTheEnd
  <2> QED BY <2>1, <2>3, <2>4 DEF FileInv, Dumping, LoadingOn, Lost
<1> QED BY <1>11, <1>12

(* A fixed field is read. *)
LEMMA LoadFixedKeeps == ASSUME FileInv, LoadFixed PROVE FileInv'
<1>1. /\ phase = "load" /\ field \in 1..FieldCount /\ Kind(field) = "fixed"
      /\ UNCHANGED <<request, file, quota>>
      /\ ReadInto(Name(field), pos, Sizes[Name(field)])
  <2>1. Len(LoadLayout) = FieldCount /\ LoadLayout = DumpLayout
    BY Layouts
  <2>2. field \in Int /\ field >= 1
    BY CountIsNat DEF FileInv, FileTypes
  <2>3. field \in 1..FieldCount
    BY <2>1, <2>2, CountIsNat DEF LoadFixed, Loading
  <2>4. phase = "load" /\ LoadLayout[field][2] = "fixed" /\ UNCHANGED <<request, file, quota>>
    BY DEF LoadFixed, Loading
  <2>5. ReadInto(LoadLayout[field][1], pos, Sizes[LoadLayout[field][1]])
    BY DEF LoadFixed
  <2> QED BY <2>1, <2>3, <2>4, <2>5 DEF Kind, Name
<1>2. /\ request \in Known /\ Len(file) \in Nat /\ pos \in 1..Len(file) + 1
      /\ pos - 1 = Start(request)[field] /\ UpTo(field) /\ props[Name(field)] = <<>>
      /\ NamedBefore(field)
  <2>1. field <= FieldCount
    BY <1>1, CountIsNat
  <2> QED BY <2>1, <1>1, AtField
<1>3. Part(request, field) = request[Name(field)] /\ Len(request[Name(field)]) = Sizes[Name(field)]
      /\ Len(request[Name(field)]) \in Nat
  <2>1. /\ Part(request, field) = request[Name(field)]
        /\ Len(Part(request, field)) = Sizes[Name(field)]
        /\ Len(Part(request, field)) \in Nat
    BY <1>1, <1>2, Parts
  <2> QED BY <2>1
<1>4. \A i \in 1..Len(request[Name(field)]) : i + 0 = i
  BY <1>3
<1>5. /\ 0 \in {0, 1} /\ pos + 0 = pos /\ pos + 0 <= Len(file) + 1
      /\ Len(request[Name(field)]) + 0 = Len(request[Name(field)])
  BY <1>2, <1>3
<1> QED BY <1>1, <1>2, <1>3, <1>4, <1>5, ReadsField

(* A length is read, and as many octets as it says. *)
LEMMA LoadCountedKeeps ==
  ASSUME FileInv, Loading("text") \/ Loading("array"),
         \/ Left = 0 /\ ReadNothing
         \/ Left # 0 /\ ReadInto(LoadLayout[field][1], pos + 1, TextLength)
  PROVE  FileInv'
<1>1. /\ phase = "load" /\ field \in 1..FieldCount /\ Kind(field) \in {"text", "array"}
      /\ UNCHANGED <<request, file, quota>>
      /\ LoadLayout[field][1] = Name(field) /\ field <= FieldCount
  <2>1. Len(LoadLayout) = FieldCount /\ LoadLayout = DumpLayout
    BY Layouts
  <2>2. field \in Int /\ field >= 1
    BY CountIsNat DEF FileInv, FileTypes
  <2>3. field \in 1..FieldCount /\ field <= FieldCount
    BY <2>1, <2>2, CountIsNat DEF Loading
  <2>4. phase = "load" /\ LoadLayout[field][2] \in {"text", "array"} /\ UNCHANGED <<request, file, quota>>
    BY DEF Loading
  <2> QED BY <2>1, <2>3, <2>4 DEF Kind, Name
<1>2. Len(file) \in Nat /\ pos \in 1..Len(file) + 1
  BY <1>1, AtField
<1>3. CASE Left = 0 /\ ReadNothing
  <2>1. pos - 1 = Len(file)
    BY <1>2, <1>3 DEF Left
  <2> QED BY <2>1, <1>1, <1>3, GivesUp
<1>4. CASE Left # 0 /\ ReadInto(LoadLayout[field][1], pos + 1, TextLength)
  <2> DEFINE s == request[Name(field)]
             part == Part(request, field)
  <2>1. pos - 1 # Len(file) /\ pos <= Len(file)
    BY <1>2, <1>4 DEF Left
  <2>2. /\ request \in Known
        /\ pos - 1 = Start(request)[field] /\ UpTo(field) /\ props[Name(field)] = <<>>
        /\ NamedBefore(field)
        /\ \A i \in 1..Len(part) : pos - 1 + i <= Len(file) => file[pos - 1 + i] = part[i]
    BY <2>1, <1>1, AtField
  <2>3. /\ Len(part) = Len(s) + 1 /\ part[1] = [word |-> Len(s)]
        /\ \A i \in 1..Len(s) : part[i + 1] = s[i]
        /\ Len(s) \in Nat
    <3>1. Name(field) \in Fields
      BY <1>1, Layouts
    <3> QED BY <3>1, <1>1, <2>2, Parts, FieldsAreOctets
  <2> HIDE DEF s, part
  <2>4. file[pos] = [word |-> Len(s)]
    <3>1. 1 \in 1..Len(part) /\ pos - 1 + 1 = pos
      BY <1>2, <2>3
    <3> QED BY <3>1, <2>1, <2>2, <2>3 DEF part
  <2>5. TextLength = Len(s)
    BY <2>3, <2>4 DEF TextLength
  <2>6. 1 \in {0, 1} /\ pos + 1 <= Len(file) + 1
    BY <1>2, <2>1
  <2> QED BY <1>1, <1>4, <2>2, <2>3, <2>5, <2>6, ReadsField DEF s, part
<1> QED BY <1>3, <1>4

(* A text is read. *)
LEMMA LoadTextKeeps == ASSUME FileInv, LoadText PROVE FileInv'
BY LoadCountedKeeps DEF LoadText

(* The user name is read. *)
LEMMA LoadArrayKeeps == ASSUME FileInv, LoadArray PROVE FileInv'
BY LoadCountedKeeps DEF LoadArray

(***************************************************************************)
(* What is taken of a list: all of it, or what comes before the first      *)
(* entry without a name.                                                   *)
(***************************************************************************)
LEMMA TakenIs ==
  ASSUME request \in Known, NEW k \in 1..FieldCount, Kind(k) = "list"
  PROVE  /\ Taken(k) \in Seq(Octets) /\ Len(Taken(k)) \in Nat
         /\ Len(Taken(k)) <= Len(request[Name(k)])
         /\ \A i \in 1..Len(Taken(k)) : Taken(k)[i] = request[Name(k)][i] /\ Taken(k)[i] # Unnamed
         /\ StopsEarly(k) => /\ Len(Taken(k)) + 1 \in 1..Len(request[Name(k)])
                             /\ request[Name(k)][Len(Taken(k)) + 1] = Unnamed
         /\ ~StopsEarly(k) => Taken(k) = request[Name(k)]
<1> DEFINE s == request[Name(k)]
           t == Taken(k)
<1>1. s \in Seq(Octets) /\ Len(s) \in Nat
  BY Layouts, FieldsAreOctets
<1>2. StopsEarly(k) <=> Unnamed \in Range(s)
  BY DEF StopsEarly, Kind, Name
<1>3. t = IF StopsEarly(k) THEN SubSeq(s, 1, FirstUnnamed(s) - 1) ELSE s
  BY DEF Taken, Name
<1>4. \A i \in 1..Len(s) : s[i] \in Range(s) /\ s[i] \in Octets
  BY <1>1, ElementOfSeq DEF Range
<1> HIDE DEF s, t
<1>5. CASE ~StopsEarly(k)
  <2>1. t = s
    BY <1>3, <1>5
  <2>2. \A i \in 1..Len(s) : s[i] # Unnamed
    BY <1>2, <1>4, <1>5
  <2> QED BY <1>1, <1>5, <2>1, <2>2 DEF s, t
<1>6. CASE StopsEarly(k)
  <2> DEFINE T == {i \in Nat : i \in 1..Len(s) /\ s[i] = Unnamed}
             First(i) == s[i] = Unnamed /\ \A j \in 1..i - 1 : s[j] # Unnamed
  <2>1. T # {}
    <3>1. PICK i \in DOMAIN s : s[i] = Unnamed
      BY <1>2, <1>6 DEF Range
    <3>2. i \in 1..Len(s) /\ i \in Nat
      BY <1>1
    <3> QED BY <3>1, <3>2
  <2>2. PICK m \in T : \A i \in T : m <= i
    <3> HIDE DEF T
    <3> T \subseteq Nat
      BY DEF T
    <3> QED BY <2>1, LeastNat
  <2>3. m \in 1..Len(s) /\ First(m)
    <3>1. ASSUME NEW j \in 1..m - 1 PROVE s[j] # Unnamed
      <4>1. j \in Nat /\ j < m /\ j \in 1..Len(s)
        BY <1>1, <2>2
      <4> QED BY <4>1, <2>2
    <3> QED BY <2>2, <3>1
  <2> DEFINE n == FirstUnnamed(s)
  <2>4. n \in 1..Len(s) /\ First(n)
    <3>1. n = CHOOSE i \in 1..Len(s) : First(i)
      BY DEF FirstUnnamed
    <3> HIDE DEF First, n
    <3> QED BY <2>3, <3>1
  <2> HIDE DEF T
  <2>5. t = SubSeq(s, 1, n - 1)
    BY <1>3, <1>6
  <2> HIDE DEF n
  <2>6. n \in Nat \ {0} /\ n <= Len(s)
    BY <1>1, <2>4
  <2>7. \A i \in 1..n - 1 : s[i] \in Octets
    BY <1>1, <1>4, <2>6
  <2>8. /\ t \in Seq(Octets)
        /\ Len(t) = IF 1 <= n - 1 THEN (n - 1) - 1 + 1 ELSE 0
        /\ \A i \in 1..(n - 1) - 1 + 1 : t[i] = s[1 + i - 1]
    BY <2>5, <2>6, <2>7, SubSeqProperties
  <2>9. Len(t) = n - 1 /\ Len(t) \in Nat /\ Len(t) <= Len(s) /\ Len(t) + 1 = n
    BY <1>1, <2>6, <2>8
  <2>10. \A i \in 1..Len(t) : t[i] = s[i] /\ s[i] # Unnamed
    <3>1. \A i \in 1..Len(t) : i \in 1..(n - 1) - 1 + 1 /\ i \in 1..n - 1 /\ 1 + i - 1 = i
      BY <2>6, <2>9
    <3> QED BY <3>1, <2>4, <2>8
  <2> QED BY <1>6, <2>4, <2>8, <2>9, <2>10 DEF s, t
<1> QED BY <1>5, <1>6

(***************************************************************************)
(* The end of a list: its end marker or an entry without a name if the     *)
(* file has it, or the end of the file.                                    *)
(***************************************************************************)
LEMMA ListEnds ==
  ASSUME file \in Seq(Octets), NEW s \in Seq(Octets), NEW from \in 1..Len(file) + 1,
         \A i \in 1..Len(s) : s[i] \notin {EndOfList, Unnamed},
         \A i \in 1..Len(s) : from - 1 + i <= Len(file) => file[from - 1 + i] = s[i],
         from + Len(s) <= Len(file) => file[from + Len(s)] \in {EndOfList, Unnamed}
  PROVE  ListEnd(from) = IF from + Len(s) <= Len(file) THEN from + Len(s) ELSE Len(file) + 1
<1> DEFINE end == IF from + Len(s) <= Len(file) THEN from + Len(s) ELSE Len(file) + 1
           Stops(k) == file[k] \in {EndOfList, Unnamed}
           Ends(e) == e = Len(file) + 1 \/ Stops(e)
           IsEnd(e) == Ends(e) /\ \A k \in from..e - 1 : ~Ends(k)
<1>1. Len(file) \in Nat /\ Len(s) \in Nat /\ from \in Nat \ {0} /\ from <= Len(file) + 1
  BY LenProperties
<1>2. /\ end \in from..Len(file) + 1 /\ end <= from + Len(s)
      /\ end = Len(file) + 1 \/ (end = from + Len(s) /\ end <= Len(file))
  BY <1>1
<1> HIDE DEF end
<1>3. ASSUME NEW k \in from..end - 1 PROVE ~Ends(k)
  <2> DEFINE i == k - (from - 1)
  <2>1. i \in 1..Len(s) /\ from - 1 + i = k /\ k <= Len(file)
    BY <1>1, <1>2
  <2> HIDE DEF i
  <2>2. file[k] = s[i]
    BY <2>1
  <2>3. k # Len(file) + 1
    BY <1>1, <2>1
  <2> QED BY <2>1, <2>2, <2>3
<1>4. Ends(end)
  BY <1>2
<1> HIDE DEF Ends, Stops
<1>5. ASSUME NEW e \in from..Len(file) + 1, IsEnd(e) PROVE e = end
  <2>1. e \in Int /\ end \in Int /\ e >= from /\ end >= from
    BY <1>1, <1>2
  <2>2. ~(e < end)
    <3>1. e < end => e \in from..end - 1
      BY <1>1, <2>1
    <3> QED BY <3>1, <1>3, <1>5
  <2>3. ~(end < e)
    <3>1. end < e => end \in from..e - 1
      BY <1>1, <2>1
    <3> QED BY <3>1, <1>4, <1>5
  <2> QED BY <2>1, <2>2, <2>3
<1>6. IsEnd(end)
  BY <1>3, <1>4
<1>7. ListEnd(from) = CHOOSE e \in from..Len(file) + 1 : IsEnd(e)
  BY DEF ListEnd, Ends, Stops
<1>8. \A e \in from..Len(file) + 1 : IsEnd(e) <=> e = end
  BY <1>5, <1>6
<1> HIDE DEF IsEnd
<1>9. (CHOOSE e \in from..Len(file) + 1 : IsEnd(e)) = end
  BY <1>2, <1>8
<1> QED BY <1>7, <1>9 DEF end

(* A list is read up to its end marker, to an entry without a name or to   *)
(* the end of the file.                                                    *)
LEMMA LoadListKeeps == ASSUME FileInv, LoadList PROVE FileInv'
<1>1. /\ phase = "load" /\ field \in 1..FieldCount /\ Kind(field) = "list"
      /\ UNCHANGED <<request, file, quota>>
      /\ LoadLayout[field][1] = Name(field) /\ field <= FieldCount
  <2>1. Len(LoadLayout) = FieldCount /\ LoadLayout = DumpLayout
    BY Layouts
  <2>2. field \in Int /\ field >= 1
    BY CountIsNat DEF FileInv, FileTypes
  <2>3. field \in 1..FieldCount /\ field <= FieldCount
    BY <2>1, <2>2, CountIsNat DEF LoadList, Loading
  <2>4. phase = "load" /\ LoadLayout[field][2] = "list" /\ UNCHANGED <<request, file, quota>>
    BY DEF LoadList, Loading
  <2> QED BY <2>1, <2>3, <2>4 DEF Kind, Name
<1>2. Len(file) \in Nat /\ pos \in 1..Len(file) + 1
  BY <1>1, AtField
<1>3. CASE Left = 0
  <2>1. pos - 1 = Len(file)
    BY <1>2, <1>3 DEF Left
  <2>2. ReadNothing
    BY <1>3 DEF LoadList
  <2> QED BY <2>1, <2>2, <1>1, GivesUp
<1>4. CASE Left # 0
  <2> DEFINE s == request[Name(field)]
             part == Part(request, field)
             at == Start(request)[field]
             e == ListEnd(pos + 1)
             got == SubSeq(file, pos + 1, e - 1)
  <2>1. pos - 1 # Len(file) /\ pos <= Len(file)
    BY <1>2, <1>4 DEF Left
  <2>2. /\ request \in Known /\ Agrees /\ loadRet = "none"
        /\ pos - 1 = at /\ UpTo(field) /\ props[Name(field)] = <<>> /\ NamedBefore(field)
        /\ at \in Nat /\ Len(part) \in Nat /\ Start(request)[field + 1] = at + Len(part)
        /\ \A i \in 1..Len(part) : pos - 1 + i <= Len(file) => file[pos - 1 + i] = part[i]
    BY <2>1, <1>1, AtField
  <2>3. /\ s = <<>> => Len(part) = 1 /\ part[1] = [word |-> 0]
        /\ s # <<>> => /\ Len(part) = Len(s) + 2
                       /\ part[1] = [word |-> 1]
                       /\ \A i \in 1..Len(s) : part[i + 1] = s[i] /\ s[i] # EndOfList
                       /\ part[Len(s) + 2] = EndOfList
    BY <1>1, <2>2, Parts
  <2>4. s \in Seq(Octets) /\ Len(s) \in Nat
    <3>1. Name(field) \in Fields
      BY <1>1, Layouts
    <3> QED BY <3>1, <2>2, FieldsAreOctets
  <2>5. /\ field' = field + 1 /\ UNCHANGED loadRet
        /\ file[pos].word = 0 => pos' = pos + 1 /\ UNCHANGED <<props, phase>>
        /\ file[pos].word # 0 =>
             /\ props' = [props EXCEPT ![Name(field)] = got]
             /\ pos' = IF e <= Len(file) THEN e + 1 ELSE e
             /\ phase' = IF e <= Len(file) /\ file[e] = Unnamed THEN "astray" ELSE "load"
    BY <1>1, <1>4 DEF LoadList
  <2> HIDE DEF s, part, at, e, got
  <2>6. file[pos] = part[1]
    <3>1. Len(part) = 1 \/ Len(part) = Len(s) + 2
      BY <2>3
    <3>2. \A n \in Nat : 1 \in 1..n + 2 /\ 1 \in 1..1
      OBVIOUS
    <3>3. 1 \in 1..Len(part)
      BY <3>1, <3>2, <2>4
    <3>4. pos - 1 + 1 = pos
      BY <1>2
    <3> QED BY <3>3, <3>4, <2>1, <2>2
  <2>7. PICK k \in 1..FieldCount : k = field
    BY <1>1
  <2>8. /\ props \in [Fields -> Seq(Octets)] /\ request' = request
        /\ file \in Seq(Octets) /\ Name(k) \in Fields
    BY <1>1, Layouts DEF FileInv, FileTypes
  <2>9. k < FieldCount /\ Kind(k + 1) \in {"list", "text"} /\ k + 1 \in 1..FieldCount /\ k + 1 \in 2..FieldCount
    <3>1. k < FieldCount /\ Kind(k + 1) \in {"list", "text"}
      BY <1>1, <2>7, Layouts
    <3> QED BY <3>1, CountIsNat
  <2>10. field' = k + 1 /\ loadRet' = "none" /\ Agrees'
    BY <1>1, <2>2, <2>5, <2>7 DEF Agrees
  <2>11. ASSUME NEW g \in Seq(Octets), IsPrefix(g, s), props' = [props EXCEPT ![Name(k)] = g]
         PROVE  /\ UpTo(k)' /\ props' \in [Fields -> Seq(Octets)]
                /\ g = s => UpTo(k + 1)' /\ props'[Name(k + 1)] = <<>>
    BY <2>2, <2>7, <2>8, <2>9, <2>11, NextRead DEF s
  <2>12. ASSUME phase' = "load", ~StopsEarly(k), pos' - 1 = at + Len(part), pos' \in 1..Len(file) + 1,
                UpTo(k + 1)', props'[Name(k + 1)] = <<>>, props' \in [Fields -> Seq(Octets)]
         PROVE  FileInv'
    <3>1. UpTo(field)' /\ props'[Name(field')] = <<>>
      BY <2>10, <2>12 DEF UpTo
    <3>2. Start(request')[field'] = at + Len(part)
      BY <1>1, <2>2, <2>7, <2>10
    <3>3. FileTypes'
      BY <1>1, <2>9, <2>10, <2>12, CountIsNat DEF FileInv, FileTypes
    <3>4. NamedBefore(field)'
      <4>1. \A j \in 1..FieldCount : j < k + 1 => j < k \/ j = k
        BY CountIsNat
      <4>2. \A j \in 1..FieldCount : j < k + 1 => ~StopsEarly(j)
        BY <4>1, <2>2, <2>7, <2>12 DEF NamedBefore
      <4> QED BY <4>2, <2>8, <2>10 DEF NamedBefore, StopsEarly
    <3> QED BY <3>1, <3>2, <3>3, <3>4, <2>10, <2>12 DEF FileInv, Dumping, LoadingOn, Lost, Loaded
  <2>13. CASE s = <<>>
    <3>1. file[pos].word = 0
      BY <2>3, <2>6, <2>13
    <3>2. pos' = pos + 1 /\ props' = props /\ phase' = "load" /\ Len(part) = 1
      BY <3>1, <1>1, <2>3, <2>5, <2>13
    <3>6. ~StopsEarly(k)
      BY <2>7, <2>13 DEF StopsEarly, Range, s, Name
    <3>3. props' = [props EXCEPT ![Name(k)] = <<>>]
      <4>1. props[Name(k)] = <<>>
        BY <2>2, <2>7
      <4> QED BY <4>1, <3>2, <2>8
    <3>4. UpTo(k + 1)' /\ props'[Name(k + 1)] = <<>> /\ props' \in [Fields -> Seq(Octets)]
      <4>1. <<>> \in Seq(Octets) /\ IsPrefix(<<>>, s)
        BY <2>4, EndPrefixes
      <4> QED BY <4>1, <3>3, <2>11, <2>13
    <3>5. pos' - 1 = at + Len(part) /\ pos' \in 1..Len(file) + 1
      BY <1>2, <2>1, <2>2, <3>2
    <3> QED BY <3>2, <3>4, <3>5, <3>6, <2>12
  <2>14. CASE s # <<>>
    <3> DEFINE t == Taken(k)
    <3>1. file[pos].word # 0
      <4>1. file[pos] = [word |-> 1]
        BY <2>3, <2>6, <2>14
      <4> QED BY <4>1
    <3>2. /\ props' = [props EXCEPT ![Name(k)] = got]
          /\ pos' = IF e <= Len(file) THEN e + 1 ELSE e
          /\ phase' = IF e <= Len(file) /\ file[e] = Unnamed THEN "astray" ELSE "load"
      BY <3>1, <2>5, <2>7
    <3>3. /\ Len(part) = Len(s) + 2
          /\ \A i \in 1..Len(s) : part[i + 1] = s[i] /\ s[i] # EndOfList
          /\ part[Len(s) + 2] = EndOfList
      BY <2>3, <2>14
    <3>13. /\ t \in Seq(Octets) /\ Len(t) \in Nat /\ Len(t) <= Len(s)
           /\ \A i \in 1..Len(t) : t[i] = s[i] /\ t[i] # Unnamed
           /\ StopsEarly(k) => Len(t) + 1 \in 1..Len(s) /\ s[Len(t) + 1] = Unnamed
           /\ ~StopsEarly(k) => t = s
      BY <1>1, <2>2, <2>7, TakenIs DEF s
    <3> HIDE DEF t
    <3>14. \A i \in 1..Len(t) : /\ i \in 1..Len(s) /\ part[i + 1] = t[i]
                                /\ t[i] \notin {EndOfList, Unnamed}
      <4>1. \A i \in 1..Len(t) : i \in 1..Len(s)
        BY <2>4, <3>13
      <4> QED BY <4>1, <3>3, <3>13
    <3>15. part[Len(t) + 2] = IF StopsEarly(k) THEN Unnamed ELSE EndOfList
      <4>1. CASE StopsEarly(k)
        <5>1. Len(t) + 1 \in 1..Len(s) /\ (Len(t) + 1) + 1 = Len(t) + 2
          BY <3>13, <4>1
        <5>2. part[(Len(t) + 1) + 1] = s[Len(t) + 1]
          BY <3>3, <5>1
        <5> QED BY <3>13, <4>1, <5>1, <5>2
      <4>2. CASE ~StopsEarly(k)
        BY <3>3, <3>13, <4>2
      <4> QED BY <4>1, <4>2
    <3>4. ASSUME NEW i \in 1..Len(t), (pos + 1) - 1 + i <= Len(file)
          PROVE  file[(pos + 1) - 1 + i] = t[i]
      <4>1. i + 1 \in 1..Len(part) /\ pos - 1 + (i + 1) = (pos + 1) - 1 + i
        <5>1. \A l, j, p \in Int : j \in 1..l => j + 1 \in 1..l + 2 /\ p - 1 + (j + 1) = (p + 1) - 1 + j
          OBVIOUS
        <5> QED BY <5>1, <3>3, <3>14, <1>2, <2>4
      <4>2. file[pos - 1 + (i + 1)] = part[i + 1]
        BY <4>1, <3>4, <2>2
      <4> QED BY <4>1, <4>2, <3>14
    <3>5. (pos + 1) + Len(t) <= Len(file) =>
             file[(pos + 1) + Len(t)] = IF StopsEarly(k) THEN Unnamed ELSE EndOfList
      <4>1. Len(t) + 2 \in 1..Len(part) /\ pos - 1 + (Len(t) + 2) = (pos + 1) + Len(t)
        <5>1. \A l, m \in Nat : \A p \in Int : l <= m => l + 2 \in 1..m + 2 /\ p - 1 + (l + 2) = (p + 1) + l
          OBVIOUS
        <5> QED BY <5>1, <3>3, <3>13, <1>2, <2>4
      <4> QED BY <4>1, <3>15, <2>2
    <3>6. e = IF (pos + 1) + Len(t) <= Len(file) THEN (pos + 1) + Len(t) ELSE Len(file) + 1
      <4>1. pos + 1 \in 1..Len(file) + 1
        BY <1>2, <2>1
      <4>2. (pos + 1) + Len(t) <= Len(file) => file[(pos + 1) + Len(t)] \in {EndOfList, Unnamed}
        BY <3>5
      <4>3. \A i \in 1..Len(t) : t[i] \notin {EndOfList, Unnamed}
        BY <3>14
      <4> QED BY <4>1, <4>2, <4>3, <2>8, <3>4, <3>13, ListEnds DEF e
    <3>7. /\ e \in Int /\ pos + 1 <= e /\ e <= Len(file) + 1 /\ e <= (pos + 1) + Len(t)
          /\ e <= Len(file) => e = (pos + 1) + Len(t)
          /\ e < (pos + 1) + Len(t) => e = Len(file) + 1
      BY <1>2, <2>1, <3>6, <3>13
    <3>8. /\ got \in Seq(Octets) /\ Len(got) = e - (pos + 1)
          /\ \A i \in 1..e - (pos + 1) : got[i] = file[pos + i]
      <4>1. \A i \in pos + 1..e - 1 : file[i] \in Octets
        BY <1>2, <2>8, <3>7, ElementOfSeq
      <4>2. pos + 1 \in Int /\ e - 1 \in Int
        BY <1>2, <3>7
      <4>3. /\ got \in Seq(Octets)
            /\ Len(got) = IF pos + 1 <= e - 1 THEN (e - 1) - (pos + 1) + 1 ELSE 0
            /\ \A i \in 1..(e - 1) - (pos + 1) + 1 : got[i] = file[(pos + 1) + i - 1]
        BY <4>1, <4>2, SubSeqProperties DEF got
      <4>4. (e - 1) - (pos + 1) + 1 = e - (pos + 1) /\ (pos + 1 <= e - 1 \/ e = pos + 1)
        BY <1>2, <3>7
      <4>5. \A i \in 1..e - (pos + 1) : (pos + 1) + i - 1 = pos + i
        BY <1>2, <3>7
      <4>6. Len(got) = e - (pos + 1)
        BY <4>3, <4>4, <1>2, <3>7
      <4> QED BY <4>3, <4>4, <4>5, <4>6
    <3>9. IsPrefix(got, s) /\ (Len(got) = Len(t) => got = t) /\ Len(got) <= Len(t)
      <4>1. Len(got) <= Len(t) /\ Len(got) <= Len(s)
        BY <1>2, <2>4, <3>7, <3>8, <3>13
      <4>2. ASSUME NEW i \in 1..Len(got) PROVE got[i] = t[i] /\ got[i] = s[i]
        <5>1. i \in 1..e - (pos + 1) /\ i \in 1..Len(t) /\ (pos + 1) - 1 + i = pos + i /\ pos + i <= Len(file)
          BY <1>2, <3>7, <3>8, <3>13
        <5> QED BY <5>1, <3>4, <3>8, <3>13
      <4>3. IsPrefix(got, s) <=> Len(got) <= Len(s) /\ \A i \in 1..Len(got) : got[i] = s[i]
        BY <2>4, <3>8, PrefixElements
      <4>4. Len(got) = Len(t) => got = t
        BY <3>8, <3>13, <4>2, SeqEqual
      <4> QED BY <4>1, <4>2, <4>3, <4>4
    <3>10. /\ UpTo(k)' /\ props' \in [Fields -> Seq(Octets)]
           /\ got = s => UpTo(k + 1)' /\ props'[Name(k + 1)] = <<>>
      BY <2>11, <3>2, <3>8, <3>9
    <3>11. CASE e <= Len(file)
      <4>1. got = t /\ pos' = e + 1 /\ e = (pos + 1) + Len(t)
        BY <1>2, <3>2, <3>7, <3>8, <3>9, <3>11, <3>13
      <4>2. file[e] = IF StopsEarly(k) THEN Unnamed ELSE EndOfList
        BY <3>5, <3>11, <4>1
      <4>3. CASE ~StopsEarly(k)
        <5>1. phase' = "load"
          BY <3>2, <4>2, <4>3 DEF EndOfList, Unnamed
        <5>2. got = s
          BY <3>13, <4>1, <4>3
        <5>3. pos' - 1 = at + Len(part) /\ pos' \in 1..Len(file) + 1
          <6>1. t = s
            BY <3>13, <4>3
          <6>2. pos' = ((pos + 1) + Len(s)) + 1 /\ pos - 1 = at /\ Len(part) = Len(s) + 2
            BY <6>1, <2>2, <3>3, <4>1
          <6>3. pos' - 1 = at + Len(part)
            <7>1. \A p, l \in Int : (((p + 1) + l) + 1) - 1 = (p - 1) + (l + 2)
              OBVIOUS
            <7>2. pos \in Int /\ Len(s) \in Int
              BY <1>2, <2>4
            <7> QED BY <6>2, <7>1, <7>2, Zenon
          <6>4. pos' \in 1..Len(file) + 1
            <7>1. pos' = e + 1 /\ e \in Int /\ pos + 1 <= e /\ e <= Len(file)
              BY <3>7, <3>11, <4>1
            <7> QED BY <7>1, <1>2
          <6> QED BY <6>3, <6>4
        <5> QED BY <5>1, <5>2, <5>3, <3>10, <4>3, <2>12
      <4>4. CASE StopsEarly(k)
        <5>1. phase' = "astray" /\ field' - 1 = k
          BY <3>2, <3>11, <4>2, <4>4, <2>9, <2>10
        <5>2. props'[Name(k)] = t
          BY <2>8, <3>2, <4>1
        <5>3. \A j \in 1..FieldCount : j < k => Whole(j)'
          BY <3>10 DEF UpTo
        <5>4. LostAt(k)'
          <6>1. StopsEarly(k)' /\ t = Taken(k)'
            BY <2>8, <4>4 DEF StopsEarly, Taken, t
          <6>2. \A j \in 1..FieldCount : j < k => ~StopsEarly(j)'
            BY <2>2, <2>7, <2>8 DEF NamedBefore, StopsEarly
          <6> QED BY <6>1, <6>2, <5>2, <5>3 DEF LostAt
        <5>5. FileTypes'
          <6>1. pos' \in 1..Len(file) + 1
            BY <1>2, <3>7, <3>11, <4>1
          <6> QED BY <1>1, <2>9, <2>10, <3>10, <5>1, <6>1, CountIsNat DEF FileInv, FileTypes
        <5>6. LostAt(field - 1)'
          BY <5>1, <5>4 DEF LostAt, StopsEarly, Taken
        <5> QED BY <2>10, <5>1, <5>5, <5>6 DEF FileInv, Dumping, LoadingOn, Lost, Loaded
      <4> QED BY <4>3, <4>4
    <3>12. CASE e > Len(file)
      <4>1. pos' = Len(file) + 1 /\ e = Len(file) + 1 /\ phase' = "load"
        BY <1>2, <3>2, <3>7, <3>12
      <4>2. Len(file) < at + Len(part)
        BY <1>2, <2>2, <2>4, <3>3, <3>7, <3>13, <4>1
      <4>3. Start(request')[field'] = at + Len(part)
        BY <1>1, <2>2, <2>7, <2>10
      <4>4. UpTo(field - 1)'
        <5>1. field' - 1 = k
          BY <2>9, <2>10
        <5> QED BY <5>1, <3>10 DEF UpTo
      <4>5. pos' \in 1..Len(file) + 1 /\ pos' - 1 = Len(file)
        BY <1>2, <4>1
      <4>6. FileTypes'
        BY <1>1, <2>9, <2>10, <3>10, <4>1, <4>5, CountIsNat DEF FileInv, FileTypes
      <4> QED BY <1>1, <2>9, <2>10, <4>1, <4>2, <4>3, <4>4, <4>5, <4>6
              DEF FileInv, Dumping, LoadingOn, Lost, Loaded
    <3> QED BY <1>2, <3>7, <3>11, <3>12
  <2> QED BY <2>13, <2>14
<1> QED BY <1>3, <1>4

(* The file is not opened. *)
LEMMA LoadCannotOpenKeeps == ASSUME FileInv, LoadCannotOpen PROVE FileInv'
<1>1. /\ phase = "load" /\ field = 1 /\ phase' = "loaded" /\ loadRet' = "FILE_ERR"
      /\ UNCHANGED <<request, file, quota, pos, field, props, tails>>
  BY DEF LoadCannotOpen
<1>2. 1 \in 1..FieldCount /\ 1 \notin 2..FieldCount
  BY CountIsNat
<1>3. UpTo(1)
  BY <1>1, <1>2 DEF FileInv, LoadingOn
<1>4. Loaded'
  BY <1>1, <1>2, <1>3 DEF Loaded, InStepToTheEnd, UpTo, Whole
<1> QED BY <1>1, <1>4 DEF FileInv, FileTypes, Dumping, LoadingOn, Lost

(***************************************************************************)
(* The load that has gone astray may change every field that is left, but  *)
(* no field it has read before.                                            *)
(***************************************************************************)
LEMMA LoadAstrayKeeps == ASSUME FileInv, LoadAstray PROVE FileInv'
<1>1. phase = "astray" /\ UNCHANGED <<request, file, quota, pos, field, tails>>
  BY DEF LoadAstray
<1>2. PICK k \in 1..FieldCount : k = field - 1
  BY <1>1 DEF FileInv, Lost
<1>3. LostAt(k) /\ loadRet = "none"
  BY <1>1, <1>2 DEF FileInv, Lost
<1>4. request \in Known /\ props \in [Fields -> Seq(Octets)] /\ field \in 1..FieldCount + 1
  BY DEF FileInv, FileTypes, Known
<1>5. ASSUME \A j \in 1..FieldCount : j <= k => props'[Name(j)] = props[Name(j)] PROVE LostAt(k)'
  <2>1. \A j \in 1..FieldCount : j < k => j <= k
    BY CountIsNat
  <2>2. k <= k
    BY CountIsNat
  <2> QED BY <1>1, <1>3, <1>5, <2>1, <2>2 DEF LostAt, StopsEarly, Taken, Whole
<1>6. CASE phase' = "killed" /\ UNCHANGED <<props, loadRet>>
  <2>1. LostAt(k)'
    BY <1>5, <1>6
  <2> QED BY <1>1, <1>3, <1>6, <2>1 DEF FileInv, FileTypes, Dumping, LoadingOn, Lost, Loaded
<1>7. ASSUME NEW path \in {Astray, request["outputfile"]},
             phase' = "loaded", loadRet' \in {"OK", "FILE_ERR"},
             props' = [f \in Fields |->
                         IF \A i \in field..Len(LoadLayout) : LoadLayout[i][1] # f THEN props[f]
                         ELSE IF f = "outputfile" THEN path ELSE Astray]
      PROVE  FileInv'
  <2>1. Len(LoadLayout) = FieldCount /\ LoadLayout = DumpLayout
    BY Layouts
  <2>2. ASSUME NEW j \in 1..FieldCount, j <= k PROVE props'[Name(j)] = props[Name(j)]
    <3>1. \A i \in field..FieldCount : i \in 1..FieldCount /\ i # j
      BY <1>2, <1>4, <2>2, CountIsNat
    <3>2. \A i \in field..Len(LoadLayout) : LoadLayout[i][1] # Name(j)
      BY <2>1, <3>1, NamesDiffer DEF Name
    <3>3. Name(j) \in Fields
      BY Layouts
    <3> QED BY <1>7, <3>2, <3>3
  <2>3. LostAt(k)'
    BY <1>5, <2>2
  <2>4. props' \in [Fields -> Seq(Octets)]
    <3>1. Astray \in Seq(Octets)
      <4>1. [astray |-> TRUE] \in Octets
        BY DEF Octets
      <4> QED BY <4>1 DEF Astray
    <3>2. "outputfile" \in Fields
      <4>1. 10 \in 1..FieldCount /\ Name(10) = "outputfile"
        BY CountIsNat DEF Name, DumpLayout
      <4> QED BY <4>1, Layouts
    <3>3. path \in Seq(Octets)
      BY <1>4, <3>1, <3>2, FieldsAreOctets
    <3> QED BY <1>4, <1>7, <3>1, <3>3
  <2> QED BY <1>1, <1>7, <2>3, <2>4 DEF FileInv, FileTypes, Dumping, LoadingOn, Lost, Loaded
<1> QED BY <1>6, <1>7 DEF LoadAstray

(* The last field has been read. *)
LEMMA LoadEndKeeps == ASSUME FileInv, LoadEnd PROVE FileInv'
<1>1. /\ phase = "load" /\ field = FieldCount + 1 /\ phase' = "loaded" /\ loadRet' = "OK"
      /\ UNCHANGED <<request, file, quota, pos, field, props, tails>>
  <2>1. Len(LoadLayout) = FieldCount
    BY Layouts
  <2>2. field \in 1..FieldCount + 1 /\ field > FieldCount
    BY <2>1 DEF LoadEnd, FileInv, FileTypes
  <2> QED BY <2>2, CountIsNat DEF LoadEnd
<1>2. UpTo(FieldCount + 1) /\ NamedBefore(FieldCount + 1)
  BY <1>1, CountIsNat DEF FileInv, LoadingOn
<1>3. \A j \in 1..FieldCount : Whole(j) /\ ~StopsEarly(j)
  BY <1>2, CountIsNat DEF UpTo, NamedBefore
<1>4. UpTo(FieldCount)
  <2>1. FieldCount \in 1..FieldCount /\ \A j \in 1..FieldCount : ~(FieldCount < j)
    BY CountIsNat
  <2>2. request[Name(FieldCount)] \in Seq(Octets)
    BY <2>1, Layouts, FieldsAreOctets DEF FileInv, FileTypes, Known
  <2>3. IsPrefix(props[Name(FieldCount)], request[Name(FieldCount)])
    BY <1>3, <2>1, <2>2, EndPrefixes DEF Whole
  <2> QED BY <1>3, <2>1, <2>3 DEF UpTo
<1>5. Loaded'
  <2>1. FieldCount \in 1..FieldCount
    BY CountIsNat
  <2> QED BY <1>1, <1>3, <1>4, <2>1 DEF Loaded, InStepToTheEnd, UpTo, Whole, StopsEarly
<1> QED BY <1>1, <1>5 DEF FileInv, FileTypes, Dumping, LoadingOn, Lost

(* It holds at the start. *)
LEMMA FileInvInit == Init => FileInv
BY DumpInit DEF Init, FileInv, LoadingOn, Lost, Loaded

(* Every step of the dump and of the load keeps it. *)
LEMMA FileInvStep == FileInv /\ [FileNext]_fileVars => FileInv'
<1> SUFFICES ASSUME FileInv, [FileNext]_fileVars PROVE FileInv'
  OBVIOUS
<1>1. CASE DumpField
  BY <1>1, DumpFieldKeeps DEF FileInv, DumpField, LoadingOn, Lost, Loaded
<1>2. CASE DumpEnd
  BY <1>2, DumpEndKeeps DEF FileInv
<1>3. CASE LoadCannotOpen
  BY <1>3, LoadCannotOpenKeeps
<1>4. CASE LoadFixed
  BY <1>4, LoadFixedKeeps
<1>5. CASE LoadText
  BY <1>5, LoadTextKeeps
<1>6. CASE LoadArray
  BY <1>6, LoadArrayKeeps
<1>7. CASE LoadList
  BY <1>7, LoadListKeeps
<1>8. CASE LoadEnd
  BY <1>8, LoadEndKeeps
<1>10. CASE LoadAstray
  BY <1>10, LoadAstrayKeeps
<1>9. CASE UNCHANGED fileVars
  <2>1. FileTypes' /\ Dumping'
    BY <1>9 DEF fileVars, FileInv, FileTypes, Dumping
  <2>2. LoadingOn'
    BY <1>9 DEF fileVars, FileInv, LoadingOn, Agrees, UpTo, Whole, NamedBefore, StopsEarly
  <2>3. \A k \in 1..FieldCount : LostAt(k) => LostAt(k)'
    BY <1>9 DEF fileVars, LostAt, Whole, StopsEarly, Taken
  <2>4. InStepToTheEnd => InStepToTheEnd'
    BY <1>9 DEF fileVars, InStepToTheEnd, UpTo, Whole, StopsEarly
  <2>5. Lost'
    <3>1. LostAt(field - 1) => LostAt(field - 1)'
      BY <1>9 DEF fileVars, LostAt, Whole, StopsEarly, Taken
    <3> QED BY <1>9, <2>3, <3>1 DEF fileVars, FileInv, Lost
  <2>6. Loaded'
    BY <1>9, <2>3, <2>4 DEF fileVars, FileInv, Loaded
  <2> QED BY <2>1, <2>2, <2>5, <2>6 DEF FileInv
<1> QED BY <1>1, <1>2, <1>3, <1>4, <1>5, <1>6, <1>7, <1>8, <1>9, <1>10 DEF FileNext

(* The fields that are read before the load goes astray. *)
LEMMA InStepUpTo ==
  ASSUME NEW k \in 1..FieldCount, LostAt(k), NEW j \in InStep
  PROVE  j \in 1..FieldCount /\ (j < k \/ j = k)
<1>1. j \in 1..FieldCount /\ (k < j => ~StopsEarly(k))
  BY Layouts DEF InStep
<1> QED BY <1>1, CountIsNat DEF LostAt

(* What is taken of a field is a beginning of it. *)
LEMMA TakenIsABeginning ==
  ASSUME request \in Known, NEW k \in 1..FieldCount, StopsEarly(k)
  PROVE  IsPrefix(Taken(k), request[Name(k)])
<1>1. Kind(k) = "list"
  BY DEF StopsEarly, Kind
<1>2. request[Name(k)] \in Seq(Octets)
  BY Layouts, FieldsAreOctets
<1> QED BY <1>1, <1>2, TakenIs, PrefixElements

(* What is loaded in step is a beginning of what was dumped. *)
LEMMA FileInvLoadsABeginning == FileInv => LoadsABeginning
<1> SUFFICES ASSUME FileInv, phase # "dump"
             PROVE  /\ \A k \in InStep : IsPrefix(props[Name(k)], request[Name(k)])
                    /\ \A j, k \in InStep : j < k /\ props[Name(k)] # <<>> => Whole(j)
  BY DEF LoadsABeginning, Name, Whole
<1>1. request \in Known /\ phase \in {"load", "astray", "loaded", "killed"}
  BY DEF FileInv, FileTypes, Known
<1>2. (\E m \in 1..FieldCount + 1 : UpTo(m)) \/ \E k \in 1..FieldCount : LostAt(k)
  <2>1. CASE phase = "load"
    <3>1. UpTo(field) \/ (field - 1 \in 1..FieldCount + 1 /\ UpTo(field - 1))
      BY <2>1, CountIsNat DEF FileInv, LoadingOn
    <3> QED BY <3>1 DEF FileInv, FileTypes
  <2>2. CASE phase = "loaded"
    BY <2>2, CountIsNat DEF FileInv, Loaded, InStepToTheEnd
  <2>3. CASE phase \in {"astray", "killed"}
    BY <2>3 DEF FileInv, Lost
  <2> QED BY <1>1, <2>1, <2>2, <2>3
<1>3. \A k \in 1..FieldCount : request[Name(k)] \in Seq(Octets)
  BY <1>1, Layouts, FieldsAreOctets
<1>4. \A k \in InStep : k \in 1..FieldCount
  BY Layouts DEF InStep
<1>5. ASSUME NEW m \in 1..FieldCount + 1, UpTo(m)
      PROVE  /\ \A k \in InStep : IsPrefix(props[Name(k)], request[Name(k)])
             /\ \A j, k \in InStep : j < k /\ props[Name(k)] # <<>> => Whole(j)
  <2>1. ASSUME NEW k \in 1..FieldCount PROVE IsPrefix(props[Name(k)], request[Name(k)])
    <3>1. CASE k < m
      BY <3>1, <1>3, <1>5, EndPrefixes DEF UpTo, Whole
    <3>2. CASE k = m
      BY <3>2, <1>5 DEF UpTo
    <3>3. CASE m < k
      BY <3>3, <1>3, <1>5, EndPrefixes DEF UpTo
    <3> QED BY <3>1, <3>2, <3>3, CountIsNat
  <2>2. ASSUME NEW j \in 1..FieldCount, NEW k \in 1..FieldCount, j < k, props[Name(k)] # <<>>
        PROVE  Whole(j)
    <3>1. ~(m < k)
      BY <1>5, <2>2 DEF UpTo
    <3>2. j < m
      BY <2>2, <3>1, CountIsNat
    <3> QED BY <1>5, <3>2 DEF UpTo
  <2> QED BY <1>4, <2>1, <2>2
<1>6. ASSUME NEW m \in 1..FieldCount, LostAt(m)
      PROVE  /\ \A k \in InStep : IsPrefix(props[Name(k)], request[Name(k)])
             /\ \A j, k \in InStep : j < k /\ props[Name(k)] # <<>> => Whole(j)
  <2>1. ASSUME NEW k \in InStep PROVE IsPrefix(props[Name(k)], request[Name(k)])
    <3>1. k \in 1..FieldCount /\ (k < m \/ k = m)
      BY <1>6, InStepUpTo
    <3>2. CASE k < m
      BY <3>1, <3>2, <1>3, <1>6, EndPrefixes DEF LostAt, Whole
    <3>3. CASE k = m
      BY <3>3, <1>1, <1>6, TakenIsABeginning DEF LostAt
    <3> QED BY <3>1, <3>2, <3>3
  <2>2. ASSUME NEW j \in InStep, NEW k \in InStep, j < k PROVE Whole(j)
    <3>1. j \in 1..FieldCount /\ k \in 1..FieldCount /\ (k < m \/ k = m)
      BY <1>4, <1>6, InStepUpTo
    <3>2. j < m
      BY <2>2, <3>1, CountIsNat
    <3> QED BY <1>6, <3>1, <3>2 DEF LostAt
  <2> QED BY <2>1, <2>2
<1> QED BY <1>2, <1>5, <1>6

(* The return value of the load tells how much was loaded. *)
LEMMA FileInvLoadTellsTruth == FileInv => LoadTellsTruth
<1> SUFFICES ASSUME FileInv PROVE LoadTellsTruth
  OBVIOUS
<1>1. request \in Known /\ phase \in {"dump", "load", "astray", "loaded", "killed"}
  BY DEF FileInv, FileTypes, Known
<1>2. phase # "loaded" => loadRet = "none"
  BY <1>1 DEF FileInv, Dumping, LoadingOn, Lost
<1>3. Len(DumpLayout) = FieldCount
  BY Layouts
<1>4. ASSUME loadRet = "OK", NEW j \in InStep PROVE props[Name(j)] = Taken(j)
  <2>1. j \in 1..FieldCount
    BY <1>3 DEF InStep
  <2>2. ~StopsEarly(j) => Taken(j) = request[Name(j)]
    BY DEF Taken, Name
  <2>3. CASE InStepToTheEnd
    BY <1>4, <2>1, <2>2, <2>3 DEF InStepToTheEnd, Whole
  <2>4. ASSUME NEW k \in 1..FieldCount, LostAt(k) PROVE props[Name(j)] = Taken(j)
    <3>1. j < k \/ j = k
      BY <2>4, InStepUpTo
    <3> QED BY <2>1, <2>2, <2>4, <3>1 DEF LostAt, Whole
  <2> QED BY <1>2, <1>4, <2>3, <2>4 DEF FileInv, Loaded
<1>5. ASSUME loadRet = "FILE_ERR", IsDumped, \A k \in 1..Len(DumpLayout) : ~StopsEarly(k)
      PROVE  field = 1
  <2>1. ~ \E k \in 1..FieldCount : LostAt(k)
    BY <1>3, <1>5 DEF LostAt
  <2>2. field = 1 \/ Len(file) < Len(Dumped(request))
    BY <1>2, <1>5, <2>1 DEF FileInv, Loaded, InStepToTheEnd
  <2>3. Len(Dumped(request)) <= Len(file)
    BY <1>5 DEF IsDumped, IsPrefix
  <2>4. Len(Dumped(request)) \in Nat /\ Len(file) \in Nat
    BY <1>1, Starts, LenProperties DEF FileInv, FileTypes, IsStart
  <2> QED BY <2>2, <2>3, <2>4
<1> QED BY <1>4, <1>5 DEF LoadTellsTruth, Name

-----------------------------------------------------------------------------
(* What an output file is made of. *)
Marks == (UNION {Range(o) : o \in Outputs}) \cup {"answer", "error"}

(* A sequence of one element. *)
LEMMA OneMark ==
  ASSUME NEW S, NEW e \in S
  PROVE  <<e>> \in Seq(S) /\ Len(<<e>>) = 1 /\ <<e>>[1] = e
OBVIOUS

(* What this call writes. *)
LEMMA MarksAreWritten == "error" \in Marks /\ "answer" \in Marks
BY DEF Marks

(* What earlier calls have written. *)
LEMMA OutputsAreMarks == \A o \in Outputs : o \in Seq(Marks)
<1> TAKE o \in Outputs
<1>1. o \in Seq(Range(o)) /\ Range(o) \subseteq Marks
  BY OutputsAssumption DEF Marks
<1> QED BY <1>1, SeqMonotonic

Calls == {"logging", "library", "functions", "initialize", "parms", "logon", "callnat",
          "uninitialize", "free", "cleanup", "exited"}

(* Everything that is called before the program has answered. *)
BeforeAnswer == {"logging", "library", "functions", "initialize", "parms", "logon", "callnat"}

CallTypes == step \in Calls /\ output \in Seq(Marks) /\ failed \subseteq Calls

(* As long as the program may still write its answer nothing has failed. *)
Progress ==
  /\ step # "logging" => phase = "loaded"
  /\ exit = "OK" <=> failed = {}
  /\ step \in BeforeAnswer => failed = {}
  /\ exit = "killed" => step = "exited"

Told ==
  /\ exit # "killed" /\ Reaches /\ failed \cap IsTold # {} => output = <<"error">>
  /\ output = <<"error">> => exit # "OK"

(* An open session is on its way to the closing, or one of three has failed. *)
Closes == {"parms", "logon", "uninitialize"}
SessionKept ==
  session => \/ step \in {"parms", "logon", "callnat", "uninitialize"}
             \/ step \in {"cleanup", "exited"} /\ failed \cap Closes # {}

CallInv == CallTypes /\ Progress /\ Told /\ SessionKept

(* An answer is never taken for an error. *)
LEMMA AnsweredIsNoError ==
  ASSUME output \in Seq(Marks), output # <<"error">>
  PROVE  Answered \in Seq(Marks) /\ Answered # <<"error">>
<1> DEFINE rest == SubSeq(output, 2, Len(output))
<1>1. Answered = output \/ Answered = <<"answer">> \o rest
  BY DEF Answered
<1>2. <<"answer">> \in Seq(Marks) /\ Len(<<"answer">>) = 1 /\ rest \in Seq(Marks)
  <2>1. <<"answer">> \in Seq(Marks) /\ Len(<<"answer">>) = 1
    BY OneMark, MarksAreWritten
  <2>2. Len(output) \in Nat /\ \A i \in 2..Len(output) : output[i] \in Marks
    OBVIOUS
  <2>3. rest \in Seq(Marks)
    BY <2>2, SubSeqProperties
  <2> QED BY <2>1, <2>3
<1> HIDE DEF rest
<1>3. /\ <<"answer">> \o rest \in Seq(Marks)
      /\ Len(<<"answer">> \o rest) = 1 + Len(rest) /\ Len(rest) \in Nat
      /\ \A i \in 1..1 + Len(rest) : (<<"answer">> \o rest)[i] =
            IF i <= 1 THEN <<"answer">>[i] ELSE rest[i - 1]
  BY <1>2, ConcatProperties, LenProperties
<1>4. (<<"answer">> \o rest)[1] = "answer" /\ <<"error">>[1] = "error"
  BY <1>3
<1> QED BY <1>1, <1>2, <1>3, <1>4

(* It holds before the first call. *)
LEMMA CallInvInit == CallInit => CallInv
<1> SUFFICES ASSUME CallInit PROVE CallInv
  OBVIOUS
<1> QED BY OutputsAssumption, OutputsAreMarks DEF CallInit, CallInv, CallTypes, Progress, Told, SessionKept,
                                 Calls, BeforeAnswer

(* Leaving after a failure, with or without telling it. *)
LEMMA FailureKeeps ==
  ASSUME CallInv, step \in Calls, failed = {} \/ step \notin IsTold,
         failed' = failed \cup {step}, exit' \in {"INTERNAL_ERR", "killed"},
         UNCHANGED <<fileVars, writable>>,
         \/ WriteError
         \/ UNCHANGED output /\ (step \in IsTold => exit' = "killed") /\ (exit' = "killed" \/ exit # "killed")
  PROVE  output' \in Seq(Marks) /\ failed' \subseteq Calls /\ failed' # {} /\ Told'
<1>1. output' \in Seq(Marks)
  <2>1. <<"error">> \in Seq(Marks)
    BY OneMark, MarksAreWritten
  <2> QED BY <2>1 DEF CallInv, CallTypes, WriteError
<1>2. failed' \subseteq Calls /\ failed' # {}
  BY DEF CallInv, CallTypes
<1>3. Reaches' = Reaches
  BY DEF fileVars, Reaches, HasPath
<1>4. Told'
  <2>1. exit' # "OK"
    OBVIOUS
  <2>2. ASSUME exit' # "killed", Reaches', failed' \cap IsTold # {} PROVE output' = <<"error">>
    <3>1. CASE WriteError
      BY <2>2, <3>1, <1>3 DEF WriteError
    <3>2. CASE ~WriteError
      <4>1. failed \cap IsTold # {} /\ exit # "killed" /\ UNCHANGED output
        BY <2>2, <3>2
      <4> QED BY <4>1, <2>2, <1>3 DEF CallInv, Told
    <3> QED BY <3>1, <3>2
  <2> QED BY <2>1, <2>2 DEF Told
<1> QED BY <1>1, <1>2, <1>4

(* Every call of main and callNatural keeps it. *)
LEMMA CallInvStep == CallInv /\ [Next]_vars => CallInv'
<1> SUFFICES ASSUME CallInv, [Next]_vars PROVE CallInv'
  OBVIOUS
<1> USE DEF CallInv, Calls, BeforeAnswer
<1>1. CASE Transfer
  BY <1>1 DEF Transfer, callVars, IsTold, CallTypes, Progress, Told, SessionKept
<1>2. ASSUME UNCHANGED <<fileVars, writable>> PROVE Reaches' = Reaches /\ phase' = phase
  BY <1>2 DEF fileVars, Reaches, HasPath
<1>3. CASE Logging
  BY <1>2, <1>3 DEF Logging, At, Succeeds, After, IsTold, fileVars, CallTypes, Progress, Told, SessionKept
<1>4. CASE Library
  <2>1. /\ At("library") \/ At("functions")
        /\ UNCHANGED <<fileVars, session, called, writable>>
        /\ \/ Succeeds /\ UNCHANGED output
           \/ Fails /\ WriteError
    BY <1>4 DEF Library
  <2>2. phase = "loaded" /\ step \in {"library", "functions"} /\ failed = {}
    BY <2>1 DEF At, Progress
  <2>3. CASE Succeeds /\ UNCHANGED output
    BY <1>2, <2>1, <2>2, <2>3 DEF Succeeds, After, CallTypes, Progress, Told, SessionKept, fileVars
  <2>4. CASE Fails /\ WriteError
    <3>1. output' \in Seq(Marks) /\ failed' \subseteq Calls /\ failed' # {} /\ Told'
      BY <2>1, <2>2, <2>4, FailureKeeps DEF Fails
    <3> QED BY <3>1, <1>2, <2>1, <2>2, <2>4 DEF Fails, CallTypes, Progress, SessionKept
  <2> QED BY <2>1, <2>3, <2>4
<1>5. CASE Initialize
  <2>1. /\ At("initialize")
        /\ UNCHANGED <<fileVars, called, writable>>
        /\ \/ Succeeds /\ session' = TRUE /\ UNCHANGED output
           \/ Fails /\ WriteError /\ UNCHANGED session
    BY <1>5 DEF Initialize
  <2>2. phase = "loaded" /\ step = "initialize" /\ failed = {}
    BY <2>1 DEF At, Progress
  <2>3. CASE Succeeds /\ session' = TRUE /\ UNCHANGED output
    BY <1>2, <2>1, <2>2, <2>3 DEF Succeeds, After, CallTypes, Progress, Told, SessionKept
  <2>4. CASE Fails /\ WriteError /\ UNCHANGED session
    <3>1. output' \in Seq(Marks) /\ failed' \subseteq Calls /\ failed' # {} /\ Told'
      BY <2>1, <2>2, <2>4, FailureKeeps DEF Fails
    <3> QED BY <3>1, <1>2, <2>1, <2>2, <2>4 DEF Fails, CallTypes, Progress, SessionKept
  <2> QED BY <2>1, <2>3, <2>4
<1>6. CASE Parms
  <2>1. At("parms") /\ (Succeeds \/ Fails) /\ UNCHANGED <<fileVars, session, called, output, writable>>
    BY <1>6 DEF Parms
  <2>2. phase = "loaded" /\ step = "parms" /\ failed = {} /\ exit = "OK"
    BY <2>1 DEF At, Progress
  <2>3. CASE Succeeds
    BY <1>2, <2>1, <2>2, <2>3 DEF Succeeds, After, CallTypes, Progress, Told, SessionKept
  <2>4. CASE Fails
    <3>1. output' \in Seq(Marks) /\ failed' \subseteq Calls /\ failed' # {} /\ Told'
      BY <2>1, <2>2, <2>4, FailureKeeps DEF Fails, IsTold
    <3> QED BY <3>1, <1>2, <2>1, <2>2, <2>4 DEF Fails, CallTypes, Progress, SessionKept, Closes
  <2> QED BY <2>1, <2>3, <2>4
<1>7. CASE Logon
  <2>1. /\ At("logon")
        /\ UNCHANGED <<fileVars, session, called, writable>>
        /\ \/ Succeeds /\ UNCHANGED output
           \/ Fails /\ WriteError
           \/ /\ step' = "exited" /\ failed' = failed \cup {"logon"} /\ exit' = "killed"
              /\ UNCHANGED output
    BY <1>7 DEF Logon
  <2>2. phase = "loaded" /\ step = "logon" /\ failed = {}
    BY <2>1 DEF At, Progress
  <2>3. CASE Succeeds /\ UNCHANGED output
    BY <1>2, <2>1, <2>2, <2>3 DEF Succeeds, After, CallTypes, Progress, Told, SessionKept
  <2>4. CASE Fails /\ WriteError
    <3>1. output' \in Seq(Marks) /\ failed' \subseteq Calls /\ failed' # {} /\ Told'
      BY <2>1, <2>2, <2>4, FailureKeeps DEF Fails
    <3> QED BY <3>1, <1>2, <2>1, <2>2, <2>4 DEF Fails, CallTypes, Progress, SessionKept, Closes
  <2>5. CASE /\ step' = "exited" /\ failed' = failed \cup {"logon"} /\ exit' = "killed"
             /\ UNCHANGED output
    <3>1. output' \in Seq(Marks) /\ failed' \subseteq Calls /\ failed' # {} /\ Told'
      BY <2>1, <2>2, <2>5, FailureKeeps
    <3> QED BY <3>1, <1>2, <2>1, <2>2, <2>5 DEF CallTypes, Progress, SessionKept, Closes
  <2> QED BY <2>1, <2>3, <2>4, <2>5
<1>8. CASE CallNat
  <2>1. /\ At("callnat") /\ step' = After[step]
        /\ UNCHANGED <<fileVars, session, writable>>
        /\ \/ UNCHANGED <<failed, exit>> /\ output' \in {output, Answered}
           \/ failed' = failed \cup {step} /\ exit' = "INTERNAL_ERR" /\ WriteError
    BY <1>8 DEF CallNat
  <2>2. phase = "loaded" /\ step = "callnat" /\ failed = {} /\ step' = "uninitialize"
    BY <2>1 DEF At, Progress, After
  <2>3. CASE UNCHANGED <<failed, exit>> /\ output' \in {output, Answered}
    <3>1. output' \in Seq(Marks) /\ output' # <<"error">>
      BY <2>2, <2>3, AnsweredIsNoError DEF CallTypes, Progress, Told
    <3> QED BY <3>1, <1>2, <2>1, <2>2, <2>3 DEF CallTypes, Progress, Told, SessionKept
  <2>4. CASE failed' = failed \cup {step} /\ exit' = "INTERNAL_ERR" /\ WriteError
    <3>1. output' \in Seq(Marks) /\ failed' \subseteq Calls /\ failed' # {} /\ Told'
      BY <2>1, <2>2, <2>4, FailureKeeps
    <3> QED BY <3>1, <1>2, <2>1, <2>2, <2>4 DEF CallTypes, Progress, SessionKept
  <2> QED BY <2>1, <2>3, <2>4
<1>9. CASE Close
  <2>1. /\ At("uninitialize") \/ At("free")
        /\ UNCHANGED <<fileVars, called, output, writable>>
        /\ \/ step' = After[step] /\ UNCHANGED <<failed, exit>>
              /\ session' = (session /\ step # "uninitialize")
           \/ Fails /\ UNCHANGED session
    BY <1>9 DEF Close
  <2>2. phase = "loaded" /\ step \in {"uninitialize", "free"}
    BY <2>1 DEF At, Progress
  <2>3. CASE step' = After[step] /\ UNCHANGED <<failed, exit>>
             /\ session' = (session /\ step # "uninitialize")
    <3>1. step' \in {"free", "cleanup"} /\ CallTypes' /\ Progress' /\ Told'
      BY <1>2, <2>1, <2>2, <2>3 DEF After, CallTypes, Progress, Told
    <3>2. SessionKept'
      BY <2>2, <2>3 DEF SessionKept
    <3> QED BY <3>1, <3>2
  <2>4. CASE Fails /\ UNCHANGED session
    <3>1. output' \in Seq(Marks) /\ failed' \subseteq Calls /\ failed' # {} /\ Told'
      BY <2>1, <2>2, <2>4, FailureKeeps DEF Fails, IsTold, Progress
    <3> QED BY <3>1, <1>2, <2>1, <2>2, <2>4 DEF Fails, CallTypes, Progress, SessionKept, Closes
  <2> QED BY <2>1, <2>3, <2>4
<1>10. CASE Cleanup
  <2>1. At("cleanup") /\ step' = "exited" /\ UNCHANGED <<fileVars, session, called, output, writable, failed, exit>>
    BY <1>10 DEF Cleanup
  <2> QED BY <2>1, <1>2 DEF At, CallTypes, Progress, Told, SessionKept
<1>11. CASE UNCHANGED vars
  BY <1>2, <1>11 DEF vars, callVars, fileVars, CallTypes, Progress, Told, SessionKept
<1> QED BY <1>1, <1>3, <1>4, <1>5, <1>6, <1>7, <1>8, <1>9, <1>10, <1>11 DEF Next

(* Both hold at every step of the two programs. *)
LEMMA Invariance == Spec => [](FileInv /\ CallInv)
<1>1. CallInit => FileInv /\ CallInv
  BY FileInvInit, CallInvInit DEF CallInit
<1>2. FileInv /\ CallInv /\ [Next]_vars => (FileInv /\ CallInv)'
  <2> SUFFICES ASSUME FileInv, CallInv, [Next]_vars PROVE FileInv' /\ CallInv'
    OBVIOUS
  <2>1. [FileNext]_fileVars
    BY DEF Next, vars, Transfer, Logging, Library, Initialize, Parms, Logon, CallNat, Close, Cleanup
  <2> QED BY <2>1, FileInvStep, CallInvStep
<1> QED BY <1>1, <1>2, PTL DEF Spec

(***************************************************************************)
(* rh4nUtilsLoadProperties after rh4nUtilsDumpProperties: every field that *)
(* natcaller has is the beginning of the field of this request, and        *)
(* nothing is behind a field that is not whole.  Whatever a longer, older  *)
(* file left behind the dump is never read.  This ends at the first list   *)
(* that has an entry without a name.                                       *)
(***************************************************************************)
THEOREM LoadsABeginningCorrect == Spec => []LoadsABeginning
BY Invariance, FileInvLoadsABeginning, PTL

(***************************************************************************)
(* The return value of rh4nUtilsLoadProperties: OK means that all fields   *)
(* are there as they were dumped, or all fields before a list that has an  *)
(* entry without a name and what comes before that entry.  If all entries  *)
(* have names, an error with a whole dump in the file can only be that the *)
(* file was not opened.                                                    *)
(***************************************************************************)
THEOREM LoadTellsTruthCorrect == Spec => []LoadTellsTruth
BY Invariance, FileInvLoadTellsTruth, PTL

(***************************************************************************)
(* callNatural leaves the Natural session open only when the parameters,   *)
(* the logon or the closing failed.                                        *)
(***************************************************************************)
THEOREM SessionIsClosedCorrect == Spec => []SessionIsClosed
<1>1. CallInv => SessionIsClosed
  BY DEF CallInv, SessionKept, Closes, SessionIsClosed
<1> QED BY Invariance, <1>1, PTL

(***************************************************************************)
(* What callNatural writes on an error stays the only thing in the output  *)
(* file, and the return value of natcaller agrees with the file.           *)
(***************************************************************************)
THEOREM ErrorIsToldCorrect == Spec => []ErrorIsTold
<1>1. CallInv => ErrorIsTold
  BY DEF CallInv, Told, Progress, ErrorIsTold
<1> QED BY Invariance, <1>1, PTL
=============================================================================
