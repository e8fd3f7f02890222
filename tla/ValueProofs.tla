----------------------------- MODULE ValueProofs ----------------------------
(***************************************************************************)
(* For every sequence of calls, every size of the values and all lengths:  *)
(* what was set last stays at its index and is what a read gives back      *)
(* (SetIsKeptCorrect), only an expand that fails leaves rows of different  *)
(* lengths (OnlyFailureIsRaggedCorrect), and an array is freed whole       *)
(* exactly if no expand failed half-way since the last one that succeeded  *)
(* (FreedWholeCorrect).                                                    *)
(*                                                                         *)
(* None of them is inductive.  That an expand overwrites no element takes  *)
(* that elements are at the last level only, and that they are there after *)
(* an expand that failed takes that it had passed only the first blocks of *)
(* the levels: so the inductive invariant (Whole) says of the blocks of    *)
(* every level that none is longer than the first one.                     *)
(***************************************************************************)
EXTENDS ValueCalls, FiniteSetTheorems, SequenceTheorems, TLAPS

-----------------------------------------------------------------------------
(***************************************************************************)
(* Paths and boxes.                                                        *)
(***************************************************************************)

(* The beginnings of a path. *)
LEMMA Beginnings ==
  ASSUME NEW S, NEW p \in Seq(S), NEW k \in 0..Len(p)
  PROVE  /\ SubSeq(p, 1, k) \in Seq(S)
         /\ Len(SubSeq(p, 1, k)) = k
         /\ \A i \in 1..k : SubSeq(p, 1, k)[i] = p[i]
         /\ \A j \in 0..k : SubSeq(SubSeq(p, 1, k), 1, j) = SubSeq(p, 1, j)
<1>1. /\ SubSeq(p, 1, k) \in Seq(S)
      /\ Len(SubSeq(p, 1, k)) = k
      /\ \A i \in 1..k : SubSeq(p, 1, k)[i] = p[i]
  OBVIOUS
<1>2. ASSUME NEW j \in 0..k PROVE SubSeq(SubSeq(p, 1, k), 1, j) = SubSeq(p, 1, j)
  <2> DEFINE q == SubSeq(p, 1, k)
  <2>1. q \in Seq(S) /\ Len(q) = k /\ \A i \in 1..k : q[i] = p[i]
    BY <1>1
  <2> HIDE DEF q
  <2>2. SubSeq(q, 1, j) = [i \in 1..j |-> q[i]] /\ SubSeq(p, 1, j) = [i \in 1..j |-> p[i]]
    BY <2>1
  <2>3. \A i \in 1..j : q[i] = p[i]
    BY <2>1
  <2> QED BY <2>2, <2>3 DEF q
<1> QED BY <1>1, <1>2

(* A path is its own last beginning, and two paths with the same indices are one. *)
LEMMA WholePath ==
  ASSUME NEW S, NEW p \in Seq(S)
  PROVE  SubSeq(p, 1, Len(p)) = p
OBVIOUS

(* Two paths with the same indices are one. *)
LEMMA SamePath ==
  ASSUME NEW S, NEW p \in Seq(S), NEW q \in Seq(S), Len(p) = Len(q),
         \A i \in 1..Len(p) : p[i] = q[i]
  PROVE  p = q
OBVIOUS

(* What is in a box. *)
LEMMA InBox ==
  ASSUME NEW d \in 0..3, NEW len \in [1..3 -> Int]
  PROVE  \A p : p \in Box(d, len) <=>
                  /\ p \in Seq(Nat) /\ Len(p) <= d
                  /\ \A i \in 1..Len(p) : p[i] < len[i]
<1> DEFINE U == UNION {0..len[i] - 1 : i \in 1..d}
<1>1. U \subseteq Nat
  OBVIOUS
<1>2. ASSUME NEW p, p \in Box(d, len)
      PROVE  /\ p \in Seq(Nat) /\ Len(p) <= d
             /\ \A i \in 1..Len(p) : p[i] < len[i]
  <2>1. PICK k \in 0..d : p \in [1..k -> U] /\ \A i \in 1..k : p[i] < len[i]
    BY <1>2 DEF Box
  <2>2. k \in Nat /\ p \in [1..k -> Nat]
    BY <1>1, <2>1
  <2>3. p \in Seq(Nat) /\ Len(p) = k
    BY <2>2
  <2> QED BY <2>1, <2>3
<1>3. ASSUME NEW p \in Seq(Nat), Len(p) <= d, \A i \in 1..Len(p) : p[i] < len[i]
      PROVE  p \in Box(d, len)
  <2>1. Len(p) \in 0..d /\ p \in [1..Len(p) -> Nat]
    BY <1>3
  <2>2. \A i \in 1..Len(p) : p[i] \in 0..len[i] - 1
    BY <2>1, <1>3
  <2>3. \A i \in 1..Len(p) : p[i] \in U
    BY <2>1, <2>2
  <2>4. p \in [1..Len(p) -> U]
    BY <2>1, <2>3
  <2> HIDE DEF U
  <2>5. p \in {q \in [1..Len(p) -> U] : \A i \in 1..Len(p) : q[i] < len[i]}
    BY <2>4, <1>3
  <2> QED BY <2>1, <2>5 DEF Box, U
<1> QED BY <1>2, <1>3

-----------------------------------------------------------------------------
(***************************************************************************)
(* Arrays.                                                                 *)
(***************************************************************************)

(* The first block of a level: the path with k indices that are all 0. *)
First(k) == [i \in 1..k |-> 0]

IsCell(c) == c = [type |-> c.type, length |-> c.length, val |-> c.val] /\ c.length \in Int

(* o is an array of d dimensions. *)
Whole(o, d) ==
  /\ DOMAIN o \subseteq Seq(Nat) /\ \A p \in DOMAIN o : Len(p) <= d
  /\ \A p \in DOMAIN o : Len(p) < d => o[p].length \in Int /\ o[p] = Block(o[p].length)
  /\ \A p \in DOMAIN o : Len(p) = d => IsCell(o[p]) /\ o[p].type # "ARRAY"
  /\ \A p \in DOMAIN o : \A k \in 1..Len(p) :
       SubSeq(p, 1, k - 1) \in DOMAIN o /\ p[k] < o[SubSeq(p, 1, k - 1)].length
  /\ \A k \in 0..d - 1 :
       First(k) \in DOMAIN o /\ o[First(k)].length >= (IF k = d - 1 THEN 0 ELSE 1)
  /\ \A p \in DOMAIN o : Len(p) < d => o[p].length <= o[First(Len(p))].length

(* The first blocks, as the code finds them. *)
LEMMA Firsts ==
  /\ First(0) = Top /\ First(1) = <<0>> /\ First(2) = <<0, 0>>
  /\ \A k \in Nat : /\ First(k) \in Seq(Nat) /\ Len(First(k)) = k
                    /\ \A i \in 1..k : First(k)[i] = 0
                    /\ \A j \in 0..k : SubSeq(First(k), 1, j) = First(j)
<1>1. First(0) = Top /\ First(1) = <<0>> /\ First(2) = <<0, 0>>
  BY DEF First, Top
<1>2. ASSUME NEW k \in Nat
      PROVE  /\ First(k) \in Seq(Nat) /\ Len(First(k)) = k
             /\ \A i \in 1..k : First(k)[i] = 0
  BY DEF First
<1>3. ASSUME NEW k \in Nat, NEW j \in 0..k PROVE SubSeq(First(k), 1, j) = First(j)
  <2>1. /\ SubSeq(First(k), 1, j) \in Seq(Nat) /\ Len(SubSeq(First(k), 1, j)) = j
        /\ \A i \in 1..j : SubSeq(First(k), 1, j)[i] = First(k)[i]
    <3>1. PICK q : q = First(k)
      OBVIOUS
    <3>2. q \in Seq(Nat) /\ Len(q) = k
      BY <1>2, <3>1
    <3>3. /\ SubSeq(q, 1, j) \in Seq(Nat) /\ Len(SubSeq(q, 1, j)) = j
          /\ \A i \in 1..j : SubSeq(q, 1, j)[i] = q[i]
      BY <3>2, Beginnings
    <3> QED BY <3>1, <3>3
  <2>2. \A i \in 1..j : SubSeq(First(k), 1, j)[i] = 0
    BY <1>2, <2>1
  <2>3. First(j) \in Seq(Nat) /\ Len(First(j)) = j /\ \A i \in 1..j : First(j)[i] = 0
    BY <1>2
  <2> QED BY <2>1, <2>2, <2>3, SamePath
<1> QED BY <1>1, <1>2, <1>3

(* The dimension and the lengths of an array are those of its first blocks. *)
LEMMA Measures ==
  ASSUME NEW o, NEW d \in 1..3, Whole(o, d)
  PROVE  /\ GetArrayLength(o) \in [1..3 -> Int]
         /\ \A i \in 1..d : GetArrayLength(o)[i] = o[First(i - 1)].length
         /\ GetArrayDimension(o) = d
         /\ Top \in DOMAIN o /\ o[Top].type = "ARRAY"
<1> DEFINE IsRow(p) == p \in DOMAIN o /\ o[p].type = "ARRAY"
           L == GetArrayLength(o)
<1>1. \A k \in 0..d - 1 : /\ First(k) \in DOMAIN o
                          /\ o[First(k)].length >= 0
                          /\ o[First(k)].length \in Int
                          /\ o[First(k)].type = "ARRAY"
  <2> TAKE k \in 0..d - 1
  <2>1. First(k) \in DOMAIN o /\ Len(First(k)) = k
    BY Firsts DEF Whole
  <2>2. o[First(k)].length \in Int /\ o[First(k)] = Block(o[First(k)].length)
    BY <2>1 DEF Whole
  <2>3. o[First(k)].type = "ARRAY"
    BY <2>2 DEF Block
  <2>4. o[First(k)].length >= (IF k = d - 1 THEN 0 ELSE 1)
    BY DEF Whole
  <2> QED BY <2>1, <2>2, <2>3, <2>4
<1>2. \A k \in 0..3 : d <= k => ~IsRow(First(k))
  <2> SUFFICES ASSUME NEW k \in 0..3, d <= k, IsRow(First(k)) PROVE FALSE
    OBVIOUS
  <2>1. First(k) \in DOMAIN o /\ Len(First(k)) = k
    BY Firsts
  <2>2. k = d
    BY <2>1 DEF Whole
  <2>3. o[First(k)].type # "ARRAY"
    BY <2>1, <2>2 DEF Whole
  <2> QED BY <2>3
<1>3. /\ L = <<L[1], L[2], L[3]>>
      /\ L[1] = o[First(0)].length
      /\ L[2] = IF IsRow(First(1)) THEN o[First(1)].length ELSE -1
      /\ L[3] = IF IsRow(First(1)) /\ IsRow(First(2)) THEN o[First(2)].length ELSE -1
  <2>1. First(0) = Top /\ First(1) = <<0>> /\ First(2) = <<0, 0>>
    BY Firsts
  <2> QED BY <2>1 DEF GetArrayLength
<1>4. \A i \in 1..d : L[i] = o[First(i - 1)].length /\ L[i] \in Int /\ L[i] # -1
  <2> HIDE DEF L
  <2>1. L[1] = o[First(0)].length /\ L[1] \in Int /\ L[1] # -1
    BY <1>1, <1>3
  <2>2. d >= 2 => L[2] = o[First(1)].length /\ L[2] \in Int /\ L[2] # -1
    BY <1>1, <1>3
  <2>3. d = 3 => L[3] = o[First(2)].length /\ L[3] \in Int /\ L[3] # -1
    BY <1>1, <1>3
  <2> QED BY <2>1, <2>2, <2>3
<1>5. \A i \in 1..3 : d < i => L[i] = -1
  <2> HIDE DEF L
  <2>1. d = 1 => L[2] = -1 /\ L[3] = -1
    BY <1>2, <1>3
  <2>2. d = 2 => L[3] = -1
    BY <1>2, <1>3
  <2> QED BY <2>1, <2>2
<1>6. \A i \in 1..3 : L[i] \in Int
  <2> HIDE DEF L
  <2> QED BY <1>4, <1>5
<1>7. L \in [1..3 -> Int]
  <2> HIDE DEF L
  <2>1. <<L[1], L[2], L[3]>> \in [1..3 -> Int]
    BY <1>6
  <2> QED BY <1>3, <2>1
<1>8. {i \in 1..3 : \A j \in 1..i : L[j] # -1} = 1..d
  <2> HIDE DEF L
  <2>1. ASSUME NEW i \in 1..d PROVE \A j \in 1..i : L[j] # -1
    BY <1>4
  <2>2. ASSUME NEW i \in 1..3, \A j \in 1..i : L[j] # -1 PROVE i \in 1..d
    BY <1>5, <2>2
  <2> QED BY <2>1, <2>2
<1>9. GetArrayDimension(o) = d
  <2>1. Cardinality(1..d) = d
    <3>1. d \in Int /\ 1 \in Int
      OBVIOUS
    <3>2. Cardinality(1..d) = IF 1 > d THEN 0 ELSE d - 1 + 1
      BY <3>1, FS_Interval
    <3> QED BY <3>2
  <2> QED BY <1>8, <2>1 DEF GetArrayDimension
<1>10. Top \in DOMAIN o /\ o[Top].type = "ARRAY"
  BY <1>1, Firsts
<1> QED BY <1>4, <1>7, <1>9, <1>10

(* A box is told by the lengths of its dimensions. *)
LEMMA SameBox ==
  ASSUME NEW d \in 0..3, NEW len \in [1..3 -> Int], NEW m \in [1..3 -> Int],
         \A i \in 1..d : len[i] = m[i]
  PROVE  Box(d, len) = Box(d, m)
<1>1. \A p : p \in Box(d, len) <=> p \in Box(d, m)
  <2> TAKE p
  <2>1. ASSUME p \in Seq(Nat), Len(p) <= d
        PROVE  (\A i \in 1..Len(p) : p[i] < len[i]) <=> (\A i \in 1..Len(p) : p[i] < m[i])
    <3>1. \A i \in 1..Len(p) : len[i] = m[i]
      BY <2>1
    <3> QED BY <3>1
  <2> QED BY <2>1, InBox
<1>2. \A p \in Box(d, len) : p \in Box(d, m)
  BY <1>1
<1>3. \A p \in Box(d, m) : p \in Box(d, len)
  BY <1>1
<1> QED BY <1>2, <1>3

(* Every beginning of a path of an array leads to a cell of it. *)
LEMMA NothingMissed ==
  ASSUME NEW o, NEW d \in 1..3, Whole(o, d), NEW p \in DOMAIN o
  PROVE  GetArrayEntry(o, p) = "OK"
<1>1. p \in Seq(Nat) /\ Len(p) \in Nat
  BY DEF Whole
<1>2. ASSUME NEW k \in 1..Len(p) PROVE SubSeq(p, 1, k) \in DOMAIN o
  <2>1. CASE k = Len(p)
    BY <1>1, <2>1, WholePath
  <2>2. CASE k < Len(p)
    <3>1. k + 1 \in 1..Len(p) /\ (k + 1) - 1 = k
      BY <1>1, <2>2
    <3> QED BY <3>1 DEF Whole
  <2> QED BY <1>1, <2>1, <2>2
<1>3. Misses(o, p) = {}
  BY <1>2 DEF Misses
<1> QED BY <1>3, Measures DEF GetArrayEntry

(* Of two different paths of one length not both are before the other. *)
LEMMA OnlyOneIsBefore ==
  ASSUME NEW p \in Seq(Nat), NEW q \in Seq(Nat), Len(p) = Len(q),
         Before(p, q), Before(q, p)
  PROVE  FALSE
<1>1. ASSUME NEW r \in Seq(Nat), NEW s \in Seq(Nat), Len(r) = Len(s)
      PROVE  ~IsStrictPrefix(r, s)
  <2>1. SubSeq(r, 1, Len(r)) = r /\ SubSeq(s, 1, Len(r)) = s
    BY <1>1, WholePath
  <2> QED BY <2>1 DEF IsStrictPrefix, IsPrefix
<1>2. PICK i \in DOMAIN p \cap DOMAIN q : p[i] < q[i] /\ SubSeq(p, 1, i - 1) = SubSeq(q, 1, i - 1)
  BY <1>1 DEF Before
<1>3. PICK j \in DOMAIN q \cap DOMAIN p : q[j] < p[j] /\ SubSeq(q, 1, j - 1) = SubSeq(p, 1, j - 1)
  BY <1>1 DEF Before
<1>4. i \in 1..Len(p) /\ j \in 1..Len(p) /\ \A m \in 1..Len(p) : p[m] \in Nat /\ q[m] \in Nat
  <2>1. DOMAIN p = 1..Len(p) /\ DOMAIN q = 1..Len(p)
    OBVIOUS
  <2>2. \A m \in 1..Len(p) : p[m] \in Nat /\ q[m] \in Nat
    BY ElementOfSeq
  <2> QED BY <2>1, <2>2
<1>5. ASSUME NEW m \in 1..Len(p), NEW n \in 1..Len(p), n < m,
             SubSeq(p, 1, m - 1) = SubSeq(q, 1, m - 1)
      PROVE  p[n] = q[n]
  <2>1. m - 1 \in 0..Len(p) /\ n \in 1..(m - 1)
    BY <1>5
  <2>2. SubSeq(p, 1, m - 1)[n] = p[n] /\ SubSeq(q, 1, m - 1)[n] = q[n]
    BY <2>1, Beginnings
  <2> QED BY <1>5, <2>2
<1>6. CASE i = j
  BY <1>2, <1>3, <1>4, <1>6
<1>7. CASE i < j
  <2>1. p[i] = q[i]
    BY <1>3, <1>4, <1>5, <1>7
  <2> QED BY <1>2, <1>4, <2>1
<1>8. CASE j < i
  <2>1. p[j] = q[j]
    BY <1>2, <1>4, <1>5, <1>8
  <2> QED BY <1>3, <1>4, <2>1
<1> QED BY <1>4, <1>6, <1>7, <1>8

(* Freed whole are the rectangular arrays. *)
LEMMA RectangularIsFreed ==
  ASSUME NEW o, NEW d \in 1..3, Whole(o, d)
  PROVE  FreesAll(o) <=> IsRectangular(o)
<1> DEFINE B == Box(GetArrayDimension(o), GetArrayLength(o))
<1>1. o[Top].type = "ARRAY" /\ Top \in DOMAIN o /\ GetArrayDimension(o) = d
      /\ GetArrayLength(o) \in [1..3 -> Int]
  BY Measures
<1>2. \A p : p \in B <=> /\ p \in Seq(Nat) /\ Len(p) <= d
                       /\ \A i \in 1..Len(p) : p[i] < GetArrayLength(o)[i]
  <2>1. d \in 0..3
    OBVIOUS
  <2> QED BY <1>1, <2>1, InBox
<1>3. Top \in B
  <2>1. Top \in Seq(Nat) /\ Len(Top) = 0
    BY DEF Top
  <2>2. Len(Top) <= d /\ 1..Len(Top) = {}
    BY <2>1
  <2> QED BY <1>2, <2>1, <2>2
<1>4. ASSUME NEW p \in B, p # Top, GetArrayEntry(o, p) = "OK" PROVE p \in DOMAIN o
  <2>1. Misses(o, p) = {}
    <3>1. ASSUME Misses(o, p) # {} PROVE FALSE
      BY <1>1, <1>4, <3>1 DEF GetArrayEntry
    <3> QED BY <3>1
  <2>2. p \in Seq(Nat)
    BY <1>2
  <2>3. Len(p) \in 1..Len(p)
    BY <1>4, <2>2 DEF Top
  <2>4. SubSeq(p, 1, Len(p)) \in DOMAIN o
    BY <2>1, <2>3 DEF Misses
  <2> QED BY <2>2, <2>4, WholePath
<1> HIDE DEF B
<1>5. FreePasses(o) = B \ {Top} /\ (IsRectangular(o) <=> DOMAIN o = B)
  BY DEF FreePasses, IsRectangular, B
<1>6. ASSUME FreesAll(o) PROVE DOMAIN o = B
  <2>1. \A p \in B : p # Top => p \in DOMAIN o
    BY <1>4, <1>5, <1>6 DEF FreesAll
  <2>2. \A p \in DOMAIN o : p # Top => p \in B
    BY <1>5, <1>6 DEF FreesAll
  <2> QED BY <1>1, <1>3, <2>1, <2>2
<1>7. ASSUME DOMAIN o = B PROVE FreesAll(o)
  BY <1>5, <1>7, NothingMissed DEF FreesAll
<1> QED BY <1>5, <1>6, <1>7

-----------------------------------------------------------------------------
(***************************************************************************)
(* Creating and expanding arrays.                                          *)
(***************************************************************************)

(* The lengths that pass the check: only the last one may be 0, or all. *)
LEMMA Checked ==
  ASSUME NEW d \in 1..3, NEW len \in [1..3 -> Int], CheckDimLength(d, len) = "OK"
  PROVE  /\ \A i \in 1..d : len[i] >= 0
         /\ len[1] # 0 => \A i \in 1..d - 1 : len[i] > 0
         /\ len[1] = 0 => \A i \in 1..d : len[i] = 0
<1>1. \/ \A i \in 1..d : len[i] = 0
      \/ len[d] >= 0 /\ \A i \in 1..d - 1 : len[i] > 0
  BY DEF CheckDimLength
<1>2. CASE \A i \in 1..d : len[i] = 0
  BY <1>2
<1>3. CASE len[d] >= 0 /\ \A i \in 1..d - 1 : len[i] > 0
  <2>1. \A i \in 1..d : i \in 1..d - 1 \/ i = d
    OBVIOUS
  <2>2. len[1] = 0 => d = 1
    BY <1>3
  <2> QED BY <1>3, <2>1, <2>2
<1> QED BY <1>1, <1>2, <1>3

(* All blocks have the lengths that are asked for. *)
IsGridOf(o, d, len) ==
  /\ DOMAIN o = Box(d, len)
  /\ \A p \in DOMAIN o : Len(p) < d => o[p] = Block(len[Len(p) + 1])

(* A box of blocks of its lengths is a whole array, and rectangular. *)
LEMMA GridIsWhole ==
  ASSUME NEW d \in 1..3, NEW len \in [1..3 -> Int], NEW o,
         \A i \in 1..d - 1 : len[i] > 0, len[d] >= 0, IsGridOf(o, d, len),
         \A p \in DOMAIN o : Len(p) = d => IsCell(o[p]) /\ o[p].type # "ARRAY"
  PROVE  Whole(o, d) /\ IsRectangular(o)
<1>1. \A p : p \in DOMAIN o <=> /\ p \in Seq(Nat) /\ Len(p) <= d
                               /\ \A i \in 1..Len(p) : p[i] < len[i]
  BY InBox DEF IsGridOf
<1>8. \A p \in DOMAIN o : p \in Seq(Nat) /\ \A i \in 1..Len(p) : p[i] < len[i]
  BY <1>1
<1>9. \A p \in DOMAIN o : Len(p) \in Nat /\ Len(p) <= d
  BY <1>1
<1>2. \A p \in DOMAIN o : Len(p) < d => /\ o[p] = Block(len[Len(p) + 1])
                                       /\ o[p].length = len[Len(p) + 1]
                                       /\ len[Len(p) + 1] \in Int
  <2> SUFFICES ASSUME NEW p \in DOMAIN o, Len(p) < d
               PROVE  /\ o[p] = Block(len[Len(p) + 1])
                      /\ o[p].length = len[Len(p) + 1]
                      /\ len[Len(p) + 1] \in Int
    OBVIOUS
  <2>1. Len(p) \in 0..2
    <3>1. Len(p) \in Nat
      BY <1>9
    <3>2. \A l \in Nat, m \in 1..3 : l < m => l \in 0..2
      OBVIOUS
    <3> QED BY <3>1, <3>2
  <2> QED BY <2>1 DEF IsGridOf, Block
<1>3. \A p \in DOMAIN o : \A k \in 1..Len(p) :
        SubSeq(p, 1, k - 1) \in DOMAIN o /\ p[k] < o[SubSeq(p, 1, k - 1)].length
  <2> SUFFICES ASSUME NEW p \in DOMAIN o, NEW k \in 1..Len(p)
               PROVE  SubSeq(p, 1, k - 1) \in DOMAIN o /\ p[k] < o[SubSeq(p, 1, k - 1)].length
    OBVIOUS
  <2>1. p \in Seq(Nat) /\ Len(p) <= d /\ k - 1 \in 0..Len(p) /\ \A i \in 1..Len(p) : p[i] < len[i]
    <3>1. p \in Seq(Nat) /\ \A i \in 1..Len(p) : p[i] < len[i]
      BY <1>8
    <3>2. Len(p) \in Nat /\ Len(p) <= d
      BY <1>9
    <3>3. \A l \in Nat : \A j \in 1..l : j - 1 \in 0..l
      OBVIOUS
    <3> QED BY <3>1, <3>2, <3>3
  <2>2. PICK q : q = SubSeq(p, 1, k - 1)
    OBVIOUS
  <2>3. q \in Seq(Nat) /\ Len(q) = k - 1 /\ \A i \in 1..k - 1 : q[i] = p[i]
    BY <2>1, <2>2, Beginnings
  <2>4. \A i \in 1..Len(q) : q[i] < len[i]
    <3>1. 1..Len(q) \subseteq 1..Len(p)
      BY <2>1, <2>3
    <3> QED BY <2>1, <2>3, <3>1
  <2>5. q \in DOMAIN o /\ Len(q) < d
    <3>1. Len(q) < d /\ Len(q) <= d
      <4>1. \A l \in Nat : \A j \in 1..l : l <= d => j - 1 < d /\ j - 1 <= d
        OBVIOUS
      <4> QED BY <1>9, <2>1, <2>3, <4>1
    <3> QED BY <1>1, <2>3, <2>4, <3>1
  <2>6. o[q].length = len[k]
    BY <1>2, <2>3, <2>5
  <2> QED BY <2>1, <2>2, <2>5, <2>6
<1>4. \A k \in 0..d - 1 :
        First(k) \in DOMAIN o /\ o[First(k)].length >= (IF k = d - 1 THEN 0 ELSE 1)
  <2> TAKE k \in 0..d - 1
  <2>1. First(k) \in Seq(Nat) /\ Len(First(k)) = k /\ \A i \in 1..k : First(k)[i] = 0
    <3>1. k \in Nat
      OBVIOUS
    <3> QED BY <3>1, Firsts
  <2>2. \A i \in 1..k : First(k)[i] < len[i]
    BY <2>1
  <2>3. First(k) \in DOMAIN o /\ o[First(k)].length = len[k + 1]
    BY <1>1, <1>2, <2>1, <2>2
  <2> QED BY <2>3
<1>5. \A p \in DOMAIN o : Len(p) < d => o[p].length <= o[First(Len(p))].length
  <2> SUFFICES ASSUME NEW p \in DOMAIN o, Len(p) < d
               PROVE  o[p].length <= o[First(Len(p))].length
    OBVIOUS
  <2>1. Len(p) \in 0..d - 1
    BY <1>9
  <2>2. First(Len(p)) \in DOMAIN o /\ Len(First(Len(p))) = Len(p)
    BY <1>4, <2>1, Firsts
  <2> QED BY <1>2, <2>1, <2>2
<1>6. Whole(o, d)
  <2>1. DOMAIN o \subseteq Seq(Nat) /\ \A p \in DOMAIN o : Len(p) <= d
    BY <1>1
  <2>2. \A p \in DOMAIN o : Len(p) < d => o[p].length \in Int /\ o[p] = Block(o[p].length)
    BY <1>2
  <2> QED BY <1>3, <1>4, <1>5, <2>1, <2>2 DEF Whole
<1>7. \A i \in 1..d : GetArrayLength(o)[i] = len[i]
  <2> TAKE i \in 1..d
  <2>1. GetArrayLength(o)[i] = o[First(i - 1)].length
    BY <1>6, Measures
  <2>2. First(i - 1) \in DOMAIN o /\ Len(First(i - 1)) = i - 1
    <3>1. i - 1 \in 0..d - 1 /\ i - 1 \in Nat
      OBVIOUS
    <3> QED BY <1>4, <3>1, Firsts
  <2> QED BY <1>2, <2>1, <2>2
<1>10. Box(d, GetArrayLength(o)) = Box(d, len)
  BY <1>6, <1>7, Measures, SameBox
<1> QED BY <1>6, <1>10, Measures DEF IsRectangular, IsGridOf

(* A new array has the lengths that are asked for, and its elements are not set. *)
IsNewArray(o, d, tp) ==
  /\ Whole(o, d) /\ IsRectangular(o)
  /\ \A p \in DOMAIN o : o[p].val = Nothing /\ (o[p].type # "ARRAY" => o[p] = Blank(tp))

(* rh4nvarCreateNewArray, as the checks let it through. *)
LEMMA NewIsWhole ==
  ASSUME NEW dims \in 1..3, NEW len \in [1..3 -> Int], NEW d, d = NewDims(dims, len),
         CheckDimLength(d, len) = "OK", NEW tp, tp # "ARRAY"
  PROVE  d \in 1..3 /\ IsNewArray(NewArray(d, len, tp), d, tp)
<1> DEFINE o == NewArray(d, len, tp)
<1>1. d \in 1..3 /\ (len[1] = 0 => d = 1)
  BY DEF NewDims
<1>2. DOMAIN o = Box(d, len) /\ \A p \in DOMAIN o :
        /\ Len(p) \in Nat /\ Len(p) <= d
        /\ o[p] = IF Len(p) < d THEN Block(len[Len(p) + 1]) ELSE Blank(tp)
  <2>1. DOMAIN o = Box(d, len) /\ \A p \in DOMAIN o :
          o[p] = IF Len(p) < d THEN Block(len[Len(p) + 1]) ELSE Blank(tp)
    BY DEF NewArray
  <2>2. \A p \in Box(d, len) : Len(p) \in Nat /\ Len(p) <= d
    BY <1>1, InBox
  <2> QED BY <2>1, <2>2
<1>3. (\A i \in 1..d - 1 : len[i] > 0) /\ len[d] >= 0
  BY <1>1, Checked
<1> HIDE DEF o
<1>4. IsGridOf(o, d, len)
  BY <1>2 DEF IsGridOf
<1>5. \A p \in DOMAIN o : Len(p) = d => o[p] = Blank(tp)
  BY <1>1, <1>2
<1>6. \A p \in DOMAIN o : Len(p) = d => IsCell(o[p]) /\ o[p].type # "ARRAY"
  BY <1>5 DEF IsCell, Blank
<1>7. Whole(o, d) /\ IsRectangular(o)
  BY <1>1, <1>3, <1>4, <1>6, GridIsWhole
<1>8. \A p \in DOMAIN o : o[p].val = Nothing /\ (o[p].type # "ARRAY" => o[p] = Blank(tp))
  BY <1>2 DEF Block, Blank
<1>9. IsNewArray(o, d, tp)
  BY <1>7, <1>8 DEF IsNewArray
<1> QED BY <1>1, <1>9 DEF o

(* What is in front of a first block are the first blocks above it. *)
LEMMA BeforeFirst ==
  ASSUME NEW p \in Seq(Nat), NEW k \in Nat, Before(p, First(k))
  PROVE  Len(p) < k /\ p = First(Len(p))
<1> DEFINE q == First(k)
<1>1. q \in Seq(Nat) /\ Len(q) = k /\ \A i \in 1..k : q[i] = 0
  BY Firsts
<1>2. \A j \in 0..k : SubSeq(q, 1, j) = First(j)
  BY Firsts
<1> HIDE DEF q
<1>3. IsStrictPrefix(p, q)
  <2>1. \A i \in DOMAIN p \cap DOMAIN q : p[i] \in Nat /\ q[i] = 0
    BY <1>1
  <2>2. \A i \in DOMAIN p \cap DOMAIN q : ~(p[i] < q[i])
    BY <2>1
  <2> QED BY <2>2 DEF Before, q
<1>4. Len(p) <= k /\ SubSeq(p, 1, Len(p)) = SubSeq(q, 1, Len(p)) /\ p # q
  BY <1>1, <1>3 DEF IsStrictPrefix, IsPrefix
<1>5. SubSeq(p, 1, Len(p)) = p /\ Len(p) \in 0..k
  BY <1>4, WholePath
<1>6. p = First(Len(p))
  BY <1>2, <1>4, <1>5
<1>7. Len(p) # k
  BY <1>4, <1>6 DEF q
<1>8. \A l \in 0..k : l # k => l < k
  OBVIOUS
<1> QED BY <1>5, <1>6, <1>7, <1>8

(* The cells of an array that was expanded. *)
ExpandedTo(o, N, P, dims, len, tp) ==
  /\ \A p : p \in DOMAIN N <=>
             p \in DOMAIN o \/ (p \in Box(dims, len) /\ p # Top /\ Front(p) \in P)
  /\ \A p \in DOMAIN N : N[p] = IF p \in P THEN Block(len[Len(p) + 1])
                             ELSE IF p \in DOMAIN o THEN o[p]
                             ELSE Blank(IF Len(p) = dims THEN tp ELSE "ARRAY")

(* rh4nvarExpandArray: the old cells, and those below what was passed. *)
LEMMA ExpandedCells ==
  ASSUME NEW o, NEW dims \in 1..3, NEW len \in [1..3 -> Int], NEW tp
  PROVE  ExpandedTo(o, Expanded(o, dims, len, tp), Passed(o, dims, len), dims, len, tp)
<1> DEFINE P == Passed(o, dims, len)
           new == {p \in Box(dims, len) : p # Top /\ Front(p) \in P}
           c(p) == IF p \in P THEN Block(len[Len(p) + 1])
                   ELSE IF p \in DOMAIN o THEN o[p]
                   ELSE Blank(IF Len(p) = dims THEN tp ELSE "ARRAY")
           N == Expanded(o, dims, len, tp)
<1>1. N = [p \in DOMAIN o \cup new |-> c(p)]
  BY DEF Expanded
<1> HIDE DEF N, P
<1>2. DOMAIN N = DOMAIN o \cup new
  BY <1>1
<1>3. \A p : p \in DOMAIN N <=> p \in DOMAIN o \/ (p \in Box(dims, len) /\ p # Top /\ Front(p) \in P)
  BY <1>2
<1>4. \A p \in DOMAIN N : N[p] = c(p)
  <2> HIDE DEF new, c
  <2> QED BY <1>1, <1>2
<1>5. ExpandedTo(o, N, P, dims, len, tp)
  <2> HIDE DEF new
  <2> QED BY <1>3, <1>4 DEF ExpandedTo
<1> QED BY <1>5 DEF N, P

(* What is passed. *)
LEMMA PassedIs ==
  ASSUME NEW o, NEW dims \in 1..3, NEW len \in [1..3 -> Int]
  PROVE  \A p : p \in Passed(o, dims, len) <=>
                  /\ p \in Seq(Nat) /\ Len(p) < dims
                  /\ \A i \in 1..Len(p) : p[i] < len[i]
                  /\ \A q \in TooLong(o, dims, len) : Before(p, q)
<1>1. dims - 1 \in 0..3
  OBVIOUS
<1>2. \A p : p \in Box(dims - 1, len) <=>
                  /\ p \in Seq(Nat) /\ Len(p) <= dims - 1
                  /\ \A i \in 1..Len(p) : p[i] < len[i]
  BY <1>1, InBox
<1>3. \A p \in Seq(Nat) : Len(p) <= dims - 1 <=> Len(p) < dims
  OBVIOUS
<1> QED BY <1>2, <1>3 DEF Passed

-----------------------------------------------------------------------------
(***************************************************************************)
(* An expand that succeeds.                                                *)
(***************************************************************************)

(* The cells at the last level of an array that has got its lengths. *)
LastLevel(o, N, dims, tp) ==
  \A p \in DOMAIN N : Len(p) = dims =>
    \/ p \in DOMAIN o /\ N[p] = o[p]
    \/ p \notin DOMAIN o /\ N[p] = Blank(tp)

(* Without a block that is too long every block gets its length. *)
LEMMA Succeeds ==
  ASSUME NEW o, NEW d \in 1..3, Whole(o, d), NEW dims \in 1..3, d <= dims,
         NEW len \in [1..3 -> Int], TooLong(o, dims, len) = {}, NEW tp
  PROVE  /\ IsGridOf(Expanded(o, dims, len, tp), dims, len)
         /\ LastLevel(o, Expanded(o, dims, len, tp), dims, tp)
         /\ DOMAIN o \subseteq DOMAIN Expanded(o, dims, len, tp)
<1> DEFINE N == Expanded(o, dims, len, tp)
           P == Passed(o, dims, len)
<1>1. \A p : p \in P <=> /\ p \in Seq(Nat) /\ Len(p) < dims
                         /\ \A i \in 1..Len(p) : p[i] < len[i]
  BY PassedIs
<1>2. \A p : p \in Box(dims, len) <=>
              p \in Seq(Nat) /\ Len(p) <= dims /\ \A i \in 1..Len(p) : p[i] < len[i]
  <2>1. dims \in 0..3
    OBVIOUS
  <2> QED BY <2>1, InBox
<1>3. ExpandedTo(o, N, P, dims, len, tp)
  BY ExpandedCells
<1> HIDE DEF N, P
<1>4. DOMAIN o \subseteq Box(dims, len)
  <2> SUFFICES ASSUME NEW p \in DOMAIN o PROVE p \in Box(dims, len)
    OBVIOUS
  <2>1. p \in Seq(Nat) /\ Len(p) \in Nat /\ Len(p) <= d
    BY DEF Whole
  <2>2. ASSUME NEW i \in 1..Len(p) PROVE p[i] < len[i]
    <3>1. PICK q : q = SubSeq(p, 1, i - 1)
      OBVIOUS
    <3>2. q \in DOMAIN o /\ p[i] < o[q].length
      BY <3>1 DEF Whole
    <3>3. i - 1 \in 0..Len(p)
      BY <2>1
    <3>4. Len(q) = i - 1
      BY <2>1, <3>1, <3>3, Beginnings
    <3>5. Len(q) < d /\ Len(q) < dims /\ Len(q) + 1 = i /\ i \in 1..3
      BY <2>1, <3>4
    <3>6. ~(o[q].length > len[i])
      BY <3>2, <3>5 DEF TooLong
    <3>7. o[q].length \in Int /\ len[i] \in Int /\ p[i] \in Nat
      <4>1. o[q].length \in Int
        BY <3>2, <3>5 DEF Whole
      <4>2. len[i] \in Int
        BY <3>5
      <4> QED BY <2>1, <4>1, <4>2
    <3>8. \A a \in Nat, b \in Int, c \in Int : a < b /\ ~(b > c) => a < c
      OBVIOUS
    <3> QED BY <3>2, <3>6, <3>7, <3>8
  <2>3. Len(p) <= dims
    BY <2>1
  <2> QED BY <1>2, <2>1, <2>2, <2>3
<1>5. ASSUME NEW p \in Box(dims, len), p # Top PROVE Front(p) \in P
  <2>1. p \in Seq(Nat) /\ Len(p) \in Nat /\ Len(p) # 0 /\ Len(p) <= dims
        /\ \A i \in 1..Len(p) : p[i] < len[i]
    BY <1>2, <1>5 DEF Top
  <2>2. Len(p) - 1 \in 0..Len(p)
    BY <2>1
  <2>3. PICK q : q = SubSeq(p, 1, Len(p) - 1)
    OBVIOUS
  <2>4. q \in Seq(Nat) /\ Len(q) = Len(p) - 1 /\ \A i \in 1..Len(p) - 1 : q[i] = p[i]
    BY <2>1, <2>2, <2>3, Beginnings
  <2>5. 1..Len(q) \subseteq 1..Len(p) /\ Len(q) < dims
    BY <2>1, <2>4
  <2>6. \A i \in 1..Len(q) : q[i] < len[i]
    BY <2>1, <2>4, <2>5
  <2> QED BY <1>1, <2>3, <2>4, <2>5, <2>6 DEF Front
<1>6. Top \in DOMAIN o
  BY Measures
<1>7. DOMAIN N = Box(dims, len)
  <2>1. \A p : p \in DOMAIN N <=> p \in Box(dims, len)
    <3> TAKE p
    <3>1. p \in DOMAIN N <=>
            p \in DOMAIN o \/ (p \in Box(dims, len) /\ p # Top /\ Front(p) \in P)
      BY <1>3 DEF ExpandedTo
    <3>2. p \in Box(dims, len) /\ p # Top => Front(p) \in P
      BY <1>5
    <3>3. p \in DOMAIN o => p \in Box(dims, len)
      BY <1>4
    <3>4. CASE p = Top
      BY <1>6, <3>1, <3>3, <3>4
    <3>5. CASE p # Top
      BY <3>1, <3>2, <3>3, <3>5
    <3> QED BY <3>4, <3>5
  <2>2. \A p \in DOMAIN N : p \in Box(dims, len)
    BY <2>1
  <2>3. \A p \in Box(dims, len) : p \in DOMAIN N
    BY <2>1
  <2> QED BY <2>2, <2>3
<1>8. \A p \in DOMAIN N : Len(p) < dims => p \in P
  BY <1>1, <1>2, <1>7
<1>9. IsGridOf(N, dims, len)
  BY <1>3, <1>7, <1>8 DEF IsGridOf, ExpandedTo
<1>10. LastLevel(o, N, dims, tp)
  <2> SUFFICES ASSUME NEW p \in DOMAIN N, Len(p) = dims
               PROVE  \/ p \in DOMAIN o /\ N[p] = o[p]
                      \/ p \notin DOMAIN o /\ N[p] = Blank(tp)
    BY DEF LastLevel
  <2>1. p \notin P
    BY <1>1
  <2> QED BY <1>3, <2>1 DEF ExpandedTo
<1>11. DOMAIN o \subseteq DOMAIN N
  BY <1>4, <1>7
<1> QED BY <1>9, <1>10, <1>11 DEF N

-----------------------------------------------------------------------------
(***************************************************************************)
(* An expand that fails.                                                   *)
(***************************************************************************)

(* The first block of some level is too long, if any block is. *)
LEMMA FirstIsTooLong ==
  ASSUME NEW o, NEW d \in 1..3, Whole(o, d), NEW dims \in 1..3, d <= dims,
         NEW len \in [1..3 -> Int], CheckDimLength(dims, len) = "OK",
         TooLong(o, dims, len) # {},
         d < dims => \A p \in DOMAIN o : Len(p) = d => o[p].length = -1
  PROVE  \E k \in 0..d - 1 : First(k) \in TooLong(o, dims, len)
<1>1. PICK p \in DOMAIN o : Len(p) < dims /\ o[p].length > len[Len(p) + 1]
  BY DEF TooLong
<1>2. p \in Seq(Nat) /\ Len(p) \in Nat /\ Len(p) <= d
  BY DEF Whole
<1> DEFINE k == Len(p)
<1>3. k \in Nat /\ k < dims /\ k <= d /\ o[p].length > len[k + 1]
  BY <1>1, <1>2
<1>4. k # d
  <2> SUFFICES ASSUME k = d PROVE FALSE
    OBVIOUS
  <2>1. d < dims /\ o[p].length = -1
    BY <1>3
  <2>2. d + 1 \in 1..dims
    BY <2>1
  <2>3. len[d + 1] >= 0
    BY <2>2, Checked
  <2>4. d + 1 \in 1..3
    BY <2>2
  <2>5. len[d + 1] \in Int
    BY <2>4
  <2> QED BY <1>3, <2>1, <2>3, <2>5
<1>5. k \in 0..d - 1 /\ k < d /\ k + 1 \in 1..3
  <2> HIDE DEF k
  <2> QED BY <1>3, <1>4
<1>6. First(k) \in DOMAIN o /\ o[p].length <= o[First(k)].length
  BY <1>5 DEF Whole
<1>7. Len(First(k)) = k
  BY <1>3, Firsts
<1>8. o[p].length \in Int /\ o[First(k)].length \in Int /\ len[k + 1] \in Int
  <2>1. o[p].length \in Int
    BY <1>5 DEF Whole
  <2>2. o[First(k)].length \in Int
    BY <1>5, <1>6, <1>7 DEF Whole
  <2> QED BY <1>5, <2>1, <2>2
<1>9. o[First(k)].length > len[k + 1]
  BY <1>3, <1>6, <1>8
<1>10. First(k) \in TooLong(o, dims, len)
  BY <1>3, <1>6, <1>7, <1>9 DEF TooLong
<1> QED BY <1>5, <1>10

(* What fails has passed first blocks only, so that no row gets longer than
   the first one and no row becomes an element. *)
LEMMA Fails ==
  ASSUME NEW o, NEW d \in 1..3, Whole(o, d), NEW dims \in 1..3, d <= dims,
         NEW len \in [1..3 -> Int], CheckDimLength(dims, len) = "OK",
         TooLong(o, dims, len) # {}, NEW tp, o = [p \in DOMAIN o |-> o[p]],
         d < dims => \A p \in DOMAIN o : Len(p) = d => o[p].length = -1
  PROVE  /\ Whole(Expanded(o, dims, len, tp), d)
         /\ LastLevel(o, Expanded(o, dims, len, tp), d, tp)
         /\ DOMAIN o \subseteq DOMAIN Expanded(o, dims, len, tp)
         /\ Expanded(o, dims, len, tp) # o => ~IsRectangular(Expanded(o, dims, len, tp))
<1> DEFINE N == Expanded(o, dims, len, tp)
           P == Passed(o, dims, len)
<1>1. \A p : p \in P <=> /\ p \in Seq(Nat) /\ Len(p) < dims
                         /\ \A i \in 1..Len(p) : p[i] < len[i]
                         /\ \A q \in TooLong(o, dims, len) : Before(p, q)
  BY PassedIs
<1>2. \A p : p \in Box(dims, len) <=>
              p \in Seq(Nat) /\ Len(p) <= dims /\ \A i \in 1..Len(p) : p[i] < len[i]
  <2>1. dims \in 0..3
    OBVIOUS
  <2> QED BY <2>1, InBox
<1>3. ExpandedTo(o, N, P, dims, len, tp)
  BY ExpandedCells
<1> HIDE DEF N, P
<1>4. PICK k \in 0..d - 1 : First(k) \in TooLong(o, dims, len)
  BY FirstIsTooLong
(* Only first blocks are passed, and none of them is too long. *)
<1>5. ASSUME NEW p \in P
      PROVE  /\ Len(p) \in Nat /\ Len(p) < k /\ p = First(Len(p)) /\ p \in DOMAIN o
             /\ len[Len(p) + 1] \in Int /\ o[p].length <= len[Len(p) + 1]
  <2>1. p \in Seq(Nat) /\ Len(p) \in Nat
    BY <1>1
  <2>2. Before(p, First(k))
    BY <1>1, <1>4
  <2>3. Len(p) < k /\ p = First(Len(p))
    BY <2>1, <2>2, BeforeFirst
  <2>4. Len(p) \in 0..d - 1 /\ Len(p) < d /\ Len(p) < dims /\ Len(p) + 1 \in 1..3
    BY <2>1, <2>3
  <2>5. p \in DOMAIN o
    BY <2>3, <2>4 DEF Whole
  <2>6. p \notin TooLong(o, dims, len)
    BY <1>1, <2>1, OnlyOneIsBefore
  <2>7. ~(o[p].length > len[Len(p) + 1])
    BY <2>4, <2>5, <2>6 DEF TooLong
  <2>8. o[p].length \in Int /\ len[Len(p) + 1] \in Int
    <3>1. o[p].length \in Int
      BY <2>4, <2>5 DEF Whole
    <3> QED BY <2>4, <3>1
  <2> QED BY <2>1, <2>3, <2>5, <2>7, <2>8
<1>6. ASSUME NEW p \in DOMAIN o
      PROVE  /\ p \in DOMAIN N
             /\ p \notin P => N[p] = o[p]
             /\ p \in P => N[p] = Block(len[Len(p) + 1]) /\ N[p].length = len[Len(p) + 1]
  BY <1>3 DEF ExpandedTo, Block
<1>7. ASSUME NEW p \in DOMAIN o, Len(p) < d
      PROVE  N[p].length \in Int /\ N[p] = Block(N[p].length) /\ o[p].length <= N[p].length
  <2>1. o[p].length \in Int /\ o[p] = Block(o[p].length)
    BY <1>7 DEF Whole
  <2> QED BY <1>5, <1>6, <2>1
(* A new cell is a row that was not reached, below the last block passed. *)
<1>8. ASSUME NEW p \in DOMAIN N, p \notin DOMAIN o
      PROVE  /\ p \in Seq(Nat) /\ Len(p) \in 1..d - 1
             /\ SubSeq(p, 1, Len(p) - 1) = First(Len(p) - 1)
             /\ SubSeq(p, 1, Len(p) - 1) \in P /\ p[Len(p)] < len[Len(p)]
             /\ N[p] = Block(-1) /\ N[p].length = -1
  <2>1. p \in Box(dims, len) /\ p # Top /\ Front(p) \in P
    BY <1>3, <1>8 DEF ExpandedTo
  <2>2. p \in Seq(Nat) /\ Len(p) \in Nat /\ Len(p) # 0 /\ \A i \in 1..Len(p) : p[i] < len[i]
    BY <1>2, <2>1 DEF Top
  <2>3. Len(p) - 1 \in 0..Len(p) /\ Len(p) \in 1..Len(p)
    BY <2>2
  <2>4. PICK q : q = SubSeq(p, 1, Len(p) - 1)
    OBVIOUS
  <2>5. Len(q) = Len(p) - 1 /\ q \in P
    BY <2>1, <2>2, <2>3, <2>4, Beginnings DEF Front
  <2>6. Len(q) < k /\ q = First(Len(p) - 1)
    BY <1>5, <2>5
  <2>7. Len(p) \in 1..d - 1 /\ Len(p) # dims
    BY <2>2, <2>5, <2>6
  <2>8. p \notin P
    BY <1>5, <1>8
  <2>9. N[p] = Blank("ARRAY")
    BY <1>3, <1>8, <2>7, <2>8 DEF ExpandedTo
  <2>10. N[p] = Block(-1) /\ N[p].length = -1
    BY <2>9 DEF Blank, Block
  <2> QED BY <2>2, <2>3, <2>4, <2>5, <2>6, <2>7, <2>10
<1>9. ASSUME NEW j \in 0..d - 1
      PROVE  /\ First(j) \in DOMAIN o /\ First(j) \in DOMAIN N /\ Len(First(j)) = j
             /\ N[First(j)].length \in Int /\ o[First(j)].length <= N[First(j)].length
             /\ o[First(j)].length \in Int
             /\ N[First(j)].length >= (IF j = d - 1 THEN 0 ELSE 1)
  <2>1. First(j) \in DOMAIN o /\ o[First(j)].length >= (IF j = d - 1 THEN 0 ELSE 1)
    BY DEF Whole
  <2>2. j \in Nat /\ j < d
    OBVIOUS
  <2>3. Len(First(j)) = j
    BY <2>2, Firsts
  <2>4. o[First(j)].length \in Int
    BY <2>1, <2>2, <2>3 DEF Whole
  <2>5. First(j) \in DOMAIN N /\ N[First(j)].length \in Int
        /\ o[First(j)].length <= N[First(j)].length
    BY <1>6, <1>7, <2>1, <2>2, <2>3
  <2> QED BY <2>1, <2>3, <2>4, <2>5
<1>10. DOMAIN N \subseteq Seq(Nat) /\ \A p \in DOMAIN N : Len(p) <= d
  <2>1. \A p \in DOMAIN o : p \in Seq(Nat) /\ Len(p) <= d
    BY DEF Whole
  <2>2. \A p \in DOMAIN N : p \notin DOMAIN o => p \in Seq(Nat) /\ Len(p) <= d
    BY <1>8
  <2> QED BY <2>1, <2>2
<1>11. \A p \in DOMAIN N : Len(p) < d => N[p].length \in Int /\ N[p] = Block(N[p].length)
  BY <1>7, <1>8
<1>12. \A p \in DOMAIN N : Len(p) = d => p \in DOMAIN o /\ N[p] = o[p]
  <2> SUFFICES ASSUME NEW p \in DOMAIN N, Len(p) = d PROVE p \in DOMAIN o /\ N[p] = o[p]
    OBVIOUS
  <2>1. p \in DOMAIN o
    BY <1>8
  <2>2. p \notin P
    BY <1>5
  <2> QED BY <1>6, <2>1, <2>2
<1>13. \A p \in DOMAIN N : \A i \in 1..Len(p) :
         SubSeq(p, 1, i - 1) \in DOMAIN N /\ p[i] < N[SubSeq(p, 1, i - 1)].length
  <2> SUFFICES ASSUME NEW p \in DOMAIN N, NEW i \in 1..Len(p)
               PROVE  SubSeq(p, 1, i - 1) \in DOMAIN N /\ p[i] < N[SubSeq(p, 1, i - 1)].length
    OBVIOUS
  <2>1. p \in Seq(Nat) /\ Len(p) \in Nat /\ Len(p) <= d /\ i - 1 \in 0..Len(p) /\ i - 1 < d
    BY <1>10
  <2>2. PICK q : q = SubSeq(p, 1, i - 1)
    OBVIOUS
  <2>3. Len(q) = i - 1 /\ p[i] \in Nat
    BY <2>1, <2>2, Beginnings
  <2>4. CASE p \in DOMAIN o
    <3>1. q \in DOMAIN o /\ p[i] < o[q].length
      BY <2>2, <2>4 DEF Whole
    <3>2. o[q].length \in Int
      BY <2>1, <2>3, <3>1 DEF Whole
    <3>3. q \in DOMAIN N /\ N[q].length \in Int /\ o[q].length <= N[q].length
      BY <1>6, <1>7, <2>1, <2>3, <3>1
    <3>4. \A a \in Nat, b \in Int, c \in Int : a < b /\ b <= c => a < c
      OBVIOUS
    <3> QED BY <2>2, <2>3, <3>1, <3>2, <3>3, <3>4
  <2>5. CASE p \notin DOMAIN o /\ i = Len(p)
    <3>1. q \in P /\ p[i] < len[i]
      BY <1>8, <2>2, <2>5
    <3>2. q \in DOMAIN N /\ N[q].length = len[Len(q) + 1]
      BY <1>5, <1>6, <3>1
    <3>3. Len(q) + 1 = i
      BY <2>1, <2>3
    <3> QED BY <2>2, <3>1, <3>2, <3>3
  <2>6. CASE p \notin DOMAIN o /\ i # Len(p)
    <3>1. Len(p) \in 1..d - 1 /\ SubSeq(p, 1, Len(p) - 1) = First(Len(p) - 1)
      BY <1>8, <2>6
    <3>2. i \in 1..Len(p) - 1 /\ i - 1 \in 0..Len(p) - 1 /\ Len(p) - 1 \in 0..Len(p)
          /\ Len(p) - 1 \in Nat /\ i - 1 \in 0..d - 1 /\ i - 1 # d - 1
      BY <2>1, <2>6, <3>1
    <3>3. q = SubSeq(First(Len(p) - 1), 1, i - 1) /\ p[i] = First(Len(p) - 1)[i]
      BY <2>1, <2>2, <3>1, <3>2, Beginnings
    <3>4. q = First(i - 1) /\ p[i] = 0
      BY <3>2, <3>3, Firsts
    <3>5. q \in DOMAIN N /\ N[q].length \in Int /\ N[q].length >= 1
      BY <1>9, <3>2, <3>4
    <3>6. p[i] < N[q].length
      BY <3>4, <3>5
    <3> QED BY <2>2, <3>5, <3>6
  <2> QED BY <2>4, <2>5, <2>6
<1>14. \A p \in DOMAIN N : Len(p) < d => N[p].length <= N[First(Len(p))].length
  <2> SUFFICES ASSUME NEW p \in DOMAIN N, Len(p) < d PROVE N[p].length <= N[First(Len(p))].length
    OBVIOUS
  <2>1. Len(p) \in Nat
    BY <1>10
  <2>2. PICK j \in 0..d - 1 : j = Len(p)
    BY <2>1
  <2>3. N[First(j)].length \in Int /\ o[First(j)].length <= N[First(j)].length
        /\ o[First(j)].length \in Int /\ N[First(j)].length >= 0
    BY <1>9
  <2>4. CASE p \notin DOMAIN o
    <3>1. N[p].length = -1
      BY <1>8, <2>4
    <3> QED BY <2>2, <2>3, <3>1
  <2>5. CASE p \in P
    <3>1. p = First(j) /\ N[p].length \in Int
      BY <1>5, <1>11, <2>2, <2>5
    <3> QED BY <2>2, <3>1
  <2>6. CASE p \in DOMAIN o /\ p \notin P
    <3>1. N[p] = o[p]
      BY <1>6, <2>6
    <3>2. o[p].length \in Int /\ o[p].length <= o[First(j)].length
      BY <2>2, <2>6 DEF Whole
    <3> QED BY <2>2, <2>3, <3>1, <3>2
  <2> QED BY <2>4, <2>5, <2>6
<1>15. \A p \in DOMAIN N : Len(p) = d => IsCell(N[p]) /\ N[p].type # "ARRAY"
  BY <1>12 DEF Whole
<1>16. \A j \in 0..d - 1 :
         First(j) \in DOMAIN N /\ N[First(j)].length >= (IF j = d - 1 THEN 0 ELSE 1)
  BY <1>9
<1>17. Whole(N, d)
  BY <1>10, <1>11, <1>13, <1>14, <1>15, <1>16 DEF Whole
<1>18. LastLevel(o, N, d, tp)
  BY <1>12 DEF LastLevel
<1>19. DOMAIN o \subseteq DOMAIN N
  BY <1>6
(* What was changed has a last cell that is new, and nothing below it. *)
<1>20. ASSUME NEW p \in P, N[p] # o[p] PROVE \E q \in DOMAIN N : q \notin DOMAIN o
  <2>1. /\ p \in DOMAIN o /\ Len(p) \in Nat /\ Len(p) < d /\ Len(p) < dims /\ p \in Seq(Nat)
        /\ \A i \in 1..Len(p) : p[i] < len[i]
    BY <1>1, <1>4, <1>5
  <2>2. PICK l : l = len[Len(p) + 1]
    OBVIOUS
  <2>3. o[p].length \in Int /\ o[p] = Block(o[p].length) /\ l \in Int /\ o[p].length <= l
        /\ N[p] = Block(l)
    BY <1>5, <1>6, <2>1, <2>2 DEF Whole
  <2>4. o[p].length >= 0
    <3>1. p = First(Len(p)) /\ Len(p) \in 0..d - 1
      BY <1>5, <2>1
    <3>2. o[First(Len(p))].length >= (IF Len(p) = d - 1 THEN 0 ELSE 1)
      BY <3>1 DEF Whole
    <3> QED BY <2>3, <3>1, <3>2
  <2>5. o[p].length <= l - 1 /\ l - 1 \in Nat
    <3>1. o[p].length # l
      BY <1>20, <2>3
    <3> QED BY <2>3, <2>4, <3>1
  <2>6. PICK q : q = Append(p, l - 1)
    OBVIOUS
  <2>7. q \in Seq(Nat) /\ Len(q) = Len(p) + 1 /\ q[Len(p) + 1] = l - 1
        /\ \A i \in 1..Len(p) : q[i] = p[i]
    BY <2>1, <2>5, <2>6
  <2>8. SubSeq(q, 1, Len(p)) = p
    <3>1. Len(p) \in 0..Len(q)
      BY <2>1, <2>7
    <3>2. PICK s : s = SubSeq(q, 1, Len(p))
      OBVIOUS
    <3>3. s \in Seq(Nat) /\ Len(s) = Len(p) /\ \A i \in 1..Len(p) : s[i] = q[i]
      BY <2>7, <3>1, <3>2, Beginnings
    <3> QED BY <2>1, <2>7, <3>2, <3>3, SamePath
  <2>9. \A i \in 1..Len(q) : q[i] < len[i]
    <3> TAKE i \in 1..Len(q)
    <3>1. i \in 1..Len(p) \/ i = Len(p) + 1
      BY <2>1, <2>7
    <3>2. l - 1 < l
      BY <2>3
    <3> QED BY <2>1, <2>2, <2>7, <3>1, <3>2
  <2>10. q \in Box(dims, len) /\ q # Top /\ Front(q) \in P
    <3>1. Len(q) <= dims /\ Len(q) - 1 = Len(p) /\ Len(q) # 0
      BY <2>1, <2>7
    <3>2. q \in Box(dims, len) /\ q # Top
      BY <1>2, <2>7, <2>9, <3>1 DEF Top
    <3> QED BY <2>8, <3>1, <3>2 DEF Front
  <2>11. q \in DOMAIN N
    BY <1>3, <2>10 DEF ExpandedTo
  <2>12. q \notin DOMAIN o
    <3> SUFFICES ASSUME q \in DOMAIN o PROVE FALSE
      OBVIOUS
    <3>1. Len(p) + 1 \in 1..Len(q) /\ (Len(p) + 1) - 1 = Len(p)
      BY <2>1, <2>7
    <3>2. q[Len(p) + 1] < o[p].length
      BY <2>8, <3>1 DEF Whole
    <3> QED BY <2>3, <2>5, <2>7, <3>2
  <2> QED BY <2>11, <2>12
<1>21. ASSUME N # o PROVE \E q \in DOMAIN N : q \notin DOMAIN o
  <2> SUFFICES ASSUME \A q \in DOMAIN N : q \in DOMAIN o PROVE FALSE
    OBVIOUS
  <2>1. DOMAIN N = DOMAIN o
    BY <1>19
  <2>2. \A p \in DOMAIN o : N[p] = o[p]
    BY <1>6, <1>20
  <2>3. N = [p \in DOMAIN N |-> N[p]]
    BY DEF N, Expanded
  <2> QED BY <1>21, <2>1, <2>2, <2>3
<1>22. ASSUME NEW q \in DOMAIN N, q \notin DOMAIN o, IsRectangular(N) PROVE FALSE
  <2>1. q \in Seq(Nat) /\ Len(q) \in 1..d - 1 /\ N[q].length = -1 /\ Len(q) - 1 < k
    <3>1. q \in Seq(Nat) /\ Len(q) \in 1..d - 1 /\ N[q].length = -1
          /\ SubSeq(q, 1, Len(q) - 1) \in P
      BY <1>8, <1>22
    <3>2. Len(q) - 1 \in 0..Len(q)
      BY <3>1
    <3>3. Len(SubSeq(q, 1, Len(q) - 1)) = Len(q) - 1
      BY <3>1, <3>2, Beginnings
    <3>4. Len(SubSeq(q, 1, Len(q) - 1)) < k
      BY <1>5, <3>1
    <3> QED BY <3>1, <3>3, <3>4
  <2>2. PICK j \in 1..d - 1 : j = Len(q)
    BY <2>1
  <2>3. N[First(j)].length \in Int /\ N[First(j)].length >= 1
    <3>1. j \in 0..d - 1
      OBVIOUS
    <3>2. /\ N[First(j)].length \in Int /\ o[First(j)].length <= N[First(j)].length
          /\ o[First(j)].length \in Int
          /\ N[First(j)].length >= (IF j = d - 1 THEN 0 ELSE 1)
      BY <1>9, <3>1
    <3>3. CASE j = k
      <4>1. o[First(k)].length > len[k + 1]
        BY <1>4, <1>9, <3>1, <3>3 DEF TooLong
      <4>2. k + 1 \in 1..dims /\ k + 1 \in 1..3
        OBVIOUS
      <4>3. len[k + 1] >= 0 /\ len[k + 1] \in Int
        BY <4>2, Checked
      <4> QED BY <3>2, <3>3, <4>1, <4>3
    <3>4. CASE j # k
      BY <2>1, <2>2, <3>2, <3>4
    <3> QED BY <3>3, <3>4
  <2>4. PICK r : r = Append(q, 0)
    OBVIOUS
  <2>5. r \in Seq(Nat) /\ Len(r) = j + 1 /\ r[j + 1] = 0 /\ \A i \in 1..j : r[i] = q[i]
    BY <2>1, <2>2, <2>4
  <2>6. SubSeq(r, 1, j) = q
    <3>1. j \in 0..Len(r)
      BY <2>5
    <3>2. PICK s : s = SubSeq(r, 1, j)
      OBVIOUS
    <3>3. s \in Seq(Nat) /\ Len(s) = j /\ \A i \in 1..j : s[i] = r[i]
      BY <2>5, <3>1, <3>2, Beginnings
    <3> QED BY <2>1, <2>2, <2>5, <3>2, <3>3, SamePath
  <2>7. r \notin DOMAIN N
    <3> SUFFICES ASSUME r \in DOMAIN N PROVE FALSE
      OBVIOUS
    <3>1. j + 1 \in 1..Len(r) /\ (j + 1) - 1 = j
      BY <2>5
    <3>2. r[j + 1] < N[q].length
      BY <1>13, <2>6, <3>1
    <3> QED BY <2>1, <2>5, <3>2
  <2>8. /\ GetArrayDimension(N) = d /\ GetArrayLength(N) \in [1..3 -> Int]
        /\ \A i \in 1..d : GetArrayLength(N)[i] = N[First(i - 1)].length
    BY <1>17, Measures
  <2>9. \A i \in 1..Len(r) : r[i] < GetArrayLength(N)[i]
    <3> TAKE i \in 1..Len(r)
    <3>1. i \in 1..d /\ i - 1 \in 0..d - 1 /\ i \in 1..j + 1
      BY <2>2, <2>5
    <3>2. CASE i = j + 1
      BY <2>3, <2>5, <2>8, <3>1, <3>2
    <3>3. CASE i # j + 1
      <4>1. i \in 1..Len(q)
        BY <2>2, <3>1, <3>3
      <4>2. PICK s : s = SubSeq(q, 1, i - 1)
        OBVIOUS
      <4>3. s \in DOMAIN N /\ q[i] < N[s].length
        BY <1>13, <4>1, <4>2
      <4>4. i - 1 \in 0..Len(q) /\ i - 1 < d
        BY <4>1, <3>1
      <4>5. Len(s) = i - 1
        BY <2>1, <4>2, <4>4, Beginnings
      <4>6. N[s].length \in Int /\ N[s].length <= N[First(i - 1)].length
        BY <1>11, <1>14, <4>3, <4>4, <4>5
      <4>7. N[First(i - 1)].length \in Int
        BY <1>9, <3>1
      <4>8. r[i] = q[i] /\ q[i] \in Nat
        BY <2>1, <2>2, <2>5, <4>1
      <4>9. q[i] < N[First(i - 1)].length
        BY <4>3, <4>6, <4>7, <4>8
      <4> QED BY <2>8, <3>1, <4>8, <4>9
    <3> QED BY <3>2, <3>3
  <2>10. r \in Box(d, GetArrayLength(N))
    <3>1. d \in 0..3 /\ Len(r) <= d
      BY <2>2, <2>5
    <3> QED BY <2>5, <2>8, <2>9, <3>1, InBox
  <2> QED BY <1>22, <2>7, <2>8, <2>10 DEF IsRectangular
<1>23. N # o => ~IsRectangular(N)
  BY <1>21, <1>22
<1> QED BY <1>17, <1>18, <1>19, <1>23 DEF N

-----------------------------------------------------------------------------
(***************************************************************************)
(* Every expand that the checks let through.                               *)
(***************************************************************************)

(* What an expand from o to N keeps, and what new elements are. *)
Keeps(o, N, tp) ==
  /\ DOMAIN o \subseteq DOMAIN N
  /\ \A p \in DOMAIN o : o[p].val # Nothing => N[p] = o[p]
  /\ \A p \in DOMAIN N : N[p].type # "ARRAY" =>
       (p \in DOMAIN o /\ N[p] = o[p]) \/ (p \notin DOMAIN o /\ N[p] = Blank(tp))

(* Rows have no value. *)
LEMMA RowsAreUnset ==
  ASSUME NEW o, NEW d \in 1..3, Whole(o, d), NEW p \in DOMAIN o
  PROVE  /\ Len(p) < d => o[p].val = Nothing /\ o[p].type = "ARRAY"
         /\ o[p].type = "ARRAY" => o[p].val = Nothing /\ Len(p) < d
         /\ Len(p) \in Nat /\ Len(p) <= d
<1>1. Len(p) \in Nat /\ Len(p) <= d
  BY DEF Whole
<1>2. Len(p) < d => o[p].val = Nothing /\ o[p].type = "ARRAY"
  BY DEF Whole, Block
<1>3. Len(p) = d => o[p].type # "ARRAY"
  BY DEF Whole
<1> QED BY <1>1, <1>2, <1>3

(* Elements of a last level that is kept are kept. *)
LEMMA LastLevelIsKept ==
  ASSUME NEW o, NEW d \in 1..3, Whole(o, d), NEW N, NEW e \in 1..3, Whole(N, e), NEW tp,
         DOMAIN o \subseteq DOMAIN N, LastLevel(o, N, e, tp),
         e # d => \A p \in DOMAIN o : o[p].val = Nothing
  PROVE  Keeps(o, N, tp)
<1>1. ASSUME NEW p \in DOMAIN o, o[p].val # Nothing PROVE N[p] = o[p]
  <2>1. e = d /\ Len(p) = d /\ p \in DOMAIN N
    BY <1>1, RowsAreUnset
  <2> QED BY <2>1 DEF LastLevel
<1>2. ASSUME NEW p \in DOMAIN N, N[p].type # "ARRAY" PROVE Len(p) = e
  BY <1>2, RowsAreUnset
<1> QED BY <1>1, <1>2 DEF Keeps, LastLevel

(* An expand leaves an array, and every value where it was. *)
LEMMA ExpandKeeps ==
  ASSUME NEW o, NEW d \in 1..3, Whole(o, d), NEW dims \in 1..3, NEW len \in [1..3 -> Int],
         NEW tp, tp # "ARRAY", ExpandCheck(o, dims, len) = "OK",
         d < dims => \A p \in DOMAIN o : o[p].val = Nothing,
         d < dims => \A p \in DOMAIN o : Len(p) = d => o[p].length = -1,
         o = [p \in DOMAIN o |-> o[p]]
  PROVE  /\ \E e \in 1..3 : Whole(Expanded(o, dims, len, tp), e)
         /\ Keeps(o, Expanded(o, dims, len, tp), tp)
         /\ IF TooLong(o, dims, len) = {} THEN IsRectangular(Expanded(o, dims, len, tp))
            ELSE Expanded(o, dims, len, tp) = o \/ ~IsRectangular(Expanded(o, dims, len, tp))
<1> DEFINE N == Expanded(o, dims, len, tp)
<1>1. CheckDimLength(dims, len) = "OK" /\ d <= dims
  BY Measures DEF ExpandCheck
<1>2. CASE TooLong(o, dims, len) # {}
  <2>1. /\ Whole(N, d) /\ LastLevel(o, N, d, tp) /\ DOMAIN o \subseteq DOMAIN N
        /\ N # o => ~IsRectangular(N)
    BY <1>1, <1>2, Fails
  <2> HIDE DEF N
  <2>2. Keeps(o, N, tp)
    BY <2>1, LastLevelIsKept
  <2> QED BY <1>2, <2>1, <2>2 DEF N
<1>3. CASE TooLong(o, dims, len) = {} /\ len[1] # 0
  <2>1. IsGridOf(N, dims, len) /\ LastLevel(o, N, dims, tp) /\ DOMAIN o \subseteq DOMAIN N
    BY <1>1, <1>3, Succeeds
  <2>2. (\A i \in 1..dims - 1 : len[i] > 0) /\ len[dims] >= 0
    BY <1>1, <1>3, Checked
  <2> HIDE DEF N
  <2>3. ASSUME NEW p \in DOMAIN N, Len(p) = dims PROVE IsCell(N[p]) /\ N[p].type # "ARRAY"
    <3>1. CASE p \in DOMAIN o
      <4>1. Len(p) <= d
        BY <3>1 DEF Whole
      <4>2. Len(p) = d
        BY <1>1, <2>3, <4>1
      <4>3. N[p] = o[p]
        BY <2>1, <2>3, <3>1 DEF LastLevel
      <4> QED BY <3>1, <4>2, <4>3 DEF Whole
    <3>2. CASE p \notin DOMAIN o
      <4>1. N[p] = Blank(tp)
        BY <2>1, <2>3, <3>2 DEF LastLevel
      <4> QED BY <4>1 DEF Blank, IsCell
    <3> QED BY <3>1, <3>2
  <2>4. Whole(N, dims) /\ IsRectangular(N)
    BY <2>1, <2>2, <2>3, GridIsWhole
  <2>5. dims # d => \A p \in DOMAIN o : o[p].val = Nothing
    <3>1. dims # d => d < dims
      BY <1>1
    <3> QED BY <3>1
  <2>6. Keeps(o, N, tp)
    BY <2>1, <2>4, <2>5, LastLevelIsKept
  <2> QED BY <1>3, <2>4, <2>6 DEF N
<1>4. CASE TooLong(o, dims, len) = {} /\ len[1] = 0
  <2>1. IsGridOf(N, dims, len) /\ DOMAIN o \subseteq DOMAIN N
    BY <1>1, <1>4, Succeeds
  <2>2. len[1] = 0
    BY <1>4
  <2> HIDE DEF N
  <2>3. ASSUME NEW e \in 1..3, NEW p PROVE p \in Box(e, len) <=> p \in Seq(Nat) /\ Len(p) = 0
    <3>1. e \in 0..3
      OBVIOUS
    <3>2. p \in Box(e, len) <=>
            p \in Seq(Nat) /\ Len(p) <= e /\ \A i \in 1..Len(p) : p[i] < len[i]
      BY <3>1, InBox
    <3>3. p \in Seq(Nat) /\ (\A i \in 1..Len(p) : p[i] < len[i]) => Len(p) = 0
      <4> SUFFICES ASSUME p \in Seq(Nat), \A i \in 1..Len(p) : p[i] < len[i] PROVE Len(p) = 0
        OBVIOUS
      <4>1. 1 \in 1..Len(p) => p[1] \in Nat /\ p[1] < 0
        BY <2>2
      <4> QED BY <4>1
    <3> QED BY <3>2, <3>3
  <2>4. 1 \in 1..3
    OBVIOUS
  <2>5. Box(dims, len) = Box(1, len)
    <3>1. \A p \in Box(dims, len) : p \in Box(1, len)
      BY <2>3, <2>4
    <3>2. \A p \in Box(1, len) : p \in Box(dims, len)
      BY <2>3, <2>4
    <3> QED BY <3>1, <3>2
  <2>6. \A p \in DOMAIN N : Len(p) = 0 /\ N[p] = Block(len[1])
    BY <2>1, <2>3 DEF IsGridOf
  <2>7. IsGridOf(N, 1, len)
    BY <2>1, <2>5, <2>6 DEF IsGridOf
  <2>8. Whole(N, 1) /\ IsRectangular(N)
    <3>1. \A p \in DOMAIN N : Len(p) = 1 => IsCell(N[p]) /\ N[p].type # "ARRAY"
      <4>1. ASSUME NEW p \in DOMAIN N PROVE Len(p) # 1
        <5>1. Len(p) = 0
          BY <2>6
        <5> QED BY <5>1
      <4> QED BY <4>1
    <3>2. (\A i \in 1..1 - 1 : len[i] > 0) /\ len[1] >= 0
      BY <2>2
    <3> QED BY <2>4, <2>7, <3>1, <3>2, GridIsWhole
  <2>9. \A p \in DOMAIN N : N[p].type = "ARRAY"
    BY <2>6 DEF Block
  <2>10. \A p \in DOMAIN o : o[p].val = Nothing
    BY <2>1, <2>6, RowsAreUnset
  <2>11. Keeps(o, N, tp)
    BY <2>1, <2>9, <2>10 DEF Keeps
  <2> QED BY <1>4, <2>8, <2>11 DEF N
<1> QED BY <1>2, <1>3, <1>4

-----------------------------------------------------------------------------
(***************************************************************************)
(* The inductive invariant.                                                *)
(***************************************************************************)

(* A text has a length. *)
LEMMA TextLength ==
  ASSUME NEW tp \in Types \cap Texts, NEW v \in ValuesOf[tp]
  PROVE  \E S : v \in Seq(S)
<1>1. v \in Seq({v[i] : i \in DOMAIN v})
  BY ValuesAssumption DEF Texts
<1> QED BY <1>1

(* What a cell is after it was set depends on its type and on the value. *)
LEMMA SetCellIs ==
  ASSUME NEW c, IsCell(c), c.type \in Types, NEW v \in ValuesOf[c.type]
  PROVE  /\ SetCell(c, v) = SetCell(Blank(c.type), v)
         /\ IsCell(SetCell(c, v)) /\ SetCell(c, v).type = c.type /\ SetCell(c, v).val = v
<1>1. c.type \in DataTypes
  BY TypesAssumption
<1>2. c = [type |-> c.type, length |-> c.length, val |-> c.val]
  BY DEF IsCell
<1>3. ASSUME NEW n \in Int, SetCell(c, v) = [c EXCEPT !.val = v, !.length = n],
             SetCell(Blank(c.type), v) = [Blank(c.type) EXCEPT !.val = v, !.length = n]
      PROVE  /\ SetCell(c, v) = SetCell(Blank(c.type), v)
             /\ IsCell(SetCell(c, v)) /\ SetCell(c, v).type = c.type /\ SetCell(c, v).val = v
  <2>1. SetCell(c, v) = [type |-> c.type, length |-> n, val |-> v]
    BY <1>2, <1>3
  <2>2. SetCell(Blank(c.type), v) = [type |-> c.type, length |-> n, val |-> v]
    BY <1>3 DEF Blank
  <2>3. IsCell([type |-> c.type, length |-> n, val |-> v])
    BY DEF IsCell
  <2> QED BY <2>1, <2>2, <2>3
<1>4. Blank(c.type).type = c.type
  BY DEF Blank
<1>5. CASE c.type = "STRING"
  <2>1. Len(v) + 1 \in Int
    BY <1>5, TextLength DEF Texts
  <2>2. /\ SetCell(c, v) = [c EXCEPT !.val = v, !.length = Len(v) + 1]
        /\ SetCell(Blank(c.type), v) = [Blank(c.type) EXCEPT !.val = v, !.length = Len(v) + 1]
    BY <1>4, <1>5 DEF SetCell, SetString
  <2> QED BY <1>3, <2>1, <2>2
<1>6. CASE c.type = "USTRING"
  <2>1. 4 * (Len(v) + 1) \in Int
    BY <1>6, TextLength DEF Texts
  <2>2. /\ SetCell(c, v) = [c EXCEPT !.val = v, !.length = 4 * (Len(v) + 1)]
        /\ SetCell(Blank(c.type), v)
             = [Blank(c.type) EXCEPT !.val = v, !.length = 4 * (Len(v) + 1)]
    BY <1>4, <1>6 DEF SetCell, SetUString
  <2> QED BY <1>3, <2>1, <2>2
<1>7. CASE c.type = "INTEGER"
  <2>1. /\ SetCell(c, v) = [c EXCEPT !.val = v, !.length = 4]
        /\ SetCell(Blank(c.type), v) = [Blank(c.type) EXCEPT !.val = v, !.length = 4]
    BY <1>4, <1>7 DEF SetCell, SetInt
  <2>2. 4 \in Int
    OBVIOUS
  <2> QED BY <1>3, <2>1, <2>2
<1>8. CASE c.type = "FLOAT"
  <2>1. /\ SetCell(c, v) = [c EXCEPT !.val = v, !.length = 8]
        /\ SetCell(Blank(c.type), v) = [Blank(c.type) EXCEPT !.val = v, !.length = 8]
    BY <1>4, <1>8 DEF SetCell, SetFloat
  <2>2. 8 \in Int
    OBVIOUS
  <2> QED BY <1>3, <2>1, <2>2
<1>9. CASE c.type = "BOOLEAN"
  <2>1. /\ SetCell(c, v) = [c EXCEPT !.val = v, !.length = 1]
        /\ SetCell(Blank(c.type), v) = [Blank(c.type) EXCEPT !.val = v, !.length = 1]
    BY <1>4, <1>9 DEF SetCell, SetBool
  <2>2. 1 \in Int
    OBVIOUS
  <2> QED BY <1>3, <2>1, <2>2
<1> QED BY <1>1, <1>5, <1>6, <1>7, <1>8, <1>9 DEF DataTypes

(* A cell is as it was set last, or as it was made. *)
IsKept(o, w, p) ==
  IF p \in DOMAIN w
  THEN o[p].type \in Types /\ w[p] \in ValuesOf[o[p].type]
       /\ o[p] = SetCell(Blank(o[p].type), w[p])
  ELSE o[p].val = Nothing /\ (o[p].type # "ARRAY" => o[p] = Blank(o[p].type))

(* The shape of a variable: none, an array, or a scalar. *)
IsShaped(o) ==
  DOMAIN o # {} =>
    /\ Top \in DOMAIN o
    /\ IF o[Top].type = "ARRAY" THEN \E d \in 1..3 : Whole(o, d) ELSE DOMAIN o = {Top}

ValueInv(o, w, a) ==
  /\ DOMAIN w \subseteq DOMAIN o
  /\ a \in Types \cup {"NULL"}
  /\ \A p \in DOMAIN o : IsKept(o, w, p)
  /\ IsShaped(o)

(* What a read gives back. *)
ReadInv ==
  call.fn = "Get" /\ ret = "OK" =>
    LET v == written[call.at]
    IN IF value[call.at].type \in Texts
       THEN IsPrefix(out, v) /\ (out = v \/ Len(out) = call.size)
       ELSE out = v

(* Half-way expanded arrays are ragged, and no others. *)
RaggedInv ==
  /\ value = [p \in DOMAIN value |-> value[p]]
  /\ halfway \in BOOLEAN
  /\ IsArray => (IsRectangular(value) <=> ~halfway)

Inv == ValueInv(value, written, arrtype) /\ ReadInv /\ RaggedInv

(* An element is a cell, and not set if it has no value. *)
LEMMA KeptCell ==
  ASSUME NEW o, NEW w, NEW p, IsKept(o, w, p)
  PROVE  /\ p \in DOMAIN w => IsCell(o[p]) /\ o[p].val = w[p] /\ w[p] # Nothing /\ o[p].type # "ARRAY"
         /\ p \notin DOMAIN w /\ o[p].type # "ARRAY" => IsCell(o[p]) /\ o[p].length = -1
         /\ p \in DOMAIN w <=> o[p].val # Nothing
<1>1. \A tp : IsCell(Blank(tp)) /\ Blank(tp).type = tp /\ Blank(tp).length = -1
  BY DEF IsCell, Blank
<1>2. ASSUME p \in DOMAIN w
      PROVE  IsCell(o[p]) /\ o[p].val = w[p] /\ w[p] # Nothing /\ o[p].type # "ARRAY"
  <2>1. PICK tp : tp = o[p].type
    OBVIOUS
  <2>2. tp \in Types /\ w[p] \in ValuesOf[tp] /\ o[p] = SetCell(Blank(tp), w[p])
    BY <1>2, <2>1 DEF IsKept
  <2>3. w[p] # Nothing
    BY <2>2, ValuesAssumption
  <2>4. IsCell(Blank(tp)) /\ Blank(tp).type \in Types /\ w[p] \in ValuesOf[Blank(tp).type]
    BY <1>1, <2>2
  <2>5. IsCell(o[p]) /\ o[p].val = w[p]
    BY <2>2, <2>4, SetCellIs
  <2>6. tp # "ARRAY"
    BY <2>2, TypesAssumption DEF DataTypes
  <2> QED BY <2>1, <2>3, <2>5, <2>6
<1>3. ASSUME p \notin DOMAIN w
      PROVE  o[p].val = Nothing /\ (o[p].type # "ARRAY" => IsCell(o[p]) /\ o[p].length = -1)
  <2>1. o[p].val = Nothing /\ (o[p].type # "ARRAY" => o[p] = Blank(o[p].type))
    BY <1>3 DEF IsKept
  <2> QED BY <1>1, <2>1
<1> QED BY <1>2, <1>3

(* Setting an element or a scalar. *)
WithCell(o, p, v) == [o EXCEPT ![p] = SetCell(o[p], v)]
WithWritten(w, p, v) == [q \in DOMAIN w \cup {p} |-> IF q = p THEN v ELSE w[q]]

(* The shape does not change, and no other cell. *)
LEMMA SetKeeps ==
  ASSUME NEW o, NEW w, NEW a, ValueInv(o, w, a), NEW p \in DOMAIN o, o[p].type \in Types,
         NEW v \in ValuesOf[o[p].type],
         NEW N, N = WithCell(o, p, v), NEW x, x = WithWritten(w, p, v)
  PROVE  /\ ValueInv(N, x, a)
         /\ o[Top].type = "ARRAY" => (IsRectangular(o) <=> IsRectangular(N))
         /\ N[Top].type = o[Top].type
<1>1. /\ DOMAIN N = DOMAIN o /\ N[p] = SetCell(o[p], v)
      /\ \A q \in DOMAIN o : q # p => N[q] = o[q]
  BY DEF WithCell
<1>2. /\ DOMAIN x = DOMAIN w \cup {p} /\ x[p] = v
      /\ \A q \in DOMAIN w : q # p => x[q] = w[q]
  BY DEF WithWritten
<1>3. IsCell(o[p]) /\ o[p].type # "ARRAY"
  <2>1. IsKept(o, w, p) /\ o[p].type # "ARRAY"
    BY TypesAssumption DEF ValueInv, DataTypes
  <2> QED BY <2>1, KeptCell
<1>4. /\ N[p] = SetCell(Blank(o[p].type), v)
      /\ IsCell(N[p]) /\ N[p].type = o[p].type /\ N[p].val = v
  BY <1>1, <1>3, SetCellIs
<1>5. \A q \in DOMAIN o : N[q].type = o[q].type
  BY <1>1, <1>4
<1>6. ASSUME NEW q \in DOMAIN N PROVE IsKept(N, x, q)
  <2>1. CASE q = p
    BY <1>2, <1>4, <2>1 DEF IsKept
  <2>2. CASE q # p
    <3>1. IsKept(o, w, q) /\ N[q] = o[q]
      BY <1>1, <2>2 DEF ValueInv
    <3>2. q \in DOMAIN x <=> q \in DOMAIN w
      BY <1>2, <2>2
    <3>3. q \in DOMAIN w => x[q] = w[q]
      BY <1>2, <2>2
    <3> QED BY <3>1, <3>2, <3>3 DEF IsKept
  <2> QED BY <2>1, <2>2
<1>7. Top \in DOMAIN o /\ N[Top].type = o[Top].type
  BY <1>5 DEF ValueInv, IsShaped
<1>8. ASSUME o[Top].type = "ARRAY"
      PROVE  /\ \E d \in 1..3 : Whole(N, d)
             /\ IsRectangular(o) <=> IsRectangular(N)
  <2>1. PICK d \in 1..3 : Whole(o, d)
    BY <1>7, <1>8 DEF ValueInv, IsShaped
  <2>2. Len(p) = d
    <3>1. Len(p) \in Nat /\ Len(p) <= d /\ ~(Len(p) < d)
      BY <1>3, <2>1, RowsAreUnset
    <3> QED BY <3>1
  <2>3. \A q \in DOMAIN o : Len(q) < d => N[q] = o[q]
    <3>1. \A q \in DOMAIN o : Len(q) < d => q # p
      BY <2>2
    <3> QED BY <1>1, <3>1
  <2>4. \A k \in 0..d - 1 : First(k) \in DOMAIN o /\ N[First(k)] = o[First(k)]
    <3> TAKE k \in 0..d - 1
    <3>1. First(k) \in DOMAIN o
      BY <2>1 DEF Whole
    <3>2. k \in Nat /\ k < d
      OBVIOUS
    <3>3. Len(First(k)) = k
      BY <3>2, Firsts
    <3> QED BY <2>3, <3>1, <3>2, <3>3
  <2>5. Whole(N, d)
    <3>1. DOMAIN N \subseteq Seq(Nat) /\ \A q \in DOMAIN N : Len(q) <= d
      BY <1>1, <2>1 DEF Whole
    <3>2. \A q \in DOMAIN N : Len(q) < d => N[q].length \in Int /\ N[q] = Block(N[q].length)
      BY <1>1, <2>1, <2>3 DEF Whole
    <3>3. \A q \in DOMAIN N : Len(q) = d => IsCell(N[q]) /\ N[q].type # "ARRAY"
      <4>1. \A q \in DOMAIN o : Len(q) = d => IsCell(o[q]) /\ o[q].type # "ARRAY"
        BY <2>1 DEF Whole
      <4> QED BY <1>1, <1>3, <1>4, <4>1
    <3>4. \A q \in DOMAIN N : \A k \in 1..Len(q) :
            SubSeq(q, 1, k - 1) \in DOMAIN N /\ q[k] < N[SubSeq(q, 1, k - 1)].length
      <4> SUFFICES ASSUME NEW q \in DOMAIN o, NEW k \in 1..Len(q)
                   PROVE  SubSeq(q, 1, k - 1) \in DOMAIN o /\ q[k] < N[SubSeq(q, 1, k - 1)].length
        BY <1>1
      <4>1. PICK r : r = SubSeq(q, 1, k - 1)
        OBVIOUS
      <4>2. r \in DOMAIN o /\ q[k] < o[r].length
        BY <2>1, <4>1 DEF Whole
      <4>3. q \in Seq(Nat) /\ Len(q) <= d /\ k - 1 \in 0..Len(q) /\ k - 1 < d
        <5>1. q \in Seq(Nat) /\ Len(q) <= d
          BY <2>1 DEF Whole
        <5> QED BY <5>1
      <4>4. Len(r) < d
        BY <4>1, <4>3, Beginnings
      <4> QED BY <2>3, <4>1, <4>2, <4>4
    <3>5. \A k \in 0..d - 1 :
            First(k) \in DOMAIN N /\ N[First(k)].length >= (IF k = d - 1 THEN 0 ELSE 1)
      <4>1. \A k \in 0..d - 1 : o[First(k)].length >= (IF k = d - 1 THEN 0 ELSE 1)
        BY <2>1 DEF Whole
      <4> QED BY <1>1, <2>4, <4>1
    <3>6. \A q \in DOMAIN N : Len(q) < d => N[q].length <= N[First(Len(q))].length
      <4> SUFFICES ASSUME NEW q \in DOMAIN o, Len(q) < d PROVE N[q].length <= N[First(Len(q))].length
        BY <1>1
      <4>1. Len(q) \in Nat
        BY <2>1 DEF Whole
      <4>2. Len(q) \in 0..d - 1
        BY <4>1
      <4>3. N[q] = o[q] /\ N[First(Len(q))] = o[First(Len(q))]
        BY <2>3, <2>4, <4>2
      <4>4. o[q].length <= o[First(Len(q))].length
        BY <2>1 DEF Whole
      <4> QED BY <4>3, <4>4
    <3> QED BY <3>1, <3>2, <3>3, <3>4, <3>5, <3>6 DEF Whole
  <2>6. GetArrayDimension(o) = d /\ GetArrayDimension(N) = d
    BY <2>1, <2>5, Measures
  <2>7. Box(d, GetArrayLength(o)) = Box(d, GetArrayLength(N))
    <3>1. GetArrayLength(o) \in [1..3 -> Int] /\ GetArrayLength(N) \in [1..3 -> Int]
      BY <2>1, <2>5, Measures
    <3>2. \A i \in 1..d : GetArrayLength(o)[i] = GetArrayLength(N)[i]
      <4> TAKE i \in 1..d
      <4>1. GetArrayLength(o)[i] = o[First(i - 1)].length
        BY <2>1, Measures
      <4>2. GetArrayLength(N)[i] = N[First(i - 1)].length
        BY <2>5, Measures
      <4>3. i - 1 \in 0..d - 1
        OBVIOUS
      <4> QED BY <2>4, <4>1, <4>2, <4>3
    <3>3. d \in 0..3
      OBVIOUS
    <3> QED BY <3>1, <3>2, <3>3, SameBox
  <2> QED BY <1>1, <2>5, <2>6, <2>7 DEF IsRectangular
<1>9. IsShaped(N)
  BY <1>1, <1>7, <1>8 DEF ValueInv, IsShaped
<1>10. ValueInv(N, x, a)
  BY <1>1, <1>2, <1>6, <1>9 DEF ValueInv
<1> QED BY <1>7, <1>8, <1>10

-----------------------------------------------------------------------------
(***************************************************************************)
(* Variables that are created or expanded.                                 *)
(***************************************************************************)

(* A scalar with a value. *)
LEMMA ScalarKeeps ==
  ASSUME NEW tp \in Types, NEW v \in ValuesOf[tp], NEW a \in Types \cup {"NULL"}
  PROVE  /\ ValueInv(Scalar(SetCell(Blank(tp), v)), Scalar(v), a)
         /\ Scalar(SetCell(Blank(tp), v))[Top].type # "ARRAY"
<1>1. IsCell(Blank(tp)) /\ Blank(tp).type = tp
  BY DEF IsCell, Blank
<1>2. SetCell(Blank(tp), v).type = tp
  BY <1>1, SetCellIs
<1>3. tp # "ARRAY"
  BY TypesAssumption DEF DataTypes
<1> DEFINE c == SetCell(Blank(tp), v)
           o == Scalar(c)
           w == Scalar(v)
<1>4. DOMAIN o = {Top} /\ DOMAIN w = {Top} /\ o[Top] = c /\ w[Top] = v
  BY DEF Scalar
<1>5. c = SetCell(Blank(c.type), v) /\ c.type = tp
  BY <1>2
<1> HIDE DEF o, w, c
<1>6. IsKept(o, w, Top)
  BY <1>4, <1>5 DEF IsKept
<1>7. IsShaped(o)
  BY <1>3, <1>4, <1>5 DEF IsShaped
<1>8. ValueInv(o, w, a) /\ o[Top].type # "ARRAY"
  BY <1>3, <1>4, <1>5, <1>6, <1>7 DEF ValueInv
<1> QED BY <1>8 DEF o, w, c

(* A scalar without a value. *)
LEMMA NullKeeps ==
  ASSUME NEW w, DOMAIN w = {}, NEW a \in Types \cup {"NULL"}
  PROVE  ValueInv(Scalar(Blank("NULL")), w, a) /\ Scalar(Blank("NULL"))[Top].type # "ARRAY"
<1>1. DOMAIN Scalar(Blank("NULL")) = {Top} /\ Scalar(Blank("NULL"))[Top] = Blank("NULL")
  BY DEF Scalar
<1>2. Blank("NULL").type = "NULL" /\ Blank("NULL").val = Nothing
  BY DEF Blank
<1>3. IsKept(Scalar(Blank("NULL")), w, Top)
  BY <1>1, <1>2 DEF IsKept
<1>4. IsShaped(Scalar(Blank("NULL")))
  BY <1>1, <1>2 DEF IsShaped
<1> QED BY <1>1, <1>2, <1>3, <1>4 DEF ValueInv

(* An array. *)
LEMMA NewKeeps ==
  ASSUME NEW dims \in 1..3, NEW len \in [1..3 -> Int], NEW d, d = NewDims(dims, len),
         CheckDimLength(d, len) = "OK", NEW tp \in Types \cup {"NULL"}, NEW w, DOMAIN w = {}
  PROVE  ValueInv(NewArray(d, len, tp), w, tp) /\ IsRectangular(NewArray(d, len, tp))
<1>1. tp # "ARRAY"
  BY TypesAssumption DEF DataTypes
<1> DEFINE o == NewArray(d, len, tp)
<1>0. d \in 1..3 /\ IsNewArray(o, d, tp)
  BY <1>1, NewIsWhole
<1> HIDE DEF o
<1>2. /\ d \in 1..3 /\ Whole(o, d) /\ IsRectangular(o)
      /\ \A p \in DOMAIN o : o[p].val = Nothing /\ (o[p].type # "ARRAY" => o[p] = Blank(tp))
  BY <1>0 DEF IsNewArray
<1>3. ASSUME NEW p \in DOMAIN o PROVE IsKept(o, w, p)
  <2>1. o[p].type # "ARRAY" => o[p] = Blank(o[p].type)
    BY <1>2 DEF Blank
  <2> QED BY <1>2, <2>1 DEF IsKept
<1>4. IsShaped(o)
  <2>1. Top \in DOMAIN o /\ o[Top].type = "ARRAY"
    BY <1>2, Measures
  <2> QED BY <1>2, <2>1 DEF IsShaped
<1>5. ValueInv(o, w, tp) /\ IsRectangular(o)
  BY <1>2, <1>3, <1>4 DEF ValueInv
<1> QED BY <1>5 DEF o

(* An array that is expanded. *)
LEMMA ExpandedKeeps ==
  ASSUME NEW o, NEW w, NEW a, ValueInv(o, w, a), NEW dims \in 1..3, NEW len \in [1..3 -> Int],
         ExpandCheck(o, dims, len) = "OK",
         dims > GetArrayDimension(o) => \A p \in DOMAIN o : o[p].val = Nothing,
         o = [p \in DOMAIN o |-> o[p]]
  PROVE  /\ ValueInv(Expanded(o, dims, len, a), w, a)
         /\ IF TooLong(o, dims, len) = {} THEN IsRectangular(Expanded(o, dims, len, a))
            ELSE Expanded(o, dims, len, a) = o \/ ~IsRectangular(Expanded(o, dims, len, a))
<1>1. a # "ARRAY"
  BY TypesAssumption DEF ValueInv, DataTypes
<1>2. DOMAIN o # {} /\ o[Top].type = "ARRAY"
  BY DEF ExpandCheck
<1>3. PICK d \in 1..3 : Whole(o, d)
  BY <1>2 DEF ValueInv, IsShaped
<1>4. d < dims => \A p \in DOMAIN o : o[p].val = Nothing
  BY <1>3, Measures
<1>5. d < dims => \A p \in DOMAIN o : Len(p) = d => o[p].length = -1
  <2> SUFFICES ASSUME d < dims, NEW p \in DOMAIN o, Len(p) = d PROVE o[p].length = -1
    OBVIOUS
  <2>1. o[p].val = Nothing /\ IsKept(o, w, p)
    BY <1>4 DEF ValueInv
  <2>2. o[p].type # "ARRAY"
    BY <1>3 DEF Whole
  <2> QED BY <2>1, <2>2, KeptCell
<1> DEFINE N == Expanded(o, dims, len, a)
<1>6. /\ \E e \in 1..3 : Whole(N, e)
      /\ Keeps(o, N, a)
      /\ IF TooLong(o, dims, len) = {} THEN IsRectangular(N) ELSE N = o \/ ~IsRectangular(N)
  BY <1>1, <1>3, <1>4, <1>5, ExpandKeeps
<1> HIDE DEF N
<1>7. PICK e \in 1..3 : Whole(N, e)
  BY <1>6
<1>8. DOMAIN w \subseteq DOMAIN N
  BY <1>6 DEF ValueInv, Keeps
<1>9. ASSUME NEW p \in DOMAIN N PROVE IsKept(N, w, p)
  <2>1. CASE p \in DOMAIN w
    <3>1. p \in DOMAIN o /\ IsKept(o, w, p)
      BY <2>1 DEF ValueInv
    <3>2. N[p] = o[p]
      BY <1>6, <2>1, <3>1, KeptCell DEF Keeps
    <3> QED BY <3>1, <3>2 DEF IsKept
  <2>2. CASE p \notin DOMAIN w /\ N[p].type = "ARRAY"
    BY <1>7, <2>2, RowsAreUnset DEF IsKept
  <2>3. CASE p \notin DOMAIN w /\ N[p].type # "ARRAY"
    <3>1. CASE p \in DOMAIN o
      <4>1. N[p] = o[p] /\ IsKept(o, w, p)
        BY <1>6, <2>3, <3>1 DEF Keeps, ValueInv
      <4> QED BY <4>1 DEF IsKept
    <3>2. CASE p \notin DOMAIN o
      <4>1. N[p] = Blank(a)
        BY <1>6, <2>3, <3>2 DEF Keeps
      <4> QED BY <2>3, <4>1 DEF IsKept, Blank
    <3> QED BY <3>1, <3>2
  <2> QED BY <2>1, <2>2, <2>3
<1>10. IsShaped(N)
  <2>1. Top \in DOMAIN N /\ N[Top].type = "ARRAY"
    BY <1>7, Measures
  <2> QED BY <1>7, <2>1 DEF IsShaped
<1>11. ValueInv(N, w, a)
  BY <1>8, <1>9, <1>10 DEF ValueInv
<1> QED BY <1>6, <1>11 DEF N

-----------------------------------------------------------------------------
(***************************************************************************)
(* The calls.                                                              *)
(***************************************************************************)

(* What a read of c gives back, x. *)
IsRead(c, x) ==
  LET v == written[c.at]
  IN IF value[c.at].type \in Texts
     THEN IsPrefix(x, v) /\ (x = v \/ Len(x) = c.size)
     ELSE x = v

(* What OnlyFailureIsRagged says of a step. *)
Straight ==
  ret' = "OK" /\ IsArray' /\ (call'.fn \in {"CreateNewArray", "ExpandArray"}
                               \/ IsRectangular(value))
    => IsRectangular(value')

(* A call that changes nothing. *)
LEMMA OnlyReturnsSteps ==
  ASSUME Inv, NEW c, NEW r, NEW x, OnlyReturns(c, r, x),
         r = "OK" => c.fn \notin {"CreateNewArray", "ExpandArray"},
         c.fn = "Get" /\ r = "OK" => IsRead(c, x)
  PROVE  Inv' /\ Straight
<1>1. /\ value' = value /\ arrtype' = arrtype /\ written' = written /\ halfway' = halfway
      /\ call' = c /\ ret' = r /\ out' = x
  BY DEF OnlyReturns, Returns
<1>2. ReadInv'
  BY <1>1 DEF ReadInv, IsRead
<1>3. ValueInv(value, written, arrtype)'
  BY <1>1 DEF Inv
<1>4. Straight
  BY <1>1 DEF Straight
<1>5. RaggedInv'
  BY <1>1 DEF Inv, RaggedInv, IsArray, Exists
<1> QED BY <1>2, <1>3, <1>4, <1>5 DEF Inv

(* A call that changes something, and is no read. *)
LEMMA ChangeSteps ==
  ASSUME NEW c, Returns(c, "OK", Nothing), c.fn # "Get",
         ValueInv(value', written', arrtype'), RaggedInv', Straight
  PROVE  Inv' /\ Straight
<1>1. ReadInv'
  BY DEF ReadInv, Returns
<1> QED BY <1>1 DEF Inv

(* The calls are told by their names. *)
LEMMA CallIs ==
  ASSUME NEW fn, NEW p, NEW n
  PROVE  Call(fn, p, n).fn = fn /\ Call(fn, p, n).at = p /\ Call(fn, p, n).size = n
BY DEF Call

(* rh4nvarCreateNew<Type>: the first value of a scalar, or nothing. *)
LEMMA CreateNewSteps ==
  ASSUME Inv, NEW tp \in Types, NEW v \in ValuesOf[tp], CreateNew(tp, v)
  PROVE  Inv' /\ Straight
<1> DEFINE c == Call("CreateNew", Top, 0)
<1>1. c.fn = "CreateNew"
  BY CallIs
<1>2. CASE IsNew = "OK"
  <2>1. /\ value' = Scalar(SetCell(Blank(tp), v)) /\ written' = Scalar(v)
        /\ Returns(c, "OK", Nothing) /\ arrtype' = arrtype /\ halfway' = halfway
    BY <1>2 DEF CreateNew, Tries
  <2>2. arrtype \in Types \cup {"NULL"}
    BY DEF Inv, ValueInv
  <2>3. ValueInv(value', written', arrtype') /\ value'[Top].type # "ARRAY"
    BY <2>1, <2>2, ScalarKeeps
  <2>4. Straight
    BY <2>3 DEF Straight, IsArray
  <2>5. RaggedInv'
    <3>1. halfway' \in BOOLEAN
      BY <2>1 DEF Inv, RaggedInv
    <3>2. value' = [p \in DOMAIN value' |-> value'[p]]
      BY <2>1 DEF Scalar
    <3> QED BY <2>3, <3>1, <3>2 DEF RaggedInv, IsArray
  <2> QED BY <1>1, <2>1, <2>3, <2>4, <2>5, ChangeSteps
<1>3. CASE IsNew # "OK"
  <2>1. OnlyReturns(c, IsNew, Nothing)
    BY <1>3 DEF CreateNew, Tries
  <2> HIDE DEF c
  <2> QED BY <1>1, <1>3, <2>1, OnlyReturnsSteps
<1> QED BY <1>2, <1>3

(* rh4nvarCreateNewNull: a scalar without a value, or nothing. *)
LEMMA CreateNewNullSteps ==
  ASSUME Inv, CreateNewNull
  PROVE  Inv' /\ Straight
<1> DEFINE c == Call("CreateNewNull", Top, 0)
<1>1. c.fn = "CreateNewNull"
  BY CallIs
<1>2. CASE IsNew = "OK"
  <2>1. /\ value' = Scalar(Blank("NULL")) /\ written' = written
        /\ Returns(c, "OK", Nothing) /\ arrtype' = arrtype /\ halfway' = halfway
    BY <1>2 DEF CreateNewNull, Tries
  <2>2. arrtype \in Types \cup {"NULL"} /\ DOMAIN written = {}
    BY <1>2 DEF Inv, ValueInv, IsNew, Exists
  <2>3. ValueInv(value', written', arrtype') /\ value'[Top].type # "ARRAY"
    BY <2>1, <2>2, NullKeeps
  <2>4. Straight
    BY <2>3 DEF Straight, IsArray
  <2>5. RaggedInv'
    <3>1. halfway' \in BOOLEAN
      BY <2>1 DEF Inv, RaggedInv
    <3>2. value' = [p \in DOMAIN value' |-> value'[p]]
      BY <2>1 DEF Scalar
    <3> QED BY <2>3, <3>1, <3>2 DEF RaggedInv, IsArray
  <2> QED BY <1>1, <2>1, <2>3, <2>4, <2>5, ChangeSteps
<1>3. CASE IsNew # "OK"
  <2>1. OnlyReturns(c, IsNew, Nothing)
    BY <1>3 DEF CreateNewNull, Tries
  <2> HIDE DEF c
  <2> QED BY <1>1, <1>3, <2>1, OnlyReturnsSteps
<1> QED BY <1>2, <1>3

(* rh4nvarCreateNew<Type>Array_m: a rectangle of elements that are not set. *)
LEMMA CreateNewArraySteps ==
  ASSUME Inv, NEW dims \in 1..3, NEW len \in Lengths, NEW tp \in Types \cup {"NULL"},
         CreateNewArray(dims, len, tp)
  PROVE  Inv' /\ Straight
<1> DEFINE c == Call("CreateNewArray", Top, 0)
           d == NewDims(dims, len)
           check == IF CheckDimLength(d, len) = "OK" THEN IsNew ELSE CheckDimLength(d, len)
<1>1. c.fn = "CreateNewArray"
  BY CallIs
<1>2. len \in [1..3 -> Int]
  BY LengthsAssumption
<1>3. CASE check = "OK"
  <2>1. /\ value' = NewArray(d, len, tp) /\ written' = written
        /\ Returns(c, "OK", Nothing) /\ arrtype' = tp /\ halfway' = FALSE
    BY <1>3 DEF CreateNewArray, Tries
  <2>2. CheckDimLength(d, len) = "OK" /\ IsNew = "OK"
    BY <1>3
  <2>3. DOMAIN written = {}
    BY <2>2 DEF Inv, ValueInv, IsNew, Exists
  <2>4. ValueInv(value', written', arrtype') /\ IsRectangular(value')
    BY <1>2, <2>1, <2>2, <2>3, NewKeeps
  <2>5. Straight
    BY <2>4 DEF Straight
  <2>6. RaggedInv'
    BY <2>1, <2>4 DEF RaggedInv, NewArray
  <2> QED BY <1>1, <2>1, <2>4, <2>5, <2>6, ChangeSteps
<1>4. CASE check # "OK"
  <2>1. OnlyReturns(c, check, Nothing)
    BY <1>4 DEF CreateNewArray, Tries
  <2> HIDE DEF c, check
  <2> QED BY <1>1, <1>4, <2>1, OnlyReturnsSteps
<1> QED BY <1>3, <1>4

(* rh4nvarExpandArray: what was set is kept, also when it fails. *)
LEMMA ExpandSteps ==
  ASSUME Inv, NEW dims \in 1..3, NEW len \in Lengths, Expand(dims, len)
  PROVE  Inv' /\ Straight
<1> DEFINE c == Call("ExpandArray", Top, 0)
<1>1. c.fn = "ExpandArray"
  BY CallIs
<1>2. len \in [1..3 -> Int]
  BY LengthsAssumption
<1>3. PICK check : check = ExpandCheck(value, dims, len)
  OBVIOUS
<1>4. CASE check = "OK"
  <2> DEFINE r == IF TooLong(value, dims, len) = {} THEN "OK" ELSE "VAR_BAD_LENGTH"
             N == Expanded(value, dims, len, arrtype)
  <2>1. ExpandArray(value, dims, len, arrtype) = [ret |-> r, value |-> N]
    BY <1>3, <1>4 DEF ExpandArray
  <2>2. /\ value' = N /\ written' = written /\ arrtype' = arrtype
        /\ Returns(c, r, Nothing)
        /\ halfway' = (r # "OK" /\ (halfway \/ N # value))
        /\ Exists /\ value[Top].type = "ARRAY" => ExpandsOnlyUnset(dims)
    BY <2>1 DEF Expand
  <2>3. DOMAIN value # {} /\ value[Top].type = "ARRAY"
    BY <1>3, <1>4 DEF ExpandCheck
  <2>4. dims > GetArrayDimension(value) => \A p \in DOMAIN value : value[p].val = Nothing
    BY <2>2, <2>3 DEF Exists, ExpandsOnlyUnset
  <2>5. /\ ValueInv(N, written, arrtype)
        /\ IF TooLong(value, dims, len) = {} THEN IsRectangular(N)
           ELSE N = value \/ ~IsRectangular(N)
    BY <1>2, <1>3, <1>4, <2>4, ExpandedKeeps DEF Inv, RaggedInv
  <2>9. N = [p \in DOMAIN N |-> N[p]]
    BY DEF Expanded
  <2> HIDE DEF N, c
  <2>6. ret' = r /\ call' = c
    BY <2>2 DEF Returns
  <2>7. ReadInv'
    BY <1>1, <2>6 DEF ReadInv
  <2>8. Straight
    BY <2>2, <2>5, <2>6 DEF Straight
  <2>10. RaggedInv'
    <3>1. value' = [p \in DOMAIN value' |-> value'[p]]
      BY <2>2, <2>9
    <3>2. IsRectangular(value) <=> ~halfway
      BY <2>3 DEF Inv, RaggedInv, IsArray, Exists
    <3>3. IsRectangular(value') <=> ~halfway'
      BY <2>2, <2>5, <3>2
    <3>4. halfway' \in BOOLEAN
      BY <2>2
    <3> QED BY <3>1, <3>3, <3>4 DEF RaggedInv
  <2> QED BY <2>2, <2>5, <2>7, <2>8, <2>10 DEF Inv
<1>5. CASE check # "OK"
  <2>1. ExpandArray(value, dims, len, arrtype) = [ret |-> check, value |-> value]
    BY <1>3, <1>5 DEF ExpandArray
  <2>2. OnlyReturns(c, check, Nothing)
    <3>1. halfway \in BOOLEAN
      BY DEF Inv, RaggedInv
    <3> QED BY <1>5, <2>1, <3>1 DEF Expand, OnlyReturns
  <2> HIDE DEF c
  <2> QED BY <1>1, <1>5, <2>2, OnlyReturnsSteps
<1> QED BY <1>4, <1>5

(* rh4nvarGetArrayVarType changes nothing. *)
LEMMA GetArrayVarTypeSteps ==
  ASSUME Inv, GetArrayVarType
  PROVE  Inv' /\ Straight
<1> DEFINE c == Call("GetArrayVarType", Top, 0)
<1>1. c.fn = "GetArrayVarType"
  BY CallIs
<1>2. \/ OnlyReturns(c, "OK", arrtype)
      \/ OnlyReturns(c, "VAR_PTR_ERR", Nothing)
  BY DEF GetArrayVarType, Tries
<1> HIDE DEF c
<1> QED BY <1>1, <1>2, OnlyReturnsSteps

(* What is set is a scalar or an element of its type. *)
LEMMA SetsSteps ==
  ASSUME Inv, NEW c, c.fn # "Get", c.fn \notin {"CreateNewArray", "ExpandArray"},
         NEW p \in DOMAIN value, value[p].type \in Types,
         NEW v \in ValuesOf[value[p].type], Sets(c, p, v)
  PROVE  Inv' /\ Straight
<1>1. PICK N, x : N = WithCell(value, p, v) /\ x = WithWritten(written, p, v)
  OBVIOUS
<1>2. /\ ValueInv(N, x, arrtype)
      /\ value[Top].type = "ARRAY" => (IsRectangular(value) <=> IsRectangular(N))
      /\ N[Top].type = value[Top].type
  <2>1. ValueInv(value, written, arrtype)
    BY DEF Inv
  <2> QED BY <1>1, <2>1, SetKeeps
<1>3. /\ Returns(c, "OK", Nothing) /\ value' = N /\ written' = x /\ arrtype' = arrtype
      /\ halfway' = halfway
  BY <1>1 DEF Sets, WithCell, WithWritten
<1>4. Straight
  BY <1>2, <1>3 DEF Straight, IsArray, Returns
<1>5. RaggedInv'
  <2>1. N = [q \in DOMAIN N |-> N[q]]
    BY <1>1 DEF WithCell
  <2>2. IsArray' => IsArray
    BY <1>2, <1>3 DEF IsArray, Exists
  <2> QED BY <1>2, <1>3, <2>1, <2>2 DEF Inv, RaggedInv, IsArray
<1> QED BY <1>2, <1>3, <1>4, <1>5, ChangeSteps

(* An entry that is found is a cell of an array. *)
LEMMA Found ==
  ASSUME NEW o, NEW w, NEW a, ValueInv(o, w, a), DOMAIN o # {}, NEW p \in Seq(Int), p # <<>>,
         GetArrayEntry(o, p) = "OK"
  PROVE  p \in DOMAIN o
<1>1. Misses(o, p) = {}
  <2>1. o[Top].type = "ARRAY"
    BY DEF GetArrayEntry
  <2>2. ASSUME Misses(o, p) # {} PROVE FALSE
    BY <2>1, <2>2 DEF GetArrayEntry
  <2> QED BY <2>2
<1>2. Len(p) \in 1..Len(p)
  OBVIOUS
<1>3. SubSeq(p, 1, Len(p)) \in DOMAIN o
  BY <1>1, <1>2 DEF Misses
<1> QED BY <1>3, WholePath

(* rh4nvarEdit<Type>: a scalar of that type is set, or nothing. *)
LEMMA EditSteps ==
  ASSUME Inv, NEW tp \in Types, NEW v \in ValuesOf[tp], Edit(tp, v)
  PROVE  Inv' /\ Straight
<1> DEFINE c == Call("Edit", Top, 0)
<1>1. c.fn = "Edit"
  BY CallIs
<1>2. CASE ScalarRet(tp) = "OK"
  <2>1. Sets(c, Top, v)
    BY <1>2 DEF Edit, Tries
  <2>2. DOMAIN value # {} /\ value[Top].type = tp
    BY <1>2 DEF ScalarRet, Exists
  <2>3. Top \in DOMAIN value
    BY <2>2 DEF Inv, ValueInv, IsShaped
  <2> HIDE DEF c
  <2> QED BY <1>1, <2>1, <2>2, <2>3, SetsSteps
<1>3. CASE ScalarRet(tp) # "OK"
  <2>1. OnlyReturns(c, ScalarRet(tp), Nothing)
    BY <1>3 DEF Edit, Tries
  <2> HIDE DEF c
  <2> QED BY <1>1, <1>3, <2>1, OnlyReturnsSteps
<1> QED BY <1>2, <1>3

(* An entry of its type is one that is there. *)
LEMMA EntryIs ==
  ASSUME Inv, NEW tp, NEW p \in Indices, p # <<>>, EntryRet(tp, p) = "OK"
  PROVE  p \in DOMAIN value /\ value[p].type = tp
<1>1. DOMAIN value # {} /\ GetArrayEntry(value, p) = "OK" /\ value[p].type = tp
  BY DEF EntryRet, Exists
<1>2. p \in Seq(Int)
  BY IndicesAssumption
<1> QED BY <1>1, <1>2, Found DEF Inv

(* rh4nvarSet<Type>ArrayEntry: an element of that type is set, or nothing. *)
LEMMA SetEntrySteps ==
  ASSUME Inv, NEW tp \in Types, NEW v \in ValuesOf[tp], NEW p \in Indices, SetEntry(tp, p, v)
  PROVE  Inv' /\ Straight
<1> DEFINE c == Call("SetEntry", p, 0)
<1>1. c.fn = "SetEntry"
  BY CallIs
<1>2. p # <<>>
  BY DEF SetEntry, Inside
<1>3. CASE EntryRet(tp, p) = "OK"
  <2>1. Sets(c, p, v)
    BY <1>3 DEF SetEntry, Tries
  <2>2. p \in DOMAIN value /\ value[p].type = tp
    BY <1>2, <1>3, EntryIs
  <2> HIDE DEF c
  <2> QED BY <1>1, <2>1, <2>2, SetsSteps
<1>4. CASE EntryRet(tp, p) # "OK"
  <2>1. OnlyReturns(c, EntryRet(tp, p), Nothing)
    BY <1>4 DEF SetEntry, Tries
  <2> HIDE DEF c
  <2> QED BY <1>1, <1>4, <2>1, OnlyReturnsSteps
<1> QED BY <1>3, <1>4

(* rh4nvarSetArrayEntry_m: an element is set by its own type, or nothing. *)
LEMMA SetArrayEntry_mSteps ==
  ASSUME Inv, NEW tp \in Types, NEW v \in ValuesOf[tp], NEW p \in Indices,
         SetArrayEntry_m(tp, p, v)
  PROVE  Inv' /\ Straight
<1> DEFINE c == Call("SetEntry", p, 0)
           check == IF Exists THEN GetArrayEntry(value, p) ELSE "VAR_PTR_ERR"
           sets == check = "OK" /\ value[p].type \in DataTypes \ {"USTRING"}
<1>1. c.fn = "SetEntry"
  BY CallIs
<1>2. /\ p # <<>> /\ (sets => value[p].type = tp)
      /\ IF check = "OK" THEN IF sets THEN Sets(c, p, v) ELSE OnlyReturns(c, "OK", Nothing)
         ELSE OnlyReturns(c, check, Nothing)
  BY DEF SetArrayEntry_m, Inside, Tries
<1>3. CASE sets
  <2>1. DOMAIN value # {} /\ GetArrayEntry(value, p) = "OK"
    BY <1>3 DEF Exists
  <2>2. p \in Seq(Int)
    BY IndicesAssumption
  <2>3. p \in DOMAIN value
    BY <1>2, <2>1, <2>2, Found DEF Inv
  <2>4. Sets(c, p, v) /\ value[p].type = tp
    BY <1>2, <1>3
  <2> HIDE DEF c
  <2> QED BY <1>1, <2>3, <2>4, SetsSteps
<1>4. CASE ~sets
  <2>1. OnlyReturns(c, "OK", Nothing) \/ OnlyReturns(c, check, Nothing)
    BY <1>2, <1>4
  <2> HIDE DEF c, check
  <2> QED BY <1>1, <2>1, OnlyReturnsSteps
<1> QED BY <1>3, <1>4

(* What has a value was set, and what a read takes from it is as it was set. *)
LEMMA ReadIs ==
  ASSUME Inv, NEW p \in DOMAIN value, value[p].val # Nothing, NEW n \in Buffers \cup {0},
         value[p].type \in Texts => n \in Buffers
  PROVE  IsRead(Call("Get", p, n), Copied(value[p].type, value[p].val, n))
<1> DEFINE tp == value[p].type
           x == value[p].val
           c == Call("Get", p, n)
<1>6. c.at = p /\ c.size = n /\ value[p].type = tp
  BY CallIs
<1>1. IsKept(value, written, p)
  BY DEF Inv, ValueInv
<1>2. p \in DOMAIN written /\ written[p] = x
  BY <1>1, KeptCell
<1>3. tp \in Types /\ x \in ValuesOf[tp]
  BY <1>1, <1>2 DEF IsKept
<1>4. CASE tp \notin Texts
  <2>1. Copied(tp, x, n) = x
    BY <1>4 DEF Copied
  <2> QED BY <1>2, <1>4, <2>1, CallIs DEF IsRead
<1>5. CASE tp \in Texts
  <2>1. PICK S : x \in Seq(S)
    BY <1>3, <1>5, TextLength
  <2>2. n \in Nat
    BY <1>5, BuffersAssumption
  <2> HIDE DEF x, tp, c
  <2> SUFFICES IsRead(c, Copied(tp, x, n))
    BY DEF x, tp, c
  <2>3. CASE n < Len(x)
    <3>1. Copied(tp, x, n) = SubSeq(x, 1, n)
      BY <1>5, <2>3 DEF Copied
    <3>2. n \in 0..Len(x)
      BY <2>1, <2>2, <2>3
    <3>3. Len(SubSeq(x, 1, n)) = n /\ SubSeq(SubSeq(x, 1, n), 1, n) = SubSeq(x, 1, n)
      BY <2>1, <3>2, Beginnings
    <3>4. IsPrefix(SubSeq(x, 1, n), x)
      BY <3>2, <3>3 DEF IsPrefix
    <3> QED BY <1>2, <1>5, <1>6, <3>1, <3>3, <3>4 DEF IsRead
  <2>4. CASE ~(n < Len(x))
    <3>1. Copied(tp, x, n) = x
      BY <2>4 DEF Copied
    <3>2. IsPrefix(x, x)
      BY <2>1 DEF IsPrefix
    <3> QED BY <1>2, <1>5, <1>6, <3>1, <3>2 DEF IsRead
  <2> QED BY <2>3, <2>4
<1> QED BY <1>4, <1>5

(* rh4nvarGet<Type> gives back what was set. *)
LEMMA GetSteps ==
  ASSUME Inv, NEW tp \in Types, NEW n \in Buffers \cup {0}, tp \in Texts => n \in Buffers,
         Get(tp, n)
  PROVE  Inv' /\ Straight
<1> DEFINE c == Call("Get", Top, n)
<1>1. c.fn = "Get"
  BY CallIs
<1>2. CASE ScalarRet(tp) = "OK"
  <2>1. Readable(Top) /\ OnlyReturns(c, "OK", Copied(tp, value[Top].val, n))
    BY <1>2 DEF Get, Tries, Gives
  <2>2. DOMAIN value # {} /\ value[Top].type = tp
    BY <1>2 DEF ScalarRet, Exists
  <2>3. Top \in DOMAIN value
    BY <2>2 DEF Inv, ValueInv, IsShaped
  <2>4. IsRead(c, Copied(value[Top].type, value[Top].val, n))
    BY <2>1, <2>2, <2>3, ReadIs DEF Readable
  <2> HIDE DEF c
  <2> QED BY <1>1, <2>1, <2>2, <2>4, OnlyReturnsSteps
<1>3. CASE ScalarRet(tp) # "OK"
  <2>1. OnlyReturns(c, ScalarRet(tp), Nothing)
    BY <1>3 DEF Get, Tries
  <2> HIDE DEF c
  <2> QED BY <1>1, <1>3, <2>1, OnlyReturnsSteps
<1> QED BY <1>2, <1>3

(* rh4nvarGet<Type>ArrayEntry gives back what was set there. *)
LEMMA GetEntrySteps ==
  ASSUME Inv, NEW tp \in Types, NEW n \in Buffers \cup {0}, tp \in Texts => n \in Buffers,
         NEW p \in Indices, GetEntry(tp, p, n)
  PROVE  Inv' /\ Straight
<1> DEFINE c == Call("Get", p, n)
<1>1. c.fn = "Get"
  BY CallIs
<1>2. p # <<>>
  BY DEF GetEntry, Inside
<1>3. CASE EntryRet(tp, p) = "OK"
  <2>1. Readable(p) /\ OnlyReturns(c, "OK", Copied(tp, value[p].val, n))
    BY <1>3 DEF GetEntry, Tries, Gives
  <2>2. p \in DOMAIN value /\ value[p].type = tp
    BY <1>2, <1>3, EntryIs
  <2>3. IsRead(c, Copied(value[p].type, value[p].val, n))
    BY <2>1, <2>2, ReadIs DEF Readable
  <2> HIDE DEF c
  <2> QED BY <1>1, <2>1, <2>2, <2>3, OnlyReturnsSteps
<1>4. CASE EntryRet(tp, p) # "OK"
  <2>1. OnlyReturns(c, EntryRet(tp, p), Nothing)
    BY <1>4 DEF GetEntry, Tries
  <2> HIDE DEF c
  <2> QED BY <1>1, <1>4, <2>1, OnlyReturnsSteps
<1> QED BY <1>3, <1>4

(* rh4nvarGet<Type>Length changes nothing. *)
LEMMA GetLengthSteps ==
  ASSUME Inv, NEW tp, GetLength(tp)
  PROVE  Inv' /\ Straight
<1> DEFINE c == Call("GetLength", Top, 0)
<1>1. c.fn = "GetLength"
  BY CallIs
<1>2. \/ OnlyReturns(c, "OK", Len(value[Top].val))
      \/ OnlyReturns(c, ScalarRet(tp), Nothing)
  BY DEF GetLength, Tries, Gives
<1> HIDE DEF c
<1> QED BY <1>1, <1>2, OnlyReturnsSteps

(* rh4nvarGet<Type>LengthArrayEntry changes nothing. *)
LEMMA GetLengthEntrySteps ==
  ASSUME Inv, NEW tp, NEW p, GetLengthEntry(tp, p)
  PROVE  Inv' /\ Straight
<1> DEFINE c == Call("GetLength", p, 0)
<1>1. c.fn = "GetLength"
  BY CallIs
<1>2. \/ OnlyReturns(c, "OK", Len(value[p].val))
      \/ OnlyReturns(c, EntryRet(tp, p), Nothing)
  BY DEF GetLengthEntry, Tries, Gives
<1> HIDE DEF c
<1> QED BY <1>1, <1>2, OnlyReturnsSteps

-----------------------------------------------------------------------------
(***************************************************************************)
(* The theorems.                                                           *)
(***************************************************************************)

(* In the beginning there is no variable. *)
LEMMA InitIs == Init => Inv
<1> SUFFICES ASSUME Init PROVE Inv
  OBVIOUS
<1>1. DOMAIN value = {} /\ DOMAIN written = {} /\ arrtype = "NULL"
  BY DEF Init, NoVar
<1>2. ReadInv
  BY CallIs DEF Init, ReadInv
<1>3. RaggedInv
  <2>1. value = [p \in DOMAIN value |-> value[p]]
    BY DEF Init, NoVar
  <2>2. halfway = FALSE
    BY DEF Init
  <2> QED BY <1>1, <2>1, <2>2 DEF RaggedInv, IsArray, Exists
<1> QED BY <1>1, <1>2, <1>3 DEF Inv, ValueInv, IsShaped

(* The calls of a type. *)
TypedCalls(tp) ==
  \/ \E v \in ValuesOf[tp] : CreateNew(tp, v) \/ Edit(tp, v)
  \/ \E dims \in 1..3, len \in Lengths : CreateNewArray(dims, len, tp)
  \/ \E p \in Indices, v \in ValuesOf[tp] : SetEntry(tp, p, v) \/ SetArrayEntry_m(tp, p, v)
  \/ \E n \in Buffers \cup {0} :
       (tp \in Texts => n \in Buffers) /\ (Get(tp, n) \/ \E p \in Indices : GetEntry(tp, p, n))
  \/ GetLength(tp)
  \/ \E p \in Indices : GetLengthEntry(tp, p)

(* Each of them keeps the invariant. *)
LEMMA TypedSteps ==
  ASSUME Inv, NEW tp \in Types, TypedCalls(tp)
  PROVE  Inv' /\ Straight
<1>1. CASE \E v \in ValuesOf[tp] : CreateNew(tp, v) \/ Edit(tp, v)
  BY <1>1, CreateNewSteps, EditSteps
<1>2. CASE \E dims \in 1..3, len \in Lengths : CreateNewArray(dims, len, tp)
  BY <1>2, CreateNewArraySteps
<1>3. CASE \E p \in Indices, v \in ValuesOf[tp] : SetEntry(tp, p, v) \/ SetArrayEntry_m(tp, p, v)
  BY <1>3, SetEntrySteps, SetArrayEntry_mSteps
<1>4. CASE \E n \in Buffers \cup {0} :
             (tp \in Texts => n \in Buffers) /\ (Get(tp, n) \/ \E p \in Indices : GetEntry(tp, p, n))
  BY <1>4, GetSteps, GetEntrySteps
<1>5. CASE GetLength(tp)
  BY <1>5, GetLengthSteps
<1>6. CASE \E p \in Indices : GetLengthEntry(tp, p)
  BY <1>6, GetLengthEntrySteps
<1> QED BY <1>1, <1>2, <1>3, <1>4, <1>5, <1>6 DEF TypedCalls

(* Every call of every type is one of those, and keeps the invariant. *)
LEMMA NextIs ==
  ASSUME Inv, Next
  PROVE  Inv' /\ Straight
<1>1. CASE StringCalls
  <2>1. "STRING" \in Types /\ TypedCalls("STRING")
    BY <1>1 DEF StringCalls, TypedCalls, CreateNewString, EditString, GetString, GetStringLength,
                CreateNewStringArray, SetStringArrayEntry, SetStringArrayEntry_m,
                GetStringArrayEntry, GetStringLengthArrayEntry
  <2> QED BY <2>1, TypedSteps
<1>2. CASE UStringCalls
  <2>1. "USTRING" \in Types /\ TypedCalls("USTRING")
    BY <1>2 DEF UStringCalls, TypedCalls, CreateNewUString, EditUString, GetUString,
                GetUStringLength, CreateNewUStringArray, SetUStringArrayEntry,
                GetUStringArrayEntry, GetUStringLengthArrayEntry
  <2> QED BY <2>1, TypedSteps
<1>3. CASE IntCalls
  <2>1. "INTEGER" \in Types /\ TypedCalls("INTEGER")
    BY <1>3 DEF IntCalls, TypedCalls, CreateNewInt, EditInt, GetInt, CreateNewIntArray,
                SetIntArrayEntry, SetIntArrayEntry_m, GetIntArrayEntry, Texts
  <2> QED BY <2>1, TypedSteps
<1>4. CASE FloatCalls
  <2>1. "FLOAT" \in Types /\ TypedCalls("FLOAT")
    BY <1>4 DEF FloatCalls, TypedCalls, CreateNewFloat, EditFloat, GetFloat, CreateNewFloatArray,
                SetFloatArrayEntry, SetFloatArrayEntry_m, GetFloatArrayEntry, Texts
  <2> QED BY <2>1, TypedSteps
<1>5. CASE BoolCalls
  <2>1. "BOOLEAN" \in Types /\ TypedCalls("BOOLEAN")
    BY <1>5 DEF BoolCalls, TypedCalls, CreateNewBool, EditBool, GetBool, CreateNewBoolArray,
                SetBoolArrayEntry, SetBoolArrayEntry_m, GetBoolArrayEntry, Texts
  <2> QED BY <2>1, TypedSteps
<1>6. CASE CreateNewNull
  BY <1>6, CreateNewNullSteps
<1>7. CASE \E dims \in 1..3, len \in Lengths : CreateNewNullArray_m(dims, len)
  BY <1>7, CreateNewArraySteps DEF CreateNewNullArray_m
<1>8. CASE \E dims \in 1..3, len \in Lengths : Expand(dims, len)
  BY <1>8, ExpandSteps
<1>9. CASE GetArrayVarType
  BY <1>9, GetArrayVarTypeSteps
<1> QED BY <1>1, <1>2, <1>3, <1>4, <1>5, <1>6, <1>7, <1>8, <1>9 DEF Next

(* A step of somebody else changes nothing. *)
LEMMA StutterIs ==
  ASSUME Inv, UNCHANGED vars
  PROVE  Inv'
BY DEF vars, Inv, ReadInv, RaggedInv, IsArray, Exists

(* The invariant holds throughout. *)
THEOREM Invariance == Spec => []Inv
<1>1. Inv /\ [Next]_vars => Inv'
  BY NextIs, StutterIs
<1> QED BY InitIs, <1>1, PTL DEF Spec

(* What was set last stays at its index with the size of its type, whatever *)
(* call follows, and is what the calls that read give back.                *)
THEOREM SetIsKeptCorrect == Spec => []SetIsKept
<1>1. Inv => SetIsKept
  <2> SUFFICES ASSUME Inv PROVE SetIsKept
    OBVIOUS
  <2>1. ASSUME NEW p \in DOMAIN value
        PROVE  IF p \in DOMAIN written
               THEN /\ value[p] = SetCell(Blank(value[p].type), written[p])
                    /\ IsArray => GetArrayEntry(value, p) = "OK"
               ELSE value[p].val = Nothing
    <3>1. IsKept(value, written, p)
      BY DEF Inv, ValueInv
    <3>2. IsArray => GetArrayEntry(value, p) = "OK"
      BY NothingMissed DEF IsArray, Exists, Inv, ValueInv, IsShaped
    <3> QED BY <3>1, <3>2 DEF IsKept
  <2>2. ReadInv
    BY DEF Inv
  <2> QED BY <2>1, <2>2 DEF SetIsKept, ReadInv
<1> QED BY Invariance, <1>1, PTL

(* Only an expand that fails leaves rows of different lengths, and one that *)
(* succeeds makes even such an array rectangular.                          *)
THEOREM OnlyFailureIsRaggedCorrect == Spec => OnlyFailureIsRagged
<1>1. Inv /\ [Next]_vars => [Straight]_vars
  BY NextIs
<1>2. Spec => [][Straight]_vars
  BY Invariance, <1>1, PTL DEF Spec
<1> QED BY <1>2 DEF OnlyFailureIsRagged, Straight

(* rh4nvarFreeArray frees every row and element once, if and only if no     *)
(* expand failed half-way since the last one that succeeded.               *)
THEOREM FreedWholeCorrect == Spec => []FreedWhole
<1>1. Inv => FreedWhole
  BY RectangularIsFreed DEF FreedWhole, IsArray, Exists, Inv, ValueInv, IsShaped, RaggedInv
<1> QED BY Invariance, <1>1, PTL
=============================================================================
