--------------------------- MODULE NatParmsProofs ---------------------------
(***************************************************************************)
(* For any row of parameters and variables, and whatever NNI calls fail:   *)
(* a parameter holds nothing but its first content and elements of its own *)
(* variable (HoldsElementsCorrect), a put that says OK has put all of them *)
(* (PutIsCompleteCorrect), a variable that fits is put (FitsIsPutCorrect), *)
(* and what was put is what is read out again (ComesBackCorrect).          *)
(*                                                                         *)
(* The inductive invariant (IInv) says which elements have arrived: those  *)
(* whose index the loop has passed, and all of them where a put has said   *)
(* OK; and of the readout that a variable is whole but for the elements    *)
(* that are still to come.  Under it are lemmas about the indices of the   *)
(* loops (PathsAre), about one value on its way in and out (ArrivedIsIn)   *)
(* and about the shape of a variable (ShapeIs, ReadIsWhole).               *)
(***************************************************************************)
EXTENDS NatParms, FiniteSetTheorems, SequenceTheorems, TLAPS

-----------------------------------------------------------------------------
(* The indices of the elements of an array. *)
Indices(dims, len) == {p \in Box(dims, len) : Len(p) = dims}

IsParm(q) ==
  /\ q = [desc |-> q.desc, occ |-> q.occ, cells |-> q.cells]
  /\ IsDescription(q.desc)
  /\ q.occ \in [1..3 -> Int] /\ \A i \in 1..q.desc.dims : q.occ[i] >= 0
  /\ DOMAIN q.cells = Indices(q.desc.dims, q.occ)
  /\ q.desc.format \in ReadFormats =>
       \A p \in DOMAIN q.cells : q.cells[p] \in Contents(q.desc.format)

IsRow(s, n) == s = [j \in 1..n |-> s[j]]

TypeInv(n) ==
  /\ n # 0 /\ IsRow(body, n) /\ IsRow(parms, n) /\ IsRow(putret, n) /\ IsRow(out, n)
  /\ \A j \in 1..n : IsParm(parms[j]) /\ IsVar(body[j])
  /\ phase \in {"put", "putArray", "natural", "read", "readArray", "end", "killed"}
  /\ phase \in {"put", "putArray", "read", "readArray"} => k \in 1..n

(* The types of variables that there is a way for into a parameter. *)
TypesFor(format) ==
  CASE format = "ALPHA" -> {"STRING"}
    [] format = "INT"   -> {"INTEGER"}
    [] format = "LOG"   -> {"BOOLEAN"}
    [] format = "FLOAT" -> {"FLOAT"}
    [] format = "NUM"   -> {"STRING", "INTEGER"}
    [] OTHER            -> {}

(* The content x is what the put of the element c makes of it. *)
Arrived(x, c, d) ==
  /\ c.type \in TypesFor(d.format) /\ (d.format = "FLOAT" => d.length = 8)
  /\ Converted(c.val, c.type, d).ret = "OK"
  /\ x = Stored(Converted(c.val, c.type, d).val, d)

IsThere(q, o, p) ==
  /\ p \in DOMAIN o /\ p \in DOMAIN q.cells
  /\ Arrived(q.cells[p], o[p], q.desc)

(* What lies behind a row of an array is something else. *)
IsStray(o, p) == IsJagged(o) /\ p \notin DOMAIN o

Holds(q, o) == \A p \in DOMAIN q.cells : q.cells[p] = q.desc.first \/ IsThere(q, o, p) \/ IsStray(o, p)

AllThere(q, o) == HasShape(o, q.desc) => \A p \in Elements(o) : IsThere(q, o, p)

PutInv(n) ==
  /\ \A j \in 1..n : Holds(parms[j], body[j]) /\ (putret[j] = "OK" => AllThere(parms[j], body[j]))
  /\ phase \in {"put", "putArray"} =>
       /\ ret = "OK"
       /\ \A j \in k..n : putret[j] = "NONE"
       /\ \A j \in 1..k - 1 : Fits(j) /\ j \notin failed => putret[j] = "OK"
  /\ phase = "put" => parms[k].occ = parms[k].desc.occ
  /\ phase \in {"put", "putArray"} => \A j \in k + 1..n : parms[j].occ = parms[j].desc.occ
  /\ phase = "natural" /\ ret = "OK" => \A j \in 1..n : Fits(j) /\ j \notin failed => putret[j] = "OK"

(* What the loops over the elements of an array have left. *)
LoopInv ==
  phase = "putArray" =>
    /\ D.format \in WriteFormats /\ (D.format = "FLOAT" => D.length = 8)
    /\ D.dims > 0 /\ DOMAIN V # {} /\ V[Top].type = "ARRAY"
    /\ todo \in Seq(Indices(D.dims, GetArrayLength(V))) /\ todo # <<>>
    /\ \A p \in Indices(D.dims, GetArrayLength(V)) :
         (\E i \in 1..Len(todo) : todo[i] = p) \/ IsThere(parms[k], V, p) \/ p \notin DOMAIN V

(* The cell c of an array of variables; what the readout of the content x made of it. *)
IsCell(c, tp) == c = [type |-> tp, length |-> c.length, val |-> c.val]

WasRead(c, x, d) == c.val \in ReadOut(x, d) \/ (x = <<>> /\ d.format \in {"ALPHA", "UNICODE"})

(* o is what has been read of the parameter q, but for the indices in pending. *)
ArraySoFar(q, o, pending, tp) ==
  LET dims == NewDims(q.desc.dims, q.occ)
  IN /\ CheckDimLength(dims, q.occ) = "OK"
     /\ DOMAIN o = Box(dims, q.occ)
     /\ \A p \in DOMAIN o :
          /\ Len(p) < dims => o[p] = Block(q.occ[Len(p) + 1])
          /\ Len(p) = dims => IsCell(o[p], tp) /\ (p \in pending \/ WasRead(o[p], q.cells[p], q.desc))

ReadSoFar(q, o, pending) ==
  \E tp \in DataTypes :
    IF q.desc.dims = 0 THEN DOMAIN o = {Top} /\ o[Top].type = tp /\ o[Top].val \in ReadOut(q.cells[Top], q.desc)
    ELSE ArraySoFar(q, o, pending, tp)

HasBeenRead(q, o) == q.desc.format \in ReadFormats => ReadSoFar(q, o, {})

ReadInv(n) ==
  /\ phase \in {"read", "readArray"} =>
       ret = "OK" /\ \A j \in 1..k - 1 : HasBeenRead(parms[j], out[j])
  /\ phase = "end" /\ ret = "OK" => \A j \in 1..n : HasBeenRead(parms[j], out[j])
  /\ phase = "readArray" =>
       /\ D.format \in ReadFormats /\ D.dims > 0
       /\ todo \in Seq(Indices(D.dims, parms[k].occ)) /\ todo # <<>>
       /\ ReadSoFar(parms[k], out[k], {todo[i] : i \in 1..Len(todo)})

IInv(n) == TypeInv(n) /\ PutInv(n) /\ LoopInv /\ ReadInv(n)

-----------------------------------------------------------------------------
(***************************************************************************)
(* Numbers.                                                                *)
(***************************************************************************)

(* A set of naturals has a least element: what proofs by induction use. *)
LEMMA LeastNat ==
  ASSUME NEW T, T \subseteq Nat, T # {}
  PROVE  \E m \in T : \A n \in T : m <= n
<1> DEFINE Below(n) == 0..(n - 1)
           R == StrictSubsetOrdering(Nat)
           F == FiniteSubsetsOf(Nat)
           B == {Below(n) : n \in T}
<1>1. IsWellFoundedOn(R, F)
  BY FS_StrictSubsetOrderingWellFounded
<1>2. \A n \in T : Below(n) \in F
  BY FS_Interval DEF FiniteSubsetsOf
<1>3. B \subseteq F /\ B # {}
  BY <1>2
<1>4. PICK x \in B : \A y \in B : ~(<<y, x>> \in R)
  <2> HIDE DEF R, F, B
  <2> QED BY <1>1, <1>3, WFMin
<1>5. PICK m \in T : x = Below(m)
  BY <1>4
<1>6. ASSUME NEW n \in T, n < m PROVE FALSE
  <2>1. Below(n) \subseteq Below(m) /\ Below(n) # Below(m)
    <3>1. n \in Below(m) /\ n \notin Below(n)
      BY <1>6
    <3>2. \A i \in Below(n) : i \in Below(m)
      BY <1>6
    <3> QED BY <3>1, <3>2
  <2>2. Below(n) \in SUBSET Nat /\ Below(m) \in SUBSET Nat
    OBVIOUS
  <2>3. <<Below(n), Below(m)>> \in R
    BY <2>1, <2>2 DEF StrictSubsetOrdering
  <2> QED BY <2>3, <1>4, <1>5
<1> QED BY <1>6

(* A bounded set of naturals has a greatest element. *)
LEMMA GreatestNat ==
  ASSUME NEW T, T \subseteq Nat, T # {}, NEW b \in Nat, \A n \in T : n <= b
  PROVE  \E m \in T : \A n \in T : n <= m
<1> DEFINE G == {b - n : n \in T}
<1>1. G \subseteq Nat /\ G # {}
  <2>1. \A n \in T : n \in Nat /\ n <= b
    OBVIOUS
  <2>2. \A n \in Nat : n <= b => b - n \in Nat
    OBVIOUS
  <2> QED BY <2>1, <2>2
<1>2. PICK d \in G : \A c \in G : d <= c
  <2> HIDE DEF G
  <2> QED BY <1>1, LeastNat
<1>3. PICK m \in T : d = b - m
  OBVIOUS
<1>4. ASSUME NEW n \in T PROVE n <= m
  <2>1. b - n \in G
    OBVIOUS
  <2>2. b - m <= b - n
    <3> HIDE DEF G
    <3> QED BY <2>1, <1>2, <1>3
  <2>3. n \in Nat /\ m \in Nat
    OBVIOUS
  <2> QED BY <2>2, <2>3
<1> QED BY <1>4

(* A number is made of a quotient and a remainder in one way only. *)
LEMMA Division ==
  ASSUME NEW b \in Nat \ {0}, NEW a \in Nat
  PROVE  a \div b \in Nat /\ a % b \in 0..b - 1 /\ a = b * (a \div b) + (a % b)
OBVIOUS

LEMMA Multiple ==
  ASSUME NEW a \in Nat, NEW b \in Nat, NEW c \in Nat, a < b
  PROVE  a * c + c <= b * c
OBVIOUS

LEMMA Quotient ==
  ASSUME NEW b \in Nat \ {0}, NEW q \in Nat, NEW r \in 0..b - 1
  PROVE  (q * b + r) \div b = q /\ (q * b + r) % b = r
OBVIOUS

-----------------------------------------------------------------------------
(***************************************************************************)
(* The indices of an array and the loops over them.                        *)
(***************************************************************************)

(* What is in a box. *)
LEMMA InBox ==
  ASSUME NEW d \in 0..3, NEW len \in [1..3 -> Int]
  PROVE  \A p : p \in Box(d, len) <=>
                  /\ p \in Seq(Nat) /\ Len(p) <= d
                  /\ \A i \in 1..Len(p) : p[i] < len[i]
<1> DEFINE U == UNION {0..len[i] - 1 : i \in 1..d}
<1>1. U \subseteq Nat
  OBVIOUS
<1>2. ASSUME NEW p, p \in Box(d, len)
      PROVE  /\ p \in Seq(Nat) /\ Len(p) <= d
             /\ \A i \in 1..Len(p) : p[i] < len[i]
  <2>1. PICK m \in 0..d : p \in [1..m -> U] /\ \A i \in 1..m : p[i] < len[i]
    BY <1>2 DEF Box
  <2>2. m \in Nat /\ p \in [1..m -> Nat]
    BY <1>1, <2>1
  <2>3. p \in Seq(Nat) /\ Len(p) = m
    BY <2>2
  <2> QED BY <2>1, <2>3
<1>3. ASSUME NEW p \in Seq(Nat), Len(p) <= d, \A i \in 1..Len(p) : p[i] < len[i]
      PROVE  p \in Box(d, len)
  <2>1. Len(p) \in 0..d /\ p \in [1..Len(p) -> Nat]
    BY <1>3
  <2>2. \A i \in 1..Len(p) : p[i] \in 0..len[i] - 1
    BY <2>1, <1>3
  <2>3. \A i \in 1..Len(p) : p[i] \in U
    BY <2>1, <2>2
  <2>4. p \in [1..Len(p) -> U]
    BY <2>1, <2>3
  <2> HIDE DEF U
  <2>5. p \in {q \in [1..Len(p) -> U] : \A i \in 1..Len(p) : q[i] < len[i]}
    BY <2>4, <1>3
  <2> QED BY <2>1, <2>5 DEF Box, U
<1> QED BY <1>2, <1>3

LEMMA TopInBox ==
  ASSUME NEW d \in 0..3, NEW len \in [1..3 -> Int]
  PROVE  Top \in Box(d, len)
<1>1. Top \in Seq(Nat) /\ Len(Top) = 0 /\ 1..0 = {}
  BY DEF Top
<1>2. Len(Top) <= d /\ \A i \in 1..Len(Top) : Top[i] < len[i]
  <2>1. \A i \in 1..Len(Top) : FALSE
    BY <1>1
  <2> QED BY <1>1, <2>1
<1> QED BY <1>1, <1>2, InBox

LEMMA IndicesAre ==
  ASSUME NEW d \in 0..3, NEW len \in [1..3 -> Int]
  PROVE  \A p : p \in Indices(d, len) <=> p \in [1..d -> Nat] /\ \A i \in 1..d : p[i] < len[i]
<1>1. ASSUME NEW p, p \in Indices(d, len)
      PROVE  p \in [1..d -> Nat] /\ \A i \in 1..d : p[i] < len[i]
  <2>1. p \in Seq(Nat) /\ Len(p) = d /\ \A i \in 1..Len(p) : p[i] < len[i]
    BY <1>1, InBox DEF Indices
  <2> QED BY <2>1
<1>2. ASSUME NEW p \in [1..d -> Nat], \A i \in 1..d : p[i] < len[i]
      PROVE  p \in Indices(d, len)
  <2>1. p \in Seq(Nat) /\ Len(p) = d
    OBVIOUS
  <2> QED BY <2>1, <1>2, InBox DEF Indices
<1> QED BY <1>1, <1>2

(* Three nested loops of x, y and z passes count from 0 to x * y * z - 1. *)
LEMMA PassesCount ==
  ASSUME NEW x \in Nat \ {0}, NEW y \in Nat \ {0}, NEW z \in Nat \ {0},
         NEW n \in Nat, n < x * y * z
  PROVE  (n \div z) \div y \in 0..x - 1 /\ (n \div z) % y \in 0..y - 1 /\ n % z \in 0..z - 1
<1> DEFINE q == n \div z
           a == q \div y
<1>1. q \in Nat /\ n % z \in 0..z - 1 /\ n = z * q + (n % z)
  BY Division
<1>2. a \in Nat /\ q % y \in 0..y - 1 /\ q = y * a + (q % y)
  <2> HIDE DEF q
  <2> QED BY <1>1, Division
<1>3. ~(x <= a)
  <2> HIDE DEF q, a
  <2> SUFFICES ASSUME x <= a PROVE FALSE
    OBVIOUS
  <2>1. x * y <= a * y
    <3>1. x = a \/ x < a
      BY <1>2
    <3>2. x < a => x * y + y <= a * y
      BY <1>2, Multiple
    <3> QED BY <3>1, <3>2, <1>2
  <2>2. x * y <= q
    BY <2>1, <1>2
  <2>3. x * y * z <= q * z
    <3> DEFINE w == x * y
    <3>1. w \in Nat
      OBVIOUS
    <3>2. w <= q
      BY <2>2
    <3> HIDE DEF w
    <3>3. w = q \/ w < q
      BY <3>1, <3>2, <1>1
    <3>4. w < q => w * z + z <= q * z
      BY <3>1, <1>1, Multiple
    <3>5. w * z <= q * z
      BY <3>1, <3>3, <3>4, <1>1
    <3> QED BY <3>5 DEF w
  <2>4. q * z <= n
    BY <1>1
  <2>5. x * y * z \in Nat /\ q * z \in Nat
    BY <1>1
  <2> HIDE DEF q
  <2> QED BY <2>3, <2>4, <2>5
<1> QED BY <1>1, <1>2, <1>3

IsPass(n, y, z, a, b, c) == (n \div z) \div y = a /\ (n \div z) % y = b /\ n % z = c

LEMMA PassIsReached ==
  ASSUME NEW x \in Nat \ {0}, NEW y \in Nat \ {0}, NEW z \in Nat \ {0},
         NEW a \in 0..x - 1, NEW b \in 0..y - 1, NEW c \in 0..z - 1
  PROVE  \E n \in Nat : n < x * y * z /\ IsPass(n, y, z, a, b, c)
<1> DEFINE q == a * y + b
           n == q * z + c
<1>1. q \in Nat /\ q < x * y
  <2>1. a * y + y <= x * y
    BY Multiple
  <2>2. a * y \in Nat /\ x * y \in Nat
    OBVIOUS
  <2> QED BY <2>1, <2>2
<1>2. q \div y = a /\ q % y = b
  BY Quotient
<1> HIDE DEF q
<1>3. n \div z = q /\ n % z = c
  BY <1>1, Quotient
<1>4. n \in Nat /\ n < x * y * z
  <2> DEFINE w == x * y
  <2>1. w \in Nat
    OBVIOUS
  <2>2. q < w
    BY <1>1
  <2> HIDE DEF w
  <2>3. q * z + z <= w * z
    BY <2>1, <2>2, <1>1, Multiple
  <2>4. q * z \in Nat /\ w * z \in Nat
    BY <2>1, <1>1
  <2>5. n \in Nat /\ n < w * z
    BY <2>3, <2>4
  <2> QED BY <2>5 DEF w
<1>5. IsPass(n, y, z, a, b, c)
  BY <1>2, <1>3 DEF IsPass
<1> HIDE DEF n
<1> QED BY <1>4, <1>5

(* The loops go through all indices of the array, and through no others. *)
LEMMA PathsAre ==
  ASSUME NEW dims \in 1..3, NEW len \in [1..3 -> Int]
  PROVE  /\ Paths(dims, len) \in Seq(Indices(dims, len))
         /\ \A p \in Indices(dims, len) :
              \E i \in 1..Len(Paths(dims, len)) : Paths(dims, len)[i] = p
<1>1. CASE \E i \in 1..dims : len[i] <= 0
  <2>1. Paths(dims, len) = <<>>
    BY <1>1 DEF Paths
  <2>2. Indices(dims, len) = {}
    <3> SUFFICES ASSUME NEW p \in Indices(dims, len) PROVE FALSE
      OBVIOUS
    <3>1. PICK i \in 1..dims : len[i] <= 0
      BY <1>1
    <3>2. p[i] \in Nat /\ p[i] < len[i] /\ len[i] \in Int
      BY IndicesAre
    <3> QED BY <3>1, <3>2
  <2> QED BY <2>1, <2>2
<1>2. CASE ~ \E i \in 1..dims : len[i] <= 0
  <2> DEFINE x == Passes(1, dims, len)
             y == Passes(2, dims, len)
             z == Passes(3, dims, len)
             total == Product(dims, len)
             paths == [n \in 1..total |-> PathAt(n - 1, dims, len)]
  <2>1. x \in Nat \ {0} /\ y \in Nat \ {0} /\ z \in Nat \ {0}
    BY <1>2 DEF Passes
  <2>2. x = len[1] /\ (dims >= 2 => y = len[2]) /\ (dims >= 3 => z = len[3])
    BY DEF Passes
  <2>3. total = x * y * z /\ total \in Nat
    <3> HIDE DEF x, y, z
    <3>1. x * y * z \in Nat
      BY <2>1
    <3> QED BY <3>1 DEF Product, x, y, z
  <2>4. Paths(dims, len) = paths
    BY <1>2 DEF Paths
  <2>5. \A n : PathAt(n, dims, len) = [i \in 1..dims |-> <<(n \div z) \div y, (n \div z) % y, n % z>>[i]]
    BY DEF PathAt
  <2> HIDE DEF x, y, z, total
  <2>6. ASSUME NEW n \in 1..total PROVE PathAt(n - 1, dims, len) \in Indices(dims, len)
    <3> DEFINE m == n - 1
    <3>1. m \in Nat /\ m < x * y * z
      BY <2>3
    <3> HIDE DEF m
    <3>2. (m \div z) \div y \in 0..x - 1 /\ (m \div z) % y \in 0..y - 1 /\ m % z \in 0..z - 1
      BY <3>1, <2>1, PassesCount
    <3> DEFINE indices == <<(m \div z) \div y, (m \div z) % y, m % z>>
    <3>3. \A i \in 1..dims : indices[i] \in Nat /\ indices[i] < len[i]
      <4>1. indices[1] \in Nat /\ indices[1] < len[1]
        BY <3>2, <2>1, <2>2
      <4>2. dims >= 2 => indices[2] \in Nat /\ indices[2] < len[2]
        BY <3>2, <2>1, <2>2
      <4>3. dims >= 3 => indices[3] \in Nat /\ indices[3] < len[3]
        BY <3>2, <2>1, <2>2
      <4> HIDE DEF indices
      <4> QED BY <4>1, <4>2, <4>3
    <3>4. PathAt(m, dims, len) = [i \in 1..dims |-> indices[i]]
      BY <2>5
    <3> HIDE DEF indices
    <3>6. PathAt(m, dims, len) \in [1..dims -> Nat] /\ \A i \in 1..dims : PathAt(m, dims, len)[i] < len[i]
      BY <3>3, <3>4
    <3>7. dims \in 0..3
      OBVIOUS
    <3>5. PathAt(m, dims, len) \in Indices(dims, len)
      BY <3>6, <3>7, IndicesAre
    <3> QED BY <3>5 DEF m
  <2>7. ASSUME NEW p \in Indices(dims, len) PROVE \E i \in 1..total : PathAt(i - 1, dims, len) = p
    <3>0. dims \in 0..3
      OBVIOUS
    <3>1. p \in [1..dims -> Nat] /\ \A i \in 1..dims : p[i] < len[i]
      BY <3>0, IndicesAre
    <3> DEFINE a == p[1]
               b == IF dims >= 2 THEN p[2] ELSE 0
               c == IF dims >= 3 THEN p[3] ELSE 0
    <3>2. a \in 0..x - 1 /\ b \in 0..y - 1 /\ c \in 0..z - 1
      BY <3>1, <2>1, <2>2
    <3> HIDE DEF a, b, c
    <3>3. PICK n \in Nat : n < x * y * z /\ IsPass(n, y, z, a, b, c)
      BY <3>2, <2>1, PassIsReached
    <3>4. PathAt(n, dims, len) = [i \in 1..dims |-> <<a, b, c>>[i]]
      BY <3>3, <2>5 DEF IsPass
    <3>5. \A i \in 1..dims : <<a, b, c>>[i] = p[i]
      BY DEF a, b, c
    <3>6. PathAt(n, dims, len) = p
      BY <3>1, <3>4, <3>5
    <3>7. n + 1 \in 1..total /\ (n + 1) - 1 = n
      BY <3>3, <2>3
    <3> QED BY <3>6, <3>7
  <2>8. paths \in Seq(Indices(dims, len)) /\ Len(paths) = total
    <3>1. paths \in [1..total -> Indices(dims, len)]
      BY <2>6
    <3> HIDE DEF paths
    <3> QED BY <3>1, <2>3
  <2>9. \A p \in Indices(dims, len) : \E i \in 1..Len(paths) : paths[i] = p
    BY <2>7, <2>8
  <2> HIDE DEF paths
  <2> QED BY <2>4, <2>8, <2>9
<1> QED BY <1>1, <1>2

-----------------------------------------------------------------------------
(***************************************************************************)
(* Texts.                                                                  *)
(***************************************************************************)

LEMMA GreatestIs ==
  ASSUME NEW n \in Nat, NEW K \in SUBSET (1..n), NEW m \in K, \A i \in K : i <= m
  PROVE  (CHOOSE i \in K : \A j \in K : j <= i) = m
<1> DEFINE c == CHOOSE i \in K : \A j \in K : j <= i
<1>1. c \in K /\ \A j \in K : j <= c
  OBVIOUS
<1> HIDE DEF c
<1>2. c <= m /\ m <= c /\ c \in Int /\ m \in Int
  BY <1>1
<1>3. c = m
  BY <1>2
<1> QED BY <1>3 DEF c

LEMMA LeastIs ==
  ASSUME NEW n \in Nat, NEW K \in SUBSET (1..n), NEW m \in K, \A i \in K : m <= i
  PROVE  (CHOOSE i \in K : \A j \in K : i <= j) = m
<1> DEFINE c == CHOOSE i \in K : \A j \in K : i <= j
<1>1. c \in K /\ \A j \in K : c <= j
  OBVIOUS
<1> HIDE DEF c
<1>2. c <= m /\ m <= c /\ c \in Int /\ m \in Int
  BY <1>1
<1>3. c = m
  BY <1>2
<1> QED BY <1>3 DEF c

(* What is not blank, and where it begins and ends. *)
Solid(s) == {i \in 1..Len(s) : s[i] # " "}

LEMMA SolidIn ==
  ASSUME NEW s
  PROVE  Solid(s) \in SUBSET (1..Len(s))
BY DEF Solid

LEMMA Ends ==
  ASSUME NEW s \in Seq(Characters), Solid(s) # {}
  PROVE  /\ \E m \in Solid(s) : \A i \in Solid(s) : i <= m
         /\ \E m \in Solid(s) : \A i \in Solid(s) : m <= i
<1>1. Len(s) \in Nat /\ Solid(s) \subseteq Nat /\ \A i \in Solid(s) : i <= Len(s)
  <2>1. Len(s) \in Nat
    OBVIOUS
  <2> QED BY <2>1, SolidIn
<1>2. \E m \in Solid(s) : \A i \in Solid(s) : i <= m
  BY <1>1, GreatestNat
<1>3. \E m \in Solid(s) : \A i \in Solid(s) : m <= i
  BY <1>1, LeastNat
<1> QED BY <1>2, <1>3

LEMMA TrimIs ==
  ASSUME NEW s \in Seq(Characters), NEW m \in Solid(s), \A i \in Solid(s) : i <= m
  PROVE  TrimSpaces(s) = {SubSeq(s, 1, m)}
<1>1. Len(s) \in Nat /\ Solid(s) \in SUBSET (1..Len(s))
  BY SolidIn
<1>2. (CHOOSE i \in Solid(s) : \A j \in Solid(s) : j <= i) = m
  BY <1>1, GreatestIs
<1>3. TrimSpaces(s) = IF Solid(s) # {} THEN {SubSeq(s, 1, CHOOSE i \in Solid(s) : \A j \in Solid(s) : j <= i)}
                      ELSE {s, <<>>}
  BY DEF TrimSpaces, Solid
<1> QED BY <1>2, <1>3

LEMMA StripIs ==
  ASSUME NEW s \in Seq(Characters), NEW m \in Solid(s), \A i \in Solid(s) : m <= i
  PROVE  StripSpaces(s) = SubSeq(s, m, Len(s))
<1>1. Len(s) \in Nat /\ Solid(s) \in SUBSET (1..Len(s))
  BY SolidIn
<1>2. (CHOOSE i \in Solid(s) : \A j \in Solid(s) : i <= j) = m
  BY <1>1, LeastIs
<1>3. StripSpaces(s) = IF Solid(s) = {} THEN <<>>
                       ELSE SubSeq(s, CHOOSE i \in Solid(s) : \A j \in Solid(s) : i <= j, Len(s))
  BY DEF StripSpaces, Solid
<1> QED BY <1>2, <1>3

LEMMA BlanksAre ==
  ASSUME NEW n \in Int
  PROVE  /\ Blanks(n) \in Seq(Characters) /\ Len(Blanks(n)) = IF n < 0 THEN 0 ELSE n
         /\ \A i \in 1..n : Blanks(n)[i] = " "
<1> DEFINE k0 == IF n < 0 THEN 0 ELSE n
<1>1. k0 \in Nat /\ 1..n = 1..k0
  OBVIOUS
<1> HIDE DEF k0
<1>2. " " \in Characters
  BY CharactersAssumption
<1>3. Blanks(n) = [i \in 1..k0 |-> " "]
  BY <1>1, Zenon DEF Blanks
<1>4. Blanks(n) \in [1..k0 -> Characters]
  BY <1>2, <1>3, Zenon
<1>5. Blanks(n) \in Seq(Characters) /\ Len(Blanks(n)) = k0
  BY <1>1, <1>4
<1>6. \A i \in 1..n : Blanks(n)[i] = " "
  BY Zenon DEF Blanks
<1> QED BY <1>5, <1>6 DEF k0

LEMMA EscapedIs ==
  ASSUME NEW s \in Seq(Characters)
  PROVE  EscapeQuotes(s) \in Seq(Characters) /\ Len(EscapeQuotes(s)) = Len(s)
<1>1. \A i \in 1..Len(s) : s[i] \in Characters
  OBVIOUS
<1>2. "'" \in Characters
  BY CharactersAssumption
<1>3. EscapeQuotes(s) \in [1..Len(s) -> Characters]
  BY <1>1, <1>2, Zenon DEF EscapeQuotes
<1>4. Len(s) \in Nat
  OBVIOUS
<1> QED BY <1>3, <1>4

LEMMA TextStaysText ==
  ASSUME NEW s \in Seq(Characters)
  PROVE  /\ \A t \in TrimSpaces(s) : t \in Seq(Characters)
         /\ StripSpaces(s) \in Seq(Characters)
<1>1. CASE Solid(s) = {}
  <2>1. TrimSpaces(s) = {s, <<>>} /\ StripSpaces(s) = <<>>
    BY <1>1, Zenon DEF TrimSpaces, StripSpaces, Solid
  <2> QED BY <2>1
<1>2. CASE Solid(s) # {}
  <2>1. PICK m \in Solid(s) : \A i \in Solid(s) : i <= m
    BY <1>2, Ends
  <2>2. PICK l \in Solid(s) : \A i \in Solid(s) : l <= i
    BY <1>2, Ends
  <2>3. TrimSpaces(s) = {SubSeq(s, 1, m)} /\ StripSpaces(s) = SubSeq(s, l, Len(s))
    BY <2>1, <2>2, TrimIs, StripIs
  <2>4. m \in 1..Len(s) /\ l \in 1..Len(s) /\ Len(s) \in Nat
    BY SolidIn
  <2>5. SubSeq(s, 1, m) \in Seq(Characters) /\ SubSeq(s, l, Len(s)) \in Seq(Characters)
    BY <2>4
  <2> QED BY <2>3, <2>5
<1> QED BY <1>1, <1>2

Pairs == (0..255) \X (0..255)

LEMMA UnicodeStaysUnicode ==
  ASSUME NEW s \in Seq(Pairs)
  PROVE  TrimSpaces4B(s) \in Seq(Pairs)
<1> DEFINE kept == {i \in 1..Len(s) : s[i][1] \notin BlankOctets \/ s[i][2] \notin BlankOctets}
           last == CHOOSE i \in kept : \A j \in kept : j <= i
<1>1. TrimSpaces4B(s) = IF kept = {} THEN <<>> ELSE Append(SubSeq(s, 1, last - 1), CutOctets(s[last]))
  BY DEF TrimSpaces4B
<1>2. ASSUME kept # {} PROVE last \in 1..Len(s)
  <2>1. Len(s) \in Nat /\ kept \subseteq Nat /\ kept \in SUBSET (1..Len(s)) /\ \A i \in kept : i <= Len(s)
    OBVIOUS
  <2> HIDE DEF kept
  <2>2. PICK m \in kept : \A i \in kept : i <= m
    BY <2>1, <1>2, GreatestNat
  <2>3. last = m
    BY <2>1, <2>2, GreatestIs
  <2> QED BY <2>1, <2>3
<1> HIDE DEF last, kept
<1>3. ASSUME NEW i \in 1..Len(s)
      PROVE  CutOctets(s[i]) \in Pairs /\ SubSeq(s, 1, i - 1) \in Seq(Pairs)
  <2>0. s[i] \in Pairs
    OBVIOUS
  <2>1. s[i][1] \in 0..255
    <3> s[i] \in (0..255) \X (0..255)
      BY <2>0 DEF Pairs
    <3> QED OBVIOUS
  <2>2. <<s[i][1], 0>> \in Pairs
    <3> DEFINE first == s[i][1]
               O == 0..255
    <3>0. 0 \in O
      OBVIOUS
    <3> HIDE DEF first, O
    <3>1. \A a \in O : <<a, 0>> \in O \X O
      BY <3>0
    <3> USE DEF O
    <3>2. <<first, 0>> \in Pairs
      BY <2>1, <3>1 DEF Pairs, first
    <3> QED BY <3>2 DEF first
  <2>3. CutOctets(s[i]) \in Pairs
    BY <2>1, <2>2 DEF CutOctets
  <2>4. SubSeq(s, 1, i - 1) \in Seq(Pairs)
    OBVIOUS
  <2> QED BY <2>3, <2>4
<1> QED BY <1>1, <1>2, <1>3

-----------------------------------------------------------------------------
(***************************************************************************)
(* A value on its way into a parameter and out of it.                      *)
(***************************************************************************)

LEMMA ContentsAre ==
  /\ Contents("INT") = Int /\ Contents("FLOAT") = Int /\ Contents("LOG") = BOOLEAN
  /\ Contents("UNICODE") = Seq(Pairs)
  /\ \A format \in {"ALPHA", "NUM", "DATE", "TIME"} : Contents(format) = Seq(Characters)
BY DEF Contents, Pairs

(* What is read out of a parameter is something that it can hold. *)
LEMMA ReadOutIs ==
  ASSUME NEW d, IsDescription(d), d.format \in ReadFormats, NEW x \in Contents(d.format)
  PROVE  \A v \in ReadOut(x, d) : v \in Contents(d.format)
<1>1. CASE d.format = "ALPHA"
  <2>1. ReadOut(x, d) = {EscapeQuotes(s) : s \in TrimSpaces(x)} /\ x \in Seq(Characters)
    BY <1>1, ContentsAre DEF ReadOut, StringOf
  <2>2. \A s \in TrimSpaces(x) : EscapeQuotes(s) \in Seq(Characters)
    BY <2>1, TextStaysText, EscapedIs
  <2> QED BY <1>1, <2>1, <2>2, ContentsAre
<1>2. CASE d.format = "INT"
  <2>1. ReadOut(x, d) = IntegerOf(x, d) /\ x \in Int /\ Contents(d.format) = Int
    BY <1>2, ContentsAre DEF ReadOut
  <2>2. Width(d.length) \in {256, 65536}
    BY DEF Width
  <2> QED BY <2>1, <2>2 DEF IntegerOf
<1>3. CASE d.format = "LOG"
  BY <1>3, ContentsAre DEF ReadOut, BoolOf
<1>4. CASE d.format = "FLOAT"
  <2>1. ReadOut(x, d) = FloatOf(x, d) /\ x \in Int /\ Contents(d.format) = Int
    BY <1>4, ContentsAre DEF ReadOut
  <2> QED BY <2>1 DEF FloatOf, ConvertFloat
<1>5. CASE d.format \in {"DATE", "TIME"}
  <2>1. ReadOut(x, d) = TrimSpaces(x) /\ x \in Seq(Characters) /\ Contents(d.format) = Seq(Characters)
    BY <1>5, ContentsAre DEF ReadOut, DateTimeOf
  <2> QED BY <2>1, TextStaysText
<1>6. CASE d.format = "NUM"
  <2> DEFINE y == Blanks(d.length - Len(x)) \o x
  <2>1. ReadOut(x, d) = {StripSpaces(s) : s \in TrimSpaces(y)}
        /\ x \in Seq(Characters) /\ Contents(d.format) = Seq(Characters)
    BY <1>6, ContentsAre DEF ReadOut, NumericOf
  <2>2. y \in Seq(Characters)
    <3>1. Len(x) \in Nat /\ d.length \in Nat
      BY <2>1 DEF IsDescription
    <3>2. d.length - Len(x) \in Int
      BY <3>1
    <3>3. Blanks(d.length - Len(x)) \in Seq(Characters)
      BY <3>2, BlanksAre
    <3> QED BY <3>3, <2>1
  <2> HIDE DEF y
  <2>3. \A s \in TrimSpaces(y) : StripSpaces(s) \in Seq(Characters)
    BY <2>2, TextStaysText
  <2> QED BY <2>1, <2>3
<1>7. CASE d.format = "UNICODE"
  <2>1. ReadOut(x, d) = {TrimSpaces4B(x)} /\ x \in Seq(Pairs) /\ Contents(d.format) = Seq(Pairs)
    BY <1>7, ContentsAre DEF ReadOut, UnicodeOf
  <2> QED BY <2>1, UnicodeStaysUnicode
<1> QED BY <1>1, <1>2, <1>3, <1>4, <1>5, <1>6, <1>7 DEF ReadFormats, WriteFormats

(* What a put of the element c has left in a parameter. *)
IsIn(x, c, d) ==
  /\ x \in Contents(d.format) /\ Means(x, c, d)
  /\ (d.format = "ALPHA" => IsSolid(c.val)) /\ (d.format = "INT" => Arrives(c.val, d))
     => ReadOut(x, d) = {ComesBackAs(c, d)}
  /\ d.format = "ALPHA" /\ IsSolid(c.val) => x # <<>>

IsFilled(x, v, n, m) ==
  /\ x \in Seq(Characters) /\ Len(x) = n + m
  /\ \A i \in 1..n : x[i] = v[i]
  /\ \A i \in n + 1..n + m : x[i] = " "

LEMMA TextIsIn ==
  ASSUME NEW c, IsElement(c), NEW d, IsDescription(d), d.format = "ALPHA", NEW x, Arrived(x, c, d)
  PROVE  IsIn(x, c, d)
<1> DEFINE v == c.val
           n == Len(v)
           m == IF IsDynamic(d) THEN 0 ELSE d.length - n
<1>1. c.type = "STRING" /\ v \in Seq(Characters) /\ n \in Nat
  <2>1. c.type \in {"STRING"}
    BY DEF Arrived, TypesFor
  <2> QED BY <2>1 DEF IsElement
<1>2. Converted(v, c.type, d) = StringFor(v, d)
  BY DEF Converted
<1>3. StringFor(v, d).ret = "OK"
  BY <1>2 DEF Arrived
<1>4. (IsDynamic(d) \/ d.length >= n) /\ StringFor(v, d).val = v
  <2>1. d.length \in Nat
    BY DEF IsDescription
  <2>2. CASE ~IsDynamic(d) /\ d.length < n
    BY <2>2, <1>3 DEF StringFor, Bad
  <2>3. CASE ~(~IsDynamic(d) /\ d.length < n)
    BY <2>1, <2>3, <1>1 DEF StringFor, Good
  <2> QED BY <2>2, <2>3
<1>5. m \in Nat /\ d.length - n \in Int /\ (~IsDynamic(d) => m = d.length - n) /\ (IsDynamic(d) => m = 0)
  BY <1>1, <1>4 DEF IsDescription
<1>6. x = IF IsDynamic(d) THEN v ELSE v \o Blanks(d.length - n)
  BY <1>2, <1>4 DEF Arrived, Stored
<1>7. n = Len(v)
  OBVIOUS
<1> HIDE DEF m, n
<1>8. IsFilled(x, v, n, m)
  <2>1. CASE IsDynamic(d)
    <3>1. x = v /\ Len(x) = n + m /\ n + m = n
      BY <2>1, <1>1, <1>5, <1>6, <1>7
    <3>2. n + 1..n + m = {}
      BY <3>1, <1>1, <1>7
    <3> QED BY <3>1, <3>2, <1>1, <1>7, Zenon DEF IsFilled
  <2>2. CASE ~IsDynamic(d)
    <3> DEFINE e == d.length - n
               b == Blanks(e)
    <3>1. x = v \o b /\ e = m /\ e \in Int
      BY <2>2, <1>5, <1>6
    <3> HIDE DEF e
    <3>2. b \in Seq(Characters) /\ Len(b) = IF e < 0 THEN 0 ELSE e
      BY <3>1, BlanksAre
    <3>5. Len(b) = m
      BY <3>1, <3>2, <1>5
    <3>6. \A i \in 1..m : b[i] = " "
      BY <3>1, BlanksAre, Zenon
    <3> HIDE DEF b
    <3>3. x \in Seq(Characters) /\ Len(x) = n + m /\ \A i \in 1..n : x[i] = v[i]
      <4>1. v \in Seq(Characters) /\ Len(v) = n
        BY <1>1, <1>7
      <4>2. x \in Seq(Characters) /\ Len(x) = n + m
        BY <4>1, <3>1, <3>2, <3>5
      <4>3. \A i \in 1..n : i \in 1..Len(v) + Len(b) /\ i <= Len(v)
        BY <4>1, <3>2, <3>5, <1>5
      <4> QED BY <4>1, <4>2, <4>3, <3>1, <3>2, ConcatProperties
    <3>4. \A i \in n + 1..n + m : i - n \in 1..m /\ x[i] = b[i - n]
      BY <3>1, <3>2, <3>5, <1>1, <1>5, <1>7
    <3> QED BY <3>6, <3>3, <3>4, Zenon DEF IsFilled
  <2> QED BY <2>1, <2>2
<1>9. x \in Seq(Characters) /\ Len(x) = n + m /\ \A i \in 1..n : x[i] = v[i]
  BY <1>8 DEF IsFilled
<1>10. \A i \in n + 1..Len(x) : x[i] = " "
  BY <1>8, Zenon DEF IsFilled
<1>11. x \in Contents(d.format)
  BY <1>9, ContentsAre
<1>12. SubSeq(x, 1, n) = v /\ n <= Len(x)
  BY <1>1, <1>5, <1>7, <1>9
<1>13. Means(x, c, d)
  <2>1. IsPrefix(c.val, x)
    <3>1. SubSeq(v, 1, n) = v
      BY <1>1, <1>7
    <3> QED BY <3>1, <1>7, <1>12 DEF IsPrefix
  <2> QED BY <2>1, <1>7, <1>10, Zenon DEF Means
<1>14. ASSUME IsSolid(v) PROVE ReadOut(x, d) = {ComesBackAs(c, d)} /\ x # <<>>
  <2>1. v # <<>> /\ v[n] # " "
    BY <1>7, <1>14, Zenon DEF IsSolid
  <2>2. n \in 1..n /\ n \in 1..Len(x) /\ x # <<>>
    <3>1. n # 0
      BY <2>1, <1>1, <1>7, EmptySeq
    <3> QED BY <3>1, <1>1, <1>5, <1>7, <1>9
  <2>3. x[n] = v[n]
    BY <2>2, <1>9
  <2>4. n \in Solid(x)
    BY <2>1, <2>2, <2>3, Zenon DEF Solid
  <2>5. \A i \in Solid(x) : i <= n
    <3> SUFFICES ASSUME NEW i \in Solid(x), ~(i <= n) PROVE FALSE
      OBVIOUS
    <3>1. i \in 1..Len(x) /\ x[i] # " "
      BY Zenon DEF Solid
    <3>2. i \in 1..Len(x) /\ n \in Nat
      BY <3>1, <1>1, <1>7
    <3>3. i \in n + 1..Len(x)
      BY <3>2
    <3> QED BY <3>1, <3>3, <1>10, Zenon
  <2>6. TrimSpaces(x) = {v}
    BY <2>4, <2>5, <1>9, <1>12, TrimIs
  <2>7. ReadOut(x, d) = {EscapeQuotes(v)}
    BY <2>6 DEF ReadOut, StringOf
  <2> QED BY <2>2, <2>7 DEF ComesBackAs
<1> QED BY <1>11, <1>13, <1>14 DEF IsIn

LEMMA IntegerIsIn ==
  ASSUME NEW c, IsElement(c), NEW d, IsDescription(d), d.format = "INT", NEW x, Arrived(x, c, d)
  PROVE  IsIn(x, c, d)
<1> DEFINE v == c.val
           w == Width(d.length)
<1>1. c.type = "INTEGER" /\ v \in Int
  <2>1. c.type \in {"INTEGER"}
    BY DEF Arrived, TypesFor
  <2> QED BY <2>1 DEF IsElement
<1>2. Converted(v, c.type, d) = IntegerFor(v, d)
  BY DEF Converted
<1>3. IntegerFor(v, d).val = FirstOctets(v, d.length)
  BY <1>2 DEF Arrived, IntegerFor, Good, Bad
<1>4. x = FirstOctets(v, d.length)
  BY <1>2, <1>3 DEF Arrived, Stored
<1>5. w \in {256, 65536}
  BY DEF Width
<1>6. x = IF d.length = 4 THEN v ELSE IF BigEndian THEN v % w ELSE 0
  BY <1>4 DEF FirstOctets
<1>7. IntegerOf(x, d) = {IF d.length = 4 THEN x ELSE IF ~BigEndian THEN 0 ELSE IF x >= w \div 2 THEN x - w ELSE x}
  BY DEF IntegerOf
<1>8. Arrives(v, d) => (d.length = 4 \/ (BigEndian /\ -(w \div 2) <= v /\ v < w \div 2))
  BY DEF Arrives, InRange
<1> HIDE DEF w
<1>9. Arrives(v, d) => IntegerOf(x, d) = {v}
  BY <1>1, <1>5, <1>6, <1>7, <1>8
<1>10. x \in Int
  BY <1>1, <1>5, <1>6
<1>11. ReadOut(x, d) = IntegerOf(x, d) /\ ComesBackAs(c, d) = v /\ x \in Contents(d.format)
  BY <1>10, ContentsAre DEF ReadOut, ComesBackAs
<1>12. Means(x, c, d)
  BY <1>9 DEF Means
<1> QED BY <1>9, <1>11, <1>12 DEF IsIn

(* sprintf makes a sequence of something. *)
LEMMA DecimalIs ==
  ASSUME NEW v \in Int
  PROVE  \E S : IntToText(v) \in Seq(S)
<1>1. ASSUME NEW n PROVE \E S : Decimal(n) \in Seq(S)
  <2> DEFINE K == {i \in 1..10 : Tens[i] <= n}
             size == IF n = 0 THEN 1 ELSE Cardinality(K)
             digit(i) == ToString((n \div Tens[size - i + 1]) % 10)
  <2>1. size \in Nat
    <3>1. IsFiniteSet(1..10)
      <4> 1 \in Int /\ 10 \in Int
        OBVIOUS
      <4> QED BY FS_Interval
    <3>2. IsFiniteSet(K)
      <4>1. K \subseteq 1..10
        OBVIOUS
      <4> HIDE DEF K
      <4> QED BY <3>1, <4>1, FS_Subset
    <3>3. Cardinality(K) \in Nat
      BY <3>2, FS_CardinalityType
    <3> HIDE DEF K
    <3> QED BY <3>3
  <2>2. Decimal(n) = [i \in 1..size |-> digit(i)]
    BY DEF Decimal
  <2> HIDE DEF size, digit
  <2> DEFINE T == {digit(i) : i \in 1..size}
  <2>3. Decimal(n) \in [1..size -> T]
    BY <2>2
  <2> HIDE DEF T
  <2>4. Decimal(n) \in Seq(T)
    BY <2>1, <2>3
  <2> QED BY <2>4
<1>2. CASE v < 0
  <2>1. PICK S : Decimal(-v) \in Seq(S)
    BY <1>1
  <2> DEFINE T == S \cup {"-"}
  <2>2. Decimal(-v) \in Seq(T)
    BY <2>1, SeqMonotonic
  <2>3. "-" \in T
    OBVIOUS
  <2> HIDE DEF T
  <2>4. <<"-">> \in Seq(T)
    BY <2>3
  <2>5. <<"-">> \o Decimal(-v) \in Seq(T)
    BY <2>2, <2>4, ConcatProperties
  <2>6. IntToText(v) = <<"-">> \o Decimal(-v)
    BY <1>2 DEF IntToText
  <2> QED BY <2>5, <2>6
<1>3. CASE ~(v < 0)
  <2>1. IntToText(v) = Decimal(v)
    BY <1>3 DEF IntToText
  <2> QED BY <2>1, <1>1
<1> QED BY <1>2, <1>3

(* What NNI takes for a number is a text of digits, and comes back without the blanks. *)
LEMMA DigitsComeBack ==
  ASSUME NEW S, NEW s \in Seq(S), NEW d, IsDescription(d), d.format = "NUM",
         FromString(s, d).ret = "OK"
  PROVE  /\ FromString(s, d).val = s /\ s \in Contents("NUM")
         /\ ReadOut(s, d) = {s}
<1> DEFINE n == Len(s)
           e == d.length - n
           b == Blanks(e)
           y == b \o s
<1>1. n \in Nat /\ d.length \in Nat
  BY DEF IsDescription
<1>2. s # <<>> /\ n <= d.length /\ (\A i \in 1..n : s[i] \in Digits) /\ FromString(s, d).val = s
  <2> DEFINE ok == s # <<>> /\ Len(s) <= d.length /\ \A i \in 1..Len(s) : s[i] \in Digits
  <2>1. FromString(s, d) = IF ok THEN Good(s) ELSE Bad("NNI_ERR")
    BY DEF FromString
  <2> HIDE DEF ok
  <2>2. ok /\ FromString(s, d).val = s
    BY <2>1 DEF Good, Bad
  <2> QED BY <2>2 DEF ok
<1>3. s \in Seq(Characters)
  <2>1. Digits \subseteq Characters
    BY CharactersAssumption
  <2>2. \A i \in 1..n : s[i] \in Characters
    BY <2>1, <1>2
  <2>3. s = [i \in 1..n |-> s[i]]
    OBVIOUS
  <2>4. s \in [1..n -> Characters]
    BY <2>2, <2>3
  <2> HIDE DEF n
  <2> QED BY <1>1, <2>4
<1>4. e \in Nat
  BY <1>1, <1>2
<1>5. n = Len(s) /\ n # 0
  BY <1>2, <1>3
<1> HIDE DEF n, e
<1>6. b \in Seq(Characters) /\ Len(b) = e
  <2>1. e \in Int /\ ~(e < 0)
    BY <1>4
  <2> QED BY <2>1, BlanksAre
<1>7. \A i \in 1..e : b[i] = " "
  BY Zenon DEF b, Blanks
<1> HIDE DEF b
<1>8. y \in Seq(Characters) /\ Len(y) = e + n
  BY <1>3, <1>5, <1>6, ConcatProperties
<1>9. \A i \in 1..e : y[i] = b[i]
  <2>1. \A i \in 1..e : i \in 1..Len(b) + Len(s) /\ i <= Len(b)
    BY <1>1, <1>4, <1>5, <1>6
  <2> QED BY <2>1, <1>3, <1>6, ConcatProperties
<1>10. \A i \in 1..n : y[e + i] = s[i] /\ e + i \in 1..e + n
  <2> SUFFICES ASSUME NEW i \in 1..n PROVE y[e + i] = s[i] /\ e + i \in 1..e + n
    OBVIOUS
  <2>1. e + i \in 1..Len(b) + Len(s) /\ ~(e + i <= Len(b)) /\ (e + i) - Len(b) = i /\ e + i \in 1..e + n
    BY <1>1, <1>4, <1>5, <1>6
  <2> QED BY <2>1, <1>3, <1>6, ConcatProperties
<1> HIDE DEF y
<1>11. \A i \in 1..n : e + i \in Solid(y)
  <2> SUFFICES ASSUME NEW i \in 1..n PROVE e + i \in Solid(y)
    OBVIOUS
  <2>1. " " \notin Digits
    BY DEF Digits
  <2>2. y[e + i] # " "
    BY <2>1, <1>2, <1>10, <1>5, Zenon
  <2>3. e + i \in 1..Len(y)
    BY <1>8, <1>10
  <2> QED BY <2>2, <2>3, Zenon DEF Solid
<1>12. \A i \in Solid(y) : i \in e + 1..e + n
  <2> SUFFICES ASSUME NEW i \in Solid(y), i \notin e + 1..e + n PROVE FALSE
    OBVIOUS
  <2>1. i \in 1..Len(y) /\ y[i] # " "
    BY Zenon DEF Solid
  <2>2. i \in 1..Len(y)
    BY <2>1
  <2>3. i \in 1..e
    BY <2>2, <1>1, <1>4, <1>5, <1>8
  <2>4. y[i] = b[i] /\ b[i] = " "
    BY <2>3, <1>7, <1>9, Zenon
  <2> QED BY <2>1, <2>4, Zenon
<1>13. TrimSpaces(y) = {y}
  <2>1. e + n \in Solid(y) /\ \A i \in Solid(y) : i <= e + n
    BY <1>1, <1>4, <1>5, <1>11, <1>12
  <2>2. TrimSpaces(y) = {SubSeq(y, 1, e + n)}
    BY <2>1, <1>8, TrimIs
  <2>3. SubSeq(y, 1, Len(y)) = y
    BY <1>8
  <2> QED BY <2>2, <2>3, <1>8
<1>14. StripSpaces(y) = s
  <2>1. e + 1 \in Solid(y) /\ \A i \in Solid(y) : e + 1 <= i
    BY <1>1, <1>4, <1>5, <1>11, <1>12
  <2>2. StripSpaces(y) = SubSeq(y, e + 1, e + n)
    BY <2>1, <1>8, StripIs
  <2> DEFINE t == SubSeq(y, e + 1, e + n)
  <2>3. t \in Seq(Characters) /\ Len(t) = n /\ \A i \in 1..n : t[i] = y[e + i]
    <3>1. e + 1 \in 1..Len(y) + 1 /\ e + n \in e..Len(y) /\ (e + n) - (e + 1) + 1 = n
      BY <1>1, <1>4, <1>5, <1>8
    <3>2. e + 1 <= e + n + 1
      BY <1>1, <1>4, <1>5
    <3>3. \A i \in 1..n : e + 1 + i - 1 = e + i
      BY <1>1, <1>4, <1>5
    <3> QED BY <3>1, <3>2, <3>3, <1>4, <1>5, <1>8, SubSeqProperties
  <2> HIDE DEF t
  <2>4. t = s
    BY <2>3, <1>3, <1>5, <1>10, SeqEqual
  <2> QED BY <2>2, <2>4 DEF t
<1>15. ReadOut(s, d) = {StripSpaces(z) : z \in TrimSpaces(y)}
  BY DEF ReadOut, NumericOf, y, b, e, n
<1> QED BY <1>2, <1>3, <1>13, <1>14, <1>15, ContentsAre

LEMMA NumberIsIn ==
  ASSUME NEW c, IsElement(c), NEW d, IsDescription(d), d.format = "NUM", NEW x, Arrived(x, c, d)
  PROVE  IsIn(x, c, d)
<1> DEFINE t == IF c.type = "INTEGER" THEN IntToText(c.val) ELSE c.val
<1>1. c.type \in {"STRING", "INTEGER"}
  BY DEF Arrived, TypesFor
<1>2. Converted(c.val, c.type, d) = FromString(t, d)
  BY DEF Converted, ItoNFor, AtoNFor
<1>3. \E S : t \in Seq(S)
  <2>1. CASE c.type = "INTEGER"
    <3>1. c.val \in Int
      BY <2>1 DEF IsElement
    <3> QED BY <2>1, <3>1, DecimalIs
  <2>2. CASE c.type = "STRING"
    BY <2>2 DEF IsElement
  <2> QED BY <1>1, <2>1, <2>2
<1> HIDE DEF t
<1>4. FromString(t, d).ret = "OK" /\ x = FromString(t, d).val
  BY <1>2 DEF Arrived, Stored
<1>5. x = t /\ x \in Contents("NUM") /\ ReadOut(x, d) = {x}
  BY <1>3, <1>4, DigitsComeBack
<1>6. Means(x, c, d) /\ ComesBackAs(c, d) = x
  BY <1>5 DEF Means, ComesBackAs, t
<1> QED BY <1>5, <1>6 DEF IsIn

(* Whatever has arrived means the element, and is what is read out again. *)
LEMMA ArrivedIsIn ==
  ASSUME NEW c, IsElement(c), NEW d, IsDescription(d), NEW x, Arrived(x, c, d)
  PROVE  IsIn(x, c, d) /\ d.format \in WriteFormats
<1>1. CASE d.format = "LOG"
  <2>1. c.type \in {"BOOLEAN"} /\ Converted(c.val, c.type, d) = Good(c.val)
    BY <1>1 DEF Arrived, TypesFor, Converted, BoolFor
  <2>2. c.val \in BOOLEAN /\ x = c.val
    BY <1>1, <2>1 DEF IsElement, Arrived, Stored, Good
  <2>3. ReadOut(x, d) = {x} /\ ComesBackAs(c, d) = c.val /\ Means(x, c, d)
    BY <1>1, <2>2 DEF ReadOut, BoolOf, ComesBackAs, Means
  <2> QED BY <1>1, <2>2, <2>3, ContentsAre DEF IsIn, WriteFormats
<1>2. CASE d.format = "FLOAT"
  <2>1. c.type \in {"FLOAT"} /\ Converted(c.val, c.type, d) = Good(c.val) /\ d.length = 8
    BY <1>2 DEF Arrived, TypesFor, Converted, FloatFor
  <2>2. c.val \in Int /\ x = c.val
    BY <1>2, <2>1 DEF IsElement, Arrived, Stored, Good
  <2>3. ReadOut(x, d) = {x} /\ ComesBackAs(c, d) = c.val /\ Means(x, c, d)
    BY <1>2, <2>1, <2>2 DEF ReadOut, FloatOf, ComesBackAs, Means
  <2> QED BY <1>2, <2>2, <2>3, ContentsAre DEF IsIn, WriteFormats
<1>3. d.format \in {"ALPHA", "INT", "LOG", "FLOAT", "NUM"}
  BY DEF Arrived, TypesFor
<1> QED BY <1>1, <1>2, <1>3, TextIsIn, IntegerIsIn, NumberIsIn DEF WriteFormats

(* What fits is of the right type, and converted. *)
LEMMA FitsConverts ==
  ASSUME NEW c, IsElement(c), NEW d, IsDescription(d), d.format \in WriteFormats,
         d.format = "FLOAT" => d.length = 8, FitsCell(c, d), NEW tp \in TypesFor(d.format),
         d.format = "NUM" => tp = "STRING"
  PROVE  c.type = tp /\ Converted(c.val, tp, d).ret = "OK"
<1>1. CASE d.format = "ALPHA"
  <2>1. c.type = "STRING" /\ (IsDynamic(d) \/ Len(c.val) <= d.length) /\ tp = "STRING"
    BY <1>1 DEF FitsCell, TypesFor, IsDynamic
  <2>2. Len(c.val) \in Nat /\ d.length \in Nat
    BY <2>1 DEF IsElement, IsDescription
  <2>3. StringFor(c.val, d) = Good(c.val)
    BY <2>1, <2>2 DEF StringFor
  <2> QED BY <1>1, <2>1, <2>3 DEF Converted, Good
<1>2. CASE d.format = "INT"
  <2>1. c.type = "INTEGER" /\ InRange(c.val, d) /\ tp = "INTEGER"
    BY <1>2 DEF FitsCell, TypesFor
  <2>2. c.val \in Int
    BY <2>1 DEF IsElement
  <2>3. IntFits(c.val, d)
    <3>1. Width(d.length) \in {256, 65536}
      BY DEF Width
    <3> QED BY <2>1, <2>2, <3>1 DEF InRange, IntFits
  <2> QED BY <1>2, <2>1, <2>3 DEF Converted, IntegerFor, Good
<1>3. CASE d.format = "LOG"
  BY <1>3 DEF FitsCell, TypesFor, Converted, BoolFor, Good
<1>4. CASE d.format = "FLOAT"
  BY <1>4 DEF FitsCell, TypesFor, Converted, FloatFor, Good
<1>5. CASE d.format = "NUM"
  BY <1>5 DEF FitsCell, Converted, AtoNFor
<1> QED BY <1>1, <1>2, <1>3, <1>4, <1>5 DEF WriteFormats

-----------------------------------------------------------------------------
(***************************************************************************)
(* The variables.                                                          *)
(***************************************************************************)

(* An array of dims dimensions, of blocks of any length. *)
IsArray(o, dims) ==
  /\ dims \in 1..3
  /\ Top \in DOMAIN o /\ DOMAIN o \subseteq Seq(Nat)
  /\ \A p \in DOMAIN o :
       /\ Len(p) <= dims /\ \A j \in 0..Len(p) : SubSeq(p, 1, j) \in DOMAIN o
       /\ Len(p) < dims => o[p].type = "ARRAY" /\ o[p].length \in Nat
       /\ Len(p) = dims => IsElement(o[p])

LEMMA VarIs ==
  ASSUME NEW o, IsVar(o), DOMAIN o # {}
  PROVE  /\ Top \in DOMAIN o
         /\ o[Top].type = "ARRAY" => \E dims \in 1..3 : IsArray(o, dims)
         /\ o[Top].type # "ARRAY" => DOMAIN o = {Top} /\ IsElement(o[Top])
<1>1. CASE DOMAIN o = {Top} /\ IsElement(o[Top])
  BY <1>1 DEF IsElement
<1>2. CASE \E dims \in 1..3 : IsArray(o, dims)
  <2>1. PICK dims \in 1..3 : IsArray(o, dims)
    BY <1>2
  <2>2. Top \in DOMAIN o /\ Len(Top) = 0
    BY <2>1 DEF IsArray, Top
  <2>3. o[Top].type = "ARRAY"
    BY <2>1, <2>2 DEF IsArray
  <2> QED BY <2>1, <2>2, <2>3
<1> QED BY <1>1, <1>2, Zenon DEF IsVar, IsArray

(* The lengths of an array are those of the first rows. *)
LEMMA LengthIs ==
  ASSUME NEW o
  PROVE  LET len == GetArrayLength(o)
             IsRow2(p) == p \in DOMAIN o /\ o[p].type = "ARRAY"
         IN /\ len[1] = o[Top].length
            /\ len[2] = IF IsRow2(<<0>>) THEN o[<<0>>].length ELSE -1
            /\ len[3] = IF IsRow2(<<0>>) /\ IsRow2(<<0, 0>>) THEN o[<<0, 0>>].length ELSE -1
BY DEF GetArrayLength

LEMMA DimensionIs ==
  ASSUME NEW o, NEW m \in 0..3,
         \A i \in 1..m : GetArrayLength(o)[i] # -1,
         m < 3 => GetArrayLength(o)[m + 1] = -1
  PROVE  GetArrayDimension(o) = m
<1> DEFINE S == {i \in 1..3 : \A j \in 1..i : GetArrayLength(o)[j] # -1}
<1>1. S = 1..m
  <2>1. ASSUME NEW i \in 1..m PROVE i \in S
    BY <2>1
  <2>2. ASSUME NEW i \in S, i \notin 1..m PROVE FALSE
    <3>1. m < 3 /\ m + 1 \in 1..i
      BY <2>2
    <3> QED BY <3>1, <2>2
  <2> QED BY <2>1, <2>2
<1>2. Cardinality(1..m) = m
  <2>1. 1 \in Int /\ m \in Int /\ ~(1 > m) => m - 1 + 1 = m
    OBVIOUS
  <2>2. 1 > m => m = 0
    OBVIOUS
  <2> QED BY <2>1, <2>2, FS_Interval
<1> QED BY <1>1, <1>2 DEF GetArrayDimension

(* The lengths of an array: one for each dimension that has rows. *)
LEMMA ArrayLengths ==
  ASSUME NEW o, NEW dims \in 1..3, IsArray(o, dims)
  PROVE  /\ GetArrayLength(o) \in [1..3 -> Int]
         /\ \A i \in 1..3 : GetArrayLength(o)[i] = -1 \/ GetArrayLength(o)[i] \in Nat
         /\ GetArrayDimension(o) \in 1..dims
         /\ \A i \in 1..GetArrayDimension(o) : GetArrayLength(o)[i] \in Nat
         /\ GetArrayDimension(o) < 3 => GetArrayLength(o)[GetArrayDimension(o) + 1] = -1
<1> DEFINE len == GetArrayLength(o)
<1>1. Len(Top) = 0 /\ Len(<<0>>) = 1 /\ Len(<<0, 0>>) = 2
  BY DEF Top
<1>2. len[1] \in Nat
  <2>1. o[Top].length \in Nat
    BY <1>1 DEF IsArray
  <2> QED BY <2>1, LengthIs
<1>3. \A p \in DOMAIN o : o[p].type = "ARRAY" => Len(p) < dims /\ o[p].length \in Nat
  <2> SUFFICES ASSUME NEW p \in DOMAIN o, o[p].type = "ARRAY" PROVE Len(p) < dims /\ o[p].length \in Nat
    OBVIOUS
  <2>1. Len(p) \in Nat /\ Len(p) <= dims
    BY DEF IsArray
  <2>2. Len(p) # dims
    BY DEF IsArray, IsElement
  <2>3. Len(p) < dims
    BY <2>1, <2>2
  <2> QED BY <2>3 DEF IsArray
<1>4. /\ len[2] = -1 \/ (len[2] \in Nat /\ dims > 1)
      /\ len[3] = -1 \/ (len[3] \in Nat /\ dims > 2 /\ len[2] \in Nat)
  BY <1>1, <1>3, LengthIs
<1>5. len \in [1..3 -> Int]
  <2>1. len = <<len[1], len[2], len[3]>>
    BY DEF GetArrayLength
  <2>2. len[1] \in Int /\ len[2] \in Int /\ len[3] \in Int
    BY <1>2, <1>4
  <2> HIDE DEF len
  <2> QED BY <2>1, <2>2
<1>6. PICK m \in 1..dims : (\A i \in 1..m : len[i] # -1) /\ (m < 3 => len[m + 1] = -1)
  <2>1. CASE len[2] = -1
    <3>1. \A i \in 1..1 : len[i] # -1
      BY <1>2
    <3>2. 1 \in 1..dims /\ 1 + 1 = 2
      OBVIOUS
    <3> QED BY <2>1, <3>1, <3>2
  <2>2. CASE len[2] # -1 /\ len[3] = -1
    <3>1. \A i \in 1..2 : len[i] # -1
      BY <1>2, <2>2
    <3>2. 2 \in 1..dims /\ 2 + 1 = 3
      BY <2>2, <1>4
    <3> QED BY <2>2, <3>1, <3>2
  <2>3. CASE len[2] # -1 /\ len[3] # -1
    <3>1. \A i \in 1..3 : len[i] # -1
      BY <1>2, <2>3
    <3>2. 3 \in 1..dims
      BY <2>3, <1>4
    <3> QED BY <3>1, <3>2
  <2> QED BY <2>1, <2>2, <2>3
<1>7. GetArrayDimension(o) = m
  <2>1. m \in 0..3
    OBVIOUS
  <2> QED BY <1>6, <2>1, DimensionIs
<1>8. \A i \in 1..3 : len[i] = -1 \/ len[i] \in Nat
  <2>1. \A i \in 1..3 : i = 1 \/ i = 2 \/ i = 3
    OBVIOUS
  <2> HIDE DEF len
  <2> QED BY <1>2, <1>4, <2>1
<1> HIDE DEF len
<1>9. \A i \in 1..m : len[i] \in Nat
  BY <1>6, <1>8
<1> QED BY <1>5, <1>6, <1>7, <1>8, <1>9 DEF len

(* The beginnings of an index are in every box that the index is in. *)
LEMMA BeginningInBox ==
  ASSUME NEW d \in 0..3, NEW len \in [1..3 -> Int], NEW p \in Box(d, len), NEW j \in 0..Len(p)
  PROVE  SubSeq(p, 1, j) \in Box(d, len)
<1>1. p \in Seq(Nat) /\ Len(p) <= d /\ (\A i \in 1..Len(p) : p[i] < len[i]) /\ Len(p) \in Nat
  BY InBox
<1> DEFINE s == SubSeq(p, 1, j)
<1>2. s \in Seq(Nat) /\ Len(s) = j /\ \A i \in 1..j : s[i] = p[i]
  BY <1>1
<1> HIDE DEF s
<1>3. j \in Nat /\ j <= Len(p) /\ \A i \in 1..j : i \in 1..Len(p)
  BY <1>1
<1>4. Len(s) <= d
  BY <1>1, <1>2, <1>3
<1>5. \A i \in 1..Len(s) : s[i] < len[i]
  BY <1>1, <1>2, <1>3
<1> QED BY <1>2, <1>4, <1>5, InBox DEF s

(* The first row, and the first row of that, are there where any element is. *)
LEMMA FirstsInBox ==
  ASSUME NEW d \in 1..3, NEW len \in [1..3 -> Int], NEW p \in Indices(d, len)
  PROVE  <<0>> \in Box(d, len) /\ (d > 1 => <<0, 0>> \in Box(d, len))
<1>1. d \in 0..3
  OBVIOUS
<1>2. p \in [1..d -> Nat] /\ \A i \in 1..d : p[i] < len[i]
  BY <1>1, IndicesAre
<1>3. \A i \in 1..d : 0 < len[i]
  BY <1>2
<1>4. <<0>> \in Seq(Nat) /\ Len(<<0>>) = 1 /\ Len(<<0>>) <= d /\ \A i \in 1..1 : <<0>>[i] < len[i]
  BY <1>3
<1>5. ASSUME d > 1 PROVE <<0, 0>> \in Box(d, len)
  <2>1. <<0, 0>> \in Seq(Nat) /\ Len(<<0, 0>>) = 2 /\ Len(<<0, 0>>) <= d
    BY <1>5
  <2>2. \A i \in 1..2 : <<0, 0>>[i] = 0 /\ i \in 1..d
    BY <1>5
  <2>3. \A i \in 1..2 : <<0, 0>>[i] < len[i]
    BY <1>3, <2>2
  <2> QED BY <1>1, <2>1, <2>3, InBox
<1> QED BY <1>1, <1>4, <1>5, InBox

(* A variable of the right shape has its elements where the loops look for them. *)
IsShaped(o, dims) ==
  /\ dims = 0 => DOMAIN o = {Top} /\ IsElement(o[Top]) /\ Elements(o) = {Top}
  /\ dims > 0 =>
       /\ o[Top].type = "ARRAY"
       /\ GetArrayLength(o) \in [1..3 -> Int] /\ \A i \in 1..dims : GetArrayLength(o)[i] \in Nat
       /\ Elements(o) = Indices(dims, GetArrayLength(o))
       /\ \A p \in Elements(o) : GetArrayEntry(o, p) = "OK" /\ IsElement(o[p])

LEMMA ShapeIs ==
  ASSUME NEW o, IsVar(o), NEW d, HasShape(o, d)
  PROVE  IsShaped(o, d.dims)
<1>1. DOMAIN o # {}
  BY DEF HasShape
<1>2. CASE o[Top].type # "ARRAY"
  <2>1. DOMAIN o = {Top} /\ IsElement(o[Top]) /\ d.dims = 0
    BY <1>1, <1>2, VarIs DEF HasShape
  <2>2. Elements(o) = {Top}
    BY <1>2, <2>1 DEF Elements
  <2> QED BY <2>1, <2>2 DEF IsShaped
<1>3. CASE o[Top].type = "ARRAY"
  <2> DEFINE e == GetArrayDimension(o)
             len == GetArrayLength(o)
  <2>1. d.dims = e /\ DOMAIN o = Box(e, len)
    BY <1>3 DEF HasShape, IsRectangular
  <2>2. PICK dims \in 1..3 : IsArray(o, dims)
    BY <1>1, <1>3, VarIs
  <2>3. /\ len \in [1..3 -> Int] /\ e \in 1..dims /\ \A i \in 1..e : len[i] \in Nat
        /\ e < 3 => len[e + 1] = -1
    BY <2>2, ArrayLengths
  <2> HIDE DEF e
  <2>4. ASSUME NEW p \in Indices(e, len) PROVE p \in DOMAIN o /\ IsElement(o[p]) /\ Len(p) = e
    <3>1. p \in DOMAIN o /\ Len(p) = e
      BY <2>1 DEF Indices
    <3>2. CASE e = dims
      BY <3>1, <3>2, <2>2 DEF IsArray
    <3>3. CASE e # dims
      <4>1. e < dims /\ e \in 1..3 /\ e < 3
        BY <3>3, <2>3
      <4>2. <<0>> \in DOMAIN o /\ (e > 1 => <<0, 0>> \in DOMAIN o)
        <5> HIDE DEF len
        <5> QED BY <4>1, <2>1, <2>3, FirstsInBox
      <4>3. \A r \in DOMAIN o : Len(r) < dims => o[r].type = "ARRAY" /\ o[r].length \in Nat
        BY <2>2 DEF IsArray
      <4>4. Len(<<0>>) = 1 /\ Len(<<0, 0>>) = 2 /\ (e = 1 \/ e = 2)
        BY <4>1
      <4>5. o[<<0>>].type = "ARRAY" /\ o[<<0>>].length \in Nat
        BY <4>1, <4>2, <4>3, <4>4
      <4>6. ASSUME e = 2 PROVE <<0, 0>> \in DOMAIN o /\ o[<<0, 0>>].type = "ARRAY" /\ o[<<0, 0>>].length \in Nat
        <5>1. <<0, 0>> \in DOMAIN o
          BY <4>2, <4>6
        <5>2. Len(<<0, 0>>) < dims
          BY <4>1, <4>4, <4>6
        <5> QED BY <5>1, <5>2, <4>3
      <4>7. len[e + 1] \in Nat
        <5>1. CASE e = 1
          BY <5>1, <4>2, <4>5, LengthIs
        <5>2. CASE e = 2
          BY <5>2, <4>2, <4>5, <4>6, LengthIs
        <5> QED BY <4>4, <5>1, <5>2
      <4>8. len[e + 1] = -1
        BY <4>1, <2>3
      <4> HIDE DEF len
      <4> QED BY <4>7, <4>8
    <3> QED BY <3>1, <3>2, <3>3
  <2> HIDE DEF len
  <2>5. Elements(o) = Indices(e, len)
    <3>1. ASSUME NEW p \in Indices(e, len) PROVE p \in Elements(o)
      BY <2>4 DEF Elements, IsElement
    <3>2. ASSUME NEW p \in Elements(o) PROVE p \in Indices(e, len)
      <4>1. p \in Box(e, len) /\ p \in DOMAIN o /\ o[p].type # "ARRAY"
        BY <2>1 DEF Elements
      <4>2. Len(p) \in Nat /\ Len(p) <= e
        <5>1. e \in 0..3
          BY <2>3
        <5>2. p \in Seq(Nat) /\ Len(p) <= e
          BY <4>1, <5>1, <2>3, InBox
        <5> QED BY <5>2
      <4>3. ~(Len(p) < dims)
        BY <2>2, <4>1 DEF IsArray
      <4>4. Len(p) = e
        BY <4>2, <4>3, <2>3
      <4> QED BY <4>1, <4>4 DEF Indices
    <3> QED BY <3>1, <3>2
  <2>6. ASSUME NEW p \in Indices(e, len) PROVE GetArrayEntry(o, p) = "OK"
    <3>0. e \in 0..3
      BY <2>3
    <3>1. p \in Box(e, len) /\ Len(p) \in Nat
      BY <2>4, <2>3 DEF Indices
    <3>2. \A j \in 0..Len(p) : SubSeq(p, 1, j) \in Box(e, len)
      BY <3>0, <3>1, <2>3, BeginningInBox
    <3>3. \A j \in 1..Len(p) : SubSeq(p, 1, j) \in DOMAIN o
      BY <3>1, <3>2, <2>1
    <3>4. Misses(o, p) = {}
      BY <3>3 DEF Misses
    <3> QED BY <1>3, <3>4 DEF GetArrayEntry
  <2> QED BY <1>3, <2>1, <2>3, <2>4, <2>5, <2>6 DEF IsShaped, len
<1> QED BY <1>2, <1>3

(* What GetArrayEntry finds is there. *)
LEMMA FoundIsThere ==
  ASSUME NEW o, NEW d \in 1..3, NEW len \in [1..3 -> Int], NEW p \in Indices(d, len),
         GetArrayEntry(o, p) = "OK"
  PROVE  p \in DOMAIN o
<1>1. p \in Seq(Nat) /\ Len(p) = d
  <2>1. d \in 0..3
    OBVIOUS
  <2> QED BY <2>1, InBox DEF Indices
<1>2. Misses(o, p) = {}
  <2> DEFINE j == CHOOSE j \in Misses(o, p) : \A i \in Misses(o, p) : j <= i
             r == IF p[j] < 0 \/ p[j] > o[SubSeq(p, 1, j - 1)].length THEN "VAR_BAD_INDEX" ELSE "BEYOND"
  <2>1. GetArrayEntry(o, p) = IF o[Top].type # "ARRAY" THEN "VAR_NOT_ARRAY" ELSE IF Misses(o, p) = {} THEN "OK" ELSE r
    BY DEF GetArrayEntry
  <2>2. r # "OK"
    OBVIOUS
  <2> HIDE DEF r
  <2> QED BY <2>1, <2>2
<1>3. SubSeq(p, 1, d) = p /\ d \in 1..Len(p)
  BY <1>1
<1> QED BY <1>2, <1>3 DEF Misses

(* What is BEYOND an array is not an element of it, and only an array with *)
(* rows of different lengths has something BEYOND that its loops come to.  *)
LEMMA BeyondIs ==
  ASSUME NEW o, IsVar(o), DOMAIN o # {}, o[Top].type = "ARRAY", NEW d \in 1..3,
         NEW p \in Indices(d, GetArrayLength(o)), GetArrayEntry(o, p) = "BEYOND"
  PROVE  p \notin DOMAIN o /\ IsStray(o, p)
<1> DEFINE len == GetArrayLength(o)
           e == GetArrayDimension(o)
<1>1. PICK dims \in 1..3 : IsArray(o, dims)
  BY VarIs
<1>2. /\ len \in [1..3 -> Int] /\ e \in 1..dims
      /\ e < 3 => len[e + 1] = -1
  BY <1>1, ArrayLengths
<1>3. p \notin DOMAIN o
  <2> SUFFICES ASSUME p \in DOMAIN o PROVE FALSE
    OBVIOUS
  <2>1. \A j \in 1..Len(p) : j \in 0..Len(p)
    <3>1. Len(p) \in Nat
      BY <1>1 DEF IsArray
    <3> QED BY <3>1
  <2>2. Misses(o, p) = {}
    BY <1>1, <2>1 DEF IsArray, Misses
  <2> QED BY <2>2 DEF GetArrayEntry
<1> HIDE DEF len, e
<1>4. p \in Seq(Nat) /\ Len(p) = d /\ \A i \in 1..Len(p) : p[i] \in Nat /\ p[i] < len[i]
  <2>1. d \in 0..3 /\ p \in Box(d, len) /\ Len(p) = d
    BY DEF Indices, len
  <2>2. p \in Seq(Nat) /\ \A i \in 1..Len(p) : p[i] < len[i]
    BY <2>1, <1>2, InBox
  <2> QED BY <2>1, <2>2
<1>5. ~IsRectangular(o)
  <2> SUFFICES ASSUME DOMAIN o = Box(e, len) PROVE FALSE
    BY DEF IsRectangular, e, len
  <2>1. CASE d <= e
    <3>1. e \in 0..3 /\ Len(p) <= e
      BY <1>2, <1>4, <2>1
    <3>2. p \in Box(e, len)
      BY <3>1, <1>2, <1>4, InBox
    <3> QED BY <3>2, <1>3
  <2>2. CASE ~(d <= e)
    <3>1. e < 3 /\ e + 1 \in 1..d
      BY <1>2, <2>2
    <3>2. p[e + 1] \in Nat /\ p[e + 1] < -1
      BY <3>1, <1>2, <1>4
    <3> QED BY <3>2
  <2> QED BY <2>1, <2>2
<1> QED BY <1>3, <1>5 DEF IsStray, IsJagged

LEMMA ElementIs ==
  ASSUME NEW o, IsVar(o), NEW p \in DOMAIN o, o[p].type # "ARRAY"
  PROVE  IsElement(o[p])
<1>1. CASE DOMAIN o = {Top} /\ IsElement(o[Top])
  BY <1>1
<1>2. ASSUME NEW dims \in 1..3, IsArray(o, dims) PROVE IsElement(o[p])
  <2>1. Len(p) \in Nat /\ Len(p) <= dims /\ ~(Len(p) < dims)
    BY <1>2 DEF IsArray
  <2>2. Len(p) = dims
    BY <2>1
  <2> QED BY <1>2, <2>2 DEF IsArray
<1> QED BY <1>1, <1>2, VarIs

-----------------------------------------------------------------------------
(***************************************************************************)
(* The variables that have been read.                                      *)
(***************************************************************************)

LEMMA NoIndices ==
  ASSUME NEW len \in [1..3 -> Int]
  PROVE  /\ Indices(0, len) = {Top}
         /\ \A d \in 1..3 : len[1] <= 0 => Indices(d, len) = {}
<1>1. 0 \in 0..3
  OBVIOUS
<1>2. \A p : p \in Indices(0, len) <=> p \in [1..0 -> Nat]
  BY <1>1, IndicesAre
<1>3. \A p : p \in [1..0 -> Nat] <=> p = Top
  <2>1. Top \in [1..0 -> Nat]
    BY DEF Top
  <2>2. ASSUME NEW p \in [1..0 -> Nat] PROVE p = Top
    <3>1. p \in Seq(Nat) /\ Len(p) = 0
      OBVIOUS
    <3> QED BY <3>1, EmptySeq DEF Top
  <2> QED BY <2>1, <2>2
<1>4. ASSUME NEW d \in 1..3, len[1] <= 0, NEW p \in Indices(d, len) PROVE FALSE
  <2>1. d \in 0..3 /\ 1 \in 1..d
    OBVIOUS
  <2>2. p \in [1..d -> Nat] /\ p[1] < len[1]
    BY <2>1, IndicesAre
  <2> QED BY <1>4, <2>1, <2>2
<1> QED BY <1>2, <1>3, <1>4

(* The cells of an array that a readout makes. *)
IsGrid(o, d, len, tp) ==
  /\ DOMAIN o = Box(d, len)
  /\ \A p \in DOMAIN o :
       /\ Len(p) < d => o[p] = Block(len[Len(p) + 1])
       /\ Len(p) = d => o[p].type = tp

LEMMA GridIs ==
  ASSUME NEW d \in 1..3, NEW len \in [1..3 -> Int], len[1] > 0,
         CheckDimLength(d, len) = "OK", NEW tp \in DataTypes, NEW o, IsGrid(o, d, len, tp)
  PROVE  /\ o[Top].type = "ARRAY" /\ GetArrayDimension(o) = d /\ IsRectangular(o)
         /\ Elements(o) = Indices(d, len)
<1>1. len[d] >= 0 /\ \A i \in 1..d - 1 : len[i] > 0
  BY DEF CheckDimLength
<1>2. tp # "ARRAY"
  BY DEF DataTypes
<1>3. \A n \in Int : Block(n).type = "ARRAY" /\ Block(n).length = n
  BY DEF Block
<1>4. Len(Top) = 0 /\ Len(<<0>>) = 1 /\ Len(<<0, 0>>) = 2 /\ Top = <<>>
  BY DEF Top
<1>5. \A p : p \in Box(d, len) <=> p \in Seq(Nat) /\ Len(p) <= d /\ \A i \in 1..Len(p) : p[i] < len[i]
  <2>1. d \in 0..3
    OBVIOUS
  <2> QED BY <2>1, InBox
<1>6. Top \in DOMAIN o /\ <<0>> \in DOMAIN o
  <2>1. <<0>> \in Seq(Nat) /\ Len(<<0>>) <= d /\ \A i \in 1..Len(<<0>>) : <<0>>[i] < len[i]
    BY <1>4
  <2>2. Top \in Box(d, len)
    <3> d \in 0..3
      OBVIOUS
    <3> QED BY TopInBox
  <2>3. <<0>> \in Box(d, len)
    BY <2>1, <1>5
  <2> QED BY <2>2, <2>3 DEF IsGrid
<1>7. ASSUME d = 3 PROVE <<0, 0>> \in DOMAIN o
  <2>1. <<0, 0>> \in Seq(Nat) /\ Len(<<0, 0>>) <= d /\ \A i \in 1..2 : <<0, 0>>[i] = 0
    BY <1>7
  <2>2. \A i \in 1..2 : len[i] > 0
    BY <1>1, <1>7
  <2>3. \A i \in 1..Len(<<0, 0>>) : <<0, 0>>[i] < len[i]
    BY <2>1, <2>2, <1>4
  <2>4. <<0, 0>> \in Box(d, len)
    BY <2>1, <2>3, <1>5
  <2> QED BY <2>4 DEF IsGrid
<1> DEFINE m == GetArrayLength(o)
<1>8. o[Top] = Block(len[1]) /\ (d > 1 => o[<<0>>] = Block(len[2])) /\ (d > 2 => o[<<0, 0>>] = Block(len[3]))
  <2>1. o[Top] = Block(len[1])
    BY <1>4, <1>6 DEF IsGrid
  <2>2. ASSUME d > 1 PROVE o[<<0>>] = Block(len[2])
    <3>1. Len(<<0>>) < d /\ Len(<<0>>) + 1 = 2
      BY <2>2, <1>4
    <3> QED BY <3>1, <1>6 DEF IsGrid
  <2>3. ASSUME d > 2 PROVE o[<<0, 0>>] = Block(len[3])
    <3>1. Len(<<0, 0>>) < d /\ Len(<<0, 0>>) + 1 = 3 /\ d = 3
      BY <2>3, <1>4
    <3> QED BY <3>1, <1>7 DEF IsGrid
  <2> QED BY <2>1, <2>2, <2>3
<1>9. (d = 1 => o[<<0>>].type # "ARRAY") /\ (d = 2 /\ <<0, 0>> \in DOMAIN o => o[<<0, 0>>].type # "ARRAY")
  BY <1>2, <1>4, <1>6 DEF IsGrid
<1>10. /\ m[1] = len[1] /\ (d > 1 => m[2] = len[2]) /\ (d > 2 => m[3] = len[3])
       /\ (d = 1 => m[2] = -1) /\ (d = 2 => m[3] = -1)
  <2>1. m[1] = len[1]
    BY <1>3, <1>8, LengthIs
  <2>2. ASSUME d > 1 PROVE m[2] = len[2]
    <3>1. o[<<0>>].type = "ARRAY" /\ o[<<0>>].length = len[2]
      BY <2>2, <1>3, <1>8
    <3> QED BY <3>1, <1>6, LengthIs
  <2>3. ASSUME d > 2 PROVE m[3] = len[3]
    <3>1. d = 3 /\ d > 1
      BY <2>3
    <3>2. o[<<0>>].type = "ARRAY" /\ o[<<0, 0>>].type = "ARRAY" /\ o[<<0, 0>>].length = len[3]
      BY <2>3, <3>1, <1>3, <1>8
    <3> QED BY <3>1, <3>2, <1>6, <1>7, LengthIs
  <2>4. d = 1 => m[2] = -1
    BY <1>9, LengthIs
  <2>5. d = 2 => m[3] = -1
    BY <1>9, LengthIs
  <2> QED BY <2>1, <2>2, <2>3, <2>4, <2>5
<1>11. m = <<m[1], m[2], m[3]>>
  BY DEF GetArrayLength
<1> HIDE DEF m
<1>12. \A i \in 1..d : m[i] = len[i] /\ len[i] \in Nat
  <2>1. \A i \in 1..d : i = 1 \/ (i = 2 /\ d > 1) \/ (i = 3 /\ d > 2)
    OBVIOUS
  <2>2. \A i \in 1..d : m[i] = len[i]
    BY <2>1, <1>10
  <2>3. \A i \in 1..d : len[i] \in Nat
    BY <1>1
  <2> QED BY <2>2, <2>3
<1>13. GetArrayDimension(o) = d
  <2>1. \A i \in 1..d : m[i] # -1
    BY <1>12
  <2>2. d < 3 => m[d + 1] = -1
    BY <1>10
  <2>3. d \in 0..3
    OBVIOUS
  <2> QED BY <2>1, <2>2, <2>3, DimensionIs DEF m
<1>14. m \in [1..3 -> Int]
  <2>1. m[1] \in Int
    BY <1>10
  <2>2. m[2] \in Int
    BY <1>10, <1>3, LengthIs
  <2>3. m[3] \in Int
    <3>1. CASE d = 1
      BY <3>1, <1>9, LengthIs DEF m
    <3>2. CASE d = 2
      BY <3>2, <1>10
    <3>3. CASE d = 3
      BY <3>3, <1>10
    <3> QED BY <3>1, <3>2, <3>3
  <2> QED BY <2>1, <2>2, <2>3, <1>11
<1>15. Box(d, m) = Box(d, len)
  <2>1. d \in 0..3
    OBVIOUS
  <2>2. \A p : p \in Box(d, m) <=> p \in Seq(Nat) /\ Len(p) <= d /\ \A i \in 1..Len(p) : p[i] < m[i]
    BY <2>1, <1>14, InBox
  <2>3. ASSUME NEW p \in Seq(Nat), Len(p) <= d
        PROVE  (\A i \in 1..Len(p) : p[i] < m[i]) <=> (\A i \in 1..Len(p) : p[i] < len[i])
    <3>1. \A i \in 1..Len(p) : i \in 1..d
      BY <2>3
    <3> QED BY <3>1, <1>12
  <2>4. \A p : p \in Box(d, m) <=> p \in Box(d, len)
    BY <2>2, <2>3, <1>5
  <2> HIDE DEF m
  <2> QED BY <2>4
<1>16. Elements(o) = Indices(d, len)
  <2>1. ASSUME NEW p \in Box(d, len) PROVE o[p].type # "ARRAY" <=> Len(p) = d
    <3>1. Len(p) \in Nat /\ Len(p) <= d /\ p \in DOMAIN o
      <4>1. p \in Seq(Nat) /\ Len(p) <= d
        BY <1>5
      <4> QED BY <4>1 DEF IsGrid
    <3>2. CASE Len(p) = d
      BY <3>1, <3>2, <1>2 DEF IsGrid
    <3>3. CASE Len(p) # d
      <4>1. Len(p) < d /\ Len(p) + 1 \in 1..3
        BY <3>1, <3>3
      <4>2. o[p] = Block(len[Len(p) + 1])
        BY <3>1, <4>1 DEF IsGrid
      <4>3. len[Len(p) + 1] \in Int
        BY <4>1
      <4>4. o[p].type = "ARRAY"
        BY <4>2, <4>3, <1>3
      <4> QED BY <3>3, <4>4
    <3> QED BY <3>2, <3>3
  <2>2. DOMAIN o = Box(d, len)
    BY DEF IsGrid
  <2> QED BY <2>1, <2>2 DEF Elements, Indices
<1>17. o[Top].type = "ARRAY"
  BY <1>3, <1>8
<1>18. IsRectangular(o)
  BY <1>13, <1>15 DEF IsRectangular, IsGrid, m
<1> QED BY <1>13, <1>16, <1>17, <1>18

LEMMA ReadIsWhole ==
  ASSUME NEW q, IsParm(q), NEW o, ReadSoFar(q, o, {})
  PROVE  /\ HasShape(o, q.desc) \/ (q.occ[1] = 0 /\ o[Top].type = "ARRAY")
         /\ DOMAIN q.cells = Elements(o)
         /\ \A p \in Elements(o) : \/ o[p].val \in ReadOut(q.cells[p], q.desc)
                                   \/ q.cells[p] = <<>> /\ q.desc.format \in {"ALPHA", "UNICODE"}
<1> DEFINE dd == q.desc.dims
           len == q.occ
<1>1. dd \in 0..3 /\ len \in [1..3 -> Int] /\ DOMAIN q.cells = Indices(dd, len) /\ \A i \in 1..dd : len[i] >= 0
  BY DEF IsParm, IsDescription
<1>2. \A tp \in DataTypes : tp # "ARRAY"
  BY DEF DataTypes
<1>3. CASE dd = 0
  <2>1. PICK tp \in DataTypes : DOMAIN o = {Top} /\ o[Top].type = tp /\ o[Top].val \in ReadOut(q.cells[Top], q.desc)
    BY <1>3 DEF ReadSoFar
  <2>2. Elements(o) = {Top}
    BY <1>2, <2>1 DEF Elements
  <2>3. HasShape(o, q.desc)
    BY <1>2, <1>3, <2>1 DEF HasShape
  <2> QED BY <1>1, <1>3, <2>1, <2>2, <2>3, NoIndices
<1>4. CASE dd # 0
  <2> DEFINE dims == NewDims(dd, len)
  <2>1. PICK tp \in DataTypes :
          /\ CheckDimLength(dims, len) = "OK"
          /\ DOMAIN o = Box(dims, len)
          /\ \A p \in DOMAIN o :
                /\ Len(p) < dims => o[p] = Block(len[Len(p) + 1])
                /\ Len(p) = dims => /\ o[p] = [type |-> tp, length |-> o[p].length, val |-> o[p].val]
                                   /\ WasRead(o[p], q.cells[p], q.desc)
    <3>1. PICK tp \in DataTypes : ArraySoFar(q, o, {}, tp)
      BY <1>4, Zenon DEF ReadSoFar
    <3>2. \A p : p \notin {}
      OBVIOUS
    <3> QED BY <3>1, <3>2, Zenon DEF ArraySoFar, IsCell
  <2>2. CASE len[1] = 0
    <3>1. dims = 1
      BY <2>2 DEF NewDims
    <3>2. \A p \in DOMAIN o : p = Top
      <4> SUFFICES ASSUME NEW p \in Box(1, len) PROVE p = Top
        BY <2>1, <3>1
      <4>1. 1 \in 0..3
        OBVIOUS
      <4>2. p \in Seq(Nat) /\ Len(p) <= 1 /\ \A i \in 1..Len(p) : p[i] < len[i]
        BY <4>1, <1>1, InBox
      <4>5. Len(p) \in Nat
        BY <4>2
      <4>6. \A n \in Nat : n <= 1 => n = 0 \/ n = 1
        OBVIOUS
      <4>3. Len(p) = 0 \/ Len(p) = 1
        BY <4>2, <4>5, <4>6
      <4>4. Len(p) # 1
        <5> SUFFICES ASSUME Len(p) = 1 PROVE FALSE
          OBVIOUS
        <5>1. p[1] \in Nat /\ 1 \in 1..Len(p)
          BY <4>2
        <5>2. p[1] < 0
          BY <4>2, <5>1, <2>2
        <5> QED BY <5>1, <5>2
      <4> QED BY <4>2, <4>3, <4>4, EmptySeq DEF Top
    <3>3. Top \in DOMAIN o
      <4>1. 1 \in 0..3
        OBVIOUS
      <4> QED BY <4>1, <1>1, <2>1, <3>1, TopInBox
    <3>4. o[Top].type = "ARRAY"
      <4>1. Len(Top) < dims /\ Len(Top) + 1 = 1
        BY <3>1 DEF Top
      <4>2. o[Top] = Block(len[1])
        BY <4>1, <2>1, <3>3
      <4> QED BY <4>2 DEF Block
    <3>5. Elements(o) = {}
      BY <3>2, <3>4 DEF Elements
    <3>6. Indices(dd, len) = {}
      <4>1. dd \in 1..3
        BY <1>1, <1>4
      <4> QED BY <4>1, <1>1, <2>2, NoIndices
    <3> QED BY <1>1, <2>2, <3>4, <3>5, <3>6
  <2>3. CASE len[1] # 0
    <3>1. dims = dd /\ dd \in 1..3 /\ len[1] > 0
      BY <1>1, <1>4, <2>3 DEF NewDims
    <3>2. IsGrid(o, dd, len, tp)
      <4>1. \A p \in DOMAIN o : Len(p) = dims => o[p].type = tp
        BY <2>1
      <4> HIDE DEF dims
      <4> QED BY <2>1, <3>1, <4>1 DEF IsGrid
    <3>3. /\ o[Top].type = "ARRAY" /\ GetArrayDimension(o) = dd /\ IsRectangular(o)
          /\ Elements(o) = Indices(dd, len)
      BY <1>1, <2>1, <3>1, <3>2, GridIs
    <3>4. HasShape(o, q.desc)
      <4>1. DOMAIN o # {}
        <5>1. Top \in Box(dd, len)
          BY <1>1, TopInBox
        <5> QED BY <5>1, <2>1, <3>1
      <4> QED BY <4>1, <3>3 DEF HasShape
    <3>5. \A p \in Elements(o) : p \in DOMAIN o /\ Len(p) = dd
      BY <3>3 DEF Indices, Elements
    <3> HIDE DEF dims
    <3>6. \A p \in Elements(o) : WasRead(o[p], q.cells[p], q.desc)
      BY <2>1, <3>1, <3>5
    <3> QED BY <1>1, <3>3, <3>4, <3>6 DEF WasRead
  <2> QED BY <2>2, <2>3
<1> QED BY <1>3, <1>4

-----------------------------------------------------------------------------
(***************************************************************************)
(* What the steps of a put have in common.                                 *)
(***************************************************************************)

LEMMA RowLength ==
  ASSUME NEW n \in Nat, NEW s, IsRow(s, n)
  PROVE  Len(s) = n /\ DOMAIN s = 1..n
<1>1. DOMAIN s = 1..n
  BY DEF IsRow
<1> QED BY <1>1

(* The parameters, but for one of them, and the descriptions stay as they are. *)
OthersStay(n) ==
  /\ IsRow(parms', n) /\ \A j \in 1..n : j # k => parms'[j] = parms[j]
  /\ IsParm(parms'[k]) /\ parms'[k].desc = parms[k].desc
  /\ Holds(parms'[k], body[k])
  /\ failed \subseteq failed'

LEMMA StayingOthersStay ==
  ASSUME NEW n \in Nat, IInv(n), k \in 1..n, parms' = parms, failed \subseteq failed'
  PROVE  OthersStay(n)
BY DEF OthersStay, IInv, TypeInv, PutInv

LEMMA FitsStays ==
  ASSUME NEW n \in Nat, \A j \in 1..n : parms'[j].desc = parms[j].desc, body' = body
  PROVE  \A j \in 1..n : Fits(j)' <=> Fits(j)
<1> SUFFICES ASSUME NEW j \in 1..n PROVE Fits(j)' <=> Fits(j)
  OBVIOUS
<1>1. parms'[j].desc = parms[j].desc /\ body'[j] = body[j]
  OBVIOUS
<1> QED BY <1>1, Zenon DEF Fits

(* The put of a parameter ends. *)
LEMMA EndPutKeeps ==
  ASSUME NEW n \in Nat, IInv(n), phase \in {"put", "putArray"}, NEW r, EndPut(r), OthersStay(n),
         r = "OK" => AllThere(parms'[k], body[k]),
         Fits(k) /\ k \notin failed' => r = "OK"
  PROVE  IInv(n)'
<1>1. /\ n # 0 /\ IsRow(body, n) /\ IsRow(parms, n) /\ IsRow(putret, n) /\ IsRow(out, n)
      /\ (\A j \in 1..n : IsParm(parms[j]) /\ IsVar(body[j])) /\ k \in 1..n
  BY DEF IInv, TypeInv
<1>2. Len(parms) = n
  BY <1>1, RowLength
<1>3. /\ putret' = [putret EXCEPT ![k] = r]
      /\ phase' = (IF k = n THEN "natural" ELSE "put")
      /\ k' = k + 1 /\ body' = body /\ out' = out /\ ret' = ret
  BY <1>2 DEF EndPut
<1>4. IsRow(putret', n) /\ putret'[k] = r /\ \A j \in 1..n : j # k => putret'[j] = putret[j]
  <2>1. k \in 1..n /\ IsRow(putret, n) /\ putret' = [putret EXCEPT ![k] = r]
    BY <1>1, <1>3
  <2>2. putret' = [j \in 1..n |-> IF j = k THEN r ELSE putret[j]]
    <3>1. DOMAIN putret = 1..n
      BY <2>1, RowLength
    <3> QED BY <2>1, <3>1
  <2> QED BY <2>1, <2>2 DEF IsRow
<1>5. \A j \in 1..n : IsParm(parms'[j]) /\ parms'[j].desc = parms[j].desc
  BY <1>1 DEF OthersStay
<1>6. \A j \in 1..n : Fits(j)' <=> Fits(j)
  BY <1>3, <1>5, FitsStays
<1>7. phase' \in {"put", "natural"} /\ (phase' = "put" => k < n /\ k' \in 1..n)
  BY <1>1, <1>3
<1>8. TypeInv(n)'
  BY <1>1, <1>3, <1>4, <1>5, <1>7 DEF TypeInv, OthersStay
<1>9. \A j \in 1..n : Holds(parms'[j], body'[j]) /\ (putret'[j] = "OK" => AllThere(parms'[j], body'[j]))
  BY <1>1, <1>3, <1>4 DEF OthersStay, IInv, PutInv
<1>10. /\ ret = "OK" /\ \A j \in k..n : putret[j] = "NONE"
       /\ \A j \in 1..k - 1 : Fits(j) /\ j \notin failed => putret[j] = "OK"
  BY DEF IInv, PutInv
<1>11. \A j \in 1..k : Fits(j)' /\ j \notin failed' => putret'[j] = "OK"
  <2> SUFFICES ASSUME NEW j \in 1..k, Fits(j)', j \notin failed' PROVE putret'[j] = "OK"
    OBVIOUS
  <2>1. j \in 1..n /\ Fits(j) /\ j \notin failed
    BY <1>1, <1>6 DEF OthersStay
  <2>2. CASE j = k
    BY <2>1, <2>2, <1>4
  <2>3. CASE j # k
    <3>1. j \in 1..k - 1
      BY <1>1, <2>3
    <3> QED BY <2>1, <2>3, <3>1, <1>4, <1>10
  <2> QED BY <2>2, <2>3
<1>12. PutInv(n)'
  <2>1. ASSUME phase' = "put"
        PROVE  /\ ret' = "OK" /\ \A j \in k'..n : putret'[j] = "NONE"
               /\ \A j \in 1..k' - 1 : Fits(j)' /\ j \notin failed' => putret'[j] = "OK"
               /\ \A j \in k'..n : parms'[j].occ = parms'[j].desc.occ
    <3>1. k' = k + 1 /\ k' - 1 = k /\ k \in Nat
      BY <1>1, <1>3
    <3>2. \A j \in k'..n : j \in k + 1..n /\ j \in k..n /\ j \in 1..n /\ j # k
      BY <3>1, <1>1
    <3>3. \A j \in k + 1..n : parms[j].occ = parms[j].desc.occ
      BY DEF IInv, PutInv
    <3> QED BY <3>1, <3>2, <3>3, <1>3, <1>4, <1>10, <1>11 DEF OthersStay
  <2>2. ASSUME phase' = "natural"
        PROVE  \A j \in 1..n : Fits(j)' /\ j \notin failed' => putret'[j] = "OK"
    <3>1. k = n
      BY <2>2, <1>3
    <3> QED BY <3>1, <1>11
  <2>3. phase' = "put" => \A j \in k' + 1..n : j \in k'..n
    BY <1>7
  <2>4. phase' = "put" => k' \in k'..n
    BY <1>7
  <2>5. phase' # "putArray"
    BY <1>7
  <2> QED BY <2>1, <2>2, <2>3, <2>4, <2>5, <1>9 DEF PutInv
<1>13. LoopInv' /\ ReadInv(n)'
  BY <1>7 DEF LoopInv, ReadInv
<1> QED BY <1>8, <1>12, <1>13 DEF IInv

(* The put of a parameter goes on with the next element. *)
LEMMA GoingOnKeeps ==
  ASSUME NEW n \in Nat, IInv(n), phase \in {"put", "putArray"}, phase' = "putArray",
         UNCHANGED <<body, k, putret, out, ret>>, OthersStay(n), LoopInv'
  PROVE  IInv(n)'
<1>1. /\ n # 0 /\ IsRow(body, n) /\ IsRow(parms, n) /\ IsRow(putret, n) /\ IsRow(out, n)
      /\ (\A j \in 1..n : IsParm(parms[j]) /\ IsVar(body[j])) /\ k \in 1..n
  BY DEF IInv, TypeInv
<1>2. \A j \in 1..n : IsParm(parms'[j]) /\ parms'[j].desc = parms[j].desc
  BY <1>1 DEF OthersStay
<1>3. \A j \in 1..n : Fits(j)' <=> Fits(j)
  BY <1>2, FitsStays
<1>4. TypeInv(n)'
  BY <1>1, <1>2 DEF TypeInv, OthersStay
<1>5. /\ ret = "OK" /\ \A j \in k..n : putret[j] = "NONE"
      /\ \A j \in 1..k - 1 : Fits(j) /\ j \notin failed => putret[j] = "OK"
      /\ \A j \in k + 1..n : parms[j].occ = parms[j].desc.occ
  BY DEF IInv, PutInv
<1>6. putret[k] = "NONE"
  <2>1. k \in k..n
    BY <1>1
  <2> QED BY <2>1, <1>5
<1>7. PutInv(n)'
  <2>1. \A j \in 1..n : Holds(parms'[j], body'[j]) /\ (putret'[j] = "OK" => AllThere(parms'[j], body'[j]))
    BY <1>1, <1>6 DEF OthersStay, IInv, PutInv
  <2>2. \A j \in 1..k - 1 : Fits(j)' /\ j \notin failed' => putret[j] = "OK"
    <3>1. \A j \in 1..k - 1 : j \in 1..n
      BY <1>1
    <3> QED BY <3>1, <1>3, <1>5 DEF OthersStay
  <2>3. \A j \in k + 1..n : parms'[j].occ = parms'[j].desc.occ
    <3>1. \A j \in k + 1..n : j \in 1..n /\ j # k
      BY <1>1
    <3> QED BY <3>1, <1>5 DEF OthersStay
  <2> QED BY <2>1, <2>2, <2>3, <1>5 DEF PutInv
<1>8. ReadInv(n)'
  BY DEF ReadInv
<1> QED BY <1>4, <1>7, <1>8 DEF IInv

(* One cell is filled. *)
LEMMA CellIs ==
  ASSUME NEW n \in Nat, IsRow(parms, n), k \in 1..n, IsParm(parms[k]), NEW p \in DOMAIN parms[k].cells,
         NEW x, parms' = [parms EXCEPT ![k].cells[p] = x]
  PROVE  /\ IsRow(parms', n) /\ \A j \in 1..n : j # k => parms'[j] = parms[j]
         /\ parms'[k] = [desc |-> D, occ |-> parms[k].occ, cells |-> [parms[k].cells EXCEPT ![p] = x]]
<1> DEFINE q == parms[k]
           e == [desc |-> D, occ |-> q.occ, cells |-> [q.cells EXCEPT ![p] = x]]
<1>1. [q EXCEPT !.cells[p] = x] = e
  <2>1. q = [desc |-> D, occ |-> q.occ, cells |-> q.cells]
    BY DEF IsParm, D
  <2> QED BY <2>1
<1>2. parms' = [parms EXCEPT ![k] = [q EXCEPT !.cells[p] = x]]
  OBVIOUS
<1> HIDE DEF e, q
<1>3. parms' = [parms EXCEPT ![k] = e]
  BY <1>1, <1>2
<1>4. parms' = [j \in 1..n |-> IF j = k THEN e ELSE parms[j]]
  <2>1. DOMAIN parms = 1..n
    BY RowLength
  <2> QED BY <1>3, <2>1
<1>5. IsRow(parms', n) /\ (\A j \in 1..n : j # k => parms'[j] = parms[j]) /\ parms'[k] = e
  BY <1>4 DEF IsRow
<1> QED BY <1>5 DEF e, q

LEMMA CellPutKeeps ==
  ASSUME NEW n \in Nat, IInv(n), k \in 1..n, NEW p \in DOMAIN parms[k].cells, NEW c, IsElement(c),
         (p \in DOMAIN V /\ c = V[p]) \/ IsStray(V, p),
         NEW x, Arrived(x, c, D), parms' = [parms EXCEPT ![k].cells[p] = x],
         failed \subseteq failed'
  PROVE  /\ OthersStay(n) /\ (p \in DOMAIN V => IsThere(parms'[k], V, p))
         /\ \A r : IsThere(parms[k], V, r) => IsThere(parms'[k], V, r)
<1> DEFINE q == parms[k]
           N == parms'[k]
<1>1. IsRow(parms, n) /\ IsParm(q) /\ IsVar(V) /\ Holds(q, V) /\ D = q.desc /\ V = body[k]
  BY DEF IInv, TypeInv, PutInv, D, V
<1>2. /\ IsRow(parms', n) /\ \A j \in 1..n : j # k => parms'[j] = parms[j]
      /\ N = [desc |-> D, occ |-> q.occ, cells |-> [q.cells EXCEPT ![p] = x]]
  BY <1>1, CellIs
<1> HIDE DEF N, q
<1>3. /\ N.desc = D /\ N.occ = q.occ /\ DOMAIN N.cells = DOMAIN q.cells
      /\ N.cells[p] = x /\ \A r \in DOMAIN q.cells : r # p => N.cells[r] = q.cells[r]
      /\ N = [desc |-> N.desc, occ |-> N.occ, cells |-> N.cells]
  <2>1. p \in DOMAIN q.cells
    BY DEF q
  <2> QED BY <1>2, <2>1
<1>4. IsDescription(D)
  BY <1>1 DEF IsParm
<1>5. x \in Contents(D.format)
  BY <1>4, ArrivedIsIn DEF IsIn
<1>6. IsParm(N)
  BY <1>1, <1>3, <1>4, <1>5 DEF IsParm
<1>7. ASSUME p \in DOMAIN V PROVE IsThere(N, V, p)
  BY <1>1, <1>3, <1>7 DEF IsThere, IsStray, q
<1>8. ASSUME NEW r, IsThere(q, V, r) PROVE IsThere(N, V, r)
  <2>1. CASE r = p
    BY <2>1, <1>7, <1>8 DEF IsThere
  <2>2. CASE r # p
    BY <2>2, <1>1, <1>3, <1>8 DEF IsThere
  <2> QED BY <2>1, <2>2
<1>9. Holds(N, V)
  <2> SUFFICES ASSUME NEW r \in DOMAIN N.cells 
               PROVE N.cells[r] = N.desc.first \/ IsThere(N, V, r) \/ IsStray(V, r)
    BY DEF Holds
  <2>1. CASE r = p
    BY <2>1, <1>7
  <2>2. CASE r # p
    BY <2>2, <1>1, <1>3, <1>8 DEF Holds
  <2> QED BY <2>1, <2>2
<1>10. OthersStay(n)
  BY <1>1, <1>2, <1>3, <1>6, <1>9 DEF OthersStay, N, q
<1> QED BY <1>7, <1>8, <1>10 DEF N, q

(* What a variable that fits its parameter is like. *)
LEMMA FitIs ==
  ASSUME NEW n \in Nat, IInv(n), k \in 1..n, Fits(k)
  PROVE  /\ D.format \in WriteFormats /\ (D.format = "FLOAT" => D.length = 8)
         /\ HasShape(V, D) /\ IsShaped(V, D.dims)
         /\ \A p \in Elements(V) :
              /\ FitsCell(V[p], D) /\ IsElement(V[p])
              /\ \A tp \in TypesFor(D.format) : (D.format = "NUM" => tp = "STRING") =>
                   V[p].type = tp /\ Converted(V[p].val, tp, D).ret = "OK"
         /\ \A i \in 1..D.dims : \/ GetArrayLength(V)[i] <= D.occ[i]
                                 \/ "XARRAY" \in D.flags /\ UpperBound[i] \in D.flags
<1>1. /\ D.format \in WriteFormats /\ (D.format = "FLOAT" => D.length = 8)
      /\ HasShape(V, D) /\ \A p \in Elements(V) : FitsCell(V[p], D)
      /\ \A i \in 1..D.dims : \/ GetArrayLength(V)[i] <= D.occ[i]
                              \/ "XARRAY" \in D.flags /\ UpperBound[i] \in D.flags
  BY Zenon DEF Fits, D, V
<1>2. IsVar(V) /\ IsDescription(D)
  BY DEF IInv, TypeInv, IsParm, D, V
<1>3. IsShaped(V, D.dims)
  BY <1>1, <1>2, ShapeIs
<1>4. \A p \in Elements(V) : IsElement(V[p])
  BY <1>2, ElementIs DEF Elements
<1>5. ASSUME NEW p \in Elements(V), NEW tp \in TypesFor(D.format), D.format = "NUM" => tp = "STRING"
      PROVE  V[p].type = tp /\ Converted(V[p].val, tp, D).ret = "OK"
  BY <1>1, <1>2, <1>4, <1>5, FitsConverts
<1> QED BY <1>1, <1>3, <1>4, <1>5

(* What a put makes of an element has arrived. *)
LEMMA StoredHasArrived ==
  ASSUME NEW n \in Nat, IInv(n), k \in 1..n, NEW c, c.type \in TypesFor(D.format),
         D.format = "FLOAT" => D.length # 4, Converted(c.val, c.type, D).ret = "OK"
  PROVE  Arrived(Stored(Converted(c.val, c.type, D).val, D), c, D)
<1>1. IsDescription(D)
  BY DEF IInv, TypeInv, IsParm, D
<1>2. D.format = "FLOAT" => D.length = 8
  BY <1>1 DEF IsDescription
<1> QED BY <1>2 DEF Arrived

LEMMA NoArrays ==
  ASSUME NEW format
  PROVE  "ARRAY" \notin TypesFor(format) /\ "NULL" \notin TypesFor(format)
BY DEF TypesFor

-----------------------------------------------------------------------------
(***************************************************************************)
(* The steps of a put.                                                     *)
(***************************************************************************)

(* A put ends without a change. *)
LEMMA RefusedKeeps ==
  ASSUME NEW n \in Nat, IInv(n), phase \in {"put", "putArray"}, NEW r, r # "OK", EndPut(r), parms' = parms,
         failed \subseteq failed', ~(Fits(k) /\ k \notin failed')
  PROVE  IInv(n)'
<1>1. k \in 1..n
  BY DEF IInv, TypeInv
<1>2. OthersStay(n)
  BY <1>1, StayingOthersStay
<1> QED BY <1>2, EndPutKeeps

LEMMA PutScalarKeeps ==
  ASSUME NEW n \in Nat, IInv(n), NEW fmt, NEW tp \in TypesFor(fmt), NEW strict,
         D.format = "FLOAT" => D.length # 4, fmt = "NUM" => V[Top].type = tp,
         PutScalar(fmt, tp, strict)
  PROVE  IInv(n)'
<1> DEFINE o == V
           d == D
           c == Converted(o[Top].val, tp, d)
<1>1. phase = "put" /\ d.format = fmt /\ d.dims = 0 /\ DOMAIN o # {}
  BY DEF PutScalar, AtPut, IsPut
<1>2. k \in 1..n /\ IsVar(o) /\ IsParm(parms[k]) /\ d = parms[k].desc /\ o = body[k]
  BY <1>1 DEF IInv, TypeInv, D, V
<1>3. Top \in DOMAIN o /\ (o[Top].type # "ARRAY" => DOMAIN o = {Top})
  BY <1>1, <1>2, VarIs
<1>4. Top \in DOMAIN parms[k].cells
  <2>1. DOMAIN parms[k].cells = Indices(0, parms[k].occ) /\ parms[k].occ \in [1..3 -> Int]
    BY <1>1, <1>2 DEF IsParm
  <2> QED BY <2>1, NoIndices
<1>5. ASSUME Fits(k) PROVE o[Top].type = tp /\ c.ret = "OK"
  <2>1. Top \in Elements(o)
    BY <1>1, <1>2, <1>5, FitIs DEF IsShaped
  <2>2. \A t \in TypesFor(d.format) : (d.format = "NUM" => t = "STRING") =>
           o[Top].type = t /\ Converted(o[Top].val, t, d).ret = "OK"
    BY <2>1, <1>2, <1>5, FitIs
  <2>3. CASE fmt = "NUM"
    <3>1. o[Top].type = tp /\ "STRING" \in TypesFor(d.format)
      BY <2>3, <1>1 DEF TypesFor
    <3>2. o[Top].type = "STRING" /\ Converted(o[Top].val, "STRING", d).ret = "OK"
      BY <2>2, <3>1
    <3> QED BY <3>1, <3>2
  <2>4. CASE fmt # "NUM"
    BY <2>2, <2>4, <1>1
  <2> QED BY <2>3, <2>4
<1>6. \/ o[Top].type # tp /\ EndPut("FORMAT_ERR") /\ UNCHANGED <<parms, failed>>
      \/ o[Top].type = tp /\ c.ret # "OK" /\ EndPut(c.ret) /\ UNCHANGED <<parms, failed>>
      \/ /\ o[Top].type = tp /\ c.ret = "OK"
         /\ \E r \in NNIRets :
              /\ parms' = IF r = "ERR" THEN parms ELSE [parms EXCEPT ![k].cells[Top] = Stored(c.val, d)]
              /\ failed' = IF r = "OK" THEN failed ELSE failed \cup {k}
              /\ EndPut(IF r = "ERR" \/ (strict /\ r = "WARN") THEN "NNI_ERR" ELSE "OK")
  BY Zenon DEF PutScalar
<1> HIDE DEF o, d, c
<1>7. CASE o[Top].type # tp /\ EndPut("FORMAT_ERR") /\ UNCHANGED <<parms, failed>>
  BY <1>1, <1>5, <1>7, RefusedKeeps
<1>8. CASE o[Top].type = tp /\ c.ret # "OK" /\ EndPut(c.ret) /\ UNCHANGED <<parms, failed>>
  BY <1>1, <1>5, <1>8, RefusedKeeps
<1>9. ASSUME o[Top].type = tp, c.ret = "OK", NEW r \in NNIRets,
             parms' = IF r = "ERR" THEN parms ELSE [parms EXCEPT ![k].cells[Top] = Stored(c.val, d)],
             failed' = IF r = "OK" THEN failed ELSE failed \cup {k},
             EndPut(IF r = "ERR" \/ (strict /\ r = "WARN") THEN "NNI_ERR" ELSE "OK")
      PROVE  IInv(n)'
  <2>1. CASE r = "ERR"
    <3>1. parms' = parms /\ failed' = failed \cup {k} /\ EndPut("NNI_ERR")
      BY <1>9, <2>1
    <3> QED BY <3>1, <1>1, RefusedKeeps
  <2>2. CASE r # "ERR"
    <3> DEFINE e == IF strict /\ r = "WARN" THEN "NNI_ERR" ELSE "OK"
               x == Stored(c.val, d)
    <3>1. parms' = [parms EXCEPT ![k].cells[Top] = x] /\ EndPut(e)
      BY <1>9, <2>2
    <3>2. failed \subseteq failed' /\ (k \notin failed' => r = "OK")
      BY <1>9
    <3>3. Arrived(x, o[Top], d)
      BY <1>1, <1>2, <1>9, StoredHasArrived DEF o, d, c
    <3>4. o[Top].type # "ARRAY"
      BY <1>9, NoArrays
    <3>8. IsElement(o[Top])
      BY <3>4, <1>2, <1>3, ElementIs
    <3> HIDE DEF x
    <3>5. OthersStay(n) /\ IsThere(parms'[k], o, Top)
      BY <3>1, <3>2, <3>3, <3>8, <1>2, <1>3, <1>4, CellPutKeeps DEF o, d
    <3>6. AllThere(parms'[k], o)
      BY <3>4, <3>5, <1>3 DEF AllThere, Elements
    <3>7. k \notin failed' => e = "OK"
      BY <3>2
    <3> HIDE DEF e
    <3> QED BY <3>1, <3>5, <3>6, <3>7, <1>1, <1>2, EndPutKeeps
  <2> QED BY <2>1, <2>2
<1> QED BY <1>6, <1>7, <1>8, <1>9

LEMMA FitIsNotTooSmall ==
  ASSUME NEW n \in Nat, IInv(n), k \in 1..n, phase = "put", D.dims > 0, Fits(k)
  PROVE  TooSmall(parms[k], GetArrayLength(V)) = "OK"
<1> DEFINE len == GetArrayLength(V)
           q == parms[k]
<1>1. q.occ = D.occ /\ q.desc = D /\ D.occ \in [1..3 -> Nat] /\ D.dims \in 1..3
  <2>1. q.occ = D.occ /\ q.desc = D /\ IsParm(q)
    BY DEF IInv, TypeInv, PutInv, D
  <2>2. D.occ \in [1..3 -> Nat] /\ D.dims \in 0..3
    BY <2>1 DEF IsParm, IsDescription
  <2> QED BY <2>1, <2>2
<1>2. len \in [1..3 -> Int]
  BY FitIs DEF IsShaped
<1>3. \A i \in 1..D.dims : len[i] <= D.occ[i] \/ UpperBound[i] \in D.flags
  BY FitIs
<1> HIDE DEF len, q
<1>4. UpperBound[1] = "UBVAR_0" /\ UpperBound[2] = "UBVAR_1" /\ UpperBound[3] = "UBVAR_2"
  BY DEF UpperBound
<1>5. "UBVAR_0" \notin D.flags => ~(q.occ[1] < len[1])
  BY <1>1, <1>2, <1>3, <1>4
<1>6. D.dims > 1 /\ "UBVAR_1" \notin D.flags => ~(q.occ[2] < len[2])
  BY <1>1, <1>2, <1>3, <1>4
<1>7. D.dims > 2 /\ "UBVAR_2" \notin D.flags => ~(q.occ[3] < len[3])
  BY <1>1, <1>2, <1>3, <1>4
<1> QED BY <1>1, <1>5, <1>6, <1>7 DEF TooSmall, len, q

(* What the loops begin with: all indices are still to come. *)
LEMMA StartPutKeeps ==
  ASSUME NEW n \in Nat, IInv(n), phase = "put", OthersStay(n), NEW len, len = GetArrayLength(V),
         len \in [1..3 -> Int], StartPut(Paths(D.dims, len)), DOMAIN V # {}, V[Top].type = "ARRAY",
         D.format \in WriteFormats, D.format = "FLOAT" => D.length = 8, D.dims > 0
  PROVE  IInv(n)'
<1> DEFINE ps == Paths(D.dims, len)
<1>1. k \in 1..n /\ D = parms[k].desc /\ V = body[k] /\ IsVar(V) /\ D.dims \in 1..3
  <2>1. k \in 1..n /\ D = parms[k].desc /\ V = body[k] /\ IsVar(V) /\ IsParm(parms[k])
    BY DEF IInv, TypeInv, D, V
  <2>2. D.dims \in 0..3
    BY <2>1 DEF IsParm, IsDescription
  <2> QED BY <2>1, <2>2
<1>2. ps \in Seq(Indices(D.dims, len)) /\ \A p \in Indices(D.dims, len) : \E i \in 1..Len(ps) : ps[i] = p
  <2> DEFINE dims == D.dims
  <2>1. dims \in 1..3
    BY <1>1
  <2> HIDE DEF dims
  <2>2. /\ Paths(dims, len) \in Seq(Indices(dims, len))
        /\ \A p \in Indices(dims, len) : \E i \in 1..Len(Paths(dims, len)) : Paths(dims, len)[i] = p
    BY <2>1, PathsAre
  <2> QED BY <2>2 DEF dims
<1> HIDE DEF ps
<1>3. CASE ps = <<>>
  <2>1. EndPut("OK")
    BY <1>3 DEF StartPut, ps
  <2>2. Indices(D.dims, len) = {}
    <3>1. 1..Len(ps) = {}
      BY <1>3
    <3> QED BY <1>2, <3>1
  <2>3. HasShape(V, D) => Elements(V) = {}
    BY <2>2, <1>1, ShapeIs DEF IsShaped
  <2>4. AllThere(parms'[k], V)
    BY <2>3, <1>1 DEF AllThere, OthersStay
  <2> QED BY <2>1, <2>4, <1>1, EndPutKeeps
<1>4. CASE ps # <<>>
  <2>1. phase' = "putArray" /\ todo' = ps /\ UNCHANGED <<body, k, putret, out, ret>>
    BY <1>4 DEF StartPut, ps
  <2>2. D' = D /\ V' = V /\ D = D /\ parms'[k'] = parms'[k]
    BY <2>1, <1>1 DEF D, V, OthersStay
  <2>3. LoopInv'
    BY <2>1, <2>2, <1>2, <1>4 DEF LoopInv
  <2> QED BY <2>1, <2>3, GoingOnKeeps
<1> QED BY <1>3, <1>4

LEMMA ResizedIs ==
  ASSUME NEW n \in Nat, IInv(n), k \in 1..n, NEW len \in [1..3 -> Int], \A i \in 1..D.dims : len[i] >= 0,
         parms' = [parms EXCEPT ![k] = Resized(parms[k], len)], failed' = failed
  PROVE  OthersStay(n)
<1> DEFINE q == parms[k]
           N == Resized(q, len)
           cells == [p \in Indices(D.dims, len) |-> IF p \in DOMAIN q.cells THEN q.cells[p] ELSE D.first]
<1>1. IsRow(parms, n) /\ IsParm(q) /\ Holds(q, V) /\ D = q.desc /\ V = body[k]
  BY DEF IInv, TypeInv, PutInv, D, V
<1>2. IsRow(parms', n) /\ (\A j \in 1..n : j # k => parms'[j] = parms[j]) /\ parms'[k] = N
  <2>1. DOMAIN parms = 1..n
    BY <1>1, RowLength
  <2> HIDE DEF N
  <2>2. parms' = [j \in 1..n |-> IF j = k THEN N ELSE parms[j]]
    BY <2>1 DEF N
  <2> QED BY <2>2 DEF IsRow
<1>3. N = [desc |-> D, occ |-> len, cells |-> cells]
  <2>1. N = [q EXCEPT !.occ = len, !.cells = cells]
    BY <1>1 DEF Resized, Indices
  <2>2. q = [desc |-> D, occ |-> q.occ, cells |-> q.cells]
    BY <1>1 DEF IsParm
  <2> HIDE DEF N, cells, q
  <2>3. [q EXCEPT !.occ = len] = [desc |-> D, occ |-> len, cells |-> q.cells]
    BY <2>2
  <2>4. N = [[q EXCEPT !.occ = len] EXCEPT !.cells = cells]
    BY <2>1
  <2> QED BY <2>3, <2>4
<1>4. N.desc = D /\ N.occ = len /\ N.cells = cells /\ N = [desc |-> N.desc, occ |-> N.occ, cells |-> N.cells]
  BY <1>3
<1>5. DOMAIN cells = Indices(D.dims, len)
  OBVIOUS
<1>6. \A p \in Indices(D.dims, len) : cells[p] = D.first \/ (p \in DOMAIN q.cells /\ cells[p] = q.cells[p])
  OBVIOUS
<1> HIDE DEF N, cells, q
<1>7. IsParm(N)
  BY <1>1, <1>4, <1>5, <1>6 DEF IsParm, IsDescription
<1>8. Holds(N, V)
  <2> SUFFICES ASSUME NEW p \in DOMAIN N.cells
               PROVE N.cells[p] = N.desc.first \/ IsThere(N, V, p) \/ IsStray(V, p)
    BY DEF Holds
  <2>1. CASE cells[p] = D.first
    BY <2>1, <1>4
  <2>2. CASE p \in DOMAIN q.cells /\ cells[p] = q.cells[p]
    BY <2>2, <1>1, <1>4 DEF Holds, IsThere
  <2> QED BY <2>1, <2>2, <1>4, <1>5, <1>6
<1> QED BY <1>1, <1>2, <1>4, <1>7, <1>8 DEF OthersStay, q

LEMMA PutArrayKeeps ==
  ASSUME NEW n \in Nat, IInv(n), NEW fmt \in WriteFormats, D.format = "FLOAT" => D.length # 4, PutArray(fmt)
  PROVE  IInv(n)'
<1> DEFINE len == GetArrayLength(V)
           small == TooSmall(parms[k], len)
<1>1. phase = "put" /\ D.format = fmt /\ D.dims > 0 /\ DOMAIN V # {}
  BY DEF PutArray, AtPut, IsPut
<1>2. k \in 1..n /\ IsVar(V) /\ IsDescription(D)
  BY <1>1 DEF IInv, TypeInv, IsParm, D, V
<1>3. \/ V[Top].type # "ARRAY" /\ EndPut("FORMAT_ERR") /\ UNCHANGED <<parms, failed>>
      \/ V[Top].type = "ARRAY" /\ small # "OK" /\ EndPut(small) /\ UNCHANGED <<parms, failed>>
      \/ V[Top].type = "ARRAY" /\ small = "OK" /\ StartPut(Paths(D.dims, len)) /\ UNCHANGED <<parms, failed>>
      \/ /\ V[Top].type = "ARRAY" /\ \A i \in 1..D.dims : len[i] >= 0
         /\ parms' = [parms EXCEPT ![k] = Resized(parms[k], len)]
         /\ StartPut(Paths(D.dims, len)) /\ UNCHANGED failed
      \/ EndPut("NNI_ERR") /\ failed' = failed \cup {k} /\ UNCHANGED parms
  BY Zenon DEF PutArray
<1>4. ASSUME V[Top].type = "ARRAY" PROVE len \in [1..3 -> Int]
  <2>1. PICK dims \in 1..3 : IsArray(V, dims)
    BY <1>1, <1>2, <1>4, VarIs
  <2> QED BY <2>1, ArrayLengths
<1>5. D.format \in WriteFormats /\ (D.format = "FLOAT" => D.length = 8)
  BY <1>1, <1>2 DEF IsDescription
<1>6. CASE V[Top].type # "ARRAY" /\ EndPut("FORMAT_ERR") /\ UNCHANGED <<parms, failed>>
  <2>1. ~Fits(k)
    BY <1>1, <1>2, <1>6, FitIs DEF IsShaped
  <2> QED BY <2>1, <1>1, <1>6, RefusedKeeps
<1>7. CASE V[Top].type = "ARRAY" /\ small # "OK" /\ EndPut(small) /\ UNCHANGED <<parms, failed>>
  <2>1. ~Fits(k)
    BY <1>1, <1>2, <1>7, FitIsNotTooSmall
  <2> HIDE DEF small
  <2> QED BY <2>1, <1>1, <1>7, RefusedKeeps
<1>8. CASE V[Top].type = "ARRAY" /\ small = "OK" /\ StartPut(Paths(D.dims, len)) /\ UNCHANGED <<parms, failed>>
  <2>1. OthersStay(n)
    BY <1>2, <1>8, StayingOthersStay
  <2>2. len \in [1..3 -> Int] /\ len = GetArrayLength(V)
    BY <1>4, <1>8
  <2> HIDE DEF small, len
  <2> QED BY <2>1, <2>2, <1>1, <1>5, <1>8, StartPutKeeps
<1>9. CASE /\ V[Top].type = "ARRAY" /\ \A i \in 1..D.dims : len[i] >= 0
           /\ parms' = [parms EXCEPT ![k] = Resized(parms[k], len)]
           /\ StartPut(Paths(D.dims, len)) /\ UNCHANGED failed
  <2>1. len \in [1..3 -> Int] /\ len = GetArrayLength(V)
    BY <1>4, <1>9
  <2> HIDE DEF small, len
  <2>2. OthersStay(n)
    BY <2>1, <1>2, <1>9, ResizedIs
  <2> QED BY <2>1, <2>2, <1>1, <1>5, <1>9, StartPutKeeps
<1>10. CASE EndPut("NNI_ERR") /\ failed' = failed \cup {k} /\ UNCHANGED parms
  BY <1>1, <1>10, RefusedKeeps
<1> QED BY <1>3, <1>6, <1>7, <1>8, <1>9, <1>10

(* The first of the indices that are still to come, and the others. *)
LEMMA HeadAndTail ==
  ASSUME NEW S, NEW s \in Seq(S), s # <<>>
  PROVE  /\ Head(s) \in S /\ Tail(s) \in Seq(S) /\ Len(s) \in Nat \ {0}
         /\ \A p : (\E i \in 1..Len(s) : s[i] = p) <=> p = Head(s) \/ \E i \in 1..Len(Tail(s)) : Tail(s)[i] = p
         /\ Len(s) # 1 => Tail(s) # <<>>
         /\ Len(s) = 1 => \A i \in 1..Len(s) : s[i] = Head(s)
<1>1. /\ Head(s) = s[1] /\ s[1] \in S /\ Tail(s) \in Seq(S) /\ Len(s) \in Nat \ {0} /\ Len(Tail(s)) = Len(s) - 1
      /\ \A i \in 1..Len(s) - 1 : Tail(s)[i] = s[i + 1]
  BY HeadTailProperties, EmptySeq
<1>2. ASSUME NEW p, NEW i \in 1..Len(s), s[i] = p
      PROVE  p = Head(s) \/ \E j \in 1..Len(Tail(s)) : Tail(s)[j] = p
  <2>1. CASE i = 1
    BY <2>1, <1>1, <1>2
  <2>2. CASE i # 1
    <3>1. i - 1 \in 1..Len(Tail(s)) /\ i - 1 \in 1..Len(s) - 1 /\ (i - 1) + 1 = i
      BY <2>2, <1>1
    <3>2. Tail(s)[i - 1] = p
      BY <3>1, <1>1, <1>2
    <3> QED BY <3>1, <3>2
  <2> QED BY <2>1, <2>2
<1>3. ASSUME NEW p, NEW j \in 1..Len(Tail(s)), Tail(s)[j] = p
      PROVE  \E i \in 1..Len(s) : s[i] = p
  <2>1. j + 1 \in 1..Len(s) /\ j \in 1..Len(s) - 1
    BY <1>1
  <2> QED BY <2>1, <1>1, <1>3
<1>4. 1 \in 1..Len(s)
  BY <1>1
<1>5. ASSUME Len(s) # 1 PROVE Tail(s) # <<>>
  <2>1. Len(Tail(s)) # 0 /\ Len(<<>>) = 0
    BY <1>1, <1>5
  <2> QED BY <2>1, Zenon
<1>6. ASSUME Len(s) = 1, NEW i \in 1..Len(s) PROVE s[i] = Head(s)
  BY <1>1, <1>6
<1> QED BY <1>1, <1>2, <1>3, <1>4, <1>5, <1>6

(* What the loops over an array have to do with the array. *)
LEMMA LoopIs ==
  ASSUME NEW n \in Nat, IInv(n), phase = "putArray"
  PROVE  LET p == Head(todo)
             I == Indices(D.dims, GetArrayLength(V))
         IN /\ k \in 1..n /\ IsVar(V) /\ DOMAIN V # {} /\ V[Top].type = "ARRAY"
            /\ D.dims \in 1..3 /\ GetArrayLength(V) \in [1..3 -> Int] /\ D = parms[k].desc /\ V = body[k]
            /\ D.format \in WriteFormats /\ (D.format = "FLOAT" => D.length = 8)
            /\ p \in I /\ Tail(todo) \in Seq(I) /\ Len(todo) \in Nat \ {0}
            /\ Len(todo) # 1 => Tail(todo) # <<>>
            /\ Len(todo) = 1 => \A i \in 1..Len(todo) : todo[i] = p
            /\ \A r \in I : r = p \/ (\E i \in 1..Len(Tail(todo)) : Tail(todo)[i] = r)
                              \/ IsThere(parms[k], V, r) \/ r \notin DOMAIN V
<1> DEFINE p == Head(todo)
           len == GetArrayLength(V)
           I == Indices(D.dims, len)
<1>2. k \in 1..n /\ IsVar(V) /\ IsParm(parms[k]) /\ D = parms[k].desc /\ V = body[k]
  BY DEF IInv, TypeInv, D, V
<1>3. /\ D.format \in WriteFormats /\ (D.format = "FLOAT" => D.length = 8)
      /\ D.dims > 0 /\ DOMAIN V # {} /\ V[Top].type = "ARRAY" /\ todo \in Seq(I) /\ todo # <<>>
      /\ \A r \in I : (\E i \in 1..Len(todo) : todo[i] = r) \/ IsThere(parms[k], V, r) \/ r \notin DOMAIN V
  BY DEF IInv, LoopInv
<1>4. D.dims \in 1..3
  <2>1. D.dims \in 0..3
    BY <1>2 DEF IsParm, IsDescription
  <2> QED BY <2>1, <1>3
<1>5. len \in [1..3 -> Int]
  <2>2. PICK dims \in 1..3 : IsArray(V, dims)
    BY <1>2, <1>3, VarIs
  <2> QED BY <2>2, ArrayLengths
<1> HIDE DEF I
<1>6. /\ p \in I /\ Tail(todo) \in Seq(I) /\ Len(todo) \in Nat \ {0}
      /\ \A r : (\E i \in 1..Len(todo) : todo[i] = r) <=> r = p \/ \E i \in 1..Len(Tail(todo)) : Tail(todo)[i] = r
      /\ Len(todo) # 1 => Tail(todo) # <<>>
      /\ Len(todo) = 1 => \A i \in 1..Len(todo) : todo[i] = p
  BY <1>3, HeadAndTail
<1>7. \A r \in I : r = p \/ (\E i \in 1..Len(Tail(todo)) : Tail(todo)[i] = r)
                    \/ IsThere(parms[k], V, r) \/ r \notin DOMAIN V
  BY <1>3, <1>6
<1> QED BY <1>2, <1>3, <1>4, <1>5, <1>6, <1>7, Zenon DEF I

(* One entry is put: the array's own, or one that lies behind a row of it. *)
LEMMA PutEntryKeeps ==
  ASSUME NEW n \in Nat, IInv(n), phase = "putArray", NEW tp \in TypesFor(D.format),
         NEW e, IsElement(e), PutEntry(Head(todo), e, tp),
         (Head(todo) \in DOMAIN V /\ e = V[Head(todo)]) \/ IsStray(V, Head(todo)),
         Fits(k) => e.type = tp /\ Converted(e.val, tp, D).ret = "OK"
  PROVE  IInv(n)'
<1> DEFINE p == Head(todo)
           c == Converted(e.val, tp, D)
           I == Indices(D.dims, GetArrayLength(V))
<1>1. /\ k \in 1..n /\ IsVar(V) /\ DOMAIN V # {} /\ V[Top].type = "ARRAY"
      /\ D.dims \in 1..3 /\ D = parms[k].desc /\ V = body[k]
      /\ D.format \in WriteFormats /\ (D.format = "FLOAT" => D.length = 8)
      /\ p \in I /\ Tail(todo) \in Seq(I) /\ Len(todo) \in Nat \ {0}
      /\ Len(todo) # 1 => Tail(todo) # <<>>
      /\ Len(todo) = 1 => \A i \in 1..Len(todo) : todo[i] = p
      /\ \A r \in I : r = p \/ (\E i \in 1..Len(Tail(todo)) : Tail(todo)[i] = r)
                        \/ IsThere(parms[k], V, r) \/ r \notin DOMAIN V
  BY LoopIs, Zenon
<1>2. HasShape(V, D) => Elements(V) = I /\ \A r \in Elements(V) : r \in DOMAIN V
  BY <1>1, ShapeIs DEF IsShaped, Elements
<1>3. \/ e.type # tp /\ EndPut("FORMAT_ERR") /\ UNCHANGED <<parms, failed>>
      \/ c.ret # "OK" /\ EndPut(c.ret) /\ UNCHANGED <<parms, failed>>
      \/ EndPut("NNI_ERR") /\ failed' = failed \cup {k} /\ UNCHANGED parms
      \/ /\ e.type = tp /\ c.ret = "OK" /\ p \in DOMAIN parms[k].cells
         /\ parms' = [parms EXCEPT ![k].cells[p] = Stored(c.val, D)]
         /\ \E r \in NNIRets : failed' = IF r = "OK" THEN failed ELSE failed \cup {k}
         /\ NextPut
  BY Zenon DEF PutEntry
<1>4. Fits(k) => e.type = tp /\ c.ret = "OK"
  OBVIOUS
<1>5. (p \in DOMAIN V /\ e = V[p]) \/ IsStray(V, p)
  OBVIOUS
<1> HIDE DEF I, c, p
<1>6. CASE e.type # tp /\ EndPut("FORMAT_ERR") /\ UNCHANGED <<parms, failed>>
  BY <1>4, <1>6, RefusedKeeps
<1>7. CASE c.ret # "OK" /\ EndPut(c.ret) /\ UNCHANGED <<parms, failed>>
  BY <1>4, <1>7, RefusedKeeps
<1>8. CASE EndPut("NNI_ERR") /\ failed' = failed \cup {k} /\ UNCHANGED parms
  BY <1>8, RefusedKeeps
<1>9. CASE /\ e.type = tp /\ c.ret = "OK" /\ p \in DOMAIN parms[k].cells
           /\ parms' = [parms EXCEPT ![k].cells[p] = Stored(c.val, D)]
           /\ \E r \in NNIRets : failed' = IF r = "OK" THEN failed ELSE failed \cup {k}
           /\ NextPut
  <2> DEFINE x == Stored(c.val, D)
  <2>1. Arrived(x, e, D)
    BY <1>1, <1>9, StoredHasArrived DEF c
  <2>2. failed \subseteq failed'
    BY <1>9
  <2> HIDE DEF x
  <2>3. /\ OthersStay(n) /\ (p \in DOMAIN V => IsThere(parms'[k], V, p))
        /\ \A r : IsThere(parms[k], V, r) => IsThere(parms'[k], V, r)
    BY <2>1, <2>2, <1>1, <1>5, <1>9, CellPutKeeps DEF x
  <2>4. \A r \in I : (\E i \in 1..Len(Tail(todo)) : Tail(todo)[i] = r) \/ IsThere(parms'[k], V, r) \/ r \notin DOMAIN V
    BY <2>3, <1>1
  <2>5. CASE Len(todo) = 1
    <3>1. EndPut("OK")
      BY <2>5, <1>9 DEF NextPut
    <3>2. \A r \in I : IsThere(parms'[k], V, r) \/ r \notin DOMAIN V
      <4>1. \A i \in 1..Len(Tail(todo)) : FALSE
        <5>1. Len(Tail(todo)) = 0
          <6>1. todo # <<>> /\ todo \in Seq(I)
            BY DEF IInv, LoopInv, I
          <6> QED BY <6>1, <2>5, HeadTailProperties
        <5> HIDE DEF I
        <5>2. \A m : m = 0 => \A i \in 1..m : FALSE
          OBVIOUS
        <5> QED BY <5>1, <5>2, Zenon
      <4> QED BY <2>4, <4>1
    <3>3. AllThere(parms'[k], V)
      BY <3>2, <2>3, <1>1, <1>2 DEF AllThere, OthersStay
    <3> QED BY <3>1, <3>3, <2>3, <1>1, EndPutKeeps
  <2>6. CASE Len(todo) # 1
    <3>1. todo' = Tail(todo) /\ UNCHANGED <<body, phase, k, putret, out, ret>>
      BY <2>6, <1>9 DEF NextPut
    <3>2. D' = D /\ V' = V
      BY <3>1, <1>1, <2>3 DEF D, V, OthersStay
    <3>3. LoopInv'
      BY <3>1, <3>2, <2>4, <2>6, <1>1 DEF LoopInv, I
    <3> QED BY <3>1, <3>3, <2>3, GoingOnKeeps
  <2> QED BY <2>5, <2>6
<1> QED BY <1>3, <1>6, <1>7, <1>8, <1>9

LEMMA PutArrayEntryKeeps ==
  ASSUME NEW n \in Nat, IInv(n), NEW fmt, NEW tp \in TypesFor(fmt), fmt = "NUM" => tp = "STRING",
         PutArrayEntry(fmt, tp)
  PROVE  IInv(n)'
<1> DEFINE p == Head(todo)
           len == GetArrayLength(V)
           found == GetArrayEntry(V, p)
<1>1. phase = "putArray" /\ D.format = fmt
  BY DEF PutArrayEntry
<1>2. /\ k \in 1..n /\ IsVar(V) /\ DOMAIN V # {} /\ V[Top].type = "ARRAY"
      /\ D.dims \in 1..3 /\ len \in [1..3 -> Int] /\ p \in Indices(D.dims, len)
  BY <1>1, LoopIs, Zenon
<1>3. \/ found = "OK" /\ PutEntry(p, V[p], tp)
      \/ found # "OK" /\ found # "BEYOND" /\ EndPut(found) /\ UNCHANGED <<parms, failed>>
      \/ found = "BEYOND" /\ \E e \in Strays : PutEntry(p, e, tp)
      \/ found = "BEYOND" /\ EndPut("VAR_BAD_INDEX") /\ UNCHANGED <<parms, failed>>
      \/ found = "BEYOND" /\ phase' = "killed" /\ UNCHANGED <<body, parms, k, todo, putret, out, ret, failed>>
  BY Zenon DEF PutArrayEntry
<1>4. ASSUME Fits(k) PROVE found = "OK" /\ V[p].type = tp /\ Converted(V[p].val, tp, D).ret = "OK"
  <2>1. p \in Elements(V) /\ found = "OK"
    <3>1. IsShaped(V, D.dims)
      BY <1>2, <1>4, FitIs
    <3>2. Elements(V) = Indices(D.dims, len) /\ \A r \in Elements(V) : GetArrayEntry(V, r) = "OK"
      BY <3>1, <1>2 DEF IsShaped
    <3> HIDE DEF p, len
    <3> QED BY <3>2, <1>2 DEF found
  <2>2. \A t \in TypesFor(D.format) : (D.format = "NUM" => t = "STRING") =>
           V[p].type = t /\ Converted(V[p].val, t, D).ret = "OK"
    BY <2>1, <1>2, <1>4, FitIs
  <2> QED BY <2>1, <2>2, <1>1
<1>5. ASSUME found = "OK" PROVE p \in DOMAIN V
  BY <1>2, <1>5, FoundIsThere
<1>6. ASSUME found = "BEYOND" PROVE IsStray(V, p)
  BY <1>2, <1>6, BeyondIs
<1> HIDE DEF found, p
<1>7. CASE found = "OK" /\ PutEntry(p, V[p], tp)
  <2>1. CASE V[p].type # "ARRAY"
    <3>1. IsElement(V[p])
      BY <1>2, <1>5, <1>7, <2>1, ElementIs
    <3> QED BY <3>1, <1>1, <1>4, <1>5, <1>7, PutEntryKeeps DEF p
  <2>2. CASE V[p].type = "ARRAY"
    <3>1. V[p].type # tp
      BY <2>2, NoArrays
    <3>2. EndPut("FORMAT_ERR") /\ UNCHANGED <<parms, failed>>
      BY <3>1, <1>7, Zenon DEF PutEntry
    <3> QED BY <3>1, <3>2, <1>1, <1>4, RefusedKeeps
  <2> QED BY <2>1, <2>2
<1>8. CASE found # "OK" /\ EndPut(found) /\ UNCHANGED <<parms, failed>>
  BY <1>1, <1>4, <1>8, RefusedKeeps
<1>9. CASE found = "BEYOND" /\ \E e \in Strays : PutEntry(p, e, tp)
  <2>1. PICK e \in Strays : PutEntry(p, e, tp)
    BY <1>9
  <2>2. IsElement(e) /\ ~Fits(k)
    BY <1>4, <1>9, StraysAssumption
  <2> QED BY <2>1, <2>2, <1>1, <1>6, <1>9, PutEntryKeeps DEF p
<1>10. CASE found = "BEYOND" /\ EndPut("VAR_BAD_INDEX") /\ UNCHANGED <<parms, failed>>
  BY <1>1, <1>4, <1>10, RefusedKeeps
<1>11. CASE phase' = "killed" /\ UNCHANGED <<body, parms, k, todo, putret, out, ret, failed>>
  <2>1. TypeInv(n)'
    BY <1>11 DEF IInv, TypeInv
  <2>2. PutInv(n)'
    BY <1>11 DEF IInv, PutInv
  <2>3. LoopInv' /\ ReadInv(n)'
    BY <1>11 DEF LoopInv, ReadInv
  <2> QED BY <2>1, <2>2, <2>3 DEF IInv
<1> QED BY <1>3, <1>7, <1>8, <1>9, <1>10, <1>11

LEMMA PutInfoFailsKeeps ==
  ASSUME NEW n \in Nat, IInv(n), PutInfoFails
  PROVE  IInv(n)'
<1>1. phase = "put" /\ ret' = "NNI_ERR" /\ phase' = "natural" /\ UNCHANGED <<body, parms, k, todo, putret, out>>
  BY DEF PutInfoFails
<1>2. TypeInv(n)'
  BY <1>1 DEF IInv, TypeInv
<1>3. PutInv(n)'
  BY <1>1 DEF IInv, PutInv
<1>4. LoopInv' /\ ReadInv(n)'
  BY <1>1 DEF LoopInv, ReadInv
<1> QED BY <1>2, <1>3, <1>4 DEF IInv

(* What cannot be put does not fit. *)
LEMMA PutNothingKeeps ==
  ASSUME NEW n \in Nat, IInv(n), PutNothing
  PROVE  IInv(n)'
<1>1. phase = "put" /\ ~IsPut /\ EndPut("NONE") /\ parms' = parms /\ failed' = failed
  BY DEF PutNothing
<1>2. k \in 1..n
  BY <1>1 DEF IInv, TypeInv
<1>3. ASSUME Fits(k) PROVE FALSE
  <2>1. D.format \in WriteFormats /\ HasShape(V, D) /\ IsShaped(V, D.dims)
    BY <1>2, <1>3, FitIs
  <2>2. V[Top].type = "NULL"
    BY <1>1, <2>1 DEF IsPut, HasShape
  <2>3. DOMAIN V # {} /\ IsVar(V)
    BY <1>2, <2>1 DEF HasShape, IInv, TypeInv, V
  <2>4. Top \in Elements(V)
    BY <2>2, <2>3, VarIs DEF Elements
  <2>5. \A tp \in TypesFor(D.format) : (D.format = "NUM" => tp = "STRING") => V[Top].type = tp
    BY <1>2, <1>3, <2>4, FitIs
  <2>6. \E tp \in TypesFor(D.format) : D.format = "NUM" => tp = "STRING"
    <3>1. /\ TypesFor("ALPHA") = {"STRING"} /\ TypesFor("INT") = {"INTEGER"} /\ TypesFor("LOG") = {"BOOLEAN"}
          /\ TypesFor("FLOAT") = {"FLOAT"} /\ TypesFor("NUM") = {"STRING", "INTEGER"}
      BY DEF TypesFor
    <3> QED BY <2>1, <3>1 DEF WriteFormats
  <2> QED BY <2>2, <2>5, <2>6, NoArrays
<1> QED BY <1>1, <1>3, RefusedKeeps

LEMMA PutF4Keeps ==
  ASSUME NEW n \in Nat, IInv(n), PutF4
  PROVE  IInv(n)'
<1>1. phase = "put" /\ D.format = "FLOAT" /\ D.length = 4 /\ EndPut("USE_F8") /\ parms' = parms /\ failed' = failed
  BY DEF PutF4, AtPut
<1>2. k \in 1..n
  BY <1>1 DEF IInv, TypeInv
<1>3. ~Fits(k)
  BY <1>1, <1>2, FitIs
<1> QED BY <1>1, <1>3, RefusedKeeps

LEMMA PutAtoNKeeps ==
  ASSUME NEW n \in Nat, IInv(n), PutAtoN
  PROVE  IInv(n)'
<1>1. phase = "put" /\ D.format = "NUM" /\ D.dims = 0
  BY DEF PutAtoN, AtPut
<1>2. k \in 1..n
  BY <1>1 DEF IInv, TypeInv
<1>3. TypesFor("NUM") = {"STRING", "INTEGER"}
  BY DEF TypesFor
<1>4. CASE V[Top].type = "INTEGER" /\ PutScalar("NUM", "INTEGER", FALSE)
  BY <1>1, <1>3, <1>4, PutScalarKeeps
<1>5. CASE V[Top].type = "STRING" /\ PutScalar("NUM", "STRING", FALSE)
  BY <1>1, <1>3, <1>5, PutScalarKeeps
<1>6. CASE V[Top].type \notin {"INTEGER", "STRING"} /\ EndPut("NNI_ERR") /\ UNCHANGED <<parms, failed>>
  <2>1. ASSUME Fits(k) PROVE FALSE
    <3>1. Top \in Elements(V)
      BY <1>1, <1>2, <2>1, FitIs DEF IsShaped
    <3>2. V[Top].type = "STRING"
      BY <1>1, <1>2, <1>3, <2>1, <3>1, FitIs
    <3> QED BY <3>2, <1>6
  <2> QED BY <2>1, <1>1, <1>6, RefusedKeeps
<1> QED BY <1>4, <1>5, <1>6 DEF PutAtoN

LEMMA PutStepKeeps ==
  ASSUME NEW n \in Nat, IInv(n), PutStep
  PROVE  IInv(n)'
<1>1. /\ "STRING" \in TypesFor("ALPHA") /\ "INTEGER" \in TypesFor("INT") /\ "BOOLEAN" \in TypesFor("LOG")
      /\ "FLOAT" \in TypesFor("FLOAT") /\ "STRING" \in TypesFor("NUM")
  BY DEF TypesFor
<1>2. \A fmt : PutArray(fmt) => D.format = fmt
  BY DEF PutArray, AtPut
<1>3. \A fmt, tp, strict : PutScalar(fmt, tp, strict) => D.format = fmt
  BY DEF PutScalar, AtPut
<1>4. {"ALPHA", "FLOAT", "INT", "LOG", "NUM"} = WriteFormats
  BY DEF WriteFormats
<1>5. CASE PutString
  <2>1. PutScalar("ALPHA", "STRING", FALSE)
    BY <1>5 DEF PutString
  <2> QED BY <2>1, <1>1, <1>3, PutScalarKeeps
<1>6. CASE PutInteger
  <2>1. PutScalar("INT", "INTEGER", TRUE)
    BY <1>6 DEF PutInteger
  <2> QED BY <2>1, <1>1, <1>3, PutScalarKeeps
<1>7. CASE PutBool
  <2>1. PutScalar("LOG", "BOOLEAN", TRUE)
    BY <1>7 DEF PutBool
  <2> QED BY <2>1, <1>1, <1>3, PutScalarKeeps
<1>8. CASE PutFloat
  <2>1. PutScalar("FLOAT", "FLOAT", TRUE) /\ D.length # 4
    BY <1>8 DEF PutFloat
  <2> QED BY <2>1, <1>1, <1>3, PutScalarKeeps
<1>9. CASE PutStringArray \/ PutIntegerArray \/ PutBoolArray \/ PutAtoNArray
  <2>1. PICK fmt \in {"ALPHA", "INT", "LOG", "NUM"} : PutArray(fmt)
    BY <1>9 DEF PutStringArray, PutIntegerArray, PutBoolArray, PutAtoNArray
  <2>2. D.format # "FLOAT" /\ fmt \in WriteFormats
    BY <2>1, <1>2, <1>4
  <2> QED BY <2>1, <2>2, PutArrayKeeps
<1>10. CASE PutFloatArray
  <2>1. PutArray("FLOAT") /\ D.length # 4 /\ "FLOAT" \in WriteFormats
    BY <1>10, <1>4 DEF PutFloatArray
  <2> QED BY <2>1, PutArrayKeeps
<1>11. CASE PutStringArrayEntry \/ PutIntegerArrayEntry \/ PutBoolArrayEntry \/ PutFloatArrayEntry \/ PutAtoNArrayEntry
  <2>1. \E fmt : \E tp \in TypesFor(fmt) : (fmt = "NUM" => tp = "STRING") /\ PutArrayEntry(fmt, tp)
    BY <1>1, <1>11 DEF PutStringArrayEntry, PutIntegerArrayEntry, PutBoolArrayEntry, PutFloatArrayEntry, PutAtoNArrayEntry
  <2> QED BY <2>1, PutArrayEntryKeeps
<1> QED BY <1>5, <1>6, <1>7, <1>8, <1>9, <1>10, <1>11, PutInfoFailsKeeps, PutNothingKeeps, PutF4Keeps, PutAtoNKeeps
        DEF PutStep

-----------------------------------------------------------------------------
(***************************************************************************)
(* The steps of a readout.                                                 *)
(***************************************************************************)

LEMMA StartReadoutKeeps ==
  ASSUME NEW n \in Nat, IInv(n), StartReadout
  PROVE  IInv(n)'
<1>1. phase = "natural" /\ phase' = "read" /\ k' = 1 /\ ret' = "OK" /\ UNCHANGED <<body, parms, putret, out>>
  BY DEF StartReadout
<1>2. n # 0 /\ k' \in 1..n
  BY <1>1 DEF IInv, TypeInv
<1>3. TypeInv(n)'
  BY <1>1, <1>2 DEF IInv, TypeInv
<1>4. PutInv(n)' /\ LoopInv'
  BY <1>1 DEF IInv, PutInv, LoopInv
<1>5. ReadInv(n)'
  <2>1. \A j \in 1..k' - 1 : FALSE
    BY <1>1
  <2> QED BY <1>1, <2>1 DEF ReadInv
<1> QED BY <1>3, <1>4, <1>5 DEF IInv

(* The readout of a parameter ends. *)
LEMMA EndReadKeeps ==
  ASSUME NEW n \in Nat, IInv(n), phase \in {"read", "readArray"}, NEW r, EndRead(r),
         IsRow(out', n), \A j \in 1..n : j # k => out'[j] = out[j],
         r = "OK" => HasBeenRead(parms[k], out'[k])
  PROVE  IInv(n)'
<1>1. n # 0 /\ IsRow(parms, n) /\ k \in 1..n
  BY DEF IInv, TypeInv
<1>2. Len(parms) = n
  BY <1>1, RowLength
<1>3. /\ ret' = r /\ phase' = (IF r # "OK" \/ k = n THEN "end" ELSE "read") /\ k' = k + 1
      /\ UNCHANGED <<body, parms, putret, failed>>
  BY <1>2 DEF EndRead
<1>4. phase' \in {"read", "end"} /\ (phase' = "read" => r = "OK" /\ k' \in 1..n)
  BY <1>1, <1>3
<1>5. TypeInv(n)'
  BY <1>1, <1>3, <1>4 DEF IInv, TypeInv
<1>6. PutInv(n)' /\ LoopInv'
  BY <1>3, <1>4 DEF IInv, PutInv, LoopInv
<1>7. ASSUME r = "OK" PROVE \A j \in 1..k : HasBeenRead(parms[j], out'[j])
  <2> SUFFICES ASSUME NEW j \in 1..k PROVE HasBeenRead(parms[j], out'[j])
    OBVIOUS
  <2>1. CASE j = k
    BY <2>1, <1>7
  <2>2. CASE j # k
    <3>1. j \in 1..k - 1 /\ j \in 1..n
      BY <2>2, <1>1
    <3>2. HasBeenRead(parms[j], out[j])
      BY <3>1 DEF IInv, ReadInv
    <3> QED BY <2>2, <3>1, <3>2
  <2> QED BY <2>1, <2>2
<1>8. ReadInv(n)'
  <2>1. k' - 1 = k
    BY <1>1, <1>3
  <2>2. phase' = "end" /\ ret' = "OK" => k = n
    BY <1>3
  <2> QED BY <2>1, <2>2, <1>3, <1>4, <1>7 DEF ReadInv, HasBeenRead
<1> QED BY <1>5, <1>6, <1>8 DEF IInv

(* The readout of a parameter goes on with the next element. *)
LEMMA ReadingOnKeeps ==
  ASSUME NEW n \in Nat, IInv(n), phase \in {"read", "readArray"}, phase' = "readArray",
         UNCHANGED <<body, parms, k, putret, ret, failed>>,
         IsRow(out', n), \A j \in 1..n : j # k => out'[j] = out[j],
         D.format \in ReadFormats, D.dims > 0,
         todo' \in Seq(Indices(D.dims, parms[k].occ)), todo' # <<>>,
         ReadSoFar(parms[k], out'[k], {todo'[i] : i \in 1..Len(todo')})
  PROVE  IInv(n)'
<1>1. k \in 1..n
  BY DEF IInv, TypeInv
<1>2. TypeInv(n)'
  BY DEF IInv, TypeInv
<1>3. PutInv(n)' /\ LoopInv'
  BY DEF IInv, PutInv, LoopInv
<1>4. D' = D
  BY DEF D
<1>5. \A j \in 1..k - 1 : HasBeenRead(parms[j], out'[j])
  <2>1. \A j \in 1..k - 1 : j \in 1..n /\ j # k
    BY <1>1
  <2> QED BY <2>1 DEF IInv, ReadInv
<1>6. ret = "OK"
  BY DEF IInv, ReadInv
<1>7. ReadInv(n)'
  BY <1>4, <1>5, <1>6 DEF ReadInv
<1> QED BY <1>2, <1>3, <1>7 DEF IInv

(* A value is set in a cell of its type. *)
LEMMA SetCellIs ==
  ASSUME NEW tp \in DataTypes, NEW c, c = [type |-> tp, length |-> c.length, val |-> c.val], NEW v
  PROVE  /\ SetCell(c, v) = [type |-> tp, length |-> SetCell(c, v).length, val |-> SetCell(c, v).val]
         /\ SetCell(c, v).val = v /\ SetCell(c, v).type = tp
<1> DEFINE With(n) == [c EXCEPT !.val = v, !.length = n]
           Filled(n) == [type |-> tp, length |-> n, val |-> v]
<1>1. c.type = tp
  OBVIOUS
<1>2. ASSUME NEW n PROVE With(n) = Filled(n)
  <2> DEFINE b == [type |-> tp, length |-> c.length, val |-> v]
  <2>1. [c EXCEPT !.val = v] = b
    OBVIOUS
  <2>2. With(n) = [b EXCEPT !.length = n]
    BY <2>1
  <2>3. [b EXCEPT !.length = n] = Filled(n)
    OBVIOUS
  <2> QED BY <2>2, <2>3
<1>3. \E n : SetCell(c, v) = With(n)
  BY <1>1 DEF SetCell, SetString, SetUString, SetInt, SetFloat, SetBool, DataTypes
<1> HIDE DEF With
<1>4. PICK n : SetCell(c, v) = Filled(n)
  BY <1>2, <1>3
<1> QED BY <1>4

LEMMA ReadScalarKeeps ==
  ASSUME NEW n \in Nat, IInv(n), NEW fmt, NEW tp \in DataTypes, ReadScalar(fmt, tp)
  PROVE  IInv(n)'
<1>1. phase = "read" /\ D.dims = 0
  BY DEF ReadScalar, AtRead
<1>2. k \in 1..n /\ IsRow(out, n) /\ D = parms[k].desc
  BY <1>1 DEF IInv, TypeInv, D
<1>3. CASE EndRead("NNI_ERR") /\ UNCHANGED out
  BY <1>1, <1>2, <1>3, EndReadKeeps
<1>4. ASSUME NEW v \in ReadOut(parms[k].cells[Top], D),
             out' = [out EXCEPT ![k] = [p \in {Top} |-> SetCell(Blank(tp), v)]], EndRead("OK")
      PROVE  IInv(n)'
  <2> DEFINE o == [p \in {Top} |-> SetCell(Blank(tp), v)]
  <2>1. o[Top].type = tp /\ o[Top].val = v /\ DOMAIN o = {Top}
    <3>1. Blank(tp) = [type |-> tp, length |-> Blank(tp).length, val |-> Blank(tp).val]
      BY DEF Blank
    <3> QED BY <3>1, SetCellIs
  <2>2. out' = [j \in 1..n |-> IF j = k THEN o ELSE out[j]]
    <3>1. DOMAIN out = 1..n
      BY <1>2, RowLength
    <3> HIDE DEF o
    <3> QED BY <3>1, <1>4 DEF o
  <2> HIDE DEF o
  <2>3. IsRow(out', n) /\ out'[k] = o /\ \A j \in 1..n : j # k => out'[j] = out[j]
    BY <2>2, <1>2 DEF IsRow
  <2>4. ReadSoFar(parms[k], o, {})
    BY <2>1, <1>1, <1>2, <1>4 DEF ReadSoFar
  <2>5. HasBeenRead(parms[k], out'[k])
    BY <2>3, <2>4 DEF HasBeenRead
  <2> QED BY <2>3, <2>5, <1>1, <1>4, EndReadKeeps
<1> QED BY <1>3, <1>4, Zenon DEF ReadScalar

(* A new array has nothing yet of what is still to come. *)
LEMMA NewHasBeenRead ==
  ASSUME NEW q, IsParm(q), q.desc.dims > 0, CheckDimLength(NewDims(q.desc.dims, q.occ), q.occ) = "OK", NEW tp \in DataTypes,
         NEW pending, Indices(q.desc.dims, q.occ) \subseteq pending
  PROVE  ReadSoFar(q, NewArray(NewDims(q.desc.dims, q.occ), q.occ, tp), pending)
<1> DEFINE dd == q.desc.dims
           len == q.occ
           d == NewDims(dd, len)
           o == NewArray(d, len, tp)
<1>1. dd \in 1..3 /\ len \in [1..3 -> Int]
  <2>1. dd \in 0..3 /\ len \in [1..3 -> Int]
    BY DEF IsParm, IsDescription
  <2> QED BY <2>1
<1>2. d \in 1..3 /\ (d = dd \/ (d = 1 /\ len[1] = 0))
  BY <1>1 DEF NewDims
<1> HIDE DEF d
<1>3. DOMAIN o = Box(d, len) /\ \A p \in Box(d, len) : o[p] = IF Len(p) < d THEN Block(len[Len(p) + 1]) ELSE Blank(tp)
  BY DEF NewArray
<1> HIDE DEF o
<1>4. Blank(tp) = [type |-> tp, length |-> Blank(tp).length, val |-> Blank(tp).val]
  BY DEF Blank
<1>5. ASSUME NEW p \in Box(d, len), Len(p) = d PROVE p \in pending
  <2>1. p \in Indices(d, len)
    BY <1>5 DEF Indices
  <2>2. CASE d = dd
    BY <2>1, <2>2
  <2>3. CASE d = 1 /\ len[1] = 0
    BY <2>1, <2>3, <1>1, NoIndices
  <2> QED BY <2>2, <2>3, <1>2
<1>6. \A p \in DOMAIN o :
        /\ Len(p) < d => o[p] = Block(len[Len(p) + 1])
        /\ Len(p) = d => o[p] = [type |-> tp, length |-> o[p].length, val |-> o[p].val] /\ p \in pending
  <2> SUFFICES ASSUME NEW p \in Box(d, len)
               PROVE  /\ Len(p) < d => o[p] = Block(len[Len(p) + 1])
                      /\ Len(p) = d => o[p] = [type |-> tp, length |-> o[p].length, val |-> o[p].val] /\ p \in pending
    BY <1>3
  <2>1. ASSUME Len(p) = d PROVE o[p] = Blank(tp)
    BY <2>1, <1>2, <1>3
  <2> QED BY <2>1, <1>3, <1>4, <1>5
<1>7. dd # 0 /\ CheckDimLength(d, len) = "OK"
  BY <1>1 DEF d
<1> HIDE DEF dd, len
<1>8. ArraySoFar(q, o, pending, tp)
  BY <1>3, <1>6, <1>7, Zenon DEF ArraySoFar, IsCell, d, dd, len
<1>9. ReadSoFar(q, o, pending)
  BY <1>7, <1>8, Zenon DEF ReadSoFar, dd
<1> QED BY <1>9 DEF o, d, dd, len

LEMMA ReadArrayKeeps ==
  ASSUME NEW n \in Nat, IInv(n), NEW fmt \in ReadFormats, NEW tp \in DataTypes, ReadArray(fmt, tp)
  PROVE  IInv(n)'
<1> DEFINE q == parms[k]
           len == q.occ
           check == CheckDimLength(NewDims(D.dims, len), len)
           o == NewArray(NewDims(D.dims, len), len, tp)
           ps == Paths(D.dims, len)
<1>1. phase = "read" /\ D.dims > 0 /\ D.format = fmt
  BY DEF ReadArray, AtRead
<1>2. k \in 1..n /\ IsRow(out, n) /\ D = q.desc /\ IsParm(q)
  BY <1>1 DEF IInv, TypeInv, D
<1>3. D.dims \in 1..3 /\ len \in [1..3 -> Int]
  <2>1. D.dims \in 0..3 /\ len \in [1..3 -> Int]
    BY <1>2 DEF IsParm, IsDescription
  <2> QED BY <2>1, <1>1
<1>4. \/ check # "OK" /\ EndRead(check) /\ UNCHANGED out
      \/ /\ check = "OK" /\ out' = [out EXCEPT ![k] = o]
         /\ IF ps = <<>> THEN EndRead("OK")
            ELSE /\ phase' = "readArray" /\ todo' = ps
                 /\ UNCHANGED <<body, parms, k, putret, ret, failed>>
  BY Zenon DEF ReadArray
<1>5. ps \in Seq(Indices(D.dims, len)) /\ \A p \in Indices(D.dims, len) : \E i \in 1..Len(ps) : ps[i] = p
  <2> DEFINE dims == D.dims
  <2> HIDE DEF dims, len
  <2>1. dims \in 1..3
    BY <1>3 DEF dims
  <2>2. /\ Paths(dims, len) \in Seq(Indices(dims, len))
        /\ \A p \in Indices(dims, len) : \E i \in 1..Len(Paths(dims, len)) : Paths(dims, len)[i] = p
    BY <2>1, <1>3, PathsAre
  <2> QED BY <2>2 DEF dims
<1> HIDE DEF check
<1>6. CASE check # "OK" /\ EndRead(check) /\ UNCHANGED out
  BY <1>1, <1>2, <1>6, EndReadKeeps
<1>7. CASE /\ check = "OK" /\ out' = [out EXCEPT ![k] = o]
           /\ IF ps = <<>> THEN EndRead("OK")
              ELSE /\ phase' = "readArray" /\ todo' = ps
                   /\ UNCHANGED <<body, parms, k, putret, ret, failed>>
  <2> HIDE DEF ps
  <2> DEFINE pending == {ps[i] : i \in 1..Len(ps)}
  <2>1. Indices(D.dims, len) \subseteq pending
    BY <1>5
  <2> HIDE DEF pending
  <2>2. ReadSoFar(q, o, pending)
    BY <2>1, <1>1, <1>2, <1>7, NewHasBeenRead DEF check
  <2> HIDE DEF o
  <2>3. out' = [j \in 1..n |-> IF j = k THEN o ELSE out[j]]
    <3>1. DOMAIN out = 1..n
      BY <1>2, RowLength
    <3> QED BY <3>1, <1>7
  <2>4. IsRow(out', n) /\ out'[k] = o /\ \A j \in 1..n : j # k => out'[j] = out[j]
    BY <2>3, <1>2 DEF IsRow
  <2>5. CASE ps = <<>>
    <3>1. pending = {}
      <4>1. 1..Len(ps) = {}
        BY <2>5
      <4> QED BY <4>1 DEF pending
    <3>2. EndRead("OK") /\ HasBeenRead(parms[k], out'[k])
      BY <2>2, <2>4, <2>5, <3>1, <1>7 DEF HasBeenRead
    <3> QED BY <2>4, <3>2, <1>1, EndReadKeeps
  <2>6. CASE ps # <<>>
    <3>1. phase' = "readArray" /\ todo' = ps /\ UNCHANGED <<body, parms, k, putret, ret, failed>>
      BY <2>6, <1>7
    <3>2. todo' \in Seq(Indices(D.dims, len)) /\ todo' # <<>>
      BY <2>6, <3>1, <1>5
    <3>3. ReadSoFar(parms[k], out'[k], {todo'[i] : i \in 1..Len(todo')})
      BY <2>2, <2>4, <3>1 DEF pending
    <3>4. D.format \in ReadFormats
      BY <1>1
    <3> QED BY <2>4, <3>1, <3>2, <3>3, <3>4, <1>1, ReadingOnKeeps
  <2> QED BY <2>5, <2>6
<1> QED BY <1>4, <1>6, <1>7

(* N is o with the content x of a parameter read to p, or x is a text left out. *)
IsReadTo(N, o, p, x, d) ==
  \/ N = o /\ x = <<>> /\ d.format \in {"ALPHA", "UNICODE"}
  \/ \E v \in ReadOut(x, d) : N = [o EXCEPT ![p] = SetCell(o[p], v)]

(* One element more has been read. *)
LEMMA EntryHasBeenRead ==
  ASSUME NEW q, IsParm(q), q.desc.dims > 0, NEW o, NEW pending, ReadSoFar(q, o, pending),
         NEW p \in Indices(q.desc.dims, q.occ), NEW rest, \A r \in pending : r = p \/ r \in rest,
         NEW N, IsReadTo(N, o, p, q.cells[p], q.desc)
  PROVE  ReadSoFar(q, N, rest)
<1> DEFINE dd == q.desc.dims
           len == q.occ
           d == NewDims(dd, len)
<1>1. dd \in 1..3 /\ len \in [1..3 -> Int] /\ dd # 0
  <2>1. dd \in 0..3 /\ len \in [1..3 -> Int]
    BY DEF IsParm, IsDescription
  <2> QED BY <2>1
<1>2. d = dd
  <2>1. Indices(dd, len) # {}
    OBVIOUS
  <2>2. len[1] # 0
    <3> HIDE DEF dd, len
    <3> QED BY <1>1, <2>1, NoIndices
  <2> QED BY <2>2 DEF NewDims
<1>3. PICK tp \in DataTypes : ArraySoFar(q, o, pending, tp)
  BY <1>1, Zenon DEF ReadSoFar
<1>4. /\ CheckDimLength(d, len) = "OK" /\ DOMAIN o = Box(d, len)
      /\ \A r \in DOMAIN o :
           /\ Len(r) < d => o[r] = Block(len[Len(r) + 1])
           /\ Len(r) = d => IsCell(o[r], tp) /\ (r \in pending \/ WasRead(o[r], q.cells[r], q.desc))
  BY <1>3, Zenon DEF ArraySoFar
<1> HIDE DEF dd, len, d
<1>5. p \in DOMAIN o /\ Len(p) = d
  BY <1>2, <1>4 DEF Indices, dd, len
<1>6. IsCell(o[p], tp)
  BY <1>4, <1>5
<1>7. ASSUME DOMAIN N = DOMAIN o, IsCell(N[p], tp), WasRead(N[p], q.cells[p], q.desc),
             \A r \in DOMAIN o : r # p => N[r] = o[r]
      PROVE  ReadSoFar(q, N, rest)
  <2>1. ASSUME NEW r \in DOMAIN o
        PROVE  /\ Len(r) < d => N[r] = Block(len[Len(r) + 1])
               /\ Len(r) = d => IsCell(N[r], tp) /\ (r \in rest \/ WasRead(N[r], q.cells[r], q.desc))
    <3>1. ASSUME r = p
          PROVE  /\ Len(r) < d => N[r] = Block(len[Len(r) + 1])
                 /\ Len(r) = d => IsCell(N[r], tp) /\ (r \in rest \/ WasRead(N[r], q.cells[r], q.desc))
      <4>1. ~(Len(r) < d)
        BY <3>1, <1>1, <1>2, <1>5
      <4> QED BY <4>1, <3>1, <1>7
    <3>2. ASSUME r # p
          PROVE  /\ Len(r) < d => N[r] = Block(len[Len(r) + 1])
                 /\ Len(r) = d => IsCell(N[r], tp) /\ (r \in rest \/ WasRead(N[r], q.cells[r], q.desc))
      <4>1. N[r] = o[r] /\ (r \in pending => r \in rest)
        BY <3>2, <1>7
      <4> QED BY <4>1, <1>4, Zenon
    <3> QED BY <3>1, <3>2
  <2>2. ArraySoFar(q, N, rest, tp)
    BY <2>1, <1>4, <1>7, Zenon DEF ArraySoFar, d, dd, len
  <2> QED BY <2>2, <1>1, Zenon DEF ReadSoFar, dd
<1>8. CASE N = o /\ q.cells[p] = <<>> /\ q.desc.format \in {"ALPHA", "UNICODE"}
  <2>1. WasRead(N[p], q.cells[p], q.desc)
    BY <1>8 DEF WasRead
  <2> QED BY <2>1, <1>6, <1>7, <1>8
<1>9. ASSUME NEW v \in ReadOut(q.cells[p], q.desc), N = [o EXCEPT ![p] = SetCell(o[p], v)]
      PROVE  ReadSoFar(q, N, rest)
  <2> DEFINE c == SetCell(o[p], v)
  <2>1. IsCell(c, tp) /\ c.val = v
    BY <1>6, SetCellIs DEF IsCell
  <2> HIDE DEF c
  <2>2. DOMAIN N = DOMAIN o /\ N[p] = c /\ \A r \in DOMAIN o : r # p => N[r] = o[r]
    BY <1>5, <1>9 DEF c
  <2>3. WasRead(N[p], q.cells[p], q.desc)
    BY <2>1, <2>2, <1>9 DEF WasRead
  <2> QED BY <2>1, <2>2, <2>3, <1>7
<1> QED BY <1>8, <1>9 DEF IsReadTo

LEMMA ReadArrayEntryKeeps ==
  ASSUME NEW n \in Nat, IInv(n), NEW fmt, ReadArrayEntry(fmt)
  PROVE  IInv(n)'
<1> DEFINE q == parms[k]
           p == Head(todo)
           x == q.cells[p]
           I == Indices(D.dims, q.occ)
           o == out'[k]
           rest == {Tail(todo)[i] : i \in 1..Len(Tail(todo))}
<1>1. phase = "readArray"
  BY DEF ReadArrayEntry
<1>2. k \in 1..n /\ IsRow(out, n) /\ D = q.desc /\ IsParm(q)
  BY <1>1 DEF IInv, TypeInv, D
<1>3. /\ D.format \in ReadFormats /\ D.dims > 0
      /\ todo \in Seq(I) /\ todo # <<>>
      /\ ReadSoFar(q, out[k], {todo[i] : i \in 1..Len(todo)})
  BY <1>1 DEF IInv, ReadInv
<1>4. /\ p \in I /\ Tail(todo) \in Seq(I) /\ Len(todo) \in Nat \ {0}
      /\ \A r : (\E i \in 1..Len(todo) : todo[i] = r) <=> r = p \/ \E i \in 1..Len(Tail(todo)) : Tail(todo)[i] = r
      /\ Len(todo) # 1 => Tail(todo) # <<>>
      /\ Len(todo) = 1 => \A i \in 1..Len(todo) : todo[i] = p
  <2> HIDE DEF I
  <2> QED BY <1>3, HeadAndTail
<1>5. \/ EndRead("NNI_ERR") /\ UNCHANGED out
      \/ /\ NextRead
         /\ \/ out' = out /\ IsLeftOut(x)
            \/ \E v \in ReadOut(x, D) : out' = [out EXCEPT ![k][p] = SetCell(out[k][p], v)]
  BY Zenon DEF ReadArrayEntry
<1>6. CASE EndRead("NNI_ERR") /\ UNCHANGED out
  BY <1>1, <1>2, <1>6, EndReadKeeps
<1>7. ASSUME NextRead, IsRow(out', n), \A j \in 1..n : j # k => out'[j] = out[j],
             IsReadTo(o, out[k], p, x, q.desc)
      PROVE  IInv(n)'
  <2>1. \A r \in {todo[i] : i \in 1..Len(todo)} : r = p \/ r \in rest
    <3> HIDE DEF p
    <3> QED BY <1>4
  <2>2. ReadSoFar(q, o, rest)
    <3> DEFINE pending == {todo[i] : i \in 1..Len(todo)}
    <3>1. p \in Indices(q.desc.dims, q.occ) /\ q.desc.dims > 0
      BY <1>2, <1>3, <1>4
    <3>2. ReadSoFar(q, out[k], pending) /\ \A r \in pending : r = p \/ r \in rest
      BY <2>1, <1>3
    <3> HIDE DEF p, o, rest, pending, q
    <3> QED BY <3>1, <3>2, <1>2, <1>7, EntryHasBeenRead DEF x
  <2>3. CASE Len(todo) = 1
    <3>1. EndRead("OK")
      BY <2>3, <1>7 DEF NextRead
    <3>2. rest = {}
      <4>1. Len(Tail(todo)) = 0
        <5>1. Len(Tail(todo)) = Len(todo) - 1
          BY <1>3, HeadTailProperties
        <5> QED BY <5>1, <2>3
      <4> DEFINE m == Len(Tail(todo))
      <4>2. m = 0
        BY <4>1
      <4> HIDE DEF m
      <4>3. 1..m = {}
        BY <4>2
      <4> QED BY <4>3 DEF m
    <3>3. HasBeenRead(q, o)
      BY <2>2, <3>2 DEF HasBeenRead
    <3> QED BY <3>1, <3>3, <1>1, <1>7, EndReadKeeps
  <2>4. CASE Len(todo) # 1
    <3>1. todo' = Tail(todo) /\ UNCHANGED <<body, parms, phase, k, putret, ret, failed>>
      BY <2>4, <1>7 DEF NextRead
    <3>2. todo' \in Seq(I) /\ todo' # <<>>
      BY <2>4, <3>1, <1>4
    <3>3. ReadSoFar(parms[k], out'[k], {todo'[i] : i \in 1..Len(todo')})
      BY <2>2, <3>1
    <3> QED BY <3>1, <3>2, <3>3, <1>1, <1>3, <1>7, ReadingOnKeeps
  <2> QED BY <2>3, <2>4
<1>8. CASE NextRead /\ out' = out /\ IsLeftOut(x)
  <2>1. x = <<>> /\ q.desc.format \in {"ALPHA", "UNICODE"}
    BY <1>2, <1>8 DEF IsLeftOut, IsText
  <2>2. IsRow(out', n) /\ (\A j \in 1..n : j # k => out'[j] = out[j]) /\ o = out[k]
    BY <1>2, <1>8
  <2>3. IsReadTo(o, out[k], p, x, q.desc)
    BY <2>1, <2>2 DEF IsReadTo
  <2> HIDE DEF o, x
  <2> QED BY <2>2, <2>3, <1>7, <1>8
<1>9. ASSUME NextRead, NEW v \in ReadOut(x, D), out' = [out EXCEPT ![k][p] = SetCell(out[k][p], v)]
      PROVE  IInv(n)'
  <2> DEFINE e == [out[k] EXCEPT ![p] = SetCell(out[k][p], v)]
  <2>1. out' = [out EXCEPT ![k] = e]
    BY <1>9
  <2> HIDE DEF e
  <2>2. out' = [j \in 1..n |-> IF j = k THEN e ELSE out[j]]
    <3>1. DOMAIN out = 1..n
      BY <1>2, RowLength
    <3> QED BY <2>1, <3>1
  <2>3. IsRow(out', n) /\ out'[k] = e /\ \A j \in 1..n : j # k => out'[j] = out[j]
    BY <2>2, <1>2 DEF IsRow
  <2> HIDE DEF x, p
  <2>4. IsReadTo(o, out[k], p, x, q.desc)
    BY <2>3, <1>2, <1>9 DEF e, IsReadTo
  <2> HIDE DEF o
  <2> QED BY <2>3, <2>4, <1>7, <1>9
<1> QED BY <1>5, <1>6, <1>8, <1>9

LEMMA ReadStepKeeps ==
  ASSUME NEW n \in Nat, IInv(n), ReadStep
  PROVE  IInv(n)'
<1>1. phase \in {"read", "readArray"} => k \in 1..n /\ IsRow(out, n)
  BY DEF IInv, TypeInv
<1>2. CASE ReadInfoFails
  BY <1>1, <1>2, EndReadKeeps DEF ReadInfoFails
<1>3. CASE ReadNothing
  <2>1. phase = "read" /\ EndRead("OK") /\ out' = out /\ D.format \notin ReadFormats
    BY <1>3 DEF ReadNothing
  <2>2. HasBeenRead(parms[k], out'[k])
    BY <2>1 DEF HasBeenRead, D
  <2> QED BY <2>1, <2>2, <1>1, EndReadKeeps
<1>4. {"STRING", "INTEGER", "BOOLEAN", "FLOAT", "USTRING"} = DataTypes
  BY DEF DataTypes
<1>5. {"ALPHA", "INT", "LOG", "FLOAT", "DATE", "TIME", "NUM", "UNICODE"} \subseteq ReadFormats
  BY DEF ReadFormats, WriteFormats
<1>6. CASE String \/ Integer \/ Bool \/ Float \/ DateTime \/ NumericPacked \/ Unicode
  <2>1. \E fmt : \E tp \in DataTypes : ReadScalar(fmt, tp)
    BY <1>4, <1>6 DEF String, Integer, Bool, Float, DateTime, NumericPacked, Unicode
  <2> QED BY <2>1, ReadScalarKeeps
<1>7. CASE \/ StringArray \/ IntegerArray \/ BoolArray \/ FloatArray \/ DateTimeArray
           \/ NumericPackedArray \/ UnicodeArray
  <2>1. \E fmt \in ReadFormats : \E tp \in DataTypes : ReadArray(fmt, tp)
    BY <1>4, <1>5, <1>7 DEF StringArray, IntegerArray, BoolArray, FloatArray, DateTimeArray,
       NumericPackedArray, UnicodeArray
  <2> QED BY <2>1, ReadArrayKeeps
<1>8. CASE \/ SaveStringArrayEntry \/ SaveIntegerArrayEntry \/ SaveBoolArrayEntry \/ SaveFloatArrayEntry
           \/ SaveDateTimeArrayEntry \/ SaveNumericPackedArrayEntry \/ SaveUnicodeArrayEntry
  <2>1. \E fmt : ReadArrayEntry(fmt)
    BY <1>8 DEF SaveStringArrayEntry, SaveIntegerArrayEntry, SaveBoolArrayEntry, SaveFloatArrayEntry,
       SaveDateTimeArrayEntry, SaveNumericPackedArrayEntry, SaveUnicodeArrayEntry
  <2> QED BY <2>1, ReadArrayEntryKeeps
<1> QED BY <1>2, <1>3, <1>6, <1>7, <1>8 DEF ReadStep

-----------------------------------------------------------------------------
(***************************************************************************)
(* The inductive invariant.                                                *)
(***************************************************************************)

LEMMA NewParmIs ==
  ASSUME NEW d, IsDescription(d)
  PROVE  /\ IsParm(NewParm(d)) /\ NewParm(d).desc = d /\ NewParm(d).occ = d.occ
         /\ \A p \in DOMAIN NewParm(d).cells : NewParm(d).cells[p] = d.first
<1> DEFINE cells == [p \in Indices(d.dims, d.occ) |-> d.first]
<1>1. NewParm(d) = [desc |-> d, occ |-> d.occ, cells |-> cells]
  BY DEF NewParm, Indices
<1>2. d.occ \in [1..3 -> Int] /\ \A i \in 1..d.dims : d.occ[i] >= 0
  <2>1. d.dims \in 0..3 /\ d.occ \in [1..3 -> Nat]
    BY DEF IsDescription
  <2>2. \A i \in 1..d.dims : i \in 1..3
    BY <2>1
  <2>3. \A i \in 1..3 : d.occ[i] \in Nat
    BY <2>1
  <2> QED BY <2>1, <2>2, <2>3
<1>3. DOMAIN cells = Indices(d.dims, d.occ) /\ \A p \in DOMAIN cells : cells[p] = d.first
  OBVIOUS
<1> HIDE DEF cells
<1>4. NewParm(d).desc = d /\ NewParm(d).occ = d.occ /\ NewParm(d).cells = cells
  BY <1>1
<1>5. d.format \in ReadFormats => \A p \in DOMAIN cells : cells[p] \in Contents(d.format)
  BY <1>3 DEF IsDescription
<1>6. IsParm(NewParm(d))
  BY <1>1, <1>2, <1>3, <1>4, <1>5 DEF IsParm
<1> QED BY <1>3, <1>4, <1>6

Inv == \E n \in Nat : IInv(n)

LEMMA InitiallyInv == Init => Inv
<1> SUFFICES ASSUME Init PROVE Inv
  OBVIOUS
<1>1. PICK job \in Jobs :
        /\ body = [j \in 1..Len(job) |-> job[j].var]
        /\ parms = [j \in 1..Len(job) |-> NewParm(job[j].parm)]
        /\ putret = [j \in 1..Len(job) |-> "NONE"]
        /\ out = [j \in 1..Len(job) |-> NoVar]
  BY DEF Init
<1> DEFINE n == Len(job)
<1>2. n \in Nat \ {0} /\ \A j \in 1..n : IsDescription(job[j].parm) /\ IsVar(job[j].var)
  BY JobsAssumption
<1>3. phase = "put" /\ k = 1 /\ ret = "OK"
  BY DEF Init
<1> HIDE DEF n
<1>4. IsRow(body, n) /\ IsRow(parms, n) /\ IsRow(putret, n) /\ IsRow(out, n)
  BY <1>1 DEF IsRow, n
<1>5. ASSUME NEW j \in 1..n
      PROVE  /\ IsParm(parms[j]) /\ IsVar(body[j]) /\ putret[j] = "NONE"
             /\ Holds(parms[j], body[j]) /\ parms[j].occ = parms[j].desc.occ
  <2>1. /\ parms[j] = NewParm(job[j].parm) /\ body[j] = job[j].var /\ putret[j] = "NONE"
        /\ IsDescription(job[j].parm)
    BY <1>1, <1>2 DEF n
  <2> QED BY <2>1, <1>2, NewParmIs DEF Holds
<1>6. TypeInv(n)
  BY <1>2, <1>3, <1>4, <1>5 DEF TypeInv
<1>7. PutInv(n)
  <2>1. \A j \in 1..k - 1 : FALSE
    BY <1>3
  <2>2. \A j \in k..n : j \in 1..n
    BY <1>3
  <2>3. \A j \in k + 1..n : j \in 1..n
    BY <1>2, <1>3
  <2>4. k \in 1..n
    BY <1>2, <1>3
  <2> QED BY <1>3, <1>5, <2>1, <2>2, <2>3, <2>4 DEF PutInv
<1>8. LoopInv /\ ReadInv(n)
  BY <1>3 DEF LoopInv, ReadInv
<1> QED BY <1>2, <1>6, <1>7, <1>8 DEF IInv, Inv

LEMMA StutteringKeeps ==
  ASSUME NEW n \in Nat, IInv(n), UNCHANGED vars
  PROVE  IInv(n)'
<1>1. /\ body' = body /\ parms' = parms /\ phase' = phase /\ k' = k /\ todo' = todo
      /\ putret' = putret /\ out' = out /\ ret' = ret /\ failed' = failed
  BY DEF vars
<1>2. \A j \in 1..n : Fits(j)' <=> Fits(j)
  BY <1>1, FitsStays
<1>3. TypeInv(n)' /\ LoopInv' /\ ReadInv(n)'
  BY <1>1, Zenon DEF IInv, TypeInv, LoopInv, ReadInv, D, V
<1>4. PutInv(n)'
  BY <1>1, Zenon DEF IInv, PutInv, Fits
<1> QED BY <1>3, <1>4 DEF IInv

LEMMA StepsKeepInv == Inv /\ [Next]_vars => Inv'
<1> SUFFICES ASSUME Inv, [Next]_vars PROVE Inv'
  OBVIOUS
<1>1. PICK n \in Nat : IInv(n)
  BY DEF Inv
<1>2. IInv(n)'
  BY <1>1, PutStepKeeps, StartReadoutKeeps, ReadStepKeeps, StutteringKeeps DEF Next
<1> QED BY <1>2 DEF Inv

LEMMA Invariance == Spec => []Inv
<1>1. Init => Inv
  BY InitiallyInv
<1>2. Inv /\ [Next]_vars => Inv'
  BY StepsKeepInv
<1> QED BY <1>1, <1>2, PTL DEF Spec

-----------------------------------------------------------------------------
(***************************************************************************)
(* What follows from it.                                                   *)
(***************************************************************************)

(* What is there is the body's element of the same index. *)
LEMMA ThereIsIn ==
  ASSUME NEW n \in Nat, IInv(n), NEW j \in 1..n, NEW p, IsThere(parms[j], body[j], p), body[j][p].type # "ARRAY"
  PROVE  /\ IsIn(parms[j].cells[p], body[j][p], parms[j].desc)
         /\ parms[j].desc.format \in WriteFormats /\ Same(j, p)
<1>1. IsVar(body[j]) /\ IsDescription(parms[j].desc)
  BY DEF IInv, TypeInv, IsParm
<1>2. p \in DOMAIN body[j] /\ p \in DOMAIN parms[j].cells
      /\ Arrived(parms[j].cells[p], body[j][p], parms[j].desc)
  BY DEF IsThere
<1>3. IsElement(body[j][p])
  BY <1>1, <1>2, ElementIs
<1>4. IsIn(parms[j].cells[p], body[j][p], parms[j].desc) /\ parms[j].desc.format \in WriteFormats
  BY <1>1, <1>2, <1>3, ArrivedIsIn
<1>5. Means(parms[j].cells[p], body[j][p], parms[j].desc)
  BY <1>4 DEF IsIn
<1> QED BY <1>2, <1>4, <1>5 DEF Same

LEMMA InvHoldsElements == Inv => HoldsElements
<1> SUFFICES ASSUME NEW n \in Nat, IInv(n) PROVE HoldsElements
  BY DEF Inv
<1>1. Len(parms) = n /\ \A j \in 1..n : IsParm(parms[j]) /\ Holds(parms[j], body[j])
  BY RowLength DEF IInv, TypeInv, PutInv
<1>2. ASSUME NEW j \in 1..n, NEW p \in DOMAIN parms[j].cells
      PROVE  parms[j].cells[p] = parms[j].desc.first \/ Same(j, p) \/ IsStray(body[j], p)
  <2>1. parms[j].cells[p] = parms[j].desc.first \/ IsThere(parms[j], body[j], p) \/ IsStray(body[j], p)
    BY <1>1 DEF Holds
  <2>2. CASE IsThere(parms[j], body[j], p)
    <3>1. body[j][p].type # "ARRAY"
      BY <2>2, NoArrays DEF IsThere, Arrived
    <3> QED BY <2>2, <3>1, ThereIsIn
  <2> QED BY <2>1, <2>2
<1>3. ASSUME phase = "end", ret = "OK", NEW j \in 1..n, parms[j].desc.format \in ReadFormats
      PROVE  /\ HasShape(out[j], parms[j].desc)
                \/ (parms[j].occ[1] = 0 /\ out[j][Top].type = "ARRAY")
             /\ DOMAIN parms[j].cells = Elements(out[j])
             /\ \A p \in Elements(out[j]) :
                  out[j][p].val # Nothing \/ parms[j].cells[p] = <<>>
  <2>1. ReadSoFar(parms[j], out[j], {})
    BY <1>3 DEF IInv, ReadInv, HasBeenRead
  <2>2. /\ HasShape(out[j], parms[j].desc) \/ (parms[j].occ[1] = 0 /\ out[j][Top].type = "ARRAY")
        /\ DOMAIN parms[j].cells = Elements(out[j])
        /\ \A p \in Elements(out[j]) :
             \/ out[j][p].val \in ReadOut(parms[j].cells[p], parms[j].desc)
             \/ parms[j].cells[p] = <<>> /\ parms[j].desc.format \in {"ALPHA", "UNICODE"}
    BY <2>1, <1>1, ReadIsWhole
  <2>3. ASSUME NEW p \in Elements(out[j]), out[j][p].val \in ReadOut(parms[j].cells[p], parms[j].desc)
        PROVE  out[j][p].val # Nothing
    <3>1. IsDescription(parms[j].desc) /\ parms[j].cells[p] \in Contents(parms[j].desc.format)
      BY <1>1, <1>3, <2>2 DEF IsParm
    <3>2. out[j][p].val \in Contents(parms[j].desc.format)
      BY <3>1, <2>3, <1>3, ReadOutIs
    <3> QED BY <3>2, <1>3, NothingAssumption
  <2> QED BY <2>2, <2>3
<1> QED BY <1>1, <1>2, <1>3 DEF HoldsElements, IsStray

LEMMA InvPutIsComplete == Inv => PutIsComplete
<1> SUFFICES ASSUME NEW n \in Nat, IInv(n) PROVE PutIsComplete
  BY DEF Inv
<1>1. Len(parms) = n
  BY RowLength DEF IInv, TypeInv
<1>2. ASSUME NEW j \in 1..n, putret[j] = "OK", HasShape(body[j], parms[j].desc), NEW p \in Elements(body[j])
      PROVE  Same(j, p)
  <2>1. IsThere(parms[j], body[j], p)
    BY <1>2 DEF IInv, PutInv, AllThere
  <2>2. body[j][p].type # "ARRAY"
    BY DEF Elements
  <2> QED BY <2>1, <2>2, ThereIsIn
<1> QED BY <1>1, <1>2 DEF PutIsComplete

LEMMA InvFitsIsPut == Inv => FitsIsPut
<1> SUFFICES ASSUME NEW n \in Nat, IInv(n) PROVE FitsIsPut
  BY DEF Inv
<1>1. Len(parms) = n
  BY RowLength DEF IInv, TypeInv
<1>2. phase = "natural" /\ ret = "OK" => \A j \in 1..n : Fits(j) /\ j \notin failed => putret[j] = "OK"
  BY DEF IInv, PutInv
<1> QED BY <1>1, <1>2, Zenon DEF FitsIsPut

LEMMA InvComesBack == Inv => ComesBack
<1> SUFFICES ASSUME NEW n \in Nat, IInv(n) PROVE ComesBack
  BY DEF Inv
<1>1. Len(parms) = n
  BY RowLength DEF IInv, TypeInv
<1>2. ASSUME phase = "end", ret = "OK", NEW j \in 1..n, putret[j] = "OK",
             HasShape(body[j], parms[j].desc), NEW p \in Elements(body[j]),
             parms[j].desc.format = "ALPHA" => IsSolid(body[j][p].val),
             parms[j].desc.format = "INT" => Arrives(body[j][p].val, parms[j].desc)
      PROVE  out[j][p].val = ComesBackAs(body[j][p], parms[j].desc)
  <2> DEFINE d == parms[j].desc
             c == body[j][p]
             x == parms[j].cells[p]
  <2>1. IsThere(parms[j], body[j], p) /\ p \in DOMAIN parms[j].cells
    BY <1>2 DEF IInv, PutInv, AllThere, IsThere
  <2>2. c.type # "ARRAY"
    BY DEF Elements
  <2>3. IsIn(x, c, d) /\ d.format \in WriteFormats
    BY <2>1, <2>2, ThereIsIn
  <2>4. ReadSoFar(parms[j], out[j], {})
    <3>1. d.format \in ReadFormats
      BY <2>3 DEF ReadFormats
    <3> QED BY <3>1, <1>2 DEF IInv, ReadInv, HasBeenRead
  <2>5. IsParm(parms[j])
    BY DEF IInv, TypeInv
  <2>6. out[j][p].val \in ReadOut(x, d) \/ (x = <<>> /\ d.format \in {"ALPHA", "UNICODE"})
    BY <2>1, <2>4, <2>5, ReadIsWhole
  <2>7. ~(x = <<>> /\ d.format \in {"ALPHA", "UNICODE"})
    <3>1. d.format # "UNICODE"
      BY <2>3 DEF WriteFormats
    <3>2. d.format = "ALPHA" => x # <<>>
      BY <2>3, <1>2 DEF IsIn
    <3> QED BY <3>1, <3>2
  <2>8. ReadOut(x, d) = {ComesBackAs(c, d)}
    BY <2>3, <1>2 DEF IsIn
  <2> QED BY <2>6, <2>7, <2>8
<1> QED BY <1>1, <1>2 DEF ComesBack

(***************************************************************************)
(* Whatever fails: a cell holds its first content or the body's element of *)
(* the same index, and a readout that says OK has a whole variable for     *)
(* every parameter (rh4nnatPutParms, rh4nnatStartVariableReadout).         *)
(***************************************************************************)
THEOREM HoldsElementsCorrect == Spec => []HoldsElements
<1>1. Inv => HoldsElements
  BY InvHoldsElements
<1> QED BY <1>1, Invariance, PTL

(* A put that says OK has put every element (put_a.c:76 and its like). *)
THEOREM PutIsCompleteCorrect == Spec => []PutIsComplete
<1>1. Inv => PutIsComplete
  BY InvPutIsComplete
<1> QED BY <1>1, Invariance, PTL

(* A variable that fits is put, whatever became of the others (mbn.c:77). *)
THEOREM FitsIsPutCorrect == Spec => []FitsIsPut
<1>1. Inv => FitsIsPut
  BY InvFitsIsPut
<1> QED BY <1>1, Invariance, PTL

(* What was put comes back, but for blanks and quotes (rh4nUtilsTrimSpaces). *)
THEOREM ComesBackCorrect == Spec => []ComesBack
<1>1. Inv => ComesBack
  BY InvComesBack
<1> QED BY <1>1, Invariance, PTL
=============================================================================
