------------------------------ MODULE VarArray ------------------------------
(***************************************************************************)
(* The value of a variable: a scalar, or an array of up to three           *)
(* dimensions.                                                             *)
(*                                                                         *)
(* A value o is a function from index paths to cells (RH4nVarObj).  The    *)
(* path <<>> is the variable itself, <<x>> the element x of a one-         *)
(* dimensional array or a row of a larger one, and so on; the memory that  *)
(* the value pointer of an ARRAY cell points to is the cells below it.     *)
(* Memory allocation is taken not to fail.                                 *)
(***************************************************************************)
EXTENDS Integers, Sequences, FiniteSets, SequencesExt

CONSTANT Nothing   \* the value pointer is NULL

Top == <<>>
NoVar == <<>>      \* no such variable: a value without cells

DataTypes == {"STRING", "USTRING", "INTEGER", "FLOAT", "BOOLEAN"}
Blank(tp) == [type |-> tp, length |-> -1, val |-> Nothing]
Block(n) == [type |-> "ARRAY", length |-> n, val |-> Nothing]

(***************************************************************************)
(* rh4nvarSetString and its fellows: the value, and its size as length.    *)
(***************************************************************************)
SetString(c, v) == [c EXCEPT !.val = v, !.length = Len(v) + 1]
SetUString(c, v) == [c EXCEPT !.val = v, !.length = 4 * (Len(v) + 1)]
SetInt(c, v) == [c EXCEPT !.val = v, !.length = 4]
SetFloat(c, v) == [c EXCEPT !.val = v, !.length = 8]
SetBool(c, v) == [c EXCEPT !.val = v, !.length = 1]

SetCell(c, v) ==
  CASE c.type = "STRING"  -> SetString(c, v)
    [] c.type = "USTRING" -> SetUString(c, v)
    [] c.type = "INTEGER" -> SetInt(c, v)
    [] c.type = "FLOAT"   -> SetFloat(c, v)
    [] c.type = "BOOLEAN" -> SetBool(c, v)

-----------------------------------------------------------------------------
(* The paths of up to dims indices that are below the lengths. *)
Box(dims, len) ==
  UNION {{p \in [1..k -> UNION {0..len[i] - 1 : i \in 1..dims}] :
            \A i \in 1..k : p[i] < len[i]} : k \in 0..dims}

(* rh4nvarCheckDimLength: only the last of several lengths may be 0. *)
CheckDimLength(dims, len) ==
  IF \/ \A i \in 1..dims : len[i] = 0
     \/ len[dims] >= 0 /\ \A i \in 1..dims - 1 : len[i] > 0
  THEN "OK" ELSE "VAR_BAD_LENGTH"

(* rh4nvarCreateNewArray and _rh4nvarCreateNewArray. *)
NewDims(dims, len) == IF len[1] = 0 THEN 1 ELSE dims

NewArray(dims, len, tp) ==
  [p \in Box(dims, len) |-> IF Len(p) < dims THEN Block(len[Len(p) + 1]) ELSE Blank(tp)]

(***************************************************************************)
(* rh4nvarGetArrayEntry.  An index equal to the length passes the check,   *)
(* and so does any index up to the size of a set element: then the entry   *)
(* lies BEYOND the memory of the array.                                    *)
(***************************************************************************)
Misses(o, p) == {k \in 1..Len(p) : SubSeq(p, 1, k) \notin DOMAIN o}

GetArrayEntry(o, p) ==
  IF o[Top].type # "ARRAY" THEN "VAR_NOT_ARRAY"
  ELSE IF Misses(o, p) = {} THEN "OK"
  ELSE LET k == CHOOSE k \in Misses(o, p) : \A j \in Misses(o, p) : k <= j
       IN IF p[k] < 0 \/ p[k] > o[SubSeq(p, 1, k - 1)].length
          THEN "VAR_BAD_INDEX" ELSE "BEYOND"

(* rh4nvarGetArrayLength: by the first row, and the first row of that. *)
GetArrayLength(o) ==
  LET IsRow(p) == p \in DOMAIN o /\ o[p].type = "ARRAY"
  IN <<o[Top].length,
       IF IsRow(<<0>>) THEN o[<<0>>].length ELSE -1,
       IF IsRow(<<0>>) /\ IsRow(<<0, 0>>) THEN o[<<0, 0>>].length ELSE -1>>

GetArrayDimension(o) ==
  Cardinality({i \in 1..3 : \A j \in 1..i : GetArrayLength(o)[j] # -1})

-----------------------------------------------------------------------------
(***************************************************************************)
(* _rh4nvarExpandArray goes down to every row, from the first to the last, *)
(* a block before its rows, and stops where a length is larger than what   *)
(* it should become.  What it has passed before that stays expanded.       *)
(***************************************************************************)
Before(p, q) ==
  \/ IsStrictPrefix(p, q)
  \/ \E i \in DOMAIN p \cap DOMAIN q : p[i] < q[i] /\ SubSeq(p, 1, i - 1) = SubSeq(q, 1, i - 1)

TooLong(o, dims, len) == {p \in DOMAIN o : Len(p) < dims /\ o[p].length > len[Len(p) + 1]}

Passed(o, dims, len) ==
  {p \in Box(dims - 1, len) : \A q \in TooLong(o, dims, len) : Before(p, q)}

(* Mutant: old_length is not kept, every element of a grown row is reset. *)
ExpandedFresh(o, dims, len, tp) ==
  LET passed == Passed(o, dims, len)
      new == {p \in Box(dims, len) : p # Top /\ Front(p) \in passed}
  IN [p \in DOMAIN o \cup new |->
        IF p \in passed THEN Block(len[Len(p) + 1])
        ELSE IF p \in DOMAIN o /\ (p = Top \/ o[Front(p)].length = len[Len(p)])
             THEN o[p]
        ELSE Blank(IF Len(p) = dims THEN tp ELSE "ARRAY")]

(* Mutant: only the blocks that are there are expanded, not the new rows. *)
ExpandedOld(o, dims, len, tp) ==
  LET passed == Passed(o, dims, len) \cap DOMAIN o
      new == {p \in Box(dims, len) : p # Top /\ Front(p) \in passed}
  IN [p \in DOMAIN o \cup new |->
        IF p \in passed THEN Block(len[Len(p) + 1])
        ELSE IF p \in DOMAIN o THEN o[p]
        ELSE Blank(IF Len(p) = dims THEN tp ELSE "ARRAY")]

Expanded(o, dims, len, tp) ==
  LET passed == Passed(o, dims, len)
      new == {p \in Box(dims, len) : p # Top /\ Front(p) \in passed}
  IN [p \in DOMAIN o \cup new |->
        IF p \in passed THEN Block(len[Len(p) + 1])
        ELSE IF p \in DOMAIN o THEN o[p]
        ELSE Blank(IF Len(p) = dims THEN tp ELSE "ARRAY")]

ExpandCheck(o, dims, len) ==
  IF CheckDimLength(dims, len) # "OK" THEN CheckDimLength(dims, len)
  ELSE IF DOMAIN o = {} THEN "VAR_PTR_ERR"
  ELSE IF o[Top].type # "ARRAY" THEN "VAR_NOT_ARRAY"
  ELSE IF dims < GetArrayDimension(o) THEN "VAR_BAD_DIM"
  ELSE "OK"

ExpandArray(o, dims, len, tp) ==
  LET check == ExpandCheck(o, dims, len)
  IN IF check # "OK" THEN [ret |-> check, value |-> o]
     ELSE [ret |-> IF TooLong(o, dims, len) = {} THEN "OK" ELSE "VAR_BAD_LENGTH",
           value |-> Expanded(o, dims, len, tp)]

-----------------------------------------------------------------------------
(* The blocks and elements that have the lengths that the first ones have. *)
IsRectangular(o) ==
  DOMAIN o = Box(GetArrayDimension(o), GetArrayLength(o))

(* Mutant: the loops run one too far. *)
FreePassesUpTo(o) ==
  LET len == GetArrayLength(o) IN Box(GetArrayDimension(o), [i \in 1..3 |-> len[i] + 1]) \ {Top}

(* rh4nvarFreeArray: the entries that its loops ask rh4nvarGetArrayEntry for. *)
FreePasses(o) == Box(GetArrayDimension(o), GetArrayLength(o)) \ {Top}

(***************************************************************************)
(* The loops run by the lengths of the first rows.  Every entry is freed,  *)
(* and once, if they find each entry they ask for and ask for each that is *)
(* there; when one is not found the entry of the pass before is freed      *)
(* again.                                                                  *)
(***************************************************************************)
FreesAll(o) ==
  /\ \A p \in FreePasses(o) : GetArrayEntry(o, p) = "OK"
  /\ DOMAIN o \ {Top} \subseteq FreePasses(o)
=============================================================================
