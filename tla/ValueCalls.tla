----------------------------- MODULE ValueCalls -----------------------------
(***************************************************************************)
(* A variable under any sequence of the calls that create it, set it, read *)
(* it and expand it.  Which variable a name finds is the business of       *)
(* VarList; here the one variable of the list is there or not.             *)
(***************************************************************************)
EXTENDS VarArray

CONSTANTS
  ValuesOf,   \* the values of a type: sequences of characters, or numbers
  Types,      \* the types of what is created
  Lengths,    \* the lengths that callers give: functions of 1..3
  Indices,    \* the indices that callers give, up to the first -1
  Buffers     \* the sizes of the buffers that strings are copied to

ASSUME TypesAssumption == Types \subseteq DataTypes
ASSUME ValuesAssumption ==
  \A tp \in Types : \A v \in ValuesOf[tp] :
    v # Nothing /\ (tp \in {"STRING", "USTRING"} => v \in Seq({v[i] : i \in DOMAIN v}))
ASSUME LengthsAssumption == Lengths \subseteq [1..3 -> Int]
ASSUME IndicesAssumption == Indices \subseteq Seq(Int)
ASSUME BuffersAssumption == Buffers \subseteq Nat

VARIABLES
  value,     \* the variable, NoVar before it is created
  arrtype,   \* its array_type
  call,      \* the last call: which, at which path, with how large a buffer
  ret,       \* what it returned
  out,       \* what it gave back
  written,   \* history: what was set last, at each path
  halfway    \* history: the array is as an expand left it that failed in the middle

vars == <<value, arrtype, call, ret, out, written, halfway>>

Exists == DOMAIN value # {}
Texts == {"STRING", "USTRING"}
Call(fn, p, n) == [fn |-> fn, at |-> p, size |-> n]

Init ==
  /\ value = NoVar
  /\ arrtype = "NULL"
  /\ call = Call("InitList", Top, 0)
  /\ ret = "OK"
  /\ out = Nothing
  /\ written = <<>>
  /\ halfway = FALSE

(* A call c that returns r and gives back x. *)
Returns(c, r, x) == call' = c /\ ret' = r /\ out' = x

(* A call c that returns r and leaves the variable as it is. *)
OnlyReturns(c, r, x) == Returns(c, r, x) /\ UNCHANGED <<value, arrtype, written, halfway>>

(* A call c that does act if its checks found nothing. *)
Tries(c, check, act) == IF check = "OK" THEN act ELSE OnlyReturns(c, check, Nothing)

(* The cell at path p is set. *)
Sets(c, p, v) ==
  /\ Returns(c, "OK", Nothing)
  /\ value' = [value EXCEPT ![p] = SetCell(value[p], v)]
  /\ written' = [q \in DOMAIN written \cup {p} |-> IF q = p THEN v ELSE written[q]]
  /\ UNCHANGED <<arrtype, halfway>>

-----------------------------------------------------------------------------
IsNew == IF Exists THEN "VAR_EXISTS" ELSE "OK"

(* What is there at the top only. *)
Scalar(x) == [p \in {Top} |-> x]

(* rh4nvarCreateNew<Type>: the scalar is created and its value set. *)
CreateNew(tp, v) ==
  LET c == Call("CreateNew", Top, 0)
  IN Tries(c, IsNew, /\ value' = Scalar(SetCell(Blank(tp), v))
                     /\ written' = Scalar(v)
                     /\ Returns(c, "OK", Nothing)
                     /\ UNCHANGED <<arrtype, halfway>>)

CreateNewNull ==
  LET c == Call("CreateNewNull", Top, 0)
  IN Tries(c, IsNew, /\ value' = Scalar(Blank("NULL"))
                     /\ Returns(c, "OK", Nothing)
                     /\ UNCHANGED <<arrtype, written, halfway>>)

(* The lengths are checked before the variable is created. *)
CreateNewArray(dims, len, tp) ==
  LET c == Call("CreateNewArray", Top, 0)
      d == NewDims(dims, len)
      check == CheckDimLength(d, len)
  IN Tries(c, IF check = "OK" THEN IsNew ELSE check,
           /\ value' = NewArray(d, len, tp)
           /\ arrtype' = tp
           /\ Returns(c, "OK", Nothing)
           /\ halfway' = FALSE
           /\ UNCHANGED written)

(* Elements that are set are not made into rows: no caller adds a dimension then. *)
ExpandsOnlyUnset(dims) ==
  dims > GetArrayDimension(value) => \A p \in DOMAIN value : value[p].val = Nothing

Expand(dims, len) ==
  LET x == ExpandArray(value, dims, len, arrtype)
  IN /\ Exists /\ value[Top].type = "ARRAY" => ExpandsOnlyUnset(dims)
     /\ Returns(Call("ExpandArray", Top, 0), x.ret, Nothing)
     /\ value' = x.value
     /\ halfway' = (x.ret # "OK" /\ (halfway \/ x.value # value))
     /\ UNCHANGED <<arrtype, written>>

(* No array_type is set in a variable that is none. *)
GetArrayVarType ==
  /\ Exists => value[Top].type = "ARRAY"
  /\ LET c == Call("GetArrayVarType", Top, 0)
     IN Tries(c, IF Exists THEN "OK" ELSE "VAR_PTR_ERR", OnlyReturns(c, "OK", arrtype))

-----------------------------------------------------------------------------
(* What the calls on the scalar and on an entry find, and say of the type. *)
ScalarRet(tp) ==
  IF ~Exists THEN "VAR_PTR_ERR"
  ELSE IF value[Top].type # tp THEN "FORMAT_ERR" ELSE "OK"

EntryRet(tp, p) ==
  IF ~Exists THEN "VAR_PTR_ERR"
  ELSE IF GetArrayEntry(value, p) # "OK" THEN GetArrayEntry(value, p)
  ELSE IF value[p].type # tp THEN "FORMAT_ERR" ELSE "OK"

(* Callers keep their indices inside of the array, as its lengths tell them. *)
Inside(p) == p # <<>> /\ (Exists => GetArrayEntry(value, p) # "BEYOND")

(* Callers read what has been set: the code takes the value pointer as it is. *)
Readable(p) == value[p].val # Nothing

Edit(tp, v) ==
  LET c == Call("Edit", Top, 0) IN Tries(c, ScalarRet(tp), Sets(c, Top, v))

SetEntry(tp, p, v) ==
  LET c == Call("SetEntry", p, 0)
  IN Inside(p) /\ Tries(c, EntryRet(tp, p), Sets(c, p, v))

(***************************************************************************)
(* rh4nvarSetArrayEntry_m sets the entry by the entry's own type, whatever *)
(* the buffer holds: callers take the function of that type.  It sets no   *)
(* rows, and no entries of the types USTRING and NULL, but returns OK.     *)
(***************************************************************************)
SetArrayEntry_m(tp, p, v) ==
  LET c == Call("SetEntry", p, 0)
      check == IF Exists THEN GetArrayEntry(value, p) ELSE "VAR_PTR_ERR"
      sets == check = "OK" /\ value[p].type \in DataTypes \ {"USTRING"}
  IN /\ Inside(p)
     /\ sets => value[p].type = tp
     /\ Tries(c, check, IF sets THEN Sets(c, p, v) ELSE OnlyReturns(c, "OK", Nothing))

(* What is read: a number, or the characters that fit in the buffer. *)
Copied(tp, x, n) ==
  IF tp \in Texts /\ n < Len(x) THEN SubSeq(x, 1, n) ELSE x

Gives(c, p, x) == Readable(p) /\ OnlyReturns(c, "OK", x)

Get(tp, n) ==
  LET c == Call("Get", Top, n)
  IN Tries(c, ScalarRet(tp), Gives(c, Top, Copied(tp, value[Top].val, n)))

GetEntry(tp, p, n) ==
  LET c == Call("Get", p, n)
  IN Inside(p) /\ Tries(c, EntryRet(tp, p), Gives(c, p, Copied(tp, value[p].val, n)))

GetLength(tp) ==
  LET c == Call("GetLength", Top, 0)
  IN Tries(c, ScalarRet(tp), Gives(c, Top, Len(value[Top].val)))

GetLengthEntry(tp, p) ==
  LET c == Call("GetLength", p, 0)
  IN Inside(p) /\ Tries(c, EntryRet(tp, p), Gives(c, p, Len(value[p].val)))

-----------------------------------------------------------------------------
(* The functions of the types. *)
CreateNewString(v) == CreateNew("STRING", v)
EditString(v) == Edit("STRING", v)
GetString(n) == Get("STRING", n)
GetStringLength == GetLength("STRING")
CreateNewStringArray(dims, len) == CreateNewArray(dims, len, "STRING")
SetStringArrayEntry(p, v) == SetEntry("STRING", p, v)
SetStringArrayEntry_m(p, v) == SetArrayEntry_m("STRING", p, v)
GetStringArrayEntry(p, n) == GetEntry("STRING", p, n)
GetStringLengthArrayEntry(p) == GetLengthEntry("STRING", p)

CreateNewUString(v) == CreateNew("USTRING", v)
EditUString(v) == Edit("USTRING", v)
GetUString(n) == Get("USTRING", n)
GetUStringLength == GetLength("USTRING")
CreateNewUStringArray(dims, len) == CreateNewArray(dims, len, "USTRING")
SetUStringArrayEntry(p, v) == SetEntry("USTRING", p, v)
GetUStringArrayEntry(p, n) == GetEntry("USTRING", p, n)
GetUStringLengthArrayEntry(p) == GetLengthEntry("USTRING", p)

CreateNewInt(v) == CreateNew("INTEGER", v)
EditInt(v) == Edit("INTEGER", v)
GetInt == Get("INTEGER", 0)
CreateNewIntArray(dims, len) == CreateNewArray(dims, len, "INTEGER")
SetIntArrayEntry(p, v) == SetEntry("INTEGER", p, v)
SetIntArrayEntry_m(p, v) == SetArrayEntry_m("INTEGER", p, v)
GetIntArrayEntry(p) == GetEntry("INTEGER", p, 0)

CreateNewFloat(v) == CreateNew("FLOAT", v)
EditFloat(v) == Edit("FLOAT", v)
GetFloat == Get("FLOAT", 0)
CreateNewFloatArray(dims, len) == CreateNewArray(dims, len, "FLOAT")
SetFloatArrayEntry(p, v) == SetEntry("FLOAT", p, v)
SetFloatArrayEntry_m(p, v) == SetArrayEntry_m("FLOAT", p, v)
GetFloatArrayEntry(p) == GetEntry("FLOAT", p, 0)

CreateNewBool(v) == CreateNew("BOOLEAN", v)
EditBool(v) == Edit("BOOLEAN", v)
GetBool == Get("BOOLEAN", 0)
CreateNewBoolArray(dims, len) == CreateNewArray(dims, len, "BOOLEAN")
SetBoolArrayEntry(p, v) == SetEntry("BOOLEAN", p, v)
SetBoolArrayEntry_m(p, v) == SetArrayEntry_m("BOOLEAN", p, v)
GetBoolArrayEntry(p) == GetEntry("BOOLEAN", p, 0)

CreateNewNullArray_m(dims, len) == CreateNewArray(dims, len, "NULL")

StringCalls ==
  /\ "STRING" \in Types
  /\ \/ \E v \in ValuesOf["STRING"] : CreateNewString(v) \/ EditString(v)
     \/ \E dims \in 1..3, len \in Lengths : CreateNewStringArray(dims, len)
     \/ \E p \in Indices, v \in ValuesOf["STRING"] :
          SetStringArrayEntry(p, v) \/ SetStringArrayEntry_m(p, v)
     \/ \E n \in Buffers : GetString(n)
     \/ GetStringLength
     \/ \E p \in Indices, n \in Buffers : GetStringArrayEntry(p, n)
     \/ \E p \in Indices : GetStringLengthArrayEntry(p)

UStringCalls ==
  /\ "USTRING" \in Types
  /\ \/ \E v \in ValuesOf["USTRING"] : CreateNewUString(v) \/ EditUString(v)
     \/ \E dims \in 1..3, len \in Lengths : CreateNewUStringArray(dims, len)
     \/ \E p \in Indices, v \in ValuesOf["USTRING"] :
          SetUStringArrayEntry(p, v)
     \/ \E n \in Buffers : GetUString(n)
     \/ GetUStringLength
     \/ \E p \in Indices, n \in Buffers : GetUStringArrayEntry(p, n)
     \/ \E p \in Indices : GetUStringLengthArrayEntry(p)

IntCalls ==
  /\ "INTEGER" \in Types
  /\ \/ \E v \in ValuesOf["INTEGER"] : CreateNewInt(v) \/ EditInt(v)
     \/ \E dims \in 1..3, len \in Lengths : CreateNewIntArray(dims, len)
     \/ \E p \in Indices, v \in ValuesOf["INTEGER"] :
          SetIntArrayEntry(p, v) \/ SetIntArrayEntry_m(p, v)
     \/ GetInt
     \/ \E p \in Indices : GetIntArrayEntry(p)

FloatCalls ==
  /\ "FLOAT" \in Types
  /\ \/ \E v \in ValuesOf["FLOAT"] : CreateNewFloat(v) \/ EditFloat(v)
     \/ \E dims \in 1..3, len \in Lengths : CreateNewFloatArray(dims, len)
     \/ \E p \in Indices, v \in ValuesOf["FLOAT"] :
          SetFloatArrayEntry(p, v) \/ SetFloatArrayEntry_m(p, v)
     \/ GetFloat
     \/ \E p \in Indices : GetFloatArrayEntry(p)

BoolCalls ==
  /\ "BOOLEAN" \in Types
  /\ \/ \E v \in ValuesOf["BOOLEAN"] : CreateNewBool(v) \/ EditBool(v)
     \/ \E dims \in 1..3, len \in Lengths : CreateNewBoolArray(dims, len)
     \/ \E p \in Indices, v \in ValuesOf["BOOLEAN"] :
          SetBoolArrayEntry(p, v) \/ SetBoolArrayEntry_m(p, v)
     \/ GetBool
     \/ \E p \in Indices : GetBoolArrayEntry(p)

Next ==
  \/ StringCalls \/ UStringCalls \/ IntCalls \/ FloatCalls \/ BoolCalls
  \/ CreateNewNull
  \/ \E dims \in 1..3, len \in Lengths : CreateNewNullArray_m(dims, len) \/ Expand(dims, len)
  \/ GetArrayVarType

Spec == Init /\ [][Next]_vars

-----------------------------------------------------------------------------
IsArray == Exists /\ value[Top].type = "ARRAY"

(***************************************************************************)
(* What was set last stays at its index, with the size of its type, until  *)
(* it is set again, whatever other call is made, and also when an expand   *)
(* that goes through it fails.  What was never set has no value.  And a    *)
(* call that reads gives back what was set last at its index: a number as  *)
(* it is, a text whole if the buffer has room for it and otherwise as much *)
(* of it as there is room for.                                             *)
(***************************************************************************)
SetIsKept ==
  /\ \A p \in DOMAIN value :
       IF p \in DOMAIN written
       THEN /\ value[p] = SetCell(Blank(value[p].type), written[p])
            /\ IsArray => GetArrayEntry(value, p) = "OK"
       ELSE value[p].val = Nothing
  /\ call.fn = "Get" /\ ret = "OK" =>
       LET v == written[call.at]
       IN IF value[call.at].type \in Texts
          THEN IsPrefix(out, v) /\ (out = v \/ Len(out) = call.size)
          ELSE out = v

(***************************************************************************)
(* Only an expand that fails leaves rows of different lengths, and one     *)
(* that succeeds makes even such an array rectangular again.               *)
(***************************************************************************)
OnlyFailureIsRagged ==
  [][ret' = "OK" /\ IsArray' /\ (call'.fn \in {"CreateNewArray", "ExpandArray"}
                                 \/ IsRectangular(value))
       => IsRectangular(value')]_vars

(***************************************************************************)
(* An array is freed whole, every row and every element once, except after *)
(* an expand that failed when it had already changed it: and then never,   *)
(* whatever is set, until an expand succeeds.                              *)
(***************************************************************************)
FreedWhole == IsArray => (FreesAll(value) <=> ~halfway)
=============================================================================
