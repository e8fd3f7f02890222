------------------------------ MODULE NatParms ------------------------------
(***************************************************************************)
(* The parameters of a Natural program: rh4nnatPutParms puts the variables *)
(* of the request's body into them, and later rh4nnatStartVariableReadout  *)
(* makes variables of them again.                                          *)
(*                                                                         *)
(* The position of a parameter is taken to be that of the body's variable  *)
(* that belongs to it.  The functions of the Natural interface (NNI) are   *)
(* external: any of them may fail.                                         *)
(***************************************************************************)
EXTENDS NatValues

CONSTANTS
  Characters,  \* what texts are made of
  Jobs,        \* sequences of a parameter description and a variable each
  Strays,      \* what memory behind a row may look like: elements of any type
  NNIRets      \* what NNI functions return: OK, WARN or ERR

ASSUME NNIRetsAssumption == "OK" \in NNIRets /\ NNIRets \subseteq {"OK", "WARN", "ERR"}

ASSUME CharactersAssumption == {" ", "'"} \cup Digits \subseteq Characters

WriteFormats == {"ALPHA", "FLOAT", "INT", "LOG", "NUM"}
ReadFormats == WriteFormats \cup {"DATE", "TIME", "UNICODE"}

(* What a parameter of a format can hold. *)
Contents(format) ==
  CASE format \in {"INT", "FLOAT"} -> Int
    [] format = "LOG"     -> BOOLEAN
    [] format = "UNICODE" -> Seq((0..255) \X (0..255))
    [] OTHER              -> Seq(Characters)

ASSUME NothingAssumption == \A format \in ReadFormats : Nothing \notin Contents(format)

(* What Natural says of a parameter. *)
IsDescription(d) ==
  /\ d.length \in Nat /\ d.dims \in 0..3 /\ d.occ \in [1..3 -> Nat]
  /\ d.format = "INT" => d.length \in {1, 2, 4}
  /\ d.format = "FLOAT" => d.length \in {4, 8}
  /\ d.format \in ReadFormats => d.first \in Contents(d.format)

(* A variable has values: there is no way to send one that has none.       *)
(* The blocks of an array need not be of one length.                       *)
IsElement(c) ==
  /\ c.type # "ARRAY"
  /\ c.type = "STRING" => c.val \in Seq(Characters)
  /\ c.type = "BOOLEAN" => c.val \in BOOLEAN
  /\ c.type \in {"INTEGER", "FLOAT"} => c.val \in Int

IsVar(o) ==
  \/ DOMAIN o = {}
  \/ DOMAIN o = {Top} /\ IsElement(o[Top])
  \/ \E dims \in 1..3 :
       /\ Top \in DOMAIN o /\ DOMAIN o \subseteq Seq(Nat)
       /\ \A p \in DOMAIN o :
            /\ Len(p) <= dims /\ \A j \in 0..Len(p) : SubSeq(p, 1, j) \in DOMAIN o
            /\ Len(p) < dims => o[p].type = "ARRAY" /\ o[p].length \in Nat
            /\ Len(p) = dims => IsElement(o[p])

ASSUME JobsAssumption ==
  \A job \in Jobs :
    /\ Len(job) \in Nat \ {0}
    /\ \A j \in 1..Len(job) : IsDescription(job[j].parm) /\ IsVar(job[j].var)

ASSUME StraysAssumption == \A c \in Strays : IsElement(c)

VARIABLES
  body,      \* the variables, NoVar where the body has none
  parms,     \* the parameters: description, occurrences and cells
  phase,     \* put, putArray, natural, read, readArray, end or killed
  k,         \* the parameter that is at its turn
  todo,      \* the indices of its elements that are still to come
  putret,    \* what the put of each parameter returned
  out,       \* the variables that have been read out
  ret,       \* what the user exit returned
  failed     \* history: the parameters at which an NNI function failed

vars == <<body, parms, phase, k, todo, putret, out, ret, failed>>

(* The passes of the loop over dimension i; a dimension that is not there has one. *)
Passes(i, dims, len) == IF i <= dims THEN len[i] ELSE 1

(* The indices of the pass n through the nested loops, counted from 0. *)
PathAt(n, dims, len) ==
  LET y == Passes(2, dims, len)
      z == Passes(3, dims, len)
      indices == <<(n \div z) \div y, (n \div z) % y, n % z>>
  IN [i \in 1..dims |-> indices[i]]

Product(dims, len) == Passes(1, dims, len) * Passes(2, dims, len) * Passes(3, dims, len)

(* Mutant: the last element is left out. *)
PathsButLast(dims, len) ==
  IF \E i \in 1..dims : len[i] <= 0 THEN <<>>
  ELSE [n \in 1..Product(dims, len) - 1 |-> PathAt(n - 1, dims, len)]

(* The indices that the nested loops over dims dimensions go through, in their order. *)
Paths(dims, len) ==
  IF \E i \in 1..dims : len[i] <= 0 THEN <<>>
  ELSE [n \in 1..Product(dims, len) |-> PathAt(n - 1, dims, len)]

NewParm(d) ==
  [desc |-> d, occ |-> d.occ,
   cells |-> [p \in {p \in Box(d.dims, d.occ) : Len(p) = d.dims} |-> d.first]]

Resized(q, len) ==
  [q EXCEPT !.occ = len,
            !.cells = [p \in {p \in Box(q.desc.dims, len) : Len(p) = q.desc.dims} |->
                         IF p \in DOMAIN q.cells THEN q.cells[p] ELSE q.desc.first]]

Init ==
  /\ \E job \in Jobs :
       /\ body = [j \in 1..Len(job) |-> job[j].var]
       /\ parms = [j \in 1..Len(job) |-> NewParm(job[j].parm)]
       /\ putret = [j \in 1..Len(job) |-> "NONE"]
       /\ out = [j \in 1..Len(job) |-> NoVar]
  /\ phase = "put" /\ k = 1 /\ todo = <<>>
  /\ ret = "OK" /\ failed = {}

D == parms[k].desc
V == body[k]

-----------------------------------------------------------------------------
(* rh4nnatPutParms: what comes back from one parameter is not passed on. *)
EndPut(r) ==
  /\ putret' = [putret EXCEPT ![k] = r]
  /\ phase' = IF k = Len(parms) THEN "natural" ELSE "put"
  /\ k' = k + 1
  /\ todo' = <<>>
  /\ UNCHANGED <<body, out, ret>>

PutInfoFails ==
  /\ phase = "put" /\ NNIRets # {"OK"}
  /\ ret' = "NNI_ERR" /\ phase' = "natural" /\ failed' = failed \cup {k}
  /\ UNCHANGED <<body, parms, k, todo, putret, out>>

IsPut == DOMAIN V # {} /\ V[Top].type # "NULL" /\ D.format \in WriteFormats

PutNothing ==
  /\ phase = "put" /\ ~IsPut
  /\ EndPut("NONE")
  /\ UNCHANGED <<parms, failed>>

AtPut(fmt) == phase = "put" /\ IsPut /\ D.format = fmt

(* One value is put: strict callers take a warning of NNI for an error. *)
PutScalar(fmt, tp, strict) ==
  /\ AtPut(fmt) /\ D.dims = 0
  /\ LET c == Converted(V[Top].val, tp, D)
     IN IF V[Top].type # tp THEN EndPut("FORMAT_ERR") /\ UNCHANGED <<parms, failed>>
        ELSE IF c.ret # "OK" THEN EndPut(c.ret) /\ UNCHANGED <<parms, failed>>
        ELSE \E r \in NNIRets :
          /\ parms' = IF r = "ERR" THEN parms ELSE [parms EXCEPT ![k].cells[Top] = Stored(c.val, D)]
          /\ failed' = IF r = "OK" THEN failed ELSE failed \cup {k}
          /\ EndPut(IF r = "ERR" \/ (strict /\ r = "WARN") THEN "NNI_ERR" ELSE "OK")

TooSmall(q, len) ==
  LET flags == q.desc.flags
  IN IF "UBVAR_0" \notin flags /\ q.occ[1] < len[1] THEN "DIM1_TOO_SMALL"
     ELSE IF q.desc.dims > 1 /\ "UBVAR_1" \notin flags /\ q.occ[2] < len[2] THEN "DIM2_TOO_SMALL"
     ELSE IF q.desc.dims > 2 /\ "UBVAR_2" \notin flags /\ q.occ[3] < len[3] THEN "DIM3_TOO_SMALL"
     ELSE "OK"

StartPut(ps) ==
  IF ps = <<>> THEN EndPut("OK")
  ELSE phase' = "putArray" /\ todo' = ps /\ UNCHANGED <<body, k, putret, out, ret>>

(* An X-array is resized first; NNI refuses lengths that are not there. *)
PutArray(fmt) ==
  /\ AtPut(fmt) /\ D.dims > 0
  /\ LET len == GetArrayLength(V)
         small == TooSmall(parms[k], len)
     IN IF V[Top].type # "ARRAY" THEN EndPut("FORMAT_ERR") /\ UNCHANGED <<parms, failed>>
        ELSE IF small # "OK" THEN EndPut(small) /\ UNCHANGED <<parms, failed>>
        ELSE IF "XARRAY" \notin D.flags THEN StartPut(Paths(D.dims, len)) /\ UNCHANGED <<parms, failed>>
        ELSE \E r \in NNIRets :
          IF r = "OK" /\ \A i \in 1..D.dims : len[i] >= 0
          THEN /\ parms' = [parms EXCEPT ![k] = Resized(parms[k], len)]
               /\ StartPut(Paths(D.dims, len))
               /\ UNCHANGED failed
          ELSE EndPut("NNI_ERR") /\ failed' = failed \cup {k} /\ UNCHANGED parms

NextPut ==
  IF Len(todo) = 1 THEN EndPut("OK")
  ELSE todo' = Tail(todo) /\ UNCHANGED <<body, phase, k, putret, out, ret>>

(* One entry, c, is put. *)
PutEntry(p, c, tp) ==
  LET x == Converted(c.val, tp, D)
  IN IF c.type # tp THEN EndPut("FORMAT_ERR") /\ UNCHANGED <<parms, failed>>
     ELSE IF x.ret # "OK" THEN EndPut(x.ret) /\ UNCHANGED <<parms, failed>>
     ELSE \E r \in NNIRets :
       IF r = "ERR" \/ p \notin DOMAIN parms[k].cells
       THEN EndPut("NNI_ERR") /\ failed' = failed \cup {k} /\ UNCHANGED parms
       ELSE /\ parms' = [parms EXCEPT ![k].cells[p] = Stored(x.val, D)]
            /\ failed' = IF r = "OK" THEN failed ELSE failed \cup {k}
            /\ NextPut

(***************************************************************************)
(* The loops go by the lengths of the first rows.  One behind the end of a *)
(* shorter row the entry that is found is whatever lies in memory there:   *)
(* it is put, or refused, or it cannot be read and ends the process.       *)
(***************************************************************************)
PutArrayEntry(fmt, tp) ==
  /\ phase = "putArray" /\ D.format = fmt
  /\ LET p == Head(todo)
         found == GetArrayEntry(V, p)
     IN \/ found = "OK" /\ PutEntry(p, V[p], tp)
        \/ found \notin {"OK", "BEYOND"} /\ EndPut(found) /\ UNCHANGED <<parms, failed>>
        \/ found = "BEYOND" /\ \E c \in Strays : PutEntry(p, c, tp)
        \/ found = "BEYOND" /\ Front(p) \notin DOMAIN V /\ EndPut("VAR_BAD_INDEX") /\ UNCHANGED <<parms, failed>>
        \/ found = "BEYOND" /\ phase' = "killed" /\ UNCHANGED <<body, parms, k, todo, putret, out, ret, failed>>

PutString == PutScalar("ALPHA", "STRING", FALSE)
PutStringArray == PutArray("ALPHA")
PutStringArrayEntry == PutArrayEntry("ALPHA", "STRING")

PutInteger == PutScalar("INT", "INTEGER", TRUE)
PutIntegerArray == PutArray("INT")
PutIntegerArrayEntry == PutArrayEntry("INT", "INTEGER")

PutBool == PutScalar("LOG", "BOOLEAN", TRUE)
PutBoolArray == PutArray("LOG")
PutBoolArrayEntry == PutArrayEntry("LOG", "BOOLEAN")

(* An F4 is refused before anything else is looked at. *)
PutF4 == AtPut("FLOAT") /\ D.length = 4 /\ EndPut("USE_F8") /\ UNCHANGED <<parms, failed>>
PutFloat == AtPut("FLOAT") /\ D.length # 4 /\ PutScalar("FLOAT", "FLOAT", TRUE)
PutFloatArray == AtPut("FLOAT") /\ D.length # 4 /\ PutArray("FLOAT")
PutFloatArrayEntry == PutArrayEntry("FLOAT", "FLOAT")

(* A number is made of a text or of an integer; NNI refuses what has no text. *)
PutAtoN ==
  /\ AtPut("NUM") /\ D.dims = 0
  /\ \/ V[Top].type = "INTEGER" /\ PutScalar("NUM", "INTEGER", FALSE)
     \/ V[Top].type = "STRING" /\ PutScalar("NUM", "STRING", FALSE)
     \/ V[Top].type \notin {"INTEGER", "STRING"} /\ EndPut("NNI_ERR") /\ UNCHANGED <<parms, failed>>
PutAtoNArray == PutArray("NUM")
PutAtoNArrayEntry == PutArrayEntry("NUM", "STRING")

PutStep ==
  \/ PutInfoFails \/ PutNothing
  \/ PutString \/ PutStringArray \/ PutStringArrayEntry
  \/ PutInteger \/ PutIntegerArray \/ PutIntegerArrayEntry
  \/ PutBool \/ PutBoolArray \/ PutBoolArrayEntry
  \/ PutF4 \/ PutFloat \/ PutFloatArray \/ PutFloatArrayEntry
  \/ PutAtoN \/ PutAtoNArray \/ PutAtoNArrayEntry

-----------------------------------------------------------------------------
(* The Natural program is external, and leaves its parameters as they are. *)
StartReadout ==
  /\ phase = "natural"
  /\ phase' = "read" /\ k' = 1 /\ ret' = "OK" /\ failed' = {}
  /\ UNCHANGED <<body, parms, todo, putret, out>>

(***************************************************************************)
(* rh4nnatStartVariableReadout: the first error ends it.                   *)
(***************************************************************************)
EndRead(r) ==
  /\ ret' = r
  /\ phase' = IF r # "OK" \/ k = Len(parms) THEN "end" ELSE "read"
  /\ k' = k + 1
  /\ todo' = <<>>
  /\ UNCHANGED <<body, parms, putret, failed>>

NNICanFail == NNIRets # {"OK"}

ReadInfoFails == phase = "read" /\ NNICanFail /\ EndRead("NNI_ERR") /\ UNCHANGED out

(* A format without a handler is passed over. *)
ReadNothing ==
  /\ phase = "read" /\ D.format \notin ReadFormats
  /\ EndRead("OK") /\ UNCHANGED out

AtRead(fmt) == phase = "read" /\ D.format = fmt
IsText == D.format \in {"ALPHA", "UNICODE"}

(* An empty text is not asked for. *)
ReadScalar(fmt, tp) ==
  /\ AtRead(fmt) /\ D.dims = 0
  /\ LET x == parms[k].cells[Top]
     IN \/ \E v \in ReadOut(x, D) :
             out' = [out EXCEPT ![k] = [p \in {Top} |-> SetCell(Blank(tp), v)]] /\ EndRead("OK")
        \/ NNICanFail /\ ~(IsText /\ x = <<>>) /\ EndRead("NNI_ERR") /\ UNCHANGED out

ReadArray(fmt, tp) ==
  /\ AtRead(fmt) /\ D.dims > 0
  /\ LET len == parms[k].occ
         check == CheckDimLength(NewDims(D.dims, len), len)
     IN IF check # "OK" THEN EndRead(check) /\ UNCHANGED out
        ELSE /\ out' = [out EXCEPT ![k] = NewArray(NewDims(D.dims, len), len, tp)]
             /\ IF Paths(D.dims, len) = <<>> THEN EndRead("OK")
                ELSE /\ phase' = "readArray" /\ todo' = Paths(D.dims, len)
                     /\ UNCHANGED <<body, parms, k, putret, ret, failed>>

NextRead ==
  IF Len(todo) = 1 THEN EndRead("OK")
  ELSE todo' = Tail(todo) /\ UNCHANGED <<body, parms, phase, k, putret, ret, failed>>

(* An empty text in an array of dynamic ones is left out: it stays unset. *)
IsLeftOut(x) == IsText /\ "DYNVAR" \in D.flags /\ x = <<>>

ReadArrayEntry(fmt) ==
  /\ phase = "readArray" /\ D.format = fmt
  /\ LET p == Head(todo)
         x == parms[k].cells[p]
     IN \/ IsLeftOut(x) /\ NextRead /\ UNCHANGED out
        \/ /\ ~IsLeftOut(x)
           /\ \E v \in ReadOut(x, D) : out' = [out EXCEPT ![k][p] = SetCell(@, v)]
           /\ NextRead
        \/ NNICanFail /\ EndRead("NNI_ERR") /\ UNCHANGED out

String == ReadScalar("ALPHA", "STRING")
StringArray == ReadArray("ALPHA", "STRING")
SaveStringArrayEntry == ReadArrayEntry("ALPHA")

Integer == ReadScalar("INT", "INTEGER")
IntegerArray == ReadArray("INT", "INTEGER")
SaveIntegerArrayEntry == ReadArrayEntry("INT")

Bool == ReadScalar("LOG", "BOOLEAN")
BoolArray == ReadArray("LOG", "BOOLEAN")
SaveBoolArrayEntry == ReadArrayEntry("LOG")

Float == ReadScalar("FLOAT", "FLOAT")
FloatArray == ReadArray("FLOAT", "FLOAT")
SaveFloatArrayEntry == ReadArrayEntry("FLOAT")

DateTime == \E fmt \in {"DATE", "TIME"} : ReadScalar(fmt, "STRING")
DateTimeArray == \E fmt \in {"DATE", "TIME"} : ReadArray(fmt, "STRING")
SaveDateTimeArrayEntry == \E fmt \in {"DATE", "TIME"} : ReadArrayEntry(fmt)

NumericPacked == ReadScalar("NUM", "STRING")
NumericPackedArray == ReadArray("NUM", "STRING")
SaveNumericPackedArrayEntry == ReadArrayEntry("NUM")

Unicode == ReadScalar("UNICODE", "USTRING")
UnicodeArray == ReadArray("UNICODE", "USTRING")
SaveUnicodeArrayEntry == ReadArrayEntry("UNICODE")

ReadStep ==
  \/ ReadInfoFails \/ ReadNothing
  \/ String \/ StringArray \/ SaveStringArrayEntry
  \/ Integer \/ IntegerArray \/ SaveIntegerArrayEntry
  \/ Bool \/ BoolArray \/ SaveBoolArrayEntry
  \/ Float \/ FloatArray \/ SaveFloatArrayEntry
  \/ DateTime \/ DateTimeArray \/ SaveDateTimeArrayEntry
  \/ NumericPacked \/ NumericPackedArray \/ SaveNumericPackedArrayEntry
  \/ Unicode \/ UnicodeArray \/ SaveUnicodeArrayEntry

Next == PutStep \/ StartReadout \/ ReadStep

Spec == Init /\ [][Next]_vars

-----------------------------------------------------------------------------
InRange(v, d) == d.length = 4 \/ (-(Width(d.length) \div 2) <= v /\ v < Width(d.length) \div 2)

(* An integer arrives where it has its highest octet first, or four octets. *)
Arrives(v, d) == (BigEndian \/ d.length = 4) /\ InRange(v, d)

(* The content x of a parameter is the value of c: blanks at the end of a  *)
(* text do not count, and what an integer is the Natural program sees.     *)
Means(x, c, d) ==
  CASE d.format = "ALPHA" -> IsPrefix(c.val, x) /\ \A i \in Len(c.val) + 1..Len(x) : x[i] = " "
    [] d.format = "INT"   -> Arrives(c.val, d) => IntegerOf(x, d) = {c.val}
    [] d.format = "NUM"   -> x = IF c.type = "INTEGER" THEN IntToText(c.val) ELSE c.val
    [] OTHER              -> x = c.val

Same(j, p) ==
  /\ p \in DOMAIN body[j] /\ p \in DOMAIN parms[j].cells
  /\ Means(parms[j].cells[p], body[j][p], parms[j].desc)

HasShape(o, d) ==
  /\ DOMAIN o # {}
  /\ IF o[Top].type = "ARRAY" THEN d.dims = GetArrayDimension(o) /\ IsRectangular(o)
     ELSE d.dims = 0

Elements(o) == {p \in DOMAIN o : o[p].type # "ARRAY"}

IsJagged(o) == DOMAIN o # {} /\ o[Top].type = "ARRAY" /\ ~IsRectangular(o)

(***************************************************************************)
(* Whatever fails and wherever: a cell of a parameter holds what it held   *)
(* at first, or the body's element of the same index, never another one's  *)
(* or a part of it (rh4nnatPutParms and the three nested loops); only for  *)
(* an array with rows of different lengths, and where it has no element,   *)
(* it may be something else (rh4n_vars_array.c:129).  And a                *)
(* readout that says OK has a variable of the right shape for every        *)
(* parameter that has a handler, with every element set but the empty      *)
(* texts of dynamic arrays (a_handling.c:95).                              *)
(***************************************************************************)
HoldsElements ==
  /\ \A j \in 1..Len(parms) : \A p \in DOMAIN parms[j].cells :
       \/ parms[j].cells[p] = parms[j].desc.first
       \/ Same(j, p)
       \/ IsJagged(body[j]) /\ p \notin DOMAIN body[j]
  /\ phase = "end" /\ ret = "OK" =>
       \A j \in 1..Len(parms) :
         parms[j].desc.format \in ReadFormats =>
           /\ HasShape(out[j], parms[j].desc)
              \/ (parms[j].occ[1] = 0 /\ out[j][Top].type = "ARRAY")
           /\ DOMAIN parms[j].cells = Elements(out[j])
           /\ \A p \in Elements(out[j]) :
                out[j][p].val # Nothing \/ parms[j].cells[p] = <<>>

(* If a put says OK, every element has arrived (put_a.c:76 and its like). *)
PutIsComplete ==
  \A j \in 1..Len(parms) :
    putret[j] = "OK" /\ HasShape(body[j], parms[j].desc) => \A p \in Elements(body[j]) : Same(j, p)

FitsCell(c, d) ==
  CASE d.format = "ALPHA" -> c.type = "STRING" /\ ("DYNAMIC" \in d.flags \/ Len(c.val) <= d.length)
    [] d.format = "INT"   -> c.type = "INTEGER" /\ InRange(c.val, d)
    [] d.format = "LOG"   -> c.type = "BOOLEAN"
    [] d.format = "FLOAT" -> c.type = "FLOAT"
    [] d.format = "NUM"   -> c.type = "STRING" /\ FromString(c.val, d).ret = "OK"
    [] OTHER              -> FALSE

UpperBound == <<"UBVAR_0", "UBVAR_1", "UBVAR_2">>

Fits(j) ==
  LET d == parms[j].desc
  IN /\ d.format \in WriteFormats /\ (d.format = "FLOAT" => d.length = 8)
     /\ HasShape(body[j], d)
     /\ \A p \in Elements(body[j]) : FitsCell(body[j][p], d)
     /\ \A i \in 1..d.dims :
          \/ GetArrayLength(body[j])[i] <= d.occ[i]
          \/ "XARRAY" \in d.flags /\ UpperBound[i] \in d.flags

(***************************************************************************)
(* A variable that fits its parameter is put into it, whatever happened to *)
(* the other variables (mbn.c:77): only NNI can keep it out.               *)
(***************************************************************************)
FitsIsPut ==
  phase = "natural" /\ ret = "OK" =>
    \A j \in 1..Len(parms) : Fits(j) /\ j \notin failed => putret[j] = "OK"

(***************************************************************************)
(* What has been put and is read out again is what the body had.  Texts    *)
(* lose their blanks at the end, and their double quotes become single     *)
(* ones (rh4nUtilsTrimSpaces, rh4nUtilsEscapeQuotes); a text of blanks may *)
(* come back as it is.                                                     *)
(***************************************************************************)
IsSolid(v) == v # <<>> /\ v[Len(v)] # " "

ComesBackAs(c, d) ==
  CASE d.format = "ALPHA" -> EscapeQuotes(c.val)
    [] c.type = "INTEGER" /\ d.format = "NUM" -> IntToText(c.val)
    [] OTHER              -> c.val

ComesBack ==
  phase = "end" /\ ret = "OK" =>
    \A j \in 1..Len(parms) :
      putret[j] = "OK" /\ HasShape(body[j], parms[j].desc) =>
        \A p \in Elements(body[j]) :
          LET c == body[j][p]
              d == parms[j].desc
          IN (d.format = "ALPHA" => IsSolid(c.val)) /\ (d.format = "INT" => Arrives(c.val, d))
             => out[j][p].val = ComesBackAs(c, d)

=============================================================================
