------------------------------ MODULE JsonGen ------------------------------
(***************************************************************************)
(* The JSON text that RHGENJS writes for a list of variables.              *)
(*                                                                         *)
(* The generator knows of Natural's groups only what has arrived: a group  *)
(* that occurs n times is a group of arrays of length n.  So it writes a   *)
(* level of arrays as an array of objects, one object per index.           *)
(*                                                                         *)
(* A text is a sequence of tokens: brackets, commas, names and values.     *)
(* Entry e is written as the name e; what is written for the value of e at *)
(* an index path is the token of both, and of what it is to a reader.  The *)
(* operators of the writer return what they write.                         *)
(***************************************************************************)
EXTENDS VarTree

CONSTANTS
  Lists,     \* the lists, with the lengths and the data of every entry
  OldFiles   \* what the output file holds before

VARIABLES
  list,      \* the list, in list.len the lengths (<<>> if no array) and in
             \* list.data the type of the values and what they hold
  old,       \* the output file before, or NoFile
  file,      \* the output file
  pc,
  ret        \* what rh4njsonPrintJSONToFile returns; RHGENJS ignores it

vars == <<list, old, file, pc, ret>>

Sign(s) == <<s>>
Name(e) == <<"name", e>>
NoFile == <<Sign("none")>>
Beyond == <<"?">>    \* whatever lies in memory behind an array, or no more

Comma(is) == IF is THEN <<Sign(",")>> ELSE <<>>
Object(text) == <<Sign("{")>> \o text \o <<Sign("}")>>
Array(text) == <<Sign("[")>> \o text \o <<Sign("]")>>

-----------------------------------------------------------------------------
(* The entries that anker or nextlvl and then next lead to. *)
Level(g) == list.kids[g]
Groups(g) == {e \in Range(Level(g)) : list.type[e] = "GROUP"}
Arrays(g) == {e \in Range(Level(g)) : list.type[e] = "ARRAY"}

CountGroups(g) == Cardinality(Groups(g))

(* Every array is as long in a dimension as its first element says. *)
GetArrayLength(e) ==
  [i \in 1..3 |-> IF i <= Len(list.len[e]) THEN list.len[e][i] ELSE -1]

GetArrayDimension(e) == Len(list.len[e])

(***************************************************************************)
(* rh4nvarPrintVar and the function of the type.  The data of an entry is  *)
(* its type and what its values hold: "nothing", "plain" data, a text with *)
(* "signs" that JSON wants escaped, or "fine" data, of which the code      *)
(* writes less than there is: a text with an octet 0 in it, a number with  *)
(* more than six decimals.  To a reader the token is the value, the        *)
(* default of the type, another value, or raw, which ends the string too   *)
(* early or cannot be read.  RHGENJS has no variable of the type NULL.      *)
(***************************************************************************)
PrintString(holds) ==
  CASE holds = "nothing" -> "default"
    [] holds = "plain"   -> "value"
    [] holds = "signs"   -> "raw"
    [] holds = "fine"    -> "other"

(* It writes "Unicode is currently not supported". *)
PrintUString(holds) == IF holds = "nothing" THEN "default" ELSE "other"

(* rh4nvarPrintBool and rh4nvarPrintInt *)
PrintBoolOrInt(holds) == IF holds = "nothing" THEN "default" ELSE "value"

PrintFloat(holds) ==
  CASE holds = "nothing" -> "default" [] holds = "plain" -> "value" [] holds = "fine" -> "other"

PrintVar(data) ==
  CASE data.type = "STRING"               -> PrintString(data.holds)
    [] data.type = "USTRING"              -> PrintUString(data.holds)
    [] data.type = "FLOAT"                -> PrintFloat(data.holds)
    [] data.type \in {"BOOLEAN", "INTEGER"} -> PrintBoolOrInt(data.holds)

(* rh4nvarPrintVar, and rh4njsonPrintJSONArray for a row. *)
RECURSIVE PrintValue(_, _)
PrintValue(e, p) ==
  IF Len(p) = Len(list.len[e]) THEN <<<<PrintVar(list.data[e]), e, p>>>>
  ELSE LET n == list.len[e][Len(p) + 1]
       IN Array(FlattenSeq([i \in 1..n |-> PrintValue(e, Append(p, i - 1)) \o Comma(i < n)]))

RECURSIVE CheckIfJSONArray(_, _)
CheckIfJSONArray(g, ignoreGRP) ==
  /\ \A e \in Range(Level(g)) \ Arrays(g) :
       ignoreGRP /\ e \in Groups(g) /\ CheckIfJSONArray(e, ignoreGRP)
  /\ \A e, f \in Arrays(g) : GetArrayDimension(e) = GetArrayDimension(f)

-----------------------------------------------------------------------------
(***************************************************************************)
(* rh4njsonpregetCommonDimension: per dimension a length, and whether all  *)
(* arrays of the level and below have it.                                  *)
(***************************************************************************)
NotInit == -1
NotSet == -2

NoDims == [length |-> [i \in 1..3 |-> NotInit], ok |-> [i \in 1..3 |-> NotInit]]

(* rh4njsoncheckCommonDimension *)
CheckCommonDimension(d, cur) ==
  [length |-> [i \in 1..3 |-> IF d.length[i] # NotInit THEN d.length[i]
                              ELSE IF cur[i] = NotInit THEN NotSet ELSE cur[i]],
   ok     |-> [i \in 1..3 |-> IF d.length[i] = NotInit
                                THEN IF cur[i] = NotInit THEN 0 ELSE 1
                              ELSE IF cur[i] # d.length[i] THEN 0
                              ELSE IF d.ok[i] = NotInit THEN 1
                              ELSE d.ok[i]]]

(* rh4njsonMergeCommonDimResults *)
MergeCommonDimResults(d, child) ==
  IF d = child THEN d
  ELSE [length |-> [i \in 1..3 |-> IF d.ok[i] = NotInit /\ child.ok[i] # NotInit
                                     THEN child.length[i] ELSE d.length[i]],
        ok     |-> [i \in 1..3 |-> IF d.ok[i] = NotInit THEN child.ok[i]
                                   ELSE IF d.ok[i] # child.ok[i] THEN 0
                                   ELSE IF d.length[i] = child.length[i] THEN 1 ELSE 0]]

RECURSIVE PregetCommonDimension(_)
PregetCommonDimension(g) ==
  FoldLeft(LAMBDA d, e : IF e \in Groups(g)
                           THEN MergeCommonDimResults(d, PregetCommonDimension(e))
                         ELSE CheckCommonDimension(d, GetArrayLength(e)),
           NoDims, Level(g))

(* Mutant: only the first dimension is looked at. *)
GetFirstDimension(ok) == IF ok[1] # 1 THEN 0 ELSE 1

(* rh4njsongetCommonDimension: how many dimensions from the first are ok. *)
GetCommonDimension(ok) ==
  IF ok[1] # 1 THEN 0 ELSE IF ok[2] # 1 THEN 1 ELSE IF ok[3] # 1 THEN 2 ELSE 3

-----------------------------------------------------------------------------
(***************************************************************************)
(* RH4nJSONObjectArrayParms_t: aimdim and, as one row, the cells of length *)
(* and of index, which follows it in memory.  length has three cells; the  *)
(* code counts on in it with every group inside a group, and so reaches    *)
(* index, which is what the fourth cell and those after it are.            *)
(***************************************************************************)
NewArgs(g) ==
  LET d == PregetCommonDimension(g)
  IN [aimdim |-> GetCommonDimension(d.ok),
      cells  |-> d.length \o <<-1, -1, -1>>]

IndexCell == 4
Index(args) == SubSeq(args.cells, IndexCell, IndexCell + 2)

(* The indices that rh4nvarGetArrayEntry follows: up to the first -1. *)
PathOf(index) ==
  IF index[2] = -1 THEN <<index[1]>>
  ELSE IF index[3] = -1 THEN <<index[1], index[2]>> ELSE index

IsInside(e, p, k) == k <= Len(list.len[e]) /\ 0 <= p[k] /\ p[k] < list.len[e][k]

(* rh4nvarGetArrayEntry accepts the length itself as an index. *)
EntryRet(e, p) ==
  LET wrong == {k \in 1..Len(p) : ~IsInside(e, p, k)}
      k     == CHOOSE k \in wrong : \A j \in wrong : k <= j
  IN IF wrong = {} THEN "OK"
     ELSE IF k > Len(list.len[e]) THEN "beyond"
     ELSE IF p[k] = list.len[e][k] THEN "beyond"
     ELSE "BAD_INDEX"

(* Mutants: the comma is left out where the value is; the index of a row   *)
(* above is not taken over.                                                *)
PrintEntryNoComma(w, e, last) ==
  LET p == PathOf(Index(w.args))
  IN [w EXCEPT !.text = @ \o <<Name(e)>> \o PrintValue(e, p)]

(* The entries of a level that are arrays. *)
PrintEntry(w, e, last) ==
  LET p == PathOf(Index(w.args))
  IN [w EXCEPT !.text = @ \o <<Name(e)>> \o
        CASE EntryRet(e, p) = "OK"        -> PrintValue(e, p) \o Comma(~last)
          [] EntryRet(e, p) = "beyond"    -> <<Beyond>> \o Comma(~last)
          [] EntryRet(e, p) = "BAD_INDEX" -> <<>>]

NewSubArgs(g, args) ==
  [NewArgs(g) EXCEPT !.cells[IndexCell] = args.cells[IndexCell]]

(***************************************************************************)
(* rh4njsonPrintObjectArrayEntry: the objects of the level g, one for each *)
(* index of the dimension curdim.  args is the C function's own copy, kept *)
(* from one entry and one index to the next.                               *)
(***************************************************************************)
RECURSIVE PrintObjectArrayEntry(_, _, _)

(* rh4njsonPrintJSONSubArray *)
PrintJSONSubArray(g, curdim, args) ==
  Array(PrintObjectArrayEntry(g, curdim + 1, NewSubArgs(g, args)))

PrintGroup(w, e, last, curdim) ==
  LET args == [w.args EXCEPT !.cells[curdim + 1] = NotSet]
  IN [args |-> args,
      text |-> w.text \o <<Name(e)>> \o
                 (IF CountGroups(e) = 0 /\ CheckIfJSONArray(e, TRUE)
                    THEN PrintJSONSubArray(e, curdim, args)
                  ELSE PrintObjectArrayEntry(e, curdim + 1, args)) \o Comma(~last)]

PrintEntries(g, curdim, args) ==
  FoldLeft(LAMBDA w, e : IF e \in Groups(g) THEN PrintGroup(w, e, e = Last(Level(g)), curdim)
                         ELSE PrintEntry(w, e, e = Last(Level(g))),
           [args |-> args, text |-> <<>>], Level(g))

PrintIndex(g, curdim, w, i) ==
  LET n    == w.args.cells[curdim]
      args == IF n = NotSet THEN w.args
              ELSE [w.args EXCEPT !.cells[IndexCell + curdim - 1] = i]
      done == IF curdim < args.aimdim
                THEN [args |-> args, text |-> PrintObjectArrayEntry(g, curdim + 1, args)]
              ELSE PrintEntries(g, curdim, args)
  IN [args |-> done.args, text |-> w.text \o Object(done.text) \o Comma(i + 1 < n)]

PrintObjectArrayEntry(g, curdim, args) ==
  LET n    == args.cells[curdim]
      goal == IF n = NotSet THEN 1 ELSE n
  IN FoldLeft(LAMBDA w, i : PrintIndex(g, curdim, w, i),
              [args |-> args, text |-> <<>>], [i \in 1..goal |-> i - 1]).text

-----------------------------------------------------------------------------
(* rh4njsonPrintJSONObjectArray *)
PrintJSONObjectArray(g) == Array(PrintObjectArrayEntry(g, 1, NewArgs(g)))

IsObjectArray(g) ==
  \/ CountGroups(g) = 1 /\ CheckIfJSONArray(g, TRUE)
  \/ CountGroups(g) = 0 /\ CheckIfJSONArray(g, FALSE)

RECURSIVE PrintObject(_)
PrintObject(g) ==
  IF IsObjectArray(g) THEN PrintJSONObjectArray(g)
  ELSE Object(FlattenSeq([i \in 1..Len(Level(g)) |->
         LET e == Level(g)[i]
         IN <<Name(e)>> \o (IF e \in Groups(g) THEN PrintObject(e) ELSE PrintValue(e, <<>>))
              \o Comma(i < Len(Level(g)))]))

-----------------------------------------------------------------------------
Init ==
  /\ list \in Lists
  /\ old \in OldFiles
  /\ file = old
  /\ pc = "start"
  /\ ret = "OK"

(* What a file holds after a text was written from its beginning. *)
Written(before, text) == text \o SubSeq(before, Len(text) + 1, Len(before))

(* rh4njsonPrintJSONToFile: the file is opened neither O_CREAT nor O_TRUNC. *)
PrintJSONToFile ==
  /\ pc = "start"
  /\ IF old = NoFile
       THEN ret' = "INTERNAL_ERR" /\ UNCHANGED file
     ELSE /\ file' = Written(file, PrintObject(Root))
          /\ UNCHANGED ret
  /\ pc' = "returned"
  /\ UNCHANGED <<list, old>>

Terminated == pc = "returned" /\ UNCHANGED vars

Next == PrintJSONToFile \/ Terminated

Spec == Init /\ [][Next]_vars

-----------------------------------------------------------------------------
(***************************************************************************)
(* A reader of JSON, token by token.  stack is the objects and arrays that *)
(* are open, each with the name or the number of the member it is at; want *)
(* is what may come; values is what has come, with its place in the text.  *)
(***************************************************************************)
NewReader == [stack |-> <<>>, want |-> "value", values |-> <<>>]
Broken == [NewReader EXCEPT !.want = "nothing"]

MayBegin(r) == r.want \in {"value", "value or end"}

IsIn(r, kind) == r.stack # <<>> /\ Last(r.stack).kind = kind

Closed(r) == [r EXCEPT !.want = IF r.stack = <<>> THEN "end" ELSE "comma or end"]

Opened(r, kind, want) ==
  [r EXCEPT !.stack = Append(@, [kind |-> kind, at |-> 0]), !.want = want]

At(r, k) == [r EXCEPT !.stack[Len(r.stack)].at = k]

ReadToken(r, t) ==
  CASE t = Sign("{") /\ MayBegin(r) -> Opened(r, "object", "name or end")
    [] t = Sign("[") /\ MayBegin(r) -> Opened(r, "array", "value or end")
    [] t[1] = "name" /\ r.want \in {"name", "name or end"} ->
         [At(r, t[2]) EXCEPT !.want = "value"]
    [] t[1] \in {"value", "default", "other"} /\ MayBegin(r) ->
         Closed([r EXCEPT !.values =
                   Append(@, [of |-> t[2], index |-> t[3], is |-> t[1], place |-> r.stack])])
    [] t = Sign(",") /\ r.want = "comma or end" ->
         IF IsIn(r, "array") THEN [At(r, Last(r.stack).at + 1) EXCEPT !.want = "value"]
         ELSE [r EXCEPT !.want = "name"]
    [] t = Sign("}") /\ IsIn(r, "object") /\ r.want \in {"comma or end", "name or end"} ->
         Closed([r EXCEPT !.stack = Front(@)])
    [] t = Sign("]") /\ IsIn(r, "array") /\ r.want \in {"comma or end", "value or end"} ->
         Closed([r EXCEPT !.stack = Front(@)])
    [] OTHER -> Broken

(* One half of a text, and from there the other; nothing follows an error. *)
RECURSIVE ReadOn(_, _)
ReadOn(r, text) ==
  LET half == Len(text) \div 2
  IN IF r.want = "nothing" \/ text = <<>> THEN r
     ELSE IF half = 0 THEN ReadToken(r, text[1])
     ELSE ReadOn(ReadOn(r, SubSeq(text, 1, half)), SubSeq(text, half + 1, Len(text)))

Reader(text) == ReadOn(NewReader, text)

IsJSON(text) == Reader(text).want = "end"

-----------------------------------------------------------------------------
All == 1..Len(list.name)
AllGroups == {e \in All : list.type[e] = "GROUP"}

UpFrom(e) == {h \in {Root} \cup AllGroups : e \in Range(Level(h))}

(* The groups around e, from the outside. *)
RECURSIVE PathTo(_)
PathTo(e) ==
  IF e = Root THEN <<>>
  ELSE LET g == CHOOSE g \in UpFrom(e) : TRUE
       IN IF g = Root THEN <<>> ELSE Append(PathTo(g), g)

IsBelow(g, e) == e \in All /\ (g = Root \/ g \in Range(PathTo(e)))

ArraysBelow(g) == {e \in All : IsBelow(g, e) /\ list.type[e] = "ARRAY"}

(* The levels that are written as an array of objects by PrintObject. *)
ObjectArrays ==
  {g \in {Root} \cup AllGroups :
     IsObjectArray(g)
     /\ \A h \in {Root} \cup AllGroups : IsBelow(h, g) => ~IsObjectArray(h)}

(* The dimension of a level, by its occurrences: all arrays have it. *)
OccurTogether(g) ==
  \A e, f \in ArraysBelow(g) : list.len[e][1] = list.len[f][1]

(* Every array below has a second dimension, of one length. *)
IsGrid(g) ==
  /\ ArraysBelow(g) # {}
  /\ \A e \in ArraysBelow(g) : Len(list.len[e]) >= 2
  /\ \A e, f \in ArraysBelow(g) : list.len[e][2] = list.len[f][2]

(* A group of arrays of one dimension becomes an array of its own: it has   *)
(* at most two dimensions, the second of one length next to the level g.    *)
HasEvenRows(g) ==
  \A h \in AllGroups :
    IsBelow(g, h) /\ CountGroups(h) = 0 /\ CheckIfJSONArray(h, TRUE) =>
      \A e, f \in Arrays(h) : /\ Len(list.len[e]) <= 2
                              /\ h \in Groups(g) => list.len[e] = list.len[f]

(* There is no group in a group in a group of the level g. *)
Depth(g) == IF g = Root THEN 0 ELSE Len(PathTo(g)) + 1

IsShallow(g) ==
  ArraysBelow(g) = {}
  \/ \A e \in AllGroups : IsBelow(g, e) => Len(PathTo(e)) <= Depth(g) + 1

IsRegular(g) == OccurTogether(g) /\ HasEvenRows(g) /\ ~IsGrid(g) /\ IsShallow(g)

(* Every value of the list, by its entry and its index. *)
Indices(len) ==
  UNION {{p \in [1..k -> UNION {0..len[i] - 1 : i \in 1..k}] : \A i \in 1..k : p[i] < len[i]} :
           k \in {Len(len)}}

IsSet(e) == list.data[e].holds # "nothing"

AllValues ==
  UNION {{[of |-> e, index |-> p, is |-> IF IsSet(e) THEN "value" ELSE "default"] :
            p \in Indices(list.len[e])} : e \in All \ AllGroups}

IsWhole(text) ==
  LET values == Reader(text).values
  IN /\ IsJSON(text)
     /\ Len(values) = Cardinality(AllValues)
     /\ AllValues = {[of |-> v.of, index |-> v.index, is |-> v.is] : v \in Range(values)}

(* The data that has a text in the JSON of this generator. *)
IsPrintable(e) ==
  IsSet(e) => list.data[e].type # "USTRING" /\ list.data[e].holds = "plain"

(* No length is 0; RHGENJS sees 0 for an X-array without occurrences. *)
HasElements(e) == \A i \in 1..Len(list.len[e]) : list.len[e][i] > 0

(* The file held no longer text before. *)
IsWritten == pc = "returned" /\ old # NoFile /\ Len(old) <= Len(PrintObject(Root))

-----------------------------------------------------------------------------
(***************************************************************************)
(* Every value of a list is in the file exactly once, and the file is      *)
(* JSON, if the levels that are written as arrays of objects are regular   *)
(* and no value is of the data that rh4nvarPrintVar has no text for: this  *)
(* is what the caller of rh4njsonPrintJSONToFile can rely on.  Each value  *)
(* stands under the names of the groups around it, in the object of its    *)
(* own index: values of one occurrence of a group stay together, and a     *)
(* group that only has arrays adds at most one array with one member.      *)
(***************************************************************************)
RegularIsWhole ==
  IsWritten /\ (\A g \in ObjectArrays : IsRegular(g))
            /\ (\A e \in All \ AllGroups : IsPrintable(e)) =>
    /\ IsWhole(file)
    /\ \A v \in Range(Reader(file).values) :
         LET at(kind) == SelectSeq(v.place, LAMBDA f : f.kind = kind)
             names  == [i \in 1..Len(at("object")) |-> at("object")[i].at]
             places == [i \in 1..Len(at("array")) |-> at("array")[i].at]
         IN /\ names = Append(PathTo(v.of), v.of)
            /\ \/ places = v.index
               \/ places = <<v.index[1], 0>> \o Tail(v.index)

(* The condition is exact for lists without empty groups and without a      *)
(* length of 0: no other list is written as a whole, so nothing makes up    *)
(* for what the generator cannot know of Natural's groups, nor for what it  *)
(* has no text for.                                                         *)
OthersAreNot ==
  IsWritten /\ IsWhole(file) /\ (\A e \in AllGroups : Level(e) # <<>>)
            /\ (\A e \in All : HasElements(e)) =>
    /\ \A g \in ObjectArrays : IsRegular(g)
    /\ \A e \in All \ AllGroups : IsPrintable(e)
=============================================================================
