------------------------------ MODULE PropsFile -----------------------------
(***************************************************************************)
(* The properties file: the connector writes the request it has received   *)
(* (rh4nUtilsDumpProperties), natcaller reads it (rh4nUtilsLoadProperties).*)
(*                                                                         *)
(* Nothing in the file says where a field begins, so the two functions     *)
(* must go through the fields in the same order and take the same octets   *)
(* for each.  The file is not truncated before it is written, and no write *)
(* is checked.  A length or a flag is one octet here.  An entry of a list  *)
(* is the length of its name, its name and its value; only the length is   *)
(* a word, so that nothing else of a list is taken for one.  VarStore says *)
(* what a value is and how entries are linked.                             *)
(***************************************************************************)
EXTENDS Integers, Sequences, SequencesExt

CONSTANTS
  Requests,   \* the requests that may be dumped: the octets of every field
  Earlier,    \* the requests that may have been dumped there before
  NoRequest,  \* in Earlier: there was no file
  Sizes,      \* the octets of every fixed field
  Quotas      \* the octets the file may grow to

(* The fields in the order of the dump, and then in the order of the load. *)
(* A fixed field is written as it is, a text as its length and its         *)
(* characters, a list as a flag and its entries with an end marker.  The   *)
(* user name is a text that is read into an array.                         *)
DumpLayout ==
  << <<"natlibrary", "fixed">>, <<"natprogram", "fixed">>, <<"natparms", "text">>,
     <<"c_loglevel", "fixed">>, <<"i_loglevel", "fixed">>, <<"httpreqtype", "fixed">>,
     <<"urlvars", "list">>, <<"bodyvars", "list">>, <<"natsrcpath", "text">>,
     <<"outputfile", "text">>, <<"logpath", "text">>,
     <<"errorrepresentation", "fixed">>, <<"username", "array">> >>

LoadLayout ==
  << <<"natlibrary", "fixed">>, <<"natprogram", "fixed">>, <<"natparms", "text">>,
     <<"c_loglevel", "fixed">>, <<"i_loglevel", "fixed">>, <<"httpreqtype", "fixed">>,
     <<"urlvars", "list">>, <<"bodyvars", "list">>, <<"natsrcpath", "text">>,
     <<"outputfile", "text">>, <<"logpath", "text">>,
     <<"errorrepresentation", "fixed">>, <<"username", "array">> >>

Fields == {DumpLayout[k][1] : k \in 1..Len(DumpLayout)}
OfKind(kind) == {DumpLayout[k][1] : k \in {j \in 1..Len(DumpLayout) : DumpLayout[j][2] = kind}}
Texts == OfKind("text")

(* What stands behind the last entry of a list, in place of the length of  *)
(* its name that an entry begins with.                                     *)
EndOfList == [word |-> -2]

(* The length of an empty name.  The loader takes it for an end, too. *)
Unnamed == [word |-> 0]

ASSUME RequestsAssumption ==
  \A r \in Requests \cup (Earlier \ {NoRequest}) :
    /\ r = [f \in Fields |-> r[f]]
    /\ \A f \in Fields : r[f] \in Seq(Range(r[f]))
    /\ \A f \in OfKind("fixed") : Len(r[f]) = Sizes[f]
    /\ \A f \in OfKind("list") : EndOfList \notin Range(r[f])
ASSUME SizesAssumption == \A f \in OfKind("fixed") : Sizes[f] \in Nat \ {0}
ASSUME QuotasAssumption == Quotas \subseteq Nat

VARIABLES
  request,   \* the request in the connector
  file,      \* the octets of the properties file
  quota,     \* how far it may grow
  pos,       \* the offset of the process that uses it
  field,     \* the field that comes next
  phase,     \* "dump", "load", "astray", "loaded" or "killed"
  props,     \* the fields in natcaller
  tails,     \* the texts with something behind their last character
  loadRet    \* what rh4nUtilsLoadProperties returned

fileVars == <<request, file, quota, pos, field, phase, props, tails, loadRet>>

Word(n) == <<[word |-> n]>>

(* The octets of a field in the file. *)
Encode(kind, s) ==
  CASE kind = "fixed" -> s
    [] kind = "list"  -> IF s = <<>> THEN Word(0) ELSE Word(1) \o s \o <<EndOfList>>
    [] OTHER -> Word(Len(s)) \o s

Dumped(r) == FlattenSeq([k \in 1..Len(DumpLayout) |->
                           Encode(DumpLayout[k][2], r[DumpLayout[k][1]])])

(* write() at the offset; what does not fit any more is not written. *)
Write(s) ==
  LET limit == IF Len(file) > quota THEN Len(file) ELSE quota
      room  == limit + 1 - pos
      n     == IF Len(s) <= room THEN Len(s) ELSE room
  IN /\ file' = SubSeq(file, 1, pos - 1) \o SubSeq(s, 1, n)
                  \o SubSeq(file, pos + n, Len(file))
     /\ pos' = pos + n

(* All octets are 0: texts are NULL, arrays empty, lists without anker. *)
Cleared == [f \in Fields |-> <<>>]

Init ==
  /\ request \in Requests
  /\ file \in {IF r = NoRequest THEN <<>> ELSE Dumped(r) : r \in Earlier}
  /\ quota \in Quotas
  /\ pos = 1 /\ field = 1 /\ phase = "dump"
  /\ props = Cleared /\ tails = {} /\ loadRet = "none"

(* One field is written. *)
DumpField ==
  /\ phase = "dump" /\ field <= Len(DumpLayout)
  /\ Write(Encode(DumpLayout[field][2], request[DumpLayout[field][1]]))
  /\ field' = field + 1
  /\ UNCHANGED <<request, quota, phase, props, tails, loadRet>>

(* The connector closes the file, natcaller opens it. *)
DumpEnd ==
  /\ phase = "dump" /\ field > Len(DumpLayout)
  /\ pos' = 1 /\ field' = 1 /\ phase' = "load"
  /\ props' = Cleared
  /\ UNCHANGED <<request, file, quota, tails, loadRet>>

(* The file cannot be opened. *)
LoadCannotOpen ==
  /\ phase = "load" /\ field = 1
  /\ phase' = "loaded" /\ loadRet' = "FILE_ERR"
  /\ UNCHANGED <<request, file, quota, pos, field, props, tails>>

Loading(kind) ==
  /\ phase = "load" /\ field <= Len(LoadLayout)
  /\ LoadLayout[field][2] = kind
  /\ UNCHANGED <<request, file, quota>>

Left == Len(file) + 1 - pos

(* read() of n octets at an offset: as many as there are. *)
Read(from, n) ==
  SubSeq(file, from, IF from + n - 1 <= Len(file) THEN from + n - 1 ELSE Len(file))

(* RH4N_UTILS_READ of n octets into field f: too few of them end the load. *)
ReadInto(f, from, n) ==
  LET got == Read(from, n)
  IN /\ props' = [props EXCEPT ![f] = got]
     /\ pos' = from + Len(got)
     /\ IF Len(got) = n
          THEN field' = field + 1 /\ UNCHANGED <<phase, loadRet>>
          ELSE phase' = "loaded" /\ loadRet' = "FILE_ERR" /\ UNCHANGED field

(* The length at the offset. *)
TextLength == IF file[pos].word > 0 THEN file[pos].word ELSE 0

ReadNothing ==
  phase' = "loaded" /\ loadRet' = "FILE_ERR" /\ UNCHANGED <<props, pos, field, tails>>

LoadFixed ==
  /\ Loading("fixed")
  /\ ReadInto(LoadLayout[field][1], pos, Sizes[LoadLayout[field][1]])
  /\ UNCHANGED tails

(***************************************************************************)
(* A text gets as much memory as it has characters, and no end: whether    *)
(* what follows it in memory is 0 depends on the heap.  A text that is cut *)
(* short ends with the zeros the memory was filled with.                   *)
(***************************************************************************)
LoadText ==
  /\ Loading("text")
  /\ IF Left = 0 THEN ReadNothing
     ELSE /\ ReadInto(LoadLayout[field][1], pos + 1, TextLength)
          /\ \/ UNCHANGED tails
             \/ /\ TextLength \in 1..Left - 1
                /\ tails' = tails \cup {LoadLayout[field][1]}

LoadArray ==
  /\ Loading("array")
  /\ IF Left = 0 THEN ReadNothing
     ELSE ReadInto(LoadLayout[field][1], pos + 1, TextLength) /\ UNCHANGED tails

(* Mutant: a list goes on to the end of the file. *)
EndOfListAtEOF(from) == Len(file) + 1

(* Where the entries end that are read from the offset on. *)
ListEnd(from) ==
  LET Ends(e) == e = Len(file) + 1 \/ file[e] \in {EndOfList, Unnamed}
  IN CHOOSE e \in from..Len(file) + 1 : Ends(e) /\ \A k \in from..e - 1 : ~Ends(k)

(* Mutant: the end marker is left for the next field. *)
LoadListLeavesEnd ==
  /\ Loading("list")
  /\ IF Left = 0 THEN ReadNothing
     ELSE /\ IF file[pos].word = 0
               THEN pos' = pos + 1 /\ UNCHANGED <<props, phase>>
               ELSE LET e == ListEnd(pos + 1)
                    IN /\ props' = [props EXCEPT ![LoadLayout[field][1]] = SubSeq(file, pos + 1, e - 1)]
                       /\ pos' = e
                       /\ phase' = IF e <= Len(file) /\ file[e] = Unnamed THEN "astray" ELSE "load"
          /\ field' = field + 1
          /\ UNCHANGED <<tails, loadRet>>

(***************************************************************************)
(* The entries of a list.  The return value of the load of a list is not   *)
(* looked at.  An entry without a name leaves the offset in the middle of  *)
(* the entry: the load goes astray.                                        *)
(***************************************************************************)
LoadList ==
  /\ Loading("list")
  /\ IF Left = 0 THEN ReadNothing
     ELSE /\ IF file[pos].word = 0
               THEN pos' = pos + 1 /\ UNCHANGED <<props, phase>>
               ELSE LET e == ListEnd(pos + 1)
                    IN /\ props' = [props EXCEPT ![LoadLayout[field][1]] = SubSeq(file, pos + 1, e - 1)]
                       /\ pos' = IF e <= Len(file) THEN e + 1 ELSE e
                       /\ phase' = IF e <= Len(file) /\ file[e] = Unnamed THEN "astray" ELSE "load"
          /\ field' = field + 1
          /\ UNCHANGED <<tails, loadRet>>

(***************************************************************************)
(* A load that has gone astray reads the fields that are left from octets  *)
(* of other things, and nothing is said of what it finds.  It may even     *)
(* find the right name of the output file.  And it may take something for  *)
(* a length that no memory is given for, or that the user name has no room *)
(* for: then the process may end.                                          *)
(***************************************************************************)
Astray == <<[astray |-> TRUE]>>

LoadAstray ==
  /\ phase = "astray"
  /\ \/ /\ phase' = "loaded" /\ loadRet' \in {"OK", "FILE_ERR"}
        /\ \E path \in {Astray, request["outputfile"]} :
             props' = [f \in Fields |->
                         IF \A k \in field..Len(LoadLayout) : LoadLayout[k][1] # f THEN props[f]
                         ELSE IF f = "outputfile" THEN path ELSE Astray]
     \/ phase' = "killed" /\ UNCHANGED <<props, loadRet>>
  /\ UNCHANGED <<request, file, quota, pos, field, tails>>

LoadEnd ==
  /\ phase = "load" /\ field > Len(LoadLayout)
  /\ phase' = "loaded" /\ loadRet' = "OK"
  /\ UNCHANGED <<request, file, quota, pos, field, props, tails>>

FileNext == \/ DumpField \/ DumpEnd \/ LoadCannotOpen
            \/ LoadFixed \/ LoadText \/ LoadArray \/ LoadList \/ LoadAstray \/ LoadEnd

-----------------------------------------------------------------------------
(* A list that the loader does not read to its end. *)
StopsEarly(k) ==
  DumpLayout[k][2] = "list" /\ Unnamed \in Range(request[DumpLayout[k][1]])

(* The fields the loader comes to before it goes astray. *)
InStep == {k \in 1..Len(DumpLayout) : \A j \in 1..Len(DumpLayout) : j < k => ~StopsEarly(j)}

FirstUnnamed(s) == CHOOSE i \in 1..Len(s) : s[i] = Unnamed /\ \A j \in 1..i - 1 : s[j] # Unnamed

(* What there is of a field for the loader: a list up to an entry without a name. *)
Taken(k) ==
  LET s == request[DumpLayout[k][1]]
  IN IF StopsEarly(k) THEN SubSeq(s, 1, FirstUnnamed(s) - 1) ELSE s

(***************************************************************************)
(* What was loaded is the beginning of what was dumped, as long as the     *)
(* load is in step: every field is the beginning of its field in the       *)
(* request, and nothing was found for a field behind one that is not       *)
(* whole.  So no octet of an earlier request becomes part of this one.     *)
(* Only behind a list that has an entry without a name anything may have   *)
(* been loaded (rh4n_vars_load.c:44).                                      *)
(***************************************************************************)
LoadsABeginning ==
  phase # "dump" =>
    /\ \A k \in InStep : IsPrefix(props[DumpLayout[k][1]], request[DumpLayout[k][1]])
    /\ \A j, k \in InStep :
         j < k /\ props[DumpLayout[k][1]] # <<>>
           => props[DumpLayout[j][1]] = request[DumpLayout[j][1]]

(* The dump was written to its end. *)
IsDumped == phase # "dump" /\ IsPrefix(Dumped(request), file)

(***************************************************************************)
(* The load's return value tells how it went, as long as it is in step.  A *)
(* load that returns OK has found every field as it was dumped, but for a  *)
(* list that it leaves at an entry without a name, and all entries before  *)
(* that, whatever an earlier dump left in the file and whether or not the  *)
(* file could be written to its end: only what follows a text in memory is *)
(* open.  And a file that was written to its end and can be opened is      *)
(* loaded to its end, if every entry has a name: the load does not ask for *)
(* more octets than the dump wrote.                                        *)
(***************************************************************************)
LoadTellsTruth ==
  /\ loadRet = "OK" => \A k \in InStep : props[DumpLayout[k][1]] = Taken(k)
  /\ loadRet = "FILE_ERR" /\ IsDumped /\ (\A k \in 1..Len(DumpLayout) : ~StopsEarly(k)) => field = 1
=============================================================================
