------------------------------ MODULE VarStore ------------------------------
(***************************************************************************)
(* Writing a variable list to a file and reading it back: the connector    *)
(* dumps the list (rh4n_vars_dump.c), a new process loads it               *)
(* (rh4n_vars_load.c).                                                     *)
(*                                                                         *)
(* The file is a sequence of records, one per entry, and the end marker.   *)
(* It is opened without O_TRUNC, so the records of an earlier, longer dump *)
(* stay behind the new ones.  No write is checked, so on a full file       *)
(* system the new records stop somewhere and nobody is told.               *)
(***************************************************************************)
EXTENDS VarTreeBuild

CONSTANTS Forests,    \* the lists that may be dumped
          OldFiles,   \* what the file may hold before
          Quotas      \* the numbers of records the file may grow to

VARIABLES
  forest,   \* the list in the connector
  file,     \* the records of the file
  pos,      \* the file offset, in records, of the process that uses it
  quota,    \* how far the file may grow
  pc        \* "dump", "load" or "done"

storeVars == <<forest, file, pos, quota, pc>>
vars == <<anker, next, nextlvl, prev, type, name, newNode, lastNode,
          flags, prevFlags, put, hptr, forest, file, pos, quota, pc>>

EndOfList == [kind |-> "end"]
NodeRecord(nm, tp, fl) == [kind |-> "node", name |-> nm, type |-> tp, flags |-> fl]
NodeRecords == [kind : {"node"}, name : Names, type : VarTypes, flags : Flags]
Records == NodeRecords \cup {EndOfList}

ASSUME ForestsAssumption == \A f \in Forests : IsForest(f)
ASSUME OldFilesAssumption == OldFiles \subseteq Seq(Records)
ASSUME QuotasAssumption == Quotas \subseteq Nat

-----------------------------------------------------------------------------
(* Mutant: next is written as nextlvl, and nextlvl as next. *)
FlagsSwapped(f, i) == [next |-> HasChild(f, i), nextlvl |-> HasNext(f, i)]

FlagsOf(f, i) == [next |-> HasNext(f, i), nextlvl |-> HasChild(f, i)]

(* What rh4nvarsWriteNodeToFile writes for entry i of f. *)
RecordOf(f, i) == NodeRecord(f.name[i], f.type[i], FlagsOf(f, i))

(* write() at the current offset; a write that fails leaves no trace. *)
Write(r) ==
  file' = IF pos <= Len(file) THEN [file EXCEPT ![pos] = r]
          ELSE IF Len(file) < quota THEN Append(file, r)
          ELSE file

Init ==
  /\ forest \in Forests
  /\ file \in OldFiles
  /\ quota \in Quotas
  /\ pos = 1
  /\ pc = "dump"
  /\ BuildInit(forest.size)

DumpNode ==
  /\ pc = "dump"
  /\ pos <= forest.size
  /\ Write(RecordOf(forest, pos))
  /\ pos' = pos + 1
  /\ UNCHANGED <<buildVars, forest, pc, quota>>

(* Mutant: no end marker, the end of the file is to do. *)
DumpEndNoMarker ==
  /\ pc = "dump"
  /\ pos = forest.size + 1
  /\ pos' = 1
  /\ pc' = "load"
  /\ UNCHANGED <<buildVars, forest, file, quota>>

(* The end marker, and close(). The loader opens the file at its start. *)
DumpEnd ==
  /\ pc = "dump"
  /\ pos = forest.size + 1
  /\ Write(EndOfList)
  /\ pos' = 1
  /\ pc' = "load"
  /\ UNCHANGED <<buildVars, forest, quota>>

AtEndOfFile == pos > Len(file)
AtEndOfList == ~AtEndOfFile /\ file[pos] = EndOfList
AtUnnamed   == ~AtEndOfFile /\ ~AtEndOfList /\ file[pos].name = EmptyName

(* One round of the loop of rh4nvarsLoadNode up to PutInNewNode. *)
LoadNode ==
  /\ pc = "load"
  /\ ~AtEndOfFile /\ ~AtEndOfList /\ ~AtUnnamed
  /\ NewEntry(file[pos].name, file[pos].type, file[pos].flags)
  /\ pos' = pos + 1
  /\ UNCHANGED <<forest, file, pc, quota>>

LoadPut ==
  /\ pc = "load"
  /\ PutInNewNode
  /\ UNCHANGED storeVars

(* Mutant: only the end marker ends the loading. *)
LoadEndAtMarker ==
  /\ pc = "load"
  /\ put = "idle"
  /\ AtEndOfList
  /\ pc' = "done"
  /\ UNCHANGED <<buildVars, forest, file, pos, quota>>

(* End of file, end of list and a name of length 0 all end the loading. *)
LoadEnd ==
  /\ pc = "load"
  /\ put = "idle"
  /\ AtEndOfFile \/ AtEndOfList \/ AtUnnamed
  /\ pc' = "done"
  /\ UNCHANGED <<buildVars, forest, file, pos, quota>>

Next == DumpNode \/ DumpEnd \/ LoadNode \/ LoadPut \/ LoadEnd

(* Two sequential programs, one after the other: they do not stop halfway. *)
Spec == Init /\ [][Next]_vars
FairSpec == Spec /\ WF_vars(Next)

-----------------------------------------------------------------------------
Links == [1..forest.size -> 0..forest.size]

(* The types of the variables. *)
TypeOK ==
  /\ IsForest(forest)
  /\ file \in Seq(Records)
  /\ pos \in Nat \ {0}
  /\ quota \in Quotas
  /\ pc \in {"dump", "load", "done"}
  /\ anker \in 0..forest.size
  /\ next \in Links /\ nextlvl \in Links /\ prev \in Links
  /\ type \in Seq(VarTypes) /\ name \in Seq(Names)
  /\ newNode \in 0..forest.size /\ lastNode \in 0..forest.size
  /\ flags \in Flags /\ prevFlags \in Flags
  /\ put \in {"idle", "put", "climb"}
  /\ hptr \in 0..forest.size

(* Nothing kept the dump from being written. *)
DumpComplete == forest.size + 1 <= Len(file)

AllNamed(f) == \A i \in 1..f.size : f.name[i] # EmptyName

(***************************************************************************)
(* A list of named entries whose dump was written completely, and in which *)
(* only groups have entries below them, goes through the file unchanged,   *)
(* whatever the file held before, exactly when its levels end one at a     *)
(* time and never with an empty group: the flags of an entry do not say    *)
(* how many levels end with it, so every other list comes back changed.    *)
(***************************************************************************)
RoundTrip ==
  pc = "done" /\ DumpComplete /\ AllNamed(forest) /\ OnlyGroupsHaveChildren(forest)
    => (SameList(forest) <=> EndsOneLevelAtATime(forest))

(***************************************************************************)
(* The loader never looks at a record that this dump did not write, though *)
(* the file is not truncated and longer old contents follow the new ones.  *)
(***************************************************************************)
ReadsOnlyNewRecords ==
  pc # "dump" => /\ pos <= forest.size + 1
                 /\ \A i \in 1..newNode : file[i] = RecordOf(forest, i)

=============================================================================
