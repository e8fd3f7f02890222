--------------------------- MODULE VarStoreProofs ---------------------------
(***************************************************************************)
(* Which lists go through the file unchanged, for every list, every old    *)
(* content of the file and every quota (theorem RoundTripCorrect).         *)
(***************************************************************************)
EXTENDS VarStore, TLAPS

-----------------------------------------------------------------------------
(***************************************************************************)
(* Facts about lists, from the depths of their entries alone.              *)
(***************************************************************************)

(* Entries have a depth, at most one more than the entry before them. *)
LEMMA Depths ==
  ASSUME NEW f, IsForest(f)
  PROVE  /\ f.size \in Nat
         /\ \A i \in 1..f.size : f.depth[i] \in Nat \ {0}
         /\ \A i \in 1..f.size : i + 1 <= f.size => f.depth[i + 1] <= f.depth[i] + 1
<1>1. f.size \in Nat /\ f.depth \in [1..f.size -> Nat \ {0}]
  BY DEF IsForest
<1>2. \A i \in 1..f.size : f.depth[i] \in Nat \ {0}
  BY <1>1
<1>3. QED
  BY <1>1, <1>2 DEF IsForest

(* An entry has at most one successor. *)
LEMMA NextUnique ==
  ASSUME NEW f, IsForest(f), NEW i \in 1..f.size, NEW j \in 1..f.size,
         NEW k \in 1..f.size, IsNext(f, i, j), IsNext(f, i, k)
  PROVE  j = k
<1>1. i \in Int /\ j \in Int /\ k \in Int /\ f.depth[i] \in Nat
  BY Depths
<1>2. f.depth[i] = f.depth[j] /\ f.depth[i] = f.depth[k] /\ i < j /\ i < k
  BY DEF IsNext
<1>3. j < k => f.depth[i] < f.depth[j]
  BY <1>2 DEF IsNext
<1>4. k < j => f.depth[i] < f.depth[k]
  BY <1>2 DEF IsNext
<1>5. QED
  BY <1>1, <1>2, <1>3, <1>4

(* An entry is the successor of at most one entry. *)
LEMMA PrevUnique ==
  ASSUME NEW f, IsForest(f), NEW i \in 1..f.size, NEW j \in 1..f.size,
         NEW k \in 1..f.size, IsNext(f, i, k), IsNext(f, j, k)
  PROVE  i = j
<1>1. i \in Int /\ j \in Int /\ k \in Int /\ f.depth[k] \in Nat
  BY Depths
<1>2. ~(i < j) /\ ~(j < i)
  BY <1>1 DEF IsNext
<1>3. QED
  BY <1>1, <1>2

(* The next link of an entry is its successor, or 0 when it has none. *)
LEMMA NextOfIsNext ==
  ASSUME NEW f, IsForest(f), NEW i \in 1..f.size
  PROVE  /\ HasNext(f, i) => /\ NextOf(f, i) \in 1..f.size
                             /\ IsNext(f, i, NextOf(f, i))
         /\ ~HasNext(f, i) => NextOf(f, i) = 0
BY DEF HasNext, NextOf

(* With an entry directly below i, nobody has that entry as successor. *)
LEMMA ChildHasNoPrev ==
  ASSUME NEW f, IsForest(f), NEW i \in 1..f.size, HasChild(f, i),
         NEW j \in 1..f.size
  PROVE  ~IsNext(f, j, i + 1)
<1> SUFFICES ASSUME IsNext(f, j, i + 1) PROVE FALSE
  OBVIOUS
<1>1. i + 1 \in 1..f.size /\ f.depth[i + 1] = f.depth[i] + 1
  BY Depths DEF HasChild
<1>2. /\ f.depth[i] \in Nat /\ i \in Int /\ j \in Int
      /\ j < i + 1 /\ f.depth[j] = f.depth[i + 1]
      /\ j < i /\ i < i + 1 => f.depth[j] < f.depth[i]
  BY Depths DEF IsNext
<1>3. QED
  BY <1>1, <1>2

(* A successor but nothing below: the successor is the entry read next. *)
LEMMA NextWithoutChild ==
  ASSUME NEW f, IsForest(f), NEW i \in 1..f.size, HasNext(f, i), ~HasChild(f, i)
  PROVE  i + 1 \in 1..f.size /\ IsNext(f, i, i + 1)
<1>1. PICK j \in 1..f.size : IsNext(f, i, j)
  BY DEF HasNext
<1>2. f.size \in Nat /\ i < j /\ i + 1 \in 1..f.size
  BY <1>1 DEF IsNext, IsForest
<1>3. f.depth[i] \in Nat /\ f.depth[i + 1] \in Nat
  BY <1>2, Depths
<1>4. f.depth[i + 1] <= f.depth[i]
  <2>1. /\ i + 1 <= f.size /\ f.depth[i + 1] # f.depth[i] + 1
        /\ f.depth[i + 1] <= f.depth[i] + 1
    BY <1>2, Depths DEF HasChild
  <2>2. QED
    BY <1>3, <2>1
<1>5. ~(i + 1 < j)
  BY <1>1, <1>2, <1>4, <1>3 DEF IsNext
<1>6. j = i + 1
  BY <1>2, <1>5
<1>7. QED
  BY <1>1, <1>6

(* Neither link, and yet not the last entry: a level ends here. *)
LEMMA NoFlagsEndsLevel ==
  ASSUME NEW f, IsForest(f), NEW i \in 1..f.size, i + 1 <= f.size,
         ~HasNext(f, i), ~HasChild(f, i)
  PROVE  EndsLevel(f, i)
<1>1. i + 1 \in 1..f.size /\ f.depth[i + 1] <= f.depth[i]
  BY DEF HasChild, IsForest
<1>2. f.depth[i + 1] # f.depth[i]
  BY <1>1 DEF HasNext, IsNext, IsForest
<1>3. QED
  BY <1>1, <1>2 DEF EndsLevel, IsForest

-----------------------------------------------------------------------------
(***************************************************************************)
(* The inductive invariant.                                                *)
(***************************************************************************)

(* Record i of the dump of f. *)
Item(f, i) == IF i = f.size + 1 THEN EndOfList ELSE RecordOf(f, i)

(* Everything the dump has written so far stands in the file. *)
FileInv ==
  /\ file \in Seq(Records)
  /\ pos \in 1..forest.size + 1
  /\ \A i \in 1..Len(file) :
        i <= forest.size + 1 /\ (pc = "dump" => i < pos) => file[i] = Item(forest, i)
  /\ pc = "dump" => pos <= Len(file) + 1 \/ quota <= Len(file)

(* The loader has read the entries 1..newNode and placed 1..lastNode. *)
ReadInv ==
  /\ newNode \in 0..forest.size
  /\ name \in Seq(Names) /\ Len(name) = newNode
  /\ type \in Seq(VarTypes) /\ Len(type) = newNode
  /\ \A i \in 1..newNode : /\ name[i] = forest.name[i]
                            /\ type[i] = forest.type[i]
                            /\ i <= Len(file)
  /\ flags \in Flags /\ prevFlags \in Flags
  /\ newNode > 0 => flags = FlagsOf(forest, newNode)
  /\ put \in {"idle", "put", "climb"}
  /\ put = "idle" => lastNode = newNode
  /\ put # "idle" => /\ newNode = lastNode + 1 /\ lastNode \in Nat
                     /\ lastNode > 0 => prevFlags = FlagsOf(forest, lastNode)
  /\ put = "climb" => lastNode > 0 /\ prevFlags = NoFlags
  /\ hptr \in 0..lastNode

PhaseInv ==
  /\ pc \in {"dump", "load", "done"}
  /\ pc = "dump" => newNode = 0 /\ put = "idle"
  /\ pc # "dump" => pos = newNode + 1
  /\ pc = "done" => put = "idle" /\ (AtEndOfFile \/ AtEndOfList \/ AtUnnamed)

(* The links are links, and of the entries from the last one on none leads on. *)
LinkTypes ==
  /\ next \in Links /\ nextlvl \in Links /\ prev \in Links
  /\ anker = IF lastNode = 0 THEN 0 ELSE 1
  /\ \A i \in 1..forest.size :
        /\ prev[i] <= lastNode
        /\ i >= lastNode => next[i] = 0 /\ nextlvl[i] = 0

(* The placed entries are linked as in the list that was dumped. *)
LinksFaithful ==
  /\ \A i \in 1..lastNode :
        nextlvl[i] = IF HasChild(forest, i) /\ i < lastNode THEN i + 1 ELSE 0
  /\ \A i \in 1..lastNode :
        next[i] # 0 => next[i] \in 1..lastNode /\ IsNext(forest, i, next[i])
  /\ \A i, j \in 1..lastNode : IsNext(forest, i, j) => next[i] = j

(* prev leads back along both links. *)
PrevFaithful ==
  \A i \in 2..lastNode :
     /\ prev[i] \in 1..lastNode
     /\ \/ next[prev[i]] = i
        \/ prev[i] = i - 1 /\ HasChild(forest, i - 1)

(***************************************************************************)
(* On the way back the loop variable stands on the level that ends, on an  *)
(* entry that has a successor already (or on the last entry), or on the    *)
(* entry above that level.                                                 *)
(***************************************************************************)
WayBack ==
  put = "climb" =>
     /\ hptr \in 1..lastNode
     /\ \A m \in 1..lastNode : hptr < m => forest.depth[lastNode] <= forest.depth[m]
     /\ \/ /\ forest.depth[hptr] = forest.depth[lastNode]
           /\ hptr # lastNode => next[hptr] # 0
        \/ forest.depth[hptr] + 1 = forest.depth[lastNode]
     /\ forest.type[lastNode] = "GROUP" => hptr = lastNode

LinkInv == LinksFaithful /\ PrevFaithful /\ WayBack

(* The level that ends with entry i ends as the loader takes it. *)
EndsWell(f, i) == f.depth[i + 1] + 1 = f.depth[i] /\ f.type[i] # "GROUP"

(* So does every level that ends before entry n. *)
EndWellTo(f, n) == \A i \in 1..f.size : i < n /\ EndsLevel(f, i) => EndsWell(f, i)

(* An entry has a successor that is not its own, and keeps it. *)
Misled == \E i \in 1..lastNode : next[i] # 0 /\ next[i] # NextOf(forest, i)

BaseInv == /\ forest \in Forests
           /\ IsForest(forest)
           /\ quota \in Quotas
           /\ FileInv
           /\ PhaseInv
           /\ ReadInv
           /\ LinkTypes

(***************************************************************************)
(* The list is rebuilt faithfully up to the first level that ends in       *)
(* another way; the entry placed there is placed where it does not belong. *)
(***************************************************************************)
FaithfulOrMisled ==
  /\ EndWellTo(forest, lastNode) => LinkInv
  /\ ~EndWellTo(forest, lastNode) => Misled

IInv == BaseInv /\ (OnlyGroupsHaveChildren(forest) => FaithfulOrMisled)

-----------------------------------------------------------------------------
LEMMA RecordIsNode ==
  ASSUME NEW f, IsForest(f), NEW i \in 1..f.size
  PROVE  /\ Item(f, i) = RecordOf(f, i)
         /\ RecordOf(f, i) \in NodeRecords
         /\ RecordOf(f, i) # EndOfList
         /\ FlagsOf(f, i) \in Flags
         /\ RecordOf(f, i).name = f.name[i]
         /\ RecordOf(f, i).type = f.type[i]
         /\ RecordOf(f, i).flags = FlagsOf(f, i)
<1>1. i # f.size + 1 /\ f.name[i] \in Names /\ f.type[i] \in VarTypes
  BY DEF IsForest
<1>2. FlagsOf(f, i) \in Flags
  BY DEF FlagsOf, Flags, HasNext, HasChild
<1>3. QED
  BY <1>1, <1>2 DEF Item, RecordOf, NodeRecord, NodeRecords, EndOfList

(* Each of the two programs starts from nothing. *)
LEMMA InitIInv == Init => IInv
<1> SUFFICES ASSUME Init PROVE IInv
  OBVIOUS
<1> USE DEF Init, BuildInit
<1>1. IsForest(forest) /\ forest.size \in Nat
  BY ForestsAssumption DEF IsForest
<1>2. FileInv
  BY <1>1, OldFilesAssumption DEF FileInv
<1>3. PhaseInv
  BY DEF PhaseInv
<1>4. ReadInv
  BY <1>1 DEF ReadInv, NoFlags, Flags
<1>5. LinkTypes
  BY <1>1 DEF LinkTypes, Links
<1>6. LinkInv /\ EndWellTo(forest, lastNode)
  BY <1>1 DEF LinkInv, LinksFaithful, PrevFaithful, WayBack, EndWellTo
<1>7. QED
  BY <1>1, <1>2, <1>3, <1>4, <1>5, <1>6 DEF IInv, BaseInv, FaithfulOrMisled

(* Writing one record keeps the file as the dump wants it. *)
LEMMA WriteFile ==
  ASSUME BaseInv, pc = "dump", Write(Item(forest, pos))
  PROVE  /\ file' \in Seq(Records)
         /\ \A i \in 1..Len(file') : i < pos + 1 => file'[i] = Item(forest, i)
         /\ pos + 1 <= Len(file') + 1 \/ quota <= Len(file')
<1> USE DEF BaseInv, FileInv
<1> DEFINE r == Item(forest, pos)
<1>1. r \in Records
  <2>1. CASE pos = forest.size + 1
    BY <2>1 DEF Item, Records
  <2>2. CASE pos # forest.size + 1
    <3>1. IsForest(forest) /\ forest.size \in Nat
      BY DEF IsForest
    <3>2. pos \in 1..forest.size
      BY <2>2, <3>1
    <3>3. QED
      BY <3>1, <3>2, RecordIsNode DEF Records
  <2>3. QED
    BY <2>1, <2>2
<1>2. forest.size \in Nat /\ quota \in Nat /\ Len(file) \in Nat
  BY QuotasAssumption DEF IsForest
<1>3. CASE pos <= Len(file)
  <2>1. file' = [file EXCEPT ![pos] = r] /\ pos \in 1..Len(file)
    BY <1>2, <1>3 DEF Write
  <2>2. file' \in Seq(Records) /\ Len(file') = Len(file)
    BY <1>1, <2>1
  <2>3. ASSUME NEW i \in 1..Len(file'), i < pos + 1
        PROVE  file'[i] = Item(forest, i)
    BY <1>2, <2>1, <2>2, <2>3
  <2>4. QED
    BY <1>2, <1>3, <2>2, <2>3
<1>4. CASE ~(pos <= Len(file)) /\ Len(file) < quota
  <2>1. file' = Append(file, r) /\ pos = Len(file) + 1
    BY <1>2, <1>4 DEF Write
  <2>2. file' \in Seq(Records) /\ Len(file') = Len(file) + 1
    BY <1>1, <2>1
  <2>3. ASSUME NEW i \in 1..Len(file'), i < pos + 1
        PROVE  file'[i] = Item(forest, i)
    BY <1>2, <2>1, <2>2, <2>3
  <2>4. QED
    BY <1>2, <2>1, <2>2, <2>3
<1>5. CASE ~(pos <= Len(file)) /\ ~(Len(file) < quota)
  BY <1>2, <1>5 DEF Write
<1>6. QED
  BY <1>3, <1>4, <1>5

-----------------------------------------------------------------------------
(* The record the loader is about to read is the one of the next entry. *)
LEMMA RecordRead ==
  ASSUME BaseInv, pc = "load", put = "idle", ~AtEndOfFile, ~AtEndOfList
  PROVE  /\ pos \in 1..forest.size
         /\ pos = newNode + 1
         /\ pos <= Len(file)
         /\ file[pos] = RecordOf(forest, pos)
<1> USE DEF BaseInv
<1>1. pos = newNode + 1 /\ forest.size \in Nat /\ newNode \in 0..forest.size
  BY DEF PhaseInv, ReadInv, IsForest
<1>2. pos \in 1..Len(file) /\ pos <= forest.size + 1
  BY <1>1 DEF AtEndOfFile, FileInv
<1>3. file[pos] = Item(forest, pos)
  BY <1>2 DEF FileInv
<1>4. pos # forest.size + 1
  BY <1>2, <1>3 DEF AtEndOfList, AtEndOfFile, Item
<1>5. pos \in 1..forest.size
  BY <1>1, <1>2, <1>4
<1>6. QED
  BY <1>1, <1>2, <1>3, <1>5, RecordIsNode

LEMMA DumpNodeBase == BaseInv /\ DumpNode => BaseInv'
<1> SUFFICES ASSUME BaseInv, DumpNode PROVE BaseInv'
  OBVIOUS
<1> USE DEF BaseInv, DumpNode, buildVars
<1>1. forest.size \in Nat /\ pos \in 1..forest.size
  BY DEF FileInv, IsForest
<1>2. Write(Item(forest, pos))
  BY <1>1, RecordIsNode
<1>3. FileInv'
  BY <1>1, <1>2, WriteFile DEF FileInv
<1>4. PhaseInv'
  BY DEF PhaseInv
<1>5. ReadInv'
  BY <1>1 DEF ReadInv, PhaseInv, FlagsOf, HasNext, HasChild, IsNext
<1>6. LinkTypes'
  BY DEF LinkTypes, Links
<1>7. QED
  BY <1>3, <1>4, <1>5, <1>6 DEF IsForest

LEMMA DumpEndBase == BaseInv /\ DumpEnd => BaseInv'
<1> SUFFICES ASSUME BaseInv, DumpEnd PROVE BaseInv'
  OBVIOUS
<1> USE DEF BaseInv, DumpEnd, buildVars
<1>1. forest.size \in Nat /\ pos = forest.size + 1
  BY DEF IsForest
<1>2. Write(Item(forest, pos))
  BY <1>1 DEF Item
<1>3. FileInv'
  BY <1>1, <1>2, WriteFile DEF FileInv
<1>4. PhaseInv'
  BY DEF PhaseInv
<1>5. ReadInv'
  BY <1>1 DEF ReadInv, PhaseInv, FlagsOf, HasNext, HasChild, IsNext
<1>6. LinkTypes'
  BY DEF LinkTypes, Links
<1>7. QED
  BY <1>3, <1>4, <1>5, <1>6 DEF IsForest

LEMMA LoadNodeBase == BaseInv /\ LoadNode => BaseInv'
<1> SUFFICES ASSUME BaseInv, LoadNode PROVE BaseInv'
  OBVIOUS
<1> USE DEF BaseInv, LoadNode, NewEntry, links
<1>1. forest.size \in Nat /\ pos \in 1..forest.size /\ pos = newNode + 1
      /\ pos <= Len(file) /\ file[pos] = RecordOf(forest, pos)
  BY RecordRead DEF IsForest
<1>2. /\ newNode' = pos
      /\ name' = Append(name, forest.name[pos])
      /\ type' = Append(type, forest.type[pos])
      /\ flags' = FlagsOf(forest, pos) /\ flags' \in Flags
      /\ forest.name[pos] \in Names /\ forest.type[pos] \in VarTypes
  <2>1. /\ RecordOf(forest, pos).name = forest.name[pos]
        /\ RecordOf(forest, pos).type = forest.type[pos]
        /\ RecordOf(forest, pos).flags = FlagsOf(forest, pos)
        /\ FlagsOf(forest, pos) \in Flags
    BY <1>1, RecordIsNode
  <2>2. forest.name[pos] \in Names /\ forest.type[pos] \in VarTypes
    BY <1>1 DEF IsForest
  <2>3. QED
    BY <1>1, <2>1, <2>2
<1>3. FileInv'
  BY <1>1 DEF FileInv
<1>4. PhaseInv'
  BY <1>1 DEF PhaseInv
<1>5. ReadInv'
  <2>1. name' \in Seq(Names) /\ Len(name') = pos
        /\ type' \in Seq(VarTypes) /\ Len(type') = pos
    BY <1>1, <1>2 DEF ReadInv
  <2>2. \A i \in 1..pos : name'[i] = forest.name[i] /\ type'[i] = forest.type[i]
    BY <1>1, <1>2 DEF ReadInv
  <2>3. lastNode = newNode /\ newNode \in Nat /\ newNode + 1 = pos
    BY <1>1 DEF ReadInv
  <2>4. forest' = forest /\ file' = file /\ lastNode' = lastNode
        /\ hptr' = hptr /\ put' = "put" /\ prevFlags' = flags
    OBVIOUS
  <2>5. newNode' > 0 => flags' = FlagsOf(forest', newNode')
    BY <1>2, <2>4
  <2>6. lastNode' > 0 => prevFlags' = FlagsOf(forest', lastNode')
    BY <2>3, <2>4 DEF ReadInv
  <2>7. \A i \in 1..pos : i <= Len(file)
    BY <1>1
  <2>8. hptr' \in 0..lastNode' /\ prevFlags' \in Flags
    BY <2>4 DEF ReadInv
  <2>9. QED
    BY <1>1, <1>2, <2>1, <2>2, <2>3, <2>4, <2>5, <2>6, <2>7, <2>8 DEF ReadInv
<1>6. LinkTypes'
  BY DEF LinkTypes, Links
<1>7. QED
  BY <1>3, <1>4, <1>5, <1>6 DEF IsForest

LEMMA LoadEndBase == BaseInv /\ LoadEnd => BaseInv'
<1> SUFFICES ASSUME BaseInv, LoadEnd PROVE BaseInv'
  OBVIOUS
<1> USE DEF BaseInv, LoadEnd, buildVars
<1>1. FileInv'
  BY DEF FileInv
<1>2. PhaseInv'
  BY DEF PhaseInv, AtEndOfFile, AtEndOfList, AtUnnamed
<1>3. ReadInv'
  BY DEF ReadInv, FlagsOf, HasNext, HasChild, IsNext
<1>4. LinkTypes'
  BY DEF LinkTypes, Links
<1>5. QED
  BY <1>1, <1>2, <1>3, <1>4 DEF IsForest

(* A placed entry: the caller's bookkeeping, whatever links were set. *)
LEMMA PlacedRead ==
  ASSUME BaseInv, pc = "load", put # "idle", Placed, UNCHANGED storeVars
  PROVE  FileInv' /\ PhaseInv' /\ ReadInv'
<1> USE DEF BaseInv, Placed, storeVars, entries
<1>1. FileInv'
  BY DEF FileInv
<1>2. PhaseInv'
  BY DEF PhaseInv
<1>3. ReadInv'
  BY DEF ReadInv
<1>4. QED
  BY <1>1, <1>2, <1>3

(* On the way back nothing but the loop variable changes. *)
LEMMA ClimbRead ==
  ASSUME BaseInv, pc = "load", put # "idle", put' = "climb",
         hptr' \in 0..lastNode, lastNode > 0, prevFlags = NoFlags,
         UNCHANGED <<links, entries, cursor>>, UNCHANGED storeVars
  PROVE  BaseInv'
<1> USE DEF BaseInv, links, entries, cursor, storeVars
<1>1. FileInv'
  BY DEF FileInv
<1>2. PhaseInv'
  BY DEF PhaseInv
<1>3. ReadInv'
  BY DEF ReadInv
<1>4. LinkTypes'
  BY DEF LinkTypes, Links
<1>5. QED
  BY <1>1, <1>2, <1>3, <1>4

LEMMA LoadPutBase == BaseInv /\ LoadPut => BaseInv'
<1> SUFFICES ASSUME BaseInv, LoadPut PROVE BaseInv'
  OBVIOUS
<1> USE DEF LoadPut
<1>1. forest.size \in Nat /\ forest' = forest
  BY DEF BaseInv, IsForest, storeVars
<1>2. put # "idle" =>
        /\ lastNode \in 0..forest.size /\ newNode \in 1..forest.size
        /\ newNode = lastNode + 1 /\ hptr \in 0..forest.size
  BY <1>1 DEF BaseInv, ReadInv
<1>3. /\ next \in Links /\ nextlvl \in Links /\ prev \in Links
      /\ anker = IF lastNode = 0 THEN 0 ELSE 1
      /\ \A i \in 1..forest.size :
           /\ prev[i] \in 0..forest.size /\ prev[i] <= lastNode
           /\ i >= lastNode => next[i] = 0 /\ nextlvl[i] = 0
  BY DEF BaseInv, LinkTypes, Links
<1>4. ASSUME Placed, put # "idle", LinkTypes' PROVE BaseInv'
  BY <1>4, PlacedRead DEF BaseInv, storeVars
<1>5. CASE PutFirst
  <2>1. newNode = 1 /\ lastNode' = 1 /\ anker' = 1
    BY <1>2, <1>5 DEF PutFirst, Placed
  <2>2. LinkTypes'
    BY <1>1, <1>3, <1>5, <2>1 DEF PutFirst, LinkTypes, Links
  <2>3. QED
    BY <1>4, <1>5, <2>2 DEF PutFirst
<1>6. CASE PutBelow
  <2>1. /\ lastNode \in 1..forest.size /\ newNode \in 1..forest.size
        /\ newNode = lastNode + 1 /\ lastNode' = newNode /\ anker' = anker
        /\ prev' = [prev EXCEPT ![newNode] = lastNode]
        /\ nextlvl' = [nextlvl EXCEPT ![lastNode] = newNode]
        /\ next' = next
    BY <1>2, <1>6 DEF PutBelow, Placed
  <2>2. next' \in Links /\ nextlvl' \in Links /\ prev' \in Links
    BY <1>1, <1>3, <2>1 DEF Links
  <2>3. ASSUME NEW i \in 1..forest.size
        PROVE  /\ prev'[i] <= newNode
               /\ i >= newNode => next'[i] = 0 /\ nextlvl'[i] = 0
    <3>1. prev'[i] = IF i = newNode THEN lastNode ELSE prev[i]
      BY <1>3, <2>1 DEF Links
    <3>2. i >= newNode => next'[i] = next[i] /\ nextlvl'[i] = nextlvl[i]
      BY <1>3, <2>1 DEF Links
    <3>3. QED
      BY <1>1, <1>3, <2>1, <3>1, <3>2
  <2>4. LinkTypes'
    BY <1>1, <1>3, <2>1, <2>2, <2>3 DEF LinkTypes, Links
  <2>5. QED
    BY <1>4, <1>6, <2>4 DEF PutBelow
<1>7. CASE PutBeside
  <2>1. /\ lastNode \in 1..forest.size /\ newNode \in 1..forest.size
        /\ newNode = lastNode + 1 /\ lastNode' = newNode /\ anker' = anker
        /\ prev' = [prev EXCEPT ![newNode] = lastNode]
        /\ next' = [next EXCEPT ![lastNode] = newNode]
        /\ nextlvl' = nextlvl
    BY <1>2, <1>7 DEF PutBeside, Placed
  <2>2. next' \in Links /\ nextlvl' \in Links /\ prev' \in Links
    BY <1>1, <1>3, <2>1 DEF Links
  <2>3. ASSUME NEW i \in 1..forest.size
        PROVE  /\ prev'[i] <= newNode
               /\ i >= newNode => next'[i] = 0 /\ nextlvl'[i] = 0
    <3>1. prev'[i] = IF i = newNode THEN lastNode ELSE prev[i]
      BY <1>3, <2>1 DEF Links
    <3>2. i >= newNode => next'[i] = next[i] /\ nextlvl'[i] = nextlvl[i]
      BY <1>3, <2>1 DEF Links
    <3>3. QED
      BY <1>1, <1>3, <2>1, <3>1, <3>2
  <2>4. LinkTypes'
    BY <1>1, <1>3, <2>1, <2>2, <2>3 DEF LinkTypes, Links
  <2>5. QED
    BY <1>4, <1>7, <2>4 DEF PutBeside
<1>8. CASE StartClimb
  BY <1>2, <1>8, ClimbRead DEF StartClimb
<1>9. CASE ClimbUp
  <2>1. hptr \in 1..forest.size /\ prev[hptr] \in 0..lastNode
        /\ lastNode > 0 /\ prevFlags = NoFlags
    BY <1>2, <1>3, <1>9 DEF ClimbUp, Links, BaseInv, ReadInv
  <2>2. QED
    BY <1>9, <2>1, ClimbRead DEF ClimbUp, cursor
<1>10. CASE PutAfterGroup
  <2>1. hptr \in 1..lastNode
    BY <1>2, <1>10 DEF PutAfterGroup, BaseInv, ReadInv
  <2>2. LinkTypes'
    BY <1>1, <1>2, <1>3, <1>10, <2>1 DEF PutAfterGroup, Placed, LinkTypes, Links
  <2>3. QED
    BY <1>4, <1>10, <2>2 DEF PutAfterGroup
<1>11. CASE PutNowhere
  <2>1. lastNode > 0
    BY <1>11 DEF PutNowhere, BaseInv, ReadInv
  <2>2. lastNode' = lastNode + 1 /\ UNCHANGED links /\ lastNode \in Nat
    BY <1>2, <1>11, <2>1 DEF PutNowhere, Placed
  <2>3. /\ \A i \in 1..forest.size : prev[i] <= lastNode + 1
        /\ anker = 1 /\ lastNode + 1 # 0
    BY <1>1, <1>3, <2>1, <2>2
  <2>4. LinkTypes'
    BY <1>1, <1>3, <2>1, <2>2, <2>3 DEF links, LinkTypes, Links
  <2>5. QED
    BY <1>4, <1>11, <2>4 DEF PutNowhere
<1>12. QED
  BY <1>5, <1>6, <1>7, <1>8, <1>9, <1>10, <1>11 DEF PutInNewNode

LEMMA BaseInvStep == BaseInv /\ [Next]_vars => BaseInv'
<1>1. BaseInv /\ UNCHANGED vars => BaseInv'
  <2> SUFFICES ASSUME BaseInv, UNCHANGED vars PROVE BaseInv'
    OBVIOUS
  <2> USE DEF BaseInv, vars
  <2>1. FileInv'
    BY DEF FileInv
  <2>2. PhaseInv'
    BY DEF PhaseInv, AtEndOfFile, AtEndOfList, AtUnnamed
  <2>3. ReadInv'
    BY DEF ReadInv
  <2>4. LinkTypes'
    BY DEF LinkTypes, Links
  <2>5. QED
    BY <2>1, <2>2, <2>3, <2>4
<1>2. QED
  BY <1>1, DumpNodeBase, DumpEndBase, LoadNodeBase, LoadPutBase, LoadEndBase DEF Next

-----------------------------------------------------------------------------
(***************************************************************************)
(* The links, step by step.                                                *)
(***************************************************************************)

(* What an entry about to be placed finds. *)
LEMMA Placing ==
  ASSUME BaseInv, put # "idle"
  PROVE  /\ forest \in Forests /\ IsForest(forest) /\ forest.size \in Nat
         /\ lastNode \in 0..forest.size /\ newNode \in 1..forest.size
         /\ newNode = lastNode + 1
         /\ lastNode > 0 => prevFlags = FlagsOf(forest, lastNode)
         /\ \A i \in 1..newNode : type[i] = forest.type[i]
         /\ next[newNode] = 0 /\ nextlvl[newNode] = 0
BY DEF BaseInv, ReadInv, LinkTypes, IsForest

(* The new entry becomes the successor of the entry it is the successor of. *)
LEMMA PlacedAsNext ==
  ASSUME BaseInv, put # "idle", LinksFaithful, PrevFaithful,
         NEW h \in 1..lastNode, IsNext(forest, h, newNode),
         ~HasChild(forest, lastNode),
         next' = [next EXCEPT ![h] = newNode],
         prev' = [prev EXCEPT ![newNode] = h],
         nextlvl' = nextlvl, forest' = forest, lastNode' = newNode
  PROVE  LinksFaithful' /\ PrevFaithful'
<1> DEFINE k == lastNode
           n == newNode
<1>1. /\ forest.size \in Nat /\ k \in 1..forest.size /\ n \in 1..forest.size
      /\ n = k + 1 /\ IsForest(forest) /\ next[n] = 0 /\ nextlvl[n] = 0
  BY Placing
<1>2. /\ next \in Links /\ prev \in Links /\ nextlvl \in Links
  BY DEF BaseInv, LinkTypes
<1>3. \A i \in 1..n : next'[i] = IF i = h THEN n ELSE next[i]
  BY <1>1, <1>2 DEF Links
<1>4. \A i \in 1..n : prev'[i] = IF i = n THEN h ELSE prev[i]
  BY <1>1, <1>2 DEF Links
<1>5. ASSUME NEW i \in 1..n
      PROVE  nextlvl'[i] = IF HasChild(forest, i) /\ i < n THEN i + 1 ELSE 0
  BY <1>1 DEF LinksFaithful
<1>6. ASSUME NEW i \in 1..n, next'[i] # 0
      PROVE  next'[i] \in 1..n /\ IsNext(forest, i, next'[i])
  BY <1>1, <1>3, <1>6 DEF LinksFaithful
<1>7. ASSUME NEW i \in 1..n, NEW j \in 1..n, IsNext(forest, i, j)
      PROVE  next'[i] = j
  <2>1. i < j
    BY <1>7 DEF IsNext
  <2>2. CASE j = n
    BY <1>1, <1>3, <1>7, <2>2, PrevUnique
  <2>3. CASE j # n
    <3>1. i \in 1..k /\ j \in 1..k
      BY <1>1, <2>1, <2>3
    <3>2. next[i] = j
      BY <1>7, <3>1 DEF LinksFaithful
    <3>3. i # h
      BY <1>1, <1>7, <2>3, NextUnique
    <3>4. QED
      BY <1>3, <3>2, <3>3
  <2>4. QED
    BY <2>2, <2>3
<1>8. ASSUME NEW i \in 2..n
      PROVE  /\ prev'[i] \in 1..n
             /\ \/ next'[prev'[i]] = i
                \/ prev'[i] = i - 1 /\ HasChild(forest, i - 1)
  <2>1. CASE i = n
    BY <1>1, <1>3, <1>4, <2>1
  <2>2. CASE i # n
    <3>1. i \in 2..k /\ prev'[i] = prev[i] /\ prev[i] \in 1..k
      BY <1>1, <1>4, <2>2 DEF PrevFaithful
    <3>2. CASE next[prev[i]] = i
      <4>1. IsNext(forest, prev[i], i)
        BY <3>1, <3>2 DEF LinksFaithful
      <4>2. prev[i] # h
        BY <1>1, <3>1, <4>1, <2>2, NextUnique
      <4>3. QED
        BY <1>1, <1>3, <3>1, <3>2, <4>2
    <3>3. CASE prev[i] = i - 1 /\ HasChild(forest, i - 1)
      BY <1>1, <3>1, <3>3
    <3>4. QED
      BY <3>1, <3>2, <3>3 DEF PrevFaithful
  <2>3. QED
    BY <2>1, <2>2
<1>9. LinksFaithful'
  BY <1>5, <1>6, <1>7 DEF LinksFaithful
<1>10. PrevFaithful'
  BY <1>8 DEF PrevFaithful
<1>11. QED
  BY <1>9, <1>10

(* The new entry hangs below the one before it. *)
LEMMA PlacedBelow ==
  ASSUME BaseInv, LinksFaithful, PrevFaithful, PutBelow, forest' = forest
  PROVE  LinksFaithful' /\ PrevFaithful'
<1> DEFINE k == lastNode
           n == newNode
<1>1. /\ forest.size \in Nat /\ k \in 1..forest.size /\ n \in 1..forest.size
      /\ n = k + 1 /\ IsForest(forest) /\ next[n] = 0 /\ nextlvl[n] = 0
      /\ lastNode' = n /\ next' = next
  BY Placing DEF PutBelow, Placed
<1>2. HasChild(forest, k)
  BY <1>1, Placing DEF PutBelow, FlagsOf
<1>3. /\ next \in Links /\ prev \in Links /\ nextlvl \in Links
  BY DEF BaseInv, LinkTypes
<1>4. \A i \in 1..n : nextlvl'[i] = IF i = k THEN n ELSE nextlvl[i]
  BY <1>1, <1>3 DEF Links, PutBelow
<1>5. \A i \in 1..n : prev'[i] = IF i = n THEN k ELSE prev[i]
  BY <1>1, <1>3 DEF Links, PutBelow
<1>6. ASSUME NEW i \in 1..n
      PROVE  nextlvl'[i] = IF HasChild(forest, i) /\ i < n THEN i + 1 ELSE 0
  BY <1>1, <1>2, <1>4 DEF LinksFaithful
<1>7. ASSUME NEW i \in 1..n, next'[i] # 0
      PROVE  next'[i] \in 1..n /\ IsNext(forest, i, next'[i])
  BY <1>1, <1>7 DEF LinksFaithful
<1>8. ASSUME NEW i \in 1..n, NEW j \in 1..n, IsNext(forest, i, j)
      PROVE  next'[i] = j
  <2>1. i < j /\ j # n
    BY <1>1, <1>2, <1>8, ChildHasNoPrev DEF IsNext
  <2>2. i \in 1..k /\ j \in 1..k
    BY <1>1, <2>1
  <2>3. QED
    BY <1>1, <1>8, <2>2 DEF LinksFaithful
<1>9. ASSUME NEW i \in 2..n
      PROVE  /\ prev'[i] \in 1..n
             /\ \/ next'[prev'[i]] = i
                \/ prev'[i] = i - 1 /\ HasChild(forest, i - 1)
  <2>1. CASE i = n
    BY <1>1, <1>2, <1>5, <2>1
  <2>2. CASE i # n
    <3>1. i \in 2..k /\ prev'[i] = prev[i] /\ prev[i] \in 1..k
      BY <1>1, <1>5, <2>2 DEF PrevFaithful
    <3>2. QED
      BY <1>1, <3>1 DEF PrevFaithful
  <2>3. QED
    BY <2>1, <2>2
<1>10. LinksFaithful'
  BY <1>1, <1>6, <1>7, <1>8 DEF LinksFaithful
<1>11. PrevFaithful'
  BY <1>1, <1>9 DEF PrevFaithful
<1>12. QED
  BY <1>10, <1>11

(* On the way back the level that ends is the one of the last entry. *)
LEMMA Climbing ==
  ASSUME BaseInv, put = "climb"
  PROVE  /\ lastNode \in 1..forest.size /\ lastNode + 1 \in 1..forest.size
         /\ ~HasChild(forest, lastNode)
         /\ EndsLevel(forest, lastNode)
         /\ forest.depth[lastNode + 1] < forest.depth[lastNode]
         /\ forest.depth[lastNode + 1] \in Nat \ {0}
         /\ next[lastNode] = 0
         /\ type[lastNode] = forest.type[lastNode]
<1> DEFINE k == lastNode
<1>1. /\ IsForest(forest) /\ forest.size \in Nat /\ k \in 1..forest.size
      /\ k + 1 \in 1..forest.size /\ FlagsOf(forest, k) = NoFlags
  BY Placing DEF BaseInv, ReadInv
<1>2. ~HasChild(forest, k) /\ ~HasNext(forest, k)
  BY <1>1 DEF FlagsOf, NoFlags
<1>3. EndsLevel(forest, k)
  BY <1>1, <1>2, NoFlagsEndsLevel
<1>4. forest.depth[k + 1] \in Nat \ {0}
  BY <1>1 DEF IsForest
<1>5. next[k] = 0 /\ type[k] = forest.type[k]
  BY <1>1, Placing DEF BaseInv, LinkTypes
<1>6. QED
  BY <1>1, <1>2, <1>3, <1>4, <1>5 DEF EndsLevel

(* The entry above the level that ends is a group that has no successor. *)
LEMMA ParentIsOpen ==
  ASSUME BaseInv, LinkInv, OnlyGroupsHaveChildren(forest), put = "climb",
         forest.depth[hptr] + 1 = forest.depth[lastNode]
  PROVE  OpenGroup(hptr)
<1> DEFINE k == lastNode
           h == hptr
<1>1. /\ k \in 1..forest.size /\ h \in 1..k /\ IsForest(forest) /\ forest.size \in Nat
      /\ \A m \in 1..k : h < m => forest.depth[k] <= forest.depth[m]
  BY Climbing, Placing DEF LinkInv, WayBack
<1>2. /\ forest.depth[h] \in Nat /\ forest.depth[k] \in Nat /\ h # k
      /\ h + 1 \in 1..k /\ forest.depth[h + 1] \in Nat
  BY <1>1 DEF IsForest
<1>3. forest.depth[k] <= forest.depth[h + 1] /\ forest.depth[h + 1] <= forest.depth[h] + 1
  <2>1. h < h + 1 /\ h \in 1..forest.size /\ h + 1 <= forest.size
    BY <1>1, <1>2
  <2>2. forest.depth[k] <= forest.depth[h + 1]
    BY <1>1, <1>2, <2>1
  <2>3. forest.depth[h + 1] <= forest.depth[h] + 1
    BY <1>1, <2>1 DEF IsForest
  <2>4. QED
    BY <2>2, <2>3
<1>4. forest.depth[h + 1] = forest.depth[h] + 1
  BY <1>2, <1>3
<1>5. forest.type[h] = "GROUP"
  BY <1>1, <1>2, <1>4 DEF OnlyGroupsHaveChildren
<1>6. type[h] = "GROUP"
  BY <1>1, <1>5, Placing
<1>7. next[h] = 0
  <2>1. SUFFICES ASSUME next[h] # 0 PROVE FALSE
    OBVIOUS
  <2>2. next[h] \in 1..k /\ h < next[h] /\ forest.depth[h] = forest.depth[next[h]]
    BY <1>1, <2>1 DEF LinkInv, LinksFaithful, IsNext
  <2>3. QED
    BY <1>1, <1>2, <2>2
<1>8. QED
  BY <1>6, <1>7 DEF OpenGroup

LEMMA StartClimbLinks ==
  ASSUME BaseInv, LinkInv, StartClimb, forest' = forest
  PROVE  LinkInv'
<1>1. lastNode \in 1..forest.size /\ IsForest(forest) /\ forest.size \in Nat
  BY Placing DEF StartClimb
<1>2. LinksFaithful' /\ PrevFaithful'
  BY DEF StartClimb, links, cursor, LinkInv, LinksFaithful, PrevFaithful
<1>3. WayBack'
  BY <1>1 DEF StartClimb, links, cursor, WayBack
<1>4. QED
  BY <1>2, <1>3 DEF LinkInv

LEMMA ClimbUpLinks ==
  ASSUME BaseInv, LinkInv, OnlyGroupsHaveChildren(forest), ClimbUp, forest' = forest
  PROVE  LinkInv'
<1> DEFINE k == lastNode
           h == hptr
           p == prev[hptr]
<1>1. put = "climb" /\ ~OpenGroup(h) /\ hptr' = p /\ UNCHANGED <<links, cursor, put>>
  BY DEF ClimbUp
<1>2. /\ k \in 1..forest.size /\ IsForest(forest) /\ forest.size \in Nat
      /\ forest.depth[k] \in Nat /\ forest.depth[k] > 1
  BY <1>1, Climbing, Placing DEF IsForest
<1>3. /\ h \in 1..k
      /\ \A m \in 1..k : h < m => forest.depth[k] <= forest.depth[m]
      /\ forest.depth[h] = forest.depth[k]
  BY <1>1, ParentIsOpen DEF LinkInv, WayBack
<1>4. h \in 2..k
  BY <1>2, <1>3 DEF IsForest
<1>5. forest.type[k] # "GROUP"
  BY <1>1, Climbing DEF LinkInv, WayBack, OpenGroup
<1>6. /\ p \in 1..k
      /\ next[p] = h \/ (p = h - 1 /\ HasChild(forest, h - 1))
  BY <1>4 DEF LinkInv, PrevFaithful
<1>7. CASE next[p] = h
  <2>1. IsNext(forest, p, h)
    BY <1>4, <1>6, <1>7 DEF LinkInv, LinksFaithful
  <2>2. forest.depth[p] = forest.depth[k] /\ p < h
    BY <1>3, <2>1 DEF IsNext
  <2>3. ASSUME NEW m \in 1..k, p < m PROVE forest.depth[k] <= forest.depth[m]
    <3>0. m \in 1..forest.size
      BY <1>2
    <3>1. forest.depth[m] \in Nat /\ m \in 1..forest.size
      BY <1>2, <3>0 DEF IsForest
    <3>2. CASE m < h
      BY <1>2, <2>1, <2>2, <2>3, <3>1, <3>2 DEF IsNext
    <3>3. CASE h <= m
      BY <1>2, <1>3, <3>1, <3>3
    <3>4. QED
      BY <1>4, <3>2, <3>3
  <2>4. WayBack'
    BY <1>1, <1>4, <1>6, <1>7, <1>5, <2>2, <2>3 DEF WayBack, links, cursor
  <2>5. QED
    BY <1>1, <2>4 DEF LinkInv, LinksFaithful, PrevFaithful, links, cursor
<1>8. CASE p = h - 1 /\ HasChild(forest, h - 1)
  <2>1. forest.depth[p] + 1 = forest.depth[k]
    BY <1>2, <1>3, <1>4, <1>6, <1>8 DEF HasChild, IsForest
  <2>2. ASSUME NEW m \in 1..k, p < m PROVE forest.depth[k] <= forest.depth[m]
    BY <1>2, <1>3, <1>4, <1>8, <2>2
  <2>3. WayBack'
    BY <1>1, <1>6, <1>5, <2>1, <2>2 DEF WayBack, links, cursor
  <2>4. QED
    BY <1>1, <2>3 DEF LinkInv, LinksFaithful, PrevFaithful, links, cursor
<1>9. QED
  BY <1>6, <1>7, <1>8

(* Where the way back ends: beside the last entry, or one level above it. *)
LEMMA Found ==
  ASSUME BaseInv, LinkInv, PutAfterGroup
  PROVE  /\ hptr \in 1..lastNode
         /\ \A m \in 1..lastNode : hptr < m => forest.depth[lastNode] <= forest.depth[m]
         /\ \/ hptr = lastNode /\ forest.type[lastNode] = "GROUP"
            \/ /\ forest.depth[hptr] + 1 = forest.depth[lastNode]
               /\ forest.type[lastNode] # "GROUP"
<1> DEFINE k == lastNode
           h == hptr
<1>1. put = "climb" /\ OpenGroup(h)
  BY DEF PutAfterGroup
<1>2. /\ h \in 1..k
      /\ \A m \in 1..k : h < m => forest.depth[k] <= forest.depth[m]
      /\ \/ forest.depth[h] = forest.depth[k] /\ (h # k => next[h] # 0)
         \/ forest.depth[h] + 1 = forest.depth[k]
      /\ forest.type[k] = "GROUP" => h = k
  BY <1>1 DEF LinkInv, WayBack
<1>3. CASE h = k
  BY <1>1, <1>2, <1>3, Climbing DEF OpenGroup
<1>4. CASE h # k
  BY <1>1, <1>2, <1>4 DEF OpenGroup
<1>5. QED
  BY <1>3, <1>4

(* A level that ends well: the entry behind it is the successor of its group. *)
LEMMA PutAfterGroupLinks ==
  ASSUME BaseInv, LinkInv, PutAfterGroup, EndsWell(forest, lastNode), forest' = forest
  PROVE  LinkInv'
<1> DEFINE k == lastNode
           h == hptr
<1>1. put = "climb"
  BY DEF PutAfterGroup
<1>2. /\ k \in 1..forest.size /\ k + 1 \in 1..forest.size /\ newNode = k + 1
      /\ IsForest(forest) /\ forest.size \in Nat
      /\ ~HasChild(forest, k) /\ forest.type[k] # "GROUP"
      /\ forest.depth[k + 1] + 1 = forest.depth[k] /\ forest.depth[k + 1] \in Nat
  BY <1>1, Climbing, Placing DEF EndsWell, PutAfterGroup
<1>3. /\ h \in 1..k
      /\ \A m \in 1..k : h < m => forest.depth[k] <= forest.depth[m]
      /\ forest.depth[h] + 1 = forest.depth[k]
  BY <1>2, Found
<1>4. IsNext(forest, h, newNode)
  <2>1. h \in 1..forest.size /\ forest.depth[h] \in Nat
    BY <1>2, <1>3 DEF IsForest
  <2>2. forest.depth[h] = forest.depth[newNode] /\ h < newNode
    BY <1>2, <1>3, <2>1
  <2>3. ASSUME NEW m \in 1..forest.size, h < m, m < newNode
        PROVE  forest.depth[h] < forest.depth[m]
    <3>1. m \in 1..k /\ forest.depth[m] \in Nat
      BY <1>2, <2>3 DEF IsForest
    <3>2. QED
      BY <1>2, <1>3, <2>1, <2>3, <3>1
  <2>4. QED
    BY <2>2, <2>3 DEF IsNext
<1>5. LinksFaithful' /\ PrevFaithful'
  BY <1>1, <1>2, <1>3, <1>4, PlacedAsNext DEF LinkInv, PutAfterGroup, Placed
<1>6. WayBack'
  BY DEF WayBack, PutAfterGroup, Placed
<1>7. QED
  BY <1>5, <1>6 DEF LinkInv

(* A level that ends in another way: the entry behind it follows a wrong one. *)
LEMMA PutAfterGroupMisleads ==
  ASSUME BaseInv, LinkInv, PutAfterGroup, ~EndsWell(forest, lastNode), forest' = forest
  PROVE  Misled'
<1> DEFINE k == lastNode
           h == hptr
<1>1. put = "climb" /\ lastNode' = newNode
  BY DEF PutAfterGroup, Placed
<1>2. /\ k \in 1..forest.size /\ k + 1 \in 1..forest.size /\ newNode = k + 1
      /\ IsForest(forest) /\ forest.size \in Nat
      /\ forest.depth[k + 1] < forest.depth[k]
      /\ forest.depth[k] \in Nat /\ forest.depth[k + 1] \in Nat
  BY <1>1, Climbing, Placing DEF PutAfterGroup, IsForest
<1>3. h \in 1..k /\ h \in 1..forest.size /\ forest.depth[h] \in Nat
  BY <1>2, Found DEF IsForest
<1>4. forest.depth[h] # forest.depth[k + 1]
  BY <1>2, <1>3, Found DEF EndsWell
<1>5. NextOf(forest, h) # newNode
  <2>1. ~IsNext(forest, h, newNode)
    BY <1>2, <1>4 DEF IsNext
  <2>2. QED
    BY <1>2, <1>3, <2>1, NextOfIsNext
<1>6. next'[h] = newNode
  BY <1>3 DEF PutAfterGroup, BaseInv, LinkTypes, Links
<1>7. h \in 1..lastNode' /\ next'[h] # 0 /\ next'[h] # NextOf(forest', h)
  BY <1>1, <1>2, <1>3, <1>5, <1>6
<1>8. QED
  BY <1>7 DEF Misled

(* An entry below or beside the one before it ends no level. *)
LEMMA FlagsEndNoLevel ==
  ASSUME NEW f, IsForest(f), NEW i \in 1..f.size, HasChild(f, i) \/ HasNext(f, i)
  PROVE  ~EndsLevel(f, i)
<1>1. CASE HasChild(f, i)
  BY <1>1 DEF HasChild, EndsLevel, IsForest
<1>2. CASE HasNext(f, i) /\ ~HasChild(f, i)
  <2>1. i + 1 \in 1..f.size /\ IsNext(f, i, i + 1)
    BY <1>2, NextWithoutChild
  <2>2. QED
    BY <2>1 DEF IsNext, EndsLevel, IsForest
<1>3. QED
  BY <1>1, <1>2

(* With one entry more, what matters is whether a level ends before it. *)
LEMMA EndWellStep ==
  ASSUME NEW f, IsForest(f), NEW k \in 1..f.size
  PROVE  EndWellTo(f, k + 1) <=> EndWellTo(f, k) /\ (EndsLevel(f, k) => EndsWell(f, k))
<1>1. \A i \in 1..f.size : i < k + 1 <=> i < k \/ i = k
  BY DEF IsForest
<1>2. QED
  BY <1>1 DEF EndWellTo

(* The list that is dumped is never changed. *)
LEMMA ForestKept == [Next]_vars => forest' = forest
BY DEF Next, vars, DumpNode, DumpEnd, LoadNode, LoadPut, LoadEnd, storeVars

(* Every step keeps the links faithful, or it is the one that misleads. *)
LEMMA LinkInvStep ==
  ASSUME BaseInv, LinkInv, OnlyGroupsHaveChildren(forest),
         EndWellTo(forest, lastNode), [Next]_vars
  PROVE  FaithfulOrMisled'
<1>1. forest' = forest
  BY ForestKept
<1>2. ASSUME lastNode' = lastNode, LinkInv' PROVE FaithfulOrMisled'
  BY <1>1, <1>2 DEF FaithfulOrMisled
<1>3. ASSUME lastNode' = lastNode, next' = next, nextlvl' = nextlvl, prev' = prev,
             put' # "climb" \/ (put' = put /\ hptr' = hptr)
      PROVE  FaithfulOrMisled'
  <2>1. LinkInv'
    BY <1>1, <1>3 DEF LinkInv, LinksFaithful, PrevFaithful, WayBack
  <2>2. QED
    BY <1>2, <1>3, <2>1
<1>4. ASSUME put # "idle", lastNode # 0, lastNode' = newNode, LinkInv',
             HasChild(forest, lastNode) \/ HasNext(forest, lastNode)
      PROVE  FaithfulOrMisled'
  <2>1. /\ IsForest(forest) /\ lastNode \in 1..forest.size /\ lastNode' = lastNode + 1
    BY <1>4, Placing
  <2>2. EndWellTo(forest', lastNode')
    BY <1>1, <1>4, <2>1, FlagsEndNoLevel, EndWellStep
  <2>3. QED
    BY <1>4, <2>2 DEF FaithfulOrMisled
<1>5. CASE DumpNode \/ DumpEnd \/ LoadEnd \/ UNCHANGED vars
  BY <1>3, <1>5 DEF DumpNode, DumpEnd, LoadEnd, vars, buildVars
<1>6. CASE LoadNode
  BY <1>3, <1>6 DEF LoadNode, NewEntry, links
<1>7. CASE PutFirst
  <2>1. /\ lastNode = 0 /\ newNode = 1 /\ lastNode' = 1 /\ put' = "idle"
        /\ next[1] = 0 /\ nextlvl[1] = 0 /\ next' = next /\ nextlvl' = nextlvl
    BY <1>7, Placing DEF PutFirst, Placed
  <2>2. LinksFaithful'
    BY <1>1, <2>1 DEF LinksFaithful, IsNext
  <2>3. PrevFaithful' /\ WayBack'
    BY <2>1 DEF PrevFaithful, WayBack
  <2>4. EndWellTo(forest', lastNode')
    BY <1>1, <2>1 DEF EndWellTo
  <2>5. QED
    BY <2>2, <2>3, <2>4 DEF LinkInv, FaithfulOrMisled
<1>8. CASE PutBelow
  <2>1. LinksFaithful' /\ PrevFaithful'
    BY <1>1, <1>8, PlacedBelow DEF LinkInv
  <2>2. WayBack'
    BY <1>8 DEF PutBelow, Placed, WayBack
  <2>3. HasChild(forest, lastNode)
    BY <1>8, Placing DEF PutBelow, FlagsOf
  <2>4. QED
    BY <1>4, <1>8, <2>1, <2>2, <2>3 DEF LinkInv, PutBelow, Placed
<1>9. CASE PutBeside
  <2>1. /\ lastNode \in 1..forest.size /\ IsForest(forest) /\ put # "idle"
        /\ newNode = lastNode + 1 /\ prevFlags = FlagsOf(forest, lastNode)
    BY <1>9, Placing DEF PutBeside
  <2>2. HasNext(forest, lastNode) /\ ~HasChild(forest, lastNode)
    BY <1>9, <2>1 DEF PutBeside, FlagsOf
  <2>3. IsNext(forest, lastNode, newNode)
    BY <2>1, <2>2, NextWithoutChild
  <2>4. lastNode \in 1..lastNode
    BY <2>1, Placing
  <2>5. LinksFaithful' /\ PrevFaithful'
    BY <1>1, <1>9, <2>1, <2>2, <2>3, <2>4, PlacedAsNext DEF LinkInv, PutBeside, Placed
  <2>6. WayBack'
    BY <1>9 DEF PutBeside, Placed, WayBack
  <2>7. QED
    BY <1>4, <1>9, <2>2, <2>5, <2>6 DEF LinkInv, PutBeside, Placed
<1>10. CASE StartClimb
  BY <1>1, <1>2, <1>10, StartClimbLinks DEF StartClimb, cursor
<1>11. CASE ClimbUp
  BY <1>1, <1>2, <1>11, ClimbUpLinks DEF ClimbUp, cursor
<1>12. CASE PutAfterGroup
  <2>1. /\ IsForest(forest) /\ lastNode \in 1..forest.size /\ lastNode' = lastNode + 1
        /\ EndsLevel(forest, lastNode)
    BY <1>12, Climbing, Placing DEF PutAfterGroup, Placed
  <2>2. EndWellTo(forest', lastNode') <=> EndsWell(forest, lastNode)
    BY <1>1, <2>1, EndWellStep
  <2>3. CASE EndsWell(forest, lastNode)
    BY <1>1, <1>12, <2>2, <2>3, PutAfterGroupLinks DEF FaithfulOrMisled
  <2>4. CASE ~EndsWell(forest, lastNode)
    BY <1>1, <1>12, <2>2, <2>4, PutAfterGroupMisleads DEF FaithfulOrMisled
  <2>5. QED
    BY <2>3, <2>4
<1>13. ~PutNowhere
  BY Climbing, Placing DEF PutNowhere, LinkInv, WayBack
<1>14. QED
  BY <1>5, <1>6, <1>7, <1>8, <1>9, <1>10, <1>11, <1>12, <1>13
     DEF Next, LoadPut, PutInNewNode

(* A wrong successor stays: only an entry that has none is given one. *)
LEMMA MisledStep ==
  ASSUME BaseInv, Misled, ~EndWellTo(forest, lastNode), [Next]_vars
  PROVE  FaithfulOrMisled'
<1>1. forest' = forest
  BY ForestKept
<1>2. PICK i \in 1..lastNode : next[i] # 0 /\ next[i] # NextOf(forest, i)
  BY DEF Misled
<1>3. next \in Links /\ lastNode \in 0..forest.size /\ forest.size \in Nat
  BY DEF BaseInv, ReadInv, LinkTypes, IsForest
<1>4. next[lastNode] = 0
  BY <1>2, <1>3 DEF BaseInv, LinkTypes
<1>5. lastNode' = lastNode \/ lastNode' = lastNode + 1
  <2>1. ASSUME Placed, put # "idle" PROVE lastNode' = lastNode + 1
    BY <2>1, Placing DEF Placed
  <2>2. QED
    BY <2>1 DEF Next, vars, buildVars, DumpNode, DumpEnd, LoadNode, NewEntry, LoadPut, LoadEnd,
         PutInNewNode, PutFirst, PutBelow, PutBeside, StartClimb, ClimbUp, PutAfterGroup,
         PutNowhere, cursor
<1>6. \/ next' = next
      \/ next' = [next EXCEPT ![lastNode] = newNode]
      \/ OpenGroup(hptr) /\ next' = [next EXCEPT ![hptr] = newNode]
  BY DEF Next, vars, buildVars, DumpNode, DumpEnd, LoadNode, NewEntry, LoadPut, LoadEnd,
         PutInNewNode, PutFirst, PutBelow, PutBeside, StartClimb, ClimbUp, PutAfterGroup,
         PutNowhere, links
<1>7. next'[i] = next[i]
  BY <1>2, <1>3, <1>4, <1>6 DEF OpenGroup, Links
<1>8. Misled'
  BY <1>1, <1>2, <1>3, <1>5, <1>7 DEF Misled
<1>9. ~EndWellTo(forest', lastNode')
  BY <1>1, <1>3, <1>5 DEF EndWellTo
<1>10. QED
  BY <1>8, <1>9 DEF FaithfulOrMisled

-----------------------------------------------------------------------------
LEMMA IInvStep == IInv /\ [Next]_vars => IInv'
<1> SUFFICES ASSUME IInv, [Next]_vars PROVE IInv'
  OBVIOUS
<1>1. BaseInv /\ BaseInv'
  BY BaseInvStep DEF IInv
<1>2. forest' = forest
  BY ForestKept
<1>3. OnlyGroupsHaveChildren(forest) => FaithfulOrMisled'
  BY <1>1, LinkInvStep, MisledStep DEF IInv, FaithfulOrMisled
<1>4. QED
  BY <1>1, <1>2, <1>3 DEF IInv

LEMMA Invariance == Spec => []IInv
BY InitIInv, IInvStep, PTL DEF Spec

(***************************************************************************)
(* The variables keep their types; in particular the loader never numbers  *)
(* more entries than the list that was dumped has.                         *)
(***************************************************************************)
THEOREM TypeCorrect == Spec => []TypeOK
<1>1. IInv => TypeOK
  <2> SUFFICES ASSUME IInv PROVE TypeOK
    OBVIOUS
  <2>1. /\ forest.size \in Nat /\ lastNode \in 0..forest.size /\ hptr \in 0..lastNode
        /\ newNode \in 0..forest.size
    BY DEF IInv, BaseInv, ReadInv, IsForest
  <2>2. anker \in 0..forest.size
    BY <2>1 DEF IInv, BaseInv, LinkTypes
  <2>3. pos \in Nat \ {0} /\ hptr \in 0..forest.size
    BY <2>1 DEF IInv, BaseInv, FileInv
  <2>4. QED
    BY <2>1, <2>2, <2>3
       DEF TypeOK, IInv, BaseInv, FileInv, PhaseInv, ReadInv, LinkTypes
<1>2. QED
  BY <1>1, Invariance, PTL

(***************************************************************************)
(* The loader reads only what this dump wrote (the file is opened without  *)
(* O_TRUNC, rh4n_vars_dump.c:12).                                          *)
(***************************************************************************)
THEOREM OldContentsIgnored == Spec => []ReadsOnlyNewRecords
<1>1. IInv => ReadsOnlyNewRecords
  <2> SUFFICES ASSUME IInv, pc # "dump" PROVE ReadsOnlyNewRecords
    BY DEF ReadsOnlyNewRecords
  <2>1. forest.size \in Nat /\ IsForest(forest) /\ newNode \in 0..forest.size
        /\ pos \in 1..forest.size + 1
    BY DEF IInv, BaseInv, ReadInv, FileInv, IsForest
  <2>2. ASSUME NEW i \in 1..newNode PROVE file[i] = RecordOf(forest, i)
    <3>0. i <= Len(file) /\ Len(file) \in Nat
      BY <2>1 DEF IInv, BaseInv, ReadInv, FileInv
    <3>1. i \in 1..Len(file) /\ i \in 1..forest.size
      BY <2>1, <3>0
    <3>2. QED
      BY <2>1, <3>1, RecordIsNode DEF IInv, BaseInv, FileInv
  <2>3. QED
    BY <2>1, <2>2 DEF ReadsOnlyNewRecords
<1>2. QED
  BY <1>1, Invariance, PTL

(***************************************************************************)
(* A list comes out of the file as it went in - the same entries, the same *)
(* names and types, the same links - exactly when its levels end one at a  *)
(* time, and not with an empty group.                                      *)
(***************************************************************************)
THEOREM RoundTripCorrect == Spec => []RoundTrip
<1>1. IInv => RoundTrip
  <2> SUFFICES ASSUME IInv, pc = "done", DumpComplete, AllNamed(forest),
                      OnlyGroupsHaveChildren(forest)
               PROVE  SameList(forest) <=> EndsOneLevelAtATime(forest)
    BY DEF RoundTrip
  <2>1. /\ forest.size \in Nat /\ IsForest(forest) /\ newNode \in 0..forest.size
        /\ pos = newNode + 1 /\ lastNode = newNode
        /\ AtEndOfFile \/ AtEndOfList \/ AtUnnamed
    BY DEF IInv, BaseInv, PhaseInv, ReadInv, IsForest
  <2>2. newNode = forest.size
    <3>1. SUFFICES ASSUME newNode # forest.size PROVE FALSE
      OBVIOUS
    <3>2. pos \in 1..forest.size /\ pos \in 1..Len(file)
      BY <2>1, <3>1 DEF DumpComplete, IInv, BaseInv, FileInv
    <3>3. file[pos] = RecordOf(forest, pos)
      BY <2>1, <3>2, RecordIsNode DEF IInv, BaseInv, FileInv
    <3>4. file[pos] # EndOfList /\ file[pos].name # EmptyName
      BY <2>1, <3>2, <3>3, RecordIsNode DEF AllNamed
    <3>5. QED
      BY <2>1, <3>2, <3>4 DEF AtEndOfFile, AtEndOfList, AtUnnamed
  <2>3. name = forest.name /\ type = forest.type
    <3>1. /\ name \in Seq(Names) /\ Len(name) = forest.size
          /\ type \in Seq(VarTypes) /\ Len(type) = forest.size
          /\ \A i \in 1..forest.size : name[i] = forest.name[i] /\ type[i] = forest.type[i]
      BY <2>2 DEF IInv, BaseInv, ReadInv
    <3>2. /\ forest.name \in [1..forest.size -> Names]
          /\ forest.type \in [1..forest.size -> VarTypes]
      BY <2>1 DEF IsForest
    <3>3. /\ name \in [1..forest.size -> Names]
          /\ type \in [1..forest.size -> VarTypes]
      BY <3>1
    <3>4. QED
      BY <3>1, <3>2, <3>3
  <2>4. anker = IF forest.size = 0 THEN 0 ELSE 1
    BY <2>1, <2>2 DEF IInv, BaseInv, LinkTypes
  <2>5. EndsOneLevelAtATime(forest) <=> EndWellTo(forest, lastNode)
    BY <2>1, <2>2 DEF EndsOneLevelAtATime, EndWellTo, EndsWell, EndsLevel
  <2>6. ASSUME EndWellTo(forest, lastNode), NEW i \in 1..forest.size
        PROVE  next[i] = NextOf(forest, i) /\ nextlvl[i] = NextlvlOf(forest, i)
    <3>0. LinksFaithful
      BY <2>6 DEF IInv, FaithfulOrMisled, LinkInv
    <3>1. nextlvl[i] = NextlvlOf(forest, i)
      BY <2>1, <2>2, <3>0 DEF LinksFaithful, NextlvlOf, HasChild
    <3>2. CASE HasNext(forest, i)
      <4>1. NextOf(forest, i) \in 1..forest.size /\ IsNext(forest, i, NextOf(forest, i))
        BY <2>1, <3>2, NextOfIsNext
      <4>2. QED
        BY <2>1, <2>2, <3>0, <3>1, <4>1 DEF LinksFaithful
    <3>3. CASE ~HasNext(forest, i)
      <4>1. NextOf(forest, i) = 0
        BY <2>1, <3>3, NextOfIsNext
      <4>2. next[i] = 0
        BY <2>1, <2>2, <3>0, <3>3 DEF LinksFaithful, HasNext
      <4>3. QED
        BY <3>1, <4>1, <4>2
    <3>4. QED
      BY <3>2, <3>3
  <2>7. ASSUME ~EndWellTo(forest, lastNode) PROVE ~SameList(forest)
    BY <2>1, <2>2, <2>7 DEF IInv, FaithfulOrMisled, Misled, SameList
  <2>8. QED
    BY <2>2, <2>3, <2>4, <2>5, <2>6, <2>7 DEF SameList
<1>2. QED
  BY <1>1, Invariance, PTL

=============================================================================
