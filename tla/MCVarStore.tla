----------------------------- MODULE MCVarStore -----------------------------
(***************************************************************************)
(* VarStore on all lists of up to MaxSize entries.                         *)
(***************************************************************************)
EXTENDS VarStore, SequencesExt

CONSTANTS MaxSize,    \* entries of a list
          LeafTypes,  \* the types of entries used besides GROUP
          OldSizes,   \* entries of the dump that the file holds before
          QuotaSizes  \* how far the file may grow

SomeTypes == LeafTypes \cup {"GROUP"}

(* The depths of the lists of n entries. *)
RECURSIVE Shapes(_)
Shapes(n) ==
  IF n = 0 THEN {<<>>}
  ELSE IF n = 1 THEN {<<1>>}
  ELSE UNION {{Append(s, d) : d \in 1..s[n - 1] + 1} : s \in Shapes(n - 1)}

(* Names for n entries: all the same, but for at most one without a name. *)
Namings(n) ==
  LET nm == CHOOSE x \in Names \ {EmptyName} : TRUE
  IN {[i \in 1..n |-> IF i = k THEN EmptyName ELSE nm] : k \in 0..n}

ForestsOfSize(n) ==
  [size : {n}, depth : Shapes(n), type : [1..n -> SomeTypes], name : Namings(n)]

MCForests == UNION {ForestsOfSize(n) : n \in 0..MaxSize}

(* A flat list of n entries with one name, dumped earlier. *)
OldDump(n) ==
  [i \in 1..n + 1 |->
     IF i = n + 1 THEN EndOfList
     ELSE NodeRecord(CHOOSE nm \in Names \ {EmptyName} : TRUE, "STRING",
                     [next |-> i < n, nextlvl |-> FALSE])]

MCOldFiles == {<<>>} \cup {OldDump(n) : n \in OldSizes}

(***************************************************************************)
(* The recursion of rh4nvarsDumpNode over the links of a list.             *)
(***************************************************************************)
RECURSIVE DumpWalk(_, _)
DumpWalk(f, h) ==
  IF h = 0 THEN <<>>
  ELSE <<h>> \o DumpWalk(f, NextlvlOf(f, h)) \o DumpWalk(f, NextOf(f, h))

ASSUME WalkAssumption ==
  \A f \in MCForests :
     f.size > 0 => DumpWalk(f, 1) = [i \in 1..f.size |-> i]

(* The same recursion over the list that has been loaded. *)
RECURSIVE LoadedWalk(_)
LoadedWalk(h) ==
  IF h = 0 THEN <<>>
  ELSE <<h>> \o LoadedWalk(nextlvl[h]) \o LoadedWalk(next[h])

(***************************************************************************)
(* Whatever levels a list loses in the file, no entry is lost and their    *)
(* order is kept: a walk of the loaded list meets the entries that were    *)
(* read in the order in which they were written.                           *)
(***************************************************************************)
NothingIsLost ==
  pc = "done" /\ OnlyGroupsHaveChildren(forest)
    => LoadedWalk(anker) = [i \in 1..newNode |-> i]

(***************************************************************************)
(* Loading ends, although the way back along prev is a loop with no bound. *)
(***************************************************************************)
LoadEnds == <>(pc = "done")
=============================================================================
