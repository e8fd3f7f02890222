------------------------------ MODULE VarForest ------------------------------
(***************************************************************************)
(* A variable list (RH4nVarList) as a value.                               *)
(*                                                                         *)
(* The entries of a list are numbered 1..size in the order in which        *)
(* rh4nvarsDumpNode and rh4n_messaging_processVarlistNode visit them: an   *)
(* entry, then what hangs below it (nextlvl), then what follows it (next). *)
(* In that numbering the shape of the list is just the depth of each       *)
(* entry, and the two links of an entry are functions of the depths.       *)
(* Module MCVarStore checks that the recursion of the source does visit    *)
(* the entries in this order.                                              *)
(***************************************************************************)
EXTENDS Integers, Sequences

CONSTANTS Names,      \* the names an entry may have
          EmptyName   \* the name of length 0

ASSUME NamesAssumption == EmptyName \in Names

VarTypes == {"STRING", "USTRING", "INTEGER", "FLOAT", "BOOLEAN",
             "GROUP", "ARRAY", "NULL"}

IsForest(f) ==
  /\ f.size \in Nat
  /\ f.depth \in [1..f.size -> Nat \ {0}]
  /\ f.type \in [1..f.size -> VarTypes]
  /\ f.name \in [1..f.size -> Names]
  /\ f.size > 0 => f.depth[1] = 1
  /\ \A i \in 1..f.size : i + 1 <= f.size => f.depth[i + 1] <= f.depth[i] + 1

(***************************************************************************)
(* Only groups have entries below them.  rh4nvarCreatenewVariable and      *)
(* rh4nvarMoveVarToGroup see to that; rh4nvarMoveVarToGroup_m does not     *)
(* look at the type of the entry it moves into.                            *)
(***************************************************************************)
OnlyGroupsHaveChildren(f) ==
  \A i \in 1..f.size : i + 1 <= f.size /\ f.depth[i + 1] = f.depth[i] + 1
                        => f.type[i] = "GROUP"

(* j is the entry that entry i has in its next link. *)
IsNext(f, i, j) ==
  /\ i < j
  /\ f.depth[i] = f.depth[j]
  /\ \A k \in 1..f.size : i < k /\ k < j => f.depth[i] < f.depth[k]

HasNext(f, i) == \E j \in 1..f.size : IsNext(f, i, j)

HasChild(f, i) == i + 1 <= f.size /\ f.depth[i + 1] = f.depth[i] + 1

(* The links of entry i; 0 is NULL. *)
NextOf(f, i)    == IF HasNext(f, i)
                     THEN CHOOSE j \in 1..f.size : IsNext(f, i, j)
                     ELSE 0
NextlvlOf(f, i) == IF HasChild(f, i) THEN i + 1 ELSE 0

(***************************************************************************)
(* Entry i ends its level and the entry after it is further up.  The dump  *)
(* and the messages say only that i has neither link, not how many levels  *)
(* end with it.                                                            *)
(***************************************************************************)
EndsLevel(f, i) == i + 1 <= f.size /\ f.depth[i + 1] < f.depth[i]

(***************************************************************************)
(* The lists whose levels end one at a time, and not with an empty group.  *)
(***************************************************************************)
EndsOneLevelAtATime(f) ==
  \A i \in 1..f.size : EndsLevel(f, i) =>
     /\ f.depth[i + 1] + 1 = f.depth[i]
     /\ f.type[i] # "GROUP"

=============================================================================
