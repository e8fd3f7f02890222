------------------------------ MODULE VarTree ------------------------------
(***************************************************************************)
(* The operations of the variable library on the levels of a list.         *)
(*                                                                         *)
(* The entries of a list are numbered in the order in which they were      *)
(* created.  A list t is the name and the type of every entry and, for the *)
(* list itself (Root) and for every entry, the sequence of the entries on  *)
(* the level below: what following anker or nextlvl, and then next, meets. *)
(* Module VarLinks has the links themselves.                               *)
(***************************************************************************)
EXTENDS VarForest, SequencesExt

Root == 0
NoGroup == <<>>    \* pgroupname == NULL; otherwise the sequence of its name

NewList == [kids |-> [g \in {Root} |-> <<>>], name |-> <<>>, type |-> <<>>]

Entries(t) == 1..Len(t.name)

(***************************************************************************)
(* rh4nvarSearchVarRef: the first entry of the level at that has the name. *)
(***************************************************************************)
Named(t, at, nm) == {i \in 1..Len(t.kids[at]) : t.name[t.kids[at][i]] = nm}

SearchRet(t, at, nm) ==
  IF t.kids[at] = <<>> THEN "VAR_PTR_ERR"
  ELSE IF Named(t, at, nm) = {} THEN "UNKOWN_VAR"
  ELSE "OK"

First(t, at, nm) ==
  t.kids[at][CHOOSE i \in Named(t, at, nm) : \A j \in Named(t, at, nm) : i <= j]

Search(t, at, nm) ==
  [ret |-> SearchRet(t, at, nm),
   var |-> IF SearchRet(t, at, nm) = "OK" THEN First(t, at, nm) ELSE Root]

(* The way down a path of group names; var is where it has led. *)
WalkStep(t, w, nm) == IF w.ret = "OK" THEN Search(t, w.var, nm) ELSE w

Walk(t, at, path) ==
  LET w[i \in 0..Len(path)] == IF i = 0 THEN [ret |-> "OK", var |-> at]
                               ELSE WalkStep(t, w[i - 1], path[i])
  IN w[Len(path)]

(* The level that rh4nvarGetRef looks at: at, or the group grp in it. *)
GroupIn(t, at, grp) ==
  IF grp = NoGroup THEN [ret |-> "OK", var |-> at]
  ELSE LET g == Search(t, at, grp[1])
       IN IF g.ret = "OK" /\ t.type[g.var] # "GROUP"
            THEN [ret |-> "UNKOWN_VAR", var |-> Root] ELSE g

GetRef(t, at, grp, nm) ==
  LET g == GroupIn(t, at, grp)
  IN IF g.ret = "OK" THEN Search(t, g.var, nm) ELSE g

GetRef_m(t, path, nm) ==
  LET w == Walk(t, Root, path)
  IN IF w.ret = "OK" THEN Search(t, w.var, nm) ELSE w

Exist(t, at, grp, nm) == GetRef(t, at, grp, nm).ret = "OK"

-----------------------------------------------------------------------------
(* The list with a new entry at the end of a level. *)
Added(t, at, nm, tp) ==
  LET e == Len(t.name) + 1
  IN [name |-> Append(t.name, nm),
      type |-> Append(t.type, tp),
      kids |-> [g \in Root..e |-> IF g = e THEN <<>>
                                  ELSE IF g = at THEN Append(t.kids[g], e)
                                  ELSE t.kids[g]]]

(* The list with a top level entry moved to the end of the level of a group. *)
PositionOf(t, e) == CHOOSE i \in 1..Len(t.kids[Root]) : t.kids[Root][i] = e

Moved(t, to, e) ==
  [t EXCEPT !.kids = [g \in DOMAIN t.kids |->
     IF g = Root THEN RemoveAt(t.kids[g], PositionOf(t, e))
     ELSE IF g = to THEN Append(t.kids[g], e)
     ELSE t.kids[g]]]

(* rh4nvarCreatenewVariable in the list that begins at the level at. *)
Create(t, at, grp, nm, tp) ==
  LET g == GroupIn(t, at, grp)
  IN IF Exist(t, at, grp, nm) THEN [ret |-> "VAR_EXISTS", list |-> t]
     ELSE IF g.ret # "OK" THEN [ret |-> g.ret, list |-> t]
     ELSE [ret |-> "OK", list |-> Added(t, g.var, nm, tp)]

(***************************************************************************)
(* rh4nvarCreatenewVariable_m.  The last group of the path is left to      *)
(* rh4nvarCreatenewVariable.  In an empty list the path is not looked at.  *)
(***************************************************************************)
Create_m(t, path, nm, tp) ==
  IF t.kids[Root] = <<>> THEN Create(t, Root, NoGroup, nm, tp)
  ELSE IF path = <<>> THEN Create(t, Root, NoGroup, nm, tp)
  ELSE LET w == Walk(t, Root, Front(path))
       IN IF w.ret # "OK" THEN [ret |-> w.ret, list |-> t]
          ELSE Create(t, w.var, <<Last(path)>>, nm, tp)

MoveVarToGroup(t, nm, grp) ==
  LET g == Search(t, Root, grp)
      v == Search(t, Root, nm)
  IN IF g.ret # "OK" THEN [ret |-> g.ret, list |-> t]
     ELSE IF t.type[g.var] # "GROUP" THEN [ret |-> "FORMAT_ERR", list |-> t]
     ELSE IF v.ret # "OK" THEN [ret |-> v.ret, list |-> t]
     ELSE [ret |-> "OK", list |-> Moved(t, g.var, v.var)]

(* The variable is looked up by its name, on the top level. *)
MoveVarToGroup_m(t, nm, path) ==
  LET g == Walk(t, Root, path)
      v == Search(t, Root, nm)
  IN IF g.ret # "OK" THEN [ret |-> g.ret, list |-> t]
     ELSE IF v.ret # "OK" THEN [ret |-> v.ret, list |-> t]
     ELSE [ret |-> "OK", list |-> Moved(t, g.var, v.var)]

GroupExist_m(t, path, nm) ==
  LET r == GetRef_m(t, path, nm) IN r.ret = "OK" /\ t.type[r.var] = "GROUP"
=============================================================================
