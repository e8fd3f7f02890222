------------------------------ MODULE VarList ------------------------------
(***************************************************************************)
(* A variable list under any sequence of calls that create variables and   *)
(* groups and move variables into groups.                                  *)
(***************************************************************************)
EXTENDS ListCalls

VARIABLES
  list,   \* the variable list
  call,   \* the last call
  ret     \* what it returned

vars == <<list, call, ret>>

Init ==
  /\ list = NewList
  /\ call = NoCall
  /\ ret = "OK"

Done(c, r) ==
  /\ call' = c
  /\ ret' = r.ret
  /\ list' = r.list

HasRoom == Len(list.name) < MaxEntries

CreatenewVariable(grp, nm, tp) ==
  /\ HasRoom
  /\ Done(Call("rh4nvarCreatenewVariable", grp, nm), Create(list, Root, grp, nm, tp))

CreatenewVariable_m(path, nm, tp) ==
  /\ HasRoom
  /\ Done(Call("rh4nvarCreatenewVariable_m", path, nm), Create_m(list, path, nm, tp))

(* No caller moves a group. *)
IsVariable(nm) ==
  LET v == Search(list, Root, nm)
  IN v.ret = "OK" => list.type[v.var] # "GROUP"

MoveToGroup(nm, grp) ==
  /\ IsVariable(nm)
  /\ Done(Call("rh4nvarMoveVarToGroup", <<grp>>, nm), MoveVarToGroup(list, nm, grp))

(* No caller gives a path that is empty or that ends at a variable. *)
LeadsToGroup(path) ==
  LET g == Walk(list, Root, path)
  IN path # <<>> /\ (g.ret = "OK" => list.type[g.var] = "GROUP")

MoveToGroup_m(nm, path) ==
  /\ IsVariable(nm)
  /\ LeadsToGroup(path)
  /\ Done(Call("rh4nvarMoveVarToGroup_m", path, nm), MoveVarToGroup_m(list, nm, path))

Next ==
  \/ \E grp \in Groups, nm \in Names, tp \in NewTypes : CreatenewVariable(grp, nm, tp)
  \/ \E path \in Paths, nm \in Names, tp \in NewTypes : CreatenewVariable_m(path, nm, tp)
  \/ \E nm, grp \in Names : MoveToGroup(nm, grp)
  \/ \E nm \in Names, path \in Paths : MoveToGroup_m(nm, path)

Spec == Init /\ [][Next]_vars

-----------------------------------------------------------------------------
(***************************************************************************)
(* No entry is lost and none is in two places: every entry is at exactly   *)
(* one position of exactly one level.                                      *)
(***************************************************************************)
InOnePlace ==
  \A e \in Entries(list) :
    \E g \in Root..Len(list.name) : \E i \in 1..Len(list.kids[g]) :
      /\ list.kids[g][i] = e
      /\ \A h \in Root..Len(list.name) : \A j \in 1..Len(list.kids[h]) :
           list.kids[h][j] = e => h = g /\ j = i

(***************************************************************************)
(* Every level can be reached from the top: only groups have a level below *)
(* them, and a group is younger than the group it is in.                   *)
(***************************************************************************)
LevelsReachable ==
  \A g \in Entries(list) : \A i \in 1..Len(list.kids[g]) :
    /\ list.type[g] = "GROUP"
    /\ list.type[list.kids[g][i]] = "GROUP" => g < list.kids[g][i]

(* The levels are a tree. *)
IsTree == InOnePlace /\ LevelsReachable

(***************************************************************************)
(* A variable that has been created is found where the caller created it,  *)
(* and is not hidden by another of the same name.  The first variable of a *)
(* list is at the top level, whatever path it was created with.            *)
(***************************************************************************)
CreatedIsFound ==
  ret = "OK" =>
    /\ call.fn = "rh4nvarCreatenewVariable" =>
         GetRef(list, Root, call.path, call.name) = [ret |-> "OK", var |-> Len(list.name)]
    /\ call.fn = "rh4nvarCreatenewVariable_m" =>
         GetRef_m(list, IF Len(list.name) = 1 THEN <<>> ELSE call.path, call.name)
           = [ret |-> "OK", var |-> Len(list.name)]

(***************************************************************************)
(* What is created gets no name that its level has already, though moving  *)
(* variables can bring two of one name together.                           *)
(***************************************************************************)
NewNameIsNew ==
  [][Len(list'.name) > Len(list.name) =>
       \A g \in DOMAIN list.kids : \A i, j \in 1..Len(list'.kids[g]) :
         list'.kids[g][i] = Len(list'.name) /\ i # j
           => list'.name[list'.kids[g][j]] # list'.name[Len(list'.name)]]_vars
=============================================================================
