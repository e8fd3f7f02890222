------------------------------ MODULE VarLinks ------------------------------
(***************************************************************************)
(* The variable library on the links of a list: the same calls as in       *)
(* VarList, with every entry's next, nextlvl and prev.  It implements      *)
(* VarList.  Freeing a list is in module MCVarLinks.                       *)
(***************************************************************************)
EXTENDS ListCalls

VARIABLES
  anker,     \* varlist->anker, 0 when NULL
  next,      \* the links of every entry, 0 when NULL
  nextlvl,
  prev,
  name,
  type,
  call,      \* the last call
  ret        \* what it returned

links == <<anker, next, nextlvl, prev>>
vars == <<anker, next, nextlvl, prev, name, type, call, ret>>

Allocated == 1..Len(name)

(* The entries that following next from entry e meets. *)
Chain(e) ==
  LET chain[i \in 0..Len(name)] == IF i = 0 THEN <<>> ELSE <<i>> \o chain[next[i]]
  IN chain[e]

(* The entry at which the loop that follows next stops. *)
LastOf(e) == Last(Chain(e))

(* The first entry of a chain that has the name. *)
FirstOf(chain, nm) ==
  LET found == {i \in 1..Len(chain) : name[chain[i]] = nm}
  IN IF found = {} THEN [ret |-> "UNKOWN_VAR", var |-> 0]
     ELSE [ret |-> "OK", var |-> chain[CHOOSE i \in found : \A j \in found : i <= j]]

(* Mutant: the last entry of a level is not looked at. *)
SearchVarRefButLast(fork, nm) ==
  IF fork = 0 THEN [ret |-> "VAR_PTR_ERR", var |-> 0] ELSE FirstOf(Front(Chain(fork)), nm)

(* rh4nvarSearchVarRef from the entry fork on. *)
SearchVarRef(fork, nm) ==
  IF fork = 0 THEN [ret |-> "VAR_PTR_ERR", var |-> 0] ELSE FirstOf(Chain(fork), nm)

(* rh4nvarGetRef in the list whose anker is fork. *)
RefIn(fork, grp, nm) ==
  IF grp = NoGroup THEN SearchVarRef(fork, nm)
  ELSE LET g == SearchVarRef(fork, grp[1])
       IN IF g.ret # "OK" THEN g
          ELSE IF type[g.var] # "GROUP" THEN [ret |-> "UNKOWN_VAR", var |-> 0]
          ELSE IF nextlvl[g.var] = 0 THEN [ret |-> "VAR_PTR_ERR", var |-> 0]
          ELSE SearchVarRef(nextlvl[g.var], nm)

Fails(c, r) == call' = c /\ ret' = r /\ UNCHANGED <<links, name, type>>

New == Len(name) + 1

(* RH4NVAR_NEW and RH4NVAR_ENTRY_INIT, then the name and the type. *)
Allocate(nm, tp) ==
  /\ name' = Append(name, nm)
  /\ type' = Append(type, tp)
  /\ nextlvl' = Append(nextlvl, 0)

LinkedAfter(e) ==
  /\ next' = Append([next EXCEPT ![e] = New], 0)
  /\ prev' = Append(prev, e)

(* At the end of the level that begins at fork. *)
AppendTo(fork, nm, tp) ==
  /\ Allocate(nm, tp)
  /\ LinkedAfter(LastOf(fork))
  /\ UNCHANGED anker

(* As the first entry of the group g. *)
BeginGroup(g, nm, tp) ==
  /\ name' = Append(name, nm)
  /\ type' = Append(type, tp)
  /\ nextlvl' = Append([nextlvl EXCEPT ![g] = New], 0)
  /\ next' = Append(next, 0)
  /\ prev' = Append(prev, g)
  /\ UNCHANGED anker

(* As the first entry of the list. *)
BeginList(nm, tp) ==
  /\ Allocate(nm, tp)
  /\ next' = Append(next, 0)
  /\ prev' = Append(prev, 0)
  /\ anker' = New

Creates(c) == call' = c /\ ret' = "OK"

(***************************************************************************)
(* rh4nvarCreatenewVariable in the list whose anker is fork: the list      *)
(* itself, or the copy of it that rh4nvarCreatenewVariable_m has walked    *)
(* down.  Only the former may be empty when no group is given.             *)
(***************************************************************************)
CreateIn(fork, grp, nm, tp, c) ==
  LET g == SearchVarRef(fork, grp[1]) IN
  IF RefIn(fork, grp, nm).ret = "OK" THEN Fails(c, "VAR_EXISTS")
  ELSE IF grp = NoGroup
    THEN /\ Creates(c)
         /\ IF fork = 0 THEN BeginList(nm, tp) ELSE AppendTo(fork, nm, tp)
  ELSE IF g.ret # "OK" THEN Fails(c, g.ret)
  ELSE IF type[g.var] # "GROUP" THEN Fails(c, "UNKOWN_VAR")
  ELSE /\ Creates(c)
       /\ IF nextlvl[g.var] = 0 THEN BeginGroup(g.var, nm, tp)
                                ELSE AppendTo(nextlvl[g.var], nm, tp)

HasRoom == Len(name) < MaxEntries

CreatenewVariable(grp, nm, tp) ==
  /\ HasRoom
  /\ CreateIn(anker, grp, nm, tp, Call("rh4nvarCreatenewVariable", grp, nm))

(* The first entry of the level below an entry, or of the list. *)
Fork(e) == IF e = 0 THEN anker ELSE nextlvl[e]

(* Down the groups of a path; var is the last one. *)
WalkDown(path) ==
  LET w[i \in 0..Len(path)] ==
        IF i = 0 THEN [ret |-> "OK", var |-> 0]
        ELSE IF w[i - 1].ret = "OK" THEN SearchVarRef(Fork(w[i - 1].var), path[i])
        ELSE w[i - 1]
  IN w[Len(path)]

(* Mutant: the last group of the path is looked for at the top. *)
CreatenewVariableAtTop_m(path, nm, tp) ==
  LET c == Call("rh4nvarCreatenewVariable_m", path, nm)
  IN /\ HasRoom
     /\ IF anker = 0 \/ path = <<>> THEN CreateIn(anker, NoGroup, nm, tp, c)
        ELSE CreateIn(anker, <<Last(path)>>, nm, tp, c)

CreatenewVariable_m(path, nm, tp) ==
  LET c == Call("rh4nvarCreatenewVariable_m", path, nm)
      w == WalkDown(Front(path))
  IN /\ HasRoom
     /\ IF anker = 0 \/ path = <<>> THEN CreateIn(anker, NoGroup, nm, tp, c)
        ELSE IF w.ret # "OK" THEN Fails(c, w.ret)
        ELSE CreateIn(Fork(w.var), <<Last(path)>>, nm, tp, c)

(* Mutant: the entry behind the one that is taken out keeps its prev. *)
WithoutPrev(e) ==
  [anker |-> IF prev[e] = 0 THEN next[e] ELSE anker,
   next |-> [i \in Allocated |-> IF i = e THEN 0
                                 ELSE IF i = prev[e] THEN next[e] ELSE next[i]],
   prev |-> [prev EXCEPT ![e] = 0]]

(* Taking a top level entry out: what next and anker are then, and prev.   *)
Without(e) ==
  [anker |-> IF prev[e] = 0 THEN next[e] ELSE anker,
   next |-> [i \in Allocated |-> IF i = e THEN 0
                                 ELSE IF i = prev[e] THEN next[e] ELSE next[i]],
   prev |-> [i \in Allocated |-> IF i = e THEN 0
                                 ELSE IF i = next[e] THEN prev[e] ELSE prev[i]]]

(* Mutant: the group's level begins anew with the entry. *)
MoveToOverwrites(g, e) ==
  LET w == Without(e)
  IN /\ anker' = w.anker
     /\ nextlvl' = [nextlvl EXCEPT ![g] = e]
     /\ prev' = [w.prev EXCEPT ![e] = g]
     /\ next' = w.next
     /\ UNCHANGED <<name, type>>

(* Mutant: the entry becomes the first one of the group. *)
MoveToFirst(g, e) ==
  LET w == Without(e)
      first == nextlvl[g]
  IN /\ anker' = w.anker
     /\ nextlvl' = [nextlvl EXCEPT ![g] = e]
     /\ next' = [w.next EXCEPT ![e] = first]
     /\ prev' = [i \in Allocated |-> IF i = e THEN g ELSE IF i = first THEN e ELSE w.prev[i]]
     /\ UNCHANGED <<name, type>>

(* _rh4nvarmoveToGroup *)
MoveTo(g, e) ==
  LET w == Without(e)
      last == LastOf(nextlvl[g])
  IN /\ anker' = w.anker
     /\ IF nextlvl[g] = 0
          THEN /\ nextlvl' = [nextlvl EXCEPT ![g] = e]
               /\ prev' = [w.prev EXCEPT ![e] = g]
               /\ next' = w.next
          ELSE /\ next' = [w.next EXCEPT ![last] = e]
               /\ prev' = [w.prev EXCEPT ![e] = last]
               /\ UNCHANGED nextlvl
     /\ UNCHANGED <<name, type>>

IsVariable(nm) ==
  LET v == SearchVarRef(anker, nm)
  IN v.ret = "OK" => type[v.var] # "GROUP"

MoveToGroup(nm, grp) ==
  LET c == Call("rh4nvarMoveVarToGroup", <<grp>>, nm)
      g == SearchVarRef(anker, grp)
      v == SearchVarRef(anker, nm)
  IN /\ IsVariable(nm)
     /\ IF g.ret # "OK" THEN Fails(c, g.ret)
        ELSE IF type[g.var] # "GROUP" THEN Fails(c, "FORMAT_ERR")
        ELSE IF v.ret # "OK" THEN Fails(c, v.ret)
        ELSE Creates(c) /\ MoveTo(g.var, v.var)

MoveToGroup_m(nm, path) ==
  LET c == Call("rh4nvarMoveVarToGroup_m", path, nm)
      g == WalkDown(path)
      v == SearchVarRef(anker, nm)
  IN /\ IsVariable(nm)
     /\ path # <<>> /\ (g.ret = "OK" => type[g.var] = "GROUP")
     /\ IF g.ret # "OK" THEN Fails(c, g.ret)
        ELSE IF v.ret # "OK" THEN Fails(c, v.ret)
        ELSE Creates(c) /\ MoveTo(g.var, v.var)

Init ==
  /\ anker = 0
  /\ next = <<>> /\ nextlvl = <<>> /\ prev = <<>>
  /\ name = <<>> /\ type = <<>>
  /\ call = NoCall
  /\ ret = "OK"

Next ==
  \/ \E grp \in Groups, nm \in Names, tp \in NewTypes : CreatenewVariable(grp, nm, tp)
  \/ \E path \in Paths, nm \in Names, tp \in NewTypes : CreatenewVariable_m(path, nm, tp)
  \/ \E nm, grp \in Names : MoveToGroup(nm, grp)
  \/ \E nm \in Names, path \in Paths : MoveToGroup_m(nm, path)

Spec == Init /\ [][Next]_vars

-----------------------------------------------------------------------------
(***************************************************************************)
(* The links are those of the levels that VarList has: every call does to  *)
(* the levels what VarList says, and returns the same.                     *)
(***************************************************************************)
List == [name |-> name, type |-> type, kids |-> [g \in 0..Len(name) |-> Chain(Fork(g))]]

Levels == INSTANCE VarList WITH list <- List

ImplementsVarList == Levels!Spec

(***************************************************************************)
(* The levels are a tree: no entry is lost and none is in two places, and  *)
(* every level can be reached from the top.                                *)
(***************************************************************************)
IsTree == Levels!IsTree

(***************************************************************************)
(* A variable that has been created is found where the caller created it,  *)
(* and is not hidden by another of the same name.                          *)
(***************************************************************************)
CreatedIsFound == Levels!CreatedIsFound

(***************************************************************************)
(* What is created gets no name that its level has already, though moving  *)
(* variables can bring two of one name together.                           *)
(***************************************************************************)
NewNameIsNew == Levels!NewNameIsNew
=============================================================================
