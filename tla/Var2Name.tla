------------------------------ MODULE Var2Name ------------------------------
(***************************************************************************)
(* How the user exits find the names of Natural's parameters, which arrive *)
(* as a row of variables without names.                                    *)
(*                                                                         *)
(* RHGENJS reads the row into a list of variables with temporary names and *)
(* renames and moves them along the lines of a structure (rh4nv2nStart).   *)
(* RHGETBO and RHGETUO make a table of name, group and position from the   *)
(* same lines (rh4nv2nStartPosition) and put the variables of the request  *)
(* into the parameters by that table (rh4nnatPutParms).  RHGETBV and       *)
(* RHGETUV do the same with a table of one row.                            *)
(*                                                                         *)
(* The name of a line is its number, as names are unique in a structure.   *)
(***************************************************************************)
EXTENDS VarTree, LdaLines

CONSTANTS
  Areas,      \* the local data areas, as texts; the parser accepts them
  TempName(_) \* the name of a parameter between readout and renaming

VARIABLES
  pc,       \* where the user exit is
  exit,     \* which user exit it is
  area,     \* the text of the local data area
  struct,   \* the name in the formatting string
  unread,   \* the parameters of a type that the readout passes over
  body,     \* the variables of the request
  list,     \* RHGENJS: the list of the parameters
  nat,      \* cur_nat_set, an entry of list
  lda,      \* cur_lda_set or hptr, a line
  parents,  \* parents.groups: the names of the groups around lda
  pos,      \* RHGETBO: the table
  done,     \* how many rows of the table have been put
  parm,     \* what the parameters hold: an entry of body, or Unset
  ret       \* what the user exit returns

input == <<exit, area, struct, unread, body>>
vars == <<pc, input, list, nat, lda, parents, pos, done, parm, ret>>

NULL == 0
Unset == 0

-----------------------------------------------------------------------------
(* The line stands below a redefinition; Natural passes no such variable.  *)
IsRedefined(text, i) ==
  \E r \in 1..Len(text) : text[r].kind = "redefine" /\ r < i /\
    \A j \in 1..Len(text) :
      r < j /\ j <= i /\ text[j].kind # "note" => text[j].level > text[r].level

IsInStructure(text, h, i) ==
  h < i /\ \A j \in 1..Len(text) :
    h < j /\ j <= i /\ text[j].kind # "note" => text[j].level > text[h].level

(* The variables of the structure at line h, whatever the parser keeps, in *)
(* the order of the lines: this is what Natural passes to the user exit.   *)
Passed(text, h) ==
  SelectSeq([i \in 1..Len(text) |-> i],
            LAMBDA i : text[i].kind = "variable" /\ IsInStructure(text, h, i)
                       /\ ~IsRedefined(text, i))

(* RHGETBV is called with one variable, which need not be in any area. *)
Parms == IF exit = "RHGETBV" THEN <<NULL>>
         ELSE IF struct \in 1..Len(area) THEN Passed(area, struct) ELSE <<>>

-----------------------------------------------------------------------------
(* The groups of the structure around line i, from the outside. *)
PathTo(text, h, i) ==
  SelectSeq([j \in 1..Len(text) |-> j],
            LAMBDA j : text[j].kind = "group" /\ IsInStructure(text, h, j)
                       /\ IsInStructure(text, j, i))

Innermost(path) == IF path = <<>> THEN NoGroup ELSE <<Last(path)>>

(***************************************************************************)
(* The requests that clients send: the structure without some variable, as *)
(* it is or with every group taken out of the groups around it.            *)
(***************************************************************************)
Fill(text, h, left, paths) ==
  FoldLeft(LAMBDA t, i :
             IF i = left \/ ~IsInStructure(text, h, i) \/ IsRedefined(text, i) THEN t
             ELSE CASE text[i].kind = "group" -> Create_m(t, paths[i], i, "GROUP").list
                    [] text[i].kind = "variable" -> Create_m(t, paths[i], i, "STRING").list
                    [] OTHER -> t,
           NewList, [i \in 1..Len(text) |-> i])

Requests(text, h) ==
  LET lefts == {0} \cup {i \in 1..Len(text) : text[i].kind = "variable"}
      nested == [i \in 1..Len(text) |-> PathTo(text, h, i)]
      lifted == [i \in 1..Len(text) |->
                   IF text[i].kind = "group" THEN <<>> ELSE Innermost(PathTo(text, h, i))]
  IN IF h > Len(text) THEN {NewList}
     ELSE {Fill(text, h, left, nested) : left \in lefts}
            \cup {Fill(text, h, 0, lifted)}

(***************************************************************************)
(* rh4nv2ncountVarsinLDAGroup goes down at groups only: a redefinition is  *)
(* passed over, and what hangs below a variable, as its head was ignored,  *)
(* is not met.                                                             *)
(***************************************************************************)
Counted(text, h) ==
  {i \in KeptLines(text) :
     /\ text[i].kind = "variable"
     /\ IsBelow(text, h, i)
     /\ \A r \in KeptLines(text) :
          IsBelow(text, h, r) /\ r < i /\ IsBelow(text, r, i) => text[r].kind = "group"}

(* rh4nv2nSearchTargetStruct: a line of the top level with the name. *)
OnTop(text, h) == h \in KeptLines(text) /\ text[h].level = text[FirstLine(text)].level

FindsStruct == OnTop(area, struct) /\ area[struct].kind = "group"

-----------------------------------------------------------------------------
Init ==
  /\ area \in Areas
  /\ struct \in 1..(Len(area) + 1)
  /\ \/ /\ exit = "RHGENJS"
        /\ unread \in {{}} \cup {{p} : p \in 1..Len(Parms)}
        /\ body = NewList
     \/ /\ exit \in {"RHGETBO", "RHGETBV"}
        /\ unread = {}
        /\ body \in Requests(area, struct)
  /\ pc = "start"
  /\ list = NewList
  /\ nat = NULL
  /\ lda = NULL
  /\ parents = <<>>
  /\ pos = <<>>
  /\ done = 0
  /\ ret = "OK"
  /\ parm = [p \in 1..Len(Parms) |-> Unset]

Return(r) == pc' = "returned" /\ ret' = r

(***************************************************************************)
(* RHGENJS: rh4nnatStartVariableReadout makes a variable of every          *)
(* parameter whose type it has a handler for, and of the others none.      *)
(***************************************************************************)
IsRead(p) == p \notin unread

Readout ==
  /\ pc = "start"
  /\ exit = "RHGENJS"
  /\ list' = FoldLeft(LAMBDA t, p :
                        IF IsRead(p) THEN Create(t, Root, NoGroup, TempName(p), "STRING").list
                        ELSE t,
                      NewList, [p \in 1..Len(Parms) |-> p])
  /\ pc' = "search"
  /\ UNCHANGED <<input, nat, lda, parents, pos, done, parm, ret>>

(* Mutant: the numbers are not compared. *)
StartUncounted ==
  /\ pc = "search"
  /\ IF ~FindsStruct
       THEN Return("STRUCT_ERR") /\ UNCHANGED <<nat, lda>>
     ELSE /\ pc' = "matching"
          /\ lda' = LineBelow(area, struct)
          /\ nat' = IF list.kids[Root] = <<>> THEN NULL ELSE list.kids[Root][1]
          /\ UNCHANGED ret
  /\ UNCHANGED <<input, list, parents, pos, done, parm>>

(* rh4nv2nStart: find the structure, compare the numbers, begin. *)
Start ==
  /\ pc = "search"
  /\ IF ~FindsStruct
       THEN Return("STRUCT_ERR") /\ UNCHANGED <<nat, lda>>
     ELSE IF Len(list.kids[Root]) # Cardinality(Counted(area, struct))
       THEN Return("LDA_NAT_MISSMATCH") /\ UNCHANGED <<nat, lda>>
     ELSE /\ pc' = "matching"
          /\ lda' = LineBelow(area, struct)
          /\ nat' = IF list.kids[Root] = <<>> THEN NULL ELSE list.kids[Root][1]
          /\ UNCHANGED ret
  /\ UNCHANGED <<input, list, parents, pos, done, parm>>

(* The entry in the next link of an entry of the top level. *)
After(t, e) ==
  LET top == t.kids[Root]
      i   == CHOOSE i \in 1..Len(top) : top[i] = e
  IN IF i < Len(top) THEN top[i + 1] ELSE NULL

At(kind) == lda # NULL /\ area[lda].kind = kind

-----------------------------------------------------------------------------
(* rh4nv2nMatchNames, one line at a time. *)

(* Mutant: what stands below a redefinition counts as variables. *)
EnterRedefine ==
  /\ pc \in {"matching", "positions"}
  /\ At("redefine")
  /\ lda' = LineBelow(area, lda)
  /\ parents' = Append(parents, lda)
  /\ UNCHANGED <<pc, input, list, nat, pos, done, parm, ret>>

IgnoreRedefine ==
  /\ pc \in {"matching", "positions"}
  /\ At("redefine")
  /\ lda' = NextLine(area, lda)
  /\ UNCHANGED <<pc, input, list, nat, parents, pos, done, parm, ret>>

MatchGroup ==
  /\ pc = "matching"
  /\ At("group")
  /\ LET new == IF GroupExist_m(list, parents, lda) THEN [ret |-> "OK", list |-> list]
                ELSE Create_m(list, parents, lda, "GROUP")
     IN /\ list' = new.list
        /\ IF new.ret = "OK"
             THEN /\ parents' = Append(parents, lda)
                  /\ lda' = LineBelow(area, lda)
                  /\ UNCHANGED <<pc, ret>>
             ELSE Return(new.ret) /\ UNCHANGED <<parents, lda>>
  /\ UNCHANGED <<input, nat, pos, done, parm>>

Renamed(t, e, nm) == [t EXCEPT !.name[e] = nm]

NextBeforeMove(t, moved) == After(t, nat)

MatchVariable ==
  /\ pc = "matching"
  /\ At("variable")
  /\ IF nat = NULL THEN pc' = "crashed" /\ UNCHANGED <<list, nat, lda, ret>>
     ELSE LET named == Renamed(list, nat, lda)
              moved == IF parents = <<>> THEN [ret |-> "OK", list |-> named]
                       ELSE MoveVarToGroup_m(named, lda, parents)
          IN /\ list' = moved.list
             /\ IF moved.ret = "OK"
                  THEN /\ nat' = NextBeforeMove(named, moved.list)
                       /\ lda' = NextLine(area, lda)
                       /\ UNCHANGED <<pc, ret>>
                  ELSE Return(moved.ret) /\ UNCHANGED <<nat, lda>>
  /\ UNCHANGED <<input, parents, pos, done, parm>>

(***************************************************************************)
(* The end of a level.  The call returns to that for the level above,      *)
(* which ends as well, without an error, if no parameter is left.          *)
(***************************************************************************)
EndLevel ==
  /\ pc = "matching"
  /\ lda = NULL
  /\ IF parents = <<>> \/ nat = NULL
       THEN Return("OK") /\ UNCHANGED <<lda, parents>>
       ELSE /\ lda' = NextLine(area, Last(parents))
            /\ parents' = Front(parents)
            /\ UNCHANGED <<pc, ret>>
  /\ UNCHANGED <<input, list, nat, pos, done, parm>>

-----------------------------------------------------------------------------
(* RHGETBO: rh4nv2nStartPosition and rh4nv2nMatchPosition. *)
StartPosition ==
  /\ pc = "start"
  /\ exit = "RHGETBO"
  /\ IF FindsStruct
       THEN /\ pc' = "positions"
            /\ lda' = LineBelow(area, struct)
            /\ UNCHANGED ret
       ELSE Return("STRUCT_ERR") /\ UNCHANGED lda
  /\ UNCHANGED <<input, list, nat, parents, pos, done, parm>>

EnterGroup ==
  /\ pc = "positions"
  /\ At("group")
  /\ parents' = Append(parents, lda)
  /\ lda' = LineBelow(area, lda)
  /\ UNCHANGED <<pc, input, list, nat, pos, done, parm, ret>>

(* rh4nv2nSavePosition: only the innermost group is kept. *)
SavePosition ==
  /\ pc = "positions"
  /\ At("variable")
  /\ pos' = Append(pos, [name |-> lda, group |-> Innermost(parents), position |-> Len(pos) + 1])
  /\ lda' = NextLine(area, lda)
  /\ UNCHANGED <<pc, input, list, nat, parents, done, parm, ret>>

LeaveGroup ==
  /\ pc = "positions"
  /\ lda = NULL
  /\ IF parents = <<>>
       THEN pc' = "put" /\ UNCHANGED <<lda, parents>>
       ELSE /\ lda' = NextLine(area, Last(parents))
            /\ parents' = Front(parents)
            /\ UNCHANGED pc
  /\ UNCHANGED <<input, list, nat, pos, done, parm, ret>>

(***************************************************************************)
(* RHGETBV: the variable must be there; the table has one row.  The put is *)
(* that of RHGETBO, which passes over what it cannot put.                  *)
(***************************************************************************)
GetBodyVar(grp, nm) ==
  /\ pc = "start"
  /\ exit = "RHGETBV"
  /\ IF Exist(body, Root, grp, nm)
       THEN /\ pos' = <<[name |-> nm, group |-> grp, position |-> 1]>>
            /\ pc' = "put"
            /\ UNCHANGED ret
       ELSE Return("UNKOWN_VAR") /\ UNCHANGED pos
  /\ UNCHANGED <<input, list, nat, lda, parents, done, parm>>

(***************************************************************************)
(* rh4nnatPutParms, one row at a time: a parameter that Natural does not   *)
(* have ends it, after the rows before have been put; a variable that the  *)
(* request does not have is passed over.  Module NatParms has what a put   *)
(* does with the value.                                                    *)
(***************************************************************************)
Row == pos[done + 1]

InRequest(row) == GetRef(body, Root, row.group, row.name)

PutParm ==
  /\ pc = "put"
  /\ done < Len(pos)
  /\ IF Row.position > Len(Parms)
       THEN Return("NNI_ERR") /\ UNCHANGED <<done, parm>>
       ELSE LET ref == InRequest(Row)
            IN /\ parm' = IF ref.ret = "OK" /\ body.type[ref.var] # "GROUP"
                            THEN [parm EXCEPT ![Row.position] = ref.var] ELSE parm
               /\ done' = done + 1
               /\ UNCHANGED <<pc, ret>>
  /\ UNCHANGED <<input, list, nat, lda, parents, pos>>

EndPut ==
  /\ pc = "put"
  /\ done = Len(pos)
  /\ Return("OK")
  /\ UNCHANGED <<input, list, nat, lda, parents, pos, done, parm>>

Next ==
  \/ Readout
  \/ Start
  \/ IgnoreRedefine
  \/ MatchGroup
  \/ MatchVariable
  \/ EndLevel
  \/ StartPosition
  \/ EnterGroup
  \/ SavePosition
  \/ LeaveGroup
  \/ \E nm \in 1..Len(area), grp \in {NoGroup} \cup {<<g>> : g \in 1..Len(area)} : GetBodyVar(grp, nm)
  \/ PutParm
  \/ EndPut

Spec == Init /\ [][Next]_vars

-----------------------------------------------------------------------------
Succeeded(e) == exit = e /\ pc = "returned" /\ ret = "OK"

(* A declaration whose line is ignored. *)
LosesLine == \E i \in 1..Len(area) : area[i].kind # "note" /\ Ignored(area[i])

PathOf(i) == PathTo(area, struct, i)

(* The parameters whose types were read, in their order: the entries 1, 2, *)
(* and so on of the list.                                                  *)
ReadParms == SelectSeq([p \in 1..Len(Parms) |-> p], LAMBDA p : p \notin unread)

(***************************************************************************)
(* When rh4nv2nStart returns without an error, every parameter is found in *)
(* the list by the path of groups and the name that it has in the          *)
(* structure, it is that parameter, and the variables of each level are in *)
(* the order of the structure.  Only a number is compared before the       *)
(* renaming, and names are taken in order while every move takes an entry  *)
(* out of the list: that lasts for all lines.                              *)
(***************************************************************************)
HasItsName ==
  /\ pc # "crashed"
  /\ Succeeded("RHGENJS") /\ ~LosesLine =>
       /\ Len(ReadParms) = Len(Parms)
       /\ \A p \in 1..Len(Parms) :
            GetRef_m(list, PathOf(Parms[p]), Parms[p]) = [ret |-> "OK", var |-> p]
  /\ Succeeded("RHGENJS") =>
       \A g \in DOMAIN list.kids :
         \A i, j \in 1..Len(list.kids[g]) :
           i < j /\ list.type[list.kids[g][i]] # "GROUP" /\ list.type[list.kids[g][j]] # "GROUP"
             => list.name[list.kids[g][i]] < list.name[list.kids[g][j]]

(***************************************************************************)
(* A parameter of RHGETBO gets the value of the variable that has its      *)
(* name, if the parser kept the whole area, and gets one, if the request   *)
(* has it in the same place at most one group below the structure.  The    *)
(* parameter of RHGETBV gets that of the name the exit was called with,    *)
(* and nothing only where the request has an object.                       *)
(***************************************************************************)
GetsItsValue ==
  /\ exit = "RHGETBO" /\ ~LosesLine =>
       \A p \in 1..Len(Parms) :
         parm[p] # Unset => body.name[parm[p]] = Parms[p]
  /\ Succeeded("RHGETBO") /\ ~LosesLine =>
       \A p \in 1..Len(Parms) :
         LET path == PathOf(Parms[p])
         IN Len(path) < 2 /\ GetRef_m(body, path, Parms[p]).ret = "OK" => parm[p] # Unset
  /\ Succeeded("RHGETBV") =>
       LET asked == GetRef(body, Root, pos[1].group, pos[1].name).var
       IN parm[1] = IF body.type[asked] = "GROUP" THEN Unset ELSE asked
=============================================================================
