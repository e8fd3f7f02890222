------------------------------ MODULE ListCalls -----------------------------
(***************************************************************************)
(* The calls of the variable library that VarList and VarLinks both make:  *)
(* VarList on the levels of a list, VarLinks on its links.                 *)
(***************************************************************************)
EXTENDS VarTree

CONSTANTS
  MaxEntries,   \* bound: how many entries are created
  Paths,        \* the group paths that callers give
  NewTypes      \* the types of what they create

ASSUME MaxEntriesAssumption == MaxEntries \in Nat
ASSUME PathsAssumption == Paths \subseteq Seq(Names)
ASSUME NewTypesAssumption == NewTypes \subseteq VarTypes

Groups == {NoGroup} \cup {<<nm>> : nm \in Names}
Call(fn, path, nm) == [fn |-> fn, path |-> path, name |-> nm]
NoCall == [fn |-> "rh4nvarInitList"]
=============================================================================
