----------------------------- MODULE MCVarLinks -----------------------------
(***************************************************************************)
(* VarLinks with a few names and the paths of up to MaxDepth of them, and  *)
(* freeing the list after any of its calls.                                *)
(***************************************************************************)
EXTENDS VarLinks

CONSTANT MaxDepth   \* the length of the paths

MCSymmetry == Permutations(Names)

MCPaths == UNION {[1..d -> Names] : d \in 0..MaxDepth}

-----------------------------------------------------------------------------
(***************************************************************************)
(* rh4nvarFreeFork: from the last entry of a level back along prev to the  *)
(* first one, and each time what is below a group.  After more steps than  *)
(* there are entries it is not going to arrive.                            *)
(***************************************************************************)
RECURSIVE FreeBack(_, _, _)
FreeFork(fork, steps) == IF fork = 0 THEN <<>> ELSE FreeBack(LastOf(fork), fork, steps)

FreeBack(e, fork, steps) ==
  IF e = 0 \/ steps = 0 THEN <<"astray">>
  ELSE <<e>> \o (IF type[e] = "GROUP" THEN FreeFork(nextlvl[e], steps - 1) ELSE <<>>)
             \o (IF e = fork THEN <<>> ELSE FreeBack(prev[e], fork, steps - 1))

(***************************************************************************)
(* Freeing the list frees every entry, none twice, and does not leave the  *)
(* list by a prev that was not kept.                                       *)
(***************************************************************************)
FreedOnce ==
  LET freed == FreeFork(anker, Len(name))
  IN Len(freed) = Len(name) /\ ToSet(freed) = Allocated
=============================================================================
