---------------------------- MODULE ListTransfer ----------------------------
(***************************************************************************)
(* What sending variable lists one after another promises: the entries of  *)
(* a list arrive one by one, in order; a list is finished only when all of *)
(* its entries have arrived, and only then does the next one begin.  The   *)
(* transfer may break off at any time.                                     *)
(***************************************************************************)
EXTENDS Naturals, Sequences

VARIABLES
  sizes,      \* the number of entries of every list
  finished,   \* how many lists have been received
  arrived,    \* how many entries of the next one have been received
  broken      \* whether the transfer has broken off

vars == <<sizes, finished, arrived, broken>>

Init ==
  /\ sizes \in Seq(Nat)
  /\ finished = 0
  /\ arrived = 0
  /\ broken = FALSE

Open == ~broken /\ finished < Len(sizes)

Arrive ==
  /\ Open
  /\ arrived < sizes[finished + 1]
  /\ arrived' = arrived + 1
  /\ UNCHANGED <<sizes, finished, broken>>

Finish ==
  /\ Open
  /\ arrived = sizes[finished + 1]
  /\ finished' = finished + 1
  /\ arrived' = 0
  /\ UNCHANGED <<sizes, broken>>

BreakOff ==
  /\ Open
  /\ broken' = TRUE
  /\ UNCHANGED <<sizes, finished, arrived>>

Next == Arrive \/ Finish \/ BreakOff

Spec == Init /\ [][Next]_vars
=============================================================================
