---------------------------- MODULE MCMessaging ----------------------------
(***************************************************************************)
(* Messaging on the lists of up to MaxSize entries, sent before or after a *)
(* list of each kind that behaves differently at its end.                  *)
(***************************************************************************)
EXTENDS Messaging

Nobody == <<>>      \* the empty name
MCNames == {<<>>, <<65>>, <<66, 66>>}

Group == <<[type |-> "GROUP", length |-> 0, data |-> <<>>]>>
IntVar == <<[type |-> "INTEGER", length |-> 4, data |-> <<6, 0, 0, 6>>]>>
NoString == <<[type |-> "STRING", length |-> 0, data |-> <<>>]>>
NullVar == <<[type |-> "NULL", length |-> -1, data |-> <<>>]>>
Array(n) == [type |-> "ARRAY", length |-> n, data |-> <<>>]

(* An array of two rows, the first with two elements and the second empty. *)
Matrix == <<Array(2), Array(2)>> \o <<IntVar[1], NoString[1]>> \o <<Array(0)>>

Leaves == {IntVar, Matrix, NoString}

RECURSIVE Shapes(_)
Shapes(n) ==
  IF n = 0 THEN {<<>>}
  ELSE IF n = 1 THEN {<<1>>}
  ELSE UNION {{Append(s, d) : d \in 1..s[n - 1] + 1} : s \in Shapes(n - 1)}

(* An entry in front of a deeper one is a group. *)
Fitting(s, v) ==
  \A i \in 1..Len(s) : i < Len(s) /\ s[i + 1] = s[i] + 1 => v[i] = Group

List(s, nm, v) ==
  [size |-> Len(s), depth |-> s, name |-> nm, cells |-> v,
   type |-> [i \in 1..Len(s) |-> v[i][1].type]]

Name(i, k) == IF i = k THEN <<>> ELSE IF i % 2 = 0 THEN <<66, 66>> ELSE <<65>>
Named(n) == {[i \in 1..n |-> Name(i, 0)]}
Namings(n) == {[i \in 1..n |-> Name(i, k)] : k \in 0..n}

Lists(n, namings, leaves) ==
  {f \in {List(s, nm, v) : s \in Shapes(n), nm \in namings, v \in [1..n -> leaves \cup {Group}]} :
     Fitting(f.depth, f.cells)}

Empty == List(<<>>, <<>>, <<>>)
OneInt == List(<<1>>, <<<<65>>>>, <<IntVar>>)
GroupWithInt == List(<<1, 2>>, <<<<65>>, <<66, 66>>>>, <<Group, IntVar>>)

SomeLists == {Empty, OneInt, GroupWithInt}

Pairs(all) == {<<f, g>> : f \in all, g \in SomeLists} \cup {<<f, g>> : f \in SomeLists, g \in all}

TransfersOf(all, isSlow) ==
  {[lists |-> p, slow |-> isSlow, carriesOn |-> ~isSlow] : p \in Pairs(all)}

(* Up to three entries, one of them without a name or some without a       *)
(* value, and a sender that goes on; up to two, and a peer that is slow.   *)
InTime == UNION {Lists(n, Namings(n), Leaves) \cup Lists(n, Named(n), Leaves \cup {NullVar}) : n \in 0..3}
Late == UNION {Lists(n, Namings(n), Leaves \cup {NullVar}) : n \in 0..2}

MCTransfers == TransfersOf(InTime, FALSE) \cup TransfersOf(Late, TRUE)

LateTransfers == TransfersOf(UNION {Lists(n, Named(n), Leaves \cup {NullVar}) : n \in 0..2}, TRUE)
=============================================================================
