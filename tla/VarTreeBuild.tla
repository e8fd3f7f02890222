---------------------------- MODULE VarTreeBuild ----------------------------
(***************************************************************************)
(* Rebuilding a variable list from its entries and their flags.            *)
(*                                                                         *)
(* The file loader (rh4nvarsPutInNewNode) and the message receiver         *)
(* (rh4n_messaging_recvVarlistAddNode) hold two copies of one algorithm:   *)
(* an entry goes below or beside the entry before it when the flags of     *)
(* THAT entry say so, and otherwise beside the first group without a       *)
(* successor that is met on the way back along prev.  The way back is a    *)
(* loop in the code, and one step per round here.                          *)
(***************************************************************************)
EXTENDS VarForest

VARIABLES
  anker,      \* varlist->anker, 0 when NULL
  next,       \* the next link of every entry
  nextlvl,    \* the nextlvl link of every entry
  prev,       \* the prev link of every entry
  type,       \* var.type of the entries read so far
  name,       \* name of the entries read so far
  newNode,    \* the entry just read
  lastNode,   \* the entry read before it, 0 at the start
  flags,      \* the flags read with newNode
  prevFlags,  \* the flags read with lastNode
  put,        \* where PutInNewNode stands: "idle", "put" or "climb"
  hptr        \* the loop variable of the way back

links == <<anker, next, nextlvl, prev>>
entries == <<type, name>>
cursor == <<newNode, lastNode, flags, prevFlags>>
buildVars == <<anker, next, nextlvl, prev, type, name,
               newNode, lastNode, flags, prevFlags, put, hptr>>

Flags == [next : BOOLEAN, nextlvl : BOOLEAN]
NoFlags == [next |-> FALSE, nextlvl |-> FALSE]

(* A list with room for n entries of which none has been read. *)
BuildInit(n) ==
  /\ anker = 0
  /\ next    = [i \in 1..n |-> 0]
  /\ nextlvl = [i \in 1..n |-> 0]
  /\ prev    = [i \in 1..n |-> 0]
  /\ type = <<>>
  /\ name = <<>>
  /\ newNode = 0
  /\ lastNode = 0
  /\ flags = NoFlags
  /\ prevFlags = NoFlags
  /\ put = "idle"
  /\ hptr = 0

(* The next list is begun, with new local variables. *)
BuildAgain(n) ==
  /\ anker' = 0
  /\ next'    = [i \in 1..n |-> 0]
  /\ nextlvl' = [i \in 1..n |-> 0]
  /\ prev'    = [i \in 1..n |-> 0]
  /\ type' = <<>>
  /\ name' = <<>>
  /\ newNode' = 0
  /\ lastNode' = 0
  /\ flags' = NoFlags
  /\ prevFlags' = NoFlags
  /\ put' = "idle"
  /\ hptr' = 0

(* A new entry has been read completely, with its flags. *)
NewEntry(nm, tp, fl) ==
  /\ put = "idle"
  /\ newNode' = newNode + 1
  /\ name' = Append(name, nm)
  /\ type' = Append(type, tp)
  /\ prevFlags' = flags
  /\ flags' = fl
  /\ put' = "put"
  /\ UNCHANGED <<links, lastNode, hptr>>

(* PutInNewNode has returned and the caller does lastNode = newNode. *)
Placed == /\ put' = "idle"
          /\ lastNode' = newNode
          /\ hptr' = 0
          /\ UNCHANGED <<entries, newNode, flags, prevFlags>>

PutFirst ==
  /\ put = "put"
  /\ lastNode = 0
  /\ anker' = newNode
  /\ UNCHANGED <<next, nextlvl, prev>>
  /\ Placed

PutBelow ==
  /\ put = "put"
  /\ lastNode # 0
  /\ prevFlags.nextlvl
  /\ prev' = [prev EXCEPT ![newNode] = lastNode]
  /\ nextlvl' = [nextlvl EXCEPT ![lastNode] = newNode]
  /\ UNCHANGED <<anker, next>>
  /\ Placed

PutBeside ==
  /\ put = "put"
  /\ lastNode # 0
  /\ ~prevFlags.nextlvl
  /\ prevFlags.next
  /\ prev' = [prev EXCEPT ![newNode] = lastNode]
  /\ next' = [next EXCEPT ![lastNode] = newNode]
  /\ UNCHANGED <<anker, nextlvl>>
  /\ Placed

StartClimb ==
  /\ put = "put"
  /\ lastNode # 0
  /\ prevFlags = NoFlags
  /\ put' = "climb"
  /\ hptr' = lastNode
  /\ UNCHANGED <<links, entries, cursor>>

(* Mutant: the way back stops at any group. *)
AnyGroup(h) == type[h] = "GROUP"

(* The loop of the way back stops at this entry. *)
OpenGroup(h) == type[h] = "GROUP" /\ next[h] = 0

ClimbUp ==
  /\ put = "climb"
  /\ hptr # 0
  /\ ~OpenGroup(hptr)
  /\ hptr' = prev[hptr]
  /\ UNCHANGED <<links, entries, cursor, put>>

PutAfterGroup ==
  /\ put = "climb"
  /\ hptr # 0
  /\ OpenGroup(hptr)
  /\ next' = [next EXCEPT ![hptr] = newNode]
  /\ prev' = [prev EXCEPT ![newNode] = hptr]
  /\ UNCHANGED <<anker, nextlvl>>
  /\ Placed

(* if(hptr == NULL) return: the new entry is linked to nothing. *)
PutNowhere ==
  /\ put = "climb"
  /\ hptr = 0
  /\ UNCHANGED links
  /\ Placed

PutInNewNode ==
  \/ PutFirst \/ PutBelow \/ PutBeside
  \/ StartClimb \/ ClimbUp \/ PutAfterGroup \/ PutNowhere

(***************************************************************************)
(* The list built so far is f: every entry is there, with its name and     *)
(* type and with both links as in f.                                       *)
(***************************************************************************)
SameList(f) ==
  /\ newNode = f.size
  /\ name = f.name
  /\ type = f.type
  /\ anker = (IF f.size = 0 THEN 0 ELSE 1)
  /\ \A i \in 1..f.size : next[i] = NextOf(f, i) /\ nextlvl[i] = NextlvlOf(f, i)

=============================================================================
