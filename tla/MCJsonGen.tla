----------------------------- MODULE MCJsonGen -----------------------------
(***************************************************************************)
(* All lists of up to MaxEntries entries in up to MaxDepth groups.         *)
(***************************************************************************)
EXTENDS JsonGen

CONSTANTS MaxEntries, MaxDepth

Data(type, holds) == [type |-> type, holds |-> holds]

(* The levels that the last entry ends: a next entry may stand in them. *)
LevelAbove(t, e) ==
  CHOOSE g \in Root..Len(t.name) : e \in Range(t.kids[g])

OpenLevels(t) ==
  LET up[k \in 0..MaxDepth + 1] ==
        IF k = 0 THEN {Len(t.name)}
        ELSE up[k - 1] \cup {LevelAbove(t, e) : e \in up[k - 1] \ {Root}}
  IN {g \in up[MaxDepth + 1] : g = Root \/ t.type[g] = "GROUP"}

With(t, g, tp, len, data) ==
  LET a == Added(t, g, Len(t.name) + 1, tp)
  IN [kids |-> a.kids, name |-> a.name, type |-> a.type,
      len |-> Append(t.len, len), data |-> Append(t.data, data)]

Grow(t, lengths, kinds) ==
  LET open == OpenLevels(t)
  IN {With(t, g, data.type, <<>>, data) : g \in open, data \in kinds}
     \cup {With(t, g, "ARRAY", len, data) : g \in open, len \in lengths, data \in kinds}
     \cup {With(t, g, "GROUP", <<>>, Data("STRING", "nothing")) :
             g \in {g \in open : Cardinality({h \in open : h <= g}) <= MaxDepth}}

Nothing == [kids |-> NewList.kids, name |-> <<>>, type |-> <<>>, len |-> <<>>, data |-> <<>>]

ListsOf(number, lengths, kinds) ==
  LET of[n \in 0..number] ==
        IF n = 0 THEN {Nothing} ELSE UNION {Grow(t, lengths, kinds) : t \in of[n - 1]}
  IN UNION {of[n] : n \in 0..number}

Flat == {<<1>>, <<2>>}
Lengths == Flat \cup {<<1, 2>>, <<2, 2>>, <<2, 1, 2>>}

(* What CreateNewArray lets pass: only the last length may be 0. *)
Empty == {<<0>>, <<2, 0>>, <<2, 1, 0>>}

Plain == {Data("STRING", "plain")}
Kinds == Plain \cup {Data("STRING", "nothing"), Data("STRING", "signs"),
                    Data("STRING", "fine"), Data("USTRING", "plain"),
                    Data("USTRING", "nothing"), Data("FLOAT", "fine"),
                    Data("INTEGER", "plain"), Data("BOOLEAN", "nothing")}

(* The longest lists have arrays of one dimension only; the shorter ones    *)
(* have lengths of 0 and data of all kinds.                                 *)
MCLists == ListsOf(MaxEntries, Flat, Plain)
             \cup ListsOf(MaxEntries - 1, Lengths, Plain)
             \cup ListsOf(MaxEntries - 2, Lengths \cup Empty, Plain)
             \cup ListsOf(MaxEntries - 3, Lengths \cup Empty, Kinds)
MCNames == 0..MaxEntries

(* No file, an empty one, and one with an answer of two objects in it. *)
Earlier ==
  LET object == Object(<<Name(1), <<"value", 1, <<>>>>>>)
  IN Array(object \o <<Sign(",")>> \o object)

MCOldFiles == {NoFile, <<>>, Earlier}
=============================================================================
