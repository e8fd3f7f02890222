------------------------------ MODULE MCSession -----------------------------
(* Sessions with unset, empty, short and long values, in every position    *)
(* that a neighbour of another kind follows.                               *)
EXTENDS Session

CONSTANT null

OctetsOf(f, n) == [i \in 1..n |-> <<f, i>>]
Of(size) == [f \in Fields |-> IF f \in DOMAIN size
                               THEN IF size[f] = 9 THEN Null ELSE OctetsOf(f, size[f])
                               ELSE OctetsOf(f, 1)]

Unset == [parms |-> 9, logpath |-> 9]
Empty == [httpreqtype |-> 0, parms |-> 0, username |-> 0, outputfile |-> 9]
Long  == [program |-> 2, srcPath |-> 3, username |-> 4]
Late  == [username |-> 3, outputfile |-> 3]
Plain == [library |-> 2, outputfile |-> 2]

MCSessions == {Of(Unset), Of(Empty), Of(Long), Of(Plain), Of(Late)}
MCOctets == Fields \X (1..4)
=============================================================================
