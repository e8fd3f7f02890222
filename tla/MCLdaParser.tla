---------------------------- MODULE MCLdaParser ----------------------------
(***************************************************************************)
(* Local data areas of up to three levels.  The words are tried where they *)
(* matter: VIEW in a declaration and in a note, INIT and CONST in the      *)
(* line of a head and of a variable.                                       *)
(***************************************************************************)
EXTENDS LdaParser

Line(kind, level, says) == [kind |-> kind, level |-> level, says |-> says]

MCLines ==
  {Line(k, l, "nothing") : k \in {"group", "redefine", "variable"}, l \in 1..3}
    \cup {Line("group", l, "INIT") : l \in 1..2}
    \cup {Line("variable", 1, "CONST"), Line("variable", 2, "INIT"),
          Line("malformed", 2, "nothing"), Line("malformed", 1, "INIT"),
          Line("group", 1, "VIEW"), Line("note", 1, "nothing"),
          Line("note", 1, "VIEW")}
=============================================================================
