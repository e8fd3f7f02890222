----------------------------- MODULE MCVar2Name -----------------------------
(***************************************************************************)
(* All areas of up to MaxLines lines that Natural and the parser accept,   *)
(* with at most one line that says INIT.                                   *)
(***************************************************************************)
EXTENDS Var2Name

CONSTANT MaxLines

Line(kind, level, says) == [kind |-> kind, level |-> level, says |-> says]

LinesAfter(text) ==
  {l \in {Line(k, v, s) : k \in {"group", "redefine", "variable"}, v \in 1..4,
                         s \in {"nothing", "INIT"}} :
     /\ MayFollow(text, l)
     /\ l.kind = "redefine" => text # <<>>
     /\ l.says = "INIT" => \A i \in 1..Len(text) : text[i].says # "INIT"}

Grow(texts) == UNION {{Append(t, l) : l \in LinesAfter(t)} : t \in texts}

(* Texts of length n that begin with a group. *)
Texts[n \in 1..MaxLines] ==
  IF n = 1 THEN {<<Line("group", 1, "nothing")>>} ELSE Grow(Texts[n - 1])

MCAreas ==
  {t \in UNION {Texts[n] : n \in 2..MaxLines} :
     t[Len(t)].kind = "variable" /\ ~HasOrphan(t)}

MCNames == 0..(2 * MaxLines + 2)
MCTempName(p) == MaxLines + 1 + p
=============================================================================
