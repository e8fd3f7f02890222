----------------------------- MODULE MCNatParms -----------------------------
(* Jobs of one or two parameters, and the variables that are put into them. *)
EXTENDS NatParms

Letters == <<"a", "b", "c", "d", "e", "f", "g", "h">>
MCCharacters == {" ", "'", "\"", "x"} \cup Digits \cup {Letters[i] : i \in 1..8}

Desc(format, length, dims, occ, flags, first) ==
  [format |-> format, length |-> length, dims |-> dims, occ |-> occ, flags |-> flags, first |-> first]

Scalar(format, length, first) == Desc(format, length, 0, <<0, 0, 0>>, {}, first)
Var(tp, v) == Top :> SetCell(Blank(tp), v)
Null == Top :> Blank("NULL")

(* An array whose elements are numbered: Of(n) is the value of the element n. *)
Filled(dims, len, tp, Of(_)) ==
  LET o == NewArray(dims, len, tp)
      Number(p) == Cardinality({q \in DOMAIN o : Len(q) = dims /\ (q = p \/ Before(q, p))})
  IN [p \in DOMAIN o |-> IF Len(p) < dims THEN o[p] ELSE SetCell(o[p], Of(Number(p)))]

(* The row above the path r ends in front of it. *)
Without(o, r) ==
  LET IsBehind(p) == IsStrictPrefix(Front(r), p) /\ p[Len(r)] >= Last(r)
  IN [p \in {p \in DOMAIN o : ~IsBehind(p)} |-> IF p = Front(r) THEN Block(Last(r)) ELSE o[p]]

MCStrays == {SetCell(Blank("INTEGER"), 77), SetCell(Blank("INTEGER"), 70000),
             SetCell(Blank("STRING"), <<"x", "x">>), SetCell(Blank("BOOLEAN"), TRUE)}

Job(parm, var) == [parm |-> parm, var |-> var]

Ten(n) == 10 * n
Letter(n) == <<Letters[n]>>
Growing(n) == [i \in 1..n - 1 |-> Letters[n]]
Odd(n) == n % 2 = 1
Digit(n) == <<ToString(n)>>

XArray1 == {"XARRAY", "UBVAR_0"}
Dynamics == {"DYNAMIC", "DYNVAR"}

A4 == Scalar("ALPHA", 4, Blanks(4))
ADynamic == Desc("ALPHA", 0, 0, <<0, 0, 0>>, {"DYNAMIC"}, <<>>)
I1 == Scalar("INT", 1, 9)
I2 == Scalar("INT", 2, 9)
I4 == Scalar("INT", 4, 9)
N2 == Scalar("NUM", 2, <<"0">>)

Scalars ==
  {Job(A4, Var("STRING", s)) : s \in {<<>>, <<"a", "\"", "b">>, <<"a", " ", "b", "c">>, <<"a", "b", "c", "d", "e">>,
                                       <<" ", " ">>}}
  \cup {Job(A4, NoVar), Job(A4, Null), Job(A4, Var("INTEGER", 1)), Job(A4, Filled(1, <<1, 0, 0>>, "STRING", Letter))}
  \cup {Job(ADynamic, Var("STRING", s)) : s \in {<<>>, <<"a", "b", "c", "d", "e">>}}
  \cup {Job(I1, Var("INTEGER", n)) : n \in {-129, -128, -1, 0, 127, 128, 255, 256}}
  \cup {Job(I2, Var("INTEGER", n)) : n \in {-32768, 32767, 65535, 65536}}
  \cup {Job(I4, Var("INTEGER", n)) : n \in {-70000, 70000}}
  \cup {Job(Scalar("LOG", 1, FALSE), Var("BOOLEAN", TRUE)), Job(Scalar("LOG", 1, TRUE), Var("INTEGER", 0))}
  \cup {Job(Scalar("FLOAT", len, 5), Var("FLOAT", 123)) : len \in {4, 8}}
  \cup {Job(N2, Var("STRING", s)) : s \in {<<"7">>, <<"4", "2">>, <<"1", "2", "3">>, <<"x">>, <<>>}}
  \cup {Job(N2, Var("INTEGER", n)) : n \in {7, 42, 123, -1}}
  \cup {Job(N2, Var("FLOAT", 10))}
  \cup {Job(Scalar("DATE", 8, <<"1", "2">> \o Blanks(2)), Var("STRING", <<"9">>)),
        Job(Scalar("TIME", 8, <<"3">>), NoVar),
        Job(Scalar("PACK", 4, <<"0">>), Var("STRING", <<"9">>))}
  \cup {Job(Scalar("UNICODE", Len(s), s), NoVar) :
          s \in {<<>>, <<<<0, 97>>, <<0, 32>>>>, <<<<4, 32>>, <<0, 32>>>>, <<<<0, 32>>>>, <<<<0, 97>>, <<32, 32>>, <<0, 98>>>>}}

Arrays ==
  {Job(Desc("ALPHA", 2, 1, <<n, 0, 0>>, {}, Blanks(2)), Filled(1, <<2, 0, 0>>, "STRING", Letter)) : n \in 1..3}
  \cup {Job(Desc("ALPHA", 1, 1, <<3, 0, 0>>, {}, Blanks(1)), Filled(1, <<3, 0, 0>>, "STRING", Growing))}
  \cup {Job(Desc("ALPHA", 0, 1, <<n, 0, 0>>, XArray1 \cup Dynamics, <<>>), Filled(1, <<m, 0, 0>>, "STRING", Growing)) :
          n \in {0, 2}, m \in {0, 3}}
  \cup {Job(Desc("ALPHA", 0, 1, <<2, 0, 0>>, Dynamics, <<>>), NoVar)}
  \cup {Job(Desc("ALPHA", 1, 1, <<2, 0, 0>>, {}, Blanks(1)), v) :
          v \in {Var("STRING", <<"a">>), Filled(2, <<1, 2, 0>>, "STRING", Letter), Filled(1, <<2, 0, 0>>, "INTEGER", Ten)}}
  \cup {Job(Desc("INT", len, 2, occ, {}, 9), Filled(2, <<2, 2, 0>>, "INTEGER", Ten)) :
          len \in {1, 4}, occ \in {<<2, 2, 0>>, <<2, 1, 0>>, <<3, 3, 0>>}}
  \cup {Job(Desc("INT", 2, 2, <<2, 2, 0>>, {}, 9), Filled(1, <<2, 0, 0>>, "INTEGER", Ten))}
  \cup {Job(Desc("INT", 2, 2, <<0, 3, 0>>, XArray1, 9), v) : v \in {NoVar, Filled(2, <<2, 3, 0>>, "INTEGER", Ten), Filled(2, <<0, 0, 0>>, "INTEGER", Ten)}}
  \cup {Job(Desc("LOG", 1, 3, occ, {}, FALSE), Filled(3, <<1, 2, 2>>, "BOOLEAN", Odd)) : occ \in {<<1, 2, 2>>, <<1, 2, 1>>}}
  \cup {Job(Desc("LOG", 1, 3, <<0, 0, 0>>, {"XARRAY", "UBVAR_0", "UBVAR_1", "UBVAR_2"}, FALSE), Filled(3, <<1, 2, 2>>, "BOOLEAN", Odd))}
  \cup {Job(Desc("FLOAT", len, 1, <<2, 0, 0>>, {}, 5), Filled(1, <<2, 0, 0>>, "FLOAT", Ten)) : len \in {4, 8}}
  \cup {Job(Desc("NUM", 1, 1, <<2, 0, 0>>, {}, <<"0">>), v) :
          v \in {Filled(1, <<2, 0, 0>>, "STRING", Digit), Filled(1, <<2, 0, 0>>, "STRING", Letter), Filled(1, <<2, 0, 0>>, "INTEGER", Ten)}}
  \cup {Job(Desc("INT", 2, 2, <<0, 1, 0>>, XArray1, 9), Filled(2, <<2, m, 0>>, "INTEGER", Ten)) : m \in 1..2}
  \cup {Job(Desc("TIME", 4, 1, <<2, 0, 0>>, {}, <<"1", " ">>), v) : v \in {NoVar, Filled(1, <<0, 0, 0>>, "STRING", Digit)}}
  \cup {Job(Desc("INT", 2, 2, <<2, n, 0>>, {}, 9), Without(Filled(2, <<2, n, 0>>, "INTEGER", Ten), <<1, 1>>)) : n \in 2..3}
  \cup {Job(Desc("ALPHA", 1, 2, <<3, 2, 0>>, {}, <<" ">>), Without(Filled(2, <<3, 2, 0>>, "STRING", Letter), <<1, 1>>))}
  \cup {Job(Desc("LOG", 1, 3, <<2, 2, 1>>, {}, FALSE), Without(Filled(3, <<2, 2, 1>>, "BOOLEAN", Odd), r)) :
          r \in {<<1, 1>>, <<1, 1, 0>>}}
  \cup {Job(Desc("LOG", 1, 3, occ, {}, TRUE), NoVar) : occ \in {<<0, 2, 2>>, <<2, 0, 1>>, <<1, 2, 0>>}}
  \cup {Job(Desc("UNICODE", 1, 1, <<2, 0, 0>>, {}, <<<<0, 97>>>>), NoVar),
        Job(Desc("UNICODE", 0, 1, <<2, 0, 0>>, Dynamics, <<>>), NoVar)}

(* Each alone, and each after and before a few that may go wrong. *)
Partners ==
  {Job(A4, Var("STRING", <<"a", "\"", "b">>)), Job(I1, Var("INTEGER", 256)),
   Job(Desc("ALPHA", 1, 1, <<2, 0, 0>>, {}, Blanks(1)), Filled(1, <<2, 0, 0>>, "STRING", Letter))}

MCJobs ==
  {<<j>> : j \in Scalars \cup Arrays}
  \cup {<<p, j>> : p \in Partners, j \in Scalars \cup Arrays}
  \cup {<<j, p>> : p \in Partners, j \in Scalars \cup Arrays}
=============================================================================
