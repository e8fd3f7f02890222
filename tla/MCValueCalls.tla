---------------------------- MODULE MCValueCalls ----------------------------
(***************************************************************************)
(* ValueCalls with a few values of every type and arrays of a few lengths. *)
(***************************************************************************)
EXTENDS ValueCalls

MCValuesOf ==
  [STRING |-> {<<>>, <<"a", "b">>}, USTRING |-> {<<"u">>}, INTEGER |-> {1, 2},
   FLOAT |-> {1}, BOOLEAN |-> {TRUE, FALSE}]

MCLengths ==
  {<<1, 1, 2>>, <<2, 1, 1>>, <<2, 2, 1>>, <<1, 2, 0>>, <<2, 0, 0>>, <<0, 1, 1>>,
   <<-1, -1, -1>>}

MCIndices == {<<-1>>, <<0>>, <<1>>, <<0, 1>>, <<1, 0>>, <<0, 0, 1>>, <<1, 0, 0>>}
=============================================================================
