------------------------------ MODULE MCUserExits ---------------------------
(* All exits, two in a row, and every format string of up to MaxText signs *)
(* against names of one or two signs.                                      *)
EXTENDS UserExits

MCOwnLibraries == {<<>>, <<"x">>}
=============================================================================
