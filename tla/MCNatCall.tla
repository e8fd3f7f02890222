------------------------------ MODULE MCNatCall -----------------------------
(* Requests with every mixture of absent, short and longer fields that the *)
(* layout tells apart, and lists with entries that have no name, over      *)
(* files of longer and of shorter requests, and every state the output     *)
(* file may be in.                                                         *)
EXTENDS NatCall

CONSTANT none

MCSizes == [f \in OfKind("fixed") |-> IF f \in {"natlibrary", "errorrepresentation"} THEN 2 ELSE 1]

Octets(from, f, n) == [i \in 1..n |-> [from |-> from, of |-> f, at |-> i]]

(* Entries with names of these lengths, each with one octet of value. *)
Entries(from, f, names) ==
  FlattenSeq([i \in 1..Len(names) |-> Word(names[i]) \o Octets(from, <<f, i>>, names[i] + 1)])

Request(from, size) ==
  [f \in Fields |->
     CASE f \in OfKind("fixed") -> Octets(from, f, MCSizes[f])
       [] f \in OfKind("list")  -> Entries(from, f, size[f])
       [] OTHER                 -> Octets(from, f, size[f])]

Size(parms, url, body, src, out, log, user) ==
  [natparms |-> parms, urlvars |-> url, bodyvars |-> body, natsrcpath |-> src,
   outputfile |-> out, logpath |-> log, username |-> user]

MCNamed == {Request("now", Size(p, l[1], l[2], p, o, 1 - p, 1 - p)) :
              p \in 0..1, l \in {<< <<>>, <<>> >>, << <<>>, <<1>> >>, << <<1, 2>>, <<1>> >>},
              o \in {0, 2}}

(* One of the lists has an entry without a name. *)
MCUnnamed == {Request("now", Size(1, l[1], l[2], 1, o, 0, 1)) :
                o \in {0, 2}, l \in { << <<0>>, <<1>> >>, << <<1, 0, 1>>, <<1>> >>,
                                      << <<1>>, <<2, 0>> >>, << <<1, 0>>, <<0>> >> }}

MCRequests == MCNamed \cup MCUnnamed

MCEarlier == {none, Request("before", Size(0, <<>>, <<>>, 0, 1, 0, 0)),
              Request("before", Size(1, <<1, 1>>, <<0, 2>>, 1, 2, 1, 2)),
              Request("before", Size(0, <<1, 2, 1, 1>>, <<>>, 1, 1, 0, 1))}
MCQuotas == {0, 4, 10, 12, 16, 19, 22, 25, 60}
MCOutputs == {NoFile, <<>>, <<"earlier", "earlier">>}
=============================================================================
