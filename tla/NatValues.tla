----------------------------- MODULE NatValues ------------------------------
(***************************************************************************)
(* What becomes of one value on its way into a parameter of a Natural      *)
(* program and back out of it.                                             *)
(*                                                                         *)
(* A parameter description d has the format, the length in units of the    *)
(* format, the dimensions and the flags that Natural gives, and the value  *)
(* that the parameter holds at first.  Texts are                           *)
(* sequences of characters, Unicode texts sequences of pairs of octets, as *)
(* they lie in memory, and floats are whole numbers of tenths of a         *)
(* millionth.                                                              *)
(***************************************************************************)
EXTENDS VarArray, TLC

CONSTANT BigEndian   \* TRUE where an int has its highest octet first

Blanks(n) == [i \in 1..n |-> " "]
Good(x) == [ret |-> "OK", val |-> x]
Bad(r) == [ret |-> r, val |-> Nothing]
IsDynamic(d) == "DYNAMIC" \in d.flags

-----------------------------------------------------------------------------
(***************************************************************************)
(* Into Natural.                                                           *)
(***************************************************************************)

(* Mutant: the end of the string is counted as well. *)
StringForEnd(v, d) ==
  IF ~IsDynamic(d) /\ d.length < Len(v) + 1 THEN Bad("BUFFER_OVERFLOW") ELSE Good(v)

StringFor(v, d) ==
  IF ~IsDynamic(d) /\ d.length < Len(v) THEN Bad("BUFFER_OVERFLOW") ELSE Good(v)

(***************************************************************************)
(* An integer for a shorter one: the upper bound is that of an unsigned    *)
(* number, and there is no lower bound.  The octets that Natural takes are *)
(* the first ones of the shifted int: the low ones of the value if the     *)
(* highest octet comes first, and else the zeros shifted in.               *)
(***************************************************************************)
Width(len) == IF len = 1 THEN 256 ELSE 65536
IntFits(v, d) == d.length = 4 \/ v < Width(d.length)

(* Mutant: the value is not shifted. *)
FirstOctetsUnshifted(v, len) ==
  IF len = 4 THEN v ELSE IF BigEndian THEN 0 ELSE v % Width(len)

FirstOctets(v, len) ==
  IF len = 4 THEN v ELSE IF BigEndian THEN v % Width(len) ELSE 0

IntegerFor(v, d) ==
  IF IntFits(v, d) THEN Good(FirstOctets(v, d.length)) ELSE Bad("BUFFER_OVERFLOW")

BoolFor(v, d) == Good(v)
FloatFor(v, d) == Good(v)

(* pf_nni_from_string: a text of digits that the number has room for. *)
Digits == {"0", "1", "2", "3", "4", "5", "6", "7", "8", "9"}

FromString(s, d) ==
  IF s # <<>> /\ Len(s) <= d.length /\ \A i \in 1..Len(s) : s[i] \in Digits
  THEN Good(s) ELSE Bad("NNI_ERR")

AtoNFor(v, d) == FromString(v, d)

(* sprintf "%d": an int has up to ten digits. *)
Tens == <<1, 10, 100, 1000, 10000, 100000, 1000000, 10000000, 100000000, 1000000000>>

Decimal(n) ==
  LET size == IF n = 0 THEN 1 ELSE Cardinality({i \in 1..10 : Tens[i] <= n})
  IN [i \in 1..size |-> ToString((n \div Tens[size - i + 1]) % 10)]

IntToText(v) == IF v < 0 THEN <<"-">> \o Decimal(-v) ELSE Decimal(v)

ItoNFor(v, d) == FromString(IntToText(v), d)

(* A value of type tp for the parameter d. *)
Converted(v, tp, d) ==
  CASE d.format = "ALPHA" -> StringFor(v, d)
    [] d.format = "INT"   -> IntegerFor(v, d)
    [] d.format = "LOG"   -> BoolFor(v, d)
    [] d.format = "FLOAT" -> FloatFor(v, d)
    [] d.format = "NUM"   -> IF tp = "INTEGER" THEN ItoNFor(v, d) ELSE AtoNFor(v, d)

-----------------------------------------------------------------------------
(* What the parameter holds then.  A text of fixed length is filled up with blanks. *)
Stored(x, d) ==
  IF d.format = "ALPHA" /\ ~IsDynamic(d) THEN x \o Blanks(d.length - Len(x)) ELSE x

-----------------------------------------------------------------------------
(***************************************************************************)
(* Out of Natural.  Each of these is the set of what can come out.         *)
(***************************************************************************)

(* Mutant: one character more is cut off. *)
TrimSpacesMore(s) ==
  LET kept == {i \in 1..Len(s) : s[i] # " "}
  IN IF kept # {} THEN {SubSeq(s, 1, (CHOOSE i \in kept : \A j \in kept : j <= i) - 1)}
     ELSE {s, <<>>}

(* rh4nUtilsTrimSpaces: if there are only blanks, the octet in front of the *)
(* buffer decides whether they stay.                                        *)
TrimSpaces(s) ==
  LET kept == {i \in 1..Len(s) : s[i] # " "}
  IN IF kept # {} THEN {SubSeq(s, 1, CHOOSE i \in kept : \A j \in kept : j <= i)}
     ELSE {s, <<>>}

EscapeQuotes(s) == [i \in 1..Len(s) |-> IF s[i] = "\"" THEN "'" ELSE s[i]]

StringOf(x, d) == {EscapeQuotes(s) : s \in TrimSpaces(x)}

(* The octets come first in an int that was 0, and the shift spreads the sign. *)
IntegerOf(x, d) ==
  {IF d.length = 4 THEN x
   ELSE IF ~BigEndian THEN 0
   ELSE IF x >= Width(d.length) \div 2 THEN x - Width(d.length) ELSE x}

BoolOf(x, d) == {x}

(* An F4 goes through a text with six digits after the point. *)
ConvertFloat(x) == ((x + 5) \div 10) * 10
FloatOf(x, d) == {IF d.length = 4 THEN ConvertFloat(x) ELSE x}

(* pf_nni_to_string gives the text of a date, and a number right aligned. *)
DateTimeOf(x, d) == TrimSpaces(x)

StripSpaces(s) ==
  LET kept == {i \in 1..Len(s) : s[i] # " "}
  IN IF kept = {} THEN <<>> ELSE SubSeq(s, CHOOSE i \in kept : \A j \in kept : i <= j, Len(s))

NumericOf(x, d) == {StripSpaces(s) : s \in TrimSpaces(Blanks(d.length - Len(x)) \o x)}

(***************************************************************************)
(* rh4nUtilsTrimSpaces4B goes back octet by octet, not character by        *)
(* character, over zeros and blanks.                                       *)
(***************************************************************************)
BlankOctets == {0, 32}

CutOctets(c) == IF c[2] \in BlankOctets THEN <<c[1], 0>> ELSE c

TrimSpaces4B(s) ==
  LET kept == {i \in 1..Len(s) : s[i][1] \notin BlankOctets \/ s[i][2] \notin BlankOctets}
      last == CHOOSE i \in kept : \A j \in kept : j <= i
  IN IF kept = {} THEN <<>> ELSE Append(SubSeq(s, 1, last - 1), CutOctets(s[last]))

UnicodeOf(x, d) == {TrimSpaces4B(x)}

(* The content x of the parameter d. *)
ReadOut(x, d) ==
  CASE d.format = "ALPHA" -> StringOf(x, d)
    [] d.format = "INT"   -> IntegerOf(x, d)
    [] d.format = "LOG"   -> BoolOf(x, d)
    [] d.format = "FLOAT" -> FloatOf(x, d)
    [] d.format \in {"DATE", "TIME"} -> DateTimeOf(x, d)
    [] d.format = "NUM"     -> NumericOf(x, d)
    [] d.format = "UNICODE" -> UnicodeOf(x, d)
=============================================================================
