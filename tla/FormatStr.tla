------------------------------ MODULE FormatStr -----------------------------
(***************************************************************************)
(* The format strings of RHGENJS, RHGETBO and RHGETUO:                     *)
(* rh4nnatParseFormatStr takes <structure>@(<library>.)<LDA> apart.        *)
(*                                                                         *)
(* A string is a sequence of signs: "@", "." and any other, "x".  The      *)
(* function ends strings by overwriting a separator, so what a name is     *)
(* depends on which separators are overwritten by then.                    *)
(***************************************************************************)
EXTENDS Naturals, Sequences

CONSTANTS
  LenName,     \* NNI_LEN_NAME, of a structure
  LenLibrary,  \* NNI_LEN_LIBRARY
  LenMember    \* NNI_LEN_MEMBER, of an LDA

ASSUME LengthsAssumption == {LenName, LenLibrary, LenMember} \subseteq Nat

Signs == {"@", ".", "x"}
End == "end"    \* the octet 0

(* The string that begins at k. *)
From(m, k) ==
  LET e == CHOOSE j \in k..Len(m) : m[j] = End /\ \A h \in k..j - 1 : m[h] # End
  IN SubSeq(m, k, e - 1)

NoInfos == [ret |-> "none", struct |-> <<>>, library |-> <<>>, lda |-> <<>>]

(* Mutant: a second point is not seen. *)
ScanManyPoints(s, sign) ==
  LET i == s.i + 1
      malformed == (sign = "." /\ s.at = 0) \/ (sign = "@" /\ s.at # 0)
  IN IF ~s.ok \/ malformed THEN [s EXCEPT !.ok = FALSE]
       ELSE [ok |-> TRUE, i |-> i, at |-> IF sign = "@" THEN i ELSE s.at,
             point |-> IF sign = "." THEN i ELSE s.point]

(* One round of the loop over the signs: where "@" and "." are, 0 while    *)
(* they have not been seen.                                                *)
Scan(s, sign) ==
  LET i == s.i + 1
      malformed == (sign = "." /\ (s.at = 0 \/ s.point # 0)) \/ (sign = "@" /\ s.at # 0)
  IN IF ~s.ok \/ malformed THEN [s EXCEPT !.ok = FALSE]
       ELSE [ok |-> TRUE, i |-> i, at |-> IF sign = "@" THEN i ELSE s.at,
             point |-> IF sign = "." THEN i ELSE s.point]

(* What has been seen before the first sign, and after the last one. *)
NothingSeen == [ok |-> TRUE, i |-> 0, at |-> 0, point |-> 0]

Scanned(text) ==
  LET s[k \in 0..Len(text)] == IF k = 0 THEN NothingSeen ELSE Scan(s[k - 1], text[k])
  IN s[Len(text)]

(* The LDA begins at k; the library is the own one without a point. *)
LDA(infos, m, k, library) ==
  LET lda == From(m, k)
  IN CASE lda = <<>> -> [infos EXCEPT !.ret = "MALFORMED"]
       [] Len(lda) > LenMember -> [infos EXCEPT !.ret = "OVERFLOW"]
       [] OTHER -> [infos EXCEPT !.ret = "OK", !.lda = lda, !.library = library]

(* What is behind the "@": with a library, which the point ends, or        *)
(* without one.                                                            *)
Split(infos, m, s, own) ==
  LET mem == [m EXCEPT ![s.point] = End]
      library == From(mem, s.at + 1)
  IN CASE s.point = 0 -> LDA(infos, m, s.at + 1, own)
       [] s.point = s.at + 1 -> [infos EXCEPT !.ret = "MALFORMED"]
       [] s.point > s.at + 1 /\ Len(library) > LenLibrary -> [infos EXCEPT !.ret = "OVERFLOW"]
       [] OTHER -> LDA([infos EXCEPT !.library = library], mem, s.point + 1, library)

(* The whole function; own is the library of the properties. *)
ParseFormatStr(text, own) ==
  LET s == Scanned(text)
      m == [Append(text, End) EXCEPT ![s.at] = End]
      struct == From(m, 1)
  IN CASE ~s.ok \/ s.at \in {0, 1} -> [NoInfos EXCEPT !.ret = "MALFORMED"]
       [] s.ok /\ s.at > 1 /\ Len(struct) > LenName -> [NoInfos EXCEPT !.ret = "OVERFLOW"]
       [] OTHER -> Split([NoInfos EXCEPT !.struct = struct], m, s, own)

-----------------------------------------------------------------------------
NamesUpTo(n) == UNION {[1..k -> {"x"}] : k \in 1..n}

(* The ways to read a string as <structure>@<LDA> or                       *)
(* <structure>@<library>.<LDA>, every name within its length.              *)
Readings(s) ==
  {r \in [struct : NamesUpTo(LenName), library : {<<>>} \cup NamesUpTo(LenLibrary),
          lda : NamesUpTo(LenMember)] :
     s = r.struct \o <<"@">>
           \o (IF r.library = <<>> THEN <<>> ELSE r.library \o <<".">>) \o r.lda}
=============================================================================
