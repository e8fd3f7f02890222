------------------------------ MODULE LdaLines ------------------------------
(***************************************************************************)
(* The lines of a Natural local data area, as far as the parser tells them *)
(* apart.                                                                  *)
(*                                                                         *)
(* A line is its kind, its level and the word that occurs anywhere in its  *)
(* text; VIEW stands for the two words VIEW OF.  A note is a line that     *)
(* declares nothing: the frame of the file, a comment, an initial value.   *)
(* A malformed line is one that the parser refuses after its level and     *)
(* name: a type it does not support, a missing length, a missing bracket.  *)
(***************************************************************************)
EXTENDS Naturals, Sequences

LineKinds == {"note", "group", "redefine", "variable", "malformed"}
Heads     == {"group", "redefine"}      \* other lines stand below them
Words     == {"nothing", "VIEW", "CONST", "INIT"}

IsView(line) == line.says = "VIEW"
IsInit(line) == line.says \in {"CONST", "INIT"}

(***************************************************************************)
(* What rh4nldaParseLine does with a line.  The words are looked for in    *)
(* the whole line, first, and whatever the line is.                        *)
(***************************************************************************)
Rejected(line) == IsView(line) \/ (~IsInit(line) /\ line.kind = "malformed")
Ignored(line)  == ~IsView(line) /\ (IsInit(line) \/ line.kind = "note")
Kept(line)     == ~Rejected(line) /\ ~Ignored(line)

-----------------------------------------------------------------------------
(* The lines of a text before position i that declare something. *)
DeclaredBefore(text, i) == {j \in 1..Len(text) : j < i /\ text[j].kind # "note"}

(* The head under which Natural puts line i; 0 for level 1. *)
IsHeadOf(text, j, i) ==
  /\ j \in DeclaredBefore(text, i)
  /\ text[j].level < text[i].level
  /\ \A k \in DeclaredBefore(text, i) : j < k => text[k].level >= text[i].level

HeadOf(text, i) ==
  IF \E j \in 1..Len(text) : IsHeadOf(text, j, i)
    THEN CHOOSE j \in 1..Len(text) : IsHeadOf(text, j, i)
    ELSE 0

(***************************************************************************)
(* Natural checks the area before it stores it: level 1 comes first, a     *)
(* line is at most one level below the one before it, and it is below it   *)
(* if and only if that one is a head.                                      *)
(***************************************************************************)
MayFollow(text, line) ==
  LET before == DeclaredBefore(text, Len(text) + 1)
      last   == text[CHOOSE j \in before : \A k \in before : k <= j]
  IN IF line.kind = "note" THEN TRUE
     ELSE IF before = {} THEN line.level = 1
     ELSE IF last.kind \in Heads THEN line.level = last.level + 1
     ELSE line.level <= last.level

(***************************************************************************)
(* The list that the levels of the kept lines describe: the first line,    *)
(* the line that follows another one on its level, the line below it.      *)
(* 0 is none.  LdaParser builds these links one line at a time.            *)
(***************************************************************************)
KeptLines(text) == {i \in 1..Len(text) : Kept(text[i])}

FirstLine(text) ==
  IF KeptLines(text) = {} THEN 0
  ELSE CHOOSE i \in KeptLines(text) : \A j \in KeptLines(text) : i <= j

(* Line i stands somewhere below line h. *)
IsBelow(text, h, i) ==
  /\ h < i
  /\ \A j \in KeptLines(text) : h < j /\ j <= i => text[j].level > text[h].level

IsNextLine(text, i, j) ==
  /\ i < j
  /\ text[i].level = text[j].level
  /\ \A k \in KeptLines(text) : i < k /\ k < j => text[k].level > text[i].level

NextLine(text, i) ==
  IF \E j \in KeptLines(text) : IsNextLine(text, i, j)
    THEN CHOOSE j \in KeptLines(text) : IsNextLine(text, i, j)
    ELSE 0

LineBelow(text, i) ==
  IF \E j \in KeptLines(text) : i < j /\ IsBelow(text, i, j)
    THEN CHOOSE j \in KeptLines(text) :
           i < j /\ \A k \in KeptLines(text) : i < k => j <= k
    ELSE 0

(* A line for which the walk back finds no place. *)
HasOrphan(text) ==
  \E j \in KeptLines(text) \ {FirstLine(text)} :
    \A i \in KeptLines(text) : NextLine(text, i) # j /\ LineBelow(text, i) # j

(* A head whose line is ignored, so that its members lose their group. *)
LosesHead(text) ==
  \E i \in 1..Len(text) : text[i].kind \in Heads /\ Ignored(text[i])
=============================================================================
