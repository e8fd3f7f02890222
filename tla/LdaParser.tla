----------------------------- MODULE LdaParser -----------------------------
(***************************************************************************)
(* The parser of local data areas: lines are read one after the other, an  *)
(* entry is made of each that declares something and is linked to the      *)
(* entry read last, or to one that is found by going back along prev.      *)
(*                                                                         *)
(* The two global pointers outlive a parse, so a behaviour is a sequence   *)
(* of parses; an entry is its position in heap, 0 is NULL.                 *)
(***************************************************************************)
EXTENDS LdaLines

CONSTANTS
  Lines,      \* the lines a file may have
  MaxLines,   \* bound: lines of all files together
  MaxParses   \* bound: parses

ASSUME LinesAssumption ==
  Lines \subseteq [kind : LineKinds, level : Nat \ {0}, says : Words]
ASSUME MaxLinesAssumption == MaxLines \in Nat
ASSUME MaxParsesAssumption == MaxParses \in Nat

VARIABLES
  pc,       \* where the parser is
  parses,   \* the number of calls of rh4nldaStartParser
  text,     \* the lines read in this call
  lines,    \* how many lines all calls have read
  heap,     \* the entries ever saved
  anker,    \* g_rh4nldaentries
  curptr,   \* g_rh4nldacurptr
  hptr,     \* the entry at which the walk back is
  result,   \* what *ldaentries is set to
  ret,      \* what the call returns
  todo,     \* the calls of rh4nldaFreeFork: the entries they still visit
  freed     \* the entries freed, in order

links == <<heap, anker, curptr>>
vars == <<pc, parses, text, lines, links, hptr, result, ret, todo, freed>>

NULL == 0
Entries == 1..Len(heap)

Init ==
  /\ pc = "idle"
  /\ parses = 0
  /\ text = <<>>
  /\ lines = 0
  /\ heap = <<>>
  /\ anker = NULL
  /\ curptr = NULL
  /\ hptr = NULL
  /\ result = NULL
  /\ ret = "OK"
  /\ todo = <<>>
  /\ freed = <<>>

-----------------------------------------------------------------------------
(* rh4nldaStartParser opens the file and skips its header, or fails. *)
StartParser ==
  /\ pc = "idle"
  /\ parses < MaxParses
  /\ parses' = parses + 1
  /\ text' = <<>>
  /\ result' = NULL
  /\ \/ pc' = "reading" /\ ret' = "OK"
     \/ pc' = "idle" /\ ret' = "LDA_PARSE_ERR"
  /\ UNCHANGED <<lines, links, hptr, todo, freed>>

Read(line) ==
  /\ pc = "reading"
  /\ lines < MaxLines
  /\ MayFollow(text, line)
  /\ text' = Append(text, line)
  /\ lines' = lines + 1
  /\ UNCHANGED <<parses, todo, freed>>

(* The caller's pointer is set and the globals are reset, error or not. *)
Return(r) ==
  /\ pc' = "returned"
  /\ ret' = r
  /\ result' = anker
  /\ anker' = NULL
  /\ curptr' = NULL
  /\ UNCHANGED <<heap, hptr>>

EndOfFile ==
  /\ pc = "reading"
  /\ Return("OK")
  /\ UNCHANGED <<parses, text, lines, todo, freed>>

IgnoreLine(line) ==
  /\ Read(line)
  /\ Ignored(line)
  /\ UNCHANGED <<pc, links, hptr, result, ret>>

RejectLine(line) ==
  /\ Read(line)
  /\ Rejected(line)
  /\ Return("LDA_PARSE_ERR")

(* Mutant: the way back is not kept. *)
NewEntryForward(line, prev) ==
  [level |-> line.level, kind |-> line.kind, parse |-> parses,
   line |-> Len(text) + 1, prev |-> NULL, next |-> NULL, nextlvl |-> NULL]

(* An entry of the line read last: the entry that rh4nldaInitEntry resets. *)
NewEntry(line, prev) ==
  [level |-> line.level, kind |-> line.kind, parse |-> parses,
   line |-> Len(text) + 1, prev |-> prev, next |-> NULL, nextlvl |-> NULL]

(***************************************************************************)
(* rh4nldaSaveEntry.                                                       *)
(***************************************************************************)
SaveFirst(line) ==
  /\ Read(line)
  /\ Kept(line)
  /\ anker = NULL
  /\ heap' = Append(heap, NewEntry(line, NULL))
  /\ anker' = Len(heap) + 1
  /\ curptr' = Len(heap) + 1
  /\ UNCHANGED <<pc, hptr, result, ret>>

SaveSameLevel(line) ==
  /\ Read(line)
  /\ Kept(line)
  /\ anker # NULL
  /\ line.level = heap[curptr].level
  /\ heap' = Append([heap EXCEPT ![curptr].next = Len(heap) + 1], NewEntry(line, curptr))
  /\ curptr' = Len(heap) + 1
  /\ UNCHANGED <<pc, anker, hptr, result, ret>>

(* Mutant: the first member of a group is linked as what follows it. *)
SaveNextLevelBehind(line) ==
  /\ Read(line)
  /\ Kept(line)
  /\ anker # NULL
  /\ line.level > heap[curptr].level
  /\ heap' = Append([heap EXCEPT ![curptr].next = Len(heap) + 1], NewEntry(line, curptr))
  /\ curptr' = Len(heap) + 1
  /\ UNCHANGED <<pc, anker, hptr, result, ret>>

SaveNextLevel(line) ==
  /\ Read(line)
  /\ Kept(line)
  /\ anker # NULL
  /\ line.level > heap[curptr].level
  /\ heap' = Append([heap EXCEPT ![curptr].nextlvl = Len(heap) + 1], NewEntry(line, curptr))
  /\ curptr' = Len(heap) + 1
  /\ UNCHANGED <<pc, anker, hptr, result, ret>>

(* The new entry is made, and the walk back for its place begins. *)
SaveAbove(line) ==
  /\ Read(line)
  /\ Kept(line)
  /\ anker # NULL
  /\ line.level < heap[curptr].level
  /\ heap' = Append(heap, NewEntry(line, NULL))
  /\ hptr' = curptr
  /\ pc' = "climbing"
  /\ UNCHANGED <<anker, curptr, result, ret>>

New == Len(heap)     \* the entry that is being placed

(* Mutant: the walk stops at the first entry that is not deeper. *)
ArrivedBelow == heap[hptr].level <= heap[New].level

Arrived == heap[hptr].level = heap[New].level

(***************************************************************************)
(* One round of the walk back.  It does not look for NULL: where no entry  *)
(* in front has the level, the process crashes.                            *)
(***************************************************************************)
Climb ==
  /\ pc = "climbing"
  /\ ~Arrived
  /\ hptr' = heap[hptr].prev
  /\ pc' = IF hptr' = NULL THEN "crashed" ELSE "climbing"
  /\ UNCHANGED <<parses, text, lines, links, result, ret, todo, freed>>

EndClimb ==
  /\ pc = "climbing"
  /\ Arrived
  /\ heap' = [heap EXCEPT ![hptr].next = New, ![New].prev = hptr]
  /\ curptr' = New
  /\ hptr' = NULL
  /\ pc' = "reading"
  /\ UNCHANGED <<parses, text, lines, anker, result, ret, todo, freed>>

-----------------------------------------------------------------------------
(***************************************************************************)
(* The user exit that called the parser frees the list later, whatever the *)
(* calls after the parser return; after a parse error it does not.         *)
(***************************************************************************)
Fork(entry) == [at |-> entry, below |-> FALSE]

FreeList ==
  /\ pc = "returned"
  /\ ret = "OK"
  /\ pc' = "freeing"
  /\ todo' = <<Fork(result)>>
  /\ UNCHANGED <<parses, text, lines, links, hptr, result, ret, freed>>

ForgetList ==
  /\ pc = "returned"
  /\ ret # "OK"
  /\ pc' = "idle"
  /\ UNCHANGED <<parses, text, lines, links, hptr, result, ret, todo, freed>>

(***************************************************************************)
(* The loop of rh4nldaFreeFork: the call for the level below, the free of  *)
(* the entry when that call is back, the end of the loop.  The call that   *)
(* runs is the first of todo.                                              *)
(***************************************************************************)
Call == Head(todo)

(* Mutant: only heads of groups are looked below. *)
GroupHasBelow == heap[Call.at].kind = "group" /\ heap[Call.at].nextlvl # NULL

HasBelow == heap[Call.at].nextlvl # NULL

FreeBelow ==
  /\ pc = "freeing"
  /\ todo # <<>>
  /\ Call.at # NULL
  /\ ~Call.below
  /\ HasBelow
  /\ todo' = <<Fork(heap[Call.at].nextlvl), [Call EXCEPT !.below = TRUE]>> \o Tail(todo)
  /\ UNCHANGED <<pc, parses, text, lines, links, hptr, result, ret, freed>>

FreeEntry ==
  /\ pc = "freeing"
  /\ todo # <<>>
  /\ Call.at # NULL
  /\ HasBelow => Call.below
  /\ freed' = Append(freed, Call.at)
  /\ todo' = <<Fork(heap[Call.at].next)>> \o Tail(todo)
  /\ UNCHANGED <<pc, parses, text, lines, links, hptr, result, ret>>

EndFork ==
  /\ pc = "freeing"
  /\ todo # <<>>
  /\ Call.at = NULL
  /\ todo' = Tail(todo)
  /\ UNCHANGED <<pc, parses, text, lines, links, hptr, result, ret, freed>>

EndFree ==
  /\ pc = "freeing"
  /\ todo = <<>>
  /\ pc' = "idle"
  /\ UNCHANGED <<parses, text, lines, links, hptr, result, ret, todo, freed>>

ParseLine(line) ==
  \/ IgnoreLine(line)
  \/ RejectLine(line)
  \/ SaveFirst(line)
  \/ SaveSameLevel(line)
  \/ SaveNextLevel(line)
  \/ SaveAbove(line)

Next ==
  \/ StartParser
  \/ \E line \in Lines : ParseLine(line)
  \/ Climb
  \/ EndClimb
  \/ EndOfFile
  \/ FreeList
  \/ ForgetList
  \/ FreeBelow
  \/ FreeEntry
  \/ EndFork
  \/ EndFree

Spec == Init /\ [][Next]_vars

-----------------------------------------------------------------------------
(* The entries of this parse that have their place. *)
Placed == {e \in Entries : heap[e].parse = parses /\ (pc = "climbing" => e # New)}

LineOf(e) == IF e = NULL THEN 0 ELSE heap[e].line

HeadLine(e) == HeadOf(text, heap[e].line)

(***************************************************************************)
(* The links say what the levels say, for every entry, however often the   *)
(* walk back along prev has changed them (rh4nldaSaveEntry).  It fails if  *)
(* the walk passes or misses the entry a new one belongs to.  And a parse  *)
(* never links to what an earlier parse made, though the list is global    *)
(* and the earlier parse may have ended with an error at any line.         *)
(***************************************************************************)
LinkedByLevel ==
  /\ pc \notin {"crashed", "climbing"} =>
       \A e \in Placed :
         /\ LineOf(heap[e].next) = NextLine(text, heap[e].line)
         /\ LineOf(heap[e].nextlvl) = LineBelow(text, heap[e].line)
         /\ LineOf(heap[e].prev) = 0 <=> heap[e].line = FirstLine(text)
         /\ heap[e].prev # NULL => e \in {heap[heap[e].prev].next, heap[heap[e].prev].nextlvl}
  /\ \A e \in Entries :
       \A l \in {heap[e].prev, heap[e].next, heap[e].nextlvl} :
         l # NULL => heap[l].parse = heap[e].parse
  /\ pc = "returned" /\ result # NULL => heap[result].parse = parses

(***************************************************************************)
(* An entry is a member of the group or redefinition under which Natural   *)
(* has it, unless the line of a head was ignored.  The parser never sees   *)
(* the text as a whole; the name matching relies on the two agreeing.      *)
(***************************************************************************)
UnderItsHead ==
  pc # "crashed" /\ ~LosesHead(text) =>
    \A e \in Placed :
      LET p == heap[e].prev
      IN IF p = NULL THEN HeadLine(e) = 0
         ELSE IF heap[p].nextlvl = e THEN HeadLine(e) = heap[p].line
         ELSE HeadLine(e) = HeadLine(p)

(***************************************************************************)
(* The walk back leaves the list, which crashes the process, if and only   *)
(* if the levels leave no place for the line, and that only if a line with *)
(* a head was ignored.                                                     *)
(***************************************************************************)
CrashesOnlyWithoutHead ==
  /\ pc = "crashed" => HasOrphan(text) /\ LosesHead(text)
  /\ HasOrphan(text) => pc \in {"climbing", "crashed"}

(***************************************************************************)
(* rh4nldaFreeList frees every entry of the list, each once, and none      *)
(* while the loop still needs its links.                                   *)
(***************************************************************************)
FreedOnce ==
  /\ \A i, j \in 1..Len(freed) : freed[i] = freed[j] => i = j
  /\ \A i \in 1..Len(todo), j \in 1..Len(freed) : todo[i].at # freed[j]
  /\ pc = "freeing" /\ todo = <<>> => Placed \subseteq {freed[i] : i \in 1..Len(freed)}

=============================================================================
