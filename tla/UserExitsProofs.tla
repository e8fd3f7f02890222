--------------------------- MODULE UserExitsProofs --------------------------
(***************************************************************************)
(* KeepsOnlyAfter, GivesBackItsOwn and ReadAsDocumented of UserExits, for  *)
(* any number of calls of exits and for format strings and names of any    *)
(* length.                                                                 *)
(*                                                                         *)
(* Taken is what an exit holds in front of each of its calls, so that the  *)
(* table of its calls (IsRow) is compared with the tables of what its      *)
(* returns give back once, row by row (FailureLeaves, FitsLeaves,          *)
(* EndLeaves).  Inv then counts: what is held is what the ends in the      *)
(* history keep and, while an exit runs, what this one has taken.          *)
(*                                                                         *)
(* The format string is proved in three steps: what the loop over the      *)
(* signs has seen behind the last one (ScannedSees), what the function     *)
(* makes of it (ParseIs), and the ways in which the documented form can be *)
(* read (ReadingsAre); the last two depend on the same condition, FitsIn.  *)
(***************************************************************************)
EXTENDS UserExits, Integers, SequencesExt, FiniteSetTheorems, SequenceTheorems, TLAPS

-----------------------------------------------------------------------------
(***************************************************************************)
(* Natural numbers and sequences.                                          *)
(***************************************************************************)

(* A set of naturals has a least element: what proofs by induction use. *)
LEMMA LeastNat ==
  ASSUME NEW T, T \subseteq Nat, T # {}
  PROVE  \E m \in T : \A n \in T : m <= n
<1> DEFINE Below(n) == 0..(n - 1)
           R == StrictSubsetOrdering(Nat)
           F == FiniteSubsetsOf(Nat)
           B == {Below(n) : n \in T}
<1>1. IsWellFoundedOn(R, F)
  BY FS_StrictSubsetOrderingWellFounded
<1>2. \A n \in T : Below(n) \in F
  BY FS_Interval DEF FiniteSubsetsOf
<1>3. B \subseteq F /\ B # {}
  BY <1>2
<1>4. PICK x \in B : \A y \in B : ~(<<y, x>> \in R)
  <2> HIDE DEF R, F, B
  <2> QED BY <1>1, <1>3, WFMin
<1>5. PICK m \in T : x = Below(m)
  BY <1>4
<1>6. ASSUME NEW n \in T, n < m PROVE FALSE
  <2>1. Below(n) \subseteq Below(m) /\ Below(n) # Below(m)
    <3>1. n \in Below(m) /\ n \notin Below(n)
      BY <1>6
    <3>2. \A i \in Below(n) : i \in Below(m)
      BY <1>6
    <3> QED BY <3>1, <3>2
  <2>2. Below(n) \in SUBSET Nat /\ Below(m) \in SUBSET Nat
    OBVIOUS
  <2>3. <<Below(n), Below(m)>> \in R
    BY <2>1, <2>2 DEF StrictSubsetOrdering
  <2> QED BY <2>3, <1>4, <1>5
<1> QED BY <1>6

(* How many elements of a sequence are in a set. *)
Count(s, T) == Cardinality({k \in 1..Len(s) : s[k] \in T})

LEMMA CountAppend ==
  ASSUME NEW S, NEW s \in Seq(S), NEW x \in S, NEW T
  PROVE  /\ Count(s, T) \in Nat
         /\ Count(Append(s, x), T) = IF x \in T THEN Count(s, T) + 1 ELSE Count(s, T)
<1> DEFINE K == {k \in 1..Len(s) : s[k] \in T}
           L == {k \in 1..Len(Append(s, x)) : Append(s, x)[k] \in T}
           n == Len(s) + 1
<1>1. /\ Len(s) \in Nat /\ Len(Append(s, x)) = n
      /\ Append(s, x)[n] = x /\ \A k \in 1..Len(s) : Append(s, x)[k] = s[k]
  BY LenProperties, AppendProperties
<1>2. 1..n = 1..Len(s) \cup {n} /\ n \notin 1..Len(s)
  BY <1>1
<1>3. IsFiniteSet(K)
  <2>1. IsFiniteSet(1..Len(s)) /\ K \in SUBSET (1..Len(s))
    BY <1>1, FS_Interval
  <2> HIDE DEF K
  <2> QED BY <2>1, FS_Subset
<1>4. L = IF x \in T THEN K \cup {n} ELSE K
  BY <1>1, <1>2
<1>5. n \notin K
  BY <1>2
<1> HIDE DEF K, L
<1>6. Cardinality(K) \in Nat
  BY <1>3, FS_CardinalityType
<1>7. Cardinality(K \cup {n}) = Cardinality(K) + 1
  BY <1>3, <1>5, FS_AddElement
<1>8. Count(s, T) = Cardinality(K) /\ Count(Append(s, x), T) = Cardinality(L)
  BY DEF Count, K, L
<1> QED BY <1>4, <1>6, <1>7, <1>8

(* A function on 1..n is a sequence. *)
LEMMA FunctionIsSeq ==
  ASSUME NEW S, NEW n \in Nat, NEW f \in [1..n -> S]
  PROVE  f \in Seq(S) /\ Len(f) = n /\ (n # 0 => f # <<>>)
<1>1. f \in Seq(S)
  BY SeqDef
<1>2. Len(f) \in Nat /\ DOMAIN f = 1..Len(f) /\ DOMAIN f = 1..n
  BY <1>1, LenProperties
<1>3. Len(f) = n
  BY <1>2
<1>4. Len(<<>>) = 0
  OBVIOUS
<1> QED BY <1>1, <1>3, <1>4

(* Where the elements of two sequences are in their concatenation. *)
LEMMA ConcatParts ==
  ASSUME NEW S, NEW s \in Seq(S), NEW t \in Seq(S)
  PROVE  /\ s \o t \in Seq(S)
         /\ Len(s) \in Nat /\ Len(t) \in Nat /\ Len(s \o t) = Len(s) + Len(t)
         /\ \A i \in 1..Len(s) : (s \o t)[i] = s[i]
         /\ \A i \in 1..Len(t) : (s \o t)[Len(s) + i] = t[i]
<1>1. Len(s) \in Nat /\ Len(t) \in Nat
  BY LenProperties
<1>2. /\ s \o t \in Seq(S) /\ Len(s \o t) = Len(s) + Len(t)
      /\ \A i \in 1..Len(s) + Len(t) : (s \o t)[i] = IF i <= Len(s) THEN s[i] ELSE t[i - Len(s)]
  BY ConcatProperties
<1>3. ASSUME NEW i \in 1..Len(t) PROVE (s \o t)[Len(s) + i] = t[i]
  <2>1. Len(s) + i \in 1..Len(s) + Len(t) /\ ~(Len(s) + i <= Len(s)) /\ (Len(s) + i) - Len(s) = i
    BY <1>1
  <2> QED BY <2>1, <1>2
<1>4. \A i \in 1..Len(s) : i \in 1..Len(s) + Len(t) /\ i <= Len(s)
  BY <1>1
<1> QED BY <1>1, <1>2, <1>3, <1>4

(***************************************************************************)
(* Steps taken one after the other: where they lead is a function of how   *)
(* many have been taken.                                                   *)
(***************************************************************************)
StepsFrom(s0, step, len, f) == f[0] = s0 /\ \A i \in 1..len : f[i] = step[i][f[i - 1]]

LEMMA StepsExist ==
  ASSUME NEW S, NEW len \in Nat, NEW s0 \in S, NEW step \in [1..len -> [S -> S]]
  PROVE  \E f \in [0..len -> S] : StepsFrom(s0, step, len, f)
<1> DEFINE Goes(f, n) == f[0] = s0 /\ \A i \in 1..n : f[i] = step[i][f[i - 1]]
           Wrong == {n \in Nat : n <= len /\ ~ \E f \in [0..n -> S] : Goes(f, n)}
<1> SUFFICES Wrong = {}
  <2>1. len <= len
    OBVIOUS
  <2>2. \E f \in [0..len -> S] : Goes(f, len)
    BY <2>1
  <2> QED BY <2>2 DEF StepsFrom
<1> SUFFICES ASSUME Wrong # {} PROVE FALSE
  OBVIOUS
<1>1. PICK n \in Wrong : \A m \in Wrong : n <= m
  <2> Wrong \subseteq Nat
    OBVIOUS
  <2> HIDE DEF Wrong
  <2> QED BY LeastNat
<1>2. n \in Nat /\ n <= len /\ ~ \E f \in [0..n -> S] : Goes(f, n)
  BY <1>1
<1>3. n # 0
  <2> SUFFICES ASSUME n = 0 PROVE FALSE
    OBVIOUS
  <2> DEFINE f == [i \in 0..n |-> s0]
  <2>1. 0 \in 0..n /\ 1..n = {}
    OBVIOUS
  <2>2. f \in [0..n -> S] /\ f[0] = s0
    BY <2>1
  <2> HIDE DEF f
  <2>3. Goes(f, n)
    BY <2>1, <2>2
  <2> QED BY <2>2, <2>3, <1>2
<1>4. n - 1 \in Nat /\ n - 1 <= len /\ ~(n <= n - 1)
  BY <1>2, <1>3
<1>5. n - 1 \notin Wrong
  <2> HIDE DEF Wrong
  <2> QED BY <1>1, <1>4
<1>6. PICK g \in [0..n - 1 -> S] : Goes(g, n - 1)
  BY <1>4, <1>5
<1> DEFINE f == [i \in 0..n |-> IF i < n THEN g[i] ELSE step[n][g[n - 1]]]
<1>7. n \in 1..len /\ n \in 0..n /\ n - 1 \in 0..n - 1
  BY <1>2, <1>3
<1>8. step[n][g[n - 1]] \in S
  BY <1>6, <1>7
<1>9. \A i \in 0..n : (i < n => i \in 0..n - 1)
  BY <1>2
<1>10. f \in [0..n -> S]
  BY <1>6, <1>8, <1>9
<1>11. f[n] = step[n][g[n - 1]]
  BY <1>7
<1>12. \A i \in 0..n - 1 : f[i] = g[i]
  BY <1>2
<1> HIDE DEF f
<1>13. f[0] = s0
  <2>1. 0 \in 0..n - 1
    BY <1>4
  <2> QED BY <2>1, <1>6, <1>12
<1>14. ASSUME NEW i \in 1..n PROVE f[i] = step[i][f[i - 1]]
  <2>1. i - 1 \in 0..n - 1
    BY <1>2
  <2>2. CASE i = n
    BY <2>1, <2>2, <1>11, <1>12
  <2>3. CASE i # n
    <3>1. i \in 1..n - 1 /\ i \in 0..n - 1
      BY <2>3, <1>2
    <3> QED BY <3>1, <2>1, <1>6, <1>12
  <2> QED BY <2>2, <2>3
<1> QED BY <1>2, <1>10, <1>13, <1>14

-----------------------------------------------------------------------------
(* Where an exit can end, and what the end is called in the history. *)
EndNames == OpenCalls \cup {"parse", "ownlibrary", "short", "fixed", "variable", "line", "row", "end"}
Ends == [exit : Exits, call : EndNames]

(* The ends that keep a thing. *)
KeepingEnds(t) ==
  {x \in Ends :
     CASE t = "library" ->
            x.call \in {"properties", "formatstr", "ownlibrary", "exist", "info", "fixed"}
       [] t = "format" -> x.call \in {"ownlibrary", "exist"}
       [] t = "lda" -> x.exit \in Parsers /\ x.call = "line"
       [] t = "variables" ->
            x.exit = "RHGENJS" /\ x.call \in {"variable", "lda", "line", "names", "end"}
       [] t = "positions" -> x.exit \in Objects /\ x.call \in {"row", "put", "end"}
       [] OTHER -> x.exit = "RHDBGINI" /\ x.call \in {"load", "functions", "end"}}

(* The calls of an exit, one by one. *)
IsRow(e, n, c) ==
  /\ e = "RHGENJS" =>
       \/ (n = 1 /\ c = "load") \/ (n = 2 /\ c = "functions") \/ (n = 3 /\ c = "properties")
       \/ (n = 4 /\ c = "formatstr") \/ (n = 5 /\ c = "parse") \/ (n = 6 /\ c = "ownlibrary")
       \/ (n = 7 /\ c = "readout") \/ (n = 8 /\ c = "lda") \/ (n = 9 /\ c = "names")
  /\ e \in Objects =>
       \/ (n = 1 /\ c = "load") \/ (n = 2 /\ c = "functions") \/ (n = 3 /\ c = "properties")
       \/ (n = 4 /\ c = "formatstr") \/ (n = 5 /\ c = "parse") \/ (n = 6 /\ c = "lda")
       \/ (n = 7 /\ c = "position") \/ (n = 8 /\ c = "put")
  /\ e \in Variables =>
       \/ (n = 1 /\ c = "load") \/ (n = 2 /\ c = "functions") \/ (n = 3 /\ c = "properties")
       \/ (n = 4 /\ c = "formatstr") \/ (n = 5 /\ c = "exist") \/ (n = 6 /\ c = "position")
       \/ (n = 7 /\ c = "put")
  /\ e = "RHGETUS" =>
       \/ (n = 1 /\ c = "load") \/ (n = 2 /\ c = "functions") \/ (n = 3 /\ c = "properties")
       \/ (n = 4 /\ c = "user") \/ (n = 5 /\ c = "info") \/ (n = 6 /\ c = "fits")
       \/ (n = 7 /\ c = "put")
  /\ e = "RHDBGINI" =>
       \/ (n = 1 /\ c = "memory") \/ (n = 2 /\ c = "load") \/ (n = 3 /\ c = "functions")
       \/ (n = 4 /\ c = "log") \/ (n = 5 /\ c = "source") \/ (n = 6 /\ c = "output")
       \/ (n = 7 /\ c = "rule") \/ (n = 8 /\ c = "put")

(* The table has the calls of every exit. *)
LEMMA CallNumbers ==
  ASSUME NEW e \in Exits
  PROVE  /\ Len(Calls(e)) = CASE e = "RHGENJS" -> 9
                              [] e \in Objects \cup {"RHDBGINI"} -> 8 [] OTHER -> 7
         /\ \A n \in 1..Len(Calls(e)) : IsRow(e, n, Calls(e)[n])
<1>1. CASE e = "RHGENJS"
  BY <1>1 DEF Calls, IsRow, Objects, Variables
<1>2. CASE e \in Objects
  BY <1>2 DEF Calls, IsRow, Objects, Variables
<1>3. CASE e \in Variables
  BY <1>3 DEF Calls, IsRow, Objects, Variables
<1>4. CASE e = "RHGETUS"
  BY <1>4 DEF Calls, IsRow, Objects, Variables
<1>5. CASE e = "RHDBGINI"
  BY <1>5 DEF Calls, IsRow, Objects, Variables
<1> QED BY <1>1, <1>2, <1>3, <1>4, <1>5 DEF Exits, Objects, Variables

(* What exit e holds in front of its call n, when no call has failed. *)
Taken(e, n) ==
  {t \in Things :
     CASE t = "library" -> n > IF e = "RHDBGINI" THEN 2 ELSE 1
       [] t = "format" -> e \notin {"RHDBGINI", "RHGETUS"} /\ n > 4
       [] t = "lda" -> (e = "RHGENJS" /\ n > 8) \/ (e \in Objects /\ n > 6)
       [] t = "positions" -> (e \in Objects /\ n > 7) \/ (e \in Variables /\ n > 6)
       [] t = "variables" -> e = "RHGENJS" /\ n > 7
       [] OTHER -> e = "RHDBGINI" /\ n > 1}

(* Every call takes what was not taken before. *)
LEMMA TakenNext ==
  ASSUME NEW e \in Exits, NEW n \in 1..Len(Calls(e))
  PROVE  /\ Taken(e, n + 1) = Taken(e, n) \cup Takes(e, Calls(e)[n])
         /\ Taken(e, n) \cap Takes(e, Calls(e)[n]) = {}
<1> DEFINE c == Calls(e)[n]
<1>1. IsRow(e, n, c) /\ n \in Nat
  BY CallNumbers
<1> HIDE DEF c
<1>2. \A t \in Things : t \in Takes(e, c) <=> t \in Taken(e, n + 1) /\ t \notin Taken(e, n)
  BY <1>1 DEF IsRow, Takes, Taken, Things, Exits, Objects, Variables
<1>3. \A t : t \in Taken(e, n) => t \in Taken(e, n + 1)
  BY <1>1 DEF Taken
<1>4. Takes(e, c) \subseteq Things
  BY DEF Takes, Things
<1>5. Taken(e, n + 1) \subseteq Things
  BY DEF Taken
<1>6. Taken(e, n + 1) = Taken(e, n) \cup Takes(e, c) /\ Taken(e, n) \cap Takes(e, c) = {}
  BY <1>2, <1>3, <1>4, <1>5
<1> QED BY <1>6 DEF c

(***************************************************************************)
(* An end that gives back things of what is taken leaves behind exactly    *)
(* the things that this end keeps.                                         *)
(***************************************************************************)
Leaves(e, c, taken0, things) ==
  /\ [exit |-> e, call |-> c] \in Ends
  /\ things \subseteq taken0
  /\ \A t \in Things :
       t \in taken0 \ things <=> [exit |-> e, call |-> c] \in KeepingEnds(t)

(* The return after a call that failed. *)
LEMMA FailureLeaves ==
  ASSUME NEW e \in Exits, NEW n \in 1..Len(Calls(e)), Calls(e)[n] \notin {"rule", "fits"}
  PROVE  Leaves(e, Calls(e)[n], Taken(e, n), Releases(e, Calls(e)[n]))
<1> DEFINE c == Calls(e)[n]
<1>1. IsRow(e, n, c) /\ n \in Nat /\ c \notin {"rule", "fits"}
  BY CallNumbers
<1> HIDE DEF c
<1>2. [exit |-> e, call |-> c] \in Ends
  BY <1>1 DEF IsRow, Ends, EndNames, OpenCalls, Exits, Objects, Variables
<1>3. ASSUME NEW t \in Releases(e, c) PROVE t \in Taken(e, n)
  <2>1. CASE e = "RHGENJS"
    BY <2>1, <1>1 DEF IsRow, Taken, Releases, Things, Objects, Variables
  <2>2. CASE e \in Objects
    BY <2>2, <1>1 DEF IsRow, Taken, Releases, Things, Objects, Variables
  <2>3. CASE e \in Variables
    BY <2>3, <1>1 DEF IsRow, Taken, Releases, Things, Objects, Variables
  <2>4. CASE e = "RHGETUS"
    BY <2>4, <1>1 DEF IsRow, Taken, Releases, Things, Objects, Variables
  <2>5. CASE e = "RHDBGINI"
    BY <2>5, <1>1 DEF IsRow, Taken, Releases, Things, Objects, Variables
  <2> QED BY <2>1, <2>2, <2>3, <2>4, <2>5 DEF Exits, Objects, Variables
<1>4. ASSUME NEW t \in Things
      PROVE  t \in Taken(e, n) \ Releases(e, c) <=> [exit |-> e, call |-> c] \in KeepingEnds(t)
  <2>1. CASE e = "RHGENJS"
    BY <2>1, <1>1, <1>2 DEF IsRow, Taken, Releases, KeepingEnds, Things, Parsers, Objects, Variables
  <2>2. CASE e \in Objects
    BY <2>2, <1>1, <1>2 DEF IsRow, Taken, Releases, KeepingEnds, Things, Parsers, Objects, Variables
  <2>3. CASE e \in Variables
    BY <2>3, <1>1, <1>2 DEF IsRow, Taken, Releases, KeepingEnds, Things, Parsers, Objects, Variables
  <2>4. CASE e = "RHGETUS"
    BY <2>4, <1>1, <1>2 DEF IsRow, Taken, Releases, KeepingEnds, Things, Parsers, Objects, Variables
  <2>5. CASE e = "RHDBGINI"
    BY <2>5, <1>1, <1>2 DEF IsRow, Taken, Releases, KeepingEnds, Things, Parsers, Objects, Variables
  <2> QED BY <2>1, <2>2, <2>3, <2>4, <2>5 DEF Exits, Objects, Variables
<1>5. Leaves(e, c, Taken(e, n), Releases(e, c))
  BY <1>2, <1>3, <1>4 DEF Leaves
<1> QED BY <1>5 DEF c

(* The two returns that look at the length of the user's parameter. *)
LEMMA FitsLeaves ==
  ASSUME NEW e \in Exits, NEW n \in 1..Len(Calls(e)), Calls(e)[n] = "fits",
         NEW p \in {"short", "fixed"}
  PROVE  Leaves(e, p, Taken(e, n), Releases(e, p))
<1>1. e = "RHGETUS" /\ n = 6
  BY CallNumbers DEF IsRow, Exits, Objects, Variables
<1>2. [exit |-> e, call |-> p] \in Ends
  BY DEF Ends, EndNames
<1>3. \A t \in Releases(e, p) : t \in Taken(e, n)
  BY <1>1 DEF Taken, Releases, Things, Objects, Variables
<1>4. ASSUME NEW t \in Things
      PROVE  t \in Taken(e, n) \ Releases(e, p) <=> [exit |-> e, call |-> p] \in KeepingEnds(t)
  BY <1>1, <1>2 DEF Taken, Releases, KeepingEnds, Things, Parsers, Objects, Variables
<1> QED BY <1>2, <1>3, <1>4 DEF Leaves

(* The last return. *)
LEMMA EndLeaves ==
  ASSUME NEW e \in Exits
  PROVE  Leaves(e, "end", Taken(e, Len(Calls(e)) + 1), ReleasesAtEnd(e))
<1> DEFINE n == Len(Calls(e)) + 1
<1>1. n = CASE e = "RHGENJS" -> 10 [] e \in Objects \cup {"RHDBGINI"} -> 9 [] OTHER -> 8
  <2>1. Len(Calls(e)) = CASE e = "RHGENJS" -> 9 [] e \in Objects \cup {"RHDBGINI"} -> 8 [] OTHER -> 7
    BY CallNumbers
  <2> QED BY <2>1
<1> HIDE DEF n
<1>2. [exit |-> e, call |-> "end"] \in Ends
  BY DEF Ends, EndNames
<1>3. \A t \in ReleasesAtEnd(e) : t \in Taken(e, n)
  BY <1>1 DEF Taken, ReleasesAtEnd, Things, Parsers, Exits, Objects, Variables
<1>4. ASSUME NEW t \in Things
      PROVE  t \in Taken(e, n) \ ReleasesAtEnd(e) <=> [exit |-> e, call |-> "end"] \in KeepingEnds(t)
  BY <1>1, <1>2 DEF Taken, ReleasesAtEnd, KeepingEnds, Things, Parsers, Exits, Objects, Variables
<1>5. Leaves(e, "end", Taken(e, n), ReleasesAtEnd(e))
  BY <1>2, <1>3, <1>4 DEF Leaves
<1> QED BY <1>5 DEF n

-----------------------------------------------------------------------------
(***************************************************************************)
(* The inductive invariant.  An exit that runs holds what its calls so far *)
(* have taken, on top of what the exits before it have kept.               *)
(***************************************************************************)
Types ==
  /\ exit \in Exits \cup {"none", "dead"}
  /\ call \in Nat \ {0}
  /\ history \in Seq(Ends)
  /\ held \in [Things -> Int]

KeptSoFar(t) == Count(history, KeepingEnds(t))

Accounts ==
  /\ exit = "none" => \A t \in Things : held[t] = KeptSoFar(t)
  /\ exit \in Exits =>
       /\ call <= Len(Calls(exit)) + 1
       /\ taken = Taken(exit, call)
       /\ \A t \in Things :
            held[t] = IF t \in taken THEN KeptSoFar(t) + 1 ELSE KeptSoFar(t)

(* How far RHDBGINI has filled the properties. *)
PropsTypes ==
  [level : {"none", "known", "unknown"}, logpath : {"null", "path"},
   natsrcpath : {"null", "path", "freed"}, member : BOOLEAN, outputfile : {"null", "path"}]

Filled(n) ==
  /\ props \in PropsTypes
  /\ props.natsrcpath = "path" <=> props.member
  /\ n <= 5 => ~props.member
  /\ n > 6 => props.outputfile = "path"
  /\ n > 7 => props.logpath = "path"

Finished == [exit |-> "RHDBGINI", call |-> "end"]

PropsInv ==
  /\ exit = "RHDBGINI" => Filled(call)
  /\ exit = "none" /\ history # <<>> /\ history[Len(history)] = Finished => Filled(8)

Inv == Types /\ Accounts /\ PropsInv

(* What EndedAt counts is what an end keeps. *)
LEMMA CountsEnds ==
  ASSUME Types
  PROVE  /\ KeptSoFar("library") =
              EndedAt(Exits, {"properties", "formatstr", "ownlibrary", "exist", "info", "fixed"})
         /\ KeptSoFar("format") = EndedAt(Exits, {"ownlibrary", "exist"})
         /\ KeptSoFar("lda") = EndedAt(Parsers, {"line"})
         /\ KeptSoFar("variables") =
              EndedAt({"RHGENJS"}, {"variable", "lda", "line", "names", "end"})
         /\ KeptSoFar("positions") = EndedAt(Objects, {"row", "put", "end"})
         /\ KeptSoFar("properties") = EndedAt({"RHDBGINI"}, {"load", "functions", "end"})
<1>1. \A k \in 1..Len(history) : history[k] \in Ends
  BY ElementOfSeq DEF Types
<1>2. ASSUME NEW t, NEW exits, NEW calls,
             \A x \in Ends : x \in KeepingEnds(t) <=> x.exit \in exits /\ x.call \in calls
      PROVE  KeptSoFar(t) = EndedAt(exits, calls)
  <2>1. {k \in 1..Len(history) : history[k] \in KeepingEnds(t)} =
          {k \in 1..Len(history) : history[k].exit \in exits /\ history[k].call \in calls}
    BY <1>1, <1>2
  <2> QED BY <2>1 DEF KeptSoFar, Count, EndedAt
<1>3. KeptSoFar("library") =
        EndedAt(Exits, {"properties", "formatstr", "ownlibrary", "exist", "info", "fixed"})
  BY <1>2 DEF KeepingEnds, Ends
<1>4. KeptSoFar("format") = EndedAt(Exits, {"ownlibrary", "exist"})
  BY <1>2 DEF KeepingEnds, Ends
<1>5. KeptSoFar("lda") = EndedAt(Parsers, {"line"})
  BY <1>2 DEF KeepingEnds
<1>6. KeptSoFar("variables") = EndedAt({"RHGENJS"}, {"variable", "lda", "line", "names", "end"})
  BY <1>2 DEF KeepingEnds
<1>7. KeptSoFar("positions") = EndedAt(Objects, {"row", "put", "end"})
  BY <1>2 DEF KeepingEnds
<1>8. KeptSoFar("properties") = EndedAt({"RHDBGINI"}, {"load", "functions", "end"})
  BY <1>2 DEF KeepingEnds
<1> QED BY <1>3, <1>4, <1>5, <1>6, <1>7, <1>8

(* The invariant says what the run checks. *)
LEMMA InvKeepsOnlyAfter ==
  ASSUME Inv
  PROVE  KeepsOnlyAfter
<1> SUFFICES ASSUME exit = "none" PROVE KeepsOnlyAfter
  BY DEF KeepsOnlyAfter
<1>1. \A t \in Things : held[t] = KeptSoFar(t)
  BY DEF Inv, Accounts
<1>2. /\ held["library"] = KeptSoFar("library") /\ held["format"] = KeptSoFar("format")
      /\ held["lda"] = KeptSoFar("lda") /\ held["variables"] = KeptSoFar("variables")
      /\ held["positions"] = KeptSoFar("positions")
      /\ held["properties"] = KeptSoFar("properties")
  BY <1>1 DEF Things
<1>3. history # <<>> /\ Last(history) = [exit |-> "RHDBGINI", call |-> "end"] => Filled(8)
  BY DEF Inv, PropsInv, Finished, Last
<1>4. Filled(8) => /\ props.logpath = "path" /\ props.outputfile = "path"
                   /\ props.natsrcpath = "path" <=> props.member
  BY DEF Filled
<1> QED BY <1>2, <1>3, <1>4, CountsEnds DEF Inv, KeepsOnlyAfter

(* Nothing is held, and nothing has ended. *)
LEMMA InitInv == Init => Inv
<1> SUFFICES ASSUME Init PROVE Inv
  OBVIOUS
<1>1. Types
  BY EmptySeq DEF Init, Types
<1>2. \A t \in Things : held[t] = KeptSoFar(t)
  <2>1. \A T : Count(<<>>, T) = 0
    BY FS_EmptySet DEF Count
  <2> QED BY <2>1 DEF Init, KeptSoFar, Things
<1>3. PropsInv
  BY DEF Init, PropsInv, Exits
<1> QED BY <1>1, <1>2, <1>3 DEF Inv, Accounts, Init, Exits

(* A call that succeeds adds what it takes. *)
LEMMA ContinuesAccounts ==
  ASSUME Inv, NEW c, Running(c), Continues(c)
  PROVE  Types' /\ Accounts' /\ exit \in Exits /\ exit' = exit /\ call \in 1..Len(Calls(exit))
         /\ history' = history
<1>1. exit \in Exits /\ call \in 1..Len(Calls(exit)) /\ c = Calls(exit)[call]
  BY DEF Inv, Types, Running
<1>2. /\ Taken(exit, call + 1) = Taken(exit, call) \cup Takes(exit, c)
      /\ Taken(exit, call) \cap Takes(exit, c) = {}
  BY <1>1, TakenNext
<1>3. /\ exit' = exit /\ history' = history /\ call' = call + 1
      /\ taken' = taken \cup Takes(exit, c)
      /\ held' = [t \in Things |-> IF t \in Takes(exit, c) THEN held[t] + 1 ELSE held[t]]
  BY DEF Continues
<1>4. /\ taken = Taken(exit, call) /\ held \in [Things -> Int]
      /\ \A t \in Things : held[t] = IF t \in taken THEN KeptSoFar(t) + 1 ELSE KeptSoFar(t)
  BY <1>1 DEF Inv, Types, Accounts
<1>5. Types'
  <2>1. held' \in [Things -> Int]
    BY <1>3, <1>4
  <2> QED BY <2>1, <1>1, <1>3 DEF Inv, Types
<1>6. taken' = Taken(exit', call') /\ call' <= Len(Calls(exit')) + 1
  <2>1. Len(Calls(exit)) \in Nat
    BY <1>1, CallNumbers
  <2> QED BY <2>1, <1>1, <1>2, <1>3, <1>4
<1>7. ASSUME NEW t \in Things
      PROVE  held'[t] = IF t \in taken' THEN KeptSoFar(t)' + 1 ELSE KeptSoFar(t)'
  <2>1. KeptSoFar(t)' = KeptSoFar(t)
    BY <1>3 DEF KeptSoFar
  <2>2. t \in Things
    BY DEF Things
  <2>3. t \in taken' <=> t \in taken \/ t \in Takes(exit, c)
    BY <1>3
  <2>4. ~(t \in taken /\ t \in Takes(exit, c))
    BY <1>2, <1>4
  <2>5. held'[t] = IF t \in Takes(exit, c) THEN held[t] + 1 ELSE held[t]
    BY <2>2, <1>3
  <2> QED BY <2>1, <2>3, <2>4, <2>5, <1>4
<1> QED BY <1>1, <1>3, <1>5, <1>6, <1>7 DEF Accounts, Exits

(***************************************************************************)
(* An end gives back its own only, and what it leaves is what it keeps.    *)
(***************************************************************************)
LEMMA EndAccounts ==
  ASSUME Inv, exit \in Exits, NEW c, NEW things, Leaves(exit, c, taken, things), Ended(c, things)
  PROVE  /\ Types' /\ Accounts' /\ exit' = "none"
         /\ history' = Append(history, [exit |-> exit, call |-> c])
         /\ \A t \in Things : held'[t] < held[t] => t \in taken
<1> DEFINE entry == [exit |-> exit, call |-> c]
<1>1. /\ exit' = "none" /\ history' = Append(history, entry) /\ call' = call
      /\ held' = [t \in Things |-> IF t \in things THEN held[t] - 1 ELSE held[t]]
  BY DEF Ended
<1>2. /\ entry \in Ends /\ things \subseteq taken
      /\ \A t \in Things : t \in taken \ things <=> entry \in KeepingEnds(t)
  BY DEF Leaves
<1>3. /\ held \in [Things -> Int] /\ history \in Seq(Ends)
      /\ \A t \in Things : held[t] = IF t \in taken THEN KeptSoFar(t) + 1 ELSE KeptSoFar(t)
  BY DEF Inv, Types, Accounts
<1> HIDE DEF entry
<1>4. Types'
  <2>1. held' \in [Things -> Int]
    BY <1>1, <1>3
  <2>2. history' \in Seq(Ends)
    BY <1>1, <1>2, <1>3, AppendProperties
  <2> QED BY <2>1, <2>2, <1>1 DEF Inv, Types
<1>5. ASSUME NEW t \in Things PROVE held'[t] = KeptSoFar(t)'
  <2>1. /\ KeptSoFar(t) \in Nat
        /\ KeptSoFar(t)' = IF entry \in KeepingEnds(t) THEN KeptSoFar(t) + 1 ELSE KeptSoFar(t)
    BY <1>1, <1>2, <1>3, CountAppend DEF KeptSoFar
  <2>2. t \in Things
    BY DEF Things
  <2>3. held'[t] = IF t \in things THEN held[t] - 1 ELSE held[t]
    BY <2>2, <1>1
  <2>4. /\ t \in things => t \in taken
        /\ t \in taken /\ t \notin things <=> entry \in KeepingEnds(t)
    BY <1>2
  <2>5. held[t] = IF t \in taken THEN KeptSoFar(t) + 1 ELSE KeptSoFar(t)
    BY <1>3
  <2> QED BY <2>1, <2>3, <2>4, <2>5
<1>6. \A t \in Things : held'[t] < held[t] => t \in taken
  BY <1>1, <1>2, <1>3
<1>7. Accounts'
  BY <1>1, <1>5 DEF Accounts, Exits
<1> QED BY <1>1, <1>4, <1>6, <1>7 DEF entry

-----------------------------------------------------------------------------
(* What a handler fills in of the properties. *)
LEMMA HandlersFill ==
  ASSUME NEW n \in Nat \ {0}, NEW c, IsRow("RHDBGINI", n, c), c # "rule", Filled(n),
         NEW form \in Forms(c), props' = Handlers(c, props, form), NEW m, m = n + 1
  PROVE  Filled(m)'
<1>1. CASE c = "log"
  <2>1. n = 4
    BY <1>1 DEF IsRow, Objects, Variables
  <2>2. props' = LogHandler(props, form)
    BY <1>1 DEF Handlers
  <2>3. props' \in PropsTypes /\ props'.natsrcpath = props.natsrcpath /\ props'.member = props.member
    BY <2>2 DEF LogHandler, Filled, PropsTypes
  <2> QED BY <2>1, <2>3 DEF Filled
<1>2. CASE c = "source"
  <2>1. n = 5 /\ props \in PropsTypes /\ ~props.member /\ props.natsrcpath # "path"
    BY <1>2 DEF IsRow, Objects, Variables, Filled
  <2>2. props' = LibSrcHandler(props, form)
    BY <1>2 DEF Handlers
  <2>3. props' \in PropsTypes /\ (props'.natsrcpath = "path" <=> props'.member)
    BY <2>1, <2>2 DEF LibSrcHandler, PropsTypes
  <2> QED BY <2>1, <2>3 DEF Filled
<1>3. CASE c = "output"
  BY <1>3 DEF IsRow, Objects, Variables, Filled, PropsTypes, Handlers, OutputfileHandler
<1>4. CASE c \notin {"log", "source", "output"}
  <2>1. props' = props
    BY <1>4 DEF Handlers
  <2>2. n # 5 /\ n # 6 /\ n # 7
    BY <1>4 DEF IsRow
  <2> QED BY <2>1, <2>2 DEF Filled
<1> QED BY <1>1, <1>2, <1>3, <1>4

(* What GivesBackItsOwn says of a step. *)
OwnOnly ==
  exit # "none" /\ exit' = "none" => \A t \in Things : held'[t] < held[t] => t \in taken

(* A call of an exit: it has taken nothing yet. *)
LEMMA StartStep == Inv /\ Start => Inv' /\ OwnOnly
<1> SUFFICES ASSUME Inv, Start PROVE Inv' /\ OwnOnly
  OBVIOUS
<1>1. /\ exit = "none" /\ exit' \in Exits /\ call' = 1 /\ taken' = {} /\ props' = NoProps
      /\ held' = held /\ history' = history
  BY DEF Start
<1>2. Types'
  BY <1>1 DEF Inv, Types
<1>3. Taken(exit', 1) = {}
  BY <1>1 DEF Taken, Things
<1>4. 1 <= Len(Calls(exit')) + 1
  BY <1>1, CallNumbers DEF Exits, Objects
<1>5. \A t \in Things : held'[t] = KeptSoFar(t)'
  BY <1>1 DEF Inv, Accounts, KeptSoFar
<1>6. Accounts'
  BY <1>1, <1>3, <1>4, <1>5 DEF Accounts, Exits
<1>7. Filled(1)'
  BY <1>1 DEF Filled, NoProps, PropsTypes
<1>8. PropsInv'
  BY <1>1, <1>7 DEF PropsInv, Exits
<1> QED BY <1>1, <1>2, <1>6, <1>8 DEF Inv, OwnOnly

(* A call that succeeds, with the handler that it runs. *)
LEMMA SucceedsStep == ASSUME NEW c \in OpenCalls PROVE Inv /\ Succeeds(c) => Inv' /\ OwnOnly
<1> SUFFICES ASSUME Inv, Succeeds(c) PROVE Inv' /\ OwnOnly
  OBVIOUS
<1>1. Running(c) /\ Continues(c)
  BY DEF Succeeds
<1>2. Types' /\ Accounts' /\ exit \in Exits /\ exit' = exit /\ call \in 1..Len(Calls(exit))
  BY <1>1, ContinuesAccounts
<1>3. ASSUME exit = "RHDBGINI" PROVE Filled(call)'
  <2>1. PICK form \in Forms(c) : props' = Handlers(c, props, form)
    BY DEF Succeeds
  <2>2. IsRow("RHDBGINI", call, c)
    BY <1>1, <1>2, <1>3, CallNumbers DEF Running
  <2>3. c # "rule" /\ Filled(call) /\ call \in Nat \ {0} /\ call' = call + 1
    BY <1>1, <1>2, <1>3 DEF OpenCalls, Inv, PropsInv, Types, Continues
  <2>4. PICK n \in Nat \ {0} : n = call
    BY <2>3
  <2>5. PICK m : m = n + 1
    OBVIOUS
  <2>6. Filled(m)'
    BY <2>1, <2>2, <2>3, <2>4, <2>5, HandlersFill
  <2> QED BY <2>3, <2>4, <2>5, <2>6 DEF Filled
<1>4. PropsInv'
  BY <1>2, <1>3 DEF PropsInv, Exits
<1> QED BY <1>2, <1>4 DEF Inv, OwnOnly, Exits

(* The properties after a step that leaves them alone and ends the exit. *)
LEMMA EndStep ==
  ASSUME Inv, exit \in Exits, NEW c, NEW things, Leaves(exit, c, taken, things), Ended(c, things),
         UNCHANGED data, c = "end" /\ exit = "RHDBGINI" => call > 7
  PROVE  Inv' /\ OwnOnly
<1> DEFINE entry == [exit |-> exit, call |-> c]
<1>1. /\ Types' /\ Accounts' /\ exit' = "none" /\ history' = Append(history, entry)
      /\ \A t \in Things : held'[t] < held[t] => t \in taken
  BY EndAccounts
<1>2. history \in Seq(Ends) /\ entry \in Ends
  BY DEF Inv, Types, Leaves
<1>3. history'[Len(history')] = entry
  BY <1>1, <1>2, AppendProperties
<1>4. ASSUME entry = Finished PROVE Filled(8)'
  <2>1. c = "end" /\ exit = "RHDBGINI"
    BY <1>4 DEF Finished
  <2>2. Filled(call) /\ call > 7 /\ call \in Nat
    BY <2>1 DEF Inv, PropsInv, Types
  <2>3. Filled(8)
    BY <2>2 DEF Filled
  <2>4. props' = props
    BY DEF data
  <2> QED BY <2>3, <2>4 DEF Filled
<1>5. PropsInv'
  BY <1>1, <1>3, <1>4 DEF PropsInv
<1> QED BY <1>1, <1>5 DEF Inv, OwnOnly

(* What the exit has taken is what Taken says. *)
LEMMA RunningTaken ==
  ASSUME Inv, NEW c, Running(c)
  PROVE  /\ exit \in Exits /\ call \in 1..Len(Calls(exit)) /\ c = Calls(exit)[call]
         /\ taken = Taken(exit, call)
BY DEF Inv, Types, Accounts, Running

(* A call that fails: the return behind it. *)
LEMMA FailsStep == ASSUME NEW c \in OpenCalls PROVE Inv /\ Fails(c) => Inv' /\ OwnOnly
<1> SUFFICES ASSUME Inv, Fails(c) PROVE Inv' /\ OwnOnly
  OBVIOUS
<1>1. Running(c) /\ Ended(c, Releases(exit, c)) /\ UNCHANGED data
  BY DEF Fails
<1>2. /\ exit \in Exits /\ call \in 1..Len(Calls(exit)) /\ c = Calls(exit)[call]
      /\ taken = Taken(exit, call)
  BY <1>1, RunningTaken
<1>3. c \notin {"rule", "fits", "end"}
  BY DEF OpenCalls
<1>4. Leaves(exit, c, taken, Releases(exit, c))
  BY <1>2, <1>3, FailureLeaves
<1> QED BY <1>1, <1>2, <1>3, <1>4, EndStep

(***************************************************************************)
(* A call that fails half way: what it has taken is kept with the rest.    *)
(***************************************************************************)
LEMMA HalfWayLeaves ==
  ASSUME NEW e \in Exits, NEW n \in 1..Len(Calls(e)), NEW end \in HalfWay(e, Calls(e)[n])
  PROVE  /\ [exit |-> e, call |-> end] \in Ends
         /\ end # "end"
         /\ \A t \in Things :
              /\ t \in Releases(e, Calls(e)[n]) => t \in Taken(e, n)
              /\ [exit |-> e, call |-> end] \in KeepingEnds(t) <=>
                   \/ t \in Takes(e, Calls(e)[n])
                   \/ t \in Taken(e, n) /\ t \notin Releases(e, Calls(e)[n])
<1> DEFINE c == Calls(e)[n]
<1>1. IsRow(e, n, c) /\ n \in Nat
  BY CallNumbers
<1>2. end \in HalfWay(e, c)
  OBVIOUS
<1> HIDE DEF c
<1>3. /\ [exit |-> e, call |-> end] \in Ends
      /\ \/ c = "readout" /\ end = "variable" /\ e = "RHGENJS" /\ n = 7
         \/ c = "lda" /\ end = "line" /\ ((e = "RHGENJS" /\ n = 8) \/ (e \in Objects /\ n = 6))
         \/ c = "position" /\ end = "row" /\ e \in Objects /\ n = 7
  BY <1>1, <1>2 DEF HalfWay, IsRow, Ends, EndNames, Exits, Objects, Variables
<1>4. ASSUME NEW t \in Things
      PROVE  /\ t \in Releases(e, c) => t \in Taken(e, n)
             /\ [exit |-> e, call |-> end] \in KeepingEnds(t) <=>
                  t \in Takes(e, c) \/ (t \in Taken(e, n) /\ t \notin Releases(e, c))
  BY <1>3 DEF Releases, Takes, Taken, KeepingEnds, Things, Parsers, Objects, Variables
<1> QED BY <1>3, <1>4 DEF c

LEMMA FailsHalfWayStep ==
  ASSUME NEW c \in OpenCalls PROVE Inv /\ FailsHalfWay(c) => Inv' /\ OwnOnly
<1> SUFFICES ASSUME Inv, FailsHalfWay(c) PROVE Inv' /\ OwnOnly
  OBVIOUS
<1>1. PICK end \in HalfWay(exit, c) : history' = Append(history, [exit |-> exit, call |-> end])
  BY DEF FailsHalfWay
<1> DEFINE entry == [exit |-> exit, call |-> end]
<1>2. /\ exit \in Exits /\ call \in 1..Len(Calls(exit)) /\ c = Calls(exit)[call]
      /\ taken = Taken(exit, call)
  BY RunningTaken DEF FailsHalfWay
<1>3. /\ exit' = "none" /\ call' = call
      /\ held' = [t \in Things |-> CASE t \in Takes(exit, c) -> held[t] + 1
                                   [] t \in Releases(exit, c) -> held[t] - 1
                                   [] OTHER -> held[t]]
  BY DEF FailsHalfWay
<1>4. /\ entry \in Ends /\ end # "end"
      /\ \A t \in Things :
           /\ t \in Releases(exit, c) => t \in taken
           /\ entry \in KeepingEnds(t) <=>
                t \in Takes(exit, c) \/ (t \in taken /\ t \notin Releases(exit, c))
  BY <1>1, <1>2, HalfWayLeaves
<1>5. \A t \in Things : ~(t \in taken /\ t \in Takes(exit, c))
  BY <1>2, TakenNext
<1>6. /\ held \in [Things -> Int] /\ history \in Seq(Ends)
      /\ \A t \in Things : held[t] = IF t \in taken THEN KeptSoFar(t) + 1 ELSE KeptSoFar(t)
  BY <1>2 DEF Inv, Types, Accounts
<1> HIDE DEF entry
<1>7. history' = Append(history, entry)
  BY <1>1 DEF entry
<1>8. Types'
  <2>1. held' \in [Things -> Int]
    BY <1>3, <1>6
  <2>2. history' \in Seq(Ends)
    BY <1>4, <1>6, <1>7, AppendProperties
  <2> QED BY <2>1, <2>2, <1>3 DEF Inv, Types
<1>9. ASSUME NEW t \in Things PROVE held'[t] = KeptSoFar(t)' /\ (held'[t] < held[t] => t \in taken)
  <2>1. /\ KeptSoFar(t) \in Nat
        /\ KeptSoFar(t)' = IF entry \in KeepingEnds(t) THEN KeptSoFar(t) + 1 ELSE KeptSoFar(t)
    BY <1>4, <1>6, <1>7, CountAppend DEF KeptSoFar
  <2>2. held[t] = IF t \in taken THEN KeptSoFar(t) + 1 ELSE KeptSoFar(t)
    BY <1>6
  <2>3. held'[t] = CASE t \in Takes(exit, c) -> held[t] + 1
                     [] t \in Releases(exit, c) -> held[t] - 1
                     [] OTHER -> held[t]
    BY <1>3
  <2> QED BY <2>1, <2>2, <2>3, <1>4, <1>5
<1>10. Accounts'
  BY <1>3, <1>9 DEF Accounts, Exits
<1>11. history'[Len(history')] # Finished
  <2>1. history'[Len(history')] = entry
    BY <1>4, <1>6, <1>7, AppendProperties
  <2> QED BY <2>1, <1>4 DEF entry, Finished
<1>12. PropsInv'
  BY <1>3, <1>11 DEF PropsInv
<1> QED BY <1>3, <1>8, <1>9, <1>10, <1>12 DEF Inv, OwnOnly

(* A call that succeeds and fills in nothing. *)
LEMMA GoesOn ==
  ASSUME Inv, NEW c, Running(c), Continues(c), props' = props,
         exit = "RHDBGINI" => c = "rule" /\ props.logpath # "null"
  PROVE  Inv' /\ OwnOnly
<1>1. Types' /\ Accounts' /\ exit \in Exits /\ exit' = exit /\ call \in 1..Len(Calls(exit))
  BY ContinuesAccounts
<1>2. ASSUME exit = "RHDBGINI" PROVE Filled(call)'
  <2>1. IsRow("RHDBGINI", call, "rule")
    BY <1>1, <1>2, CallNumbers DEF Running
  <2>2. call = 7 /\ Filled(call) /\ call' = call + 1
    BY <1>2, <2>1 DEF IsRow, Inv, PropsInv, Continues
  <2>3. props.logpath = "path"
    BY <1>2, <2>2 DEF Filled, PropsTypes
  <2> QED BY <2>2, <2>3 DEF Filled
<1>3. PropsInv'
  BY <1>1, <1>2 DEF PropsInv, Exits
<1> QED BY <1>1, <1>3 DEF Inv, OwnOnly, Exits

(* The format string is taken apart or refused. *)
LEMMA ParseStep == Inv /\ Parse => Inv' /\ OwnOnly
<1> SUFFICES ASSUME Inv, Parse PROVE Inv' /\ OwnOnly
  OBVIOUS
<1>1. Running("parse") /\ props' = props
  BY DEF Parse
<1>2. /\ exit \in Exits /\ call \in 1..Len(Calls(exit)) /\ Calls(exit)[call] = "parse"
      /\ taken = Taken(exit, call)
  BY <1>1, RunningTaken
<1>3. exit # "RHDBGINI"
  BY <1>2, CallNumbers DEF IsRow
<1>4. CASE Continues("parse")
  BY <1>1, <1>3, <1>4, GoesOn
<1>5. CASE Ended("parse", Releases(exit, "parse"))
  <2>1. Leaves(exit, "parse", taken, Releases(exit, "parse"))
    BY <1>2, FailureLeaves
  <2>2. Types' /\ Accounts' /\ exit' = "none"
        /\ history' = Append(history, [exit |-> exit, call |-> "parse"])
        /\ \A t \in Things : held'[t] < held[t] => t \in taken
    BY <1>2, <1>5, <2>1, EndAccounts
  <2>3. history \in Seq(Ends) /\ [exit |-> exit, call |-> "parse"] \in Ends
    BY <2>1 DEF Inv, Types, Leaves
  <2>4. history'[Len(history')] # Finished
    BY <2>2, <2>3, AppendProperties DEF Finished
  <2> QED BY <2>2, <2>4 DEF Inv, OwnOnly, PropsInv
<1> QED BY <1>4, <1>5 DEF Parse

(* RHGENJS with or without a library. *)
LEMMA LibraryStep == Inv /\ Library => Inv' /\ OwnOnly
<1> SUFFICES ASSUME Inv, Library PROVE Inv' /\ OwnOnly
  OBVIOUS
<1>1. Running("ownlibrary") /\ UNCHANGED data /\ props' = props
  BY DEF Library, data
<1>2. /\ exit \in Exits /\ call \in 1..Len(Calls(exit)) /\ Calls(exit)[call] = "ownlibrary"
      /\ taken = Taken(exit, call)
  BY <1>1, RunningTaken
<1>3. exit # "RHDBGINI"
  BY <1>2, CallNumbers DEF IsRow
<1>4. CASE Continues("ownlibrary")
  BY <1>1, <1>3, <1>4, GoesOn
<1>5. CASE Ended("ownlibrary", Releases(exit, "ownlibrary"))
  <2>1. Leaves(exit, "ownlibrary", taken, Releases(exit, "ownlibrary"))
    BY <1>2, FailureLeaves
  <2> QED BY <1>1, <1>2, <1>3, <1>5, <2>1, EndStep
<1> QED BY <1>4, <1>5 DEF Library

(* The length of the parameter of RHGETUS. *)
LEMMA FitsStep == Inv /\ Fits => Inv' /\ OwnOnly
<1> SUFFICES ASSUME Inv, Fits PROVE Inv' /\ OwnOnly
  OBVIOUS
<1>1. Running("fits") /\ UNCHANGED data /\ props' = props
  BY DEF Fits, data
<1>2. /\ exit \in Exits /\ call \in 1..Len(Calls(exit)) /\ Calls(exit)[call] = "fits"
      /\ taken = Taken(exit, call)
  BY <1>1, RunningTaken
<1>3. exit # "RHDBGINI"
  BY <1>2, CallNumbers DEF IsRow
<1>4. CASE Continues("fits")
  BY <1>1, <1>3, <1>4, GoesOn
<1>5. ASSUME NEW p \in {"short", "fixed"}, Ended(p, Releases(exit, p)) PROVE Inv' /\ OwnOnly
  <2>1. Leaves(exit, p, taken, Releases(exit, p))
    BY <1>2, FitsLeaves
  <2> QED BY <1>1, <1>2, <1>3, <1>5, <2>1, EndStep
<1> QED BY <1>4, <1>5 DEF Fits

(* The rule for the log is made, or the process is killed. *)
LEMMA RuleStep == Inv /\ Rule => Inv' /\ OwnOnly
<1> SUFFICES ASSUME Inv, Rule PROVE Inv' /\ OwnOnly
  OBVIOUS
<1>1. Running("rule") /\ props' = props
  BY DEF Rule, data
<1>2. CASE props.logpath # "null" /\ Continues("rule")
  BY <1>1, <1>2, GoesOn
<1>3. CASE exit' = "dead" /\ UNCHANGED <<call, resources, history>>
  <2>1. Types'
    BY <1>3 DEF Inv, Types, resources
  <2> QED BY <1>3, <2>1 DEF Inv, Accounts, PropsInv, OwnOnly, Exits
<1> QED BY <1>2, <1>3 DEF Rule

(* The last return. *)
LEMMA FinishStep == Inv /\ Finish => Inv' /\ OwnOnly
<1> SUFFICES ASSUME Inv, Finish PROVE Inv' /\ OwnOnly
  OBVIOUS
<1>1. /\ exit \in Exits /\ call > Len(Calls(exit)) /\ Ended("end", ReleasesAtEnd(exit))
      /\ UNCHANGED data
  BY DEF Finish, Inv, Types
<1>2. Len(Calls(exit)) \in Nat /\ (exit = "RHDBGINI" => Len(Calls(exit)) = 8)
  BY <1>1, CallNumbers DEF Objects
<1>3. call = Len(Calls(exit)) + 1 /\ taken = Taken(exit, call)
  <2>1. call <= Len(Calls(exit)) + 1 /\ call \in Nat /\ taken = Taken(exit, call)
    BY <1>1 DEF Inv, Types, Accounts
  <2> QED BY <1>1, <1>2, <2>1
<1>4. Leaves(exit, "end", taken, ReleasesAtEnd(exit))
  BY <1>1, <1>3, EndLeaves
<1>5. ASSUME exit = "RHDBGINI" PROVE call > 7
  <2>1. Len(Calls(exit)) = 8
    BY <1>2, <1>5
  <2> QED BY <2>1, <1>3
<1> QED BY <1>1, <1>4, <1>5, EndStep

(* The invariant is inductive. *)
LEMMA Step == Inv /\ [Next]_vars => Inv' /\ (OwnOnly \/ UNCHANGED vars)
<1> SUFFICES ASSUME Inv, [Next]_vars PROVE Inv' /\ (OwnOnly \/ UNCHANGED vars)
  OBVIOUS
<1>1. CASE Start
  BY <1>1, StartStep
<1>2. CASE Parse
  BY <1>2, ParseStep
<1>3. CASE Library
  BY <1>3, LibraryStep
<1>4. CASE Fits
  BY <1>4, FitsStep
<1>5. CASE Rule
  BY <1>5, RuleStep
<1>6. CASE Finish
  BY <1>6, FinishStep
<1>7. ASSUME NEW c \in OpenCalls, Succeeds(c) \/ Fails(c) \/ FailsHalfWay(c) PROVE Inv' /\ OwnOnly
  BY <1>7, SucceedsStep, FailsStep, FailsHalfWayStep
<1>8. CASE UNCHANGED vars
  <2>1. Types' /\ Accounts'
    BY <1>8 DEF vars, resources, Inv, Types, Accounts, KeptSoFar
  <2>2. PropsInv'
    BY <1>8 DEF vars, data, Inv, PropsInv, Filled
  <2> QED BY <1>8, <2>1, <2>2 DEF Inv
<1> QED BY <1>1, <1>2, <1>3, <1>4, <1>5, <1>6, <1>7, <1>8 DEF Next

(* So it holds in every reachable state. *)
LEMMA ExitsInvariance == Spec => []Inv
<1>1. Inv /\ [Next]_vars => Inv'
  BY Step
<1> QED BY <1>1, InitInv, PTL DEF Spec

(***************************************************************************)
(* The returns of the user exits: between two calls, what is held is       *)
(* exactly what the few returns that keep something have left, and the     *)
(* properties that RHDBGINI hands to the program are complete.             *)
(***************************************************************************)
THEOREM KeepsOnlyAfterCorrect == Spec => []KeepsOnlyAfter
<1>1. Inv => KeepsOnlyAfter
  BY InvKeepsOnlyAfter
<1> QED BY <1>1, ExitsInvariance, PTL

(***************************************************************************)
(* Every return of every user exit gives back only what this call has      *)
(* taken.                                                                  *)
(***************************************************************************)
THEOREM GivesBackItsOwnCorrect == Spec => GivesBackItsOwn
<1>1. Inv /\ [Next]_vars =>
        [exit # "none" /\ exit' = "none" => \A t \in Things : held'[t] < held[t] => t \in taken]_vars
  BY Step DEF OwnOnly
<1> QED BY <1>1, ExitsInvariance, PTL DEF Spec, GivesBackItsOwn

-----------------------------------------------------------------------------
(***************************************************************************)
(* The format string.  Seen is what the loop over the signs knows behind   *)
(* sign k: where the only "@" and the only "." behind it are, or that the  *)
(* string is no format string.                                             *)
(***************************************************************************)
ScanStates == [ok : BOOLEAN, i : Nat, at : Nat, point : Nat]

Malformed(t) ==
  \E j \in 1..Len(t) :
    \/ t[j] = "." /\ \A h \in 1..j - 1 : t[h] # "@"
    \/ t[j] = "." /\ \E h \in 1..j - 1 : t[h] = "."
    \/ t[j] = "@" /\ \E h \in 1..j - 1 : t[h] = "@"

(* The only place of a sign among the first k ones, 0 when it is not there. *)
OnlyAt(t, k, sign, p) ==
  /\ p \in 0..k
  /\ p # 0 => t[p] = sign
  /\ \A j \in 1..k : t[j] = sign => j = p

Seen(t, k, s) ==
  /\ s \in ScanStates
  /\ ~s.ok => Malformed(t)
  /\ s.ok => /\ s.i = k
             /\ OnlyAt(t, k, "@", s.at) /\ OnlyAt(t, k, ".", s.point)
             /\ s.point # 0 => s.at # 0 /\ s.at < s.point

(* One round of the loop, case by case. *)
LEMMA ScanIs ==
  ASSUME NEW s \in ScanStates, NEW sign \in Signs
  PROVE  /\ Scan(s, sign) \in ScanStates
         /\ ~s.ok => Scan(s, sign) = s
         /\ sign = "." /\ (s.at = 0 \/ s.point # 0) => ~Scan(s, sign).ok
         /\ sign = "@" /\ s.at # 0 => ~Scan(s, sign).ok
         /\ s.ok /\ sign = "." /\ s.at # 0 /\ s.point = 0
              => Scan(s, sign) = [ok |-> TRUE, i |-> s.i + 1, at |-> s.at, point |-> s.i + 1]
         /\ s.ok /\ sign = "@" /\ s.at = 0
              => Scan(s, sign) = [ok |-> TRUE, i |-> s.i + 1, at |-> s.i + 1, point |-> s.point]
         /\ s.ok /\ sign = "x"
              => Scan(s, sign) = [ok |-> TRUE, i |-> s.i + 1, at |-> s.at, point |-> s.point]
<1> DEFINE bad == (sign = "." /\ (s.at = 0 \/ s.point # 0)) \/ (sign = "@" /\ s.at # 0)
           good == [ok |-> TRUE, i |-> s.i + 1, at |-> IF sign = "@" THEN s.i + 1 ELSE s.at,
                    point |-> IF sign = "." THEN s.i + 1 ELSE s.point]
           failed == [s EXCEPT !.ok = FALSE]
<1>1. Scan(s, sign) = IF ~s.ok \/ bad THEN failed ELSE good
  BY DEF Scan
<1>2. good \in ScanStates /\ failed \in ScanStates /\ ~failed.ok /\ (~s.ok => failed = s)
  <2>1. s.ok \in BOOLEAN /\ s.i \in Nat /\ s.i + 1 \in Nat /\ s.at \in Nat /\ s.point \in Nat
    BY DEF ScanStates
  <2>2. good \in ScanStates
    BY <2>1 DEF ScanStates
  <2>3. /\ failed \in ScanStates /\ ~failed.ok
        /\ failed.i = s.i /\ failed.at = s.at /\ failed.point = s.point
    BY DEF ScanStates
  <2> HIDE DEF failed
  <2>4. \A r \in ScanStates : r = [ok |-> r.ok, i |-> r.i, at |-> r.at, point |-> r.point]
    BY DEF ScanStates
  <2>5. failed.ok = FALSE
    BY <2>3 DEF ScanStates
  <2>6. ASSUME ~s.ok PROVE failed = s
    <3>1. s.ok = failed.ok
      BY <2>1, <2>5, <2>6
    <3> QED BY <3>1, <2>3, <2>4
  <2> QED BY <2>2, <2>3, <2>6
<1>3. s.ok /\ bad => Scan(s, sign) = failed
  BY <1>1
<1>4. s.ok /\ ~bad => Scan(s, sign) = good
  BY <1>1
<1>5. ~s.ok => Scan(s, sign) = s
  BY <1>1, <1>2
<1>6. Scan(s, sign) \in ScanStates /\ (bad => ~Scan(s, sign).ok)
  BY <1>2, <1>3, <1>4, <1>5
<1>7. "." # "@" /\ "." # "x" /\ "@" # "x"
  OBVIOUS
<1> QED BY <1>4, <1>5, <1>6, <1>7

(* The loop goes over every sign. *)
LEMMA ScanSees ==
  ASSUME NEW t \in Seq(Signs), NEW k \in 1..Len(t), NEW s, Seen(t, k - 1, s)
  PROVE  Seen(t, k, Scan(s, t[k]))
<1>1. Len(t) \in Nat /\ t[k] \in Signs /\ k \in Nat \ {0} /\ s \in ScanStates
  BY LenProperties, ElementOfSeq DEF Seen
<1>6. ASSUME ~Scan(s, t[k]).ok, Malformed(t) PROVE Seen(t, k, Scan(s, t[k]))
  BY <1>1, <1>6, ScanIs DEF Seen
<1>2. CASE ~s.ok
  BY <1>1, <1>2, ScanIs DEF Seen
<1>3. CASE s.ok /\ t[k] = "."
  <2>1. /\ s.i = k - 1 /\ OnlyAt(t, k - 1, "@", s.at) /\ OnlyAt(t, k - 1, ".", s.point)
        /\ s.point # 0 => s.at # 0 /\ s.at < s.point
    BY <1>3 DEF Seen
  <2>2. CASE s.at = 0 \/ s.point # 0
    <3>1. ~Scan(s, t[k]).ok
      BY <1>1, <1>3, <2>2, ScanIs
    <3>2. Malformed(t)
      <4>1. CASE s.at = 0
        <5>1. \A h \in 1..k - 1 : t[h] # "@"
          BY <4>1, <1>1, <2>1 DEF OnlyAt
        <5> QED BY <5>1, <1>3 DEF Malformed
      <4>2. CASE s.point # 0
        <5>1. s.point \in 1..k - 1 /\ t[s.point] = "."
          BY <4>2, <1>1, <2>1 DEF OnlyAt
        <5> QED BY <5>1, <1>3 DEF Malformed
      <4> QED BY <4>1, <4>2, <2>2
    <3> QED BY <3>1, <3>2, <1>6
  <2>3. CASE s.at # 0 /\ s.point = 0
    <3>1. Scan(s, t[k]) = [ok |-> TRUE, i |-> k, at |-> s.at, point |-> k]
      BY <1>1, <1>3, <2>1, <2>3, ScanIs
    <3>2. OnlyAt(t, k, "@", s.at)
      BY <1>1, <1>3, <2>1 DEF OnlyAt
    <3>3. OnlyAt(t, k, ".", k)
      BY <1>1, <1>3, <2>1, <2>3 DEF OnlyAt
    <3>4. s.at < k /\ s.at \in Nat
      BY <1>1, <2>1 DEF OnlyAt
    <3> QED BY <3>1, <3>2, <3>3, <3>4, <2>3, <1>1 DEF Seen, ScanStates
  <2> QED BY <2>2, <2>3
<1>4. CASE s.ok /\ t[k] = "@"
  <2>1. /\ s.i = k - 1 /\ OnlyAt(t, k - 1, "@", s.at) /\ OnlyAt(t, k - 1, ".", s.point)
        /\ s.point # 0 => s.at # 0 /\ s.at < s.point
    BY <1>4 DEF Seen
  <2>2. CASE s.at # 0
    <3>1. ~Scan(s, t[k]).ok
      BY <1>1, <1>4, <2>2, ScanIs
    <3>2. s.at \in 1..k - 1 /\ t[s.at] = "@"
      BY <2>2, <1>1, <2>1 DEF OnlyAt
    <3>3. Malformed(t)
      BY <3>2, <1>4 DEF Malformed
    <3> QED BY <3>1, <3>3, <1>6
  <2>3. CASE s.at = 0
    <3>0. s.point = 0
      BY <2>1, <2>3
    <3>1. Scan(s, t[k]) = [ok |-> TRUE, i |-> k, at |-> k, point |-> 0]
      BY <1>1, <1>4, <2>1, <2>3, <3>0, ScanIs
    <3>2. OnlyAt(t, k, ".", 0)
      BY <1>1, <1>4, <2>1, <3>0 DEF OnlyAt
    <3>3. OnlyAt(t, k, "@", k)
      BY <1>1, <1>4, <2>1, <2>3 DEF OnlyAt
    <3> QED BY <3>1, <3>2, <3>3, <1>1 DEF Seen, ScanStates
  <2> QED BY <2>2, <2>3
<1>5. CASE s.ok /\ t[k] = "x"
  <2>1. /\ s.i = k - 1 /\ OnlyAt(t, k - 1, "@", s.at) /\ OnlyAt(t, k - 1, ".", s.point)
        /\ s.point # 0 => s.at # 0 /\ s.at < s.point
    BY <1>5 DEF Seen
  <2>2. Scan(s, t[k]) = [ok |-> TRUE, i |-> k, at |-> s.at, point |-> s.point]
    BY <1>1, <1>5, <2>1, ScanIs
  <2>3. OnlyAt(t, k, "@", s.at) /\ OnlyAt(t, k, ".", s.point)
    BY <1>1, <1>5, <2>1 DEF OnlyAt
  <2> QED BY <2>1, <2>2, <2>3, <1>1 DEF Seen, ScanStates
<1> QED BY <1>1, <1>2, <1>3, <1>4, <1>5 DEF Signs

(* What is known behind the last sign. *)
LEMMA ScannedSees ==
  ASSUME NEW t \in Seq(Signs)
  PROVE  Seen(t, Len(t), Scanned(t))
<1> DEFINE len == Len(t)
           S == ScanStates
           step == [k \in 1..len |-> [s \in S |-> Scan(s, t[k])]]
           g == CHOOSE s : s = [k \in 0..len |-> IF k = 0 THEN NothingSeen ELSE Scan(s[k - 1], t[k])]
<1>1. len \in Nat /\ NothingSeen \in S /\ \A k \in 1..len : t[k] \in Signs
  BY LenProperties, ElementOfSeq DEF NothingSeen, ScanStates
<1>2. step \in [1..len -> [S -> S]]
  <2>1. ASSUME NEW k \in 1..len, NEW s \in S PROVE Scan(s, t[k]) \in S
    BY <1>1, ScanIs
  <2> HIDE DEF S, len
  <2> QED BY <2>1
<1>3. PICK f \in [0..len -> S] : StepsFrom(NothingSeen, step, len, f)
  <2> HIDE DEF S, len, step, g
  <2> QED BY <1>1, <1>2, StepsExist
<1>4. f[0] = NothingSeen /\ \A k \in 1..len : f[k] = Scan(f[k - 1], t[k])
  <2>1. \A k \in 1..len : k - 1 \in 0..len
    BY <1>1
  <2> HIDE DEF S, len
  <2> QED BY <1>3, <2>1 DEF StepsFrom
<1>5. f = [k \in 0..len |-> IF k = 0 THEN NothingSeen ELSE Scan(f[k - 1], t[k])]
  <2>1. \A k \in 0..len : k # 0 => k \in 1..len
    BY <1>1
  <2> HIDE DEF S, len, step
  <2> QED BY <2>1, <1>3, <1>4
<1>6. g = [k \in 0..len |-> IF k = 0 THEN NothingSeen ELSE Scan(g[k - 1], t[k])]
  <2> HIDE DEF S, len, step
  <2> QED BY <1>5
<1>7. Scanned(t) = g[len]
  BY DEF Scanned
<1> HIDE DEF step, g, S
<1>8. g[0] = NothingSeen /\ \A k \in 1..len : g[k] = Scan(g[k - 1], t[k])
  <2>1. 0 \in 0..len /\ \A k \in 1..len : k \in 0..len /\ k # 0
    BY <1>1
  <2> HIDE DEF len
  <2> QED BY <2>1, <1>6
<1> DEFINE Blind == {k \in Nat : k <= len /\ ~Seen(t, k, g[k])}
<1>9. Blind = {}
  <2>1. SUFFICES ASSUME Blind # {} PROVE FALSE
    OBVIOUS
  <2>2. PICK k \in Blind : \A h \in Blind : k <= h
    <3>1. Blind \subseteq Nat
      OBVIOUS
    <3> HIDE DEF Blind
    <3> QED BY <3>1, <2>1, LeastNat
  <2>3. CASE k = 0
    <3>1. g[k] = NothingSeen /\ NothingSeen \in ScanStates
      BY <2>3, <1>1, <1>8 DEF S
    <3>2. Seen(t, 0, NothingSeen)
      BY <3>1 DEF Seen, NothingSeen, OnlyAt
    <3> QED BY <2>3, <3>1, <3>2
  <2>4. CASE k # 0
    <3>1. k \in 1..len /\ k - 1 \in Nat /\ k - 1 <= len /\ k - 1 < k
      BY <2>4, <1>1
    <3>2. Seen(t, k - 1, g[k - 1])
      BY <2>2, <3>1
    <3>3. Seen(t, k, g[k])
      BY <3>1, <3>2, <1>8, ScanSees
    <3> QED BY <3>3
  <2> QED BY <2>3, <2>4
<1> QED BY <1>1, <1>7, <1>9

-----------------------------------------------------------------------------
(* Names are told apart by their lengths. *)
LEMMA NamesAre ==
  ASSUME NEW n \in Nat
  PROVE  /\ \A s \in NamesUpTo(n) : s \in Seq({"x"}) /\ s \in Seq(Signs) /\ Len(s) \in 1..n
         /\ \A s \in Seq({"x"}) : Len(s) \in 1..n => s \in NamesUpTo(n)
<1>1. ASSUME NEW s \in NamesUpTo(n) PROVE s \in Seq({"x"}) /\ s \in Seq(Signs) /\ Len(s) \in 1..n
  <2>1. PICK k \in 1..n : s \in [1..k -> {"x"}]
    BY DEF NamesUpTo
  <2>2. s \in [1..k -> Signs] /\ k \in Nat
    BY <2>1 DEF Signs
  <2> QED BY <2>1, <2>2, FunctionIsSeq
<1>2. ASSUME NEW s \in Seq({"x"}), Len(s) \in 1..n PROVE s \in NamesUpTo(n)
  <2>1. s \in [1..Len(s) -> {"x"}]
    BY LenProperties
  <2> QED BY <1>2, <2>1 DEF NamesUpTo
<1> QED BY <1>1, <1>2

LEMMA NamesEqual ==
  ASSUME NEW s \in Seq({"x"}), NEW r \in Seq({"x"}), Len(s) = Len(r)
  PROVE  s = r
<1>1. \A i \in 1..Len(s) : s[i] = "x" /\ r[i] = "x"
  BY ElementOfSeq
<1> QED BY <1>1, SeqEqual

(* A piece of a string without separators is as long as it looks. *)
LEMMA PieceIs ==
  ASSUME NEW t \in Seq(Signs), NEW a \in Nat \ {0}, NEW b \in Nat, b <= Len(t), a <= b + 1
  PROVE  /\ SubSeq(t, a, b) \in Seq(Signs) /\ Len(SubSeq(t, a, b)) = b + 1 - a
         /\ (\A i \in a..b : t[i] = "x") => SubSeq(t, a, b) \in Seq({"x"})
         /\ SubSeq(t, a, b) = <<>> <=> b < a
<1>1. Len(t) \in Nat /\ \A i \in a..b : t[i] \in Signs
  BY LenProperties, ElementOfSeq
<1>2. /\ SubSeq(t, a, b) \in Seq(Signs)
      /\ Len(SubSeq(t, a, b)) = IF a <= b THEN b - a + 1 ELSE 0
  BY <1>1, SubSeqProperties
<1>3. (\A i \in a..b : t[i] = "x") => SubSeq(t, a, b) \in Seq({"x"})
  <2> SUFFICES ASSUME \A i \in a..b : t[i] \in {"x"} PROVE SubSeq(t, a, b) \in Seq({"x"})
    OBVIOUS
  <2>1. a \in Int /\ b \in Int
    OBVIOUS
  <2> QED BY <2>1, SubSeqProperties
<1>4. (IF a <= b THEN b - a + 1 ELSE 0) = b + 1 - a
  OBVIOUS
<1>5. SubSeq(t, a, b) = <<>> <=> b < a
  BY <1>2, <1>4, EmptySeq
<1> QED BY <1>2, <1>3, <1>4, <1>5

(* Where a string ends that the function has cut. *)
LEMMA FromIs ==
  ASSUME NEW t \in Seq(Signs), NEW m \in Seq(Signs \cup {End}), Len(m) = Len(t) + 1,
         NEW k \in Nat \ {0}, NEW e \in Nat, k <= e, e <= Len(m), m[e] = End,
         \A h \in k..e - 1 : m[h] = t[h]
  PROVE  From(m, k) = SubSeq(t, k, e - 1)
<1> DEFINE Ends0(j) == m[j] = End /\ \A h \in k..j - 1 : m[h] # End
<1>1. Len(t) \in Nat /\ Len(m) \in Nat
  BY LenProperties
<1>2. \A h \in k..e - 1 : m[h] \in Signs /\ m[h] # End
  <2>1. \A h \in k..e - 1 : h \in 1..Len(t)
    BY <1>1
  <2>2. \A h \in k..e - 1 : t[h] \in Signs
    BY <2>1, ElementOfSeq
  <2>3. End \notin Signs
    BY DEF End, Signs
  <2> QED BY <2>2, <2>3
<1>3. e \in k..Len(m) /\ Ends0(e)
  BY <1>1, <1>2
<1>4. ASSUME NEW j \in k..Len(m), Ends0(j) PROVE j = e
  <2>1. j \in Nat /\ (j < e => j \in k..e - 1) /\ (e < j => e \in k..j - 1)
    BY <1>1
  <2> QED BY <2>1, <1>2, <1>4
<1>5. (CHOOSE j \in k..Len(m) : Ends0(j)) = e
  <2> HIDE DEF Ends0
  <2> QED BY <1>3, <1>4
<1>6. From(m, k) = SubSeq(m, k, e - 1)
  BY <1>5 DEF From
<1>7. SubSeq(m, k, e - 1) = SubSeq(t, k, e - 1)
  <2>1. e - 1 \in Int /\ k \in Int /\ \A h \in k..e - 1 : t[h] \in Signs /\ m[h] \in Signs
    BY <1>2
  <2> DEFINE p == SubSeq(m, k, e - 1)
             q == SubSeq(t, k, e - 1)
             n == (e - 1) - k + 1
  <2>2. /\ p \in Seq(Signs) /\ Len(p) = IF k <= e - 1 THEN n ELSE 0
        /\ \A i \in 1..n : p[i] = m[k + i - 1]
    BY <2>1, SubSeqProperties
  <2>3. /\ q \in Seq(Signs) /\ Len(q) = IF k <= e - 1 THEN n ELSE 0
        /\ \A i \in 1..n : q[i] = t[k + i - 1]
    BY <2>1, SubSeqProperties
  <2>4. \A i \in 1..Len(p) : i \in 1..n /\ k + i - 1 \in k..e - 1
    BY <2>2
  <2>5. \A i \in 1..Len(p) : p[i] = q[i]
    BY <2>2, <2>3, <2>4
  <2> HIDE DEF p, q
  <2>6. p = q
    BY <2>2, <2>3, <2>5, SeqEqual
  <2> QED BY <2>6 DEF p, q
<1> QED BY <1>6, <1>7

-----------------------------------------------------------------------------
(* The structure ends in front of the "@"; the library, where there is a   *)
(* point, lies between it and the "@"; the LDA is the rest.                *)
Struct(t, s) == SubSeq(t, 1, s.at - 1)
LibraryIn(t, s) == IF s.point = 0 THEN <<>> ELSE SubSeq(t, s.at + 1, s.point - 1)
LDAStart(s) == (IF s.point = 0 THEN s.at ELSE s.point) + 1
LDAIn(t, s) == SubSeq(t, LDAStart(s), Len(t))

(* What has been seen is a format string of names that fit. *)
FitsIn(t, s) ==
  /\ s.ok /\ s.at > 1 /\ s.at - 1 <= LenName
  /\ s.point # 0 => s.point > s.at + 1 /\ s.point - (s.at + 1) <= LenLibrary
  /\ LDAStart(s) <= Len(t) /\ Len(t) + 1 - LDAStart(s) <= LenMember

Refused == {"MALFORMED", "OVERFLOW"}

(* The end of the function: the LDA, from k on. *)
LDAResult(t, m, k, st, li, library) ==
  LET r == LDA([ret |-> "none", struct |-> st, library |-> li, lda |-> <<>>], m, k, library)
      lda == SubSeq(t, k, Len(t))
      n == Len(t) + 1 - k
  IN /\ 1 <= n /\ n <= LenMember
          => r = [ret |-> "OK", struct |-> st, library |-> library, lda |-> lda]
     /\ ~(1 <= n /\ n <= LenMember) => r.ret \in Refused /\ r.lda = <<>>

(* Behind k nothing has been cut. *)
WholeFrom(t, m, k) ==
  /\ m \in Seq(Signs \cup {End}) /\ Len(m) = Len(t) + 1 /\ m[Len(t) + 1] = End
  /\ k \in Nat \ {0} /\ k <= Len(t) + 1
  /\ \A h \in k..Len(t) : m[h] = t[h]

LEMMA LDAIs ==
  ASSUME NEW t \in Seq(Signs), NEW m, NEW k, WholeFrom(t, m, k), NEW st, NEW li, NEW library
  PROVE  LDAResult(t, m, k, st, li, library)
<1> DEFINE infos0 == [ret |-> "none", struct |-> st, library |-> li, lda |-> <<>>]
           r == LDA(infos0, m, k, library)
           lda == SubSeq(t, k, Len(t))
           n == Len(t) + 1 - k
<1>0. /\ m \in Seq(Signs \cup {End}) /\ Len(m) = Len(t) + 1 /\ m[Len(t) + 1] = End
      /\ k \in Nat \ {0} /\ k <= Len(t) + 1
      /\ \A h \in k..Len(t) : m[h] = t[h]
  BY DEF WholeFrom
<1>1. Len(t) \in Nat /\ LenMember \in Nat
  BY LenProperties, LengthsAssumption
<1>2. From(m, k) = lda
  <2>1. Len(t) + 1 \in Nat /\ k <= Len(t) + 1 /\ Len(t) + 1 <= Len(m) /\ (Len(t) + 1) - 1 = Len(t)
    BY <1>0, <1>1
  <2>2. \A h \in k..(Len(t) + 1) - 1 : m[h] = t[h]
    BY <1>0, <2>1
  <2>3. From(m, k) = SubSeq(t, k, (Len(t) + 1) - 1)
    BY <1>0, <2>1, <2>2, FromIs
  <2> QED BY <2>1, <2>3
<1>3. Len(lda) = n /\ (lda = <<>> <=> Len(t) < k)
  <2>1. k \in Nat \ {0} /\ Len(t) \in Nat /\ Len(t) <= Len(t) /\ k <= Len(t) + 1
    BY <1>0, <1>1
  <2> QED BY <2>1, PieceIs
<1>4. r = CASE lda = <<>> -> [infos0 EXCEPT !.ret = "MALFORMED"]
            [] Len(lda) > LenMember -> [infos0 EXCEPT !.ret = "OVERFLOW"]
            [] OTHER -> [infos0 EXCEPT !.ret = "OK", !.lda = lda, !.library = library]
  BY <1>2 DEF LDA
<1>5. /\ [infos0 EXCEPT !.ret = "MALFORMED"].ret = "MALFORMED"
      /\ [infos0 EXCEPT !.ret = "MALFORMED"].lda = <<>>
      /\ [infos0 EXCEPT !.ret = "OVERFLOW"].ret = "OVERFLOW"
      /\ [infos0 EXCEPT !.ret = "OVERFLOW"].lda = <<>>
  OBVIOUS
<1>6. [infos0 EXCEPT !.ret = "OK", !.lda = lda, !.library = library]
        = [ret |-> "OK", struct |-> st, library |-> library, lda |-> lda]
  <2> DEFINE u == [infos0 EXCEPT !.ret = "OK", !.lda = lda, !.library = library]
             S == [ret : {"none", "OK"}, struct : {st}, library : {li, library}, lda : {<<>>, lda}]
  <2> HIDE DEF lda
  <2>1. u \in S /\ u.ret = "OK" /\ u.struct = st /\ u.library = library /\ u.lda = lda
    OBVIOUS
  <2>2. \A v \in S : v = [ret |-> v.ret, struct |-> v.struct, library |-> v.library, lda |-> v.lda]
    OBVIOUS
  <2> HIDE DEF u, S
  <2>3. u = [ret |-> "OK", struct |-> st, library |-> library, lda |-> lda]
    BY <2>1, <2>2
  <2> QED BY <2>3 DEF u
<1> HIDE DEF r, lda
<1>7. ASSUME 1 <= n /\ n <= LenMember
      PROVE  r = [ret |-> "OK", struct |-> st, library |-> library, lda |-> lda]
  <2>1. lda # <<>> /\ ~(Len(lda) > LenMember)
    BY <1>0, <1>1, <1>3, <1>7
  <2>2. r = [infos0 EXCEPT !.ret = "OK", !.lda = lda, !.library = library]
    BY <2>1, <1>4
  <2> QED BY <2>2, <1>6
<1>8. ASSUME ~(1 <= n /\ n <= LenMember) PROVE r.ret \in Refused /\ r.lda = <<>>
  <2>1. lda = <<>> \/ Len(lda) > LenMember
    BY <1>0, <1>1, <1>3, <1>8
  <2>2. r = [infos0 EXCEPT !.ret = "MALFORMED"] \/ r = [infos0 EXCEPT !.ret = "OVERFLOW"]
    BY <2>1, <1>4
  <2> QED BY <2>2, <1>5 DEF Refused
<1>9. /\ 1 <= n /\ n <= LenMember
           => r = [ret |-> "OK", struct |-> st, library |-> library, lda |-> lda]
      /\ ~(1 <= n /\ n <= LenMember) => r.ret \in Refused /\ r.lda = <<>>
  BY <1>7, <1>8
<1> QED BY <1>9 DEF LDAResult, r, lda

Infos0(st, li) == [ret |-> "none", struct |-> st, library |-> li, lda |-> <<>>]

(* The record that the function fills in, field by field. *)
LEMMA InfosFilled ==
  ASSUME NEW st, NEW li
  PROVE  /\ [NoInfos EXCEPT !.struct = st] = Infos0(st, <<>>)
         /\ [Infos0(st, <<>>) EXCEPT !.library = li] = Infos0(st, li)
         /\ \A r \in Refused : [NoInfos EXCEPT !.ret = r].ret = r /\ [NoInfos EXCEPT !.ret = r].lda = <<>>
         /\ \A r \in Refused : /\ [Infos0(st, <<>>) EXCEPT !.ret = r].ret = r
                               /\ [Infos0(st, <<>>) EXCEPT !.ret = r].lda = <<>>
<1> DEFINE S == [ret : {"none"}, struct : {<<>>, st}, library : {<<>>, li}, lda : {<<>>}]
           u == [NoInfos EXCEPT !.struct = st]
           v == [Infos0(st, <<>>) EXCEPT !.library = li]
<1>1. u \in S /\ u.ret = "none" /\ u.struct = st /\ u.library = <<>> /\ u.lda = <<>>
  BY DEF NoInfos
<1>2. v \in S /\ v.ret = "none" /\ v.struct = st /\ v.library = li /\ v.lda = <<>>
  BY DEF Infos0
<1>3. \A r \in S : r = [ret |-> r.ret, struct |-> r.struct, library |-> r.library, lda |-> r.lda]
  OBVIOUS
<1>4. u = Infos0(st, <<>>) /\ v = Infos0(st, li)
  <2> HIDE DEF u, v, S
  <2> QED BY <1>1, <1>2, <1>3 DEF Infos0
<1>5. \A r \in Refused : [NoInfos EXCEPT !.ret = r].ret = r /\ [NoInfos EXCEPT !.ret = r].lda = <<>>
  BY DEF NoInfos
<1>6. \A r \in Refused : /\ [Infos0(st, <<>>) EXCEPT !.ret = r].ret = r
                         /\ [Infos0(st, <<>>) EXCEPT !.ret = r].lda = <<>>
  BY DEF Infos0
<1> QED BY <1>4, <1>5, <1>6

(* The string with its octet 0, and with an end put over a sign. *)
LEMMA CutIs ==
  ASSUME NEW m \in Seq(Signs \cup {End}), NEW p \in 1..Len(m)
  PROVE  LET c == [m EXCEPT ![p] = End]
         IN /\ c \in Seq(Signs \cup {End}) /\ Len(c) = Len(m) /\ c[p] = End
            /\ \A h \in 1..Len(m) : h # p => c[h] = m[h]
<1>1. End \in Signs \cup {End}
  OBVIOUS
<1> QED BY <1>1, ExceptSeq

(* What the function makes of a string. *)
LEMMA ParseIs ==
  ASSUME NEW t \in Seq(Signs), NEW own, NEW s, s = Scanned(t),
         NEW p, p = ParseFormatStr(t, own)
  PROVE  /\ FitsIn(t, s)
              => p = [ret |-> "OK", struct |-> Struct(t, s),
                      library |-> IF s.point = 0 THEN own ELSE LibraryIn(t, s), lda |-> LDAIn(t, s)]
         /\ ~FitsIn(t, s) => p.ret \in Refused /\ p.lda = <<>>
<1> DEFINE len == Len(t)
           full == Append(t, End)
           m == [full EXCEPT ![s.at] = End]
           struct == From(m, 1)
<1>0. {"MALFORMED", "OVERFLOW"} = Refused /\ {LenName, LenLibrary, LenMember} \subseteq Nat
  BY LengthsAssumption DEF Refused
<1>1. /\ Seen(t, len, s) /\ s \in ScanStates /\ len \in Nat
      /\ s.at \in Nat /\ s.point \in Nat
  BY ScannedSees, LenProperties DEF Seen, ScanStates
<1>2. p = CASE ~s.ok \/ s.at \in {0, 1} -> [NoInfos EXCEPT !.ret = "MALFORMED"]
            [] s.ok /\ s.at > 1 /\ Len(struct) > LenName -> [NoInfos EXCEPT !.ret = "OVERFLOW"]
            [] OTHER -> Split([NoInfos EXCEPT !.struct = struct], m, s, own)
  BY DEF ParseFormatStr
<1> HIDE DEF m, struct, full
<1>3. ASSUME p = [NoInfos EXCEPT !.ret = "MALFORMED"] \/ p = [NoInfos EXCEPT !.ret = "OVERFLOW"]
      PROVE  p.ret \in Refused /\ p.lda = <<>>
  BY <1>0, <1>3, InfosFilled
<1>4. CASE ~s.ok \/ s.at \in {0, 1}
  <2>1. ~FitsIn(t, s)
    BY <1>4, <1>1 DEF FitsIn
  <2> QED BY <2>1, <1>2, <1>3, <1>4
<1>5. CASE s.ok /\ s.at \notin {0, 1}
  <2>1. /\ s.at > 1 /\ s.at <= len /\ s.point <= len
        /\ s.point # 0 => s.at < s.point
    BY <1>5, <1>1 DEF Seen, OnlyAt
  <2>2. /\ full \in Seq(Signs \cup {End}) /\ Len(full) = len + 1
        /\ full[len + 1] = End /\ \A h \in 1..len : full[h] = t[h]
    <3>1. t \in Seq(Signs \cup {End}) /\ End \in Signs \cup {End}
      OBVIOUS
    <3> QED BY <3>1, AppendProperties DEF full
  <2>3. /\ m \in Seq(Signs \cup {End}) /\ Len(m) = len + 1 /\ m[s.at] = End /\ m[len + 1] = End
        /\ \A h \in 1..len : h # s.at => m[h] = t[h]
    <3>1. s.at \in 1..Len(full) /\ len + 1 \in 1..Len(full) /\ len + 1 # s.at
          /\ \A h \in 1..len : h \in 1..Len(full)
      BY <1>1, <2>1, <2>2
    <3> QED BY <3>1, <2>2, CutIs DEF m
  <2>4. struct = Struct(t, s) /\ Len(struct) = s.at - 1
    <3>1. 1 <= s.at /\ s.at <= Len(m) /\ \A h \in 1..s.at - 1 : m[h] = t[h]
      BY <1>1, <2>1, <2>3
    <3>2. struct = SubSeq(t, 1, s.at - 1)
      <4>1. 1 \in Nat \ {0} /\ Len(m) = Len(t) + 1
        BY <2>3
      <4>2. From(m, 1) = SubSeq(t, 1, s.at - 1)
        BY <4>1, <3>1, <2>3, <1>1, FromIs
      <4> QED BY <4>2 DEF struct
    <3>3. s.at - 1 \in Nat /\ s.at - 1 <= Len(t) /\ 1 <= (s.at - 1) + 1 /\ (s.at - 1) + 1 - 1 = s.at - 1
      BY <1>1, <2>1
    <3>4. Len(SubSeq(t, 1, s.at - 1)) = (s.at - 1) + 1 - 1
      BY <3>3, PieceIs
    <3> QED BY <3>2, <3>3, <3>4 DEF Struct
  <2> DEFINE infos0 == Infos0(struct, <<>>)
  <2>5. CASE Len(struct) > LenName
    <3>1. ~FitsIn(t, s)
      BY <2>4, <2>5, <1>0, <1>1 DEF FitsIn
    <3> QED BY <3>1, <2>1, <2>5, <1>2, <1>3, <1>5
  <2>6. CASE ~(Len(struct) > LenName)
    <3>1. p = Split(infos0, m, s, own)
      BY <2>6, <1>2, <1>5, InfosFilled
    <3>2. s.at - 1 <= LenName
      BY <2>4, <2>6, <1>0, <1>1
    <3> DEFINE mem == [m EXCEPT ![s.point] = End]
               library == From(mem, s.at + 1)
    <3>3. p = CASE s.point = 0 -> LDA(infos0, m, s.at + 1, own)
                [] s.point = s.at + 1 -> [infos0 EXCEPT !.ret = "MALFORMED"]
                [] s.point > s.at + 1 /\ Len(library) > LenLibrary -> [infos0 EXCEPT !.ret = "OVERFLOW"]
                [] OTHER -> LDA([infos0 EXCEPT !.library = library], mem, s.point + 1, library)
      BY <3>1 DEF Split
    <3> HIDE DEF mem, library
    <3>4. CASE s.point = 0
      <4>1. p = LDA(Infos0(struct, <<>>), m, s.at + 1, own)
        BY <3>3, <3>4, <1>1
      <4>2. /\ s.at + 1 \in Nat \ {0} /\ s.at + 1 <= len + 1
            /\ \A h \in s.at + 1..len : m[h] = t[h]
        BY <1>1, <2>1, <2>3
      <4>3. LDAStart(s) = s.at + 1 /\ (FitsIn(t, s) <=> 1 <= len + 1 - (s.at + 1) /\ len + 1 - (s.at + 1) <= LenMember)
        BY <1>0, <1>1, <1>5, <2>1, <3>2, <3>4 DEF FitsIn, LDAStart
      <4>4. /\ FitsIn(t, s) => p = [ret |-> "OK", struct |-> struct, library |-> own,
                                    lda |-> SubSeq(t, s.at + 1, len)]
            /\ ~FitsIn(t, s) => p.ret \in Refused /\ p.lda = <<>>
        <5> DEFINE r == LDA([ret |-> "none", struct |-> struct, library |-> <<>>, lda |-> <<>>],
                            m, s.at + 1, own)
                   n == len + 1 - (s.at + 1)
        <5>1. /\ 1 <= n /\ n <= LenMember
                   => r = [ret |-> "OK", struct |-> struct, library |-> own,
                           lda |-> SubSeq(t, s.at + 1, len)]
              /\ ~(1 <= n /\ n <= LenMember) => r.ret \in Refused /\ r.lda = <<>>
          <6>1. WholeFrom(t, m, s.at + 1)
            BY <4>2, <2>3 DEF WholeFrom
          <6>2. LDAResult(t, m, s.at + 1, struct, <<>>, own)
            BY <6>1, LDAIs
          <6> QED BY <6>2 DEF LDAResult
        <5>2. p = r
          BY <4>1 DEF Infos0
        <5> HIDE DEF r, n
        <5>3. FitsIn(t, s) <=> 1 <= n /\ n <= LenMember
          BY <4>3 DEF n
        <5> QED BY <5>1, <5>2, <5>3
      <4> QED BY <4>3, <4>4, <2>4, <3>4 DEF LDAIn
    <3>5. CASE s.point = s.at + 1
      <4>1. ~FitsIn(t, s)
        BY <3>5, <1>1 DEF FitsIn
      <4>2. p = [infos0 EXCEPT !.ret = "MALFORMED"]
        BY <3>3, <3>5, <1>1
      <4> QED BY <4>1, <4>2, <1>0, InfosFilled
    <3>6. CASE s.point > s.at + 1
      <4>1. /\ mem \in Seq(Signs \cup {End}) /\ Len(mem) = len + 1
            /\ mem[s.point] = End /\ mem[len + 1] = End
            /\ \A h \in 1..len : h # s.at /\ h # s.point => mem[h] = t[h]
        <5>1. s.point \in 1..Len(m) /\ len + 1 \in 1..Len(m) /\ len + 1 # s.point
              /\ \A h \in 1..len : h \in 1..Len(m)
          BY <1>1, <2>1, <2>3, <3>6
        <5> QED BY <5>1, <2>3, CutIs DEF mem
      <4>2. library = LibraryIn(t, s) /\ Len(library) = s.point - (s.at + 1)
        <5>1. s.at + 1 <= s.point /\ s.point <= Len(mem) /\ s.at + 1 \in Nat \ {0}
              /\ \A h \in s.at + 1..s.point - 1 : mem[h] = t[h]
          BY <1>1, <2>1, <3>6, <4>1
        <5>2. library = SubSeq(t, s.at + 1, s.point - 1)
          BY <5>1, <4>1, <1>1, FromIs DEF library
        <5>3. s.point - 1 \in Nat /\ s.point - 1 <= Len(t) /\ s.at + 1 <= (s.point - 1) + 1
              /\ (s.point - 1) + 1 - (s.at + 1) = s.point - (s.at + 1) /\ s.point # 0
          BY <1>1, <2>1, <3>6
        <5>4. Len(SubSeq(t, s.at + 1, s.point - 1)) = (s.point - 1) + 1 - (s.at + 1)
          BY <5>1, <5>3, PieceIs
        <5> QED BY <5>2, <5>3, <5>4 DEF LibraryIn
      <4>3. CASE Len(library) > LenLibrary
        <5>1. ~FitsIn(t, s)
          BY <4>2, <4>3, <3>6, <1>0, <1>1 DEF FitsIn
        <5>2. p = [infos0 EXCEPT !.ret = "OVERFLOW"]
          BY <3>3, <3>6, <4>3, <1>1
        <5> QED BY <5>1, <5>2, <1>0, InfosFilled
      <4>4. CASE ~(Len(library) > LenLibrary)
        <5>1. p = LDA(Infos0(struct, library), mem, s.point + 1, library)
          BY <3>3, <3>6, <4>4, <1>1, InfosFilled
        <5>2. /\ s.point + 1 \in Nat \ {0} /\ s.point + 1 <= len + 1
              /\ \A h \in s.point + 1..len : mem[h] = t[h]
          <6>1. \A h \in s.point + 1..len : h \in 1..len /\ h # s.at /\ h # s.point
            BY <1>1, <2>1, <3>6
          <6> QED BY <6>1, <1>1, <2>1, <3>6, <4>1
        <5>3. /\ LDAStart(s) = s.point + 1 /\ s.point # 0
              /\ FitsIn(t, s) <=> 1 <= len + 1 - (s.point + 1) /\ len + 1 - (s.point + 1) <= LenMember
          BY <1>0, <1>1, <1>5, <2>1, <3>2, <3>6, <4>2, <4>4 DEF FitsIn, LDAStart
        <5>4. /\ FitsIn(t, s) => p = [ret |-> "OK", struct |-> struct, library |-> library,
                                      lda |-> SubSeq(t, s.point + 1, len)]
              /\ ~FitsIn(t, s) => p.ret \in Refused /\ p.lda = <<>>
          <6> DEFINE r == LDA([ret |-> "none", struct |-> struct, library |-> library, lda |-> <<>>],
                              mem, s.point + 1, library)
                     n == len + 1 - (s.point + 1)
          <6>1. /\ 1 <= n /\ n <= LenMember
                     => r = [ret |-> "OK", struct |-> struct, library |-> library,
                             lda |-> SubSeq(t, s.point + 1, len)]
                /\ ~(1 <= n /\ n <= LenMember) => r.ret \in Refused /\ r.lda = <<>>
            <7>1. WholeFrom(t, mem, s.point + 1)
              BY <5>2, <4>1 DEF WholeFrom
            <7>2. LDAResult(t, mem, s.point + 1, struct, library, library)
              BY <7>1, LDAIs
            <7> QED BY <7>2 DEF LDAResult
          <6>2. p = r
            BY <5>1 DEF Infos0
          <6> HIDE DEF r, n
          <6>3. FitsIn(t, s) <=> 1 <= n /\ n <= LenMember
            BY <5>3 DEF n
          <6> QED BY <6>1, <6>2, <6>3
        <5> QED BY <5>3, <5>4, <4>2, <2>4 DEF LDAIn
      <4> QED BY <4>3, <4>4
    <3>7. s.point = 0 \/ s.point = s.at + 1 \/ s.point > s.at + 1
      BY <1>1, <2>1
    <3> QED BY <3>4, <3>5, <3>6, <3>7
  <2> QED BY <2>5, <2>6
<1> QED BY <1>4, <1>5

-----------------------------------------------------------------------------
(* A structure of a signs, a library of b, or none, and an LDA of c. *)
Spells(t, a, b, c) ==
  /\ Len(t) = a + 1 + (IF b = 0 THEN 0 ELSE b + 1) + c
  /\ \A i \in 1..Len(t) :
       t[i] = IF i = a + 1 THEN "@" ELSE IF b # 0 /\ i = a + b + 2 THEN "." ELSE "x"

Written(struct, library, lda) ==
  struct \o <<"@">> \o (IF library = <<>> THEN <<>> ELSE library \o <<".">>) \o lda

LEMMA WrittenSpells ==
  ASSUME NEW struct \in Seq({"x"}), NEW library \in Seq({"x"}), NEW lda \in Seq({"x"})
  PROVE  /\ Written(struct, library, lda) \in Seq(Signs)
         /\ Spells(Written(struct, library, lda), Len(struct), Len(library), Len(lda))
<1> DEFINE head == struct \o <<"@">>
           middle == IF library = <<>> THEN <<>> ELSE library \o <<".">>
           w == (head \o middle) \o lda
           a == Len(struct)
           b == Len(library)
           c == Len(lda)
<1>1. /\ struct \in Seq(Signs) /\ library \in Seq(Signs) /\ lda \in Seq(Signs)
      /\ a \in Nat /\ b \in Nat /\ c \in Nat /\ (library = <<>> <=> b = 0)
      /\ \A i \in 1..a : struct[i] = "x"
      /\ \A i \in 1..b : library[i] = "x"
      /\ \A i \in 1..c : lda[i] = "x"
  <2>1. Seq({"x"}) \subseteq Seq(Signs)
    BY DEF Signs
  <2> QED BY <2>1, LenProperties, EmptySeq, ElementOfSeq
<1>2. /\ \A sign \in Signs : <<sign>> \in Seq(Signs) /\ Len(<<sign>>) = 1 /\ <<sign>>[1] = sign
      /\ "@" \in Signs /\ "." \in Signs /\ <<>> \in Seq(Signs) /\ Len(<<>>) = 0
  BY DEF Signs
<1>3. /\ head \in Seq(Signs) /\ Len(head) = a + 1
      /\ head[a + 1] = "@" /\ \A i \in 1..a : head[i] = "x"
  <2>1. /\ head \in Seq(Signs) /\ Len(head) = a + Len(<<"@">>)
        /\ \A i \in 1..a : head[i] = struct[i]
        /\ \A i \in 1..Len(<<"@">>) : head[a + i] = <<"@">>[i]
    BY <1>1, <1>2, ConcatParts
  <2>2. 1 \in 1..Len(<<"@">>)
    BY <1>2
  <2> QED BY <2>1, <2>2, <1>1, <1>2
<1> DEFINE n == IF b = 0 THEN 0 ELSE b + 1
<1>4. /\ middle \in Seq(Signs) /\ Len(middle) = n /\ n \in Nat
      /\ \A i \in 1..n : middle[i] = IF i = b + 1 THEN "." ELSE "x"
  <2>1. CASE library = <<>>
    BY <2>1, <1>1, <1>2
  <2>2. CASE library # <<>>
    <3> DEFINE l == library \o <<".">>
    <3>1. /\ l \in Seq(Signs) /\ Len(l) = b + Len(<<".">>)
          /\ \A i \in 1..b : l[i] = library[i]
          /\ \A i \in 1..Len(<<".">>) : l[b + i] = <<".">>[i]
      BY <1>1, <1>2, ConcatParts
    <3>2. 1 \in 1..Len(<<".">>)
      BY <1>2
    <3>3. l[b + 1] = "."
      BY <3>1, <3>2, <1>2
    <3>4. b # 0 /\ n = b + 1 /\ middle = l
      BY <2>2, <1>1
    <3> HIDE DEF l, middle
    <3>5. \A i \in 1..b + 1 : i # b + 1 => i \in 1..b
      BY <1>1
    <3> QED BY <3>1, <3>3, <3>4, <3>5, <1>1, <1>2
  <2> QED BY <2>1, <2>2
<1> HIDE DEF head, middle
<1>5. /\ head \o middle \in Seq(Signs) /\ Len(head \o middle) = a + 1 + n
      /\ \A i \in 1..a + 1 : (head \o middle)[i] = head[i]
      /\ \A i \in 1..n : (head \o middle)[a + 1 + i] = middle[i]
  <2>1. /\ head \o middle \in Seq(Signs) /\ Len(head \o middle) = Len(head) + Len(middle)
        /\ \A i \in 1..Len(head) : (head \o middle)[i] = head[i]
        /\ \A i \in 1..Len(middle) : (head \o middle)[Len(head) + i] = middle[i]
    <3>1. head \in Seq(Signs) /\ middle \in Seq(Signs)
      BY <1>3, <1>4
    <3> HIDE DEF a, n
    <3> QED BY <3>1, ConcatParts
  <2> HIDE DEF n, a
  <2> QED BY <2>1, <1>3, <1>4
<1>6. /\ w \in Seq(Signs) /\ Len(w) = a + 1 + n + c
      /\ \A i \in 1..a + 1 + n : w[i] = (head \o middle)[i]
      /\ \A i \in 1..c : w[a + 1 + n + i] = "x"
  <2>1. /\ w \in Seq(Signs) /\ Len(w) = Len(head \o middle) + c
        /\ \A i \in 1..Len(head \o middle) : w[i] = (head \o middle)[i]
        /\ \A i \in 1..c : w[Len(head \o middle) + i] = lda[i]
    <3>1. head \o middle \in Seq(Signs) /\ lda \in Seq(Signs)
      BY <1>1, <1>5
    <3> HIDE DEF a, n
    <3>2. /\ (head \o middle) \o lda \in Seq(Signs)
          /\ Len((head \o middle) \o lda) = Len(head \o middle) + Len(lda)
          /\ \A i \in 1..Len(head \o middle) : ((head \o middle) \o lda)[i] = (head \o middle)[i]
          /\ \A i \in 1..Len(lda) : ((head \o middle) \o lda)[Len(head \o middle) + i] = lda[i]
      BY <3>1, ConcatParts
    <3> QED BY <3>2
  <2> HIDE DEF n, a, c, w
  <2> QED BY <2>1, <1>1, <1>5
<1>9. a \in Nat /\ b \in Nat /\ c \in Nat /\ n \in Nat /\ (b = 0 => n = 0) /\ (b # 0 => n = b + 1)
  BY <1>1, <1>4
<1> HIDE DEF w, a, b, c, n
<1>7. ASSUME NEW i \in 1..Len(w)
      PROVE  w[i] = IF i = a + 1 THEN "@" ELSE IF b # 0 /\ i = a + b + 2 THEN "." ELSE "x"
  <2>1. CASE i \in 1..a
    <3>1. i \in 1..a + 1 /\ i \in 1..a + 1 + n /\ i # a + 1 /\ i # a + b + 2
      BY <2>1, <1>9
    <3> QED BY <3>1, <2>1, <1>3, <1>5, <1>6
  <2>2. CASE i = a + 1
    <3>1. i \in 1..a + 1 /\ i \in 1..a + 1 + n
      BY <2>2, <1>9
    <3>2. w[i] = head[i]
      BY <3>1, <1>5, <1>6
    <3> QED BY <3>2, <2>2, <1>3
  <2>3. CASE i \in a + 2..a + 1 + n
    <3>1. /\ i - (a + 1) \in 1..n /\ (a + 1) + (i - (a + 1)) = i /\ i \in 1..a + 1 + n
          /\ i # a + 1 /\ b # 0 /\ (i - (a + 1) = b + 1 <=> i = a + b + 2)
      BY <2>3, <1>9
    <3>2. w[i] = middle[i - (a + 1)]
      BY <3>1, <1>5, <1>6
    <3> QED BY <3>1, <3>2, <1>4
  <2>4. CASE i \in a + 2 + n..a + 1 + n + c
    <3>1. /\ i - (a + 1 + n) \in 1..c /\ a + 1 + n + (i - (a + 1 + n)) = i
          /\ i # a + 1 /\ (b # 0 => i # a + b + 2)
      BY <2>4, <1>9
    <3>2. w[i] = "x"
      BY <3>1, <1>6
    <3> QED BY <3>1, <3>2
  <2>5. i \in 1..a \/ i = a + 1 \/ i \in a + 2..a + 1 + n \/ i \in a + 2 + n..a + 1 + n + c
    BY <1>9, <1>6
  <2> QED BY <2>1, <2>2, <2>3, <2>4, <2>5
<1>8. w \in Seq(Signs) /\ Spells(w, a, b, c)
  <2>1. Len(w) = a + 1 + (IF b = 0 THEN 0 ELSE b + 1) + c
    BY <1>6, <1>9
  <2> QED BY <2>1, <1>6, <1>7 DEF Spells
<1> QED BY <1>8 DEF w, head, middle, a, b, c, Written

(* In a format string the loop sees where the separators are. *)
LEMMA SpelledSeen ==
  ASSUME NEW t \in Seq(Signs), NEW a \in Nat, NEW b \in Nat, NEW c \in Nat, Spells(t, a, b, c),
         NEW s, Seen(t, Len(t), s)
  PROVE  s.ok /\ s.at = a + 1 /\ s.point = IF b = 0 THEN 0 ELSE a + b + 2
<1>1. /\ Len(t) = a + 1 + (IF b = 0 THEN 0 ELSE b + 1) + c
      /\ \A i \in 1..Len(t) :
           t[i] = IF i = a + 1 THEN "@" ELSE IF b # 0 /\ i = a + b + 2 THEN "." ELSE "x"
  BY DEF Spells
<1>2. Len(t) \in Nat /\ a + 1 \in 1..Len(t) /\ (b # 0 => a + b + 2 \in 1..Len(t) /\ a + b + 2 # a + 1)
  BY <1>1
<1>3. /\ \A i \in 1..Len(t) : t[i] = "@" <=> i = a + 1
      /\ \A i \in 1..Len(t) : t[i] = "." <=> b # 0 /\ i = a + b + 2
  BY <1>1, <1>2
<1>4. ~Malformed(t)
  <2> SUFFICES ASSUME NEW j \in 1..Len(t),
                      \/ t[j] = "." /\ \A h \in 1..j - 1 : t[h] # "@"
                      \/ t[j] = "." /\ \E h \in 1..j - 1 : t[h] = "."
                      \/ t[j] = "@" /\ \E h \in 1..j - 1 : t[h] = "@"
               PROVE  FALSE
    BY DEF Malformed
  <2>1. \A h \in 1..j - 1 : h \in 1..Len(t) /\ h # j
    BY <1>2
  <2>2. CASE t[j] = "." /\ \A h \in 1..j - 1 : t[h] # "@"
    <3>1. a + 1 \in 1..j - 1
      BY <2>2, <1>2, <1>3
    <3> QED BY <3>1, <2>2, <1>2, <1>3
  <2>3. CASE t[j] = "." /\ \E h \in 1..j - 1 : t[h] = "."
    BY <2>1, <2>3, <1>3
  <2>4. CASE t[j] = "@" /\ \E h \in 1..j - 1 : t[h] = "@"
    BY <2>1, <2>4, <1>3
  <2> QED BY <2>2, <2>3, <2>4
<1>5. s.ok /\ OnlyAt(t, Len(t), "@", s.at) /\ OnlyAt(t, Len(t), ".", s.point)
  BY <1>4 DEF Seen
<1>6. s.at = a + 1
  BY <1>2, <1>3, <1>5 DEF OnlyAt
<1>7. CASE b = 0
  <2>1. s.point \in 0..Len(t) /\ (s.point # 0 => t[s.point] = ".")
    BY <1>5 DEF OnlyAt
  <2>2. s.point = 0
    BY <2>1, <1>2, <1>3, <1>7
  <2> QED BY <2>2, <1>5, <1>6, <1>7
<1>8. CASE b # 0
  <2>1. t[a + b + 2] = "." /\ a + b + 2 \in 1..Len(t)
    BY <1>2, <1>3, <1>8
  <2>2. s.point = a + b + 2
    BY <2>1, <1>5 DEF OnlyAt
  <2> QED BY <2>2, <1>5, <1>6, <1>8
<1> QED BY <1>7, <1>8

(* The separators that have been seen cut the string into names. *)
Reading(t, s) == [struct |-> Struct(t, s), library |-> LibraryIn(t, s), lda |-> LDAIn(t, s)]

LEMMA SeenSpells ==
  ASSUME NEW t \in Seq(Signs), NEW s, Seen(t, Len(t), s), FitsIn(t, s)
  PROVE  LET a == Len(Struct(t, s))
             b == Len(LibraryIn(t, s))
             c == Len(LDAIn(t, s))
         IN /\ Spells(t, a, b, c)
            /\ a = s.at - 1 /\ b = (IF s.point = 0 THEN 0 ELSE s.point - (s.at + 1))
            /\ c = Len(t) + 1 - LDAStart(s)
            /\ Struct(t, s) \in Seq({"x"}) /\ LibraryIn(t, s) \in Seq({"x"})
            /\ LDAIn(t, s) \in Seq({"x"})
<1> DEFINE len == Len(t)
           start == LDAStart(s)
<1>1. /\ len \in Nat /\ s.ok /\ s.at \in Nat /\ s.point \in Nat /\ s.at > 1
      /\ s.at <= len /\ s.point <= len /\ (s.point # 0 => s.point > s.at + 1)
      /\ start \in Nat \ {0} /\ start <= len
      /\ start = (IF s.point = 0 THEN s.at ELSE s.point) + 1
  <2>1. len \in Nat /\ s.ok /\ s.at \in Nat /\ s.point \in Nat
    BY LenProperties DEF Seen, FitsIn, ScanStates
  <2>2. s.at <= len /\ s.point <= len
    BY <2>1 DEF Seen, OnlyAt
  <2> QED BY <2>1, <2>2 DEF FitsIn, LDAStart
<1>2. /\ \A i \in 1..len : t[i] \in Signs
      /\ \A i \in 1..len : t[i] = "@" <=> i = s.at
      /\ \A i \in 1..len : t[i] = "." <=> s.point # 0 /\ i = s.point
  <2>1. OnlyAt(t, len, "@", s.at) /\ OnlyAt(t, len, ".", s.point)
    BY <1>1 DEF Seen
  <2> QED BY <2>1, <1>1, ElementOfSeq DEF OnlyAt
<1>3. \A i \in 1..len : i # s.at /\ i # s.point => t[i] = "x"
  BY <1>1, <1>2 DEF Signs
<1>4. Struct(t, s) \in Seq({"x"}) /\ Len(Struct(t, s)) = s.at - 1
  <2>1. /\ s.at - 1 \in Nat /\ s.at - 1 <= len /\ 1 <= (s.at - 1) + 1
        /\ (s.at - 1) + 1 - 1 = s.at - 1
        /\ \A i \in 1..s.at - 1 : i \in 1..len /\ i # s.at /\ i # s.point
    BY <1>1
  <2>2. \A i \in 1..s.at - 1 : t[i] = "x"
    BY <2>1, <1>3
  <2>3. 1 \in Nat \ {0}
    OBVIOUS
  <2> QED BY <2>1, <2>2, <2>3, PieceIs DEF Struct
<1>5. /\ LibraryIn(t, s) \in Seq({"x"})
      /\ Len(LibraryIn(t, s)) = IF s.point = 0 THEN 0 ELSE s.point - (s.at + 1)
  <2>1. CASE s.point = 0
    BY <2>1, EmptySeq DEF LibraryIn
  <2>2. CASE s.point # 0
    <3>1. /\ s.point - 1 \in Nat /\ s.point - 1 <= len /\ s.at + 1 <= (s.point - 1) + 1
          /\ (s.point - 1) + 1 - (s.at + 1) = s.point - (s.at + 1) /\ s.at + 1 \in Nat \ {0}
      BY <2>2, <1>1
    <3>3. \A i \in s.at + 1..s.point - 1 : i \in 1..len /\ i # s.at /\ i # s.point
      BY <2>2, <1>1
    <3>2. \A i \in s.at + 1..s.point - 1 : t[i] = "x"
      BY <3>3, <1>3
    <3> QED BY <2>2, <3>1, <3>2, PieceIs DEF LibraryIn
  <2> QED BY <2>1, <2>2
<1>6. LDAIn(t, s) \in Seq({"x"}) /\ Len(LDAIn(t, s)) = len + 1 - start
  <2>1. \A i \in start..len : i \in 1..len /\ i # s.at /\ i # s.point
    BY <1>1
  <2>2. \A i \in start..len : t[i] = "x"
    BY <2>1, <1>3
  <2>3. len <= len /\ start <= len + 1
    BY <1>1
  <2> HIDE DEF start
  <2> QED BY <2>2, <2>3, <1>1, PieceIs DEF LDAIn, start
<1> DEFINE a == s.at - 1
           b == IF s.point = 0 THEN 0 ELSE s.point - (s.at + 1)
           c == len + 1 - start
<1>7. /\ len = a + 1 + (IF b = 0 THEN 0 ELSE b + 1) + c
      /\ a + 1 = s.at /\ (b = 0 <=> s.point = 0) /\ (b # 0 => a + b + 2 = s.point)
  <2>1. CASE s.point = 0
    BY <2>1, <1>1
  <2>2. CASE s.point # 0
    <3>1. b = s.point - (s.at + 1) /\ start = s.point + 1 /\ s.point > s.at + 1
      BY <2>2, <1>1
    <3>2. b \in Nat /\ b # 0 /\ a + 1 = s.at /\ a + b + 2 = s.point
      <4>1. s.at \in Nat /\ s.point \in Nat /\ s.point > s.at + 1
        BY <3>1, <1>1
      <4> HIDE DEF b
      <4> QED BY <3>1, <4>1
    <3>3. c = len - s.point /\ c \in Nat
      <4>1. len \in Nat /\ s.point \in Nat /\ s.point <= len
        BY <1>1
      <4>2. \A l, p \in Nat : p <= l => l + 1 - (p + 1) = l - p /\ l - p \in Nat
        OBVIOUS
      <4>3. c = len + 1 - (s.point + 1)
        BY <3>1
      <4> HIDE DEF c, len, start
      <4> QED BY <4>1, <4>2, <4>3
    <3>4. a \in Nat /\ s.point \in Nat /\ len \in Nat
      BY <1>1
    <3> HIDE DEF b, c, a, len
    <3>5. a + 1 + (b + 1) + c = len
      BY <3>2, <3>3, <3>4
    <3> QED BY <2>2, <3>2, <3>5
  <2> QED BY <2>1, <2>2
<1>8. Spells(t, a, b, c)
  <2> HIDE DEF a, b, c
  <2>1. \A i \in 1..len :
          t[i] = IF i = a + 1 THEN "@" ELSE IF b # 0 /\ i = a + b + 2 THEN "." ELSE "x"
    BY <1>1, <1>2, <1>3, <1>7
  <2> QED BY <2>1, <1>7 DEF Spells
<1> QED BY <1>4, <1>5, <1>6, <1>8

(* There is one way to read a format string, or none. *)
LEMMA ReadingsAre ==
  ASSUME NEW t \in Seq(Signs), NEW s, s = Scanned(t)
  PROVE  /\ FitsIn(t, s) => Readings(t) = {Reading(t, s)}
         /\ ~FitsIn(t, s) => Readings(t) = {}
<1>1. Seen(t, Len(t), s)
  BY ScannedSees
<1>2. LenName \in Nat /\ LenLibrary \in Nat /\ LenMember \in Nat
  BY LengthsAssumption
<1>3. Readings(t) =
        {r \in [struct : NamesUpTo(LenName), library : {<<>>} \cup NamesUpTo(LenLibrary),
                lda : NamesUpTo(LenMember)] : t = Written(r.struct, r.library, r.lda)}
  BY DEF Readings, Written
<1>4. ASSUME NEW r \in Readings(t) PROVE FitsIn(t, s) /\ r = Reading(t, s)
  <2> DEFINE a == Len(r.struct)
             b == Len(r.library)
             c == Len(r.lda)
  <2>1. /\ r.struct \in NamesUpTo(LenName) /\ r.library \in {<<>>} \cup NamesUpTo(LenLibrary)
        /\ r.lda \in NamesUpTo(LenMember) /\ t = Written(r.struct, r.library, r.lda)
        /\ r = [struct |-> r.struct, library |-> r.library, lda |-> r.lda]
    BY <1>3
  <2>2. r.struct \in Seq({"x"}) /\ a \in 1..LenName /\ r.lda \in Seq({"x"}) /\ c \in 1..LenMember
    BY <2>1, <1>2, NamesAre
  <2>3. r.library \in Seq({"x"}) /\ b \in 0..LenLibrary
    <3>1. CASE r.library = <<>>
      BY <3>1, <1>2, EmptySeq
    <3>2. CASE r.library \in NamesUpTo(LenLibrary)
      <4>1. r.library \in Seq({"x"}) /\ b \in 1..LenLibrary
        BY <3>2, <1>2, NamesAre
      <4> QED BY <4>1, <1>2
    <3> QED BY <3>1, <3>2, <2>1
  <2>4. Spells(t, a, b, c)
    BY <2>1, <2>2, <2>3, WrittenSpells
  <2>5. a \in Nat \ {0} /\ b \in Nat /\ c \in Nat \ {0} /\ a <= LenName /\ b <= LenLibrary /\ c <= LenMember
    BY <1>2, <2>2, <2>3
  <2> HIDE DEF a, b, c
  <2>6. s.ok /\ s.at = a + 1 /\ s.point = IF b = 0 THEN 0 ELSE a + b + 2
    BY <1>1, <2>4, <2>5, SpelledSeen
  <2>7. Len(t) = a + 1 + (IF b = 0 THEN 0 ELSE b + 1) + c
    BY <2>4 DEF Spells
  <2>8. /\ LDAStart(s) = Len(t) + 1 - c /\ LDAStart(s) <= Len(t) /\ Len(t) + 1 - LDAStart(s) = c
        /\ (s.point = 0 <=> b = 0) /\ (s.point # 0 => s.point - (s.at + 1) = b)
    <3>1. CASE b = 0
      BY <3>1, <2>5, <2>6, <2>7 DEF LDAStart
    <3>2. CASE b # 0
      <4>1. s.point = a + b + 2 /\ s.point # 0
        BY <3>2, <2>5, <2>6
      <4>2. LDAStart(s) = a + b + 3 /\ Len(t) = a + b + 2 + c
        BY <3>2, <4>1, <2>5, <2>7 DEF LDAStart
      <4> QED BY <3>2, <4>1, <4>2, <2>5, <2>6
    <3> QED BY <3>1, <3>2
  <2>9. FitsIn(t, s)
    <3>1. s.at > 1 /\ s.at - 1 <= LenName
      BY <2>5, <2>6, <1>2
    <3>2. s.point # 0 => s.point > s.at + 1 /\ s.point - (s.at + 1) <= LenLibrary
      BY <2>5, <2>6, <2>8, <1>2
    <3> QED BY <3>1, <3>2, <2>5, <2>6, <2>8 DEF FitsIn
  <2>10. /\ Len(Struct(t, s)) = a /\ Len(LibraryIn(t, s)) = b /\ Len(LDAIn(t, s)) = c
         /\ Struct(t, s) \in Seq({"x"}) /\ LibraryIn(t, s) \in Seq({"x"})
         /\ LDAIn(t, s) \in Seq({"x"})
    <3>1. /\ Len(Struct(t, s)) = s.at - 1
          /\ Len(LibraryIn(t, s)) = (IF s.point = 0 THEN 0 ELSE s.point - (s.at + 1))
          /\ Len(LDAIn(t, s)) = Len(t) + 1 - LDAStart(s)
          /\ Struct(t, s) \in Seq({"x"}) /\ LibraryIn(t, s) \in Seq({"x"})
          /\ LDAIn(t, s) \in Seq({"x"})
      BY <1>1, <2>9, SeenSpells
    <3>2. s.at - 1 = a
      BY <2>5, <2>6
    <3> QED BY <3>1, <3>2, <2>8
  <2>11. Struct(t, s) = r.struct /\ LibraryIn(t, s) = r.library /\ LDAIn(t, s) = r.lda
    BY <2>2, <2>3, <2>10, NamesEqual DEF a, b, c
  <2> QED BY <2>1, <2>9, <2>11 DEF Reading
<1>5. ASSUME FitsIn(t, s) PROVE Reading(t, s) \in Readings(t)
  <2> DEFINE st == Struct(t, s)
             li == LibraryIn(t, s)
             ld == LDAIn(t, s)
  <2>1. /\ Spells(t, Len(st), Len(li), Len(ld))
        /\ Len(st) = s.at - 1 /\ Len(li) = (IF s.point = 0 THEN 0 ELSE s.point - (s.at + 1))
        /\ Len(ld) = Len(t) + 1 - LDAStart(s)
        /\ st \in Seq({"x"}) /\ li \in Seq({"x"}) /\ ld \in Seq({"x"})
    BY <1>1, <1>5, SeenSpells
  <2>2. /\ s.at \in Nat /\ s.point \in Nat /\ s.at > 1 /\ s.at - 1 <= LenName
        /\ s.point # 0 => s.point > s.at + 1 /\ s.point - (s.at + 1) <= LenLibrary
        /\ LDAStart(s) <= Len(t) /\ Len(t) + 1 - LDAStart(s) <= LenMember
        /\ Len(t) \in Nat /\ LDAStart(s) \in Nat
    <3>1. s.at \in Nat /\ s.point \in Nat
      BY <1>1 DEF Seen, ScanStates
    <3> QED BY <3>1, <1>5, LenProperties DEF FitsIn, LDAStart
  <2>3. st \in NamesUpTo(LenName)
    <3>1. Len(st) \in 1..LenName
      BY <2>1, <2>2, <1>2
    <3> HIDE DEF st
    <3> QED BY <3>1, <2>1, <1>2, NamesAre
  <2>4. ld \in NamesUpTo(LenMember)
    <3>1. Len(ld) \in 1..LenMember
      <4> HIDE DEF ld
      <4> QED BY <2>1, <2>2, <1>2
    <3> HIDE DEF ld
    <3> QED BY <3>1, <2>1, <1>2, NamesAre
  <2>5. li \in {<<>>} \cup NamesUpTo(LenLibrary)
    <3>1. CASE s.point = 0
      BY <3>1 DEF LibraryIn
    <3>2. CASE s.point # 0
      <4> HIDE DEF li
      <4>1. Len(li) \in 1..LenLibrary
        <5>1. Len(li) = s.point - (s.at + 1) /\ s.point > s.at + 1
                 /\ s.point - (s.at + 1) <= LenLibrary
          BY <3>2, <2>1, <2>2
        <5>2. s.point - (s.at + 1) \in 1..LenLibrary
          BY <5>1, <2>2, <1>2
        <5> QED BY <5>1, <5>2
      <4> QED BY <4>1, <2>1, <1>2, NamesAre
    <3> QED BY <3>1, <3>2
  <2> HIDE DEF st, li, ld
  <2>6. t = Written(st, li, ld)
    <3> DEFINE w == Written(st, li, ld)
    <3>1. w \in Seq(Signs) /\ Spells(w, Len(st), Len(li), Len(ld))
      BY <2>1, WrittenSpells
    <3>2. Len(w) = Len(t) /\ \A i \in 1..Len(t) : w[i] = t[i]
      BY <2>1, <3>1 DEF Spells
    <3> HIDE DEF w
    <3>3. w = t
      BY <3>1, <3>2, SeqEqual
    <3> QED BY <3>3 DEF w
  <2>7. Reading(t, s) = [struct |-> st, library |-> li, lda |-> ld]
    BY DEF Reading, st, li, ld
  <2> QED BY <2>3, <2>4, <2>5, <2>6, <2>7, <1>3
<1>6. CASE FitsIn(t, s)
  <2>1. Reading(t, s) \in Readings(t) /\ \A r \in Readings(t) : r = Reading(t, s)
    BY <1>4, <1>5, <1>6
  <2> QED BY <2>1, <1>6
<1>7. CASE ~FitsIn(t, s)
  BY <1>4, <1>7
<1> QED BY <1>6, <1>7

-----------------------------------------------------------------------------
(***************************************************************************)
(* The invariant of the format string: nothing has been taken apart before *)
(* the string is read, which is the fourth call of an exit, and then it    *)
(* has been taken apart in the documented way.                             *)
(***************************************************************************)
TextInv ==
  /\ text \in Seq(Signs)
  /\ ReadAsDocumented
  /\ exit \in Parsers /\ call <= 4 => infos = NoInfos

(* A string of the documented form is accepted, and any other refused. *)
LEMMA ParseReads ==
  ASSUME NEW t \in Seq(Signs), NEW own \in OwnLibraries, NEW p, p = ParseFormatStr(t, own)
  PROVE  \/ /\ p.ret = "OK"
            /\ \E r \in Readings(t) :
                 /\ Readings(t) = {r} /\ r.struct = p.struct /\ r.lda = p.lda
                 /\ IF r.library = <<>> THEN p.library \in OwnLibraries ELSE p.library = r.library
         \/ p.ret \in Refused /\ Readings(t) = {} /\ p.lda = <<>>
<1> DEFINE s == Scanned(t)
           r == Reading(t, s)
<1>1. /\ FitsIn(t, s)
              => p = [ret |-> "OK", struct |-> Struct(t, s),
                      library |-> IF s.point = 0 THEN own ELSE LibraryIn(t, s), lda |-> LDAIn(t, s)]
      /\ ~FitsIn(t, s) => p.ret \in Refused /\ p.lda = <<>>
  BY ParseIs
<1>2. /\ FitsIn(t, s) => Readings(t) = {r}
      /\ ~FitsIn(t, s) => Readings(t) = {}
  BY ReadingsAre
<1>3. Seen(t, Len(t), s)
  BY ScannedSees
<1> HIDE DEF s
<1>4. CASE FitsIn(t, s)
  <2>1. s.point = 0 <=> LibraryIn(t, s) = <<>>
    <3>1. /\ Len(LibraryIn(t, s)) = (IF s.point = 0 THEN 0 ELSE s.point - (s.at + 1))
          /\ LibraryIn(t, s) \in Seq({"x"})
      BY <1>3, <1>4, SeenSpells
    <3>2. s.point \in Nat /\ s.at \in Nat /\ (s.point # 0 => s.point > s.at + 1)
      BY <1>3, <1>4 DEF Seen, FitsIn, ScanStates
    <3>3. CASE s.point = 0
      BY <3>3 DEF LibraryIn
    <3>4. CASE s.point # 0
      <4>1. s.point - (s.at + 1) # 0
        BY <3>2, <3>4
      <4> QED BY <4>1, <3>1, <3>4, EmptySeq
    <3> QED BY <3>3, <3>4
  <2>2. /\ p.ret = "OK" /\ p.struct = Struct(t, s) /\ p.lda = LDAIn(t, s)
        /\ p.library = IF s.point = 0 THEN own ELSE LibraryIn(t, s)
    BY <1>1, <1>4
  <2>3. r.struct = Struct(t, s) /\ r.library = LibraryIn(t, s) /\ r.lda = LDAIn(t, s)
    BY DEF Reading
  <2>4. Readings(t) = {r}
    BY <1>2, <1>4
  <2> HIDE DEF r
  <2>5. r \in Readings(t)
    BY <2>4
  <2>6. IF r.library = <<>> THEN p.library \in OwnLibraries ELSE p.library = r.library
    BY <2>1, <2>2, <2>3
  <2> QED BY <2>2, <2>3, <2>4, <2>5, <2>6
<1>5. CASE ~FitsIn(t, s)
  BY <1>1, <1>2, <1>5
<1> QED BY <1>4, <1>5

(* A step that leaves the string and what it has been taken apart into. *)
LEMMA KeepsText ==
  ASSUME Inv, TextInv, text' = text, infos' = infos,
         exit' \notin Parsers \/ (exit' = exit /\ (call' = call \/ call' = call + 1))
  PROVE  TextInv'
<1>1. exit' \in Parsers /\ call' <= 4 => exit \in Parsers /\ call <= 4
  BY DEF Inv, Types
<1>2. ReadAsDocumented'
  BY DEF TextInv, ReadAsDocumented
<1> QED BY <1>1, <1>2 DEF TextInv

(* The invariant is inductive, over that of the returns. *)
LEMMA TextStep == Inv /\ TextInv /\ [Next]_vars => TextInv'
<1> SUFFICES ASSUME Inv, TextInv, [Next]_vars PROVE TextInv'
  OBVIOUS
<1>0. "none" \notin Parsers /\ "dead" \notin Parsers
  BY DEF Parsers, Objects
<1>1. ASSUME infos' = NoInfos, text' \in Seq(Signs) PROVE TextInv'
  BY <1>1 DEF TextInv, ReadAsDocumented, NoInfos
<1>2. CASE Start
  <2>1. infos' = NoInfos /\ text' = <<>>
    BY <1>2 DEF Start
  <2> QED BY <2>1, <1>1, EmptySeq
<1>3. ASSUME NEW c \in OpenCalls, Succeeds(c) PROVE TextInv'
  <2>1. /\ Running(c) /\ exit' = exit /\ call' = call + 1 /\ infos' = infos
        /\ IF c = "formatstr" /\ exit \in Parsers THEN text' \in Texts ELSE text' = text
    BY <1>3 DEF Succeeds, Continues
  <2>2. CASE c = "formatstr" /\ exit \in Parsers
    <3>1. call = 4
      <4>1. exit \in Exits /\ call \in 1..Len(Calls(exit)) /\ Calls(exit)[call] = "formatstr"
        BY <2>1, <2>2, RunningTaken
      <4> QED BY <4>1, <2>2, CallNumbers DEF IsRow, Parsers
    <3>2. infos' = NoInfos
      BY <2>1, <2>2, <3>1 DEF TextInv
    <3>3. text' \in Seq(Signs)
      <4>1. PICK n \in 0..MaxText : text' \in [1..n -> Signs]
        BY <2>1, <2>2 DEF Texts
      <4>2. n \in Nat
        BY <4>1
      <4> QED BY <4>1, <4>2, FunctionIsSeq
    <3> QED BY <3>2, <3>3, <1>1
  <2>3. CASE ~(c = "formatstr" /\ exit \in Parsers)
    BY <2>1, <2>3, KeepsText
  <2> QED BY <2>2, <2>3
<1>4. ASSUME NEW c \in OpenCalls, Fails(c) PROVE TextInv'
  BY <1>0, <1>4, KeepsText DEF Fails, Ended, data
<1>11. ASSUME NEW c \in OpenCalls, FailsHalfWay(c) PROVE TextInv'
  BY <1>0, <1>11, KeepsText DEF FailsHalfWay, data
<1>5. CASE Parse
  <2>1. PICK own \in OwnLibraries : infos' = ParseFormatStr(text, own)
    BY <1>5 DEF Parse
  <2>2. text' = text /\ text \in Seq(Signs)
    BY <1>5 DEF Parse, TextInv
  <2>3. ReadAsDocumented'
    <3>1. \/ /\ infos'.ret = "OK"
             /\ \E r \in Readings(text) :
                  /\ Readings(text) = {r} /\ r.struct = infos'.struct /\ r.lda = infos'.lda
                  /\ IF r.library = <<>> THEN infos'.library \in OwnLibraries
                       ELSE infos'.library = r.library
          \/ infos'.ret \in Refused /\ Readings(text) = {} /\ infos'.lda = <<>>
      BY <2>1, <2>2, ParseReads
    <3>2. "OK" \notin Refused
      BY DEF Refused
    <3> QED BY <2>2, <3>1, <3>2 DEF ReadAsDocumented, Refused
  <2>4. ~(exit' \in Parsers /\ call' <= 4)
    <3>1. CASE Ended("parse", Releases(exit, "parse"))
      BY <3>1, <1>0 DEF Ended
    <3>2. CASE Continues("parse")
      <4>1. exit \in Exits /\ call \in 1..Len(Calls(exit)) /\ Calls(exit)[call] = "parse"
        BY <1>5, RunningTaken DEF Parse
      <4>2. exit \in Parsers => call = 5
        BY <4>1, CallNumbers DEF IsRow, Parsers
      <4> QED BY <3>2, <4>2 DEF Continues
    <3> QED BY <1>5, <3>1, <3>2 DEF Parse
  <2> QED BY <2>2, <2>3, <2>4 DEF TextInv
<1>6. CASE Library
  BY <1>0, <1>6, KeepsText DEF Library, Continues, Ended, data
<1>7. CASE Fits
  BY <1>0, <1>7, KeepsText DEF Fits, Continues, Ended, data
<1>8. CASE Rule
  BY <1>0, <1>8, KeepsText DEF Rule, Continues, data
<1>9. CASE Finish
  BY <1>0, <1>9, KeepsText DEF Finish, Ended, data
<1>10. CASE UNCHANGED vars
  BY <1>10, KeepsText DEF vars, data
<1> QED BY <1>2, <1>3, <1>4, <1>11, <1>5, <1>6, <1>7, <1>8, <1>9, <1>10 DEF Next

(***************************************************************************)
(* Of all strings rh4nnatParseFormatStr accepts those of the documented    *)
(* form, for names of any lengths; there is one way to read such a string, *)
(* and the function takes it apart in that way.                            *)
(***************************************************************************)
THEOREM ReadAsDocumentedCorrect == Spec => []ReadAsDocumented
<1>1. Init => TextInv
  BY EmptySeq DEF Init, TextInv, ReadAsDocumented, NoInfos, Parsers, Objects
<1>2. TextInv => ReadAsDocumented
  BY DEF TextInv
<1> QED BY <1>1, <1>2, TextStep, ExitsInvariance, PTL DEF Spec
=============================================================================
