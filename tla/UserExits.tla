------------------------------ MODULE UserExits -----------------------------
(***************************************************************************)
(* The user exits that a Natural program calls, one after the other, and   *)
(* what they hold while they run: the Natural library (dlopen counts how   *)
(* often), the format string, the variables read from the parameters, the  *)
(* list of the LDA, the table of positions and the properties that         *)
(* RHDBGINI makes.                                                         *)
(*                                                                         *)
(* Every exit is a row of calls that may fail, and every failure has a     *)
(* return of its own that gives back what it thinks of.                    *)
(***************************************************************************)
EXTENDS FormatStr, DebugInit, FiniteSets, SequencesExt

CONSTANTS
  MaxCalls,       \* the calls of exits looked at
  MaxText,        \* the longest format string
  OwnLibraries    \* the libraries that a program's properties name, or <<>>

ASSUME BoundsAssumption == {MaxCalls, MaxText} \subseteq Nat

Exits == {"RHGENJS", "RHGETBO", "RHGETUO", "RHGETBV", "RHGETUV", "RHGETUS", "RHDBGINI"}
Objects == {"RHGETBO", "RHGETUO"}
Variables == {"RHGETBV", "RHGETUV"}
Parsers == Objects \cup {"RHGENJS"}

Things == {"library", "format", "variables", "lda", "positions", "properties"}
Texts == UNION {[1..n -> Signs] : n \in 0..MaxText}

(* The calls of every exit; rh4nnatInit is the first ones of all but the   *)
(* last.                                                                   *)
Calls(e) ==
  CASE e = "RHDBGINI" ->
         <<"memory", "load", "functions", "log", "source", "output", "rule", "put">>
    [] e = "RHGENJS" -> <<"load", "functions", "properties", "formatstr", "parse",
                          "ownlibrary", "readout", "lda", "names">>
    [] e \in Objects -> <<"load", "functions", "properties", "formatstr", "parse",
                          "lda", "position", "put">>
    [] e \in Variables -> <<"load", "functions", "properties", "formatstr",
                            "exist", "position", "put">>
    [] OTHER -> <<"load", "functions", "properties", "user", "info", "fits", "put">>

(* What a call that succeeds takes. *)
Takes(e, c) ==
  CASE c = "load" -> {"library"} [] c = "formatstr" -> {"format"}
    [] c = "readout" -> {"variables"} [] c = "lda" -> {"lda"}
    [] c = "position" -> {"positions"} [] c = "memory" -> {"properties"} [] OTHER -> {}

(***************************************************************************)
(* What the return after a failure gives back.  Nothing where a line is    *)
(* missing in front of it: the parameters, the own library of RHGENJS, a   *)
(* variable that is not there, the description of the user's parameter;    *)
(* and RHDBGINI keeps its properties when the library does not load.       *)
(***************************************************************************)
Releases(e, c) ==
  CASE c = "functions" -> {"library"}
    [] c \in {"parse", "readout"} -> {"library", "format"}
    [] c = "lda" -> {"library", "format"}
    [] c = "names" -> {"library", "format", "lda"}
    [] c = "position" /\ e \in Objects -> {"library", "format", "lda"}
    [] c = "position" /\ e \in Variables -> {"library", "format"}
    [] c = "put" /\ e \in Objects -> {"library", "format", "lda"}
    [] c = "put" /\ e \in Variables -> {"library", "format", "positions"}
    [] e = "RHDBGINI" /\ c \in {"log", "source", "output", "put"} -> {"library", "properties"}
    [] e = "RHGETUS" /\ c \in {"user", "short", "put"} -> {"library"}
    [] OTHER -> {}

(* Mutant: RHGETUS frees a format string, which it does not read. *)
ReleasesAtEndMore(e) ==
  CASE e \in Parsers -> {"library", "format", "lda"}
    [] e \in Variables -> {"library", "format", "positions"}
    [] OTHER -> {"library", "format"}

(* Mutant: the library stays open after RHDBGINI. *)
ReleasesAtEndLess(e) ==
  CASE e \in Parsers -> {"library", "format", "lda"}
    [] e \in Variables -> {"library", "format", "positions"}
    [] OTHER -> IF e = "RHDBGINI" THEN {} ELSE {"library"}

(* What the last return gives back: the variables of RHGENJS and the       *)
(* positions of RHGETBO and RHGETUO are not among it.  The properties of   *)
(* RHDBGINI are the program's.                                             *)
ReleasesAtEnd(e) ==
  CASE e \in Parsers -> {"library", "format", "lda"}
    [] e \in Variables -> {"library", "format", "positions"}
    [] OTHER -> {"library"}

VARIABLES
  exit,      \* the exit that runs, "none", or "dead" when the process was killed
  call,      \* the number of its next call
  held,      \* how many of everything are held
  taken,     \* what the running exit has taken
  history,   \* the calls of exits that ended: the exit, and where it ended
  text,      \* the format string that the running exit, or the last one, has read
  infos,     \* what ParseFormatStr made of it
  props      \* the properties that RHDBGINI fills

resources == <<held, taken>>
data == <<text, infos, props>>
vars == <<exit, call, resources, history, data>>

Init ==
  /\ exit = "none" /\ call = 1
  /\ held = [t \in Things |-> 0] /\ taken = {} /\ history = <<>>
  /\ text = <<>> /\ infos = NoInfos /\ props = NoProps

Start ==
  /\ exit = "none" /\ Len(history) < MaxCalls
  /\ exit' \in Exits /\ call' = 1 /\ taken' = {}
  /\ text' = <<>> /\ infos' = NoInfos /\ props' = NoProps
  /\ UNCHANGED <<held, history>>

(* A count below 0 stands for giving back what is not held. *)
Ended(c, things) ==
  /\ exit' = "none"
  /\ history' = Append(history, [exit |-> exit, call |-> c])
  /\ held' = [t \in Things |-> IF t \in things THEN held[t] - 1 ELSE held[t]]
  /\ UNCHANGED <<call, taken>>

Running(c) == exit \notin {"none", "dead"} /\ call <= Len(Calls(exit)) /\ Calls(exit)[call] = c

Continues(c) ==
  /\ call' = call + 1
  /\ taken' = taken \cup Takes(exit, c)
  /\ held' = [t \in Things |-> IF t \in Takes(exit, c) THEN held[t] + 1 ELSE held[t]]
  /\ UNCHANGED <<exit, history>>

(* The calls whose outcome is not decided by what is modelled here. *)
OpenCalls == {"memory", "load", "functions", "properties", "formatstr", "readout", "lda",
              "names", "position", "put", "exist", "user", "info", "log", "source", "output"}

(* A text that RHDBGINI has read goes to its handler. *)
Succeeds(c) ==
  /\ Running(c) /\ Continues(c)
  /\ IF c = "formatstr" /\ exit \in Parsers THEN text' \in Texts ELSE UNCHANGED text
  /\ \E form \in Forms(c) : props' = Handlers(c, props, form)
  /\ UNCHANGED infos

Fails(c) ==
  /\ Running(c)
  /\ Ended(c, Releases(exit, c))
  /\ UNCHANGED data

(***************************************************************************)
(* A call that fails half way leaves what it has taken so far, and no      *)
(* return gives that back: the variables before the one that cannot be     *)
(* read, the entries of the lines before the one that the LDA parser       *)
(* refuses, the rows of the table before the one there is no memory for.   *)
(***************************************************************************)
HalfWay(e, c) ==
  CASE c = "readout" -> {"variable"} [] c = "lda" -> {"line"}
    [] c = "position" /\ e \in Objects -> {"row"} [] OTHER -> {}

FailsHalfWay(c) ==
  /\ Running(c)
  /\ exit' = "none"
  /\ \E end \in HalfWay(exit, c) : history' = Append(history, [exit |-> exit, call |-> end])
  /\ held' = [t \in Things |-> CASE t \in Takes(exit, c) -> held[t] + 1
                               [] t \in Releases(exit, c) -> held[t] - 1
                               [] OTHER -> held[t]]
  /\ UNCHANGED <<call, taken, data>>

Parse ==
  /\ Running("parse")
  /\ \E own \in OwnLibraries : infos' = ParseFormatStr(text, own)
  /\ IF infos'.ret = "OK" THEN Continues("parse") ELSE Ended("parse", Releases(exit, "parse"))
  /\ UNCHANGED <<text, props>>

(* RHGENJS goes on with a library only. *)
Library ==
  /\ Running("ownlibrary")
  /\ IF infos.library # <<>>
       THEN Continues("ownlibrary")
       ELSE Ended("ownlibrary", Releases(exit, "ownlibrary"))
  /\ UNCHANGED data

(***************************************************************************)
(* The user's parameter.  Only the line that closes the library belongs to *)
(* the comparison of the lengths; the return behind it does not.           *)
(***************************************************************************)
Fits ==
  /\ Running("fits")
  /\ \/ Continues("fits")
     \/ \E parameter \in {"short", "fixed"} : Ended(parameter, Releases(exit, parameter))
  /\ UNCHANGED data

(* Creating the rule copies the log path, with or without one. *)
Rule ==
  /\ Running("rule")
  /\ IF props.logpath # "null" THEN Continues("rule")
       ELSE exit' = "dead" /\ UNCHANGED <<call, resources, history>>
  /\ UNCHANGED data

Finish ==
  /\ exit \notin {"none", "dead"} /\ call > Len(Calls(exit))
  /\ Ended("end", ReleasesAtEnd(exit))
  /\ UNCHANGED data

Next == \/ Start \/ Parse \/ Library \/ Fits \/ Rule \/ Finish
        \/ \E c \in OpenCalls : Succeeds(c) \/ Fails(c) \/ FailsHalfWay(c)

Spec == Init /\ [][Next]_vars

-----------------------------------------------------------------------------
(* Nothing is given back that this call has not taken: no memory is freed  *)
(* twice, and the library is not closed under those who opened it.         *)
GivesBackItsOwn ==
  [][exit # "none" /\ exit' = "none" => \A t \in Things : held'[t] < held[t] => t \in taken]_vars

EndedAt(exits, calls) ==
  Cardinality({k \in 1..Len(history) : history[k].exit \in exits /\ history[k].call \in calls})

(***************************************************************************)
(* The library and the format string are closed and freed on every return  *)
(* but these: a rh4nnatInit that cannot read the parameters, an empty own  *)
(* library, an unknown variable, and RHGETUS without a description or with *)
(* a parameter of fixed length that is long enough.  The list of an LDA is *)
(* freed on every one but that after a line the parser refuses, which has  *)
(* left the entries before it.  The variables of RHGENJS and the table of  *)
(* RHGETBO and RHGETUO are not freed at all.  The properties stay when the *)
(* library or its functions are missing, and with the program at the end.  *)
(* So what is held between two calls is exactly what those returns have    *)
(* left.  The properties that a program gets have a log path and an output *)
(* file, and a source path that can be used exactly with a program and a   *)
(* library.                                                                *)
(***************************************************************************)
KeepsOnlyAfter ==
  exit = "none" =>
    /\ held["library"] =
         EndedAt(Exits, {"properties", "formatstr", "ownlibrary", "exist", "info", "fixed"})
    /\ held["format"] = EndedAt(Exits, {"ownlibrary", "exist"})
    /\ held["lda"] = EndedAt(Parsers, {"line"})
    /\ held["variables"] = EndedAt({"RHGENJS"}, {"variable", "lda", "line", "names", "end"})
    /\ held["positions"] = EndedAt(Objects, {"row", "put", "end"})
    /\ held["properties"] = EndedAt({"RHDBGINI"}, {"load", "functions", "end"})
    /\ history # <<>> /\ Last(history) = [exit |-> "RHDBGINI", call |-> "end"] =>
         /\ props.logpath = "path" /\ props.outputfile = "path"
         /\ props.natsrcpath = "path" <=> props.member

(***************************************************************************)
(* The documented form of a format string, and only it, is accepted; there *)
(* is one way to read it, and it is taken apart in that way, with the own  *)
(* library where none is named.  A string that is refused leaves no LDA.   *)
(***************************************************************************)
ReadAsDocumented ==
  CASE infos.ret = "OK" ->
         \E r \in Readings(text) :
           /\ Readings(text) = {r} /\ r.struct = infos.struct /\ r.lda = infos.lda
           /\ IF r.library = <<>> THEN infos.library \in OwnLibraries
                ELSE infos.library = r.library
    [] infos.ret \in {"MALFORMED", "OVERFLOW"} -> Readings(text) = {} /\ infos.lda = <<>>
    [] OTHER -> infos = NoInfos
=============================================================================
