------------------------------- MODULE NatCall ------------------------------
(***************************************************************************)
(* One call of natcaller, from the connector that dumps the request to the *)
(* answer it finds in the output file.                                     *)
(*                                                                         *)
(* natcaller loads the properties file, runs the Natural program in a      *)
(* session and tells what went wrong by writing the output file.  Natural, *)
(* its library and the program are external: every call may fail, and the  *)
(* program may write its JSON answer before it does.                       *)
(***************************************************************************)
EXTENDS PropsFile

CONSTANT Outputs     \* what the output file may hold before; NoFile: there is none
NoFile == <<"no file">>

(* What is in the file before is not this call's. *)
ASSUME OutputsAssumption ==
  (\A o \in Outputs : o \in Seq(Range(o))) /\ <<"error">> \notin Outputs

VARIABLES
  step,      \* the next call of main and callNatural
  session,   \* whether the Natural session is open
  called,    \* whether the program was called
  output,    \* what is in the connector's output file, front to back
  writable,  \* whether natcaller may open and create that file
  failed,    \* the steps that failed
  exit       \* the return value of natcaller

callVars == <<step, session, called, output, writable, failed, exit>>
vars == <<fileVars, callVars>>

After == [logging |-> "library", library |-> "functions", functions |-> "initialize",
          initialize |-> "parms", parms |-> "logon", logon |-> "callnat",
          callnat |-> "uninitialize", uninitialize |-> "free", free |-> "cleanup"]

CallInit ==
  /\ Init
  /\ step = "logging" /\ session = FALSE /\ called = FALSE
  /\ output \in Outputs /\ writable \in BOOLEAN
  /\ failed = {} /\ exit = "OK"

(* natcaller has the path the connector gave it, and may use it. *)
HasPath == /\ request["outputfile"] # <<>>
           /\ props["outputfile"] = request["outputfile"] /\ "outputfile" \notin tails
Reaches == HasPath /\ writable

(* Mutant: the file is opened without being emptied. *)
WriteErrorOver ==
  output' = IF ~Reaches THEN output
            ELSE IF output = NoFile THEN <<"error">>
            ELSE <<"error">> \o SubSeq(output, 2, Len(output))

(* fopen "w": the file is created or emptied, or there is no answer. *)
WriteError == output' = IF Reaches THEN <<"error">> ELSE output

(* rh4njsonPrintJSONToFile: the file must exist, and is not emptied. *)
Answered == IF Reaches /\ output # NoFile
              THEN <<"answer">> \o SubSeq(output, 2, Len(output))
              ELSE output

(* main and the connector's dump: the return value of the load is ignored. *)
Transfer == step = "logging" /\ FileNext /\ UNCHANGED callVars

At(s) == phase = "loaded" /\ step = s
Succeeds == step' = After[step] /\ UNCHANGED <<failed, exit>>

(* Without a logging rule natcaller ends at once. *)
Logging ==
  /\ At("logging")
  /\ \/ Succeeds
     \/ step' = "exited" /\ failed' = {"logging"} /\ exit' = "ERR"
  /\ UNCHANGED <<fileVars, session, called, output, writable>>

Fails == failed' = failed \cup {step} /\ exit' = "INTERNAL_ERR" /\ step' = "cleanup"

(* Each writes its error to the output file. *)
Library ==
  /\ At("library") \/ At("functions")
  /\ \/ Succeeds /\ UNCHANGED output
     \/ Fails /\ WriteError
  /\ UNCHANGED <<fileVars, session, called, writable>>

Initialize ==
  /\ At("initialize")
  /\ \/ Succeeds /\ session' = TRUE /\ UNCHANGED output
     \/ Fails /\ WriteError /\ UNCHANGED session
  /\ UNCHANGED <<fileVars, called, writable>>

(* rh4nNaturalParamsGeneration: the error is logged only. *)
Parms ==
  /\ At("parms")
  /\ Succeeds \/ Fails
  /\ UNCHANGED <<fileVars, session, called, output, writable>>

(***************************************************************************)
(* The line that logs a failed logon gives the return code to a %s, and    *)
(* nothing to its %d.  At the log levels that write the line the code is   *)
(* taken for an address, which ends the process.                           *)
(***************************************************************************)
Logon ==
  /\ At("logon")
  /\ \/ Succeeds /\ UNCHANGED output
     \/ Fails /\ WriteError
     \/ /\ step' = "exited" /\ failed' = failed \cup {"logon"} /\ exit' = "killed"
        /\ UNCHANGED output
  /\ UNCHANGED <<fileVars, session, called, writable>>

(* Mutant: a program that fails ends natcaller at once. *)
CallNatLeaves ==
  /\ At("callnat")
  /\ called' = TRUE
  /\ \/ Succeeds /\ output' \in {output, Answered}
     \/ Fails /\ WriteError
  /\ UNCHANGED <<fileVars, session, writable>>

(* The program runs.  Errors of Natural (above 0) and of the interface     *)
(* (below) are both written; the session is closed all the same.           *)
CallNat ==
  /\ At("callnat")
  /\ called' = TRUE
  /\ step' = After[step]
  /\ \/ UNCHANGED <<failed, exit>> /\ output' \in {output, Answered}
     \/ failed' = failed \cup {step} /\ exit' = "INTERNAL_ERR" /\ WriteError
  /\ UNCHANGED <<fileVars, session, writable>>

(* Closing may fail, too; this error is logged only. *)
Close ==
  /\ At("uninitialize") \/ At("free")
  /\ \/ step' = After[step] /\ UNCHANGED <<failed, exit>>
        /\ session' = (session /\ step # "uninitialize")
     \/ Fails /\ UNCHANGED session
  /\ UNCHANGED <<fileVars, called, output, writable>>

Cleanup ==
  /\ At("cleanup")
  /\ step' = "exited"
  /\ UNCHANGED <<fileVars, session, called, output, writable, failed, exit>>

Next == \/ Transfer \/ Logging \/ Library \/ Initialize \/ Parms \/ Logon
        \/ CallNat \/ Close \/ Cleanup

(* Two sequential programs, one after the other. *)
Spec == CallInit /\ [][Next]_vars

-----------------------------------------------------------------------------
IsTold == {"library", "functions", "initialize", "logon", "callnat"}

(***************************************************************************)
(* An error that natcaller writes is all there is in the output file, even *)
(* if the program had written an answer, or an earlier call something      *)
(* longer, and stays there to the end.  And the return value tells the     *)
(* server how the call went: OK exactly if nothing failed, and never with  *)
(* an error in the file.                                                   *)
(***************************************************************************)
ErrorIsTold ==
  /\ exit # "killed" /\ Reaches /\ failed \cap IsTold # {} => output = <<"error">>
  /\ step = "exited" => (exit = "OK" <=> failed = {})
  /\ output = <<"error">> => exit # "OK"

(***************************************************************************)
(* natcaller leaves an open session behind only when the parameters or the *)
(* logon failed, whose returns skip the closing, or the closing itself     *)
(* did.  A program that fails does not.                                    *)
(***************************************************************************)
SessionIsClosed ==
  step = "exited" /\ session => failed \cap {"parms", "logon", "uninitialize"} # {}
=============================================================================
