----------------------------- MODULE DebugInit ------------------------------
(***************************************************************************)
(* The handlers of the user exit RHDBGINI: they make the properties that   *)
(* natcaller would make, from three texts of a program.                    *)
(*                                                                         *)
(* A text is its form, which is what the handlers look for.                *)
(***************************************************************************)

(* LEVEL@PATH, PROGRAM.LIBRARY@PATH and PATH are what the handlers take.   *)
(* "word" is no level, "long" a program of more than NNI_LEN_MEMBER signs. *)
Forms(c) ==
  CASE c = "log" -> {"level@path", "word@path", "path"}
    [] c = "source" -> {"prog.lib@path", "prog@path", "long.lib@path", "path"}
    [] OTHER -> {"path"}

(* A pointer to a path is NULL, or leads to a path, or to freed memory. *)
NoProps == [level |-> "none", logpath |-> "null", natsrcpath |-> "null",
            member |-> FALSE, outputfile |-> "null"]

(* A level that is not known is kept, too. *)
LogHandler(props, form) ==
  IF form \in {"level@path", "word@path"}
    THEN [props EXCEPT !.level = IF form = "level@path" THEN "known" ELSE "unknown",
                       !.logpath = "path"]
    ELSE props

(* The path is kept before the rest is looked at, and freed if that is not *)
(* <program>.<library>; the pointer to it stays.                           *)
LibSrcHandler(props, form) ==
  CASE form = "prog.lib@path" -> [props EXCEPT !.natsrcpath = "path", !.member = TRUE]
    [] form \in {"prog@path", "long.lib@path"} -> [props EXCEPT !.natsrcpath = "freed"]
    [] OTHER -> props

OutputfileHandler(props) == [props EXCEPT !.outputfile = "path"]

(* The table of the handlers; what they return is not looked at. *)
Handlers(c, props, form) ==
  CASE c = "log" -> LogHandler(props, form)
    [] c = "source" -> LibSrcHandler(props, form)
    [] c = "output" -> OutputfileHandler(props)
    [] OTHER -> props
=============================================================================
