# Verification of realHTML4NaturalCore

realHTML4Natural lets a web server call a program written in Natural (Software
AG) as if it were a REST handler. A *connector* in the web server takes the
variables of a request, starts the *natcaller* and sends it the variables; the
natcaller calls Natural; the Natural program calls the *user exits* of
`natuser/` to read the variables and to write its answer as JSON. This project
models the code of this repository in TLA+, model-checks the models with TLC
and proves some of their properties with TLAPS.

## 1. Inventory

| part | state it keeps | operations | who uses it |
|---|---|---|---|
| **variable list** `libs/rh4n_vars` (`rh4n_vars.c`, `_group.c`, `_free.c`) | a forest of entries with a name, a type, a value and the links `next`, `nextlvl`, `prev`; `anker` | create in a group or along a path of groups, search, move into a group, free | everything |
| **values and arrays** (`_array.c`, `_string.c`, `_ustring.c`, `_integer.c`, `_float.c`, `_bool.c`, `_null.c`) | type, length and value of an entry; an array is a tree of up to three levels of cells | create, edit, get; create and expand arrays, set and get elements | connector, user exits |
| **dump and load** (`_dump.c`, `_load.c`) | a file of records | write the entries in order with two flags each, read them back and link them by the flags | connector and natcaller, one after the other |
| **print** (`_print.c`) | - | writes a list to the log, and a value as text for the JSON generator | all |
| **list messages** `libs/rh4n_messaging` (`rh4n_messaging.c`, `_sendvars.c`, `_recvvars.c`, `_uds.c`) | two streams of octets of a Unix domain socket | send and receive a list, entry by entry, with acknowledges and timeouts | connector and natcaller, at the same time |
| **session messages, text blocks** (`_sessionInformations.c`, `_textBlock.c`) | the same streams | ten fixed fields, each a length that is acknowledged and a value that is not; one text | the same |
| **socket set-up** (`_uds.c`) | - | socket, bind, listen, accept, connect | the same |
| **properties file** `libs/rh4n_utils/src/rh4n_utils_prop.c` | a file with the settings, the URL variables and the body variables | dump, load, free | connector, natcaller |
| **name stack, string helpers** (`rh4n_utils_namestack.c`, `rh4n_utils.c`) | a stack of group names | push, pop; trim, escape | connector, user exits |
| **natcaller** `natcaller/` | the properties, the loaded Natural library | load the settings, receive the lists, call Natural, report an error | started by the connector |
| **user exits** `natuser/` | none between two calls: each gets the address of the properties from Natural | GENJSON, GETBODYOBJ, GETBODYVAR, GETURLOBJ, GETURLVAR, GETUSER | the Natural program |
| **variable conversion** `natuser/src/put_var_handling`, `var_parm_handling` | - | Natural parameter to variable and back, with a loop over each index of an array | user exits |
| **LDA parser** `libs/rh4n_ldaparser` | the entries of a Natural local data area and the entry read last, both global | parse a file line by line into a tree by the level numbers | user exits |
| **name matching** `libs/rh4n_var2name` | the stack `parents`, global | give the Natural parameters the names and groups of a structure of the LDA; list the parameter position of every name | user exits |
| **JSON generator** `libs/rh4n_jsongenerator` | a file | write a list as JSON | GENJSON |
| **logging** `libs/rh4n_logging` | a rule | write a line | all |

How they interact. One process runs one thread, so there is no interleaving
inside a process. Two processes meet in two ways: through a *file* that one
writes and the other reads later (dump and load, the properties), and through a
*socket* over which both talk at the same time (messages). Inside the natcaller
process Natural calls the user exits, which find the lists through a pointer
that Natural hands back to them.

What is hard in it:

* Both ways of handing over a list send the entries in one order with two flags
  each. The reader has to find the place of an entry from the flags of the entry
  *before* it and from the links built so far.
* The message protocol has two kinds of waits that mean different things in
  different places: a timeout is an error in one, the end of the list in
  another, and nothing at all in a third. The acknowledge and the end of the
  list are the same octet.
* An entry has three links that are kept up by hand, while entries are created
  in any level and moved between levels.
* A file is overwritten in place, and no write is checked.

What makes each part correct is stated as the properties of its module, below;
`PROJECT.json` lists the hazards with the line at which each bites.

## 2. Plan

Modules in the order in which they are written; those marked done are there.

| module | component | state |
|---|---|---|
| `VarForest`, `VarTreeBuild`, `VarStore`, `VarStoreProofs` | lists as values; rebuilding a list from flagged entries; dump and load | done |
| `ListTransfer`, `Messaging` | what a transfer promises; the list messages with their waits and timeouts | done |
| `VarTree`, `ListCalls`, `VarList`, `VarLinks` | the list operations on levels (abstract) and on links (detailed) | done |
| `VarArray`, `ValueCalls` | values and arrays: create, edit, expand, set, get, free | done |
| `NatValues`, `NatParms` | Natural parameters from variables and back, the loops and the conversions | done |
| `LdaLines`, `LdaParser` | the tree of an LDA from its level numbers | done |
| `Var2Name` | renaming and positions, over `VarTree` and `LdaLines` | done |
| `JsonGen` | the tokens the generator writes for a list | done |
| `Session` | the session message over the two streams of the socket | done |
| `PropsFile`, `NatCall` | the properties file and the life of the natcaller | done |
| `FormatStr`, `DebugInit`, `UserExits` | what the user exits take, hold and give back | done |
| `SessionProofs` | `FieldsArrive` and `SentIsReceived` for every session | done |
| `NatCallProofs` | the four properties of `natcall` for every request and every file | done |
| `UserExitsProofs` | that every exit gives back what it took, for any number of calls, and that format strings of any length are read as documented | done |
| `LdaProofs` | the four properties of `lda` for files of any length | done |
| `VarLinksProofs` | that the links implement the levels, and the properties of the levels | done |
| `ValueProofs` | the three properties of `values` for all values and lengths | done |
| in `VarStoreProofs` | that the condition of `RoundTrip` is exact | done |
| `NatParmsProofs` | the four properties of `natparms` for every row of parameters and arrays of any size | done |
| in `SessionProofs`' manner | `OnlySentEntries`, `SentMeansRead`, `Transferred` of `Messaging` | not done: only model-checked |

Compositions: `VarStore` and `Messaging` both extend `VarTreeBuild`, as file
loader and message receiver are two copies of one algorithm; `VarList` and
`VarLinks` both extend `ListCalls`; `Var2Name` and `JsonGen` use `VarTree`;
`Var2Name` and `LdaParser` share `LdaLines`; `NatParms` uses `VarArray`;
`NatCall` runs after `PropsFile` has dumped and loaded, in one behaviour;
`UserExits` uses `FormatStr` and `DebugInit`. Abstract specifications:
`ListTransfer` (the received entries are at every moment a prefix of the list),
which `Messaging` implements in the run `messages`; `VarList`, which `VarLinks`
implements in the run `varlinks`. `LdaParser` is compared with the functions
`NextLine`, `LineBelow` and `HeadOf` of `LdaLines`, `JsonGen` with a reader of
JSON, `FormatStr` with `Readings`.

## 3. The modules and the code

### 3.1 A list as a value: `VarForest`

The entries of a list are numbered in the order in which dump and messages visit
them: the entry, then `nextlvl`, then `next`. The shape of the list is then the
depth of each entry, `IsNext`/`NextOf` and `NextlvlOf` give the links back, and
`MCVarStore!WalkAssumption` checks that the recursion of `rh4nvarsDumpNode` does
visit them in that order. Values of entries are left out: they travel with the
entry and decide nothing.

### 3.2 Rebuilding a list: `VarTreeBuild`

`rh4nvarsPutInNewNode` (load) and `rh4n_messaging_recvVarlistAddNode` (receive)
are the same algorithm, so it is one module. `anker`, `next`, `nextlvl`, `prev`
are the links of the entries; `newNode`, `lastNode`, `flags`, `prevFlags` the
locals of the loop around it. `PutFirst`, `PutBelow`, `PutBeside` are the three
cases that look only at the entry before; `StartClimb`, `ClimbUp`,
`PutAfterGroup`, `PutNowhere` are the loop back along `prev`, one step per round.

### 3.3 The file: `VarStore`

The connector dumps (`DumpNode`, `DumpEnd`), then the loader loads (`LoadNode`,
`LoadPut`, `LoadEnd`). `file` is the sequence of records, `pos` the offset.
What the code does not do is in the model: the file is opened without `O_TRUNC`
(`OldFiles`: what an earlier dump left), and no write is checked (`Quotas`: how
far the file can grow).

`RoundTrip` states under which condition a list survives: its levels end one at
a time and not with an empty group (`EndsOneLevelAtATime`). The flags say of an
entry only that it ends its level; the loader then always goes to the nearest
group without a successor. The condition is exact: every other list of named
entries comes back with another shape. `NothingIsLost` says what remains then: all
entries, in their order.

### 3.4 The messages: `ListTransfer`, `Messaging`

Sender (`spc`, `todo`) and receiver (`rpc`, `want`, `open`) are two processes over
two streams of octets (`toRecv`, `toSend`). Nothing in a stream marks where a
message ends, and a receive is one `select` and one `read`: where the receiver
asks for more than the sender writes in one piece, it may get less than a
message, or the beginning of the next one. So the stream is kept in octets; the
acknowledge and the end of the list are the same octet (6), and a length is four
octets in the order of the machine. Names and values are taken to be shorter than
the eight octets of a header, so that none of them looks like one.

A behaviour begins with a *transfer*: two lists, `slow` and `carriesOn`. `slow`
lets every wait time out though the peer is alive; `carriesOn` is a sender that
ignores the failure of one list and sends the next one, as the server of
`tests/` does. The transfers that are checked have one of the two, and
`OnlySentEntries` and the first half of `SentMeansRead` say so (`StopsWhenLate`):
with both, the receiver takes the next header for a name, which is that caller's
use and no claim of the code. `Transferred` and the refinement `TransferSpec` (of
`ListTransfer`) are about transfers in time.

### 3.5 The list operations: `VarTree`, `VarList`, `VarLinks`

`VarTree` has the operations on *levels*: a list is a name and a type per entry
and the sequence of entries of every level. Every operation returns what the C
function returns and the list it leaves. `VarList` calls them in any order.
`VarLinks` does the same calls on `anker`, `next`, `nextlvl`, `prev`, as the code
does, and implements `VarList` under the mapping that reads a level off the
links: `Fork(e)` is the first entry of the level below `e`, `Chain` what following
`next` from it meets. `Chain` and the ways down a path of groups (`Walk`, `WalkDown`) are
recursive functions, about which one can prove. `prev` does not show in a level: that it is kept is
shown by `FreedOnce`, since `rh4nvarFreeFork` goes back along `prev`; that function
recurses into groups, and is `FreeFork` and `FreeBack` in `MCVarLinks`.

Guards that are the callers' duty and not checked by the code: a moved entry is
no group (a group moved into itself would be lost), the path of
`rh4nvarMoveVarToGroup_m` ends at a group (its type is not looked at), and is not
empty.

### 3.6 Values and arrays: `VarArray`, `ValueCalls`

A value is a function from index paths to cells; the path `<<>>` is the variable,
`<<x>>` the element or row `x`, and so on. `VarArray` has the functions of
`rh4n_vars_array.c` and `rh4n_vars_free.c` as operators on such a value, and
`ValueCalls` every call on one variable of all types as an action. Some calls the
code cannot stand, and it is the callers' duty not to make them; they are kept out
by guards that are named for it: `ExpandsOnlyUnset` (adding a dimension to an array
whose elements are set), `Inside` (an index equal to a length passes
`rh4nvarGetArrayEntry`), `Readable` (reading an element that was never set), and the
`_m` setters are called for the type of the array.

`_rh4nvarExpandArray` is one operator and no loop: it visits blocks in the order
`Before`, so what it has expanded when it meets a block that is too long
(`TooLong`) is the set `Passed`. `rh4nvarFreeArray` walks by the lengths of the
first rows (`FreePasses`) and does not look at what `rh4nvarGetArrayEntry` returns:
where the rows differ it frees the entry of the pass before once more, or misses
entries. `FreesAll` says that it does neither. An array gets rows of different
lengths only from an expand that fails in the middle, and `FreedWhole` states that
from then on it cannot be freed, whatever is set, and that the first expand that
succeeds repairs it. `halfway` is the history that this is compared with.

### 3.7 Natural parameters: `NatValues`, `NatParms`

`NatValues` has the conversion of one value in each direction; a text is a sequence
of characters, as far as the code looks at them (blanks, double quotes, digits), a
Unicode text a sequence of pairs of octets, because `rh4nUtilsTrimSpaces4B` cuts
octets. `BigEndian` is the octet order of the machine: the shifts of `put_i.c` and
`i_handling.c` are only right where an int has its highest octet first, so
`HoldsElements` and `ComesBack` speak of that order (`Arrives`) or of I4.

`NatParms` has the loops. Its actions are one per C function; the five writers and
the seven readers are copies of each other, so each is an instance of `PutScalar`,
`PutArray`, `PutArrayEntry`, `ReadScalar`, `ReadArray`, `ReadArrayEntry`. An element
of an array is a step, since an NNI function may fail at it. The nested loops over an
array are the row of their indices (`Paths`), each made of the number of the pass by
division (`PathAt`). The Natural program between the two leaves its parameters alone:
that is what `ComesBack` is about.

The loops over the elements of a variable go by the lengths of its first rows. Where
a row is shorter `rh4nvarGetArrayEntry` lets the index that is equal to its length
pass (`rh4n_vars_array.c:119`, `:129`, `:136`), and what it finds is memory behind the
row: `PutArrayEntry` takes any of `Strays` for it, or the process is `killed`.
`HoldsElements` names this exception (`IsJagged`). In the other direction an array of
Natural whose first length is 0 is read as an array of one dimension without an
element, whatever its other lengths are (`rh4n_vars_array.c:12`; `NewDims`), while a
later length of 0 is an error.

`JobsAssumption` says what a parameter and a variable can be: a description that
Natural gives (`IsDescription`), and a scalar or an array of up to three dimensions
whose blocks may differ in length (`IsVar`), of texts over the signs in `Characters`.
`FitsIsPut` speaks of formats that have a writer, of an F8, and of arrays that fit in
every dimension; an X-array fits also where its upper bound is open (`UpperBound`).

### 3.8 Local data areas: `LdaLines`, `LdaParser`

A line is its kind, its level and the word (`VIEW OF`, `CONST`, `INIT`) that
occurs anywhere in it: that is all `rh4nldaParseLine` decides by, and it looks
for the words first. `Rejected`, `Ignored` and `Kept` are its three outcomes.
`MayFollow` is what Natural allows, since the file is one that Natural stored.
`NextLine`, `LineBelow` and `HeadOf` say of a whole text where a line belongs.

`LdaParser` reads one line per step. `anker` and `curptr` are the two global
pointers, so that a behaviour has several parses in it; `heap` has every entry
ever made. `SaveFirst`, `SaveSameLevel`, `SaveNextLevel`, `SaveAbove` are the
four cases of `rh4nldaSaveEntry`, `Climb` a round of its loop back along `prev`;
stepping past the first entry is `crashed`. `FreeBelow`, `FreeEntry`, `EndFork`
are the recursion of `rh4nldaFreeFork` with its calls in `todo`.

### 3.9 Names for parameters: `Var2Name`

`Passed` is what Natural hands to a user exit: the variables of the structure in
the order of the lines, those of redefinitions left out, whatever the parser
kept. `Counted` is what the code takes for their number: it goes down at the heads
of groups only, so what hangs below a variable, since its head was ignored, is
not counted. `Readout` makes the list of RHGENJS with temporary names; `Start` compares
the numbers; `IgnoreRedefine`, `MatchGroup`, `MatchVariable`, `EndLevel` are the
recursion over the lines, with `nat` the entry that comes next and `parents` the
names of the groups. `StartPosition`, `EnterGroup`, `SavePosition`, `LeaveGroup`
build the table of RHGETBO; `PutParm` puts one of its rows. The name of a line is
its number, so that a wrong name is a wrong number.

### 3.10 The answer: `JsonGen`

One operator per function, each of which returns the tokens that it writes. The
generator decides by the dimensions of arrays whether a level is an object or an
array of objects (`CheckIfJSONArray`), and computes a common dimension
(`GetCommonDimension`). `Reader` reads the tokens back as JSON and gives every
value with the names and indices around it. The file is not truncated: `OldFiles`.

`PrintVar` is `rh4nvarPrintVar` with its functions per type, as what the text they
write is to a reader: the value, the default of a value that was never set, another
value, or signs that a JSON reader cannot take. The text of a Unicode value is never
written (`rh4n_vars_print.c:116`); backslashes and control characters go out as they
are (`:105`); a text ends at an octet 0; a number keeps six decimals.

`RegularIsWhole` states when the text is the list, for whoever calls the generator:
every level that is written as an array of objects is `IsRegular`, and every value
`IsPrintable`. `OthersAreNot` states that this is exact for lists without empty groups
and without lengths of 0. With a length of 0, which RHGENJS gets for an X-array
without occurrences, a level that is not regular may still come out whole, since
there is nothing to lose; such lists are in the run for `RegularIsWhole`.

### 3.11 The natcaller: `PropsFile`, `NatCall`

`DumpLayout` and `LoadLayout` are the orders of the fields in the two functions;
an octet carries the field that it is of, so that one in a wrong place shows.
`DumpField` writes a field and advances even if nothing was written; `LoadFixed`,
`LoadText`, `LoadArray`, `LoadList` read one. `Earlier` is what the file held,
`Quotas` how far it can grow. `tails` are the texts with something behind their
last character in memory: any that is loaded whole, as there is no room for the
octet that ends it.

An entry of a list is the length of its name, its name and its value. The load of a
list ends at the end marker, at the end of the file, or at a name of length 0
(`rh4n_vars_load.c:44`; `ListEnd`), and in the last case leaves the offset in the
middle of the entry: the type of its value is taken for the flag of the next list or
for the length of the next text, and so on (`LoadAstray`). What the fields behind it
get then is left open: anything, the right output file included, with either return
value, or the end of the process. `LoadsABeginning` and `LoadTellsTruth` are about
the fields before that (`InStep`), and the list itself up to that entry (`Taken`).

Two things are coarser than the file. A length, a flag or a number is one octet, so
a file that ends inside one is not looked at (the code would go on with the octets
that it had before). And of an entry that the end of the file cuts the model keeps
the octets that were read, where the code has an entry whose missing parts are 0 or
what the memory held.

`NatCall` goes on from there, one action per call of `callNatural`. Each may fail,
and the program may have written an answer before it does. `logNaturalErrorToSocket`
is not modelled: the mode that leads to it is never set.

### 3.12 The session message: `Session`

As `Messaging`, but with ten fixed fields, and the value of a field is sent
without an acknowledge. `SendTable` and `RecvTable` are the tables of the two
sides. A value may come in pieces of `Chunk` octets, and the receiver reads once.
`WaitHeader` gives up after a timeout; `WaitData` does not, since
`rh4n_messaging_waitForData` returns 1 then and the callers test for `< 0`: the
read that follows waits for the peer as long as it takes. A number (`loglevel`,
`mode`), like a length, is one octet of the model, since four octets are passed on
at once. A value that comes in pieces makes the receiver fail, and the sender is
killed at its next write; that the last field is a number is why a sender that
returned OK never has such a receiver (`SentIsReceived`).

### 3.13 The user exits: `FormatStr`, `DebugInit`, `UserExits`

`FormatStr` is `rh4nnatParseFormatStr`, which takes a string apart by overwriting
its separators: `From` is the string that begins at an octet *now*. `DebugInit`
has the handlers of RHDBGINI. `UserExits` is the control of all seven exits: the
row of calls of each (`Calls`), what a call takes, and what each return gives back
(`Releases`, `ReleasesAtEnd`). `held` counts over all calls of a program, as
`dlopen` does. A call may also fail half way (`FailsHalfWay`): it has then taken
something already, and no return gives that back. So a line that the parser refuses
leaves the entries before it, which `rh4nldaStartParser` hands out all the same
(`rh4n_ldaparser.c:38`) and the exits do not free (`rh4n_nat_genjson.c:66`). The
variables of RHGENJS and the table of positions are not freed by anyone.
`KeepsOnlyAfter` says for all of these, at every moment between two calls, that what
is held is exactly what the returns before have left.

## 4. What the runs check

| run | question | bounds, and why they are enough |
|---|---|---|
| `store` | does a list survive the file? | all lists of up to 5 entries, every shape (three levels ending at once needs 4), at most one unnamed entry, an older dump longer than any of them or none, a file that takes 3 or all records |
| `messages` | does a list survive the socket, do both sides end, and is it a transfer? | in time: lists of up to 3 entries with one more list before or after, entries without a name or value, a sender that carries on; slow: lists of up to 2 entries, every wait may time out; both octet orders |
| `slow_eot` | *violation*: not every received EOT is "NOT an error" | the slow transfers of `messages`; see the finding |
| `varlinks` | do the links implement the levels, and do the levels stay a tree? | 3 names, 4 entries, paths of up to 2 groups; a wrong `prev` shows only with three entries on one level |
| `values` | does what is set stay, is it what is read, and can the array be freed? | one variable, a scalar of any type or an array of up to three dimensions with lengths 0 to 2; up to two values per type; any sequence of calls |
| `natparms` | what arrives in the parameters and comes back? | one or two parameters of every format, alone and together with one that may fail; arrays of up to 3 x 3 and 1 x 2 x 2 with distinct elements; values at both ends of each integer width; variables with a row that is shorter than the first, with four kinds of memory behind it; lengths of 0 in every place; every NNI call may fail or warn |
| `lda` | are the links those of the levels? | two parses with 5 lines together, three levels: the walk back can close two levels, and one parse can fail before the next |
| `var2name` | does a parameter get its own name, and its own value? | all areas of up to 6 lines on four levels that Natural and the parser accept; at most one line with INIT; requests with any one variable missing, nested or flat |
| `json` | which lists come out as JSON, whole? | all lists of 5 entries with arrays of one dimension, of 4 with up to three, of 3 with lengths of 0 as well, and of 2 with values of every type and content; four levels of groups (the bound behind which a length is written out of bounds is the third) |
| `natcall` | is the request that was dumped the one that is run, and is an error told? | texts of 0 to 2 octets; lists of up to three entries, with one or two that have no name, at the front, in the middle or at the end of the first list, the second or both; an older file that is shorter or longer; room that ends between two fields, inside one, inside an entry, or nowhere; every call may fail |
| `session` | do the fields arrive? | unset, empty, short and long values, among them the last text; a socket that passes on 2 octets at a time |
| `userexits` | is everything given back, once, and what is not? | two calls in a row, each of which may end at every call, also half way; all strings of up to 7 signs over `@`, `.`, other, against names of 1 and 2 |

`varlinks` uses symmetry over names, which is sound because names are only
compared for equality; it checks no liveness.

Fairness. `VarStore!FairSpec` has `WF(Next)`: dumper and loader are sequential
programs that do not stop halfway. `Messaging` and `Session` have weak fairness of
the sender and of the receiver: each is one thread, and every wait ends at the
latest with `RESPONSETIMEOUT` (5 s). For `Session` this includes that a sender
which is alive goes on: one that stops with its socket open holds the receiver for
ever. No fairness is assumed of the delivery besides that the kernel keeps what
was written.

Deadlock is not checked where the program ends (the last list has been handled;
`MaxEntries` have been created; the process has exited).

Every property has a mutant of a mapped definition that violates it; they are
named in `PROJECT.json`.

### Disagreements between the code and its texts

The violation run shows one: a timeout inside an entry ends the list as if it were
complete. The models have these as well; each is kept out of a property by a
premise that is named there, or is what a property states exactly:

* On a little endian machine the EOT in front of a name is not recognised
  (`rh4n_messaging_recvvars.c:70` shifts the octet down 24 bits), so the list that
  `libs/rh4n_messaging/tests/server.c:27` sends, whose last entry is in a group,
  fails at its end (`EndsAtTop` in `Transferred`).
* A group whose line contains INIT or CONST anywhere, as in its name, is ignored
  while its members are kept; the walk back can then leave the list
  (`CrashesOnlyWithoutHead`). A variable of such a name shifts the positions of
  all that follow it, and RHGETBO puts values into wrong parameters (`LosesLine`
  in `GetsItsValue`).
* RHGETBO finds a variable only at the top of the request or one group deep,
  though the repository's README says that it matches a JSON structure to a Natural one
  (`Len(path) < 2` in `GetsItsValue`).
* The generator writes no JSON for a level whose arrays all have a second
  dimension of one length (`IsGrid`) and for groups inside the third dimension
  (`IsShallow`), loses elements where arrays of one level differ in length
  (`OccurTogether`), and writes a group of arrays inside an array of objects as an
  array of one object, where `libs/rh4n_jsongenerator/tests/main.c:126` expects an
  object (`HasEvenRows`; the second form in `RegularIsWhole`).
* The JSON generator has no text for Unicode values and does not escape backslashes
  and control characters, so what it writes for them is another value or no JSON
  (`rh4n_vars_print.c:105`, `:116`; `IsPrintable`).
* A name of length 0 in a list ends the load of the list in the middle of an entry,
  and all fields of the properties file behind it are read from the wrong place
  (`rh4n_vars_load.c:44`; `InStep`).
* An index that is equal to a length passes `rh4nvarGetArrayEntry`
  (`rh4n_vars_array.c:119`), so RHGETBO puts memory behind the end of a shorter row
  (`IsJagged` in `HoldsElements`).
* A line that the LDA parser refuses leaves the entries before it, which no user exit
  frees (`rh4n_ldaparser.c:38`; `KeepsOnlyAfter`).
* natcaller does not look at what loading the properties returned
  (`rh4n_natcaller_main.c:53`): it runs the program with the part of the request
  that was read (`LoadsABeginning` says which parts that can be).
* The texts of the properties are loaded without room for the octet that ends
  them (`rh4n_utils_prop.c:92`).
* A failed logon is logged with a format of two arguments and one given
  (`rh4n_natcaller_natural.c:50`), which ends the process before the error is
  written (`exit # "killed"` in `ErrorIsTold`).
* The wait for a field of the session message ignores a timeout though it logs one
  (`rh4n_messaging_sessionInformations.c:90`).
* RHGETUS returns BUFFER_OVERFLOW for every parameter of fixed length, as a pair
  of braces is missing (`rh4n_nat_getuser.c:38`); the README (376) allows both.
* RHDBGINI ignores what its handlers return, and one of them frees the source path
  without resetting the pointer (`rh4n_nat_debug_init.c:110`, `:160`, `:169`); a
  log text without `@` leaves no log path, and creating the rule from it ends the
  process, while the README (383) documents a log level alone; and blanks at the end of a fixed
  parameter are never stripped (`:104` starts at the octet that ends the text).
* A variable of length -1 (`NULL`, never set) cannot be sent, since the receiver's
  `malloc` gets the length; it answers with a NACK. An unnamed variable stalls both
  sides until a timeout. The end of a list can coalesce with the header of the next
  one when the list ends below the top level.

## 5. What is proved

`VarStoreProofs` proves for lists of every size, every old content of the file
and every quota:

* `TypeCorrect`: `Spec => []TypeOK`;
* `OldContentsIgnored`: `Spec => []ReadsOnlyNewRecords`;
* `RoundTripCorrect`: `Spec => []RoundTrip`.

Assumptions: `NamesAssumption` (there is a name of length 0), `ForestsAssumption`
(what is dumped is a list), `OldFilesAssumption` (the old contents are records),
`QuotasAssumption` (naturals).

`RoundTrip` is not inductive: it speaks of the end only. The inductive invariant is
`IInv`. Its part `BaseInv` holds for every list: `FileInv` (up to the offset the
file holds the records of this dump, so the end marker is met before any old
record), `ReadInv` (the entries read are a prefix of the list), `PhaseInv` (how
`newNode`, `lastNode`, `put` belong together) and `LinkTypes`. As long as the levels
that end before the last placed entry end as the loader takes it (`EndWellTo`), it
adds: `LinksFaithful` (the links between the placed entries are those of the list),
`PrevFaithful` (`prev` leads to an entry whose `next` or `nextlvl` it inverts), and
`WayBack` (while the loader climbs, the group it looks for is the parent of the last
entry, and none that it passed was it). The first level that ends in another way
gives a group a successor that is not its own, which it keeps (`Misled`): a link is
set only where there is none. The lemmas before it say what `IsNext` follows from
when only depths are known; then there is one lemma per action.

`SessionProofs` proves for every session, every size of the pieces, and all
timeouts and failures:

* `Invariance`: `Spec => []IInv`, and from it `TypeCorrect`: `Spec => []TypeOK`;
* `FieldsArriveCorrect`: `Spec => []FieldsArrive`;
* `SentIsReceivedCorrect`: `Spec => []SentIsReceived`.

Assumptions: `SessionsAssumption` (a field is a sequence of octets, or unset if it
is a text; a number is one octet) and `ChunkAssumption` (a write passes on at least
one octet). Neither property is inductive, since nothing on the socket names its
field: that an octet lands in the right one depends on what is under way. `IInv`
therefore says, for each pair of control points, what the two streams hold:
`HeaderInv`, `LengthInv` and `ValueInv` while the receiver waits for a header, a
length, a value (the sender is at the same field or one ahead, never further, as
the next length is not acknowledged); `DoneInv` and `BrokenInv` once the receiver
has returned (after a failure no acknowledge can come any more). `FieldsInv` is the
content of the fields, `SmoothInv` that nothing fails without a cause. There is one
lemma per action.

`NatCallProofs` proves for every request, every old content of the properties file,
every quota and every outcome of the calls:

* `LoadsABeginningCorrect`: `Spec => []LoadsABeginning`;
* `LoadTellsTruthCorrect`: `Spec => []LoadTellsTruth`;
* `SessionIsClosedCorrect`: `Spec => []SessionIsClosed`;
* `ErrorIsToldCorrect`: `Spec => []ErrorIsTold`.

Assumptions: `RequestsAssumption` (the fields of a request are sequences, those of a
fixed size have it, and what ends a list is in none), `SizesAssumption` (a fixed field
has at least one octet), `QuotasAssumption` (naturals), `OutputsAssumption` (no answer
is the text of the error). The first two properties speak of the loader alone, but
which octets it meets depends on where the dumper stopped writing. `FileInv` says that
file and dump agree wherever both have an octet (`Agrees`), and that the loader stands
at the beginning of the field it reads next, or that nothing is left for it
(`LoadingOn`); once it has gone astray it has every field before the list where that
happened, and what the list has before the entry without a name (`Lost`). That a list
is left exactly there, or at its end marker, or at the end of the file, is the lemma
`ListEnds` with `TakenIs`. `CallInv` says that nothing has failed as long as the program may still
write its answer (`Progress`), so the error is written over nothing and nothing is
written over it (`Told`), and that an open session is on its way to the closing
(`SessionKept`).

`UserExitsProofs` proves for any number of calls, all strings and every failure:

* `KeepsOnlyAfterCorrect`: `Spec => []KeepsOnlyAfter`;
* `GivesBackItsOwnCorrect`: `Spec => GivesBackItsOwn`;
* `ReadAsDocumentedCorrect`: `Spec => []ReadAsDocumented`.

The only assumption is `LengthsAssumption` (the lengths of the names are naturals); the
calls and the strings have no bound. The invariant of the first two is the account:
what is held is what the ends of the earlier calls have kept and what the current one
has taken so far (`Accounts`), with what its properties point to (`PropsInv`). The third
rests on three lemmas about strings of any length: what the loop over the signs has seen
behind the last one, which is where the only `@` and the only `.` are or that there are
too many (`ScannedSees`); what the function makes of that (`ParseIs`); and the ways in
which the documented form reads the string (`ReadingsAre`). The last two have one
condition, `FitsIn`, so that what is accepted is what is documented. `TextInv` adds that
nothing has been taken apart before the string is read.

`LdaProofs` proves for files of any number of lines and any number of parses:

* `LinkedByLevelCorrect`: `Spec => []LinkedByLevel`;
* `UnderItsHeadCorrect`: `Spec => []UnderItsHead`;
* `CrashesOnlyWithoutHeadCorrect`: `Spec => []CrashesOnlyWithoutHead`;
* `FreedOnceCorrect`: `Spec => []FreedOnce`.

Assumptions: `LinesAssumption` (a line has a kind, a level above 0 and a word),
`MaxLinesAssumption`, `MaxParsesAssumption` (any bounds). The links say nothing while
the parser walks back for the place of an entry, so `Whole` (everything is linked as
the levels say) holds between two lines, and `Waits` while the walk runs: the others
are linked, the new entry is not, and the lines passed are deeper than it or leave
it no place. `Frees` says of the free that the lines in front of the one the first
call is at are freed, but for the heads of the groups that a call has gone
down to.

`VarLinksProofs` proves for any names, any number of entries and paths of any length:

* `LinksCorrect`: `Spec => []Inv`, the levels are a tree and the links are theirs;
* `ImplementsVarListCorrect`: `Spec => ImplementsVarList`, the refinement, step by step;
* `IsTreeCorrect`: `Spec => []IsTree`, `CreatedIsFoundCorrect`:
  `Spec => []CreatedIsFound`, `NewNameIsNewCorrect`: `Spec => NewNameIsNew`.

Assumptions: `MaxEntriesAssumption` (any bound), `PathsAssumption`, `NewTypesAssumption`
(paths of names, types of variables). The argument has two halves. The first is about levels
alone, without a state: following the chains of a tree gives its levels
(`ChainsAreLevels`), what a search finds (`SearchFacts`) and a walk meets (`WalkKept`),
and that adding and moving an entry leaves a tree (`AddedIsTree`, `MovedIsTree`) whose
links are those that the code sets (`AddedIsLinked`, `MovedIsLinked`). The second
shows each operation on links to be the operation on levels (`SearchIs`, `RefInIs`,
`WalkDownIs`, `CreateInIs`, `MoveToIs`); a step of `VarLinks` is then a step of `VarList`
(`NextIs`).

`ValueProofs` proves for every sequence of calls, all values and all lengths:

* `SetIsKeptCorrect`: `Spec => []SetIsKept`;
* `OnlyFailureIsRaggedCorrect`: `Spec => OnlyFailureIsRagged`;
* `FreedWholeCorrect`: `Spec => []FreedWhole`.

Assumptions: `TypesAssumption`, `ValuesAssumption` (a value is not the null pointer, and
a text is a sequence), `LengthsAssumption`, `IndicesAssumption`, `BuffersAssumption`
(integers, sequences of integers, naturals). The properties hold of what an expand
leaves, also of one that fails in the middle; so the invariant has to know how far such
a one can have come. `Whole` says of the blocks of a level that none is longer than
the first one: then the first block is too long whenever some block is
(`FirstIsTooLong`), what fails has passed nothing but first blocks (`Fails`), and no
element has become a row. An array is rectangular exactly if it can be freed whole, so
`FreedWhole` takes in addition that an expand that fails either changes nothing or
leaves rows of different lengths, that one that succeeds leaves none, and that no other
call adds or removes an element.

`NatParmsProofs` proves for any row of parameters and variables, arrays of any
lengths, texts of any length and every failure of an NNI function:

* `HoldsElementsCorrect`: `Spec => []HoldsElements`;
* `PutIsCompleteCorrect`: `Spec => []PutIsComplete`;
* `FitsIsPutCorrect`: `Spec => []FitsIsPut`;
* `ComesBackCorrect`: `Spec => []ComesBack`.

Assumptions: `JobsAssumption`, `CharactersAssumption` (the blank, the single quote and
the digits are signs), `StraysAssumption` (what lies behind a row is taken for an
element), `NothingAssumption` (the null pointer is not a content),
`NNIRetsAssumption`. None of the properties is inductive. `ComesBack` speaks of the end,
`FitsIsPut` of the end of the puts, and in the middle of a loop some elements of an
array are there and some are not. `IInv` therefore says, with `IsThere` for an element
that the put has made of the one of the same index: every cell has its first content or
is there (`Holds`), and all are after a put that says OK (`AllThere`); while a loop runs,
every index is still to come or is there (`LoopInv`); the parameters before the one at
its turn have been put if they fit, and those behind it have the occurrences they had at
first, as a resize comes before the comparison of lengths (`PutInv`). Of the readout it
says that an array of variables is whole but for the elements still to come
(`ReadSoFar`, `ReadInv`). TLC has checked `IInv` on the instance of `natparms`. The
lemmas below it are of three kinds. `PathsAre` shows that the division reaches every
index of the loops, and none besides. `ArrivedIsIn` shows, format by format, that a content made of a
value means that value and is read out as it; for a number this is that its digits are
those of its text (`DigitsComeBack`). `ShapeIs` and `ReadIsWhole` show what the shape
that the code asks a variable for (`GetArrayDimension`, `GetArrayLength`) says of its
elements. Then there is one lemma per action.

The proof modules of four components begin with the same few lemmas about naturals and
sequences: least and greatest numbers of a set (`LeastNat`, `GreatestNat`, with which a
statement about all naturals is shown without an induction theorem), steps that are
repeated (`StepsExist`, `StepsAgree`), and where the parts of a concatenation stand.

Only model-checked:

* liveness (`LoadEnds`, and `Ends` of `Messaging` and `Session`), as it is
  outside of what the provers do under fairness;
* properties over recursive operators: `MCVarStore!NothingIsLost`,
  `MCVarLinks!FreedOnce`, and `RegularIsWhole` and `OthersAreNot` of `JsonGen`;
* the safety of `Messaging` (`OnlySentEntries`, `SentMeansRead`, `Transferred`, and
  the refinement `TransferSpec`), and the properties of `Var2Name`, which have no
  proof.

## 6. What is not modelled

`PROJECT.json` lists every component with its state. Not modelled because
there is nothing to check: logging, printing to the log, the socket set-up (one call after
the other, each checked), the string helpers, the reading of argv. Not modelled
because no program of the repository uses it: text blocks, the name stack, the
socket mode of natcaller (commented out), RHSLEEP. The jump table finds an exit by
its name in a constant table. Natural itself and the connector in the web server
are not in this repository; the NNI functions are external (any call may fail or
warn). Memory allocation is taken to succeed, but in the receiver of the session
message and where RHDBGINI makes its properties. A record or an entry that is cut
in the middle by a full file system is not looked at in `VarStore`; in `PropsFile`
it is the octets of it that there are (section 3.11).
