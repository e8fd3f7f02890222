------------------------------ MODULE Messaging ------------------------------
(***************************************************************************)
(* Sending two variable lists, the URL variables and the body variables,   *)
(* over a Unix domain socket: rh4n_messaging_sendVarlist called twice on   *)
(* one side and rh4n_natcaller_init_plain on the other.                    *)
(*                                                                         *)
(* The socket is two streams of octets; nothing marks where a message      *)
(* ends.  A receive waits for data with select, with a timeout, and then   *)
(* does ONE read, which returns what is there.                             *)
(***************************************************************************)
EXTENDS VarTreeBuild, SequencesExt

CONSTANTS
  Transfers,      \* what may happen: two lists, and whether slow and carriesOn
  Machines        \* the octet orders: TRUE for a big endian machine

Octet == 0..255
SOH == 1          \* ASCII_STARTOFHEADER
EOT == 6
ACK == 6
NACK == 21
RS == 30
VARLIST == 2      \* RH4NLIBMESSAGING_TYPEVARLIST

TypeCode == [STRING |-> 1, USTRING |-> 2, INTEGER |-> 3, FLOAT |-> 4,
             BOOLEAN |-> 5, GROUP |-> 6, ARRAY |-> 7, NULL |-> 8]

(* The type a code stands for; the receiver takes any other code, too. *)
TypeOf(o) == IF \E t \in VarTypes : TypeCode[t] = o
               THEN CHOOSE t \in VarTypes : TypeCode[t] = o
               ELSE "NULL"

(***************************************************************************)
(* A variable is a sequence of cells: itself and, for an array, the cells  *)
(* of its elements in order.  The length of a variable that has not been   *)
(* given a value is -1.                                                    *)
(***************************************************************************)
IsCell(c) == /\ DOMAIN c = {"type", "length", "data"}
             /\ c.type \in VarTypes
             /\ c.length \in -1..255
             /\ c.data \in Seq(Octet)
             /\ c.type \notin {"GROUP", "ARRAY"} /\ c.length >= 0 => Len(c.data) = c.length

(***************************************************************************)
(* Names and values are shorter than a header.  A longer one could begin   *)
(* with the eight octets of a header and be taken for one by a receiver    *)
(* that has given up the list.                                             *)
(***************************************************************************)
HeaderSize == 8

IsMessageList(f) ==
  /\ IsForest(f)
  /\ \A i \in 1..f.size :
       /\ f.name[i] \in Seq(Octet) /\ Len(f.name[i]) < HeaderSize
       /\ f.cells[i] # <<>> /\ f.cells[i][1].type = f.type[i]
       /\ \A k \in 1..Len(f.cells[i]) :
            IsCell(f.cells[i][k]) /\ Len(f.cells[i][k].data) < HeaderSize

ASSUME TransfersAssumption ==
  \A t \in Transfers : /\ Len(t.lists) = 2 /\ \A k \in 1..2 : IsMessageList(t.lists[k])
                       /\ t.slow \in BOOLEAN /\ t.carriesOn \in BOOLEAN
ASSUME MachinesAssumption == Machines \subseteq BOOLEAN

VARIABLES
  bigEndian,  \* the octet order of the machine
  lists,      \* the lists to send
  slow,       \* whether a timeout can end a wait for a living peer
  carriesOn,  \* whether the sender goes on after a list that failed
  sending,    \* the list that is being sent
  todo,       \* the rest of the messages of that list
  spc,        \* the sender: "write", "ack", "closed" or "killed"
  sent,       \* what sendVarlist returned for every list
  toRecv,     \* the octets on their way to the receiver
  toSend,     \* the octets on their way to the sender
  rpc,        \* the receiver: what it waits for, or "done" or "closed"
  want,       \* the octets of the name or value it waits for
  open,       \* for every array being read the elements still to come
  nodes,      \* the entries read, with the cells of each
  results     \* what recvVarlist returned and left for every list

setting == <<bigEndian, lists, slow, carriesOn>>
senderVars == <<setting, sending, todo, spc, sent>>
streams == <<toRecv, toSend>>
receiverVars == <<rpc, want, open, nodes, results>>
vars == <<anker, next, nextlvl, prev, type, name, newNode, lastNode,
          flags, prevFlags, put, hptr, setting, sending, todo, spc, sent,
          toRecv, toSend, rpc, want, open, nodes, results>>

-----------------------------------------------------------------------------
(* An int as the machine holds it. *)
Word(n) == IF n < 0 THEN <<255, 255, 255, 255>>
           ELSE IF bigEndian THEN <<0, 0, 0, n>> ELSE <<n, 0, 0, 0>>

Huge == 2147483647

(* The int that four octets are; one whose sign bit is set is negative. *)
IntOf(w) ==
  LET b == IF bigEndian THEN w ELSE Reverse(w)
  IN IF b[1] >= 128 THEN -1
     ELSE b[1] * 16777216 + b[2] * 65536 + b[3] * 256 + b[4]

(* What the sender writes.  A chunk is acknowledged, a mark is not.         *)
Chunk(d) == [data |-> d, acked |-> TRUE]
Mark(d)  == [data |-> d, acked |-> FALSE]

Header(f) == Mark(<<SOH, VARLIST, 0, 0>> \o Word(IF f.size = 0 THEN 0 ELSE 1))

CellMessages(c) ==
  <<Chunk(<<TypeCode[c.type]>>)>>
    \o (IF c.type = "GROUP" THEN <<>> ELSE <<Chunk(Word(c.length))>>)
    \o (IF c.type \notin {"GROUP", "ARRAY"} /\ c.length > 0 THEN <<Chunk(c.data)>> ELSE <<>>)

FlagOctet(f, i) == (IF HasNext(f, i) THEN 1 ELSE 0) + (IF HasChild(f, i) THEN 2 ELSE 0)

NodeMessages(f, i) ==
  <<Chunk(Word(Len(f.name[i]))), Chunk(f.name[i])>>
    \o FlattenSeq([k \in 1..Len(f.cells[i]) |-> CellMessages(f.cells[i][k])])
    \o <<Chunk(<<FlagOctet(f, i)>>)>>

(* Mutant: the level of the entry is not looked at. *)
SeparatorAtTop(f, i) == IF FlagOctet(f, i) # 0 THEN <<Mark(<<RS>>)>> ELSE <<>>

Separator(f, i) ==
  IF FlagOctet(f, i) # 0 \/ f.depth[i] > 1 THEN <<Mark(<<RS>>)>> ELSE <<>>

Messages(f) ==
  <<Header(f)>> \o
  IF f.size = 0 THEN <<>>
  ELSE FlattenSeq([i \in 1..f.size |-> NodeMessages(f, i) \o Separator(f, i)])
         \o <<Mark(<<EOT>>)>>

-----------------------------------------------------------------------------
SenderOpen == spc \in {"write", "ack"}
ReceiverOpen == rpc # "closed"

(* Mutant: the second list is sent whatever became of the first. *)
SendReturnsUnchecked(r) ==
  /\ sent' = Append(sent, r)
  /\ IF sending = 1
       THEN sending' = 2 /\ todo' = Messages(lists[2]) /\ spc' = "write"
       ELSE spc' = "closed" /\ UNCHANGED <<sending, todo>>
  /\ UNCHANGED setting

(* sendVarlist has returned r. *)
SendReturns(r) ==
  /\ sent' = Append(sent, r)
  /\ IF sending = 1 /\ (r = "ok" \/ carriesOn)
       THEN sending' = 2 /\ todo' = Messages(lists[2]) /\ spc' = "write"
       ELSE spc' = "closed" /\ UNCHANGED <<sending, todo>>
  /\ UNCHANGED setting

SendWrite ==
  /\ spc = "write" /\ todo # <<>>
  /\ ReceiverOpen
  /\ toRecv' = toRecv \o Head(todo).data
  /\ IF Head(todo).acked THEN spc' = "ack" /\ UNCHANGED todo
                         ELSE todo' = Tail(todo) /\ UNCHANGED spc
  /\ UNCHANGED <<setting, sending, sent, toSend, receiverVars, buildVars>>

(* Writing to a socket that the peer has closed raises SIGPIPE. *)
SendKilled ==
  /\ spc = "write" /\ todo # <<>>
  /\ ~ReceiverOpen
  /\ spc' = "killed"
  /\ UNCHANGED <<setting, sending, todo, sent, streams, receiverVars, buildVars>>

SendDone ==
  /\ spc = "write" /\ todo = <<>>
  /\ SendReturns("ok")
  /\ UNCHANGED <<streams, receiverVars, buildVars>>

SendAcked ==
  /\ spc = "ack" /\ toSend # <<>>
  /\ toSend' = Tail(toSend)
  /\ IF Head(toSend) = ACK
       THEN spc' = "write" /\ todo' = Tail(todo) /\ UNCHANGED <<setting, sending, sent>>
       ELSE SendReturns("error")
  /\ UNCHANGED <<toRecv, receiverVars, buildVars>>

(* The receiver can do nothing but wait. *)
ReceiverIdle == (toRecv = <<>> /\ put = "idle") \/ rpc \in {"done", "closed"}

(* Mutant: a timeout is taken for an acknowledge. *)
SendNotGivingUp ==
  /\ spc = "ack" /\ toSend = <<>>
  /\ slow \/ ReceiverIdle
  /\ spc' = "write" /\ todo' = Tail(todo)
  /\ UNCHANGED <<setting, sending, sent, streams, receiverVars, buildVars>>

(* Mutant: the wait for the acknowledge has no timeout. *)
SendGivesUpOnClose ==
  /\ spc = "ack" /\ toSend = <<>>
  /\ ~ReceiverOpen
  /\ SendReturns("error")
  /\ UNCHANGED <<streams, receiverVars, buildVars>>

(* The socket is closed, or RESPONSETIMEOUT seconds have passed. *)
SendGivesUp ==
  /\ spc = "ack" /\ toSend = <<>>
  /\ slow \/ ReceiverIdle
  /\ SendReturns("error")
  /\ UNCHANGED <<streams, receiverVars, buildVars>>

Sender == SendWrite \/ SendKilled \/ SendDone \/ SendAcked \/ SendGivesUp

-----------------------------------------------------------------------------
(* The outcomes of recvDataChunk: select with a timeout, and one read.      *)

(* 0: all n octets were there. *)
Got(n) == n > 0 /\ Len(toRecv) >= n
Read(n) == toRecv' = SubSeq(toRecv, n + 1, Len(toRecv))
Data(n) == SubSeq(toRecv, 1, n)

(* -1: some were there, and they are lost. *)
Short(n) == toRecv # <<>> /\ Len(toRecv) < n

(* 1: the timeout, the end of the stream, or a read of 0 octets. *)
SenderIdle == spc = "closed" \/ spc = "killed" \/ (spc = "ack" /\ toSend = <<>>)
Nothing(n) == IF toRecv = <<>> THEN (slow \/ SenderIdle) ELSE n = 0

(* Answering with ack a sender that may have closed the socket. *)
Answer(a) == toSend' = IF SenderOpen THEN Append(toSend, a) ELSE toSend

Result(r) == [result |-> r, size |-> newNode, name |-> name, type |-> type,
              values |-> [i \in 1..newNode |-> nodes[i].values],
              anker |-> anker, next |-> next, nextlvl |-> nextlvl]

(* Mutant: init_plain does not look at what the first recvVarlist returned. *)
RecvReturnsUnchecked(r) ==
  /\ results' = Append(results, Result(r))
  /\ want' = 0 /\ open' = <<>>
  /\ IF results = <<>>
       THEN rpc' = "header" /\ nodes' = <<>> /\ BuildAgain(lists[2].size)
       ELSE rpc' = "done" /\ UNCHANGED <<nodes, buildVars>>

(* recvVarlist has returned: init_plain goes on only after 0. *)
RecvReturns(r) ==
  /\ results' = Append(results, Result(r))
  /\ want' = 0 /\ open' = <<>>
  /\ IF results = <<>> /\ r \in {"ok", "EOT"}
       THEN rpc' = "header" /\ nodes' = <<>> /\ BuildAgain(lists[2].size)
       ELSE rpc' = "done" /\ UNCHANGED <<nodes, buildVars>>

(* A -1 or 1 that recvVarlist hands on. *)
RecvFails == RecvReturns("error")

(* recvVarlistNode has returned 1, "Received EOT". *)
RecvStops == RecvReturns("EOT")

ReadHeader ==
  /\ rpc = "header"
  /\ \/ /\ Got(HeaderSize)
        /\ Read(HeaderSize)
        /\ LET h == Data(HeaderSize)
           IN IF h[1] # SOH \/ h[2] # VARLIST THEN RecvFails
              ELSE IF IntOf(SubSeq(h, 5, 8)) = 0 THEN RecvReturns("ok")
              ELSE rpc' = "nameLength"
                   /\ UNCHANGED <<want, open, nodes, results, buildVars>>
     \/ Short(HeaderSize) /\ toRecv' = <<>> /\ RecvFails
     \/ Nothing(HeaderSize) /\ UNCHANGED toRecv /\ RecvFails
  /\ UNCHANGED <<toSend, senderVars>>

(***************************************************************************)
(* The name length is where EOT arrives when a list ends below the top     *)
(* level.  A read that got only the EOT octet leaves it in the first octet *)
(* of the int, which is the octet that >> 24 keeps on a big endian machine *)
(* only.  A wait that got nothing is not noticed: the name length is 0.    *)
(***************************************************************************)
EndOfTransmission == bigEndian /\ toRecv[1] = EOT

GoOnToName(n) ==
  /\ Answer(ACK)
  /\ rpc' = "name" /\ want' = n
  /\ UNCHANGED <<open, nodes, results, buildVars>>

(* A name of this length may be too long for malloc. *)
MayBeTooLong(n) == n < 0 \/ n > 65535

ReadNameLength ==
  /\ rpc = "nameLength"
  /\ \/ /\ Got(4)
        /\ Read(4)
        /\ LET n == IF IntOf(Data(4)) < 0 THEN Huge ELSE IntOf(Data(4))
           IN \/ GoOnToName(n)
              \/ MayBeTooLong(n) /\ Answer(NACK) /\ RecvFails
     \/ /\ Short(4)
        /\ toRecv' = <<>>
        /\ IF EndOfTransmission THEN RecvStops ELSE RecvFails
        /\ UNCHANGED toSend
     \/ /\ Nothing(4)
        /\ UNCHANGED toRecv
        /\ GoOnToName(0)
  /\ UNCHANGED senderVars

(* What recvVarlistNode and below it do with a chunk that did not come. *)
NoChunk(n) ==
  /\ \/ Short(n) /\ toRecv' = <<>> /\ RecvFails
     \/ Nothing(n) /\ UNCHANGED toRecv /\ RecvStops
  /\ UNCHANGED toSend

Node == newNode + 1   \* the entry that is being read

ReadName ==
  /\ rpc = "name"
  /\ \/ /\ Got(want)
        /\ Read(want)
        /\ Answer(ACK)
        /\ rpc' = "type"
        /\ nodes' = Append(nodes, [name |-> Data(want), values |-> <<>>])
        /\ UNCHANGED <<want, open, results, buildVars>>
     \/ NoChunk(want)
  /\ UNCHANGED senderVars

(* A value is complete.  The next one is an element of the innermost array *)
(* that still has one to come; after the last one come the flags.          *)
ValueRead(arrays) ==
  LET unfinished == {k \in 1..Len(arrays) : arrays[k] > 0}
  IN IF unfinished = {}
       THEN open' = <<>> /\ rpc' = "flags"
       ELSE /\ open' = [SubSeq(arrays, 1, Max(unfinished)) EXCEPT ![Max(unfinished)] = @ - 1]
            /\ rpc' = "type"

Values == nodes[Node].values
ThisCell == Last(Values)

ReadType ==
  /\ rpc = "type"
  /\ \/ /\ Got(1)
        /\ Read(1)
        /\ Answer(ACK)
        /\ LET t == TypeOf(toRecv[1])
           IN /\ nodes' = [nodes EXCEPT ![Node].values =
                             Append(@, [type |-> t, length |-> 0, data |-> <<>>])]
              /\ IF t = "GROUP" THEN ValueRead(open)
                                ELSE rpc' = "length" /\ UNCHANGED open
        /\ UNCHANGED <<want, results, buildVars>>
     \/ NoChunk(1)
  /\ UNCHANGED senderVars

SetLength(n) == nodes' = [nodes EXCEPT ![Node].values[Len(Values)].length = n]

(* No value has length 0; an array of no elements is such a value, too. *)
NoValueFollows ==
  /\ Answer(ACK)
  /\ SetLength(0)
  /\ ValueRead(open)
  /\ UNCHANGED <<want, results, buildVars>>

ElementsFollow(n) ==
  /\ Answer(ACK)
  /\ SetLength(n)
  /\ ValueRead(Append(open, n))
  /\ UNCHANGED <<want, results, buildVars>>

ValueFollows(n) ==
  /\ Answer(ACK)
  /\ SetLength(n)
  /\ rpc' = "value" /\ want' = n
  /\ UNCHANGED <<open, results, buildVars>>

ReadLength ==
  /\ rpc = "length"
  /\ \/ /\ Got(4)
        /\ Read(4)
        /\ LET n == IntOf(Data(4))
           IN \/ n = 0 /\ NoValueFollows
              \/ n > 0 /\ ThisCell.type = "ARRAY" /\ ElementsFollow(n)
              \/ n > 0 /\ ThisCell.type # "ARRAY" /\ ValueFollows(n)
              \/ MayBeTooLong(n) /\ Answer(NACK) /\ RecvFails
     \/ NoChunk(4)
  /\ UNCHANGED senderVars

ReadValue ==
  /\ rpc = "value"
  /\ \/ /\ Got(want)
        /\ Read(want)
        /\ Answer(ACK)
        /\ nodes' = [nodes EXCEPT ![Node].values[Len(Values)].data = Data(want)]
        /\ ValueRead(open)
        /\ UNCHANGED <<want, results, buildVars>>
     \/ NoChunk(want)
  /\ UNCHANGED senderVars

(* recvVarlist hands on every failure of the two reads it does itself. *)
NoOctet ==
  /\ Nothing(1)
  /\ UNCHANGED <<toRecv, toSend>>
  /\ RecvFails

ReadFlags ==
  /\ rpc = "flags"
  /\ \/ /\ Got(1)
        /\ Read(1)
        /\ Answer(ACK)
        /\ NewEntry(nodes[Node].name, Values[1].type,
                    [next |-> toRecv[1] % 2 = 1, nextlvl |-> toRecv[1] \div 2 % 2 = 1])
        /\ rpc' = "separator"
        /\ UNCHANGED <<want, open, nodes, results>>
     \/ NoOctet
  /\ UNCHANGED senderVars

RecvPut ==
  /\ PutInNewNode
  /\ UNCHANGED <<senderVars, streams, receiverVars>>

(* Any octet but EOT separates two entries. *)
ReadSeparator ==
  /\ rpc = "separator" /\ put = "idle"
  /\ \/ /\ Got(1)
        /\ Read(1)
        /\ IF toRecv[1] = EOT THEN RecvReturns("ok")
           ELSE rpc' = "nameLength" /\ UNCHANGED <<want, open, nodes, results, buildVars>>
        /\ UNCHANGED toSend
     \/ NoOctet
  /\ UNCHANGED senderVars

(* The receiver may keep the socket open for what it does with the lists. *)
RecvClose ==
  /\ rpc = "done"
  /\ rpc' = "closed"
  /\ UNCHANGED <<want, open, nodes, results, streams, senderVars, buildVars>>

Receiver ==
  \/ ReadHeader \/ ReadNameLength \/ ReadName \/ ReadType \/ ReadLength
  \/ ReadValue \/ ReadFlags \/ RecvPut \/ ReadSeparator

Init ==
  /\ bigEndian \in Machines
  /\ \E t \in Transfers :
       lists = t.lists /\ slow = t.slow /\ carriesOn = t.carriesOn
  /\ sending = 1
  /\ todo = Messages(lists[1])
  /\ spc = "write"
  /\ sent = <<>>
  /\ toRecv = <<>> /\ toSend = <<>>
  /\ rpc = "header" /\ want = 0 /\ open = <<>> /\ nodes = <<>>
  /\ results = <<>>
  /\ BuildInit(lists[1].size)

Next == Sender \/ Receiver \/ RecvClose

Spec == Init /\ [][Next]_vars

(* The two processes run on, and a wait ends at the latest with its timeout. *)
FairSpec == Spec /\ WF_vars(Sender) /\ WF_vars(Receiver)

-----------------------------------------------------------------------------
AllNamed(f) == \A i \in 1..f.size : f.name[i] # EmptyName
AllSet(f) == \A i \in 1..f.size : \A k \in 1..Len(f.cells[i]) :
               f.cells[i][k].type = "GROUP" \/ f.cells[i][k].length >= 0
Transferable(f) == AllNamed(f) /\ AllSet(f)

(* The last entry of the list is at its top level: the receiver is waiting *)
(* for a separator when EOT comes.                                         *)
EndsAtTop(f) == f.size > 0 => f.depth[f.size] = 1

(* What the sender wrote of entry i of f, as the receiver keeps it. *)
ValuesOf(f, i) == [k \in 1..Len(f.cells[i]) |->
                     [type |-> f.cells[i][k].type,
                      length |-> IF f.cells[i][k].type = "GROUP" THEN 0 ELSE f.cells[i][k].length,
                      data |-> f.cells[i][k].data]]

(* The list the receiver is at, if it is at one. *)
Receiving(k) == k = Len(results) + 1 /\ rpc \notin {"done", "closed"}

(* What a sender needs that counts on the octets being in step: after a    *)
(* wait that timed out it does not send another list.                      *)
StopsWhenLate == ~(slow /\ carriesOn)

(***************************************************************************)
(* Every entry that is put into a list is the entry the sender sent in its *)
(* place, whatever waits timed out, if a sender that gave up on a list in  *)
(* that way sends no other: octets that are taken for what they are not    *)
(* never make a variable.                                                  *)
(***************************************************************************)
OnlySentEntries ==
  StopsWhenLate =>
    /\ \A k \in 1..Len(results) :
         LET r == results[k] IN
           /\ r.size <= lists[k].size
           /\ \A i \in 1..r.size : /\ r.name[i] = lists[k].name[i]
                                   /\ r.type[i] = lists[k].type[i]
                                   /\ r.values[i] = ValuesOf(lists[k], i)
    /\ \A k \in 1..2 : Receiving(k) =>
         /\ newNode <= lists[k].size
         /\ \A i \in 1..newNode : /\ name[i] = lists[k].name[i]
                                 /\ nodes[i].values = ValuesOf(lists[k], i)

(***************************************************************************)
(* When sendVarlist returns 0, the receiver has read every entry of that   *)
(* list, and every one has a name and a value: late and stray acknowledges *)
(* do not add up to a success, unless a sender goes on after a wait that   *)
(* timed out, and a variable that there is no way to send makes it fail.   *)
(* Where no peer is slow, an acknowledge is under way only for the chunk   *)
(* that was sent last, and then the receiver has read everything; but for  *)
(* lists that end below the top level, where EOT and what follows it can   *)
(* be read as one name length.                                             *)
(***************************************************************************)
SentMeansRead ==
  /\ StopsWhenLate =>
       \A k \in 1..Len(sent) : sent[k] = "ok" =>
         /\ Transferable(lists[k])
         /\ lists[k].size > 0 =>
              \/ k <= Len(results) /\ results[k].size = lists[k].size
              \/ Receiving(k) /\ newNode = lists[k].size
  /\ /\ ~slow /\ EndsAtTop(lists[1]) /\ AllNamed(lists[1]) /\ AllNamed(lists[2])
     /\ toSend # <<>>
     => spc = "ack" /\ toRecv = <<>> /\ Len(toSend) = 1

Over == ~SenderOpen /\ rpc \in {"done", "closed"}

(* The list that recvVarlist left is f. *)
Equal(r, f) ==
  /\ r.size = f.size /\ r.name = f.name /\ r.type = f.type
  /\ r.anker = (IF f.size = 0 THEN 0 ELSE 1)
  /\ \A i \in 1..f.size : r.next[i] = NextOf(f, i) /\ r.nextlvl[i] = NextlvlOf(f, i)
  /\ \A i \in 1..f.size : r.values[i] = ValuesOf(f, i)

(***************************************************************************)
(* Where no peer is slow, both sides succeed with two lists that end at    *)
(* the top level and have names and values throughout, and the receiver    *)
(* then has the lists that were sent, as far as their levels end one at a  *)
(* time.                                                                   *)
(***************************************************************************)
Transferred ==
  ~slow /\ Over /\ (\A k \in 1..2 : Transferable(lists[k]) /\ EndsAtTop(lists[k]))
    => /\ sent = <<"ok", "ok">>
       /\ Len(results) = 2
       /\ \A k \in 1..2 : /\ results[k].result = "ok"
                          /\ EndsOneLevelAtATime(lists[k]) => Equal(results[k], lists[k])

(* Both sides come to an end, whatever arrives and whatever does not. *)
Ends == <>Over

(***************************************************************************)
(* Where no peer is slow, the transfer of two lists of named entries       *)
(* implements ListTransfer.                                                *)
(***************************************************************************)
Transfer == INSTANCE ListTransfer WITH
  sizes <- <<lists[1].size, lists[2].size>>,
  finished <- Cardinality({k \in 1..Len(results) : results[k].result # "error"}),
  arrived <- IF Len(results) = 2 /\ results[2].result # "error" THEN 0 ELSE newNode,
  broken <- \E k \in 1..Len(results) : results[k].result = "error"

Promised == ~slow /\ AllNamed(lists[1]) /\ AllNamed(lists[2])

TransferSpec ==
  /\ Promised => Transfer!Init
  /\ [][Promised => Transfer!Next]_<<Transfer!vars, Promised>>

(***************************************************************************)
(* "Received EOT. This and the last one are NOT errors. Everything is      *)
(* fine": the receiver logs it and returns 0 when recvVarlistNode says 1.  *)
(***************************************************************************)
EverythingIsFine ==
  \A k \in 1..Len(results) :
    results[k].result = "EOT" => results[k].size = lists[k].size
=============================================================================
