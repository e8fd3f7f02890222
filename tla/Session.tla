------------------------------- MODULE Session ------------------------------
(***************************************************************************)
(* Sending the session informations over a Unix domain socket:             *)
(* rh4n_messaging_sendSessionInformations on one side,                     *)
(* rh4n_messaging_recvSessionInformations on the other.                    *)
(*                                                                         *)
(* Every field is a length, which is acknowledged, and a value, which is   *)
(* not.  Both sides go through the fields in the order of a table of their *)
(* own; nothing that is sent names the field.  A number, like a length, is *)
(* passed on at once: it counts as one octet.                              *)
(***************************************************************************)
EXTENDS Naturals, Sequences, SequencesExt

CONSTANTS
  Sessions,   \* the sessions that may be sent: the octets of every field, or Null
  Octets,     \* the octets
  Null,       \* the value of a text that was not set
  Chunk       \* the octets of a value that the socket passes on at a time

SendTable ==
  << <<"httpreqtype", "array">>, <<"library", "array">>, <<"program", "array">>,
     <<"parms", "text">>, <<"srcPath", "text">>, <<"logpath", "text">>,
     <<"loglevel", "number">>, <<"username", "array">>, <<"outputfile", "text">>,
     <<"mode", "number">> >>

(* Mutant: the outputfile is expected before the user name. *)
RecvTableSwapped == [SendTable EXCEPT ![8] = SendTable[9], ![9] = SendTable[8]]

RecvTable ==
  << <<"httpreqtype", "array">>, <<"library", "array">>, <<"program", "array">>,
     <<"parms", "text">>, <<"srcPath", "text">>, <<"logpath", "text">>,
     <<"loglevel", "number">>, <<"username", "array">>, <<"outputfile", "text">>,
     <<"mode", "number">> >>

Size == Len(SendTable)
Fields == {SendTable[k][1] : k \in 1..Size}
KindOf == [f \in Fields |-> SendTable[CHOOSE k \in 1..Size : SendTable[k][1] = f][2]]

ASSUME SessionsAssumption ==
  \A s \in Sessions :
    /\ DOMAIN s = Fields
    /\ \A f \in Fields : IF s[f] = Null THEN KindOf[f] = "text" ELSE s[f] \in Seq(Octets)
    /\ \A f \in Fields : KindOf[f] = "number" => Len(s[f]) = 1
ASSUME ChunkAssumption == Chunk \in Nat \ {0}

VARIABLES
  session,  \* what is sent
  slow,     \* whether a timeout can end a wait for a living peer
  full,     \* whether the receiver's malloc may fail
  spc,      \* the sender: "header", "length", "ack", "value" or "returned"
  sfield,   \* the field it sends
  rest,     \* the octets its write has not passed on yet
  sret,     \* how it ended
  rpc,      \* the receiver: what it waits for or reads, or "returned"
  rfield,   \* the field it receives
  want,     \* the length of the value it waits for
  got,      \* the fields received
  rret,     \* how it ended
  toRecv,   \* what is on its way to the receiver
  toSend,   \* what is on its way to the sender
  sopen, ropen  \* the ends of the socket

sender == <<spc, sfield, rest, sret, sopen>>
receiver == <<rpc, rfield, want, got, rret, ropen>>
setting == <<session, slow, full>>
vars == <<setting, sender, receiver, toRecv, toSend>>

Init ==
  /\ session \in Sessions /\ slow \in BOOLEAN /\ full \in BOOLEAN
  /\ spc = "header" /\ sfield = 1 /\ rest = <<>> /\ sret = "none" /\ sopen = TRUE
  /\ rpc = "waitHeader" /\ rfield = 1 /\ want = 0 /\ rret = "none" /\ ropen = TRUE
  /\ got = [f \in Fields |-> IF KindOf[f] = "text" THEN Null ELSE <<>>]
  /\ toRecv = <<>> /\ toSend = <<>>

Field(table, k) == table[k][1]
Arrived(v) == IF v = Null THEN <<>> ELSE v    \* an unset text is an empty one
Value == Arrived(session[Field(SendTable, sfield)])

SReturn(r) == spc' = "returned" /\ sret' = r
RReturn(r) == rpc' = "returned" /\ rret' = r

(* write(): a closed peer means SIGPIPE, which nothing catches. *)
SWrite(m) ==
  /\ ropen
  /\ toRecv' = Append(toRecv, m)

SKilled ==
  /\ spc \in {"header", "length", "value"}
  /\ ~ropen
  /\ SReturn("killed")
  /\ UNCHANGED <<setting, sfield, rest, sopen, receiver, toRecv, toSend>>

SendHeader ==
  /\ spc = "header"
  /\ SWrite([header |-> "session"])
  /\ spc' = "length"
  /\ UNCHANGED <<setting, sfield, rest, sret, sopen, receiver, toSend>>

SendLength ==
  /\ spc = "length"
  /\ SWrite([length |-> Len(Value)])
  /\ spc' = "ack"
  /\ UNCHANGED <<setting, sfield, rest, sret, sopen, receiver, toSend>>

(* The end of one round of the loop. *)
NextField ==
  IF sfield = Size THEN SReturn("ok") /\ UNCHANGED sfield
  ELSE sfield' = sfield + 1 /\ spc' = "length" /\ UNCHANGED sret

(* Mutant: the sender goes on without an answer. *)
RecvAckIgnored ==
  /\ spc = "ack"
  /\ IF toSend = <<>> THEN UNCHANGED toSend ELSE toSend' = Tail(toSend)
  /\ IF Value = <<>>
       THEN NextField /\ UNCHANGED rest
       ELSE spc' = "value" /\ rest' = Value /\ UNCHANGED <<sfield, sret>>
  /\ UNCHANGED <<setting, sopen, receiver, toRecv>>

(* The acknowledge; only it lets the sender go on. *)
RecvAck ==
  /\ spc = "ack" /\ toSend # <<>>
  /\ toSend' = Tail(toSend)
  /\ IF Head(toSend) = "NACK" THEN SReturn("failed") /\ UNCHANGED <<sfield, rest>>
     ELSE IF Value = <<>> THEN NextField /\ UNCHANGED rest
     ELSE spc' = "value" /\ rest' = Value /\ UNCHANGED <<sfield, sret>>
  /\ UNCHANGED <<setting, sopen, receiver, toRecv>>

(* No acknowledge within five seconds, or a closed socket. *)
RecvNoAck ==
  /\ spc = "ack" /\ toSend = <<>>
  /\ slow \/ ~ropen
  /\ SReturn("failed")
  /\ UNCHANGED <<setting, sfield, rest, sopen, receiver, toRecv, toSend>>

(* The write of a value passes on Chunk octets at a time. *)
SendValue ==
  /\ spc = "value" /\ ropen
  /\ LET n == IF Len(rest) <= Chunk THEN Len(rest) ELSE Chunk
     IN /\ toRecv' = toRecv \o [i \in 1..n |-> [octet |-> rest[i]]]
        /\ rest' = SubSeq(rest, n + 1, Len(rest))
  /\ IF rest' = <<>> THEN NextField ELSE UNCHANGED <<spc, sfield, sret>>
  /\ UNCHANGED <<setting, sopen, receiver, toSend>>

SClose ==
  /\ spc = "returned" /\ sopen
  /\ sopen' = FALSE
  /\ UNCHANGED <<setting, spc, sfield, rest, sret, receiver, toRecv, toSend>>

Sender == \/ SKilled \/ SendHeader \/ SendLength \/ RecvAck \/ RecvNoAck
          \/ SendValue \/ SClose

-----------------------------------------------------------------------------
(* The wait for a header ends the receiver when it times out. *)
WaitHeader ==
  /\ rpc = "waitHeader"
  /\ \/ /\ toRecv # <<>> \/ ~sopen
        /\ rpc' = "readHeader" /\ UNCHANGED rret
     \/ toRecv = <<>> /\ sopen /\ slow /\ RReturn("timeout")
  /\ UNCHANGED <<setting, sender, rfield, want, got, ropen, toRecv, toSend>>

(* The waits for a length and a value only look for an error: after a      *)
(* timeout the read waits for the peer as long as it takes.                *)
WaitData ==
  /\ \/ rpc = "waitLength" /\ rpc' = "readLength"
     \/ rpc = "waitValue" /\ rpc' = "readValue"
  /\ toRecv # <<>> \/ ~sopen \/ slow
  /\ UNCHANGED <<setting, sender, rfield, want, got, rret, ropen, toRecv, toSend>>

(* Mutant: a read of 0 octets is tried again. *)
ReadClosedAgain ==
  /\ rpc \in {"readHeader", "readLength", "readValue"}
  /\ toRecv = <<>> /\ ~sopen
  /\ UNCHANGED vars

(* read() from a socket whose other end is closed. *)
ReadClosed ==
  /\ rpc \in {"readHeader", "readLength", "readValue"}
  /\ toRecv = <<>> /\ ~sopen
  /\ RReturn("closed")
  /\ UNCHANGED <<setting, sender, rfield, want, got, ropen, toRecv, toSend>>

ReadHeader ==
  /\ rpc = "readHeader" /\ toRecv # <<>>
  /\ toRecv' = Tail(toRecv)
  /\ rpc' = "waitLength"
  /\ UNCHANGED <<setting, sender, rfield, want, got, rret, ropen, toSend>>

REndField ==
  IF rfield = Size THEN RReturn("ok") /\ UNCHANGED rfield
  ELSE rfield' = rfield + 1 /\ rpc' = "waitLength" /\ UNCHANGED rret

Answer(a) == toSend' = Append(toSend, a)

(* The length, the memory for a text, and the acknowledge; an answer to a  *)
(* sender that has closed its end kills the receiver.                      *)
ReadLength ==
  /\ rpc = "readLength" /\ toRecv # <<>>
  /\ toRecv' = Tail(toRecv)
  /\ LET f == Field(RecvTable, rfield)
     IN IF ~sopen
          THEN RReturn("killed") /\ UNCHANGED <<rfield, want, got, toSend>>
        ELSE
          \/ /\ Answer("ACK")
             /\ want' = Head(toRecv).length
             /\ got' = IF KindOf[f] = "text" THEN [got EXCEPT ![f] = <<>>] ELSE got
             /\ IF want' = 0 THEN REndField
                ELSE rpc' = "waitValue" /\ UNCHANGED <<rfield, rret>>
          \/ /\ full /\ KindOf[f] = "text"
             /\ Answer("NACK") /\ RReturn("failed")
             /\ UNCHANGED <<rfield, want, got>>
  /\ UNCHANGED <<setting, sender, ropen>>

(* One read: fewer octets than the value has are an error. *)
ReadValue ==
  /\ rpc = "readValue" /\ toRecv # <<>>
  /\ LET n == IF Len(toRecv) < want THEN Len(toRecv) ELSE want
     IN /\ got' = [got EXCEPT ![Field(RecvTable, rfield)] = [i \in 1..n |-> toRecv[i].octet]]
        /\ toRecv' = SubSeq(toRecv, n + 1, Len(toRecv))
        /\ IF n = want THEN REndField ELSE RReturn("failed") /\ UNCHANGED rfield
  /\ UNCHANGED <<setting, sender, want, ropen, toSend>>

RClose ==
  /\ rpc = "returned" /\ ropen
  /\ ropen' = FALSE
  /\ UNCHANGED <<setting, sender, rpc, rfield, want, got, rret, toRecv, toSend>>

Receiver == \/ WaitHeader \/ WaitData \/ ReadClosed \/ ReadHeader \/ ReadLength
            \/ ReadValue \/ RClose

Next == Sender \/ Receiver

(* Two processes that are scheduled, and close the socket in the end. *)
Spec == Init /\ [][Next]_vars /\ WF_vars(Sender) /\ WF_vars(Receiver)

-----------------------------------------------------------------------------
(***************************************************************************)
(* The fields that the receiver is done with are those of the session, the *)
(* others are untouched but for the one it is at: no octet gets into the   *)
(* wrong field, whatever timeouts and failures there were.                 *)
(***************************************************************************)
FieldsArrive ==
  \A k \in 1..Size :
    LET f == Field(SendTable, k)
        isDone == k < rfield \/ rret = "ok"
    IN /\ isDone => got[f] = Arrived(session[f])
       /\ ~isDone /\ k > rfield => got[f] \in {Null, <<>>}

IsWhole(v) == Len(Arrived(v)) <= Chunk      \* the socket passes it on at once

(***************************************************************************)
(* A sender that returned OK has a receiver that has everything but, at    *)
(* most, the last value, which is on its way and does arrive.  And without *)
(* timeouts and with memory, values that the socket passes on in one piece *)
(* all arrive, and both sides return OK.                                   *)
(***************************************************************************)
SentIsReceived ==
  /\ sret = "ok" => rfield = Size /\ sfield = Size /\ rret \in {"none", "ok"}
  /\ /\ spc = "returned" /\ rpc = "returned" /\ ~slow /\ ~full
     /\ \A f \in Fields : IsWhole(session[f])
     => sret = "ok" /\ rret = "ok"

(* Both sides return, whatever fails and whoever times out. *)
Ends == <>(spc = "returned" /\ rpc = "returned")
=============================================================================
