---------------------------- MODULE SessionProofs ---------------------------
(***************************************************************************)
(* Proofs about Session: every field arrives in its place, and a sender    *)
(* that returned OK was received, for all sessions, all sizes of the       *)
(* pieces in which a value comes, and all timeouts and failures.           *)
(***************************************************************************)
EXTENDS Session, SequenceTheorems, TLAPS

(* The octets of field k, and the messages that are sent for it. *)
V(k) == Arrived(session[Field(SendTable, k)])
Header == [header |-> "session"]
Length(k) == [length |-> Len(V(k))]
OctetsOf(v) == [i \in 1..Len(v) |-> [octet |-> v[i]]]
Msgs == [header : {"session"}] \cup [length : Nat] \cup [octet : Octets]

InHeader == rpc \in {"waitHeader", "readHeader"}
InLength == rpc \in {"waitLength", "readLength"}
InValue  == rpc \in {"waitValue", "readValue"}

TypeOK ==
  /\ session \in Sessions /\ slow \in BOOLEAN /\ full \in BOOLEAN
  /\ spc \in {"header", "length", "ack", "value", "returned"}
  /\ sfield \in 1..Size /\ rest \in Seq(Octets)
  /\ sret \in {"none", "ok", "failed", "killed"}
  /\ InHeader \/ InLength \/ InValue \/ rpc = "returned"
  /\ rfield \in 1..Size /\ want \in Nat /\ DOMAIN got = Fields
  /\ rret \in {"none", "ok", "timeout", "closed", "killed", "failed"}
  /\ toRecv \in Seq(Msgs) /\ toSend \in Seq({"ACK", "NACK"})
  /\ sopen \in BOOLEAN /\ ropen \in BOOLEAN

(* What the control points say of the results and the ends of the socket. *)
Returns ==
  /\ spc = "returned" <=> sret # "none"
  /\ rpc = "returned" <=> rret # "none"
  /\ ~sopen => spc = "returned"
  /\ ~ropen => rpc = "returned"
  /\ sret = "killed" => rpc = "returned"

(* The sender waits for an acknowledge, or has given up to. *)
AtAck == spc = "ack" \/ sret = "failed"

(* What is under way while the receiver waits for the header. *)
HeaderInv ==
  InHeader =>
    /\ rfield = 1 /\ sfield = 1 /\ toSend = <<>>
    /\ \/ spc = "header" /\ toRecv = <<>>
       \/ spc = "length" /\ toRecv = <<Header>>
       \/ AtAck /\ toRecv = <<Header, Length(1)>>

(* While it waits for a length: the length itself, or the acknowledge of   *)
(* the empty field before.                                                 *)
LengthInv ==
  InLength =>
    \/ /\ spc = "length" /\ sfield = rfield
       /\ toRecv = <<>> /\ toSend = <<>>
    \/ /\ AtAck /\ sfield = rfield
       /\ toRecv = <<Length(rfield)>> /\ toSend = <<>>
    \/ /\ AtAck /\ rfield = sfield + 1 /\ V(sfield) = <<>>
       /\ toRecv = <<>> /\ toSend = <<"ACK">>

(* The value in two parts: those octets that were passed on, and the rest. *)
InPieces(v) ==
  /\ rest # <<>> /\ Len(toRecv) + Len(rest) = Len(v)
  /\ \A i \in 1..Len(toRecv) : toRecv[i] = [octet |-> v[i]]
  /\ \A i \in 1..Len(rest) : rest[i] = v[Len(toRecv) + i]
  /\ toRecv = <<>> \/ Len(v) > Chunk

(* While it waits for a value: the sender is at that field, or one ahead,  *)
(* but never further, as the next length is not acknowledged yet.          *)
ValueInv ==
  InValue =>
    /\ want = Len(V(rfield)) /\ want > 0
    /\ \/ /\ AtAck /\ sfield = rfield
          /\ toRecv = <<>> /\ toSend = <<"ACK">>
       \/ /\ spc = "value" /\ sfield = rfield
          /\ InPieces(V(rfield)) /\ toSend = <<>>
       \/ /\ spc = "length" /\ sfield = rfield + 1
          /\ toRecv = OctetsOf(V(rfield)) /\ toSend = <<>>
       \/ /\ AtAck /\ sfield = rfield + 1
          /\ toRecv = Append(OctetsOf(V(rfield)), Length(sfield)) /\ toSend = <<>>
       \/ /\ sret = "ok" /\ sfield = Size /\ rfield = Size
          /\ toRecv = OctetsOf(V(rfield)) /\ toSend = <<>>

(* A receiver that returned OK has a sender that does, will, or gave up    *)
(* with the last acknowledge on its way.                                   *)
DoneInv ==
  rret = "ok" =>
    /\ rfield = Size /\ sfield = Size
    /\ \/ AtAck /\ V(Size) = <<>> /\ toSend = <<"ACK">>
       \/ sret = "ok"

(* A receiver that failed has a sender that gets no acknowledge any more;  *)
(* what it still can do is to end a value that came in pieces.             *)
BrokenInv ==
  rret \notin {"none", "ok"} =>
    /\ spc # "returned" => toSend \in {<<>>, <<"NACK">>}
    /\ spc = "value" => sfield = rfield /\ Len(V(rfield)) > Chunk
    /\ sret = "ok" => sfield = Size /\ rfield = Size /\ Len(V(Size)) > Chunk

(* The fields that are received, and those that are untouched. *)
FieldsInv ==
  \A k \in 1..Size :
    LET f == Field(SendTable, k)
    IN /\ k < rfield \/ rret = "ok" => got[f] = V(k)
       /\ k > rfield \/ (k = rfield /\ (InHeader \/ InLength)) =>
            got[f] = IF KindOf[f] = "text" THEN Null ELSE <<>>

(* Nothing to go wrong. *)
Smooth == ~slow /\ ~full /\ \A k \in 1..Size : Len(V(k)) <= Chunk

SmoothInv == Smooth => sret \in {"none", "ok"} /\ rret \in {"none", "ok"}

StreamInv == HeaderInv /\ LengthInv /\ ValueInv /\ DoneInv /\ BrokenInv

IInv == TypeOK /\ Returns /\ StreamInv /\ FieldsInv /\ SmoothInv

-----------------------------------------------------------------------------
(***************************************************************************)
(* The two tables are one, and name every field once.                      *)
(***************************************************************************)
LEMMA Tables ==
  /\ Size = 10
  /\ RecvTable = SendTable
  /\ \A k \in 1..Size : Field(SendTable, k) \in Fields
  /\ \A j, k \in 1..Size : Field(SendTable, j) = Field(SendTable, k) => j = k
<1>1. Size = 10
  BY DEF Size, SendTable
<1>2. RecvTable = SendTable
  BY DEF RecvTable, SendTable
<1>3. \A k \in 1..Size : Field(SendTable, k) \in Fields
  BY DEF Fields, Field
<1>4. \A k \in 1..10 :
        Field(SendTable, k) =
          IF k = 1 THEN "httpreqtype" ELSE IF k = 2 THEN "library"
          ELSE IF k = 3 THEN "program" ELSE IF k = 4 THEN "parms"
          ELSE IF k = 5 THEN "srcPath" ELSE IF k = 6 THEN "logpath"
          ELSE IF k = 7 THEN "loglevel" ELSE IF k = 8 THEN "username"
          ELSE IF k = 9 THEN "outputfile" ELSE "mode"
  BY DEF Field, SendTable
<1>5. \A j, k \in 1..10 : Field(SendTable, j) = Field(SendTable, k) => j = k
  BY <1>4
<1> QED
  BY <1>1, <1>2, <1>3, <1>5

(* A value is a sequence of octets, and the last one is a number. *)
LEMMA Values ==
  ASSUME TypeOK
  PROVE  (\A k \in 1..Size : V(k) \in Seq(Octets)) /\ Len(V(Size)) = 1
<1>1. \A k \in 1..Size : V(k) \in Seq(Octets)
  <2> SUFFICES ASSUME NEW k \in 1..Size PROVE V(k) \in Seq(Octets)
    OBVIOUS
  <2>1. Field(SendTable, k) \in Fields
    BY Tables
  <2> QED
    BY <2>1, SessionsAssumption DEF TypeOK, V, Arrived
<1>2. KindOf[Field(SendTable, Size)] = "number"
  <2>1. Size \in 1..Size /\ Field(SendTable, Size) \in Fields
    BY Tables
  <2>2. (CHOOSE k \in 1..Size : SendTable[k][1] = Field(SendTable, Size)) = Size
    BY <2>1, Tables DEF Field
  <2>3. SendTable[Size][2] = "number"
    BY Tables DEF SendTable
  <2> QED
    BY <2>1, <2>2, <2>3 DEF KindOf
<1>3. Len(V(Size)) = 1
  <2>1. Field(SendTable, Size) \in Fields
    BY Tables
  <2>2. session[Field(SendTable, Size)] # Null /\ Len(session[Field(SendTable, Size)]) = 1
    BY <1>2, <2>1, SessionsAssumption DEF TypeOK
  <2> QED
    BY <2>2 DEF V, Arrived
<1> QED
  BY <1>1, <1>3

LEMMA SameValues ==
  ASSUME UNCHANGED setting
  PROVE  /\ \A k : V(k)' = V(k)
         /\ \A k : Length(k)' = Length(k)
         /\ Smooth' = Smooth
BY DEF setting, V, Length, Smooth

LEMMA InitInv == Init => IInv
<1> SUFFICES ASSUME Init PROVE IInv
  OBVIOUS
<1>1. /\ spc = "header" /\ sfield = 1 /\ rest = <<>> /\ sret = "none"
      /\ rpc = "waitHeader" /\ rfield = 1 /\ want = 0 /\ rret = "none"
      /\ toRecv = <<>> /\ toSend = <<>>
  BY DEF Init
<1>0. /\ session \in Sessions /\ slow \in BOOLEAN /\ full \in BOOLEAN
      /\ sopen = TRUE /\ ropen = TRUE
  BY DEF Init
<1>2. got = [f \in Fields |-> IF KindOf[f] = "text" THEN Null ELSE <<>>]
  BY DEF Init

<1>3. TypeOK
  <2>1. sfield \in 1..Size /\ rfield \in 1..Size /\ want \in Nat
    BY <1>1, Tables
  <2>2. rest \in Seq(Octets) /\ toRecv \in Seq(Msgs) /\ toSend \in Seq({"ACK", "NACK"})
    BY <1>1
  <2>3. DOMAIN got = Fields
    BY <1>2
  <2> QED
    BY <1>0, <1>1, <2>1, <2>2, <2>3 DEF TypeOK, InHeader
<1>4. Returns
  BY <1>0, <1>1 DEF Returns
<1>5. StreamInv
  BY <1>1 DEF StreamInv, HeaderInv, LengthInv, ValueInv, DoneInv, BrokenInv,
              InHeader, InLength, InValue
<1>6. FieldsInv
  <2> SUFFICES ASSUME NEW k \in 1..Size
               PROVE  /\ ~(k < rfield \/ rret = "ok")
                      /\ got[Field(SendTable, k)] =
                           IF KindOf[Field(SendTable, k)] = "text" THEN Null ELSE <<>>
    BY DEF FieldsInv
  <2>1. Field(SendTable, k) \in Fields
    BY Tables
  <2>2. k >= 1
    BY Tables
  <2> QED
    BY <1>1, <1>2, <2>1, <2>2
<1>7. SmoothInv
  BY <1>1 DEF SmoothInv
<1> QED
  BY <1>3, <1>4, <1>5, <1>6, <1>7 DEF IInv

(* The messages are messages. *)
LEMMA MessageTypes ==
  /\ Header \in Msgs
  /\ \A n \in Nat : [length |-> n] \in Msgs
  /\ \A o \in Octets : [octet |-> o] \in Msgs
BY DEF Header, Msgs

(* What is written goes behind what is under way. *)
LEMMA Appending ==
  /\ \A m : Append(<<>>, m) = <<m>>
  /\ \A m, n : Append(<<m>>, n) = <<m, n>>
<1>1. \A m : Append(<<>>, m) = <<m>>
  OBVIOUS
<1>2. ASSUME NEW m, NEW n PROVE Append(<<m>>, n) = <<m, n>>
  <2>1. <<m>> \in Seq({m, n}) /\ <<m, n>> \in Seq({m, n})
    OBVIOUS
  <2>2. Append(<<m>>, n) \in Seq({m, n}) /\ Len(Append(<<m>>, n)) = 2
    BY <2>1
  <2>3. \A i \in 1..2 : Append(<<m>>, n)[i] = <<m, n>>[i]
    BY <2>1
  <2> QED
    BY <2>1, <2>2, <2>3, SeqEqual
<1> QED
  BY <1>1, <1>2
-----------------------------------------------------------------------------
(***************************************************************************)
(* The steps of the sender.                                                *)
(***************************************************************************)

LEMMA SKilledInv == IInv /\ SKilled => IInv'
<1> SUFFICES ASSUME IInv, SKilled PROVE IInv'
  OBVIOUS
<1> USE DEF SKilled, SReturn
<1>0. UNCHANGED setting
  OBVIOUS
<1>1. TypeOK'
  BY DEF IInv, TypeOK, receiver, setting, InHeader, InLength, InValue
<1>2. Returns'
  BY DEF IInv, Returns, TypeOK, receiver
<1>3. StreamInv'
  BY <1>0, SameValues, Tables
     DEF IInv, TypeOK, Returns, receiver, StreamInv, HeaderInv, LengthInv, ValueInv, DoneInv, BrokenInv,
              InHeader, InLength, InValue, AtAck, InPieces
<1>4. FieldsInv'
  BY <1>0, SameValues DEF IInv, FieldsInv, receiver, InHeader, InLength
<1>5. SmoothInv'
  BY <1>0, SameValues
     DEF IInv, SmoothInv, Smooth, Returns, receiver, StreamInv, HeaderInv, LengthInv, ValueInv, DoneInv, BrokenInv,
              InHeader, InLength, InValue, AtAck, InPieces
<1> QED
  BY <1>1, <1>2, <1>3, <1>4, <1>5 DEF IInv

LEMMA RecvNoAckInv == IInv /\ RecvNoAck => IInv'
<1> SUFFICES ASSUME IInv, RecvNoAck PROVE IInv'
  OBVIOUS
<1> USE DEF RecvNoAck, SReturn
<1>0. UNCHANGED setting
  OBVIOUS
<1>1. TypeOK'
  BY DEF IInv, TypeOK, receiver, setting, InHeader, InLength, InValue
<1>2. Returns'
  BY DEF IInv, Returns, TypeOK, receiver
<1>3. StreamInv'
  BY <1>0, SameValues, Tables
     DEF IInv, TypeOK, Returns, receiver, StreamInv, HeaderInv, LengthInv, ValueInv, DoneInv, BrokenInv,
              InHeader, InLength, InValue, AtAck, InPieces
<1>4. FieldsInv'
  BY <1>0, SameValues DEF IInv, FieldsInv, receiver, InHeader, InLength
<1>5. SmoothInv'
  BY <1>0, SameValues
     DEF IInv, SmoothInv, Smooth, Returns, receiver, StreamInv, HeaderInv, LengthInv, ValueInv, DoneInv, BrokenInv,
              InHeader, InLength, InValue, AtAck, InPieces
<1> QED
  BY <1>1, <1>2, <1>3, <1>4, <1>5 DEF IInv

LEMMA SCloseInv == IInv /\ SClose => IInv'
<1> SUFFICES ASSUME IInv, SClose PROVE IInv'
  OBVIOUS
<1> USE DEF SClose
<1>0. UNCHANGED setting
  OBVIOUS
<1>1. TypeOK'
  BY DEF IInv, TypeOK, receiver, setting, InHeader, InLength, InValue
<1>2. Returns'
  BY DEF IInv, Returns, TypeOK, receiver
<1>3. StreamInv'
  BY <1>0, SameValues, Tables
     DEF IInv, TypeOK, Returns, receiver, StreamInv, HeaderInv, LengthInv, ValueInv, DoneInv, BrokenInv,
              InHeader, InLength, InValue, AtAck, InPieces
<1>4. FieldsInv'
  BY <1>0, SameValues DEF IInv, FieldsInv, receiver, InHeader, InLength
<1>5. SmoothInv'
  BY <1>0, SameValues
     DEF IInv, SmoothInv, Smooth, Returns, receiver, StreamInv, HeaderInv, LengthInv, ValueInv, DoneInv, BrokenInv,
              InHeader, InLength, InValue, AtAck, InPieces
<1> QED
  BY <1>1, <1>2, <1>3, <1>4, <1>5 DEF IInv

LEMMA SendHeaderInv == IInv /\ SendHeader => IInv'
<1> SUFFICES ASSUME IInv, SendHeader PROVE IInv'
  OBVIOUS
<1> USE DEF SendHeader, SWrite
<1>0. UNCHANGED setting
  OBVIOUS
<1>m. Header \in Msgs /\ toRecv' = Append(toRecv, Header)
  BY MessageTypes DEF Header
<1>1. TypeOK'
  BY <1>m DEF IInv, TypeOK, receiver, setting, InHeader, InLength, InValue
<1>2. Returns'
  BY DEF IInv, Returns, TypeOK, receiver
<1>3. StreamInv'
  <2>1. HeaderInv'
    BY <1>0, <1>m, SameValues, Appending DEF IInv, TypeOK, Returns, receiver, StreamInv, HeaderInv, InHeader, AtAck
  <2>2. LengthInv'
    BY <1>0, <1>m, SameValues, Appending DEF IInv, TypeOK, Returns, receiver, StreamInv, LengthInv, InLength, AtAck
  <2>3. ValueInv'
    BY <1>0, <1>m, SameValues, Appending DEF IInv, TypeOK, Returns, receiver, StreamInv, ValueInv, InValue, AtAck
  <2>4. DoneInv' /\ BrokenInv'
    BY <1>0, SameValues DEF IInv, TypeOK, Returns, receiver, StreamInv, DoneInv, BrokenInv, AtAck
  <2> QED
    BY <2>1, <2>2, <2>3, <2>4 DEF StreamInv
<1>4. FieldsInv'
  BY <1>0, SameValues DEF IInv, FieldsInv, receiver, InHeader, InLength
<1>5. SmoothInv'
  BY <1>0, SameValues DEF IInv, SmoothInv, receiver
<1> QED
  BY <1>1, <1>2, <1>3, <1>4, <1>5 DEF IInv

LEMMA SendLengthInv == IInv /\ SendLength => IInv'
<1> SUFFICES ASSUME IInv, SendLength PROVE IInv'
  OBVIOUS
<1> USE DEF SendLength, SWrite
<1>0. UNCHANGED setting
  OBVIOUS
<1>m. Length(sfield) \in Msgs /\ toRecv' = Append(toRecv, Length(sfield))
  <2>1. Value = V(sfield) /\ V(sfield) \in Seq(Octets)
    BY Values DEF IInv, TypeOK, Value, V
  <2> QED
    BY <2>1, MessageTypes DEF Length
<1>1. TypeOK'
  BY <1>m DEF IInv, TypeOK, receiver, setting, InHeader, InLength, InValue
<1>2. Returns'
  BY DEF IInv, Returns, TypeOK, receiver
<1>3. StreamInv'
  <2>1. HeaderInv'
    BY <1>0, <1>m, SameValues, Appending DEF IInv, TypeOK, Returns, receiver, StreamInv, HeaderInv, InHeader, AtAck
  <2>2. LengthInv'
    BY <1>0, <1>m, SameValues, Appending DEF IInv, TypeOK, Returns, receiver, StreamInv, LengthInv, InLength, AtAck
  <2>3. ValueInv'
    BY <1>0, <1>m, SameValues, Appending DEF IInv, TypeOK, Returns, receiver, StreamInv, ValueInv, InValue, AtAck
  <2>4. DoneInv' /\ BrokenInv'
    BY <1>0, SameValues DEF IInv, TypeOK, Returns, receiver, StreamInv, DoneInv, BrokenInv, AtAck
  <2> QED
    BY <2>1, <2>2, <2>3, <2>4 DEF StreamInv
<1>4. FieldsInv'
  BY <1>0, SameValues DEF IInv, FieldsInv, receiver, InHeader, InLength
<1>5. SmoothInv'
  BY <1>0, SameValues DEF IInv, SmoothInv, receiver
<1> QED
  BY <1>1, <1>2, <1>3, <1>4, <1>5 DEF IInv

LEMMA RecvAckInv == IInv /\ RecvAck => IInv'
<1> SUFFICES ASSUME IInv, RecvAck PROVE IInv'
  OBVIOUS
<1> USE DEF SReturn, NextField
<1>0. UNCHANGED setting /\ UNCHANGED receiver /\ UNCHANGED toRecv
  BY DEF RecvAck
<1>a. /\ spc = "ack" /\ sret = "none"
      /\ toSend \in {<<"ACK">>, <<"NACK">>} /\ toSend # <<>> /\ toSend' = <<>>
      /\ toSend = <<"NACK">> => rret \notin {"none", "ok"}
      /\ toSend = <<"ACK">> => rret \in {"none", "ok"}
  BY DEF RecvAck, IInv, TypeOK, Returns, StreamInv, HeaderInv, LengthInv, ValueInv, DoneInv,
         BrokenInv, InHeader, InLength, InValue, AtAck
<1>b. Value = V(sfield) /\ V(sfield) \in Seq(Octets)
  BY Values DEF IInv, TypeOK, Value, V
<1>c. \/ /\ toSend = <<"NACK">> /\ spc' = "returned" /\ sret' = "failed"
         /\ UNCHANGED <<sfield, rest>>
      \/ /\ toSend = <<"ACK">> /\ V(sfield) = <<>> /\ UNCHANGED rest
         /\ \/ /\ sfield = Size /\ spc' = "returned" /\ sret' = "ok" /\ sfield' = sfield
            \/ /\ sfield < Size /\ spc' = "length" /\ sret' = "none" /\ sfield' = sfield + 1
      \/ /\ toSend = <<"ACK">> /\ V(sfield) # <<>>
         /\ spc' = "value" /\ rest' = V(sfield) /\ UNCHANGED <<sfield, sret>>
  <2>1. CASE toSend = <<"NACK">>
    <3>1. Head(toSend) = "NACK"
      BY <2>1
    <3> QED
      BY <2>1, <3>1 DEF RecvAck
  <2>2. CASE toSend = <<"ACK">>
    <3>1. Head(toSend) # "NACK"
      BY <2>2
    <3>2. sfield \in 1..Size /\ Size = 10
      BY Tables DEF IInv, TypeOK
    <3>3. CASE V(sfield) = <<>>
      BY <1>a, <1>b, <2>2, <3>1, <3>2, <3>3 DEF RecvAck
    <3>4. CASE V(sfield) # <<>>
      BY <1>a, <1>b, <2>2, <3>1, <3>4 DEF RecvAck
    <3> QED
      BY <3>3, <3>4
  <2> QED
    BY <1>a, <2>1, <2>2
<1>s. UNCHANGED sopen
  BY DEF RecvAck
<1> HIDE DEF SReturn, NextField
<1>1. TypeOK'
  BY <1>0, <1>a, <1>b, <1>c, <1>s, Tables, SMTT(20)
     DEF IInv, TypeOK, receiver, setting, InHeader, InLength, InValue
<1>2. Returns'
  BY <1>0, <1>a, <1>c, <1>s DEF IInv, Returns, TypeOK, receiver
<1>3. StreamInv'
  <2>1. HeaderInv'
    BY <1>0, <1>a, <1>c, SameValues
       DEF IInv, TypeOK, Returns, receiver, StreamInv, HeaderInv, InHeader, AtAck
  <2>2. LengthInv'
    BY <1>0, <1>a, <1>c, SameValues, Tables
       DEF IInv, TypeOK, Returns, receiver, StreamInv, LengthInv, InLength, AtAck
  <2>3. ValueInv'
    BY <1>0, <1>a, <1>b, <1>c, SameValues
       DEF IInv, TypeOK, Returns, receiver, StreamInv, ValueInv, InValue, AtAck, InPieces
  <2>4. DoneInv' /\ BrokenInv'
    BY <1>0, <1>a, <1>c, SameValues, Tables
       DEF IInv, TypeOK, Returns, receiver, StreamInv, DoneInv, BrokenInv, AtAck
  <2> QED
    BY <2>1, <2>2, <2>3, <2>4 DEF StreamInv
<1>4. FieldsInv'
  BY <1>0, SameValues DEF IInv, FieldsInv, receiver, InHeader, InLength
<1>5. SmoothInv'
  BY <1>0, <1>a, <1>c, SameValues DEF IInv, SmoothInv, receiver
<1> QED
  BY <1>1, <1>2, <1>3, <1>4, <1>5 DEF IInv

(***************************************************************************)
(* A value goes on by n octets; after the last of them the next field, or  *)
(* the return.                                                             *)
(***************************************************************************)
LEMMA SendValueInv == IInv /\ SendValue => IInv'
<1> SUFFICES ASSUME IInv, SendValue PROVE IInv'
  OBVIOUS
<1> DEFINE n == IF Len(rest) <= Chunk THEN Len(rest) ELSE Chunk
           passed == [i \in 1..n |-> [octet |-> rest[i]]]
<1>0. UNCHANGED setting /\ UNCHANGED receiver /\ UNCHANGED <<sopen, toSend>>
  BY DEF SendValue
<1>a. /\ spc = "value" /\ sret = "none"
      /\ toRecv' = toRecv \o passed /\ rest' = SubSeq(rest, n + 1, Len(rest))
  BY DEF SendValue, IInv, TypeOK, Returns
<1>b. /\ n \in Nat /\ n <= Len(rest) /\ rest \in Seq(Octets) /\ Len(rest) \in Nat
      /\ rest # <<>> => n > 0
      /\ n = Len(rest) \/ Len(rest) > Chunk
  BY ChunkAssumption DEF IInv, TypeOK
<1>c. \/ /\ rest' # <<>> /\ UNCHANGED <<spc, sfield, sret>>
      \/ /\ rest' = <<>> /\ sfield = Size /\ spc' = "returned" /\ sret' = "ok" /\ sfield' = sfield
      \/ /\ rest' = <<>> /\ sfield < Size /\ spc' = "length" /\ sret' = "none" /\ sfield' = sfield + 1
  BY <1>a, Tables DEF SendValue, NextField, SReturn, IInv, TypeOK
<1>d. /\ passed \in Seq(Msgs) /\ Len(passed) = n
      /\ \A i \in 1..n : passed[i] = [octet |-> rest[i]]
  <2>1. \A i \in 1..n : rest[i] \in Octets
    BY <1>b
  <2>2. \A i \in 1..n : [octet |-> rest[i]] \in Msgs
    BY <2>1, MessageTypes
  <2> QED
    BY <1>b, <2>2
<1>e. /\ rest' \in Seq(Octets) /\ Len(rest') = Len(rest) - n
      /\ \A i \in 1..Len(rest) - n : rest'[i] = rest[n + i]
  BY <1>a, <1>b
<1> HIDE DEF n, passed
<1>f. toRecv' \in Seq(Msgs) /\ Len(toRecv') = Len(toRecv) + n
  <2>1. toRecv \in Seq(Msgs)
    BY DEF IInv, TypeOK
  <2> QED
    BY <1>a, <1>d, <2>1, ConcatProperties
<1>1. TypeOK'
  <2>1. sfield' \in 1..Size
    BY <1>c, Tables DEF IInv, TypeOK
  <2>2. rest' \in Seq(Octets) /\ toRecv' \in Seq(Msgs)
    BY <1>e, <1>f
  <2>3. spc' \in {"header", "length", "ack", "value", "returned"}
        /\ sret' \in {"none", "ok", "failed", "killed"}
    BY <1>a, <1>c
  <2> QED
    BY <1>0, <2>1, <2>2, <2>3 DEF IInv, TypeOK, receiver, setting, InHeader, InLength, InValue
<1>2. Returns'
  BY <1>0, <1>a, <1>c DEF IInv, Returns, TypeOK, receiver
<1>3. StreamInv'
  <2>1. HeaderInv' /\ LengthInv'
    BY <1>0, <1>a, SameValues
       DEF IInv, TypeOK, Returns, receiver, StreamInv, HeaderInv, LengthInv,
           InHeader, InLength, AtAck
  <2>2. ValueInv'
    <3> SUFFICES ASSUME InValue PROVE ValueInv'
      BY <1>0 DEF ValueInv, InValue, receiver
    <3>1. /\ want = Len(V(rfield)) /\ want > 0 /\ sfield = rfield
          /\ InPieces(V(rfield)) /\ toSend = <<>>
      BY <1>a DEF IInv, StreamInv, ValueInv, AtAck, Returns
    <3>2. V(rfield) \in Seq(Octets) /\ toRecv \in Seq(Msgs)
      BY Values DEF IInv, TypeOK
    <3>3. /\ toRecv' \in Seq(Msgs) /\ Len(toRecv') = Len(toRecv) + n
          /\ \A i \in 1..Len(toRecv') : toRecv'[i] = [octet |-> V(rfield)[i]]
      <4>1. toRecv' \in Seq(Msgs) /\ Len(toRecv') = Len(toRecv) + n
        BY <1>f
      <4>2. ASSUME NEW i \in 1..Len(toRecv)
            PROVE  toRecv'[i] = [octet |-> V(rfield)[i]]
        BY <1>a, <1>d, <3>1, <3>2 DEF InPieces
      <4>3. ASSUME NEW i \in Len(toRecv) + 1..Len(toRecv) + n
            PROVE  toRecv'[i] = [octet |-> V(rfield)[i]]
        <5>1. i - Len(toRecv) \in 1..n /\ i - Len(toRecv) \in 1..Len(rest)
          BY <1>b, <3>2
        <5>2. toRecv'[i] = passed[i - Len(toRecv)]
          BY <1>a, <1>b, <1>d, <3>2
        <5>3. rest[i - Len(toRecv)] = V(rfield)[i]
          BY <3>1, <3>2, <5>1 DEF InPieces
        <5> QED
          BY <1>d, <5>1, <5>2, <5>3
      <4>4. ASSUME NEW i \in 1..Len(toRecv')
            PROVE  i \in 1..Len(toRecv) \/ i \in Len(toRecv) + 1..Len(toRecv) + n
        BY <1>b, <3>2, <4>1
      <4> QED
        BY <4>1, <4>2, <4>3, <4>4
    <3>4. CASE rest' # <<>>
      <4>1. InPieces(V(rfield))'
        <5>1. V(rfield)' = V(rfield)
          BY <1>0, SameValues DEF receiver
        <5>2. Len(toRecv') + Len(rest') = Len(V(rfield))
          <6>1. Len(toRecv) + Len(rest) = Len(V(rfield)) /\ Len(toRecv) \in Nat
            BY <3>1, <3>2 DEF InPieces
          <6>2. Len(rest') = Len(rest) - n /\ Len(toRecv') = Len(toRecv) + n
            BY <1>e, <3>3
          <6> QED
            BY <1>b, <6>1, <6>2
        <5>3. ASSUME NEW i \in 1..Len(rest')
              PROVE  rest'[i] = V(rfield)[Len(toRecv') + i]
          <6>1. n + i \in 1..Len(rest)
            BY <1>b, <1>e
          <6>2. rest'[i] = rest[n + i] /\ rest[n + i] = V(rfield)[Len(toRecv) + (n + i)]
            BY <1>e, <3>1, <6>1 DEF InPieces
          <6>3. Len(toRecv') + i = Len(toRecv) + (n + i)
            BY <1>b, <1>e, <3>2, <3>3
          <6> QED
            BY <6>2, <6>3
        <5>4. Len(V(rfield)) > Chunk
          <6>1. n < Len(rest)
            BY <1>b, <1>e, <3>4
          <6> QED
            BY <1>b, <3>1, <3>2, <6>1, ChunkAssumption DEF InPieces
        <5> QED
          BY <3>3, <3>4, <5>1, <5>2, <5>3, <5>4 DEF InPieces
      <4> QED
        BY <1>0, <1>a, <1>c, <3>1, <3>4, <4>1, SameValues DEF ValueInv, receiver
    <3>5. CASE rest' = <<>>
      <4>1. Len(toRecv') = Len(V(rfield))
        BY <1>b, <1>e, <3>1, <3>2, <3>3, <3>5 DEF InPieces
      <4>2. toRecv' = OctetsOf(V(rfield))
        BY <3>2, <3>3, <4>1 DEF OctetsOf
      <4>3. OctetsOf(V(rfield))' = OctetsOf(V(rfield))
        BY <1>0, SameValues DEF OctetsOf, receiver
      <4> QED
        BY <1>0, <1>a, <1>c, <3>1, <3>5, <4>2, <4>3, SameValues DEF ValueInv, receiver
    <3> QED
      BY <3>4, <3>5
  <2>3. DoneInv' /\ BrokenInv'
    BY <1>0, <1>a, <1>c, SameValues, Tables
       DEF IInv, TypeOK, Returns, receiver, StreamInv, DoneInv, BrokenInv, AtAck
  <2> QED
    BY <2>1, <2>2, <2>3 DEF StreamInv
<1>4. FieldsInv'
  BY <1>0, SameValues DEF IInv, FieldsInv, receiver, InHeader, InLength
<1>5. SmoothInv'
  BY <1>0, <1>a, <1>c, SameValues DEF IInv, SmoothInv, receiver
<1> QED
  BY <1>1, <1>2, <1>3, <1>4, <1>5 DEF IInv

-----------------------------------------------------------------------------
(***************************************************************************)
(* The steps of the receiver.                                              *)
(***************************************************************************)

LEMMA WaitHeaderInv == IInv /\ WaitHeader => IInv'
<1> SUFFICES ASSUME IInv, WaitHeader PROVE IInv'
  OBVIOUS
<1> USE DEF WaitHeader, RReturn
<1>0. UNCHANGED setting
  OBVIOUS
<1>1. TypeOK'
  BY DEF IInv, TypeOK, sender, setting, InHeader, InLength, InValue
<1>2. Returns'
  BY DEF IInv, Returns, TypeOK, sender
<1>3. StreamInv'
  BY <1>0, SameValues, Tables
     DEF IInv, TypeOK, Returns, sender, StreamInv, HeaderInv, LengthInv, ValueInv, DoneInv, BrokenInv,
              InHeader, InLength, InValue, AtAck, InPieces
<1>4. FieldsInv'
  BY <1>0, SameValues DEF IInv, FieldsInv, sender, InHeader, InLength
<1>5. SmoothInv'
  BY <1>0, SameValues
     DEF IInv, SmoothInv, Smooth, Returns, TypeOK, sender, StreamInv, HeaderInv, LengthInv, ValueInv, DoneInv, BrokenInv,
              InHeader, InLength, InValue, AtAck, InPieces
<1> QED
  BY <1>1, <1>2, <1>3, <1>4, <1>5 DEF IInv

LEMMA WaitDataInv == IInv /\ WaitData => IInv'
<1> SUFFICES ASSUME IInv, WaitData PROVE IInv'
  OBVIOUS
<1> USE DEF WaitData
<1>0. UNCHANGED setting
  OBVIOUS
<1>1. TypeOK'
  BY DEF IInv, TypeOK, sender, setting, InHeader, InLength, InValue
<1>2. Returns'
  BY DEF IInv, Returns, TypeOK, sender
<1>3. StreamInv'
  BY <1>0, SameValues, Tables
     DEF IInv, TypeOK, Returns, sender, StreamInv, HeaderInv, LengthInv, ValueInv, DoneInv, BrokenInv,
              InHeader, InLength, InValue, AtAck, InPieces
<1>4. FieldsInv'
  BY <1>0, SameValues DEF IInv, FieldsInv, sender, InHeader, InLength
<1>5. SmoothInv'
  BY <1>0, SameValues
     DEF IInv, SmoothInv, Smooth, Returns, TypeOK, sender, StreamInv, HeaderInv, LengthInv, ValueInv, DoneInv, BrokenInv,
              InHeader, InLength, InValue, AtAck, InPieces
<1> QED
  BY <1>1, <1>2, <1>3, <1>4, <1>5 DEF IInv

LEMMA ReadClosedInv == IInv /\ ReadClosed => IInv'
<1> SUFFICES ASSUME IInv, ReadClosed PROVE IInv'
  OBVIOUS
<1> USE DEF ReadClosed, RReturn
<1>0. UNCHANGED setting
  OBVIOUS
<1>a. sret = "failed" /\ spc = "returned" /\ ~Smooth
  <2>1. spc = "returned" /\ sret \in {"ok", "failed"}
    BY DEF IInv, TypeOK, Returns
  <2>2. ASSUME sret = "ok" PROVE FALSE
    <3>1. InValue /\ want > 0 /\ want = Len(V(rfield)) /\ toRecv = OctetsOf(V(rfield))
      BY <2>1, <2>2 DEF IInv, TypeOK, Returns, StreamInv, HeaderInv, LengthInv, ValueInv,
                        InHeader, InLength, InValue, AtAck
    <3>2. V(rfield) \in Seq(Octets)
      BY Values DEF IInv, TypeOK
    <3>3. Len(OctetsOf(V(rfield))) = Len(V(rfield))
      BY <3>2 DEF OctetsOf
    <3> QED
      BY <3>1, <3>3
  <2> QED
    BY <2>1, <2>2 DEF IInv, SmoothInv
<1>1. TypeOK'
  BY DEF IInv, TypeOK, sender, setting, InHeader, InLength, InValue
<1>2. Returns'
  BY DEF IInv, Returns, TypeOK, sender
<1>3. StreamInv'
  BY <1>0, <1>a, SameValues
     DEF IInv, Returns, sender, StreamInv, HeaderInv, LengthInv, ValueInv, DoneInv, BrokenInv,
         InHeader, InLength, InValue
<1>4. FieldsInv'
  BY <1>0, SameValues DEF IInv, FieldsInv, Returns, sender, InHeader, InLength
<1>5. SmoothInv'
  BY <1>0, <1>a, SameValues DEF SmoothInv
<1> QED
  BY <1>1, <1>2, <1>3, <1>4, <1>5 DEF IInv

LEMMA ReadHeaderInv == IInv /\ ReadHeader => IInv'
<1> SUFFICES ASSUME IInv, ReadHeader PROVE IInv'
  OBVIOUS
<1> USE DEF ReadHeader
<1>0. UNCHANGED setting
  OBVIOUS
<1>1. TypeOK'
  BY DEF IInv, TypeOK, sender, setting, InHeader, InLength, InValue
<1>2. Returns'
  BY DEF IInv, Returns, TypeOK, sender
<1>3. StreamInv'
  <2>1. \A m, n : Tail(<<m>>) = <<>> /\ Tail(<<m, n>>) = <<n>>
    OBVIOUS
  <2>2. /\ rfield = 1 /\ sfield = 1 /\ toSend = <<>>
        /\ \/ spc = "length" /\ toRecv' = <<>>
           \/ AtAck /\ toRecv' = <<Length(1)>>
    BY <2>1 DEF IInv, StreamInv, HeaderInv, InHeader
  <2>3. LengthInv'
    BY <1>0, <2>2, SameValues DEF LengthInv, AtAck, sender
  <2> QED
    BY <1>0, <2>3, SameValues
       DEF IInv, Returns, sender, StreamInv, HeaderInv, ValueInv, DoneInv, BrokenInv,
           InHeader, InValue
<1>4. FieldsInv'
  BY <1>0, SameValues DEF IInv, FieldsInv, sender, InHeader, InLength
<1>5. SmoothInv'
  BY <1>0, SameValues
     DEF IInv, SmoothInv, Smooth, Returns, TypeOK, sender, StreamInv, HeaderInv, LengthInv, ValueInv, DoneInv, BrokenInv,
              InHeader, InLength, InValue, AtAck, InPieces
<1> QED
  BY <1>1, <1>2, <1>3, <1>4, <1>5 DEF IInv

LEMMA RCloseInv == IInv /\ RClose => IInv'
<1> SUFFICES ASSUME IInv, RClose PROVE IInv'
  OBVIOUS
<1> USE DEF RClose
<1>0. UNCHANGED setting
  OBVIOUS
<1>1. TypeOK'
  BY DEF IInv, TypeOK, sender, setting, InHeader, InLength, InValue
<1>2. Returns'
  BY DEF IInv, Returns, TypeOK, sender
<1>3. StreamInv'
  BY <1>0, SameValues, Tables
     DEF IInv, TypeOK, Returns, sender, StreamInv, HeaderInv, LengthInv, ValueInv, DoneInv, BrokenInv,
              InHeader, InLength, InValue, AtAck, InPieces
<1>4. FieldsInv'
  BY <1>0, SameValues DEF IInv, FieldsInv, sender, InHeader, InLength
<1>5. SmoothInv'
  BY <1>0, SameValues
     DEF IInv, SmoothInv, Smooth, Returns, TypeOK, sender, StreamInv, HeaderInv, LengthInv, ValueInv, DoneInv, BrokenInv,
              InHeader, InLength, InValue, AtAck, InPieces
<1> QED
  BY <1>1, <1>2, <1>3, <1>4, <1>5 DEF IInv

LEMMA ReadLengthInv == IInv /\ ReadLength => IInv'
<1> SUFFICES ASSUME IInv, ReadLength PROVE IInv'
  OBVIOUS
<1> DEFINE f == Field(SendTable, rfield)
<1>0. UNCHANGED setting /\ UNCHANGED sender /\ UNCHANGED ropen
  BY DEF ReadLength
<1>a. /\ rpc = "readLength" /\ rret = "none" /\ AtAck /\ sfield = rfield
      /\ toRecv = <<Length(rfield)>> /\ toSend = <<>>
  BY DEF ReadLength, IInv, Returns, StreamInv, LengthInv, InLength
<1>b. toRecv' = <<>> /\ Head(toRecv).length = Len(V(rfield))
  BY <1>a DEF ReadLength, Length
<1>c. V(rfield) \in Seq(Octets) /\ f \in Fields /\ rfield \in 1..Size /\ Size = 10
  BY Values, Tables DEF IInv, TypeOK
<1>d. \/ /\ ~sopen /\ rpc' = "returned" /\ rret' = "killed"
         /\ UNCHANGED <<rfield, want, got, toSend>>
      \/ /\ toSend' = <<"ACK">> /\ want' = Len(V(rfield))
         /\ got' = IF KindOf[f] = "text" THEN [got EXCEPT ![f] = <<>>] ELSE got
         /\ \/ /\ V(rfield) = <<>> /\ rfield = Size /\ rpc' = "returned" /\ rret' = "ok"
               /\ rfield' = rfield
            \/ /\ V(rfield) = <<>> /\ rfield < Size /\ rpc' = "waitLength" /\ rret' = rret
               /\ rfield' = rfield + 1
            \/ /\ V(rfield) # <<>> /\ want' > 0 /\ rpc' = "waitValue"
               /\ UNCHANGED <<rfield, rret>>
      \/ /\ full /\ toSend' = <<"NACK">> /\ rpc' = "returned" /\ rret' = "failed"
         /\ UNCHANGED <<rfield, want, got>>
  <2>1. CASE ~sopen
    BY <2>1 DEF ReadLength, RReturn
  <2>2. CASE sopen /\ Answer("ACK")
    <3>1. toSend' = <<"ACK">>
      BY <1>a, <2>2, Appending DEF Answer
    <3>2. "ACK" # "NACK" /\ toSend' # <<"NACK">>
      BY <3>1
    <3>3. /\ want' = Len(V(rfield))
          /\ got' = IF KindOf[f] = "text" THEN [got EXCEPT ![f] = <<>>] ELSE got
          /\ IF want' = 0 THEN REndField
             ELSE rpc' = "waitValue" /\ UNCHANGED <<rfield, rret>>
      <4>1. ~Answer("NACK")
        BY <1>a, <3>2, Appending DEF Answer
      <4> QED
        BY <1>b, <2>2, <4>1, Tables DEF ReadLength
    <3>4. CASE want' = 0
      <4>1. V(rfield) = <<>>
        <5>1. Len(V(rfield)) = 0
          BY <3>3, <3>4
        <5> QED
          BY <1>c, <5>1, EmptySeq
      <4>2. CASE rfield = Size
        BY <3>1, <3>3, <3>4, <4>1, <4>2 DEF REndField, RReturn
      <4>3. CASE rfield # Size
        BY <1>c, <3>1, <3>3, <3>4, <4>1, <4>3 DEF REndField, RReturn
      <4> QED
        BY <4>2, <4>3
    <3>5. CASE want' # 0
      BY <1>c, <3>1, <3>3, <3>5
    <3> QED
      BY <3>4, <3>5
  <2>3. CASE full /\ Answer("NACK") /\ RReturn("failed") /\ UNCHANGED <<rfield, want, got>>
    BY <1>a, <2>3, Appending DEF Answer, RReturn
  <2> QED
    BY <2>1, <2>2, <2>3 DEF ReadLength
<1> HIDE DEF f
<1>1. TypeOK'
  <2>0. Len(V(rfield)) \in Nat
    BY <1>c
  <2>1. rfield' \in 1..Size /\ want' \in Nat
    <3> HIDE DEF V
    <3>1. want \in Nat
      BY DEF IInv, TypeOK
    <3> QED
      BY <1>c, <1>d, <2>0, <3>1
  <2>5. toSend' \in Seq({"ACK", "NACK"})
    <3>1. toSend' = <<>> \/ toSend' = <<"ACK">> \/ toSend' = <<"NACK">>
      BY <1>a, <1>d
    <3>2. \A a \in {"ACK", "NACK"} : <<a>> \in Seq({"ACK", "NACK"})
      OBVIOUS
    <3>3. <<>> \in Seq({"ACK", "NACK"})
      OBVIOUS
    <3> QED
      BY <3>1, <3>2, <3>3
  <2>2. DOMAIN got' = Fields
    BY <1>d DEF IInv, TypeOK
  <2>3. rret' \in {"none", "ok", "timeout", "closed", "killed", "failed"}
        /\ rpc' \in {"returned", "waitLength", "waitValue"}
    BY <1>a, <1>d
  <2> QED
    BY <1>0, <1>b, <2>1, <2>2, <2>3, <2>5
       DEF IInv, TypeOK, sender, setting, InHeader, InLength, InValue
<1>2. Returns'
  BY <1>0, <1>a, <1>d DEF IInv, Returns, TypeOK, sender
<1>3. StreamInv'
  <2>1. HeaderInv' /\ LengthInv'
    BY <1>0, <1>a, <1>b, <1>c, <1>d, SameValues
       DEF sender, HeaderInv, LengthInv, InHeader, InLength, AtAck
  <2>2. ValueInv'
    BY <1>0, <1>a, <1>b, <1>d, SameValues DEF sender, ValueInv, InValue, AtAck
  <2>3. DoneInv'
    BY <1>0, <1>a, <1>d, SameValues DEF sender, DoneInv, AtAck
  <2>4. BrokenInv'
    BY <1>0, <1>a, <1>d, SameValues DEF IInv, Returns, sender, BrokenInv, AtAck
  <2> QED
    BY <2>1, <2>2, <2>3, <2>4 DEF StreamInv
<1>4. FieldsInv'
  <2> SUFFICES ASSUME NEW k \in 1..Size
      PROVE  LET g == Field(SendTable, k)
             IN /\ k < rfield' \/ rret' = "ok" => got'[g] = V(k)
                /\ k > rfield' \/ (k = rfield' /\ (InHeader' \/ InLength')) =>
                     got'[g] = IF KindOf[g] = "text" THEN Null ELSE <<>>
    BY <1>0, SameValues DEF FieldsInv
  <2>1. /\ k < rfield => got[Field(SendTable, k)] = V(k)
        /\ k >= rfield => got[Field(SendTable, k)] =
                            IF KindOf[Field(SendTable, k)] = "text" THEN Null ELSE <<>>
    BY <1>a, <1>c DEF IInv, FieldsInv, InLength
  <2>2. k # rfield => got'[Field(SendTable, k)] = got[Field(SendTable, k)]
    <3>1. k # rfield => Field(SendTable, k) # f
      BY <1>c, Tables DEF f
    <3>2. Field(SendTable, k) \in Fields
      BY Tables
    <3> QED
      BY <1>d, <3>1, <3>2 DEF IInv, TypeOK
  <2>3. k = rfield /\ rret' \in {"none", "ok"} /\ V(rfield) = <<>>
          => got'[Field(SendTable, k)] = <<>>
    <3> SUFFICES ASSUME k = rfield, rret' \in {"none", "ok"} PROVE got'[f] = <<>>
      BY DEF f
    <3>1. got[f] = IF KindOf[f] = "text" THEN Null ELSE <<>>
      BY <2>1, <1>c DEF f
    <3> QED
      BY <1>c, <1>d, <3>1 DEF IInv, TypeOK
  <2> QED
    BY <1>a, <1>c, <1>d, <2>1, <2>2, <2>3 DEF InHeader, InLength
<1>5. SmoothInv'
  <2>1. ~sopen => ~Smooth
    BY <1>a DEF IInv, Returns, SmoothInv, AtAck
  <2>2. full => ~Smooth
    BY DEF Smooth
  <2> QED
    BY <1>0, <1>a, <1>d, <2>1, <2>2, SameValues DEF IInv, SmoothInv, sender
<1> QED
  BY <1>1, <1>2, <1>3, <1>4, <1>5 DEF IInv

(***************************************************************************)
(* One read of a value: the whole of it, or what has come of its pieces.   *)
(***************************************************************************)
LEMMA ReadValueInv == IInv /\ ReadValue => IInv'
<1> SUFFICES ASSUME IInv, ReadValue PROVE IInv'
  OBVIOUS
<1> DEFINE n == IF Len(toRecv) < want THEN Len(toRecv) ELSE want
           f == Field(SendTable, rfield)
           value == V(rfield)
           ahead == IF spc = "length" \/ sret = "ok" THEN <<>> ELSE <<Length(sfield)>>
<1>0. UNCHANGED setting /\ UNCHANGED sender /\ UNCHANGED <<want, ropen, toSend>>
  BY DEF ReadValue
<1>a. /\ rpc = "readValue" /\ rret = "none" /\ toRecv # <<>> /\ toRecv \in Seq(Msgs)
      /\ want = Len(value) /\ want > 0 /\ rfield \in 1..Size /\ Size = 10
      /\ value \in Seq(Octets) /\ f \in Fields /\ DOMAIN got = Fields
      /\ n \in Nat /\ want \in Nat
  <2>1. rpc = "readValue" /\ toRecv # <<>>
    BY DEF ReadValue
  <2>2. /\ toRecv \in Seq(Msgs) /\ rfield \in 1..Size /\ DOMAIN got = Fields /\ want \in Nat
        /\ rret = "none"
    BY <2>1 DEF IInv, TypeOK, Returns
  <2>3. want = Len(value) /\ want > 0
    BY <2>1 DEF IInv, StreamInv, ValueInv, InValue
  <2>4. value \in Seq(Octets) /\ f \in Fields /\ Size = 10
    BY <2>2, Values, Tables DEF IInv
  <2>5. n \in Nat
    BY <2>2
  <2> QED
    BY <2>1, <2>2, <2>3, <2>4, <2>5
<1>b. /\ got' = [got EXCEPT ![f] = [i \in 1..n |-> toRecv[i].octet]]
      /\ toRecv' = SubSeq(toRecv, n + 1, Len(toRecv))
      /\ IF n = want THEN REndField ELSE RReturn("failed") /\ UNCHANGED rfield
  BY Tables DEF ReadValue
<1>c. /\ OctetsOf(value) \in Seq(Msgs) /\ Len(OctetsOf(value)) = want
      /\ \A i \in 1..want : OctetsOf(value)[i].octet = value[i]
  <2>1. \A i \in 1..Len(value) : [octet |-> value[i]] \in Msgs
    BY <1>a, MessageTypes
  <2> QED
    BY <1>a, <2>1 DEF OctetsOf
<1> HIDE DEF n, f, value
<1>1. CASE spc = "value"
  <2>1. /\ sfield = rfield /\ InPieces(value) /\ toSend = <<>> /\ sret = "none"
    BY <1>1, <1>a DEF IInv, Returns, StreamInv, ValueInv, InValue, AtAck, value
  <2>2. n # want /\ Len(value) > Chunk
    <3>1. rest \in Seq(Octets) /\ Len(rest) > 0
      BY <2>1 DEF IInv, TypeOK, InPieces
    <3>2. Len(toRecv) < want
      BY <1>a, <2>1, <3>1 DEF InPieces
    <3> QED
      BY <1>a, <2>1, <3>2 DEF InPieces, n
  <2>3. rpc' = "returned" /\ rret' = "failed" /\ rfield' = rfield
    BY <1>b, <2>2 DEF RReturn
  <2>4. toRecv' \in Seq(Msgs)
    BY <1>a, <1>b
  <2>5. TypeOK'
    BY <1>0, <1>a, <1>b, <2>3, <2>4
       DEF IInv, TypeOK, sender, setting, InHeader, InLength, InValue
  <2>6. Returns'
    BY <1>0, <1>a, <2>3 DEF IInv, Returns, TypeOK, sender
  <2>7. StreamInv'
    BY <1>0, <1>1, <2>1, <2>2, <2>3, SameValues
       DEF sender, StreamInv, HeaderInv, LengthInv, ValueInv, DoneInv, BrokenInv,
           InHeader, InLength, InValue, value
  <2>8. FieldsInv'
    <3>1. \A k \in 1..Size : k # rfield =>
            got'[Field(SendTable, k)] = got[Field(SendTable, k)]
      BY <1>a, <1>b, Tables DEF f
    <3> SUFFICES ASSUME NEW k \in 1..Size
        PROVE  LET g == Field(SendTable, k)
               IN /\ k < rfield => got'[g] = V(k)
                  /\ k > rfield => got'[g] = IF KindOf[g] = "text" THEN Null ELSE <<>>
      BY <1>0, <2>3, SameValues DEF FieldsInv, InHeader, InLength
    <3>2. k # rfield => got'[Field(SendTable, k)] = got[Field(SendTable, k)]
      BY <3>1
    <3>3. /\ k < rfield => got[Field(SendTable, k)] = V(k)
          /\ k > rfield => got[Field(SendTable, k)] =
                             IF KindOf[Field(SendTable, k)] = "text" THEN Null ELSE <<>>
      BY DEF IInv, FieldsInv
    <3> QED
      BY <1>a, <3>2, <3>3
  <2>9. SmoothInv'
    <3>1. ~(Len(V(rfield)) <= Chunk)
      <4>1. Len(value) \in Nat /\ Chunk \in Nat
        BY <1>a, ChunkAssumption
      <4> QED
        BY <2>2, <4>1 DEF value
    <3>2. ~Smooth
      BY <1>a, <3>1 DEF Smooth
    <3> QED
      BY <1>0, <3>2, SameValues DEF SmoothInv
  <2> QED
    BY <2>5, <2>6, <2>7, <2>8, <2>9 DEF IInv
<1>2. CASE spc # "value"
  <2>1. /\ toSend = <<>>
        /\ \/ /\ spc = "length" /\ sfield = rfield + 1
              /\ toRecv = OctetsOf(value)
           \/ /\ AtAck /\ sfield = rfield + 1
              /\ toRecv = Append(OctetsOf(value), Length(sfield))
           \/ /\ sret = "ok" /\ sfield = Size /\ rfield = Size
              /\ toRecv = OctetsOf(value)
    BY <1>2, <1>a DEF IInv, Returns, StreamInv, ValueInv, InValue, value
  <2>2. /\ n = want /\ \A i \in 1..want : toRecv[i] = OctetsOf(value)[i]
        /\ toRecv = OctetsOf(value) => toRecv' = <<>>
        /\ toRecv = Append(OctetsOf(value), Length(sfield)) => toRecv' = <<Length(sfield)>>
    <3>1. Length(sfield) \in Msgs
      <4>1. V(sfield) \in Seq(Octets)
        BY Values DEF IInv, TypeOK
      <4> QED
        BY <4>1, MessageTypes DEF Length
    <3>2. CASE toRecv = OctetsOf(value)
      <4>1. Len(toRecv) = want /\ n = want
        BY <1>a, <1>c, <3>2 DEF n
      <4>2. toRecv' = <<>>
        BY <1>a, <1>b, <4>1
      <4>3. toRecv # Append(OctetsOf(value), Length(sfield))
        <5>1. Len(Append(OctetsOf(value), Length(sfield))) = want + 1
          <6>1. \A s \in Seq(Msgs), m \in Msgs : Len(Append(s, m)) = Len(s) + 1
            OBVIOUS
          <6> QED
            BY <1>c, <3>1, <6>1
        <5> QED
          BY <1>a, <4>1, <5>1
      <4> QED
        BY <3>2, <4>1, <4>2, <4>3
    <3>3. CASE toRecv = Append(OctetsOf(value), Length(sfield))
      <4>1. Len(toRecv) = want + 1 /\ n = want
        BY <1>a, <1>c, <3>1, <3>3 DEF n
      <4>2. /\ \A i \in 1..want : toRecv[i] = OctetsOf(value)[i]
            /\ toRecv[want + 1] = Length(sfield)
        BY <1>a, <1>c, <3>1, <3>3
      <4>3. toRecv' = SubSeq(toRecv, want + 1, want + 1)
        BY <1>b, <4>1
      <4>4. toRecv' = <<Length(sfield)>>
        <5>1. toRecv' \in Seq(Msgs) /\ Len(toRecv') = 1 /\ toRecv'[1] = toRecv[want + 1]
          BY <1>a, <4>1, <4>3
        <5>2. <<Length(sfield)>> \in Seq(Msgs) /\ Len(<<Length(sfield)>>) = 1
          BY <3>1
        <5> QED
          BY <4>2, <5>1, <5>2, SeqEqual
      <4>5. toRecv # OctetsOf(value)
        BY <1>a, <1>c, <4>1
      <4> QED
        BY <4>1, <4>2, <4>4, <4>5
    <3> QED
      BY <2>1, <3>2, <3>3
  <2>3. got'[f] = value
    <3>1. got'[f] = [i \in 1..want |-> toRecv[i].octet]
      BY <1>a, <1>b, <2>2
    <3>2. \A i \in 1..want : toRecv[i].octet = value[i]
      BY <1>c, <2>2
    <3> QED
      BY <1>a, <3>1, <3>2
  <2>4. \/ /\ rfield = Size /\ sret = "ok" /\ sfield = Size /\ rfield' = rfield
           /\ rpc' = "returned" /\ rret' = "ok" /\ toRecv' = <<>>
        \/ /\ rfield < Size /\ sfield = rfield + 1 /\ rfield' = sfield
           /\ rpc' = "waitLength" /\ rret' = "none"
           /\ \/ spc = "length" /\ toRecv' = <<>>
              \/ AtAck /\ toRecv' = <<Length(sfield)>>
    <3>1. sfield \in 1..Size
      BY DEF IInv, TypeOK
    <3> QED
      BY <1>a, <1>b, <2>1, <2>2, <3>1 DEF REndField, RReturn
  <2>5. TypeOK'
    <3>1. toRecv' \in Seq(Msgs)
      BY <1>a, <1>b
    <3>2. rfield' \in 1..Size /\ DOMAIN got' = Fields
      BY <1>a, <1>b, <2>4 DEF IInv, TypeOK
    <3>3. rpc' \in {"returned", "waitLength"} /\ rret' \in {"none", "ok"}
      BY <2>4
    <3> QED
      BY <1>0, <3>1, <3>2, <3>3
         DEF IInv, TypeOK, sender, setting, InHeader, InLength, InValue
  <2>6. Returns'
    BY <1>0, <1>a, <2>4 DEF IInv, Returns, TypeOK, sender
  <2>7. StreamInv'
    <3>1. LengthInv'
      BY <1>0, <1>a, <2>1, <2>4, SameValues DEF sender, LengthInv, InLength, AtAck
    <3>2. DoneInv' /\ BrokenInv'
      BY <1>0, <2>4 DEF sender, DoneInv, BrokenInv, AtAck
    <3> QED
      BY <2>4, <3>1, <3>2 DEF StreamInv, HeaderInv, ValueInv, InHeader, InValue
  <2>8. FieldsInv'
    <3>1. \A k \in 1..Size : k # rfield =>
            got'[Field(SendTable, k)] = got[Field(SendTable, k)]
      BY <1>a, <1>b, Tables DEF f
    <3>2. got'[Field(SendTable, rfield)] = V(rfield)
      BY <2>3 DEF f, value
    <3>3. \A k \in 1..Size :
            /\ k < rfield => got[Field(SendTable, k)] = V(k)
            /\ k > rfield => got[Field(SendTable, k)] =
                               IF KindOf[Field(SendTable, k)] = "text" THEN Null ELSE <<>>
      BY DEF IInv, FieldsInv
    <3> SUFFICES ASSUME NEW k \in 1..Size
        PROVE  LET g == Field(SendTable, k)
               IN /\ k < rfield' \/ rret' = "ok" => got'[g] = V(k)
                  /\ k > rfield' \/ (k = rfield' /\ (InHeader' \/ InLength')) =>
                       got'[g] = IF KindOf[g] = "text" THEN Null ELSE <<>>
      BY <1>0, SameValues DEF FieldsInv
    <3>4. k <= rfield => got'[Field(SendTable, k)] = V(k)
      BY <1>a, <3>1, <3>2, <3>3, SMTT(20)
    <3>5. k > rfield => got'[Field(SendTable, k)] =
                          IF KindOf[Field(SendTable, k)] = "text" THEN Null ELSE <<>>
      BY <1>a, <3>1, <3>3
    <3> QED
      BY <1>a, <2>4, <3>4, <3>5 DEF InHeader, InLength
  <2>9. SmoothInv'
    BY <1>0, <1>a, <2>4, SameValues DEF IInv, SmoothInv, sender
  <2> QED
    BY <2>5, <2>6, <2>7, <2>8, <2>9 DEF IInv
<1> QED
  BY <1>1, <1>2

-----------------------------------------------------------------------------
(***************************************************************************)
(* Every step keeps the invariant.                                         *)
(***************************************************************************)
LEMMA StutterInv == IInv /\ UNCHANGED vars => IInv'
<1> SUFFICES ASSUME IInv, UNCHANGED vars PROVE IInv'
  OBVIOUS
<1> USE DEF vars, setting, sender, receiver
<1>1. TypeOK' /\ Returns'
  BY DEF IInv, TypeOK, Returns, InHeader, InLength, InValue
<1>2. \A k : V(k)' = V(k) /\ Length(k)' = Length(k)
  BY SameValues
<1>3. StreamInv'
  BY <1>2 DEF IInv, StreamInv, HeaderInv, LengthInv, ValueInv, DoneInv, BrokenInv,
              InHeader, InLength, InValue, AtAck, InPieces
<1>4. FieldsInv' /\ SmoothInv'
  BY <1>2, SameValues DEF IInv, FieldsInv, SmoothInv, InHeader, InLength
<1> QED
  BY <1>1, <1>3, <1>4 DEF IInv

LEMMA IInvStep == IInv /\ [Next]_vars => IInv'
<1> SUFFICES ASSUME IInv, [Next]_vars PROVE IInv'
  OBVIOUS
<1>1. CASE Sender
  BY <1>1, SKilledInv, SendHeaderInv, SendLengthInv, RecvAckInv, RecvNoAckInv,
     SendValueInv, SCloseInv DEF Sender
<1>2. CASE Receiver
  BY <1>2, WaitHeaderInv, WaitDataInv, ReadClosedInv, ReadHeaderInv, ReadLengthInv,
     ReadValueInv, RCloseInv DEF Receiver
<1>3. CASE UNCHANGED vars
  BY <1>3, StutterInv
<1> QED
  BY <1>1, <1>2, <1>3 DEF Next

(***************************************************************************)
(* What is under way between the two sides is what their control points    *)
(* say, in every reachable state.                                          *)
(***************************************************************************)
THEOREM Invariance == Spec => []IInv
<1>1. Init => IInv
  BY InitInv
<1>2. IInv /\ [Next]_vars => IInv'
  BY IInvStep
<1> QED
  BY <1>1, <1>2, PTL DEF Spec

(***************************************************************************)
(* Every variable keeps its type: no length or octet is read as what it is *)
(* not, and no more fields are received than there are.                    *)
(***************************************************************************)
THEOREM TypeCorrect == Spec => []TypeOK
<1>1. IInv => TypeOK
  BY DEF IInv
<1> QED
  BY <1>1, Invariance, PTL

(***************************************************************************)
(* rh4n_messaging_recvSessionInformations has put every field it is done   *)
(* with in its place, whatever timed out or failed.                        *)
(***************************************************************************)
THEOREM FieldsArriveCorrect == Spec => []FieldsArrive
<1>1. IInv => FieldsArrive
  <2> SUFFICES ASSUME IInv, NEW k \in 1..Size
      PROVE  LET f == Field(SendTable, k)
                 isDone == k < rfield \/ rret = "ok"
             IN /\ isDone => got[f] = Arrived(session[f])
                /\ ~isDone /\ k > rfield => got[f] \in {Null, <<>>}
    BY DEF FieldsArrive
  <2>1. /\ k < rfield \/ rret = "ok" => got[Field(SendTable, k)] = V(k)
        /\ k > rfield => got[Field(SendTable, k)] =
                           IF KindOf[Field(SendTable, k)] = "text" THEN Null ELSE <<>>
    BY DEF IInv, FieldsInv
  <2> QED
    BY <2>1 DEF V
<1> QED
  BY <1>1, Invariance, PTL

(***************************************************************************)
(* A sender that returned OK has a receiver that is at the last field and  *)
(* never fails there; with nothing to go wrong both return OK.             *)
(***************************************************************************)
THEOREM SentIsReceivedCorrect == Spec => []SentIsReceived
<1>1. IInv => SentIsReceived
  <2> SUFFICES ASSUME IInv PROVE SentIsReceived
    OBVIOUS
  <2>1. ASSUME sret = "ok"
        PROVE  rfield = Size /\ sfield = Size /\ rret \in {"none", "ok"}
    <3>1. CASE rret = "none"
      BY <2>1, <3>1 DEF IInv, TypeOK, Returns, StreamInv, HeaderInv, LengthInv, ValueInv,
                        InHeader, InLength, InValue, AtAck
    <3>2. CASE rret = "ok"
      BY <2>1, <3>2 DEF IInv, StreamInv, DoneInv
    <3>3. CASE rret \notin {"none", "ok"}
      <4>1. sfield = Size /\ rfield = Size /\ Len(V(Size)) > Chunk
        BY <2>1, <3>3 DEF IInv, StreamInv, BrokenInv
      <4>2. Len(V(Size)) = 1 /\ Chunk \in Nat \ {0}
        BY Values, ChunkAssumption DEF IInv
      <4> QED
        BY <4>1, <4>2
    <3> QED
      BY <3>1, <3>2, <3>3
  <2>3. ASSUME spc = "returned", rpc = "returned", ~slow, ~full,
               \A f \in Fields : IsWhole(session[f])
        PROVE  sret = "ok" /\ rret = "ok"
    <3>1. \A k \in 1..Size : Len(V(k)) <= Chunk
      BY <2>3, Tables DEF IsWhole, V
    <3>2. Smooth
      BY <2>3, <3>1 DEF Smooth
    <3> QED
      BY <2>3, <3>2 DEF IInv, SmoothInv, Returns
  <2> QED
    BY <2>1, <2>3 DEF SentIsReceived
<1> QED
  BY <1>1, Invariance, PTL
=============================================================================
