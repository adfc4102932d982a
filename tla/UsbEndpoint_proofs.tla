------------------------ MODULE UsbEndpoint_proofs ------------------------
(***************************************************************************)
(* A transfer that succeeds was set up by the firmware for its own         *)
(* request, and what the host counts as done was done, byte by byte: for   *)
(* all packet and vector sizes and all requests, whatever tokens, packets  *)
(* and acknowledgements the bus loses and whenever the host gives up,      *)
(* unless a packet of that very transfer was taken for one of another      *)
(* token.  What an earlier transfer left, misread or not, is harmless.     *)
(***************************************************************************)
EXTENDS UsbEndpoint, SequenceTheorems, TLAPS

\* A setup packet that is taken is taken as one, or the transfer is misread.
LEMMA SetupPacketFact ==
  ASSUME NEW fate, NEW data, NEW ack, SetupPacket(fate, data, ack), ~misread'
  PROVE  /\ ~misread /\ stage = "setup"
         /\ \/ rx' = rx /\ stage' = "setup"
            \/ /\ rx = Free /\ rx' = [token |-> "SETUP", request |-> request, tag |-> tag]
               /\ stage' \in {"setup", NextStage}
BY DEF SetupPacket, Takes

\* And a payload packet is taken as one.
LEMMA OutPacketFact ==
  ASSUME NEW fate, NEW data, NEW ack, OutPacket(fate, data, ack), ~misread'
  PROVE  /\ ~misread /\ stage = "data" /\ request.kind = "write"
         /\ ~repeated' => ~repeated
         /\ \/ rx' = rx /\ UNCHANGED <<moved, stage>>
            \/ LET n == Smaller(Chunk, request.len - moved) IN
               /\ rx = Free /\ rx' = [token |-> "OUT", bytes |-> Bytes(tag, moved, n)]
               /\ \/ ack /\ moved' = moved + n
                         /\ stage' = IF moved' = request.len THEN "status" ELSE stage
                  \/ ~ack /\ repeated' /\ UNCHANGED <<moved, stage>>
<1> DEFINE token == TokenAfter("OUT", fate)
           taken == data /\ Takes(token)
           n     == Smaller(Chunk, request.len - moved)
<1>1. /\ stage = "data" /\ request.kind = "write"
      /\ repeated' = (repeated \/ (taken /\ ~ack)) /\ misread' = (misread \/ (taken /\ token # "OUT"))
      /\ rx' \in IF ~taken THEN {rx}
                 ELSE IF token = "OUT" THEN {[token |-> "OUT", bytes |-> Bytes(tag, moved, n)]}
                 ELSE Misread(Bytes(tag, moved, n))
      /\ IF taken /\ ack
         THEN moved' = moved + n /\ stage' = IF moved' = request.len THEN "status" ELSE stage
         ELSE UNCHANGED <<moved, stage>>
  BY Zenon DEF OutPacket
<1>2. taken => rx = Free
  BY DEF Takes
<1> HIDE DEF token, taken, n
<1>3. ~misread /\ (taken => token = "OUT")
  BY <1>1
<1>4. ~repeated' => ~repeated /\ (taken => ack)
  BY <1>1
<1>5. CASE ~taken
  BY <1>1, <1>3, <1>4, <1>5
<1>6. CASE taken
  <2>1. rx = Free /\ rx' = [token |-> "OUT", bytes |-> Bytes(tag, moved, n)]
    BY <1>1, <1>2, <1>3, <1>6
  <2>2. \/ ack /\ moved' = moved + n /\ stage' = IF moved' = request.len THEN "status" ELSE stage
        \/ ~ack /\ repeated' /\ UNCHANGED <<moved, stage>>
    BY <1>1, <1>6
  <2> QED BY <1>1, <1>3, <1>4, <2>1, <2>2 DEF n
<1> QED BY <1>5, <1>6

\* The setup packet that the host has seen acknowledged is in the receive buffer, or
\* was the last one processed; once the transfer is over nothing replaces it.
SetupKnown ==
  ~misread =>
    /\ stage \in {"data", "status"} =>
         (IF rx.token = "SETUP" THEN rx.tag = tag ELSE serving = tag)
    /\ outcome = "ok" => stage = "idle" /\ rx.token # "SETUP" /\ serving = tag

\* The host's steps: what it takes for an answer comes when nothing is left to process.
LEMMA HostKeepsSetupKnown == SetupKnown /\ Host => SetupKnown'
<1> SUFFICES ASSUME SetupKnown, Host, ~misread' PROVE SetupKnown'
  BY DEF SetupKnown
<1>1. ASSUME NEW r \in Requests, Submit(r) PROVE SetupKnown'
  BY <1>1 DEF Submit, SetupKnown, wireVars, msgVars
<1>2. ASSUME NEW fate, NEW data, NEW ack, SetupPacket(fate, data, ack) PROVE SetupKnown'
  <2>1. UNCHANGED <<tag, serving, outcome>>
    BY <1>2 DEF SetupPacket, msgVars
  <2> QED BY <1>2, <2>1, SetupPacketFact DEF SetupKnown, NextStage
<1>3. ASSUME NEW fate, NEW data, NEW ack, OutPacket(fate, data, ack) PROVE SetupKnown'
  <2>1. /\ ~misread /\ stage = "data" /\ stage' \in {stage, "status"}
        /\ rx' = rx \/ (rx = Free /\ rx'.token = "OUT")
    BY <1>3, OutPacketFact
  <2>2. UNCHANGED <<tag, serving, outcome>>
    BY <1>3 DEF OutPacket, msgVars
  <2> QED BY <2>1, <2>2 DEF SetupKnown, Free
<1>4. ASSUME NEW ack, InPacket(ack) PROVE SetupKnown'
  <2>1. stage = "data" /\ stage' \in {stage, "status"}
    BY <1>4 DEF InPacket, Accept
  <2>2. UNCHANGED <<tag, rx, serving, outcome, misread>>
    BY <1>4 DEF InPacket, msgVars
  <2> QED BY <2>1, <2>2 DEF SetupKnown
<1>5. ASSUME NEW ack, StatusIn(ack) PROVE SetupKnown'
  <2>1. stage = "status" /\ rx = Free /\ UNCHANGED <<tag, rx, serving, misread>>
    BY <1>5 DEF StatusIn, SendsData, msgVars
  <2>2. \/ stage' = "idle"
        \/ UNCHANGED <<stage, outcome>>
    BY <1>5 DEF StatusIn
  <2> QED BY <2>1, <2>2 DEF SetupKnown, Free
<1>6. ASSUME NEW fate, NEW data, NEW ack, StatusOut(fate, data, ack) PROVE SetupKnown'
  <2>1. stage = "status" /\ UNCHANGED <<tag, rx, serving, misread>>
    BY <1>6 DEF StatusOut, msgVars
  <2>2. \/ rx = Free /\ stage' = "idle"
        \/ UNCHANGED <<stage, outcome>>
    BY <1>6 DEF StatusOut, Takes
  <2> QED BY <2>1, <2>2 DEF SetupKnown, Free
<1>7. ASSUME NEW fate, InLost(fate) PROVE SetupKnown'
  BY <1>7 DEF InLost, SetupKnown, hostVars, msgVars
<1> QED BY <1>1, <1>2, <1>3, <1>4, <1>5, <1>6, <1>7 DEF Host

\* The firmware's steps: only a setup packet changes the request being served.
LEMMA PollKeepsSetupKnown == SetupKnown /\ Poll => SetupKnown'
<1> SUFFICES ASSUME SetupKnown, Poll PROVE SetupKnown'
  OBVIOUS
<1>1. CASE ProcessSetup
  <2>1. rx.token = "SETUP" /\ rx' = Free /\ serving' = rx.tag
        /\ UNCHANGED <<stage, tag, outcome, misread>>
    BY <1>1 DEF ProcessSetup, hostVars
  <2> QED BY <2>1 DEF SetupKnown, Free
<1>2. CASE ProcessOut
  BY <1>2 DEF ProcessOut, SetupKnown, Free, hostVars
<1>3. CASE BuildTxBlock
  BY <1>3 DEF BuildTxBlock, SetupKnown, hostVars
<1>4. CASE NothingToSend
  BY <1>4 DEF NothingToSend, SetupKnown, hostVars, msgVars
<1>5. CASE ProcessNothing \/ ProcessAstray
  <2>1. rx.token # "SETUP" /\ rx' = Free /\ UNCHANGED <<stage, tag, outcome, misread, serving>>
    BY <1>5 DEF ProcessNothing, ProcessAstray, Other, hostVars, msgVars
  <2> QED BY <2>1 DEF SetupKnown, Free
<1> QED BY <1>1, <1>2, <1>3, <1>4, <1>5 DEF Poll

\* An answer is never taken for the one of another request, with any losses of tokens,
\* packets and acknowledgements, in a transfer that was not misread itself.
THEOREM OwnRequestAnswered == Spec => []AnswersOwnRequest
<1>1. Init => SetupKnown
  BY DEF Init, SetupKnown
<1>2. SetupKnown /\ [Next]_vars => SetupKnown'
  <2>1. SetupKnown /\ GiveUp => SetupKnown'
    BY DEF GiveUp, SetupKnown, wireVars, msgVars
  <2>2. SetupKnown /\ UNCHANGED vars => SetupKnown'
    BY DEF SetupKnown, vars, hostVars, wireVars, msgVars
  <2> QED BY <2>1, <2>2, HostKeepsSetupKnown, PollKeepsSetupKnown DEF Next
<1>3. SetupKnown => AnswersOwnRequest
  BY DEF SetupKnown, AnswersOwnRequest, Succeeded
<1> QED BY <1>1, <1>2, <1>3, PTL DEF Spec
-----------------------------------------------------------------------------
(***************************************************************************)
(* Byte by byte                                                            *)
(***************************************************************************)

AllRequests == Requests \cup Spelled

RxType ==
  {Free, Other} \cup [token: {"SETUP"}, request: AllRequests, tag: 0 .. Tags]
                \cup [token: {"OUT"}, bytes: Seq(ByteType)]

TxType == {Nak} \cup [pid: {"DATA"}, toggle: {0, 1}, bytes: Seq(ByteType)]

HostTypes ==
  /\ stage \in {"idle", "setup", "data", "status"}
  /\ request \in Requests \cup {Idle} /\ (stage # "idle" => request \in Requests)
  /\ tag \in 0 .. Tags - 1 /\ toggle \in {0, 1} /\ moved \in Nat
  /\ buffer \in Seq(ByteType) /\ outcome \in {"none", "ok", "error"}
  /\ repeated \in BOOLEAN /\ misread \in BOOLEAN
  /\ outcome # "none" => stage = "idle"
  /\ stage = "setup" => moved = 0 /\ buffer = <<>>
  /\ stage = "data" /\ request.kind = "write" => moved <= request.len

WireTypes ==
  /\ usbCurrentTok \in {"none", "SETUP", "OUT"}
  /\ rx \in RxType /\ tx \in TxType /\ txToggle \in {0, 1}
  /\ loop \in {"receive", "build", "astray"}

MsgTypes ==
  /\ msgLen \in 0 .. NoMsg /\ msgPtr \in Nat /\ serving \in 0 .. Tags
  /\ userRW \in BOOLEAN

AppTypes ==
  /\ command \in AllRequests \cup {Idle}
  /\ DOMAIN vectors = Vectors
  /\ \A v \in Vectors : vectors[v] \in [1 .. VectorSize[v] -> ByteType]
  /\ userRW => /\ command \in AllRequests /\ command.kind \in {"read", "write"}
               /\ ioBufferOffset \in 0 .. VectorSize[command.vector]

Types == HostTypes /\ WireTypes /\ MsgTypes /\ AppTypes

LEMMA RequestFact ==
  ASSUME NEW r \in AllRequests
  PROVE  /\ r.kind \in {"read", "write", "reply", "command"}
         /\ r.len \in 0 .. NoMsg /\ (r \in Requests => r.len \in 0 .. NoMsg - 1)
         /\ r.kind \in {"read", "write"} => r.vector \in Vectors
         /\ r.kind \in {"reply", "command"} => r.answer \in Nat \ {0}
         /\ r # Idle
  BY SizesAssumption, BusAssumption DEF AllRequests, RequestType, Idle, NoMsg

LEMMA SizeFact ==
  /\ Chunk \in Nat \ {0} /\ Tags \in Nat \ {0}
  /\ \A v \in Vectors : VectorSize[v] \in 1 .. NoMsg - 1
  BY SizesAssumption

LEMMA BytesFact ==
  ASSUME NEW n \in 0 .. Tags + 1, NEW from \in Nat, NEW len \in Nat
  PROVE  /\ Bytes(n, from, len) \in Seq(ByteType) /\ Len(Bytes(n, from, len)) = len
         /\ \A i \in 1 .. len : Bytes(n, from, len)[i] = Byte(n, from + i)
<1>1. Bytes(n, from, len) \in [1 .. len -> ByteType]
  BY DEF Bytes, Byte, ByteType
<1>2. Bytes(n, from, len) \in Seq(ByteType)
  BY <1>1, SeqDef
<1>3. DOMAIN Bytes(n, from, len) = 1 .. len
  BY DEF Bytes
<1>4. Len(Bytes(n, from, len)) = len
  BY <1>2, <1>3, LenProperties
<1> QED BY <1>2, <1>4 DEF Bytes

\* usbFunctionRead delivers what is left of the vector, but no more than n bytes.
LEMMA ReadFact ==
  ASSUME Types, userRW, NEW n \in Nat
  PROVE  LET bytes == ReadFromVector(n)
             left  == VectorSize[command.vector] - ioBufferOffset
         IN /\ bytes \in Seq(ByteType)
            /\ Len(bytes) = Smaller(n, left) /\ Len(bytes) \in Nat
            /\ \A i \in 1 .. Len(bytes) : bytes[i] = vectors[command.vector][ioBufferOffset + i]
<1> DEFINE v == command.vector
           s == vectors[v]
           k == Fits(v, n)
<1>1. /\ v \in Vectors /\ ioBufferOffset \in 0 .. VectorSize[v] /\ VectorSize[v] \in Nat
      /\ s \in [1 .. VectorSize[v] -> ByteType]
  BY RequestFact, SizeFact DEF Types, AppTypes
<1>2. k \in Nat /\ k = Smaller(n, VectorSize[v] - ioBufferOffset) /\ ioBufferOffset + k <= VectorSize[v]
  BY <1>1 DEF Fits, Smaller
<1>3. \A i \in ioBufferOffset + 1 .. ioBufferOffset + k : s[i] \in ByteType
  BY <1>1, <1>2
<1> DEFINE bytes == SubSeq(s, ioBufferOffset + 1, ioBufferOffset + k)
<1>4. ioBufferOffset + 1 \in Int /\ ioBufferOffset + k \in Int /\ ioBufferOffset \in Nat
  BY <1>1, <1>2
<1>5. /\ bytes \in Seq(ByteType)
      /\ Len(bytes) = IF ioBufferOffset + 1 <= ioBufferOffset + k
                      THEN (ioBufferOffset + k) - (ioBufferOffset + 1) + 1 ELSE 0
      /\ \A i \in 1 .. (ioBufferOffset + k) - (ioBufferOffset + 1) + 1 :
           bytes[i] = s[(ioBufferOffset + 1) + i - 1]
  <2> HIDE DEF s, k
  <2> QED BY <1>3, <1>4, SubSeqProperties
<1>6. Len(bytes) = k /\ \A i \in 1 .. k : bytes[i] = s[ioBufferOffset + i]
  <2> HIDE DEF s, k, bytes
  <2> QED BY <1>2, <1>4, <1>5
<1>7. bytes = ReadFromVector(n)
  BY DEF ReadFromVector
<1> HIDE DEF s, k, bytes
<1> QED BY <1>2, <1>5, <1>6, <1>7 DEF v, s, k

LEMMA InitTypes == Init => Types
<1> SUFFICES ASSUME Init PROVE Types
  OBVIOUS
<1>1. /\ tag \in 0 .. Tags - 1 /\ serving \in 0 .. Tags /\ msgLen \in 0 .. NoMsg
  BY SizeFact DEF Init, NoMsg
<1>2. ASSUME NEW v \in Vectors PROVE vectors[v] \in [1 .. VectorSize[v] -> ByteType]
  <2>1. vectors[v] = Bytes(Tags, 0, VectorSize[v])
    BY DEF Init, NoRequest
  <2> QED BY <2>1, SizeFact DEF Bytes, Byte, ByteType
<1>3. buffer \in Seq(ByteType)
  BY EmptySeq DEF Init
<1> QED BY <1>1, <1>2, <1>3
        DEF Init, Types, HostTypes, WireTypes, MsgTypes, AppTypes, RxType, TxType

LEMMA TokenFact ==
  ASSUME Types, NEW token \in {"SETUP", "OUT"}, NEW fate
  PROVE  TokenAfter(token, fate) \in {"none", token, usbCurrentTok}
  BY DEF TokenAfter

LEMMA SetupBytesFact == SetupBytes \in Seq(ByteType)
<1>1. Tags + 1 \in 0 .. Tags + 1 /\ 0 \in Nat /\ Chunk \in Nat
  BY SizeFact
<1> QED BY <1>1, BytesFact DEF SetupBytes

LEMMA HostKeepsTypes == Types /\ (Host \/ GiveUp) => Types'
<1> SUFFICES ASSUME Types, Host \/ GiveUp PROVE Types'
  OBVIOUS
<1> USE DEF hostVars, wireVars, msgVars, appVars
<1>1. ASSUME NEW r \in Requests, Submit(r) PROVE Types'
  <2>1. (tag + 1) % Tags \in 0 .. Tags - 1
    BY SizeFact DEF Types, HostTypes
  <2>2. buffer' \in Seq(ByteType)
    BY <1>1, EmptySeq DEF Submit
  <2> QED BY <1>1, <2>1, <2>2
          DEF Submit, Types, HostTypes, WireTypes, MsgTypes, AppTypes
<1>2. ASSUME NEW fate, NEW data, NEW ack, SetupPacket(fate, data, ack) PROVE Types'
  <2>1. rx' \in RxType
    <3>1. /\ rx \in RxType /\ SetupBytes \in Seq(ByteType)
          /\ request \in AllRequests /\ tag \in 0 .. Tags
      BY <1>2, SizeFact, SetupBytesFact DEF SetupPacket, Types, HostTypes, WireTypes, AllRequests
    <3>2. \/ rx' = rx
          \/ rx' = [token |-> "SETUP", request |-> request, tag |-> tag]
          \/ rx' = [token |-> "OUT", bytes |-> SetupBytes]
      BY <1>2 DEF SetupPacket
    <3> QED BY <3>1, <3>2 DEF RxType
  <2>2. usbCurrentTok' \in {"none", "SETUP", "OUT"}
    BY <1>2, TokenFact DEF SetupPacket, Types, WireTypes
  <2>3. HostTypes'
    <3>1. misread' \in BOOLEAN
      BY <1>2, Zenon DEF SetupPacket
    <3>2. stage = "setup" /\ stage' \in {"setup", NextStage}
          /\ UNCHANGED <<request, tag, toggle, moved, buffer, outcome, repeated>>
      BY <1>2 DEF SetupPacket
    <3>3. request \in Requests /\ moved = 0 /\ buffer = <<>>
      BY <3>2 DEF Types, HostTypes
    <3>4. request.len \in 0 .. NoMsg
      BY <3>3, RequestFact DEF AllRequests
    <3>5. stage' \in {"setup", "data", "status"}
      BY <3>2 DEF NextStage
    <3>6. request.len \in Nat
      BY <3>4 DEF NoMsg
    <3> QED BY <3>1, <3>2, <3>3, <3>5, <3>6 DEF Types, HostTypes
  <2> QED BY <1>2, <2>1, <2>2, <2>3 DEF SetupPacket, Types, WireTypes, MsgTypes, AppTypes
<1>3. ASSUME NEW fate, NEW data, NEW ack, OutPacket(fate, data, ack) PROVE Types'
  <2> DEFINE n == Smaller(Chunk, request.len - moved)
  <2>1. n \in Nat /\ moved \in Nat /\ moved + n <= request.len /\ tag \in 0 .. Tags + 1
    BY <1>3, SizeFact, RequestFact DEF OutPacket, Types, HostTypes, Smaller, AllRequests
  <2>2. rx' \in RxType
    <3>1. \/ rx' = rx
          \/ rx' = [token |-> "OUT", bytes |-> Bytes(tag, moved, n)]
          \/ rx' \in Misread(Bytes(tag, moved, n))
      BY <1>3 DEF OutPacket
    <3>2. NoRequest \in 0 .. Tags
      BY SizeFact DEF NoRequest
    <3>3. Misread(Bytes(tag, moved, n)) \subseteq RxType
      BY <3>2 DEF Misread, RxType, AllRequests
    <3>4. CASE rx' = [token |-> "OUT", bytes |-> Bytes(tag, moved, n)]
      BY <2>1, <3>4, BytesFact DEF RxType
    <3> QED BY <3>1, <3>3, <3>4 DEF Types, WireTypes
  <2>3. usbCurrentTok' \in {"none", "SETUP", "OUT"}
    BY <1>3, TokenFact DEF OutPacket, Types, WireTypes
  <2>4. HostTypes'
    <3>1. /\ moved' \in {moved, moved + n} /\ stage' \in {"data", "status"}
          /\ UNCHANGED <<request, tag, toggle, buffer, outcome>> /\ stage = "data"
      BY <1>3 DEF OutPacket
    <3>2. repeated' \in BOOLEAN /\ misread' \in BOOLEAN
      BY <1>3, Zenon DEF OutPacket
    <3> HIDE DEF n
    <3> QED BY <2>1, <3>1, <3>2 DEF Types, HostTypes
  <2> QED BY <1>3, <2>2, <2>3, <2>4 DEF OutPacket, Types, WireTypes, MsgTypes, AppTypes
<1>4. ASSUME NEW ack, InPacket(ack) PROVE Types'
  <2>1. tx \in [pid: {"DATA"}, toggle: {0, 1}, bytes: Seq(ByteType)]
    BY <1>4 DEF InPacket, SendsData, Types, WireTypes, TxType
  <2>2. buffer \o tx.bytes \in Seq(ByteType)
    BY <2>1, ConcatProperties DEF Types, HostTypes
  <2>3. HostTypes'
    <3>1. /\ stage' \in {"data", "status"} /\ stage = "data" /\ request.kind # "write"
          /\ UNCHANGED <<request, tag, moved, outcome, repeated, misread>>
      BY <1>4 DEF InPacket, Accept, IsIn, Types, HostTypes
    <3>2. buffer' \in Seq(ByteType) /\ toggle' \in {0, 1}
      <4>1. toggle \in {0, 1} /\ buffer \in Seq(ByteType)
        BY DEF Types, HostTypes
      <4>2. \/ buffer' = buffer \o tx.bytes /\ toggle' = 1 - toggle
            \/ UNCHANGED <<buffer, toggle>>
        BY <1>4 DEF InPacket, Accept
      <4>3. buffer' \in Seq(ByteType)
        BY <2>2, <4>1, <4>2 DEF ByteType
      <4>4. toggle' \in {0, 1}
        BY <4>1, <4>2
      <4> QED BY <4>3, <4>4
    <3> QED BY <3>1, <3>2 DEF Types, HostTypes
  <2> QED BY <1>4, <2>3 DEF InPacket, AfterAck, Types, WireTypes, MsgTypes, AppTypes, TxType
<1>5. ASSUME NEW ack, StatusIn(ack) PROVE Types'
  BY <1>5 DEF StatusIn, AfterAck, Types, HostTypes, WireTypes, MsgTypes, AppTypes, TxType
<1>6. ASSUME NEW fate, NEW data, NEW ack, StatusOut(fate, data, ack) PROVE Types'
  <2>1. usbCurrentTok' \in {"none", "SETUP", "OUT"}
    BY <1>6, TokenFact DEF StatusOut, Types, WireTypes
  <2> QED BY <1>6, <2>1 DEF StatusOut, Types, HostTypes, WireTypes, MsgTypes, AppTypes
<1>7. ASSUME NEW fate, InLost(fate) PROVE Types'
  <2>1. \/ UNCHANGED usbCurrentTok
        \/ usbCurrentTok' = TokenAfter("IN", fate) /\ fate # "heard"
    BY <1>7 DEF InLost
  <2>2. usbCurrentTok' \in {"none", "SETUP", "OUT"}
    BY <2>1 DEF TokenAfter, Types, WireTypes
  <2>3. tx' \in TxType
    BY <1>7 DEF InLost, Types, WireTypes, TxType
  <2> QED BY <1>7, <2>2, <2>3 DEF InLost, Types, HostTypes, WireTypes, MsgTypes, AppTypes
<1>8. CASE GiveUp
  <2>1. buffer' \in Seq(ByteType)
    BY <1>8, EmptySeq DEF GiveUp
  <2> QED BY <1>8, <2>1 DEF GiveUp, Types, HostTypes, WireTypes, MsgTypes, AppTypes
<1> QED BY <1>1, <1>2, <1>3, <1>4, <1>5, <1>6, <1>7, <1>8 DEF Host

LEMMA PollKeepsTypes == Types /\ Poll => Types'
<1> SUFFICES ASSUME Types, Poll PROVE Types'
  OBVIOUS
<1> USE DEF hostVars, wireVars, msgVars, appVars
<1>1. CASE ProcessSetup
  <2> DEFINE r == rx.request
  <2>1. r \in AllRequests /\ rx.tag \in 0 .. Tags
    BY <1>1 DEF ProcessSetup, Types, WireTypes, RxType, Free, Other
  <2>2. ReplyLen(r) \in 0 .. NoMsg
    BY <2>1, RequestFact DEF ReplyLen, Smaller, NoMsg
  <2>3. MsgTypes'
    BY <1>1, <2>1, <2>2 DEF ProcessSetup, MsgTypes
  <2>4. AppTypes'
    <3>1. CASE r.kind \in {"read", "write"}
      BY <1>1, <2>1, <3>1, RequestFact, SizeFact DEF ProcessSetup, Rewind, Types, AppTypes
    <3>2. CASE r.kind \notin {"read", "write"}
      BY <1>1, <2>1, <3>2 DEF ProcessSetup, Types, AppTypes
    <3> QED BY <3>1, <3>2
  <2> QED BY <1>1, <2>3, <2>4
          DEF ProcessSetup, AbortTransmit, Types, HostTypes, WireTypes, RxType, TxType
<1>2. CASE ProcessOut
  <2>1. rx.bytes \in Seq(ByteType)
    BY <1>2 DEF ProcessOut, Types, WireTypes, RxType, Free, Other
  <2>2. userRW /\ command.kind = "write"
    BY <1>2 DEF ProcessOut, Writes
  <2> DEFINE v == command.vector
             n == Fits(v, Len(rx.bytes))
  <2>3. /\ v \in Vectors /\ ioBufferOffset \in 0 .. VectorSize[v] /\ VectorSize[v] \in Nat
        /\ command \in AllRequests /\ vectors[v] \in [1 .. VectorSize[v] -> ByteType]
    BY <2>2, RequestFact, SizeFact DEF Types, AppTypes
  <2>4. Len(rx.bytes) \in Nat /\ \A i \in 1 .. Len(rx.bytes) : rx.bytes[i] \in ByteType
    BY <2>1, LenProperties, ElementOfSeq
  <2>5. n \in Nat /\ n <= Len(rx.bytes) /\ ioBufferOffset + n <= VectorSize[v]
    BY <2>3, <2>4 DEF Fits, Smaller
  <2> DEFINE w == [i \in 1 .. VectorSize[v] |->
                     IF i \in ioBufferOffset + 1 .. ioBufferOffset + n
                     THEN rx.bytes[i - ioBufferOffset] ELSE vectors[v][i]]
  <2>6. w \in [1 .. VectorSize[v] -> ByteType]
    <3>1. ASSUME NEW i \in 1 .. VectorSize[v], i \in ioBufferOffset + 1 .. ioBufferOffset + n
          PROVE  rx.bytes[i - ioBufferOffset] \in ByteType
      <4>1. i - ioBufferOffset \in 1 .. Len(rx.bytes)
        BY <2>3, <2>4, <2>5, <3>1
      <4> QED BY <4>1, <2>4
    <3> QED BY <3>1, <2>3
  <2>7. vectors' = [vectors EXCEPT ![v] = w]
    BY <1>2, <2>2, <2>3 DEF ProcessOut
  <2>8. ASSUME NEW u \in Vectors PROVE vectors'[u] \in [1 .. VectorSize[u] -> ByteType]
    <3>1. vectors'[u] = IF u = v THEN w ELSE vectors[u]
      BY <2>7 DEF Types, AppTypes
    <3> QED BY <3>1, <2>6 DEF Types, AppTypes
  <2>9. ioBufferOffset' = ioBufferOffset + n /\ UNCHANGED <<userRW, command>>
    BY <1>2, <2>2 DEF ProcessOut
  <2>10. AppTypes'
    <3>1. DOMAIN vectors' = Vectors
      BY <2>7 DEF Types, AppTypes
    <3> QED BY <2>3, <2>5, <2>8, <2>9, <3>1 DEF Types, AppTypes
  <2>11. MsgTypes'
    BY <1>2, <2>2 DEF ProcessOut, Types, MsgTypes, NoMsg
  <2> QED BY <1>2, <2>10, <2>11 DEF ProcessOut, Types, HostTypes, WireTypes, RxType
<1>3. CASE BuildTxBlock
  <2> DEFINE n == Smaller(msgLen, Chunk)
             bytes == IF userRW /\ n > 0 THEN ReadFromVector(n) ELSE Bytes(serving, msgPtr, n)
  <2>1. msgLen \in Nat /\ n \in Nat /\ n <= msgLen /\ n <= Chunk /\ Chunk \in Nat
    BY SizeFact DEF Types, MsgTypes, Smaller, NoMsg
  <2>2. /\ bytes \in Seq(ByteType) /\ Len(bytes) \in Nat /\ Len(bytes) <= n
        /\ userRW => Len(bytes) <= VectorSize[command.vector] - ioBufferOffset
    <3>1. CASE userRW /\ n > 0
      <4>1. bytes = ReadFromVector(n)
        BY <3>1
      <4>2. /\ bytes \in Seq(ByteType) /\ Len(bytes) \in Nat
            /\ Len(bytes) = Smaller(n, VectorSize[command.vector] - ioBufferOffset)
        BY <2>1, <3>1, <4>1, ReadFact
      <4>3. VectorSize[command.vector] - ioBufferOffset \in Nat
        BY <3>1, RequestFact, SizeFact DEF Types, AppTypes
      <4> HIDE DEF n, bytes
      <4> QED BY <2>1, <4>2, <4>3 DEF Smaller
    <3>2. CASE ~(userRW /\ n > 0)
      <4>1. bytes = Bytes(serving, msgPtr, n)
        BY <3>2
      <4>2. serving \in 0 .. Tags + 1 /\ msgPtr \in Nat
        BY SizeFact DEF Types, MsgTypes
      <4>3. userRW => n = 0 /\ VectorSize[command.vector] - ioBufferOffset \in Nat
        BY <2>1, <3>2, RequestFact, SizeFact DEF Types, AppTypes
      <4> HIDE DEF n, bytes
      <4>4. Bytes(serving, msgPtr, n) \in Seq(ByteType) /\ Len(Bytes(serving, msgPtr, n)) = n
        BY <2>1, <4>2, BytesFact
      <4> QED BY <2>1, <4>1, <4>3, <4>4
    <3> QED BY <3>1, <3>2
  <2>3. /\ tx' = Packet(NextToggle, bytes)
        /\ msgLen' = IF Len(bytes) < Chunk THEN NoMsg ELSE msgLen - n
        /\ IF userRW THEN ioBufferOffset' = ioBufferOffset + Len(bytes) /\ UNCHANGED msgPtr
           ELSE msgPtr' = msgPtr + n /\ UNCHANGED ioBufferOffset
    BY <1>3 DEF BuildTxBlock
  <2> HIDE DEF n, bytes
  <2>4. WireTypes'
    BY <1>3, <2>2, <2>3 DEF BuildTxBlock, NextToggle, Packet, Types, WireTypes, TxType
  <2>5. MsgTypes'
    <3>1. msgLen' \in 0 .. NoMsg
      BY <2>1, <2>3 DEF Types, MsgTypes, NoMsg
    <3>2. msgPtr' \in Nat
      BY <2>1, <2>3 DEF Types, MsgTypes
    <3>3. UNCHANGED <<userRW, serving>>
      BY <1>3 DEF BuildTxBlock
    <3> QED BY <3>1, <3>2, <3>3 DEF Types, MsgTypes
  <2>6. AppTypes'
    <3>1. CASE userRW
      <4>1. VectorSize[command.vector] \in Nat
        BY <3>1, RequestFact, SizeFact DEF Types, AppTypes
      <4> QED BY <1>3, <2>2, <2>3, <3>1, <4>1 DEF BuildTxBlock, Types, AppTypes
    <3>2. CASE ~userRW
      BY <1>3, <2>3, <3>2 DEF BuildTxBlock, Types, AppTypes
    <3> QED BY <3>1, <3>2
  <2> QED BY <1>3, <2>4, <2>5, <2>6 DEF BuildTxBlock, Types, HostTypes
<1>4. CASE NothingToSend
  BY <1>4 DEF NothingToSend, Types, HostTypes, WireTypes, MsgTypes, AppTypes
<1>5. CASE ProcessNothing \/ ProcessAstray
  BY <1>5 DEF ProcessNothing, ProcessAstray, Types, HostTypes, WireTypes, MsgTypes, AppTypes, RxType
<1> QED BY <1>1, <1>2, <1>3, <1>4, <1>5 DEF Poll

LEMMA NextKeepsTypes == Types /\ [Next]_vars => Types'
<1> SUFFICES ASSUME Types, [Next]_vars PROVE Types'
  OBVIOUS
<1>1. CASE Host \/ GiveUp
  BY <1>1, HostKeepsTypes
<1>2. CASE Poll
  BY <1>2, PollKeepsTypes
<1>3. CASE UNCHANGED vars
  BY <1>3 DEF vars, hostVars, wireVars, msgVars, appVars,
              Types, HostTypes, WireTypes, MsgTypes, AppTypes
<1> QED BY <1>1, <1>2, <1>3 DEF Next

LEMMA TypesHold == Spec => []Types
BY InitTypes, NextKeepsTypes, PTL DEF Spec

\* Every variable keeps the type of its C variable and the two callbacks never leave
\* the vector of the request they serve, for vectors of all sizes and payloads longer
\* than them too.  What ProcessAstray writes without a vector is not in the variables.
THEOREM TypesCorrect == Spec => []TypeOK
<1>1. Types => TypeOK
  <2> SUFFICES ASSUME Types PROVE TypeOK
    OBVIOUS
  <2>1. tx = Nak \/ (tx.toggle \in {0, 1} /\ tx.bytes \in Seq(ByteType))
    BY DEF Types, WireTypes, TxType
  <2>2. rx.token \in {"none", "SETUP", "OUT", "other"}
    BY DEF Types, WireTypes, RxType, Free, Other
  <2> QED BY <2>1, <2>2 DEF TypeOK, AllRequests, Types, HostTypes, WireTypes, MsgTypes, AppTypes
<1> QED BY <1>1, TypesHold, PTL
-----------------------------------------------------------------------------
(***************************************************************************)
(* Writes.  Once the host has seen its setup packet acknowledged, the      *)
(* firmware either still holds that packet or writes for it, and is never  *)
(* behind what the host counts as moved, as long as it is not misread.     *)
(***************************************************************************)
Accepted == stage \in {"data", "status"} \/ (stage = "idle" /\ outcome = "ok")

Writing == Accepted /\ request.kind = "write" /\ ~misread

Payload == IF rx.token = "OUT" THEN rx.bytes ELSE <<>>

Done == ioBufferOffset + Len(Payload)

SetupHeld ==
  rx.token = "SETUP" =>
    rx.request = request /\ rx.tag = tag /\ stage = "data" /\ moved = 0

WriteGoesOn ==
  rx.token # "SETUP" =>
    /\ command = request /\ userRW /\ msgLen \in {0, NoMsg}
    /\ moved <= Done
    /\ \A i \in 1 .. ioBufferOffset : vectors[request.vector][i].by = tag
    /\ \A i \in 1 .. Len(Payload) : Payload[i].by = tag
    /\ ~repeated =>
         /\ moved = Done
         /\ \A i \in 1 .. ioBufferOffset : vectors[request.vector][i] = Byte(tag, i)
         /\ \A i \in 1 .. Len(Payload) : Payload[i] = Byte(tag, ioBufferOffset + i)

WriteInv ==
  Writing => /\ SetupHeld /\ WriteGoesOn
             /\ moved <= request.len
             /\ stage # "data" => moved = request.len
             /\ stage = "idle" => rx = Free

PayloadsFit == \A r \in Requests : r.kind = "write" => r.len <= VectorSize[r.vector]

\* usbFunctionWrite puts the bytes of a packet behind the ones before, as far as they fit.
LEMMA WriteFact ==
  ASSUME Types, ProcessOut, userRW, command.kind = "write"
  PROVE  LET v == command.vector
             n == Smaller(Len(rx.bytes), VectorSize[v] - ioBufferOffset)
         IN /\ v \in Vectors /\ ioBufferOffset \in Nat /\ VectorSize[v] \in Nat
            /\ rx.bytes \in Seq(ByteType) /\ Len(rx.bytes) \in Nat
            /\ n \in Nat /\ n <= Len(rx.bytes) /\ ioBufferOffset + n <= VectorSize[v]
            /\ ioBufferOffset' = ioBufferOffset + n
            /\ \A i \in 1 .. ioBufferOffset : vectors'[v][i] = vectors[v][i]
            /\ \A i \in ioBufferOffset + 1 .. ioBufferOffset + n :
                 vectors'[v][i] = rx.bytes[i - ioBufferOffset]
<1> DEFINE v == command.vector
           n == Smaller(Len(rx.bytes), VectorSize[v] - ioBufferOffset)
<1>1. /\ v \in Vectors /\ ioBufferOffset \in 0 .. VectorSize[v] /\ VectorSize[v] \in Nat
      /\ vectors[v] \in [1 .. VectorSize[v] -> ByteType] /\ DOMAIN vectors = Vectors
  BY RequestFact, SizeFact DEF Types, AppTypes
<1>2. rx.bytes \in Seq(ByteType) /\ Len(rx.bytes) \in Nat
  BY LenProperties DEF ProcessOut, Types, WireTypes, RxType, Free, Other
<1>3. n \in Nat /\ n <= Len(rx.bytes) /\ ioBufferOffset + n <= VectorSize[v]
  BY <1>1, <1>2 DEF Smaller
<1>4. ioBufferOffset' = ioBufferOffset + n
  BY DEF ProcessOut, Fits
<1>5. vectors'[v] = [i \in 1 .. VectorSize[v] |->
                       IF i \in ioBufferOffset + 1 .. ioBufferOffset + n
                       THEN rx.bytes[i - ioBufferOffset] ELSE vectors[v][i]]
  BY <1>1 DEF ProcessOut, Fits
<1> HIDE DEF v, n
<1>6. \A i \in 1 .. ioBufferOffset : vectors'[v][i] = vectors[v][i]
  BY <1>1, <1>3, <1>5
<1>7. \A i \in ioBufferOffset + 1 .. ioBufferOffset + n : vectors'[v][i] = rx.bytes[i - ioBufferOffset]
  BY <1>1, <1>3, <1>5
<1> QED BY <1>1, <1>2, <1>3, <1>4, <1>6, <1>7 DEF v, n

LEMMA HostKeepsWrite ==
  ASSUME PayloadsFit, Types, WriteInv, Host \/ GiveUp
  PROVE  WriteInv'
<1> SUFFICES ASSUME Writing' PROVE /\ SetupHeld' /\ WriteGoesOn'
                                   /\ (moved <= request.len)'
                                   /\ (stage # "data" => moved = request.len)'
                                   /\ (stage = "idle" => rx = Free)'
  BY DEF WriteInv
<1> USE DEF hostVars, wireVars, msgVars, appVars, Writing, Accepted
<1>1. ASSUME NEW r \in Requests, Submit(r) PROVE FALSE
  BY <1>1 DEF Submit
<1>2. ASSUME NEW fate, NEW data, NEW ack, SetupPacket(fate, data, ack) PROVE WriteInv'
  <2>1. stage = "setup" /\ UNCHANGED <<request, tag, moved, outcome>>
    BY <1>2 DEF SetupPacket
  <2>2. outcome = "none"
    BY <2>1 DEF Types, HostTypes
  <2>3. /\ rx' = [token |-> "SETUP", request |-> request, tag |-> tag]
        /\ stage' = NextStage
    BY <1>2, <2>1, <2>2, SetupPacketFact
  <2>4. stage' = "data" /\ moved = 0 /\ request \in Requests
    BY <2>1, <2>3 DEF NextStage, Types, HostTypes
  <2>5. request.len \in 0 .. NoMsg
    BY <2>4, RequestFact DEF AllRequests
  <2> QED BY <2>1, <2>3, <2>4, <2>5 DEF WriteInv, SetupHeld, WriteGoesOn, NoMsg
<1>3. ASSUME NEW fate, NEW data, NEW ack, OutPacket(fate, data, ack) PROVE WriteInv'
  <2> DEFINE n == Smaller(Chunk, request.len - moved)
  <2>1. /\ n \in Nat /\ moved \in Nat /\ moved + n <= request.len /\ tag \in 0 .. Tags + 1
        /\ request.len \in Nat
    <3>1. request \in Requests /\ moved \in Nat /\ moved <= request.len /\ tag \in 0 .. Tags - 1
      BY <1>3 DEF OutPacket, Types, HostTypes
    <3>2. request.len \in 0 .. NoMsg
      BY <3>1, RequestFact DEF AllRequests
    <3> QED BY <3>1, <3>2, SizeFact DEF Smaller, NoMsg
  <2>2. /\ stage = "data" /\ request.kind = "write" /\ Writing /\ WriteInv
        /\ UNCHANGED <<request, tag, command, userRW, msgLen, ioBufferOffset, vectors>>
        /\ ~repeated' => ~repeated
        /\ \/ rx' = rx /\ UNCHANGED <<moved, stage>>
           \/ /\ rx = Free /\ rx' = [token |-> "OUT", bytes |-> Bytes(tag, moved, n)]
              /\ \/ ack /\ moved' = moved + n
                        /\ stage' = IF moved' = request.len THEN "status" ELSE stage
                 \/ ~ack /\ repeated' /\ UNCHANGED <<moved, stage>>
    <3>1. UNCHANGED <<request, tag, command, userRW, msgLen, ioBufferOffset, vectors>>
      BY <1>3 DEF OutPacket
    <3> QED BY <1>3, <3>1, OutPacketFact
  <2>3. CASE rx' = rx /\ UNCHANGED <<moved, stage>>
    BY <2>2, <2>3 DEF WriteInv, WriteGoesOn, SetupHeld, Payload, Done
  <2>4. CASE /\ rx = Free /\ rx' = [token |-> "OUT", bytes |-> Bytes(tag, moved, n)]
             /\ \/ ack /\ moved' = moved + n
                       /\ stage' = IF moved' = request.len THEN "status" ELSE stage
                \/ ~ack /\ repeated' /\ UNCHANGED <<moved, stage>>
    <3>1. WriteGoesOn /\ rx.token # "SETUP" /\ Payload = <<>>
      BY <2>2, <2>4 DEF WriteInv, Free, Payload
    <3>2. /\ Payload' = Bytes(tag, moved, n) /\ Len(Payload') = n
          /\ \A i \in 1 .. n : Payload'[i] = Byte(tag, moved + i)
      BY <2>1, <2>4, BytesFact DEF Payload
    <3>3. Done = ioBufferOffset /\ Done' = ioBufferOffset + n /\ ioBufferOffset \in Nat
      BY <2>2, <3>1, <3>2, RequestFact, SizeFact, EmptySeq DEF Done, WriteGoesOn, Types, AppTypes
    <3> HIDE DEF n
    <3>4. WriteGoesOn'
      <4>1. command' = request' /\ userRW' /\ msgLen' \in {0, NoMsg} /\ moved' <= Done'
        BY <2>1, <2>2, <2>4, <3>1, <3>3 DEF WriteGoesOn
      <4>2. \A i \in 1 .. ioBufferOffset' : vectors'[request'.vector][i].by = tag'
        BY <2>2, <3>1 DEF WriteGoesOn
      <4>3. \A i \in 1 .. Len(Payload') : Payload'[i].by = tag'
        BY <2>2, <3>2 DEF Byte
      <4>4. CASE ~repeated'
        <5>1. ack /\ ~repeated /\ moved' = moved + n
          BY <2>2, <2>4, <4>4
        <5>2. moved = ioBufferOffset /\ moved' = Done'
          BY <2>1, <2>2, <3>1, <3>3, <5>1 DEF WriteGoesOn
        <5>3. \A i \in 1 .. ioBufferOffset' : vectors'[request'.vector][i] = Byte(tag', i)
          BY <2>2, <3>1, <5>1 DEF WriteGoesOn
        <5>4. \A i \in 1 .. Len(Payload') : Payload'[i] = Byte(tag', ioBufferOffset' + i)
          BY <2>2, <3>2, <5>2
        <5> QED BY <4>1, <4>2, <4>3, <5>2, <5>3, <5>4 DEF WriteGoesOn
      <4> QED BY <4>1, <4>2, <4>3, <4>4 DEF WriteGoesOn
    <3>5. SetupHeld'
      BY <2>4 DEF SetupHeld
    <3>6. (moved <= request.len)' /\ (stage # "data" => moved = request.len)' /\ stage' # "idle"
      BY <2>1, <2>2, <2>4
    <3> QED BY <3>4, <3>5, <3>6 DEF WriteInv
  <2> HIDE DEF n
  <2> QED BY <2>2, <2>3, <2>4
<1>4. ASSUME NEW ack, InPacket(ack) PROVE FALSE
  BY <1>4 DEF InPacket, IsIn
<1>5. ASSUME NEW ack, StatusIn(ack) PROVE WriteInv'
  <2>1. /\ stage = "status" /\ rx = Free
        /\ UNCHANGED <<request, tag, moved, repeated, misread, rx, userRW, msgLen, command,
                       ioBufferOffset, vectors>>
    BY <1>5 DEF StatusIn, SendsData
  <2>2. WriteInv /\ Writing /\ Payload' = Payload /\ Done' = Done
    BY <2>1 DEF Payload, Done
  <2> QED BY <2>1, <2>2 DEF WriteInv, WriteGoesOn, SetupHeld, Free
<1>6. ASSUME NEW fate, NEW data, NEW ack, StatusOut(fate, data, ack) PROVE FALSE
  BY <1>6 DEF StatusOut, IsIn
<1>7. ASSUME NEW fate, InLost(fate) PROVE WriteInv'
  <2>1. UNCHANGED <<stage, outcome, request, tag, moved, repeated, misread, rx, userRW, msgLen,
                    command, ioBufferOffset, vectors>>
    BY <1>7 DEF InLost
  <2> QED BY <2>1 DEF WriteInv, WriteGoesOn, SetupHeld, Payload, Done
<1>8. CASE GiveUp
  BY <1>8 DEF GiveUp
<1> QED BY <1>1, <1>2, <1>3, <1>4, <1>5, <1>6, <1>7, <1>8 DEF Host, WriteInv

LEMMA PollKeepsWrite ==
  ASSUME PayloadsFit, Types, WriteInv, Poll
  PROVE  WriteInv'
<1> USE DEF hostVars, wireVars, msgVars, appVars
<1>0. UNCHANGED hostVars
  BY DEF Poll, ProcessSetup, ProcessOut, ProcessNothing, ProcessAstray, BuildTxBlock, NothingToSend
<1> SUFFICES ASSUME Writing PROVE WriteInv'
  BY <1>0 DEF WriteInv, Writing, Accepted
<1>a. /\ SetupHeld /\ WriteGoesOn /\ moved <= request.len
      /\ stage # "data" => moved = request.len
      /\ stage = "idle" => rx = Free
      /\ request \in Requests /\ request.len \in Nat /\ moved \in Nat
      /\ request.len <= VectorSize[request.vector] /\ request.kind = "write"
  <2>1. request \in Requests /\ moved \in Nat /\ request.kind = "write"
    BY DEF Writing, Types, HostTypes, Idle
  <2>2. request.len \in Nat /\ request.len <= VectorSize[request.vector]
    BY <2>1, RequestFact DEF PayloadsFit, NoMsg, AllRequests
  <2> QED BY <2>1, <2>2 DEF WriteInv
<1>1. CASE ProcessSetup
  <2>1. rx.request = request /\ rx.tag = tag /\ stage = "data" /\ moved = 0 /\ rx' = Free
    BY <1>1, <1>a DEF ProcessSetup, SetupHeld
  <2>2. command' = request /\ userRW' /\ msgLen' = NoMsg /\ ioBufferOffset' = 0
    BY <1>1, <2>1, <1>a DEF ProcessSetup, Rewind, ReplyLen
  <2>3. Payload' = <<>> /\ Len(Payload') = 0 /\ Done' = 0
    BY <2>1, <2>2, EmptySeq DEF Payload, Free, Done
  <2>4. WriteGoesOn'
    BY <1>0, <2>1, <2>2, <2>3 DEF WriteGoesOn
  <2> QED BY <1>0, <1>a, <2>1, <2>4 DEF WriteInv, SetupHeld, Free
<1>2. CASE ProcessOut
  <2>1. /\ rx.token = "OUT" /\ rx' = Free /\ UNCHANGED <<userRW, command>>
        /\ userRW /\ command = request /\ Payload = rx.bytes
    BY <1>2, <1>a DEF ProcessOut, WriteGoesOn, Payload
  <2> DEFINE v == request.vector
             n == Smaller(Len(rx.bytes), VectorSize[v] - ioBufferOffset)
  <2>2. /\ ioBufferOffset \in Nat /\ VectorSize[v] \in Nat /\ Len(rx.bytes) \in Nat
        /\ n \in Nat /\ n <= Len(rx.bytes) /\ ioBufferOffset + n <= VectorSize[v]
        /\ ioBufferOffset' = ioBufferOffset + n
        /\ \A i \in 1 .. ioBufferOffset : vectors'[v][i] = vectors[v][i]
        /\ \A i \in ioBufferOffset + 1 .. ioBufferOffset + n :
             vectors'[v][i] = rx.bytes[i - ioBufferOffset]
    BY <1>2, <1>a, <2>1, WriteFact
  <2>3. msgLen' \in {0, NoMsg}
    BY <1>2, <1>a, <2>1 DEF ProcessOut, WriteGoesOn
  <2>4. Payload' = <<>> /\ Len(Payload') = 0 /\ Done' = ioBufferOffset + n
    BY <2>1, <2>2, EmptySeq DEF Payload, Free, Done
  <2>5. /\ moved <= ioBufferOffset + Len(rx.bytes)
        /\ moved <= VectorSize[v]
    BY <1>a, <2>1, <2>2 DEF WriteGoesOn, Done
  <2>6. moved <= ioBufferOffset + n
    BY <1>a, <2>2, <2>5 DEF Smaller
  <2>7. \A i \in 1 .. ioBufferOffset + n :
          i \in 1 .. ioBufferOffset \/ (i \in ioBufferOffset + 1 .. ioBufferOffset + n
                                         /\ i - ioBufferOffset \in 1 .. Len(rx.bytes))
    BY <2>2
  <2>8. ASSUME NEW i \in 1 .. ioBufferOffset + n PROVE vectors'[v][i].by = tag
    <3>1. CASE i \in 1 .. ioBufferOffset
      BY <1>a, <2>1, <2>2, <3>1 DEF WriteGoesOn
    <3>2. CASE i \in ioBufferOffset + 1 .. ioBufferOffset + n
               /\ i - ioBufferOffset \in 1 .. Len(rx.bytes)
      BY <1>a, <2>1, <2>2, <3>2 DEF WriteGoesOn
    <3> QED BY <2>7, <3>1, <3>2
  <2>9. ASSUME ~repeated
        PROVE  moved = ioBufferOffset + n
               /\ \A i \in 1 .. ioBufferOffset + n : vectors'[v][i] = Byte(tag, i)
    <3>1. /\ moved = ioBufferOffset + Len(rx.bytes)
          /\ \A i \in 1 .. ioBufferOffset : vectors[v][i] = Byte(tag, i)
          /\ \A i \in 1 .. Len(rx.bytes) : rx.bytes[i] = Byte(tag, ioBufferOffset + i)
      BY <1>a, <2>1, <2>9 DEF WriteGoesOn, Done
    <3>2. moved = ioBufferOffset + n
      BY <2>2, <2>5, <3>1 DEF Smaller
    <3>3. ASSUME NEW i \in 1 .. ioBufferOffset + n PROVE vectors'[v][i] = Byte(tag, i)
      <4>1. CASE i \in 1 .. ioBufferOffset
        BY <2>2, <3>1, <4>1
      <4>2. CASE i \in ioBufferOffset + 1 .. ioBufferOffset + n
                 /\ i - ioBufferOffset \in 1 .. Len(rx.bytes)
        <5>1. vectors'[v][i] = rx.bytes[i - ioBufferOffset]
          BY <2>2, <4>2
        <5>2. rx.bytes[i - ioBufferOffset] = Byte(tag, ioBufferOffset + (i - ioBufferOffset))
          BY <3>1, <4>2
        <5>3. ioBufferOffset + (i - ioBufferOffset) = i
          BY <2>2
        <5> QED BY <5>1, <5>2, <5>3
      <4> QED BY <2>7, <4>1, <4>2
    <3> QED BY <3>2, <3>3
  <2> HIDE DEF n
  <2>10. WriteGoesOn'
    <3>1. /\ UNCHANGED <<request, tag, moved, repeated>> /\ command' = request' /\ userRW'
          /\ ioBufferOffset' = ioBufferOffset + n /\ Done' = ioBufferOffset + n
      BY <1>0, <2>1, <2>2, <2>4
    <3>2. \A i \in 1 .. Len(Payload') : FALSE
      BY <2>4
    <3> QED BY <2>3, <2>6, <2>8, <2>9, <3>1, <3>2 DEF WriteGoesOn
  <2> QED BY <1>0, <1>a, <2>1, <2>10 DEF WriteInv, SetupHeld, Free
<1>3. CASE BuildTxBlock
  <2>1. UNCHANGED <<rx, userRW, command, vectors>>
    BY <1>3 DEF BuildTxBlock
  <2>2. SetupHeld' /\ (stage = "idle" => rx = Free)'
    BY <1>0, <1>a, <2>1 DEF SetupHeld
  <2>3. CASE rx.token = "SETUP"
    BY <1>0, <1>a, <2>1, <2>2, <2>3 DEF WriteInv, WriteGoesOn
  <2>4. CASE rx.token # "SETUP"
    <3>1. msgLen = 0 /\ userRW /\ command = request
      BY <1>3, <1>a, <2>4 DEF BuildTxBlock, Pending, WriteGoesOn
    <3>2. Smaller(msgLen, Chunk) = 0
      BY <3>1, SizeFact DEF Smaller
    <3>3. Len(Bytes(serving, msgPtr, 0)) = 0
      BY BytesFact, SizeFact DEF Types, MsgTypes
    <3>4. ioBufferOffset' = ioBufferOffset + 0 /\ msgLen' = NoMsg
      BY <1>3, <3>1, <3>2, <3>3, SizeFact DEF BuildTxBlock
    <3>5. ioBufferOffset' = ioBufferOffset
      BY <3>1, <3>4, RequestFact, SizeFact DEF Types, AppTypes
    <3>6. WriteGoesOn'
      BY <1>0, <1>a, <2>1, <2>4, <3>4, <3>5 DEF WriteGoesOn, Payload, Done
    <3> QED BY <1>0, <1>a, <2>2, <3>6 DEF WriteInv
  <2> QED BY <2>3, <2>4
<1>4. CASE NothingToSend
  <2>1. UNCHANGED <<rx, userRW, msgLen, command, ioBufferOffset, vectors>>
    BY <1>4 DEF NothingToSend
  <2> QED BY <1>0, <1>a, <2>1 DEF WriteInv, SetupHeld, WriteGoesOn, Payload, Done
<1>5. CASE ProcessNothing
  <2>1. rx.token # "SETUP" /\ rx.token # "OUT" /\ rx' = Free
    <3>1. rx.token # "SETUP"
      BY <1>5 DEF ProcessNothing, Other
    <3>2. Writes
      BY <1>a, <3>1 DEF WriteGoesOn, Writes
    <3> QED BY <1>5, <3>1, <3>2 DEF ProcessNothing, Other
  <2>2. UNCHANGED <<userRW, msgLen, command, ioBufferOffset, vectors>> /\ Payload' = Payload
    BY <1>5, <2>1 DEF ProcessNothing, Payload, Free
  <2> QED BY <1>0, <1>a, <2>1, <2>2 DEF WriteInv, SetupHeld, WriteGoesOn, Done, Free
<1>6. CASE ProcessAstray
  BY <1>a, <1>6 DEF ProcessAstray, Strays, WriteGoesOn
<1> QED BY <1>1, <1>2, <1>3, <1>4, <1>5, <1>6 DEF Poll

LEMMA WriteInvHolds == ASSUME PayloadsFit PROVE Spec => [](Types /\ WriteInv)
<1>1. Init => Types /\ WriteInv
  BY InitTypes DEF Init, WriteInv, Writing, Accepted
<1>2. Types /\ WriteInv /\ [Next]_vars => (Types /\ WriteInv)'
  <2> SUFFICES ASSUME Types, WriteInv, [Next]_vars PROVE WriteInv'
    BY NextKeepsTypes
  <2>1. CASE Host \/ GiveUp
    BY <2>1, HostKeepsWrite
  <2>2. CASE Poll
    BY <2>2, PollKeepsWrite
  <2>3. CASE UNCHANGED vars
    BY <2>3 DEF vars, hostVars, wireVars, msgVars, appVars, WriteInv, Writing, Accepted,
                SetupHeld, WriteGoesOn, Payload, Done
  <2> QED BY <2>1, <2>2, <2>3 DEF Next
<1> QED BY <1>1, <1>2, PTL DEF Spec

LEMMA WriteDone ==
  ASSUME Types, WriteInv, Succeeded, request.kind = "write"
  PROVE  /\ WriteGoesOn /\ rx = Free /\ moved = request.len /\ Done = ioBufferOffset
         /\ ioBufferOffset \in Nat /\ request.len \in Nat /\ request.len <= ioBufferOffset
         /\ request \in Requests /\ command = request
<1>1. stage = "idle" /\ outcome = "ok" /\ ~misread
  BY DEF Succeeded, Types, HostTypes
<1>2. WriteGoesOn /\ moved = request.len /\ rx = Free
  BY <1>1 DEF WriteInv, Writing, Accepted, Free
<1>3. command = request /\ request \in Requests /\ ioBufferOffset \in Nat
  <2>1. command = request /\ userRW /\ request \in Requests
    BY <1>2 DEF WriteGoesOn, Free, Idle, Types, HostTypes
  <2> QED BY <2>1, RequestFact, SizeFact DEF Types, AppTypes
<1>4. Done = ioBufferOffset
  BY <1>2, <1>3, EmptySeq DEF Done, Payload, Free
<1>5. request.len \in 0 .. NoMsg
  BY <1>3, RequestFact DEF AllRequests
<1>6. moved <= Done
  BY <1>2 DEF WriteGoesOn, Free
<1>7. request.len \in Nat /\ request.len <= ioBufferOffset
  BY <1>2, <1>4, <1>5, <1>6 DEF NoMsg
<1> QED BY <1>2, <1>3, <1>4, <1>7

\* Whatever was lost, taken twice, misread before or given up, a write that the host
\* counts as done left no byte of an older payload in the part of the vector it wrote, if
\* none of its own packets was misread.
THEOREM WritesCover == ASSUME PayloadsFit PROVE Spec => []WriteCovers
<1>1. Types /\ WriteInv => WriteCovers
  BY WriteDone DEF WriteCovers, WriteGoesOn, Free
<1> QED BY <1>1, WriteInvHolds, PTL

\* A write of which no packet was taken twice or misread is in the vector byte by byte
\* when the host counts it as done, for payloads of any number of packets.
THEOREM WritesExact == ASSUME PayloadsFit PROVE Spec => []WriteExact
<1>1. Types /\ WriteInv => WriteExact
  <2> SUFFICES ASSUME Types, WriteInv, Succeeded, request.kind = "write", ~repeated
               PROVE  Written(request.vector) = Bytes(tag, 0, request.len)
    BY DEF WriteExact
  <2> DEFINE s == vectors[request.vector]
             k == request.len
  <2>1. /\ k \in Nat /\ k = ioBufferOffset
        /\ \A i \in 1 .. k : s[i] = Byte(tag, i)
    BY WriteDone DEF WriteGoesOn, Free
  <2>2. tag \in 0 .. Tags + 1
    BY SizeFact DEF Types, HostTypes
  <2>3. k <= VectorSize[request.vector] /\ VectorSize[request.vector] \in Nat
        /\ s \in [1 .. VectorSize[request.vector] -> ByteType]
    BY <2>1, WriteDone, RequestFact, SizeFact DEF WriteGoesOn, Free, Types, AppTypes
  <2>4. \A i \in 1 .. k : s[i] \in ByteType
    BY <2>1, <2>3
  <2> HIDE DEF s, k
  <2>5. /\ SubSeq(s, 1, k) \in Seq(ByteType) /\ Len(SubSeq(s, 1, k)) = k
        /\ \A i \in 1 .. k : SubSeq(s, 1, k)[i] = s[i]
    <3>1. 1 \in Int /\ k \in Int /\ (IF 1 <= k THEN k - 1 + 1 ELSE 0) = k
          /\ \A i \in 1 .. k : 1 + i - 1 = i /\ i \in 1 .. k - 1 + 1
      BY <2>1
    <3>2. /\ SubSeq(s, 1, k) \in Seq(ByteType)
          /\ Len(SubSeq(s, 1, k)) = IF 1 <= k THEN k - 1 + 1 ELSE 0
          /\ \A i \in 1 .. k - 1 + 1 : SubSeq(s, 1, k)[i] = s[1 + i - 1]
      BY <2>4, <3>1, SubSeqProperties
    <3> QED BY <3>1, <3>2
  <2>6. /\ Bytes(tag, 0, k) \in Seq(ByteType) /\ Len(Bytes(tag, 0, k)) = k
        /\ \A i \in 1 .. k : Bytes(tag, 0, k)[i] = Byte(tag, i)
    <3>1. /\ Bytes(tag, 0, k) \in Seq(ByteType) /\ Len(Bytes(tag, 0, k)) = k
          /\ \A i \in 1 .. k : Bytes(tag, 0, k)[i] = Byte(tag, 0 + i)
      <4> DEFINE none == 0
      <4>1. none \in Nat /\ k \in Nat /\ tag \in 0 .. Tags + 1
        BY <2>1, <2>2
      <4> HIDE DEF none
      <4>2. /\ Bytes(tag, none, k) \in Seq(ByteType) /\ Len(Bytes(tag, none, k)) = k
            /\ \A i \in 1 .. k : Bytes(tag, none, k)[i] = Byte(tag, none + i)
        BY <4>1, BytesFact, Zenon
      <4> QED BY <4>2 DEF none
    <3>2. \A i \in 1 .. k : 0 + i = i
      BY <2>1
    <3> QED BY <3>1, <3>2
  <2>7. SubSeq(s, 1, k) = Bytes(tag, 0, k)
    BY <2>1, <2>5, <2>6, SeqEqual
  <2> QED BY <2>7 DEF Written, s, k
<1> QED BY <1>1, WriteInvHolds, PTL
-----------------------------------------------------------------------------
(***************************************************************************)
(* Reads.  What the firmware has produced is either all with the host or   *)
(* in the transmit buffer, or some of it is lost; what is lost is not sent *)
(* again, and the firmware never produces more than it was asked for.  The *)
(* transfers meant are those that are not misread.                         *)
(***************************************************************************)
Reading == Accepted /\ IsIn(request) /\ ~misread

InFlight == IF tx = Nak THEN <<>> ELSE tx.bytes

Produced == IF userRW THEN ioBufferOffset ELSE msgPtr

ToProduce == IF msgLen = NoMsg THEN 0 ELSE msgLen

RightByte(i) ==
  IF request.kind = "reply" THEN Byte(tag, i) ELSE vectors[request.vector][i]

NothingLost ==
  /\ Len(buffer) + Len(InFlight) = Produced
  /\ \A i \in 1 .. Len(buffer) : buffer[i] = RightByte(i)
  /\ \A i \in 1 .. Len(InFlight) : InFlight[i] = RightByte(Len(buffer) + i)

SomeLost == Len(buffer) + Len(InFlight) < Produced

ReadGoesOn ==
  /\ rx = Free /\ serving = tag
  /\ userRW = (request.kind = "read") /\ (userRW => command = request)
  /\ Produced + ToProduce <= request.len
  /\ NothingLost \/ SomeLost

ReadHeld ==
  /\ rx.token = "SETUP" /\ rx.request = request /\ rx.tag = tag
  /\ stage = "data" /\ buffer = <<>>

ReadInv == Reading => ReadHeld \/ ReadGoesOn

\* What a read relies on in a step is the request's and the vector's not changing.
LEMMA SameBytes ==
  ASSUME UNCHANGED <<request, tag, vectors>>
  PROVE  \A i : RightByte(i)' = RightByte(i)
BY DEF RightByte

LEMMA ReadTypes ==
  ASSUME Types, Reading
  PROVE  /\ request \in Requests /\ request.kind \in {"read", "reply"} /\ request.len \in Nat
         /\ request.len < NoMsg
         /\ buffer \in Seq(ByteType) /\ Len(buffer) \in Nat
         /\ InFlight \in Seq(ByteType) /\ Len(InFlight) \in Nat
         /\ Produced \in Nat /\ ToProduce \in Nat
         /\ tag \in 0 .. Tags + 1 /\ serving \in 0 .. Tags + 1
<1>1. request \in Requests /\ request.kind \in {"read", "reply"}
  BY DEF Reading, IsIn, Types, HostTypes, Idle
<1>2. InFlight \in Seq(ByteType)
  BY EmptySeq DEF InFlight, Types, WireTypes, TxType
<1>3. userRW => ioBufferOffset \in Nat
  BY RequestFact, SizeFact DEF Types, AppTypes
<1>4. Produced \in Nat /\ ToProduce \in Nat
  BY <1>3 DEF Produced, ToProduce, Types, MsgTypes, NoMsg
<1>5. buffer \in Seq(ByteType) /\ Len(buffer) \in Nat /\ Len(InFlight) \in Nat
  BY <1>2, LenProperties DEF Types, HostTypes
<1>6. tag \in 0 .. Tags + 1 /\ serving \in 0 .. Tags + 1
  BY SizeFact DEF Types, HostTypes, MsgTypes
<1>7. request.len \in 0 .. NoMsg - 1
  BY <1>1, RequestFact DEF AllRequests
<1>8. request.len \in Nat /\ request.len < NoMsg
  BY <1>7 DEF NoMsg
<1> QED BY <1>1, <1>2, <1>4, <1>5, <1>6, <1>8

\* A packet that the host takes, drops or loses leaves the transmit buffer.
LEMMA PacketLeaves ==
  ASSUME Types, Reading, ReadGoesOn, tx # Nak, tx' = Nak,
         UNCHANGED <<request, tag, userRW, msgPtr, msgLen, serving, ioBufferOffset, vectors, command, rx>>,
         buffer' \in {buffer, buffer \o tx.bytes}
  PROVE  ReadGoesOn'
<1>1. /\ InFlight = tx.bytes /\ InFlight' = <<>> /\ Len(InFlight') = 0
      /\ Produced' = Produced /\ ToProduce' = ToProduce
  BY EmptySeq DEF InFlight, Produced, ToProduce
<1>2. /\ buffer \in Seq(ByteType) /\ Len(buffer) \in Nat
      /\ InFlight \in Seq(ByteType) /\ Len(InFlight) \in Nat /\ Produced \in Nat
  BY ReadTypes
<1>3. NothingLost' \/ SomeLost'
  <2>1. CASE buffer' = buffer \o tx.bytes
    <3>1. /\ Len(buffer') = Len(buffer) + Len(InFlight)
          /\ \A i \in 1 .. Len(buffer) + Len(InFlight) :
               buffer'[i] = IF i <= Len(buffer) THEN buffer[i] ELSE InFlight[i - Len(buffer)]
      BY <1>1, <1>2, <2>1, ConcatProperties
    <3>2. CASE SomeLost
      BY <1>1, <1>2, <3>1, <3>2 DEF SomeLost
    <3>3. CASE NothingLost
      <4>1. ASSUME NEW i \in 1 .. Len(buffer') PROVE buffer'[i] = RightByte(i)'
        <5>1. CASE i <= Len(buffer)
          <6>1. i \in 1 .. Len(buffer) /\ buffer'[i] = buffer[i]
            BY <1>2, <3>1, <4>1, <5>1
          <6> QED BY <6>1, <3>3, SameBytes DEF NothingLost
        <5>2. CASE ~(i <= Len(buffer))
          <6> DEFINE j == i - Len(buffer)
          <6>1. i \in 1 .. Len(buffer) + Len(InFlight)
            BY <3>1, <4>1
          <6>2. buffer'[i] = InFlight[j]
            BY <3>1, <5>2, <6>1
          <6>3. j \in 1 .. Len(InFlight) /\ Len(buffer) + j = i
            BY <1>2, <5>2, <6>1
          <6>4. InFlight[j] = RightByte(Len(buffer) + j)
            BY <6>3, <3>3 DEF NothingLost
          <6> QED BY <6>2, <6>3, <6>4, SameBytes
        <5> QED BY <5>1, <5>2
      <4>2. Len(buffer') + Len(InFlight') = Produced' /\ \A i \in 1 .. Len(InFlight') : FALSE
        BY <1>1, <1>2, <3>1, <3>3 DEF NothingLost
      <4> QED BY <4>1, <4>2 DEF NothingLost
    <3> QED BY <3>2, <3>3 DEF ReadGoesOn
  <2>2. CASE buffer' = buffer
    <3>1. CASE NothingLost /\ Len(InFlight) = 0
      <4>1. Len(buffer') + Len(InFlight') = Produced' /\ \A i \in 1 .. Len(InFlight') : FALSE
        BY <1>1, <1>2, <2>2, <3>1 DEF NothingLost
      <4>2. \A i \in 1 .. Len(buffer') : buffer'[i] = RightByte(i)'
        BY <2>2, <3>1, SameBytes DEF NothingLost
      <4> QED BY <4>1, <4>2 DEF NothingLost
    <3>2. CASE SomeLost \/ Len(InFlight) # 0
      BY <1>1, <1>2, <2>2, <3>2 DEF SomeLost, NothingLost, ReadGoesOn
    <3> QED BY <3>1, <3>2 DEF ReadGoesOn
  <2> QED BY <2>1, <2>2
<1> QED BY <1>1, <1>3 DEF ReadGoesOn

LEMMA HostKeepsRead ==
  ASSUME Types, ReadInv, Host \/ GiveUp
  PROVE  ReadInv'
<1> SUFFICES ASSUME Reading' PROVE ReadHeld' \/ ReadGoesOn'
  BY DEF ReadInv
<1> USE DEF hostVars, wireVars, msgVars, appVars
<1>1. ASSUME NEW r \in Requests, Submit(r) PROVE FALSE
  BY <1>1 DEF Submit, Reading, Accepted
<1>2. ASSUME NEW fate, NEW data, NEW ack, SetupPacket(fate, data, ack) PROVE ReadHeld'
  <2>1. stage = "setup" /\ UNCHANGED <<request, tag, buffer, outcome>>
    BY <1>2 DEF SetupPacket
  <2>2. outcome = "none" /\ buffer = <<>>
    BY <2>1 DEF Types, HostTypes
  <2>3. /\ rx' = [token |-> "SETUP", request |-> request, tag |-> tag]
        /\ stage' = NextStage
    BY <1>2, <2>1, <2>2, SetupPacketFact DEF Reading, Accepted
  <2>4. stage' = "data"
    BY <2>1, <2>3 DEF Reading, NextStage
  <2> QED BY <2>1, <2>2, <2>3, <2>4 DEF ReadHeld
<1>3. ASSUME NEW fate, NEW data, NEW ack, OutPacket(fate, data, ack) PROVE FALSE
  BY <1>3 DEF OutPacket, Reading, IsIn
<1>4. ASSUME NEW ack, InPacket(ack) PROVE ReadGoesOn'
  <2>1. Reading /\ rx = Free
    BY <1>4 DEF InPacket, Reading, Accepted, SendsData
  <2>2. ReadGoesOn
    BY <2>1 DEF ReadInv, ReadHeld, Free
  <2>3. /\ tx # Nak /\ tx' = Nak /\ buffer' \in {buffer, buffer \o tx.bytes}
        /\ UNCHANGED <<request, tag, userRW, msgPtr, msgLen, serving, ioBufferOffset, vectors,
                       command, rx>>
    BY <1>4 DEF InPacket, SendsData, Accept
  <2> QED BY <2>1, <2>2, <2>3, PacketLeaves
<1>5. ASSUME NEW ack, StatusIn(ack) PROVE FALSE
  BY <1>5 DEF StatusIn, Reading, IsIn
<1>6. ASSUME NEW fate, NEW data, NEW ack, StatusOut(fate, data, ack) PROVE ReadGoesOn'
  <2>1. Reading /\ ReadGoesOn
    BY <1>6 DEF StatusOut, Reading, Accepted, ReadInv, ReadHeld
  <2>2. UNCHANGED <<request, tag, userRW, msgPtr, msgLen, serving, ioBufferOffset, vectors,
                    command, rx, tx, buffer>>
    BY <1>6 DEF StatusOut
  <2> QED BY <2>1, <2>2 DEF ReadGoesOn, NothingLost, SomeLost, InFlight, Produced, ToProduce, RightByte
<1>7. ASSUME NEW fate, InLost(fate) PROVE ReadHeld' \/ ReadGoesOn'
  <2>1. UNCHANGED <<stage, request, tag, buffer, outcome, misread, userRW, msgPtr, msgLen, serving,
                    ioBufferOffset, vectors, command, rx>>
    BY <1>7 DEF InLost
  <2>2. Reading /\ (ReadHeld \/ ReadGoesOn)
    BY <2>1 DEF ReadInv, Reading, Accepted
  <2>3. CASE tx' = tx
    BY <2>1, <2>2, <2>3 DEF ReadHeld, ReadGoesOn, NothingLost, SomeLost, InFlight, Produced,
                            ToProduce, RightByte
  <2>4. CASE rx = Free /\ tx # Nak /\ tx' = Nak
    <3>1. ReadGoesOn
      BY <2>2, <2>4 DEF ReadHeld, Free
    <3> QED BY <2>1, <2>2, <2>4, <3>1, PacketLeaves
  <2> QED BY <1>7, <2>3, <2>4 DEF InLost, SendsData
<1>8. CASE GiveUp
  BY <1>8 DEF GiveUp, Reading, Accepted
<1> QED BY <1>1, <1>2, <1>3, <1>4, <1>5, <1>6, <1>7, <1>8 DEF Host

LEMMA BuildKeepsRead ==
  ASSUME Types, Reading, ReadGoesOn, BuildTxBlock
  PROVE  ReadGoesOn'
<1> USE DEF hostVars
<1> DEFINE n == Smaller(msgLen, Chunk)
           bytes == IF userRW /\ n > 0 THEN ReadFromVector(n) ELSE Bytes(serving, msgPtr, n)
<1>1. /\ tx = Nak /\ msgLen \in Nat /\ msgLen < NoMsg /\ n \in Nat /\ n <= msgLen
      /\ ToProduce = msgLen
  BY SizeFact DEF BuildTxBlock, Pending, ToProduce, Types, MsgTypes, Smaller, NoMsg
<1>2. /\ Len(buffer) \in Nat /\ Produced \in Nat /\ request.len \in Nat
      /\ request.kind \in {"read", "reply"} /\ tag \in 0 .. Tags + 1
  BY ReadTypes
<1>3. /\ Len(bytes) \in Nat /\ Len(bytes) <= n
      /\ ~userRW => Len(bytes) = n
      /\ \A i \in 1 .. Len(bytes) : bytes[i] = RightByte(Produced + i)
  <2>1. CASE userRW /\ n > 0
    <3>1. bytes = ReadFromVector(n)
      BY <2>1
    <3>2. /\ Len(bytes) \in Nat /\ Len(bytes) = Smaller(n, VectorSize[command.vector] - ioBufferOffset)
          /\ \A i \in 1 .. Len(bytes) : bytes[i] = vectors[command.vector][ioBufferOffset + i]
      BY <1>1, <2>1, <3>1, ReadFact
    <3>3. VectorSize[command.vector] - ioBufferOffset \in Nat
      BY <2>1, RequestFact, SizeFact DEF Types, AppTypes
    <3>4. command = request /\ request.kind = "read" /\ Produced = ioBufferOffset
      BY <2>1 DEF ReadGoesOn, Produced
    <3> HIDE DEF n, bytes
    <3> QED BY <1>1, <2>1, <3>2, <3>3, <3>4 DEF Smaller, RightByte
  <2>2. CASE userRW /\ ~(n > 0)
    <3>1. n = 0 /\ bytes = Bytes(serving, msgPtr, n)
      BY <1>1, <2>2
    <3>2. Len(bytes) = 0
      BY <3>1, BytesFact, SizeFact DEF Types, MsgTypes
    <3> HIDE DEF n, bytes
    <3> QED BY <2>2, <3>1, <3>2
  <2>3. CASE ~userRW
    <3>1. bytes = Bytes(serving, msgPtr, n)
      BY <2>3
    <3>2. serving = tag /\ request.kind = "reply" /\ Produced = msgPtr /\ msgPtr \in Nat
      BY <1>2, <2>3 DEF ReadGoesOn, Produced
    <3>3. Len(bytes) = n /\ \A i \in 1 .. n : bytes[i] = Byte(tag, msgPtr + i)
      <4>1. bytes = Bytes(tag, msgPtr, n) /\ n \in Nat
        BY <1>1, <3>1, <3>2
      <4> HIDE DEF n, bytes
      <4> QED BY <1>2, <3>2, <4>1, BytesFact
    <3> HIDE DEF n, bytes
    <3> QED BY <1>1, <2>3, <3>2, <3>3 DEF RightByte
  <2> QED BY <2>1, <2>2, <2>3
<1>4. /\ tx' = Packet(NextToggle, bytes)
      /\ msgLen' = IF Len(bytes) < Chunk THEN NoMsg ELSE msgLen - n
      /\ IF userRW THEN ioBufferOffset' = ioBufferOffset + Len(bytes) /\ UNCHANGED msgPtr
         ELSE msgPtr' = msgPtr + n /\ UNCHANGED ioBufferOffset
      /\ UNCHANGED <<request, tag, buffer, rx, userRW, serving, command, vectors>>
  BY DEF BuildTxBlock
<1> HIDE DEF n, bytes
<1>5. InFlight' = bytes /\ InFlight = <<>> /\ Len(InFlight) = 0
  BY <1>1, <1>4, EmptySeq DEF InFlight, Packet, Nak
<1>6. Produced' = Produced + Len(bytes)
  BY <1>3, <1>4 DEF Produced
<1>7. ToProduce' \in {0, msgLen - n}
  BY <1>4 DEF ToProduce
<1>8. Produced + msgLen <= request.len
  BY <1>1 DEF ReadGoesOn
<1>9. (Produced + ToProduce <= request.len)'
  BY <1>1, <1>2, <1>3, <1>4, <1>6, <1>7, <1>8
<1>10. NothingLost' \/ SomeLost'
  <2>1. CASE SomeLost
    <3>1. Len(buffer) + Len(InFlight') < Produced'
      BY <1>2, <1>3, <1>5, <1>6, <2>1 DEF SomeLost
    <3> QED BY <1>4, <3>1 DEF SomeLost
  <2>2. CASE NothingLost
    <3>1. Len(buffer) = Produced
      BY <1>2, <1>5, <2>2 DEF NothingLost
    <3>2. Len(buffer') + Len(InFlight') = Produced'
      BY <1>4, <1>5, <1>6, <3>1
    <3>3. \A i \in 1 .. Len(buffer') : buffer'[i] = RightByte(i)'
      BY <1>4, <2>2, SameBytes DEF NothingLost
    <3>4. \A i \in 1 .. Len(InFlight') : InFlight'[i] = RightByte(Len(buffer) + i)'
      BY <1>3, <1>4, <1>5, <3>1, SameBytes
    <3> QED BY <3>2, <3>3, <3>4 DEF NothingLost
  <2> QED BY <2>1, <2>2 DEF ReadGoesOn
<1> QED BY <1>4, <1>9, <1>10 DEF ReadGoesOn

LEMMA PollKeepsRead ==
  ASSUME Types, ReadInv, Poll
  PROVE  ReadInv'
<1> USE DEF hostVars, wireVars, msgVars, appVars
<1>0. UNCHANGED hostVars
  BY DEF Poll, ProcessSetup, ProcessOut, ProcessNothing, ProcessAstray, BuildTxBlock, NothingToSend
<1> SUFFICES ASSUME Reading PROVE ReadHeld' \/ ReadGoesOn'
  BY <1>0 DEF ReadInv, Reading, Accepted
<1>a. ReadHeld \/ ReadGoesOn
  BY DEF ReadInv
<1>b. request \in Requests /\ request.kind \in {"read", "reply"} /\ request.len \in Nat
      /\ request.len < NoMsg
  BY ReadTypes
<1>1. CASE ProcessSetup
  <2>1. rx.request = request /\ rx.tag = tag /\ buffer = <<>>
    BY <1>1, <1>a DEF ProcessSetup, ReadHeld, ReadGoesOn, Free
  <2>2. /\ serving' = tag' /\ rx' = Free /\ tx' = Nak /\ msgPtr' = 0
        /\ msgLen' = ReplyLen(request)
        /\ userRW' = (request.kind = "read")
        /\ request.kind = "read" => command' = request /\ ioBufferOffset' = 0
    BY <1>0, <1>1, <2>1, <1>b DEF ProcessSetup, AbortTransmit, Rewind
  <2>3. ReplyLen(request) \in Nat /\ ReplyLen(request) <= request.len
    BY <1>b, RequestFact DEF ReplyLen, Smaller, AllRequests
  <2>4. Produced' = 0 /\ InFlight' = <<>> /\ buffer' = <<>>
    BY <1>0, <2>1, <2>2 DEF Produced, InFlight
  <2>5. (Produced + ToProduce <= request.len)'
    BY <1>0, <1>b, <2>2, <2>3, <2>4 DEF ToProduce
  <2>6. Len(buffer') = 0 /\ Len(InFlight') = 0
    BY <2>4, EmptySeq
  <2>7. NothingLost'
    BY <2>4, <2>6 DEF NothingLost
  <2> QED BY <1>0, <2>2, <2>5, <2>7 DEF ReadGoesOn
<1>2. CASE ProcessOut
  BY <1>2, <1>a DEF ProcessOut, ReadHeld, ReadGoesOn, Free
<1>3. CASE BuildTxBlock
  <2>1. CASE ReadHeld
    BY <1>0, <1>3, <2>1 DEF BuildTxBlock, ReadHeld
  <2>2. CASE ReadGoesOn
    BY <1>3, <2>2, BuildKeepsRead
  <2> QED BY <1>a, <2>1, <2>2
<1>4. CASE NothingToSend
  <2>1. UNCHANGED <<rx, tx, userRW, msgPtr, msgLen, serving, command, ioBufferOffset, vectors>>
    BY <1>4 DEF NothingToSend
  <2> QED BY <1>0, <1>a, <2>1 DEF ReadHeld, ReadGoesOn, NothingLost, SomeLost, InFlight,
             Produced, ToProduce, RightByte
<1>5. CASE ProcessNothing \/ ProcessAstray
  BY <1>5, <1>a DEF ProcessNothing, ProcessAstray, ReadHeld, ReadGoesOn, Free, Other
<1> QED BY <1>1, <1>2, <1>3, <1>4, <1>5 DEF Poll

LEMMA ReadInvHolds == Spec => [](Types /\ ReadInv)
<1>1. Init => Types /\ ReadInv
  BY InitTypes DEF Init, ReadInv, Reading, Accepted
<1>2. Types /\ ReadInv /\ [Next]_vars => (Types /\ ReadInv)'
  <2> SUFFICES ASSUME Types, ReadInv, [Next]_vars PROVE ReadInv'
    BY NextKeepsTypes
  <2>1. CASE Host \/ GiveUp
    BY <2>1, HostKeepsRead
  <2>2. CASE Poll
    BY <2>2, PollKeepsRead
  <2>3. CASE UNCHANGED vars
    BY <2>3 DEF vars, hostVars, wireVars, msgVars, appVars, ReadInv, Reading, Accepted,
                ReadHeld, ReadGoesOn, NothingLost, SomeLost, InFlight, Produced, ToProduce, RightByte
  <2> QED BY <2>1, <2>2, <2>3 DEF Next
<1> QED BY <1>1, <1>2, PTL DEF Spec

\* A packet that is lost on its way to the host is not sent again, but it leaves the
\* transfer short: one of full length has every byte in its place, for replies and
\* vectors of any number of packets.
THEOREM ReadsExact == Spec => []DataExact
<1>1. Types /\ ReadInv => DataExact
  <2> DEFINE k == request.len
  <2> SUFFICES ASSUME Types, ReadInv, Succeeded, IsIn(request), Len(buffer) = k
               PROVE  buffer = (IF request.kind = "reply" THEN Bytes(tag, 0, k)
                                ELSE SubSeq(vectors[request.vector], 1, k))
    BY DEF DataExact
  <2>1. Reading /\ ReadGoesOn
    BY DEF Succeeded, Types, HostTypes, ReadInv, ReadHeld, Reading, Accepted
  <2>2. /\ buffer \in Seq(ByteType) /\ k \in Nat /\ tag \in 0 .. Tags + 1 /\ request \in Requests
        /\ request.kind \in {"read", "reply"}
    BY <2>1, ReadTypes
  <2>3. NothingLost /\ Produced = k
    <3>1. /\ Len(InFlight) \in Nat /\ Produced \in Nat /\ ToProduce \in Nat
          /\ Produced + ToProduce <= k
          /\ NothingLost \/ SomeLost
      BY <2>1, ReadTypes DEF ReadGoesOn
    <3>2. Produced <= k
      BY <2>2, <3>1
    <3>3. ~SomeLost
      BY <2>2, <3>1, <3>2 DEF SomeLost
    <3>4. k + Len(InFlight) = Produced
      BY <3>1, <3>3 DEF NothingLost
    <3> QED BY <2>2, <3>1, <3>2, <3>3, <3>4
  <2>4. \A i \in 1 .. k : buffer[i] = RightByte(i)
    BY <2>3 DEF NothingLost
  <2>5. CASE request.kind = "reply"
    <3>1. /\ Bytes(tag, 0, k) \in Seq(ByteType) /\ Len(Bytes(tag, 0, k)) = k
          /\ \A i \in 1 .. k : Bytes(tag, 0, k)[i] = Byte(tag, 0 + i)
      BY <2>2, BytesFact
    <3>2. \A i \in 1 .. k : 0 + i = i
      BY <2>2
    <3>3. \A i \in 1 .. k : buffer[i] = Bytes(tag, 0, k)[i]
      BY <2>4, <2>5, <3>1, <3>2 DEF RightByte
    <3> HIDE DEF k
    <3>4. buffer = Bytes(tag, 0, k)
      BY <2>2, <3>1, <3>3, SeqEqual
    <3> QED BY <2>5, <3>4
  <2>6. CASE request.kind = "read"
    <3> DEFINE s == vectors[request.vector]
    <3>1. /\ k <= VectorSize[request.vector] /\ VectorSize[request.vector] \in Nat
          /\ s \in [1 .. VectorSize[request.vector] -> ByteType]
      <4>1. userRW /\ command = request /\ ioBufferOffset = k
        BY <2>1, <2>3, <2>6 DEF ReadGoesOn, Produced
      <4>2. request.vector \in Vectors
        BY <2>2, <2>6, RequestFact DEF AllRequests
      <4> HIDE DEF k
      <4> QED BY <4>1, <4>2, SizeFact DEF Types, AppTypes
    <3>2. \A i \in 1 .. k : s[i] \in ByteType /\ buffer[i] = s[i]
      BY <2>2, <2>4, <2>6, <3>1 DEF RightByte
    <3> HIDE DEF s, k
    <3>3. 1 \in Int /\ k \in Int /\ (IF 1 <= k THEN k - 1 + 1 ELSE 0) = k
          /\ \A i \in 1 .. k : 1 + i - 1 = i /\ i \in 1 .. k - 1 + 1
      BY <2>2
    <3>4. /\ SubSeq(s, 1, k) \in Seq(ByteType)
          /\ Len(SubSeq(s, 1, k)) = IF 1 <= k THEN k - 1 + 1 ELSE 0
          /\ \A i \in 1 .. k - 1 + 1 : SubSeq(s, 1, k)[i] = s[1 + i - 1]
      BY <3>2, <3>3, SubSeqProperties
    <3>5. Len(SubSeq(s, 1, k)) = k /\ \A i \in 1 .. k : SubSeq(s, 1, k)[i] = s[i]
      BY <3>3, <3>4
    <3>6. buffer = SubSeq(s, 1, k)
      BY <2>2, <3>2, <3>4, <3>5, SeqEqual
    <3> QED BY <2>6, <3>6 DEF s
  <2> QED BY <2>2, <2>5, <2>6
<1> QED BY <1>1, ReadInvHolds, PTL
=============================================================================
