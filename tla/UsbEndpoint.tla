---------------------------- MODULE UsbEndpoint ----------------------------
(***************************************************************************)
(* Control transfers on endpoint 0: the host controller, a bus that loses  *)
(* packets, and the firmware's USB stack (usbdrv.c, the packet logic of    *)
(* asmcommon.inc, the poll at the end of main's loop) with the two data    *)
(* stage callbacks of main.c.                                              *)
(*                                                                         *)
(* A transaction of the host is one step, as the receiver answers it       *)
(* within a few bit times.  The main loop calls the receiver, then polls:  *)
(* no packet is taken between the two halves of a poll.                    *)
(* Of a transaction the token, the data packet and the acknowledgement are *)
(* lost each on its own.  The receiver takes a data packet for one of the  *)
(* last token it stored: a setup packet whose token was missed may be run  *)
(* through usbFunctionWrite, a payload packet through usbFunctionSetup.    *)
(* Other devices on the bus are in Enumeration.                            *)
(* Bytes are known by the request that produced them and their position.   *)
(***************************************************************************)
EXTENDS Integers, Sequences

CONSTANTS
  Chunk,          \* data bytes in a packet: 8
  VectorSize,     \* sizes of the vectors, a function from their names
  Requests,       \* what the host asks for
  Tags,           \* requests are numbered modulo Tags
  Spelled,        \* what a packet of payload means when it is read as a request
  Lossy           \* may the bus lose packets?

Vectors == DOMAIN VectorSize

\* usbFunctionSetup answers a "reply" request with `answer` bytes of response[],
\* and "read" and "write" with USB_NO_MSG; len is the low byte of wLength.
RequestType ==
  [kind: {"read", "write"}, vector: Vectors, len: Nat]
    \cup [kind: {"reply", "command"}, answer: Nat \ {0}, len: Nat]

NoMsg == 255      \* USB_NO_MSG

ASSUME SizesAssumption ==
  /\ Chunk \in Nat \ {0} /\ Tags \in Nat \ {0}
  /\ VectorSize \in [Vectors -> 1 .. NoMsg - 1]
  /\ Requests \subseteq RequestType
  /\ \A r \in Requests : r.len < NoMsg /\ (r.kind = "command" <=> r.len = 0)

ASSUME BusAssumption ==
  /\ Lossy \in BOOLEAN
  /\ Spelled \subseteq RequestType /\ \A r \in Spelled : r.len <= NoMsg

VARIABLES
  \* the host controller and the program that called usb_control_msg
  stage, request, tag, toggle, moved, buffer, outcome,
  repeated,       \* a payload packet of this transfer was taken and had to be sent again
  misread,        \* a packet of this transfer was taken for one of another token
  \* the receiver and transmitter: the last token, the packet not yet processed, the
  \* one to send
  usbCurrentTok, rx, tx, txToggle,
  \* where the main loop is: "receive", or in the second half of its poll; "astray" when
  \* usbFunctionWrite has written outside the vectors, and nothing is known any more
  loop,
  \* usbMsgLen, usbMsgFlags, usbMsgPtr and the request they serve
  msgLen, userRW, msgPtr, serving,
  \* main.c: command (by the request that set it), ioBufferOffset, the vectors
  command, ioBufferOffset, vectors

hostVars == <<stage, request, tag, toggle, moved, buffer, outcome, repeated, misread>>
wireVars == <<usbCurrentTok, rx, tx, txToggle, loop>>
msgVars  == <<msgLen, userRW, msgPtr, serving>>
appVars  == <<command, ioBufferOffset, vectors>>
vars     == <<hostVars, wireVars, msgVars, appVars>>

Idle   == [kind |-> "none"]
Free   == [token |-> "none"]              \* usbRxLen = 0
Other  == [token |-> "other"]             \* a SETUP packet that is not of 8 bytes
Nak    == [pid |-> "NAK"]                 \* usbTxLen = USBPID_NAK
Packet(t, bytes) == [pid |-> "DATA", toggle |-> t, bytes |-> bytes]

Byte(n, i) == [by |-> n, at |-> i]
Bytes(n, from, len) == [i \in 1 .. len |-> Byte(n, from + i)]

\* What was in the vectors at first, and replies to what payload spells
NoRequest == Tags
\* The bytes of a setup packet
SetupBytes == Bytes(Tags + 1, 0, Chunk)

Smaller(a, b) == IF a < b THEN a ELSE b

IsIn(r) == r.kind \in {"read", "reply"}

Init ==
  /\ stage = "idle" /\ request = Idle /\ tag = 0 /\ toggle = 0 /\ moved = 0
  /\ buffer = <<>> /\ outcome = "none" /\ repeated = FALSE /\ misread = FALSE
  /\ usbCurrentTok = "none" /\ rx = Free /\ tx = Nak /\ txToggle = 0 /\ loop = "receive"
  /\ msgLen = NoMsg /\ userRW = FALSE /\ msgPtr = 0 /\ serving = 0
  /\ command = Idle /\ ioBufferOffset = 0
  /\ vectors = [v \in Vectors |-> Bytes(NoRequest, 0, VectorSize[v])]
-----------------------------------------------------------------------------
(***************************************************************************)
(* usb_control_msg on the host: a setup transaction, data transactions, a  *)
(* status transaction in the other direction.                              *)
(***************************************************************************)
Submit(r) ==
  /\ stage = "idle"
  /\ request' = r
  /\ tag' = (tag + 1) % Tags
  /\ stage' = "setup"
  /\ toggle' = 1 /\ moved' = 0 /\ buffer' = <<>> /\ outcome' = "none"
  /\ repeated' = FALSE /\ misread' = FALSE
  /\ UNCHANGED <<wireVars, msgVars, appVars>>

\* The host gives up after DEFAULT_TIMEOUT, or after the third error in a row
GiveUp ==
  /\ stage # "idle"
  /\ stage' = "idle" /\ outcome' = "error"
  /\ request' = Idle /\ toggle' = 1 /\ moved' = 0 /\ buffer' = <<>>
  /\ repeated' = FALSE /\ misread' = FALSE
  /\ UNCHANGED <<tag, wireVars, msgVars, appVars>>

NextStage == IF IsIn(request) \/ request.kind = "write" THEN "data" ELSE "status"

Listening == loop = "receive"

\* A token is heard, garbled on its way or not recognised as a packet at all.
Fates == IF Lossy THEN {"heard", "garbled", "missed"} ELSE {"heard"}

\* Does a packet arrive?
Arrivals == IF Lossy THEN BOOLEAN ELSE {TRUE}

\* SETUP and OUT are stored; any other packet clears the token before.
TokenAfter(token, fate) ==
  IF fate = "missed" THEN usbCurrentTok ELSE IF fate = "heard" THEN token ELSE "none"

\* handleData: a packet is taken, and acknowledged, when there is a token for it and the
\* last one is processed (usbRxLen = 0).  The host repeats the transaction until it sees
\* the acknowledgement.
Takes(token) == token # "none" /\ rx = Free

SetupPacket(fate, data, ack) ==
  LET token == TokenAfter("SETUP", fate)
      taken == data /\ Takes(token)
  IN
  /\ Listening /\ stage = "setup"
  /\ usbCurrentTok' = token
  /\ rx' = IF ~taken THEN rx
           ELSE IF token = "SETUP" THEN [token |-> "SETUP", request |-> request, tag |-> tag]
           ELSE [token |-> "OUT", bytes |-> SetupBytes]
  /\ stage' = IF taken /\ ack THEN NextStage ELSE stage
  /\ misread' = (misread \/ (taken /\ token # "SETUP"))
  /\ UNCHANGED <<request, tag, toggle, moved, buffer, outcome, repeated, tx, txToggle, loop, msgVars, appVars>>

\* What a packet is when its own token is missed after the one of the setup packet
Misread(bytes) ==
  IF Len(bytes) = Chunk
  THEN [token: {"SETUP"}, request: Spelled, tag: {NoRequest}]
  ELSE {Other}

OutPacket(fate, data, ack) ==
  LET token == TokenAfter("OUT", fate)
      taken == data /\ Takes(token)
      n     == Smaller(Chunk, request.len - moved)
      bytes == Bytes(tag, moved, n)
  IN
  /\ Listening /\ stage = "data" /\ request.kind = "write"
  /\ usbCurrentTok' = token
  /\ rx' \in IF ~taken THEN {rx}
             ELSE IF token = "OUT" THEN {[token |-> "OUT", bytes |-> bytes]}
             ELSE Misread(bytes)
  /\ IF taken /\ ack
     THEN /\ moved' = moved + n
          /\ stage' = IF moved' = request.len THEN "status" ELSE stage
     ELSE UNCHANGED <<moved, stage>>
  /\ repeated' = (repeated \/ (taken /\ ~ack))
  /\ misread' = (misread \/ (taken /\ token # "OUT"))
  /\ UNCHANGED <<request, tag, toggle, buffer, outcome, tx, txToggle, loop, msgVars, appVars>>

\* Mutant: an answer is sent although the received packet is not processed
SendsDataUnprocessed == Listening /\ tx # Nak

\* handleIn: nothing is sent before the received packet is processed, and what is
\* sent counts as delivered
SendsData == Listening /\ rx = Free /\ tx # Nak

\* A packet with the other toggle is taken for a repetition and dropped
Accept(bytes) ==
  /\ buffer' = buffer \o bytes
  /\ toggle' = 1 - toggle
  /\ stage' = IF Len(bytes) < Chunk \/ Len(buffer') >= request.len THEN "status" ELSE stage

\* The host's acknowledgement is a packet like any other, if it is heard.
AfterAck(heard) == IF heard THEN "none" ELSE usbCurrentTok

InPacket(ack) ==
  /\ stage = "data" /\ IsIn(request) /\ SendsData
  /\ tx' = Nak
  /\ IF tx.toggle = toggle
     THEN Accept(tx.bytes)
     ELSE UNCHANGED <<buffer, toggle, stage>>
  /\ usbCurrentTok' = AfterAck(ack)
  /\ UNCHANGED <<request, tag, moved, outcome, repeated, misread, rx, txToggle, loop, msgVars, appVars>>

\* The status packet is an empty DATA1; one with data in it is an error.
StatusIn(ack) ==
  /\ stage = "status" /\ ~IsIn(request) /\ SendsData
  /\ tx' = Nak
  /\ IF tx.toggle = 1
     THEN stage' = "idle" /\ outcome' = (IF tx.bytes = <<>> THEN "ok" ELSE "error")
     ELSE UNCHANGED <<stage, outcome>>
  /\ usbCurrentTok' = AfterAck(ack)
  /\ UNCHANGED <<request, tag, toggle, moved, buffer, repeated, misread, rx, txToggle, loop, msgVars, appVars>>

\* The host hears no answer: its token or the packet was lost.
InLost(fate) ==
  /\ Lossy /\ Listening
  /\ stage = (IF IsIn(request) THEN "data" ELSE "status")
  /\ IF fate = "heard"
     THEN SendsData /\ tx' = Nak /\ UNCHANGED usbCurrentTok
     ELSE UNCHANGED tx /\ usbCurrentTok' = TokenAfter("IN", fate)
  /\ UNCHANGED <<hostVars, rx, txToggle, loop, msgVars, appVars>>

\* An empty data packet is acknowledged and not passed on
StatusOut(fate, data, ack) ==
  LET token == TokenAfter("OUT", fate) IN
  /\ Listening /\ stage = "status" /\ IsIn(request)
  /\ usbCurrentTok' = token
  /\ IF data /\ Takes(token) /\ ack
     THEN stage' = "idle" /\ outcome' = "ok"
     ELSE UNCHANGED <<stage, outcome>>
  /\ UNCHANGED <<request, tag, toggle, moved, buffer, repeated, misread, rx, tx, txToggle, loop, msgVars, appVars>>
-----------------------------------------------------------------------------
(***************************************************************************)
(* The firmware's poll: usbProcessRx for the packet received, then         *)
(* usbBuildTxBlock if the transmitter is idle.  Both are functions of what *)
(* the poll finds, given here as the values they leave.                    *)
(***************************************************************************)
\* usbFunctionSetup and the conditioning of its reply length
ReplyLen(r) ==
  IF r.kind = "read" THEN r.len
  ELSE IF r.kind = "write" THEN NoMsg
  ELSE Smaller(r.answer, r.len)

\* Mutant: a packet left from the transfer before stays in the transmit buffer
KeepTransmit == UNCHANGED tx

\* "abort pending transmit"
AbortTransmit == tx' = Nak

\* Mutant: a vector request goes on where the last one stopped
RewindForgotten == UNCHANGED ioBufferOffset

Rewind == ioBufferOffset' = 0

ProcessSetup ==
  /\ rx.token = "SETUP"
  /\ LET r == rx.request IN
     /\ msgLen' = ReplyLen(r)
     /\ userRW' = (r.kind \in {"read", "write"})
     /\ serving' = rx.tag
     /\ msgPtr' = 0
     /\ IF r.kind \in {"read", "write"}
        THEN command' = r /\ Rewind
        ELSE UNCHANGED <<command, ioBufferOffset>>
  /\ AbortTransmit
  /\ txToggle' = 0
  /\ rx' = Free /\ loop' = "build"
  /\ UNCHANGED <<hostVars, usbCurrentTok, vectors>>

\* Mutant: the callbacks do not look at the vector's size
FitsUnchecked(v, n) == n

\* What the callbacks copy of n bytes: they stop at the end of the vector
Fits(v, n) == Smaller(n, VectorSize[v] - ioBufferOffset)

\* usbFunctionWrite is called, and finds the vector of a write.
Writes == userRW /\ command.kind = "write"

\* It finds the command of a read: dst is NULL and dstSize 0, and only an offset of 0
\* keeps it from copying.
Strays == userRW /\ command.kind = "read" /\ ioBufferOffset # 0

\* usbFunctionWrite copies what fits and returns how much that was.
ProcessOut ==
  /\ rx.token = "OUT" /\ Writes
  /\ LET v == command.vector
         n == Fits(v, Len(rx.bytes))
     IN /\ vectors' = [vectors EXCEPT ![v] =
             [i \in DOMAIN @ |-> IF i \in ioBufferOffset + 1 .. ioBufferOffset + n
                                 THEN rx.bytes[i - ioBufferOffset] ELSE @[i]]]
        /\ ioBufferOffset' = ioBufferOffset + n
        /\ msgLen' = IF n # 0 THEN 0 ELSE msgLen
  /\ rx' = Free /\ loop' = "build"
  /\ UNCHANGED <<hostVars, usbCurrentTok, tx, txToggle, userRW, msgPtr, serving, command>>

\* A packet that nothing is done with: for its length, or as usbMsgFlags is 0
ProcessNothing ==
  /\ rx = Other \/ (rx.token = "OUT" /\ ~Writes /\ ~Strays)
  /\ rx' = Free /\ loop' = "build"
  /\ UNCHANGED <<hostVars, usbCurrentTok, tx, txToggle, msgVars, appVars>>

\* The bytes go to the addresses from ioBufferOffset on: registers and other variables.
ProcessAstray ==
  /\ rx.token = "OUT" /\ Strays
  /\ rx' = Free /\ loop' = "astray"
  /\ UNCHANGED <<hostVars, usbCurrentTok, tx, txToggle, msgVars, appVars>>

\* usbDeviceRead of n bytes, from the callback or from response[]
ReadFromVector(n) ==
  SubSeq(vectors[command.vector], ioBufferOffset + 1, ioBufferOffset + Fits(command.vector, n))

\* The transmitter is idle and usbMsgLen is not USB_NO_MSG
Pending == tx = Nak /\ msgLen # NoMsg

\* Mutant: every packet is a DATA0
NextToggleConstant == txToggle

NextToggle == 1 - txToggle

BuildTxBlock ==
  /\ Pending /\ (loop = "build" \/ (Listening /\ rx = Free))
  /\ LET n == Smaller(msgLen, Chunk)
         bytes == IF userRW /\ n > 0 THEN ReadFromVector(n) ELSE Bytes(serving, msgPtr, n)
     IN /\ tx' = Packet(NextToggle, bytes)
        /\ msgLen' = IF Len(bytes) < Chunk THEN NoMsg ELSE msgLen - n
        /\ IF userRW
           THEN ioBufferOffset' = ioBufferOffset + Len(bytes) /\ UNCHANGED msgPtr
           ELSE msgPtr' = msgPtr + n /\ UNCHANGED ioBufferOffset
  /\ txToggle' = NextToggle
  /\ loop' = "receive"
  /\ UNCHANGED <<hostVars, usbCurrentTok, rx, userRW, serving, command, vectors>>

NothingToSend ==
  /\ loop = "build" /\ ~Pending
  /\ loop' = "receive"
  /\ UNCHANGED <<hostVars, usbCurrentTok, rx, tx, txToggle, msgVars, appVars>>

Poll ==
  \/ ProcessSetup \/ ProcessOut \/ ProcessNothing \/ ProcessAstray
  \/ BuildTxBlock \/ NothingToSend
-----------------------------------------------------------------------------
Host ==
  \/ \E r \in Requests : Submit(r)
  \/ \E fate \in Fates, data, ack \in Arrivals :
        SetupPacket(fate, data, ack) \/ OutPacket(fate, data, ack) \/ StatusOut(fate, data, ack)
  \/ \E ack \in Arrivals : InPacket(ack) \/ StatusIn(ack)
  \/ \E fate \in Fates : InLost(fate)

Next == Host \/ GiveUp \/ Poll

Spec == Init /\ [][Next]_vars

\* The host retries within its timeout of seconds, and the loop of the firmware
\* never waits: without a loss no transfer comes near the timeout.
PatientSpec ==
  /\ Init /\ [][Host \/ Poll]_vars
  /\ WF_vars(Poll)
  /\ WF_vars(SetupPacket("heard", TRUE, TRUE)) /\ WF_vars(OutPacket("heard", TRUE, TRUE))
  /\ WF_vars(InPacket(TRUE)) /\ WF_vars(StatusIn(TRUE))
  /\ WF_vars(StatusOut("heard", TRUE, TRUE))
-----------------------------------------------------------------------------
ByteType == [by : 0 .. Tags + 1, at : Nat]

\* Every variable holds a value of its C type, and the callbacks stay in the vector of
\* the request they serve; what they write without one is ProcessAstray.
TypeOK ==
  /\ stage \in {"idle", "setup", "data", "status"}
  /\ request \in Requests \cup {Idle} /\ command \in Requests \cup Spelled \cup {Idle}
  /\ tag \in 0 .. Tags - 1 /\ serving \in 0 .. Tags
  /\ {toggle, txToggle} \subseteq {0, 1}
  /\ buffer \in Seq(ByteType)
  /\ tx = Nak \/ (tx.toggle \in {0, 1} /\ tx.bytes \in Seq(ByteType))
  /\ outcome \in {"none", "ok", "error"}
  /\ rx.token \in {"none", "SETUP", "OUT", "other"} /\ usbCurrentTok \in {"none", "SETUP", "OUT"}
  /\ loop \in {"receive", "build", "astray"} /\ {repeated, misread} \subseteq BOOLEAN
  /\ msgLen \in 0 .. NoMsg /\ moved \in Nat /\ msgPtr \in Nat /\ userRW \in BOOLEAN
  /\ \A v \in Vectors : vectors[v] \in [1 .. VectorSize[v] -> ByteType]
  /\ userRW => ioBufferOffset \in 0 .. VectorSize[command.vector]

\* The transfer that the host counts as done, when no packet of it was taken for one of
\* another token.  An earlier transfer may have been misread, given up, or both.
Succeeded == outcome = "ok" /\ ~misread

\* A transfer that the host counts as done was set up by the firmware for that request,
\* never for the one before: a status packet left over in the transmit buffer, or a setup
\* packet not yet processed, does not answer it.  Tokens, data packets and
\* acknowledgements may be lost in any order; the exception is the setup packet that is
\* taken with the OUT token before it (handleData), which a left-over packet may answer.
AnswersOwnRequest == Succeeded => serving = tag

\* A transfer to the host that checkResponse accepts, as it has the length asked
\* for, carries the bytes of this request in order: the ones of the reply, or the
\* whole vector.  A lost packet never leaves a gap that the length hides.
DataExact ==
  Succeeded /\ IsIn(request) /\ Len(buffer) = request.len =>
    buffer = (IF request.kind = "reply"
              THEN Bytes(tag, 0, request.len)
              ELSE SubSeq(vectors[request.vector], 1, request.len))

Written(v) == SubSeq(vectors[v], 1, request.len)

\* A write that the host counts as done has put every byte of its payload in its place,
\* the last packet's too, if no packet was taken twice or for one of another token.
WriteExact ==
  Succeeded /\ request.kind = "write" /\ ~repeated =>
    Written(request.vector) = Bytes(tag, 0, request.len)

\* Even when a lost acknowledgement makes the reader take a packet twice, a write that the
\* host counts as done leaves no byte of an older payload in the part it wrote.
WriteCovers ==
  Succeeded /\ request.kind = "write" =>
    \A i \in 1 .. request.len : vectors[request.vector][i].by = tag

\* On a bus that loses nothing every transfer that is started succeeds.
EveryTransferSucceeds == stage = "setup" ~> outcome = "ok"
=============================================================================
