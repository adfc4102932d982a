---------------------------- MODULE Enumeration ----------------------------
(***************************************************************************)
(* How the reader gets its address: the host resets the port, reads        *)
(* descriptors, assigns an address, selects the configuration, and from    *)
(* then on may ask for anything standard.  Modelled are the packet logic   *)
(* of asmcommon.inc with its token and address filter, the transmitter's   *)
(* change of address (usbdrvasm165.inc), usbProcessRx with usbDriverSetup  *)
(* and usbDriverDescriptor (usbdrv.c), and the bus reset of main.c.        *)
(* UsbEndpoint has vendor requests and their data stages.                  *)
(*                                                                         *)
(* A transaction is one step with the fate of each of its packets.  Other  *)
(* low speed devices share the bus: the reader sees what the host sends to *)
(* them.  Contents are known by their descriptor and offset.               *)
(***************************************************************************)
EXTENDS Integers, Sequences

CONSTANTS
  Chunk,          \* data bytes in a packet: 8
  Address,        \* the address the host assigns
  Plan,           \* the requests of the enumeration, in their order
  Later,          \* requests made when it is done
  Foreign,        \* requests to other devices
  Retries,        \* tries of a transaction: 3
  MaxFaults       \* packets that are lost, altogether

Request ==
  [request: {"GET_STATUS", "CLEAR_FEATURE", "SET_FEATURE", "SET_ADDRESS", "GET_DESCRIPTOR",
             "SET_DESCRIPTOR", "GET_CONFIGURATION", "SET_CONFIGURATION", "GET_INTERFACE",
             "SET_INTERFACE", "SYNCH_FRAME"},
   value: Nat, index: Nat, length: Nat]

NoMsg == 255      \* USB_NO_MSG

ASSUME EnumerationAssumption ==
  /\ {Chunk, Address, Retries} \subseteq Nat \ {0} /\ Address < 128
  /\ Plan \in Seq(Request) /\ Later \subseteq Request /\ Foreign \subseteq Request
  /\ MaxFaults \in Nat

VARIABLES
  \* the host: place in the plan, the request, its stage, what came back and its length
  step, request, stage, toggle, got, received, tries, faults,
  assigned,       \* the host uses the address
  \* asmcommon.inc: usbDeviceAddr, usbNewDeviceAddr, usbCurrentTok, the packet received
  usbDeviceAddr, usbNewDeviceAddr, usbCurrentTok, rx,
  \* the packet to send (usbTxLen, usbTxBuf), its toggle, what follows it
  tx, txToggle, message,
  usbConfiguration,
  strayed         \* a token to another device was missed, and its data packet was not

hostVars == <<step, request, stage, toggle, got, received, tries, assigned>>
vars == <<hostVars, faults, usbDeviceAddr, usbNewDeviceAddr, usbCurrentTok, rx,
          tx, txToggle, message, usbConfiguration, strayed>>

Free == [token |-> "none"]
Nak  == [pid |-> "NAK"]
Smaller(a, b) == IF a < b THEN a ELSE b

Init ==
  /\ step = 1 /\ request = Plan[1] /\ stage = "reset" /\ toggle = 1 /\ got = <<>>
  /\ received = 0 /\ tries = 0 /\ faults = 0 /\ assigned = FALSE
  /\ usbDeviceAddr = 0 /\ usbNewDeviceAddr = 0 /\ usbCurrentTok = "none" /\ rx = Free
  /\ tx = Nak /\ txToggle = 0 /\ message = [what |-> <<"none", 0, 0>>, at |-> 0, left |-> NoMsg]
  /\ usbConfiguration = 0 /\ strayed = FALSE
-----------------------------------------------------------------------------
(***************************************************************************)
(* The host                                                                *)
(***************************************************************************)
Done == step > Len(Plan)

\* The first request of a transfer, or its next try
Begin(r) ==
  /\ request' = r /\ stage' = "setup" /\ toggle' = 1 /\ got' = <<>> /\ received' = 0
  /\ tries' = 0

Fail ==
  /\ stage' = IF Done THEN "idle" ELSE "reset"
  /\ UNCHANGED <<step, request, toggle, got, received, tries, assigned>>

\* An error in a transaction: it is tried again, three times in all.
Error ==
  IF tries + 1 = Retries THEN Fail
  ELSE tries' = tries + 1 /\ UNCHANGED <<step, request, stage, toggle, got, received, assigned>>

\* A request of the plan is followed by the next one.  The host uses the address it
\* assigned from now on.
Success ==
  /\ step' = IF Done THEN step ELSE step + 1
  /\ assigned' = (assigned \/ request.request = "SET_ADDRESS")
  /\ IF step < Len(Plan) THEN Begin(Plan[step'])
     ELSE /\ stage' = "idle"
          /\ UNCHANGED <<request, toggle, got, received, tries>>

Ask(r) ==
  /\ Done /\ stage = "idle"
  /\ Begin(r)
  /\ UNCHANGED <<step, assigned, faults, usbDeviceAddr, usbNewDeviceAddr, usbCurrentTok, rx,
                 tx, txToggle, message, usbConfiguration, strayed>>

HasData(r) == r.length > 0

\* The descriptors there are: the device, a configuration with its interface and no
\* endpoints, the languages, and the product's name of nine characters.
DeviceLength        == 18
ConfigurationLength == 9 + 9
StringLength(index) == CASE index = 0 -> 2 + 2 [] index = 2 -> 2 + 2 * 9 [] OTHER -> 0

\* usbDriverDescriptor: the host gets an empty packet for a descriptor that is missing.
DescriptorLength(type, index) ==
  CASE type = 1 -> DeviceLength
    [] type = 2 -> ConfigurationLength
    [] type = 3 -> StringLength(index)
    [] OTHER    -> 0

\* usbDriverSetup: the length of what is asked for
SourceLength(r) ==
  CASE r.request = "GET_DESCRIPTOR"                          -> DescriptorLength(r.value, r.index)
    [] r.request = "GET_STATUS"                              -> 2
    [] r.request \in {"GET_CONFIGURATION", "GET_INTERFACE"}  -> 1
    [] OTHER                                                 -> 0

\* Mutant: a reply is as long as its source
LengthUnlimited(r) == SourceLength(r)

\* The reply is not longer than wLength.
ReplyLength(r) == Smaller(SourceLength(r), r.length)

\* The host learns the length of a descriptor from its first bytes, and checks it.
Whole == received >= Smaller(SourceLength(request), request.length)
-----------------------------------------------------------------------------
(***************************************************************************)
(* The receiver                                                            *)
(***************************************************************************)
HostAddress == IF assigned THEN Address ELSE 0

Addressed == usbDeviceAddr = HostAddress

Fates == {"heard", "garbled", "missed"}

Cost(fate) == IF fate = "heard" THEN 0 ELSE 1
Faults(n) == faults + n <= MaxFaults /\ faults' = faults + n

\* Mutant: a packet that is ignored leaves the token before in force
KeptToken(token, fate, mine) ==
  IF fate = "heard" /\ mine THEN token ELSE usbCurrentTok

\* A token is stored if it is for this device; any other packet clears the last one;
\* one that is not recognised at all leaves it.
TokenAfter(token, fate, mine) ==
  IF fate = "missed" THEN usbCurrentTok
  ELSE IF fate = "heard" /\ mine THEN token ELSE "none"

\* handleData: the packet belongs to the last token.
Taken(token, content) ==
  IF token # "none" /\ rx = Free THEN [token |-> token, content |-> content] ELSE rx

SetupTransaction(fate, data, ack) ==
  LET token == TokenAfter("SETUP", fate, Addressed)
      acked == data /\ token # "none" /\ rx = Free
  IN
  /\ stage = "setup"
  /\ Faults(Cost(fate) + (IF data THEN 0 ELSE 1) + (IF ack THEN 0 ELSE 1))
  /\ usbCurrentTok' = token
  /\ rx' = IF data THEN Taken(token, request) ELSE rx
  /\ IF acked /\ ack
     THEN /\ stage' = IF HasData(request) THEN "data" ELSE "status"
          /\ tries' = 0
          /\ UNCHANGED <<step, request, toggle, got, received, assigned>>
     ELSE Error
  /\ UNCHANGED <<usbDeviceAddr, usbNewDeviceAddr, tx, txToggle, message, usbConfiguration, strayed>>

\* An empty data packet is acknowledged and not stored.
StatusOut(fate, data, ack) ==
  LET token == TokenAfter("OUT", fate, Addressed)
      acked == data /\ token # "none"
  IN
  /\ stage = "status" /\ HasData(request) /\ rx = Free
  /\ Faults(Cost(fate) + (IF data THEN 0 ELSE 1) + (IF ack THEN 0 ELSE 1))
  /\ usbCurrentTok' = token
  /\ IF ~(acked /\ ack) THEN Error ELSE IF Whole THEN Success ELSE Fail
  /\ UNCHANGED <<usbDeviceAddr, usbNewDeviceAddr, rx, tx, txToggle, message, usbConfiguration, strayed>>

\* What the host does with a packet: one with the other toggle is dropped.
Accept(packet) ==
  IF packet.toggle # toggle THEN UNCHANGED hostVars
  ELSE IF stage = "status" THEN Success
  ELSE /\ got' = Append(got, packet.content)
       /\ received' = received + packet.content.length
       /\ toggle' = 1 - toggle
       /\ stage' = IF packet.content.length < Chunk \/ received' >= request.length
                   THEN "status" ELSE stage
       /\ tries' = 0
       /\ UNCHANGED <<step, request, assigned>>

\* Mutant: no packet changes the address
AddressKept == usbDeviceAddr

\* usbDeviceAddr changes when a data packet was sent, and not before.
AddressAfterData == usbNewDeviceAddr

\* handleIn; the acknowledgement of the host clears usbCurrentTok if it is heard.
InTransaction(fate, arrives, ack) ==
  /\ stage = "data" \/ (stage = "status" /\ ~HasData(request))
  /\ Faults(Cost(fate) + (IF arrives THEN 0 ELSE 1))
  /\ IF fate = "heard" /\ Addressed
     THEN /\ rx = Free /\ tx # Nak
          /\ tx' = Nak
          /\ usbDeviceAddr' = AddressAfterData
          /\ usbCurrentTok' = IF arrives /\ ack THEN "none" ELSE usbCurrentTok
          /\ IF arrives THEN Accept(tx) ELSE Error
     ELSE /\ arrives /\ ack
          /\ usbCurrentTok' = TokenAfter("IN", fate, FALSE)
          /\ Error
          /\ UNCHANGED <<tx, usbDeviceAddr>>
  /\ UNCHANGED <<usbNewDeviceAddr, rx, txToggle, message, usbConfiguration, strayed>>

\* The device has nothing to send and never will: it says NAK until the host's patience
\* of seconds is over.
Timeout ==
  /\ stage = "data" \/ (stage = "status" /\ ~HasData(request))
  /\ Addressed /\ rx = Free /\ tx = Nak /\ message.left = NoMsg
  /\ Fail
  /\ UNCHANGED <<faults, usbDeviceAddr, usbNewDeviceAddr, usbCurrentTok, rx, tx, txToggle,
                 message, usbConfiguration, strayed>>

\* A setup transaction with another device.  If its token is missed, the data packet is
\* taken for one that follows the last token that was seen.
Overheard(r, fate) ==
  /\ Faults(Cost(fate))
  /\ usbCurrentTok' = TokenAfter("SETUP", fate, FALSE)
  /\ rx' = Taken(usbCurrentTok', r)
  /\ strayed' = (strayed \/ fate = "missed")
  /\ UNCHANGED <<hostVars, usbDeviceAddr, usbNewDeviceAddr, tx, txToggle, message,
                 usbConfiguration>>
-----------------------------------------------------------------------------
(***************************************************************************)
(* usbProcessRx and usbBuildTxBlock, one poll                              *)
(***************************************************************************)
\* What the reply is of
Source(r) == <<r.request, r.value, r.index>>

Process ==
  IF rx.token = "SETUP"
  THEN [message |-> [what |-> Source(rx.content), at |-> 0, left |-> ReplyLength(rx.content)],
        tx |-> Nak, toggle |-> 0]
  ELSE [message |-> message, tx |-> tx, toggle |-> txToggle]

\* A packet is built if there is none: the last is the one that is not full.
Build(p) ==
  LET n == Smaller(p.message.left, Chunk) IN
  IF p.tx # Nak \/ p.message.left = NoMsg THEN p
  ELSE [message |-> [what |-> p.message.what, at |-> p.message.at + n,
                     left |-> IF n < Chunk THEN NoMsg ELSE p.message.left - n],
        toggle |-> 1 - p.toggle,
        tx |-> [pid |-> "DATA", toggle |-> 1 - p.toggle,
                content |-> [what |-> IF p.message.what[1] = "GET_CONFIGURATION"
                                      THEN <<"GET_CONFIGURATION", usbConfiguration', 0>>
                                      ELSE p.message.what,
                             at |-> p.message.at, length |-> n]]]

Asked(name) == rx.token = "SETUP" /\ rx.content.request = name

Poll ==
  /\ rx # Free \/ (tx = Nak /\ message.left # NoMsg)
  /\ usbNewDeviceAddr' = IF Asked("SET_ADDRESS") THEN rx.content.value ELSE usbNewDeviceAddr
  /\ usbConfiguration' = IF Asked("SET_CONFIGURATION") THEN rx.content.value ELSE usbConfiguration
  /\ LET built == Build(Process)
     IN message' = built.message /\ tx' = built.tx /\ txToggle' = built.toggle
  /\ rx' = Free
  /\ UNCHANGED <<hostVars, faults, usbDeviceAddr, usbCurrentTok, strayed>>

\* A hundred rounds of the inner loop, which is entered with nothing to process, find
\* both lines low.  Nothing else is reset.
BusReset ==
  /\ stage = "reset" /\ rx = Free
  /\ step' = 1 /\ assigned' = FALSE /\ Begin(Plan[1])
  /\ usbDeviceAddr' = 0 /\ usbNewDeviceAddr' = 0
  /\ UNCHANGED <<faults, usbCurrentTok, rx, tx, txToggle, message, usbConfiguration, strayed>>

\* The hub port is reset although all goes well: another driver, a resume
PortReset ==
  /\ Done /\ stage = "idle"
  /\ stage' = "reset"
  /\ UNCHANGED <<step, request, toggle, got, received, tries, assigned, faults, usbDeviceAddr,
                 usbNewDeviceAddr, usbCurrentTok, rx, tx, txToggle, message, usbConfiguration, strayed>>

Bus ==
  \/ \E fate \in Fates, data, ack \in BOOLEAN :
        \/ SetupTransaction(fate, data, ack)
        \/ StatusOut(fate, data, ack)
        \/ InTransaction(fate, data, ack)
  \/ \E r \in Foreign, fate \in Fates : Overheard(r, fate)

Next == Bus \/ Timeout \/ Poll \/ BusReset \/ PortReset \/ (\E r \in Later : Ask(r))

Spec == Init /\ [][Next]_vars
FairSpec ==
  /\ Spec
  /\ WF_vars(Poll) /\ WF_vars(BusReset) /\ WF_vars(Timeout)
  /\ WF_vars(SetupTransaction("heard", TRUE, TRUE))
  /\ WF_vars(StatusOut("heard", TRUE, TRUE))
  /\ WF_vars(\E ack \in BOOLEAN : InTransaction("heard", TRUE, ack))
-----------------------------------------------------------------------------
\* The requests of the host: it addresses and configures the device, and knows the
\* configuration when it asks for it.  No reply fills an even number of packets and all
\* that was asked for: after those the device builds an empty packet that nobody fetches,
\* with the toggle of a status packet, and a host whose next SETUP token is missed takes
\* it for the status of that request.
Wanted == {Plan[i] : i \in 1..Len(Plan)} \cup Later

ASSUME PlanAssumption ==
  /\ \A r \in Wanted :
       /\ r.request = "SET_ADDRESS" => r.value = Address /\ r.length = 0
       /\ r.request = "SET_CONFIGURATION" => r.value = 1 /\ r.length = 0
       /\ r.length > 0 /\ ReplyLength(r) = r.length =>
            \A pairs \in 0..r.length : r.length # 2 * Chunk * pairs
  /\ \A name \in {"SET_ADDRESS", "SET_CONFIGURATION"} :
       \E i \in 1..Len(Plan) : Plan[i].request = name
  /\ \A i \in 1..Len(Plan) : Plan[i].request = "GET_CONFIGURATION" =>
       \E j \in 1..(i - 1) : Plan[j].request = "SET_CONFIGURATION"

ReplySource(r) == IF r.request = "GET_CONFIGURATION" THEN <<r.request, 1, 0>> ELSE Source(r)

\* Whatever is lost, the host never accepts more bytes than it asked for, and a reply of
\* the right length has the right bytes, each in its place: the packet that is dropped
\* for its toggle after a loss is not replaced by a later one, and nothing comes from the
\* request before (usbProcessRx, usbBuildTxBlock, handleIn).  GET_CONFIGURATION reports
\* the configuration that was selected.
ReplyRight ==
  ~strayed /\ stage = "status" /\ HasData(request) =>
    /\ received <= request.length
    /\ Whole => \A i \in DOMAIN got :
         got[i] = [what |-> ReplySource(request), at |-> Chunk * (i - 1),
                   length |-> Smaller(Chunk, ReplyLength(request) - Chunk * (i - 1))]

\* When the host is through with the enumeration the reader answers to the address the
\* host uses and has the configuration the host selected, whatever was lost on the way:
\* status packets after which only one of the two changed its address, resets in the
\* middle, requests to other devices overheard.  The exception is the data packet of
\* another device whose token the reader missed: handleData takes it with the last token.
ConfiguredRight ==
  ~strayed /\ Done /\ stage # "reset" =>
    Addressed /\ usbNewDeviceAddr = Address /\ usbConfiguration = 1

\* When no more packets are lost the host gets through: no loss leaves the reader at an
\* address, with a toggle or with a packet that the next try or reset does not clear.
Enumerates == []<>Done
=============================================================================
