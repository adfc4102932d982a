------------------------- MODULE Enumeration_proofs -------------------------
(***************************************************************************)
(* Whatever the host asks for and whatever is lost, replies are right and  *)
(* the host that is through has a configured device: ReplyRight and        *)
(* ConfiguredRight, for every plan of requests and every number of faults. *)
(*                                                                         *)
(* The argument follows one control transfer.  Its SETUP packet waits to   *)
(* be processed (Pending), was taken with the token of a status packet and *)
(* will be forgotten (Lost), or is being served.  What the device still    *)
(* holds from a transfer before can do no harm while the packet is lost,   *)
(* because it has the wrong toggle (Spent).  A transfer that is served is  *)
(* in step with the host or so far behind that its reply stays too short.  *)
(***************************************************************************)
EXTENDS Enumeration, SequenceTheorems, TLAPS

\* What the host knows of a transfer that begins
Fresh == toggle = 1 /\ got = <<>> /\ received = 0

\* Nothing with the toggle of a first data packet or a status packet is left or can be built.
Spent ==
  \/ tx = Nak /\ message.left = NoMsg
  \/ tx = Nak /\ message.left = 0 /\ txToggle = 1
  \/ tx # Nak /\ tx.toggle = 0 /\ message.left = NoMsg

Pending == rx = [token |-> "SETUP", content |-> request] /\ Fresh
Lost    == rx.token # "SETUP" /\ Spent /\ Fresh

\* What the reply to r consists of, and its first n packets
Piece(r, i) ==
  [what |-> ReplySource(r), at |-> Chunk * (i - 1),
   length |-> Smaller(Chunk, ReplyLength(r) - Chunk * (i - 1))]
Pieces(r, n) == [i \in 1..n |-> Piece(r, i)]

\* The bytes in the packet to send
Ready == IF tx = Nak THEN 0 ELSE tx.content.length

\* The device: message m of the reply to r, packet x to send, its toggle t.  It has read the
\* reply up to "at", in whole packets but for the last.
Progress(r, m, x, t) ==
  /\ m.what = Source(r)
  /\ m.at \in 0..ReplyLength(r)
  /\ m.left = NoMsg => m.at = ReplyLength(r)
  /\ m.left # NoMsg =>
       /\ m.left = ReplyLength(r) - m.at
       /\ \E q \in Nat : m.at = Chunk * q /\ t = q % 2
  /\ x # Nak =>
       /\ x.toggle = t
       /\ x.content.length \in 0..Chunk
       /\ x.content.length < Chunk => m.left = NoMsg

\* The host has n packets; the next one is ready, or will be built.
InStep(n) ==
  /\ got = Pieces(request, n)
  /\ received + Ready = message.at
  /\ tx # Nak =>
       /\ tx.toggle = toggle /\ tx.content = Piece(request, n + 1)
       /\ message.at = Chunk * n + tx.content.length
  /\ tx = Nak /\ message.left # NoMsg =>
       txToggle = 1 - toggle /\ message.at = Chunk * n

\* Bytes the device has sent did not arrive.
Behind == received + Ready < message.at

Serving ==
  /\ rx = Free
  /\ Progress(request, message, tx, txToggle)
  /\ Behind \/ (\E n \in Nat : InStep(n))

Processed ==
  /\ rx = Free
  /\ request.request = "SET_ADDRESS" => usbNewDeviceAddr = Address
  /\ request.request = "SET_CONFIGURATION" => usbConfiguration = 1
-----------------------------------------------------------------------------
HostInv ==
  /\ step \in 1..(Len(Plan) + 1) /\ request \in Wanted
  /\ toggle \in {0, 1} /\ received \in Nat
  /\ stage \in {"reset", "idle", "setup", "data", "status"}
  /\ stage \in {"setup", "data", "status"} /\ ~Done => request = Plan[step]
  /\ stage = "setup" => Fresh

AddressInv ==
  /\ usbDeviceAddr \in {0, Address} /\ usbNewDeviceAddr \in {0, Address}
  /\ assigned => usbDeviceAddr = Address /\ usbNewDeviceAddr = Address
  /\ usbConfiguration \in {0, 1}
  /\ \A i \in 1..Len(Plan) : i < step =>
       /\ Plan[i].request = "SET_ADDRESS" => assigned
       /\ Plan[i].request = "SET_CONFIGURATION" => usbConfiguration = 1

ReceiverInv ==
  /\ usbCurrentTok \in {"none", "SETUP", "OUT"} /\ txToggle \in {0, 1}
  /\ rx = Free \/ rx \in [token : {"SETUP", "OUT"}, content : Wanted]
  /\ usbCurrentTok = "OUT" => Spent /\ rx.token # "SETUP"

StageInv ==
  /\ stage = "data" => HasData(request) /\ (Pending \/ Lost \/ Serving)
  /\ stage = "status" /\ HasData(request) =>
       /\ rx = Free /\ Spent
       /\ received <= request.length
       /\ received >= ReplyLength(request) => \E n \in Nat : got = Pieces(request, n)
  /\ stage = "status" /\ ~HasData(request) =>
       toggle = 1 /\ (Pending \/ Lost \/ Processed)

Inv  == HostInv /\ AddressInv /\ ReceiverInv /\ StageInv
IInv == ~strayed => Inv
-----------------------------------------------------------------------------
\* The requests of the host are requests; what the assumptions say of each.
LEMMA WantedRequest ==
  ASSUME NEW r \in Wanted
  PROVE  /\ r \in Request /\ r.length \in Nat
         /\ r.request = "SET_ADDRESS" => r.value = Address /\ ~HasData(r)
         /\ r.request = "SET_CONFIGURATION" => r.value = 1 /\ ~HasData(r)
<1>1. r \in Request
  BY EnumerationAssumption, ElementOfSeq DEF Wanted
<1>2. r.length \in Nat
  BY <1>1 DEF Request
<1> QED
  BY <1>1, <1>2, PlanAssumption DEF HasData

\* A reply is short, no longer than what was asked for, and its length is not taken for
\* the mark that nothing is left.
LEMMA ReplyType ==
  ASSUME NEW r \in Wanted
  PROVE  /\ ReplyLength(r) \in 0..20
         /\ ReplyLength(r) <= r.length
         /\ ReplyLength(r) = Smaller(SourceLength(r), r.length)
         /\ ReplyLength(r) # NoMsg
<1> DEFINE Two == 2 + 2  Twenty == 2 + 2 * 9
<1>0. Two = 4 /\ Twenty = 20
  OBVIOUS
<1>1. ASSUME NEW index PROVE StringLength(index) \in {0, 4, 20}
  <2>1. StringLength(index) \in {0, Two, Twenty}
    BY Zenon DEF StringLength
  <2> QED
    BY <1>0, <2>1
<1>2. \A type, index : DescriptorLength(type, index) \in {0, 4, 18, 20}
  BY <1>1, 9 + 9 = 18, Zenon DEF DescriptorLength, DeviceLength, ConfigurationLength
<1>3. SourceLength(r) \in {0, 1, 2, 4, 18, 20}
  BY <1>2, Zenon DEF SourceLength
<1>4. SourceLength(r) \in 0..20
  BY <1>3
<1> QED
  BY <1>4, WantedRequest DEF ReplyLength, Smaller, NoMsg

\* The tuples of no packets
LEMMA NoPieces == \A r : Pieces(r, 0) = <<>>
  BY DEF Pieces

\* One more packet
LEMMA NextPiece ==
  ASSUME NEW r, NEW n \in Nat
  PROVE  Append(Pieces(r, n), Piece(r, n + 1)) = Pieces(r, n + 1)
<1> DEFINE S == {Piece(r, i) : i \in 1..(n + 1)}
<1>1. Pieces(r, n) \in Seq(S) /\ Len(Pieces(r, n)) = n
  BY SMT DEF Pieces
<1>2. Piece(r, n + 1) \in S
  OBVIOUS
<1>3. \A i \in 1..n : Pieces(r, n)[i] = Piece(r, i)
  BY DEF Pieces
<1> HIDE DEF S
<1>4. /\ Append(Pieces(r, n), Piece(r, n + 1)) \in Seq(S)
      /\ Len(Append(Pieces(r, n), Piece(r, n + 1))) = n + 1
      /\ \A i \in 1..n : Append(Pieces(r, n), Piece(r, n + 1))[i] = Piece(r, i)
      /\ Append(Pieces(r, n), Piece(r, n + 1))[n + 1] = Piece(r, n + 1)
  BY <1>1, <1>2, <1>3, AppendProperties
<1>5. Append(Pieces(r, n), Piece(r, n + 1)) =
        [i \in 1..(n + 1) |-> Append(Pieces(r, n), Piece(r, n + 1))[i]]
  BY <1>4
<1> QED
  BY <1>4, <1>5 DEF Pieces
-----------------------------------------------------------------------------
\* The host's part: what its steps after a transaction do to it
LEMMA ErrorHost ==
  ASSUME HostInv, Error
  PROVE  /\ HostInv'
         /\ step' = step /\ assigned' = assigned
         /\ \/ stage' \in {"idle", "reset"}
            \/ UNCHANGED <<request, stage, toggle, got, received>>
  BY Zenon DEF HostInv, Error, Fail, Fresh, Done

LEMMA FailHost ==
  ASSUME HostInv, Fail
  PROVE  /\ HostInv'
         /\ step' = step /\ assigned' = assigned
         /\ stage' \in {"idle", "reset"}
  BY Zenon DEF HostInv, Fail, Fresh, Done

LEMMA BeginHost ==
  ASSUME NEW r \in Wanted, Begin(r), step' \in 1..(Len(Plan) + 1),
         step' <= Len(Plan) => r = Plan[step']
  PROVE  HostInv' /\ stage' = "setup"
<1>1. Len(Plan) \in Nat
  BY EnumerationAssumption, LenProperties
<1> QED
  BY <1>1 DEF HostInv, Begin, Fresh, Done

LEMMA SuccessHost ==
  ASSUME HostInv, Success, stage = "status"
  PROVE  /\ HostInv' /\ stage' \in {"setup", "idle"}
         /\ assigned' = (assigned \/ request.request = "SET_ADDRESS")
         /\ step' \in {step, step + 1}
         /\ step' = step + 1 => request = Plan[step]
<1>1. Len(Plan) \in Nat
  BY EnumerationAssumption, LenProperties
<1>2. step' \in 1..(Len(Plan) + 1)
  BY <1>1 DEF HostInv, Success, Done
<1>3. step' \in {step, step + 1} /\ (step' = step + 1 => request = Plan[step])
  BY <1>1 DEF HostInv, Success, Done
<1>4. assigned' = (assigned \/ request.request = "SET_ADDRESS")
  BY DEF Success
<1>5. CASE step < Len(Plan)
  <2>1. step' = step + 1 /\ step' \in 1..Len(Plan) /\ Begin(Plan[step'])
    BY <1>1, <1>5 DEF HostInv, Success, Done
  <2>2. Plan[step'] \in Wanted
    BY <2>1 DEF Wanted
  <2> QED
    BY <1>2, <1>3, <1>4, <2>1, <2>2, BeginHost
<1>6. CASE ~(step < Len(Plan))
  <2>1. stage' = "idle" /\ UNCHANGED <<request, toggle, got, received>>
    BY <1>6 DEF Success
  <2>2. HostInv'
    BY <1>2, <2>1 DEF HostInv
  <2> QED
    BY <1>3, <1>4, <2>1, <2>2
<1> QED
  BY <1>5, <1>6

\* The addresses and the configuration after a step that selects none
LEMMA AddressKeeps ==
  ASSUME HostInv, AddressInv, step' = step, assigned' = assigned,
         usbDeviceAddr' \in {usbDeviceAddr, usbNewDeviceAddr},
         usbNewDeviceAddr' = usbNewDeviceAddr, usbConfiguration' = usbConfiguration
  PROVE  AddressInv'
<1>1. /\ usbDeviceAddr' \in {0, Address} /\ usbNewDeviceAddr' \in {0, Address}
      /\ usbConfiguration' \in {0, 1}
  BY DEF AddressInv
<1>2. assigned' => usbDeviceAddr' = Address /\ usbNewDeviceAddr' = Address
  BY Zenon DEF AddressInv
<1>3. \A i \in 1..Len(Plan) : i < step' =>
        /\ Plan[i].request = "SET_ADDRESS" => assigned'
        /\ Plan[i].request = "SET_CONFIGURATION" => usbConfiguration' = 1
  BY Zenon DEF AddressInv
<1> QED
  BY <1>1, <1>2, <1>3, Zenon DEF AddressInv

\* A request is done: what it set is in force.
LEMMA AddressSuccess ==
  ASSUME HostInv, AddressInv, Success, stage = "status",
         usbDeviceAddr' \in {usbDeviceAddr, usbNewDeviceAddr},
         usbNewDeviceAddr' = usbNewDeviceAddr, usbConfiguration' = usbConfiguration,
         request.request = "SET_ADDRESS" => usbDeviceAddr' = Address /\ usbNewDeviceAddr = Address,
         request.request = "SET_CONFIGURATION" => usbConfiguration = 1
  PROVE  AddressInv'
<1>1. /\ usbDeviceAddr' \in {0, Address} /\ usbNewDeviceAddr' \in {0, Address}
      /\ usbConfiguration' \in {0, 1}
  BY DEF AddressInv
<1>2. assigned' => usbDeviceAddr' = Address /\ usbNewDeviceAddr' = Address
  BY SuccessHost, Zenon DEF AddressInv
<1>3. ASSUME NEW i \in 1..Len(Plan), i < step'
      PROVE  /\ Plan[i].request = "SET_ADDRESS" => assigned'
             /\ Plan[i].request = "SET_CONFIGURATION" => usbConfiguration' = 1
  <2>1. step \in Nat
    BY EnumerationAssumption, LenProperties DEF HostInv
  <2>2. i < step \/ (i = step /\ step' = step + 1)
    BY <1>3, <2>1, SuccessHost, SMT
  <2> QED
    BY <2>2, SuccessHost, Zenon DEF AddressInv
<1> QED
  BY <1>1, <1>2, <1>3, Zenon DEF AddressInv
-----------------------------------------------------------------------------
\* What usbBuildTxBlock does
LEMMA BuildKeeps ==
  ASSUME NEW p, p.tx # Nak \/ p.message.left = NoMsg
  PROVE  Build(p) = p
  BY Zenon DEF Build

\* What is built: the next n bytes of message m and whether any are left, the toggle t inverted.
Built(b, m, t, n) ==
  /\ b.message.what = m.what
  /\ b.message.at = m.at + n
  /\ n < Chunk => b.message.left = NoMsg
  /\ ~(n < Chunk) => b.message.left = m.left - n
  /\ b.toggle = 1 - t
  /\ b.tx # Nak
  /\ b.tx.toggle = 1 - t
  /\ b.tx.content.length = n
  /\ b.tx.content =
       [what |-> IF m.what[1] = "GET_CONFIGURATION"
                 THEN <<"GET_CONFIGURATION", usbConfiguration', 0>>
                 ELSE m.what,
        at |-> m.at, length |-> n]

\* What is built when there is something to build
LEMMA BuildNext ==
  ASSUME NEW p, p.tx = Nak, p.message.left # NoMsg,
         NEW n, n = Smaller(p.message.left, Chunk)
  PROVE  Built(Build(p), p.message, p.toggle, n)
<1> DEFINE left == IF n < Chunk THEN NoMsg ELSE p.message.left - n
           what == IF p.message.what[1] = "GET_CONFIGURATION"
                   THEN <<"GET_CONFIGURATION", usbConfiguration', 0>>
                   ELSE p.message.what
<1>1. Build(p) = [message |-> [what |-> p.message.what, at |-> p.message.at + n, left |-> left],
                  toggle |-> 1 - p.toggle,
                  tx |-> [pid |-> "DATA", toggle |-> 1 - p.toggle,
                          content |-> [what |-> what, at |-> p.message.at, length |-> n]]]
  BY Zenon DEF Build
<1>2. (n < Chunk => left = NoMsg) /\ (~(n < Chunk) => left = p.message.left - n)
  BY Zenon
<1> HIDE DEF left, what
<1>3. Build(p).tx.pid # Nak.pid
  BY <1>1 DEF Nak
<1>4. Build(p).tx # Nak
  BY <1>3
<1>5. /\ Build(p).message.what = p.message.what
      /\ Build(p).message.at = p.message.at + n
      /\ Build(p).message.left = left
      /\ Build(p).toggle = 1 - p.toggle
      /\ Build(p).tx.toggle = 1 - p.toggle
      /\ Build(p).tx.content = [what |-> what, at |-> p.message.at, length |-> n]
      /\ Build(p).tx.content.length = n
  BY <1>1
<1> QED
  BY <1>2, <1>4, <1>5, Zenon DEF what, Built

\* A poll with nothing to do but to build a packet, or a packet to forget
LEMMA PollForgets ==
  ASSUME Poll, rx.token # "SETUP"
  PROVE  /\ rx' = Free
         /\ UNCHANGED <<hostVars, usbDeviceAddr, usbNewDeviceAddr, usbCurrentTok, usbConfiguration>>
         /\ tx # Nak \/ message.left = NoMsg => UNCHANGED <<tx, message, txToggle>>
         /\ LET p == [message |-> message, tx |-> tx, toggle |-> txToggle] IN
            message' = Build(p).message /\ tx' = Build(p).tx /\ txToggle' = Build(p).toggle
<1> DEFINE p == [message |-> message, tx |-> tx, toggle |-> txToggle]
<1>1. Process = p
  BY Zenon DEF Process
<1>2. message' = Build(p).message /\ tx' = Build(p).tx /\ txToggle' = Build(p).toggle
  BY <1>1, Zenon DEF Poll
<1>3. p.message = message /\ p.tx = tx /\ p.toggle = txToggle
  OBVIOUS
<1>4. tx # Nak \/ message.left = NoMsg => Build(p) = p
  BY <1>3, BuildKeeps, Zenon
<1>5. rx' = Free
      /\ UNCHANGED <<hostVars, usbDeviceAddr, usbNewDeviceAddr, usbCurrentTok, usbConfiguration>>
  BY Zenon DEF Poll, Asked
<1> HIDE DEF p
<1>6. tx # Nak \/ message.left = NoMsg => UNCHANGED <<tx, message, txToggle>>
  BY <1>2, <1>3, <1>4
<1> QED
  BY <1>2, <1>5, <1>6, Zenon DEF p

\* What is spent stays so.
LEMMA PollSpent ==
  ASSUME Poll, rx.token # "SETUP", Spent
  PROVE  Spent'
<1>1. CASE tx # Nak \/ message.left = NoMsg
  BY <1>1, PollForgets, Zenon DEF Spent
<1>2. CASE tx = Nak /\ message.left # NoMsg
  <2>1. message.left = 0 /\ txToggle = 1
    BY <1>2 DEF Spent
  <2>2. 0 = Smaller(0, Chunk) /\ 0 < Chunk /\ 1 - 1 = 0
    BY EnumerationAssumption DEF Smaller
  <2> DEFINE p == [message |-> message, tx |-> tx, toggle |-> txToggle]
  <2>3. p.message = message /\ p.tx = tx /\ p.toggle = txToggle
    OBVIOUS
  <2>4. message' = Build(p).message /\ tx' = Build(p).tx
    BY PollForgets, Zenon
  <2> HIDE DEF p
  <2>5. p.tx = Nak /\ p.message.left # NoMsg /\ 0 = Smaller(p.message.left, Chunk)
    BY <1>2, <2>1, <2>2, <2>3, Zenon
  <2>6. /\ 0 < Chunk => Build(p).message.left = NoMsg
        /\ Build(p).tx # Nak /\ Build(p).tx.toggle = 1 - p.toggle
    BY <2>5, BuildNext, Zenon DEF Built
  <2>7. Build(p).message.left = NoMsg /\ Build(p).tx # Nak /\ Build(p).tx.toggle = 0
    BY <2>1, <2>2, <2>3, <2>6
  <2> QED
    BY <2>4, <2>7 DEF Spent
<1> QED
  BY <1>1, <1>2

\* A packet of the reply to r is built.
LEMMA BuildReply ==
  ASSUME NEW r \in Wanted, NEW q \in Nat, NEW a \in 0..ReplyLength(r), a = Chunk * q,
         r.request = "GET_CONFIGURATION" => usbConfiguration' = 1,
         NEW p, p.message.what = Source(r), p.message.at = a,
         p.message.left = ReplyLength(r) - a, p.tx = Nak, p.toggle = q % 2
  PROVE  /\ Progress(r, Build(p).message, Build(p).tx, Build(p).toggle)
         /\ Build(p).tx # Nak /\ Build(p).tx.toggle = 1 - p.toggle
         /\ Build(p).tx.content =
              [what |-> ReplySource(r), at |-> a,
               length |-> Smaller(Chunk, ReplyLength(r) - a)]
         /\ Build(p).message.at = a + Build(p).tx.content.length
<1> DEFINE R == ReplyLength(r)  n == Smaller(R - a, Chunk)
<1>1. R \in 0..20 /\ Chunk \in Nat /\ Chunk > 0
  BY ReplyType, EnumerationAssumption
<1>2. /\ n \in Nat /\ n = Smaller(Chunk, R - a) /\ n <= Chunk /\ n <= R - a
      /\ n < Chunk => n = R - a
  BY <1>1 DEF Smaller
<1>3. R - a # NoMsg
  BY <1>1 DEF NoMsg
<1>4. p.message.left # NoMsg /\ n = Smaller(p.message.left, Chunk)
  BY <1>3
<1> HIDE DEF n, R
<1>5. /\ Build(p).message.what = p.message.what
      /\ Build(p).message.at = p.message.at + n
      /\ n < Chunk => Build(p).message.left = NoMsg
      /\ ~(n < Chunk) => Build(p).message.left = p.message.left - n
      /\ Build(p).toggle = 1 - p.toggle
      /\ Build(p).tx # Nak
      /\ Build(p).tx.toggle = 1 - p.toggle
      /\ Build(p).tx.content.length = n
      /\ Build(p).tx.content =
           [what |-> IF p.message.what[1] = "GET_CONFIGURATION"
                     THEN <<"GET_CONFIGURATION", usbConfiguration', 0>>
                     ELSE p.message.what,
            at |-> p.message.at, length |-> n]
  <2>1. Built(Build(p), p.message, p.toggle, n)
    BY <1>4, BuildNext, Zenon
  <2> QED
    BY <2>1, Zenon DEF Built
<1>6. p.message.what = Source(r) /\ p.message.at = a /\ p.message.left = R - a
  BY DEF R
<1>7. Build(p).tx.content = [what |-> ReplySource(r), at |-> a, length |-> n]
  <2>1. Source(r)[1] = r.request
    BY DEF Source
  <2>2. CASE r.request = "GET_CONFIGURATION"
    BY <1>5, <1>6, <2>1, <2>2, Zenon DEF ReplySource
  <2>3. CASE r.request # "GET_CONFIGURATION"
    BY <1>5, <1>6, <2>1, <2>3, Zenon DEF ReplySource
  <2> QED
    BY <2>2, <2>3
<1>8. Build(p).message.at = a + n /\ a + n \in 0..R
  BY <1>1, <1>2, <1>5, <1>6
<1>9. Build(p).message.left = NoMsg => a + n = R
  BY <1>1, <1>2, <1>5, <1>6 DEF NoMsg
<1>10. ASSUME Build(p).message.left # NoMsg
       PROVE  /\ Build(p).message.left = R - (a + n)
              /\ \E k \in Nat : a + n = Chunk * k /\ Build(p).toggle = k % 2
  <2>0. ~(n < Chunk) /\ Build(p).message.left = p.message.left - n
    BY <1>5, <1>10, Zenon
  <2>1. n = Chunk /\ Build(p).message.left = R - a - n
    BY <1>1, <1>2, <1>6, <2>0
  <2>2. a + n = Chunk * (q + 1) /\ q + 1 \in Nat
    BY <1>1, <2>1
  <2>3. Build(p).toggle = (q + 1) % 2
    BY <1>5
  <2> QED
    BY <1>1, <2>1, <2>2, <2>3
<1>11. Progress(r, Build(p).message, Build(p).tx, Build(p).toggle)
  <2>1. Build(p).message.what = Source(r) /\ Build(p).message.at \in 0..R
    BY <1>5, <1>6, <1>8
  <2>2. Build(p).tx.content.length \in 0..Chunk
    BY <1>1, <1>2, <1>5
  <2>3. Build(p).tx.toggle = Build(p).toggle
        /\ (Build(p).tx.content.length < Chunk => Build(p).message.left = NoMsg)
    BY <1>5
  <2> QED
    BY <1>8, <1>9, <1>10, <2>1, <2>2, <2>3, Zenon DEF Progress, R
<1> QED
  BY <1>2, <1>5, <1>7, <1>8, <1>11 DEF R

\* The configuration is known when it is asked for.
LEMMA ConfigurationKnown ==
  ASSUME HostInv, AddressInv, stage = "data", request.request = "GET_CONFIGURATION"
  PROVE  usbConfiguration = 1
<1>1. Len(Plan) \in Nat /\ step \in Nat
  BY EnumerationAssumption, LenProperties DEF HostInv
<1>2. CASE Done
  <2>1. PICK i \in 1..Len(Plan) : Plan[i].request = "SET_CONFIGURATION"
    BY PlanAssumption
  <2>2. i < step
    BY <1>1, <1>2 DEF Done
  <2> QED
    BY <2>1, <2>2 DEF AddressInv
<1>3. CASE ~Done
  <2>1. request = Plan[step] /\ step \in 1..Len(Plan)
    BY <1>1, <1>3 DEF HostInv, Done
  <2>2. PICK j \in 1..(step - 1) : Plan[j].request = "SET_CONFIGURATION"
    BY <2>1, PlanAssumption
  <2>3. j \in 1..Len(Plan) /\ j < step
    BY <1>1, <2>1
  <2> QED
    BY <2>2, <2>3 DEF AddressInv
<1> QED
  BY <1>2, <1>3

\* A request that is processed is in step with the host.
LEMMA PollBegins ==
  ASSUME HostInv, AddressInv, stage = "data", HasData(request), Pending, Poll
  PROVE  Serving'
<1> DEFINE R == ReplyLength(request)
           m == [what |-> Source(request), at |-> 0, left |-> R]
           p == [message |-> m, tx |-> Nak, toggle |-> 0]
<1>1. rx.token = "SETUP" /\ rx.content = request
  BY DEF Pending
<1>2. request \in Wanted /\ R \in 0..20 /\ Chunk \in Nat /\ Chunk > 0
  BY ReplyType, EnumerationAssumption DEF HostInv
<1>3. Process = p
  BY <1>1, Zenon DEF Process
<1>4. message' = Build(p).message /\ tx' = Build(p).tx /\ txToggle' = Build(p).toggle
  BY <1>3, Zenon DEF Poll
<1>5. UNCHANGED <<request, toggle, got, received>> /\ rx' = Free
  BY DEF Poll, hostVars
<1>6. usbConfiguration' = usbConfiguration
  BY <1>1, <1>2, WantedRequest, Zenon DEF Poll, Asked
<1>7. request.request = "GET_CONFIGURATION" => usbConfiguration' = 1
  BY <1>6, ConfigurationKnown
<1>8. /\ p.message = m /\ p.tx = Nak /\ p.toggle = 0
      /\ m.what = Source(request) /\ m.at = 0 /\ m.left = R - 0
  BY <1>2
<1> HIDE DEF R, m, p
<1>9. PICK q \in Nat, a \in 0..R : q = 0 /\ a = 0
  BY <1>2
<1>10. /\ a = Chunk * q /\ p.toggle = q % 2
       /\ p.message.what = Source(request) /\ p.message.at = a /\ p.message.left = R - a
       /\ p.tx = Nak
  BY <1>2, <1>8, <1>9
<1>11. /\ Progress(request, Build(p).message, Build(p).tx, Build(p).toggle)
       /\ Build(p).tx # Nak /\ Build(p).tx.toggle = 1 - p.toggle
       /\ Build(p).tx.content =
            [what |-> ReplySource(request), at |-> a, length |-> Smaller(Chunk, R - a)]
       /\ Build(p).message.at = a + Build(p).tx.content.length
  BY <1>2, <1>7, <1>10, BuildReply, Zenon DEF R
<1>12. Progress(request, message, tx, txToggle)'
  BY <1>4, <1>5, <1>11, Zenon DEF Progress
<1>13. InStep(0)'
  <2>1. got' = Pieces(request', 0) /\ received' = 0 /\ toggle' = 1
    BY <1>5, NoPieces DEF Pending, Fresh
  <2>2. tx' # Nak /\ tx'.toggle = 1
    BY <1>4, <1>8, <1>11
  <2>3. tx'.content.length \in Nat
    BY <1>2, <1>12, <2>2 DEF Progress
  <2>4. /\ received' + tx'.content.length = message'.at
        /\ message'.at = Chunk * 0 + tx'.content.length
    BY <1>2, <1>4, <1>9, <1>11, <2>1, <2>3
  <2>5. tx'.content = Piece(request', 0 + 1)
    BY <1>2, <1>4, <1>5, <1>9, <1>11 DEF Piece, R
  <2> QED
    BY <2>1, <2>2, <2>4, <2>5, Zenon DEF InStep, Ready
<1> QED
  BY <1>5, <1>12, <1>13 DEF Serving

\* The next packet of a reply
LEMMA PollServes ==
  ASSUME HostInv, AddressInv, stage = "data", HasData(request), Serving, Poll
  PROVE  Serving'
<1> DEFINE R == ReplyLength(request)
           p == [message |-> message, tx |-> tx, toggle |-> txToggle]
<1>1. rx.token # "SETUP"
  BY DEF Serving, Free
<1>2. request \in Wanted /\ R \in 0..20 /\ Chunk \in Nat /\ Chunk > 0
  BY ReplyType, EnumerationAssumption DEF HostInv
<1>3. /\ UNCHANGED <<request, toggle, got, received>> /\ rx' = Free
      /\ usbConfiguration' = usbConfiguration
  BY <1>1, PollForgets, Zenon DEF hostVars
<1>4. CASE tx # Nak \/ message.left = NoMsg
  <2>1. UNCHANGED <<tx, message, txToggle>>
    BY <1>1, <1>4, PollForgets, Zenon
  <2>2. Progress(request, message, tx, txToggle)'
    BY <1>3, <2>1, Zenon DEF Serving, Progress
  <2>3. Ready' = Ready
    BY <2>1 DEF Ready
  <2>4. Behind' \/ (\E n \in Nat : InStep(n)')
    BY <1>3, <2>1, <2>3 DEF Serving, Behind, InStep
  <2> QED
    BY <1>3, <2>2, <2>4, Zenon DEF Serving
<1>5. CASE tx = Nak /\ message.left # NoMsg
  <2>1. message' = Build(p).message /\ tx' = Build(p).tx /\ txToggle' = Build(p).toggle
    BY <1>1, PollForgets, Zenon
  <2>2. p.message = message /\ p.tx = Nak /\ p.toggle = txToggle
    BY <1>5
  <2> DEFINE a == message.at
  <2>3. /\ message.what = Source(request) /\ a \in 0..R
        /\ message.left = R - a
    BY <1>5 DEF Serving, Progress
  <2>4. PICK q \in Nat : a = Chunk * q /\ txToggle = q % 2
    BY <1>5 DEF Serving, Progress
  <2>5. request.request = "GET_CONFIGURATION" => usbConfiguration' = 1
    BY <1>3, ConfigurationKnown
  <2>6. /\ p.toggle = q % 2 /\ p.tx = Nak
        /\ p.message.what = Source(request) /\ p.message.at = a /\ p.message.left = R - a
    BY <2>2, <2>3, <2>4
  <2> HIDE DEF p, R
  <2>7. /\ Progress(request, Build(p).message, Build(p).tx, Build(p).toggle)
        /\ Build(p).tx # Nak /\ Build(p).tx.toggle = 1 - p.toggle
        /\ Build(p).tx.content =
             [what |-> ReplySource(request), at |-> a, length |-> Smaller(Chunk, R - a)]
        /\ Build(p).message.at = a + Build(p).tx.content.length
    BY <1>2, <2>3, <2>4, <2>5, <2>6, BuildReply, Zenon DEF R
  <2>8. Progress(request, message, tx, txToggle)'
    BY <1>3, <2>1, <2>7, Zenon DEF Progress
  <2>9. tx' # Nak /\ tx'.content.length \in Nat /\ Ready' = tx'.content.length
    BY <1>2, <2>1, <2>7, <2>8 DEF Progress, Ready
  <2>10. message'.at = a + Ready' /\ a \in Nat /\ Ready = 0 /\ received \in Nat
    BY <1>2, <1>5, <2>1, <2>3, <2>7, <2>9 DEF Ready, HostInv
  <2>11. Behind => Behind'
    BY <1>3, <2>9, <2>10 DEF Behind
  <2>12. ASSUME NEW n \in Nat, InStep(n)
         PROVE  InStep(n)'
    <3>1. /\ got = Pieces(request, n) /\ received + Ready = a
          /\ txToggle = 1 - toggle /\ a = Chunk * n
      BY <1>5, <2>12 DEF InStep
    <3>2. /\ received' + Ready' = message'.at
          /\ message'.at = Chunk * n + tx'.content.length
      BY <1>2, <1>3, <2>9, <2>10, <3>1
    <3>3. tx'.toggle = toggle'
      BY <1>3, <2>1, <2>2, <2>7, <3>1 DEF HostInv
    <3>4. tx'.content = Piece(request', n + 1)
      BY <1>2, <1>3, <2>1, <2>7, <3>1 DEF Piece, R
    <3> QED
      BY <1>3, <2>9, <3>1, <3>2, <3>3, <3>4, Zenon DEF InStep
  <2> QED
    BY <1>3, <2>8, <2>11, <2>12, Zenon DEF Serving
<1> QED
  BY <1>4, <1>5
-----------------------------------------------------------------------------
\* Every step but those that miss another device's token keeps the invariant.
LEMMA PollInv == Inv /\ Poll => Inv'
<1> SUFFICES ASSUME Inv, Poll PROVE Inv'
  OBVIOUS
<1> USE DEF Inv
<1>1. HostInv'
  BY Zenon DEF Poll, hostVars, HostInv, Done, Fresh
<1>2. rx.token \in {"none", "SETUP", "OUT"} /\ (rx.token = "SETUP" => rx.content \in Wanted)
  BY DEF ReceiverInv, Free
<1>3. rx' = Free /\ UNCHANGED <<step, request, stage, toggle, got, received, assigned, usbDeviceAddr,
                                usbCurrentTok>>
  BY DEF Poll, hostVars
<1>4. AddressInv'
  <2>1. usbNewDeviceAddr' \in {usbNewDeviceAddr, Address}
    BY <1>2, WantedRequest, Zenon DEF Poll, Asked
  <2>2. usbConfiguration' \in {usbConfiguration, 1}
    BY <1>2, WantedRequest, Zenon DEF Poll, Asked
  <2>3. /\ usbDeviceAddr' \in {0, Address} /\ usbNewDeviceAddr' \in {0, Address}
        /\ usbConfiguration' \in {0, 1}
    BY <1>3, <2>1, <2>2 DEF AddressInv
  <2>4. assigned' => usbDeviceAddr' = Address /\ usbNewDeviceAddr' = Address
    BY <1>3, <2>1, Zenon DEF AddressInv
  <2>5. \A i \in 1..Len(Plan) : i < step' =>
          /\ Plan[i].request = "SET_ADDRESS" => assigned'
          /\ Plan[i].request = "SET_CONFIGURATION" => usbConfiguration' = 1
    BY <1>3, <2>2, Zenon DEF AddressInv
  <2> QED
    BY <2>3, <2>4, <2>5, Zenon DEF AddressInv
<1>5. ReceiverInv'
  <2>1. Process.toggle \in {0, txToggle}
    BY Zenon DEF Process
  <2>2. txToggle' \in {Process.toggle, 1 - Process.toggle}
    <3>1. txToggle' = Build(Process).toggle
      BY Zenon DEF Poll
    <3>2. CASE Process.tx # Nak \/ Process.message.left = NoMsg
      BY <3>1, <3>2, BuildKeeps, Zenon
    <3>3. CASE Process.tx = Nak /\ Process.message.left # NoMsg
      BY <3>1, <3>3, BuildNext, Zenon DEF Built
    <3> QED
      BY <3>2, <3>3
  <2>3. txToggle' \in {0, 1}
    BY <2>1, <2>2 DEF ReceiverInv
  <2>4. usbCurrentTok' = "OUT" => Spent'
    BY <1>3, PollSpent, Zenon DEF ReceiverInv
  <2>5. rx'.token # "SETUP"
    BY <1>3 DEF Free
  <2> QED
    BY <1>3, <2>3, <2>4, <2>5 DEF ReceiverInv
<1>6. StageInv'
  <2>1. Lost => Lost'
    BY <1>3, PollSpent DEF Lost, Free, Fresh
  <2>2. ASSUME stage = "data" PROVE HasData(request) /\ (Lost' \/ Serving')
    BY <2>1, <2>2, PollBegins, PollServes, Zenon DEF StageInv
  <2>3. ASSUME stage = "status", HasData(request)
        PROVE  rx' = Free /\ Spent'
    BY <1>3, <2>3, PollSpent DEF StageInv, Free
  <2>4. ASSUME stage = "status", ~HasData(request), Pending PROVE Processed'
    <3>1. rx.token = "SETUP" /\ rx.content = request /\ request \in Wanted
      BY <2>4 DEF Pending, HostInv
    <3>2. request.request = "SET_ADDRESS" => usbNewDeviceAddr' = Address
      BY <3>1, WantedRequest, Zenon DEF Poll, Asked
    <3>3. request.request = "SET_CONFIGURATION" => usbConfiguration' = 1
      BY <3>1, WantedRequest, Zenon DEF Poll, Asked
    <3> QED
      BY <1>3, <3>2, <3>3 DEF Processed
  <2>5. ASSUME Processed PROVE Processed'
    <3>1. rx.token # "SETUP"
      BY <2>5 DEF Processed, Free
    <3> QED
      BY <1>3, <2>5, <3>1, PollForgets, Zenon DEF Processed
  <2>6. stage' = "data" => HasData(request)' /\ (Pending' \/ Lost' \/ Serving')
    BY <1>3, <2>2, Zenon DEF HasData
  <2>7. stage' = "status" /\ HasData(request)' =>
          /\ rx' = Free /\ Spent'
          /\ received' <= request'.length
          /\ received' >= ReplyLength(request)' => \E n \in Nat : got' = Pieces(request, n)'
    BY <1>3, <2>3, Zenon DEF StageInv, HasData, Pieces, ReplyLength
  <2>8. stage' = "status" /\ ~HasData(request)' =>
          toggle' = 1 /\ (Pending' \/ Lost' \/ Processed')
    BY <1>3, <2>1, <2>4, <2>5, Zenon DEF StageInv, HasData
  <2> QED
    BY <2>6, <2>7, <2>8, Zenon DEF StageInv
<1> QED
  BY <1>1, <1>4, <1>5, <1>6

\* Nothing that concerns the transfer changes, or it is over.
LEMMA StageKeeps ==
  ASSUME StageInv,
         UNCHANGED <<request, stage, toggle, got, received, rx, tx, message, txToggle,
                     usbNewDeviceAddr, usbConfiguration>>
  PROVE  StageInv'
<1>1. Fresh' = Fresh /\ HasData(request)' = HasData(request)
  BY Zenon DEF Fresh, HasData
<1>2. Spent' = Spent
  BY Zenon DEF Spent
<1>3. Pending' = Pending /\ Lost' = Lost
  BY <1>1, <1>2, Zenon DEF Pending, Lost
<1>4. Processed' = Processed
  BY Zenon DEF Processed
<1>5. /\ ReplyLength(request)' = ReplyLength(request)
      /\ \A n \in Nat : Pieces(request, n)' = Pieces(request, n)
  BY Zenon DEF ReplyLength, Pieces
<1>6. Serving' = Serving
  <2>1. Progress(request, message, tx, txToggle)' = Progress(request, message, tx, txToggle)
    BY Zenon DEF Progress
  <2>2. Ready' = Ready
    BY Zenon DEF Ready
  <2>3. Behind' = Behind
    BY <2>2, Zenon DEF Behind
  <2>4. \A n \in Nat : InStep(n)' = InStep(n)
    BY <1>5, <2>2, Zenon DEF InStep
  <2> QED
    BY <2>1, <2>3, <2>4, Zenon DEF Serving
<1>7. stage' = "data" => HasData(request)' /\ (Pending' \/ Lost' \/ Serving')
  BY <1>1, <1>3, <1>6, Zenon DEF StageInv
<1>8. stage' = "status" /\ HasData(request)' =>
        /\ rx' = Free /\ Spent'
        /\ received' <= request'.length
        /\ received' >= ReplyLength(request)' => \E n \in Nat : got' = Pieces(request, n)'
  BY <1>1, <1>2, <1>5, Zenon DEF StageInv
<1>9. stage' = "status" /\ ~HasData(request)' =>
        toggle' = 1 /\ (Pending' \/ Lost' \/ Processed')
  BY <1>1, <1>3, <1>4, Zenon DEF StageInv
<1> QED
  BY <1>7, <1>8, <1>9, Zenon DEF StageInv

LEMMA StageOver ==
  ASSUME stage' \notin {"data", "status"}
  PROVE  StageInv'
BY DEF StageInv

\* What a packet does to the token and to the packet received
LEMMA TokenType ==
  ASSUME ReceiverInv, NEW token \in {"none", "SETUP", "OUT", "IN"}, NEW fate \in Fates, NEW mine
  PROVE  TokenAfter(token, fate, mine) \in {"none", usbCurrentTok, token}
BY Zenon DEF TokenAfter

LEMMA SetupInv ==
  ASSUME NEW fate \in Fates, NEW data \in BOOLEAN, NEW ack \in BOOLEAN
  PROVE  Inv /\ SetupTransaction(fate, data, ack) => Inv'
<1> SUFFICES ASSUME Inv, SetupTransaction(fate, data, ack) PROVE Inv'
  OBVIOUS
<1> USE DEF Inv
<1> DEFINE token == TokenAfter("SETUP", fate, Addressed)
<1>1. token \in {"none", usbCurrentTok, "SETUP"}
  BY TokenType
<1>2. /\ usbCurrentTok' = token
      /\ rx' = (IF data THEN Taken(token, request) ELSE rx)
      /\ stage = "setup"
      /\ UNCHANGED <<usbDeviceAddr, usbNewDeviceAddr, tx, txToggle, message, usbConfiguration>>
      /\ \/ /\ data /\ token # "none" /\ rx = Free
            /\ stage' = (IF HasData(request) THEN "data" ELSE "status")
            /\ UNCHANGED <<step, request, toggle, got, received, assigned>>
         \/ Error
  BY Zenon DEF SetupTransaction
<1> HIDE DEF token
<1>3. rx' \in {rx, [token |-> token, content |-> request]}
  BY <1>2, Zenon DEF Taken
<1>4. rx' = rx \/ (token # "none" /\ rx' = [token |-> token, content |-> request])
  BY <1>2, Zenon DEF Taken
<1>5. ReceiverInv'
  <2>1. usbCurrentTok' \in {"none", "SETUP", "OUT"}
    BY <1>1, <1>2 DEF ReceiverInv
  <2>2. request \in Wanted
    BY DEF HostInv
  <2>3. rx' = Free \/ rx' \in [token : {"SETUP", "OUT"}, content : Wanted]
    BY <1>2, <1>4, <2>1, <2>2 DEF ReceiverInv
  <2>4. ASSUME usbCurrentTok' = "OUT" PROVE Spent' /\ rx'.token # "SETUP"
    <3>1. usbCurrentTok = "OUT" /\ token = "OUT"
      BY <1>1, <1>2, <2>4
    <3>2. Spent'
      BY <1>2, <3>1 DEF ReceiverInv, Spent
    <3>3. rx'.token # "SETUP"
      BY <1>4, <3>1 DEF ReceiverInv
    <3> QED
      BY <3>2, <3>3
  <2> QED
    BY <1>2, <2>1, <2>3, <2>4 DEF ReceiverInv
<1>6. CASE Error
  <2>1. HostInv' /\ step' = step /\ assigned' = assigned /\ stage' \notin {"data", "status"}
    BY <1>2, <1>6, ErrorHost
  <2>2. AddressInv'
    BY <1>2, <2>1, AddressKeeps
  <2> QED
    BY <1>5, <2>1, <2>2, StageOver
<1>7. CASE /\ data /\ token # "none" /\ rx = Free
           /\ stage' = (IF HasData(request) THEN "data" ELSE "status")
           /\ UNCHANGED <<step, request, toggle, got, received, assigned>>
  <2>1. Fresh /\ Fresh'
    BY <1>2, <1>7 DEF HostInv, Fresh
  <2>2. HostInv'
    BY <1>2, <1>7, Zenon DEF HostInv, Done
  <2>3. AddressInv'
    BY <1>2, <1>7, AddressKeeps
  <2>4. rx' = [token |-> token, content |-> request]
    BY <1>2, <1>7, Zenon DEF Taken
  <2>5. Pending' \/ Lost'
    <3>1. CASE token = "SETUP"
      BY <1>7, <2>1, <2>4, <3>1 DEF Pending
    <3>2. CASE token = "OUT"
      BY <1>2, <1>5, <2>1, <3>2 DEF Lost, ReceiverInv
    <3> QED
      BY <1>1, <1>7, <3>1, <3>2 DEF ReceiverInv
  <2>6. toggle' = 1
    BY <2>1 DEF Fresh
  <2>7. (stage' = "data" => HasData(request)') /\ (stage' = "status" => ~HasData(request)')
    BY <1>7 DEF HasData
  <2>8. StageInv'
    BY <2>5, <2>6, <2>7, Zenon DEF StageInv
  <2> QED
    BY <1>5, <2>2, <2>3, <2>8
<1> QED
  BY <1>2, <1>6, <1>7

LEMMA StatusInv ==
  ASSUME NEW fate \in Fates, NEW data \in BOOLEAN, NEW ack \in BOOLEAN
  PROVE  Inv /\ StatusOut(fate, data, ack) => Inv'
<1> SUFFICES ASSUME Inv, StatusOut(fate, data, ack) PROVE Inv'
  OBVIOUS
<1> USE DEF Inv
<1>1. TokenAfter("OUT", fate, Addressed) \in {"none", usbCurrentTok, "OUT"}
  BY TokenType
<1>2. /\ usbCurrentTok' = TokenAfter("OUT", fate, Addressed)
      /\ stage = "status" /\ HasData(request) /\ rx = Free
      /\ UNCHANGED <<usbDeviceAddr, usbNewDeviceAddr, rx, tx, txToggle, message, usbConfiguration>>
      /\ Error \/ Success \/ Fail
  BY Zenon DEF StatusOut
<1>3. ReceiverInv'
  <2>1. Spent' /\ rx'.token # "SETUP"
    BY <1>2 DEF StageInv, Spent, Free
  <2> QED
    BY <1>1, <1>2, <2>1 DEF ReceiverInv
<1>4. CASE Error
  <2>1. /\ HostInv' /\ step' = step /\ assigned' = assigned
        /\ \/ stage' \in {"idle", "reset"}
           \/ UNCHANGED <<request, stage, toggle, got, received>>
    BY <1>4, ErrorHost
  <2>2. AddressInv'
    BY <1>2, <2>1, AddressKeeps
  <2> QED
    BY <1>2, <1>3, <2>1, <2>2, StageOver, StageKeeps
<1>5. CASE Fail
  <2>1. /\ HostInv' /\ step' = step /\ assigned' = assigned
        /\ stage' \in {"idle", "reset"}
    BY <1>5, FailHost
  <2>2. AddressInv'
    BY <1>2, <2>1, AddressKeeps
  <2> QED
    BY <1>3, <2>1, <2>2, StageOver
<1>6. CASE Success
  <2>1. HostInv' /\ stage' \in {"setup", "idle"}
    BY <1>2, <1>6, SuccessHost
  <2>2. request.request # "SET_ADDRESS" /\ request.request # "SET_CONFIGURATION"
    BY <1>2, WantedRequest, Zenon DEF HostInv
  <2>3. AddressInv'
    BY <1>2, <1>6, <2>2, AddressSuccess
  <2> QED
    BY <1>3, <2>1, <2>3, StageOver
<1> QED
  BY <1>2, <1>4, <1>5, <1>6

\* A packet that was ready is gone and the host has not taken it.
LEMMA StageDrops ==
  ASSUME Inv, rx = Free, tx # Nak, tx' = Nak,
         UNCHANGED <<request, stage, toggle, got, received, rx, message, txToggle,
                     usbNewDeviceAddr, usbConfiguration>>,
         stage = "status" => ~HasData(request)
  PROVE  StageInv'
<1> USE DEF Inv
<1>1. ~Pending
  BY DEF Pending, Free
<1>2. Lost => Lost'
  BY DEF Lost, Spent, Fresh
<1>3. Processed => Processed'
  BY DEF Processed
<1>4. ASSUME Serving PROVE Serving'
  <2>1. Progress(request, message, tx, txToggle)'
    BY <1>4 DEF Serving, Progress, ReplyLength, Source
  <2>2. /\ tx.content.length \in Nat /\ message.at \in Nat /\ received \in Nat
        /\ tx.content.length = 0 => message.left = NoMsg
    BY <1>4, ReplyType, EnumerationAssumption DEF Serving, Progress, HostInv
  <2>3. Ready = tx.content.length /\ Ready' = 0
    BY DEF Ready
  <2>4. Behind => Behind'
    BY <2>2, <2>3 DEF Behind
  <2>5. ASSUME NEW n \in Nat, InStep(n) PROVE Behind' \/ InStep(n)'
    <3>1. received + tx.content.length = message.at /\ got = Pieces(request, n)
      BY <2>3, <2>5 DEF InStep
    <3>2. CASE tx.content.length = 0
      <4>1. got' = Pieces(request, n)' /\ received' + Ready' = message'.at /\ message'.left = NoMsg
        BY <2>2, <2>3, <3>1, <3>2 DEF Pieces, Piece, ReplySource, ReplyLength, Source
      <4> QED
        BY <4>1, Zenon DEF InStep
    <3>3. CASE tx.content.length # 0
      BY <2>2, <2>3, <3>1, <3>3 DEF Behind
    <3> QED
      BY <3>2, <3>3
  <2> QED
    BY <1>4, <2>1, <2>4, <2>5, Zenon DEF Serving
<1> QED
  BY <1>1, <1>2, <1>3, <1>4, Zenon DEF StageInv, HasData

\* The host takes a packet of the reply: the next one is asked for, or nothing is left.
LEMMA StageAccepts ==
  ASSUME Inv, rx = Free, tx # Nak, tx' = Nak, stage = "data", tx.toggle = toggle, Accept(tx),
         UNCHANGED <<rx, message, txToggle>>
  PROVE  HostInv' /\ StageInv' /\ step' = step /\ assigned' = assigned
<1> USE DEF Inv
<1> DEFINE R == ReplyLength(request)  size == tx.content.length
<1>1. Serving
  <2>1. ~Pending
    BY DEF Pending, Free
  <2>2. ~Lost
    BY DEF Lost, Spent, Fresh
  <2> QED
    BY <2>1, <2>2 DEF StageInv
<1>2. request \in Wanted /\ HasData(request) /\ request' = request
      /\ step' = step /\ assigned' = assigned
  BY Zenon DEF HostInv, StageInv, Accept
<1>3. /\ got' = Append(got, tx.content) /\ received' = received + size /\ toggle' = 1 - toggle
      /\ stage' = (IF size < Chunk \/ received' >= request.length THEN "status" ELSE stage)
  BY Zenon DEF Accept
<1>4. /\ R \in 0..20 /\ R <= request.length /\ request.length \in Nat
      /\ Chunk \in Nat /\ Chunk > 0 /\ received \in Nat /\ toggle \in {0, 1}
  BY <1>2, ReplyType, WantedRequest, EnumerationAssumption DEF HostInv
<1>5. /\ message.at \in 0..R /\ txToggle = toggle
      /\ size \in 0..Chunk /\ (size < Chunk => message.left = NoMsg)
      /\ message.left = NoMsg => message.at = R
      /\ message.left # NoMsg => message.left = R - message.at
  BY <1>1 DEF Serving, Progress
<1>6. Ready = size /\ Ready' = 0
  BY DEF Ready
<1> HIDE DEF R, size
<1>7. received' \in Nat /\ toggle' \in {0, 1}
  BY <1>3, <1>4, <1>5
<1>8. stage' \in {"data", "status"}
  BY <1>3
<1>9. HostInv'
  BY <1>2, <1>7, <1>8, Zenon DEF HostInv, Done
<1>10. Behind => received' < message.at
  BY <1>3, <1>4, <1>5, <1>6 DEF Behind
<1>11. ASSUME NEW n \in Nat, InStep(n)
       PROVE  /\ received' = message.at /\ got' = Pieces(request, n + 1)
              /\ message.at = Chunk * n + size
  <2>1. /\ received + size = message.at /\ got = Pieces(request, n)
        /\ tx.content = Piece(request, n + 1) /\ message.at = Chunk * n + size
    BY <1>6, <1>11 DEF InStep, size
  <2> QED
    BY <1>3, <2>1, NextPiece
<1>12. received' <= message.at
  BY <1>1, <1>7, <1>10, <1>11, <1>5, <1>4 DEF Serving
<1>13. CASE stage' = "data"
  <2>1. ~(size < Chunk) /\ size = Chunk
    BY <1>3, <1>4, <1>5, <1>13
  <2>2. Progress(request, message, tx, txToggle)'
    BY <1>1, <1>2 DEF Serving, Progress
  <2>3. Behind => Behind'
    BY <1>6, <1>7, <1>10 DEF Behind
  <2>4. ASSUME NEW n \in Nat, InStep(n) PROVE InStep(n + 1)'
    <3>1. got' = Pieces(request', n + 1) /\ received' + Ready' = message'.at
      BY <1>2, <1>4, <1>5, <1>6, <1>11, <2>4
    <3>2. txToggle' = 1 - toggle' /\ message'.at = Chunk * (n + 1)
      BY <1>3, <1>4, <1>5, <1>11, <2>1, <2>4
    <3> QED
      BY <3>1, <3>2, Zenon DEF InStep
  <2>5. ASSUME NEW n \in Nat, InStep(n) PROVE \E k \in Nat : InStep(k)'
    <3>1. n + 1 \in Nat
      OBVIOUS
    <3> QED
      BY <2>4, <2>5, <3>1, Zenon
  <2>6. Serving'
    BY <1>1, <2>2, <2>3, <2>5, Zenon DEF Serving
  <2>7. HasData(request)'
    BY <1>2 DEF HasData
  <2> QED
    BY <1>2, <1>9, <1>13, <2>6, <2>7 DEF StageInv
<1>14. CASE stage' = "status"
  <2>1. ASSUME message.left # NoMsg PROVE message.left = 0 /\ txToggle = 1
    <3>1. received' >= request.length /\ size = Chunk
      BY <1>3, <1>4, <1>5, <1>14, <2>1
    <3>2. R = request.length /\ message.at = R /\ message.left = 0
      BY <1>4, <1>5, <1>7, <1>12, <2>1, <3>1
    <3>3. PICK q \in Nat : message.at = Chunk * q /\ txToggle = q % 2
      BY <1>1, <2>1 DEF Serving, Progress
    <3>4. request.length > 0
      BY <1>2 DEF HasData
    <3>5. q % 2 = 1
      <4> SUFFICES ASSUME q % 2 = 0 PROVE FALSE
        OBVIOUS
      <4>1. PICK pairs \in Nat : q = 2 * pairs
        OBVIOUS
      <4>2. request.length = 2 * Chunk * pairs
        BY <1>4, <3>2, <3>3, <4>1
      <4>3. pairs \in 0..request.length
        BY <1>4, <4>1, <4>2
      <4> QED
        BY <1>2, <3>2, <3>4, <4>2, <4>3, PlanAssumption DEF R
    <3> QED
      BY <3>2, <3>3, <3>5
  <2>2. Spent'
    BY <2>1 DEF Spent
  <2>3. received' <= request'.length
    BY <1>2, <1>4, <1>5, <1>7, <1>12
  <2>4. ASSUME received' >= ReplyLength(request)' PROVE \E n \in Nat : got' = Pieces(request, n)'
    <3>1. received' >= R
      BY <1>2, <2>4 DEF R
    <3>2. ~Behind
      BY <1>4, <1>5, <1>7, <1>10, <3>1
    <3>3. PICK n \in Nat : InStep(n)
      BY <1>1, <3>2 DEF Serving
    <3>4. got' = Pieces(request', n + 1) /\ n + 1 \in Nat
      BY <1>2, <1>11, <3>3
    <3> QED
      BY <3>4, Zenon DEF Pieces, Piece, ReplySource, ReplyLength, Source
  <2>5. HasData(request)'
    BY <1>2 DEF HasData
  <2>6. StageInv'
    BY <1>14, <2>2, <2>3, <2>4, <2>5, Zenon DEF StageInv
  <2> QED
    BY <1>2, <1>9, <2>6
<1> QED
  BY <1>8, <1>13, <1>14

LEMMA InInv ==
  ASSUME NEW fate \in Fates, NEW arrives \in BOOLEAN, NEW ack \in BOOLEAN
  PROVE  Inv /\ InTransaction(fate, arrives, ack) => Inv'
<1> SUFFICES ASSUME Inv, InTransaction(fate, arrives, ack) PROVE Inv'
  OBVIOUS
<1> USE DEF Inv
<1>1. /\ stage = "data" \/ (stage = "status" /\ ~HasData(request))
      /\ UNCHANGED <<usbNewDeviceAddr, rx, txToggle, message, usbConfiguration>>
  BY Zenon DEF InTransaction
<1>2. CASE fate = "heard" /\ Addressed
  <2>1. /\ rx = Free /\ tx # Nak /\ tx' = Nak /\ usbDeviceAddr' = usbNewDeviceAddr
        /\ usbCurrentTok' \in {"none", usbCurrentTok}
        /\ (arrives /\ Accept(tx)) \/ Error
    BY <1>2, Zenon DEF InTransaction, AddressAfterData
  <2>2. ReceiverInv'
    <3>1. Spent => Spent'
      BY <1>1, <2>1 DEF Spent
    <3>2. usbCurrentTok' \in {"none", "SETUP", "OUT"} /\ rx' = Free /\ rx'.token # "SETUP"
      BY <1>1, <2>1 DEF ReceiverInv, Free
    <3>3. usbCurrentTok' = "OUT" => Spent'
      BY <2>1, <3>1 DEF ReceiverInv
    <3> QED
      BY <1>1, <3>2, <3>3 DEF ReceiverInv
  <2>3. ASSUME HostInv', step' = step, assigned' = assigned,
               UNCHANGED <<request, stage, toggle, got, received>>
        PROVE  Inv'
    <3>1. AddressInv'
      BY <1>1, <2>1, <2>3, AddressKeeps
    <3>2. StageInv'
      BY <1>1, <2>1, <2>3, StageDrops
    <3> QED
      BY <2>2, <2>3, <3>1, <3>2
  <2>4. CASE Error
    <3>1. /\ HostInv' /\ step' = step /\ assigned' = assigned
          /\ \/ stage' \in {"idle", "reset"}
             \/ UNCHANGED <<request, stage, toggle, got, received>>
      BY <2>4, ErrorHost
    <3>2. CASE stage' \in {"idle", "reset"}
      BY <1>1, <2>1, <2>2, <3>1, <3>2, AddressKeeps, StageOver
    <3> QED
      BY <2>3, <3>1, <3>2
  <2>5. CASE Accept(tx) /\ tx.toggle # toggle
    <3>1. UNCHANGED hostVars
      BY <2>5, Zenon DEF Accept
    <3>2. UNCHANGED <<step, request, stage, toggle, got, received, assigned>>
      BY <3>1 DEF hostVars
    <3>3. HostInv'
      BY <3>2, Zenon DEF HostInv, Done, Fresh
    <3> QED
      BY <2>3, <3>2, <3>3
  <2>6. CASE Accept(tx) /\ tx.toggle = toggle /\ stage = "status"
    <3>1. Success
      BY <2>6, Zenon DEF Accept
    <3>2. Processed
      <4>1. ~Pending
        BY <2>1 DEF Pending, Free
      <4>2. toggle = 1
        BY <1>1, <2>6, Zenon DEF StageInv
      <4>3. ~Lost
        BY <2>1, <2>6, <4>2 DEF Lost, Spent
      <4> QED
        BY <1>1, <2>6, <4>1, <4>3 DEF StageInv
    <3>3. HostInv' /\ stage' \in {"setup", "idle"}
      BY <2>6, <3>1, SuccessHost
    <3>4. AddressInv'
      BY <1>1, <2>1, <2>6, <3>1, <3>2, AddressSuccess DEF Processed
    <3> QED
      BY <2>2, <3>3, <3>4, StageOver
  <2>7. CASE Accept(tx) /\ tx.toggle = toggle /\ stage # "status"
    <3>1. HostInv' /\ StageInv' /\ step' = step /\ assigned' = assigned
      BY <1>1, <2>1, <2>7, StageAccepts
    <3>2. AddressInv'
      BY <1>1, <2>1, <3>1, AddressKeeps
    <3> QED
      BY <2>2, <3>1, <3>2
  <2> QED
    BY <2>1, <2>4, <2>5, <2>6, <2>7
<1>3. CASE ~(fate = "heard" /\ Addressed)
  <2>1. /\ Error /\ UNCHANGED <<tx, usbDeviceAddr>>
        /\ usbCurrentTok' = TokenAfter("IN", fate, FALSE)
    BY <1>3, Zenon DEF InTransaction
  <2>2. usbCurrentTok' \in {"none", usbCurrentTok}
    BY <2>1, Zenon DEF TokenAfter
  <2>3. ReceiverInv'
    BY <1>1, <2>1, <2>2 DEF ReceiverInv, Spent
  <2>4. /\ HostInv' /\ step' = step /\ assigned' = assigned
        /\ \/ stage' \in {"idle", "reset"}
           \/ UNCHANGED <<request, stage, toggle, got, received>>
    BY <2>1, ErrorHost
  <2>5. AddressInv'
    BY <1>1, <2>1, <2>4, AddressKeeps
  <2> QED
    BY <1>1, <2>1, <2>3, <2>4, <2>5, StageOver, StageKeeps
<1> QED
  BY <1>2, <1>3

\* Resets, time-outs, a new request: the device's part does not change.
LEMMA OtherInv ==
  Inv /\ (Timeout \/ BusReset \/ PortReset \/ (\E r \in Later : Ask(r))) => Inv'
<1> USE DEF Inv
<1>1. Len(Plan) \in Nat /\ Len(Plan) > 0
  BY EnumerationAssumption, LenProperties, PlanAssumption
<1>2. ASSUME Inv, UNCHANGED <<usbCurrentTok, rx, tx, txToggle, message>>
      PROVE  ReceiverInv'
  BY <1>2, Zenon DEF ReceiverInv, Spent
<1>3. ASSUME Inv, Timeout PROVE Inv'
  <2>1. /\ HostInv' /\ step' = step /\ assigned' = assigned
        /\ stage' \in {"idle", "reset"}
    BY <1>3, FailHost DEF Timeout
  <2>2. UNCHANGED <<usbDeviceAddr, usbNewDeviceAddr, usbCurrentTok, rx, tx, txToggle, message,
                    usbConfiguration>>
    BY <1>3 DEF Timeout
  <2>3. AddressInv'
    BY <1>3, <2>1, <2>2, AddressKeeps
  <2> QED
    BY <1>2, <1>3, <2>1, <2>2, <2>3, StageOver
<1>4. ASSUME Inv, BusReset PROVE Inv'
  <2>1. /\ step' = 1 /\ assigned' = FALSE /\ Begin(Plan[1])
        /\ usbDeviceAddr' = 0 /\ usbNewDeviceAddr' = 0
        /\ UNCHANGED <<usbCurrentTok, rx, tx, txToggle, message, usbConfiguration>>
    BY <1>4 DEF BusReset
  <2>2. 1 \in 1..Len(Plan) /\ 1 \in 1..(Len(Plan) + 1) /\ \A i \in 1..Len(Plan) : ~(i < 1)
    BY <1>1
  <2>3. Plan[1] \in Wanted
    BY <2>2 DEF Wanted
  <2>4. HostInv' /\ stage' = "setup"
    BY <2>1, <2>2, <2>3, BeginHost
  <2>5. AddressInv'
    BY <1>4, <2>1, <2>2, Zenon DEF AddressInv
  <2> QED
    BY <1>2, <1>4, <2>1, <2>4, <2>5, StageOver
<1>5. ASSUME Inv, PortReset PROVE Inv'
  <2>1. /\ stage' = "reset"
        /\ UNCHANGED <<step, request, toggle, got, received, assigned, usbDeviceAddr,
                       usbNewDeviceAddr, usbCurrentTok, rx, tx, txToggle, message, usbConfiguration>>
    BY <1>5 DEF PortReset
  <2>2. HostInv'
    BY <1>5, <2>1, Zenon DEF HostInv, Done
  <2>3. AddressInv'
    BY <1>5, <2>1, AddressKeeps
  <2> QED
    BY <1>2, <1>5, <2>1, <2>2, <2>3, StageOver
<1>6. ASSUME Inv, NEW r \in Later, Ask(r) PROVE Inv'
  <2>1. /\ Done /\ Begin(r)
        /\ UNCHANGED <<step, assigned, usbDeviceAddr, usbNewDeviceAddr, usbCurrentTok, rx, tx,
                       txToggle, message, usbConfiguration>>
    BY <1>6 DEF Ask
  <2>2. step' \in 1..(Len(Plan) + 1) /\ ~(step' <= Len(Plan)) /\ r \in Wanted
    BY <1>1, <1>6, <2>1 DEF Done, HostInv, Wanted
  <2>3. HostInv' /\ stage' = "setup"
    BY <2>1, <2>2, BeginHost
  <2>4. AddressInv'
    BY <1>6, <2>1, AddressKeeps
  <2> QED
    BY <1>2, <1>6, <2>1, <2>3, <2>4, StageOver
<1> QED
  BY <1>3, <1>4, <1>5, <1>6
-----------------------------------------------------------------------------
LEMMA EnumerationInit == Init => IInv
<1> SUFFICES ASSUME Init PROVE Inv
  BY DEF IInv
<1>1. Len(Plan) \in Nat /\ Len(Plan) > 0
  BY EnumerationAssumption, LenProperties, PlanAssumption
<1>2. Plan[1] \in Wanted
  BY <1>1 DEF Wanted
<1>3. HostInv
  BY <1>1, <1>2 DEF Init, HostInv
<1>4. AddressInv
  BY <1>1 DEF Init, AddressInv
<1>5. ReceiverInv
  BY DEF Init, ReceiverInv
<1>6. StageInv
  BY DEF Init, StageInv
<1> QED
  BY <1>3, <1>4, <1>5, <1>6 DEF Inv

LEMMA EnumerationStep == IInv /\ [Next]_vars => IInv'
<1> SUFFICES ASSUME IInv, [Next]_vars, ~strayed' PROVE Inv'
  BY DEF IInv
<1>1. CASE UNCHANGED vars
  <2>1. strayed' = strayed
    BY <1>1 DEF vars
  <2>2. UNCHANGED <<step, request, stage, toggle, got, received, assigned, usbDeviceAddr,
                    usbNewDeviceAddr, usbCurrentTok, rx, tx, txToggle, message, usbConfiguration>>
    BY <1>1 DEF vars, hostVars
  <2>3. Inv
    BY <2>1 DEF IInv
  <2>4. HostInv'
    BY <2>2, <2>3, Zenon DEF Inv, HostInv, Done, Fresh
  <2>5. AddressInv'
    BY <2>2, <2>3, AddressKeeps DEF Inv
  <2>6. ReceiverInv'
    BY <2>2, <2>3, Zenon DEF Inv, ReceiverInv, Spent
  <2> QED
    BY <2>2, <2>3, <2>4, <2>5, <2>6, StageKeeps DEF Inv
<1>2. CASE Poll
  <2>1. Inv
    BY <1>2 DEF Poll, IInv
  <2> QED
    BY <1>2, <2>1, PollInv
<1>3. CASE Timeout \/ BusReset \/ PortReset \/ (\E r \in Later : Ask(r))
  <2>1. Inv
    BY <1>3, Zenon DEF Timeout, BusReset, PortReset, Ask, IInv
  <2> QED
    BY <1>3, <2>1, OtherInv
<1>4. ASSUME NEW fate \in Fates, NEW data \in BOOLEAN, NEW ack \in BOOLEAN,
             \/ SetupTransaction(fate, data, ack)
             \/ StatusOut(fate, data, ack)
             \/ InTransaction(fate, data, ack)
      PROVE  Inv'
  <2>1. Inv
    BY <1>4, Zenon DEF SetupTransaction, StatusOut, InTransaction, IInv
  <2> QED
    BY <1>4, <2>1, SetupInv, StatusInv, InInv
<1>5. ASSUME NEW r \in Foreign, NEW fate \in Fates, Overheard(r, fate)
      PROVE  Inv'
  <2>1. Inv /\ fate # "missed"
    BY <1>5, Zenon DEF Overheard, IInv
  <2>2. usbCurrentTok' = "none"
    BY <1>5, <2>1, Zenon DEF Overheard, TokenAfter
  <2>3. rx' = rx
    BY <1>5, <2>2, Zenon DEF Overheard, Taken
  <2>4. UNCHANGED <<step, request, stage, toggle, got, received, assigned, usbDeviceAddr,
                    usbNewDeviceAddr, tx, txToggle, message, usbConfiguration>>
    BY <1>5 DEF Overheard, hostVars
  <2>5. HostInv'
    BY <2>1, <2>4, Zenon DEF Inv, HostInv, Done, Fresh
  <2>6. AddressInv'
    BY <2>1, <2>4, AddressKeeps DEF Inv
  <2>7. ReceiverInv'
    BY <2>1, <2>2, <2>3, <2>4 DEF Inv, ReceiverInv
  <2> QED
    BY <2>1, <2>3, <2>4, <2>5, <2>6, <2>7, StageKeeps DEF Inv
<1> QED
  BY <1>1, <1>2, <1>3, <1>4, <1>5, Zenon DEF Next, Bus

\* The host never accepts more bytes than it asked for, and a reply of the right length is
\* made of the right packets in their places, whatever is lost (usbProcessRx,
\* usbBuildTxBlock, handleIn).
THEOREM RepliesRight == Spec => []ReplyRight
<1>1. IInv => ReplyRight
  <2> SUFFICES ASSUME IInv, ~strayed, stage = "status", HasData(request)
               PROVE  /\ received <= request.length
                      /\ Whole => \A i \in DOMAIN got : got[i] = Piece(request, i)
    BY Zenon DEF ReplyRight, Piece
  <2>1. /\ received <= request.length
        /\ received >= ReplyLength(request) => \E n \in Nat : got = Pieces(request, n)
    BY DEF IInv, Inv, StageInv
  <2>2. Whole <=> received >= ReplyLength(request)
    BY Zenon DEF Whole, ReplyLength
  <2>3. \A n \in Nat : got = Pieces(request, n) => \A i \in DOMAIN got : got[i] = Piece(request, i)
    BY DEF Pieces
  <2> QED
    BY <2>1, <2>2, <2>3
<1> QED
  BY <1>1, EnumerationInit, EnumerationStep, PTL DEF Spec

\* When the host is through, the reader answers to the address the host uses and has the
\* configuration it selected (usbDriverSetup, usbDeviceAddr in handleIn, the bus reset).
THEOREM ReaderConfigured == Spec => []ConfiguredRight
<1>1. IInv => ConfiguredRight
  <2> SUFFICES ASSUME IInv, ~strayed, Done
               PROVE  Addressed /\ usbNewDeviceAddr = Address /\ usbConfiguration = 1
    BY Zenon DEF ConfiguredRight
  <2>1. Inv
    BY DEF IInv
  <2>2. \A i \in 1..Len(Plan) : i < step
    BY <2>1, EnumerationAssumption, LenProperties DEF Inv, HostInv, Done
  <2>3. PICK i \in 1..Len(Plan) : Plan[i].request = "SET_ADDRESS"
    BY PlanAssumption
  <2>4. PICK j \in 1..Len(Plan) : Plan[j].request = "SET_CONFIGURATION"
    BY PlanAssumption
  <2>5. assigned /\ usbConfiguration = 1
    BY <2>1, <2>2, <2>3, <2>4, Zenon DEF Inv, AddressInv
  <2>6. usbDeviceAddr = Address /\ usbNewDeviceAddr = Address
    BY <2>1, <2>5, Zenon DEF Inv, AddressInv
  <2> QED
    BY <2>5, <2>6, Zenon DEF Addressed, HostAddress
<1> QED
  BY <1>1, EnumerationInit, EnumerationStep, PTL DEF Spec
=============================================================================
