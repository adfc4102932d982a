-------------------------- MODULE TransferEngine --------------------------
(***************************************************************************)
(* The firmware's transfer engine (firmware/src/main.c): the polling main  *)
(* loop with its request handler, the two interrupt service routines and   *)
(* the parts of the ATtiny85 they drive.                                   *)
(*                                                                         *)
(* Three parties share the state.  The main loop (pc) serves one USB       *)
(* packet per turn, or, after 5 ms without one, evaluates the pending      *)
(* command and the transfer state.  The interrupt service routines run     *)
(* between any two of its steps while SREG.I is set, each to its end,      *)
(* because the AVR does not nest them.  The hardware lets timer 0, clocked *)
(* by the carrier, trigger ADC conversions.                                *)
(*                                                                         *)
(* What the samples and pulses are is left out; kept is who wrote each     *)
(* sample slot last: a transfer, by its id, or the host.                   *)
(***************************************************************************)
EXTENDS Integers

CONSTANTS
  BufferSize,       \* SAMPLE_BUFFER_SIZE, in bytes
  SamplesPerByte,   \* a sample is a bit: 8
  PulseVectorSize,  \* PULSE_VECTOR_SIZE, in bytes
  PacketSize,       \* largest USB data packet, 8 bytes
  IdModulus,        \* _commonCtx.id is a uint8_t
  OffsetModulus,    \* opOffset is a uint16_t
  Radix,            \* values of one byte of a reply, 256
  Starts,           \* parameters the host gives to TRANSFER_START
  Vectors,          \* vector commands the host uses
  Overlap           \* does the host interfere with a transfer in flight?

StartParams == [tx: BOOLEAN, edgeStart: BOOLEAN, fallingEdge: BOOLEAN, timeout: Nat]

RxLength == SamplesPerByte * BufferSize
TxLength == 2 * BufferSize            \* a pulse is a nibble

ASSUME SizesAssumption ==
  /\ {BufferSize, SamplesPerByte, PulseVectorSize, PacketSize, IdModulus, Radix}
       \subseteq Nat \ {0}
  /\ OffsetModulus \in Nat
  /\ RxLength < OffsetModulus /\ TxLength < OffsetModulus

VectorReads  == {"PULSE_VECTOR_READ", "SAMPLE_VECTOR_READ"}
VectorWrites == {"PULSE_VECTOR_WRITE", "SAMPLE_VECTOR_WRITE"}

ASSUME HostAssumption ==
  /\ Starts \subseteq StartParams
  /\ Vectors \subseteq VectorReads \cup VectorWrites
  /\ Overlap \in BOOLEAN

VARIABLES
  pc,               \* where the main loop is
  irq,              \* SREG.I
  command,          \* the last RESET or vector request
  userRW,           \* usbMsgFlags & USB_FLG_USE_USER_RW
  ioBufferOffset,
  request,          \* the TRANSFER_START or TRANSFER_STATUS being handled
  response,         \* the fields of response[] a property speaks about
  state, timeout, timedOut, fallingEdge, edgeStart, tx, id,   \* _commonCtx
  opOffset, opLength,
  ioBuffer,         \* sample slot -> id of the transfer that wrote it, or Host
  overrun,          \* an access to ioBuffer was outside it
  adcLastSignal,
  adcEnabled,       \* ADATE and ADIE, which are always set together
  conversion,       \* what started the conversion whose result is awaited
  clocked,          \* timer 0 has a clock source (TCCR0B)
  rate,             \* what OCR0A was last set to
  compMatch,        \* OCF0A
  compIrq,          \* OCIE0A
  coilOn,           \* COM1A0: the carrier is on, and clocks timer 0
  coilPin           \* direction of PIO_COIL_PIN; an output damps the field

mainVars == <<command, userRW, ioBufferOffset, request, response>>
ctxVars  == <<tx, edgeStart, fallingEdge, id>>
runVars  == <<state, timeout, timedOut>>
bufVars  == <<opOffset, ioBuffer, overrun>>
adcVars  == <<adcLastSignal, adcEnabled, conversion>>
timVars  == <<clocked, rate, compMatch, compIrq>>
coilVars == <<coilOn, coilPin>>
vars == <<pc, irq, mainVars, ctxVars, runVars, bufVars, opLength, adcVars, timVars, coilVars>>

States == {"IDLE", "STARTING", "WAIT_CONDITION", "RX", "TX", "FINISHED"}
Slots  == 0 .. RxLength - 1
Host   == IdModulus                   \* no transfer has this id

\* The PULSE_VECTOR commands reach ioBuffer, the SAMPLE_VECTOR ones sampleVector.
VectorSize == IF command \in {"PULSE_VECTOR_READ", "PULSE_VECTOR_WRITE"}
              THEN BufferSize ELSE PulseVectorSize

NoResponse == [rc |-> "none", status |-> "none", hi |-> 0, lo |-> 0]

\* An unsigned counter that wraps at m.
SuccUnbounded(n, m) == n + 1                                        \* mutant
Succ(n, m) == IF n + 1 = m THEN 0 ELSE n + 1

(***************************************************************************)
(* The static initialisers, and what _init, _coilStart and the first       *)
(* conversion of _adcInit leave in the registers.                          *)
(***************************************************************************)
Init ==
  /\ pc = "poll" /\ irq = FALSE
  /\ command = "NOP" /\ userRW = FALSE /\ ioBufferOffset = 0
  /\ request = [cmd |-> "NOP"] /\ response = NoResponse
  /\ state = "IDLE" /\ timeout = 0 /\ timedOut = FALSE
  /\ fallingEdge = FALSE /\ edgeStart = FALSE /\ tx = FALSE /\ id = 0
  /\ opOffset = 0 /\ opLength = 0
  /\ ioBuffer = [s \in Slots |-> Host] /\ overrun = FALSE
  /\ adcLastSignal = 0 /\ adcEnabled = FALSE /\ conversion = "none"
  /\ clocked = FALSE /\ rate = "minimal" /\ compMatch = FALSE /\ compIrq = FALSE
  /\ coilOn = TRUE /\ coilPin = "input"
-----------------------------------------------------------------------------
(***************************************************************************)
(* Helpers of main.c, as constraints on the registers they write.          *)
(***************************************************************************)
PrescallerStop == clocked' = FALSE /\ compIrq' = FALSE

\* Without `interrupt` the compare interrupt is left as it was.
PrescallerStart(interrupt, value) ==
  /\ clocked' = TRUE
  /\ rate' = value
  /\ compMatch' = IF interrupt THEN FALSE ELSE compMatch
  /\ compIrq' = (interrupt \/ compIrq)

AdcStopKeepsTrigger == conversion' = "none" /\ UNCHANGED adcEnabled   \* mutant
AdcStop == adcEnabled' = FALSE /\ conversion' = "none"

\* An interrupt service routine accesses the item at opOffset of an ioBuffer
\* that has room for `items` of them.
Touch(items) == overrun' = (overrun \/ opOffset >= items)

Cli == irq' = FALSE

\* TIFR |= _BV(OCF0A)
AcknowledgeForgotten == UNCHANGED compMatch                         \* mutant
Acknowledge == compMatch' = FALSE
-----------------------------------------------------------------------------
(***************************************************************************)
(* usbFunctionSetup.  usbProcessRx clears usbMsgFlags on every setup       *)
(* packet, so a request also ends the data stage of the one before.        *)
(***************************************************************************)
\* A host that does not interfere waits for the verdict of its transfer.
Undisturbed == Overlap \/ state = "IDLE"

Setup == pc = "poll" /\ userRW' = FALSE

Reply(fields) == response' = [f \in DOMAIN NoResponse |->
                    IF f \in DOMAIN fields THEN fields[f] ELSE NoResponse[f]]

\* COIL_ENABLE
EnableCoil(on) ==
  /\ Setup /\ Undisturbed
  /\ coilOn' = on
  /\ UNCHANGED <<pc, irq, command, ioBufferOffset, request, response, ctxVars, runVars,
                 bufVars, opLength, adcVars, timVars, coilPin>>

\* GET_VERSION, GET_BUFFER_SIZE and commands it does not know
Query(rc) ==
  /\ Setup
  /\ Reply([rc |-> rc])
  /\ UNCHANGED <<pc, irq, command, ioBufferOffset, request, ctxVars, runVars, bufVars,
                 opLength, adcVars, timVars, coilVars>>

\* RESET: acted upon by the main loop, not here
RequestReset ==
  /\ Setup /\ Undisturbed
  /\ command' = "RESET"
  /\ Reply([rc |-> "ok"])
  /\ UNCHANGED <<pc, irq, ioBufferOffset, request, ctxVars, runVars, bufVars, opLength,
                 adcVars, timVars, coilVars>>

\* The four vector commands: usbFunctionRead or usbFunctionWrite serve the data stage
RequestVector(cmd) ==
  /\ pc = "poll" /\ Undisturbed
  /\ command' = cmd
  /\ ioBufferOffset' = 0
  /\ userRW' = TRUE
  /\ UNCHANGED <<pc, irq, request, response, ctxVars, runVars, bufVars, opLength,
                 adcVars, timVars, coilVars>>

\* TRANSFER_START, up to the assignment that sets the state
TransferStart(p) ==
  /\ Setup /\ Undisturbed
  /\ request' = [cmd |-> "TRANSFER_START", timeout |-> p.timeout]
  /\ tx' = p.tx /\ edgeStart' = p.edgeStart /\ fallingEdge' = p.fallingEdge
  /\ pc' = "startState"
  /\ UNCHANGED <<irq, command, ioBufferOffset, response, id, runVars, bufVars, opLength,
                 adcVars, timVars, coilVars>>

StartState ==
  /\ pc = "startState"
  /\ state' = "STARTING"
  /\ pc' = "startReply"
  /\ UNCHANGED <<irq, mainVars, ctxVars, timeout, timedOut, bufVars, opLength, adcVars,
                 timVars, coilVars>>

StartReplyKeepsTimedOut ==                                          \* mutant
  /\ pc = "startReply"
  /\ timeout' = request.timeout
  /\ id' = Succ(id, IdModulus)
  /\ Reply([rc |-> "ok"])
  /\ pc' = "poll"
  /\ UNCHANGED <<irq, command, userRW, ioBufferOffset, request, tx, edgeStart, fallingEdge,
                 timedOut, state, bufVars, opLength, adcVars, timVars, coilVars>>
StartReply ==
  /\ pc = "startReply"
  /\ timeout' = request.timeout
  /\ timedOut' = FALSE
  /\ id' = Succ(id, IdModulus)
  /\ Reply([rc |-> "ok"])
  /\ pc' = "poll"
  /\ UNCHANGED <<irq, command, userRW, ioBufferOffset, request, tx, edgeStart, fallingEdge,
                 state, bufVars, opLength, adcVars, timVars, coilVars>>

\* TRANSFER_STATUS reads the state and the two bytes of opOffset one after the other
TransferStatus(n) ==
  /\ Setup
  /\ request' = [cmd |-> "TRANSFER_STATUS", id |-> n]
  /\ IF n = id
     THEN Reply([rc |-> "ok"]) /\ pc' = "statusState"
     ELSE Reply([rc |-> "invalid_val", status |-> "unknown"]) /\ pc' = "poll"
  /\ UNCHANGED <<irq, command, ioBufferOffset, ctxVars, runVars, bufVars, opLength,
                 adcVars, timVars, coilVars>>

StatusEarly ==                                                      \* mutant
  IF state \in {"STARTING", "WAIT_CONDITION"} THEN "in_progress"
  ELSE IF timedOut THEN "timeout" ELSE "ok"
Status ==
  IF state # "IDLE" THEN "in_progress" ELSE IF timedOut THEN "timeout" ELSE "ok"

StatusState ==
  /\ pc = "statusState"
  /\ response' = [response EXCEPT !.status = Status]
  /\ pc' = "statusHi"
  /\ UNCHANGED <<irq, command, userRW, ioBufferOffset, request, ctxVars, runVars, bufVars,
                 opLength, adcVars, timVars, coilVars>>

StatusHi ==
  /\ pc = "statusHi"
  /\ response' = [response EXCEPT !.hi = opOffset \div Radix]
  /\ pc' = "statusLo"
  /\ UNCHANGED <<irq, command, userRW, ioBufferOffset, request, ctxVars, runVars, bufVars,
                 opLength, adcVars, timVars, coilVars>>

StatusLo ==
  /\ pc = "statusLo"
  /\ response' = [response EXCEPT !.lo = opOffset % Radix]
  /\ pc' = "poll"
  /\ UNCHANGED <<irq, command, userRW, ioBufferOffset, request, ctxVars, runVars, bufVars,
                 opLength, adcVars, timVars, coilVars>>

(***************************************************************************)
(* usbFunctionRead and usbFunctionWrite, for a packet of len bytes: both   *)
(* stop at the end of the vector.                                          *)
(***************************************************************************)
CopiedUnchecked(len) == len                                         \* mutant
Copied(len) == IF ioBufferOffset + len <= VectorSize THEN len ELSE VectorSize - ioBufferOffset

ReadData(len) ==
  /\ pc = "poll" /\ userRW /\ command \in VectorReads
  /\ ioBufferOffset' = ioBufferOffset + Copied(len)
  /\ UNCHANGED <<pc, irq, command, userRW, request, response, ctxVars, runVars, bufVars,
                 opLength, adcVars, timVars, coilVars>>

WriteData(len) ==
  /\ pc = "poll" /\ userRW /\ command \in VectorWrites
  /\ ioBufferOffset' = ioBufferOffset + Copied(len)
  /\ ioBuffer' = [s \in Slots |->
       IF command = "PULSE_VECTOR_WRITE"
          /\ (s \div SamplesPerByte) \in ioBufferOffset .. ioBufferOffset + Copied(len) - 1
       THEN Host ELSE ioBuffer[s]]
  /\ UNCHANGED <<pc, irq, command, userRW, request, response, ctxVars, runVars, opOffset,
                 overrun, opLength, adcVars, timVars, coilVars>>
-----------------------------------------------------------------------------
(***************************************************************************)
(* main: what a turn does after 5 ms without a packet (fastctr = 0).  The  *)
(* pending command comes first, then the transfer state.                   *)
(***************************************************************************)
Quiet == pc = "poll" /\ command # "RESET"

\* The jump to the boot loader, with interrupts and peripherals as they are
JumpToBootWhenIdle ==                                               \* mutant
  /\ pc = "poll" /\ command = "RESET" /\ state = "IDLE"
  /\ pc' = "boot"
  /\ UNCHANGED <<irq, mainVars, ctxVars, runVars, bufVars, opLength, adcVars, timVars, coilVars>>
JumpToBoot ==
  /\ pc = "poll" /\ command = "RESET"
  /\ pc' = "boot"
  /\ UNCHANGED <<irq, mainVars, ctxVars, runVars, bufVars, opLength, adcVars, timVars, coilVars>>

\* The boot loader starts the firmware again: the C start-up code initialises
\* the statics, main clears SREG.I, _init and _coilStart write their registers,
\* and the registers that none of them writes are as they were.
Reboot ==
  /\ pc = "boot"
  /\ pc' = "poll" /\ irq' = FALSE
  /\ command' = "NOP" /\ userRW' = FALSE /\ ioBufferOffset' = 0
  /\ request' = [cmd |-> "NOP"] /\ response' = NoResponse
  /\ state' = "IDLE" /\ timeout' = 0 /\ timedOut' = FALSE
  /\ fallingEdge' = FALSE /\ edgeStart' = FALSE /\ tx' = FALSE /\ id' = 0
  /\ opOffset' = 0 /\ opLength' = 0
  /\ ioBuffer' = [s \in Slots |-> Host] /\ overrun' = FALSE
  /\ adcLastSignal' = 0
  /\ compMatch' = FALSE /\ conversion' = "none"
  /\ coilOn' = TRUE /\ coilPin' = "input"
  /\ UNCHANGED <<adcEnabled, clocked, rate, compIrq>>

ArmOffsetForgotten ==                                               \* mutant
  /\ Quiet /\ state = "STARTING"
  /\ pc' = "armLength"
  /\ UNCHANGED <<irq, mainVars, ctxVars, runVars, bufVars, opLength, adcVars, timVars, coilVars>>
ArmOffset ==
  /\ Quiet /\ state = "STARTING"
  /\ opOffset' = 0
  /\ pc' = "armLength"
  /\ UNCHANGED <<irq, mainVars, ctxVars, runVars, ioBuffer, overrun, opLength, adcVars,
                 timVars, coilVars>>

TransferLengthInPulses == TxLength                                  \* mutant
TransferLength == IF tx THEN TxLength ELSE RxLength

ArmLength ==
  /\ pc = "armLength"
  /\ opLength' = TransferLength
  /\ pc' = "armSignal"
  /\ UNCHANGED <<irq, mainVars, ctxVars, runVars, bufVars, adcVars, timVars, coilVars>>

ArmSignal ==
  /\ pc = "armSignal"
  /\ adcLastSignal' = -1
  /\ pc' = "armState"
  /\ UNCHANGED <<irq, mainVars, ctxVars, runVars, bufVars, opLength, adcEnabled, conversion,
                 timVars, coilVars>>

\* ... and sei
ArmState ==
  /\ pc = "armState"
  /\ state' = IF edgeStart THEN "WAIT_CONDITION" ELSE IF tx THEN "TX" ELSE "RX"
  /\ irq' = TRUE
  /\ pc' = "armAdc"
  /\ UNCHANGED <<mainVars, ctxVars, timeout, timedOut, bufVars, opLength, adcVars, timVars,
                 coilVars>>

\* _adcStart; ADSC forces a first conversion
ArmAdc ==
  /\ pc = "armAdc"
  /\ adcEnabled' = TRUE
  /\ conversion' = IF conversion = "none" THEN "forced" ELSE conversion
  /\ pc' = "armRead"
  /\ UNCHANGED <<irq, mainVars, ctxVars, runVars, bufVars, opLength, adcLastSignal, timVars,
                 coilVars>>

ArmRead ==
  /\ pc = "armRead"
  /\ pc' = IF state = "WAIT_CONDITION" THEN "armMinimal" ELSE "armRequested"
  /\ UNCHANGED <<irq, mainVars, ctxVars, runVars, bufVars, opLength, adcVars, timVars, coilVars>>

ArmClock ==
  /\ \/ pc = "armMinimal"   /\ PrescallerStart(FALSE, "minimal")
     \/ pc = "armRequested" /\ PrescallerStart(tx, "requested")
  /\ pc' = "poll"
  /\ UNCHANGED <<irq, mainVars, ctxVars, runVars, bufVars, opLength, adcVars, coilVars>>

\* STATE_FINISHED, with interrupts off from its first statement
Finish ==
  /\ Quiet /\ state = "FINISHED"
  /\ Cli
  /\ PrescallerStop
  /\ AdcStop
  /\ state' = "IDLE"
  /\ UNCHANGED <<pc, mainVars, ctxVars, timeout, timedOut, bufVars, opLength, adcLastSignal,
                 rate, compMatch, coilVars>>
-----------------------------------------------------------------------------
(***************************************************************************)
(* Timer 0 reaches OCR0A: OCF0A rises and starts a conversion, unless one  *)
(* is under way.  The prescaler is at least 4 carrier periods, 528 cycles  *)
(* (PRESCALER_MINIMAL_VALUE, and 8 from the host), and a conversion takes  *)
(* 216, so the sampler has served one compare match before the next.       *)
(***************************************************************************)
SamplerPending == irq /\ adcEnabled /\ conversion # "none"

CompareMatch ==
  /\ clocked /\ coilOn /\ ~compMatch /\ ~SamplerPending
  /\ compMatch' = TRUE
  /\ conversion' = IF adcEnabled /\ conversion = "none" THEN "triggered" ELSE conversion
  /\ UNCHANGED <<pc, irq, mainVars, ctxVars, runVars, bufVars, opLength, adcLastSignal,
                 adcEnabled, clocked, rate, compIrq, coilVars>>

(***************************************************************************)
(* ISR(ADC_vect) for a conversion whose result is at least adcHiVal, at    *)
(* most adcLowVal, or between the two.  adcLastSignal, an int8_t, is       *)
(* copied to a uint8_t before it is compared with -1: the test never holds,*)
(* and -1 counts as a signal that is set.  A forced conversion takes       *)
(* longer than the rest of the statements that arm the transfer.           *)
(***************************************************************************)
Levels == {"high", "between", "low"}

Signal(level) == CASE level = "high" -> 0 [] level = "low" -> 1 [] OTHER -> adcLastSignal

AdcInterrupt ==
  /\ SamplerPending
  /\ conversion = "forced" => pc \notin {"armRead", "armMinimal", "armRequested"}

IsEdge(old, new) == IF fallingEdge THEN old # 0 /\ new = 0 ELSE old = 0 /\ new # 0

\* The mode of the transfer proper: in a transmission the timer's interrupt takes
\* the place of the sampler's
SwitchSamplingOn ==                                                 \* mutant
  /\ adcEnabled' = TRUE /\ rate' = "requested" /\ compIrq' = tx
SwitchAtOldRate ==                                                  \* mutant
  /\ adcEnabled' = ~tx /\ rate' = rate /\ compIrq' = tx
Switch ==
  /\ adcEnabled' = ~tx /\ rate' = "requested" /\ compIrq' = tx

\* The synchronisation edge
AdcEdge(level) ==
  /\ AdcInterrupt
  /\ adcLastSignal' = Signal(level)
  /\ state = "WAIT_CONDITION" /\ IsEdge(adcLastSignal, Signal(level))
  /\ state' = IF tx THEN "TX" ELSE "RX"
  /\ conversion' = "none"
  /\ clocked' = TRUE
  /\ Acknowledge
  /\ Switch
  /\ UNCHANGED <<pc, irq, mainVars, ctxVars, timeout, timedOut, bufVars, opLength, coilVars>>

\* No edge: one compare match less to wait for
AdcWait(level) ==
  /\ AdcInterrupt
  /\ adcLastSignal' = Signal(level)
  /\ state = "WAIT_CONDITION" /\ ~IsEdge(adcLastSignal, Signal(level))
  /\ conversion' = "none"
  /\ Acknowledge
  /\ \/ /\ timeout > 0
        /\ timeout' = timeout - 1
        /\ UNCHANGED <<state, timedOut, clocked, compIrq>>
     \/ /\ timeout = 0
        /\ state' = "FINISHED" /\ timedOut' = TRUE
        /\ PrescallerStop
        /\ UNCHANGED timeout
  /\ UNCHANGED <<pc, irq, mainVars, ctxVars, bufVars, opLength, adcEnabled, rate, coilVars>>

\* Any other state: the signal is a sample
AdcSample(level) ==
  /\ AdcInterrupt
  /\ adcLastSignal' = Signal(level)
  /\ state # "WAIT_CONDITION"
  /\ conversion' = "none"
  /\ Acknowledge
  /\ Touch(RxLength)
  /\ ioBuffer' = [s \in Slots |-> IF s = opOffset THEN id ELSE ioBuffer[s]]
  /\ opOffset' = Succ(opOffset, OffsetModulus)
  /\ IF opOffset' = opLength
     THEN state' = "FINISHED" /\ PrescallerStop
     ELSE UNCHANGED <<state, clocked, compIrq>>
  /\ UNCHANGED <<pc, irq, mainVars, ctxVars, timeout, timedOut, opLength, adcEnabled, rate,
                 coilVars>>

(***************************************************************************)
(* ISR(TIMER0_COMPA_vect): the next pulse.  A pulse is any nibble the host *)
(* may have put in ioBuffer: the end mark, a gap or a burst of carrier.    *)
(***************************************************************************)
TimerInterrupt == irq /\ compIrq /\ compMatch

StopTxKeepsCoil ==                                                  \* mutant
  /\ PrescallerStop
  /\ state' = "FINISHED"
  /\ UNCHANGED coilPin
StopTx ==
  /\ PrescallerStop
  /\ coilPin' = "input"
  /\ state' = "FINISHED"

TimerLast ==
  /\ TimerInterrupt
  /\ compMatch' = FALSE
  /\ \/ opOffset = opLength /\ UNCHANGED overrun
     \/ opOffset # opLength /\ Touch(TxLength)      \* the end mark
  /\ StopTx
  /\ UNCHANGED <<pc, irq, mainVars, ctxVars, timeout, timedOut, opOffset, ioBuffer, opLength,
                 adcVars, rate, coilOn>>

TimerPulse(direction) ==
  /\ TimerInterrupt
  /\ compMatch' = FALSE
  /\ opOffset # opLength /\ Touch(TxLength)
  /\ coilPin' = direction
  /\ rate' = "pulse"
  /\ opOffset' = Succ(opOffset, OffsetModulus)
  /\ UNCHANGED <<pc, irq, mainVars, ctxVars, runVars, ioBuffer, opLength, adcVars, clocked,
                 compIrq, coilOn>>
-----------------------------------------------------------------------------
Request ==
  \/ \E on \in BOOLEAN : EnableCoil(on)
  \/ \E rc \in {"ok", "invalid_cmd"} : Query(rc)
  \/ RequestReset
  \/ \E cmd \in Vectors : RequestVector(cmd)
  \/ \E p \in Starts : TransferStart(p)
  \/ \E n \in 0 .. IdModulus - 1 : TransferStatus(n)
  \/ \E len \in 1 .. PacketSize : ReadData(len) \/ WriteData(len)

Handler   == StartState \/ StartReply \/ StatusState \/ StatusHi \/ StatusLo
Evaluate  == JumpToBoot \/ ArmOffset \/ Finish
Arm       == ArmLength \/ ArmSignal \/ ArmState \/ ArmAdc \/ ArmRead \/ ArmClock
AdcIsr    == \E level \in Levels : AdcEdge(level) \/ AdcWait(level) \/ AdcSample(level)
TimerIsr  == TimerLast \/ \E direction \in {"input", "output"} : TimerPulse(direction)

Next == Request \/ Handler \/ Evaluate \/ Arm \/ Reboot \/ CompareMatch \/ AdcIsr \/ TimerIsr

Spec == Init /\ [][Next]_vars

(***************************************************************************)
(* The main loop runs, the timer and the interrupts are never held up, and *)
(* the bus is silent for 5 ms again and again: the host sleeps half a      *)
(* second between starting a transfer and asking about it.                 *)
(***************************************************************************)
Fairness ==
  /\ WF_vars(Handler) /\ WF_vars(Arm) /\ SF_vars(Evaluate)
  /\ WF_vars(CompareMatch) /\ WF_vars(AdcIsr) /\ WF_vars(TimerIsr)

FairSpec == Spec /\ Fairness

-----------------------------------------------------------------------------
(***************************************************************************)
(* Properties                                                              *)
(***************************************************************************)
MainSteps == {"poll", "startState", "startReply", "statusState", "statusHi", "statusLo",
              "armLength", "armSignal", "armState", "armAdc", "armRead", "armMinimal",
              "armRequested", "boot"}

Counts == 0 .. OffsetModulus - 1

Flags ==
  /\ irq \in BOOLEAN /\ userRW \in BOOLEAN /\ timedOut \in BOOLEAN
  /\ fallingEdge \in BOOLEAN /\ edgeStart \in BOOLEAN /\ tx \in BOOLEAN
  /\ overrun \in BOOLEAN /\ adcEnabled \in BOOLEAN /\ clocked \in BOOLEAN
  /\ compMatch \in BOOLEAN /\ compIrq \in BOOLEAN /\ coilOn \in BOOLEAN

Values ==
  /\ pc \in MainSteps
  /\ command \in {"NOP", "RESET"} \cup VectorReads \cup VectorWrites
  /\ ioBufferOffset \in Nat
  /\ pc \in {"startState", "startReply"} => request.timeout \in Nat
  /\ state \in States /\ timeout \in Nat
  /\ id \in 0 .. IdModulus - 1
  /\ opOffset \in Counts /\ opLength \in {0, TxLength, RxLength}
  /\ ioBuffer \in [Slots -> 0 .. IdModulus]
  /\ adcLastSignal \in {-1, 0, 1}
  /\ conversion \in {"none", "forced", "triggered"}
  /\ rate \in {"minimal", "requested", "pulse"}
  /\ coilPin \in {"input", "output"}

\* Every variable stays in its C type, or in the part of it the code uses.  Of
\* ioBufferOffset and of the timeouts it only says that they are natural numbers:
\* VectorBounds bounds the first, the start gives the second.
TypeOK == Flags /\ Values

\* The copying loops of usbFunctionRead and usbFunctionWrite stop where the
\* offset equals the size of the vector: it must never pass it.
VectorBounds == userRW => ioBufferOffset <= VectorSize

\* Between transfers no interrupt service routine can run and the timer stands
\* still, so that the request handler and the host have ioBuffer to themselves.
IdleQuiesced == state = "IDLE" => ~irq /\ ~adcEnabled /\ ~clocked /\ ~compIrq

\* Whatever the host does, no interrupt service routine runs while a status
\* request would be answered with a verdict.
IdleMasked == state = "IDLE" => ~irq

\* Neither interrupt service routine leaves ioBuffer: both stop on the equality
\* of opOffset and opLength, which they must not step over.
InBuffer == ~overrun

\* A reception that ends without timing out has filled the whole buffer: nothing
\* in it is left over from the host or from an earlier transfer.
RxComplete ==
  [][(Finish /\ ~tx /\ ~timedOut) => \A s \in Slots : ioBuffer[s] = id]_vars

\* The pulses the host has put in ioBuffer reach the coil as they are: nothing
\* writes the buffer from the start of a transmission to its end.
TxBufferIntact ==
  [][(tx /\ state \in {"WAIT_CONDITION", "TX", "FINISHED"}) => ioBuffer' = ioBuffer]_vars

\* The field is damped only while a transmission is going on: the pin is an
\* input again when it ends, however it ends.
CoilReleased == coilPin = "output" => state = "TX"

\* Once a reception is under way its samples are taken at the requested rate,
\* not at the rate the edge was looked for.
SampledAtRate ==
  [][(opOffset' # opOffset /\ state = "RX") => rate = "requested"]_vars

\* A verdict comes with the exact offset: its two bytes, read apart while the
\* interrupts may be on, are those of one value, the one opOffset has.
ReplyExact ==
  [][(StatusLo /\ response.status \in {"ok", "timeout"})
       => /\ response'.hi = opOffset \div Radix
          /\ response'.lo = opOffset % Radix]_vars

\* A transfer, once started, ends, unless the carrier that clocks it is off or a
\* reset that was asked for before it takes the device to the boot loader.
TransferEnds == state # "IDLE" ~> state = "IDLE" \/ ~coilOn \/ pc = "boot"

\* A reset is carried out, unless another request takes its place in `command`.
ResetHonoured == command = "RESET" ~> pc = "boot" \/ command # "RESET"

\* The edge is a change between two signals that were both seen.
EdgeFromKnownSignal ==
  [][(\E level \in Levels : AdcEdge(level)) => adcLastSignal # -1]_vars

(***************************************************************************)
(* Why ReplyExact holds: from the moment the state was read as idle no     *)
(* interrupt can change it, or the offset.                                 *)
(***************************************************************************)
VerdictStands ==
  /\ DOMAIN response = DOMAIN NoResponse
  /\ response.status \in {"ok", "timeout"} =>
       /\ pc \in {"statusHi", "statusLo"} => state = "IDLE"
       /\ pc = "statusLo" => response.hi = opOffset \div Radix

(***************************************************************************)
(* Why the properties hold when the host does not interfere: what each     *)
(* state of a transfer says of the other variables.                        *)
(***************************************************************************)
Silent == ~irq /\ ~adcEnabled /\ ~clocked /\ ~compIrq /\ conversion = "none"

Armed == /\ opOffset = 0
         /\ opLength = TransferLength

\* Where the main loop can be in each state, and what it knows there
MainLoop ==
  /\ pc = "startState" => state = "IDLE"
  /\ pc = "startReply" => state = "STARTING"
  /\ pc \in {"armLength", "armSignal", "armState"} => state = "STARTING" /\ opOffset = 0
  /\ pc \in {"armSignal", "armState"} => Armed
  /\ pc = "armAdc" => ~adcEnabled /\ conversion = "none"
  /\ pc \in {"armRead", "armMinimal", "armRequested"} => adcEnabled /\ conversion = "forced"
  /\ pc \in {"armAdc", "armRead", "armMinimal", "armRequested"}
       => ~clocked /\ Armed /\ state \in {"WAIT_CONDITION", "RX"}
  /\ pc = "armMinimal" => state = "WAIT_CONDITION"
  /\ pc = "armRequested" => state = "RX"
  /\ pc = "boot" => state \in {"IDLE", "STARTING"}
  /\ command = "RESET" => state \in {"IDLE", "STARTING"}
  /\ pc \notin {"poll", "statusState", "statusHi", "statusLo", "startState", "startReply", "boot"}
       => command # "RESET"

\* What the hardware and the interrupt service routines may be doing in it
Transfer ==
  /\ state \in {"IDLE", "STARTING"} => Silent
  /\ state \in {"WAIT_CONDITION", "RX", "TX"} => irq
  /\ compIrq => state = "TX"
  /\ state # "TX" => coilPin = "input"
  /\ state = "WAIT_CONDITION" => edgeStart /\ Armed
  /\ state = "RX" => ~tx /\ opLength = RxLength /\ opOffset < RxLength
  /\ state = "RX" /\ pc \notin {"armAdc", "armRead", "armMinimal", "armRequested"}
       => rate = "requested"
  /\ state = "TX" => tx /\ ~adcEnabled /\ opLength = TxLength /\ opOffset <= TxLength
  /\ state = "FINISHED" => ~clocked /\ (adcEnabled => conversion = "none")

\* What has become of the data
Data ==
  /\ tx => edgeStart              \* Starts has no other transmission
  /\ state = "FINISHED" /\ timedOut => edgeStart
  /\ state \in {"WAIT_CONDITION", "RX", "TX"} => ~timedOut
  /\ state = "STARTING" /\ pc # "startReply" => ~timedOut
  /\ state = "RX" => \A s \in Slots : s < opOffset => ioBuffer[s] = id
  /\ state = "FINISHED" /\ ~tx /\ ~timedOut => \A s \in Slots : ioBuffer[s] = id
  /\ userRW => state = "IDLE" /\ pc \in {"poll", "boot"}
  /\ ~overrun

Discipline == MainLoop /\ Transfer /\ Data

\* The hosts it holds for
NoInterference == ~Overlap /\ \A p \in Starts : p.tx => p.edgeStart

(***************************************************************************)
(* The contract of a transfer.  It begins with the request, before the     *)
(* handler has given the new id.                                           *)
(***************************************************************************)
Starting == pc \in {"startState", "startReply"}

Contract == INSTANCE TransferContract WITH
  id     <- IF Starting THEN Succ(id, IdModulus) ELSE id,
  onEdge <- edgeStart,
  status <- IF Starting \/ state # "IDLE" THEN "in_progress"
            ELSE IF timedOut THEN "timeout" ELSE "ok"

ContractSpec == Contract!Spec
=============================================================================
