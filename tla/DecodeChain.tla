---------------------------- MODULE DecodeChain ----------------------------
(***************************************************************************)
(* Reading a token: the capture of a tag's signal by the firmware, its run *)
(* lengths (InterfaceUsbImpl::getSamples), and the decoders that           *)
(* `rfid-tool -r' connects behind one another.                             *)
(*                                                                         *)
(* A step is one sample of the capture: it is taken from the tag, extends  *)
(* or ends a run, and a run that ends goes through the carrier decoder,    *)
(* both coding decoders and both EM4100 decoders.  (The tool handles a     *)
(* whole capture in each stage before the next; no stage looks ahead, so   *)
(* the reports are the same.)  The tag repeats its image for ever, clocked *)
(* by the carrier, so that a half bit is a whole number of samples; a      *)
(* sample may be corrupted.                                                *)
(*                                                                         *)
(* A captured bit of 1 is a signal below the threshold.                    *)
(***************************************************************************)
EXTENDS Em4100, CarrierDecoder, CodingDecoders

CONSTANTS
  Samples,              \* samples in a capture: 1536
  Prescaler,            \* carrier cycles of a sample: 8
  Tokens,               \* a sequence of tokens
  Tags                  \* tags a reader may meet, see Tag

Modulations == {"Manchester", "Biphase"}

\* `noise' bounds the corrupted samples of a capture, `phases' is the set of
\* half bits at which the capture may begin.
Tag ==
  [token: 1..Len(Tokens), modulation: Modulations, divider: Dividers,
   noise: Nat, phases: SUBSET (0..(2 * ImageLength - 1))]

ASSUME ChainAssumption ==
  /\ Samples \in Nat
  /\ Prescaler \in {1, 2, 4, 8}      \* a half bit is a whole number of samples
  /\ Tokens \in Seq(Token)
  /\ Tags \subseteq Tag

VARIABLES
  tag,                  \* the tag in front of the reader
  signal,               \* where it is in its image, and the level it drives
  taken,                \* samples taken
  flips,                \* samples corrupted
  run,                  \* getSamples' currentState and currentStateLength
  carrier,              \* CarrierDecoder
  coding,               \* the coding decoders
  em4100,               \* Em4100Decoder of each coding
  reports               \* tokens written to the standard output

vars == <<tag, signal, taken, flips, run, carrier, coding, em4100, reports>>

-----------------------------------------------------------------------------
(* The tag                                                                 *)

Image == [t \in 1..Len(Tokens) |-> Generate(Tokens[t])]
ImageBit(half) == Image[tag.token][(half \div 2) + 1]

SamplesPerHalf == (tag.divider \div 2) \div Prescaler

\* Manchester: a one is high, then low.  Biphase: an edge at the start of
\* every bit, and one in the middle of a zero.
Level(half, before) ==
  CASE tag.modulation = "Manchester" ->
         IF half % 2 = 0 THEN 1 - ImageBit(half) ELSE ImageBit(half)
    [] tag.modulation = "Biphase" ->
         IF half % 2 = 0 \/ ImageBit(half) = 0 THEN 1 - before ELSE before

Advance ==
  signal' =
    IF signal.sub + 1 < SamplesPerHalf THEN [signal EXCEPT !.sub = @ + 1]
    ELSE LET half == (signal.half + 1) % (2 * ImageLength)
         IN [half |-> half, sub |-> 0, level |-> Level(half, signal.level)]

\* The sampler takes the first instant at which it finds the signal high for the
\* edge it waits for, whatever the signal was before; the first sample of the
\* capture is the next one.  So it is anywhere in a high run, or the first of
\* the low run behind it.
FirstSample ==
  \E half \in tag.phases, before \in Bit :
    /\ tag.modulation = "Manchester"
         => before = Level((half + 2 * ImageLength - 1) % (2 * ImageLength), 0)
    /\ signal.half = half
    /\ signal.level = Level(half, before)
    /\ signal.level = 0 \/ (before = 0 /\ signal.sub = 0)

-----------------------------------------------------------------------------
(* The decoders                                                            *)

Coding == [Manchester: Manchester, Biphase: Biphase]
ResetCoding == [Manchester |-> ResetManchester, Biphase |-> ResetBiphase]

CodingPulse(isHigh, isLong) ==
  [Manchester |-> ManchesterPulse(coding.Manchester, isHigh, isLong),
   Biphase |-> BiphasePulse(coding.Biphase, isHigh, isLong)]

CodingBits(isHigh, isLong) ==
  [Manchester |-> ManchesterBits(coding.Manchester, isHigh, isLong),
   Biphase |-> BiphaseBits(coding.Biphase, isHigh, isLong)]

TokensOf(m, bits) == UNION {NewTokens(em4100[m], b) : b \in bits}

DecodeBits(bits) ==
  /\ em4100' = [m \in Modulations |->
       IF bits[m] = {} THEN em4100[m]
       ELSE DecodeBit(em4100[m], CHOOSE b \in bits[m] : TRUE)]
  /\ reports' = reports \cup UNION
       {[modulation: {m}, divider: {carrier.carrierDivider}, token: TokensOf(m, bits[m])] :
          m \in Modulations}

\* A run goes through the chain.
Pulse(us, isHigh) ==
  /\ carrier' = CheckPulse(carrier, us)
  /\ IF NewPulse(carrier, us)
     THEN LET isLong == PulseLong(carrier, us)
          IN /\ coding' = CodingPulse(isHigh, isLong)
             /\ DecodeBits(CodingBits(isHigh, isLong))
     ELSE /\ coding' = IF SyncChanged(carrier, us) THEN ResetCoding ELSE coding
          /\ UNCHANGED <<em4100, reports>>

\* The first sample of a capture is not counted in its run, and the last run
\* of a capture does not end.
NoState == 2

SampleUs == CarrierPulseLength * Prescaler

Collect(bit) ==
  IF bit # run.state /\ run.state # NoState
  THEN /\ Pulse(run.length * SampleUs, run.state = 0)
       /\ run' = [state |-> bit, length |-> 1]
  ELSE /\ run' = [state |-> bit,
                  length |-> IF run.state = NoState THEN run.length ELSE run.length + 1]
       /\ UNCHANGED <<carrier, coding, em4100, reports>>

-----------------------------------------------------------------------------

Init ==
  /\ tag \in Tags
  /\ signal \in [half: tag.phases, sub: 0..(SamplesPerHalf - 1), level: Bit]
  /\ FirstSample
  /\ taken = 0
  /\ flips = 0
  /\ run = [state |-> NoState, length |-> 0]
  /\ carrier = ResetCarrier
  /\ coding = ResetCoding
  /\ em4100 = [m \in Modulations |-> ResetDecoder]
  /\ reports = {}

Take(bit) ==
  /\ taken < Samples
  /\ taken' = taken + 1
  /\ Collect(bit)
  /\ Advance
  /\ UNCHANGED tag

TakeSample ==
  /\ Take(signal.level)
  /\ UNCHANGED flips

TakeCorrupted ==
  /\ flips < tag.noise
  /\ flips' = flips + 1
  /\ Take(1 - signal.level)

Next == TakeSample \/ TakeCorrupted

Spec == Init /\ [][Next]_vars

-----------------------------------------------------------------------------

\* Every variable has its type.
TypeOK ==
  /\ tag \in Tags
  /\ signal \in [half: 0..(2 * ImageLength - 1), sub: 0..(SamplesPerHalf - 1), level: Bit]
  /\ taken \in 0..Samples
  /\ flips \in 0..tag.noise
  /\ run \in [state: 0..2, length: 0..Samples]
  /\ carrier \in Carrier
  /\ coding \in Coding
  /\ \A m \in Modulations : em4100[m] \in DecoderState /\ WithinBuffers(em4100[m])
  /\ reports \subseteq [modulation: Modulations, divider: Dividers, token: Token]

TheReport ==
  [modulation |-> tag.modulation, divider |-> tag.divider, token |-> Tokens[tag.token]]

\* Of a signal without errors nothing is reported but the tag's own token, with
\* its own coding and divider: neither the decoder of the other coding, fed
\* with the same pulses, nor a decoder out of phase, nor a wrong divider ever
\* completes a token (main.cpp:239-248).  The other coding's decoder may do so of
\* a few tokens whose signal is that of another token in its coding.
OnlyTheTag == flips = 0 => reports \subseteq {TheReport}

\* Whatever the corrupted samples drop, insert or turn over on the way, the
\* decoder of the tag's own coding reports no other token: parities catch it
\* (Em4100Decoder.cpp:77-131).
OwnDecoderRight ==
  \A r \in reports : r.modulation = tag.modulation => r = TheReport

\* One capture is enough to read the tag, wherever in the image it begins and
\* after every divider that had to be given up, even if a sample is corrupted
\* at the two faster rates, which repeat the image more than three times
\* (README.md:9-11).
ReadInOneCapture ==
  (taken = Samples /\ (flips = 0 \/ tag.divider < 64)) => TheReport \in reports

\* The carrier decoder synchronises on the divider of the tag and no other,
\* though the long pulses of one divider are the short ones of the next
\* (CarrierDecoder.cpp:127).
LocksOnTheDivider == carrier.hasSync => carrier.carrierDivider = tag.divider

\* Synchronisation, once found, survives the misfits of the corrupted samples:
\* they never add up to ERROR_TRESHOLD (CarrierDecoder.cpp:73-84).
SyncKept == [][carrier.hasSync => carrier'.hasSync]_vars

\* The carrier decoder is synchronised only by evidence: more than four runs
\* of each length, counted since the divider was taken up, and its counters
\* stay below the limits at which they are tested.
CarrierBounded ==
  /\ carrier.pulseCount < PulseMax
  /\ carrier.errorCount <= ErrorTreshold
  /\ carrier.hasSync => carrier.loCount > 4 /\ carrier.hiCount > 4
===========================================================================
