------------------------ MODULE DecodeChain_proofs ------------------------
(***************************************************************************)
(* The decoders behind any signal whatever: of any tag with any token, any *)
(* number of corrupted samples, any limits of the carrier decoder's        *)
(* counters.  First what the decoders keep of themselves, then how the     *)
(* runs of a signal follow its half bits, what follows for the divider the *)
(* carrier decoder synchronises on, and what the decoder of the tag's own  *)
(* coding, and then that of the other, hears of a capture without          *)
(* corrupted samples.                                                      *)
(***************************************************************************)
EXTENDS DecodeChain, Em4100_proofs

\* What a call of checkPulses leaves: a carrier decoder whose counters are
\* below their limits, and synchronised only by evidence.
SoundCarrier(c) ==
  /\ c \in Carrier
  /\ c.pulseCount < PulseMax
  /\ c.errorCount <= ErrorTreshold
  /\ c.hasSync => c.loCount > 4 /\ c.hiCount > 4

\* A counter of eight bits stays one.
LEMMA IncrementByte ==
  ASSUME NEW n \in 0..255
  PROVE  /\ Increment(n) \in 0..255
         /\ n < 255 => Increment(n) = n + 1
BY DEF Increment

\* Counting a run leaves the window's counters below their limits, and every
\* other field as it is (CarrierDecoder.cpp:70-84).
LEMMA CountedSound ==
  ASSUME NEW c, SoundCarrier(c), ~Exhausted(c)
  PROVE  /\ SoundCarrier(Counted(c))
         /\ Counted(c).errorCount < ErrorTreshold
         /\ Counted(c).errorCount <= c.errorCount
         /\ Counted(c).hasSync = c.hasSync
         /\ Counted(c).loCount = c.loCount /\ Counted(c).hiCount = c.hiCount
         /\ Counted(c).carrierDivider = c.carrierDivider
<1> DEFINE pulses == IF Full(c) THEN 0 ELSE Increment(c.pulseCount)
           errors == IF Full(c) THEN 0 ELSE c.errorCount
           next == [c EXCEPT !.pulseCount = pulses]
<1>1. pulses \in 0..255 /\ pulses < PulseMax
  <2>1. c.pulseCount \in 0..255 /\ c.pulseCount < PulseMax /\ c.pulseCount < 255
    BY CarrierAssumption DEF SoundCarrier, Carrier
  <2>2. Increment(c.pulseCount) = c.pulseCount + 1
    BY <2>1, IncrementByte
  <2> QED
    BY <2>1, <2>2, CarrierAssumption, SMTT(30) DEF Full
<1>2. errors \in 0..255 /\ errors < ErrorTreshold /\ errors <= c.errorCount
  BY CarrierAssumption DEF SoundCarrier, Carrier, Exhausted
<1>3. c \in Carrier
  BY DEF SoundCarrier
<1>4. /\ next \in Carrier
      /\ next.pulseCount = pulses
      /\ next.errorCount = c.errorCount
      /\ next.loCount = c.loCount
      /\ next.hiCount = c.hiCount
      /\ next.hasSync = c.hasSync
      /\ next.carrierDivider = c.carrierDivider
  BY <1>1, <1>3 DEF Carrier
<1>5. Counted(c) = [next EXCEPT !.errorCount = errors]
  BY <1>4 DEF Counted
<1> HIDE DEF pulses, errors, next
<1>6. /\ Counted(c) \in Carrier
      /\ Counted(c).pulseCount = pulses
      /\ Counted(c).errorCount = errors
      /\ Counted(c).loCount = c.loCount
      /\ Counted(c).hiCount = c.hiCount
      /\ Counted(c).hasSync = c.hasSync
      /\ Counted(c).carrierDivider = c.carrierDivider
  BY <1>2, <1>4, <1>5 DEF Carrier
<1> QED
  BY <1>1, <1>2, <1>6, CarrierAssumption DEF SoundCarrier

\* A misfit below the limit does not exceed it (CarrierDecoder.cpp:124, 160).
LEMMA MisfitSound ==
  ASSUME NEW c, SoundCarrier(c), c.errorCount < ErrorTreshold
  PROVE  SoundCarrier(Misfit(c)) /\ Misfit(c).hasSync = c.hasSync
<1>1. c \in Carrier /\ c.errorCount \in 0..255 /\ c.errorCount < 255
  BY CarrierAssumption, SMTT(30) DEF SoundCarrier, Carrier
<1>2. Increment(c.errorCount) = c.errorCount + 1
  BY <1>1, IncrementByte
<1>3. Misfit(c) = [c EXCEPT !.errorCount = c.errorCount + 1]
  BY <1>2 DEF Misfit
<1>4. c.errorCount + 1 \in 0..255
  BY <1>1
<1>5. /\ Misfit(c) \in Carrier
      /\ Misfit(c).pulseCount = c.pulseCount
      /\ Misfit(c).errorCount = c.errorCount + 1
      /\ Misfit(c).loCount = c.loCount
      /\ Misfit(c).hiCount = c.hiCount
      /\ Misfit(c).hasSync = c.hasSync
  BY <1>1, <1>3, <1>4 DEF Carrier
<1> QED
  BY <1>1, <1>5, CarrierAssumption DEF SoundCarrier

\* Without synchronisation a run is tallied, and synchronisation declared only
\* over both tallies (CarrierDecoder.cpp:112-127).
LEMMA AcquireSound ==
  ASSUME NEW c, NEW us, SoundCarrier(c), ~c.hasSync, c.errorCount < ErrorTreshold
  PROVE  SoundCarrier(Acquire(c, us))
<1> DEFINE t == Tallied(c, us)
<1>1. SoundCarrier(t) /\ ~t.hasSync
  <2>1. /\ Increment(c.loCount) \in 0..255
        /\ Increment(c.hiCount) \in 0..255
    BY IncrementByte DEF SoundCarrier, Carrier
  <2>2. CASE PulseShort(c, us)
    BY <2>1, <2>2 DEF Tallied, SoundCarrier, Carrier
  <2>3. CASE ~PulseShort(c, us) /\ PulseLong(c, us)
    BY <2>1, <2>3 DEF Tallied, SoundCarrier, Carrier
  <2>4. CASE ~PulseShort(c, us) /\ ~PulseLong(c, us)
    <3>1. t = Misfit(c)
      BY <2>4 DEF Tallied
    <3> QED
      BY <3>1, MisfitSound
  <2> QED
    BY <2>2, <2>3, <2>4
<1>2. Synchronised(t) \in BOOLEAN
  BY DEF Synchronised
<1>3. Acquire(c, us) = [t EXCEPT !.hasSync = Synchronised(t)]
  BY DEF Acquire
<1> QED
  BY <1>1, <1>2, <1>3, Zenon DEF SoundCarrier, Carrier, Synchronised

\* A divider that is given up leaves a decoder without evidence
\* (CarrierDecoder.cpp:86-108).
LEMMA NextCarrierSound ==
  ASSUME NEW c, SoundCarrier(c)
  PROVE  SoundCarrier(NextCarrier(c))
<1>1. NextDivider[c.carrierDivider] \in Dividers
  BY DEF SoundCarrier, Carrier, NextDivider, Dividers
<1> QED
  BY <1>1, CarrierAssumption DEF NextCarrier, SoundCarrier, Carrier

\* checkPulses keeps the carrier decoder sound, whatever the run is.
LEMMA CheckPulseSound ==
  ASSUME NEW c, NEW us, SoundCarrier(c)
  PROVE  SoundCarrier(CheckPulse(c, us))
<1>1. CASE Exhausted(c)
  BY <1>1, NextCarrierSound DEF CheckPulse
<1>2. CASE ~Exhausted(c) /\ ~c.hasSync
  BY <1>2, CountedSound, AcquireSound DEF CheckPulse
<1>3. CASE ~Exhausted(c) /\ c.hasSync
  <2>1. CheckPulse(c, us) = Track(Counted(c), us)
    BY <1>3 DEF CheckPulse
  <2>2. SoundCarrier(Counted(c)) /\ Counted(c).errorCount < ErrorTreshold
    BY <1>3, CountedSound
  <2> QED
    BY <2>1, <2>2, MisfitSound DEF Track
<1> QED
  BY <1>1, <1>2, <1>3

\* The carrier decoder is synchronised only by evidence, and its counters stay
\* below the limits at which they are tested: of every capture of every tag
\* (CarrierDecoder.cpp:66-171).
THEOREM CarrierSound == Spec => []CarrierBounded
<1> DEFINE Inv == SoundCarrier(carrier)
<1>1. Init => Inv
  BY CarrierAssumption DEF Init, ResetCarrier, SoundCarrier, Carrier, Dividers
<1>2. Inv /\ [Next]_vars => Inv'
  <2> SUFFICES ASSUME Inv, [Next]_vars PROVE Inv'
    OBVIOUS
  <2>1. ASSUME NEW bit, Take(bit) PROVE Inv'
    <3>1. Collect(bit)
      BY <2>1 DEF Take
    <3>2. CASE bit # run.state /\ run.state # NoState
      <4>1. carrier' = CheckPulse(carrier, run.length * SampleUs)
        BY <3>1, <3>2 DEF Collect, Pulse
      <4> QED
        BY <4>1, CheckPulseSound
    <3>3. CASE ~(bit # run.state /\ run.state # NoState)
      BY <3>1, <3>3 DEF Collect
    <3> QED
      BY <3>2, <3>3
  <2>2. CASE TakeSample
    BY <2>1, <2>2 DEF TakeSample
  <2>3. CASE TakeCorrupted
    BY <2>1, <2>3 DEF TakeCorrupted
  <2>4. CASE UNCHANGED vars
    BY <2>4 DEF vars
  <2> QED
    BY <2>2, <2>3, <2>4 DEF Next
<1>3. Inv => CarrierBounded
  BY DEF SoundCarrier, CarrierBounded
<1> QED
  BY <1>1, <1>2, <1>3, PTL DEF Spec
-----------------------------------------------------------------------------
(* Types                                                                   *)

\* A pulse of either coding decoder carries no bit or one, and keeps its flip-flops.
LEMMA CodingType ==
  ASSUME NEW isHigh \in BOOLEAN, NEW isLong \in BOOLEAN, coding \in Coding
  PROVE  /\ CodingPulse(isHigh, isLong) \in Coding
         /\ \A m \in Modulations : CodingBits(isHigh, isLong)[m] \in {{}, {0}, {1}}
<1>1. coding.Manchester \in Manchester /\ coding.Biphase \in Biphase
  BY DEF Coding
<1>2. ManchesterPulse(coding.Manchester, isHigh, isLong) \in Manchester
  <2> DEFINE m == coding.Manchester
  <2>1. m \in [ffOut : BOOLEAN, timerRunning : BOOLEAN]
    BY <1>1 DEF Manchester
  <2> HIDE DEF m
  <2>2. CASE m.timerRunning \/ (isHigh # m.ffOut /\ isLong)
    <3>1. ManchesterPulse(m, isHigh, isLong) = [ffOut |-> isHigh, timerRunning |-> FALSE]
      BY <2>1, <2>2, Zenon DEF ManchesterPulse
    <3> QED
      BY <3>1 DEF Manchester, m
  <2>3. CASE ~m.timerRunning /\ isHigh # m.ffOut /\ ~isLong
    <3>1. ManchesterPulse(m, isHigh, isLong) = [m EXCEPT !.timerRunning = TRUE]
      BY <2>1, <2>3, Zenon DEF ManchesterPulse
    <3> QED
      BY <2>1, <3>1 DEF Manchester, m
  <2>4. CASE ~m.timerRunning /\ ~(isHigh # m.ffOut)
    <3>1. ManchesterPulse(m, isHigh, isLong) = m
      BY <2>1, <2>4, Zenon DEF ManchesterPulse
    <3> QED
      BY <2>1, <3>1 DEF Manchester, m
  <2> QED
    BY <2>2, <2>3, <2>4
<1>3. BiphasePulse(coding.Biphase, isHigh, isLong) \in Biphase
  BY DEF BiphasePulse, Biphase
<1>4. ManchesterBits(coding.Manchester, isHigh, isLong) \in {{}, {0}, {1}}
  BY Zenon DEF ManchesterBits
<1>5. BiphaseBits(coding.Biphase, isHigh, isLong) \in {{}, {0}, {1}}
  BY Zenon DEF BiphaseBits
<1> QED
  BY <1>2, <1>3, <1>4, <1>5 DEF CodingPulse, CodingBits, Coding, Modulations

Decoders == \A m \in Modulations : SoundDecoder(em4100[m])
Reports  == reports \subseteq [modulation : Modulations, divider : Dividers, token : Token]

\* The bits of a pulse leave both EM4100 decoders sound, and report whole tokens.
LEMMA DecodeBitsSound ==
  ASSUME Decoders, Reports, carrier.carrierDivider \in Dividers,
         NEW bits, \A m \in Modulations : bits[m] \in {{}, {0}, {1}}, DecodeBits(bits)
  PROVE  Decoders' /\ Reports'
<1>1. ASSUME NEW m \in Modulations PROVE SoundDecoder(em4100'[m])
  <2>1. em4100'[m] = (IF bits[m] = {} THEN em4100[m]
                      ELSE DecodeBit(em4100[m], CHOOSE b \in bits[m] : TRUE))
    BY Zenon DEF DecodeBits
  <2>2. CASE bits[m] = {}
    BY <2>1, <2>2 DEF Decoders
  <2>3. CASE bits[m] # {}
    <3> DEFINE bit == CHOOSE b \in bits[m] : TRUE
    <3>1. bit \in bits[m]
      BY <2>3, Zenon
    <3>2. bit \in Bit
      BY <3>1 DEF Bit
    <3>3. em4100'[m] = DecodeBit(em4100[m], bit)
      BY <2>1, <2>3, Zenon
    <3> HIDE DEF bit
    <3> QED
      BY <3>2, <3>3, DecodeBitSound DEF Decoders
  <2> QED
    BY <2>2, <2>3
<1>2. ASSUME NEW m \in Modulations
      PROVE  /\ TokensOf(m, bits[m]) \subseteq Token
             /\ [modulation : {m}, divider : {carrier.carrierDivider}, token : TokensOf(m, bits[m])]
                  \subseteq [modulation : Modulations, divider : Dividers, token : Token]
  <2>1. \A b \in bits[m] : b \in Bit
    BY DEF Bit
  <2>2. \A b \in bits[m] : NewTokens(em4100[m], b) \subseteq Token
    BY <2>1, NewTokensType DEF Decoders
  <2>3. TokensOf(m, bits[m]) \subseteq Token
    BY <2>2 DEF TokensOf
  <2> QED
    BY <2>3
<1>3. Reports'
  BY <1>2, Zenon DEF DecodeBits, Reports
<1> QED
  BY <1>1, <1>3 DEF Decoders

\* What the assumptions say of the tag in front of the reader
LEMMA TagType ==
  ASSUME tag \in Tags
  PROVE  /\ tag \in Tag /\ tag.divider \in Dividers /\ tag.modulation \in Modulations
         /\ tag.noise \in Nat /\ tag.phases \subseteq 0..(2 * ImageLength - 1)
         /\ ImageLength \in Nat /\ ImageLength > 0
         /\ SamplesPerHalf \in Nat /\ SamplesPerHalf > 0
         /\ \A half \in 0..(2 * ImageLength - 1) : ImageBit(half) \in Bit
<1>1. tag \in Tag
  BY ChainAssumption
<1>2. /\ tag.divider \in Dividers /\ tag.modulation \in Modulations
      /\ tag.noise \in Nat /\ tag.phases \subseteq 0..(2 * ImageLength - 1)
      /\ tag.token \in 1..Len(Tokens)
  BY <1>1 DEF Tag
<1>3. ImageLength \in Nat /\ ImageLength > 0
  BY Em4100Assumption DEF ImageLength
<1>4. SamplesPerHalf \in Nat /\ SamplesPerHalf > 0
  BY <1>2, ChainAssumption DEF SamplesPerHalf, Dividers
<1>5. ASSUME NEW half \in 0..(2 * ImageLength - 1) PROVE ImageBit(half) \in Bit
  <2>1. Tokens[tag.token] \in Token
    BY <1>2, ChainAssumption, ElementOfSeq
  <2>2. Image[tag.token] \in [1..ImageLength -> Bit]
    BY <1>2, <2>1, GenerateType DEF Image
  <2>3. (half \div 2) + 1 \in 1..ImageLength
    BY <1>3
  <2> QED
    BY <2>2, <2>3 DEF ImageBit
<1> QED
  BY <1>1, <1>2, <1>3, <1>4, <1>5

Signal == signal \in [half : 0..(2 * ImageLength - 1), sub : 0..(SamplesPerHalf - 1), level : Bit]

LEMMA LevelType ==
  ASSUME tag \in Tags, NEW half \in 0..(2 * ImageLength - 1), NEW before \in Bit
  PROVE  Level(half, before) \in Bit
<1>1. ImageBit(half) \in Bit
  BY TagType
<1>2. Level(half, before) \in {ImageBit(half), 1 - ImageBit(half), before, 1 - before}
  <2>1. CASE tag.modulation = "Manchester"
    BY <2>1, Zenon DEF Level
  <2>2. CASE tag.modulation = "Biphase"
    BY <2>2, Zenon DEF Level
  <2> QED
    BY <2>1, <2>2, TagType DEF Modulations
<1> QED
  BY <1>1, <1>2 DEF Bit

\* The signal moves on within a half bit, or to the next.
LEMMA AdvanceEffect ==
  ASSUME tag \in Tags, Signal, Advance, tag' = tag
  PROVE  /\ signal.sub + 1 < SamplesPerHalf =>
              /\ signal'.half = signal.half /\ signal'.sub = signal.sub + 1
              /\ signal'.level = signal.level
         /\ ~(signal.sub + 1 < SamplesPerHalf) =>
              /\ signal'.half = (signal.half + 1) % (2 * ImageLength) /\ signal'.sub = 0
              /\ signal'.level = Level(signal'.half, signal.level)
         /\ Signal'
<1> DEFINE H == SamplesPerHalf  L == 2 * ImageLength
           half == (signal.half + 1) % L
<1>1. H \in Nat /\ H > 0 /\ L \in Nat /\ L > 0
  BY TagType
<1>2. H' = H /\ L' = L
  BY DEF SamplesPerHalf
<1>3. signal.half \in 0..(L - 1) /\ signal.sub \in 0..(H - 1) /\ signal.level \in Bit
  BY DEF Signal
<1>4. half \in 0..(L - 1)
  BY <1>1, <1>3
<1>5. CASE signal.sub + 1 < H
  <2>1. signal' = [signal EXCEPT !.sub = signal.sub + 1]
    BY <1>5, Zenon DEF Advance
  <2>2. signal'.half = signal.half /\ signal'.sub = signal.sub + 1 /\ signal'.level = signal.level
    BY <2>1 DEF Signal
  <2>3. signal.sub + 1 \in 0..(H - 1)
    BY <1>1, <1>3, <1>5
  <2>4. signal' \in [half : 0..(L - 1), sub : 0..(H - 1), level : Bit]
    BY <2>1, <2>3 DEF Signal
  <2> QED
    BY <1>2, <1>5, <2>2, <2>4 DEF Signal
<1>6. CASE ~(signal.sub + 1 < H)
  <2>1. signal' = [half |-> half, sub |-> 0, level |-> Level(half, signal.level)]
    BY <1>6, Zenon DEF Advance
  <2>2. Level(half, signal.level) \in Bit
    BY <1>3, <1>4, LevelType
  <2>3. 0 \in 0..(H - 1)
    BY <1>1
  <2>4. signal' \in [half : 0..(L - 1), sub : 0..(H - 1), level : Bit]
    BY <1>4, <2>1, <2>2, <2>3
  <2>5. signal'.half = half /\ signal'.sub = 0 /\ signal'.level = Level(half, signal.level)
    BY <2>1
  <2> QED
    BY <1>2, <1>6, <2>4, <2>5 DEF Signal
<1> QED
  BY <1>5, <1>6

\* A run is not longer than the capture so far.
Runs ==
  /\ taken \in 0..Samples /\ run \in [state : 0..2, length : 0..Samples]
  /\ run.length <= taken

Typed ==
  /\ tag \in Tags /\ Signal /\ flips \in 0..tag.noise /\ Runs
  /\ SoundCarrier(carrier) /\ coding \in Coding
  /\ Decoders /\ Reports

LEMMA PulseTypes ==
  ASSUME Typed, NEW us, NEW isHigh \in BOOLEAN, Pulse(us, isHigh)
  PROVE  SoundCarrier(carrier)' /\ (coding \in Coding)' /\ Decoders' /\ Reports'
<1>1. SoundCarrier(carrier')
  BY CheckPulseSound DEF Typed, Pulse
<1>2. CASE NewPulse(carrier, us)
  <2> DEFINE isLong == PulseLong(carrier, us)
  <2>1. isLong \in BOOLEAN
    BY Zenon DEF PulseLong, Within
  <2>2. coding' = CodingPulse(isHigh, isLong) /\ DecodeBits(CodingBits(isHigh, isLong))
    BY <1>2, Zenon DEF Pulse
  <2> HIDE DEF isLong
  <2>3. /\ CodingPulse(isHigh, isLong) \in Coding
        /\ \A m \in Modulations : CodingBits(isHigh, isLong)[m] \in {{}, {0}, {1}}
    BY <2>1, CodingType DEF Typed
  <2>4. carrier.carrierDivider \in Dividers
    BY DEF Typed, SoundCarrier, Carrier
  <2>5. Decoders' /\ Reports'
    BY <2>2, <2>3, <2>4, DecodeBitsSound DEF Typed
  <2> QED
    BY <1>1, <2>2, <2>3, <2>5
<1>3. CASE ~NewPulse(carrier, us)
  <2>1. coding' \in {ResetCoding, coding} /\ UNCHANGED <<em4100, reports>>
    BY <1>3, Zenon DEF Pulse
  <2>2. ResetCoding \in Coding
    BY DEF ResetCoding, Coding, ResetManchester, Manchester, ResetBiphase, Biphase
  <2> QED
    BY <1>1, <2>1, <2>2 DEF Typed, Decoders, Reports
<1> QED
  BY <1>2, <1>3

LEMMA TakeTypes ==
  ASSUME Typed, NEW bit \in Bit, Take(bit), flips' \in 0..tag.noise
  PROVE  Typed'
<1>1. /\ taken < Samples /\ taken' = taken + 1 /\ tag' = tag
      /\ Collect(bit) /\ Advance
  BY DEF Take
<1>2. Samples \in Nat /\ taken \in Nat /\ run.length \in Nat /\ run.length <= taken
  BY ChainAssumption DEF Typed, Runs
<1>3. Signal'
  BY <1>1, AdvanceEffect DEF Typed
<1>4. run' \in {[state |-> bit, length |-> 1], [state |-> bit, length |-> run.length],
               [state |-> bit, length |-> run.length + 1]}
  BY <1>1, Zenon DEF Collect
<1>5. run'.length \in Nat /\ run'.length <= taken'
  BY <1>1, <1>2, <1>4
<1>6. taken' \in 0..Samples
  BY <1>1, <1>2
<1>7. bit \in 0..2 /\ run'.length \in 0..Samples
  BY <1>1, <1>2, <1>5, <1>6 DEF Bit
<1>8. run' \in [state : 0..2, length : 0..Samples]
  <2>1. run' = [state |-> bit, length |-> run'.length]
    BY <1>4
  <2> QED
    BY <1>7, <2>1
<1>9. Runs'
  BY <1>5, <1>6, <1>8 DEF Runs
<1>10. SoundCarrier(carrier)' /\ (coding \in Coding)' /\ Decoders' /\ Reports'
  <2>1. CASE bit # run.state /\ run.state # NoState
    <3>1. Pulse(run.length * SampleUs, run.state = 0)
      BY <1>1, <2>1, Zenon DEF Collect
    <3>2. (run.state = 0) \in BOOLEAN
      BY Zenon
    <3> QED
      BY <3>1, <3>2, PulseTypes
  <2>2. CASE ~(bit # run.state /\ run.state # NoState)
    <3>1. UNCHANGED <<carrier, coding, em4100, reports>>
      BY <1>1, <2>2, Zenon DEF Collect
    <3> QED
      BY <3>1 DEF Typed, Decoders, Reports
  <2> QED
    BY <2>1, <2>2
<1> QED
  BY <1>1, <1>3, <1>9, <1>10, Zenon DEF Typed

LEMMA TypedInit == Init => Typed
<1> SUFFICES ASSUME Init PROVE Typed
  OBVIOUS
<1>1. tag \in Tags
  BY DEF Init
<1>2. Signal
  <2>1. signal \in [half: tag.phases, sub: 0..(SamplesPerHalf - 1), level: Bit]
    BY Zenon DEF Init
  <2>2. tag.phases \subseteq 0..(2 * ImageLength - 1)
    BY <1>1, TagType
  <2> QED
    BY <2>1, <2>2 DEF Signal
<1>3. flips \in 0..tag.noise
  BY <1>1, TagType DEF Init
<1>4. Runs
  BY ChainAssumption DEF Init, Runs, NoState
<1>5. SoundCarrier(carrier)
  BY CarrierAssumption DEF Init, ResetCarrier, SoundCarrier, Carrier, Dividers
<1>6. coding \in Coding
  BY DEF Init, ResetCoding, Coding, ResetManchester, Manchester, ResetBiphase, Biphase
<1>7. Decoders
  <2>1. SoundDecoder(ResetDecoder)
    <3>1. /\ 0 \in 0..(PreambleLength - 1) /\ <<>> \in Seq(Bit) /\ <<>> \in Seq(Nibble)
          /\ Len(<<>>) <= 4 /\ Len(<<>>) <= Rows + 1 /\ "PREAMBLE" # "DATA"
      BY Em4100Assumption
    <3> QED
      BY <3>1, RecordSound, Zenon DEF ResetDecoder
  <2> QED
    BY <2>1 DEF Init, Decoders
<1>8. Reports
  BY DEF Init, Reports
<1> QED
  BY <1>1, <1>2, <1>3, <1>4, <1>5, <1>6, <1>7, <1>8 DEF Typed

LEMMA TypedStep == Typed /\ [Next]_vars => Typed'
<1> SUFFICES ASSUME Typed, [Next]_vars PROVE Typed'
  OBVIOUS
<1>1. signal.level \in Bit /\ 1 - signal.level \in Bit
  BY DEF Typed, Signal, Bit
<1>2. flips \in Nat /\ tag.noise \in Nat /\ flips \in 0..tag.noise
  BY TagType DEF Typed
<1>3. CASE TakeSample
  BY <1>1, <1>2, <1>3, TakeTypes DEF TakeSample
<1>4. CASE TakeCorrupted
  <2>1. flips' \in 0..tag.noise
    BY <1>2, <1>4 DEF TakeCorrupted
  <2> QED
    BY <1>1, <1>4, <2>1, TakeTypes DEF TakeCorrupted
<1>5. CASE UNCHANGED vars
  BY <1>5, Zenon DEF vars, Typed, Signal, SamplesPerHalf, Runs, Decoders, Reports
<1> QED
  BY <1>3, <1>4, <1>5 DEF Next

\* Of any tag with any token, and whatever is corrupted: no run is longer than the
\* capture, no decoder writes beyond its buffers, and only whole tokens are reported.
THEOREM ChainTypes == Spec => []TypeOK
<1>1. Typed => TypeOK
  BY DEF Typed, Signal, Runs, SoundCarrier, Decoders, SoundDecoder, Reports, TypeOK
<1> QED
  BY <1>1, TypedInit, TypedStep, PTL DEF Spec

-----------------------------------------------------------------------------
(* The divider                                                             *)

\* How often the runs spoke against the divider of the tag: as short ones of a smaller
\* divider, as long ones of a greater, as misfits of its own.
Doubt(c) ==
  IF c.carrierDivider < tag.divider THEN c.loCount
  ELSE IF c.carrierDivider > tag.divider THEN c.hiCount ELSE c.errorCount

\* What a run may add to the counters
Tallies(c, us, n) ==
  /\ n.carrierDivider = c.carrierDivider
  /\ n.loCount <= c.loCount + 1 /\ n.hiCount <= c.hiCount + 1 /\ n.errorCount <= c.errorCount + 1
  /\ ~PulseShort(c, us) => n.loCount <= c.loCount
  /\ ~PulseLong(c, us) => n.hiCount <= c.hiCount
  /\ PulseShort(c, us) \/ PulseLong(c, us) => n.errorCount <= c.errorCount

\* A counter that wraps is not greater than it was.
LEMMA IncrementBound == \A n \in 0..255 : Increment(n) \in 0..255 /\ Increment(n) <= n + 1
BY DEF Increment

LEMMA MisfitTallies ==
  ASSUME NEW c, NEW us, c \in Carrier, ~PulseShort(c, us), ~PulseLong(c, us)
  PROVE  Tallies(c, us, Misfit(c)) /\ Misfit(c).hasSync = c.hasSync
<1>1. /\ c.loCount \in 0..255 /\ c.hiCount \in 0..255 /\ c.errorCount \in 0..255
  BY SMTT(30) DEF Carrier
<1>2. Increment(c.errorCount) <= c.errorCount + 1
  BY <1>1, IncrementBound
<1>3. Misfit(c) = [c EXCEPT !.errorCount = Increment(c.errorCount)]
  BY DEF Misfit
<1>4. /\ Misfit(c).carrierDivider = c.carrierDivider
      /\ Misfit(c).loCount = c.loCount /\ Misfit(c).hiCount = c.hiCount
      /\ Misfit(c).errorCount = Increment(c.errorCount) /\ Misfit(c).hasSync = c.hasSync
  BY <1>3 DEF Carrier
<1>5. /\ c.loCount <= c.loCount + 1 /\ c.loCount <= c.loCount
      /\ c.hiCount <= c.hiCount + 1 /\ c.hiCount <= c.hiCount
  BY <1>1
<1> QED
  BY <1>2, <1>4, <1>5, Zenon DEF Tallies

LEMMA SameTallies ==
  ASSUME NEW c, NEW us, c \in Carrier
  PROVE  Tallies(c, us, c)
<1>1. /\ c.loCount \in 0..255 /\ c.hiCount \in 0..255 /\ c.errorCount \in 0..255
  BY DEF Carrier
<1>2. /\ c.loCount <= c.loCount + 1 /\ c.loCount <= c.loCount
      /\ c.hiCount <= c.hiCount + 1 /\ c.hiCount <= c.hiCount
      /\ c.errorCount <= c.errorCount + 1 /\ c.errorCount <= c.errorCount
  BY <1>1
<1> QED
  BY <1>2, Zenon DEF Tallies

LEMMA TalliedTallies ==
  ASSUME NEW c, NEW us, c \in Carrier
  PROVE  Tallies(c, us, Tallied(c, us))
<1> DEFINE t == Tallied(c, us)
<1>1. /\ c.loCount \in 0..255 /\ c.hiCount \in 0..255 /\ c.errorCount \in 0..255
  BY DEF Carrier
<1>2. /\ c.loCount <= c.loCount + 1 /\ c.loCount <= c.loCount
      /\ c.hiCount <= c.hiCount + 1 /\ c.hiCount <= c.hiCount
      /\ c.errorCount <= c.errorCount + 1 /\ c.errorCount <= c.errorCount
  BY <1>1
<1>6. Increment(c.loCount) <= c.loCount + 1 /\ Increment(c.hiCount) <= c.hiCount + 1
  BY <1>1, IncrementBound, Zenon
<1>3. CASE PulseShort(c, us)
  <2>1. t = [c EXCEPT !.loCount = Increment(c.loCount)]
    BY <1>3, Zenon DEF Tallied
  <2>2. /\ t.carrierDivider = c.carrierDivider
        /\ t.loCount = Increment(c.loCount) /\ t.hiCount = c.hiCount
        /\ t.errorCount = c.errorCount
    BY <2>1 DEF Carrier
  <2> QED
    BY <1>2, <1>3, <1>6, <2>2, Zenon DEF Tallies
<1>4. CASE ~PulseShort(c, us) /\ PulseLong(c, us)
  <2>1. t = [c EXCEPT !.hiCount = Increment(c.hiCount)]
    BY <1>4, Zenon DEF Tallied
  <2>2. /\ t.carrierDivider = c.carrierDivider
        /\ t.hiCount = Increment(c.hiCount) /\ t.loCount = c.loCount
        /\ t.errorCount = c.errorCount
    BY <2>1 DEF Carrier
  <2> QED
    BY <1>2, <1>4, <1>6, <2>2, Zenon DEF Tallies
<1>5. CASE ~PulseShort(c, us) /\ ~PulseLong(c, us)
  <2>1. t = Misfit(c)
    BY <1>5, Zenon DEF Tallied
  <2> QED
    BY <1>5, <2>1, MisfitTallies
<1> QED
  BY <1>3, <1>4, <1>5

\* A run adds to one counter at most (CarrierDecoder.cpp:112-161).
LEMMA CheckPulseTallies ==
  ASSUME NEW c, NEW us, SoundCarrier(c), ~Exhausted(c)
  PROVE  /\ Tallies(c, us, CheckPulse(c, us))
         /\ c.hasSync => CheckPulse(c, us).hasSync
<1> DEFINE k == Counted(c)
           n == CheckPulse(c, us)
<1>1. /\ k \in Carrier /\ k.hasSync = c.hasSync /\ k.errorCount <= c.errorCount
      /\ k.loCount = c.loCount /\ k.hiCount = c.hiCount /\ k.carrierDivider = c.carrierDivider
  BY CountedSound DEF SoundCarrier
<1>2. PulseShort(k, us) = PulseShort(c, us) /\ PulseLong(k, us) = PulseLong(c, us)
  BY <1>1, Zenon DEF PulseShort, PulseLong, PulseLength
<1>3. /\ Tallies(k, us, n) /\ n \in Carrier
      /\ c.hasSync => n.hasSync
  <2>1. n \in Carrier
    BY CheckPulseSound DEF SoundCarrier
  <2>2. CASE ~c.hasSync
    <3> DEFINE t == Tallied(k, us)
    <3>1. n = [t EXCEPT !.hasSync = Synchronised(t)]
      BY <2>2, Zenon DEF CheckPulse, Acquire
    <3>2. /\ n.carrierDivider = t.carrierDivider /\ n.loCount = t.loCount
          /\ n.hiCount = t.hiCount /\ n.errorCount = t.errorCount
      BY <3>1
    <3>3. Tallies(k, us, t)
      BY <1>1, TalliedTallies
    <3> QED
      BY <2>1, <2>2, <3>2, <3>3, Zenon DEF Tallies
  <2>3. CASE c.hasSync
    <3>1. n = Track(k, us)
      BY <2>3, Zenon DEF CheckPulse
    <3>2. CASE PulseLong(k, us) \/ PulseShort(k, us)
      <4>1. n = k
        BY <3>1, <3>2, Zenon DEF Track
      <4> QED
        BY <1>1, <2>1, <2>3, <4>1, SameTallies, Zenon
    <3>3. CASE ~PulseLong(k, us) /\ ~PulseShort(k, us)
      <4>1. n = Misfit(k)
        BY <3>1, <3>3, Zenon DEF Track
      <4> QED
        BY <1>1, <2>1, <2>3, <3>3, <4>1, MisfitTallies, Zenon
    <3> QED
      BY <3>2, <3>3
  <2> QED
    BY <2>2, <2>3
<1>4. n.errorCount \in Nat /\ k.errorCount \in Nat /\ c.errorCount \in Nat
  BY <1>1, <1>3 DEF Carrier, SoundCarrier
<1>5. n.errorCount <= k.errorCount + 1 /\ (PulseShort(k, us) \/ PulseLong(k, us) => n.errorCount <= k.errorCount)
  BY <1>3, Zenon DEF Tallies
<1>6. n.errorCount <= c.errorCount + 1 /\ (n.errorCount <= k.errorCount => n.errorCount <= c.errorCount)
  BY <1>1, <1>4, <1>5
<1> QED
  BY <1>1, <1>2, <1>3, <1>5, <1>6, Zenon DEF Tallies
\* Runs of one or two half bits of the tag's signal
RunUs == {SamplesPerHalf * SampleUs, 2 * SamplesPerHalf * SampleUs}

LEMMA RunTimes ==
  ASSUME tag \in Tags
  PROVE  /\ SamplesPerHalf * SampleUs = (tag.divider \div 2) * CarrierPulseLength
         /\ 2 * SamplesPerHalf * SampleUs = tag.divider * CarrierPulseLength
<1>1. tag.divider \in Dividers /\ Prescaler \in {1, 2, 4, 8} /\ CarrierPulseLength \in Nat
  BY TagType, ChainAssumption, CarrierAssumption
<1>2. /\ SamplesPerHalf \in Nat /\ SamplesPerHalf * Prescaler = tag.divider \div 2
      /\ 2 * SamplesPerHalf * Prescaler = tag.divider
  BY <1>1 DEF SamplesPerHalf, Dividers
<1> DEFINE H == SamplesPerHalf  P == Prescaler  C == CarrierPulseLength
<1>3. ASSUME NEW h \in Nat, NEW p \in Nat, NEW q \in Nat
      PROVE h * (q * p) = (h * p) * q /\ 2 * h * (q * p) = (2 * h * p) * q
  OBVIOUS
<1>4. H * (C * P) = (H * P) * C /\ 2 * H * (C * P) = (2 * H * P) * C
  <2>1. P \in Nat
    BY <1>1
  <2> QED
    BY <1>1, <1>2, <1>3, <2>1
<1> QED
  BY <1>2, <1>4 DEF SampleUs

\* Such a run is no short pulse of a smaller divider and no long pulse of a greater, and
\* is a pulse of its own: a quarter either way does not reach (CarrierDecoder.cpp:52-66).
LEMMA RunFits ==
  ASSUME tag \in Tags, NEW c, c \in Carrier, NEW us \in RunUs
  PROVE  /\ c.carrierDivider < tag.divider => ~PulseShort(c, us)
         /\ c.carrierDivider > tag.divider => ~PulseLong(c, us)
         /\ c.carrierDivider = tag.divider => PulseShort(c, us) \/ PulseLong(c, us)
<1> DEFINE C == CarrierPulseLength
<1>1. C \in Nat /\ C > 0 /\ tag.divider \in Dividers /\ c.carrierDivider \in Dividers
  BY TagType, CarrierAssumption DEF Carrier
<1>2. /\ tag.divider = 16 => us \in {8 * C, 16 * C}
      /\ tag.divider = 32 => us \in {16 * C, 32 * C}
      /\ tag.divider = 64 => us \in {32 * C, 64 * C}
  BY <1>1, RunTimes DEF RunUs
<1>3. CASE c.carrierDivider = 16
  <2>1. PulseLength(c) = 8 * C /\ PulseLength(c) \div 4 = 2 * C
    BY <1>1, <1>3 DEF PulseLength
  <2> QED
    BY <1>1, <1>2, <1>3, <2>1 DEF PulseShort, PulseLong, Within, Dividers
<1>4. CASE c.carrierDivider = 32
  <2>1. PulseLength(c) = 16 * C /\ PulseLength(c) \div 4 = 4 * C
    BY <1>1, <1>4 DEF PulseLength
  <2> QED
    BY <1>1, <1>2, <1>4, <2>1 DEF PulseShort, PulseLong, Within, Dividers
<1>5. CASE c.carrierDivider = 64
  <2>1. PulseLength(c) = 32 * C /\ PulseLength(c) \div 4 = 8 * C
    BY <1>1, <1>5 DEF PulseLength
  <2> QED
    BY <1>1, <1>2, <1>5, <2>1 DEF PulseShort, PulseLong, Within, Dividers
<1> QED
  BY <1>1, <1>3, <1>4, <1>5 DEF Dividers

\* A run adds one to the doubt at most, and a regular run nothing; a divider that is
\* given up is no longer in doubt.
LEMMA CheckPulseDoubt ==
  ASSUME tag \in Tags, NEW c, SoundCarrier(c), NEW us
  PROVE  /\ Doubt(c) \in Nat /\ Doubt(CheckPulse(c, us)) \in Nat
         /\ Doubt(CheckPulse(c, us)) <= Doubt(c) + 1
         /\ us \in RunUs => Doubt(CheckPulse(c, us)) <= Doubt(c)
<1> DEFINE n == CheckPulse(c, us)
<1>1. SoundCarrier(n)
  BY CheckPulseSound
<1>2. /\ c.loCount \in Nat /\ c.hiCount \in Nat /\ c.errorCount \in Nat
      /\ n.loCount \in Nat /\ n.hiCount \in Nat /\ n.errorCount \in Nat
      /\ c.carrierDivider \in Dividers /\ tag.divider \in Dividers /\ c \in Carrier
  BY <1>1, TagType, SMTT(30) DEF SoundCarrier, Carrier
<1>3. Doubt(c) \in Nat /\ Doubt(n) \in Nat
  BY <1>2, Zenon DEF Doubt
<1>4. CASE Exhausted(c)
  <2>1. n = NextCarrier(c)
    BY <1>4, Zenon DEF CheckPulse
  <2>2. n.loCount = 0 /\ n.hiCount = 0 /\ n.errorCount = 0
    BY <2>1 DEF NextCarrier
  <2>3. Doubt(n) = 0
    BY <2>2, Zenon DEF Doubt
  <2> QED
    BY <1>3, <2>3
<1>5. CASE ~Exhausted(c)
  <2>1. Tallies(c, us, n)
    BY <1>5, CheckPulseTallies
  <2>2. us \in RunUs =>
          /\ c.carrierDivider < tag.divider => ~PulseShort(c, us)
          /\ c.carrierDivider > tag.divider => ~PulseLong(c, us)
          /\ c.carrierDivider = tag.divider => PulseShort(c, us) \/ PulseLong(c, us)
    BY <1>2, RunFits
  <2>3. c.carrierDivider \in Int /\ tag.divider \in Int
    BY <1>2 DEF Dividers
  <2>4. CASE c.carrierDivider < tag.divider
    <3>1. Doubt(c) = c.loCount /\ Doubt(n) = n.loCount
      BY <2>1, <2>4, Zenon DEF Doubt, Tallies
    <3> QED
      BY <1>3, <2>1, <2>2, <2>4, <3>1, Zenon DEF Tallies
  <2>5. CASE c.carrierDivider > tag.divider
    <3>1. ~(c.carrierDivider < tag.divider)
      BY <2>3, <2>5
    <3>2. Doubt(c) = c.hiCount /\ Doubt(n) = n.hiCount
      BY <2>1, <2>5, <3>1, Zenon DEF Doubt, Tallies
    <3> QED
      BY <1>3, <2>1, <2>2, <2>5, <3>2, Zenon DEF Tallies
  <2>6. CASE c.carrierDivider = tag.divider
    <3>1. ~(c.carrierDivider < tag.divider) /\ ~(c.carrierDivider > tag.divider)
      BY <2>3, <2>6
    <3>2. Doubt(c) = c.errorCount /\ Doubt(n) = n.errorCount
      BY <2>1, <3>1, Zenon DEF Doubt, Tallies
    <3> QED
      BY <1>3, <2>1, <2>2, <2>6, <3>2, Zenon DEF Tallies
  <2> QED
    BY <2>3, <2>4, <2>5, <2>6
<1> QED
  BY <1>4, <1>5
-----------------------------------------------------------------------------
(* The rhythm of the runs                                                  *)

\* Half bits at whose start the level always changes
Forced(half) == IF tag.modulation = "Manchester" THEN half % 2 = 1 ELSE half % 2 = 0

AtForced == Forced(signal.half)

\* A Manchester signal has the level of its bit.
LevelRight ==
  tag.modulation = "Manchester" => signal.level = Level(signal.half, signal.level)

\* The last sample was not corrupted: the run ends where the level changes.
Aligned ==
  /\ signal.sub > 0 => run.state = signal.level
  /\ signal.sub = 0 /\ AtForced => run.state # signal.level

\* The run began where the level changed, and will be one or two half bits long.
Regular ==
  \/ signal.sub > 0 /\ run.length = signal.sub
  \/ signal.sub > 0 /\ ~AtForced /\ run.length = SamplesPerHalf + signal.sub
  \/ signal.sub = 0 /\ run.length = SamplesPerHalf
  \/ signal.sub = 0 /\ AtForced /\ run.length = 2 * SamplesPerHalf

\* A corrupted sample spoils three runs: the one it ends or joins, its own, and the
\* next.  The first run of a capture may be short.
Rhythm ==
  \/ Aligned /\ run.state \in Bit /\ Regular /\ Doubt(carrier) <= 3 * flips + 1
  \/ ((Aligned /\ run.state \in Bit) \/ run.state = NoState) /\ Doubt(carrier) <= 3 * flips
  \/ run.state \in Bit /\ Doubt(carrier) <= 3 * flips - 1

\* Forced edges are two half bits apart, and each turns the level over.
LEMMA HalfMoves ==
  ASSUME tag \in Tags, Signal, LevelRight,
         NEW next, next = (signal.half + 1) % (2 * ImageLength)
  PROVE  /\ Forced(next) = ~Forced(signal.half)
         /\ Forced(next) => Level(next, signal.level) # signal.level
<1>1. /\ ImageLength \in Nat /\ ImageLength > 0
      /\ signal.half \in 0..(2 * ImageLength - 1) /\ signal.level \in Bit
      /\ tag.modulation \in {"Manchester", "Biphase"}
  BY TagType DEF Signal, Modulations
<1>2. next \in 0..(2 * ImageLength - 1)
  BY <1>1
<1>3. (signal.half + 1 < 2 * ImageLength /\ next = signal.half + 1)
      \/ (signal.half + 1 = 2 * ImageLength /\ next = 0)
  BY <1>1
<1>4. /\ next % 2 = 1 => signal.half % 2 = 0 /\ next \div 2 = signal.half \div 2
      /\ next % 2 = 0 => signal.half % 2 = 1
      /\ next % 2 \in {0, 1}
  BY <1>1, <1>3
<1>5. ImageBit(signal.half) \in Bit
  BY <1>1, TagType
<1>6. CASE tag.modulation = "Manchester"
  <2>1. Forced(next) = ~Forced(signal.half)
    <3>1. 0 # 1
      OBVIOUS
    <3>2. Forced(next) <=> next % 2 = 1
      BY <1>6, Zenon DEF Forced
    <3>3. Forced(signal.half) <=> signal.half % 2 = 1
      BY <1>6, Zenon DEF Forced
    <3>4. next % 2 = 1 <=> ~(signal.half % 2 = 1)
      BY <1>4, <3>1, Zenon
    <3> QED
      BY <3>2, <3>3, <3>4, Zenon DEF Forced
  <2>2. ASSUME Forced(next) PROVE Level(next, signal.level) # signal.level
    <3>1. next % 2 = 1 /\ signal.half % 2 = 0 /\ next \div 2 = signal.half \div 2
      BY <1>4, <1>6, <2>2, Zenon DEF Forced
    <3>2. ~(next % 2 = 0)
      BY <3>1
    <3>3. ImageBit(next) = ImageBit(signal.half)
      BY <3>1, Zenon DEF ImageBit
    <3>4. Level(next, signal.level) = ImageBit(signal.half)
      BY <1>6, <3>2, <3>3, Zenon DEF Level
    <3>5. signal.level = 1 - ImageBit(signal.half)
      BY <1>6, <3>1, Zenon DEF Level, LevelRight
    <3> QED
      BY <1>5, <3>4, <3>5 DEF Bit
  <2> QED
    BY <2>1, <2>2
<1>7. CASE tag.modulation = "Biphase"
  <2>1. tag.modulation # "Manchester"
    BY <1>7
  <2>2. Forced(next) = ~Forced(signal.half)
    <3>1. ~(next % 2 = 0 /\ next % 2 = 1) /\ (signal.half % 2 = 0 => signal.half % 2 # 1)
      OBVIOUS
    <3> QED
      BY <1>4, <2>1, <3>1, Zenon DEF Forced
  <2>3. ASSUME Forced(next) PROVE Level(next, signal.level) # signal.level
    <3>1. next % 2 = 0
      BY <2>1, <2>3, Zenon DEF Forced
    <3>2. Level(next, signal.level) = 1 - signal.level
      BY <1>7, <2>1, <3>1, Zenon DEF Level
    <3> QED
      BY <1>1, <3>2 DEF Bit
  <2> QED
    BY <2>2, <2>3
<1> QED
  BY <1>1, <1>6, <1>7

\* A sample further: in the same half bit, or at the start of the next.
LEMMA SignalMoves ==
  ASSUME tag \in Tags, Signal, LevelRight, Advance, tag' = tag
  PROVE  /\ LevelRight'
         /\ SamplesPerHalf' = SamplesPerHalf
         /\ \/ /\ signal.sub + 1 < SamplesPerHalf /\ signal'.sub = signal.sub + 1
               /\ AtForced' = AtForced /\ signal'.level = signal.level
            \/ /\ signal.sub + 1 = SamplesPerHalf /\ signal'.sub = 0
               /\ AtForced' = ~AtForced /\ (AtForced' => signal'.level # signal.level)
<1>1. SamplesPerHalf' = SamplesPerHalf
  BY DEF SamplesPerHalf
<1>2. SamplesPerHalf \in Nat /\ signal.sub \in 0..(SamplesPerHalf - 1)
  BY TagType DEF Signal
<1>3. ASSUME NEW half, NEW before PROVE Level(half, before)' = Level(half', before')
  BY Zenon DEF Level, ImageBit
<1>4. AtForced' = Forced(signal'.half)
  BY Zenon DEF AtForced, Forced
<1>5. CASE signal.sub + 1 < SamplesPerHalf
  <2>1. /\ signal'.half = signal.half /\ signal'.sub = signal.sub + 1
        /\ signal'.level = signal.level
    BY <1>5, AdvanceEffect
  <2>2. AtForced' = AtForced
    BY <1>4, <2>1, Zenon DEF AtForced
  <2>3. LevelRight'
    BY <2>1, Zenon DEF LevelRight, Level, ImageBit
  <2> QED
    BY <1>1, <1>5, <2>1, <2>2, <2>3
<1>6. CASE ~(signal.sub + 1 < SamplesPerHalf)
  <2> DEFINE next == (signal.half + 1) % (2 * ImageLength)
  <2>1. /\ signal'.half = next /\ signal'.sub = 0
        /\ signal'.level = Level(next, signal.level)
    BY <1>6, AdvanceEffect
  <2> HIDE DEF next
  <2>2. Forced(next) = ~Forced(signal.half) /\ (Forced(next) => Level(next, signal.level) # signal.level)
    BY HalfMoves DEF next
  <2>3. AtForced' = ~AtForced /\ (AtForced' => signal'.level # signal.level)
    BY <1>4, <2>1, <2>2, Zenon DEF AtForced
  <2>4. LevelRight'
    BY <2>1, Zenon DEF LevelRight, Level, ImageBit
  <2>5. signal.sub + 1 = SamplesPerHalf
    BY <1>2, <1>6
  <2> QED
    BY <1>1, <2>1, <2>3, <2>4, <2>5
<1> QED
  BY <1>5, <1>6
\* A run that ends adds one to the doubt at most, and nothing if it is regular.
LEMMA CollectMoves ==
  ASSUME Typed, NEW bit \in Bit, Collect(bit), tag' = tag
  PROVE  /\ run'.state = bit
         /\ Doubt(carrier) \in Nat /\ Doubt(carrier)' \in Nat
         /\ \/ /\ run.state = NoState /\ Doubt(carrier)' = Doubt(carrier)
            \/ /\ run.state = bit /\ run'.length = run.length + 1
               /\ Doubt(carrier)' = Doubt(carrier)
            \/ /\ run.state \in Bit \ {bit} /\ run'.length = 1
               /\ Doubt(carrier)' <= Doubt(carrier) + 1
               /\ run.length \in {SamplesPerHalf, 2 * SamplesPerHalf}
                    => Doubt(carrier)' <= Doubt(carrier)
<1>1. /\ tag \in Tags /\ SoundCarrier(carrier)
      /\ run \in [state : 0..2, length : 0..Samples]
  BY DEF Typed, Runs
<1>2. run.state \in Bit \/ run.state = NoState
  BY <1>1 DEF Bit, NoState
<1>3. bit # NoState
  BY DEF Bit, NoState
<1>4. Doubt(carrier)' = Doubt(carrier')
  BY Zenon DEF Doubt
<1>5. CASE bit # run.state /\ run.state # NoState
  <2> DEFINE us == run.length * SampleUs
  <2>1. Pulse(us, run.state = 0) /\ run' = [state |-> bit, length |-> 1]
    BY <1>5, Zenon DEF Collect
  <2>2. carrier' = CheckPulse(carrier, us)
    BY <2>1, Zenon DEF Pulse
  <2>3. run.length \in {SamplesPerHalf, 2 * SamplesPerHalf} => us \in RunUs
    BY Zenon DEF RunUs
  <2>4. run'.state = bit /\ run'.length = 1
    BY <2>1
  <2> HIDE DEF us
  <2>5. /\ Doubt(carrier) \in Nat /\ Doubt(carrier') \in Nat
        /\ Doubt(carrier') <= Doubt(carrier) + 1
        /\ us \in RunUs => Doubt(carrier') <= Doubt(carrier)
    BY <1>1, <2>2, CheckPulseDoubt, Zenon
  <2> QED
    BY <1>2, <1>4, <1>5, <2>3, <2>4, <2>5, Zenon
<1>6. CASE ~(bit # run.state /\ run.state # NoState)
  <2>1. /\ run' = [state |-> bit, length |-> IF run.state = NoState THEN run.length ELSE run.length + 1]
        /\ carrier' = carrier
    BY <1>6, Zenon DEF Collect
  <2>2. run'.state = bit /\ (run.state # NoState => run'.length = run.length + 1)
    BY <2>1
  <2>3. Doubt(carrier) \in Nat
    BY <1>1, CheckPulseDoubt
  <2> QED
    BY <1>4, <1>6, <2>1, <2>2, <2>3, Zenon
<1> QED
  BY <1>5, <1>6

LEMMA RhythmInit == Init => LevelRight /\ Rhythm
<1> SUFFICES ASSUME Init PROVE LevelRight /\ Rhythm
  OBVIOUS
<1>1. LevelRight
  <2>1. PICK half \in tag.phases, before \in Bit :
          signal.half = half /\ signal.level = Level(half, before)
    BY Zenon DEF Init, FirstSample
  <2>2. tag.modulation = "Manchester" => Level(half, signal.level) = Level(half, before)
    BY Zenon DEF Level
  <2> QED
    BY <2>1, <2>2 DEF LevelRight
<1>2. run.state = NoState /\ flips = 0
  BY DEF Init
<1>3. Doubt(carrier) = 0
  BY DEF Init, ResetCarrier, Doubt
<1> QED
  BY <1>1, <1>2, <1>3 DEF Rhythm

\* After a sample that is not corrupted a run is where the level changes.
LEMMA SampleAligns ==
  ASSUME Typed, LevelRight, Advance, tag' = tag, run'.state = signal.level
  PROVE  Aligned' /\ run'.state \in Bit
<1>1. Signal
  BY DEF Typed
<1>2. SamplesPerHalf \in Nat /\ signal.sub \in Nat /\ signal.level \in Bit
  BY <1>1, TagType DEF Typed, Signal
<1>3. \/ /\ signal'.sub = signal.sub + 1 /\ AtForced' = AtForced /\ signal'.level = signal.level
      \/ /\ signal'.sub = 0 /\ AtForced' = ~AtForced /\ (AtForced' => signal'.level # signal.level)
  BY <1>1, SignalMoves DEF Typed
<1>4. CASE signal'.sub = signal.sub + 1 /\ signal'.level = signal.level
  <2>1. signal'.sub # 0
    BY <1>2, <1>4
  <2> QED
    BY <1>2, <1>4, <2>1, Zenon DEF Aligned
<1>5. CASE signal'.sub = 0 /\ (AtForced' => signal'.level # signal.level)
  <2>1. ~(signal'.sub > 0)
    BY <1>5
  <2> QED
    BY <1>2, <1>5, <2>1, Zenon DEF Aligned
<1> QED
  BY <1>3, <1>4, <1>5

\* A regular run goes on, or ends and another begins.
LEMMA RegularStays ==
  ASSUME Typed, LevelRight, Advance, tag' = tag, Aligned,
         \/ run.state = signal.level /\ Regular /\ run'.length = run.length + 1
         \/ run.state # signal.level /\ run'.length = 1
  PROVE  Regular'
<1>1. Signal
  BY DEF Typed
<1> DEFINE H == SamplesPerHalf  sub == signal.sub
<1>2. H \in Nat /\ H > 0 /\ sub \in Nat /\ run.length \in Nat
  BY <1>1, TagType, ChainAssumption DEF Typed, Runs, Signal
<1>3. H' = H
  BY <1>1, SignalMoves DEF Typed
<1>4. CASE sub + 1 < H /\ sub' = sub + 1 /\ AtForced' = AtForced
  <2>1. CASE run.state = signal.level /\ Regular /\ run'.length = run.length + 1
    <3>1. sub = 0 => ~AtForced
      BY <2>1 DEF Aligned
    <3> QED
      BY <1>2, <1>3, <1>4, <2>1, <3>1 DEF Regular
  <2>2. CASE run.state # signal.level /\ run'.length = 1
    <3>1. sub = 0
      BY <1>2, <2>2 DEF Aligned
    <3> QED
      BY <1>2, <1>3, <1>4, <2>2, <3>1 DEF Regular
  <2> QED
    BY <2>1, <2>2
<1>5. CASE sub + 1 = H /\ sub' = 0 /\ AtForced' = ~AtForced
  <2>1. CASE run.state = signal.level /\ Regular /\ run'.length = run.length + 1
    <3>1. sub = 0 => ~AtForced
      BY <2>1 DEF Aligned
    <3>2. run'.length = H \/ (~AtForced /\ run'.length = 2 * H)
      BY <1>2, <1>5, <2>1, <3>1 DEF Regular
    <3> QED
      BY <1>3, <1>5, <3>2, Zenon DEF Regular
  <2>2. CASE run.state # signal.level /\ run'.length = 1
    <3>1. sub = 0
      BY <1>2, <2>2 DEF Aligned
    <3> QED
      BY <1>2, <1>3, <1>5, <2>2, <3>1 DEF Regular
  <2> QED
    BY <2>1, <2>2
<1> QED
  BY <1>1, <1>4, <1>5, SignalMoves DEF Typed

\* The length of a regular run that ends
LEMMA RegularEnds ==
  ASSUME Typed, Aligned, Regular, run.state # signal.level
  PROVE  run.length \in {SamplesPerHalf, 2 * SamplesPerHalf}
<1>1. signal.sub \in Nat
  BY TagType DEF Typed, Signal
<1>2. ~(signal.sub > 0)
  BY DEF Aligned
<1> QED
  BY <1>1, <1>2 DEF Regular

LEMMA SampleRhythm ==
  ASSUME Typed, LevelRight, Rhythm, TakeSample
  PROVE  Rhythm'
<1>1. Collect(signal.level) /\ Advance /\ tag' = tag /\ flips' = flips
  BY DEF TakeSample, Take
<1>2. signal.level \in Bit /\ flips \in Nat
  BY TagType DEF Typed, Signal
<1> DEFINE d == Doubt(carrier)  e == Doubt(carrier)'
<1>3. /\ run'.state = signal.level /\ d \in Nat /\ e \in Nat
      /\ \/ run.state = NoState /\ e = d
         \/ run.state = signal.level /\ run'.length = run.length + 1 /\ e = d
         \/ /\ run.state \in Bit \ {signal.level} /\ run'.length = 1 /\ e <= d + 1
            /\ run.length \in {SamplesPerHalf, 2 * SamplesPerHalf} => e <= d
  BY <1>1, <1>2, CollectMoves
<1>4. Aligned' /\ (run.state \in Bit)'
  BY <1>1, <1>3, SampleAligns
<1>5. ASSUME e <= 3 * flips PROVE Rhythm'
  BY <1>1, <1>4, <1>5 DEF Rhythm
<1>6. ASSUME e <= 3 * flips + 1, Regular' PROVE Rhythm'
  BY <1>1, <1>4, <1>6 DEF Rhythm
<1>7. NoState \notin Bit
  BY DEF NoState, Bit
<1> HIDE DEF d, e
<1>8. CASE Aligned /\ run.state \in Bit /\ Regular /\ d <= 3 * flips + 1
  <2>1. CASE run.state = signal.level
    <3>1. e = d /\ run'.length = run.length + 1
      BY <1>3, <1>7, <1>8, <2>1, Zenon
    <3>2. Regular'
      BY <1>1, <1>8, <2>1, <3>1, RegularStays
    <3> QED
      BY <1>6, <1>8, <3>1, <3>2
  <2>2. CASE run.state # signal.level
    <3>1. run.length \in {SamplesPerHalf, 2 * SamplesPerHalf}
      BY <1>8, <2>2, RegularEnds
    <3>2. e <= d /\ run'.length = 1
      BY <1>3, <1>7, <1>8, <2>2, <3>1, Zenon
    <3>3. Regular'
      BY <1>1, <1>8, <2>2, <3>2, RegularStays
    <3>4. e <= 3 * flips + 1
      BY <1>2, <1>3, <1>8, <3>2
    <3> QED
      BY <1>6, <3>3, <3>4
  <2> QED
    BY <2>1, <2>2
<1>9. CASE ((Aligned /\ run.state \in Bit) \/ run.state = NoState) /\ d <= 3 * flips
  <2>1. CASE run.state = NoState \/ run.state = signal.level
    <3>1. e = d
      BY <1>2, <1>3, <1>7, <2>1, Zenon
    <3> QED
      BY <1>5, <1>9, <3>1
  <2>2. CASE run.state # NoState /\ run.state # signal.level
    <3>1. e <= d + 1 /\ run'.length = 1
      BY <1>3, <2>2, Zenon
    <3>2. Regular'
      BY <1>1, <1>9, <2>2, <3>1, RegularStays
    <3>3. e <= 3 * flips + 1
      BY <1>2, <1>3, <1>9, <3>1
    <3> QED
      BY <1>6, <3>2, <3>3
  <2> QED
    BY <2>1, <2>2
<1>10. CASE run.state \in Bit /\ d <= 3 * flips - 1
  <2>1. e <= d + 1
    BY <1>3
  <2>2. e <= 3 * flips
    BY <1>2, <1>3, <1>10, <2>1
  <2> QED
    BY <1>5, <2>2
<1> QED
  BY <1>8, <1>9, <1>10 DEF Rhythm, d
LEMMA CorruptedRhythm ==
  ASSUME Typed, LevelRight, Rhythm, TakeCorrupted
  PROVE  Rhythm'
<1>1. Collect(1 - signal.level) /\ tag' = tag /\ flips' = flips + 1
  BY DEF TakeCorrupted, Take
<1>2. 1 - signal.level \in Bit /\ flips \in Nat
  BY TagType DEF Typed, Signal, Bit
<1> DEFINE d == Doubt(carrier)  e == Doubt(carrier)'
<1>3. run'.state \in Bit /\ d \in Nat /\ e \in Nat /\ e <= d + 1
  BY <1>1, <1>2, CollectMoves
<1>4. d <= 3 * flips + 1
  <2>1. d \in Nat
    BY <1>3
  <2> QED
    BY <1>2, <2>1 DEF Rhythm
<1> HIDE DEF d, e
<1>5. e <= 3 * flips' - 1
  BY <1>1, <1>2, <1>3, <1>4
<1> QED
  BY <1>3, <1>5 DEF Rhythm, e

\* The inductive invariant: a corrupted sample spoils three runs and no more, because
\* the next uncorrupted edge puts the runs back in step with the signal.
Tracked == Typed /\ LevelRight /\ Rhythm

LEMMA TrackedStep == Tracked /\ [Next]_vars => Tracked'
<1> SUFFICES ASSUME Tracked, [Next]_vars PROVE Tracked'
  OBVIOUS
<1>1. Typed /\ LevelRight /\ Rhythm
  BY DEF Tracked
<1>2. Typed'
  BY <1>1, TypedStep
<1>3. CASE Next
  <2>1. Advance /\ tag' = tag
    BY <1>3 DEF Next, TakeSample, TakeCorrupted, Take
  <2>2. LevelRight'
    BY <1>1, <2>1, SignalMoves DEF Typed
  <2>3. Rhythm'
    BY <1>1, <1>3, SampleRhythm, CorruptedRhythm DEF Next
  <2> QED
    BY <1>2, <2>2, <2>3 DEF Tracked
<1>4. CASE UNCHANGED vars
  <2>1. /\ tag' = tag /\ signal' = signal /\ run' = run /\ carrier' = carrier /\ flips' = flips
    BY <1>4 DEF vars
  <2>2. LevelRight'
    BY <1>1, <2>1, Zenon DEF LevelRight, Level, ImageBit
  <2>3. Rhythm'
    BY <1>1, <2>1, Zenon DEF Rhythm, Aligned, Regular, AtForced, Forced, SamplesPerHalf, Doubt
  <2> QED
    BY <1>2, <2>2, <2>3 DEF Tracked
<1> QED
  BY <1>3, <1>4

LEMMA TrackedInit == Init => Tracked
BY TypedInit, RhythmInit DEF Tracked

LEMMA DoubtBound ==
  ASSUME Tracked
  PROVE  Doubt(carrier) \in Nat /\ flips \in 0..tag.noise /\ Doubt(carrier) <= 3 * flips + 1
<1>1. /\ tag \in Tags /\ SoundCarrier(carrier) /\ flips \in 0..tag.noise /\ Rhythm
  BY DEF Tracked, Typed
<1>2. Doubt(carrier) \in Nat /\ tag.noise \in Nat
  BY <1>1, CheckPulseDoubt, TagType
<1>3. Doubt(carrier) <= 3 * flips + 1
  BY <1>1, <1>2 DEF Rhythm
<1> QED
  BY <1>1, <1>2, <1>3

\* Four runs are not the evidence that five must give.
LEMMA DividerFound ==
  ASSUME Tracked, flips <= 1, carrier.hasSync
  PROVE  carrier.carrierDivider = tag.divider
<1>1. /\ flips \in Nat /\ Doubt(carrier) \in Nat /\ Doubt(carrier) <= 3 * flips + 1
  BY DoubtBound, TagType DEF Tracked, Typed
<1>2. Doubt(carrier) <= 4
  BY <1>1
<1>3. /\ carrier.loCount > 4 /\ carrier.hiCount > 4
      /\ carrier.loCount \in Nat /\ carrier.hiCount \in Nat
      /\ carrier.carrierDivider \in Dividers /\ tag.divider \in Dividers
  BY TagType DEF Tracked, Typed, SoundCarrier, Carrier
<1> QED
  BY <1>1, <1>2, <1>3 DEF Doubt, Dividers

\* While one sample at most is corrupted, and for any tag and carrier frequency, the
\* decoder synchronises on no divider but the tag's: its runs are short of no smaller
\* divider and long of no greater, and the corrupted sample makes four such at most
\* where five are asked for (CarrierDecoder.cpp:127).
THEOREM LocksRight == Spec => [](flips <= 1 => LocksOnTheDivider)
<1>1. Tracked => (flips <= 1 => LocksOnTheDivider)
  BY DividerFound DEF LocksOnTheDivider
<1> QED
  BY <1>1, TrackedInit, TrackedStep, PTL DEF Spec

\* The tags of a reception good enough: the misfits of the corrupted samples stay below
\* ERROR_TRESHOLD, and a second one comes at the divider that is tried first.
GoodReception ==
  \A t \in Tags : 3 * t.noise + 1 < ErrorTreshold /\ (t.noise <= 1 \/ t.divider = 16)

\* Then the divider of the tag is never given up.
LEMMA OwnDividerKept ==
  ASSUME GoodReception, Tracked, [Next]_vars, carrier.carrierDivider = tag.divider
  PROVE  /\ carrier'.carrierDivider = tag'.divider
         /\ carrier.hasSync => carrier'.hasSync
<1>1. SoundCarrier(carrier) /\ tag \in Tags
  BY DEF Tracked, Typed
<1>2. Doubt(carrier) \in Nat /\ flips \in Nat /\ flips <= tag.noise /\ Doubt(carrier) <= 3 * flips + 1
  BY <1>1, DoubtBound, TagType
<1>3. 3 * tag.noise + 1 < ErrorTreshold /\ tag.noise \in Nat
  BY <1>1, TagType DEF GoodReception
<1>4. Doubt(carrier) < ErrorTreshold
  BY <1>2, <1>3, CarrierAssumption
<1>5. ~Exhausted(carrier)
  <2>1. carrier.carrierDivider \in Int /\ carrier.errorCount \in Nat
    BY <1>1 DEF SoundCarrier, Carrier, Dividers
  <2>2. Doubt(carrier) = carrier.errorCount
    BY <2>1 DEF Doubt
  <2> QED
    BY <1>4, <2>1, <2>2, CarrierAssumption DEF Exhausted
<1> DEFINE us == run.length * SampleUs
<1>6. tag' = tag /\ (carrier' = carrier \/ carrier' = CheckPulse(carrier, us))
  BY Zenon DEF Next, vars, TakeSample, TakeCorrupted, Take, Collect, Pulse
<1> HIDE DEF us
<1>7. CASE carrier' = carrier
  BY <1>6, <1>7
<1>8. CASE carrier' = CheckPulse(carrier, us)
  <2>1. Tallies(carrier, us, carrier') /\ (carrier.hasSync => carrier'.hasSync)
    BY <1>1, <1>5, <1>8, CheckPulseTallies
  <2> QED
    BY <1>6, <2>1 DEF Tallies
<1> QED
  BY <1>6, <1>7, <1>8

\* At the divider tried first two corrupted samples do not matter, for no other is tried.
Tuned == Tracked /\ (tag.divider = 16 => carrier.carrierDivider = 16)

LEMMA TunedInit == Init => Tuned
BY TrackedInit DEF Tuned, Init, ResetCarrier

LEMMA TunedStep ==
  ASSUME GoodReception
  PROVE  Tuned /\ [Next]_vars => Tuned'
<1> SUFFICES ASSUME Tuned, [Next]_vars PROVE Tuned'
  OBVIOUS
<1>1. Tracked /\ Tracked' /\ (tag.divider = 16 => carrier.carrierDivider = 16)
  BY TrackedStep DEF Tuned
<1>2. tag' = tag
  BY DEF Next, vars, TakeSample, TakeCorrupted, Take
<1>3. CASE tag.divider = 16
  <2>1. carrier'.carrierDivider = tag'.divider
    BY <1>1, <1>3, OwnDividerKept
  <2> QED
    BY <1>1, <1>2, <1>3, <2>1, Zenon DEF Tuned
<1>4. CASE tag.divider # 16
  BY <1>1, <1>2, <1>4, Zenon DEF Tuned
<1> QED
  BY <1>3, <1>4

LEMMA TunedLocks ==
  ASSUME GoodReception, Tuned
  PROVE  LocksOnTheDivider
<1> SUFFICES ASSUME carrier.hasSync PROVE carrier.carrierDivider = tag.divider
  BY DEF LocksOnTheDivider
<1>1. tag \in Tags /\ flips \in 0..tag.noise /\ tag.noise \in Nat
  BY TagType DEF Tuned, Tracked, Typed
<1>2. CASE tag.divider = 16
  BY <1>2 DEF Tuned
<1>3. CASE tag.divider # 16
  <2>1. flips <= 1
    BY <1>1, <1>3 DEF GoodReception
  <2> QED
    BY <2>1, DividerFound DEF Tuned
<1> QED
  BY <1>2, <1>3

\* In a good reception the decoder locks on the divider of the tag or on none
\* (CarrierDecoder.cpp:127).
THEOREM LocksAlways ==
  ASSUME GoodReception
  PROVE  Spec => []LocksOnTheDivider
BY TunedInit, TunedStep, TunedLocks, PTL DEF Spec

\* In a good reception synchronisation, once found, is kept: the misfits of the corrupted
\* samples never add up to ERROR_TRESHOLD (CarrierDecoder.cpp:73-84).
THEOREM SyncStays ==
  ASSUME GoodReception
  PROVE  Spec => SyncKept
<1>1. ASSUME Tuned, [Next]_vars PROVE [carrier.hasSync => carrier'.hasSync]_vars
  <2>1. carrier.hasSync => carrier.carrierDivider = tag.divider
    BY <1>1, TunedLocks DEF LocksOnTheDivider
  <2> QED
    BY <1>1, <2>1, OwnDividerKept DEF Tuned
<1> QED
  BY <1>1, TunedInit, TunedStep, PTL DEF Spec, SyncKept

-----------------------------------------------------------------------------
(* A capture without corrupted samples                                     *)

Halves == 0..(2 * ImageLength - 1)
After(half) == (half + 1) % (2 * ImageLength)

\* The bit of the image a half bit belongs to, and the token of the image
Place(half) == half \div 2
TheToken == Tokens[tag.token]

\* The level changes at the end of a half bit.
EdgeAfter(half) ==
  IF tag.modulation = "Manchester" THEN half % 2 = 0 \/ ImageBit(After(half)) = ImageBit(half)
  ELSE half % 2 = 1 \/ ImageBit(After(half)) = 0

\* Even half bits begin a bit, odd ones end it.
LEMMA HalfFacts ==
  ASSUME tag \in Tags, NEW half \in Halves
  PROVE  /\ After(half) \in Halves /\ Place(half) \in 0..(ImageLength - 1)
         /\ half % 2 = 0 => After(half) % 2 = 1 /\ Place(After(half)) = Place(half)
         /\ half % 2 = 1 => After(half) % 2 = 0 /\ Place(After(half)) = Following(Place(half))
         /\ half % 2 = 0 \/ half % 2 = 1
         /\ ~(half % 2 = 0 /\ half % 2 = 1)
         /\ TheToken \in Token /\ ImageBit(half) = Bits(TheToken, Place(half))
         /\ ImageBit(half) \in Bit
<1>1. ImageLength \in Nat /\ ImageLength > 0 /\ tag.token \in 1..Len(Tokens)
  BY TagType DEF Tag
<1> DEFINE L == ImageLength  a == After(half)
<1>2. half \in Nat /\ half < 2 * L /\ half \in 0..(2 * L - 1)
  BY <1>1 DEF Halves
<1>3. (half + 1 < 2 * L /\ a = half + 1) \/ (half + 1 = 2 * L /\ a = 0)
  BY <1>1, <1>2 DEF After
<1>4. half \div 2 \in 0..(L - 1)
  BY <1>1, <1>2
<1>5. /\ half % 2 = 0 => a % 2 = 1 /\ a \div 2 = half \div 2
      /\ half % 2 = 1 => a % 2 = 0
      /\ half % 2 = 0 \/ half % 2 = 1
      /\ ~(half % 2 = 0 /\ half % 2 = 1)
  BY <1>1, <1>2, <1>3
<1>6. half % 2 = 1 => a \div 2 = Following(half \div 2)
  <2>1. CASE half + 1 < 2 * L
    BY <1>1, <1>2, <1>3, <2>1 DEF Following
  <2>2. CASE half + 1 = 2 * L
    BY <1>1, <1>2, <1>3, <2>2 DEF Following
  <2> QED
    BY <1>3, <2>1, <2>2
<1>7. TheToken \in Token
  BY <1>1, ChainAssumption, ElementOfSeq DEF TheToken
<1>8. ImageBit(half) = Bits(TheToken, half \div 2)
  <2>1. Image[tag.token] = Generate(TheToken)
    BY <1>1 DEF Image, TheToken
  <2>2. half \div 2 < ImageLength
    BY <1>1, <1>4
  <2> QED
    BY <2>1, <2>2, Zenon DEF ImageBit, Bits
<1>9. a \in Halves
  BY <1>1, <1>2, <1>3 DEF Halves
<1>10. ImageBit(half) \in Bit
  BY <1>2, TagType
<1> QED
  BY <1>4, <1>5, <1>6, <1>7, <1>8, <1>9, <1>10, Zenon DEF Place

\* The level at the end of a half bit, and the first half of a bit is forced to end
\* in an edge, or the second is.
LEMMA LevelEdge ==
  ASSUME tag \in Tags, Signal, LevelRight
  PROVE  /\ Level(After(signal.half), signal.level) # signal.level <=> EdgeAfter(signal.half)
         /\ \A half \in Halves : EdgeAfter(half) \/ EdgeAfter(After(half))
<1> DEFINE h == signal.half  a == After(h)
<1>1. h \in Halves /\ signal.level \in Bit /\ tag.modulation \in {"Manchester", "Biphase"}
      /\ 0 # 1
  BY TagType DEF Signal, Halves, Modulations
<1>2. /\ a \in Halves
      /\ h % 2 = 0 => a % 2 = 1 /\ Place(a) = Place(h)
      /\ h % 2 = 1 => a % 2 = 0
      /\ h % 2 = 0 \/ h % 2 = 1
  BY <1>1, HalfFacts
<1>3. ImageBit(h) \in Bit /\ ImageBit(a) \in Bit
  BY <1>1, <1>2, HalfFacts
<1>4. \A half \in Halves : EdgeAfter(half) \/ EdgeAfter(After(half))
  <2> SUFFICES ASSUME NEW half \in Halves PROVE EdgeAfter(half) \/ EdgeAfter(After(half))
    OBVIOUS
  <2>1. /\ half % 2 = 0 => After(half) % 2 = 1
        /\ half % 2 = 1 => After(half) % 2 = 0
        /\ half % 2 = 0 \/ half % 2 = 1
    BY HalfFacts
  <2> QED
    BY <2>1, Zenon DEF EdgeAfter
<1> HIDE DEF h, a
<1>5. CASE tag.modulation = "Manchester"
  <2>1. CASE h % 2 = 0
    <3>1. ~(a % 2 = 0) /\ ImageBit(a) = ImageBit(h)
      BY <1>2, <2>1 DEF ImageBit, Place
    <3>2. Level(a, signal.level) = ImageBit(h)
      BY <1>5, <3>1, Zenon DEF Level
    <3>3. signal.level = 1 - ImageBit(h)
      BY <1>5, <2>1, Zenon DEF LevelRight, Level, h
    <3>4. EdgeAfter(h)
      BY <1>5, <2>1, Zenon DEF EdgeAfter
    <3> QED
      BY <1>3, <1>4, <3>2, <3>3, <3>4 DEF Bit, h, a
  <2>2. CASE h % 2 = 1
    <3>1. ~(h % 2 = 0) /\ a % 2 = 0
      BY <1>2, <2>2
    <3>2. Level(a, signal.level) = 1 - ImageBit(a)
      BY <1>5, <3>1, Zenon DEF Level
    <3>3. signal.level = ImageBit(h)
      BY <1>5, <3>1, Zenon DEF LevelRight, Level, h
    <3>4. EdgeAfter(h) <=> ImageBit(a) = ImageBit(h)
      BY <1>5, <3>1, Zenon DEF EdgeAfter, a
    <3>5. 1 - ImageBit(a) # ImageBit(h) <=> ImageBit(a) = ImageBit(h)
      BY <1>3 DEF Bit
    <3> QED
      BY <1>4, <3>2, <3>3, <3>4, <3>5, Zenon DEF h, a
  <2> QED
    BY <1>2, <2>1, <2>2
<1>6. CASE tag.modulation = "Biphase"
  <2>1. tag.modulation # "Manchester"
    BY <1>6
  <2>2. 1 - signal.level # signal.level
    BY <1>1 DEF Bit
  <2>3. Level(a, signal.level) = IF a % 2 = 0 \/ ImageBit(a) = 0 THEN 1 - signal.level ELSE signal.level
    BY <1>6, <2>1, Zenon DEF Level
  <2>4. EdgeAfter(h) <=> h % 2 = 1 \/ ImageBit(a) = 0
    BY <2>1, Zenon DEF EdgeAfter, a
  <2>5. a % 2 = 0 <=> h % 2 = 1
    BY <1>1, <1>2, HalfFacts DEF h, a
  <2> QED
    BY <1>4, <2>2, <2>3, <2>4, <2>5, Zenon DEF h, a
<1> QED
  BY <1>1, <1>5, <1>6

\* The run began with the half bit `start', and covers it and perhaps the next.
RunFrom(start) ==
  /\ \/ /\ signal.half = start /\ signal.sub > 0
        /\ run.length = signal.sub /\ run.state = signal.level
     \/ /\ signal.half = After(start) /\ signal.sub > 0 /\ ~EdgeAfter(start)
        /\ run.length = SamplesPerHalf + signal.sub /\ run.state = signal.level
     \/ /\ signal.half = After(start) /\ signal.sub = 0
        /\ run.length = SamplesPerHalf /\ (run.state # signal.level <=> EdgeAfter(start))
     \/ /\ signal.half = After(After(start)) /\ signal.sub = 0 /\ ~EdgeAfter(start)
        /\ run.length = 2 * SamplesPerHalf /\ run.state # signal.level
  /\ tag.modulation = "Manchester" => run.state = Level(start, 0)
  /\ tag.modulation = "Biphase" /\ start % 2 = 1 => ImageBit(start) = 0

\* Also the first run of a capture ends where the level changes.
InStep ==
  /\ signal.sub > 0 => run.state = signal.level
  /\ signal.sub = 0 /\ run.state # signal.level /\ tag.modulation = "Biphase"
       => signal.half % 2 = 0 \/ ImageBit(signal.half) = 0

\* A sample further, with the half bits by their names
LEMMA SampleMoves ==
  ASSUME Typed, LevelRight, Advance, tag' = tag
  PROVE  \/ /\ signal.sub + 1 < SamplesPerHalf /\ signal'.sub = signal.sub + 1
            /\ signal'.half = signal.half /\ signal'.level = signal.level
         \/ /\ signal.sub + 1 = SamplesPerHalf /\ signal'.sub = 0
            /\ signal'.half = After(signal.half)
            /\ signal'.level # signal.level <=> EdgeAfter(signal.half)
            /\ signal'.level = Level(signal'.half, signal.level)
<1>1. Signal /\ tag \in Tags
  BY DEF Typed
<1>2. SamplesPerHalf \in Nat /\ signal.sub \in 0..(SamplesPerHalf - 1)
  BY <1>1, TagType DEF Signal
<1>3. CASE signal.sub + 1 < SamplesPerHalf
  BY <1>1, <1>3, AdvanceEffect
<1>4. CASE ~(signal.sub + 1 < SamplesPerHalf)
  <2>1. /\ signal'.half = After(signal.half) /\ signal'.sub = 0
        /\ signal'.level = Level(signal'.half, signal.level)
    BY <1>1, <1>4, AdvanceEffect DEF After
  <2>2. Level(After(signal.half), signal.level) # signal.level <=> EdgeAfter(signal.half)
    BY <1>1, LevelEdge
  <2>3. signal.sub + 1 = SamplesPerHalf
    BY <1>2, <1>4
  <2> QED
    BY <2>1, <2>2, <2>3, Zenon
<1> QED
  BY <1>3, <1>4

\* Nothing of the image changes.
LEMMA ImageStays ==
  ASSUME tag' = tag
  PROVE  /\ SamplesPerHalf' = SamplesPerHalf /\ TheToken' = TheToken
         /\ \A half : ImageBit(half)' = ImageBit(half)
         /\ \A half : EdgeAfter(half)' <=> EdgeAfter(half)
         /\ \A half, before : Level(half, before)' = Level(half, before)
BY Zenon DEF SamplesPerHalf, TheToken, ImageBit, EdgeAfter, Level

LEMMA RunGoesOn ==
  ASSUME Typed, LevelRight, Advance, tag' = tag, NEW start \in Halves, RunFrom(start),
         run.state = signal.level, run'.state = run.state, run'.length = run.length + 1
  PROVE  RunFrom(start)'
<1> DEFINE H == SamplesPerHalf  sub == signal.sub
<1>1. /\ tag \in Tags /\ Signal /\ H \in Nat /\ H > 0 /\ sub \in Nat /\ run.length \in Nat
      /\ H' = H
  BY TagType, ChainAssumption, ImageStays DEF Typed, Runs, Signal
<1>2. (EdgeAfter(start)' <=> EdgeAfter(start)) /\ After(start)' = After(start)
      /\ (EdgeAfter(start) \/ EdgeAfter(After(start)))
  BY <1>1, ImageStays, LevelEdge DEF After
<1>3. /\ tag'.modulation = "Manchester" => run'.state = Level(start, 0)'
      /\ tag'.modulation = "Biphase" /\ start % 2 = 1 => ImageBit(start)' = 0
  BY ImageStays, Zenon DEF RunFrom
<1>4. CASE /\ sub + 1 < H /\ sub' = sub + 1
           /\ signal'.half = signal.half /\ signal'.level = signal.level
  <2>1. sub' > 0 /\ (sub = 0 => sub' = 1)
    BY <1>1, <1>4
  <2>2. CASE signal.half = start /\ sub > 0 /\ run.length = sub
    BY <1>2, <1>3, <1>4, <2>1, <2>2, Zenon DEF RunFrom
  <2>3. CASE /\ signal.half = After(start) /\ ~EdgeAfter(start)
             /\ run.length = H + sub
    <3>1. run'.length = H' + sub'
      BY <1>1, <1>4, <2>3
    <3>2. signal'.half = After(start)' /\ ~EdgeAfter(start)'
      BY <1>2, <1>4, <2>3
    <3>3. signal'.sub > 0 /\ run'.length = (SamplesPerHalf + signal.sub)'
      BY <2>1, <3>1
    <3>4. run'.state = signal'.level
      BY <1>4
    <3> QED
      BY <1>3, <3>2, <3>3, <3>4, Zenon DEF RunFrom
  <2>4. CASE signal.half = After(start) /\ sub = 0 /\ run.length = H /\ ~EdgeAfter(start)
    <3>1. run.length = H + sub
      BY <1>1, <2>4
    <3> QED
      BY <2>3, <2>4, <3>1
  <2> QED
    BY <2>2, <2>3, <2>4, Zenon DEF RunFrom
<1>5. CASE /\ sub + 1 = H /\ sub' = 0 /\ signal'.half = After(signal.half)
           /\ signal'.level # signal.level <=> EdgeAfter(signal.half)
  <2>1. CASE signal.half = start /\ sub > 0 /\ run.length = sub
    <3>1. run'.length = H'
      BY <1>1, <1>5, <2>1
    <3>2. run'.state # signal'.level <=> EdgeAfter(start)
      BY <1>5, <2>1, Zenon
    <3> QED
      BY <1>1, <1>2, <1>3, <1>5, <2>1, <3>1, <3>2, Zenon DEF RunFrom
  <2>2. CASE signal.half = After(start) /\ ~EdgeAfter(start) /\ run.length = H + sub
    <3>1. run'.length = 2 * H'
      BY <1>1, <1>5, <2>2
    <3>2. signal'.half = After(After(start)) /\ After(After(start))' = After(After(start))
      BY <1>5, <2>2, Zenon DEF After
    <3>3. run'.state # signal'.level
      BY <1>2, <1>5, <2>2, Zenon
    <3> QED
      BY <1>1, <1>2, <1>3, <1>5, <2>2, <3>1, <3>2, <3>3, Zenon DEF RunFrom
  <2>3. CASE signal.half = After(start) /\ sub = 0 /\ run.length = H /\ ~EdgeAfter(start)
    <3>1. run.length = H + sub
      BY <1>1, <2>3
    <3> QED
      BY <2>2, <2>3, <3>1
  <2> QED
    BY <2>1, <2>2, <2>3, Zenon DEF RunFrom
<1> QED
  BY <1>4, <1>5, SampleMoves

\* A run that ends is one half bit long, or two without an edge between.
LEMMA RunEnds ==
  ASSUME Typed, NEW start \in Halves, RunFrom(start), run.state # signal.level
  PROVE  /\ signal.sub = 0
         /\ \/ /\ EdgeAfter(start) /\ signal.half = After(start) /\ run.length = SamplesPerHalf
            \/ /\ ~EdgeAfter(start) /\ signal.half = After(After(start))
               /\ run.length = 2 * SamplesPerHalf
BY Zenon DEF RunFrom

\* The next begins with the half bit at whose start it ended.
LEMMA RunBegins ==
  ASSUME Typed, LevelRight, Advance, tag' = tag, InStep, run.state # signal.level,
         run'.state = signal.level, run'.length = 1,
         NEW start, start = signal.half
  PROVE  start \in Halves /\ RunFrom(start)'
<1> DEFINE H == SamplesPerHalf  sub == signal.sub
<1>1. /\ tag \in Tags /\ Signal /\ H \in Nat /\ H > 0 /\ sub \in Nat /\ H' = H
      /\ start \in Halves
  BY TagType, ImageStays DEF Typed, Signal, Halves
<1>2. sub = 0
  BY <1>1 DEF InStep
<1>3. (EdgeAfter(start)' <=> EdgeAfter(start)) /\ After(start)' = After(start)
  BY ImageStays DEF After
<1>4. tag'.modulation = "Manchester" => run'.state = Level(start, 0)'
  <2>1. tag.modulation = "Manchester" => signal.level = Level(start, signal.level)
    BY DEF LevelRight
  <2>2. tag.modulation = "Manchester" => Level(start, signal.level) = Level(start, 0)
    BY Zenon DEF Level
  <2> QED
    BY <2>1, <2>2, ImageStays, Zenon
<1>5. tag'.modulation = "Biphase" /\ start % 2 = 1 => ImageBit(start)' = 0
  <2>1. ~(start % 2 = 0 /\ start % 2 = 1)
    BY <1>1, HalfFacts
  <2> QED
    BY <1>2, <2>1, ImageStays, Zenon DEF InStep
<1>6. CASE sub + 1 < H /\ sub' = sub + 1 /\ signal'.half = signal.half /\ signal'.level = signal.level
  <2>1. sub' > 0 /\ run'.length = sub'
    BY <1>2, <1>6
  <2> QED
    BY <1>1, <1>4, <1>5, <1>6, <2>1, Zenon DEF RunFrom
<1>7. CASE /\ sub + 1 = H /\ sub' = 0 /\ signal'.half = After(signal.half)
           /\ signal'.level # signal.level <=> EdgeAfter(signal.half)
  <2>1. run'.length = H
    BY <1>2, <1>7
  <2> QED
    BY <1>1, <1>3, <1>4, <1>5, <1>7, <2>1, Zenon DEF RunFrom
<1> QED
  BY <1>6, <1>7, SampleMoves, <1>1

\* After a sample that is not corrupted a run is where the level changes.
LEMMA StaysInStep ==
  ASSUME Typed, LevelRight, Advance, tag' = tag, run'.state = signal.level
  PROVE  InStep'
<1>1. /\ tag \in Tags /\ Signal /\ signal.sub \in Nat
  BY TagType DEF Typed, Signal
<1>2. CASE signal'.sub = signal.sub + 1 /\ signal'.level = signal.level
  <2>1. signal'.sub # 0
    BY <1>1, <1>2
  <2> QED
    BY <1>2, <2>1, Zenon DEF InStep
<1>3. CASE signal'.sub = 0 /\ signal'.level = Level(signal'.half, signal.level)
  <2>1. ~(signal'.sub > 0)
    BY <1>3
  <2>2. tag.modulation = "Biphase" /\ signal'.level # signal.level
          => signal'.half % 2 = 0 \/ ImageBit(signal'.half) = 0
    <3>1. "Biphase" # "Manchester"
      OBVIOUS
    <3> QED
      BY <1>3, <3>1, Zenon DEF Level
  <2>3. ImageBit(signal.half)' = ImageBit(signal'.half)
    BY Zenon DEF ImageBit
  <2> QED
    BY <1>3, <2>1, <2>2, <2>3, Zenon DEF InStep
<1> QED
  BY <1>2, <1>3, SampleMoves

\* The decoder of the tag's own coding has been fed with the image up to a place, or has
\* counted nothing yet.
Fed(p) == Follows(em4100[tag.modulation], TheToken, p)
Idle   == em4100[tag.modulation] = ResetDecoder

\* A bit of the image, a zero that is none, or no bit goes to that decoder.
LEMMA OwnBits ==
  ASSUME Typed, OwnDecoderRight, tag' = tag, carrier.carrierDivider = tag.divider,
         NEW bits, DecodeBits(bits), NEW p \in 0..(ImageLength - 1), LongPreamble
  PROVE  /\ bits[tag.modulation] = {} => em4100'[tag.modulation] = em4100[tag.modulation] /\ OwnDecoderRight'
         /\ bits[tag.modulation] = {Bits(TheToken, p)} /\ Fed(p) => Fed(Following(p))' /\ OwnDecoderRight'
         /\ bits[tag.modulation] = {0} /\ Idle => Idle' /\ OwnDecoderRight'
<1> DEFINE M == tag.modulation  d == em4100[M]
<1>1. tag \in Tags /\ M \in Modulations /\ TheToken \in Token /\ TheToken' = TheToken
  <2>1. tag \in Tags
    BY DEF Typed
  <2>2. 0 \in Halves
    BY <2>1, TagType DEF Halves
  <2> QED
    BY <2>1, <2>2, HalfFacts, TagType, ImageStays
<1>2. ASSUME NEW b, bits[M] = {b}
      PROVE  em4100'[M] = DecodeBit(d, b) /\ TokensOf(M, bits[M]) = NewTokens(d, b)
  <2>1. (CHOOSE c \in bits[M] : TRUE) = b /\ bits[M] # {}
    BY <1>2
  <2>2. em4100'[M] = DecodeBit(d, b)
    BY <1>1, <2>1, Zenon DEF DecodeBits
  <2>3. TokensOf(M, bits[M]) = NewTokens(d, b)
    BY <1>2 DEF TokensOf
  <2> QED
    BY <2>2, <2>3
<1>3. ASSUME bits[M] = {}
      PROVE  em4100'[M] = d /\ TokensOf(M, bits[M]) = {}
  BY <1>1, <1>3 DEF DecodeBits, TokensOf
<1>4. ASSUME TokensOf(M, bits[M]) \subseteq {TheToken} PROVE OwnDecoderRight'
  <2> SUFFICES ASSUME NEW r \in reports', r.modulation = M PROVE r = TheReport
    BY DEF OwnDecoderRight, TheReport
  <2>1. CASE r \in reports
    BY <2>1 DEF OwnDecoderRight
  <2>2. CASE r \notin reports
    <3>1. PICK m \in Modulations :
            r \in [modulation : {m}, divider : {carrier.carrierDivider}, token : TokensOf(m, bits[m])]
      BY <2>2, Zenon DEF DecodeBits
    <3>2. r.modulation = m /\ r.divider = tag.divider /\ r.token \in TokensOf(m, bits[m])
          /\ r = [modulation |-> r.modulation, divider |-> r.divider, token |-> r.token]
      BY <3>1
    <3>3. m = M /\ r.token = TheToken
      BY <1>4, <3>2
    <3> QED
      BY <3>2, <3>3 DEF TheReport, TheToken
  <2> QED
    BY <2>1, <2>2
<1> HIDE DEF d
<1>5. ASSUME bits[M] = {} PROVE em4100'[M] = em4100[M] /\ OwnDecoderRight'
  BY <1>3, <1>4, <1>5 DEF d
<1>6. ASSUME bits[M] = {Bits(TheToken, p)}, Fed(p) PROVE Fed(Following(p))' /\ OwnDecoderRight'
  <2>1. Follows(d, TheToken, p)
    BY <1>6 DEF Fed, d
  <2>2. /\ Follows(DecodeBit(d, Bits(TheToken, p)), TheToken, Following(p))
        /\ NewTokens(d, Bits(TheToken, p)) \subseteq {TheToken}
    BY <1>1, <2>1, FollowsStep, FollowsReports
  <2>3. em4100'[M] = DecodeBit(d, Bits(TheToken, p)) /\ TokensOf(M, bits[M]) \subseteq {TheToken}
    BY <1>2, <1>6, <2>2
  <2>4. Follows(em4100'[M], TheToken, Following(p))
    BY <2>2, <2>3
  <2>5. Fed(Following(p))'
    BY <1>1, <2>4, Zenon DEF Fed
  <2> QED
    BY <1>4, <2>3, <2>5
<1>7. ASSUME bits[M] = {0}, Idle PROVE Idle' /\ OwnDecoderRight'
  <2>1. em4100'[M] = ResetDecoder /\ TokensOf(M, bits[M]) = {}
    BY <1>2, <1>7, ResetOnZero DEF Idle, d
  <2>2. Idle'
    BY <2>1 DEF Idle
  <2> QED
    BY <1>4, <2>1, <2>2
<1> QED
  BY <1>5, <1>6, <1>7

\* Between two runs the decoder of the tag's coding is in phase with the bits, and the
\* EM4100 decoder has been fed with all of them.
InPhase(start) ==
  IF tag.modulation = "Manchester"
  THEN /\ coding.Manchester.ffOut <=> ImageBit(start) = 1
       /\ coding.Manchester.timerRunning <=> start % 2 = 0
       /\ Fed(IF start % 2 = 0 THEN Place(start) ELSE Following(Place(start)))
  ELSE /\ coding.Biphase.lastShort <=> start % 2 = 1
       /\ Fed(Place(start))

\* Or it takes the halves of two bits for one.  It does so among equal bits only, makes
\* zeros of them, and the next edge between two bits that differ, or the next long run,
\* puts it right.
OutOfPhase(start) ==
  /\ Idle
  /\ IF tag.modulation = "Manchester"
     THEN /\ ~coding.Manchester.ffOut
          /\ start % 2 = 1 => ImageBit(start) = 1
          /\ start % 2 = 0 => ~coding.Manchester.timerRunning
     ELSE coding.Biphase.lastShort <=> start % 2 = 0

Ready(start) == InPhase(start) \/ OutOfPhase(start)

\* The half bit at which a run that began at `start' ends
RunEnd(start) == IF EdgeAfter(start) THEN After(start) ELSE After(After(start))

\* A decoder that has just been reset is ready for any run.
LEMMA ResetReady ==
  ASSUME Typed, NEW start \in Halves, Idle, coding = ResetCoding
  PROVE  Ready(start)
<1>1. tag \in Tags /\ tag.modulation \in {"Manchester", "Biphase"}
  BY TagType DEF Typed, Modulations
<1>2. /\ coding.Manchester.ffOut = FALSE /\ coding.Manchester.timerRunning = FALSE
      /\ coding.Biphase.lastShort = FALSE
  BY DEF ResetCoding, ResetManchester, ResetBiphase
<1>3. \A p : Fed(p)
  BY ResetFollows, Zenon DEF Fed, Idle
<1>4. start % 2 = 0 \/ start % 2 = 1
  BY <1>1, HalfFacts
<1>5. ~(start % 2 = 0 /\ start % 2 = 1) /\ ImageBit(start) \in Bit
  BY <1>1, HalfFacts
<1>6. CASE tag.modulation = "Manchester"
  <2>1. CASE start % 2 = 1 /\ ImageBit(start) # 1
    BY <1>2, <1>3, <1>5, <1>6, <2>1, Zenon DEF Ready, InPhase
  <2>2. CASE start % 2 = 1 /\ ImageBit(start) = 1
    BY <1>2, <1>5, <1>6, <2>2, Zenon DEF Ready, OutOfPhase
  <2>3. CASE start % 2 = 0
    BY <1>2, <1>5, <1>6, <2>3, Zenon DEF Ready, OutOfPhase
  <2> QED
    BY <1>4, <2>1, <2>2, <2>3
<1>7. CASE tag.modulation = "Biphase"
  <2>1. tag.modulation # "Manchester"
    BY <1>7
  <2>2. CASE start % 2 = 0
    BY <1>2, <1>3, <1>5, <2>1, <2>2, Zenon DEF Ready, InPhase
  <2>3. CASE start % 2 = 1
    BY <1>2, <1>5, <2>1, <2>3, Zenon DEF Ready, OutOfPhase
  <2> QED
    BY <1>4, <2>2, <2>3
<1> QED
  BY <1>1, <1>6, <1>7

\* What a pulse does to the Manchester decoder
LEMMA ManchesterEffect ==
  ASSUME NEW m \in Manchester, NEW isHigh \in BOOLEAN, NEW isLong \in BOOLEAN,
         NEW n, n = ManchesterPulse(m, isHigh, isLong),
         NEW bits, bits = ManchesterBits(m, isHigh, isLong)
  PROVE  /\ m.timerRunning =>
              (n.ffOut <=> isHigh) /\ ~n.timerRunning /\ bits = {IF isHigh THEN 1 ELSE 0}
         /\ ~m.timerRunning /\ ~(isHigh <=> m.ffOut) /\ isLong =>
              (n.ffOut <=> isHigh) /\ ~n.timerRunning /\ bits = {IF isHigh THEN 1 ELSE 0}
         /\ ~m.timerRunning /\ ~(isHigh <=> m.ffOut) /\ ~isLong =>
              (n.ffOut <=> m.ffOut) /\ n.timerRunning /\ bits = {}
         /\ ~m.timerRunning /\ (isHigh <=> m.ffOut) =>
              (n.ffOut <=> m.ffOut) /\ ~n.timerRunning /\ bits = {}
<1>1. /\ m.ffOut \in BOOLEAN /\ m.timerRunning \in BOOLEAN
      /\ m \in [ffOut : BOOLEAN, timerRunning : BOOLEAN]
  BY DEF Manchester
<1>2. isHigh # m.ffOut <=> ~(isHigh <=> m.ffOut)
  BY <1>1
<1>3. CASE m.timerRunning \/ (isHigh # m.ffOut /\ isLong)
  <2>1. n = [ffOut |-> isHigh, timerRunning |-> FALSE]
    BY <1>3, Zenon DEF ManchesterPulse
  <2>2. n.ffOut = isHigh /\ n.timerRunning = FALSE
    BY <2>1
  <2>3. bits = {IF isHigh THEN 1 ELSE 0}
    BY <1>3, Zenon DEF ManchesterBits
  <2> QED
    BY <1>2, <1>3, <2>2, <2>3, Zenon
<1>4. CASE ~m.timerRunning /\ isHigh # m.ffOut /\ ~isLong
  <2>1. n = [m EXCEPT !.timerRunning = TRUE]
    BY <1>4, Zenon DEF ManchesterPulse
  <2>2. n.ffOut = m.ffOut /\ n.timerRunning = TRUE
    BY <1>1, <2>1
  <2>3. bits = {}
    BY <1>4, Zenon DEF ManchesterBits
  <2> QED
    BY <1>2, <1>4, <2>2, <2>3, Zenon
<1>5. CASE ~m.timerRunning /\ ~(isHigh # m.ffOut)
  <2>1. n = m
    BY <1>5, Zenon DEF ManchesterPulse
  <2>2. bits = {}
    BY <1>5, Zenon DEF ManchesterBits
  <2> QED
    BY <1>2, <1>5, <2>1, <2>2, Zenon
<1> QED
  BY <1>3, <1>4, <1>5

\* The runs of a Manchester signal: where one ends, and which it is
LEMMA ManchesterRun ==
  ASSUME Typed, tag.modulation = "Manchester", NEW start \in Halves, NEW next,
         next = RunEnd(start), run.state = Level(start, 0)
  PROVE  /\ start % 2 = 0 =>
              /\ EdgeAfter(start) /\ next % 2 = 1 /\ Place(next) = Place(start)
              /\ ImageBit(next) = ImageBit(start) /\ (run.state = 0 <=> ImageBit(start) = 1)
         /\ start % 2 = 1 =>
              /\ Place(next) = Following(Place(start))
              /\ run.state = 0 <=> ImageBit(start) = 0
              /\ EdgeAfter(start) => next % 2 = 0 /\ ImageBit(next) = ImageBit(start)
              /\ ~EdgeAfter(start) => next % 2 = 1 /\ ImageBit(next) # ImageBit(start)
         /\ next \in Halves
<1> DEFINE a == After(start)
<1>1. tag \in Tags
  BY DEF Typed
<1>2. /\ a \in Halves /\ ImageBit(start) \in Bit
      /\ start % 2 = 0 => a % 2 = 1 /\ Place(a) = Place(start)
      /\ start % 2 = 1 => a % 2 = 0 /\ Place(a) = Following(Place(start))
      /\ ~(start % 2 = 0 /\ start % 2 = 1)
  BY <1>1, HalfFacts
<1>3. /\ After(a) \in Halves
      /\ a % 2 = 0 => After(a) % 2 = 1 /\ Place(After(a)) = Place(a)
  BY <1>1, <1>2, HalfFacts
<1>4. \A h, i : Place(h) = Place(i) => ImageBit(h) = ImageBit(i)
  BY Zenon DEF Place, ImageBit
<1>5. next = IF EdgeAfter(start) THEN a ELSE After(a)
  BY Zenon DEF RunEnd
<1>6. EdgeAfter(start) <=> start % 2 = 0 \/ ImageBit(a) = ImageBit(start)
  BY Zenon DEF EdgeAfter
<1>7. run.state = IF start % 2 = 0 THEN 1 - ImageBit(start) ELSE ImageBit(start)
  BY Zenon DEF Level
<1> HIDE DEF a
<1>8. CASE start % 2 = 0
  <2>1. run.state = 0 <=> ImageBit(start) = 1
    BY <1>2, <1>7, <1>8 DEF Bit
  <2> QED
    BY <1>2, <1>4, <1>5, <1>6, <1>8, <2>1, Zenon
<1>9. CASE start % 2 = 1
  <2>1. run.state = 0 <=> ImageBit(start) = 0
    BY <1>2, <1>7, <1>9
  <2>2. CASE EdgeAfter(start)
    BY <1>2, <1>5, <1>6, <1>9, <2>1, <2>2, Zenon
  <2>3. CASE ~EdgeAfter(start)
    BY <1>2, <1>3, <1>4, <1>5, <1>6, <1>9, <2>1, <2>3, Zenon
  <2> QED
    BY <2>2, <2>3
<1>10. start % 2 = 0 \/ start % 2 = 1
  BY <1>1, HalfFacts
<1> QED
  BY <1>8, <1>9, <1>10

\* A run of the signal leaves the Manchester decoder ready for the next
\* (ManchesterDecoder.cpp).
LEMMA ManchesterReady ==
  ASSUME Typed, LongPreamble, OwnDecoderRight, tag' = tag, tag.modulation = "Manchester",
         carrier.carrierDivider = tag.divider, NEW start \in Halves, Ready(start),
         run.state = Level(start, 0), NEW next, next = RunEnd(start),
         NEW isHigh \in BOOLEAN, isHigh <=> run.state = 0,
         NEW isLong \in BOOLEAN, isLong <=> ~EdgeAfter(start),
         coding' = CodingPulse(isHigh, isLong), DecodeBits(CodingBits(isHigh, isLong))
  PROVE  Ready(next)' /\ OwnDecoderRight'
<1> DEFINE m == coding.Manchester
           n == coding'.Manchester
           bits == CodingBits(isHigh, isLong)
           own == bits[tag.modulation]
           b == ImageBit(start)
<1>1. tag \in Tags /\ m \in Manchester
  BY DEF Typed, Coding
<1>2. n = ManchesterPulse(m, isHigh, isLong) /\ own = ManchesterBits(m, isHigh, isLong)
  BY DEF CodingPulse, CodingBits
<1>3. /\ Place(start) \in 0..(ImageLength - 1) /\ Following(Place(start)) \in 0..(ImageLength - 1)
      /\ b = Bits(TheToken, Place(start)) /\ b \in Bit
      /\ start % 2 = 0 \/ start % 2 = 1
      /\ ~(start % 2 = 0 /\ start % 2 = 1)
  <2>1. Place(start) \in 0..(ImageLength - 1) => Following(Place(start)) \in 0..(ImageLength - 1)
    BY Em4100Assumption DEF Following, ImageLength
  <2> QED
    BY <1>1, <2>1, HalfFacts
<1>4. /\ start % 2 = 0 =>
           /\ EdgeAfter(start) /\ next % 2 = 1 /\ Place(next) = Place(start)
           /\ ImageBit(next) = b /\ (run.state = 0 <=> b = 1)
      /\ start % 2 = 1 =>
           /\ Place(next) = Following(Place(start))
           /\ run.state = 0 <=> b = 0
           /\ EdgeAfter(start) => next % 2 = 0 /\ ImageBit(next) = b
           /\ ~EdgeAfter(start) => next % 2 = 1 /\ ImageBit(next) # b
      /\ next \in Halves
  BY ManchesterRun
<1>5. /\ ImageBit(next) = Bits(TheToken, Place(next)) /\ ImageBit(next) \in Bit
      /\ ~(next % 2 = 0 /\ next % 2 = 1)
  BY <1>1, <1>4, HalfFacts
<1>6. ImageBit(next)' = ImageBit(next) /\ tag'.modulation = "Manchester"
  BY ImageStays
\* Each of the two phases after the run
<1>7. ASSUME n.ffOut <=> ImageBit(next) = 1, n.timerRunning <=> next % 2 = 0,
             Fed(IF next % 2 = 0 THEN Place(next) ELSE Following(Place(next)))'
      PROVE  Ready(next)'
  BY <1>6, <1>7, Zenon DEF Ready, InPhase
<1>8. ASSUME Idle', ~n.ffOut, next % 2 = 1 => ImageBit(next) = 1,
             next % 2 = 0 => ~n.timerRunning
      PROVE  Ready(next)'
  BY <1>6, <1>8, Zenon DEF Ready, OutOfPhase
<1>9. ASSUME Idle', NEW p PROVE Fed(p)'
  BY <1>9, ResetFollows, Zenon DEF Fed, Idle
\* What goes to the EM4100 decoder
<1>10. own = {} => em4100'[tag.modulation] = em4100[tag.modulation] /\ OwnDecoderRight'
  BY <1>3, OwnBits
<1>11. ASSUME NEW p \in 0..(ImageLength - 1), own = {Bits(TheToken, p)}, Fed(p)
       PROVE  Fed(Following(p))' /\ OwnDecoderRight'
  BY <1>11, OwnBits
<1>12. own = {0} /\ Idle => Idle' /\ OwnDecoderRight'
  BY <1>3, OwnBits
<1>13. ASSUME own = {}, NEW p, Fed(p) PROVE Fed(p)'
  BY <1>10, <1>13, ImageStays, Zenon DEF Fed
<1>14. own = {} /\ Idle => Idle'
  BY <1>10, Zenon DEF Idle
<1> HIDE DEF m, n, bits, own, b
<1>15. /\ m.timerRunning =>
            (n.ffOut <=> isHigh) /\ ~n.timerRunning /\ own = {IF isHigh THEN 1 ELSE 0}
       /\ ~m.timerRunning /\ ~(isHigh <=> m.ffOut) /\ isLong =>
            (n.ffOut <=> isHigh) /\ ~n.timerRunning /\ own = {IF isHigh THEN 1 ELSE 0}
       /\ ~m.timerRunning /\ ~(isHigh <=> m.ffOut) /\ ~isLong =>
            (n.ffOut <=> m.ffOut) /\ n.timerRunning /\ own = {}
       /\ ~m.timerRunning /\ (isHigh <=> m.ffOut) =>
            (n.ffOut <=> m.ffOut) /\ ~n.timerRunning /\ own = {}
  BY <1>1, <1>2, ManchesterEffect
<1>16. CASE InPhase(start) /\ start % 2 = 0
  <2>1. m.timerRunning /\ Fed(Place(start))
    BY <1>16, Zenon DEF InPhase, m
  <2>2. (IF isHigh THEN 1 ELSE 0) = b
    BY <1>3, <1>4, <1>16 DEF Bit
  <2>3. own = {Bits(TheToken, Place(start))}
    BY <1>3, <1>15, <2>1, <2>2, Zenon
  <2>4. Fed(Following(Place(start)))' /\ OwnDecoderRight'
    BY <1>3, <1>11, <2>1, <2>3
  <2>5. next % 2 = 1 /\ ~(next % 2 = 0) /\ Following(Place(next)) = Following(Place(start))
    BY <1>4, <1>5, <1>16
  <2>6. Fed(IF next % 2 = 0 THEN Place(next) ELSE Following(Place(next)))'
    BY <2>4, <2>5, Zenon
  <2>7. n.ffOut <=> ImageBit(next) = 1
    BY <1>4, <1>15, <1>16, <2>1, Zenon
  <2>8. n.timerRunning <=> next % 2 = 0
    BY <1>15, <2>1, <2>5, Zenon
  <2> QED
    BY <1>7, <2>4, <2>6, <2>7, <2>8
<1>17. CASE InPhase(start) /\ start % 2 = 1 /\ EdgeAfter(start)
  <2>1. ~m.timerRunning /\ (m.ffOut <=> b = 1) /\ Fed(Following(Place(start)))
    BY <1>3, <1>17, Zenon DEF InPhase, m, b
  <2>2. isHigh <=> b = 0
    BY <1>4, <1>17, Zenon
  <2>3. ~(isHigh <=> m.ffOut) /\ ~isLong
    BY <1>3, <1>17, <2>1, <2>2 DEF Bit
  <2>4. (n.ffOut <=> m.ffOut) /\ n.timerRunning /\ own = {}
    BY <1>15, <2>1, <2>3, Zenon
  <2>5. Fed(Following(Place(start)))' /\ OwnDecoderRight'
    BY <1>10, <1>13, <2>1, <2>4
  <2>6. next % 2 = 0 /\ Place(next) = Following(Place(start)) /\ ImageBit(next) = b
    BY <1>4, <1>17
  <2>7. Fed(IF next % 2 = 0 THEN Place(next) ELSE Following(Place(next)))'
    BY <2>5, <2>6, Zenon
  <2>8. (n.ffOut <=> ImageBit(next) = 1) /\ (n.timerRunning <=> next % 2 = 0)
    BY <2>1, <2>4, <2>6, Zenon
  <2> QED
    BY <1>7, <2>5, <2>7, <2>8
<1>18. CASE InPhase(start) /\ start % 2 = 1 /\ ~EdgeAfter(start)
  <2>1. ~m.timerRunning /\ (m.ffOut <=> b = 1) /\ Fed(Following(Place(start)))
    BY <1>3, <1>18, Zenon DEF InPhase, m, b
  <2>2. isHigh <=> b = 0
    BY <1>4, <1>18, Zenon
  <2>3. ~(isHigh <=> m.ffOut) /\ isLong
    BY <1>3, <1>18, <2>1, <2>2 DEF Bit
  <2>4. (n.ffOut <=> isHigh) /\ ~n.timerRunning /\ own = {IF isHigh THEN 1 ELSE 0}
    BY <1>15, <2>1, <2>3, Zenon
  <2>5. next % 2 = 1 /\ ~(next % 2 = 0) /\ Place(next) = Following(Place(start)) /\ ImageBit(next) # b
    BY <1>4, <1>5, <1>18
  <2>6. (IF isHigh THEN 1 ELSE 0) = ImageBit(next) /\ (isHigh <=> ImageBit(next) = 1)
    BY <1>3, <1>5, <2>2, <2>5 DEF Bit
  <2>7. own = {Bits(TheToken, Place(next))} /\ Fed(Place(next)) /\ Place(next) \in 0..(ImageLength - 1)
    BY <1>3, <1>5, <2>1, <2>4, <2>5, <2>6, Zenon
  <2>8. Fed(Following(Place(next)))' /\ OwnDecoderRight'
    BY <1>11, <2>7
  <2>9. Fed(IF next % 2 = 0 THEN Place(next) ELSE Following(Place(next)))'
    BY <2>5, <2>8, Zenon
  <2>10. (n.ffOut <=> ImageBit(next) = 1) /\ (n.timerRunning <=> next % 2 = 0)
    BY <2>4, <2>5, <2>6, Zenon
  <2> QED
    BY <1>7, <2>8, <2>9, <2>10
<1>19. CASE OutOfPhase(start) /\ start % 2 = 0
  <2>1. Idle /\ ~m.ffOut /\ ~m.timerRunning
    BY <1>19, Zenon DEF OutOfPhase, m
  <2>2. ~isLong /\ (isHigh <=> b = 1) /\ next % 2 = 1 /\ ImageBit(next) = b /\ ~(next % 2 = 0)
    BY <1>4, <1>5, <1>19
  <2>3. own = {} /\ ~n.ffOut /\ (n.timerRunning <=> b = 1)
    BY <1>15, <2>1, <2>2, Zenon
  <2>4. Idle' /\ OwnDecoderRight'
    BY <1>10, <1>14, <2>1, <2>3
  <2>5. CASE b = 1
    BY <1>8, <2>2, <2>3, <2>4, <2>5
  <2>6. CASE b # 1
    <3>1. Fed(IF next % 2 = 0 THEN Place(next) ELSE Following(Place(next)))'
      BY <1>9, <2>4
    <3> QED
      BY <1>7, <2>2, <2>3, <2>4, <2>6, <3>1
  <2> QED
    BY <2>5, <2>6
<1>20. CASE OutOfPhase(start) /\ start % 2 = 1
  <2>1. Idle /\ ~m.ffOut /\ b = 1
    BY <1>3, <1>20, Zenon DEF OutOfPhase, m, b
  <2>2. ~isHigh
    BY <1>4, <1>20, <2>1
  <2>3. (own = {} \/ own = {0}) /\ ~n.ffOut /\ ~n.timerRunning
    BY <1>15, <2>1, <2>2, Zenon
  <2>4. Idle' /\ OwnDecoderRight'
    BY <1>10, <1>12, <1>14, <2>1, <2>3
  <2>5. CASE EdgeAfter(start)
    <3>1. next % 2 = 0 /\ ~(next % 2 = 1)
      BY <1>4, <1>5, <1>20, <2>5
    <3> QED
      BY <1>8, <2>3, <2>4, <3>1
  <2>6. CASE ~EdgeAfter(start)
    <3>1. next % 2 = 1 /\ ~(next % 2 = 0) /\ ImageBit(next) # 1
      BY <1>4, <1>5, <1>20, <2>1, <2>6
    <3>2. Fed(IF next % 2 = 0 THEN Place(next) ELSE Following(Place(next)))'
      BY <1>9, <2>4
    <3> QED
      BY <1>7, <2>3, <2>4, <3>1, <3>2
  <2> QED
    BY <2>5, <2>6
<1> QED
  BY <1>3, <1>16, <1>17, <1>18, <1>19, <1>20 DEF Ready

\* What a pulse does to the biphase decoder
LEMMA BiphaseEffect ==
  ASSUME NEW isHigh \in BOOLEAN, NEW isLong \in BOOLEAN, coding' = CodingPulse(isHigh, isLong)
  PROVE  /\ coding'.Biphase.lastShort <=> ~isLong /\ ~coding.Biphase.lastShort
         /\ CodingBits(isHigh, isLong)["Biphase"] =
              IF isLong THEN {1} ELSE IF coding.Biphase.lastShort THEN {0} ELSE {}
<1> DEFINE m == coding.Biphase  k == coding'.Biphase  v == ~isLong /\ ~m.lastShort
<1>1. k = [lastShort |-> v] /\ CodingBits(isHigh, isLong)["Biphase"] = BiphaseBits(m, isHigh, isLong)
  BY DEF CodingPulse, CodingBits, BiphasePulse
<1>2. BiphaseBits(m, isHigh, isLong) = IF isLong THEN {1} ELSE IF m.lastShort THEN {0} ELSE {}
  BY Zenon DEF BiphaseBits
<1> HIDE DEF v, k, m
<1>3. k.lastShort = v
  BY <1>1
<1> QED
  BY <1>1, <1>2, <1>3, Zenon DEF v, k, m

\* The runs of a biphase signal
LEMMA BiphaseRun ==
  ASSUME Typed, tag.modulation = "Biphase", NEW start \in Halves, NEW next,
         next = RunEnd(start), start % 2 = 1 => ImageBit(start) = 0
  PROVE  /\ start % 2 = 0 /\ EdgeAfter(start) =>
              next % 2 = 1 /\ Place(next) = Place(start) /\ ImageBit(start) = 0
         /\ start % 2 = 0 /\ ~EdgeAfter(start) =>
              next % 2 = 0 /\ Place(next) = Following(Place(start)) /\ ImageBit(start) = 1
         /\ start % 2 = 1 =>
              /\ EdgeAfter(start) /\ next % 2 = 0 /\ Place(next) = Following(Place(start))
              /\ ImageBit(start) = 0
         /\ next \in Halves
<1> DEFINE a == After(start)
<1>1. tag \in Tags /\ tag.modulation # "Manchester"
  BY DEF Typed
<1>2. /\ a \in Halves /\ ImageBit(start) \in Bit
      /\ start % 2 = 0 => a % 2 = 1 /\ Place(a) = Place(start)
      /\ start % 2 = 1 => a % 2 = 0 /\ Place(a) = Following(Place(start))
      /\ start % 2 = 0 \/ start % 2 = 1
      /\ ~(start % 2 = 0 /\ start % 2 = 1)
  BY <1>1, HalfFacts
<1>3. /\ After(a) \in Halves
      /\ a % 2 = 1 => After(a) % 2 = 0 /\ Place(After(a)) = Following(Place(a))
  BY <1>1, <1>2, HalfFacts
<1>4. Place(a) = Place(start) => ImageBit(a) = ImageBit(start)
  BY Zenon DEF Place, ImageBit
<1>5. next = IF EdgeAfter(start) THEN a ELSE After(a)
  BY Zenon DEF RunEnd
<1>6. EdgeAfter(start) <=> start % 2 = 1 \/ ImageBit(a) = 0
  BY <1>1, Zenon DEF EdgeAfter
<1> HIDE DEF a
<1>7. ImageBit(start) # 0 => ImageBit(start) = 1
  BY <1>2 DEF Bit
<1>8. CASE start % 2 = 0
  <2>1. CASE EdgeAfter(start)
    BY <1>2, <1>4, <1>5, <1>6, <1>8, <2>1, Zenon
  <2>2. CASE ~EdgeAfter(start)
    BY <1>2, <1>3, <1>4, <1>5, <1>6, <1>7, <1>8, <2>2, Zenon
  <2> QED
    BY <2>1, <2>2
<1>9. CASE start % 2 = 1
  BY <1>2, <1>5, <1>6, <1>9, Zenon
<1> QED
  BY <1>2, <1>8, <1>9

\* A run of the signal leaves the biphase decoder ready for the next (BiphaseDecoder.cpp).
LEMMA BiphaseReady ==
  ASSUME Typed, LongPreamble, OwnDecoderRight, tag' = tag, tag.modulation = "Biphase",
         carrier.carrierDivider = tag.divider, NEW start \in Halves, Ready(start),
         start % 2 = 1 => ImageBit(start) = 0, NEW next, next = RunEnd(start),
         NEW isHigh \in BOOLEAN, NEW isLong \in BOOLEAN, isLong <=> ~EdgeAfter(start),
         coding' = CodingPulse(isHigh, isLong), DecodeBits(CodingBits(isHigh, isLong))
  PROVE  Ready(next)' /\ OwnDecoderRight'
<1> DEFINE m == coding.Biphase
           n == coding'.Biphase
           bits == CodingBits(isHigh, isLong)
           own == bits[tag.modulation]
           b == ImageBit(start)
           p == Place(start)
<1>1. tag \in Tags /\ m.lastShort \in BOOLEAN /\ tag.modulation # "Manchester"
  BY DEF Typed, Coding, Biphase
<1>3. n.lastShort <=> ~isLong /\ ~m.lastShort
  BY BiphaseEffect
<1>4. own = IF isLong THEN {1} ELSE IF m.lastShort THEN {0} ELSE {}
  BY BiphaseEffect
<1>5. /\ p \in 0..(ImageLength - 1) /\ b = Bits(TheToken, p)
      /\ start % 2 = 0 \/ start % 2 = 1
      /\ ~(start % 2 = 0 /\ start % 2 = 1)
  BY <1>1, HalfFacts
<1>6. /\ start % 2 = 0 /\ EdgeAfter(start) => next % 2 = 1 /\ Place(next) = p /\ b = 0
      /\ start % 2 = 0 /\ ~EdgeAfter(start) => next % 2 = 0 /\ Place(next) = Following(p) /\ b = 1
      /\ start % 2 = 1 => EdgeAfter(start) /\ next % 2 = 0 /\ Place(next) = Following(p) /\ b = 0
      /\ next \in Halves
  BY BiphaseRun
<1>7. ~(next % 2 = 0 /\ next % 2 = 1)
  BY <1>1, <1>6, HalfFacts
<1>8. tag'.modulation # "Manchester"
  BY <1>1
\* Each of the two phases after the run
<1>9. ASSUME n.lastShort <=> next % 2 = 1, Fed(Place(next))' PROVE Ready(next)'
  BY <1>8, <1>9, Zenon DEF Ready, InPhase
<1>10. ASSUME n.lastShort <=> next % 2 = 0, Idle' PROVE Ready(next)'
  BY <1>8, <1>10, Zenon DEF Ready, OutOfPhase
\* What goes to the EM4100 decoder
<1>11. own = {} => em4100'[tag.modulation] = em4100[tag.modulation] /\ OwnDecoderRight'
  BY <1>5, OwnBits
<1>12. own = {b} /\ Fed(p) => Fed(Following(p))' /\ OwnDecoderRight'
  BY <1>5, OwnBits
<1>13. own = {0} /\ Idle => Idle' /\ OwnDecoderRight'
  BY <1>5, OwnBits
<1>14. own = {} => (Fed(p) => Fed(p)') /\ (Idle => Idle')
  BY <1>11, ImageStays, Zenon DEF Fed, Idle
<1>15. Idle => Fed(p)
  BY ResetFollows, Zenon DEF Fed, Idle
<1> HIDE DEF m, n, bits, own, b, p
<1>16. CASE InPhase(start) /\ start % 2 = 0
  <2>1. ~m.lastShort /\ Fed(p)
    BY <1>1, <1>5, <1>16, Zenon DEF InPhase, m, p
  <2>2. CASE EdgeAfter(start)
    <3>1. own = {} /\ n.lastShort /\ next % 2 = 1 /\ Place(next) = p
      BY <1>3, <1>4, <1>6, <1>16, <2>1, <2>2, Zenon
    <3> QED
      BY <1>9, <1>11, <1>14, <2>1, <3>1
  <2>3. CASE ~EdgeAfter(start)
    <3>1. own = {b} /\ ~n.lastShort /\ next % 2 = 0 /\ Place(next) = Following(p)
      BY <1>3, <1>4, <1>6, <1>16, <2>1, <2>3, Zenon
    <3>2. ~(next % 2 = 1)
      BY <1>7, <3>1
    <3> QED
      BY <1>9, <1>12, <2>1, <3>1, <3>2
  <2> QED
    BY <2>2, <2>3
<1>17. CASE InPhase(start) /\ start % 2 = 1
  <2>1. m.lastShort /\ Fed(p)
    BY <1>1, <1>5, <1>17, Zenon DEF InPhase, m, p
  <2>2. own = {b} /\ ~n.lastShort /\ next % 2 = 0 /\ Place(next) = Following(p)
    BY <1>3, <1>4, <1>6, <1>17, <2>1, Zenon
  <2>3. ~(next % 2 = 1)
    BY <1>7, <2>2
  <2> QED
    BY <1>9, <1>12, <2>1, <2>2, <2>3
<1>18. CASE OutOfPhase(start) /\ start % 2 = 0
  <2>1. m.lastShort /\ Idle
    BY <1>1, <1>18, Zenon DEF OutOfPhase, m
  <2>2. CASE EdgeAfter(start)
    <3>1. own = {0} /\ ~n.lastShort /\ next % 2 = 1
      BY <1>3, <1>4, <1>6, <1>18, <2>1, <2>2, Zenon
    <3>2. ~(next % 2 = 0)
      BY <1>7, <3>1
    <3> QED
      BY <1>10, <1>13, <2>1, <3>1, <3>2
  <2>3. CASE ~EdgeAfter(start)
    <3>1. own = {b} /\ ~n.lastShort /\ next % 2 = 0 /\ Place(next) = Following(p)
      BY <1>3, <1>4, <1>6, <1>18, <2>1, <2>3, Zenon
    <3>2. ~(next % 2 = 1)
      BY <1>7, <3>1
    <3> QED
      BY <1>9, <1>12, <1>15, <2>1, <3>1, <3>2
  <2> QED
    BY <2>2, <2>3
<1>19. CASE OutOfPhase(start) /\ start % 2 = 1
  <2>1. ~m.lastShort /\ Idle
    BY <1>1, <1>5, <1>19, Zenon DEF OutOfPhase, m
  <2>2. own = {} /\ n.lastShort /\ next % 2 = 0
    BY <1>3, <1>4, <1>6, <1>19, <2>1, Zenon
  <2> QED
    BY <1>10, <1>11, <1>14, <2>1, <2>2
<1> QED
  BY <1>5, <1>16, <1>17, <1>18, <1>19 DEF Ready

-----------------------------------------------------------------------------

\* At the divider of the tag a run of one half bit is short, a run of two is long.
LEMMA OwnRuns ==
  ASSUME tag \in Tags, NEW c, c \in Carrier, c.carrierDivider = tag.divider
  PROVE  /\ PulseShort(c, SamplesPerHalf * SampleUs)
         /\ ~PulseLong(c, SamplesPerHalf * SampleUs)
         /\ PulseLong(c, 2 * SamplesPerHalf * SampleUs)
<1> DEFINE C == CarrierPulseLength
           short == SamplesPerHalf * SampleUs
           long == 2 * SamplesPerHalf * SampleUs
<1>1. C \in Nat /\ C > 0 /\ c.carrierDivider \in Dividers
  BY CarrierAssumption DEF Carrier
<1>2. short = (tag.divider \div 2) * C /\ long = tag.divider * C
  BY RunTimes
<1> HIDE DEF short, long
<1>3. CASE tag.divider = 16
  <2>1. PulseLength(c) = 8 * C /\ PulseLength(c) \div 4 = 2 * C /\ short = 8 * C /\ long = 16 * C
    BY <1>1, <1>2, <1>3 DEF PulseLength
  <2> QED
    BY <1>1, <2>1 DEF PulseShort, PulseLong, Within, short, long
<1>4. CASE tag.divider = 32
  <2>1. PulseLength(c) = 16 * C /\ PulseLength(c) \div 4 = 4 * C /\ short = 16 * C /\ long = 32 * C
    BY <1>1, <1>2, <1>4 DEF PulseLength
  <2> QED
    BY <1>1, <2>1 DEF PulseShort, PulseLong, Within, short, long
<1>5. CASE tag.divider = 64
  <2>1. PulseLength(c) = 32 * C /\ PulseLength(c) \div 4 = 8 * C /\ short = 32 * C /\ long = 64 * C
    BY <1>1, <1>2, <1>5 DEF PulseLength
  <2> QED
    BY <1>1, <2>1 DEF PulseShort, PulseLong, Within, short, long
<1> QED
  BY <1>1, <1>3, <1>4, <1>5 DEF Dividers

\* What the own decoder of a tag has heard of a capture without corrupted samples
Heard ==
  /\ run.state = NoState \/ (run.state \in Bit /\ InStep)
  /\ ~carrier.hasSync => Idle
  /\ carrier.hasSync =>
       run.state \in Bit /\ \E start \in Halves : RunFrom(start) /\ Ready(start)
  /\ OwnDecoderRight

\* The divider of the tag is not given up for the misfit of the first run.
LEMMA CleanSync ==
  ASSUME Tracked, ErrorTreshold > 1, flips = 0, carrier.hasSync
  PROVE  /\ carrier.carrierDivider = tag.divider /\ ~Exhausted(carrier)
         /\ \A us : CheckPulse(carrier, us).hasSync
<1>1. carrier.carrierDivider = tag.divider
  BY DividerFound
<1>2. /\ Doubt(carrier) \in Nat /\ Doubt(carrier) <= 1 /\ SoundCarrier(carrier)
      /\ tag.divider \in Nat /\ carrier.errorCount \in Nat
  BY DoubtBound, TagType DEF Tracked, Typed, SoundCarrier, Carrier, Dividers
<1>3. Doubt(carrier) = carrier.errorCount
  BY <1>1, <1>2 DEF Doubt
<1>4. ~Exhausted(carrier)
  BY <1>2, <1>3, CarrierAssumption DEF Exhausted
<1> QED
  BY <1>1, <1>2, <1>4, CheckPulseTallies

\* A run that ends goes to the decoders as a pulse of its length.
LEMMA RunHeard ==
  ASSUME Tracked, ErrorTreshold > 1, flips = 0, carrier.hasSync,
         NEW start \in Halves, RunFrom(start), run.state # signal.level,
         NEW isHigh, isHigh = (run.state = 0), Pulse(run.length * SampleUs, isHigh),
         NEW next, next = signal.half
  PROVE  /\ carrier'.hasSync /\ next = RunEnd(start) /\ isHigh \in BOOLEAN
         /\ \E isLong \in BOOLEAN :
              /\ isLong <=> ~EdgeAfter(start)
              /\ coding' = CodingPulse(isHigh, isLong) /\ DecodeBits(CodingBits(isHigh, isLong))
<1> DEFINE us == run.length * SampleUs
           isLong == PulseLong(carrier, us)
<1>1. /\ Typed /\ tag \in Tags /\ carrier \in Carrier
      /\ carrier.carrierDivider = tag.divider /\ ~Exhausted(carrier)
      /\ \A u : CheckPulse(carrier, u).hasSync
  BY CleanSync DEF Tracked, Typed, SoundCarrier
<1>2. next = RunEnd(start)
  BY <1>1, RunEnds, Zenon DEF RunEnd
<1>3. /\ EdgeAfter(start) => us = SamplesPerHalf * SampleUs
      /\ ~EdgeAfter(start) => us = 2 * SamplesPerHalf * SampleUs
  BY <1>1, RunEnds, Zenon
<1>4. (isLong <=> ~EdgeAfter(start)) /\ (isLong \/ PulseShort(carrier, us))
  BY <1>1, <1>3, OwnRuns, Zenon
<1>5. isHigh \in BOOLEAN /\ isLong \in BOOLEAN
  BY DEF PulseLong, Within
<1>6. NewPulse(carrier, us)
  BY <1>1, <1>4, Zenon DEF NewPulse
<1>7. /\ carrier' = CheckPulse(carrier, us)
      /\ coding' = CodingPulse(isHigh, isLong) /\ DecodeBits(CodingBits(isHigh, isLong))
  BY <1>6, Zenon DEF Pulse
<1>8. carrier'.hasSync
  BY <1>1, <1>7, Zenon
<1> HIDE DEF isLong
<1> QED
  BY <1>2, <1>4, <1>5, <1>7, <1>8, Zenon

\* Of such a run the decoder of the tag is ready for the next.
LEMMA SyncedRun ==
  ASSUME Tracked, LongPreamble, ErrorTreshold > 1, flips = 0, carrier.hasSync, tag' = tag,
         NEW start \in Halves, RunFrom(start), Ready(start), OwnDecoderRight,
         run.state # signal.level, run.state \in Bit,
         Pulse(run.length * SampleUs, run.state = 0), NEW next, next = signal.half
  PROVE  carrier'.hasSync /\ Ready(next)' /\ OwnDecoderRight'
<1>1. PICK isHigh : isHigh = (run.state = 0)
  OBVIOUS
<1>2. /\ carrier'.hasSync /\ next = RunEnd(start) /\ isHigh \in BOOLEAN
      /\ \E isLong \in BOOLEAN :
           /\ isLong <=> ~EdgeAfter(start)
           /\ coding' = CodingPulse(isHigh, isLong) /\ DecodeBits(CodingBits(isHigh, isLong))
  BY <1>1, RunHeard
<1>3. PICK isLong \in BOOLEAN :
        /\ isLong <=> ~EdgeAfter(start)
        /\ coding' = CodingPulse(isHigh, isLong) /\ DecodeBits(CodingBits(isHigh, isLong))
  BY <1>2, Zenon
<1>4. Typed /\ carrier.carrierDivider = tag.divider /\ (isHigh <=> run.state = 0)
  BY <1>1, CleanSync DEF Tracked
<1>5. CASE tag.modulation = "Manchester"
  <2>1. run.state = Level(start, 0)
    BY <1>5, Zenon DEF RunFrom
  <2> QED
    BY <1>2, <1>3, <1>4, <1>5, <2>1, ManchesterReady
<1>6. CASE tag.modulation = "Biphase"
  <2>1. start % 2 = 1 => ImageBit(start) = 0
    BY <1>6, Zenon DEF RunFrom
  <2> QED
    BY <1>2, <1>3, <1>4, <1>6, <2>1, BiphaseReady
<1> QED
  BY <1>4, <1>5, <1>6, TagType DEF Modulations, Typed

ResetsReady == Typed /\ Idle /\ coding = ResetCoding => \A start \in Halves : Ready(start)

LEMMA ResetsReadyAlways == ResetsReady
BY ResetReady DEF ResetsReady

LEMMA ResetsReadyNext == ResetsReady'
BY ResetsReadyAlways, PTL

\* Until a divider is found, the decoders get nothing; when it is, they are reset.
LEMMA SyncBegins ==
  ASSUME Tracked, flips = 0, ~carrier.hasSync, tag' = tag, Typed', Idle, OwnDecoderRight,
         NEW us, NEW isHigh, Pulse(us, isHigh), NEW next \in Halves
  PROVE  Idle' /\ OwnDecoderRight' /\ (carrier'.hasSync => Ready(next)')
<1>1. ~NewPulse(carrier, us)
  BY DEF NewPulse
<1>2. /\ carrier' = CheckPulse(carrier, us) /\ em4100' = em4100 /\ reports' = reports
      /\ coding' = IF SyncChanged(carrier, us) THEN ResetCoding ELSE coding
  BY <1>1, Zenon DEF Pulse
<1>3. Idle' /\ OwnDecoderRight'
  BY <1>2, Zenon DEF Idle, OwnDecoderRight, TheReport
<1>4. ASSUME carrier'.hasSync PROVE Ready(next)'
  <2>1. coding' = ResetCoding
    BY <1>2, <1>4, Zenon DEF SyncChanged
  <2>2. Halves' = Halves /\ ResetCoding' = ResetCoding
    BY DEF Halves, ResetCoding
  <2> QED
    BY <1>3, <2>1, <2>2, ResetsReadyNext, Zenon DEF ResetsReady
<1> QED
  BY <1>3, <1>4

LEMMA HeardInit == Init => Heard
<1> SUFFICES ASSUME Init PROVE Heard
  OBVIOUS
<1>1. run.state = NoState /\ ~carrier.hasSync /\ reports = {}
  BY DEF Init, ResetCarrier
<1>2. tag.modulation \in Modulations
  BY TagType DEF Init
<1>3. Idle
  BY <1>2 DEF Init, Idle
<1> QED
  BY <1>1, <1>3, Zenon DEF Heard, OwnDecoderRight

LEMMA HeardStays ==
  ASSUME Heard, UNCHANGED <<tag, carrier, coding, em4100, reports>>, run'.state \in Bit, InStep',
         \A start \in Halves : carrier.hasSync /\ RunFrom(start) => RunFrom(start)'
  PROVE  Heard'
<1>1. (Idle => Idle') /\ OwnDecoderRight'
  BY Zenon DEF Heard, Idle, OwnDecoderRight, TheReport
<1>2. \A start : Ready(start) => Ready(start)'
  BY ImageStays, Zenon DEF Ready, InPhase, OutOfPhase, Fed, Idle, Place
<1>3. Halves' = Halves
  BY DEF Halves
<1> QED
  BY <1>1, <1>2, <1>3, Zenon DEF Heard

LEMMA HeardSample ==
  ASSUME Tracked, Tracked', LongPreamble, ErrorTreshold > 1, flips = 0, Heard, TakeSample
  PROVE  Heard'
<1> DEFINE bit == signal.level  us == run.length * SampleUs
<1>1. /\ Typed /\ LevelRight /\ Advance /\ tag' = tag /\ Collect(bit) /\ tag \in Tags
      /\ Typed' /\ OwnDecoderRight
  BY DEF Tracked, Typed, TakeSample, Take, Heard
<1>2. bit \in Bit /\ run.state \in Bit \cup {NoState} /\ NoState \notin Bit
  BY <1>1 DEF Typed, Signal, Heard, Bit, NoState
<1>3. run'.state = bit
  BY <1>1, <1>2, CollectMoves
<1>4. InStep'
  BY <1>1, <1>3, StaysInStep
<1>5. CASE run.state = NoState \/ run.state = bit
  <2>1. UNCHANGED <<tag, carrier, coding, em4100, reports>>
    BY <1>1, <1>5, Zenon DEF Collect
  <2>2. ASSUME NEW start \in Halves, carrier.hasSync, RunFrom(start) PROVE RunFrom(start)'
    <3>1. run.state = bit /\ run'.length = run.length + 1
      BY <1>1, <1>2, <1>5, <2>2, CollectMoves DEF Heard
    <3> QED
      BY <1>1, <1>3, <2>2, <3>1, RunGoesOn
  <2> QED
    BY <1>2, <1>3, <1>4, <2>1, <2>2, HeardStays
<1>6. CASE run.state \in Bit /\ run.state # bit
  <2>1. Pulse(us, run.state = 0) /\ run' = [state |-> bit, length |-> 1]
    BY <1>1, <1>2, <1>6, Zenon DEF Collect
  <2>2. InStep
    BY <1>2, <1>6, Zenon DEF Heard
  <2>3. PICK next : next = signal.half
    OBVIOUS
  <2>4. next \in Halves /\ RunFrom(next)'
    BY <1>1, <1>6, <2>1, <2>2, <2>3, RunBegins
  <2>5. /\ ~carrier'.hasSync => Idle'
        /\ OwnDecoderRight'
        /\ carrier'.hasSync => Ready(next)'
    <3>1. CASE carrier.hasSync
      <4>1. PICK start \in Halves : RunFrom(start) /\ Ready(start)
        BY <3>1 DEF Heard
      <4> QED
        BY <1>1, <1>6, <2>1, <2>3, <3>1, <4>1, SyncedRun
    <3>2. CASE ~carrier.hasSync
      <4>1. Idle
        BY <3>2 DEF Heard
      <4> QED
        BY <1>1, <2>1, <2>4, <3>2, <4>1, SyncBegins
    <3> QED
      BY <3>1, <3>2
  <2>6. Halves' = Halves
    BY DEF Halves
  <2> QED
    BY <1>2, <1>3, <1>4, <2>4, <2>5, <2>6, Zenon DEF Heard
<1> QED
  BY <1>2, <1>5, <1>6

LEMMA HeardStep ==
  ASSUME LongPreamble, ErrorTreshold > 1
  PROVE  Tracked /\ Tracked' /\ (flips = 0 => Heard) /\ [Next]_vars => (flips = 0 => Heard)'
<1> SUFFICES ASSUME Tracked, Tracked', flips = 0 => Heard, [Next]_vars, flips' = 0 PROVE Heard'
  OBVIOUS
<1>1. flips \in Nat
  BY TagType DEF Tracked, Typed
<1>2. CASE TakeSample
  BY <1>2, HeardSample DEF TakeSample
<1>3. CASE TakeCorrupted
  BY <1>1, <1>3 DEF TakeCorrupted
<1>4. CASE UNCHANGED vars
  <2>1. UNCHANGED <<tag, signal, run, carrier, coding, em4100, reports>> /\ Heard
    BY <1>4 DEF vars
  <2>2. CASE run.state = NoState
    <3>1. ~carrier.hasSync
      BY <2>1, <2>2 DEF Heard, Bit, NoState
    <3> QED
      BY <2>1, <2>2, <3>1, Zenon DEF Heard, Idle, OwnDecoderRight, TheReport
  <2>3. CASE run.state \in Bit /\ InStep
    <3>1. run'.state \in Bit /\ InStep'
      BY <2>1, <2>3, ImageStays, Zenon DEF InStep
    <3>2. \A start \in Halves : RunFrom(start) => RunFrom(start)'
      BY <2>1, ImageStays, Zenon DEF RunFrom, After
    <3> QED
      BY <2>1, <3>1, <3>2, HeardStays
  <2> QED
    BY <2>1, <2>2, <2>3 DEF Heard
<1> QED
  BY <1>2, <1>3, <1>4 DEF Next

\* Of a capture without corrupted samples the decoder of the tag's own coding reports the
\* tag's token and no other, for every token, tag, place in the image and phase of the
\* sampler: after the reset by which a divider is taken up it locks onto the bits or sees
\* zeros until it does, and nine ones stand nowhere in the endless image but at its head
\* (Em4100Decoder.cpp:46-144, ManchesterDecoder.cpp:40-85, BiphaseDecoder.cpp:37-72).
THEOREM ReadsRight ==
  ASSUME LongPreamble, ErrorTreshold > 1
  PROVE  Spec => [](flips = 0 => OwnDecoderRight)
<1> DEFINE Hears == flips = 0 => Heard
<1>1. Init => Tracked /\ Hears
  BY TrackedInit, HeardInit
<1>2. Tracked /\ Hears /\ [Next]_vars => Tracked' /\ Hears'
  BY TrackedStep, HeardStep
<1>3. Hears => (flips = 0 => OwnDecoderRight)
  BY DEF Heard
<1> QED
  BY <1>1, <1>2, <1>3, PTL DEF Spec
-----------------------------------------------------------------------------
(***************************************************************************)
(* The decoder of the other coding, which hears the same pulses.  Of a     *)
(* Manchester signal the biphase decoder makes a one wherever a bit        *)
(* differs from the one before; of a biphase signal the Manchester decoder *)
(* repeats its bit at a zero and changes it at a one.  Neither finds a     *)
(* preamble in an image that has nowhere the bits it takes for one.        *)
(***************************************************************************)
Other == IF tag.modulation = "Manchester" THEN "Biphase" ELSE "Manchester"

\* The bit of the endless image j places before p
Earlier(p, j) == Bits(TheToken, p + ImageLength - j)

Alternating(p, n) == \A j \in 1..n : Earlier(p, j) # Earlier(p, j - 1)
Zeros(p, n)       == \A j \in 1..n : Earlier(p, j) = 0

\* Ten bits that alternate, or eight zeros, are nowhere in the image.
Unmistakable ==
  \A p \in 0..(ImageLength - 1) :
    IF tag.modulation = "Manchester" THEN ~Alternating(p, PreambleLength)
    ELSE ~Zeros(p, PreambleLength - 1)

\* The other EM4100 decoder has seen n ones in a row, and no preamble.
HasCounted(n) == em4100[Other].state = "PREAMBLE" /\ em4100[Other].bitCount = n

\* At the start of a run it has counted no more ones than the image has had changes of a
\* bit, or zeros after a one.
Aloof(start) ==
  \E n \in 0..(PreambleLength - 1) :
    /\ HasCounted(n)
    /\ tag.modulation = "Manchester" /\ n > 0 =>
         /\ start % 2 = 1 => ~coding.Biphase.lastShort /\ Alternating(Place(start), n)
         /\ start % 2 = 0 => coding.Biphase.lastShort
    /\ tag.modulation = "Biphase" /\ ~coding.Manchester.ffOut =>
         n = 0 /\ (coding.Manchester.timerRunning => run.state # 0)
    /\ tag.modulation = "Biphase" /\ coding.Manchester.ffOut =>
         /\ n > 0 /\ Zeros(Place(start), n - 1)
         /\ coding.Manchester.timerRunning <=> start % 2 = 1
         /\ run.state = 0 <=> start % 2 = 1

OnlyOwn == \A r \in reports : r.modulation = tag.modulation

\* What the decoders of the other coding have heard of a capture without corrupted samples
Overheard ==
  /\ ~carrier.hasSync => em4100[Other] = ResetDecoder
  /\ carrier.hasSync => \E start \in Halves : RunFrom(start) /\ Aloof(start)
  /\ OnlyOwn

\* Nothing of the image changes.
LEMMA OtherStays ==
  ASSUME tag' = tag
  PROVE  /\ Other' = Other
         /\ \A p, n : Alternating(p, n)' <=> Alternating(p, n)
         /\ \A p, n : Zeros(p, n)' <=> Zeros(p, n)
BY Zenon DEF Other, Alternating, Zeros, Earlier, TheToken

\* One place further the bits before are one place further back.
LEMMA EarlierMoves ==
  ASSUME tag \in Tags, NEW p \in 0..(ImageLength - 1)
  PROVE  /\ Earlier(p, 0) = Bits(TheToken, p)
         /\ \A j \in 0..PreambleLength : Earlier(Following(p), j + 1) = Earlier(p, j)
         /\ Following(p) \in 0..(ImageLength - 1)
<1>1. /\ ImageLength \in Nat /\ PreambleLength \in Nat /\ PreambleLength < ImageLength
      /\ p \in Nat /\ p < ImageLength
  BY Em4100Assumption DEF ImageLength
<1>2. Bits(TheToken, p + ImageLength) = Bits(TheToken, p)
  BY <1>1 DEF Bits
<1>3. Following(p) \in 0..(ImageLength - 1)
  BY <1>1 DEF Following
<1>4. ASSUME NEW j \in 0..PreambleLength
      PROVE  Bits(TheToken, Following(p) + ImageLength - (j + 1)) = Bits(TheToken, p + ImageLength - j)
  <2>1. CASE p + 1 < ImageLength
    <3>1. Following(p) + ImageLength - (j + 1) = p + ImageLength - j
      BY <1>1, <2>1 DEF Following
    <3> QED
      BY <3>1
  <2>2. CASE p + 1 = ImageLength
    <3>1. Following(p) + ImageLength - (j + 1) = p - j /\ p - j \in 0..(ImageLength - 1)
      BY <1>1, <2>2 DEF Following
    <3>2. Bits(TheToken, p + ImageLength - j) = Bits(TheToken, p - j)
      BY <1>1, <3>1 DEF Bits
    <3> QED
      BY <3>1, <3>2
  <2> QED
    BY <1>1, <2>1, <2>2
<1> QED
  BY <1>1, <1>2, <1>3, <1>4 DEF Earlier

LEMMA MoreAlternating ==
  ASSUME tag \in Tags, NEW p \in 0..(ImageLength - 1), NEW n \in 0..PreambleLength,
         Alternating(p, n), Bits(TheToken, Following(p)) # Bits(TheToken, p)
  PROVE  Alternating(Following(p), n + 1)
<1> DEFINE f == Following(p)
<1>1. PreambleLength \in Nat /\ f \in 0..(ImageLength - 1)
  BY Em4100Assumption, EarlierMoves
<1>2. Earlier(f, 0) = Bits(TheToken, f) /\ Earlier(f, 1) = Bits(TheToken, p)
  <2>1. Earlier(f, 0) = Bits(TheToken, f)
    BY <1>1, EarlierMoves
  <2>2. 0 \in 0..PreambleLength
    BY <1>1
  <2>3. Earlier(f, 0 + 1) = Earlier(p, 0) /\ Earlier(p, 0) = Bits(TheToken, p)
    BY <2>2, EarlierMoves, Zenon
  <2>4. 0 + 1 = 1
    OBVIOUS
  <2> QED
    BY <2>1, <2>3, <2>4
<1> SUFFICES ASSUME NEW j \in 1..(n + 1) PROVE Earlier(f, j) # Earlier(f, j - 1)
  BY DEF Alternating
<1>3. CASE j = 1
  <2>1. j - 1 = 0
    BY <1>3
  <2> QED
    BY <1>2, <1>3, <2>1
<1>4. CASE j # 1
  <2> DEFINE i == j - 1
  <2>1. i \in 1..n /\ i \in 0..PreambleLength /\ i - 1 \in 0..PreambleLength
        /\ i + 1 = j /\ (i - 1) + 1 = i
    BY <1>1, <1>4
  <2> HIDE DEF i
  <2>2. Earlier(p, i) # Earlier(p, i - 1)
    BY <2>1 DEF Alternating
  <2>3. Earlier(f, i + 1) = Earlier(p, i) /\ Earlier(f, (i - 1) + 1) = Earlier(p, i - 1)
    BY <2>1, EarlierMoves, Zenon
  <2>4. Earlier(f, j) # Earlier(f, i)
    BY <2>1, <2>2, <2>3
  <2> QED
    BY <2>4 DEF i
<1> QED
  BY <1>3, <1>4

LEMMA MoreZeros ==
  ASSUME tag \in Tags, NEW p \in 0..(ImageLength - 1), NEW n \in 0..PreambleLength,
         Zeros(p, n), Bits(TheToken, p) = 0
  PROVE  Zeros(Following(p), n + 1)
<1> DEFINE f == Following(p)
<1>1. PreambleLength \in Nat
  BY Em4100Assumption
<1> SUFFICES ASSUME NEW j \in 1..(n + 1) PROVE Earlier(f, j) = 0
  BY DEF Zeros
<1> DEFINE i == j - 1
<1>2. i \in 0..PreambleLength /\ i + 1 = j /\ (i = 0 \/ i \in 1..n)
  BY <1>1
<1> HIDE DEF i
<1>3. Earlier(f, i + 1) = Earlier(p, i)
  BY <1>2, EarlierMoves, Zenon
<1>4. Earlier(p, i) = 0
  BY <1>2, EarlierMoves DEF Zeros
<1> QED
  BY <1>2, <1>3, <1>4

\* Until it has counted a preamble it reports nothing.
LEMMA OtherBits ==
  ASSUME Typed, tag' = tag, OnlyOwn, NEW bits, DecodeBits(bits),
         NEW n \in 0..(PreambleLength - 1), HasCounted(n)
  PROVE  /\ bits[Other] = {} => HasCounted(n)'
         /\ bits[Other] = {0} => HasCounted(0)'
         /\ bits[Other] = {1} /\ n + 1 # PreambleLength => HasCounted(n + 1)'
         /\ OnlyOwn'
<1> DEFINE d == em4100[Other]
<1>1. /\ tag.modulation \in {"Manchester", "Biphase"} /\ Other \in Modulations
      /\ \A m \in Modulations : m = Other \/ m = tag.modulation
      /\ Other' = Other
  BY TagType, OtherStays DEF Typed, Other, Modulations
<1>2. d.state = "PREAMBLE" /\ d.bitCount = n /\ d \in DecoderState
  BY <1>1, Zenon DEF HasCounted, Typed, Decoders, SoundDecoder
<1>3. \A b : NewTokens(d, b) = {}
  BY <1>2 DEF NewTokens
<1>4. OnlyOwn'
  <2> SUFFICES ASSUME NEW r \in reports' PROVE r.modulation = tag.modulation
    BY DEF OnlyOwn
  <2>1. CASE r \in reports
    BY <2>1 DEF OnlyOwn
  <2>2. CASE r \notin reports
    <3>1. PICK m \in Modulations :
            r \in [modulation : {m}, divider : {carrier.carrierDivider}, token : TokensOf(m, bits[m])]
      BY <2>2, Zenon DEF DecodeBits
    <3>2. r.modulation = m /\ TokensOf(m, bits[m]) # {}
      BY <3>1
    <3>3. TokensOf(Other, bits[Other]) = {}
      BY <1>3 DEF TokensOf
    <3> QED
      BY <1>1, <3>2, <3>3
  <2> QED
    BY <2>1, <2>2
<1>5. ASSUME bits[Other] = {} PROVE HasCounted(n)'
  <2>1. em4100'[Other] = d
    BY <1>1, <1>5, Zenon DEF DecodeBits
  <2> QED
    BY <1>1, <1>2, <2>1, Zenon DEF HasCounted
<1>6. ASSUME NEW b, bits[Other] = {b} PROVE em4100'[Other] = Preamble(d, b)
  <2>1. (CHOOSE c \in bits[Other] : TRUE) = b /\ bits[Other] # {}
    BY <1>6
  <2>2. em4100'[Other] = DecodeBit(d, b)
    BY <1>1, <2>1, Zenon DEF DecodeBits
  <2> QED
    BY <1>2, <2>2, Zenon DEF DecodeBit
<1> HIDE DEF d
<1>7. ASSUME bits[Other] = {0} PROVE HasCounted(0)'
  <2>1. em4100'[Other] = [d EXCEPT !.bitCount = 0]
    BY <1>6, <1>7 DEF Preamble
  <2>2. em4100'[Other].state = "PREAMBLE" /\ em4100'[Other].bitCount = 0
    BY <1>2, <2>1 DEF DecoderState
  <2> QED
    BY <1>1, <2>2, Zenon DEF HasCounted
<1>8. ASSUME bits[Other] = {1}, n + 1 # PreambleLength PROVE HasCounted(n + 1)'
  <2>1. em4100'[Other] = [d EXCEPT !.bitCount = @ + 1]
    <3>1. 1 # 0 /\ d.bitCount + 1 # PreambleLength
      BY <1>2, <1>8
    <3> QED
      BY <1>6, <1>8, <3>1, Zenon DEF Preamble
  <2>2. em4100'[Other].state = "PREAMBLE" /\ em4100'[Other].bitCount = n + 1
    BY <1>2, <2>1 DEF DecoderState
  <2> QED
    BY <1>1, <2>2, Zenon DEF HasCounted
<1> QED
  BY <1>4, <1>5, <1>7, <1>8

\* A run of a Manchester signal leaves the biphase decoder without a preamble.
LEMMA AloofManchester ==
  ASSUME Typed, Unmistakable, OnlyOwn, tag' = tag, tag.modulation = "Manchester",
         NEW start \in Halves, Aloof(start), run.state = Level(start, 0),
         NEW next, next = RunEnd(start),
         NEW isHigh \in BOOLEAN, NEW isLong \in BOOLEAN, isLong <=> ~EdgeAfter(start),
         coding' = CodingPulse(isHigh, isLong), DecodeBits(CodingBits(isHigh, isLong))
  PROVE  Aloof(next)' /\ OnlyOwn'
<1> DEFINE m == coding.Biphase
           k == coding'.Biphase
           bits == CodingBits(isHigh, isLong)
           p == Place(start)
<1>1. /\ tag \in Tags /\ m.lastShort \in BOOLEAN /\ Other = "Biphase"
      /\ PreambleLength \in Nat /\ PreambleLength > 0
  BY Em4100Assumption DEF Typed, Coding, Biphase, Other
<1>2. /\ k.lastShort <=> ~isLong /\ ~m.lastShort
      /\ bits[Other] = IF isLong THEN {1} ELSE IF m.lastShort THEN {0} ELSE {}
  BY <1>1, BiphaseEffect
<1>3. /\ start % 2 = 0 => EdgeAfter(start) /\ next % 2 = 1
      /\ start % 2 = 1 => Place(next) = Following(p)
      /\ start % 2 = 1 /\ EdgeAfter(start) => next % 2 = 0
      /\ start % 2 = 1 /\ ~EdgeAfter(start) => next % 2 = 1 /\ ImageBit(next) # ImageBit(start)
      /\ next \in Halves
  BY ManchesterRun
<1>4. /\ p \in 0..(ImageLength - 1) /\ ImageBit(start) = Bits(TheToken, p)
      /\ start % 2 = 0 \/ start % 2 = 1
      /\ ~(start % 2 = 0 /\ start % 2 = 1)
      /\ ~(next % 2 = 0 /\ next % 2 = 1)
      /\ ImageBit(next) = Bits(TheToken, Place(next)) /\ Place(next) \in 0..(ImageLength - 1)
  BY <1>1, <1>3, HalfFacts
<1>5. PICK n \in 0..(PreambleLength - 1) :
        /\ HasCounted(n)
        /\ n > 0 /\ start % 2 = 1 => ~m.lastShort /\ Alternating(p, n)
        /\ n > 0 /\ start % 2 = 0 => m.lastShort
  BY Zenon DEF Aloof
<1>6. /\ bits[Other] = {} => HasCounted(n)'
      /\ bits[Other] = {0} => HasCounted(0)'
      /\ bits[Other] = {1} /\ n + 1 # PreambleLength => HasCounted(n + 1)'
      /\ OnlyOwn'
  BY <1>5, OtherBits
<1> HIDE DEF m, k, bits, p
<1>7. ASSUME NEW c \in 0..(PreambleLength - 1), HasCounted(c)',
             c > 0 => /\ next % 2 = 1 => ~k.lastShort /\ Alternating(Place(next), c)
                      /\ next % 2 = 0 => k.lastShort
      PROVE  Aloof(next)'
  <2>1. tag'.modulation = "Manchester" /\ "Manchester" # "Biphase" /\ PreambleLength' = PreambleLength
    OBVIOUS
  <2>2. Alternating(Place(next), c) => Alternating(Place(next), c)'
    BY OtherStays, Zenon
  <2>3. Place(next)' = Place(next)
    BY DEF Place
  <2> QED
    BY <1>7, <2>1, <2>2, <2>3, Zenon DEF Aloof, k
<1>8. CASE isLong
  <2>1. bits[Other] = {1} /\ ~k.lastShort /\ start % 2 = 1 /\ next % 2 = 1 /\ ~(next % 2 = 0)
        /\ Place(next) = Following(p) /\ Bits(TheToken, Following(p)) # Bits(TheToken, p)
    BY <1>2, <1>3, <1>4, <1>8, Zenon
  <2>2. Alternating(p, n)
    <3>1. CASE n = 0
      BY <3>1 DEF Alternating
    <3>2. CASE n > 0
      BY <1>5, <2>1, <3>2
    <3> QED
      BY <1>1, <3>1, <3>2
  <2>3. n \in 0..PreambleLength
    BY <1>1
  <2>4. Alternating(Place(next), n + 1)
    BY <1>1, <1>4, <2>1, <2>2, <2>3, MoreAlternating
  <2>5. n + 1 # PreambleLength
    BY <1>4, <2>4, Zenon DEF Unmistakable
  <2>6. HasCounted(n + 1)' /\ n + 1 \in 0..(PreambleLength - 1)
    BY <1>1, <1>6, <2>1, <2>5
  <2> QED
    BY <1>6, <1>7, <2>1, <2>4, <2>6
<1>9. CASE ~isLong /\ bits[Other] = {0}
  <2>1. HasCounted(0)' /\ 0 \in 0..(PreambleLength - 1) /\ ~(0 > 0)
    BY <1>1, <1>6, <1>9
  <2> QED
    BY <1>6, <1>7, <2>1, Zenon
<1>10. CASE ~isLong /\ ~m.lastShort
  <2>1. bits[Other] = {} /\ k.lastShort
    BY <1>2, <1>10, Zenon
  <2>2. n > 0 => start % 2 = 1 /\ next % 2 = 0 /\ ~(next % 2 = 1)
    BY <1>3, <1>4, <1>5, <1>10, Zenon
  <2> QED
    BY <1>6, <1>7, <2>1, <2>2, Zenon
<1> QED
  BY <1>1, <1>2, <1>8, <1>9, <1>10

\* A run of a biphase signal leaves the Manchester decoder without one.
LEMMA AloofBiphase ==
  ASSUME Typed, LongPreamble, Unmistakable, OnlyOwn, tag' = tag, tag.modulation = "Biphase",
         NEW start \in Halves, Aloof(start), start % 2 = 1 => ImageBit(start) = 0,
         NEW next, next = RunEnd(start), run.state \in Bit, run'.state \in Bit,
         run'.state # run.state,
         NEW isHigh \in BOOLEAN, isHigh <=> run.state = 0,
         NEW isLong \in BOOLEAN, isLong <=> ~EdgeAfter(start),
         coding' = CodingPulse(isHigh, isLong), DecodeBits(CodingBits(isHigh, isLong))
  PROVE  Aloof(next)' /\ OnlyOwn'
<1> DEFINE m == coding.Manchester
           k == coding'.Manchester
           bits == CodingBits(isHigh, isLong)
           p == Place(start)
<1>1. /\ tag \in Tags /\ m \in Manchester /\ m.ffOut \in BOOLEAN /\ m.timerRunning \in BOOLEAN
      /\ Other = "Manchester" /\ PreambleLength \in Nat /\ PreambleLength > 1
  BY Em4100Assumption DEF Typed, Coding, Manchester, Other, LongPreamble
<1>2. k = ManchesterPulse(m, isHigh, isLong) /\ bits[Other] = ManchesterBits(m, isHigh, isLong)
  BY <1>1 DEF CodingPulse, CodingBits
<1>3. /\ start % 2 = 0 /\ EdgeAfter(start) => next % 2 = 1 /\ Place(next) = p
      /\ start % 2 = 0 /\ ~EdgeAfter(start) => next % 2 = 0
      /\ start % 2 = 1 => EdgeAfter(start) /\ next % 2 = 0 /\ Place(next) = Following(p)
      /\ next \in Halves
  BY BiphaseRun
<1>4. /\ p \in 0..(ImageLength - 1) /\ ImageBit(start) = Bits(TheToken, p)
      /\ start % 2 = 0 \/ start % 2 = 1
      /\ ~(start % 2 = 0 /\ start % 2 = 1)
      /\ ~(next % 2 = 0 /\ next % 2 = 1)
      /\ Place(next) \in 0..(ImageLength - 1)
  BY <1>1, <1>3, HalfFacts
<1>5. PICK n \in 0..(PreambleLength - 1) :
        /\ HasCounted(n)
        /\ ~m.ffOut => n = 0 /\ (m.timerRunning => run.state # 0)
        /\ m.ffOut => /\ n > 0 /\ Zeros(p, n - 1)
                      /\ m.timerRunning <=> start % 2 = 1
                      /\ run.state = 0 <=> start % 2 = 1
  BY Zenon DEF Aloof
<1>6. /\ bits[Other] = {} => HasCounted(n)'
      /\ bits[Other] = {0} => HasCounted(0)'
      /\ bits[Other] = {1} /\ n + 1 # PreambleLength => HasCounted(n + 1)'
      /\ OnlyOwn'
  BY <1>5, OtherBits
<1>7. run'.state = 0 <=> ~isHigh
  BY DEF Bit
<1> HIDE DEF m, k, bits, p
<1>8. /\ m.timerRunning =>
           (k.ffOut <=> isHigh) /\ ~k.timerRunning /\ bits[Other] = {IF isHigh THEN 1 ELSE 0}
      /\ ~m.timerRunning /\ ~(isHigh <=> m.ffOut) /\ isLong =>
           (k.ffOut <=> isHigh) /\ ~k.timerRunning /\ bits[Other] = {IF isHigh THEN 1 ELSE 0}
      /\ ~m.timerRunning /\ ~(isHigh <=> m.ffOut) /\ ~isLong =>
           (k.ffOut <=> m.ffOut) /\ k.timerRunning /\ bits[Other] = {}
      /\ ~m.timerRunning /\ (isHigh <=> m.ffOut) =>
           (k.ffOut <=> m.ffOut) /\ ~k.timerRunning /\ bits[Other] = {}
  BY <1>1, <1>2, ManchesterEffect
\* Each of the two values of its bit after the run
<1>9. ASSUME HasCounted(0)', ~k.ffOut, k.timerRunning => isHigh PROVE Aloof(next)'
  <2>1. tag'.modulation = "Biphase" /\ "Manchester" # "Biphase" /\ PreambleLength' = PreambleLength
        /\ 0 \in 0..(PreambleLength - 1) /\ (k.timerRunning => run'.state # 0)
    BY <1>1, <1>7, <1>9
  <2> QED
    BY <1>9, <2>1, Zenon DEF Aloof, k
<1>10. ASSUME NEW c \in 0..(PreambleLength - 1), c > 0, HasCounted(c)', k.ffOut,
              Zeros(Place(next), c - 1), k.timerRunning <=> next % 2 = 1, isHigh <=> next % 2 = 0
       PROVE  Aloof(next)'
  <2>1. tag'.modulation = "Biphase" /\ "Manchester" # "Biphase" /\ PreambleLength' = PreambleLength
        /\ (run'.state = 0 <=> next % 2 = 1)
    BY <1>3, <1>4, <1>7, <1>10, HalfFacts
  <2>2. Zeros(Place(next), c - 1)'
    BY <1>10, OtherStays, Zenon
  <2>3. Place(next)' = Place(next)
    BY DEF Place
  <2> QED
    BY <1>10, <2>1, <2>2, <2>3, Zenon DEF Aloof, k
<1>11. CASE ~m.ffOut /\ m.timerRunning
  <2>1. ~isHigh
    BY <1>5, <1>11
  <2>2. ~k.ffOut /\ ~k.timerRunning /\ bits[Other] = {0}
    BY <1>8, <1>11, <2>1, Zenon
  <2> QED
    BY <1>6, <1>9, <2>2, Zenon
<1>12. CASE ~m.ffOut /\ ~m.timerRunning /\ ~(isHigh /\ isLong)
  <2>1. ~k.ffOut /\ (k.timerRunning => isHigh) /\ bits[Other] = {} /\ n = 0
    BY <1>5, <1>8, <1>12, Zenon
  <2> QED
    BY <1>6, <1>9, <2>1
<1>13. CASE ~m.ffOut /\ ~m.timerRunning /\ isHigh /\ isLong
  <2>1. k.ffOut /\ ~k.timerRunning /\ bits[Other] = {1} /\ n = 0
    BY <1>5, <1>8, <1>13, Zenon
  <2>2. next % 2 = 0 /\ ~(next % 2 = 1)
    BY <1>3, <1>4, <1>13, Zenon
  <2>3. HasCounted(1)' /\ 1 \in 0..(PreambleLength - 1) /\ 1 > 0
    BY <1>1, <1>6, <2>1
  <2>4. Zeros(Place(next), 1 - 1)
    BY DEF Zeros
  <2> QED
    BY <1>6, <1>10, <1>13, <2>1, <2>2, <2>3, <2>4
<1>14. CASE m.ffOut /\ start % 2 = 0
  <2>1. ~m.timerRunning /\ ~isHigh /\ n > 0 /\ Zeros(p, n - 1)
    BY <1>4, <1>5, <1>14, Zenon
  <2>2. CASE isLong
    <3>1. ~k.ffOut /\ ~k.timerRunning /\ bits[Other] = {0}
      BY <1>8, <1>14, <2>1, <2>2, Zenon
    <3> QED
      BY <1>6, <1>9, <3>1, Zenon
  <2>3. CASE ~isLong
    <3>1. k.ffOut /\ k.timerRunning /\ bits[Other] = {}
      BY <1>8, <1>14, <2>1, <2>3, Zenon
    <3>2. next % 2 = 1 /\ ~(next % 2 = 0) /\ Place(next) = p
      BY <1>3, <1>4, <1>14, <2>3, Zenon
    <3> QED
      BY <1>6, <1>10, <2>1, <3>1, <3>2
  <2> QED
    BY <2>2, <2>3
<1>15. CASE m.ffOut /\ start % 2 = 1
  <2>1. m.timerRunning /\ isHigh /\ n > 0 /\ Zeros(p, n - 1) /\ Bits(TheToken, p) = 0
    BY <1>4, <1>5, <1>15, Zenon
  <2>2. k.ffOut /\ ~k.timerRunning /\ bits[Other] = {1}
    BY <1>8, <2>1, Zenon
  <2>3. next % 2 = 0 /\ ~(next % 2 = 1) /\ Place(next) = Following(p)
    BY <1>3, <1>4, <1>15, Zenon
  <2>4. n - 1 \in 0..PreambleLength /\ (n - 1) + 1 = n /\ (n + 1) - 1 = n
    BY <1>1, <2>1
  <2>5. Zeros(Place(next), n)
    BY <1>1, <1>4, <2>1, <2>3, <2>4, MoreZeros
  <2>6. n # PreambleLength - 1
    BY <1>1, <1>4, <2>5, Zenon DEF Unmistakable, Other
  <2>7. HasCounted(n + 1)' /\ n + 1 \in 0..(PreambleLength - 1) /\ n + 1 > 0
    BY <1>1, <1>6, <2>2, <2>6
  <2> QED
    BY <1>6, <1>10, <2>1, <2>2, <2>3, <2>4, <2>5, <2>7
<1> QED
  BY <1>1, <1>4, <1>11, <1>12, <1>13, <1>14, <1>15

\* A decoder that has just been reset has counted nothing.
AloofReset ==
  em4100[Other] = ResetDecoder /\ coding = ResetCoding => \A start \in Halves : Aloof(start)

LEMMA AloofResetAlways == AloofReset
<1> SUFFICES ASSUME em4100[Other] = ResetDecoder, coding = ResetCoding, NEW start \in Halves
             PROVE  Aloof(start)
  BY DEF AloofReset
<1>1. HasCounted(0) /\ 0 \in 0..(PreambleLength - 1) /\ ~(0 > 0)
  BY Em4100Assumption DEF HasCounted, ResetDecoder
<1>2. coding.Manchester.ffOut = FALSE /\ coding.Manchester.timerRunning = FALSE
  BY DEF ResetCoding, ResetManchester
<1> QED
  BY <1>1, <1>2, Zenon DEF Aloof

LEMMA AloofResetNext == AloofReset'
BY AloofResetAlways, PTL

LEMMA OverheardInit == Init => Overheard
<1> SUFFICES ASSUME Init PROVE Overheard
  OBVIOUS
<1>1. ~carrier.hasSync /\ reports = {}
  BY DEF Init, ResetCarrier
<1>2. Other \in Modulations
  BY DEF Other, Modulations
<1>3. em4100[Other] = ResetDecoder
  BY <1>2 DEF Init
<1> QED
  BY <1>1, <1>3, Zenon DEF Overheard, OnlyOwn

\* A run that goes on is heard by nobody.
LEMMA OverheardStays ==
  ASSUME Overheard, UNCHANGED <<tag, carrier, coding, em4100, reports>>,
         carrier.hasSync => run'.state = run.state,
         \A start \in Halves : carrier.hasSync /\ RunFrom(start) => RunFrom(start)'
  PROVE  Overheard'
<1>1. OnlyOwn' /\ (em4100[Other] = ResetDecoder => em4100'[Other'] = ResetDecoder)
  BY OtherStays, Zenon DEF Overheard, OnlyOwn
<1>2. \A n : HasCounted(n) => HasCounted(n)'
  BY OtherStays, Zenon DEF HasCounted
<1>3. ASSUME NEW start \in Halves, Aloof(start), carrier.hasSync PROVE Aloof(start)'
  <2>1. /\ tag' = tag /\ coding' = coding /\ run'.state = run.state
        /\ Place(start)' = Place(start) /\ PreambleLength' = PreambleLength
    BY <1>3 DEF Place
  <2>2. /\ \A n : Alternating(Place(start), n) => Alternating(Place(start), n)'
        /\ \A n : Zeros(Place(start), n) => Zeros(Place(start), n)'
    BY <2>1, OtherStays, Zenon
  <2> QED
    BY <1>2, <1>3, <2>1, <2>2, Zenon DEF Aloof
<1>4. Halves' = Halves /\ ResetDecoder' = ResetDecoder /\ carrier' = carrier
  BY DEF Halves, ResetDecoder
<1> QED
  BY <1>1, <1>3, <1>4, Zenon DEF Overheard

\* Until a divider is found, it gets nothing; when it is, it is reset.
LEMMA OverheardBegins ==
  ASSUME ~carrier.hasSync, tag' = tag, Overheard,
         NEW us, NEW isHigh, Pulse(us, isHigh), NEW next \in Halves, RunFrom(next)'
  PROVE  Overheard'
<1>1. ~NewPulse(carrier, us)
  BY DEF NewPulse
<1>2. /\ carrier' = CheckPulse(carrier, us) /\ em4100' = em4100 /\ reports' = reports
      /\ coding' = IF SyncChanged(carrier, us) THEN ResetCoding ELSE coding
  BY <1>1, Zenon DEF Pulse
<1>3. OnlyOwn' /\ em4100'[Other'] = ResetDecoder
  BY <1>2, OtherStays, Zenon DEF Overheard, OnlyOwn
<1>4. Halves' = Halves /\ ResetCoding' = ResetCoding /\ ResetDecoder' = ResetDecoder
  BY DEF Halves, ResetCoding, ResetDecoder
<1>5. ASSUME carrier'.hasSync PROVE Aloof(next)'
  <2>1. coding' = ResetCoding
    BY <1>2, <1>5, Zenon DEF SyncChanged
  <2> QED
    BY <1>3, <1>4, <2>1, AloofResetNext, Zenon DEF AloofReset
<1> QED
  BY <1>3, <1>4, <1>5, Zenon DEF Overheard

\* Afterwards a run that ends leaves it without a preamble.
LEMMA OverheardRun ==
  ASSUME Tracked, LongPreamble, ErrorTreshold > 1, flips = 0, carrier.hasSync, tag' = tag,
         Unmistakable, Overheard, run.state \in Bit, run.state # signal.level,
         run'.state = signal.level, Pulse(run.length * SampleUs, run.state = 0),
         NEW next \in Halves, next = signal.half, RunFrom(next)'
  PROVE  Overheard'
<1>1. PICK start \in Halves : RunFrom(start) /\ Aloof(start)
  BY DEF Overheard
<1>2. PICK isHigh : isHigh = (run.state = 0)
  OBVIOUS
<1>3. /\ carrier'.hasSync /\ next = RunEnd(start) /\ isHigh \in BOOLEAN
      /\ \E isLong \in BOOLEAN :
           /\ isLong <=> ~EdgeAfter(start)
           /\ coding' = CodingPulse(isHigh, isLong) /\ DecodeBits(CodingBits(isHigh, isLong))
  BY <1>1, <1>2, RunHeard
<1>4. PICK isLong \in BOOLEAN :
        /\ isLong <=> ~EdgeAfter(start)
        /\ coding' = CodingPulse(isHigh, isLong) /\ DecodeBits(CodingBits(isHigh, isLong))
  BY <1>3, Zenon
<1>5. Typed /\ signal.level \in Bit /\ OnlyOwn /\ (isHigh <=> run.state = 0)
  BY <1>2 DEF Tracked, Typed, Signal, Overheard
<1>6. CASE tag.modulation = "Manchester"
  <2>1. run.state = Level(start, 0)
    BY <1>1, <1>6, Zenon DEF RunFrom
  <2>2. Aloof(next)' /\ OnlyOwn'
    BY <1>1, <1>3, <1>4, <1>5, <1>6, <2>1, AloofManchester
  <2> QED
    BY <1>3, <2>2, Zenon DEF Overheard, Halves
<1>7. CASE tag.modulation = "Biphase"
  <2>1. start % 2 = 1 => ImageBit(start) = 0
    BY <1>1, <1>7, Zenon DEF RunFrom
  <2>2. run'.state \in Bit /\ run'.state # run.state
    BY <1>5
  <2>3. Aloof(next)' /\ OnlyOwn'
    BY <1>1, <1>3, <1>4, <1>5, <1>7, <2>1, <2>2, AloofBiphase
  <2> QED
    BY <1>3, <2>3, Zenon DEF Overheard, Halves
<1> QED
  BY <1>5, <1>6, <1>7, TagType DEF Modulations, Typed

LEMMA OverheardSample ==
  ASSUME Tracked, LongPreamble, ErrorTreshold > 1, flips = 0, Heard, Unmistakable, Overheard,
         TakeSample
  PROVE  Overheard'
<1> DEFINE bit == signal.level  us == run.length * SampleUs
<1>1. /\ Typed /\ LevelRight /\ Advance /\ tag' = tag /\ Collect(bit)
  BY DEF Tracked, TakeSample, Take
<1>2. bit \in Bit /\ run.state \in Bit \cup {NoState} /\ NoState \notin Bit
  BY <1>1 DEF Typed, Signal, Heard, Bit, NoState
<1>3. run'.state = bit
  BY <1>1, <1>2, CollectMoves
<1>4. CASE run.state = NoState \/ run.state = bit
  <2>1. UNCHANGED <<tag, carrier, coding, em4100, reports>>
    BY <1>1, <1>4, Zenon DEF Collect
  <2>2. carrier.hasSync => run.state = bit
    BY <1>2, <1>4 DEF Heard
  <2>3. ASSUME NEW start \in Halves, carrier.hasSync, RunFrom(start) PROVE RunFrom(start)'
    <3>1. run'.length = run.length + 1
      BY <1>1, <1>2, <1>4, <2>2, <2>3, CollectMoves
    <3> QED
      BY <1>1, <1>3, <2>2, <2>3, <3>1, RunGoesOn
  <2> QED
    BY <1>3, <2>1, <2>2, <2>3, OverheardStays
<1>5. CASE run.state \in Bit /\ run.state # bit
  <2>1. Pulse(us, run.state = 0) /\ run' = [state |-> bit, length |-> 1]
    BY <1>1, <1>2, <1>5, Zenon DEF Collect
  <2>2. InStep
    BY <1>2, <1>5, Zenon DEF Heard
  <2>3. PICK next : next = signal.half
    OBVIOUS
  <2>4. next \in Halves /\ RunFrom(next)'
    BY <1>1, <1>5, <2>1, <2>2, <2>3, RunBegins
  <2>5. CASE carrier.hasSync
    BY <1>1, <1>3, <1>5, <2>1, <2>3, <2>4, <2>5, OverheardRun
  <2>6. CASE ~carrier.hasSync
    BY <1>1, <2>1, <2>4, <2>6, OverheardBegins
  <2> QED
    BY <2>5, <2>6
<1> QED
  BY <1>2, <1>4, <1>5

LEMMA OverheardStep ==
  ASSUME LongPreamble, ErrorTreshold > 1
  PROVE  Tracked /\ (flips = 0 => Heard) /\ (flips = 0 /\ Unmistakable => Overheard) /\ [Next]_vars
           => (flips = 0 /\ Unmistakable => Overheard)'
<1> SUFFICES ASSUME Tracked, flips = 0 => Heard, flips = 0 /\ Unmistakable => Overheard,
                    [Next]_vars, flips' = 0, Unmistakable'
             PROVE  Overheard'
  OBVIOUS
<1>1. flips \in Nat
  BY TagType DEF Tracked, Typed
<1>2. tag' = tag
  BY DEF Next, TakeSample, TakeCorrupted, Take, vars
<1>3. Unmistakable
  <2>1. /\ \A p, n : Alternating(p, n)' <=> Alternating(p, n)
        /\ \A p, n : Zeros(p, n)' <=> Zeros(p, n)
        /\ ImageLength' = ImageLength /\ PreambleLength' = PreambleLength
    BY <1>2, OtherStays DEF ImageLength
  <2> QED
    BY <1>2, <2>1, Zenon DEF Unmistakable
<1>4. CASE TakeSample
  BY <1>3, <1>4, OverheardSample DEF TakeSample
<1>5. CASE TakeCorrupted
  BY <1>1, <1>5 DEF TakeCorrupted
<1>6. CASE UNCHANGED vars
  <2>1. UNCHANGED <<tag, signal, run, carrier, coding, em4100, reports>> /\ Overheard
    BY <1>3, <1>6 DEF vars
  <2>2. \A start \in Halves : RunFrom(start) => RunFrom(start)'
    BY <2>1, ImageStays, Zenon DEF RunFrom, After
  <2> QED
    BY <2>1, <2>2, OverheardStays
<1> QED
  BY <1>4, <1>5, <1>6 DEF Next

\* Of a capture without corrupted samples nothing but the tag's token is reported, with its
\* own coding and divider, if the image of the token has nowhere in it what the decoder of
\* the other coding takes for a preamble (Em4100Decoder.cpp:57-70, main.cpp:239-248).
THEOREM ReportsOnlyTheTag ==
  ASSUME LongPreamble, ErrorTreshold > 1
  PROVE  Spec => [](Unmistakable => OnlyTheTag)
<1> DEFINE Hears == flips = 0 => Heard
           Overhears == flips = 0 /\ Unmistakable => Overheard
<1>1. Init => Tracked /\ Hears /\ Overhears
  BY TrackedInit, HeardInit, OverheardInit
<1>2. Tracked /\ Hears /\ Overhears /\ [Next]_vars => Tracked' /\ Hears' /\ Overhears'
  BY TrackedStep, HeardStep, OverheardStep
<1>3. Hears /\ Overhears => (Unmistakable => OnlyTheTag)
  <2> SUFFICES ASSUME flips = 0, OwnDecoderRight, OnlyOwn PROVE reports \subseteq {TheReport}
    BY Zenon DEF Heard, Overheard, OnlyTheTag
  <2> QED
    BY Zenon DEF OwnDecoderRight, OnlyOwn
<1> QED
  BY <1>1, <1>2, <1>3, PTL DEF Spec
===========================================================================
