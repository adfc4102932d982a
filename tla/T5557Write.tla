---------------------------- MODULE T5557Write ----------------------------
(***************************************************************************)
(* Programming a tag: T5557Encoder turns the configuration and the image   *)
(* of a token (Em4100) into pulses, putSamples packs them into nibbles,    *)
(* the timer interrupt of the reader plays them on the coil, and the tag   *)
(* measures what it sees of the field.  The tag is external: it is as the  *)
(* ranges written in T5557Encoder.cpp describe it.                         *)
(*                                                                         *)
(* A word is the sequence of its bits, least significant first.  Lengths   *)
(* are in carrier periods.  Requests and waits are HostTool's; here a      *)
(* transfer is done, or the process ends before it, or the reader loses    *)
(* its power while it plays.                                               *)
(***************************************************************************)
EXTENDS Integers, Em4100

CONSTANTS
  WordBits,       \* 32
  PulseSlots,     \* lengths in sampleVector: 7
  BufferNibbles,  \* nibbles in ioBuffer: 384
  Programs        \* tokens, codings and bit rates the user programs

\* A word is an uint32_t, and the image an array of two.  The index of a length has three
\* bits, of which seven ones are the end mark.  putSamples does not ask whether a frame fits
\* the buffer.
ASSUME WriteAssumption ==
  /\ WordBits = 32 /\ 2 * WordBits = ImageLength
  /\ PulseSlots \in 1 .. 7
  /\ BufferNibbles \in Nat /\ BufferNibbles >= 2 * (WordBits + 6) + 2

VARIABLES
  pc,             \* "away", "encode", "play" or "answer"
  exit,           \* what the last process returned, 1 while it runs
  program,        \* what it programs
  block,          \* the block in hand
  sampleVector, ioBuffer, opOffset,       \* main.c
  OCR0A,          \* length of the pulse that is played, less one
  tag,
  before          \* the memory of the tag when the process was launched

vars == <<pc, exit, program, block, sampleVector, ioBuffer, opOffset, OCR0A, tag, before>>

\* 1 << i
Weight == <<1, 2, 4, 8, 16>>

Msb(value, n) == [i \in 1 .. n |-> (value \div Weight[n - i + 1]) % 2]
Lsb(value, n) == Reverse(Msb(value, n))
Zeros(n) == [i \in 1 .. n |-> 0]
-----------------------------------------------------------------------------
(***************************************************************************)
(* T5557Encoder                                                            *)
(***************************************************************************)
DataOne  == (48 + 63) \div 2

\* Mutant: the ends of the range are not averaged
DataZeroSum == 16 + 31

DataZero == (16 + 31) \div 2
WriteGap == (8 + 30) \div 2
StartGap == (10 + 50) \div 2

PulseOf(isHigh, length) == [isHigh |-> isHigh, length |-> length]

AddBit(bit) ==
  <<PulseOf(TRUE, IF bit = 1 THEN DataOne ELSE DataZero), PulseOf(FALSE, WriteGap)>>

\* Mutant: the address goes out like the rest
FrameLsb(page, address, lock, password, word) ==
  Lsb(1 + 2 * (page % 2), 2) \o password \o <<lock>> \o word \o Lsb(address, 3)

\* `password' is empty when it is not sent.
Frame(page, address, lock, password, word) ==
  Lsb(1 + 2 * (page % 2), 2) \o password \o <<lock>> \o word \o Msb(address, 3)

EncodeBlock(page, address, lock, password, word) ==
  LET bits == Frame(page, address, lock, password, word)
  IN [i \in 1 .. 2 * Len(bits) + 1 |->
        IF i = 1 THEN PulseOf(FALSE, StartGap) ELSE AddBit(bits[i \div 2])[1 + (i % 2)]]

DataRate == <<8, 16, 32, 40, 50, 64, 100, 128>>
DataRateValue(rate) == (CHOOSE i \in 1 .. 8 : DataRate[i] = rate) - 1

ModulationValue ==
  [Direct |-> 0, PSK1 |-> 1, PSK2 |-> 2, PSK3 |-> 3, FSK1 |-> 4, FSK2 |-> 5, FSK1a |-> 6,
   FSK2a |-> 7, Manchester |-> 8, Biphase |-> 24]

\* What may be programmed; main offers two of the modulations and three of the rates.
Program ==
  [token: Token, modulation: DOMAIN ModulationValue, rate: {DataRate[i] : i \in 1 .. 8}]

ASSUME ProgramsAssumption == Programs \subseteq Program

\* The parameters main does not set
DefaultParameters ==
  [lock |-> 0, masterKey |-> 0, pskSubcarrier |-> 0, answerOnRequest |-> 1, password |-> 0,
   sequenceTerminator |-> 0, powerOnResetDelay |-> 0]

\* Mutant: the rate is stored like the words of the image
ConfigurationLsb(p, rate, modulation, maxBlock) ==
  Msb(p.masterKey, 4) \o Zeros(7) \o Lsb(DataRateValue(rate), 3) \o Zeros(1)
    \o Msb(ModulationValue[modulation], 5) \o Msb(p.pskSubcarrier, 2)
    \o <<p.answerOnRequest, 0>> \o Msb(maxBlock, 3)
    \o <<p.password, p.sequenceTerminator>> \o Zeros(2) \o <<p.powerOnResetDelay>>

\* The configuration word of encodeParameters
Configuration(p, rate, modulation, maxBlock) ==
  Msb(p.masterKey, 4) \o Zeros(7) \o Msb(DataRateValue(rate), 3) \o Zeros(1)
    \o Msb(ModulationValue[modulation], 5) \o Msb(p.pskSubcarrier, 2)
    \o <<p.answerOnRequest, 0>> \o Msb(maxBlock, 3)
    \o <<p.password, p.sequenceTerminator>> \o Zeros(2) \o <<p.powerOnResetDelay>>

\* main: block 0 configures the tag, 1 and 2 hold the image.
DataBlocks == 2

BlockWord(p, b) ==
  IF b = 0 THEN Configuration(DefaultParameters, p.rate, p.modulation, DataBlocks)
  ELSE LET image == Generate(p.token)
       IN [i \in 1 .. WordBits |-> image[(b - 1) * WordBits + i]]

BlockPulses(p, b) ==
  EncodeBlock(0, b, IF b = 0 THEN DefaultParameters.lock ELSE 0, <<>>, BlockWord(p, b))
-----------------------------------------------------------------------------
(***************************************************************************)
(* putSamples                                                              *)
(***************************************************************************)
Lengths(pulses) == {pulses[i].length : i \in DOMAIN pulses}

\* The place of a length in the ordered set
Position(pulses, length) == Cardinality({l \in Lengths(pulses) : l < length})

\* The set in its order, and zeros
PulseVector(pulses) ==
  [i \in 1 .. PulseSlots |->
     IF \E l \in Lengths(pulses) : Position(pulses, l) = i - 1
     THEN CHOOSE l \in Lengths(pulses) : Position(pulses, l) = i - 1
     ELSE 0]

Value(pulses, i) ==
  (IF pulses[i].isHigh THEN 8 ELSE 0) + Position(pulses, pulses[i].length)

\* Two to a byte, the lower nibble first; writing that one clears the other.  0xff in
\* the bytes that remain.
Packed(pulses) ==
  [i \in 1 .. BufferNibbles |->
     IF i <= Len(pulses) THEN Value(pulses, i)
     ELSE IF i = Len(pulses) + 1 /\ i % 2 = 0 THEN 0 ELSE 15]

TooManyPulses(pulses) == Cardinality(Lengths(pulses)) > PulseSlots
-----------------------------------------------------------------------------
(***************************************************************************)
(* The tag.  The field is off in gaps; how long it was on between two      *)
(* gaps is the bit.  A frame it has heard to the end is carried out when   *)
(* the field stays on.                                                     *)
(***************************************************************************)
Blank == Zeros(WordBits)
Deaf(memory, locked) ==
  [memory |-> memory, locked |-> locked, heard |-> <<>>, on |-> 0, off |-> 0]

\* 2 is no bit.
BitHeard(on) == IF on \in 16 .. 31 THEN 0 ELSE IF on \in 48 .. 63 THEN 1 ELSE 2

FieldOff(t, length) == [t EXCEPT !.off = @ + length]

\* The field comes back, or stays.  The first gap opens a frame, every other one has
\* ended a bit; one shorter than 8 periods is not seen.
FieldOn(t, length) ==
  LET seen == t.off >= 8
  IN [memory |-> t.memory, locked |-> t.locked,
      heard |-> IF seen /\ t.on # 0 THEN Append(t.heard, BitHeard(t.on)) ELSE t.heard,
      on |-> IF seen THEN length ELSE t.on + t.off + length, off |-> 0]

NeedsPassword(t) == t.memory[0][28] = 1

FrameBits == WordBits + 6

\* Opcode, lock bit, word and address; a tag that needs a password does not hear this
\* one, nor does a block that is locked change.
Evaluate(t) ==
  LET bits    == t.heard
      address == 4 * bits[FrameBits - 2] + 2 * bits[FrameBits - 1] + bits[FrameBits]
      word    == [i \in 1 .. WordBits |-> bits[i + 3]]
      lock    == IF bits[3] = 1 THEN {address} ELSE {}
  IN IF /\ Len(bits) = FrameBits /\ 2 \notin {bits[i] : i \in DOMAIN bits}
        /\ bits[1] = 1 /\ bits[2] = 0
        /\ ~NeedsPassword(t) /\ address \notin t.locked
     THEN Deaf([t.memory EXCEPT ![address] = word], t.locked \cup lock)
     ELSE Deaf(t.memory, t.locked)

\* What the tag sends, from its configuration
RateOf(t) ==
  LET code == 4 * t.memory[0][12] + 2 * t.memory[0][13] + t.memory[0][14]
  IN DataRate[code + 1]

ModulationOf(t) ==
  LET word == t.memory[0]
      code == 16 * word[16] + 8 * word[17] + 4 * word[18] + 2 * word[19] + word[20]
  IN IF \E m \in DOMAIN ModulationValue : ModulationValue[m] = code
     THEN CHOOSE m \in DOMAIN ModulationValue : ModulationValue[m] = code
     ELSE "reserved"

MaxBlock(t) == 4 * t.memory[0][25] + 2 * t.memory[0][26] + t.memory[0][27]

\* One block after the other
Sent(t) ==
  [i \in 1 .. MaxBlock(t) * WordBits |->
     t.memory[((i - 1) \div WordBits) + 1][((i - 1) % WordBits) + 1]]
-----------------------------------------------------------------------------
Init ==
  /\ pc = "away" /\ exit = 1 /\ program \in Programs /\ block = 0
  /\ sampleVector = Zeros(PulseSlots) /\ ioBuffer = Zeros(BufferNibbles)
  /\ opOffset = 0 /\ OCR0A = 0
  /\ tag = Deaf([b \in 0 .. 7 |-> Blank], {})
  /\ before = tag.memory

Launch(p) ==
  /\ pc = "away"
  /\ pc' = "encode" /\ exit' = 1 /\ program' = p /\ block' = 0
  /\ before' = tag.memory
  /\ UNCHANGED <<sampleVector, ioBuffer, opOffset, OCR0A, tag>>

\* Both vectors are written and the transfer is started: the field is on.
PutSamples ==
  LET pulses == BlockPulses(program, block) IN
  /\ pc = "encode"
  /\ IF TooManyPulses(pulses)
     THEN /\ pc' = "away" /\ exit' = -1
          /\ UNCHANGED <<sampleVector, ioBuffer, opOffset, tag>>
     ELSE /\ pc' = "play" /\ exit' = exit
          /\ sampleVector' = PulseVector(pulses)
          /\ ioBuffer' = Packed(pulses)
          /\ opOffset' = 0
          /\ tag' = tag
  /\ UNCHANGED <<program, block, OCR0A, before>>

\* The end of the buffer, or the end mark
AtEnd == opOffset = BufferNibbles \/ ioBuffer[opOffset + 1] % 8 = 7

\* ISR(TIMER0_COMPA_vect): the next pulse, and the tag for as long as it lasts
PlayPulse ==
  /\ pc = "play" /\ ~AtEnd
  /\ LET nibble == ioBuffer[opOffset + 1]
         index  == nibble % 8
     IN
     /\ OCR0A' = (sampleVector[index + 1] + 255) % 256
     /\ tag' = IF nibble >= 8 THEN FieldOn(tag, OCR0A' + 1) ELSE FieldOff(tag, OCR0A' + 1)
  /\ opOffset' = opOffset + 1
  /\ UNCHANGED <<pc, exit, program, block, sampleVector, ioBuffer, before>>

\* _stopTx: the coil is on for good.
StopTx ==
  /\ pc = "play" /\ AtEnd
  /\ tag' = Evaluate(FieldOn(tag, 0))
  /\ pc' = "answer"
  /\ UNCHANGED <<exit, program, block, sampleVector, ioBuffer, opOffset, OCR0A, before>>

\* The status is "ok": main goes on with the next block.
NextBlock ==
  /\ pc = "answer"
  /\ IF block = DataBlocks THEN pc' = "away" /\ exit' = 0 /\ UNCHANGED block
     ELSE pc' = "encode" /\ block' = block + 1 /\ UNCHANGED exit
  /\ UNCHANGED <<program, sampleVector, ioBuffer, opOffset, OCR0A, tag, before>>

\* A request fails before the transfer, or its outcome is not heard of.
GiveUp ==
  /\ pc \in {"encode", "answer"}
  /\ pc' = "away" /\ exit' = -1
  /\ UNCHANGED <<program, block, sampleVector, ioBuffer, opOffset, OCR0A, tag, before>>

\* The reader loses its power, and the tag with it, in the middle of a frame.
PowerLoss ==
  /\ pc = "play"
  /\ tag' = Deaf(tag.memory, tag.locked)
  /\ sampleVector' = Zeros(PulseSlots) /\ ioBuffer' = Zeros(BufferNibbles)
  /\ opOffset' = 0 /\ OCR0A' = 0
  /\ pc' = "away" /\ exit' = -1
  /\ UNCHANGED <<program, block, before>>

Next ==
  \/ \E p \in Programs : Launch(p)
  \/ PutSamples \/ PlayPulse \/ StopTx \/ NextBlock
  \/ GiveUp \/ PowerLoss

Spec == Init /\ [][Next]_vars
-----------------------------------------------------------------------------
\* A process that ends with 0 has made the tag one that sends the image of the token it
\* was given, in the coding and at the rate it was given, whatever was on the tag and
\* however often a programming was broken off before (DecodeChain reads such a tag).
ProgrammedTagReads ==
  pc = "away" /\ exit = 0 =>
    /\ RateOf(tag) = program.rate /\ ModulationOf(tag) = program.modulation
    /\ Sent(tag) = Generate(program.token)

\* When a programming is broken off, the blocks up to some point are the new ones and
\* all others what they were: no block is torn, none is written that was not meant.
PrefixProgrammed ==
  \E n \in 0 .. DataBlocks + 1 :
    tag.memory = [b \in 0 .. 7 |-> IF b < n THEN BlockWord(program, b) ELSE before[b]]

\* The player stays in the buffer and uses no length but those the host wrote, which
\* fit their byte, as the tag's frame fits its own.
TypeOK ==
  /\ pc \in {"away", "encode", "play", "answer"} /\ exit \in {-1, 0, 1}
  /\ program \in Programs /\ block \in 0 .. DataBlocks
  /\ sampleVector \in [1 .. PulseSlots -> 0 .. 255]
  /\ ioBuffer \in [1 .. BufferNibbles -> 0 .. 15]
  /\ opOffset \in 0 .. BufferNibbles /\ OCR0A \in 0 .. 255
  /\ tag.memory \in [0 .. 7 -> [1 .. WordBits -> Bit]]
  /\ tag.locked \subseteq 0 .. 7
  /\ tag.heard \in Seq(Bit) /\ Len(tag.heard) <= FrameBits
=============================================================================
