# rfid-tool: a verification development

`rfid-tool` reads and programs 125 kHz RFID tags.  A USB device (an ATtiny85
with a software USB stack, `firmware/`) samples or damps the carrier; a host
program (`rfid-tool/`) drives it and decodes what it sampled.  This directory
holds TLA+ models of the device and of its host program, the TLC runs that check
them on small instances and the proofs that TLAPS checks for all instances.

Contents: 1 the system · 2 the modules and how they correspond to the code ·
3 the runs · 4 what is proved · 5 disagreements found · 6 what is left out ·
7 the plan.

## 1. The system

| Component | State | Operations | Talks to |
|---|---|---|---|
| **Transfer engine** (`firmware/src/main.c`) | `command`, `ioBuffer`, `sampleVector`, `opOffset`, `opLength`, `_commonCtx` (state, timeout, id, flags), ADC and timer 0 registers | `usbFunctionSetup`, `usbFunctionRead/Write`; evaluation in `main`; `ISR(ADC_vect)`, `ISR(TIMER0_COMPA_vect)` | USB endpoint (callbacks), hardware |
| **USB endpoint 0** (`usbdrv.c`, `asmcommon.inc`, the poll in `main`) | `usbRxLen`, `usbTxLen`, `usbTxBuf`, `usbMsgLen/Flags/Ptr` | `usbProcessRx`, `usbBuildTxBlock`, `usbDeviceRead` | host controller, engine |
| **Standard requests** (`usbDriverSetup`, `usbDriverDescriptor`, the address filter of `asmcommon.inc`) | `usbDeviceAddr`, `usbNewDeviceAddr`, `usbCurrentTok`, `usbConfiguration` | enumeration, bus reset | USB endpoint |
| **Bit-level receiver and transmitter** (`usbdrvasm165.inc`) | shift registers | receive a packet, answer ACK/NAK, send | USB endpoint |
| **Oscillator calibration** (`_calibrateOscillator`) | `OSCCAL` | binary search, neighbour search | `usbMeasureFrameLength` |
| **USB interface of the tool** (`InterfaceUsbImpl.cpp`) | device handle, version, vector sizes | `getSamples`, `putSamples`, `reset` | firmware, by control transfers |
| **Carrier decoder** (`CarrierDecoder.cpp`) | counters, divider, synchronisation | `checkPulses` | notifies the bit decoders |
| **Bit decoders** (`ManchesterDecoder.cpp`, `BiphaseDecoder.cpp`) | half-bit memory | `onEvent` | notify the token decoder |
| **EM4100 decoder** (`Em4100Decoder.cpp`) | state, bits, nibbles, bytes | `onEvent` | notifies `main.cpp` |
| **EM4100 image** (`Em4100Eprom.cpp`, `DataUtils`) | none | `generate` | `main.cpp` |
| **T5557 encoder** (`T5557Encoder.cpp`) | none | `encodeBlock`, `encodeParameters` | `main.cpp` |
| **Tool** (`main.cpp`) | options | read, program, reset | everything on the host |

How they interact.  The tool makes one control transfer after the other.  The
firmware polls: a turn of `main` receives at most one burst of packets, serves
it with the callbacks, and only after 5 ms without a packet looks at the pending
command and at the state of the transfer.  During a transfer the two interrupt
service routines share `_commonCtx`, `opOffset`, `opLength` and `ioBuffer` with
the main loop without a lock; the carrier clocks timer 0, which triggers the ADC.

What is hard, and what makes each part correct:

* *Engine.*  Interrupts come on in the middle of arming a transfer; multi-byte
  values are read piecewise; the buffer is bounded only by an equality; the
  request handler has no check that a transfer is running.  It is correct when a
  status with a verdict belongs to a finished transfer of that id, the buffer is
  filled or played exactly, and everything is quiet in between.
* *Enumeration.*  The address changes in two places, on both sides of a status
  packet that may be lost; tokens and data packets are lost one by one; other
  devices share the bus.  It is correct when host and reader agree in the end.
* *Endpoint.*  Tokens, data packets and acknowledgements are lost, each on its own, the
  host retries and gives up, and the firmware neither waits for acknowledgements nor
  filters duplicates, and takes a data packet for one of the last token it heard.
  It is correct when what the host counts as done was done, with the right bytes.
* *Calibration.*  Eight-bit arithmetic at the ends of the register.  It is correct
  when it ends, at the best value.
* *Interface and tool.*  Every call may fail before or after the reader acted; one
  look at the status after a fixed sleep; three transfers that program one tag; a
  process that gives up leaves a transfer behind for the next.  The tool is correct
  when an exit code of 0 means that coil and sampler did what was asked, and a failed
  programming leaves a prefix of its blocks on the tag.
* *Decoders.*  Small machines coupled by notifications, with counters that are
  not all reset together.  A chain is correct when a well-formed signal yields
  its token and a damaged one yields none.

The hazards, each at its line, are listed in `PROJECT.json`.

## 2. Modules

### TransferContract, TransferEngine

`TransferContract` is what a host may rely on: a start gives a fresh id, the
transfer is in progress until it completes or (only if it waits for an edge)
expires, a verdict stands until the next start, a restart forgets everything.

`TransferEngine` is `main.c`.  Correspondence:

| Code | Model |
|---|---|
| place of the main loop | `pc`: `"poll"` between requests, a label for each later step of a handler or of arming, `"boot"` in the boot loader |
| `SREG.I` | `irq`; the ISR actions need it, and run to their end because the AVR does not nest them |
| `usbFunctionSetup` | `EnableCoil`, `Query`, `RequestReset`, `RequestVector`, `TransferStart`/`StartState`/`StartReply`, `TransferStatus`/`StatusState`/`StatusHi`/`StatusLo` |
| `usbFunctionRead/Write` | `ReadData`, `WriteData`, one packet at a time |
| `main`, `fastctr = 0` | `JumpToBoot`, `ArmOffset` … `ArmClock`, `Finish` |
| `ISR(ADC_vect)` | `AdcEdge`, `AdcWait`, `AdcSample` |
| `ISR(TIMER0_COMPA_vect)` | `TimerLast`, `TimerPulse` |
| timer 0, ADC auto trigger | `CompareMatch` |
| ADATE+ADIE, TCCR0B, OCF0A, OCIE0A, OCR0A, COM1A0, DDR of the coil pin | `adcEnabled`, `clocked`, `compMatch`, `compIrq`, `rate`, `coilOn`, `coilPin` |

A statement of the main loop is a step of its own wherever an interrupt between
it and its neighbours can be told apart.  Samples and pulses are abstracted to
*who wrote the slot*: a transfer, by its id, or the host.  `Overlap` says whether
the host sends requests that change anything while a transfer runs; the tool
does not unless a run of it failed before.

What the model takes from the hardware's timing, and why:

* The sampler has served a compare match before the next one.  The prescaler is
  at least `PRESCALER_MINIMAL_VALUE` = 4 carrier periods, 528 CPU cycles; a
  conversion takes 216.
* The conversion that `_adcStart` forces takes longer than the few statements
  that remain of arming.
* The two writes of `opLength` are one step: the ISRs are off between them in
  every transfer the host starts when it should.
* The callbacks are atomic for a packet: with the discipline of the host no
  interrupt is on while they run.

Reset: `JumpToBoot` is the call of address 0 with interrupts as they are, and
`Reboot` the whole way back through the boot loader to `main`.  Registers that
neither the start-up code nor `_init` writes keep their value, which is what
`IdleQuiesced` is sensitive to.

### UsbEndpoint

Control transfers packet by packet.  The host's half (`Submit`, `GiveUp`, one
action for each kind of transaction, with the fate of its packets as parameters) is
what libusb and the host controller do for `doTransferRx`/`doTransferTx`; the
firmware's half is one turn of the poll, in two steps between which no packet is
taken: `ProcessSetup`, `ProcessOut`, `ProcessNothing` or `ProcessAstray`
(`usbProcessRx` with `usbFunctionSetup` or `usbFunctionWrite`), then `BuildTxBlock`
or `NothingToSend`.  A NAK is a
transaction that changes nothing, so it is no step.  A byte is known by the
request that produced it and its position in it, so a stale or displaced byte
differs from the right one; requests are numbered modulo `Tags`.

The requests of the model differ from the engine's in what they transfer only:
`"read"` and `"write"` of a vector, a `"reply"` from `response[]`, a `"command"`
without data.  What a request does to the engine is in TransferEngine.

With `Lossy` the bus may lose any packet: a token is heard, garbled (which clears the
one before) or missed (`Fates`), a data packet and an acknowledgement arrive or not
(`Arrivals`).  `usbCurrentTok` is the token the receiver has stored (`TokenAfter`), and
by `handleData` a data packet is one of that token, its own or not (`Takes`):

* A setup packet whose token was missed after an OUT is acknowledged as payload; its
  bytes are `SetupBytes`, of no request's payload.
* A payload packet whose token was missed after the SETUP is run through
  `usbFunctionSetup` (`Misread`).  Of eight bytes, it may be any of the requests in
  `Spelled`, for what the payload spells is not known; a shorter one is dropped (`Other`).
* `usbFunctionWrite`, handed a packet behind a vector read of which something was sent,
  copies to the addresses from `ioBufferOffset` on, because `dst` is `NULL` and
  `dstSize` is 0.  `ProcessAstray` then ends what is known of the device
  (`loop = "astray"`).

Two history variables tell which transfers the bus disturbed in a way the firmware does
not notice.  `repeated`: a payload packet was taken and had to be sent again because its
acknowledgement was lost; the duplicate is not filtered, so such a write may end with
a wrong payload (`WriteExact` leaves it out), though never with an old one
(`WriteCovers`).  `misread`: a packet of the transfer was taken for one of another
token.  The host may count such a transfer as done although nothing of it was, so the
properties are about the others (`Succeeded`).  The exemption is of the transfer itself
only: one that was misread and given up may precede, and its leavings in the receive
buffer, the transmit buffer and `command` do no harm to the next.

### Enumeration

The same endpoint from a port reset to a configured reader, with what `UsbEndpoint`
leaves out: other devices on the bus, addresses and bus resets, and what the packets of
the standard requests carry.  A transaction (`SetupTransaction`, `InTransaction`, `StatusOut`) is
one step with the fate of its token (`Fates`), of its data packet and of its
acknowledgement; `Overheard` is a transaction with another device, of which the
reader may miss the token and take the data packet (`asmcommon.inc` keeps
`usbCurrentTok`).  `Poll` is `usbProcessRx` with `usbDriverSetup`,
`usbDriverDescriptor` and `usbBuildTxBlock`; `BusReset` is main's reaction to both
lines low, which leaves every buffer as it is.  The transmitter takes the new address
over after a data packet (`usbdrvasm165.inc`), as `InTransaction` does.  A failed
request of the plan makes the host reset the port and begin again; later requests
just fail.  `strayed` notes that a data packet of another device was taken.  `got` is
what the host received, packet by packet, and `received` its length in bytes.

### OscCal

`_calibrateOscillator` on a register of `2 * FirstStep` values with an arbitrary
monotone curve from `OSCCAL` to the frame length, or, with `Silent`, a measurement that
finds no strobe within 10 ms and returns 0.  Types wrap where the code's do: the
register and the `uchar`s do, the bound of the `for` loop is an `int` and does not.

### Em4100, CarrierDecoder, CodingDecoders, DecodeChain

What `rfid-tool -r` does with a capture.  Three modules hold the classes of the
chain, each as a record of its members, its `reset()` and its step; `DecodeChain`
connects them as `main.cpp` does and adds the tag in front and `getSamples`' runs.

| Code | Model |
|---|---|
| `CarrierDecoder::checkPulses` | `CheckPulse`; its events are `SyncChanged` and `NewPulse` |
| `ManchesterDecoder`, `BiphaseDecoder::onEvent` | `ManchesterPulse`, `BiphasePulse` and the bits they notify, `ManchesterBits`, `BiphaseBits` |
| `Em4100Decoder::onEvent` | `DecodeBit`; `NewTokens` is its event |
| `Em4100Eprom::generate`, `DataUtils` | `Generate` |
| `getSamples`, from the bits on | `Collect` |
| listeners, notifications | `Pulse`, `DecodeBits`: one step for all that a run sets off |
| `Em4100DecoderListener` | `reports`, a set: how often a token is reported is not told apart |

Sizes are the code's own: 64 bits of image, 1536 samples of 64 microseconds, all
three dividers.  A tag repeats its image (block 1, then block 2, in the order in
which `encodeBlock` sends them), and since both it and the sampler are clocked by
the carrier a half bit is exactly 1, 2 or 4 samples; which half of a Manchester
one is high is a matter of wiring, and the model has it as the decoder needs it.
The sampler waits for a falling edge but takes the first high sample for one, whatever
was before (section 5, `engine_edge`), and the capture begins with the next sample.  So
its first sample is anywhere in a high run, or the first of the low run behind it
(`FirstSample`).  `TakeCorrupted` turns a sample over; each tag has a bound
on how often, its `noise`.

### ReaderDevice, HostTool

`HostTool` is the tool as processes, one after the other: `InterfaceUsbImpl`'s search
(`Skip`, `OpenFails`, `Found`, `NotFound`), version and sizes, then what `main` does
with its options.  A `usb_control_msg` is one step: `Answered` and what follows when
`checkResponse` accepts it, `Refused` when `checkConnection` throws, `Failed` when the
call does, before or after the reader acted.  `TransferStart(2)` is a start that the
bus made the reader handle twice.  A `PULSE_VECTOR_WRITE` that succeeds leaves the
pulses in the buffer unless the bus disturbed it as `UsbEndpoint` has it: a packet
handled twice shifts what follows, one that is taken for a setup packet is missing and so
are those behind it (`Junk`), and when that was the first the buffer stays as it was
(`Delivered`).  The
tool does not notice; `disturbed` notes the block.  `Wake` is the end of
`usleep(500 * 1000)`.

What is left out of this: the pulses spell no request that the reader knows, as a setup
packet made of them has pulse lengths where the request is.  Answers that
`checkResponse` accepts are taken as right, which is `DataExact` of `UsbEndpoint`, and
what `ProcessAstray` writes behind a capture that was not fetched to its end is nowhere
in this module.

`ReaderDevice` is the engine as that process sees it: `phase` is the state of the
transfer, `age` how many sleeps it lasts, `mixed` the interrupts of an older transfer
that a new start does not switch off, `whole` that nothing interfered with the run in
progress.  The detail of a transfer is TransferEngine's; here two of them may meet,
because a process that failed left one behind.  `Replug` pulls the reader out at any
moment: the handle becomes stale and the registers those of a fresh reader.

### T5557Write

Programming down to the tag's memory: `Configuration` and `EncodeBlock` are
`T5557Encoder`, `PulseVector` and `Packed` are `putSamples`, `PlayPulse` and `StopTx`
are `ISR(TIMER0_COMPA_vect)`, whose length goes through the byte-wide `OCR0A`.  The
tag is external: it measures how long the field is on between gaps and takes what falls
into the ranges written in `T5557Encoder.cpp` for a bit.  What it stores is read back
as `DecodeChain` has a tag send it.

## 3. Runs

| Run | Question | Bounds |
|---|---|---|
| `engine` | All safety properties, the contract, and that transfers end and resets are carried out, for a host that waits for the verdict | 2 bytes of 3 samples, packets of 1, one id bit, one count of timeout; all vector commands; the tool's transmission, and receptions that wait for a rising edge or for none |
| `engine_edge` | violation, see 5 | 1 byte of 3 samples, the tool's starts |
| `usb` | What the host counts as done was done, byte by byte | packets of 2 bytes, a vector of 4 to read and one of 3 to write, 3 tags; tokens, data packets and acknowledgements may be lost, each on its own; a misread payload may spell a vector read or a reply |
| `usb_live` | Without losses every transfer succeeds | as `usb`, no loss |
| `enumeration` | Replies, address and configuration are right, and the host gets through | the requests of a Linux host at their real lengths, three later ones, three of other devices; 4 lost packets |
| `osccal` | Best value, and the function returns | 3 bits, every monotone curve within 2 of the target that crosses it inside the register |
| `osccal_silent` | violation, see 5 | as `osccal`, with a silent bus |
| `tool` | What a process reports is what coil and sampler did; every process ends | 3 blocks, ids modulo 3, seven choices of options, three benches of devices; every call may fail, a start may be handled twice, a write may succeed with other contents, the reader may be unplugged |
| `tool_locked` | violation, see 5 | as `tool`, a reader that `usb_open` refuses, and no call that fails |
| `program` | The tag stores what was asked for, or a prefix of it | real sizes; three programs one after the other in any order, each broken off anywhere |
| `chain` | A capture yields the tag's token and no other | two tokens, both codings, three dividers, begun anywhere in a high run or at its end (for the alternating token in every second bit); for README's token also one corrupted sample anywhere in captures that begin in one of two half bits, and two at divider 16 in those that begin in one |
| `chain_detect` | violation, see 5 | token 0, Manchester at 32, begun anywhere |

Why the bounds are enough.

* *Engine.*  The sizes matter by comparison only (offset against length, byte boundary
  in a reply, wrap of the id); the instance has a buffer with a byte boundary inside a
  transfer, packets shorter than it, a reply whose two bytes differ and an id that
  wraps.  The proofs of 4 are for all sizes.
* *Endpoint.*  A vector that fills its packets (192 bytes in the firmware), a payload
  that ends in a short packet behind a full one (so that either may be misread), and a
  request left over from the transfer before are the cases the code distinguishes.
  Proved for all sizes too.
* *Enumeration.*  Lengths are the real ones, so full, short and empty last packets
  occur.  Four losses are one more than the three tries of a transaction: one request
  fails for good, and the recovery is disturbed once more.
* *Calibration.*  Three bits leave room for two values beyond the three neighbours on
  either side.  Proved for all widths.
* *Tool.*  A process has at most three transfers; older ones matter through what is
  left in `ReaderDevice`, so the second process meets every leftover.  A wait is
  counted in the code's own units: 60000 counts for a read, and for a write what
  remains of 480000 in 16 bits, against 15625 in a sleep.
* *Programming.*  Nothing is scaled down.  Between them the programs have both codings,
  three bit rates and images of many and of few ones; two share their token and differ
  in the configuration only.
* *Chain.*  Sizes are real; what is bounded is the tokens and the noise.  The bounds on
  noise are sharp: two corrupted samples suffice for a synchronisation at a wrong
  divider (`LocksOnTheDivider`), hence two only at the divider tried first; three are
  enough for another token with all parities right (`OwnDecoderRight`).  `OnlyTheTag`
  is about clean signals, for with noise it depends on the token: of token 0 in biphase
  a single corrupted sample makes the Manchester decoder report another.  Section 4
  proves it for the tokens that are `Unmistakable`, which three of the four pairs of
  token and coding of this run are; the token of the repository's README in biphase is
  not, as it has thirteen zeros in a row, and there the run is all that shows it.

Fairness.

* `FairSpec` of the engine: weak fairness of the handler, of arming, of timer and
  interrupts, as nothing holds them up for ever; strong fairness of the evaluation,
  because the 5 ms of silence it needs come again and again but not for good: the tool
  sleeps 500 ms between starting a transfer and asking for its status.  Under weak
  fairness, a host that polls without a pause, a transfer never even starts
  (`main.c:614-615`).
* `PatientSpec` of the endpoint: the host retries a transaction and does not reach its
  timeout of seconds, and the main loop polls.
* `FairSpec` of `Enumeration`: the loop polls, the host goes on, and a transaction of
  which nothing is lost happens in the end; losses are finite (`MaxFaults`).
* `FairSpec` of `HostTool`: the process and the reader's loop run, a wait expires and a
  run ends as long as the carrier is on.  Launching, unplugging and failing are not
  fair: they may happen or not.
* `FairSpec` of calibration: the function runs.

Deadlock is checked everywhere but in `OscCal`, whose function returns, and in
`DecodeChain`, whose capture ends.

Every property of a passing run has a mutant of the code that breaks it; the
mutants stand next to the definitions they replace.

## 4. Proofs

`TransferEngine_proofs`, for buffers, packets, ids and offsets of every size
(`SizesAssumption`: positive sizes, lengths that fit the offset) and any set of
starts.

*Whatever the host does:* `TypeCorrect`, `VectorsBounded`, `IdleIsMasked`,
`RepliesExact`.  The last needs more than itself: `VerdictStands` says that from
the moment the handler has read `IDLE` neither the state nor the offset changes
under it, because interrupts are off in `IDLE` (`IdleMasked`) and only the main
loop, which is busy with the reply, could turn them on.

*For a host that does not interfere* (`NoInterference`: no overlap, and no
transmission without edge): `Quiesced`, `StaysInBuffer`, `ReleasesCoil`,
`ReceivesAll`, `KeepsPulses`, `SamplesAtRate` and `Implements`, the refinement of
`TransferContract`.  None of these is inductive.  Each follows from `Discipline`,
the inductive invariant, in three parts: `MainLoop` (what the main loop knows at
each `pc`), `Transfer` (what each state of a transfer says of interrupts, timer,
sampler and coil) and `Data` (what is in the buffer).  For instance, that a
finished reception has filled the buffer needs that in `RX` every slot below the
offset carries the id, which needs that the offset was 0 when `RX` began, which
needs that no interrupt was on while the transfer was armed.  The invariance
lemmas have one step per action; types are split into `Flags` and `Values` as no
single backend does both.

`UsbEndpoint_proofs`: `OwnRequestAnswered`, for all requests, sizes, meanings of a
misread payload and losses, for transfers that are not `misread` themselves.  Its
invariant `SetupKnown` follows the setup packet from the receive buffer to the request
being served.

The same module, for packets, vectors and requests of every size and any losses: `TypesCorrect`, `ReadsExact`, `WritesExact` and `WritesCover`, the last two
for payloads no longer than their vector (`PayloadsFit`), as the tool's are.

* For a write (`WriteInv`) host and firmware are two counters, `moved` and
  `ioBufferOffset`, with a packet in the receive buffer between them (`Payload`).  Once
  the host has seen its setup packet acknowledged, the firmware either still holds that
  packet (`SetupHeld`) or is never behind the host (`WriteGoesOn`); as long as no packet
  was repeated it is not ahead either, which is what makes the difference between
  `WriteCovers` and `WriteExact`.  With a packet that was taken for one of another token
  the two counters part for good, which is why a `misread` write is exempt.
* For a read (`ReadInv`) nothing tells the firmware that a packet was lost.  Either all
  it has produced is with the host or in flight, each byte in its place (`NothingLost`),
  or the host has fewer bytes than were produced (`SomeLost`), and that never changes
  back.  As no more is produced than was asked for, a transfer of full length is of the
  first kind.  The data toggle plays no part in the argument: whichever packets the host
  drops, a gap costs length.

`OscCal_proofs`: `BestValueKept`, for a register of any width and any monotone curve
that crosses the target inside it (`Interior`), when the bus is not silent.  The
invariant holds a bracket: the trial value is the last one known to be too slow, and
some value at most two steps above it is not (`Bracket`).  When the step is used up,
no value below the trial value is nearer to the target than it, and none beyond the
next is nearer than the next, so the best neighbour (`Comparing`) is the best of all.
The powers of two are a constant, `Steps`, of which the assumption says only that each
is 1 or twice another.

`HostTool_proofs`, for any number of blocks, width of ids, commands, benches and
failures: `UnsupportedLeftAlone`, `SuccessLeavesNothing`, `VerdictIsOwn`,
`BlocksInOrder` and `CaptureIsOwn`.  The invariant has four layers, each proved with
those before it: `Control` (handle and version at every step), `Route` (what the options
say of the step), `Own` (the transfer of the process has its id, and cannot expire
before it was asked about, as `SleepAssumption` has the sleep shorter than either wait)
and `Data` (while the process is not `hasty`, what was sent is the blocks up to this one,
whole but for the `disturbed` ones, and the buffer is `Ready` for the next and holds what
the phase says).  `BlocksInOrder` says of a disturbed write that its block is still sent
in its turn and once; what is in it then is not known.

`Enumeration_proofs`: `RepliesRight` and `ReaderConfigured`, for every plan of requests,
every packet size and any number of lost packets.  The invariant (`IInv`, in parts for
the host, the address, the receiver and the stages) says what it does until a packet of
another device was taken; then nothing is known.  While the host has nothing of a reply,
its setup packet is still in the receive buffer (`Pending`) or it will give up
(`Spent`).  While it has something (`Serving`), either everything produced is with the
host or waits in the transmit buffer, with the toggle that tells which (`InStep`), or
the host is behind by more than what waits (`Behind`) and can only come to a short reply.
`PlanAssumption` leaves out a plan that never addresses or configures the reader, that
asks for the configuration before selecting one, and one with a full reply of an even
number of whole packets: that is the empty packet of section 5, after which the reply
to the next request may indeed be wrong.

`Em4100_proofs`, for tokens of any number of rows and any preamble: `GenerateType`, the
form of the image, and lemmas on the decoder of a frame that the next two modules cite.
A decoder stays within its buffers and takes its data to be whole nibbles
(`RecordSound`, `DecodeBitSound`).  Fed with the endless repetition of an image it
`Follows` it.  `PreambleUnique`: at least nine ones end nowhere but at the end of the
preamble or, behind it, among ones of the first rows.  A frame found there is either the
token's (`FollowsReports`) or one whose parities or stop bit fail.

`T5557Write_proofs`, for every program, that is token, coding and rate, and after any
number of programs broken off: `ProgramTypes` (the player stays in its buffer, a length
in its byte), `ProgramPrefix` and `ProgramReads`.  The invariant has the memory of the
tag as the first blocks of the program `Written` over the old ones (`MemoryInv`), and
while a frame is played what the tag has heard of it as a function of the offset
alone (`PlayerInv`, `PlayedTag`); one pulse more is one bit more, or the end of the
frame.  Both numbers are known, which is what spares the proof an induction over data:
the words of the code are functions of 32 places.  `WriteAssumption`
has the sizes of the code: words of 32 bits, seven usable pulse lengths, a buffer in
which a frame fits.

`DecodeChain_proofs`, for every token and tag, carrier frequency, length of the capture
and limits of the decoders, on the four prescalers for which a half bit is whole samples:

* `CarrierSound`, behind any signal: the counters of the carrier decoder never pass the
  limits at which they are tested, and it is synchronised only after more than four runs
  of each length.  The invariant, `SoundCarrier`, adds the ranges of the counters (they
  are bytes, and the two run counts do wrap).  `ChainTypes` adds the other stages.
* `LocksRight`: while one sample at most is corrupted, the divider found is the tag's.
  The invariant, `Rhythm`, relates each run to the half bits of the signal: a run that
  begins and ends at changes of the level is one or two half bits long (`Regular`), and
  such a run is short at no smaller divider and long at no greater.  `Doubt` is the
  counter in which a wrong divider must collect its evidence, or for the right one its
  misfits, and `Doubt <= 3 * flips + 1`: a corrupted sample spoils the run it ends or
  joins, its own and the next, and the first run of a capture may be short.  Five are
  needed, so the bound of one sample is sharp, as section 3 says of the run.
* `LocksAlways` and `SyncStays`: with more corrupted samples, if the reception is good
  enough for the thresholds (`GoodReception`, which the tags of the run satisfy).
* `ReadsRight`: of a capture without corrupted samples, begun anywhere inside a high run
  or at its end, the decoder of the tag's own coding reports the tag's token or nothing.  The invariant, `Heard`, is about every run
  from its beginning (`RunFrom`): the bit decoder is `Ready` for it, either in phase with
  the bits, and the frame decoder has followed the image to this place, or half a bit
  out of phase, which it can be only from the reset until the first two bits that differ
  (Manchester) or the first one (biphase), and then it has notified zeros only, so the
  frame decoder is idle.  The hypothesis of a preamble of nine (`LongPreamble`) is what
  makes it unique; `ErrorTreshold > 1` keeps a divider that was found from being given
  up for the first run, after which the frame decoder, which no one resets, would go on
  with half a frame.
* `ReportsOnlyTheTag`: and the decoder of the other coding reports nothing, if the image
  is `Unmistakable`.  Of a Manchester signal the biphase decoder makes a one wherever a
  bit differs from the one before, so it needs ten alternating bits for a preamble; of a
  biphase signal the Manchester decoder makes ones of zeros that follow a one, so it
  needs eight zeros.  The invariant, `Overheard`, says that at the start of a run its
  frame decoder has counted no more ones than the image has such bits before this place
  (`Aloof`).  95 of 100 random tokens are unmistakable in Manchester, 86 in biphase.
  It is no theorem of all tokens: section 5 has one that is read as another.

`HostTool_proofs` has `TypesAlways` beside the five above.

Termination is liveness, but the number that argues for it is not.  `StepsRunOut`: each
step of calibration makes a natural number, at first `FirstStep + 5`, smaller.
`RunStepsRunOut`: so does each step of a process of the tool, at first five, one for
each device and five for each block, but for `OpenFails`; the reader, a restart of it or
its unplugging give none back.  `TransferRunsOut`, for a host that does not interfere:
so does each step of a transfer in the firmware (`Work`: what is left of the start, the
counts left of the timeout, the slots left of the buffer, and whether a compare match is
pending), and no step of the host or of the USB driver gives any back.  `NeverIsStuck`:
until the engine is idle again there is always one of them to take, in a handler, by an
evaluation or by an interrupt that is on, as long as the carrier is on.  What the
provers cannot say is that this step is enabled and then taken; the runs check that,
under the fairness of section 3.

Model-checked only:

* everything temporal under fairness, which the proof system does not reach:
  `TransferEnds`, `ResetHonoured`, `EveryTransferSucceeds`, `CalibrationEnds`,
  `RunEndsUnlessLocked`, `Enumerates`;
* `ReadInOneCapture`, which depends on what a particular token looks like to the
  detection of the divider, and which section 5 shows to fail for some tokens;
* `OnlyTheTag` for tokens that are not `Unmistakable`: whether the other decoder, after
  its preamble, finds ten rows with their parities, depends on every bit of the token;
* `OwnDecoderRight` with corrupted samples, which depends on the token as well.

## 5. Disagreements between the code and what it says of itself

* `engine_edge`: the test for an unknown last signal never holds (`main.c:193`), so
  the first sample after a start may be taken for an edge.  `DecodeChain` begins its
  captures accordingly, and shows that the decoders do not mind.
* `osccal_silent`: on a bus without strobes calibration never returns (`main.c:562`):
  every measurement is 0, the search ends at 255, and the register never exceeds 256.
* `chain_detect`: auto detection of the divider (`CarrierDecoder.cpp:73`) needs ten
  misfits in fifty pulses.  The long pulses of a divider are the only misfits at the
  one before, so a token whose bits seldom change is never read: token 0, which is
  what the tool programs by default, in Manchester at 32 and 64.
* `tool_locked`: a device of the reader's ids that `usb_open` refuses is tried again
  without end (`InterfaceUsbImpl.cpp:227`), as the loop goes on without `dev->next`.

Seen, though no run shows it:

* Commands are evaluated after 5 ms without a packet (`main.c:614-615`), so a host that
  polls the status faster than that keeps its own transfer from starting.
* A transmission that waits for no edge runs with the sampler's interrupt on
  (`main.c:667`), which overwrites the pulses it plays.  The tool always waits.
* Any nine ones are a preamble (`Em4100Decoder.cpp:57`): with ones in the first row a
  capture that begins inside the preamble may find one that ends in that row, and then
  the same again in the next repetition.
* Some tokens have a second reading.  The Manchester signal of token 7258888889 is the
  biphase signal of token 999999BB01, at the same rate, and the tool reports both
  (`main.cpp:240-248`).  Nothing in the signal tells them apart.
* `usbFunctionWrite` (`main.c:404`) reports the end of the payload with every packet,
  against `usbdrv.h:265`; `WriteExact` shows that nothing comes of it, thanks to the
  check for an unprocessed packet in `handleIn`.
* In calibration a curve that crosses the target below `OSCCAL` = 1 ends the search at
  0, whose neighbours are not tried because the loop starts at -1, which the register
  holds as 255.  `Interior` leaves such curves out.
* A reply of exactly two full packets leaves an empty third one in the transmit buffer.
  If the token of the next setup packet is missed, the host may take it for the status
  of that request.  No request of the enumeration has this length.
* A data packet whose token was missed is taken with the token before it
  (`asmcommon.inc:126`), also when it was for another device: `strayed`.  One of the
  own transfer may so be answered by a packet left over from the transfer before, or be
  missing from the payload: `misread`.  A setup packet taken so goes to
  `usbFunctionWrite`, against `usbdrv.h:260-261`, by which it gets payload, and into the
  vector of the request before.  If that request was a read of which something was sent,
  `dst` is `NULL` and the loop, which stops only at equality with `dstSize` = 0, copies
  to the addresses from `ioBufferOffset` on (`main.c:382-402`): `ProcessAstray`.
* A payload packet whose acknowledgement is lost is written twice (`usbconfig.h:205`,
  `main.c:396-404`).  The call succeeds, the coil plays the shifted block and the tool
  exits with 0: `disturbed`.
* The timeout of a transmission, `60000 * CARRIER_US` = 480000, is passed as `uint16_t`
  (`InterfaceUsbImpl.cpp:436`), which leaves 21248; `OwnVerdict` shows that this is
  still enough for the tool's one look after 500 ms.

## 6. Not modelled

* The bit level of USB (`usbdrvasm165.inc` but for the change of address, and the
  receivers for other clock rates, which are not compiled): line coding and timing are
  counted in CPU cycles, and what they do to a packet is in the fates of
  `UsbEndpoint` and `Enumeration`.
* Calibration as a part of a bus reset: `OscCal` and `Enumeration` have the two halves.
  A measurement is exact or, with `Silent`, 0; noise in it is left out.
* A bus reset while a transfer runs.  The inner loop notices it between two evaluations
  and changes the clock, not the transfer; samples taken meanwhile have another rate,
  which no model here has.
* The watchdog, which only the boot loader sets.
* A tag that is exchanged or removed during a capture.
* The tool's log, its notifier, factory and exception classes: no protocol of their own.
* Schematic, board and other documents.

## 7. Plan

Done: every module of section 2, and proofs for all of them.  Every safety and action
property of a run is a theorem but for `ReadInOneCapture`; `OnlyTheTag` is one for the
tokens that are `Unmistakable`.

To prove next, in this order:

1. `ReaderDevice` as an abstraction of `TransferEngine` for the tool's starts, by a
   refinement mapping that forgets the samples; `TransferContract` is the common part.
   `ReaderDevice` counts time in sleeps of the tool, of which the engine knows nothing, so
   the mapping needs a variable beside the engine's.
2. `ReadInOneCapture` for the tokens with enough long pulses: a bound on the pulses
   until each of the dividers tried is given up.
