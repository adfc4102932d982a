------------------------------ MODULE HostTool ------------------------------
(***************************************************************************)
(* The command line tool (rfid-tool/src/main.cpp) and its USB interface    *)
(* (InterfaceUsbImpl.cpp): one process after the other, each looking for   *)
(* the reader, asking for its version and then resetting it, reading a tag *)
(* or programming one, block by block.                                     *)
(*                                                                         *)
(* A call of usb_control_msg is one step; it may fail before or after the  *)
(* reader has acted (UsbEndpoint has the packets).  Any failure throws, and*)
(* main's handler ends the process with -1.  The reader goes on by itself, *)
(* also between two processes, and may be unplugged at any time.           *)
(***************************************************************************)
EXTENDS ReaderDevice

CONSTANTS
  Blocks,         \* blocks programmed: configuration and two of data
  Benches,        \* what usb_get_busses may list: sequences of devices
  Commands,       \* the options the user may give
  MayFail         \* may usb_control_msg fail?

\* A foreign device; one with the reader's numbers and another product string; one
\* that usb_open refuses; a reader.
Devices == {"foreign", "other", "locked", "reader"}

\* `complete`: modulation and bit rate were given, and known.
Options == [showHelp: BOOLEAN, resetIface: BOOLEAN, read: BOOLEAN, write: BOOLEAN,
            complete: BOOLEAN]

\* getSamples and putSamples pass a uint16_t: 60000 carrier periods of 8 us
ReadTimeout  == 60000
WriteTimeout == (60000 * 8) % 65536

ASSUME ToolAssumption ==
  /\ Blocks \in Nat \ {0}
  /\ Benches \subseteq Seq(Devices)
  /\ Commands \subseteq Options
  /\ MayFail \in BOOLEAN

\* A sleep of 500 ms is shorter than both waits.
ASSUME SleepAssumption == Sleep <= WriteTimeout

VARIABLES
  pc,             \* "away", or the step of the process that runs
  options,
  exit,           \* what the last process returned: 0, -1, or 1 while it runs
  list,           \* the devices not yet looked at
  handle,         \* this->handle: "none", "open", or "stale" when the reader is gone
  known,          \* this->version is set
  supported,      \* the reader has firmware 0.1
  block,          \* the block to be programmed next
  transferId,
  verdict,        \* the last answer of TRANSFER_STATUS
  samples,        \* what PULSE_VECTOR_READ has brought
  hasty,          \* the process was launched while a transfer was going on
  disturbed       \* the blocks whose pulses a successful write did not leave as they are

toolVars == <<pc, options, exit, list, handle, known, block, transferId, verdict,
              samples, hasty, disturbed>>
vars == <<toolVars, supported, deviceVars>>

Steps == {"search", "version", "sizes", "dispatch", "reset", "widths", "pulses", "start",
          "sleep", "status", "fetch"}

NoOptions == [o \in {"showHelp", "resetIface", "read", "write", "complete"} |-> FALSE]

Init ==
  /\ Fresh /\ played = <<>>
  /\ supported \in BOOLEAN
  /\ pc = "away" /\ options = NoOptions /\ exit = 1
  /\ list = <<>> /\ handle = "none" /\ known = FALSE
  /\ block = 0 /\ transferId = 0 /\ verdict = "none" /\ samples = Junk
  /\ hasty = FALSE /\ disturbed = {}
-----------------------------------------------------------------------------
\* The process ends: the destructor closes the handle.
Exit(code) == pc' = "away" /\ exit' = code /\ handle' = "none"

\* The options, checked before the reader is looked for
Rejected(o) == o.showHelp \/ (o.write /\ ~o.complete)

Launch(o, bench) ==
  /\ pc = "away"
  /\ options' = o
  /\ IF Rejected(o) THEN pc' = "away" /\ exit' = -1 ELSE pc' = "search" /\ exit' = 1
  /\ list' = bench
  /\ handle' = "none" /\ known' = FALSE /\ block' = 0
  /\ verdict' = "none" /\ samples' = Junk
  /\ hasty' = (phase # "idle") /\ disturbed' = {}
  /\ played' = <<>>
  /\ UNCHANGED <<transferId, supported, phase, tx, timeout, timedOut, id, age, mixed, whole,
                 buffer, widths>>

(***************************************************************************)
(* The search of InterfaceUsbImpl's constructor.                           *)
(***************************************************************************)
Searching == pc = "search" /\ UNCHANGED <<deviceVars, supported>>

\* Mutant: a device with another product string is looked at again
NextIfForeign == IF Head(list) = "foreign" THEN Tail(list) ELSE list

\* dev = dev->next
NextDevice == Tail(list)

\* Not ours, or its product string is not read: the code that would read it another
\* way leaves the buffer empty.
Skip ==
  /\ Searching /\ list # <<>>
  /\ \/ Head(list) \in {"foreign", "other"}
     \/ Head(list) = "reader" /\ (MayFail \/ phase = "boot")
  /\ list' = NextDevice
  /\ UNCHANGED <<pc, options, exit, handle, known, block, transferId, verdict, samples, hasty,
                 disturbed>>

\* usb_open fails: `continue` without a step to the next device
OpenFails == Searching /\ list # <<>> /\ Head(list) = "locked" /\ UNCHANGED toolVars

Found ==
  /\ Searching /\ list # <<>> /\ Head(list) = "reader" /\ phase # "boot"
  /\ handle' = "open" /\ pc' = "version"
  /\ UNCHANGED <<options, exit, list, known, block, transferId, verdict, samples, hasty,
                 disturbed>>

\* getVersion throws NotConnectedException
NotFound ==
  /\ Searching /\ list = <<>>
  /\ Exit(-1)
  /\ UNCHANGED <<options, list, known, block, transferId, verdict, samples, hasty, disturbed>>
-----------------------------------------------------------------------------
(***************************************************************************)
(* Control transfers.  Each step of Talking is a call of doTransferRx or   *)
(* doTransferTx; Request is what it makes the reader do.                   *)
(***************************************************************************)
Talking == {"version", "sizes", "reset", "widths", "pulses", "start", "status", "fetch"}

Reading == options.read

\* Mutant: a version that was read is not looked at
VersionUnchecked == handle # "none"

\* checkConnection
Checked == handle # "none" /\ (known => supported)

StartTransfer(times) ==
  IF Reading THEN Start(FALSE, ReadTimeout, times) ELSE Start(TRUE, WriteTimeout, times)

\* What PULSE_VECTOR_WRITE leaves in the buffer, also when it succeeds: the pulses; a
\* shift of them when a packet was handled twice, as nothing looks at its toggle, or a
\* part when one was taken for a setup packet; and what was there, when that was the
\* first.  No packet of the tool spells a request that the reader knows.
Delivered == IF MayFail THEN {Pulses(block), Junk, buffer} ELSE {Pulses(block)}

Request(times) ==
  \/ pc = "reset" /\ RequestReset
  \/ pc = "widths" /\ WriteWidths
  \/ pc = "pulses" /\ \E content \in Delivered : WriteBuffer(content)
  \/ pc = "start" /\ StartTransfer(times)
  \/ pc \in {"version", "sizes", "status", "fetch"} /\ UNCHANGED deviceVars

\* The bus may make the reader handle a setup packet twice.  Only TRANSFER_START does
\* not do the same again; for the packets of a payload see Delivered.
Times == IF MayFail THEN {1, 2} ELSE {1}

\* A transfer that checkResponse accepts
Answered(step, times) ==
  /\ pc = step
  /\ Checked
  /\ handle = "open" /\ phase # "boot"
  /\ Request(times)
  /\ UNCHANGED <<supported, options, list, hasty>>
  /\ pc # "pulses" => UNCHANGED disturbed

\* One that fails, or that checkConnection refuses
Refused ==
  /\ pc \in Talking /\ ~Checked
  /\ Exit(-1)
  /\ UNCHANGED <<deviceVars, supported, options, list, known, block, transferId, verdict,
                 samples, hasty, disturbed>>

Failed ==
  /\ pc \in Talking /\ Checked
  /\ MayFail \/ handle = "stale"
  /\ \/ UNCHANGED deviceVars
     \/ handle = "open" /\ phase # "boot" /\ Request(1)
  /\ Exit(-1)
  /\ UNCHANGED <<supported, options, list, known, block, transferId, verdict, samples, hasty,
                 disturbed>>

GetVersion ==
  /\ Answered("version", 1)
  /\ known' = TRUE /\ pc' = "sizes"
  /\ UNCHANGED <<exit, handle, block, transferId, verdict, samples>>

GetBufferSize ==
  /\ Answered("sizes", 1)
  /\ pc' = "dispatch"
  /\ UNCHANGED <<exit, handle, known, block, transferId, verdict, samples>>

\* main, after the constructor: a reset comes first, then reading, then programming
Dispatch ==
  /\ pc = "dispatch"
  /\ IF options.resetIface THEN pc' = "reset" /\ UNCHANGED <<exit, handle>>
     ELSE IF Reading THEN pc' = "start" /\ UNCHANGED <<exit, handle>>
     ELSE IF options.write THEN pc' = "widths" /\ UNCHANGED <<exit, handle>>
     ELSE Exit(0)
  /\ UNCHANGED <<deviceVars, supported, options, list, known, block, transferId, verdict,
                 samples, hasty, disturbed>>

Reset ==
  /\ Answered("reset", 1)
  /\ Exit(0)
  /\ UNCHANGED <<known, block, transferId, verdict, samples>>

\* putSamples
PutWidths ==
  /\ Answered("widths", 1)
  /\ pc' = "pulses"
  /\ UNCHANGED <<exit, handle, known, block, transferId, verdict, samples>>

PutPulses ==
  /\ Answered("pulses", 1)
  /\ disturbed' = IF buffer' = Pulses(block) THEN disturbed ELSE disturbed \cup {block}
  /\ pc' = "start"
  /\ UNCHANGED <<exit, handle, known, block, transferId, verdict, samples>>

\* Mutant: the answer to the first of two requests is taken
FirstId(times) == (id + 1) % IdModulus

\* Mutant: the id is kept wider than a byte
WideId(times) == id + times

\* response[0] of the answer that arrives
AnsweredId(times) == (id + times) % IdModulus

TransferStart(times) ==
  /\ Answered("start", times)
  /\ transferId' = AnsweredId(times)
  /\ pc' = "sleep"
  /\ UNCHANGED <<exit, handle, known, block, verdict, samples>>

\* usleep(500 * 1000)
Wake ==
  /\ pc = "sleep"
  /\ IF phase = "boot" THEN UNCHANGED deviceVars ELSE TimePasses
  /\ pc' = "status"
  /\ UNCHANGED <<supported, options, exit, list, handle, known, block, transferId, verdict,
                 samples, hasty, disturbed>>

\* Mutant: only a timeout is an invalid state
NotTimedOut(answer) == answer # "timeout"

Accepted(answer) == answer = "ok"

TransferStatus ==
  /\ Answered("status", 1)
  /\ verdict' = Status(transferId)
  /\ IF ~Accepted(verdict') THEN Exit(-1) /\ UNCHANGED block       \* InvalidStateException
     ELSE IF Reading THEN pc' = "fetch" /\ UNCHANGED <<exit, handle, block>>
     ELSE /\ block' = block + 1
          /\ IF block' = Blocks THEN Exit(0) ELSE pc' = "widths" /\ UNCHANGED <<exit, handle>>
  /\ UNCHANGED <<known, transferId, samples>>

\* PULSE_VECTOR_READ, and the decoders (DecodeChain): no token is no error
Fetch ==
  /\ Answered("fetch", 1)
  /\ samples' = buffer
  /\ Exit(0)
  /\ UNCHANGED <<known, block, transferId, verdict>>
-----------------------------------------------------------------------------
\* Time passes between two processes, as long as it makes a difference.
Pause ==
  /\ pc = "away" /\ phase \in {"wait", "rx", "tx"}
  /\ TimePasses
  /\ UNCHANGED <<toolVars, supported>>

\* A wait expires while the tool sleeps, or later: the calls between two sleeps take
\* milliseconds.
LateEnough == pc \in {"sleep", "away"}

Ends == Received \/ Transmitted \/ (LateEnough /\ Expire)

Engine ==
  /\ Arm \/ Settle \/ Edge \/ Ends \/ Scramble \/ EndEarly
  /\ UNCHANGED <<toolVars, supported>>

\* RESET is carried out.  The tool that asked for it has no more to say.
Reboot ==
  /\ phase = "boot" /\ Restart
  /\ UNCHANGED <<toolVars, supported>>

Replug ==
  /\ Restart
  /\ handle' = IF handle = "open" THEN "stale" ELSE handle
  /\ UNCHANGED <<pc, options, exit, list, known, block, transferId, verdict, samples, hasty,
                 disturbed, supported>>

Tool ==
  \/ Skip \/ OpenFails \/ Found \/ NotFound
  \/ Refused \/ Failed
  \/ GetVersion \/ GetBufferSize \/ Dispatch \/ Reset
  \/ PutWidths \/ PutPulses \/ (\E times \in Times : TransferStart(times))
  \/ Wake \/ TransferStatus \/ Fetch

Next ==
  \/ \E o \in Commands, bench \in Benches : Launch(o, bench)
  \/ Tool \/ Pause \/ Engine \/ Reboot \/ Replug

Spec == Init /\ [][Next]_vars

\* The process runs, and so does the reader's main loop; a wait expires and a run
\* ends, as the carrier stays on.
FairSpec ==
  /\ Spec
  /\ WF_vars(Tool)
  /\ WF_vars((Arm \/ Settle) /\ UNCHANGED <<toolVars, supported>>)
  /\ WF_vars(Ends /\ UNCHANGED <<toolVars, supported>>)
-----------------------------------------------------------------------------
Contents == [is: {"pulses", "capture", "junk"}, of: Nat]

\* The values of a uint16_t
Counts == 0 .. 65535

\* Every variable has a value of its type, the counters the width of their C types.
TypeOK ==
  /\ phase \in Phases /\ mixed \in {"no", "sampler", "player"}
  /\ {tx, timedOut, whole, widths, known, supported, hasty} \subseteq BOOLEAN
  /\ timeout \in Counts /\ {id, transferId} \subseteq 0 .. IdModulus - 1
  /\ age \in Nat /\ {buffer, samples} \subseteq Contents /\ played \in Seq(Contents)
  /\ pc \in Steps \cup {"away"} /\ options \in Options /\ exit \in {-1, 0, 1}
  /\ list \in Seq(Devices) /\ handle \in {"none", "open", "stale"}
  /\ block \in 0 .. Blocks /\ disturbed \subseteq 0 .. Blocks - 1
  /\ verdict \in {"none", "ok", "in_progress", "timeout", "unknown"}

\* What main does with its options
Reads    == ~Rejected(options) /\ ~options.resetIface /\ options.read
Programs == ~Rejected(options) /\ ~options.resetIface /\ ~options.read /\ options.write

\* The first n blocks in their order, each as it was encoded, but for spoilt ones
InOrder(sent, spoilt, n) ==
  /\ Len(sent) = n
  /\ \A i \in 1 .. n : i - 1 \in spoilt \/ sent[i] = Pulses(i - 1)

\* When no transfer was going on at its start, a process makes the coil send the
\* blocks in their order, each once, the configuration first, however it ends; and it
\* ends with 0 only when all were sent.  Each is sent whole, if no packet of its write
\* was taken twice or for another.  A process that does not program makes it send nothing.
ProgrammedInOrder ==
  ~hasty =>
    /\ \E n \in 0 .. Blocks : InOrder(played, disturbed, n)
    /\ Programs /\ exit = 0 => InOrder(played, disturbed, Blocks)
    /\ ~Programs => played = <<>>

\* The samples that are decoded are all of them those of the transfer that this
\* process has started.
OwnCapture == ~hasty /\ Reads /\ exit = 0 => samples = Capture(transferId)

\* The status answer that is looked at is the one of the tool's own transfer, also
\* when the start was handled twice, and comes before its wait can have expired: the
\* tool never sees the timeout it has set.
OwnVerdict == verdict \notin {"unknown", "timeout"}

\* A process that has read or programmed with success leaves no transfer behind.
SuccessIsOver == (Reads \/ Programs) /\ pc = "away" /\ exit = 0 => phase = "idle"

\* A reader with firmware of another version is asked for it, and for nothing else.
UnsupportedUntouched ==
  ~supported => phase = "idle" /\ id = 0 /\ ~widths /\ buffer = Junk /\ played = <<>>

\* Every process ends.
RunEnds == pc = "search" ~> pc = "away"

\* Every process ends that does not meet a device it may not open.
RunEndsUnlessLocked ==
  pc = "search" ~> pc = "away" \/ (list # <<>> /\ Head(list) = "locked")
=============================================================================
