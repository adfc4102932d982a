---------------------------- MODULE ReaderDevice ----------------------------
(***************************************************************************)
(* The reader as its host sees it: what a request does at once and what    *)
(* the transfer engine of firmware/src/main.c does with it afterwards.     *)
(* TransferEngine has the detail of one transfer; kept here is what two    *)
(* transfers that meet can do to each other, and how long each lasts.      *)
(*                                                                         *)
(* Time is counted in sleeps of the tool (500 ms), `age` of them since the *)
(* transfer began to wait or to run.  A run lasts less than one sleep, an  *)
(* evaluation comes 5 ms after the last packet, a wait lasts `timeout`     *)
(* counts of the sampler, of which a sleep has Sleep.                      *)
(***************************************************************************)
EXTENDS Integers, Sequences

CONSTANTS
  IdModulus,      \* ids are a uint8_t: 256
  Sleep           \* counts of the waiting sampler in 500 ms, one each 32 us

ASSUME DeviceAssumption == {IdModulus, Sleep} \subseteq Nat \ {0}

VARIABLES
  phase,          \* _commonCtx.state, or "boot" from a RESET to the restart
  tx, timeout, timedOut, id,                                  \* _commonCtx
  age,
  mixed,          \* interrupts of an older transfer still run: its kind, or "no"
  whole,          \* nothing has interfered with the run in progress
  buffer,         \* what ioBuffer holds
  widths,         \* the host has written sampleVector since the restart
  played          \* what the coil has sent since the tool was launched

deviceVars == <<phase, tx, timeout, timedOut, id, age, mixed, whole, buffer, widths, played>>

Phases == {"idle", "starting", "wait", "rx", "tx", "finished", "boot"}

\* The pulses of a block, the samples of transfer n, or a mixture of contents
Pulses(b)  == [is |-> "pulses", of |-> b]
Capture(n) == [is |-> "capture", of |-> n]
Junk       == [is |-> "junk", of |-> 0]

\* The static initialisers
Fresh ==
  /\ phase = "idle" /\ tx = FALSE /\ timeout = 0 /\ timedOut = FALSE /\ id = 0
  /\ age = 0 /\ mixed = "no" /\ whole = TRUE /\ buffer = Junk /\ widths = FALSE
-----------------------------------------------------------------------------
(***************************************************************************)
(* What the requests of the tool do.                                       *)
(***************************************************************************)
\* The interrupts that are on go on with the parameters of the new transfer: the
\* sampler of a transfer that waits or receives, the timer of one that transmits.
StillRunning ==
  CASE phase = "tx"                               -> "player"
    [] phase \in {"wait", "rx"} /\ mixed = "no"   -> "sampler"
    [] OTHER                                      -> mixed

\* TRANSFER_START, handled once, or again when its acknowledgement was lost
Start(transmit, counts, times) ==
  /\ phase # "boot"
  /\ phase' = "starting"
  /\ tx' = transmit /\ timeout' = counts /\ timedOut' = FALSE
  /\ id' = (id + times) % IdModulus
  /\ mixed' = StillRunning
  /\ UNCHANGED <<age, whole, buffer, widths, played>>

\* PULSE_VECTOR_WRITE of the pulses of a block, or what the bus makes of them
WriteBuffer(content) ==
  /\ phase # "boot"
  /\ buffer' = content
  /\ whole' = (whole /\ phase \notin {"rx", "tx"})
  /\ UNCHANGED <<phase, tx, timeout, timedOut, id, age, mixed, widths, played>>

\* SAMPLE_VECTOR_WRITE.  The tool's blocks all have the same four lengths.
WriteWidths ==
  /\ phase # "boot"
  /\ widths' = TRUE
  /\ UNCHANGED <<phase, tx, timeout, timedOut, id, age, mixed, whole, buffer, played>>

RequestReset ==
  /\ phase' = "boot"
  /\ UNCHANGED <<tx, timeout, timedOut, id, age, mixed, whole, buffer, widths, played>>

\* Mutant: a run that has begun counts as done
StatusEarly(n) ==
  IF n # id THEN "unknown"
  ELSE IF phase \in {"starting", "wait"} THEN "in_progress"
  ELSE IF timedOut THEN "timeout" ELSE "ok"

\* The answer of TRANSFER_STATUS about transfer n
Status(n) ==
  IF n # id THEN "unknown"
  ELSE IF phase # "idle" THEN "in_progress"
  ELSE IF timedOut THEN "timeout" ELSE "ok"
-----------------------------------------------------------------------------
(***************************************************************************)
(* What the engine does meanwhile.                                         *)
(***************************************************************************)
\* STATE_STARTING in the main loop.  Both kinds of transfer wait for an edge.  The
\* sampler starts anew; the timer interrupt of an older transmission stays on.
Arm ==
  /\ phase = "starting"
  /\ phase' = "wait" /\ age' = 0
  /\ mixed' = IF mixed = "player" THEN mixed ELSE "no"
  /\ UNCHANGED <<tx, timeout, timedOut, id, whole, buffer, widths, played>>

\* STATE_FINISHED in the main loop
Settle ==
  /\ phase = "finished"
  /\ phase' = "idle"
  /\ UNCHANGED <<tx, timeout, timedOut, id, age, mixed, whole, buffer, widths, played>>

\* Whatever ends a transfer stops the timer, and with it every interrupt.

Edge ==
  /\ phase = "wait"
  /\ phase' = IF tx THEN "tx" ELSE "rx"
  /\ age' = 0
  /\ whole' = (mixed = "no")
  /\ buffer' = IF tx THEN buffer ELSE Junk
  /\ UNCHANGED <<tx, timeout, timedOut, id, mixed, widths, played>>

\* The counter may reach zero before the next sleep is over.
Expire ==
  /\ phase = "wait" /\ (age + 1) * Sleep > timeout
  /\ phase' = "finished" /\ timedOut' = TRUE /\ mixed' = "no"
  /\ UNCHANGED <<tx, timeout, id, age, whole, buffer, widths, played>>

\* The last sample
Received ==
  /\ phase = "rx"
  /\ phase' = "finished" /\ mixed' = "no"
  /\ buffer' = IF whole THEN Capture(id) ELSE Junk
  /\ UNCHANGED <<tx, timeout, timedOut, id, age, whole, widths, played>>

\* The end mark
Transmitted ==
  /\ phase = "tx"
  /\ phase' = "finished" /\ mixed' = "no"
  /\ played' = Append(played, IF whole /\ widths THEN buffer ELSE Junk)
  /\ UNCHANGED <<tx, timeout, timedOut, id, age, whole, buffer, widths>>

\* The sampler of an older transfer writes where the host has written
Scramble ==
  /\ phase = "rx" \/ mixed # "no"
  /\ buffer' = Junk
  /\ UNCHANGED <<phase, tx, timeout, timedOut, id, age, mixed, whole, widths, played>>

\* The older transfer reaches its end and takes the new one with it
EndEarly ==
  /\ mixed # "no" /\ phase \in {"starting", "wait", "rx", "tx"}
  /\ phase' = "finished"
  /\ mixed' = "no"
  /\ played' = IF mixed = "player" THEN Append(played, Junk) ELSE played
  /\ UNCHANGED <<tx, timeout, timedOut, id, age, whole, buffer, widths>>

\* 500 ms pass: the engine has evaluated, a run that was going on is over, a wait has
\* not lasted longer than it may.
TimePasses ==
  /\ phase \notin {"starting", "finished"}
  /\ phase \in {"rx", "tx"} => age = 0
  /\ phase = "wait" => age * Sleep <= timeout
  /\ age' = IF phase \in {"wait", "rx", "tx"} THEN age + 1 ELSE age
  /\ UNCHANGED <<phase, tx, timeout, timedOut, id, mixed, whole, buffer, widths, played>>

\* The restart after a RESET, or after the reader was unplugged
Restart ==
  /\ phase' = "idle" /\ tx' = FALSE /\ timeout' = 0 /\ timedOut' = FALSE /\ id' = 0
  /\ age' = 0 /\ mixed' = "no" /\ whole' = TRUE /\ buffer' = Junk /\ widths' = FALSE
  /\ UNCHANGED played
=============================================================================
