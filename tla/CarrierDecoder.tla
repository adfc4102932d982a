-------------------------- MODULE CarrierDecoder --------------------------
(***************************************************************************)
(* CarrierDecoder: which of the three bit rates the runs of a capture      *)
(* belong to, and whether each run is a short or a long pulse of that rate.*)
(*                                                                         *)
(* The decoder guesses a divider, counts runs that fit neither length, and *)
(* moves on to the next divider after ERROR_TRESHOLD misfits; every        *)
(* PULSE_MAX runs the count starts again.  More than four runs of each     *)
(* length with fewer than four misfits make a guess the divider of the     *)
(* capture.  Its two events are the operators SyncChanged and NewPulse.    *)
(***************************************************************************)
EXTENDS Integers

CONSTANTS
  PulseMax,             \* PULSE_MAX: 50
  ErrorTreshold,        \* ERROR_TRESHOLD: 10
  CarrierPulseLength    \* CARRIER_PULSE_LENGTH: 8, in microseconds

ASSUME CarrierAssumption ==
  /\ PulseMax \in 1..255
  /\ ErrorTreshold \in 1..255
  /\ CarrierPulseLength \in Nat \ {0}

Dividers == {16, 32, 64}

Carrier ==
  [carrierDivider: Dividers, pulseCount: 0..255, errorCount: 0..255,
   loCount: 0..255, hiCount: 0..255, hasSync: BOOLEAN]

\* The constructor's reset().
ResetCarrier ==
  [carrierDivider |-> 16, pulseCount |-> 0, errorCount |-> 0,
   loCount |-> 0, hiCount |-> 0, hasSync |-> FALSE]

\* updatePulseRange(): a quarter of a short pulse either way.
PulseLength(c) == (c.carrierDivider * CarrierPulseLength) \div 2
Within(length, us, delta) == us >= length - delta /\ us <= length + delta

PulseShort(c, us) == Within(PulseLength(c), us, PulseLength(c) \div 4)
PulseLong(c, us) == Within(2 * PulseLength(c), us, PulseLength(c) \div 4)

-----------------------------------------------------------------------------
(* checkPulses, for one run                                                *)

Increment(n) == (n + 1) % 256

\* Mutant: the slowest rate is never tried.
NextDividerSkips == [d \in Dividers |-> IF d = 16 THEN 32 ELSE 16]

NextDivider == [d \in Dividers |-> IF d = 64 THEN 16 ELSE 2 * d]

\* Mutant: the limit is exceeded before it is noticed.
ExhaustedLate(c) == c.errorCount > ErrorTreshold

Exhausted(c) == c.errorCount >= ErrorTreshold

NextCarrier(c) ==
  [carrierDivider |-> NextDivider[c.carrierDivider], pulseCount |-> 0,
   errorCount |-> 0, loCount |-> 0, hiCount |-> 0, hasSync |-> FALSE]

\* The run is counted, and a full window starts over.
Full(c) == Increment(c.pulseCount) = PulseMax

Counted(c) ==
  LET next == [c EXCEPT !.pulseCount = IF Full(c) THEN 0 ELSE Increment(@)]
  IN [next EXCEPT !.errorCount = IF Full(c) THEN 0 ELSE @]

Misfit(c) == [c EXCEPT !.errorCount = Increment(@)]

Tallied(c, us) ==
  CASE PulseShort(c, us) -> [c EXCEPT !.loCount = Increment(@)]
    [] ~PulseShort(c, us) /\ PulseLong(c, us) -> [c EXCEPT !.hiCount = Increment(@)]
    [] OTHER -> Misfit(c)

\* Mutant: long pulses are evidence enough.
SynchronisedByLong(c) == c.hiCount > 4 /\ c.errorCount < 4

Synchronised(c) == c.hiCount > 4 /\ c.loCount > 4 /\ c.errorCount < 4

Acquire(c, us) ==
  LET t == Tallied(c, us)
  IN [t EXCEPT !.hasSync = Synchronised(t)]

\* Mutant: once synchronised, long pulses are misfits.
TrackShort(c, us) == IF PulseShort(c, us) THEN c ELSE Misfit(c)

Track(c, us) ==
  IF PulseLong(c, us) \/ PulseShort(c, us) THEN c ELSE Misfit(c)

CheckPulse(c, us) ==
  CASE Exhausted(c) -> NextCarrier(c)
    [] ~Exhausted(c) /\ ~c.hasSync -> Acquire(Counted(c), us)
    [] OTHER -> Track(Counted(c), us)

\* EVENT_SYNC_CHANGED: a divider is given up or found.
SyncChanged(c, us) ==
  Exhausted(c) \/ (~c.hasSync /\ CheckPulse(c, us).hasSync)

\* EVENT_NEW_PULSE.  (The ranges of one divider do not overlap.)
NewPulse(c, us) ==
  /\ ~Exhausted(c)
  /\ c.hasSync
  /\ PulseLong(c, us) \/ PulseShort(c, us)
===========================================================================
