------------------------------- MODULE OscCal -------------------------------
(***************************************************************************)
(* _calibrateOscillator: what the firmware does with OSCCAL on a bus reset.*)
(* OSCCAL and the search's variables are bytes and wrap; the measured      *)
(* frame length is a function of OSCCAL that the hardware fixes, the       *)
(* larger the faster the oscillator runs.                                  *)
(***************************************************************************)
EXTENDS Integers

CONSTANTS
  FirstStep,    \* the first step of the search: 128
  Steps,        \* the values of step: the powers of two up to FirstStep
  Target,       \* targetValue: the frame length at F_CPU
  Oscillators,  \* the functions from OSCCAL to a frame length considered
  Silent        \* may the bus stay idle for a measurement?

Distance(n) == IF n < Target THEN Target - n ELSE n - Target

Size == 2 * FirstStep

Values == 0 .. Size - 1

ASSUME StepAssumption ==
  /\ FirstStep \in Steps /\ Steps \subseteq Nat \ {0}
  /\ \A s \in Steps : s = 1 \/ \E half \in Steps : s = 2 * half

ASSUME TargetAssumption == Target \in Nat /\ Silent \in BOOLEAN

\* A higher value never slows the oscillator down, and "this is certainly far away
\* from optimum": a length exceeds every deviation.
ASSUME OscillatorAssumption ==
  \A f \in Oscillators :
    /\ f \in [Values -> Nat]
    /\ \A v, w \in Values : v < w => f[v] <= f[w]
    /\ \A v, w \in Values : f[v] > Distance(f[w])

VARIABLES
  length,       \* the oscillator of this device
  OSCCAL,
  step, trialValue, x, optimumValue, optimumDev,
  pc            \* "search", "start", "neighbours" or "done"

vars == <<length, OSCCAL, step, trialValue, x, optimumValue, optimumDev, pc>>

\* A value assigned to a register or to an unsigned char
Wrap(n) == n % Size

Init ==
  /\ length \in Oscillators
  /\ OSCCAL \in Values
  /\ step = FirstStep /\ trialValue = 0
  /\ x = 0 /\ optimumValue = 0 /\ optimumDev = 0
  /\ pc = "search"

\* usbMeasureFrameLength: without a strobe for 10 ms it returns 0
Measured(v) == {length[v]} \cup {n \in {0} : Silent}

\* "frequency still too low"
TooSlow(n) == n < Target

\* do ... while (step > 0)
Search ==
  /\ pc = "search"
  /\ OSCCAL' = Wrap(trialValue + step)
  /\ x' \in Measured(OSCCAL')
  /\ trialValue' = IF TooSlow(x') THEN Wrap(trialValue + step) ELSE trialValue
  /\ step' = step \div 2
  /\ pc' = IF step' = 0 THEN "start" ELSE "search"
  /\ UNCHANGED <<length, optimumValue, optimumDev>>

StartNeighbours ==
  /\ pc = "start"
  /\ optimumValue' = trialValue
  /\ optimumDev' = x
  /\ OSCCAL' = Wrap(trialValue - 1)
  /\ pc' = "neighbours"
  /\ UNCHANGED <<length, step, trialValue, x>>

Deviation(n) == Distance(n)

\* Mutant: the loop stops one value early
LastNeighbourEarly == trialValue

\* Mutant: it stops one value late
LastNeighbourLate == trialValue + 2

\* OSCCAL <= trialValue + 1 is compared as int: the bound does not wrap
LastNeighbour == trialValue + 1

Neighbour ==
  /\ pc = "neighbours" /\ OSCCAL <= LastNeighbour
  /\ x' \in {Deviation(n) : n \in Measured(OSCCAL)}
  /\ IF x' < optimumDev
     THEN optimumDev' = x' /\ optimumValue' = OSCCAL
     ELSE UNCHANGED <<optimumDev, optimumValue>>
  /\ OSCCAL' = Wrap(OSCCAL + 1)
  /\ UNCHANGED <<length, step, trialValue, pc>>

Finish ==
  /\ pc = "neighbours" /\ OSCCAL > LastNeighbour
  /\ OSCCAL' = optimumValue
  /\ pc' = "done"
  /\ UNCHANGED <<length, step, trialValue, x, optimumValue, optimumDev>>

\* The function returns; the next bus reset calls it again.
Next == Search \/ StartNeighbours \/ Neighbour \/ Finish

Spec == Init /\ [][Next]_vars

\* The function runs in the main loop, which nothing interrupts for ever.
FairSpec == Spec /\ WF_vars(Next)
-----------------------------------------------------------------------------
\* The target is crossed where the neighbours of the best value do not leave the register.
Interior(f) == f[1] < Target /\ f[Size - 2] >= Target

\* The value that calibration leaves in OSCCAL is the best of all, not only of the
\* three it has tried last.
CalibratedBest ==
  pc = "done" => \A v \in Values : Distance(length[OSCCAL]) <= Distance(length[v])

\* Calibration ends: the search for a neighbour does not run round the register.
CalibrationEnds == <>(pc = "done")
=============================================================================
