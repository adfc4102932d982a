---------------------------- MODULE OscCal_proofs ----------------------------
(***************************************************************************)
(* Calibration leaves the best value of all in OSCCAL, for a register of   *)
(* any width and any monotone oscillator that crosses the target inside    *)
(* the register, when every measurement gets its strobes.                  *)
(***************************************************************************)
EXTENDS OscCal, TLAPS

\* t is the last value that is too slow, and some value below `gap' above it is not.
Bracket(t, gap) ==
  /\ t \in Values /\ t + gap <= Size
  /\ t > 0 => length[t] < Target
  /\ \A v \in Values : v >= t + gap => length[v] >= Target

\* The values of the neighbour search that lie behind OSCCAL
Tried == {w \in Values : trialValue - 1 <= w /\ w < OSCCAL}

Searching == pc = "search" =>
  /\ step \in Steps
  /\ Bracket(trialValue, 2 * step)

Starting == pc = "start" =>
  /\ Bracket(trialValue, 1)
  /\ \E v \in Values : x = length[v]

Comparing == pc = "neighbours" =>
  /\ Bracket(trialValue, 1) /\ OSCCAL \in trialValue - 1 .. trialValue + 2
  /\ optimumDev \in Nat /\ \A w \in Tried : optimumDev <= Distance(length[w])
  /\ IF OSCCAL = trialValue - 1
     THEN \A w \in Values : Distance(length[w]) < optimumDev
     ELSE optimumValue \in Values /\ optimumDev = Distance(length[optimumValue])

IInv ==
  /\ length \in Oscillators
  /\ Searching /\ Starting /\ Comparing /\ CalibratedBest

LEMMA SizeFact == FirstStep \in Nat \ {0} /\ Size \in Nat /\ Size >= 2 /\ Size = 2 * FirstStep
  BY StepAssumption DEF Size

LEMMA LengthFact == ASSUME NEW f \in Oscillators, NEW v \in Values
                    PROVE  f[v] \in Nat
  BY OscillatorAssumption

\* A measurement with its strobes is the oscillator's length.
LEMMA MeasuredFact == ASSUME ~Silent, NEW v PROVE Measured(v) = {length[v]}
  BY DEF Measured

\* In an interior oscillator the last value that is too slow has both neighbours.
LEMMA Inside ==
  ASSUME length \in Oscillators, Interior(length), NEW t, Bracket(t, 1)
  PROVE  t \in Int /\ 1 <= t /\ t + 2 < Size /\ length[t] < Target /\ length[t + 1] >= Target
<1>1. t \in Int /\ 0 <= t /\ t + 1 <= Size
  BY SizeFact DEF Bracket, Values
<1>2. t >= 1
  <2>1. SUFFICES ASSUME t = 0 PROVE FALSE
    BY <1>1
  <2>2. 1 \in Values
    BY SizeFact DEF Values
  <2>3. length[1] >= Target
    BY <2>1, <2>2 DEF Bracket
  <2> QED BY <2>2, <2>3, LengthFact, TargetAssumption DEF Interior
<1>3. length[t] < Target
  BY <1>1, <1>2 DEF Bracket
<1>4. t < Size - 2
  <2>1. SUFFICES ASSUME t >= Size - 2 PROVE FALSE
    BY <1>1, SizeFact
  <2>2. Size - 2 \in Values /\ t \in Values
    BY SizeFact DEF Values, Bracket
  <2>3. length[Size - 2] <= length[t]
    BY <1>1, <2>1, <2>2, SizeFact, LengthFact, OscillatorAssumption DEF Values
  <2> QED BY <2>2, <2>3, <1>3, LengthFact, TargetAssumption DEF Interior
<1>5. t + 1 \in Values
  BY <1>1, <1>4, SizeFact DEF Values
<1> QED BY <1>1, <1>2, <1>3, <1>4, <1>5, SizeFact DEF Bracket

\* The values on both sides of the target that are next to it are the best on their side.
LEMMA NextToTarget ==
  ASSUME length \in Oscillators, NEW t \in Values, t + 1 \in Values,
         length[t] < Target, length[t + 1] >= Target, NEW v \in Values
  PROVE  \/ Distance(length[t]) <= Distance(length[v])
         \/ Distance(length[t + 1]) <= Distance(length[v])
<1>1. v \in Int /\ t \in Int
  BY SizeFact DEF Values
<1>2. length[v] \in Nat /\ length[t] \in Nat /\ length[t + 1] \in Nat /\ Target \in Nat
  BY LengthFact, TargetAssumption
<1>3. CASE v <= t
  <2>1. length[v] <= length[t]
    BY <1>1, <1>2, <1>3, OscillatorAssumption
  <2> QED BY <2>1, <1>2 DEF Distance
<1>4. CASE v > t
  <2>1. length[t + 1] <= length[v]
    <3>1. CASE v = t + 1
      BY <3>1, <1>2
    <3>2. CASE t + 1 < v
      BY <3>2, OscillatorAssumption
    <3> QED BY <3>1, <3>2, <1>1, <1>4
  <2> QED BY <2>1, <1>2 DEF Distance
<1> QED BY <1>1, <1>3, <1>4

\* A step of the binary search halves the interval.
LEMMA SearchStep ==
  ASSUME ~Silent, IInv, Search
  PROVE  IInv'
<1> USE SizeFact, TargetAssumption
<1>1. /\ step \in Steps /\ trialValue \in Values /\ trialValue + 2 * step <= Size
      /\ length \in Oscillators /\ length' = length
      /\ trialValue > 0 => length[trialValue] < Target
      /\ \A v \in Values : v >= trialValue + 2 * step => length[v] >= Target
  BY DEF Search, IInv, Searching, Bracket
<1>2. step \in Nat /\ step > 0 /\ trialValue \in Nat
  BY <1>1, StepAssumption DEF Values
<1> DEFINE m == trialValue + step
<1>3. m \in Values /\ Wrap(m) = m
  BY <1>1, <1>2 DEF Wrap, Values
<1>4. OSCCAL' = m /\ x' = length[m] /\ length[m] \in Nat
  BY <1>1, <1>3, MeasuredFact, LengthFact DEF Search
<1>5. trialValue' = IF length[m] < Target THEN m ELSE trialValue
  BY <1>3, <1>4 DEF Search, TooSlow
<1>6. Bracket(trialValue', step)
  <2>1. CASE length[m] < Target
    <3>1. trialValue' = m /\ m + step = trialValue + 2 * step /\ m + step <= Size
      BY <1>1, <1>2, <1>5, <2>1
    <3> QED BY <1>1, <1>3, <2>1, <3>1 DEF Bracket
  <2>2. CASE length[m] >= Target
    <3>1. trialValue' = trialValue /\ trialValue + step <= Size
      BY <1>1, <1>2, <1>4, <1>5, <2>2
    <3>2. ASSUME NEW v \in Values, v >= m PROVE length[v] >= Target
      <4>1. v = m \/ m < v
        BY <1>3, <3>2 DEF Values
      <4>2. length[m] <= length[v]
        BY <4>1, <1>1, <1>3, <1>4, OscillatorAssumption
      <4> QED BY <4>2, <2>2, <1>1, <1>4, LengthFact
    <3> QED BY <1>1, <3>1, <3>2 DEF Bracket
  <2> QED BY <2>1, <2>2, <1>4
<1>7. pc' = (IF step \div 2 = 0 THEN "start" ELSE "search") /\ step' = step \div 2
  BY DEF Search
<1>8. CASE step = 1
  <2>1. pc' = "start"
    BY <1>7, <1>8
  <2>2. \E v \in Values : x' = length'[v]
    BY <1>1, <1>3, <1>4
  <2> QED BY <1>1, <1>6, <1>8, <2>1, <2>2
          DEF IInv, Searching, Starting, Comparing, CalibratedBest, Bracket
<1>9. CASE step # 1
  <2>1. PICK half \in Steps : step = 2 * half
    BY <1>1, <1>9, StepAssumption
  <2>2. half \in Nat /\ half > 0 /\ step \div 2 = half
    BY <2>1, StepAssumption
  <2>3. pc' = "search" /\ step' \in Steps /\ 2 * step' = step
    BY <1>7, <2>1, <2>2
  <2>4. Bracket(trialValue, 2 * step)'
    BY <1>1, <1>6, <2>3 DEF Bracket
  <2> QED BY <1>1, <2>3, <2>4 DEF IInv, Searching, Starting, Comparing, CalibratedBest
<1> QED BY <1>8, <1>9

\* The value measured last, which the neighbours are compared with, exceeds every deviation.
LEMMA FirstNeighbour ==
  ASSUME \A f \in Oscillators : Interior(f), IInv, StartNeighbours
  PROVE  IInv'
<1>1. Bracket(trialValue, 1) /\ length \in Oscillators /\ length' = length
  BY DEF StartNeighbours, IInv, Starting
<1>2. PICK v \in Values : x = length[v]
  BY DEF StartNeighbours, IInv, Starting
<1>3. trialValue \in Int /\ 1 <= trialValue /\ trialValue + 2 < Size
  BY <1>1, Inside
<1>4. Wrap(trialValue - 1) = trialValue - 1
  BY <1>3, SizeFact DEF Wrap
<1>5. /\ OSCCAL' = trialValue - 1 /\ trialValue' = trialValue /\ optimumDev' = x
      /\ pc' = "neighbours"
  BY <1>4 DEF StartNeighbours
<1>6. optimumDev' \in Nat /\ \A w \in Values : Distance(length'[w]) < optimumDev'
  <2>1. \A w \in Values : length[v] > Distance(length[w])
    BY <1>1, OscillatorAssumption
  <2>2. ASSUME NEW w \in Values PROVE Distance(length[w]) \in Nat
    BY <1>1, LengthFact, TargetAssumption DEF Distance
  <2>3. length[v] \in Nat
    BY <1>1, LengthFact
  <2> QED BY <1>1, <1>2, <1>5, <2>1, <2>2, <2>3
<1>7. Tried' = {}
  BY <1>3, <1>5, SizeFact DEF Tried, Values
<1>8. Comparing'
  BY <1>1, <1>3, <1>5, <1>6, <1>7 DEF Comparing, Bracket
<1> QED BY <1>1, <1>5, <1>8 DEF IInv, Searching, Starting, CalibratedBest

\* The best of the neighbours that were tried is kept.
LEMMA NextNeighbour ==
  ASSUME ~Silent, \A f \in Oscillators : Interior(f), IInv, Neighbour
  PROVE  IInv'
<1> DEFINE d == Distance(length[OSCCAL])
<1>1. /\ Bracket(trialValue, 1) /\ length \in Oscillators /\ length' = length
      /\ trialValue' = trialValue /\ pc' = "neighbours" /\ pc = "neighbours"
  BY DEF Neighbour, IInv, Comparing
<1>2. trialValue \in Int /\ 1 <= trialValue /\ trialValue + 2 < Size
  BY <1>1, Inside
<1>3. OSCCAL \in trialValue - 1 .. trialValue + 1
  BY <1>1, <1>2 DEF Neighbour, LastNeighbour, IInv, Comparing
<1>4. OSCCAL \in Values /\ OSCCAL' = OSCCAL + 1
  <2>1. OSCCAL + 1 \in 0 .. Size - 1 /\ OSCCAL \in 0 .. Size - 1
    BY <1>2, <1>3, SizeFact
  <2>2. Wrap(OSCCAL + 1) = OSCCAL + 1
    BY <2>1, SizeFact DEF Wrap
  <2> QED BY <2>1, <2>2 DEF Neighbour, Values
<1>5. x' = d /\ d \in Nat
  <2>1. x' = d
    BY MeasuredFact DEF Neighbour, Deviation
  <2> QED BY <2>1, <1>1, <1>4, LengthFact, TargetAssumption DEF Distance
<1>6. /\ optimumDev \in Nat /\ \A w \in Tried : optimumDev <= Distance(length[w])
      /\ OSCCAL = trialValue - 1 => d < optimumDev
      /\ OSCCAL # trialValue - 1 => /\ optimumValue \in Values
                                    /\ optimumDev = Distance(length[optimumValue])
  BY <1>1, <1>4 DEF IInv, Comparing
<1>7. Tried' = Tried \cup {OSCCAL}
  BY <1>1, <1>2, <1>3, <1>4, SizeFact DEF Tried, Values
<1>8. ASSUME NEW w \in Tried PROVE Distance(length[w]) \in Nat
  BY <1>1, LengthFact, TargetAssumption DEF Distance, Tried
<1>9. CASE d < optimumDev
  <2>1. optimumDev' = d /\ optimumValue' = OSCCAL
    BY <1>5, <1>9 DEF Neighbour
  <2>2. \A w \in Tried' : optimumDev' <= Distance(length'[w])
    BY <1>1, <1>5, <1>6, <1>7, <1>8, <1>9, <2>1
  <2> QED BY <1>1, <1>2, <1>3, <1>4, <1>5, <2>1, <2>2
          DEF IInv, Searching, Starting, Comparing, CalibratedBest, Bracket
<1>10. CASE ~(d < optimumDev)
  <2>1. UNCHANGED <<optimumDev, optimumValue>>
    BY <1>5, <1>10 DEF Neighbour
  <2>2. \A w \in Tried' : optimumDev' <= Distance(length'[w])
    BY <1>1, <1>5, <1>6, <1>7, <1>10, <2>1
  <2> QED BY <1>1, <1>2, <1>3, <1>4, <1>6, <1>10, <2>1, <2>2
          DEF IInv, Searching, Starting, Comparing, CalibratedBest, Bracket
<1> QED BY <1>9, <1>10

\* All three were tried when the loop ends, and the best of all is among them.
LEMMA LastStep ==
  ASSUME \A f \in Oscillators : Interior(f), IInv, Finish
  PROVE  IInv'
<1>1. /\ Bracket(trialValue, 1) /\ length \in Oscillators /\ length' = length
      /\ OSCCAL \in trialValue - 1 .. trialValue + 2 /\ OSCCAL > trialValue + 1
      /\ OSCCAL' = optimumValue /\ pc' = "done"
  BY DEF Finish, LastNeighbour, IInv, Comparing
<1>2. /\ trialValue \in Int /\ 1 <= trialValue /\ trialValue + 2 < Size
      /\ length[trialValue] < Target /\ length[trialValue + 1] >= Target
  BY <1>1, Inside
<1>3. trialValue \in Tried /\ trialValue + 1 \in Tried
  BY <1>1, <1>2, SizeFact DEF Tried, Values
<1>4. /\ optimumDev = Distance(length[optimumValue]) /\ optimumDev \in Nat
      /\ \A w \in Tried : optimumDev <= Distance(length[w])
  BY <1>1, <1>2 DEF Finish, IInv, Comparing
<1>5. ASSUME NEW v \in Values PROVE optimumDev <= Distance(length[v])
  <2>1. \/ Distance(length[trialValue]) <= Distance(length[v])
        \/ Distance(length[trialValue + 1]) <= Distance(length[v])
    BY <1>1, <1>2, <1>3, NextToTarget DEF Tried
  <2>2. \A w \in Values : Distance(length[w]) \in Nat
    BY <1>1, LengthFact, TargetAssumption DEF Distance
  <2> QED BY <1>3, <1>4, <2>1, <2>2 DEF Tried
<1>6. CalibratedBest'
  BY <1>1, <1>4, <1>5 DEF CalibratedBest
<1> QED BY <1>1, <1>6 DEF IInv, Searching, Starting, Comparing

LEMMA BestInit == Init => IInv
<1> SUFFICES ASSUME Init PROVE IInv
  OBVIOUS
<1>1. Bracket(0, 2 * FirstStep)
  BY SizeFact DEF Bracket, Values
<1> QED BY <1>1, StepAssumption
        DEF Init, IInv, Searching, Starting, Comparing, CalibratedBest

LEMMA BestStep ==
  ASSUME ~Silent, \A f \in Oscillators : Interior(f)
  PROVE  IInv /\ [Next]_vars => IInv'
<1> SUFFICES ASSUME IInv, [Next]_vars PROVE IInv'
  OBVIOUS
<1>1. CASE Search
  BY <1>1, SearchStep
<1>2. CASE StartNeighbours
  BY <1>2, FirstNeighbour
<1>3. CASE Neighbour
  BY <1>3, NextNeighbour
<1>4. CASE Finish
  BY <1>4, LastStep
<1>5. CASE UNCHANGED vars
  BY <1>5 DEF vars, IInv, Searching, Starting, Comparing, CalibratedBest, Bracket, Tried
<1> QED BY <1>1, <1>2, <1>3, <1>4, <1>5 DEF Next

\* Calibration leaves the best value in OSCCAL, whatever the width of the register and
\* the oscillator's curve, if the bus does not fall silent and the target is crossed
\* inside the register.
THEOREM BestValueKept ==
  ASSUME ~Silent, \A f \in Oscillators : Interior(f)
  PROVE  Spec => []CalibratedBest
<1>1. IInv => CalibratedBest
  BY DEF IInv
<1> QED BY <1>1, BestInit, BestStep, PTL DEF Spec

\* How many steps calibration may still take, at most
Remaining ==
  CASE pc = "search"     -> step + 5
    [] pc = "start"      -> 5
    [] pc = "neighbours" -> trialValue + 3 - OSCCAL
    [] OTHER             -> 0

\* A step is taken from them.
Progresses == Remaining \in Nat /\ Remaining' \in Nat /\ Remaining' < Remaining

LEMMA RemainingLess ==
  ASSUME ~Silent, \A f \in Oscillators : Interior(f), IInv, IInv', Next
  PROVE  Progresses
<1> USE DEF Progresses
<1>1. CASE Search
  <2>1. step \in Nat /\ step > 0 /\ step' = step \div 2
    <3>1. pc = "search" /\ step' = step \div 2
      BY <1>1 DEF Search
    <3>2. step \in Steps
      BY <3>1 DEF IInv, Searching
    <3> QED BY <3>1, <3>2, StepAssumption
  <2>2. step' \in Nat /\ step' < step
    BY <2>1
  <2>3. Remaining = step + 5 /\ (Remaining' = step' + 5 \/ Remaining' = 5)
    BY <1>1, Zenon DEF Search, Remaining
  <2> QED BY <2>1, <2>2, <2>3
<1>2. CASE StartNeighbours
  <2>1. Bracket(trialValue, 1) /\ length \in Oscillators
    BY <1>2 DEF StartNeighbours, IInv, Starting
  <2>2. trialValue \in Int /\ trialValue - 1 \in 0 .. Size - 1
    BY <2>1, Inside, SizeFact
  <2>3. OSCCAL' = trialValue - 1 /\ trialValue' = trialValue
    BY <1>2, <2>2, SizeFact DEF StartNeighbours, Wrap
  <2>4. Remaining = 5 /\ Remaining' = trialValue' + 3 - OSCCAL'
    BY <1>2, Zenon DEF StartNeighbours, Remaining
  <2> QED BY <2>2, <2>3, <2>4
<1>3. CASE Neighbour
  <2>1. Bracket(trialValue, 1) /\ length \in Oscillators /\ OSCCAL \in trialValue - 1 .. trialValue + 1
    <3>1. Bracket(trialValue, 1) /\ length \in Oscillators /\ OSCCAL \in trialValue - 1 .. trialValue + 2
      BY <1>3 DEF Neighbour, IInv, Comparing
    <3> QED BY <1>3, <3>1, Inside DEF Neighbour, LastNeighbour
  <2>2. trialValue \in Int /\ OSCCAL \in Int /\ OSCCAL + 1 \in 0 .. Size - 1
    BY <2>1, Inside, SizeFact
  <2>3. OSCCAL' = OSCCAL + 1 /\ trialValue' = trialValue
    BY <1>3, <2>2, SizeFact DEF Neighbour, Wrap
  <2>4. Remaining = trialValue + 3 - OSCCAL /\ Remaining' = trialValue' + 3 - OSCCAL'
    BY <1>3, Zenon DEF Neighbour, Remaining
  <2> QED BY <2>1, <2>2, <2>3, <2>4
<1>4. CASE Finish
  <2>1. Bracket(trialValue, 1) /\ length \in Oscillators /\ OSCCAL \in trialValue - 1 .. trialValue + 2
    BY <1>4 DEF Finish, IInv, Comparing
  <2>2. trialValue \in Int
    BY <2>1, Inside
  <2>3. Remaining = trialValue + 3 - OSCCAL /\ Remaining' = 0
    BY <1>4, Zenon DEF Finish, Remaining
  <2> QED BY <2>1, <2>2, <2>3
<1> QED BY <1>1, <1>2, <1>3, <1>4 DEF Next

\* Calibration cannot run for ever: each of its steps leaves it fewer, at first no more
\* than FirstStep + 5.  The neighbour search, whose bound does not wrap while OSCCAL
\* does, stays inside the register (main.c:539-575).
THEOREM StepsRunOut ==
  ASSUME ~Silent, \A f \in Oscillators : Interior(f)
  PROVE  Spec => [][Progresses]_vars
<1>1. IInv /\ IInv' /\ [Next]_vars => [Progresses]_vars
  BY RemainingLess
<1> QED BY <1>1, BestInit, BestStep, PTL DEF Spec
=============================================================================
