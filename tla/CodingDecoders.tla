-------------------------- MODULE CodingDecoders --------------------------
(***************************************************************************)
(* ManchesterDecoder and BiphaseDecoder: two listeners of one carrier      *)
(* decoder, both fed with every pulse, whatever the coding of the tag is.  *)
(* Each has a step for EVENT_NEW_PULSE and the bits, none or one, that the *)
(* step notifies.  EVENT_SYNC_CHANGED resets either.                       *)
(***************************************************************************)
EXTENDS Naturals

Manchester == [ffOut: BOOLEAN, timerRunning: BOOLEAN]
ResetManchester == [ffOut |-> FALSE, timerRunning |-> FALSE]

\* The timer that runs ends with any pulse: the exclusive or of ffOut, just
\* set to isHigh, with isHigh stops it even after a long one.
ManchesterPulse(m, isHigh, isLong) ==
  CASE m.timerRunning -> [ffOut |-> isHigh, timerRunning |-> FALSE]
    [] ~m.timerRunning /\ isHigh # m.ffOut ->
         IF isLong THEN [ffOut |-> isHigh, timerRunning |-> FALSE]
                   ELSE [m EXCEPT !.timerRunning = TRUE]
    [] OTHER -> m

ManchesterBits(m, isHigh, isLong) ==
  IF m.timerRunning \/ (isHigh # m.ffOut /\ isLong)
  THEN {IF isHigh THEN 1 ELSE 0}
  ELSE {}

Biphase == [lastShort: BOOLEAN]
ResetBiphase == [lastShort |-> FALSE]

BiphasePulse(b, isHigh, isLong) == [lastShort |-> ~isLong /\ ~b.lastShort]

BiphaseBits(b, isHigh, isLong) ==
  IF isLong THEN {1} ELSE IF b.lastShort THEN {0} ELSE {}
===========================================================================
