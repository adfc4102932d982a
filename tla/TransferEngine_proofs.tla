----------------------- MODULE TransferEngine_proofs -----------------------
(***************************************************************************)
(* Proofs about the transfer engine, for buffers, ids and offsets of every *)
(* size.  The first part holds whatever the host does; the second for a    *)
(* host that does not interfere with a transfer in flight and starts no    *)
(* transmission without waiting for an edge (NoInterference).              *)
(*                                                                         *)
(* Every invariance lemma has one step per action.  Flags are proved apart *)
(* from the other types because they need a prover of their own.           *)
(***************************************************************************)
EXTENDS TransferEngine, TLAPS

-----------------------------------------------------------------------------
(* Types *)

\* The Boolean variables
flagVars == <<irq, userRW, timedOut, fallingEdge, edgeStart, tx, overrun, adcEnabled, clocked,
              compMatch, compIrq, coilOn>>

LEMMA FlagsKept == Flags /\ UNCHANGED flagVars => Flags'
<1>1. Flags /\ UNCHANGED flagVars =>
        irq' \in BOOLEAN /\ userRW' \in BOOLEAN /\ timedOut' \in BOOLEAN /\ fallingEdge' \in BOOLEAN
  BY Zenon DEF Flags, flagVars
<1>2. Flags /\ UNCHANGED flagVars =>
        edgeStart' \in BOOLEAN /\ tx' \in BOOLEAN /\ overrun' \in BOOLEAN /\ adcEnabled' \in BOOLEAN
  BY Zenon DEF Flags, flagVars
<1>3. Flags /\ UNCHANGED flagVars =>
        clocked' \in BOOLEAN /\ compMatch' \in BOOLEAN /\ compIrq' \in BOOLEAN /\ coilOn' \in BOOLEAN
  BY Zenon DEF Flags, flagVars
<1> QED
  BY <1>1, <1>2, <1>3, Zenon DEF Flags

\* The Boolean variables stay Boolean.
LEMMA FlagsStep ==
  ASSUME Flags, [Next]_vars
  PROVE  Flags'
<1> USE HostAssumption DEF Flags, StartParams, flagVars, vars, mainVars, ctxVars, runVars,
      bufVars, adcVars, timVars, coilVars
<1>1. ASSUME NEW on \in BOOLEAN, EnableCoil(on) PROVE Flags'
  BY <1>1, ZenonT(30) DEF EnableCoil, Setup, Undisturbed
<1>2. ASSUME NEW rc \in {"ok", "invalid_cmd"}, Query(rc) PROVE Flags'
  BY <1>2, ZenonT(30) DEF Query, Setup, Reply, NoResponse
<1>3. ASSUME RequestReset PROVE Flags'
  BY <1>3, ZenonT(30) DEF RequestReset, Setup, Undisturbed, Reply
<1>4. ASSUME NEW cmd \in Vectors, RequestVector(cmd) PROVE Flags'
  BY <1>4, ZenonT(30) DEF RequestVector, Undisturbed
<1>5. ASSUME NEW p \in Starts, TransferStart(p) PROVE Flags'
  BY <1>5, ZenonT(30) DEF TransferStart, Setup, Undisturbed
<1>6. ASSUME NEW n \in 0 .. IdModulus - 1, TransferStatus(n) PROVE Flags'
  BY <1>6, ZenonT(30) DEF TransferStatus, Setup, Reply
<1>7. ASSUME NEW len \in 1 .. PacketSize, ReadData(len) PROVE Flags'
  BY <1>7, ZenonT(30) DEF ReadData, Copied, VectorSize, VectorReads
<1>8. ASSUME NEW len \in 1 .. PacketSize, WriteData(len) PROVE Flags'
  BY <1>8, ZenonT(30) DEF WriteData, Copied, VectorSize, VectorWrites
<1>9. ASSUME StartState PROVE Flags'
  BY <1>9, FlagsKept DEF StartState
<1>10. ASSUME StartReply PROVE Flags'
  BY <1>10, ZenonT(30) DEF StartReply, Reply, Succ
<1>11. ASSUME StatusState PROVE Flags'
  BY <1>11, FlagsKept DEF StatusState
<1>12. ASSUME StatusHi PROVE Flags'
  BY <1>12, FlagsKept DEF StatusHi
<1>13. ASSUME StatusLo PROVE Flags'
  BY <1>13, FlagsKept DEF StatusLo
<1>14. ASSUME JumpToBoot PROVE Flags'
  BY <1>14, FlagsKept DEF JumpToBoot
<1>15. ASSUME ArmOffset PROVE Flags'
  BY <1>15, FlagsKept DEF ArmOffset
<1>16. ASSUME Finish PROVE Flags'
  BY <1>16, ZenonT(30) DEF Finish, Quiet, PrescallerStop, AdcStop, Cli
<1>17. ASSUME ArmLength PROVE Flags'
  BY <1>17, FlagsKept DEF ArmLength
<1>18. ASSUME ArmSignal PROVE Flags'
  BY <1>18, FlagsKept DEF ArmSignal
<1>19. ASSUME ArmState PROVE Flags'
  BY <1>19, ZenonT(30) DEF ArmState
<1>20. ASSUME ArmAdc PROVE Flags'
  BY <1>20, ZenonT(30) DEF ArmAdc
<1>21. ASSUME ArmRead PROVE Flags'
  BY <1>21, FlagsKept DEF ArmRead
<1>22. ASSUME ArmClock PROVE Flags'
  BY <1>22, ZenonT(30) DEF ArmClock, PrescallerStart
<1>23. ASSUME Reboot PROVE Flags'
  BY <1>23, ZenonT(30) DEF Reboot
<1>24. ASSUME CompareMatch PROVE Flags'
  BY <1>24, ZenonT(30) DEF CompareMatch, SamplerPending
<1>25. ASSUME NEW level \in Levels, AdcEdge(level) PROVE Flags'
  BY <1>25, ZenonT(30) DEF AdcEdge, AdcInterrupt, SamplerPending, Signal, Acknowledge,
     Switch, IsEdge
<1>26. ASSUME NEW level \in Levels, AdcWait(level) PROVE Flags'
  BY <1>26, ZenonT(30) DEF AdcWait, AdcInterrupt, SamplerPending, Signal, PrescallerStop,
     Acknowledge, IsEdge
<1>27. ASSUME NEW level \in Levels, AdcSample(level) PROVE Flags'
  BY <1>27, ZenonT(30) DEF AdcSample, AdcInterrupt, SamplerPending, Signal, PrescallerStop,
     Touch, Succ, Acknowledge
<1>28. ASSUME TimerLast PROVE Flags'
  BY <1>28, ZenonT(30) DEF TimerLast, TimerInterrupt, Touch, StopTx, PrescallerStop
<1>29. ASSUME NEW direction \in {"input", "output"}, TimerPulse(direction) PROVE Flags'
  BY <1>29, ZenonT(30) DEF TimerPulse, TimerInterrupt, Touch, Succ
<1>30. CASE UNCHANGED vars
  BY <1>30, FlagsKept
<1> QED BY <1>1, <1>2, <1>3, <1>4, <1>5, <1>6, <1>7, <1>8, <1>9, <1>10, <1>11, <1>12,
      <1>13, <1>14, <1>15, <1>16, <1>17, <1>18, <1>19, <1>20, <1>21, <1>22, <1>23,
      <1>24, <1>25, <1>26, <1>27, <1>28, <1>29, <1>30 DEF Next, Request, Handler,
      Evaluate, Arm, AdcIsr, TimerIsr

\* The other variables stay in their types.
LEMMA ValuesStep ==
  ASSUME Values, [Next]_vars
  PROVE  Values'
<1> USE SizesAssumption, HostAssumption DEF Values, States, MainSteps, Host,
      VectorReads, VectorWrites, StartParams, Slots, Counts, RxLength, TxLength, vars,
      mainVars, ctxVars, runVars, bufVars, adcVars, timVars, coilVars
<1>1. ASSUME NEW on \in BOOLEAN, EnableCoil(on) PROVE Values'
  BY <1>1 DEF EnableCoil, Setup, Undisturbed
<1>2. ASSUME NEW rc \in {"ok", "invalid_cmd"}, Query(rc) PROVE Values'
  BY <1>2 DEF Query, Setup, Reply, NoResponse
<1>3. ASSUME RequestReset PROVE Values'
  BY <1>3 DEF RequestReset, Setup, Undisturbed, Reply
<1>4. ASSUME NEW cmd \in Vectors, RequestVector(cmd) PROVE Values'
  BY <1>4 DEF RequestVector, Undisturbed
<1>5. ASSUME NEW p \in Starts, TransferStart(p) PROVE Values'
  BY <1>5 DEF TransferStart, Setup, Undisturbed
<1>6. ASSUME NEW n \in 0 .. IdModulus - 1, TransferStatus(n) PROVE Values'
  BY <1>6, SMTT(30) DEF TransferStatus, Setup, Reply
<1>7. ASSUME NEW len \in 1 .. PacketSize, ReadData(len) PROVE Values'
  BY <1>7, SMTT(60) DEF ReadData, Copied, VectorSize
<1>8. ASSUME NEW len \in 1 .. PacketSize, WriteData(len) PROVE Values'
  BY <1>8, SMTT(60) DEF WriteData, Copied, VectorSize
<1>9. ASSUME StartState PROVE Values'
  BY <1>9 DEF StartState
<1>10. ASSUME StartReply PROVE Values'
  BY <1>10, SMTT(30) DEF StartReply, Reply, Succ
<1>11. ASSUME StatusState PROVE Values'
  BY <1>11 DEF StatusState, Status
<1>12. ASSUME StatusHi PROVE Values'
  BY <1>12 DEF StatusHi
<1>13. ASSUME StatusLo PROVE Values'
  BY <1>13 DEF StatusLo
<1>14. ASSUME JumpToBoot PROVE Values'
  BY <1>14 DEF JumpToBoot, Quiet
<1>15. ASSUME ArmOffset PROVE Values'
  BY <1>15 DEF ArmOffset, Quiet
<1>16. ASSUME Finish PROVE Values'
  BY <1>16 DEF Finish, Quiet, PrescallerStop, AdcStop, Cli
<1>17. ASSUME ArmLength PROVE Values'
  BY <1>17 DEF ArmLength, TransferLength
<1>18. ASSUME ArmSignal PROVE Values'
  BY <1>18 DEF ArmSignal
<1>19. ASSUME ArmState PROVE Values'
  BY <1>19 DEF ArmState
<1>20. ASSUME ArmAdc PROVE Values'
  BY <1>20 DEF ArmAdc
<1>21. ASSUME ArmRead PROVE Values'
  BY <1>21 DEF ArmRead
<1>22. ASSUME ArmClock PROVE Values'
  <2>1. /\ clocked' = TRUE /\ rate' \in {"minimal", "requested"} /\ pc' = "poll"
        /\ UNCHANGED <<command, ioBufferOffset, request, state, timeout, id, opOffset,
                       opLength, ioBuffer, adcLastSignal, conversion, coilPin>>
    BY <1>22, Zenon DEF ArmClock, PrescallerStart
  <2> QED
    BY <2>1
<1>23. ASSUME Reboot PROVE Values'
  BY <1>23 DEF Reboot
<1>24. ASSUME CompareMatch PROVE Values'
  BY <1>24 DEF CompareMatch, SamplerPending
<1>25. ASSUME NEW level \in Levels, AdcEdge(level) PROVE Values'
  BY <1>25, SMTT(60) DEF AdcEdge, AdcInterrupt, SamplerPending, Signal, Acknowledge, Switch,
     IsEdge
<1>26. ASSUME NEW level \in Levels, AdcWait(level) PROVE Values'
  BY <1>26, SMTT(60) DEF AdcWait, AdcInterrupt, SamplerPending, Signal, PrescallerStop,
     Acknowledge, IsEdge
<1>27. ASSUME NEW level \in Levels, AdcSample(level) PROVE Values'
  BY <1>27, SMTT(60) DEF AdcSample, AdcInterrupt, SamplerPending, Signal, PrescallerStop, Touch,
     Succ, Acknowledge
<1>28. ASSUME TimerLast PROVE Values'
  BY <1>28 DEF TimerLast, TimerInterrupt, Touch, StopTx, PrescallerStop
<1>29. ASSUME NEW direction \in {"input", "output"}, TimerPulse(direction) PROVE Values'
  BY <1>29, SMTT(60) DEF TimerPulse, TimerInterrupt, Touch, Succ
<1>30. CASE UNCHANGED vars
  BY <1>30
<1> QED BY <1>1, <1>2, <1>3, <1>4, <1>5, <1>6, <1>7, <1>8, <1>9, <1>10, <1>11, <1>12,
      <1>13, <1>14, <1>15, <1>16, <1>17, <1>18, <1>19, <1>20, <1>21, <1>22, <1>23,
      <1>24, <1>25, <1>26, <1>27, <1>28, <1>29, <1>30 DEF Next, Request, Handler,
      Evaluate, Arm, AdcIsr, TimerIsr

\* Type correctness of the engine, whatever the host does: the variables of
\* main.c and the registers stay in their types, opLength takes three values.
THEOREM TypeCorrect == Spec => []TypeOK
<1>1. Init => Flags
  BY Zenon DEF Init, Flags
<1>2. Init => Values
  BY SizesAssumption DEF Init, Values, States, MainSteps, Host, Slots, Counts, RxLength, TxLength
<1>3. TypeOK /\ [Next]_vars => TypeOK'
  BY FlagsStep, ValuesStep DEF TypeOK
<1> QED BY <1>1, <1>2, <1>3, PTL DEF Spec, TypeOK

-----------------------------------------------------------------------------
(* Whatever the host does *)

\* The offset into a vector never passes its size.
LEMMA VectorBoundsStep ==
  ASSUME TypeOK, VectorBounds, [Next]_vars
  PROVE  VectorBounds'
<1> USE SizesAssumption DEF TypeOK, Values, VectorBounds, VectorSize, vars, mainVars,
      ctxVars, runVars, bufVars, adcVars, timVars, coilVars
<1>1. ASSUME NEW on \in BOOLEAN, EnableCoil(on) PROVE VectorBounds'
  BY <1>1 DEF EnableCoil, Setup, Undisturbed
<1>2. ASSUME NEW rc \in {"ok", "invalid_cmd"}, Query(rc) PROVE VectorBounds'
  BY <1>2 DEF Query, Setup, Reply, NoResponse
<1>3. ASSUME RequestReset PROVE VectorBounds'
  BY <1>3 DEF RequestReset, Setup, Undisturbed, Reply
<1>4. ASSUME NEW cmd \in Vectors, RequestVector(cmd) PROVE VectorBounds'
  BY <1>4 DEF RequestVector, Undisturbed
<1>5. ASSUME NEW p \in Starts, TransferStart(p) PROVE VectorBounds'
  BY <1>5 DEF TransferStart, Setup, Undisturbed, StartParams
<1>6. ASSUME NEW n \in 0 .. IdModulus - 1, TransferStatus(n) PROVE VectorBounds'
  BY <1>6 DEF TransferStatus, Setup, Reply
<1>7. ASSUME NEW len \in 1 .. PacketSize, ReadData(len) PROVE VectorBounds'
  BY <1>7 DEF ReadData, Copied, VectorReads
<1>8. ASSUME NEW len \in 1 .. PacketSize, WriteData(len) PROVE VectorBounds'
  BY <1>8 DEF WriteData, Copied, VectorWrites
<1>9. ASSUME StartState PROVE VectorBounds'
  BY <1>9 DEF StartState
<1>10. ASSUME StartReply PROVE VectorBounds'
  BY <1>10 DEF StartReply, Reply, Succ
<1>11. ASSUME StatusState PROVE VectorBounds'
  BY <1>11 DEF StatusState, Status
<1>12. ASSUME StatusHi PROVE VectorBounds'
  BY <1>12 DEF StatusHi
<1>13. ASSUME StatusLo PROVE VectorBounds'
  BY <1>13 DEF StatusLo
<1>14. ASSUME JumpToBoot PROVE VectorBounds'
  BY <1>14 DEF JumpToBoot, Quiet
<1>15. ASSUME ArmOffset PROVE VectorBounds'
  BY <1>15 DEF ArmOffset, Quiet
<1>16. ASSUME Finish PROVE VectorBounds'
  BY <1>16 DEF Finish, Quiet, PrescallerStop, AdcStop, Cli
<1>17. ASSUME ArmLength PROVE VectorBounds'
  BY <1>17 DEF ArmLength, TransferLength
<1>18. ASSUME ArmSignal PROVE VectorBounds'
  BY <1>18 DEF ArmSignal
<1>19. ASSUME ArmState PROVE VectorBounds'
  BY <1>19 DEF ArmState
<1>20. ASSUME ArmAdc PROVE VectorBounds'
  BY <1>20 DEF ArmAdc
<1>21. ASSUME ArmRead PROVE VectorBounds'
  BY <1>21 DEF ArmRead
<1>22. ASSUME ArmClock PROVE VectorBounds'
  BY <1>22 DEF ArmClock, PrescallerStart
<1>23. ASSUME Reboot PROVE VectorBounds'
  BY <1>23 DEF Reboot
<1>24. ASSUME CompareMatch PROVE VectorBounds'
  BY <1>24 DEF CompareMatch, SamplerPending
<1>25. ASSUME NEW level \in Levels, AdcEdge(level) PROVE VectorBounds'
  BY <1>25 DEF AdcEdge, AdcInterrupt, SamplerPending, Signal, Acknowledge, Switch,
     IsEdge
<1>26. ASSUME NEW level \in Levels, AdcWait(level) PROVE VectorBounds'
  BY <1>26 DEF AdcWait, AdcInterrupt, SamplerPending, Signal, PrescallerStop,
     Acknowledge, IsEdge
<1>27. ASSUME NEW level \in Levels, AdcSample(level) PROVE VectorBounds'
  BY <1>27 DEF AdcSample, AdcInterrupt, SamplerPending, Signal, PrescallerStop, Touch,
     Succ, Acknowledge
<1>28. ASSUME TimerLast PROVE VectorBounds'
  BY <1>28 DEF TimerLast, TimerInterrupt, Touch, StopTx, PrescallerStop
<1>29. ASSUME NEW direction \in {"input", "output"}, TimerPulse(direction) PROVE VectorBounds'
  BY <1>29 DEF TimerPulse, TimerInterrupt, Touch, Succ
<1>30. CASE UNCHANGED vars
  BY <1>30
<1> QED BY <1>1, <1>2, <1>3, <1>4, <1>5, <1>6, <1>7, <1>8, <1>9, <1>10, <1>11, <1>12,
      <1>13, <1>14, <1>15, <1>16, <1>17, <1>18, <1>19, <1>20, <1>21, <1>22, <1>23,
      <1>24, <1>25, <1>26, <1>27, <1>28, <1>29, <1>30 DEF Next, Request, Handler,
      Evaluate, Arm, AdcIsr, TimerIsr

\* The copying loops of usbFunctionRead and usbFunctionWrite, which test their
\* bound with ==, never start beyond it, whatever commands come in between.
THEOREM VectorsBounded == Spec => []VectorBounds
<1>1. Init => VectorBounds
  BY DEF Init, VectorBounds
<1> QED BY <1>1, TypeCorrect, VectorBoundsStep, PTL DEF Spec

\* Interrupts are off whenever the state is IDLE.
LEMMA IdleMaskedStep ==
  ASSUME TypeOK, IdleMasked, [Next]_vars
  PROVE  IdleMasked'
<1> USE DEF TypeOK, Flags, Values, IdleMasked, vars, mainVars, ctxVars, runVars,
      bufVars, adcVars, timVars, coilVars
<1>1. CASE Request
  BY <1>1 DEF Request, EnableCoil, Setup, Undisturbed, Query, Reply, NoResponse,
     RequestReset, RequestVector, TransferStart, StartParams, TransferStatus,
     ReadData, Copied, VectorSize, VectorReads, WriteData, VectorWrites
<1>2. CASE Handler
  BY <1>2 DEF Handler, StartState, StartReply, Reply, Succ, StatusState, Status,
     StatusHi, StatusLo
<1>3. CASE Evaluate
  BY <1>3 DEF Evaluate, JumpToBoot, Quiet, ArmOffset, Finish, PrescallerStop, AdcStop,
     Cli
<1>4. CASE Arm
  BY <1>4 DEF Arm, ArmLength, TransferLength, ArmSignal, ArmState, ArmAdc, ArmRead,
     ArmClock, PrescallerStart
<1>5. CASE Reboot
  BY <1>5 DEF Reboot
<1>6. CASE CompareMatch
  BY <1>6 DEF CompareMatch, SamplerPending
<1>7. CASE AdcIsr
  BY <1>7 DEF AdcIsr, AdcEdge, AdcInterrupt, SamplerPending, Signal, Acknowledge,
     Switch, IsEdge, AdcWait, PrescallerStop, AdcSample, Touch, Succ
<1>8. CASE TimerIsr
  BY <1>8 DEF TimerIsr, TimerLast, TimerInterrupt, Touch, StopTx, PrescallerStop,
     TimerPulse, Succ
<1>9. CASE UNCHANGED vars
  BY <1>9
<1> QED BY <1>1, <1>2, <1>3, <1>4, <1>5, <1>6, <1>7, <1>8, <1>9 DEF Next

\* No interrupt service routine of main.c can run while the engine is idle, even
\* when transfers are started on top of each other.
THEOREM IdleIsMasked == Spec => []IdleMasked
<1>1. Init => IdleMasked
  BY DEF Init, IdleMasked
<1> QED BY <1>1, TypeCorrect, IdleMaskedStep, PTL DEF Spec

\* Nothing changes the state or the offset under a verdict that is being written.
LEMMA VerdictStep ==
  ASSUME TypeOK, IdleMasked, VerdictStands, [Next]_vars
  PROVE  VerdictStands'
<1> USE DEF TypeOK, Flags, Values, IdleMasked, VerdictStands, NoResponse, vars,
      mainVars, ctxVars, runVars, bufVars, adcVars, timVars, coilVars
<1>1. CASE Request
  BY <1>1 DEF Request, EnableCoil, Setup, Undisturbed, Query, Reply, RequestReset,
     RequestVector, TransferStart, StartParams, TransferStatus, ReadData, Copied,
     VectorSize, VectorReads, WriteData, VectorWrites
<1>2. CASE Handler
  BY <1>2 DEF Handler, StartState, StartReply, Reply, Succ, StatusState, Status,
     StatusHi, StatusLo
<1>3. CASE Evaluate
  BY <1>3 DEF Evaluate, JumpToBoot, Quiet, ArmOffset, Finish, PrescallerStop, AdcStop,
     Cli
<1>4. CASE Arm
  BY <1>4 DEF Arm, ArmLength, TransferLength, ArmSignal, ArmState, ArmAdc, ArmRead,
     ArmClock, PrescallerStart
<1>5. CASE Reboot
  BY <1>5 DEF Reboot
<1>6. CASE CompareMatch
  BY <1>6 DEF CompareMatch, SamplerPending
<1>7. CASE AdcIsr
  BY <1>7 DEF AdcIsr, AdcEdge, AdcInterrupt, SamplerPending, Signal, Acknowledge,
     Switch, IsEdge, AdcWait, PrescallerStop, AdcSample, Touch, Succ
<1>8. CASE TimerIsr
  BY <1>8 DEF TimerIsr, TimerLast, TimerInterrupt, Touch, StopTx, PrescallerStop,
     TimerPulse, Succ
<1>9. CASE UNCHANGED vars
  BY <1>9
<1> QED BY <1>1, <1>2, <1>3, <1>4, <1>5, <1>6, <1>7, <1>8, <1>9 DEF Next

\* A TRANSFER_STATUS reply that carries a verdict carries both bytes of the one
\* offset the transfer ended with: interrupts cannot tear it.
THEOREM RepliesExact == Spec => ReplyExact
<1>1. Init => VerdictStands
  BY DEF Init, VerdictStands, NoResponse
<1>2. Spec => []VerdictStands
  BY <1>1, TypeCorrect, IdleIsMasked, VerdictStep, PTL DEF Spec
<1>3. ASSUME VerdictStands, StatusLo, response.status \in {"ok", "timeout"}
      PROVE  response'.hi = opOffset \div Radix /\ response'.lo = opOffset % Radix
  BY <1>3 DEF VerdictStands, StatusLo, NoResponse
<1> QED BY <1>2, <1>3, PTL DEF ReplyExact

-----------------------------------------------------------------------------
(* With a host that does not interfere *)

\* What the main loop knows at each of its places stays true.
LEMMA MainLoopStep ==
  ASSUME NoInterference, TypeOK, Discipline, [Next]_vars
  PROVE  MainLoop'
<1> USE SizesAssumption, HostAssumption DEF TypeOK, Flags, Values, MainLoop, Transfer,
      Data, Silent, Armed, Discipline, TransferLength, NoInterference, StartParams,
      States, MainSteps, Slots, Counts, RxLength, TxLength, vars, mainVars, ctxVars,
      runVars, bufVars, adcVars, timVars, coilVars
<1>1. ASSUME NEW on \in BOOLEAN, EnableCoil(on) PROVE MainLoop'
  BY <1>1 DEF EnableCoil, Setup, Undisturbed
<1>2. ASSUME NEW rc \in {"ok", "invalid_cmd"}, Query(rc) PROVE MainLoop'
  BY <1>2 DEF Query, Setup, Reply, NoResponse
<1>3. ASSUME RequestReset PROVE MainLoop'
  BY <1>3 DEF RequestReset, Setup, Undisturbed, Reply
<1>4. ASSUME NEW cmd \in Vectors, RequestVector(cmd) PROVE MainLoop'
  BY <1>4 DEF RequestVector, Undisturbed
<1>5. ASSUME NEW p \in Starts, TransferStart(p) PROVE MainLoop'
  BY <1>5 DEF TransferStart, Setup, Undisturbed
<1>6. ASSUME NEW n \in 0 .. IdModulus - 1, TransferStatus(n) PROVE MainLoop'
  BY <1>6 DEF TransferStatus, Setup, Reply
<1>7. ASSUME NEW len \in 1 .. PacketSize, ReadData(len) PROVE MainLoop'
  BY <1>7 DEF ReadData, Copied, VectorSize, VectorReads
<1>8. ASSUME NEW len \in 1 .. PacketSize, WriteData(len) PROVE MainLoop'
  BY <1>8 DEF WriteData, Copied, VectorSize, VectorWrites
<1>9. ASSUME StartState PROVE MainLoop'
  BY <1>9 DEF StartState
<1>10. ASSUME StartReply PROVE MainLoop'
  BY <1>10 DEF StartReply, Reply, Succ
<1>11. ASSUME StatusState PROVE MainLoop'
  BY <1>11 DEF StatusState, Status
<1>12. ASSUME StatusHi PROVE MainLoop'
  BY <1>12 DEF StatusHi
<1>13. ASSUME StatusLo PROVE MainLoop'
  BY <1>13 DEF StatusLo
<1>14. ASSUME JumpToBoot PROVE MainLoop'
  BY <1>14 DEF JumpToBoot, Quiet
<1>15. ASSUME ArmOffset PROVE MainLoop'
  BY <1>15 DEF ArmOffset, Quiet
<1>16. ASSUME Finish PROVE MainLoop'
  BY <1>16 DEF Finish, Quiet, PrescallerStop, AdcStop, Cli
<1>17. ASSUME ArmLength PROVE MainLoop'
  BY <1>17 DEF ArmLength
<1>18. ASSUME ArmSignal PROVE MainLoop'
  BY <1>18 DEF ArmSignal
<1>19. ASSUME ArmState PROVE MainLoop'
  BY <1>19 DEF ArmState
<1>20. ASSUME ArmAdc PROVE MainLoop'
  BY <1>20 DEF ArmAdc
<1>21. ASSUME ArmRead PROVE MainLoop'
  BY <1>21 DEF ArmRead
<1>22. ASSUME ArmClock PROVE MainLoop'
  BY <1>22 DEF ArmClock, PrescallerStart
<1>23. ASSUME Reboot PROVE MainLoop'
  BY <1>23 DEF Reboot
<1>24. ASSUME CompareMatch PROVE MainLoop'
  BY <1>24 DEF CompareMatch, SamplerPending
<1>25. ASSUME NEW level \in Levels, AdcEdge(level) PROVE MainLoop'
  BY <1>25 DEF AdcEdge, AdcInterrupt, SamplerPending, Signal, Acknowledge, Switch,
     IsEdge
<1>26. ASSUME NEW level \in Levels, AdcWait(level) PROVE MainLoop'
  BY <1>26 DEF AdcWait, AdcInterrupt, SamplerPending, Signal, PrescallerStop,
     Acknowledge, IsEdge
<1>27. ASSUME NEW level \in Levels, AdcSample(level) PROVE MainLoop'
  BY <1>27 DEF AdcSample, AdcInterrupt, SamplerPending, Signal, PrescallerStop, Touch,
     Succ, Acknowledge
<1>28. ASSUME TimerLast PROVE MainLoop'
  BY <1>28 DEF TimerLast, TimerInterrupt, Touch, StopTx, PrescallerStop
<1>29. ASSUME NEW direction \in {"input", "output"}, TimerPulse(direction) PROVE MainLoop'
  BY <1>29 DEF TimerPulse, TimerInterrupt, Touch, Succ
<1>30. CASE UNCHANGED vars
  BY <1>30
<1> QED BY <1>1, <1>2, <1>3, <1>4, <1>5, <1>6, <1>7, <1>8, <1>9, <1>10, <1>11, <1>12,
      <1>13, <1>14, <1>15, <1>16, <1>17, <1>18, <1>19, <1>20, <1>21, <1>22, <1>23,
      <1>24, <1>25, <1>26, <1>27, <1>28, <1>29, <1>30 DEF Next, Request, Handler,
      Evaluate, Arm, AdcIsr, TimerIsr

\* What each state says of interrupts, timer and sampler stays true.
LEMMA TransferStep ==
  ASSUME NoInterference, TypeOK, Discipline, [Next]_vars
  PROVE  Transfer'
<1> USE SizesAssumption, HostAssumption DEF TypeOK, Flags, Values, MainLoop, Transfer,
      Data, Silent, Armed, Discipline, TransferLength, NoInterference, StartParams,
      States, MainSteps, Slots, Counts, RxLength, TxLength, vars, mainVars, ctxVars,
      runVars, bufVars, adcVars, timVars, coilVars
<1>1. ASSUME NEW on \in BOOLEAN, EnableCoil(on) PROVE Transfer'
  BY <1>1 DEF EnableCoil, Setup, Undisturbed
<1>2. ASSUME NEW rc \in {"ok", "invalid_cmd"}, Query(rc) PROVE Transfer'
  BY <1>2 DEF Query, Setup, Reply, NoResponse
<1>3. ASSUME RequestReset PROVE Transfer'
  BY <1>3 DEF RequestReset, Setup, Undisturbed, Reply
<1>4. ASSUME NEW cmd \in Vectors, RequestVector(cmd) PROVE Transfer'
  BY <1>4 DEF RequestVector, Undisturbed
<1>5. ASSUME NEW p \in Starts, TransferStart(p) PROVE Transfer'
  BY <1>5 DEF TransferStart, Setup, Undisturbed
<1>6. ASSUME NEW n \in 0 .. IdModulus - 1, TransferStatus(n) PROVE Transfer'
  BY <1>6 DEF TransferStatus, Setup, Reply
<1>7. ASSUME NEW len \in 1 .. PacketSize, ReadData(len) PROVE Transfer'
  BY <1>7 DEF ReadData, Copied, VectorSize, VectorReads
<1>8. ASSUME NEW len \in 1 .. PacketSize, WriteData(len) PROVE Transfer'
  BY <1>8 DEF WriteData, Copied, VectorSize, VectorWrites
<1>9. ASSUME StartState PROVE Transfer'
  BY <1>9 DEF StartState
<1>10. ASSUME StartReply PROVE Transfer'
  BY <1>10 DEF StartReply, Reply, Succ
<1>11. ASSUME StatusState PROVE Transfer'
  BY <1>11 DEF StatusState, Status
<1>12. ASSUME StatusHi PROVE Transfer'
  BY <1>12 DEF StatusHi
<1>13. ASSUME StatusLo PROVE Transfer'
  BY <1>13 DEF StatusLo
<1>14. ASSUME JumpToBoot PROVE Transfer'
  BY <1>14 DEF JumpToBoot, Quiet
<1>15. ASSUME ArmOffset PROVE Transfer'
  BY <1>15 DEF ArmOffset, Quiet
<1>16. ASSUME Finish PROVE Transfer'
  BY <1>16 DEF Finish, Quiet, PrescallerStop, AdcStop, Cli
<1>17. ASSUME ArmLength PROVE Transfer'
  BY <1>17 DEF ArmLength
<1>18. ASSUME ArmSignal PROVE Transfer'
  BY <1>18 DEF ArmSignal
<1>19. ASSUME ArmState PROVE Transfer'
  BY <1>19, SMTT(30) DEF ArmState
<1>20. ASSUME ArmAdc PROVE Transfer'
  BY <1>20 DEF ArmAdc
<1>21. ASSUME ArmRead PROVE Transfer'
  BY <1>21 DEF ArmRead
<1>22. ASSUME ArmClock PROVE Transfer'
  BY <1>22 DEF ArmClock, PrescallerStart
<1>23. ASSUME Reboot PROVE Transfer'
  BY <1>23 DEF Reboot
<1>24. ASSUME CompareMatch PROVE Transfer'
  BY <1>24 DEF CompareMatch, SamplerPending
<1>25. ASSUME NEW level \in Levels, AdcEdge(level) PROVE Transfer'
  BY <1>25, SMTT(30) DEF AdcEdge, AdcInterrupt, SamplerPending, Signal, Acknowledge, Switch,
     IsEdge
<1>26. ASSUME NEW level \in Levels, AdcWait(level) PROVE Transfer'
  BY <1>26, SMTT(30) DEF AdcWait, AdcInterrupt, SamplerPending, Signal, PrescallerStop,
     Acknowledge, IsEdge
<1>27. ASSUME NEW level \in Levels, AdcSample(level) PROVE Transfer'
  BY <1>27, SMTT(30) DEF AdcSample, AdcInterrupt, SamplerPending, Signal, PrescallerStop, Touch,
     Succ, Acknowledge
<1>28. ASSUME TimerLast PROVE Transfer'
  BY <1>28 DEF TimerLast, TimerInterrupt, Touch, StopTx, PrescallerStop
<1>29. ASSUME NEW direction \in {"input", "output"}, TimerPulse(direction) PROVE Transfer'
  BY <1>29, SMTT(30) DEF TimerPulse, TimerInterrupt, Touch, Succ
<1>30. CASE UNCHANGED vars
  BY <1>30
<1> QED BY <1>1, <1>2, <1>3, <1>4, <1>5, <1>6, <1>7, <1>8, <1>9, <1>10, <1>11, <1>12,
      <1>13, <1>14, <1>15, <1>16, <1>17, <1>18, <1>19, <1>20, <1>21, <1>22, <1>23,
      <1>24, <1>25, <1>26, <1>27, <1>28, <1>29, <1>30 DEF Next, Request, Handler,
      Evaluate, Arm, AdcIsr, TimerIsr

\* What each state says of the buffer and the timeout stays true.
LEMMA DataStep ==
  ASSUME NoInterference, TypeOK, Discipline, [Next]_vars
  PROVE  Data'
<1> USE SizesAssumption, HostAssumption DEF TypeOK, Flags, Values, MainLoop, Transfer,
      Data, Silent, Armed, Discipline, TransferLength, NoInterference, StartParams,
      States, MainSteps, Slots, Counts, RxLength, TxLength, vars, mainVars, ctxVars,
      runVars, bufVars, adcVars, timVars, coilVars
<1>1. ASSUME NEW on \in BOOLEAN, EnableCoil(on) PROVE Data'
  BY <1>1 DEF EnableCoil, Setup, Undisturbed
<1>2. ASSUME NEW rc \in {"ok", "invalid_cmd"}, Query(rc) PROVE Data'
  BY <1>2 DEF Query, Setup, Reply, NoResponse
<1>3. ASSUME RequestReset PROVE Data'
  BY <1>3 DEF RequestReset, Setup, Undisturbed, Reply
<1>4. ASSUME NEW cmd \in Vectors, RequestVector(cmd) PROVE Data'
  BY <1>4 DEF RequestVector, Undisturbed
<1>5. ASSUME NEW p \in Starts, TransferStart(p) PROVE Data'
  BY <1>5 DEF TransferStart, Setup, Undisturbed
<1>6. ASSUME NEW n \in 0 .. IdModulus - 1, TransferStatus(n) PROVE Data'
  BY <1>6 DEF TransferStatus, Setup, Reply
<1>7. ASSUME NEW len \in 1 .. PacketSize, ReadData(len) PROVE Data'
  BY <1>7 DEF ReadData, Copied, VectorSize, VectorReads
<1>8. ASSUME NEW len \in 1 .. PacketSize, WriteData(len) PROVE Data'
  BY <1>8 DEF WriteData, Copied, VectorSize, VectorWrites
<1>9. ASSUME StartState PROVE Data'
  BY <1>9 DEF StartState
<1>10. ASSUME StartReply PROVE Data'
  BY <1>10 DEF StartReply, Reply, Succ
<1>11. ASSUME StatusState PROVE Data'
  BY <1>11 DEF StatusState, Status
<1>12. ASSUME StatusHi PROVE Data'
  BY <1>12 DEF StatusHi
<1>13. ASSUME StatusLo PROVE Data'
  BY <1>13 DEF StatusLo
<1>14. ASSUME JumpToBoot PROVE Data'
  BY <1>14 DEF JumpToBoot, Quiet
<1>15. ASSUME ArmOffset PROVE Data'
  BY <1>15 DEF ArmOffset, Quiet
<1>16. ASSUME Finish PROVE Data'
  BY <1>16 DEF Finish, Quiet, PrescallerStop, AdcStop, Cli
<1>17. ASSUME ArmLength PROVE Data'
  BY <1>17 DEF ArmLength
<1>18. ASSUME ArmSignal PROVE Data'
  BY <1>18 DEF ArmSignal
<1>19. ASSUME ArmState PROVE Data'
  BY <1>19 DEF ArmState
<1>20. ASSUME ArmAdc PROVE Data'
  BY <1>20 DEF ArmAdc
<1>21. ASSUME ArmRead PROVE Data'
  BY <1>21 DEF ArmRead
<1>22. ASSUME ArmClock PROVE Data'
  BY <1>22 DEF ArmClock, PrescallerStart
<1>23. ASSUME Reboot PROVE Data'
  BY <1>23 DEF Reboot
<1>24. ASSUME CompareMatch PROVE Data'
  BY <1>24 DEF CompareMatch, SamplerPending
<1>25. ASSUME NEW level \in Levels, AdcEdge(level) PROVE Data'
  BY <1>25 DEF AdcEdge, AdcInterrupt, SamplerPending, Signal, Acknowledge, Switch,
     IsEdge
<1>26. ASSUME NEW level \in Levels, AdcWait(level) PROVE Data'
  BY <1>26, SMTT(30) DEF AdcWait, AdcInterrupt, SamplerPending, Signal, PrescallerStop,
     Acknowledge, IsEdge
<1>27. ASSUME NEW level \in Levels, AdcSample(level) PROVE Data'
  <2>1. state = "RX"
    BY <1>27 DEF AdcSample, AdcInterrupt, SamplerPending
  <2>2. opOffset' = opOffset + 1
    BY <1>27, <2>1, SMTT(30) DEF AdcSample, Succ
  <2>3. \A s \in Slots : s < opOffset' => ioBuffer'[s] = id
    <3> SUFFICES ASSUME NEW s \in Slots, s < opOffset + 1 PROVE ioBuffer'[s] = id
      BY <2>2
    <3>1. ioBuffer'[s] = IF s = opOffset THEN id ELSE ioBuffer[s]
      BY <1>27 DEF AdcSample
    <3> QED BY <3>1, <2>1
  <2>4. opOffset' = RxLength => \A s \in Slots : ioBuffer'[s] = id
    BY <2>3, SMTT(30)
  <2>5. overrun' = FALSE
    BY <1>27, <2>1 DEF AdcSample, Touch
  <2> QED BY <1>27, <2>1, <2>2, <2>3, <2>4, <2>5 DEF AdcSample, PrescallerStop, Acknowledge
<1>28. ASSUME TimerLast PROVE Data'
  BY <1>28, SMTT(30) DEF TimerLast, TimerInterrupt, Touch, StopTx, PrescallerStop
<1>29. ASSUME NEW direction \in {"input", "output"}, TimerPulse(direction) PROVE Data'
  BY <1>29, SMTT(30) DEF TimerPulse, TimerInterrupt, Touch, Succ
<1>30. CASE UNCHANGED vars
  BY <1>30
<1> QED BY <1>1, <1>2, <1>3, <1>4, <1>5, <1>6, <1>7, <1>8, <1>9, <1>10, <1>11, <1>12,
      <1>13, <1>14, <1>15, <1>16, <1>17, <1>18, <1>19, <1>20, <1>21, <1>22, <1>23,
      <1>24, <1>25, <1>26, <1>27, <1>28, <1>29, <1>30 DEF Next, Request, Handler,
      Evaluate, Arm, AdcIsr, TimerIsr

\* The inductive invariant: in each state of a transfer the interrupts, the
\* timer, the sampler and the buffer are as the next step needs them.
THEOREM Disciplined == ASSUME NoInterference PROVE Spec => []Discipline
<1>1. Init => Discipline
  BY SizesAssumption DEF Init, Discipline, MainLoop, Transfer, Data, Silent
<1>2. TypeOK /\ Discipline /\ [Next]_vars => Discipline'
  BY NoInterference, MainLoopStep, TransferStep, DataStep DEF Discipline
<1> QED BY <1>1, <1>2, TypeCorrect, PTL DEF Spec

\* Between transfers the sampler, the timer and both interrupts are off.
THEOREM Quiesced == ASSUME NoInterference PROVE Spec => []IdleQuiesced
<1>1. Discipline => IdleQuiesced
  BY DEF Discipline, Transfer, Silent, IdleQuiesced
<1> QED BY <1>1, Disciplined, PTL

\* opOffset never steps over opLength: no access leaves ioBuffer.
THEOREM StaysInBuffer == ASSUME NoInterference PROVE Spec => []InBuffer
<1>1. Discipline => InBuffer
  BY DEF Discipline, Data, InBuffer
<1> QED BY <1>1, Disciplined, PTL

\* The coil is released as soon as a transmission is over.
THEOREM ReleasesCoil == ASSUME NoInterference PROVE Spec => []CoilReleased
<1>1. TypeOK /\ Discipline => CoilReleased
  BY DEF Discipline, Transfer, CoilReleased
<1> QED BY <1>1, TypeCorrect, Disciplined, PTL

\* A reception that ends in OK has filled every slot of the buffer itself.
THEOREM ReceivesAll == ASSUME NoInterference PROVE Spec => RxComplete
<1>1. ASSUME Discipline, Finish, ~tx, ~timedOut
      PROVE  \A s \in Slots : ioBuffer[s] = id
  BY <1>1 DEF Discipline, Data, Finish
<1> QED BY <1>1, Disciplined, PTL DEF RxComplete

\* A step in a transmission leaves the buffer as it is.
LEMMA IntactStep ==
  ASSUME TypeOK, Discipline, tx, state \in {"WAIT_CONDITION", "TX", "FINISHED"}, [Next]_vars
  PROVE  ioBuffer' = ioBuffer
<1> USE DEF TypeOK, Flags, Values, MainLoop, Transfer, Data, Silent, Armed,
      Discipline, TransferLength, vars, mainVars, ctxVars, runVars, bufVars, adcVars,
      timVars, coilVars
<1>1. CASE Request
  BY <1>1 DEF Request, EnableCoil, Setup, Undisturbed, Query, Reply, NoResponse,
     RequestReset, RequestVector, TransferStart, StartParams, TransferStatus,
     ReadData, Copied, VectorSize, VectorReads, WriteData, VectorWrites
<1>2. CASE Handler
  BY <1>2 DEF Handler, StartState, StartReply, Reply, Succ, StatusState, Status,
     StatusHi, StatusLo
<1>3. CASE Evaluate
  BY <1>3 DEF Evaluate, JumpToBoot, Quiet, ArmOffset, Finish, PrescallerStop, AdcStop,
     Cli
<1>4. CASE Arm
  BY <1>4 DEF Arm, ArmLength, ArmSignal, ArmState, ArmAdc, ArmRead, ArmClock,
     PrescallerStart
<1>5. CASE Reboot
  BY <1>5 DEF Reboot
<1>6. CASE CompareMatch
  BY <1>6 DEF CompareMatch, SamplerPending
<1>7. CASE AdcIsr
  BY <1>7 DEF AdcIsr, AdcEdge, AdcInterrupt, SamplerPending, Signal, Acknowledge,
     Switch, IsEdge, AdcWait, PrescallerStop, AdcSample, Touch, Succ
<1>8. CASE TimerIsr
  BY <1>8 DEF TimerIsr, TimerLast, TimerInterrupt, Touch, StopTx, PrescallerStop,
     TimerPulse, Succ
<1>9. CASE UNCHANGED vars
  BY <1>9
<1> QED BY <1>1, <1>2, <1>3, <1>4, <1>5, <1>6, <1>7, <1>8, <1>9 DEF Next

\* The pulses of a transmission are those the host wrote, from its start to its end.
THEOREM KeepsPulses == ASSUME NoInterference PROVE Spec => TxBufferIntact
<1>1. TypeOK /\ Discipline /\ [Next]_vars
        => [(tx /\ state \in {"WAIT_CONDITION", "TX", "FINISHED"}) => ioBuffer' = ioBuffer]_vars
  BY IntactStep
<1> QED BY <1>1, TypeCorrect, Disciplined, PTL DEF Spec, TxBufferIntact

\* A step that takes a sample finds the requested rate.
LEMMA RateStep ==
  ASSUME TypeOK, Discipline, opOffset' # opOffset, state = "RX", [Next]_vars
  PROVE  rate = "requested"
<1> USE DEF TypeOK, Flags, Values, MainLoop, Transfer, Data, Silent, Armed,
      Discipline, TransferLength, vars, mainVars, ctxVars, runVars, bufVars, adcVars,
      timVars, coilVars
<1>1. CASE Request
  BY <1>1 DEF Request, EnableCoil, Setup, Undisturbed, Query, Reply, NoResponse,
     RequestReset, RequestVector, TransferStart, StartParams, TransferStatus,
     ReadData, Copied, VectorSize, VectorReads, WriteData, VectorWrites
<1>2. CASE Handler
  BY <1>2 DEF Handler, StartState, StartReply, Reply, Succ, StatusState, Status,
     StatusHi, StatusLo
<1>3. CASE Evaluate
  BY <1>3 DEF Evaluate, JumpToBoot, Quiet, ArmOffset, Finish, PrescallerStop, AdcStop,
     Cli
<1>4. CASE Arm
  BY <1>4 DEF Arm, ArmLength, ArmSignal, ArmState, ArmAdc, ArmRead, ArmClock,
     PrescallerStart
<1>5. CASE Reboot
  BY <1>5 DEF Reboot
<1>6. CASE CompareMatch
  BY <1>6 DEF CompareMatch, SamplerPending
<1>7. CASE AdcIsr
  BY <1>7 DEF AdcIsr, AdcEdge, AdcInterrupt, SamplerPending, Signal, Acknowledge,
     Switch, IsEdge, AdcWait, PrescallerStop, AdcSample, Touch, Succ
<1>8. CASE TimerIsr
  BY <1>8 DEF TimerIsr, TimerLast, TimerInterrupt, Touch, StopTx, PrescallerStop,
     TimerPulse, Succ
<1>9. CASE UNCHANGED vars
  BY <1>9
<1> QED BY <1>1, <1>2, <1>3, <1>4, <1>5, <1>6, <1>7, <1>8, <1>9 DEF Next

\* Every sample of a reception is taken at the rate the host asked for.
THEOREM SamplesAtRate == ASSUME NoInterference PROVE Spec => SampledAtRate
<1>1. TypeOK /\ Discipline /\ [Next]_vars
        => [(opOffset' # opOffset /\ state = "RX") => rate = "requested"]_vars
  BY RateStep
<1> QED BY <1>1, TypeCorrect, Disciplined, PTL DEF Spec, SampledAtRate

\* A step of the engine is a step of the contract, or changes nothing it speaks about.
LEMMA ContractStep ==
  ASSUME NoInterference, TypeOK, Discipline, [Next]_vars
  PROVE  Contract!Next \/ UNCHANGED Contract!vars
<1> USE SizesAssumption DEF TypeOK, Flags, Values, MainLoop, Transfer, Data, Silent,
      Armed, Discipline, TransferLength, NoInterference, Contract!vars, Starting,
      States, vars, mainVars, ctxVars, runVars, bufVars, adcVars, timVars, coilVars
<1>1. ASSUME NEW on \in BOOLEAN, EnableCoil(on) PROVE Contract!Next \/ UNCHANGED Contract!vars
  BY <1>1 DEF EnableCoil, Setup, Undisturbed
<1>2. ASSUME NEW rc \in {"ok", "invalid_cmd"}, Query(rc) PROVE Contract!Next \/ UNCHANGED Contract!vars
  BY <1>2 DEF Query, Setup, Reply, NoResponse
<1>3. ASSUME RequestReset PROVE Contract!Next \/ UNCHANGED Contract!vars
  BY <1>3 DEF RequestReset, Setup, Undisturbed, Reply
<1>4. ASSUME NEW cmd \in Vectors, RequestVector(cmd) PROVE Contract!Next \/ UNCHANGED Contract!vars
  BY <1>4 DEF RequestVector, Undisturbed
<1>5. ASSUME NEW p \in Starts, TransferStart(p) PROVE Contract!Next \/ UNCHANGED Contract!vars
  <2>1. edgeStart' \in BOOLEAN
    BY <1>5, HostAssumption, Zenon DEF TransferStart, StartParams
  <2>2. Contract!Start
    BY <1>5, <2>1 DEF TransferStart, Setup, Undisturbed, Contract!Start, Contract!NextId,
                     Succ
  <2> QED BY <2>2 DEF Contract!Next
<1>6. ASSUME NEW n \in 0 .. IdModulus - 1, TransferStatus(n) PROVE Contract!Next \/ UNCHANGED Contract!vars
  BY <1>6 DEF TransferStatus, Setup, Reply
<1>7. ASSUME NEW len \in 1 .. PacketSize, ReadData(len) PROVE Contract!Next \/ UNCHANGED Contract!vars
  BY <1>7 DEF ReadData, Copied, VectorSize, VectorReads
<1>8. ASSUME NEW len \in 1 .. PacketSize, WriteData(len) PROVE Contract!Next \/ UNCHANGED Contract!vars
  BY <1>8 DEF WriteData, Copied, VectorSize, VectorWrites
<1>9. ASSUME StartState PROVE Contract!Next \/ UNCHANGED Contract!vars
  BY <1>9 DEF StartState
<1>10. ASSUME StartReply PROVE Contract!Next \/ UNCHANGED Contract!vars
  BY <1>10 DEF StartReply, Reply, Succ
<1>11. ASSUME StatusState PROVE Contract!Next \/ UNCHANGED Contract!vars
  BY <1>11 DEF StatusState, Status
<1>12. ASSUME StatusHi PROVE Contract!Next \/ UNCHANGED Contract!vars
  BY <1>12 DEF StatusHi
<1>13. ASSUME StatusLo PROVE Contract!Next \/ UNCHANGED Contract!vars
  BY <1>13 DEF StatusLo
<1>14. ASSUME JumpToBoot PROVE Contract!Next \/ UNCHANGED Contract!vars
  BY <1>14 DEF JumpToBoot, Quiet
<1>15. ASSUME ArmOffset PROVE Contract!Next \/ UNCHANGED Contract!vars
  BY <1>15 DEF ArmOffset, Quiet
<1>16. ASSUME Finish PROVE Contract!Next \/ UNCHANGED Contract!vars
  <2>1. CASE timedOut
    BY <1>16, <2>1 DEF Finish, Quiet, Contract!Next, Contract!Expire
  <2>2. CASE ~timedOut
    BY <1>16, <2>2 DEF Finish, Quiet, Contract!Next, Contract!Complete
  <2> QED BY <2>1, <2>2
<1>17. ASSUME ArmLength PROVE Contract!Next \/ UNCHANGED Contract!vars
  BY <1>17 DEF ArmLength
<1>18. ASSUME ArmSignal PROVE Contract!Next \/ UNCHANGED Contract!vars
  BY <1>18 DEF ArmSignal
<1>19. ASSUME ArmState PROVE Contract!Next \/ UNCHANGED Contract!vars
  BY <1>19 DEF ArmState
<1>20. ASSUME ArmAdc PROVE Contract!Next \/ UNCHANGED Contract!vars
  BY <1>20 DEF ArmAdc
<1>21. ASSUME ArmRead PROVE Contract!Next \/ UNCHANGED Contract!vars
  BY <1>21 DEF ArmRead
<1>22. ASSUME ArmClock PROVE Contract!Next \/ UNCHANGED Contract!vars
  BY <1>22 DEF ArmClock, PrescallerStart
<1>23. ASSUME Reboot PROVE Contract!Next \/ UNCHANGED Contract!vars
  BY <1>23 DEF Reboot, Contract!Next, Contract!Restart
<1>24. ASSUME CompareMatch PROVE Contract!Next \/ UNCHANGED Contract!vars
  BY <1>24 DEF CompareMatch, SamplerPending
<1>25. ASSUME NEW level \in Levels, AdcEdge(level) PROVE Contract!Next \/ UNCHANGED Contract!vars
  BY <1>25 DEF AdcEdge, AdcInterrupt, SamplerPending, Signal, Acknowledge, Switch,
     IsEdge
<1>26. ASSUME NEW level \in Levels, AdcWait(level) PROVE Contract!Next \/ UNCHANGED Contract!vars
  BY <1>26 DEF AdcWait, AdcInterrupt, SamplerPending, Signal, PrescallerStop,
     Acknowledge, IsEdge
<1>27. ASSUME NEW level \in Levels, AdcSample(level) PROVE Contract!Next \/ UNCHANGED Contract!vars
  BY <1>27 DEF AdcSample, AdcInterrupt, SamplerPending, Signal, PrescallerStop, Touch,
     Succ, Acknowledge
<1>28. ASSUME TimerLast PROVE Contract!Next \/ UNCHANGED Contract!vars
  BY <1>28 DEF TimerLast, TimerInterrupt, Touch, StopTx, PrescallerStop
<1>29. ASSUME NEW direction \in {"input", "output"}, TimerPulse(direction) PROVE Contract!Next \/ UNCHANGED Contract!vars
  BY <1>29 DEF TimerPulse, TimerInterrupt, Touch, Succ
<1>30. CASE UNCHANGED vars
  BY <1>30
<1> QED BY <1>1, <1>2, <1>3, <1>4, <1>5, <1>6, <1>7, <1>8, <1>9, <1>10, <1>11, <1>12,
      <1>13, <1>14, <1>15, <1>16, <1>17, <1>18, <1>19, <1>20, <1>21, <1>22, <1>23,
      <1>24, <1>25, <1>26, <1>27, <1>28, <1>29, <1>30 DEF Next, Request, Handler,
      Evaluate, Arm, AdcIsr, TimerIsr

\* The engine implements the contract of a transfer: a fresh id, one verdict, a
\* timeout only of a transfer that waits for an edge.
THEOREM Implements == ASSUME NoInterference PROVE Spec => ContractSpec
<1>1. Init => Contract!Init
  BY DEF Init, Contract!Init, Starting
<1>2. TypeOK /\ Discipline /\ [Next]_vars => [Contract!Next]_(Contract!vars)
  BY NoInterference, ContractStep
<1> QED BY <1>1, <1>2, TypeCorrect, Disciplined, PTL DEF Spec, ContractSpec, Contract!Spec

-----------------------------------------------------------------------------
(***************************************************************************)
(* How long a transfer may take.  TLC checks that it ends, TransferEnds,   *)
(* for one size of the buffer.  Here, for every size: a number that no     *)
(* step of the main loop, the host or the hardware raises and every step   *)
(* of the transfer lowers, and some step of it that is always possible.    *)
(***************************************************************************)
Arming == {"armLength", "armSignal", "armState", "armAdc", "armRead", "armMinimal",
           "armRequested"}

\* What the hardware does from the statement that sets the clock on: timer 0 runs, and
\* either interrupt follows every compare match.
Running ==
  /\ state \in {"WAIT_CONDITION", "RX", "TX"} /\ pc \notin Arming => clocked
  /\ state = "TX" => compIrq
  /\ state \in {"WAIT_CONDITION", "RX"} /\ pc # "armAdc" => adcEnabled
  /\ adcEnabled /\ conversion = "none" => ~compMatch

\* The statements left that start a transfer
ToArm ==
  CASE pc = "startReply" -> 9 [] pc = "armLength" -> 7 [] pc = "armSignal" -> 6
    [] pc = "armState" -> 5 [] pc = "armAdc" -> 4 [] pc = "armRead" -> 3
    [] pc \in {"armMinimal", "armRequested"} -> 2
    [] OTHER -> IF state = "STARTING" THEN 8 ELSE 0

\* The compare matches left that are served: those the timeout allows, the one that
\* finds the edge or the end of the wait, and those of the samples or pulses
ToServe ==
  CASE state = "STARTING" ->
         (IF pc = "startReply" THEN request.timeout ELSE timeout) + 1 + TransferLength
    [] state = "WAIT_CONDITION" -> timeout + 1 + opLength
    [] state \in {"RX", "TX"} -> opLength - opOffset
    [] OTHER -> 0

Work ==
  CASE state = "IDLE" -> 0
    [] state = "FINISHED" -> 1
    [] OTHER -> 2 + ToArm + 2 * ToServe + (IF compMatch THEN 0 ELSE 1)

\* The same as equations, which is the form the arithmetic uses
ArmTable ==
  /\ pc = "startReply" => ToArm = 9
  /\ pc = "armLength" => ToArm = 7
  /\ pc = "armSignal" => ToArm = 6
  /\ pc = "armState" => ToArm = 5
  /\ pc = "armAdc" => ToArm = 4
  /\ pc = "armRead" => ToArm = 3
  /\ pc \in {"armMinimal", "armRequested"} => ToArm = 2
  /\ pc \notin Arming \cup {"startReply"} => ToArm = IF state = "STARTING" THEN 8 ELSE 0

ServeTable ==
  /\ state = "STARTING" /\ pc = "startReply" => ToServe = request.timeout + 1 + TransferLength
  /\ state = "STARTING" /\ pc # "startReply" => ToServe = timeout + 1 + TransferLength
  /\ state = "WAIT_CONDITION" => ToServe = timeout + 1 + opLength
  /\ state \in {"RX", "TX"} => ToServe = opLength - opOffset

WorkTable ==
  /\ state = "IDLE" => Work = 0
  /\ state = "FINISHED" => Work = 1
  /\ state \notin {"IDLE", "FINISHED"}
       => Work = 2 + ToArm + 2 * ToServe + (IF compMatch THEN 0 ELSE 1)

Tables == ArmTable /\ ServeTable /\ WorkTable

\* The steps of a transfer
Engine == StartReply \/ ArmOffset \/ Arm \/ CompareMatch \/ AdcIsr \/ TimerIsr \/ Finish

WorksOff ==
  state # "IDLE" => Work \in Nat /\ Work' \in Nat /\ Work' <= Work /\ (Engine => Work' < Work)

\* While a transfer is going on and the carrier is on, the main loop is inside a handler,
\* has something to evaluate, or an interrupt or a compare match is due.
NeverStuck ==
  state # "IDLE" /\ coilOn =>
    \/ pc # "poll"
    \/ command = "RESET"
    \/ state \in {"STARTING", "FINISHED"}
    \/ AdcInterrupt
    \/ TimerInterrupt
    \/ clocked /\ ~compMatch /\ ~SamplerPending

\* What the hardware does in each state goes on.
LEMMA RunningStep ==
  ASSUME NoInterference, TypeOK, Discipline, Running, [Next]_vars
  PROVE  Running'
<1> USE DEF TypeOK, Flags, Values, MainLoop, Transfer, Data, Silent, Armed, Discipline,
      NoInterference, Running, Arming, States, MainSteps, vars, mainVars, ctxVars, runVars,
      bufVars, adcVars, timVars, coilVars
<1>1. ASSUME NEW on \in BOOLEAN, EnableCoil(on) PROVE Running'
  BY <1>1 DEF EnableCoil, Setup, Undisturbed
<1>2. ASSUME NEW rc \in {"ok", "invalid_cmd"}, Query(rc) PROVE Running'
  BY <1>2 DEF Query, Setup
<1>3. ASSUME RequestReset PROVE Running'
  BY <1>3 DEF RequestReset, Setup, Undisturbed
<1>4. ASSUME NEW cmd \in Vectors, RequestVector(cmd) PROVE Running'
  BY <1>4 DEF RequestVector, Undisturbed
<1>5. ASSUME NEW p \in Starts, TransferStart(p) PROVE Running'
  BY <1>5 DEF TransferStart, Setup, Undisturbed
<1>6. ASSUME NEW n \in 0 .. IdModulus - 1, TransferStatus(n) PROVE Running'
  BY <1>6 DEF TransferStatus, Setup
<1>7. ASSUME NEW len \in 1 .. PacketSize, ReadData(len) PROVE Running'
  BY <1>7 DEF ReadData
<1>8. ASSUME NEW len \in 1 .. PacketSize, WriteData(len) PROVE Running'
  BY <1>8 DEF WriteData
<1>9. ASSUME StartState PROVE Running'
  BY <1>9 DEF StartState
<1>10. ASSUME StartReply PROVE Running'
  BY <1>10 DEF StartReply
<1>11. ASSUME StatusState PROVE Running'
  BY <1>11 DEF StatusState
<1>12. ASSUME StatusHi PROVE Running'
  BY <1>12 DEF StatusHi
<1>13. ASSUME StatusLo PROVE Running'
  BY <1>13 DEF StatusLo
<1>14. ASSUME JumpToBoot PROVE Running'
  BY <1>14 DEF JumpToBoot, Quiet
<1>15. ASSUME ArmOffset PROVE Running'
  BY <1>15 DEF ArmOffset, Quiet
<1>16. ASSUME Finish PROVE Running'
  BY <1>16 DEF Finish, Quiet, PrescallerStop, AdcStop, Cli
<1>17. ASSUME ArmLength PROVE Running'
  BY <1>17 DEF ArmLength
<1>18. ASSUME ArmSignal PROVE Running'
  BY <1>18 DEF ArmSignal
<1>19. ASSUME ArmState PROVE Running'
  BY <1>19 DEF ArmState
<1>20. ASSUME ArmAdc PROVE Running'
  BY <1>20 DEF ArmAdc
<1>21. ASSUME ArmRead PROVE Running'
  BY <1>21 DEF ArmRead
<1>22. ASSUME ArmClock PROVE Running'
  BY <1>22 DEF ArmClock, PrescallerStart
<1>23. ASSUME Reboot PROVE Running'
  BY <1>23 DEF Reboot
<1>24. ASSUME CompareMatch PROVE Running'
  BY <1>24 DEF CompareMatch, SamplerPending
<1>25. ASSUME NEW level \in Levels, AdcEdge(level) PROVE Running'
  BY <1>25 DEF AdcEdge, AdcInterrupt, SamplerPending, Acknowledge, Switch
<1>26. ASSUME NEW level \in Levels, AdcWait(level) PROVE Running'
  BY <1>26 DEF AdcWait, AdcInterrupt, SamplerPending, PrescallerStop,
     Acknowledge
<1>27. ASSUME NEW level \in Levels, AdcSample(level) PROVE Running'
  BY <1>27 DEF AdcSample, AdcInterrupt, SamplerPending, PrescallerStop,
     Touch, Acknowledge
<1>28. ASSUME TimerLast PROVE Running'
  BY <1>28 DEF TimerLast, TimerInterrupt, StopTx, PrescallerStop
<1>29. ASSUME NEW direction \in {"input", "output"}, TimerPulse(direction) PROVE Running'
  BY <1>29 DEF TimerPulse, TimerInterrupt
<1>30. CASE UNCHANGED vars
  BY <1>30
<1> QED BY <1>1, <1>2, <1>3, <1>4, <1>5, <1>6, <1>7, <1>8, <1>9, <1>10, <1>11, <1>12,
      <1>13, <1>14, <1>15, <1>16, <1>17, <1>18, <1>19, <1>20, <1>21, <1>22, <1>23,
      <1>24, <1>25, <1>26, <1>27, <1>28, <1>29, <1>30 DEF Next, Request, Handler,
      Evaluate, Arm, AdcIsr, TimerIsr

\* From the statement that sets the clock on to its end, a transfer has the timer and the
\* interrupt of its phase on.
LEMMA KeepsRunning == ASSUME NoInterference PROVE Spec => []Running
<1>1. Init => Running
  BY DEF Init, Running
<1>2. TypeOK /\ Discipline /\ Running /\ [Next]_vars => Running'
  BY NoInterference, RunningStep
<1> QED BY <1>1, <1>2, TypeCorrect, Disciplined, PTL DEF Spec

\* A transfer whose carrier is on never waits for something that cannot happen: no
\* interleaving of the main loop and the interrupts leaves an interrupt off that the
\* transfer needs, the clock stopped, or a compare match with nobody to serve it.
THEOREM NeverIsStuck == ASSUME NoInterference PROVE Spec => []NeverStuck
<1>1. TypeOK /\ Discipline /\ Running => NeverStuck
  BY DEF TypeOK, Flags, Values, States, Discipline, Transfer, Running, Arming, NeverStuck,
     AdcInterrupt, TimerInterrupt, SamplerPending
<1> QED BY <1>1, TypeCorrect, Disciplined, KeepsRunning, PTL

\* The equations follow from the definitions.
LEMMA TablesHold == Tables
<1>1. ArmTable
  BY Zenon DEF ArmTable, ToArm, Arming
<1>2. ServeTable
  BY Zenon DEF ServeTable, ToServe
<1>3. WorkTable
  BY Zenon DEF WorkTable, Work
<1> QED BY <1>1, <1>2, <1>3 DEF Tables

\* They hold after a step as well.
LEMMA TablesHoldNext == Tables'
BY TablesHold, PTL

\* The work left is a natural number.
LEMMA WorkIsNat ==
  ASSUME TypeOK, Discipline, Tables
  PROVE  Work \in Nat
BY SizesAssumption DEF TypeOK, Flags, Values, MainLoop, Transfer, Discipline, Armed, TransferLength,
  Tables, ArmTable, ServeTable, WorkTable, Arming, States, MainSteps, Counts, RxLength, TxLength

\* Every step of the transfer lowers it.
LEMMA EngineStep ==
  ASSUME NoInterference, TypeOK, Discipline, Tables, Tables', Engine
  PROVE  Work' < Work
<1> USE SizesAssumption DEF TypeOK, Flags, Values, MainLoop, Transfer, Silent, Armed, Discipline,
      TransferLength, Tables, ArmTable, ServeTable, WorkTable, Arming, States, MainSteps, Counts,
      RxLength, TxLength, NoInterference, Succ, mainVars, ctxVars, runVars, bufVars, adcVars,
      timVars, coilVars
<1>1. ASSUME StartReply PROVE Work' < Work
  BY <1>1 DEF StartReply
<1>2. ASSUME ArmOffset PROVE Work' < Work
  BY <1>2 DEF ArmOffset, Quiet
<1>3. ASSUME Finish PROVE Work' < Work
  BY <1>3 DEF Finish, Quiet, PrescallerStop, AdcStop, Cli
<1>4. ASSUME ArmLength PROVE Work' < Work
  BY <1>4 DEF ArmLength
<1>5. ASSUME ArmSignal PROVE Work' < Work
  BY <1>5 DEF ArmSignal
<1>6. ASSUME ArmState PROVE Work' < Work
  BY <1>6 DEF ArmState
<1>7. ASSUME ArmAdc PROVE Work' < Work
  BY <1>7 DEF ArmAdc
<1>8. ASSUME ArmRead PROVE Work' < Work
  BY <1>8 DEF ArmRead
<1>9. ASSUME ArmClock PROVE Work' < Work
  <2>1. /\ pc \in {"armMinimal", "armRequested"} /\ pc' = "poll"
        /\ UNCHANGED <<state, timeout, opOffset, opLength>>
    BY <1>9, Zenon DEF ArmClock, PrescallerStart
  <2> QED
    BY <2>1
<1>10. ASSUME CompareMatch PROVE Work' < Work
  BY <1>10 DEF CompareMatch, SamplerPending
<1>11. ASSUME NEW level \in Levels, AdcEdge(level) PROVE Work' < Work
  BY <1>11 DEF AdcEdge, AdcInterrupt, SamplerPending, Acknowledge, Switch
<1>12. ASSUME NEW level \in Levels, AdcWait(level) PROVE Work' < Work
  BY <1>12 DEF AdcWait, AdcInterrupt, SamplerPending, PrescallerStop,
     Acknowledge
<1>13. ASSUME NEW level \in Levels, AdcSample(level) PROVE Work' < Work
  BY <1>13 DEF AdcSample, AdcInterrupt, SamplerPending, PrescallerStop,
     Touch, Acknowledge
<1>14. ASSUME TimerLast PROVE Work' < Work
  BY <1>14 DEF TimerLast, TimerInterrupt, StopTx, PrescallerStop
<1>15. ASSUME NEW direction \in {"input", "output"}, TimerPulse(direction) PROVE Work' < Work
  BY <1>15 DEF TimerPulse, TimerInterrupt
<1> QED BY <1>1, <1>2, <1>3, <1>4, <1>5, <1>6, <1>7, <1>8, <1>9, <1>10, <1>11, <1>12, <1>13, <1>14, <1>15 DEF Engine, Arm, AdcIsr, TimerIsr

\* No other step raises it while a transfer is going on.
LEMMA OtherStep ==
  ASSUME NoInterference, TypeOK, Discipline, Tables, Tables', state # "IDLE",
         [Next]_vars, ~Engine
  PROVE  Work' <= Work
<1>0. Work \in Nat
  BY WorkIsNat
<1> USE <1>0 DEF TypeOK, Flags, Values, MainLoop, Transfer, Silent, Armed, Discipline,
      TransferLength, Tables, ArmTable, ServeTable, WorkTable, Arming, States, MainSteps, Counts,
      NoInterference, mainVars, ctxVars, runVars, bufVars, adcVars,
      timVars, coilVars
<1>1. ASSUME NEW on \in BOOLEAN, EnableCoil(on) PROVE Work' <= Work
  BY <1>1 DEF EnableCoil, Setup, Undisturbed
<1>2. ASSUME NEW rc \in {"ok", "invalid_cmd"}, Query(rc) PROVE Work' <= Work
  BY <1>2 DEF Query, Setup
<1>3. ASSUME RequestReset PROVE Work' <= Work
  BY <1>3 DEF RequestReset, Setup, Undisturbed
<1>4. ASSUME NEW cmd \in Vectors, RequestVector(cmd) PROVE Work' <= Work
  BY <1>4 DEF RequestVector, Undisturbed
<1>5. ASSUME NEW p \in Starts, TransferStart(p) PROVE Work' <= Work
  BY <1>5 DEF TransferStart, Setup, Undisturbed
<1>6. ASSUME NEW n \in 0 .. IdModulus - 1, TransferStatus(n) PROVE Work' <= Work
  BY <1>6 DEF TransferStatus, Setup
<1>7. ASSUME NEW len \in 1 .. PacketSize, ReadData(len) PROVE Work' <= Work
  BY <1>7 DEF ReadData
<1>8. ASSUME NEW len \in 1 .. PacketSize, WriteData(len) PROVE Work' <= Work
  BY <1>8 DEF WriteData
<1>9. ASSUME StartState PROVE Work' <= Work
  BY <1>9 DEF StartState
<1>10. ASSUME StatusState PROVE Work' <= Work
  BY <1>10 DEF StatusState
<1>11. ASSUME StatusHi PROVE Work' <= Work
  BY <1>11 DEF StatusHi
<1>12. ASSUME StatusLo PROVE Work' <= Work
  BY <1>12 DEF StatusLo
<1>13. ASSUME JumpToBoot PROVE Work' <= Work
  BY <1>13 DEF JumpToBoot, Quiet
<1>14. ASSUME Reboot PROVE Work' <= Work
  BY <1>14 DEF Reboot
<1>15. CASE UNCHANGED vars
  BY <1>15 DEF vars
<1> QED BY <1>1, <1>2, <1>3, <1>4, <1>5, <1>6, <1>7, <1>8, <1>9, <1>10, <1>11, <1>12,
      <1>13, <1>14, <1>15 DEF Next, Request, Handler, Evaluate, Engine

\* A transfer uses itself up, whatever the host asks meanwhile: the work left is a natural
\* number, no step raises it, and every statement that arms the transfer, every compare
\* match, every interrupt and the main loop's last step lower it.
THEOREM TransferRunsOut == ASSUME NoInterference PROVE Spec => [][WorksOff]_vars
<1>1. TypeOK /\ Discipline => Work \in Nat
  BY TablesHold, WorkIsNat
<1>2. (TypeOK /\ Discipline => Work \in Nat)'
  BY <1>1, PTL
<1>3. TypeOK /\ TypeOK' /\ Discipline /\ Discipline' /\ [Next]_vars => [WorksOff]_vars
  <2>1. ASSUME TypeOK, TypeOK', Discipline, Discipline', [Next]_vars, state # "IDLE"
        PROVE  Work \in Nat /\ Work' \in Nat /\ Work' <= Work /\ (Engine => Work' < Work)
    <3>1. Work \in Nat /\ Work' \in Nat
      BY <1>1, <1>2, <2>1
    <3>2. CASE Engine
      <4>1. Work' < Work
        BY <2>1, <3>2, NoInterference, TablesHold, TablesHoldNext, EngineStep
      <4> QED
        BY <3>1, <4>1
    <3>3. CASE ~Engine
      BY <2>1, <3>1, <3>3, NoInterference, TablesHold, TablesHoldNext, OtherStep
    <3> QED
      BY <3>2, <3>3
  <2> QED
    BY <2>1 DEF WorksOff
<1> QED
  BY <1>3, TypeCorrect, Disciplined, PTL DEF Spec

============================================================================
