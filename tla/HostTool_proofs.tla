-------------------------- MODULE HostTool_proofs --------------------------
(***************************************************************************)
(* What a process of the tool reports is what the reader did, for every    *)
(* number of blocks, every width of the ids and every sequence of          *)
(* commands, failing calls and unplugged readers.                          *)
(***************************************************************************)
EXTENDS HostTool, TLAPS

(***************************************************************************)
(* Control: what each step of a process knows about the handle and the     *)
(* version, and when interrupts of an older transfer may still be on.      *)
(***************************************************************************)
Control ==
  /\ phase \in Phases /\ mixed \in {"no", "sampler", "player"}
  /\ pc \in Steps \cup {"away"}
  /\ handle \in {"none", "open", "stale"}
  /\ pc \in {"away", "search"} => handle = "none"
  /\ pc = "version" => ~known
  /\ pc = "search" => ~known
  /\ pc \in Steps \ {"search", "version"} => known
  /\ pc \in Steps \ {"search", "version", "sizes"} => supported
  /\ mixed # "no" => phase \notin {"idle", "finished"}
  /\ pc = "fetch" => phase = "idle"
  /\ ~supported => /\ phase = "idle" /\ id = 0 /\ ~widths /\ buffer = Junk
                   /\ played = <<>>

\* Facts about a step of the process that leaves the reader alone, or not
LEMMA RequestEffect ==
  ASSUME NEW times, Control, Request(times)
  PROVE  /\ mixed' \in {"no", "sampler", "player"}
         /\ phase' \in Phases
         /\ mixed' # "no" => phase' \notin {"idle", "finished"}
         /\ pc \notin {"reset", "start"} => UNCHANGED <<phase, tx, timeout, timedOut, id, age, mixed>>
         /\ pc \in {"version", "sizes", "status", "fetch"} => UNCHANGED deviceVars
<1>1. CASE pc = "reset" /\ RequestReset
  BY <1>1 DEF Control, Phases, RequestReset
<1>2. CASE pc = "start" /\ StartTransfer(times)
  <2>1. phase' = "starting" /\ mixed' = StillRunning
    BY <1>2 DEF StartTransfer, Start
  <2>2. StillRunning \in {"no", "sampler", "player"}
    BY DEF StillRunning, Control
  <2> QED BY <1>2, <2>1, <2>2 DEF Phases
<1>3. CASE pc = "widths" /\ WriteWidths
  BY <1>3 DEF Control, WriteWidths
<1>4. ASSUME NEW content, pc = "pulses", WriteBuffer(content)
      PROVE  /\ UNCHANGED <<phase, tx, timeout, timedOut, id, age, mixed>>
             /\ phase' \in Phases /\ mixed' \in {"no", "sampler", "player"}
             /\ mixed' # "no" => phase' \notin {"idle", "finished"}
  BY <1>4 DEF Control, WriteBuffer
<1>5. CASE pc \in {"version", "sizes", "status", "fetch"} /\ UNCHANGED deviceVars
  BY <1>5 DEF Control, deviceVars
<1> QED BY <1>1, <1>2, <1>3, <1>4, <1>5 DEF Request

LEMMA ControlKept == Control /\ [Next]_vars => Control'
<1> SUFFICES ASSUME Control, [Next]_vars PROVE Control'
  OBVIOUS
<1> USE DEF Control
<1>1. ASSUME NEW o \in Commands, NEW bench \in Benches, Launch(o, bench) PROVE Control'
  BY <1>1 DEF Launch, Steps, Phases
<1>2. CASE Skip
  BY <1>2 DEF Skip, Searching, deviceVars
<1>3. CASE OpenFails
  BY <1>3 DEF OpenFails, Searching, deviceVars, toolVars
<1>4. CASE Found
  BY <1>4 DEF Found, Searching, deviceVars, Steps
<1>5. CASE NotFound
  BY <1>5 DEF NotFound, Searching, deviceVars, Exit, Steps
<1>6. CASE Refused
  BY <1>6 DEF Refused, deviceVars, Exit, Steps
<1>7. CASE Failed
  BY <1>7, RequestEffect DEF Failed, deviceVars, Exit, Steps, Checked, Talking, WriteBuffer
<1>8. CASE GetVersion
  BY <1>8, RequestEffect DEF GetVersion, Answered, deviceVars, Steps
<1>9. CASE GetBufferSize
  BY <1>9, RequestEffect DEF GetBufferSize, Answered, deviceVars, Steps, Checked
<1>10. CASE Dispatch
  BY <1>10 DEF Dispatch, deviceVars, Steps, Exit
<1>11. CASE Reset
  BY <1>11, RequestEffect DEF Reset, Answered, Steps, Exit
<1>12. CASE PutWidths
  BY <1>12, RequestEffect DEF PutWidths, Answered, Steps, deviceVars
<1>13. CASE PutPulses
  BY <1>13, RequestEffect DEF PutPulses, Answered, Steps, deviceVars
<1>14. ASSUME NEW times \in Times, TransferStart(times) PROVE Control'
  BY <1>14, RequestEffect DEF TransferStart, Answered, Steps, Times
<1>15. CASE Wake
  BY <1>15 DEF Wake, deviceVars, Steps, TimePasses
<1>16. CASE TransferStatus
  <2>1. pc = "status" /\ supported /\ UNCHANGED deviceVars
    BY <1>16, RequestEffect DEF TransferStatus, Answered, Steps
  <2>2. Accepted(verdict') => phase = "idle"
    BY <1>16 DEF TransferStatus, Accepted, Status
  <2>3. \/ pc' = "away" /\ handle' = "none"
        \/ pc' = "fetch" /\ Accepted(verdict') /\ UNCHANGED handle
        \/ pc' = "widths" /\ UNCHANGED handle
    BY <1>16 DEF TransferStatus, Exit
  <2>4. UNCHANGED <<known, supported>>
    BY <1>16 DEF TransferStatus, Answered
  <2> QED BY <2>1, <2>2, <2>3, <2>4 DEF deviceVars, Steps
<1>17. CASE Fetch
  BY <1>17, RequestEffect DEF Fetch, Answered, Steps, deviceVars, Exit
<1>18. CASE Pause
  BY <1>18 DEF Pause, TimePasses, toolVars
<1>19. CASE Engine
  BY <1>19 DEF Engine, toolVars, Arm, Settle, Edge, Ends, Scramble, EndEarly, Received,
     Transmitted, Expire, Phases
<1>20. CASE Reboot
  BY <1>20 DEF Reboot, Restart, toolVars, Phases
<1>21. CASE Replug
  BY <1>21 DEF Replug, Restart, Phases
<1>22. CASE UNCHANGED vars
  BY <1>22 DEF vars, toolVars, deviceVars
<1> QED
  BY <1>1, <1>2, <1>3, <1>4, <1>5, <1>6, <1>7, <1>8, <1>9, <1>10, <1>11, <1>12, <1>13,
     <1>14, <1>15, <1>16, <1>17, <1>18, <1>19, <1>20, <1>21, <1>22 DEF Next, Tool

LEMMA ControlAlways == Spec => []Control
<1>1. Init => Control
  BY DEF Init, Fresh, Control, Phases, Steps
<1> QED BY <1>1, ControlKept, PTL DEF Spec

\* A reader with unknown firmware is asked for its version only.
THEOREM UnsupportedLeftAlone == Spec => []UnsupportedUntouched
<1>1. Control => UnsupportedUntouched
  BY DEF Control, UnsupportedUntouched
<1> QED BY <1>1, ControlAlways, PTL
(***************************************************************************)
(* Routes: what the options have to do with the step a process is at, and  *)
(* what a success means for the reader.                                    *)
(***************************************************************************)
Route ==
  /\ options \in Options
  /\ pc # "away" => exit = 1 /\ ~Rejected(options)
  /\ block \in 0 .. Blocks
  /\ pc # "away" => block < Blocks
  /\ pc = "reset" => options.resetIface
  /\ pc \in {"widths", "pulses"} => Programs
  /\ pc = "fetch" => Reads
  /\ pc \in {"start", "sleep", "status"} => Reads \/ Programs
  /\ SuccessIsOver

LEMMA RouteKept == Control /\ Route /\ [Next]_vars => Route'
<1> SUFFICES ASSUME Control, Route, [Next]_vars PROVE Route'
  OBVIOUS
<1> USE DEF Route, Reads, Programs, SuccessIsOver, Rejected, Options
<1>1. ASSUME NEW o \in Commands, NEW bench \in Benches, Launch(o, bench) PROVE Route'
  BY <1>1, ToolAssumption DEF Launch
<1>2. CASE Skip
  BY <1>2 DEF Skip, Searching, deviceVars
<1>3. CASE OpenFails
  BY <1>3 DEF OpenFails, Searching, deviceVars, toolVars
<1>4. CASE Found
  BY <1>4 DEF Found, Searching, deviceVars
<1>5. CASE NotFound
  BY <1>5 DEF NotFound, Searching, deviceVars, Exit
<1>6. CASE Refused
  BY <1>6 DEF Refused, deviceVars, Exit
<1>7. CASE Failed
  BY <1>7 DEF Failed, Exit
<1>8. CASE GetVersion
  BY <1>8 DEF GetVersion, Answered
<1>9. CASE GetBufferSize
  BY <1>9 DEF GetBufferSize, Answered
<1>10. CASE Dispatch
  BY <1>10 DEF Dispatch, deviceVars, Exit, Reading, Options
<1>11. CASE Reset
  BY <1>11 DEF Reset, Answered, Exit
<1>12. CASE PutWidths
  BY <1>12 DEF PutWidths, Answered
<1>13. CASE PutPulses
  BY <1>13 DEF PutPulses, Answered
<1>14. ASSUME NEW times \in Times, TransferStart(times) PROVE Route'
  BY <1>14 DEF TransferStart, Answered, Steps
<1>15. CASE Wake
  BY <1>15 DEF Wake
<1>16. CASE TransferStatus
  <2>1. /\ pc = "status" /\ UNCHANGED options /\ UNCHANGED deviceVars
        /\ Accepted(verdict') => phase = "idle"
    BY <1>16, RequestEffect DEF TransferStatus, Answered, Accepted, Status
  <2>2. \/ pc' = "away" /\ exit' = -1 /\ UNCHANGED block
        \/ Reading /\ pc' = "fetch" /\ UNCHANGED <<exit, block>>
        \/ /\ ~Reading /\ Accepted(verdict') /\ block' = block + 1
           /\ IF block' = Blocks THEN pc' = "away" /\ exit' = 0
              ELSE pc' = "widths" /\ UNCHANGED exit
    BY <1>16 DEF TransferStatus, Exit
  <2>3. block' \in 0 .. Blocks /\ (pc' # "away" => block' < Blocks)
    BY <2>1, <2>2, ToolAssumption
  <2>4. /\ options' \in Options /\ (pc' # "away" => exit' = 1 /\ ~Rejected(options)')
        /\ pc' # "reset" /\ pc' # "pulses" /\ pc' \notin {"start", "sleep", "status"}
    BY <2>1, <2>2
  <2>5. (pc' = "widths" => Programs') /\ (pc' = "fetch" => Reads')
    BY <2>1, <2>2 DEF Reading
  <2>6. SuccessIsOver'
    BY <2>1, <2>2 DEF deviceVars
  <2> QED BY <2>3, <2>4, <2>5, <2>6
<1>17. CASE Fetch
  BY <1>17, RequestEffect DEF Fetch, Answered, Exit, Control, deviceVars
<1>18. CASE Pause
  BY <1>18 DEF Pause, TimePasses, toolVars
<1>19. CASE Engine
  BY <1>19 DEF Engine, toolVars, Control, Arm, Settle, Edge, Ends, Scramble, EndEarly,
     Received, Transmitted, Expire
<1>20. CASE Reboot
  BY <1>20 DEF Reboot, Restart, toolVars
<1>21. CASE Replug
  BY <1>21 DEF Replug, Restart
<1>22. CASE UNCHANGED vars
  BY <1>22 DEF vars, toolVars, deviceVars
<1> QED
  BY <1>1, <1>2, <1>3, <1>4, <1>5, <1>6, <1>7, <1>8, <1>9, <1>10, <1>11, <1>12, <1>13, <1>14, <1>15, <1>16, <1>17, <1>18, <1>19, <1>20, <1>21, <1>22 DEF Next, Tool

\* Both waits are longer than a sleep.
LEMMA Timeouts ==
  /\ ReadTimeout \in Nat /\ WriteTimeout \in Nat
  /\ ReadTimeout >= Sleep /\ WriteTimeout >= Sleep
<1>1. WriteTimeout = 21248 /\ ReadTimeout = 60000
  BY DEF WriteTimeout, ReadTimeout
<1> QED BY <1>1, SleepAssumption, DeviceAssumption

(***************************************************************************)
(* Own: while the tool waits, the transfer whose status it will ask for is *)
(* the latest one, and its wait has not expired.                           *)
(***************************************************************************)
Own ==
  /\ timeout \in Nat /\ age \in Nat
  /\ verdict \in {"none", "ok", "in_progress"}
  /\ pc \in {"sleep", "status"} /\ handle = "open" =>
       /\ phase # "boot" /\ transferId = id /\ timedOut = FALSE /\ timeout >= Sleep
       /\ pc = "sleep" /\ phase = "wait" => age = 0

\* The own wait does not expire before its status was asked for.
LEMMA ExpiresLate ==
  ASSUME Own, LateEnough, Expire
  PROVE  ~(pc \in {"sleep", "status"} /\ handle = "open")
<1> SUFFICES ASSUME pc = "sleep", handle = "open" PROVE FALSE
  BY DEF LateEnough
<1>1. age = 0 /\ timeout >= Sleep /\ (age + 1) * Sleep > timeout /\ timeout \in Nat
  BY DEF Expire, Own
<1>2. (0 + 1) * Sleep > timeout
  BY <1>1
<1> QED BY <1>1, <1>2, DeviceAssumption

LEMMA OwnKept == Control /\ Own /\ [Next]_vars => Own'
<1> SUFFICES ASSUME Control, Own, [Next]_vars PROVE Own'
  OBVIOUS
<1> USE DEF Own
<1>1. ASSUME NEW o \in Commands, NEW bench \in Benches, Launch(o, bench) PROVE Own'
  BY <1>1 DEF Launch
<1>2. CASE Skip
  BY <1>2 DEF Skip, Searching, deviceVars
<1>3. CASE OpenFails
  BY <1>3 DEF OpenFails, Searching, deviceVars, toolVars
<1>4. CASE Found
  BY <1>4 DEF Found, Searching, deviceVars
<1>5. CASE NotFound
  BY <1>5 DEF NotFound, Searching, deviceVars, Exit
<1>6. CASE Refused
  BY <1>6 DEF Refused, deviceVars, Exit
<1>7. CASE Failed
  <2>1. UNCHANGED <<timeout, age>> \/ (timeout' \in {ReadTimeout, WriteTimeout} /\ UNCHANGED age)
    BY <1>7 DEF Failed, deviceVars, Request, RequestReset, WriteWidths, WriteBuffer, StartTransfer,
       Start
  <2>2. pc' = "away" /\ UNCHANGED verdict
    BY <1>7 DEF Failed, Exit
  <2> QED BY <2>1, <2>2, Timeouts
<1>8. CASE GetVersion
  BY <1>8, RequestEffect DEF GetVersion, Answered, deviceVars
<1>9. CASE GetBufferSize
  BY <1>9, RequestEffect DEF GetBufferSize, Answered, deviceVars
<1>10. CASE Dispatch
  BY <1>10 DEF Dispatch, deviceVars, Exit
<1>11. CASE Reset
  BY <1>11 DEF Reset, Answered, Exit, Request, RequestReset
<1>12. CASE PutWidths
  BY <1>12, RequestEffect DEF PutWidths, Answered
<1>13. CASE PutPulses
  BY <1>13, RequestEffect DEF PutPulses, Answered
<1>14. ASSUME NEW times \in Times, TransferStart(times) PROVE Own'
  <2>1. phase' = "starting" /\ id' = transferId' /\ timedOut' = FALSE /\ pc' = "sleep"
    BY <1>14 DEF TransferStart, Answered, AnsweredId, Request, StartTransfer, Start
  <2>2. timeout' \in {ReadTimeout, WriteTimeout}
    BY <1>14 DEF TransferStart, Answered, Request, StartTransfer, Start
  <2>3. UNCHANGED <<age, verdict>>
    BY <1>14 DEF TransferStart, Answered, Request, StartTransfer, Start
  <2> QED BY <2>1, <2>2, <2>3, Timeouts
<1>15. CASE Wake
  <2>1. UNCHANGED <<phase, id, timedOut, timeout, transferId, handle, verdict>>
    BY <1>15 DEF Wake, TimePasses, deviceVars
  <2>2. pc' = "status" /\ age' \in Nat
    BY <1>15 DEF Wake, TimePasses, deviceVars
  <2> QED BY <1>15, <2>1, <2>2 DEF Wake
<1>16. CASE TransferStatus
  <2>1. UNCHANGED deviceVars /\ pc = "status" /\ handle = "open" /\ UNCHANGED transferId
    BY <1>16, RequestEffect DEF TransferStatus, Answered
  <2>2. pc' \notin {"sleep", "status"}
    BY <1>16 DEF TransferStatus, Exit
  <2>3. verdict' \in {"ok", "in_progress"}
    BY <1>16, <2>1, Zenon DEF TransferStatus, Status
  <2> QED BY <2>1, <2>2, <2>3 DEF deviceVars
<1>17. CASE Fetch
  BY <1>17, RequestEffect DEF Fetch, Answered, Exit, deviceVars
<1>18. CASE Pause
  BY <1>18 DEF Pause, TimePasses, toolVars
<1>19. CASE Engine
  <2>1. CASE Arm \/ Settle \/ Edge \/ Received \/ Transmitted \/ Scramble \/ EndEarly
    BY <1>19, <2>1 DEF Engine, toolVars, Arm, Settle, Edge, Received, Transmitted, Scramble, EndEarly
  <2>2. CASE LateEnough /\ Expire
    <3>1. ~(pc \in {"sleep", "status"} /\ handle = "open")
      BY <2>2, ExpiresLate
    <3>2. pc \in {"sleep", "away"} /\ UNCHANGED toolVars
      BY <1>19, <2>2 DEF LateEnough, Engine
    <3> QED BY <2>2, <3>1, <3>2 DEF Expire, toolVars
  <2> QED BY <1>19, <2>1, <2>2 DEF Engine, Ends
<1>20. CASE Reboot
  BY <1>20 DEF Reboot, Restart, toolVars
<1>21. CASE Replug
  BY <1>21 DEF Replug, Restart
<1>22. CASE UNCHANGED vars
  BY <1>22 DEF vars, toolVars, deviceVars
<1> QED
  BY <1>1, <1>2, <1>3, <1>4, <1>5, <1>6, <1>7, <1>8, <1>9, <1>10, <1>11, <1>12, <1>13, <1>14, <1>15, <1>16, <1>17, <1>18, <1>19, <1>20, <1>21, <1>22 DEF Next, Tool

LEMMA RouteAlways == Spec => []Route
<1>1. Init => Route
  <2> SUFFICES ASSUME Init PROVE Route
    OBVIOUS
  <2>1. block \in 0 .. Blocks /\ pc = "away" /\ exit = 1
    BY ToolAssumption DEF Init
  <2>2. options \in Options
    BY DEF Init, NoOptions, Options
  <2> QED BY <2>1, <2>2 DEF Route, SuccessIsOver
<1> QED BY <1>1, RouteKept, ControlAlways, PTL DEF Spec

LEMMA OwnAlways == Spec => []Own
<1>1. Init => Own
  BY DEF Init, Fresh, Own
<1> QED BY <1>1, OwnKept, ControlAlways, PTL DEF Spec

\* A success of reading or programming means that the reader is at rest again.
THEOREM SuccessLeavesNothing == Spec => []SuccessIsOver
<1>1. Route => SuccessIsOver
  BY DEF Route
<1> QED BY <1>1, RouteAlways, PTL

\* The status that is looked at is that of the own transfer, before it can time out.
THEOREM VerdictIsOwn == Spec => []OwnVerdict
<1>1. Own => OwnVerdict
  BY DEF Own, OwnVerdict
<1> QED BY <1>1, OwnAlways, PTL

(***************************************************************************)
(* Types: what is left of TypeOK, the reader's part first.                 *)
(***************************************************************************)
DeviceFlags ==
  tx \in BOOLEAN /\ timedOut \in BOOLEAN /\ whole \in BOOLEAN /\ widths \in BOOLEAN

Ids    == 0 .. IdModulus - 1

DeviceValues ==
  /\ timeout \in Counts /\ id \in Ids
  /\ buffer \in Contents /\ played \in Seq(Contents)

DeviceTypes == DeviceFlags /\ DeviceValues

ToolFlags == known \in BOOLEAN /\ supported \in BOOLEAN /\ hasty \in BOOLEAN

ToolValues ==
  /\ transferId \in Ids
  /\ disturbed \subseteq 0 .. Blocks - 1
  /\ samples \in Contents
  /\ exit \in {-1, 0, 1}
  /\ list \in Seq(Devices)
  /\ verdict \in {"none", "ok", "in_progress", "timeout", "unknown"}

ToolTypes == ToolFlags /\ ToolValues

LEMMA ContentsTypes ==
  /\ Junk \in Contents
  /\ \A n \in Nat : Pulses(n) \in Contents /\ Capture(n) \in Contents
BY DEF Junk, Pulses, Capture, Contents

LEMMA IdRange == \A n \in Nat : n % IdModulus \in Ids
BY DeviceAssumption DEF Ids

LEMMA TypesUnchanged == DeviceTypes /\ UNCHANGED deviceVars => DeviceTypes'
<1> SUFFICES ASSUME DeviceTypes, UNCHANGED deviceVars PROVE DeviceTypes'
  OBVIOUS
<1>1. UNCHANGED <<tx, timedOut, whole, widths>> /\ UNCHANGED <<timeout, id, buffer, played>>
  BY DEF deviceVars
<1> QED
  BY <1>1, Zenon DEF DeviceTypes, DeviceFlags, DeviceValues

\* A request keeps the types of the reader's variables.
LEMMA RequestTypes ==
  ASSUME DeviceTypes, block \in Nat, NEW times \in Nat, Request(times)
  PROVE  DeviceTypes'
<1> USE DEF DeviceTypes
<1>1. CASE RequestReset \/ WriteWidths
  <2>1. DeviceFlags'
    BY <1>1, Zenon DEF RequestReset, WriteWidths, DeviceFlags
  <2>2. DeviceValues'
    BY <1>1, Zenon DEF RequestReset, WriteWidths, DeviceValues
  <2> QED
    BY <2>1, <2>2
<1>2. CASE StartTransfer(times)
  <2>1. DeviceFlags'
    BY <1>2, Zenon DEF StartTransfer, Start, DeviceFlags
  <2>2. /\ timeout' = ReadTimeout \/ timeout' = WriteTimeout
        /\ id' = (id + times) % IdModulus
        /\ UNCHANGED <<buffer, played>>
    BY <1>2, Zenon DEF StartTransfer, Start
  <2>3. timeout' \in Counts
    <3>1. ReadTimeout \in Counts /\ WriteTimeout \in Counts
      BY DEF ReadTimeout, WriteTimeout, Counts
    <3> QED
      BY <2>2, <3>1, Zenon
  <2>4. id + times \in Nat
    BY DeviceAssumption DEF DeviceValues, Ids
  <2>5. id' \in Ids
    BY <2>2, <2>4, IdRange, Zenon
  <2>6. DeviceValues'
    BY <2>2, <2>3, <2>5, Zenon DEF DeviceValues
  <2> QED
    BY <2>1, <2>6
<1>4. ASSUME NEW content \in Delivered, WriteBuffer(content) PROVE DeviceTypes'
  <2>1. DeviceFlags'
    BY <1>4, Zenon DEF WriteBuffer, DeviceFlags
  <2>2. content \in Contents
    BY ContentsTypes DEF Delivered, DeviceValues
  <2>3. DeviceValues'
    BY <1>4, <2>2, Zenon DEF WriteBuffer, DeviceValues
  <2> QED
    BY <2>1, <2>3
<1>5. CASE UNCHANGED deviceVars
  BY <1>5, TypesUnchanged
<1> QED
  BY <1>1, <1>2, <1>4, <1>5, Zenon DEF Request

\* So does whatever the reader does by itself.
LEMMA EngineTypes ==
  ASSUME DeviceTypes,
         Arm \/ Settle \/ Edge \/ Ends \/ Scramble \/ EndEarly \/ TimePasses \/ Restart
           \/ UNCHANGED deviceVars
  PROVE  DeviceTypes'
<1> USE DEF DeviceTypes
<1>1. CASE Arm \/ Settle \/ TimePasses \/ Expire \/ Scramble \/ Edge
  <2>1. DeviceFlags'
    BY <1>1, Zenon DEF Arm, Settle, TimePasses, Expire, Scramble, Edge, DeviceFlags
  <2>2. /\ UNCHANGED <<timeout, id, played>>
        /\ buffer' = buffer \/ buffer' = Junk
    BY <1>1, Zenon DEF Arm, Settle, TimePasses, Expire, Scramble, Edge
  <2> QED
    BY <2>1, <2>2, ContentsTypes, Zenon DEF DeviceValues
<1>2. CASE Received \/ Transmitted \/ EndEarly
  <2>1. DeviceFlags'
    BY <1>2, Zenon DEF Received, Transmitted, EndEarly, DeviceFlags
  <2>2. /\ UNCHANGED <<timeout, id>>
        /\ buffer' = buffer \/ buffer' = Junk \/ buffer' = Capture(id)
        /\ \/ played' = played \/ played' = Append(played, Junk)
           \/ played' = Append(played, buffer)
    BY <1>2, Zenon DEF Received, Transmitted, EndEarly
  <2>3. id \in Nat
    BY DeviceAssumption DEF DeviceValues, Ids
  <2>4. buffer' \in Contents
    BY <2>2, <2>3, ContentsTypes, Zenon DEF DeviceValues
  <2>5. played' \in Seq(Contents)
    BY <2>2, ContentsTypes DEF DeviceValues
  <2> QED
    BY <2>1, <2>2, <2>4, <2>5, Zenon DEF DeviceValues
<1>3. CASE Restart
  <2>1. DeviceFlags'
    BY <1>3, Zenon DEF Restart, DeviceFlags
  <2>2. timeout' = 0 /\ id' = 0 /\ buffer' = Junk /\ played' = played
    BY <1>3, Zenon DEF Restart
  <2>3. 0 \in Counts /\ 0 \in Ids
    BY DeviceAssumption DEF Counts, Ids
  <2>4. DeviceValues'
    BY <2>2, <2>3, ContentsTypes, Zenon DEF DeviceValues
  <2> QED
    BY <2>1, <2>4
<1>4. CASE UNCHANGED deviceVars
  BY <1>4, TypesUnchanged
<1> QED
  BY <1>1, <1>2, <1>3, <1>4 DEF Ends

LEMMA TypesKept ==
  Control /\ Route /\ DeviceTypes /\ ToolTypes /\ [Next]_vars => DeviceTypes' /\ ToolTypes'
<1> SUFFICES ASSUME Control, Route, DeviceTypes, ToolTypes, [Next]_vars
             PROVE  DeviceTypes' /\ ToolTypes'
  OBVIOUS
<1> USE DEF ToolTypes, ToolFlags, ToolValues
<1>0. block \in Nat /\ 1 \in Nat /\ Times \subseteq Nat
  BY ToolAssumption DEF Route, Times
<1>1. ASSUME NEW o \in Commands, NEW bench \in Benches, Launch(o, bench)
      PROVE  DeviceTypes' /\ ToolTypes'
  <2>1. DeviceTypes'
    <3>1. played' = <<>> /\ UNCHANGED <<tx, timedOut, whole, widths, timeout, id, buffer>>
      BY <1>1, Zenon DEF Launch
    <3>2. DeviceFlags'
      BY <3>1, Zenon DEF DeviceTypes, DeviceFlags
    <3>3. DeviceValues'
      BY <3>1 DEF DeviceTypes, DeviceValues
    <3> QED
      BY <3>2, <3>3 DEF DeviceTypes
  <2>2. exit' \in {-1, 1} /\ hasty' \in BOOLEAN
    BY <1>1, Zenon DEF Launch
  <2> QED
    BY <1>1, <2>1, <2>2, ToolAssumption, ContentsTypes DEF Launch
<1>2. CASE Skip
  <2>1. list' \in Seq(Devices)
    BY <1>2 DEF Skip, NextDevice
  <2> QED
    BY <1>2, <2>1, EngineTypes DEF Skip, Searching
<1>3. CASE OpenFails
  BY <1>3, EngineTypes DEF OpenFails, Searching, toolVars
<1>4. CASE Found
  BY <1>4, EngineTypes DEF Found, Searching
<1>5. CASE NotFound
  BY <1>5, EngineTypes DEF NotFound, Searching, Exit
<1>6. CASE Refused
  BY <1>6, EngineTypes DEF Refused, Exit
<1>7. CASE Failed
  <2>1. UNCHANGED deviceVars \/ Request(1)
    BY <1>7, Zenon DEF Failed
  <2>2. DeviceTypes'
    BY <1>0, <2>1, RequestTypes, EngineTypes
  <2> QED
    BY <1>7, <2>2 DEF Failed, Exit
<1>8. CASE GetVersion \/ GetBufferSize \/ Reset \/ PutWidths \/ PutPulses
  <2>1. Request(1)
    BY <1>8, Zenon DEF GetVersion, GetBufferSize, Reset, PutWidths, PutPulses, Answered
  <2>2. DeviceTypes'
    BY <1>0, <2>1, RequestTypes
  <2>3. disturbed' = disturbed \/ (pc # "away" /\ disturbed' = disturbed \cup {block})
    BY <1>8, Zenon DEF GetVersion, GetBufferSize, Reset, PutWidths, PutPulses, Answered
  <2>4. disturbed' \subseteq 0 .. Blocks - 1
    <3>1. pc # "away" => block \in 0 .. Blocks - 1
      BY ToolAssumption DEF Route
    <3>2. disturbed \subseteq 0 .. Blocks - 1
      BY Zenon
    <3> QED BY <2>3, <3>1, <3>2
  <2> QED
    BY <1>8, <2>2, <2>4 DEF GetVersion, GetBufferSize, Reset, PutWidths, PutPulses, Answered, Exit
<1>9. CASE Dispatch
  <2>1. UNCHANGED deviceVars /\ exit' \in {exit, 0}
    BY <1>9, Zenon DEF Dispatch, Exit
  <2> QED
    BY <1>9, <2>1, EngineTypes DEF Dispatch
<1>10. ASSUME NEW times \in Times, TransferStart(times) PROVE DeviceTypes' /\ ToolTypes'
  <2>1. Request(times) /\ transferId' = (id + times) % IdModulus
    BY <1>10, Zenon DEF TransferStart, Answered, AnsweredId
  <2>2. DeviceTypes'
    BY <1>0, <2>1, RequestTypes
  <2>3. id + times \in Nat
    BY <1>0, DeviceAssumption DEF DeviceTypes, DeviceValues, Ids
  <2>4. transferId' \in Ids
    BY <2>1, <2>3, IdRange
  <2> QED
    BY <1>10, <2>2, <2>4 DEF TransferStart, Answered
<1>11. CASE Wake
  <2>1. UNCHANGED deviceVars \/ TimePasses
    BY <1>11, Zenon DEF Wake
  <2> QED
    BY <1>11, <2>1, EngineTypes DEF Wake
<1>12. CASE TransferStatus
  <2>1. Request(1)
    BY <1>12, Zenon DEF TransferStatus, Answered
  <2>2. verdict' \in {"ok", "in_progress", "timeout", "unknown"}
    BY <1>12, Zenon DEF TransferStatus, Status
  <2>3. exit' \in {exit, 0, -1}
    BY <1>12, Zenon DEF TransferStatus, Exit
  <2> QED
    BY <1>0, <1>12, <2>1, <2>2, <2>3, RequestTypes DEF TransferStatus, Answered
<1>13. CASE Fetch
  <2>1. Request(1) /\ samples' = buffer
    BY <1>13, Zenon DEF Fetch, Answered
  <2>2. samples' \in Contents
    BY <2>1, Zenon DEF DeviceTypes, DeviceValues
  <2>3. DeviceTypes'
    BY <1>0, <2>1, RequestTypes
  <2> QED
    BY <1>13, <2>2, <2>3 DEF Fetch, Answered, Exit
<1>14. CASE Pause
  BY <1>14, EngineTypes DEF Pause, toolVars
<1>15. CASE Engine
  BY <1>15, EngineTypes DEF Engine, toolVars
<1>16. CASE Reboot
  BY <1>16, EngineTypes DEF Reboot, toolVars
<1>17. CASE Replug
  BY <1>17, EngineTypes DEF Replug
<1>18. CASE UNCHANGED vars
  BY <1>18, EngineTypes DEF vars, toolVars
<1> QED
  BY <1>1, <1>2, <1>3, <1>4, <1>5, <1>6, <1>7, <1>8, <1>9, <1>10, <1>11, <1>12, <1>13,
     <1>14, <1>15, <1>16, <1>17, <1>18 DEF Next, Tool

LEMMA TypesInit == Init => DeviceTypes /\ ToolTypes
<1> SUFFICES ASSUME Init PROVE DeviceTypes /\ ToolTypes
  OBVIOUS
<1>1. 0 \in Ids /\ 0 \in Counts
  BY DeviceAssumption DEF Counts, Ids
<1>2. DeviceTypes
  <2>1. DeviceFlags
    BY Zenon DEF Init, Fresh, DeviceFlags
  <2>2. DeviceValues
    BY <1>1, ContentsTypes DEF Init, Fresh, DeviceValues
  <2> QED
    BY <2>1, <2>2 DEF DeviceTypes
<1>3. ToolTypes
  <2>1. ToolFlags
    BY Zenon DEF Init, ToolFlags
  <2>2. transferId \in Ids /\ samples \in Contents
    BY <1>1, ContentsTypes, Zenon DEF Init
  <2>3. exit \in {-1, 0, 1} /\ list \in Seq(Devices) /\ disturbed \subseteq 0 .. Blocks - 1
    BY DEF Init
  <2>4. verdict \in {"none", "ok", "in_progress", "timeout", "unknown"}
    BY Zenon DEF Init
  <2> QED
    BY <2>1, <2>2, <2>3, <2>4, Zenon DEF ToolTypes, ToolValues
<1> QED
  BY <1>2, <1>3

LEMMA DeviceToolTypes == Spec => [](DeviceTypes /\ ToolTypes)
BY TypesInit, TypesKept, ControlAlways, RouteAlways, PTL DEF Spec

\* Ids and timeouts keep the width of their C types, no content of the buffer is anything
\* but a block, a capture or a mixture, and no block is counted beyond the last.
THEOREM TypesAlways == Spec => []TypeOK
<1>1. ASSUME Control, Route, Own, DeviceTypes, ToolTypes PROVE TypeOK
  <2>1. /\ phase \in Phases /\ mixed \in {"no", "sampler", "player"}
        /\ pc \in Steps \cup {"away"} /\ handle \in {"none", "open", "stale"}
    BY <1>1 DEF Control
  <2>2. {tx, timedOut, whole, widths, known, supported, hasty} \subseteq BOOLEAN
    <3>1. /\ tx \in BOOLEAN /\ timedOut \in BOOLEAN /\ whole \in BOOLEAN /\ widths \in BOOLEAN
          /\ known \in BOOLEAN /\ supported \in BOOLEAN /\ hasty \in BOOLEAN
      BY <1>1, Zenon DEF DeviceTypes, ToolTypes, DeviceFlags, ToolFlags
    <3> QED
      BY <3>1, Zenon
  <2>3. timeout \in Counts /\ {id, transferId} \subseteq 0 .. IdModulus - 1
    <3>1. timeout \in Counts /\ id \in Ids /\ transferId \in Ids
      BY <1>1, Zenon DEF DeviceTypes, ToolTypes, DeviceValues, ToolValues
    <3> QED
      BY <3>1, Zenon DEF Ids
  <2>6. {buffer, samples} \subseteq Contents /\ played \in Seq(Contents)
    <3>1. buffer \in Contents /\ samples \in Contents /\ played \in Seq(Contents)
      BY <1>1, Zenon DEF DeviceTypes, ToolTypes, DeviceValues, ToolValues
    <3> QED
      BY <3>1
  <2>4. /\ exit \in {-1, 0, 1} /\ list \in Seq(Devices)
        /\ verdict \in {"none", "ok", "in_progress", "timeout", "unknown"}
    BY <1>1, Zenon DEF ToolTypes, ToolValues
  <2>5. /\ age \in Nat /\ options \in Options
        /\ block \in 0 .. Blocks /\ disturbed \subseteq 0 .. Blocks - 1
    BY <1>1, Zenon DEF Own, Route, ToolTypes, ToolValues
  <2> QED
    BY <2>1, <2>2, <2>3, <2>4, <2>5, <2>6, Zenon DEF TypeOK
<1> QED
  BY <1>1, DeviceToolTypes, ControlAlways, RouteAlways, OwnAlways, PTL

(***************************************************************************)
(* Data: what the coil has sent and what the buffer holds, in a process    *)
(* that no older transfer disturbs.                                        *)
(***************************************************************************)
Sending == phase \in {"starting", "wait", "tx"} /\ tx

\* No transfer is older than the process, and none is in the way of a request.
Patient ==
  /\ mixed = "no"
  /\ pc \in Steps \ {"sleep", "status"} => phase = "idle"
  /\ phase = "tx" => tx /\ whole
  /\ phase = "rx" => ~tx /\ whole

\* Blocks are counted by the process that programs.
Counted ==
  /\ Programs \/ block = 0
  /\ Programs /\ exit = 0 => block = Blocks

\* The buffer holds the next block, if the bus has not spoilt it.
Ready == buffer = Pulses(block) \/ block \in disturbed

\* What is sent, or has been, is the next block of the order.
SendingRight ==
  /\ Sending => Programs /\ block < Blocks /\ widths /\ Ready
  /\ Sending \/ pc \in Steps \ {"sleep", "status"} \/ exit = 0 => InOrder(played, disturbed, block)
  /\ \/ InOrder(played, disturbed, block)
     \/ Programs /\ block < Blocks /\ InOrder(played, disturbed, block + 1)
  /\ pc \in {"pulses", "start"} /\ handle = "open" /\ Programs => widths
  /\ pc = "start" /\ handle = "open" /\ Programs => Ready

\* When the transfer is over, it has done what it was started for.
Waited ==
  /\ pc \in {"sleep", "status"} /\ handle = "open" =>
       /\ tx <=> Programs
       /\ phase \in {"idle", "finished"} =>
            IF tx THEN InOrder(played, disturbed, block + 1) ELSE buffer = Capture(id)
  /\ pc = "fetch" /\ handle = "open" => buffer = Capture(transferId)
  /\ exit = 0 /\ Reads => samples = Capture(transferId)

Data == ~hasty => Patient /\ Counted /\ SendingRight /\ Waited

\* One block more
LEMMA InOrderSucc ==
  ASSUME NEW n \in Nat, NEW spoilt, NEW sent \in Seq(Contents), InOrder(sent, spoilt, n),
         NEW content \in Contents, n \in spoilt \/ content = Pulses(n)
  PROVE  InOrder(Append(sent, content), spoilt, n + 1)
<1>1. /\ Len(Append(sent, content)) = n + 1
      /\ Append(sent, content)[n + 1] = content
      /\ \A i \in 1 .. n : Append(sent, content)[i] = sent[i]
  BY DEF InOrder
<1>2. ASSUME NEW i \in 1 .. n + 1
      PROVE  i - 1 \in spoilt \/ Append(sent, content)[i] = Pulses(i - 1)
  <2>1. CASE i = n + 1
    <3>1. i - 1 = n
      BY <2>1
    <3> QED BY <1>1, <2>1, <3>1
  <2>2. CASE i \in 1 .. n
    BY <1>1, <2>2 DEF InOrder
  <2>3. i = n + 1 \/ i \in 1 .. n
    OBVIOUS
  <2> QED
    BY <2>1, <2>2, <2>3
<1> QED
  BY <1>1, <1>2 DEF InOrder

LEMMA InOrderZero == \A spoilt : InOrder(<<>>, spoilt, 0)
  BY DEF InOrder

\* A block not yet sent may be spoilt.
LEMMA InOrderGrows ==
  ASSUME NEW sent, NEW spoilt, NEW more, NEW n, InOrder(sent, spoilt, n)
  PROVE  InOrder(sent, spoilt \cup more, n)
  BY DEF InOrder

\* A start that follows no older transfer
LEMMA StartEffect ==
  ASSUME Control, Route, Data, ~hasty, pc = "start", handle = "open", NEW times, Request(times)
  PROVE  /\ phase' = "starting" /\ mixed' = "no"
         /\ Programs => tx' = TRUE
         /\ ~Programs => tx' = FALSE /\ Reads
         /\ UNCHANGED <<whole, buffer, widths, played>>
<1>1. StartTransfer(times) /\ phase = "idle" /\ mixed = "no"
  BY DEF Request, Data, Patient, Steps
<1>2. phase' = "starting" /\ mixed' = StillRunning /\ UNCHANGED <<whole, buffer, widths, played>>
  BY <1>1 DEF StartTransfer, Start
<1>3. StillRunning = "no"
  BY <1>1, Zenon DEF StillRunning
<1>4. IF Reading THEN tx' = FALSE ELSE tx' = TRUE
  BY <1>1, Zenon DEF StartTransfer, Start
<1>5. (Programs <=> ~Reading) /\ (~Programs => Reads)
  BY DEF Route, Reads, Programs, Reading
<1> QED BY <1>2, <1>3, <1>4, <1>5

LEMMA DataKept == Control /\ Route /\ Own /\ DeviceTypes /\ Data /\ [Next]_vars => Data'
<1> SUFFICES ASSUME Control, Route, Own, DeviceTypes, Data, [Next]_vars PROVE Data'
  OBVIOUS
<1>1. ASSUME NEW o \in Commands, NEW bench \in Benches, Launch(o, bench) PROVE Data'
  <2>1. played' = <<>> /\ block' = 0 /\ handle' = "none" /\ samples' = Junk /\ hasty' = (phase # "idle")
    BY <1>1 DEF Launch
  <2>2. /\ UNCHANGED <<phase, tx, timeout, timedOut, id, age, mixed, whole, buffer, widths>>
        /\ exit' \in {-1, 1} /\ pc' \in {"away", "search"}
    BY <1>1 DEF Launch
  <2>3. ~hasty' => mixed' = "no" /\ phase' = "idle"
    BY <2>1, <2>2 DEF Control
  <2> QED BY <2>1, <2>2, <2>3, ToolAssumption, InOrderZero DEF Data, Sending, Patient, Counted, SendingRight, Ready, Waited, Steps
<1>2. CASE Skip
  BY <1>2 DEF Data, Sending, Patient, Counted, SendingRight, Ready, Waited, Steps, Reads, Programs, Rejected, Skip, Searching, deviceVars
<1>3. CASE OpenFails
  BY <1>3 DEF Data, Sending, Patient, Counted, SendingRight, Ready, Waited, Steps, Reads, Programs, Rejected, OpenFails, Searching, deviceVars, toolVars
<1>4. CASE Found
  BY <1>4 DEF Route, Control, Own, Reading,  Data, Sending, Patient, Counted, SendingRight, Ready, Waited, Steps, Reads, Programs, Rejected, Found, Searching, deviceVars
<1>5. CASE NotFound
  BY <1>5 DEF Route, Control, Own, Reading,  Data, Sending, Patient, Counted, SendingRight, Ready, Waited, Steps, Reads, Programs, Rejected, NotFound, Searching, deviceVars, Exit
<1>6. CASE Refused
  BY <1>6 DEF Route, Control, Own, Reading,  Data, Sending, Patient, Counted, SendingRight, Ready, Waited, Steps, Reads, Programs, Rejected, Refused, deviceVars, Exit
<1>7. CASE Failed
  <2>1. /\ pc' = "away" /\ exit' = -1 /\ handle' = "none"
        /\ UNCHANGED <<options, block, transferId, samples, hasty, disturbed>>
    BY <1>7 DEF Failed, Exit
  <2>2. CASE UNCHANGED deviceVars
    BY <2>1, <2>2 DEF deviceVars, Reads, Programs, Data, Sending, Patient, Counted, SendingRight, Ready, Waited, Steps
  <2>4. CASE handle = "open" /\ pc \in Talking /\ Request(1)
    <3>1. CASE pc = "reset"
      BY <2>1, <2>4, <3>1 DEF Request, RequestReset, Reads, Programs, Data, Sending, Patient, Counted, SendingRight, Ready, Waited, Steps
    <3>2. CASE pc \in {"widths", "pulses"}
      BY <2>1, <2>4, <3>2 DEF Request, WriteWidths, WriteBuffer, Reads, Programs, Data, Sending, Patient, Counted, SendingRight, Ready, Waited, Steps
    <3>3. CASE pc = "start" /\ hasty
      BY <2>1, <3>3 DEF Data
    <3>4. CASE pc = "start" /\ ~hasty
      <4>1. /\ phase' = "starting" /\ mixed' = "no" /\ (tx' <=> Programs)
            /\ UNCHANGED <<whole, buffer, widths, played>>
        BY <2>4, <3>4, StartEffect
      <4>2. /\ InOrder(played, disturbed, block) /\ (Programs => widths /\ Ready)
            /\ Counted /\ block < Blocks
        BY <2>4, <3>4 DEF Data, SendingRight, Route, Steps
      <4>3. (Programs' <=> Programs) /\ (Reads' <=> Reads)
        BY <2>1 DEF Programs, Reads
      <4> QED BY <2>1, <3>4, <4>1, <4>2, <4>3
          DEF Data, Sending, Patient, Counted, SendingRight, Ready, Waited, Steps
    <3>5. CASE pc \in {"version", "sizes", "status", "fetch"}
      BY <2>2, <2>4, <3>5 DEF Request
    <3> QED BY <2>4, <3>1, <3>2, <3>3, <3>4, <3>5 DEF Talking
  <2> QED BY <1>7, <2>2, <2>4 DEF Failed
<1>8. CASE GetVersion
  BY <1>8, RequestEffect DEF GetVersion, Answered, deviceVars, Reads, Programs, Data, Sending, Patient, Counted, SendingRight, Ready, Waited, Steps
<1>9. CASE GetBufferSize
  BY <1>9, RequestEffect DEF GetBufferSize, Answered, deviceVars, Reads, Programs, Data, Sending, Patient, Counted, SendingRight, Ready, Waited, Steps
<1>10. CASE Dispatch
  BY <1>10 DEF Route, Control, Own, Reading,  Data, Sending, Patient, Counted, SendingRight, Ready, Waited, Steps, Reads, Programs, Rejected, Dispatch, deviceVars, Exit
<1>11. CASE Reset
  <2>1. /\ options.resetIface /\ pc' = "away" /\ exit' = 0
        /\ UNCHANGED <<options, block, transferId, samples, hasty, disturbed>>
    BY <1>11 DEF Reset, Answered, Exit, Route
  <2>2. phase' = "boot" /\ UNCHANGED <<tx, mixed, whole, buffer, widths, played>>
    BY <1>11 DEF Reset, Answered, Request, RequestReset
  <2>3. phase = "idle" \/ hasty
    BY <1>11 DEF Reset, Answered, Data, Sending, Patient, Counted, SendingRight, Ready, Waited, Steps
  <2> QED BY <1>11, <2>1, <2>2, <2>3 DEF Reset, Answered, Reads, Programs, Data, Sending, Patient, Counted, SendingRight, Ready, Waited, Steps
<1>12. CASE PutWidths
  BY <1>12 DEF PutWidths, Answered, Request, WriteWidths, Route, Reads, Programs, Data, Sending, Patient, Counted, SendingRight, Ready, Waited, Steps
<1>13. CASE PutPulses
  <2>1. /\ pc = "pulses" /\ pc' = "start" /\ handle = "open"
        /\ UNCHANGED <<options, block, exit, handle, transferId, samples, hasty>>
        /\ disturbed' = disturbed \/ disturbed' = disturbed \cup {block}
        /\ buffer' = Pulses(block) \/ block \in disturbed'
    BY <1>13 DEF PutPulses, Answered
  <2>2. UNCHANGED <<phase, tx, id, mixed, widths, played>>
    <3>1. PICK content : WriteBuffer(content)
      BY <1>13 DEF PutPulses, Answered, Request
    <3> QED BY <3>1 DEF WriteBuffer
  <2>3. ~hasty => /\ InOrder(played, disturbed, block) /\ InOrder(played, disturbed', block)
                  /\ phase = "idle" /\ widths /\ Programs
    BY <2>1, InOrderGrows DEF Data, Patient, SendingRight, Route, Steps
  <2> QED BY <2>1, <2>2, <2>3
      DEF Route, Reads, Programs, Data, Sending, Patient, Counted, SendingRight, Ready, Waited, Steps
<1>14. ASSUME NEW times \in Times, TransferStart(times) PROVE Data'
  <2>1. /\ pc = "start" /\ handle = "open" /\ Request(times) /\ pc' = "sleep"
        /\ UNCHANGED <<options, block, samples, hasty, disturbed, exit, handle>>
    BY <1>14 DEF TransferStart, Answered
  <2>2. CASE hasty
    BY <2>1, <2>2 DEF Data
  <2>3. CASE ~hasty
    <3>1. /\ phase' = "starting" /\ mixed' = "no" /\ (tx' <=> Programs)
          /\ UNCHANGED <<whole, buffer, widths, played>>
      BY <2>1, <2>3, StartEffect
    <3>2. /\ InOrder(played, disturbed, block) /\ (Programs => widths /\ Ready)
          /\ Counted /\ exit = 1
      BY <2>1, <2>3 DEF Data, SendingRight, Route, Steps
    <3>3. (Programs' <=> Programs) /\ (Reads' <=> Reads)
      BY <2>1 DEF Programs, Reads
    <3> QED BY <2>1, <2>3, <3>1, <3>2, <3>3
        DEF Route, Data, Sending, Patient, Counted, SendingRight, Ready, Waited, Steps
  <2> QED BY <2>2, <2>3
<1>15. CASE Wake
  <2>1. /\ UNCHANGED <<phase, tx, mixed, whole, buffer, widths, played, id>>
        /\ UNCHANGED <<options, exit, handle, block, transferId, samples, hasty, disturbed>>
    BY <1>15 DEF Wake, TimePasses, deviceVars
  <2>2. pc = "sleep" /\ pc' = "status"
    BY <1>15 DEF Wake
  <2> QED BY <2>1, <2>2 DEF Reads, Programs, Data, Sending, Patient, Counted, SendingRight, Ready, Waited, Steps
<1>16. CASE TransferStatus
  <2>1. /\ pc = "status" /\ handle = "open" /\ UNCHANGED deviceVars
        /\ UNCHANGED <<options, samples, hasty, disturbed, transferId>>
    BY <1>16, RequestEffect DEF TransferStatus, Answered
  <2>2. Accepted(verdict') => phase = "idle" /\ transferId = id
    BY <1>16 DEF TransferStatus, Accepted, Status
  <2>3. CASE ~Accepted(verdict')
    <3>1. pc' = "away" /\ exit' = -1 /\ handle' = "none" /\ UNCHANGED block
      BY <1>16, <2>3 DEF TransferStatus, Exit
    <3> QED BY <2>1, <3>1 DEF deviceVars, Reads, Programs, Data, Sending, Patient, Counted, SendingRight, Ready, Waited, Steps
  <2>4. CASE Accepted(verdict') /\ Reading
    <3>1. pc' = "fetch" /\ UNCHANGED <<exit, handle, block>>
      BY <1>16, <2>4 DEF TransferStatus
    <3> QED BY <2>1, <2>2, <2>4, <3>1 DEF deviceVars, Reading, Route, Reads, Programs, Data, Sending, Patient, Counted, SendingRight, Ready, Waited, Steps
  <2>5. CASE Accepted(verdict') /\ ~Reading
    <3>1. block' = block + 1 /\ Programs
      BY <1>16, <2>1, <2>5 DEF TransferStatus, Route, Reads, Reading
    <3>2. IF block' = Blocks THEN pc' = "away" /\ exit' = 0 /\ handle' = "none"
          ELSE pc' = "widths" /\ UNCHANGED <<exit, handle>>
      BY <1>16, <2>5 DEF TransferStatus, Exit
    <3>3. ~hasty => /\ InOrder(played, disturbed, block + 1) /\ block < Blocks /\ exit = 1
                    /\ Patient /\ phase = "idle" /\ block \in 0 .. Blocks
      <4>1. ~hasty => (tx <=> Programs) /\ phase = "idle" /\ Patient /\ block < Blocks
        BY <2>1, <2>2, <2>5 DEF Data, Waited, Route
      <4>2. ~hasty => IF tx THEN InOrder(played, disturbed, block + 1) ELSE buffer = Capture(id)
        BY <2>1, <2>2, <2>5 DEF Data, Waited
      <4> QED BY <2>1, <3>1, <4>1, <4>2 DEF Route, Data
    <3>4. CASE hasty
      <4>1. block' \in 0 .. Blocks /\ (pc' # "away" => block' < Blocks)
        BY <2>1, <3>1, <3>2, ToolAssumption DEF Route
      <4> QED BY <2>1, <3>4, <4>1 DEF Data
    <3>5. CASE ~hasty
      <4>1. block' \in 0 .. Blocks /\ (pc' # "away" => block' < Blocks)
        BY <3>1, <3>2, <3>3, <3>5, ToolAssumption
      <4>2. Programs' /\ ~Reads'
        BY <2>1, <3>1 DEF Reads, Programs, Rejected
      <4> QED BY <2>1, <3>1, <3>2, <3>3, <3>5, <4>1, <4>2
          DEF deviceVars, Data, Sending, Patient, Counted, SendingRight, Ready, Waited, Steps
    <3> QED BY <3>4, <3>5
  <2> QED BY <2>3, <2>4, <2>5
<1>17. CASE Fetch
  <2>1. /\ pc = "fetch" /\ handle = "open" /\ UNCHANGED deviceVars
        /\ UNCHANGED <<options, block, hasty, disturbed, transferId>>
    BY <1>17, RequestEffect DEF Fetch, Answered
  <2>2. pc' = "away" /\ exit' = 0 /\ handle' = "none" /\ samples' = buffer
    BY <1>17 DEF Fetch, Exit
  <2> QED BY <2>1, <2>2 DEF deviceVars, Route, Reads, Programs, Data, Sending, Patient, Counted, SendingRight, Ready, Waited, Steps
<1>18. CASE Pause
  BY <1>18 DEF Pause, TimePasses, toolVars, Reads, Programs, Data, Sending, Patient, Counted, SendingRight, Ready, Waited, Steps
<1>19. CASE Engine
  <2>1. UNCHANGED <<pc, options, exit, handle, block, transferId, samples, hasty, disturbed>>
    BY <1>19 DEF Engine, toolVars
  <2>2. CASE Arm
    BY <2>1, <2>2 DEF Arm, Reads, Programs, Data, Sending, Patient, Counted, SendingRight, Ready, Waited, Steps
  <2>3. CASE Settle
    BY <2>1, <2>3 DEF Settle, Reads, Programs, Data, Sending, Patient, Counted, SendingRight, Ready, Waited, Steps
  <2>4. CASE Edge
    BY <2>1, <2>4 DEF Edge, Reads, Programs, Data, Sending, Patient, Counted, SendingRight, Ready, Waited, Steps
  <2>5. CASE Received
    BY <2>1, <2>5 DEF Received, Reads, Programs, Data, Sending, Patient, Counted, SendingRight, Ready, Waited, Steps
  <2>6. CASE Transmitted
    <3>1. /\ phase = "tx" /\ phase' = "finished" /\ mixed' = "no"
          /\ played' = Append(played, IF whole /\ widths THEN buffer ELSE Junk)
          /\ UNCHANGED <<tx, id, whole, buffer, widths>>
      BY <2>6 DEF Transmitted
    <3>2. ~hasty => /\ whole /\ widths /\ Ready /\ InOrder(played, disturbed, block)
                    /\ block \in Nat /\ tx /\ Programs /\ block < Blocks /\ exit # 0
      <4>1. ~hasty => tx /\ whole
        BY <3>1 DEF Data, Patient
      <4>2. ~hasty => Sending
        BY <3>1, <4>1 DEF Sending
      <4> QED BY <4>1, <4>2, ToolAssumption DEF Route, Data, Counted, SendingRight
    <3>3. ~hasty => InOrder(played', disturbed', block + 1)
      <4>1. buffer \in Contents /\ played \in Seq(Contents)
        BY DEF DeviceTypes, DeviceValues
      <4>2. ~hasty => played' = Append(played, buffer) /\ disturbed' = disturbed
        BY <2>1, <3>1, <3>2
      <4> QED BY <3>2, <4>1, <4>2, InOrderSucc DEF Ready
    <3> QED BY <2>1, <3>1, <3>2, <3>3 DEF Reads, Programs, Route, Data, Sending, Patient, Counted, SendingRight, Ready, Waited, Steps
  <2>7. CASE LateEnough /\ Expire
    <3>1. ~(pc \in {"sleep", "status"} /\ handle = "open")
      BY <2>7, ExpiresLate
    <3> QED BY <2>1, <2>7, <3>1 DEF Expire, Reads, Programs, Data, Sending, Patient, Counted, SendingRight, Ready, Waited, Steps
  <2>8. CASE Scramble
    BY <2>1, <2>8 DEF Scramble, Reads, Programs, Data, Sending, Patient, Counted, SendingRight, Ready, Waited, Steps
  <2>9. CASE EndEarly
    BY <2>1, <2>9 DEF EndEarly, Reads, Programs, Data, Sending, Patient, Counted, SendingRight, Ready, Waited, Steps
  <2> QED BY <1>19, <2>2, <2>3, <2>4, <2>5, <2>6, <2>7, <2>8, <2>9 DEF Engine, Ends
<1>20. CASE Reboot
  BY <1>20 DEF Own, Reboot, Restart, toolVars, Reads, Programs, Data, Sending, Patient, Counted, SendingRight, Ready, Waited, Steps
<1>21. CASE Replug
  BY <1>21 DEF Replug, Restart, Reads, Programs, Data, Sending, Patient, Counted, SendingRight, Ready, Waited, Steps
<1>22. CASE UNCHANGED vars
  BY <1>22 DEF Data, Sending, Patient, Counted, SendingRight, Ready, Waited, Steps, Reads, Programs, Rejected, vars, toolVars, deviceVars
<1> QED
  BY <1>1, <1>2, <1>3, <1>4, <1>5, <1>6, <1>7, <1>8, <1>9, <1>10, <1>11, <1>12, <1>13, <1>14, <1>15, <1>16, <1>17, <1>18, <1>19, <1>20, <1>21, <1>22 DEF Next, Tool

LEMMA DataAlways == Spec => []Data
<1>1. Init => Data
  BY ToolAssumption, InOrderZero DEF Init, Fresh, NoOptions, Rejected, Programs, Reads, Data,
     Sending, Patient, Counted, SendingRight, Ready, Waited, Steps
<1> QED BY <1>1, DataKept, ControlAlways, RouteAlways, OwnAlways, DeviceToolTypes, PTL DEF Spec

\* A process that no older transfer disturbs makes the coil send its blocks in order,
\* each once, and success means all of them; each is sent whole but for the ones whose
\* write the bus has disturbed.
THEOREM BlocksInOrder == Spec => []ProgrammedInOrder
<1>1. Route /\ DeviceTypes /\ Data => ProgrammedInOrder
  <2> SUFFICES ASSUME Route, DeviceTypes, Data, ~hasty
               PROVE  /\ \E n \in 0 .. Blocks : InOrder(played, disturbed, n)
                      /\ Programs /\ exit = 0 => InOrder(played, disturbed, Blocks)
                      /\ ~Programs => played = <<>>
    BY DEF ProgrammedInOrder
  <2>1. \E n \in 0 .. Blocks : InOrder(played, disturbed, n)
    <3>1. block \in 0 .. Blocks /\ (block < Blocks => block + 1 \in 0 .. Blocks)
      BY ToolAssumption DEF Route
    <3>2. InOrder(played, disturbed, block) \/ (block < Blocks /\ InOrder(played, disturbed, block + 1))
      BY DEF Data, SendingRight
    <3> QED BY <3>1, <3>2
  <2>2. Programs /\ exit = 0 => InOrder(played, disturbed, Blocks)
    BY DEF Data, Counted, SendingRight
  <2>3. ~Programs => played = <<>>
    <3>1. ~Programs => InOrder(played, disturbed, 0)
      BY DEF Data, Counted, SendingRight
    <3>2. played \in Seq(Contents)
      BY DEF DeviceTypes, DeviceValues
    <3> QED BY <3>1, <3>2 DEF InOrder
  <2> QED BY <2>1, <2>2, <2>3
<1> QED BY <1>1, RouteAlways, DeviceToolTypes, DataAlways, PTL

\* What is decoded was sampled by the transfer of this very process.
THEOREM CaptureIsOwn == Spec => []OwnCapture
<1>1. Data => OwnCapture
  BY DEF Data, Waited, OwnCapture
<1> QED BY <1>1, DataAlways, PTL
(***************************************************************************)
(* How long a process may run                                              *)
(***************************************************************************)
\* The steps that lead from one to the next block, or through the search to the first
Ahead(step) ==
  CASE step = "search"   -> 9
    [] step = "version"  -> 8
    [] step = "sizes"    -> 7
    [] step = "dispatch" -> 6
    [] step = "widths"   -> 5
    [] step = "pulses"   -> 4
    [] step = "start"    -> 3
    [] step = "sleep"    -> 2
    [] step = "status"   -> 1
    [] OTHER             -> 0

\* How many steps a process may still take, at most
StepsLeft ==
  IF pc = "away" THEN 0
  ELSE 1 + 5 * (Blocks - block - 1) + Ahead(pc) + (IF pc = "search" THEN Len(list) ELSE 0)

\* Each step of the process takes from them, but for a device that is not opened; what
\* the reader does, and its restart, gives none back.
Progresses ==
  pc # "away" =>
    /\ StepsLeft \in Nat /\ StepsLeft' \in Nat
    /\ StepsLeft' < StepsLeft \/ (StepsLeft' = StepsLeft /\ (Tool => OpenFails))

LEMMA AheadValues ==
  /\ Ahead("search") = 9 /\ Ahead("version") = 8 /\ Ahead("sizes") = 7 /\ Ahead("dispatch") = 6
  /\ Ahead("widths") = 5 /\ Ahead("pulses") = 4 /\ Ahead("start") = 3 /\ Ahead("sleep") = 2
  /\ Ahead("status") = 1 /\ Ahead("reset") = 0 /\ Ahead("fetch") = 0
BY Zenon DEF Ahead

LEMMA StepsLeftType ==
  ASSUME Control, Route, list \in Seq(Devices)
  PROVE  /\ StepsLeft \in Nat
         /\ pc # "away" => StepsLeft > 0
         /\ pc # "away" => StepsLeft >= 1 + Ahead(pc) + 5 * (Blocks - block - 1)
<1>1. Len(list) \in Nat /\ Blocks \in Nat /\ block \in 0 .. Blocks /\ (pc # "away" => block < Blocks)
  BY ToolAssumption DEF Route
<1>2. pc # "away" => Ahead(pc) \in 0 .. 9
  BY AheadValues DEF Control, Steps
<1> DEFINE a == Ahead(pc)  n == Len(list)
<1>3. CASE pc = "away"
  BY <1>3 DEF StepsLeft
<1>4. CASE pc # "away"
  <2>1. StepsLeft = 1 + 5 * (Blocks - block - 1) + a + (IF pc = "search" THEN n ELSE 0)
    BY <1>4 DEF StepsLeft
  <2> HIDE DEF a, n
  <2>2. a \in 0 .. 9 /\ n \in Nat
    BY <1>1, <1>2, <1>4 DEF a, n
  <2>3. StepsLeft \in Nat /\ StepsLeft > 0 /\ StepsLeft >= 1 + a + 5 * (Blocks - block - 1)
    BY <1>1, <1>4, <2>1, <2>2
  <2> QED
    BY <2>3 DEF a
<1> QED
  BY <1>3, <1>4

StepsCounted == Control /\ Route /\ ToolTypes => StepsLeft \in Nat

LEMMA StepsCountedNext == StepsCounted'
<1>1. StepsCounted
  BY StepsLeftType DEF StepsCounted, ToolTypes, ToolValues
<1> QED
  BY <1>1, PTL

\* A step ahead in the same block, or out
LEMMA StepAhead ==
  ASSUME Control, Route, Control', Route', ToolTypes, pc # "away", block' = block,
         pc' = "away" \/ (pc' # "search" /\ Ahead(pc') < Ahead(pc))
  PROVE  StepsLeft' < StepsLeft
<1>1. /\ StepsLeft \in Nat /\ StepsLeft > 0
      /\ StepsLeft >= 1 + Ahead(pc) + 5 * (Blocks - block - 1)
      /\ block \in Nat /\ Blocks \in Nat
  BY StepsLeftType, ToolAssumption DEF Route, ToolTypes, ToolValues
<1>2. CASE pc' = "away"
  BY <1>1, <1>2 DEF StepsLeft
<1>3. CASE pc' # "away" /\ pc' # "search" /\ Ahead(pc') < Ahead(pc)
  <2>1. StepsLeft' = 1 + 5 * (Blocks - block - 1) + Ahead(pc') + 0
    BY <1>3, Zenon DEF StepsLeft
  <2>2. Ahead(pc) \in 0 .. 9 /\ Ahead(pc') \in 0 .. 9
    BY <1>3, AheadValues DEF Control, Steps
  <2> DEFINE a == Ahead(pc)  b == Ahead(pc')
  <2> HIDE DEF a, b
  <2>3. /\ a \in 0 .. 9 /\ b \in 0 .. 9 /\ b < a
        /\ StepsLeft' = 1 + 5 * (Blocks - block - 1) + b + 0
        /\ StepsLeft >= 1 + a + 5 * (Blocks - block - 1)
    BY <1>1, <1>3, <2>1, <2>2 DEF a, b
  <2> QED
    BY <1>1, <2>3
<1> QED
  BY <1>2, <1>3

LEMMA ToolProgresses ==
  ASSUME Control, Route, ToolTypes, Control', Route', Tool, pc # "away"
  PROVE  StepsLeft' < StepsLeft \/ (StepsLeft' = StepsLeft /\ OpenFails)
<1> USE AheadValues
<1>1. CASE Skip
  <2>1. /\ pc = "search" /\ pc' = pc /\ block' = block /\ list' = Tail(list) /\ list # <<>>
        /\ list \in Seq(Devices)
    BY <1>1 DEF Skip, Searching, NextDevice, ToolTypes, ToolValues
  <2>2. Len(list') = Len(list) - 1 /\ Len(list) \in Nat /\ Len(list') \in Nat
    BY <2>1
  <2>3. block \in Nat /\ Blocks \in Nat
    BY ToolAssumption DEF Route
  <2>4. /\ StepsLeft = 1 + 5 * (Blocks - block - 1) + 9 + Len(list)
        /\ StepsLeft' = 1 + 5 * (Blocks - block - 1) + 9 + Len(list')
    BY <2>1 DEF StepsLeft
  <2> QED
    BY <2>2, <2>3, <2>4
<1>2. CASE OpenFails
  <2>1. UNCHANGED <<pc, block, list>>
    BY <1>2 DEF OpenFails, toolVars
  <2> QED
    BY <1>2, <2>1, Zenon DEF StepsLeft
<1>3. CASE Found
  <2>1. pc = "search" /\ pc' = "version" /\ block' = block
    BY <1>3 DEF Found, Searching
  <2> QED
    BY <2>1, StepAhead
<1>4. CASE NotFound \/ Refused \/ Failed \/ Reset \/ Fetch
  <2>1. pc' = "away" /\ block' = block
    BY <1>4 DEF NotFound, Refused, Failed, Reset, Fetch, Exit
  <2> QED
    BY <2>1, StepAhead
<1>5. CASE GetVersion
  <2>1. pc = "version" /\ pc' = "sizes" /\ block' = block
    BY <1>5 DEF GetVersion, Answered
  <2> QED
    BY <2>1, StepAhead
<1>6. CASE GetBufferSize
  <2>1. pc = "sizes" /\ pc' = "dispatch" /\ block' = block
    BY <1>6 DEF GetBufferSize, Answered
  <2> QED
    BY <2>1, StepAhead
<1>7. CASE Dispatch
  <2>1. pc = "dispatch" /\ pc' \in {"reset", "start", "widths", "away"} /\ block' = block
    BY <1>7 DEF Dispatch, Exit
  <2> QED
    BY <2>1, StepAhead
<1>8. CASE PutWidths
  <2>1. pc = "widths" /\ pc' = "pulses" /\ block' = block
    BY <1>8 DEF PutWidths, Answered
  <2> QED
    BY <2>1, StepAhead
<1>9. CASE PutPulses
  <2>1. pc = "pulses" /\ pc' = "start" /\ block' = block
    BY <1>9 DEF PutPulses, Answered
  <2> QED
    BY <2>1, StepAhead
<1>10. ASSUME NEW times \in Times, TransferStart(times) PROVE StepsLeft' < StepsLeft
  <2>1. pc = "start" /\ pc' = "sleep" /\ block' = block
    BY <1>10 DEF TransferStart, Answered
  <2> QED
    BY <2>1, StepAhead
<1>11. CASE Wake
  <2>1. pc = "sleep" /\ pc' = "status" /\ block' = block
    BY <1>11 DEF Wake
  <2> QED
    BY <2>1, StepAhead
<1>12. CASE TransferStatus
  <2>1. /\ pc = "status"
        /\ \/ pc' = "away" /\ block' = block
           \/ pc' = "fetch" /\ block' = block
           \/ pc' \in {"widths", "away"} /\ block' = block + 1
    BY <1>12 DEF TransferStatus, Answered, Exit
  <2>2. CASE pc' \in {"away", "fetch"} /\ block' = block
    BY <2>1, <2>2, StepAhead
  <2>3. CASE pc' \in {"widths", "away"} /\ block' = block + 1
    <3>1. block \in Nat /\ Blocks \in Nat /\ block < Blocks
      BY ToolAssumption DEF Route
    <3>2. StepsLeft = 1 + 5 * (Blocks - block - 1) + 1 + 0
      BY <2>1 DEF StepsLeft
    <3>3. StepsLeft' = 0 \/ StepsLeft' = 1 + 5 * (Blocks - block' - 1) + 5 + 0
      BY <2>3 DEF StepsLeft
    <3> QED
      BY <2>3, <3>1, <3>2, <3>3
  <2> QED
    BY <2>1, <2>2, <2>3
<1> QED
  BY <1>1, <1>2, <1>3, <1>4, <1>5, <1>6, <1>7, <1>8, <1>9, <1>10, <1>11, <1>12 DEF Tool

LEMMA ProgressKept ==
  Control /\ Route /\ ToolTypes /\ Control' /\ Route' /\ ToolTypes' /\ [Next]_vars => [Progresses]_vars
<1> SUFFICES ASSUME Control, Route, ToolTypes, Control', Route', ToolTypes', Next, pc # "away"
             PROVE  /\ StepsLeft \in Nat /\ StepsLeft' \in Nat
                    /\ StepsLeft' < StepsLeft \/ (StepsLeft' = StepsLeft /\ (Tool => OpenFails))
  BY DEF Progresses
<1>1. StepsLeft \in Nat /\ StepsLeft' \in Nat
  BY StepsLeftType, StepsCountedNext DEF StepsCounted, ToolTypes, ToolValues
<1>2. CASE Tool
  BY <1>1, <1>2, ToolProgresses
<1>3. CASE ~Tool
  <2>1. Pause \/ Engine \/ Reboot \/ Replug
    BY <1>3 DEF Next, Launch
  <2>2. UNCHANGED <<pc, block, list>>
    BY <2>1 DEF Pause, Engine, Reboot, Replug, toolVars
  <2>3. StepsLeft' = StepsLeft
    BY <2>2, Zenon DEF StepsLeft
  <2> QED
    BY <1>1, <1>3, <2>3
<1> QED
  BY <1>2, <1>3

\* A process of the tool cannot run for ever, however often a call fails or the reader is
\* unplugged: at first it has five steps to take, one for each device and five for each
\* block, and only a device that usb_open refuses takes none of them
\* (InterfaceUsbImpl.cpp:215-260, main.cpp:214-304).
THEOREM RunStepsRunOut == Spec => [][Progresses]_vars
BY ProgressKept, ControlAlways, RouteAlways, DeviceToolTypes, PTL DEF Spec
=============================================================================
