------------------------- MODULE TransferContract -------------------------
(***************************************************************************)
(* What the firmware promises about a transfer to whoever holds its id.    *)
(*                                                                         *)
(* A transfer is started by PROTO_CMD_TRANSFER_START, which answers with a *)
(* fresh id, and is observed by PROTO_CMD_TRANSFER_STATUS with that id.    *)
(* It is in progress until it completes or, when it was told to wait for   *)
(* an edge of the demodulated signal, until the wait expires; a verdict,   *)
(* once given, stands until the next transfer is started or the device is  *)
(* reset, which forgets the ids as well.                                   *)
(***************************************************************************)
EXTENDS Naturals

CONSTANT IdModulus      \* ids are a uint8_t: 256 in the firmware

VARIABLES
  id,                   \* id of the latest transfer
  onEdge,               \* the latest transfer waits for an edge
  status                \* what TRANSFER_STATUS answers about it

vars == <<id, onEdge, status>>

Statuses == {"ok", "timeout", "in_progress"}

NextId == IF id + 1 = IdModulus THEN 0 ELSE id + 1

Init ==
  /\ id = 0
  /\ onEdge = FALSE
  /\ status = "ok"

Start ==
  /\ status # "in_progress"
  /\ id' = NextId
  /\ onEdge' \in BOOLEAN
  /\ status' = "in_progress"

Complete ==
  /\ status = "in_progress"
  /\ status' = "ok"
  /\ UNCHANGED <<id, onEdge>>

Expire ==
  /\ status = "in_progress"
  /\ onEdge
  /\ status' = "timeout"
  /\ UNCHANGED <<id, onEdge>>

Restart ==
  /\ id' = 0
  /\ onEdge' = FALSE
  /\ status' = "ok"

Next == Start \/ Complete \/ Expire \/ Restart

Spec == Init /\ [][Next]_vars
===========================================================================
