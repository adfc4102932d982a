--------------------------- MODULE MCEnumeration ---------------------------
(***************************************************************************)
(* The requests that a host makes of a new device, with the lengths that   *)
(* Linux asks for, and some that any program may make later.  Four lost    *)
(* packets are one more than the tries of a transaction: one request fails *)
(* for good and the recovery is disturbed once more.                       *)
(* ConfiguredRight fails with Get(1, 0, 16) in the plan (PlanAssumption).   *)
(***************************************************************************)
EXTENDS Enumeration

Get(type, index, length) ==
  [request |-> "GET_DESCRIPTOR", value |-> type, index |-> index, length |-> length]
Set(name, value)  == [request |-> name, value |-> value, index |-> 0, length |-> 0]
Read(name, length) == [request |-> name, value |-> 0, index |-> 0, length |-> length]

MCPlan == <<Get(1, 0, 8), Set("SET_ADDRESS", 5), Get(1, 0, 18), Get(2, 0, 9), Get(2, 0, 18),
            Get(3, 2, 255), Set("SET_CONFIGURATION", 1)>>
MCLater == {Read("GET_STATUS", 2), Read("GET_CONFIGURATION", 1), Get(3, 1, 255)}
MCForeign == {Set("SET_ADDRESS", 6), Set("SET_CONFIGURATION", 2), Get(2, 0, 18)}
=============================================================================
