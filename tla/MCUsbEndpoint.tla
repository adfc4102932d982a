--------------------------- MODULE MCUsbEndpoint ---------------------------
(***************************************************************************)
(* Packets of two bytes; one vector fills its packets (192 bytes in the    *)
(* firmware), the other ends in a short one (7 bytes).                     *)
(***************************************************************************)
EXTENDS UsbEndpoint

Sizes == [samples |-> 4, pulses |-> 3]

ReadAll(v)  == [kind |-> "read",  vector |-> v, len |-> Sizes[v]]
WriteAll(v) == [kind |-> "write", vector |-> v, len |-> Sizes[v]]
ShortReply  == [kind |-> "reply", answer |-> 1, len |-> 2]   \* an invalid command
Reply       == [kind |-> "reply", answer |-> 1, len |-> 1]
Command     == [kind |-> "command", answer |-> 1, len |-> 0]

ToolRequests ==
  {ReadAll("samples"), WriteAll("pulses"), Reply, ShortReply, Command}

Described   == [kind |-> "reply", answer |-> 2, len |-> 2]   \* GET_DESCRIPTOR and the like

\* Eight bytes of pulses may spell any request.
SpelledRequests == {ReadAll("samples"), Described}
=============================================================================
