----------------------------- MODULE MCHostTool -----------------------------
(***************************************************************************)
(* The three blocks of main, ids modulo three, and what may be plugged in. *)
(***************************************************************************)
EXTENDS HostTool

Option(names) == [o \in DOMAIN NoOptions |-> o \in names]

\* Help, a reset, a read, a write with and without its parameters, and pairs of which
\* one wins
Choices ==
  {Option(names) : names \in
     {{}, {"showHelp"}, {"write"}, {"read"}, {"write", "complete"},
      {"read", "write", "complete"}, {"resetIface", "read"}}}

\* A reader after a foreign and an unrelated device, one after a device that is not
\* opened, and no reader
Plugged == {<<"foreign", "other", "reader">>, <<"other", "locked", "reader">>, <<"other">>}

WithLocked == {<<"locked", "reader">>}

\* Carrier periods: 500 ms, with a conversion each 32 us
CountsInSleep == 500000 \div 32
=============================================================================
