--------------------------- MODULE MCT5557Write ---------------------------
EXTENDS T5557Write

N(a, b, c, d) == <<a, b, c, d>>

\* All ones in the middle, and a token of few ones
TokenA == <<N(0,0,0,1), N(0,0,1,0)>> \o [i \in 1 .. 6 |-> N(1,1,1,1)] \o <<N(0,1,0,1), N(1,0,0,0)>>
TokenB == [i \in 1 .. 9 |-> N(0,0,0,0)] \o <<N(0,0,1,1)>>

MCPrograms ==
  {[token |-> TokenA, modulation |-> "Manchester", rate |-> 64],
   [token |-> TokenB, modulation |-> "Biphase",    rate |-> 16],
   [token |-> TokenB, modulation |-> "Manchester", rate |-> 32]}
=============================================================================
