------------------------------ MODULE MCOscCal ------------------------------
(***************************************************************************)
(* A register of three bits and every monotone frequency curve over it,    *)
(* with lengths up to two below or above the target.                       *)
(***************************************************************************)
EXTENDS OscCal

InteriorCurves ==
  {f \in [0 .. 7 -> 8 .. 12] : (\A v \in 0 .. 6 : f[v] <= f[v + 1]) /\ Interior(f)}
=============================================================================
