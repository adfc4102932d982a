-------------------------- MODULE MCTransferEngine --------------------------
(***************************************************************************)
(* Small instances of TransferEngine: the transfers that a host asks for.  *)
(***************************************************************************)
EXTENDS TransferEngine

AllVectors == VectorReads \cup VectorWrites

\* getSamples and putSamples: both wait for a falling edge
ToolStarts ==
  [tx: BOOLEAN, edgeStart: {TRUE}, fallingEdge: {TRUE}, timeout: {1}]

\* A transmission that waits for a falling edge, as putSamples asks for; a reception
\* that waits for a rising one, and one that waits for none.  The edges of getSamples and
\* putSamples are ToolStarts; a transmission that waits for none is not in the contract.
SoundStarts ==
  {p \in [tx: BOOLEAN, edgeStart: BOOLEAN, fallingEdge: BOOLEAN, timeout: {1}] :
     p.tx = p.fallingEdge /\ (p.tx => p.edgeStart)}
=============================================================================
