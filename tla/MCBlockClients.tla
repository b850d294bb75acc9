--------------------------- MODULE MCBlockClients ---------------------------
(* Model checking BlockClients: two sequences, a small pool on each device  *)
(* and at most MaxPins pins per block.                                      *)
EXTENDS BlockClients

CONSTANTS s1, s2

MCSeqIds == {s1, s2}

=============================================================================
