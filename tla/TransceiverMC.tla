--------------------------- MODULE TransceiverMC ---------------------------
\* Transceiver with two connections, for TLC.
EXTENDS Transceiver, TLC

Symmetry == Permutations(Conns)
=============================================================================
