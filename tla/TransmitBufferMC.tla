-------------------------- MODULE TransmitBufferMC --------------------------
\* TransmitBuffer with chunks of a few bytes, for TLC.
EXTENDS TransmitBuffer, TLC

Symmetry == Permutations(Fds)
=============================================================================
