------------------------- MODULE ServiceLifecycleMC -------------------------
\* ServiceLifecycle with two workers, for TLC.
EXTENDS ServiceLifecycle, TLC
=============================================================================
