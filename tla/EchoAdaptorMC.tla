--------------------------- MODULE EchoAdaptorMC ---------------------------
\* EchoAdaptor with short paths and query strings, for TLC.
EXTENDS EchoAdaptor, TLC
=============================================================================
