---------------------------- MODULE FcgiStreamMC ----------------------------
\* FcgiStream with short texts and a small largest record, for TLC.
EXTENDS FcgiStream, TLC
=============================================================================
