--------------------------- MODULE FcgiRequestMC ---------------------------
\* FcgiRequest with a few bytes of post data, for TLC.
EXTENDS FcgiRequest, TLC
=============================================================================
