------------------------------- MODULE AsqlMC -------------------------------
\* Asql with small transactions, for TLC.
EXTENDS Asql

MCTransactions == {<<"a", "b">>, <<"c">>}
=============================================================================
