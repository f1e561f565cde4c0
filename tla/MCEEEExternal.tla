--------------------------- MODULE MCEEEExternal ---------------------------
\* EEE.cpp with an external solver on every framework with N arguments.
EXTENDS EEEExternal

AllFrameworks == Relations
=============================================================================
