--------------------------- MODULE MCIAQExternal ---------------------------
\* iaq_cred without a solver process, on every framework with N arguments.
EXTENDS IAQExternal

AllFrameworks == Relations
=============================================================================
