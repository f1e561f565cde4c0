------------------------------- MODULE MCSEEM -------------------------------
\* SEEM.cpp on every framework with N arguments.
EXTENDS SEEM

AllFrameworks == Relations
=============================================================================
