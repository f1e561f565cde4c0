------------------------------- MODULE MCIAQ -------------------------------
\* IAQ.cpp on every framework with N arguments.
EXTENDS IAQ

AllFrameworks == Relations
=============================================================================
