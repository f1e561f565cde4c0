------------------------------- MODULE MCEEE -------------------------------
\* EEE.cpp in every build, on every framework with N arguments.
EXTENDS EEEBuilds

AllFrameworks == Relations
=============================================================================
