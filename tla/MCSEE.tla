------------------------------- MODULE MCSEE -------------------------------
\* SEE.cpp in every build, on every framework with N arguments.
EXTENDS SEEBuilds

AllFrameworks == Relations
=============================================================================
