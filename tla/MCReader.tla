------------------------------ MODULE MCReader ------------------------------
\* The two readers by themselves, on every short file.
EXTENDS Reader

\* The file has been read, or main() loops without effect.
Done == phase \in {"read", "hung"} /\ UNCHANGED readerVars

ReaderSpec == ReaderInit /\ [][Read \/ Done]_readerVars
=============================================================================
