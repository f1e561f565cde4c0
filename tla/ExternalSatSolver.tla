------------------------- MODULE ExternalSatSolver -------------------------
(***************************************************************************)
(* ExternalSatSolver.cpp: the wrapper that starts a solver process for     *)
(* every call to solve() and reads the answer from what it prints.  The    *)
(* clauses and assumptions sent are those of SatSolver; what differs is    *)
(* how the model vector is filled, and what happens when the process does  *)
(* not print an answer.                                                    *)
(*                                                                         *)
(* The process prints one literal per variable, in the order of the        *)
(* variables.  Only the entries 0 .. N-1 of the vector are ever read, and  *)
(* a literal touches them only if its variable is at most N, so the rest   *)
(* of the vector is left out; so are the entries 2 * N and 2 * N + 1, that *)
(* the last two literals clear beyond its end.                             *)
(***************************************************************************)
EXTENDS SatSolver

\* One literal of a "v" line, that of variable k: k sets entry k - 1, -k clears
\* entry 1 - var = k + 1.
ReadLiteral(model, k, positive) ==
    IF positive THEN model \cup {k - 1} ELSE model \ {k + 1}

\* The vector after the first m literals of the answer A, read one after the
\* other.  It is not reset first.
ReadModel(model, A, m) ==
    LET read[k \in 0 .. N] ==
            IF k = 0 THEN model ELSE ReadLiteral(read[k - 1], k, k \in A)
    IN  read[m]

\* solve() returns SAT_V after m literals were read.
AfterOutput(s, A, m) ==
    [s EXCEPT !.assumptions = {}, !.model = ReadModel(s.model, A, m)]

\* solve() returns SAT_V too when the process prints no answer at all: it
\* could not be started, or ended before its first line.  Nothing is read.
AfterSilence(s) == [s EXCEPT !.assumptions = {}]

\* The process fails: it ends within the literals of a satisfying answer, or
\* without a word, whether or not there is such an answer.
BrokenOutputs(s) ==
    {AfterOutput(s, A, m) : A \in Answers(s), m \in 0 .. (N - 1)}
    \cup {AfterSilence(s)}
=============================================================================
