---------------------------- MODULE SEEExternal ----------------------------
(***************************************************************************)
(* SEE.cpp in a SAT_EXTERNAL build: the rounds of SEE, with the model that *)
(* ExternalSatSolver.cpp hands over.  The process may fail in any round of *)
(* either loop.                                                            *)
(***************************************************************************)
EXTENDS SEE, ExternalSatSolver

ExtCredSat ==
    /\ pc = "cred"
    /\ \E A \in Answers(solver) : CredRound(AfterOutput(solver, A, N))
    /\ UNCHANGED <<att, task, sem, pc, included>>

\* A round of see_cred in which the process failed: solve() returns SAT_V.
CredBroken ==
    /\ pc = "cred"
    /\ \E s \in BrokenOutputs(solver) : CredRound(s)
    /\ UNCHANGED <<att, task, sem, pc, included>>

ExtSkepSat ==
    /\ pc = "skep"
    /\ \E A \in Answers(solver) : SkepRound(AfterOutput(solver, A, N))
    /\ UNCHANGED <<att, task, sem, pc, unvisited, result>>

\* Mutant: a process that fails is taken for one that found no extension.
SkepBroken_unsat ==
    /\ pc = "skep"
    /\ solver' = AfterSilence(solver)
    /\ result' = Push(result, included)
    /\ pc' = "done"
    /\ UNCHANGED <<att, task, sem, unvisited, included>>

\* A round of see_skep in which the process failed: what it did not print is
\* dropped from included as if an extension lacked it.
SkepBroken ==
    /\ pc = "skep"
    /\ \E s \in BrokenOutputs(solver) : SkepRound(s)
    /\ UNCHANGED <<att, task, sem, pc, unvisited, result>>

\* Everything but a call for which the process failed.
ExtAnswered ==
    \/ CredStart \/ ExtCredSat \/ CredUnsat
    \/ SkepStart \/ ExtSkepSat \/ SkepUnsat
    \/ Unsupported \/ Ended

ExtBroken == CredBroken \/ SkepBroken

ExtNext == ExtAnswered \/ ExtBroken
=============================================================================
