---------------------------- MODULE IAQExternal ----------------------------
(***************************************************************************)
(* IAQ.cpp in a SAT_EXTERNAL build, when no process can be started, as     *)
(* without the option -s: every call to solve() in iaq_cred returns SAT_V. *)
(***************************************************************************)
EXTENDS IAQ, ExternalSatSolver

SilentQuery ==
    /\ pc = "cred" /\ arg < N
    /\ solver' = AfterSilence(assume(solver, {accepted_var(arg)}))
    /\ result' = Push(result, {arg})
    /\ arg' = arg + 1
    /\ UNCHANGED <<att, task, sem, pc, visited>>

SilentSpec ==
    /\ Init /\ task = "EC"
    /\ [][CredStart \/ SilentQuery \/ LoopEnd \/ Unsupported \/ Ended]_vars

-----------------------------------------------------------------------------

\* An answer of iaq_cred lists exactly the acceptable arguments.
AnswersRight == pc = "done" => result = Listing(Acceptable(att, task, sem))
=============================================================================
