---------------------------- MODULE EEEExternal ----------------------------
(***************************************************************************)
(* EEE.cpp in a SAT_EXTERNAL build: the rounds of EEE, with the model that *)
(* ExternalSatSolver.cpp hands over.  Entries of the model vector survive  *)
(* from one answer to the next, and in eee_cred and the loop for stable    *)
(* semantics the process may fail in any round.                            *)
(***************************************************************************)
EXTENDS EEE, ExternalSatSolver

ExtCredSat ==
    /\ pc = "cred"
    /\ \E A \in Answers(solver) : CredRound(AfterOutput(solver, A, N))
    /\ UNCHANGED <<att, task, sem, pc, extension, noFurther>>

\* A round of eee_cred in which the process failed: solve() returns SAT_V.
CredBroken ==
    /\ pc = "cred"
    /\ \E s \in BrokenOutputs(solver) : CredRound(s)
    /\ UNCHANGED <<att, task, sem, pc, extension, noFurther>>

ExtGrowSat ==
    /\ pc = "grow"
    /\ \E A \in Answers(solver) : GrowRound(AfterOutput(solver, A, N))
    /\ noFurther' = FALSE
    /\ UNCHANGED <<att, task, sem, pc, included, result>>

ExtStableSat ==
    /\ pc = "stable"
    /\ \E A \in Answers(solver) : StableRound(AfterOutput(solver, A, N))
    /\ UNCHANGED <<att, task, sem, pc, extension, noFurther, result>>

\* Mutant: a process that fails is taken for one that found no extension.
StableBroken_unsat ==
    /\ pc = "stable"
    /\ solver' = AfterSilence(solver)
    /\ result' = Push(result, included)
    /\ pc' = "done"
    /\ UNCHANGED <<att, task, sem, included, extension, noFurther>>

\* A round under stable semantics in which the process failed: what it did not
\* print is dropped from included as if an extension lacked it.
StableBroken ==
    /\ pc = "stable"
    /\ \E s \in BrokenOutputs(solver) : StableRound(s)
    /\ UNCHANGED <<att, task, sem, pc, extension, noFurther, result>>

ExtPreferred == PreferredStart \/ ExtGrowSat \/ GrowUnsat \/ PreferredEnd

ExtOther ==
    \/ CredStart \/ ExtCredSat \/ CredUnsat
    \/ StableStart \/ ExtStableSat \/ StableUnsat
    \/ Unsupported \/ Ended

ExtBroken == CredBroken \/ StableBroken

ExtPreferredSpec ==
    /\ Init /\ <<task, sem>> = <<"ES", "PR">>
    /\ [][ExtPreferred \/ Ended]_vars

\* No stale entry of the model vector and no answer cut short costs eee_cred
\* or eee_skep, under stable semantics, an extension: one that is not open any
\* more in the solver adds nothing to, or takes nothing from, what is recorded.
NoExtensionMissed ==
    /\ pc = "cred" =>
         \A A \in Models(count, CredEncoding) :
            A \in solver.models \/ DecisionPart(A) \subseteq included
    /\ pc = "stable" =>
         \A A \in Models(count, stable(att)) :
            A \in solver.models \/ included \subseteq DecisionPart(A)

\* An answer of eee_skep under preferred semantics is the set of the
\* skeptically accepted arguments.
AnswersRight == pc = "done" => result = Listing(Acceptable(att, task, sem))
=============================================================================
