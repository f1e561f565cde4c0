---------------------------- MODULE MCEncodings ----------------------------
(***************************************************************************)
(* Every encoding of Encodings.cpp applied to a fresh solver, for every    *)
(* framework with N arguments, and judged against the semantics it is      *)
(* meant to encode.  The solver's answers are all the satisfying           *)
(* assignments of the CNF.                                                 *)
(***************************************************************************)
EXTENDS Encodings

CONSTANT MaxAttacks     \* bound on the attacks of a framework given to "attacks"

VARIABLES att, enc, solver

vars == <<att, enc, solver>>

Init ==
    /\ att \in Relations
    /\ enc = "none"
    /\ solver = NewSolver(0, {})

EncodeWith(name, n_vars, cnf) ==
    /\ enc = "none"
    /\ enc' = name
    /\ solver' = NewSolver(n_vars, cnf)
    /\ UNCHANGED att

\* The solver fudge.cpp builds for AdmExtAtt: two admissible sets, the first
\* attacking the second.
EncodeAttacks ==
    /\ Cardinality(att) <= MaxAttacks
    /\ EncodeWith("attacks", 4 * N + Cardinality(att),
                  admissible(att, FALSE) \cup admissible(att, TRUE) \cup attacks(att))

Next ==
    \/ EncodeAttacks
    \/ EncodeWith("admissible", count, admissible(att, FALSE))
    \/ EncodeWith("complete", count, complete(att))
    \/ EncodeWith("labelled", 3 * N, complete_labelled(att))
    \/ EncodeWith("stable", count, stable(att))

Spec == Init /\ [][Next]_vars

-----------------------------------------------------------------------------

\* The argument sets a solver may report: the decision parts of its answers.
Reported == {DecisionPart(A) : A \in Answers(solver)}

Shifted(A, offset) == {i \in Args : offset + accepted_var(i) \in A}

\* Encodings::admissible describes exactly the admissible sets that contain
\* every unattacked argument (its unit clause for unattacked arguments).
AdmissibleEncoding ==
    enc = "admissible" =>
        Reported = {S \in SUBSET Args : Admissible(att, S) /\ Unattacked(att) \subseteq S}

\* Encodings::complete (PERF_ENC) describes exactly the complete extensions,
\* although it has no "undecided" variable.
CompleteEncoding ==
    enc = "complete" => Reported = {S \in SUBSET Args : Complete(att, S)}

\* Each complete extension is reported by one assignment only: the rejected
\* variables are determined by the accepted ones.
CompleteOneModelEach ==
    enc = "complete" =>
        \A A, B \in Answers(solver) : DecisionPart(A) = DecisionPart(B) => A = B

\* The labelled variant of Encodings::complete admits sets that are not
\* complete, yet its maximal sets are the preferred extensions, so both build
\* variants answer EC-CO, EC-PR and ES-PR alike.
LabelledEncoding ==
    enc = "labelled" =>
        /\ \A S \in Reported : Admissible(att, S)
        /\ Extensions(att, "PR") =
               {S \in Reported : \A T \in Reported : S \subseteq T => T = S}

\* Encodings::stable describes exactly the stable extensions, and there
\* "rejected" is the complement of "accepted" (the source marks the function
\* "TODO check correctness").
StableEncoding ==
    enc = "stable" =>
        /\ Reported = {S \in SUBSET Args : Stable(att, S)}
        /\ \A A \in Answers(solver) :
              {i \in Args : rejected_var(i) \in A} = Args \ DecisionPart(A)

\* Encodings::attacks together with two copies of Encodings::admissible
\* describes exactly the pairs of admissible sets of which the first attacks
\* the second: the three groups of variables do not collide.
AttacksEncoding ==
    enc = "attacks" =>
        {<<DecisionPart(A), Shifted(A, 2 * N)>> : A \in Answers(solver)} =
        {P \in (SUBSET Args) \X (SUBSET Args) :
            /\ Admissible(att, P[1]) /\ Unattacked(att) \subseteq P[1]
            /\ Admissible(att, P[2]) /\ Unattacked(att) \subseteq P[2]
            /\ Attacks(att, P[1], P[2])}
=============================================================================
