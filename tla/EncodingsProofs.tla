-------------------------- MODULE EncodingsProofs --------------------------
(***************************************************************************)
(* The encodings of Encodings.cpp are right for every number of arguments  *)
(* and every framework.                                                    *)
(*                                                                         *)
(* The inductive invariant Encoded only records which clauses the solver   *)
(* holds; what their models are is the matter of EncodingLemmas.           *)
(***************************************************************************)
EXTENDS MCEncodings, EncodingLemmas

Encoded ==
    /\ att \in Relations
    /\ enc = "admissible" => solver = NewSolver(count, admissible(att, FALSE))
    /\ enc = "complete" => solver = NewSolver(count, complete(att))
    /\ enc = "labelled" => solver = NewSolver(3 * N, complete_labelled(att))
    /\ enc = "stable" => solver = NewSolver(count, stable(att))
    /\ enc = "attacks" => solver = NewSolver(4 * N + Cardinality(att), TwoSets(att))

\* The solver holds the clauses of the encoding that was applied.
THEOREM EncodedInvariant == Spec => []Encoded
<1>1. Init => Encoded
  BY DEF Init, Encoded
<1>2. Encoded /\ [Next]_vars => Encoded'
  BY DEF Encoded, Next, vars, EncodeAttacks, EncodeWith, TwoSets
<1> QED  BY <1>1, <1>2, PTL DEF Spec

\* With no assumptions pending, a fresh solver may give any of its models.
LEMMA FreshAnswers ==
    ASSUME NEW n, NEW cnf
    PROVE  Answers(NewSolver(n, cnf)) = Models(n, cnf)
  BY DEF Answers, NewSolver

\* Encodings::admissible reports exactly the admissible sets that contain the
\* unattacked arguments.
THEOREM AdmissibleEncodingCorrect == Spec => []AdmissibleEncoding
<1>1. Encoded => AdmissibleEncoding
  <2> SUFFICES ASSUME att \in Relations, NEW M, M = Models(count, admissible(att, FALSE))
               PROVE  {DecisionPart(A) : A \in M} =
                        {S \in SUBSET Args : Admissible(att, S) /\ Unattacked(att) \subseteq S}
    BY FreshAnswers DEF Encoded, AdmissibleEncoding, Reported
  <2>1. \A A \in M : /\ DecisionPart(A) \in SUBSET Args
                     /\ Admissible(att, DecisionPart(A))
                     /\ Unattacked(att) \subseteq DecisionPart(A)
    BY AdmissibleReports, DecisionPartType
  <2>2. ASSUME NEW S \in SUBSET Args, Admissible(att, S), Unattacked(att) \subseteq S
        PROVE  \E A \in M : DecisionPart(A) = S
    <3>1. ModelOf(att, S) \in M
      BY <2>2, AdmissibleReported
    <3>2. DecisionPart(ModelOf(att, S)) = S
      BY ModelOfVariables
    <3> QED  BY <3>1, <3>2
  <2> DEFINE Wanted(S) == Admissible(att, S) /\ Unattacked(att) \subseteq S
  <2>3. \A A \in M : DecisionPart(A) \in SUBSET Args /\ Wanted(DecisionPart(A))
    BY <2>1
  <2>4. \A S \in SUBSET Args : Wanted(S) => \E A \in M : DecisionPart(A) = S
    BY <2>2
  <2> HIDE DEF Wanted
  <2>5. {DecisionPart(A) : A \in M} = {S \in SUBSET Args : Wanted(S)}
    BY <2>3, <2>4
  <2> QED  BY <2>5 DEF Wanted
<1> QED  BY <1>1, EncodedInvariant, PTL

\* Encodings::complete reports exactly the complete extensions.
THEOREM CompleteEncodingCorrect == Spec => []CompleteEncoding
<1>1. Encoded => CompleteEncoding
  <2> SUFFICES ASSUME att \in Relations, NEW M, M = Models(count, complete(att))
               PROVE  {DecisionPart(A) : A \in M} = {S \in SUBSET Args : Complete(att, S)}
    BY FreshAnswers DEF Encoded, CompleteEncoding, Reported
  <2>1. \A A \in M : DecisionPart(A) \in SUBSET Args /\ Complete(att, DecisionPart(A))
    BY CompleteReports, DecisionPartType
  <2>2. \A S \in SUBSET Args : Complete(att, S) => \E A \in M : DecisionPart(A) = S
    BY CompleteReported, ModelOfVariables
  <2> QED  BY <2>1, <2>2
<1> QED  BY <1>1, EncodedInvariant, PTL

\* Every variable of the solver is the accepted or the rejected variable of an
\* argument.
LEMMA AllVariables ==
    ASSUME NEW v \in 1 .. count
    PROVE  \E i \in Args : v = accepted_var(i) \/ v = rejected_var(i)
<1>1. CASE v <= N
  <2>1. v - 1 \in Args /\ v = accepted_var(v - 1)
    BY <1>1, NAssumption DEF Args, accepted_var, count
  <2> QED  BY <2>1
<1>2. CASE v > N
  <2>1. v - N - 1 \in Args /\ v = rejected_var(v - N - 1)
    BY <1>2, NAssumption DEF Args, rejected_var, count
  <2> QED  BY <2>1
<1> QED  BY <1>1, <1>2, NAssumption DEF count

\* Encodings::complete reports each complete extension by one model only.
THEOREM CompleteOneModelEachCorrect == Spec => []CompleteOneModelEach
<1>1. Encoded => CompleteOneModelEach
  <2> SUFFICES ASSUME att \in Relations,
                      NEW A \in Models(count, complete(att)),
                      NEW B \in Models(count, complete(att)),
                      DecisionPart(A) = DecisionPart(B)
               PROVE  A = B
    BY FreshAnswers DEF Encoded, CompleteOneModelEach
  <2>1. A \in SUBSET (1 .. count) /\ B \in SUBSET (1 .. count)
    BY DEF Models
  <2>2. \A i \in Args : accepted_var(i) \in A <=> accepted_var(i) \in B
    BY DecisionPartType DEF Acc
  <2>3. \A i \in Args : rejected_var(i) \in A <=> rejected_var(i) \in B
    BY CompleteReports DEF Rej
  <2>4. \A v \in 1 .. count : v \in A <=> v \in B
    BY <2>2, <2>3, AllVariables
  <2> QED  BY <2>1, <2>4
<1> QED  BY <1>1, EncodedInvariant, PTL

\* Encodings::stable reports exactly the stable extensions, and rejects the
\* arguments outside them.
THEOREM StableEncodingCorrect == Spec => []StableEncoding
<1>1. Encoded => StableEncoding
  <2> SUFFICES ASSUME att \in Relations, NEW M, M = Models(count, stable(att))
               PROVE  /\ {DecisionPart(A) : A \in M} = {S \in SUBSET Args : Stable(att, S)}
                      /\ \A A \in M : {i \in Args : rejected_var(i) \in A}
                                         = Args \ DecisionPart(A)
    BY FreshAnswers DEF Encoded, StableEncoding, Reported
  <2>1. \A A \in M : DecisionPart(A) \in SUBSET Args /\ Stable(att, DecisionPart(A))
    BY StableReports, DecisionPartType
  <2>2. \A S \in SUBSET Args : Stable(att, S) => \E A \in M : DecisionPart(A) = S
    BY StableReported, ModelOfVariables
  <2>3. \A A \in M : \A i \in Args : rejected_var(i) \in A <=> i \notin DecisionPart(A)
    BY StableReports DEF Rej
  <2> QED  BY <2>1, <2>2, <2>3
<1> QED  BY <1>1, EncodedInvariant, PTL

\* The labelled variant of Encodings::complete reports only admissible sets,
\* and the maximal ones are the preferred extensions.
THEOREM LabelledEncodingCorrect == Spec => []LabelledEncoding
<1>1. Encoded => LabelledEncoding
  <2> DEFINE Maximal(R) == {S \in R : \A T \in R : S \subseteq T => T = S}
  <2> SUFFICES ASSUME att \in Relations, NEW R,
                      R = {DecisionPart(A) : A \in Models(3 * N, complete_labelled(att))}
               PROVE  (\A S \in R : Admissible(att, S)) /\ Extensions(att, "PR") = Maximal(R)
    <3>1. ASSUME Encoded, enc = "labelled"
          PROVE  /\ att \in Relations
                 /\ Reported = {DecisionPart(A) : A \in Models(3 * N, complete_labelled(att))}
      BY <3>1, FreshAnswers DEF Encoded, Reported
    <3>2. LabelledEncoding <=> (enc = "labelled" =>
             (\A S \in Reported : Admissible(att, S)) /\ Extensions(att, "PR") = Maximal(Reported))
      BY DEF LabelledEncoding
    <3> HIDE DEF Maximal
    <3> QED  BY <3>1, <3>2
  <2>1. \A S \in R : S \in SUBSET Args /\ Admissible(att, S)
    BY LabelledReports, DecisionPartType
  <2>2. \A P \in SUBSET Args : Preferred(att, P) => P \in R
    BY LabelledReported
  <2>3. ASSUME NEW P \in SUBSET Args, Preferred(att, P), NEW T \in R, P \subseteq T PROVE T = P
    BY <2>1, <2>3 DEF Preferred
  <2>4. ASSUME NEW S \in R, \A T \in R : S \subseteq T => T = S PROVE Preferred(att, S)
    <3>1. PICK P \in SUBSET Args : Preferred(att, P) /\ S \subseteq P
      BY <2>1, PreferredAbove
    <3> QED  BY <2>2, <2>4, <3>1
  <2>5. Extensions(att, "PR") = {S \in SUBSET Args : Preferred(att, S)}
    BY DEF Extensions, IsExtension
  <2>6. \A S : S \in Maximal(R) <=> S \in Extensions(att, "PR")
    BY <2>1, <2>2, <2>3, <2>4, <2>5
  <2> HIDE DEF Maximal
  <2> QED  BY <2>1, <2>6
<1> QED  BY <1>1, EncodedInvariant, PTL

\* Encodings::attacks with two copies of Encodings::admissible reports exactly
\* the pairs of admissible sets of which the first attacks the second.
THEOREM AttacksEncodingCorrect == Spec => []AttacksEncoding
<1>1. Encoded => AttacksEncoding
  <2> DEFINE Wanted(S, T) == /\ Admissible(att, S) /\ Unattacked(att) \subseteq S
                             /\ Admissible(att, T) /\ Unattacked(att) \subseteq T
                             /\ Attacks(att, S, T)
             M == Models(4 * N + Cardinality(att), TwoSets(att))
             Pairs == {P \in (SUBSET Args) \X (SUBSET Args) : Wanted(P[1], P[2])}
  <2>1. \A A : Shifted(A, 2 * N) = Second(A)
    BY DEF Shifted, Second
  <2> SUFFICES ASSUME att \in Relations
               PROVE  {<<DecisionPart(A), Second(A)>> : A \in M} = Pairs
    <3>1. ASSUME Encoded, enc = "attacks" PROVE att \in Relations /\ Answers(solver) = M
      BY <3>1, FreshAnswers DEF Encoded
    <3>2. AttacksEncoding <=> (enc = "attacks" =>
             {<<DecisionPart(A), Shifted(A, 2 * N)>> : A \in Answers(solver)} = Pairs)
      BY DEF AttacksEncoding
    <3> HIDE DEF M, Pairs
    <3> QED  BY <2>1, <3>1, <3>2
  <2>2. \A A \in M : /\ DecisionPart(A) \in SUBSET Args /\ Second(A) \in SUBSET Args
                     /\ Wanted(DecisionPart(A), Second(A))
    BY TwoSetsReports, DecisionPartType DEF Second
  <2>3. \A S, T : Wanted(S, T) => \E A \in M : DecisionPart(A) = S /\ Second(A) = T
    BY TwoSetsReported
  <2> HIDE DEF M, Wanted
  <2>4. \A A \in M : <<DecisionPart(A), Second(A)>> \in Pairs
    BY <2>2
  <2>5. ASSUME NEW P \in Pairs PROVE \E A \in M : P = <<DecisionPart(A), Second(A)>>
    <3>1. P = <<P[1], P[2]>> /\ Wanted(P[1], P[2])
      OBVIOUS
    <3> QED  BY <2>3, <3>1
  <2> HIDE DEF Pairs
  <2> QED  BY <2>4, <2>5
<1> QED  BY <1>1, EncodedInvariant, PTL
=============================================================================
