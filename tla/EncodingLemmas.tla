--------------------------- MODULE EncodingLemmas ---------------------------
(***************************************************************************)
(* The lemmas on which the proofs about the encodings and about the        *)
(* algorithms rest, for every number of arguments and every framework:     *)
(* facts of Dung's theory the code relies on without saying so, what the   *)
(* clauses of Encodings.cpp mean, and what the solver's operations do.     *)
(***************************************************************************)
EXTENDS Encodings, ExternalSatSolver, FiniteSetTheorems, WellFoundedInduction, TLAPS

-----------------------------------------------------------------------------
(***************************************************************************)
(* Extensions.                                                             *)
(***************************************************************************)

\* An argument that an admissible set defends can be added to the set, which
\* stays admissible (Dung's fundamental lemma).
LEMMA Fundamental ==
    ASSUME NEW att, NEW S, Admissible(att, S), NEW i \in Args, Defends(att, S, i)
    PROVE  Admissible(att, S \cup {i})
<1>1. S \subseteq Args /\ ConflictFree(att, S) /\ \A j \in S : Defends(att, S, j)
  BY DEF Admissible
<1>2. \A j \in S : <<j, i>> \notin att
  BY <1>1 DEF Defends, ConflictFree
<1>3. \A j \in S : <<i, j>> \notin att
  BY <1>1, <1>2 DEF Defends
<1>4. <<i, i>> \notin att
  BY <1>2 DEF Defends
<1>5. ConflictFree(att, S \cup {i})
  BY <1>1, <1>2, <1>3, <1>4 DEF ConflictFree
<1>6. \A j \in S \cup {i} : Defends(att, S \cup {i}, j)
  BY <1>1 DEF Defends
<1> QED  BY <1>1, <1>5, <1>6 DEF Admissible

\* A preferred extension is complete, so a solver that knows the complete
\* extensions can find it (EC-PR in every algorithm, ES-PR in EEE and IAQ).
LEMMA PreferredIsComplete ==
    ASSUME NEW att, NEW S, Preferred(att, S)
    PROVE  Complete(att, S)
<1>1. Admissible(att, S) /\ S \subseteq Args
  BY DEF Preferred, Admissible
<1>2. ASSUME NEW i \in Args, Defends(att, S, i)  PROVE i \in S
  <2>1. Admissible(att, S \cup {i})
    BY <1>1, <1>2, Fundamental
  <2>2. S \cup {i} \in SUBSET Args
    BY <1>1
  <2>3. S \cup {i} = S
    BY <2>1, <2>2 DEF Preferred
  <2> QED  BY <2>3
<1> QED  BY <1>1, <1>2 DEF Complete

\* There are finitely many arguments.
LEMMA FiniteArgs == IsFiniteSet(Args)
  BY NAssumption, FS_Interval DEF Args

\* A set of arguments has fewer elements than one it is a proper part of:
\* what every round of a loop takes away counts.
LEMMA Fewer ==
    ASSUME NEW C \in SUBSET Args, NEW D \in SUBSET Args, C \subseteq D
    PROVE  /\ Cardinality(C) \in Nat /\ Cardinality(D) \in Nat
           /\ Cardinality(C) <= Cardinality(D)
           /\ C # D => Cardinality(C) < Cardinality(D)
<1>1. IsFiniteSet(C) /\ IsFiniteSet(D)
  BY FiniteArgs, FS_Subset
<1>2. Cardinality(C) \in Nat /\ Cardinality(D) \in Nat
  BY <1>1, FS_CardinalityType
<1>3. Cardinality(C) <= Cardinality(D) /\ (Cardinality(C) = Cardinality(D) => C = D)
  BY <1>1, FS_Subset
<1> QED  BY <1>2, <1>3

\* Every admissible set is contained in a preferred extension: growing a set
\* (the inner loops of EEE and IAQ) must end in one.
LEMMA PreferredAbove ==
    ASSUME NEW att, NEW S, Admissible(att, S)
    PROVE  \E P \in SUBSET Args : Preferred(att, P) /\ S \subseteq P
<1> DEFINE R == StrictSubsetOrdering(Args)
           Above == {E \in SUBSET Args : Admissible(att, E) /\ S \subseteq E}
           Rest == {Args \ E : E \in Above}
<1>1. IsWellFoundedOn(R, SUBSET Args)
  BY FiniteArgs, FS_FiniteSubsetsOfFinite, FS_StrictSubsetOrderingWellFounded
<1>2. S \in Above
  BY DEF Admissible
<1>3. Rest \subseteq SUBSET Args /\ Rest # {}
  BY <1>2
<1>4. PICK x \in Rest : \A y \in Rest : ~ (<<y, x>> \in R)
  <2> HIDE DEF R, Rest
  <2> QED  BY <1>1, <1>3, WFMin
<1>5. PICK P \in Above : x = Args \ P
  BY <1>4
<1>6. ASSUME NEW T \in SUBSET Args, Admissible(att, T), P \subseteq T
      PROVE  T = P
  <2>1. Args \ T \in Rest
    BY <1>5, <1>6
  <2>2. ~ (<<Args \ T, x>> \in R)
    BY <1>4, <2>1
  <2>3. ~ (Args \ T \subseteq x /\ Args \ T # x)
    BY <2>2, <1>5 DEF StrictSubsetOrdering
  <2> QED  BY <2>3, <1>5, <1>6
<1>7. Preferred(att, P)
  BY <1>5, <1>6 DEF Preferred
<1> QED  BY <1>5, <1>7

\* A preferred extension is contained in no other preferred or complete one.
LEMMA PreferredMaximal ==
    ASSUME NEW att, NEW P, Preferred(att, P),
           NEW Q, Complete(att, Q) \/ Preferred(att, Q), P \subseteq Q
    PROVE  P = Q
  BY DEF Preferred, Complete, Admissible

\* An argument is in some preferred extension iff it is in some complete one,
\* so EC-PR may be answered from complete extensions.
THEOREM CredulousPreferred ==
    ASSUME NEW att
    PROVE  Credulous(att, "PR") = Credulous(att, "CO")
<1>1. /\ Extensions(att, "PR") = {S \in SUBSET Args : Preferred(att, S)}
      /\ Extensions(att, "CO") = {S \in SUBSET Args : Complete(att, S)}
  BY DEF Extensions, IsExtension
<1>2. ASSUME NEW i \in Args, NEW S \in SUBSET Args, Preferred(att, S), i \in S
      PROVE  \E T \in SUBSET Args : Complete(att, T) /\ i \in T
  BY <1>2, PreferredIsComplete
<1>3. ASSUME NEW i \in Args, NEW S \in SUBSET Args, Complete(att, S), i \in S
      PROVE  \E T \in SUBSET Args : Preferred(att, T) /\ i \in T
  BY <1>3, PreferredAbove DEF Complete
<1> QED  BY <1>1, <1>2, <1>3 DEF Credulous

-----------------------------------------------------------------------------
(***************************************************************************)
(* The lists the algorithms return.                                        *)
(***************************************************************************)

\* Listing arguments keeps the result a list of arguments.
LEMMA PushType ==
    ASSUME NEW r \in [Args -> Nat], NEW S
    PROVE  Push(r, S) \in [Args -> Nat]
  BY DEF Push

\* Listing more arguments.
LEMMA ListingGrows ==
    ASSUME NEW S \in SUBSET Args, NEW T \in SUBSET Args, S \cap T = {}
    PROVE  Push(Listing(S), T) = Listing(S \cup T)
  BY DEF Push, Listing

\* The empty list lists nothing.
LEMMA NothingListed == Nothing = Listing({})
  BY DEF Nothing, Listing

-----------------------------------------------------------------------------
(***************************************************************************)
(* Variables, literals and clauses.                                        *)
(***************************************************************************)

\* AF::initialize_vars gives accepted and rejected variables distinct
\* positive numbers up to count.
LEMMA Variables ==
    ASSUME NEW i \in Args, NEW j \in Args
    PROVE  /\ accepted_var(i) \in 1 .. count /\ rejected_var(i) \in 1 .. count
           /\ accepted_var(i) \in Int /\ rejected_var(i) \in Int
           /\ accepted_var(i) > 0 /\ rejected_var(i) > 0
           /\ accepted_var(i) # rejected_var(j)
           /\ accepted_var(i) = accepted_var(j) => i = j
           /\ rejected_var(i) = rejected_var(j) => i = j
  BY NAssumption DEF Args, accepted_var, rejected_var, count

\* The variables count is a number, and 0 .. count an interval of numbers.
LEMMA CountType == count \in Nat /\ 0 \in 0 .. count /\ count \in 0 .. count
  BY NAssumption DEF count

\* A positive literal holds when its variable is true, a negative one when
\* its variable is not.
LEMMA Literals ==
    ASSUME NEW A, NEW v \in Int, v > 0
    PROVE  /\ Holds(A, v) <=> v \in A
           /\ Holds(A, -v) <=> v \notin A
  BY DEF Holds

\* The literals of accepted and rejected variables.
LEMMA ArgumentLiterals ==
    ASSUME NEW A, NEW i \in Args
    PROVE  /\ Holds(A, accepted_var(i)) <=> accepted_var(i) \in A
           /\ Holds(A, -accepted_var(i)) <=> accepted_var(i) \notin A
           /\ Holds(A, rejected_var(i)) <=> rejected_var(i) \in A
           /\ Holds(A, -rejected_var(i)) <=> rejected_var(i) \notin A
  BY Variables, Literals

\* model[i], which the wrappers read off variable i + 1, is accepted_var[i].
LEMMA DecisionPartAccepted ==
    ASSUME NEW A
    PROVE  DecisionPart(A) = {i \in Args : accepted_var(i) \in A}
  BY DEF DecisionPart, accepted_var

\* add_clause_1 and add_clause_2: one and two literals.
LEMMA Clause1 ==
    ASSUME NEW A, NEW l
    PROVE  Satisfies(A, {l}) <=> Holds(A, l)
  BY DEF Satisfies

\* A clause of two literals holds when one of them does.
LEMMA Clause2 ==
    ASSUME NEW A, NEW l, NEW m
    PROVE  Satisfies(A, {l, m}) <=> Holds(A, l) \/ Holds(A, m)
  BY DEF Satisfies

-----------------------------------------------------------------------------
(***************************************************************************)
(* The clauses of one argument, read as a formula.                         *)
(***************************************************************************)
Acc(A, i) == accepted_var(i) \in A

Rej(A, i) == rejected_var(i) \in A

CompleteAt(att, A, i) ==
    /\ ~ (Acc(A, i) /\ Rej(A, i))
    /\ i \in Unattacked(att) => Acc(A, i)
    /\ i \notin Unattacked(att) =>
         /\ \A j \in Attackers(att, i) : Acc(A, i) => Rej(A, j)
         /\ \A j \in Attackers(att, i) : Acc(A, j) => Rej(A, i)
         /\ Rej(A, i) => \E j \in Attackers(att, i) : Acc(A, j)
         /\ (\A j \in Attackers(att, i) : Rej(A, j)) => Acc(A, i)

\* The clauses Encodings::complete adds for argument i say CompleteAt.
LEMMA CompleteClauses ==
    ASSUME NEW att, NEW A, NEW i \in Args
    PROVE  (\A c \in complete_of(att, i) : Satisfies(A, c)) <=> CompleteAt(att, A, i)
<1> DEFINE Att == Attackers(att, i)
           c0 == {-accepted_var(i), -rejected_var(i)}
           c1 == {accepted_var(i)}
           D1 == {{-accepted_var(i), rejected_var(j)} : j \in Att}
           D2 == {{-accepted_var(j), rejected_var(i)} : j \in Att}
           c3 == {accepted_var(j) : j \in Att} \cup {-rejected_var(i)}
           c4 == {-rejected_var(j) : j \in Att} \cup {accepted_var(i)}
<1>0. Att \subseteq Args
  BY DEF Attackers
<1>1. Satisfies(A, c0) <=> ~ (Acc(A, i) /\ Rej(A, i))
  BY Clause2, ArgumentLiterals DEF Acc, Rej
<1>2. Satisfies(A, c1) <=> Acc(A, i)
  BY Clause1, ArgumentLiterals DEF Acc
<1>3. (\A c \in D1 : Satisfies(A, c)) <=> \A j \in Att : Acc(A, i) => Rej(A, j)
  <2>1. \A j \in Att : Satisfies(A, {-accepted_var(i), rejected_var(j)})
                         <=> (Acc(A, i) => Rej(A, j))
    BY <1>0, Clause2, ArgumentLiterals DEF Acc, Rej
  <2> HIDE DEF Att
  <2> QED  BY <2>1
<1>4. (\A c \in D2 : Satisfies(A, c)) <=> \A j \in Att : Acc(A, j) => Rej(A, i)
  <2>1. \A j \in Att : Satisfies(A, {-accepted_var(j), rejected_var(i)})
                         <=> (Acc(A, j) => Rej(A, i))
    BY <1>0, Clause2, ArgumentLiterals DEF Acc, Rej
  <2> HIDE DEF Att
  <2> QED  BY <2>1
<1>5. Satisfies(A, c3) <=> (Rej(A, i) => \E j \in Att : Acc(A, j))
  <2>1. Satisfies(A, c3) <=> Holds(A, -rejected_var(i))
                               \/ \E j \in Att : Holds(A, accepted_var(j))
    <3> HIDE DEF Att
    <3> QED  BY DEF Satisfies
  <2> QED  BY <2>1, <1>0, ArgumentLiterals DEF Acc, Rej
<1>6. Satisfies(A, c4) <=> ((\A j \in Att : Rej(A, j)) => Acc(A, i))
  <2>1. Satisfies(A, c4) <=> Holds(A, accepted_var(i))
                               \/ \E j \in Att : Holds(A, -rejected_var(j))
    <3> HIDE DEF Att
    <3> QED  BY DEF Satisfies
  <2> QED  BY <2>1, <1>0, ArgumentLiterals DEF Acc, Rej
<1>7. CASE i \in Unattacked(att)
  <2>1. complete_of(att, i) = {c0} \cup {c1}
    BY <1>7 DEF complete_of
  <2> QED  BY <2>1, <1>1, <1>2, <1>7 DEF CompleteAt
<1>8. CASE i \notin Unattacked(att)
  <2>1. complete_of(att, i) = {c0} \cup D1 \cup D2 \cup {c3} \cup {c4}
    BY <1>8 DEF complete_of
  <2> HIDE DEF c0, D1, D2, c3, c4
  <2>2. (\A c \in complete_of(att, i) : Satisfies(A, c)) <=>
          /\ Satisfies(A, c0)
          /\ \A c \in D1 : Satisfies(A, c)
          /\ \A c \in D2 : Satisfies(A, c)
          /\ Satisfies(A, c3)
          /\ Satisfies(A, c4)
    BY <2>1
  <2> QED  BY <2>2, <1>1, <1>3, <1>4, <1>5, <1>6, <1>8 DEF CompleteAt
<1> QED  BY <1>7, <1>8

StableAt(att, A, i) ==
    /\ Acc(A, i) <=> ~ Rej(A, i)
    /\ i \in Unattacked(att) => Acc(A, i)
    /\ i \notin Unattacked(att) =>
         /\ \A j \in Attackers(att, i) : Acc(A, i) => Rej(A, j)
         /\ Rej(A, i) => \E j \in Attackers(att, i) : Acc(A, j)
         /\ (\A j \in Attackers(att, i) : Rej(A, j)) => Acc(A, i)

\* The clauses Encodings::stable adds for argument i say StableAt.
LEMMA StableClauses ==
    ASSUME NEW att, NEW A, NEW i \in Args
    PROVE  (\A c \in stable_of(att, i) : Satisfies(A, c)) <=> StableAt(att, A, i)
<1> DEFINE Att == Attackers(att, i)
           c0 == {-accepted_var(i), -rejected_var(i)}
           c1 == {accepted_var(i), rejected_var(i)}
           c2 == {accepted_var(i)}
           D == {{-accepted_var(i), rejected_var(j)} : j \in Att}
           c3 == {accepted_var(j) : j \in Att} \cup {-rejected_var(i)}
           c4 == {-rejected_var(j) : j \in Att} \cup {accepted_var(i)}
<1>0. Att \subseteq Args
  BY DEF Attackers
<1>1. Satisfies(A, c0) /\ Satisfies(A, c1) <=> (Acc(A, i) <=> ~ Rej(A, i))
  BY Clause2, ArgumentLiterals DEF Acc, Rej
<1>2. Satisfies(A, c2) <=> Acc(A, i)
  BY Clause1, ArgumentLiterals DEF Acc
<1>3. (\A c \in D : Satisfies(A, c)) <=> \A j \in Att : Acc(A, i) => Rej(A, j)
  <2>1. \A j \in Att : Satisfies(A, {-accepted_var(i), rejected_var(j)})
                         <=> (Acc(A, i) => Rej(A, j))
    BY <1>0, Clause2, ArgumentLiterals DEF Acc, Rej
  <2> HIDE DEF Att
  <2> QED  BY <2>1
<1>5. Satisfies(A, c3) <=> (Rej(A, i) => \E j \in Att : Acc(A, j))
  <2>1. Satisfies(A, c3) <=> Holds(A, -rejected_var(i))
                               \/ \E j \in Att : Holds(A, accepted_var(j))
    <3> HIDE DEF Att
    <3> QED  BY DEF Satisfies
  <2> QED  BY <2>1, <1>0, ArgumentLiterals DEF Acc, Rej
<1>6. Satisfies(A, c4) <=> ((\A j \in Att : Rej(A, j)) => Acc(A, i))
  <2>1. Satisfies(A, c4) <=> Holds(A, accepted_var(i))
                               \/ \E j \in Att : Holds(A, -rejected_var(j))
    <3> HIDE DEF Att
    <3> QED  BY DEF Satisfies
  <2> QED  BY <2>1, <1>0, ArgumentLiterals DEF Acc, Rej
<1>7. CASE i \in Unattacked(att)
  <2>1. stable_of(att, i) = {c0, c1} \cup {c2}
    BY <1>7 DEF stable_of
  <2> QED  BY <2>1, <1>1, <1>2, <1>7 DEF StableAt
<1>8. CASE i \notin Unattacked(att)
  <2>1. stable_of(att, i) = {c0, c1} \cup D \cup {c3} \cup {c4}
    BY <1>8 DEF stable_of
  <2> HIDE DEF c0, c1, D, c3, c4
  <2>2. (\A c \in stable_of(att, i) : Satisfies(A, c)) <=>
          /\ Satisfies(A, c0)
          /\ Satisfies(A, c1)
          /\ \A c \in D : Satisfies(A, c)
          /\ Satisfies(A, c3)
          /\ Satisfies(A, c4)
    BY <2>1
  <2> QED  BY <2>2, <1>1, <1>3, <1>5, <1>6, <1>8 DEF StableAt
<1> QED  BY <1>7, <1>8

-----------------------------------------------------------------------------
(***************************************************************************)
(* The models of complete and stable, and the extensions they report.      *)
(***************************************************************************)
\* The solver's answers after Encodings::complete.
LEMMA CompleteModels ==
    ASSUME NEW att, NEW A
    PROVE  A \in Models(count, complete(att)) <=>
               A \in SUBSET (1 .. count) /\ \A i \in Args : CompleteAt(att, A, i)
<1>1. (\A c \in complete(att) : Satisfies(A, c))
        <=> \A i \in Args : \A c \in complete_of(att, i) : Satisfies(A, c)
  BY DEF complete
<1>2. (\A c \in complete(att) : Satisfies(A, c))
        <=> \A i \in Args : CompleteAt(att, A, i)
  BY <1>1, CompleteClauses
<1> QED  BY <1>2 DEF Models

\* The solver's answers after Encodings::stable.
LEMMA StableModels ==
    ASSUME NEW att, NEW A
    PROVE  A \in Models(count, stable(att)) <=>
               A \in SUBSET (1 .. count) /\ \A i \in Args : StableAt(att, A, i)
<1>1. (\A c \in stable(att) : Satisfies(A, c))
        <=> \A i \in Args : \A c \in stable_of(att, i) : Satisfies(A, c)
  BY DEF stable
<1>2. (\A c \in stable(att) : Satisfies(A, c))
        <=> \A i \in Args : StableAt(att, A, i)
  BY <1>1, StableClauses
<1> QED  BY <1>2 DEF Models

\* The assignment in which S is accepted and what S attacks is rejected.
ModelOf(att, S) ==
    {accepted_var(i) : i \in S} \cup {rejected_var(i) : i \in Attacked(att, S)}

\* The assignment ModelOf uses variables of the solver only, and the wrapper
\* reads S back from it.
LEMMA ModelOfVariables ==
    ASSUME NEW att, NEW S \in SUBSET Args
    PROVE  /\ ModelOf(att, S) \in SUBSET (1 .. count)
           /\ \A i \in Args : Acc(ModelOf(att, S), i) <=> i \in S
           /\ \A i \in Args : Rej(ModelOf(att, S), i) <=> i \in Attacked(att, S)
           /\ DecisionPart(ModelOf(att, S)) = S
<1>0. Attacked(att, S) \subseteq Args
  BY DEF Attacked
<1>1. ModelOf(att, S) \in SUBSET (1 .. count)
  BY <1>0, Variables DEF ModelOf
<1>2. \A i \in Args : Acc(ModelOf(att, S), i) <=> i \in S
  BY <1>0, Variables DEF ModelOf, Acc
<1>3. \A i \in Args : Rej(ModelOf(att, S), i) <=> i \in Attacked(att, S)
  BY <1>0, Variables DEF ModelOf, Rej
<1>4. DecisionPart(ModelOf(att, S)) = S
  BY <1>2, DecisionPartAccepted DEF Acc
<1> QED  BY <1>1, <1>2, <1>3, <1>4

\* The vector model holds the accepted arguments.
LEMMA DecisionPartType ==
    ASSUME NEW A
    PROVE  /\ DecisionPart(A) \in SUBSET Args
           /\ \A i \in Args : i \in DecisionPart(A) <=> Acc(A, i)
  BY DecisionPartAccepted DEF Acc

\* What Encodings::complete reports is a complete extension, and its rejected
\* variables are those of the arguments the extension attacks.
LEMMA CompleteReports ==
    ASSUME NEW att \in Relations, NEW A \in Models(count, complete(att))
    PROVE  /\ Complete(att, DecisionPart(A))
           /\ \A i \in Args : Rej(A, i) <=> i \in Attacked(att, DecisionPart(A))
<1> DEFINE S == DecisionPart(A)
<1>1. S \in SUBSET Args /\ \A i \in Args : i \in S <=> Acc(A, i)
  BY DecisionPartType
<1>2. \A i \in Args : CompleteAt(att, A, i)
  BY CompleteModels
<1> HIDE DEF S
<1>3. \A i \in Args : Rej(A, i) <=> i \in Attacked(att, S)
  BY <1>1, <1>2 DEF CompleteAt, Attackers, Unattacked, Attacked
<1>4. ConflictFree(att, S)
  BY <1>1, <1>2, <1>3 DEF CompleteAt, Attacked, ConflictFree
<1>5. \A i \in S : Defends(att, S, i)
  BY <1>1, <1>2, <1>3 DEF CompleteAt, Attackers, Unattacked, Attacked, Defends
<1>6. \A i \in Args : Defends(att, S, i) => i \in S
  BY <1>1, <1>2, <1>3 DEF CompleteAt, Attackers, Unattacked, Attacked, Defends
<1>7. Complete(att, S)
  BY <1>1, <1>4, <1>5, <1>6 DEF Complete, Admissible
<1> QED  BY <1>3, <1>7 DEF S

\* Every complete extension is reported.
LEMMA CompleteReported ==
    ASSUME NEW att \in Relations, NEW S, Complete(att, S)
    PROVE  ModelOf(att, S) \in Models(count, complete(att))
<1>1. /\ S \in SUBSET Args /\ ConflictFree(att, S)
      /\ \A i \in S : Defends(att, S, i)
      /\ \A i \in Args : Defends(att, S, i) => i \in S
  BY DEF Complete, Admissible
<1> DEFINE A == ModelOf(att, S)
<1>2. /\ A \in SUBSET (1 .. count)
      /\ \A i \in Args : Acc(A, i) <=> i \in S
      /\ \A i \in Args : Rej(A, i) <=> i \in Attacked(att, S)
  BY <1>1, ModelOfVariables
<1> HIDE DEF A
<1>3. ASSUME NEW i \in Args  PROVE CompleteAt(att, A, i)
  <2>1. ~ (Acc(A, i) /\ Rej(A, i))
    BY <1>1, <1>2 DEF ConflictFree, Attacked
  <2>2. i \in Unattacked(att) => Acc(A, i)
    BY <1>1, <1>2 DEF Unattacked, Defends
  <2>3. \A j \in Attackers(att, i) : Acc(A, i) => Rej(A, j)
    BY <1>1, <1>2 DEF Attackers, Defends, Attacked
  <2>4. \A j \in Attackers(att, i) : Acc(A, j) => Rej(A, i)
    BY <1>1, <1>2 DEF Attackers, Attacked
  <2>5. Rej(A, i) => \E j \in Attackers(att, i) : Acc(A, j)
    BY <1>1, <1>2 DEF Attackers, Attacked
  <2>6. (\A j \in Attackers(att, i) : Rej(A, j)) => Acc(A, i)
    BY <1>1, <1>2 DEF Attackers, Attacked, Defends
  <2> QED  BY <2>1, <2>2, <2>3, <2>4, <2>5, <2>6 DEF CompleteAt
<1>4. A \in Models(count, complete(att))
  BY <1>2, <1>3, CompleteModels
<1> QED  BY <1>4 DEF A

\* So every preferred extension is reported by Encodings::complete.
LEMMA PreferredReported ==
    ASSUME NEW att \in Relations, NEW P \in SUBSET Args, Preferred(att, P)
    PROVE  /\ ModelOf(att, P) \in Models(count, complete(att))
           /\ DecisionPart(ModelOf(att, P)) = P
  BY PreferredIsComplete, CompleteReported, ModelOfVariables

\* What Encodings::stable reports is a stable extension, and the rejected
\* arguments are all the others.
LEMMA StableReports ==
    ASSUME NEW att \in Relations, NEW A \in Models(count, stable(att))
    PROVE  /\ Stable(att, DecisionPart(A))
           /\ \A i \in Args : Rej(A, i) <=> i \notin DecisionPart(A)
<1> DEFINE S == DecisionPart(A)
<1>1. S \in SUBSET Args /\ \A i \in Args : i \in S <=> Acc(A, i)
  BY DecisionPartType
<1>2. \A i \in Args : StableAt(att, A, i)
  BY StableModels
<1> HIDE DEF S
<1>3. \A i \in Args : Rej(A, i) <=> i \notin S
  BY <1>1, <1>2 DEF StableAt
<1>4. ConflictFree(att, S)
  BY <1>1, <1>2, <1>3 DEF StableAt, Attackers, Unattacked, ConflictFree
<1>5. \A i \in Args \ S : \E j \in S : <<j, i>> \in att
  BY <1>1, <1>2, <1>3 DEF StableAt, Attackers, Unattacked
<1>6. Stable(att, S)
  BY <1>1, <1>4, <1>5 DEF Stable
<1> QED  BY <1>3, <1>6 DEF S

\* Every stable extension is reported.
LEMMA StableReported ==
    ASSUME NEW att \in Relations, NEW S, Stable(att, S)
    PROVE  ModelOf(att, S) \in Models(count, stable(att))
<1>1. /\ S \in SUBSET Args /\ ConflictFree(att, S)
      /\ \A i \in Args \ S : \E j \in S : <<j, i>> \in att
  BY DEF Stable
<1>2. \A i \in Args : i \in Attacked(att, S) <=> i \notin S
  BY <1>1 DEF ConflictFree, Attacked
<1> DEFINE A == ModelOf(att, S)
<1>3. /\ A \in SUBSET (1 .. count)
      /\ \A i \in Args : Acc(A, i) <=> i \in S
      /\ \A i \in Args : Rej(A, i) <=> i \notin S
  BY <1>1, <1>2, ModelOfVariables
<1> HIDE DEF A
<1>4. ASSUME NEW i \in Args  PROVE StableAt(att, A, i)
  <2>1. Acc(A, i) <=> ~ Rej(A, i)
    BY <1>3
  <2>2. i \in Unattacked(att) => Acc(A, i)
    BY <1>1, <1>3 DEF Unattacked
  <2>3. \A j \in Attackers(att, i) : Acc(A, i) => Rej(A, j)
    BY <1>1, <1>3 DEF Attackers, ConflictFree
  <2>4. Rej(A, i) => \E j \in Attackers(att, i) : Acc(A, j)
    BY <1>1, <1>3 DEF Attackers
  <2>5. (\A j \in Attackers(att, i) : Rej(A, j)) => Acc(A, i)
    BY <1>1, <1>3 DEF Attackers
  <2> QED  BY <2>1, <2>2, <2>3, <2>4, <2>5 DEF StableAt
<1>5. A \in Models(count, stable(att))
  BY <1>3, <1>4, StableModels
<1> QED  BY <1>5 DEF A

-----------------------------------------------------------------------------
(***************************************************************************)
(* Encodings::admissible, with its variables shifted by an offset.         *)
(***************************************************************************)
AccAt(A, offset, i) == offset + accepted_var(i) \in A

RejAt(A, offset, i) == offset + rejected_var(i) \in A

AdmissibleAt(att, A, offset, i) ==
    /\ ~ (AccAt(A, offset, i) /\ RejAt(A, offset, i))
    /\ i \in Unattacked(att) => AccAt(A, offset, i)
    /\ i \notin Unattacked(att) =>
         /\ \A j \in Attackers(att, i) : AccAt(A, offset, i) => RejAt(A, offset, j)
         /\ RejAt(A, offset, i) => \E j \in Attackers(att, i) : AccAt(A, offset, j)

\* The literals of shifted variables.
LEMMA ShiftedLiterals ==
    ASSUME NEW A, NEW offset \in Nat, NEW i \in Args
    PROVE  /\ Holds(A, offset + accepted_var(i)) <=> AccAt(A, offset, i)
           /\ Holds(A, -(offset + accepted_var(i))) <=> ~ AccAt(A, offset, i)
           /\ Holds(A, offset + rejected_var(i)) <=> RejAt(A, offset, i)
           /\ Holds(A, -(offset + rejected_var(i))) <=> ~ RejAt(A, offset, i)
<1>1. /\ offset + accepted_var(i) \in Int /\ offset + accepted_var(i) > 0
      /\ offset + rejected_var(i) \in Int /\ offset + rejected_var(i) > 0
  BY Variables
<1> QED  BY <1>1, Literals DEF AccAt, RejAt

\* The clauses Encodings::admissible adds for argument i say AdmissibleAt.
LEMMA AdmissibleClauses ==
    ASSUME NEW att, NEW A, NEW offset \in Nat, NEW i \in Args
    PROVE  (\A c \in admissible_of(att, offset, i) : Satisfies(A, c))
              <=> AdmissibleAt(att, A, offset, i)
<1> DEFINE Att == Attackers(att, i)
           acc(j) == offset + accepted_var(j)
           rej(j) == offset + rejected_var(j)
           c0 == {-acc(i), -rej(i)}
           c1 == {acc(i)}
           D == {{-acc(i), rej(j)} : j \in Att}
           c2 == {acc(j) : j \in Att} \cup {-rej(i)}
<1>0. Att \subseteq Args
  BY DEF Attackers
<1>1. Satisfies(A, c0) <=> ~ (AccAt(A, offset, i) /\ RejAt(A, offset, i))
  BY Clause2, ShiftedLiterals
<1>2. Satisfies(A, c1) <=> AccAt(A, offset, i)
  BY Clause1, ShiftedLiterals
<1>3. (\A c \in D : Satisfies(A, c))
        <=> \A j \in Att : AccAt(A, offset, i) => RejAt(A, offset, j)
  <2>1. \A j \in Att : Satisfies(A, {-acc(i), rej(j)})
                         <=> (AccAt(A, offset, i) => RejAt(A, offset, j))
    BY <1>0, Clause2, ShiftedLiterals
  <2> HIDE DEF Att, acc, rej
  <2> QED  BY <2>1
<1>4. Satisfies(A, c2)
        <=> (RejAt(A, offset, i) => \E j \in Att : AccAt(A, offset, j))
  <2>1. Satisfies(A, c2) <=> Holds(A, -rej(i)) \/ \E j \in Att : Holds(A, acc(j))
    <3> HIDE DEF Att, acc, rej
    <3> QED  BY DEF Satisfies
  <2> QED  BY <2>1, <1>0, ShiftedLiterals
<1>5. CASE i \in Unattacked(att)
  <2>1. admissible_of(att, offset, i) = {c0} \cup {c1}
    BY <1>5 DEF admissible_of
  <2> HIDE DEF c0, c1
  <2> QED  BY <2>1, <1>1, <1>2, <1>5 DEF AdmissibleAt
<1>6. CASE i \notin Unattacked(att)
  <2>1. admissible_of(att, offset, i) = {c0} \cup D \cup {c2}
    BY <1>6 DEF admissible_of
  <2> HIDE DEF c0, D, c2
  <2>2. (\A c \in admissible_of(att, offset, i) : Satisfies(A, c)) <=>
          /\ Satisfies(A, c0)
          /\ \A c \in D : Satisfies(A, c)
          /\ Satisfies(A, c2)
    BY <2>1
  <2> QED  BY <2>2, <1>1, <1>3, <1>4, <1>6 DEF AdmissibleAt
<1> QED  BY <1>5, <1>6

\* The clauses Encodings::admissible adds for one of its two sets.
LEMMA AdmissibleSet ==
    ASSUME NEW att, NEW A, NEW isAttackedSet \in BOOLEAN
    PROVE  (\A c \in admissible(att, isAttackedSet) : Satisfies(A, c))
              <=> \A i \in Args : AdmissibleAt(att, A, IF isAttackedSet THEN 2 * N ELSE 0, i)
<1> DEFINE offset == IF isAttackedSet THEN 2 * N ELSE 0
<1>1. offset \in Nat
  BY NAssumption
<1>2. (\A c \in admissible(att, isAttackedSet) : Satisfies(A, c))
        <=> \A i \in Args : \A c \in admissible_of(att, offset, i) : Satisfies(A, c)
  BY DEF admissible
<1> HIDE DEF offset
<1>3. (\A c \in admissible(att, isAttackedSet) : Satisfies(A, c))
        <=> \A i \in Args : AdmissibleAt(att, A, offset, i)
  BY <1>1, <1>2, AdmissibleClauses
<1> QED  BY <1>3 DEF offset

\* An assignment that satisfies them accepts an admissible set with all
\* unattacked arguments.
LEMMA AdmissibleAccepted ==
    ASSUME NEW att, NEW A, NEW offset, NEW S \in SUBSET Args,
           \A i \in Args : i \in S <=> AccAt(A, offset, i),
           \A i \in Args : AdmissibleAt(att, A, offset, i)
    PROVE  Admissible(att, S) /\ Unattacked(att) \subseteq S
<1>1. ConflictFree(att, S)
  BY DEF AdmissibleAt, Attackers, Unattacked, ConflictFree
<1>2. \A i \in S : Defends(att, S, i)
  BY DEF AdmissibleAt, Attackers, Unattacked, Defends
<1>3. Unattacked(att) \subseteq S
  BY DEF AdmissibleAt, Unattacked
<1> QED  BY <1>1, <1>2, <1>3 DEF Admissible

\* Accepting such a set and rejecting what it attacks satisfies them.
LEMMA AdmissibleSatisfied ==
    ASSUME NEW att, NEW S, Admissible(att, S), Unattacked(att) \subseteq S,
           NEW A, NEW offset,
           \A i \in Args : /\ AccAt(A, offset, i) <=> i \in S
                           /\ RejAt(A, offset, i) <=> i \in Attacked(att, S)
    PROVE  \A i \in Args : AdmissibleAt(att, A, offset, i)
<1>1. /\ S \in SUBSET Args /\ ConflictFree(att, S)
      /\ \A i \in S : Defends(att, S, i)
  BY DEF Admissible
<1> TAKE i \in Args
<1>2. ~ (AccAt(A, offset, i) /\ RejAt(A, offset, i))
  BY <1>1 DEF ConflictFree, Attacked
<1>3. i \in Unattacked(att) => AccAt(A, offset, i)
  OBVIOUS
<1>4. \A j \in Attackers(att, i) : AccAt(A, offset, i) => RejAt(A, offset, j)
  BY <1>1 DEF Attackers, Defends, Attacked
<1>5. RejAt(A, offset, i) => \E j \in Attackers(att, i) : AccAt(A, offset, j)
  BY <1>1 DEF Attackers, Attacked
<1> QED  BY <1>2, <1>3, <1>4, <1>5 DEF AdmissibleAt

\* Encodings::admissible reports exactly the admissible sets that contain all
\* unattacked arguments.
LEMMA AdmissibleReports ==
    ASSUME NEW att \in Relations, NEW A \in Models(count, admissible(att, FALSE))
    PROVE  /\ Admissible(att, DecisionPart(A))
           /\ Unattacked(att) \subseteq DecisionPart(A)
<1>1. \A i \in Args : AccAt(A, 0, i) <=> Acc(A, i)
  BY Variables DEF AccAt, Acc
<1>2. /\ DecisionPart(A) \in SUBSET Args
      /\ \A i \in Args : i \in DecisionPart(A) <=> AccAt(A, 0, i)
  BY <1>1, DecisionPartType
<1>3. \A i \in Args : AdmissibleAt(att, A, 0, i)
  BY AdmissibleSet DEF Models
<1> QED  BY <1>2, <1>3, AdmissibleAccepted

\* Every such set is reported by Encodings::admissible.
LEMMA AdmissibleReported ==
    ASSUME NEW att \in Relations, NEW S, Admissible(att, S), Unattacked(att) \subseteq S
    PROVE  ModelOf(att, S) \in Models(count, admissible(att, FALSE))
<1> DEFINE A == ModelOf(att, S)
<1>1. /\ A \in SUBSET (1 .. count)
      /\ \A i \in Args : Acc(A, i) <=> i \in S
      /\ \A i \in Args : Rej(A, i) <=> i \in Attacked(att, S)
  BY ModelOfVariables DEF Admissible
<1> HIDE DEF A
<1>2. \A i \in Args : /\ AccAt(A, 0, i) <=> i \in S
                      /\ RejAt(A, 0, i) <=> i \in Attacked(att, S)
  BY <1>1, Variables DEF AccAt, RejAt, Acc, Rej
<1>3. \A i \in Args : AdmissibleAt(att, A, 0, i)
  BY <1>2, AdmissibleSatisfied
<1>4. A \in Models(count, admissible(att, FALSE))
  BY <1>1, <1>3, AdmissibleSet DEF Models
<1> QED  BY <1>4 DEF A

-----------------------------------------------------------------------------
(***************************************************************************)
(* complete without PERF_ENC.  Nothing makes an argument rejected that an  *)
(* accepted one attacks, so a model need not be a complete extension; but  *)
(* each accepts an admissible set, and every complete extension is there.  *)
(***************************************************************************)
Und(A, i) == undecided_var(i) \in A

LabelledAt(att, A, i) ==
    /\ Acc(A, i) \/ Rej(A, i) \/ Und(A, i)
    /\ ~ (Acc(A, i) /\ Rej(A, i))
    /\ ~ (Acc(A, i) /\ Und(A, i))
    /\ ~ (Rej(A, i) /\ Und(A, i))
    /\ i \in Unattacked(att) => Acc(A, i)
    /\ i \notin Unattacked(att) =>
         /\ \A j \in Attackers(att, i) : Acc(A, i) => Rej(A, j)
         /\ Rej(A, i) => \E j \in Attackers(att, i) : Acc(A, j)
         /\ (\A j \in Attackers(att, i) : Rej(A, j)) => Acc(A, i)

\* The undecided variables come after the others.
LEMMA UndecidedVariables ==
    ASSUME NEW A, NEW i \in Args, NEW j \in Args
    PROVE  /\ Holds(A, undecided_var(i)) <=> Und(A, i)
           /\ Holds(A, -undecided_var(i)) <=> ~ Und(A, i)
           /\ undecided_var(i) \in 1 .. 3 * N
           /\ undecided_var(i) = undecided_var(j) => i = j
           /\ undecided_var(i) # accepted_var(j) /\ undecided_var(i) # rejected_var(j)
<1>1. /\ undecided_var(i) \in Int /\ undecided_var(i) > 0 /\ undecided_var(i) \in 1 .. 3 * N
      /\ undecided_var(i) = undecided_var(j) => i = j
      /\ undecided_var(i) # accepted_var(j) /\ undecided_var(i) # rejected_var(j)
  BY NAssumption DEF Args, undecided_var, accepted_var, rejected_var
<1> QED  BY <1>1, Literals DEF Und

\* The clauses the function adds for argument i say LabelledAt.
LEMMA LabelledClauses ==
    ASSUME NEW att, NEW A, NEW i \in Args
    PROVE  (\A c \in labelled_of(att, i) : Satisfies(A, c)) <=> LabelledAt(att, A, i)
<1> DEFINE Att == Attackers(att, i)
           l0 == {accepted_var(i), rejected_var(i), undecided_var(i)}
           l1 == {-accepted_var(i), -rejected_var(i)}
           l2 == {-accepted_var(i), -undecided_var(i)}
           l3 == {-rejected_var(i), -undecided_var(i)}
           c1 == {accepted_var(i)}
           D == {{-accepted_var(i), rejected_var(j)} : j \in Att}
           c2 == {accepted_var(j) : j \in Att} \cup {-rejected_var(i)}
           c3 == {-rejected_var(j) : j \in Att} \cup {accepted_var(i)}
<1>0. Att \subseteq Args
  BY DEF Attackers
<1>1. \A j \in Args : /\ Holds(A, accepted_var(j)) <=> Acc(A, j)
                      /\ Holds(A, -accepted_var(j)) <=> ~ Acc(A, j)
                      /\ Holds(A, rejected_var(j)) <=> Rej(A, j)
                      /\ Holds(A, -rejected_var(j)) <=> ~ Rej(A, j)
                      /\ Holds(A, undecided_var(j)) <=> Und(A, j)
                      /\ Holds(A, -undecided_var(j)) <=> ~ Und(A, j)
  BY ArgumentLiterals, UndecidedVariables DEF Acc, Rej
<1>2. /\ Satisfies(A, l0) <=> Acc(A, i) \/ Rej(A, i) \/ Und(A, i)
      /\ Satisfies(A, l1) <=> ~ (Acc(A, i) /\ Rej(A, i))
      /\ Satisfies(A, l2) <=> ~ (Acc(A, i) /\ Und(A, i))
      /\ Satisfies(A, l3) <=> ~ (Rej(A, i) /\ Und(A, i))
      /\ Satisfies(A, c1) <=> Acc(A, i)
  BY <1>1 DEF Satisfies
<1>3. (\A c \in D : Satisfies(A, c)) <=> \A j \in Att : Acc(A, i) => Rej(A, j)
  <2>1. \A j \in Att : Satisfies(A, {-accepted_var(i), rejected_var(j)})
                         <=> (Acc(A, i) => Rej(A, j))
    BY <1>0, <1>1, Clause2
  <2> HIDE DEF Att
  <2> QED  BY <2>1
<1>4. Satisfies(A, c2) <=> (Rej(A, i) => \E j \in Att : Acc(A, j))
  <2>1. Satisfies(A, c2) <=> Holds(A, -rejected_var(i)) \/ \E j \in Att : Holds(A, accepted_var(j))
    <3> HIDE DEF Att
    <3> QED  BY DEF Satisfies
  <2> QED  BY <1>0, <1>1, <2>1
<1>5. Satisfies(A, c3) <=> ((\A j \in Att : Rej(A, j)) => Acc(A, i))
  <2>1. Satisfies(A, c3) <=> Holds(A, accepted_var(i)) \/ \E j \in Att : Holds(A, -rejected_var(j))
    <3> HIDE DEF Att
    <3> QED  BY DEF Satisfies
  <2> QED  BY <1>0, <1>1, <2>1
<1>6. CASE i \in Unattacked(att)
  <2>1. labelled_of(att, i) = {l0, l1, l2, l3} \cup {c1}
    BY <1>6 DEF labelled_of
  <2> HIDE DEF l0, l1, l2, l3, c1
  <2> QED  BY <2>1, <1>2, <1>6 DEF LabelledAt
<1>7. CASE i \notin Unattacked(att)
  <2>1. labelled_of(att, i) = {l0, l1, l2, l3} \cup (D \cup {c2} \cup {c3})
    BY <1>7 DEF labelled_of
  <2> HIDE DEF l0, l1, l2, l3, D, c2, c3
  <2>2. (\A c \in labelled_of(att, i) : Satisfies(A, c)) <=>
          /\ Satisfies(A, l0) /\ Satisfies(A, l1) /\ Satisfies(A, l2) /\ Satisfies(A, l3)
          /\ \A c \in D : Satisfies(A, c)
          /\ Satisfies(A, c2) /\ Satisfies(A, c3)
    BY <2>1
  <2> QED  BY <2>2, <1>2, <1>3, <1>4, <1>5, <1>7 DEF LabelledAt
<1> QED  BY <1>6, <1>7

\* The solver's answers after the labelled variant of Encodings::complete.
LEMMA LabelledModels ==
    ASSUME NEW att, NEW A
    PROVE  A \in Models(3 * N, complete_labelled(att)) <=>
               A \in SUBSET (1 .. 3 * N) /\ \A i \in Args : LabelledAt(att, A, i)
<1>1. (\A c \in complete_labelled(att) : Satisfies(A, c))
        <=> \A i \in Args : \A c \in labelled_of(att, i) : Satisfies(A, c)
  BY DEF complete_labelled
<1>2. (\A c \in complete_labelled(att) : Satisfies(A, c))
        <=> \A i \in Args : LabelledAt(att, A, i)
  BY <1>1, LabelledClauses
<1> QED  BY <1>2 DEF Models

\* Every set it reports is admissible.
LEMMA LabelledReports ==
    ASSUME NEW att \in Relations, NEW A \in Models(3 * N, complete_labelled(att))
    PROVE  Admissible(att, DecisionPart(A))
<1> DEFINE S == DecisionPart(A)
<1>1. S \in SUBSET Args /\ \A i \in Args : i \in S <=> Acc(A, i)
  BY DecisionPartType
<1>2. \A i \in Args : LabelledAt(att, A, i)
  BY LabelledModels
<1> HIDE DEF S
<1>3. ConflictFree(att, S)
  BY <1>1, <1>2 DEF LabelledAt, Attackers, Unattacked, ConflictFree
<1>4. \A i \in S : Defends(att, S, i)
  BY <1>1, <1>2 DEF LabelledAt, Attackers, Unattacked, Defends
<1> QED  BY <1>1, <1>3, <1>4 DEF Admissible, S

\* It reports every preferred extension.
LEMMA LabelledReported ==
    ASSUME NEW att \in Relations, NEW P \in SUBSET Args, Preferred(att, P)
    PROVE  \E A \in Models(3 * N, complete_labelled(att)) : DecisionPart(A) = P
<1> DEFINE B == ModelOf(att, P)
           U == {i \in Args : i \notin P /\ i \notin Attacked(att, P)}
           A == B \cup {undecided_var(i) : i \in U}
<1>1. /\ P \in SUBSET Args /\ ConflictFree(att, P) /\ \A i \in P : Defends(att, P, i)
      /\ \A i \in Args : Defends(att, P, i) => i \in P
  BY PreferredIsComplete DEF Complete, Admissible
<1>2. /\ B \in SUBSET (1 .. count)
      /\ \A i \in Args : Acc(B, i) <=> i \in P
      /\ \A i \in Args : Rej(B, i) <=> i \in Attacked(att, P)
  BY ModelOfVariables
<1> HIDE DEF B
<1>3. 1 .. count \subseteq 1 .. 3 * N
  BY NAssumption DEF count
<1>4. \A i \in Args : undecided_var(i) \notin B
  BY <1>2, NAssumption DEF Args, undecided_var, count
<1>5. A \in SUBSET (1 .. 3 * N)
  <2>1. \A i \in U : undecided_var(i) \in 1 .. 3 * N
    BY UndecidedVariables
  <2> HIDE DEF U
  <2> QED  BY <1>2, <1>3, <2>1
<1>6. \A i \in Args : /\ Acc(A, i) <=> i \in P
                      /\ Rej(A, i) <=> i \in Attacked(att, P)
                      /\ Und(A, i) <=> i \in U
  BY <1>2, <1>4, UndecidedVariables DEF Acc, Rej, Und
<1> HIDE DEF A
<1>7. ASSUME NEW i \in Args PROVE LabelledAt(att, A, i)
  <2>1. ~ (i \in P /\ i \in Attacked(att, P))
    BY <1>1 DEF ConflictFree, Attacked
  <2>2. /\ Acc(A, i) \/ Rej(A, i) \/ Und(A, i)
        /\ ~ (Acc(A, i) /\ Rej(A, i)) /\ ~ (Acc(A, i) /\ Und(A, i)) /\ ~ (Rej(A, i) /\ Und(A, i))
    BY <1>6, <2>1
  <2>3. i \in Unattacked(att) => Acc(A, i)
    BY <1>1, <1>6 DEF Unattacked, Defends
  <2>4. \A j \in Attackers(att, i) : Acc(A, i) => Rej(A, j)
    BY <1>1, <1>6 DEF Attackers, Defends, Attacked
  <2>5. Rej(A, i) => \E j \in Attackers(att, i) : Acc(A, j)
    BY <1>1, <1>6 DEF Attackers, Attacked
  <2>6. (\A j \in Attackers(att, i) : Rej(A, j)) => Acc(A, i)
    BY <1>1, <1>6 DEF Attackers, Defends, Attacked
  <2> QED  BY <2>2, <2>3, <2>4, <2>5, <2>6 DEF LabelledAt
<1>8. A \in Models(3 * N, complete_labelled(att))
  BY <1>5, <1>7, LabelledModels
<1>9. DecisionPart(A) = P
  BY <1>6, DecisionPartType
<1> QED  BY <1>8, <1>9

-----------------------------------------------------------------------------
(***************************************************************************)
(* attacks, together with two copies of admissible.                        *)
(***************************************************************************)
TwoSets(att) == admissible(att, FALSE) \cup admissible(att, TRUE) \cup attacks(att)

Second(A) == {i \in Args : 2 * N + accepted_var(i) \in A}

\* The attacks numbered before x.
Earlier(att, x) == {y \in att : y[2] < x[2] \/ (y[2] = x[2] /\ y[1] < x[1])}

\* Different attacks have different variables, beyond those of the two sets.
LEMMA AttackVariables ==
    ASSUME NEW att \in Relations, NEW x \in att, NEW y \in att
    PROVE  /\ Cardinality(att) \in Nat
           /\ attack_var(att, x) \in 4 * N + 1 .. 4 * N + Cardinality(att)
           /\ attack_var(att, x) = attack_var(att, y) => x = y
<1>1. IsFiniteSet(att)
  BY FiniteArgs, FS_Product, FS_Subset DEF Relations
<1>2. Cardinality(att) \in Nat
  BY <1>1, FS_CardinalityType
<1>3. ASSUME NEW z \in att
      PROVE  /\ Earlier(att, z) \in SUBSET att /\ z \notin Earlier(att, z)
             /\ Cardinality(Earlier(att, z)) \in Nat
             /\ Cardinality(Earlier(att, z)) < Cardinality(att)
             /\ attack_var(att, z) = 4 * N + 1 + Cardinality(Earlier(att, z))
  <2>1. z[1] \in Int /\ z[2] \in Int
    BY <1>3, NAssumption DEF Relations, Args
  <2>2. Earlier(att, z) \in SUBSET att /\ z \notin Earlier(att, z)
    BY <2>1 DEF Earlier
  <2>3. /\ IsFiniteSet(Earlier(att, z)) /\ Cardinality(Earlier(att, z)) <= Cardinality(att)
        /\ Cardinality(Earlier(att, z)) # Cardinality(att)
    BY <1>1, <1>3, <2>2, FS_Subset
  <2>4. Cardinality(Earlier(att, z)) \in Nat
    BY <2>3, FS_CardinalityType
  <2>5. attack_var(att, z) = 4 * N + 1 + Cardinality(Earlier(att, z))
    BY DEF attack_var, Earlier
  <2> QED  BY <1>2, <2>2, <2>3, <2>4, <2>5
<1>4. attack_var(att, x) \in 4 * N + 1 .. 4 * N + Cardinality(att)
  BY <1>2, <1>3, NAssumption
<1>5. ASSUME NEW z \in att, NEW w \in att, w \in Earlier(att, z)
      PROVE  attack_var(att, w) # attack_var(att, z)
  <2>1. \A v \in att : v[1] \in Int /\ v[2] \in Int
    BY NAssumption DEF Relations, Args
  <2>2. Earlier(att, w) \subseteq Earlier(att, z)
    BY <1>5, <2>1 DEF Earlier
  <2>3. Earlier(att, w) # Earlier(att, z) /\ IsFiniteSet(Earlier(att, z))
    BY <1>1, <1>3, <1>5, FS_Subset
  <2>4. Cardinality(Earlier(att, w)) # Cardinality(Earlier(att, z))
    BY <2>2, <2>3, FS_Subset
  <2> QED  BY <1>3, <2>4, NAssumption
<1>6. x # y => x \in Earlier(att, y) \/ y \in Earlier(att, x)
  <2>1. \A v \in att : v \in Args \X Args /\ v[1] \in Int /\ v[2] \in Int
    BY NAssumption DEF Relations, Args
  <2>2. x = <<x[1], x[2]>> /\ y = <<y[1], y[2]>>
    BY <2>1
  <2>3. x # y => x[1] # y[1] \/ x[2] # y[2]
    BY <2>2
  <2> QED  BY <2>1, <2>3 DEF Earlier
<1> QED  BY <1>2, <1>4, <1>5, <1>6

\* The clauses of Encodings::attacks define the attack variables and ask for
\* one of them.
LEMMA AttackClauses ==
    ASSUME NEW att \in Relations, NEW A
    PROVE  (\A c \in attacks(att) : Satisfies(A, c)) <=>
               /\ \E x \in att : attack_var(att, x) \in A
               /\ \A x \in att : attack_var(att, x) \in A
                                    <=> x[1] \in DecisionPart(A) /\ x[2] \in Second(A)
<1> DEFINE v(x) == attack_var(att, x)
           s(x) == accepted_var(x[1])
           t(x) == 2 * N + accepted_var(x[2])
           c0 == {v(x) : x \in att}
           D1 == {{-v(x), s(x)} : x \in att}
           D2 == {{-v(x), t(x)} : x \in att}
           D3 == {{v(x), -t(x), -s(x)} : x \in att}
<1>1. ASSUME NEW x \in att
      PROVE  /\ Holds(A, v(x)) <=> v(x) \in A
             /\ Holds(A, -v(x)) <=> v(x) \notin A
             /\ Holds(A, s(x)) <=> x[1] \in DecisionPart(A)
             /\ Holds(A, -s(x)) <=> x[1] \notin DecisionPart(A)
             /\ Holds(A, t(x)) <=> x[2] \in Second(A)
             /\ Holds(A, -t(x)) <=> x[2] \notin Second(A)
  <2>1. x[1] \in Args /\ x[2] \in Args
    BY DEF Relations
  <2>2. v(x) \in Int /\ v(x) > 0
    BY AttackVariables, NAssumption
  <2>3. Holds(A, v(x)) <=> v(x) \in A
    BY <2>2, Literals
  <2>4. Holds(A, -v(x)) <=> v(x) \notin A
    BY <2>2, Literals
  <2>5. /\ Holds(A, s(x)) <=> x[1] \in DecisionPart(A)
        /\ Holds(A, -s(x)) <=> x[1] \notin DecisionPart(A)
    BY <2>1, ArgumentLiterals, DecisionPartType DEF Acc
  <2>6. 2 * N \in Nat
    BY NAssumption
  <2>7. /\ Holds(A, t(x)) <=> x[2] \in Second(A)
        /\ Holds(A, -t(x)) <=> x[2] \notin Second(A)
    BY <2>1, <2>6, ShiftedLiterals DEF AccAt, Second
  <2> QED  BY <2>3, <2>4, <2>5, <2>7
<1>2. attacks(att) = {c0} \cup D1 \cup D2 \cup D3
  BY DEF attacks
<1> HIDE DEF v, s, t
<1>3. Satisfies(A, c0) <=> \E x \in att : v(x) \in A
  BY <1>1 DEF Satisfies
<1>4. (\A c \in D1 : Satisfies(A, c)) <=> \A x \in att : v(x) \in A => x[1] \in DecisionPart(A)
  <2>1. \A x \in att : Satisfies(A, {-v(x), s(x)}) <=> (v(x) \in A => x[1] \in DecisionPart(A))
    BY <1>1, Clause2
  <2> QED  BY <2>1
<1>5. (\A c \in D2 : Satisfies(A, c)) <=> \A x \in att : v(x) \in A => x[2] \in Second(A)
  <2>1. \A x \in att : Satisfies(A, {-v(x), t(x)}) <=> (v(x) \in A => x[2] \in Second(A))
    BY <1>1, Clause2
  <2> QED  BY <2>1
<1>6. (\A c \in D3 : Satisfies(A, c))
        <=> \A x \in att : x[1] \in DecisionPart(A) /\ x[2] \in Second(A) => v(x) \in A
  <2>1. \A x \in att : Satisfies(A, {v(x), -t(x), -s(x)})
                         <=> (x[1] \in DecisionPart(A) /\ x[2] \in Second(A) => v(x) \in A)
    BY <1>1 DEF Satisfies
  <2> QED  BY <2>1
<1> HIDE DEF c0, D1, D2, D3
<1>7. (\A c \in attacks(att) : Satisfies(A, c)) <=>
        /\ Satisfies(A, c0)
        /\ \A c \in D1 : Satisfies(A, c)
        /\ \A c \in D2 : Satisfies(A, c)
        /\ \A c \in D3 : Satisfies(A, c)
  BY <1>2
<1>8. (\A c \in attacks(att) : Satisfies(A, c)) <=>
        /\ \E x \in att : v(x) \in A
        /\ \A x \in att : v(x) \in A <=> x[1] \in DecisionPart(A) /\ x[2] \in Second(A)
  BY <1>3, <1>4, <1>5, <1>6, <1>7
<1> QED  BY <1>8 DEF v

\* The solver's answers after both sets and the attacks are encoded.
LEMMA TwoSetsModels ==
    ASSUME NEW att \in Relations, NEW n, NEW A
    PROVE  A \in Models(n, TwoSets(att)) <=>
               /\ A \in SUBSET (1 .. n)
               /\ \A i \in Args : AdmissibleAt(att, A, 0, i)
               /\ \A i \in Args : AdmissibleAt(att, A, 2 * N, i)
               /\ \E x \in att : attack_var(att, x) \in A
               /\ \A x \in att : attack_var(att, x) \in A
                                    <=> x[1] \in DecisionPart(A) /\ x[2] \in Second(A)
<1>1. (\A c \in TwoSets(att) : Satisfies(A, c)) <=>
        /\ \A c \in admissible(att, FALSE) : Satisfies(A, c)
        /\ \A c \in admissible(att, TRUE) : Satisfies(A, c)
        /\ \A c \in attacks(att) : Satisfies(A, c)
  BY DEF TwoSets
<1>2. /\ (\A c \in admissible(att, FALSE) : Satisfies(A, c))
            <=> \A i \in Args : AdmissibleAt(att, A, 0, i)
      /\ (\A c \in admissible(att, TRUE) : Satisfies(A, c))
            <=> \A i \in Args : AdmissibleAt(att, A, 2 * N, i)
  BY AdmissibleSet
<1>3. A \in Models(n, TwoSets(att))
        <=> A \in SUBSET (1 .. n) /\ \A c \in TwoSets(att) : Satisfies(A, c)
  BY DEF Models
<1> QED  BY <1>1, <1>2, <1>3, AttackClauses

\* An answer stands for two admissible sets, the first attacking the second.
LEMMA TwoSetsReports ==
    ASSUME NEW att \in Relations, NEW n, NEW A \in Models(n, TwoSets(att))
    PROVE  /\ Admissible(att, DecisionPart(A)) /\ Unattacked(att) \subseteq DecisionPart(A)
           /\ Admissible(att, Second(A)) /\ Unattacked(att) \subseteq Second(A)
           /\ Attacks(att, DecisionPart(A), Second(A))
<1>1. \A i \in Args : i \in DecisionPart(A) <=> AccAt(A, 0, i)
  <2>1. \A i \in Args : AccAt(A, 0, i) <=> Acc(A, i)
    BY Variables DEF AccAt, Acc
  <2> QED  BY <2>1, DecisionPartType
<1>2. DecisionPart(A) \in SUBSET Args /\ Second(A) \in SUBSET Args
  BY DecisionPartType DEF Second
<1>3. \A i \in Args : i \in Second(A) <=> AccAt(A, 2 * N, i)
  BY DEF Second, AccAt
<1>4. /\ \A i \in Args : AdmissibleAt(att, A, 0, i)
      /\ \A i \in Args : AdmissibleAt(att, A, 2 * N, i)
  BY TwoSetsModels
<1>5. PICK x \in att : x[1] \in DecisionPart(A) /\ x[2] \in Second(A)
  BY TwoSetsModels
<1>6. x = <<x[1], x[2]>>
  BY DEF Relations
<1>7. Attacks(att, DecisionPart(A), Second(A))
  BY <1>5, <1>6 DEF Attacks
<1> QED  BY <1>1, <1>2, <1>3, <1>4, <1>7, AdmissibleAccepted

\* Every such pair is reported: the variables of the two sets and those of the
\* attacks do not collide.
LEMMA TwoSetsReported ==
    ASSUME NEW att \in Relations, NEW S, NEW T,
           Admissible(att, S), Unattacked(att) \subseteq S,
           Admissible(att, T), Unattacked(att) \subseteq T, Attacks(att, S, T)
    PROVE  \E A \in Models(4 * N + Cardinality(att), TwoSets(att)) :
              DecisionPart(A) = S /\ Second(A) = T
<1> DEFINE n == 4 * N + Cardinality(att)
           B == ModelOf(att, S)
           C == {2 * N + w : w \in ModelOf(att, T)}
           V == {attack_var(att, x) : x \in {y \in att : y[1] \in S /\ y[2] \in T}}
           A == B \cup C \cup V
<1>1. S \in SUBSET Args /\ T \in SUBSET Args
  BY DEF Admissible
<1>2. PICK x \in att : x[1] \in S /\ x[2] \in T
  BY DEF Attacks
<1>3. Cardinality(att) \in Nat
  BY <1>2, AttackVariables
<1>4. /\ B \in SUBSET (1 .. 2 * N)
      /\ \A i \in Args : /\ accepted_var(i) \in B <=> i \in S
                         /\ rejected_var(i) \in B <=> i \in Attacked(att, S)
  BY <1>1, ModelOfVariables DEF Acc, Rej, count
<1>5. PICK E : /\ E = ModelOf(att, T) /\ E \in SUBSET (1 .. 2 * N)
               /\ \A i \in Args : /\ accepted_var(i) \in E <=> i \in T
                                  /\ rejected_var(i) \in E <=> i \in Attacked(att, T)
  BY <1>1, ModelOfVariables DEF Acc, Rej, count
<1>6. /\ C \in SUBSET (2 * N + 1 .. 4 * N)
      /\ \A w \in 1 .. 2 * N : 2 * N + w \in C <=> w \in E
  <2>1. C = {2 * N + w : w \in E}
    BY <1>5
  <2>2. \A w \in 1 .. 2 * N : 2 * N + w \in 2 * N + 1 .. 4 * N
    BY NAssumption
  <2>3. \A w, u \in 1 .. 2 * N : 2 * N + w = 2 * N + u => w = u
    BY NAssumption
  <2> HIDE DEF C
  <2> QED  BY <1>5, <2>1, <2>2, <2>3
<1>7. /\ V \in SUBSET (4 * N + 1 .. n)
      /\ \A y \in att : attack_var(att, y) \in V <=> y[1] \in S /\ y[2] \in T
  BY AttackVariables
<1> HIDE DEF B, C, V
<1>8. \A i \in Args : accepted_var(i) \in 1 .. 2 * N /\ rejected_var(i) \in 1 .. 2 * N
  BY Variables DEF count
<1>9. \A w \in 1 .. 2 * N : /\ w \in A <=> w \in B
                            /\ 2 * N + w \in A <=> w \in E
  <2>1. \A w \in 1 .. 2 * N : /\ w \notin 2 * N + 1 .. 4 * N /\ w \notin 4 * N + 1 .. n
                              /\ 2 * N + w \notin 1 .. 2 * N /\ 2 * N + w \notin 4 * N + 1 .. n
    BY NAssumption, <1>3
  <2> HIDE DEF n
  <2> QED  BY <1>4, <1>6, <1>7, <2>1
<1>10. \A y \in att : attack_var(att, y) \in A <=> attack_var(att, y) \in V
  <2>1. \A y \in att : attack_var(att, y) \in 4 * N + 1 .. n
    BY AttackVariables
  <2>2. \A w \in 4 * N + 1 .. n : w \notin 1 .. 2 * N /\ w \notin 2 * N + 1 .. 4 * N
    BY NAssumption, <1>3
  <2> HIDE DEF n
  <2> QED  BY <1>4, <1>6, <2>1, <2>2
<1>11. A \in SUBSET (1 .. n)
  <2>1. /\ 1 .. 2 * N \subseteq 1 .. n /\ 2 * N + 1 .. 4 * N \subseteq 1 .. n
        /\ 4 * N + 1 .. n \subseteq 1 .. n
    BY NAssumption, <1>3
  <2> HIDE DEF n
  <2> QED  BY <1>4, <1>6, <1>7, <2>1
<1> HIDE DEF A, n
<1>12. \A i \in Args : /\ AccAt(A, 0, i) <=> i \in S
                       /\ RejAt(A, 0, i) <=> i \in Attacked(att, S)
  <2>1. \A i \in Args : 0 + accepted_var(i) = accepted_var(i) /\ 0 + rejected_var(i) = rejected_var(i)
    BY Variables
  <2> QED  BY <1>4, <1>8, <1>9, <2>1 DEF AccAt, RejAt
<1>13. \A i \in Args : /\ AccAt(A, 2 * N, i) <=> i \in T
                       /\ RejAt(A, 2 * N, i) <=> i \in Attacked(att, T)
  BY <1>5, <1>8, <1>9 DEF AccAt, RejAt
<1>14. DecisionPart(A) = S
  <2>1. \A i \in Args : i \in DecisionPart(A) <=> i \in S
    BY <1>4, <1>8, <1>9, DecisionPartType DEF Acc
  <2> QED  BY <1>1, <2>1, DecisionPartType
<1>15. Second(A) = T
  BY <1>1, <1>13 DEF Second, AccAt
<1>16. /\ \A i \in Args : AdmissibleAt(att, A, 0, i)
       /\ \A i \in Args : AdmissibleAt(att, A, 2 * N, i)
  BY <1>12, <1>13, AdmissibleSatisfied
<1>17. /\ attack_var(att, x) \in A
       /\ \A y \in att : attack_var(att, y) \in A
                           <=> y[1] \in DecisionPart(A) /\ y[2] \in Second(A)
  BY <1>2, <1>7, <1>10, <1>14, <1>15
<1>18. A \in Models(n, TwoSets(att))
  BY <1>11, <1>16, <1>17, TwoSetsModels
<1> QED  BY <1>14, <1>15, <1>18 DEF n

-----------------------------------------------------------------------------
(***************************************************************************)
(* The solver's operations and its type.                                   *)
(***************************************************************************)

\* A new solver over at most n variables.
LEMMA NewSolverType ==
    ASSUME NEW n \in Nat, NEW m \in 0 .. n, NEW cnf
    PROVE  NewSolver(m, cnf) \in Solvers(n)
<1>1. 1 .. m \subseteq 1 .. n
  OBVIOUS
<1>2. Models(m, cnf) \in SUBSET SUBSET (1 .. n)
  BY <1>1 DEF Models
<1> QED  BY <1>2 DEF NewSolver, Solvers

\* add_clause, assume and solve keep a solver's type.
LEMMA SolverTypes ==
    ASSUME NEW n \in Nat, NEW s \in Solvers(n)
    PROVE  /\ \A c : add_clause(s, c) \in Solvers(n)
           /\ \A lits \in SUBSET Int : assume(s, lits) \in Solvers(n)
           /\ \A A : AfterSat(s, A) \in Solvers(n)
           /\ AfterUnsat(s) \in Solvers(n)
  BY DecisionPartType DEF Solvers, add_clause, assume, AfterSat, AfterUnsat

\* What each operation does to the parts of a solver.
LEMMA SolverFields ==
    ASSUME NEW n \in Nat, NEW s \in Solvers(n)
    PROVE  /\ \A c : /\ add_clause(s, c).models = {A \in s.models : Satisfies(A, c)}
                     /\ add_clause(s, c).assumptions = s.assumptions
                     /\ add_clause(s, c).model = s.model
           /\ \A A : /\ AfterSat(s, A).models = s.models
                     /\ AfterSat(s, A).assumptions = {}
                     /\ AfterSat(s, A).model = DecisionPart(A)
           /\ AfterUnsat(s).models = s.models
           /\ AfterUnsat(s).assumptions = {}
  BY DEF Solvers, add_clause, AfterSat, AfterUnsat

\* A round of a loop: an answer is read, and a clause added.
LEMMA RoundFields ==
    ASSUME NEW n \in Nat, NEW s \in Solvers(n), NEW A, NEW c,
           NEW r, r = add_clause(AfterSat(s, A), c)
    PROVE  /\ r.models = {B \in s.models : Satisfies(B, c)}
           /\ r.assumptions = {}
           /\ r.model = DecisionPart(A)
<1> DEFINE t == AfterSat(s, A)
<1>1. t \in Solvers(n)
  BY SolverTypes
<1>2. t.models = s.models /\ t.assumptions = {} /\ t.model = DecisionPart(A)
  BY SolverFields
<1> HIDE DEF t
<1>3. /\ add_clause(t, c).models = {B \in t.models : Satisfies(B, c)}
      /\ add_clause(t, c).assumptions = t.assumptions
      /\ add_clause(t, c).model = t.model
  BY <1>1, SolverFields
<1> QED  BY <1>2, <1>3 DEF t

\* assume() only adds to the assumptions.
LEMMA AssumeFields ==
    ASSUME NEW n, NEW s \in Solvers(n), s.assumptions = {}, NEW lits \in SUBSET Int
    PROVE  /\ assume(s, lits) \in Solvers(n)
           /\ assume(s, lits).models = s.models
           /\ assume(s, lits).assumptions = lits
           /\ assume(s, lits).model = s.model
           /\ Answers(assume(s, lits)) = {A \in s.models : \A l \in lits : Holds(A, l)}
<1>1. assume(s, lits) = [models |-> s.models, assumptions |-> lits, model |-> s.model]
  BY DEF Solvers, assume
<1> QED  BY <1>1 DEF Solvers, Answers

\* Without assumptions solve() may answer with any model, and only with one.
LEMMA UnassumedAnswers ==
    ASSUME NEW s, s.assumptions = {}
    PROVE  Answers(s) = s.models
  BY DEF Answers

\* Adding a clause to a solver s.
LEMMA ClauseFields ==
    ASSUME NEW n \in Nat, NEW s \in Solvers(n), NEW c, NEW r, r = add_clause(s, c)
    PROVE  /\ r \in Solvers(n)
           /\ r.models = {B \in s.models : Satisfies(B, c)}
           /\ r.assumptions = s.assumptions
           /\ r.model = s.model
  BY SolverTypes, SolverFields

-----------------------------------------------------------------------------
(***************************************************************************)
(* What ExternalSatSolver.cpp hands over.                                  *)
(***************************************************************************)

\* The entries 0 .. m-1 of accepted arguments are set, each by the literal of
\* its variable; an old entry is left where the literal that clears it has not
\* come.
ClosedForm(model, A, m) ==
    {i \in Args : i + 1 \in A /\ i + 1 <= m}
    \cup {i \in model : \A k \in 1 .. m : k \in A \/ k + 1 # i}

\* One more literal of the answer changes what ClosedForm holds as one turn of
\* the loop does: a positive one sets its entry, and the entry a negative one
\* clears has not been set by an earlier literal.
LEMMA ReadStep ==
    ASSUME NEW model \in SUBSET Args, NEW A, NEW k \in 0 .. N
    PROVE  /\ k = 0 => ClosedForm(model, A, k) = model
           /\ k # 0 => ClosedForm(model, A, k)
                          = ReadLiteral(ClosedForm(model, A, k - 1), k, k \in A)
<1>1. CASE k = 0
  BY <1>1, NAssumption DEF ClosedForm, Args
<1>2. CASE k # 0
  <2>1. /\ k \in Nat /\ k - 1 \in Nat
        /\ k \in 1 .. k /\ \A j : j \in 1 .. k <=> j \in 1 .. k - 1 \/ j = k
        /\ \A i \in Args : i \in Nat /\ (i + 1 <= k <=> i + 1 <= k - 1 \/ i = k - 1)
        /\ k - 1 \in Args
    BY <1>2, NAssumption DEF Args
  <2>2. CASE k \in A
    <3>1. {i \in Args : i + 1 \in A /\ i + 1 <= k}
            = {i \in Args : i + 1 \in A /\ i + 1 <= k - 1} \cup {k - 1}
      BY <2>1, <2>2
    <3>2. {i \in model : \A j \in 1 .. k : j \in A \/ j + 1 # i}
            = {i \in model : \A j \in 1 .. k - 1 : j \in A \/ j + 1 # i}
      BY <2>1, <2>2
    <3> QED  BY <1>2, <2>2, <3>1, <3>2 DEF ClosedForm, ReadLiteral
  <2>3. CASE k \notin A
    <3>1. {i \in Args : i + 1 \in A /\ i + 1 <= k}
            = {i \in Args : i + 1 \in A /\ i + 1 <= k - 1} \ {k + 1}
      BY <2>1, <2>3
    <3>2. {i \in model : \A j \in 1 .. k : j \in A \/ j + 1 # i}
            = {i \in model : \A j \in 1 .. k - 1 : j \in A \/ j + 1 # i} \ {k + 1}
      BY <2>1, <2>3
    <3> QED  BY <1>2, <2>3, <3>1, <3>2 DEF ClosedForm, ReadLiteral
  <2> QED  BY <2>2, <2>3
<1> QED  BY <1>1, <1>2

\* By induction on the number of literals, this is what the loop leaves.
\* ReadModel is a recursive function, so any function that satisfies its
\* equation equals it: a least literal at which two of them differ has a
\* predecessor at which they differ.
LEMMA ReadModelClosed ==
    ASSUME NEW model \in SUBSET Args, NEW A
    PROVE  \A m \in 0 .. N : ReadModel(model, A, m) = ClosedForm(model, A, m)
<1> DEFINE C == [k \in 0 .. N |-> ClosedForm(model, A, k)]
           Step(f) == [k \in 0 .. N |-> IF k = 0 THEN model
                                        ELSE ReadLiteral(f[k - 1], k, k \in A)]
           L == CHOOSE read : read = Step(read)
<1>1. C = Step(C)
  <2>1. ASSUME NEW k \in 0 .. N
        PROVE  C[k] = IF k = 0 THEN model ELSE ReadLiteral(C[k - 1], k, k \in A)
    <3>1. k # 0 => k - 1 \in 0 .. N
      BY NAssumption
    <3> QED  BY <3>1, ReadStep
  <2> QED  BY <2>1
<1>2. \A m : ReadModel(model, A, m) = L[m]
  BY DEF ReadModel
<1> HIDE DEF C
<1>3. L = Step(L)
  <2> HIDE DEF Step
  <2> QED  BY <1>1
<1>4. ASSUME NEW k \in 0 .. N
      PROVE  /\ k = 0 => L[k] = C[k]
             /\ k # 0 => k - 1 \in 0 .. N /\ (L[k - 1] = C[k - 1] => L[k] = C[k])
  <2> HIDE DEF L
  <2> QED BY <1>1, <1>3, NAssumption
<1> HIDE DEF L
<1> DEFINE Bad == {k \in 0 .. N : L[k] # C[k]}
<1>5. Bad = {}
  <2> SUFFICES ASSUME Bad # {} PROVE FALSE
    OBVIOUS
  <2>1. Bad \subseteq Nat
    BY NAssumption
  <2> DEFINE R == OpToRel(<, Nat)
  <2>2. PICK m \in Bad : \A y \in Bad : ~ (<<y, m>> \in R)
    <3> HIDE DEF R, Bad
    <3>1. IsWellFoundedOn(R, Nat)
      BY NatLessThanWellFounded DEF R
    <3> QED  BY <2>1, <3>1, WFMin
  <2>3. m \in Nat /\ \A y \in Bad : ~ (y < m)
    <3> HIDE DEF Bad
    <3> QED  BY <2>1, <2>2 DEF OpToRel
  <2> HIDE DEF R
  <2>4. /\ m \in 0 .. N /\ m # 0 /\ L[m] # C[m]
        /\ m - 1 \in 0 .. N /\ L[m - 1] # C[m - 1]
    BY <1>4, <2>2
  <2>5. m - 1 \in Bad /\ m - 1 < m
    BY <2>3, <2>4
  <2> QED  BY <2>3, <2>5
<1> QED  BY <1>2, <1>5 DEF C

\* What is read is in the answer or was in the vector before, and the whole
\* answer leaves no accepted argument out.
LEMMA ReadBounds ==
    ASSUME NEW model \in SUBSET Args, NEW A, NEW m \in 0 .. N
    PROVE  /\ ReadModel(model, A, m) \in SUBSET Args
           /\ ReadModel(model, A, m) \subseteq model \cup DecisionPart(A)
           /\ DecisionPart(A) \subseteq ReadModel(model, A, N)
<1>1. \A i \in Args : i + 1 <= N
  BY NAssumption DEF Args
<1>2. /\ N \in 0 .. N
      /\ ReadModel(model, A, m) = ClosedForm(model, A, m)
      /\ ReadModel(model, A, N) = ClosedForm(model, A, N)
  BY NAssumption, ReadModelClosed
<1> QED  BY <1>1, <1>2 DEF ClosedForm, DecisionPart

\* What an answer of the process, or its silence, does to the parts of a
\* solver.
LEMMA OutputFields ==
    ASSUME NEW n \in Nat, NEW s \in Solvers(n), NEW A, NEW m \in 0 .. N,
           NEW r \in {AfterOutput(s, A, m), AfterSilence(s)}
    PROVE  /\ r \in Solvers(n)
           /\ r.models = s.models
           /\ r.assumptions = {}
           /\ r.model \subseteq s.model \cup DecisionPart(A)
<1>1. s.model \in SUBSET Args
  BY DEF Solvers
<1>2. /\ ReadModel(s.model, A, m) \in SUBSET Args
      /\ ReadModel(s.model, A, m) \subseteq s.model \cup DecisionPart(A)
  BY <1>1, ReadBounds
<1>3. CASE r = AfterOutput(s, A, m)
  BY <1>2, <1>3 DEF AfterOutput, Solvers
<1>4. CASE r = AfterSilence(s)
  BY <1>4 DEF AfterSilence, Solvers
<1> QED  BY <1>3, <1>4

\* A complete answer leaves no accepted argument out of the model vector.
LEMMA WholeAnswer ==
    ASSUME NEW n \in Nat, NEW s \in Solvers(n), NEW A
    PROVE  DecisionPart(A) \subseteq AfterOutput(s, A, N).model
<1>1. s.model \in SUBSET Args
  BY DEF Solvers
<1>2. AfterOutput(s, A, N).model = ReadModel(s.model, A, N)
  BY DEF AfterOutput, Solvers
<1> QED  BY <1>1, <1>2, ReadBounds, NAssumption

-----------------------------------------------------------------------------
(***************************************************************************)
(* The models of the encodings stand for the extensions of the problem,    *)
(* and the clauses the loops add speak of these extensions.                *)
(***************************************************************************)

\* Credulous acceptance is membership in a reported extension; under PR too,
\* although the solver is given the complete extensions.
LEMMA CredulousModels ==
    ASSUME NEW att \in Relations, NEW sem \in {"CO", "PR", "ST"}, NEW i \in Args
    PROVE  i \in Acceptable(att, "EC", sem)
              <=> \E A \in Models(count, IF sem = "ST" THEN stable(att) ELSE complete(att)) :
                     i \in DecisionPart(A)
<1>1. CASE sem = "ST"
  <2>1. i \in Acceptable(att, "EC", sem) <=> \E S \in SUBSET Args : Stable(att, S) /\ i \in S
    BY <1>1 DEF Acceptable, Credulous, Extensions, IsExtension
  <2>2. ASSUME NEW S \in SUBSET Args, Stable(att, S), i \in S
        PROVE  \E A \in Models(count, stable(att)) : i \in DecisionPart(A)
    BY <2>2, StableReported, ModelOfVariables
  <2>3. ASSUME NEW A \in Models(count, stable(att)), i \in DecisionPart(A)
        PROVE  \E S \in SUBSET Args : Stable(att, S) /\ i \in S
    BY <2>3, StableReports, DecisionPartType
  <2> QED  BY <1>1, <2>1, <2>2, <2>3
<1>2. CASE sem \in {"CO", "PR"}
  <2>1. Acceptable(att, "EC", sem) = Credulous(att, "CO")
    BY <1>2, CredulousPreferred DEF Acceptable
  <2>2. i \in Credulous(att, "CO") <=> \E S \in SUBSET Args : Complete(att, S) /\ i \in S
    BY DEF Credulous, Extensions, IsExtension
  <2>3. ASSUME NEW S \in SUBSET Args, Complete(att, S), i \in S
        PROVE  \E A \in Models(count, complete(att)) : i \in DecisionPart(A)
    BY <2>3, CompleteReported, ModelOfVariables
  <2>4. ASSUME NEW A \in Models(count, complete(att)), i \in DecisionPart(A)
        PROVE  \E S \in SUBSET Args : Complete(att, S) /\ i \in S
    BY <2>4, CompleteReports, DecisionPartType
  <2> QED  BY <1>2, <2>1, <2>2, <2>3, <2>4
<1> QED  BY <1>1, <1>2

\* Skeptical acceptance is membership in every reported extension; with no
\* stable extension, every argument is accepted.
LEMMA SkepticalModels ==
    ASSUME NEW att \in Relations, NEW i \in Args
    PROVE  i \in Acceptable(att, "ES", "ST")
              <=> \A A \in Models(count, stable(att)) : i \in DecisionPart(A)
<1>1. i \in Acceptable(att, "ES", "ST") <=> \A S \in SUBSET Args : Stable(att, S) => i \in S
  BY DEF Acceptable, Skeptical, Extensions, IsExtension
<1>2. ASSUME NEW S \in SUBSET Args, Stable(att, S),
             \A A \in Models(count, stable(att)) : i \in DecisionPart(A)
      PROVE  i \in S
  BY <1>2, StableReported, ModelOfVariables
<1>3. ASSUME NEW A \in Models(count, stable(att)),
             \A S \in SUBSET Args : Stable(att, S) => i \in S
      PROVE  i \in DecisionPart(A)
  BY <1>3, StableReports, DecisionPartType
<1> QED  BY <1>1, <1>2, <1>3

\* A clause of accepted variables holds iff one of their arguments is in the
\* extension.
LEMMA AcceptedClause ==
    ASSUME NEW A, NEW S \in SUBSET Args
    PROVE  Satisfies(A, {accepted_var(i) : i \in S}) <=> S \cap DecisionPart(A) # {}
<1>1. \A i \in S : Holds(A, accepted_var(i)) <=> i \in DecisionPart(A)
  BY ArgumentLiterals, DecisionPartType DEF Acc
<1> QED  BY <1>1 DEF Satisfies

\* A clause of the accepted variables outside S rules out the subsets of S.
LEMMA OutsideClause ==
    ASSUME NEW A, NEW S \in SUBSET Args
    PROVE  Satisfies(A, {accepted_var(i) : i \in Args \ S}) <=> ~ (DecisionPart(A) \subseteq S)
<1>1. Satisfies(A, {accepted_var(i) : i \in Args \ S}) <=> (Args \ S) \cap DecisionPart(A) # {}
  BY AcceptedClause
<1> QED  BY <1>1, DecisionPartType

\* In a model of Encodings::stable an argument is rejected iff not accepted.
LEMMA RejectedInStable ==
    ASSUME NEW att \in Relations, NEW A \in Models(count, stable(att)), NEW i \in Args
    PROVE  Holds(A, rejected_var(i)) <=> i \notin DecisionPart(A)
  BY StableReports, ArgumentLiterals DEF Rej

\* In a model of Encodings::stable a clause of rejected variables holds iff
\* one of their arguments is outside the extension.
LEMMA RejectedClause ==
    ASSUME NEW att \in Relations, NEW A \in Models(count, stable(att)), NEW S \in SUBSET Args
    PROVE  Satisfies(A, {rejected_var(i) : i \in S}) <=> ~ (S \subseteq DecisionPart(A))
<1>1. \A i \in S : Holds(A, rejected_var(i)) <=> i \notin DecisionPart(A)
  BY RejectedInStable
<1> QED  BY <1>1 DEF Satisfies

\* A clause of negated accepted variables holds iff one of their arguments is
\* outside the extension.
LEMMA RefusedClause ==
    ASSUME NEW A, NEW S \in SUBSET Args
    PROVE  Satisfies(A, {-accepted_var(i) : i \in S}) <=> ~ (S \subseteq DecisionPart(A))
<1>1. \A i \in S : Holds(A, -accepted_var(i)) <=> i \notin DecisionPart(A)
  BY ArgumentLiterals, DecisionPartType DEF Acc
<1> QED  BY <1>1 DEF Satisfies

\* The arguments assumed to be accepted are in the extension.
LEMMA AcceptedAssumptions ==
    ASSUME NEW A, NEW S \in SUBSET Args
    PROVE  /\ {accepted_var(i) : i \in S} \in SUBSET Int
           /\ (\A l \in {accepted_var(i) : i \in S} : Holds(A, l))
                 <=> S \subseteq DecisionPart(A)
<1>1. \A i \in S : Holds(A, accepted_var(i)) <=> i \in DecisionPart(A)
  BY ArgumentLiterals, DecisionPartType DEF Acc
<1>2. {accepted_var(i) : i \in S} \in SUBSET Int
  BY Variables
<1> QED  BY <1>1, <1>2
=============================================================================
