----------------------------- MODULE SEEMProofs -----------------------------
(***************************************************************************)
(* SEEM.cpp is correct for every number of arguments and every framework,  *)
(* whatever optimal models the MaxSAT solver returns: type correctness,    *)
(* that the comparison of costs decides, and the refinement of Enumeration.*)
(***************************************************************************)
EXTENDS SEEM, EncodingLemmas

(***************************************************************************)
(* The inductive invariant.                                                *)
(*                                                                         *)
(* Phase: the problem.  Solver: the solver of seem_skep still knows every  *)
(* stable extension, and its soft literals are about rejected arguments.   *)
(* Books: what has been recorded, compared with what is acceptable.        *)
(***************************************************************************)
Goal == Acceptable(att, task, sem)

Phase ==
    /\ pc = "start" => result = Nothing /\ included = {} /\ unvisited = Args
    /\ pc = "cred" => task = "EC" /\ sem \in {"CO", "PR", "ST"}
    /\ pc = "skep" => task = "ES" /\ sem = "ST"

Solver ==
    pc = "skep" => /\ solver.models = Models(count, stable(att))
                   /\ solver.assumptions = {}
                   /\ solver.soft \subseteq {-rejected_var(i) : i \in Args}

Books ==
    /\ pc = "cred" => /\ unvisited = Args \ included
                      /\ result = Listing(included)
                      /\ included \subseteq Goal
    /\ pc = "skep" => result = Nothing /\ Goal \subseteq included

IInv == TypeOK /\ Phase /\ Solver /\ Books

\* What is acceptable are arguments.
LEMMA GoalType == Goal \in SUBSET Args
  BY DEF Goal, Acceptable, Credulous, Skeptical

-----------------------------------------------------------------------------
(***************************************************************************)
(* The comparison of costs.                                                *)
(***************************************************************************)

\* There are as many soft literals as arguments they speak about.
LEMMA SoftLiterals ==
    ASSUME NEW S \in SUBSET Args
    PROVE  /\ IsFiniteSet({-accepted_var(i) : i \in S})
           /\ Cardinality({-accepted_var(i) : i \in S}) = Cardinality(S)
           /\ IsFiniteSet({-rejected_var(i) : i \in S})
           /\ Cardinality({-rejected_var(i) : i \in S}) = Cardinality(S)
<1>1. IsFiniteSet(S)
  BY FiniteArgs, FS_Subset
<1> DEFINE a == [i \in S |-> -accepted_var(i)]
           r == [i \in S |-> -rejected_var(i)]
           LA == {-accepted_var(i) : i \in S}
           LR == {-rejected_var(i) : i \in S}
<1>2. \A i, j \in S : /\ -accepted_var(i) = -accepted_var(j) => i = j
                      /\ -rejected_var(i) = -rejected_var(j) => i = j
  BY NAssumption DEF Args, accepted_var, rejected_var
<1>3. a \in Bijection(S, LA)
  BY <1>2 DEF Bijection, Injection, Surjection, IsInjective
<1>4. r \in Bijection(S, LR)
  BY <1>2 DEF Bijection, Injection, Surjection, IsInjective
<1>5. ExistsBijection(S, LA) /\ ExistsBijection(S, LR)
  BY <1>3, <1>4 DEF ExistsBijection
<1> HIDE DEF a, r, LA, LR
<1>6. /\ IsFiniteSet(LA) /\ Cardinality(LA) = Cardinality(S)
      /\ IsFiniteSet(LR) /\ Cardinality(LR) = Cardinality(S)
  BY <1>1, <1>5, FS_Bijection
<1> QED  BY <1>6 DEF LA, LR

\* A cost is at most the number of soft literals, and equal to it iff all of
\* them hold.
LEMMA CostBound ==
    ASSUME NEW s, IsFiniteSet(s.soft), NEW A
    PROVE  /\ Cost(s, A) \in Nat /\ Cardinality(s.soft) \in Nat
           /\ Cost(s, A) >= Cardinality(s.soft) <=> \A l \in s.soft : Holds(A, l)
<1> DEFINE T == {l \in s.soft : Holds(A, l)}
<1>1. T \in SUBSET s.soft
  OBVIOUS
<1>2. T = s.soft <=> \A l \in s.soft : Holds(A, l)
  OBVIOUS
<1>3. Cost(s, A) = Cardinality(T)
  BY DEF Cost
<1> HIDE DEF T
<1>4. /\ IsFiniteSet(T) /\ Cardinality(T) <= Cardinality(s.soft)
      /\ Cardinality(s.soft) = Cardinality(T) => s.soft = T
  BY <1>1, FS_Subset
<1>5. Cardinality(T) \in Nat /\ Cardinality(s.soft) \in Nat
  BY <1>4, FS_CardinalityType
<1> QED  BY <1>2, <1>3, <1>4, <1>5

\* If there is an answer, there is one of least cost.
LEMMA OptimalExists ==
    ASSUME NEW s, IsFiniteSet(s.soft), NEW A \in Answers(s)
    PROVE  \E B \in Optimal(s) : Cost(s, B) <= Cost(s, A)
<1> DEFINE R == OpToRel(<, Nat)
           C == {Cost(s, B) : B \in Answers(s)}
<1>1. \A B \in Answers(s) : Cost(s, B) \in Nat
  BY CostBound
<1>2. C \subseteq Nat /\ C # {}
  BY <1>1
<1>3. PICK x \in C : \A y \in C : ~ (<<y, x>> \in R)
  <2> HIDE DEF R, C
  <2>1. IsWellFoundedOn(R, Nat)
    BY NatLessThanWellFounded DEF R
  <2> QED  BY <1>2, <2>1, WFMin
<1>4. \A y \in C : ~ (y < x)
  <2> HIDE DEF C
  <2> QED  BY <1>2, <1>3 DEF OpToRel
<1>5. PICK B \in Answers(s) : x = Cost(s, B)
  BY <1>3
<1>6. \A D \in Answers(s) : Cost(s, B) <= Cost(s, D)
  BY <1>1, <1>4, <1>5
<1> QED  BY <1>6 DEF Optimal

\* The test that ends the loops succeeds iff every answer makes all the soft
\* literals true.
LEMMA ExhaustedDecides ==
    ASSUME NEW s, IsFiniteSet(s.soft)
    PROVE  Exhausted(s, Cardinality(s.soft)) <=> \A A \in Answers(s) : \A l \in s.soft : Holds(A, l)
<1>1. ASSUME NEW A \in Optimal(s) PROVE A \in Answers(s)
  BY DEF Optimal
<1>2. \A A : /\ Cost(s, A) \in Nat /\ Cardinality(s.soft) \in Nat
             /\ Cost(s, A) >= Cardinality(s.soft) <=> \A l \in s.soft : Holds(A, l)
  BY CostBound
<1>3. ASSUME Exhausted(s, Cardinality(s.soft)), NEW A \in Answers(s)
      PROVE  Cost(s, A) >= Cardinality(s.soft)
  <2>1. PICK B \in Optimal(s) : Cost(s, B) <= Cost(s, A)
    BY OptimalExists
  <2>2. Cost(s, B) >= Cardinality(s.soft)
    BY <1>3 DEF Exhausted
  <2> QED  BY <1>2, <2>1, <2>2
<1>4. ASSUME \A A \in Answers(s) : Cost(s, A) >= Cardinality(s.soft)
      PROVE  Exhausted(s, Cardinality(s.soft))
  BY <1>1, <1>4 DEF Exhausted
<1> QED  BY <1>2, <1>3, <1>4

\* The solver seem_cred builds in a round.
LEMMA CredFields ==
    /\ CredSolver.soft = {-accepted_var(i) : i \in unvisited}
    /\ Answers(CredSolver) = Models(count, IF sem = "ST" THEN stable(att) ELSE complete(att))
  BY DEF CredSolver, add_soft_constraint, NewMaxSolver, Answers

\* seem_cred stops iff no extension has an unvisited argument.
LEMMA CredDecides ==
    ASSUME IInv, pc = "cred"
    PROVE  Exhausted(CredSolver, Cardinality(unvisited)) <=> Goal \subseteq included
<1> DEFINE soft == {-accepted_var(i) : i \in unvisited}
           M == Models(count, IF sem = "ST" THEN stable(att) ELSE complete(att))
<1>1. /\ unvisited \in SUBSET Args /\ unvisited = Args \ included /\ att \in Relations
      /\ task = "EC" /\ sem \in {"CO", "PR", "ST"}
  BY DEF IInv, TypeOK, Phase, Books
<1>2. IsFiniteSet(soft) /\ Cardinality(soft) = Cardinality(unvisited)
  BY <1>1, SoftLiterals
<1>3. CredSolver.soft = soft /\ Answers(CredSolver) = M
  BY CredFields
<1>4. \A A : (\A l \in soft : Holds(A, l)) <=> \A i \in unvisited : i \notin DecisionPart(A)
  <2>1. \A A : \A i \in unvisited : Holds(A, -accepted_var(i)) <=> i \notin DecisionPart(A)
    BY <1>1, ArgumentLiterals, DecisionPartType DEF Acc
  <2> QED  BY <2>1
<1>5. \A i \in Args : i \in Goal <=> \E A \in M : i \in DecisionPart(A)
  BY <1>1, CredulousModels DEF Goal
<1> HIDE DEF soft, M
<1>6. Exhausted(CredSolver, Cardinality(unvisited))
        <=> \A A \in M : \A l \in soft : Holds(A, l)
  BY <1>2, <1>3, ExhaustedDecides
<1> QED  BY <1>1, <1>4, <1>5, <1>6, GoalType

\* The solver of seem_skep in a round: only the soft literals of the included
\* arguments are on.
LEMMA SkepFields ==
    ASSUME IInv, pc = "skep"
    PROVE  /\ SkepSolver \in MaxSolvers(count)
           /\ SkepSolver.soft = {-rejected_var(i) : i \in included}
           /\ SkepSolver.models = solver.models
           /\ Answers(SkepSolver) = Models(count, stable(att))
<1> DEFINE On == {-rejected_var(i) : i \in included}
           Off == {-rejected_var(i) : i \in Args \ included}
           All == {-rejected_var(i) : i \in Args}
<1>1. /\ solver \in MaxSolvers(count) /\ included \in SUBSET Args
      /\ solver.models = Models(count, stable(att)) /\ solver.assumptions = {}
      /\ solver.soft \subseteq All
  BY DEF IInv, TypeOK, Solver
<1>2. \A i, j \in Args : -rejected_var(i) = -rejected_var(j) => i = j
  BY NAssumption DEF Args, rejected_var
<1>3. All = On \cup Off /\ On \cap Off = {}
  BY <1>1, <1>2
<1>4. All \subseteq Int
  BY NAssumption DEF Args, rejected_var
<1>5. SkepSolver = disable_soft_constraint(add_soft_constraint(solver, On), Off)
  BY DEF SkepSolver
<1> HIDE DEF On, Off, All
<1>6. SkepSolver = [models |-> solver.models, assumptions |-> {}, model |-> solver.model,
                    soft |-> (solver.soft \cup On) \ Off]
  BY <1>1, <1>5 DEF disable_soft_constraint, add_soft_constraint, MaxSolvers
<1>7. (solver.soft \cup On) \ Off = On
  BY <1>1, <1>3
<1>8. On \in SUBSET Int
  BY <1>3, <1>4
<1>9. /\ SkepSolver.soft = On /\ SkepSolver.models = solver.models
      /\ Answers(SkepSolver) = Models(count, stable(att))
  BY <1>1, <1>6, <1>7 DEF Answers
<1>10. SkepSolver \in MaxSolvers(count)
  BY <1>1, <1>6, <1>7, <1>8 DEF MaxSolvers
<1> QED  BY <1>9, <1>10 DEF On

\* seem_skep stops iff every stable extension has all included arguments.
LEMMA SkepDecides ==
    ASSUME IInv, pc = "skep"
    PROVE  Exhausted(SkepSolver, Cardinality(included)) <=> included \subseteq Goal
<1> DEFINE soft == {-rejected_var(i) : i \in included}
           M == Models(count, stable(att))
<1>1. /\ included \in SUBSET Args /\ att \in Relations /\ task = "ES" /\ sem = "ST"
  BY DEF IInv, TypeOK, Phase
<1>2. IsFiniteSet(soft) /\ Cardinality(soft) = Cardinality(included)
  BY <1>1, SoftLiterals
<1>3. SkepSolver.soft = soft /\ Answers(SkepSolver) = M
  BY SkepFields
<1>4. \A A \in M : (\A l \in soft : Holds(A, l)) <=> included \subseteq DecisionPart(A)
  <2>1. \A A \in M : \A i \in included : Holds(A, -rejected_var(i)) <=> i \in DecisionPart(A)
    BY <1>1, RejectedInStable, ArgumentLiterals
  <2> QED  BY <2>1
<1>5. \A i \in Args : i \in Goal <=> \A A \in M : i \in DecisionPart(A)
  BY <1>1, SkepticalModels DEF Goal
<1> HIDE DEF soft, M
<1>6. Exhausted(SkepSolver, Cardinality(included))
        <=> \A A \in M : \A l \in soft : Holds(A, l)
  BY <1>2, <1>3, ExhaustedDecides
<1> QED  BY <1>1, <1>4, <1>5, <1>6

-----------------------------------------------------------------------------
(***************************************************************************)
(* The refinement.  Enumeration has its own copies of the definitions of   *)
(* Argumentation; they mean the same.                                      *)
(***************************************************************************)

\* The goal of the abstract specification is the one of this module.
LEMMA EnumGoal == Enum!Goal = Goal
  BY DEF Enum!Goal, Enum!Acceptable, Enum!Credulous, Enum!Skeptical,
         Enum!Extensions, Enum!IsExtension, Enum!Complete, Enum!Preferred,
         Enum!Stable, Enum!Admissible, Enum!ConflictFree, Enum!Defends, Enum!Args,
         Goal, Acceptable, Credulous, Skeptical, Extensions, IsExtension,
         Complete, Preferred, Stable, Admissible, ConflictFree, Defends, Args

\* The lists of the abstract specification are the ones of this module.
LEMMA EnumLists ==
    /\ Enum!Nothing = Nothing
    /\ \A S : Enum!Listing(S) = Listing(S)
    /\ \A r, S : Enum!Push(r, S) = Push(r, S)
    /\ Enum!Args = Args
  BY DEF Enum!Nothing, Enum!Listing, Enum!Push, Enum!Args, Nothing, Listing, Push, Args

\* SEEM.cpp starts where Enumeration does.
LEMMA EnumInit == Init => Enum!Init
<1> SUFFICES ASSUME Init PROVE Enum!Init
  OBVIOUS
<1>1. Enum!Relations = Relations /\ Enum!Tasks = Tasks /\ Enum!Semantics = Semantics
  BY DEF Enum!Relations, Enum!Tasks, Enum!Semantics, Enum!Args, Relations, Tasks,
         Semantics, Args
<1> QED  BY <1>1, EnumLists, FrameworksAssumption DEF Init, Enum!Init, Over

\* A loop that has recorded the goal ends as Enumeration does.
LEMMA EnumFinish ==
    ASSUME IInv, pc \in {"cred", "skep"}, pc' = "done", UNCHANGED <<att, task, sem>>,
           result' = Listing(Goal)
    PROVE  Enum!Next
<1>1. Enum!Supported
  BY DEF Enum!Supported, Problems, IInv, Phase
<1>2. Enum!Finish
  BY <1>1, EnumGoal, EnumLists DEF Enum!Finish, Over
<1> QED  BY <1>2 DEF Enum!Next

-----------------------------------------------------------------------------

\* Both functions start with nothing recorded, or everything.
LEMMA StartInv == IInv /\ (CredStart \/ SkepStart) => IInv' /\ [Enum!Next]_Enum!vars
<1> SUFFICES ASSUME IInv, CredStart \/ SkepStart PROVE IInv' /\ [Enum!Next]_Enum!vars
  OBVIOUS
<1>1. /\ pc = "start" /\ att' = att /\ task' = task /\ sem' = sem /\ result' = result
      /\ unvisited' = unvisited /\ result = Nothing /\ included = {} /\ unvisited = Args
      /\ Goal' = Goal /\ Goal \in SUBSET Args
  BY GoalType DEF CredStart, SkepStart, IInv, Phase, Goal
<1>2. UNCHANGED Enum!vars
  BY <1>1 DEF CredStart, SkepStart, Over, Enum!vars
<1>3. CASE CredStart
  <2>1. TypeOK'
    BY <1>1, <1>3 DEF CredStart, IInv, TypeOK
  <2>2. Phase' /\ Solver' /\ Books'
    BY <1>1, <1>3, NothingListed DEF CredStart, Phase, Solver, Books
  <2> QED  BY <1>2, <2>1, <2>2 DEF IInv
<1>4. CASE SkepStart
  <2>1. solver' = [models |-> Models(count, stable(att)), assumptions |-> {},
                   model |-> {}, soft |-> {}]
    BY <1>4 DEF SkepStart, NewMaxSolver
  <2>2. Models(count, stable(att)) \in SUBSET SUBSET (1 .. count)
    BY DEF Models
  <2>3. solver' \in MaxSolvers(count)
    BY <2>1, <2>2 DEF MaxSolvers
  <2>4. TypeOK'
    BY <1>1, <1>4, <2>3 DEF SkepStart, IInv, TypeOK
  <2>5. Phase' /\ Solver' /\ Books'
    BY <1>1, <1>4, <2>1 DEF SkepStart, Phase, Solver, Books
  <2> QED  BY <1>2, <2>4, <2>5 DEF IInv
<1> QED  BY <1>3, <1>4

\* A round of seem_cred lists what is new in an extension.
LEMMA CredRoundInv == IInv /\ CredRound => IInv' /\ [Enum!Next]_Enum!vars
<1> SUFFICES ASSUME IInv, CredRound PROVE IInv' /\ [Enum!Next]_Enum!vars
  OBVIOUS
<1>1. PICK A \in Optimal(CredSolver) :
        /\ result' = Push(result, DecisionPart(A) \ included)
        /\ included' = included \cup DecisionPart(A)
        /\ unvisited' = unvisited \ DecisionPart(A)
  BY DEF CredRound
<1> DEFINE S == DecisionPart(A)
           new == S \ included
<1>2. /\ pc = "cred" /\ pc' = "cred" /\ att' = att /\ task' = task /\ sem' = sem
      /\ solver' = solver /\ task = "EC" /\ sem \in {"CO", "PR", "ST"} /\ att \in Relations
      /\ included \in SUBSET Args /\ unvisited = Args \ included
      /\ result = Listing(included) /\ included \subseteq Goal
  BY DEF CredRound, IInv, TypeOK, Phase, Books
<1>3. Goal' = Goal
  BY <1>2 DEF Goal
<1>4. A \in Models(count, IF sem = "ST" THEN stable(att) ELSE complete(att))
  BY <1>1, CredFields DEF Optimal
<1>5. S \subseteq Goal /\ S \in SUBSET Args
  BY <1>2, <1>4, CredulousModels, DecisionPartType DEF Goal
<1>6. /\ result' = Push(result, new) /\ included' = included \cup S
      /\ unvisited' = Args \ included'
  BY <1>1, <1>2
<1> HIDE DEF S
<1>7. result' = Listing(included')
  <2>1. Push(Listing(included), new) = Listing(included \cup new)
    BY <1>2, <1>5, ListingGrows
  <2>2. included \cup new = included'
    BY <1>6
  <2> QED  BY <1>2, <1>6, <2>1, <2>2
<1>8. TypeOK'
  <2>1. result' \in [Args -> Nat]
    BY <1>6, PushType DEF IInv, TypeOK
  <2> QED  BY <1>2, <1>5, <1>6, <2>1 DEF IInv, TypeOK
<1>9. Phase' /\ Solver' /\ Books'
  BY <1>2, <1>3, <1>5, <1>6, <1>7 DEF Phase, Solver, Books
<1>10. Enum!Next
  <2>1. new \subseteq Goal /\ new \in SUBSET Args
    BY <1>5
  <2>2. \A i \in new : result[i] = 0
    BY <1>2, <2>1 DEF Listing
  <2>3. Enum!Supported
    BY <1>2 DEF Enum!Supported, Problems
  <2> HIDE DEF new
  <2>4. Enum!List(new)
    BY <1>2, <1>6, <2>1, <2>2, <2>3, EnumGoal, EnumLists DEF Enum!List, Over
  <2> QED  BY <2>1, <2>4, EnumLists DEF Enum!Next
<1> QED  BY <1>8, <1>9, <1>10 DEF IInv

\* seem_cred ends with every acceptable argument listed.
LEMMA CredEndInv == IInv /\ CredEnd => IInv' /\ [Enum!Next]_Enum!vars
<1> SUFFICES ASSUME IInv, CredEnd PROVE IInv' /\ [Enum!Next]_Enum!vars
  OBVIOUS
<1>1. /\ pc = "cred" /\ pc' = "done" /\ UNCHANGED <<att, task, sem, result>>
      /\ Exhausted(CredSolver, Cardinality(unvisited))
      /\ result = Listing(included) /\ included \subseteq Goal
  BY DEF CredEnd, IInv, Books
<1>2. included = Goal
  BY <1>1, CredDecides
<1>3. Enum!Next
  BY <1>1, <1>2, EnumFinish
<1>4. IInv'
  BY <1>1 DEF CredEnd, IInv, TypeOK, Phase, Solver, Books
<1> QED  BY <1>3, <1>4

\* A round of seem_skep keeps what is in the stable extension found; the
\* solver keeps its models and its soft literals stay about rejection.
LEMMA SkepRoundInv == IInv /\ SkepRound => IInv' /\ [Enum!Next]_Enum!vars
<1> SUFFICES ASSUME IInv, SkepRound PROVE IInv' /\ [Enum!Next]_Enum!vars
  OBVIOUS
<1>1. PICK A \in Optimal(SkepSolver) : /\ solver' = AfterSat(SkepSolver, A)
                                       /\ included' = included \cap DecisionPart(A)
  BY DEF SkepRound
<1>2. /\ pc = "skep" /\ pc' = "skep" /\ att' = att /\ task' = task /\ sem' = sem
      /\ unvisited' = unvisited /\ result' = result /\ result = Nothing
      /\ task = "ES" /\ sem = "ST" /\ att \in Relations
      /\ included \in SUBSET Args /\ Goal \subseteq included
      /\ solver.models = Models(count, stable(att))
  BY DEF SkepRound, IInv, TypeOK, Phase, Books, Solver
<1>3. Goal' = Goal
  BY <1>2 DEF Goal
<1>4. /\ SkepSolver \in MaxSolvers(count) /\ SkepSolver.models = solver.models
      /\ SkepSolver.soft = {-rejected_var(i) : i \in included}
      /\ A \in Models(count, stable(att))
  BY <1>1, <1>2, SkepFields DEF Optimal
<1>5. \A i \in Goal : i \in DecisionPart(A)
  BY <1>2, <1>4, SkepticalModels, GoalType DEF Goal
<1>6. /\ solver' \in MaxSolvers(count) /\ solver'.models = solver.models
      /\ solver'.assumptions = {} /\ solver'.soft = SkepSolver.soft
  BY <1>1, <1>4, DecisionPartType DEF AfterSat, MaxSolvers
<1>7. TypeOK'
  BY <1>1, <1>2, <1>6 DEF IInv, TypeOK
<1>8. solver'.soft \subseteq {-rejected_var(i) : i \in Args}
  BY <1>2, <1>4, <1>6
<1>9. Phase' /\ Solver' /\ Books'
  BY <1>1, <1>2, <1>3, <1>5, <1>6, <1>8 DEF Phase, Solver, Books
<1>10. UNCHANGED Enum!vars
  BY <1>2 DEF Over, Enum!vars
<1> QED  BY <1>7, <1>9, <1>10 DEF IInv

\* seem_skep ends with exactly the skeptically accepted arguments included.
LEMMA SkepEndInv == IInv /\ SkepEnd => IInv' /\ [Enum!Next]_Enum!vars
<1> SUFFICES ASSUME IInv, SkepEnd PROVE IInv' /\ [Enum!Next]_Enum!vars
  OBVIOUS
<1>1. /\ pc = "skep" /\ pc' = "done" /\ UNCHANGED <<att, task, sem, solver, included, unvisited>>
      /\ Exhausted(SkepSolver, Cardinality(included))
      /\ result = Nothing /\ Goal \subseteq included /\ result' = Push(result, included)
  BY DEF SkepEnd, IInv, Books
<1>2. included = Goal
  BY <1>1, SkepDecides
<1>3. Push(Listing({}), Goal) = Listing({} \cup Goal)
  BY GoalType, ListingGrows
<1>4. result' = Listing(Goal)
  BY <1>1, <1>2, <1>3, NothingListed
<1>5. Enum!Next
  BY <1>1, <1>4, EnumFinish
<1>6. result' \in [Args -> Nat]
  BY <1>1, PushType DEF IInv, TypeOK
<1>7. IInv'
  BY <1>1, <1>6 DEF IInv, TypeOK, Phase, Solver, Books
<1> QED  BY <1>5, <1>7

-----------------------------------------------------------------------------

\* Nothing has happened when seem_cred or seem_skep is called.
LEMMA InvInit == Init => IInv
<1> SUFFICES ASSUME Init PROVE IInv
  OBVIOUS
<1>1. solver = [models |-> Models(0, {}), assumptions |-> {}, model |-> {}, soft |-> {}]
  BY DEF Init, NewMaxSolver
<1>2. Models(0, {}) \in SUBSET SUBSET (1 .. count)
  <2>1. 1 .. 0 \subseteq 1 .. count
    BY CountType
  <2> QED  BY <2>1 DEF Models
<1>3. solver \in MaxSolvers(count)
  BY <1>1, <1>2 DEF MaxSolvers
<1>4. TypeOK
  BY <1>3, FrameworksAssumption DEF Init, TypeOK, Nothing
<1>5. Phase /\ Solver /\ Books
  BY DEF Init, Phase, Solver, Books
<1> QED  BY <1>4, <1>5 DEF IInv

\* Every step keeps the invariant, and is a step of Enumeration or a stutter.
LEMMA InvStep == IInv /\ [Next]_vars => IInv' /\ [Enum!Next]_Enum!vars
<1> SUFFICES ASSUME IInv, [Next]_vars PROVE IInv' /\ [Enum!Next]_Enum!vars
  OBVIOUS
<1>1. CASE Unsupported
  <2>1. ~ Enum!Supported
    BY <1>1 DEF Unsupported, Enum!Supported, Problems
  <2>2. Enum!Refuse
    BY <1>1, <2>1 DEF Unsupported, Enum!Refuse, Over
  <2>3. IInv'
    BY <1>1 DEF Unsupported, IInv, TypeOK, Phase, Solver, Books
  <2> QED  BY <2>2, <2>3 DEF Enum!Next
<1>2. CASE UNCHANGED vars
  <2>1. UNCHANGED Enum!vars
    BY <1>2 DEF vars, Over, Enum!vars
  <2>2. IInv'
    BY <1>2 DEF vars, IInv, TypeOK, Phase, Solver, Books, Goal
  <2> QED  BY <2>1, <2>2
<1>3. CASE Ended
  BY <1>2, <1>3 DEF Ended
<1> QED  BY <1>1, <1>2, <1>3, StartInv, CredRoundInv, CredEndInv, SkepRoundInv, SkepEndInv
         DEF Next

\* The inductive invariant holds in every reachable state.
THEOREM Invariant == Spec => []IInv
  BY InvInit, InvStep, PTL DEF Spec

\* SEEM.cpp keeps its variables in their types.
THEOREM TypeCorrect == Spec => []TypeOK
<1>1. IInv => TypeOK
  BY DEF IInv
<1> QED  BY <1>1, Invariant, PTL

\* In every round the comparison of the optimal cost with the number of soft
\* literals decides whether any extension can still change the answer.
THEOREM CostTestDecidesAlways == Spec => []CostTestDecides
<1>1. IInv => CostTestDecides
  <2> SUFFICES ASSUME IInv PROVE CostTestDecides
    OBVIOUS
  <2>1. pc = "cred" => (Exhausted(CredSolver, Cardinality(unvisited))
                          <=> Credulous(att, sem) \subseteq included)
    BY CredDecides DEF IInv, Phase, Goal, Acceptable
  <2>2. pc = "skep" => (Exhausted(SkepSolver, Cardinality(included))
                          <=> included \subseteq Skeptical(att, sem))
    BY SkepDecides DEF IInv, Phase, Goal, Acceptable
  <2> QED  BY <2>1, <2>2 DEF CostTestDecides
<1> QED  BY <1>1, Invariant, PTL

\* SEEM.cpp implements Enumeration: it lists exactly the acceptable arguments,
\* each once, and refuses the problems it does not list.
THEOREM Refinement == Spec => Implements
<1>1. Spec => Enum!Init /\ [][Enum!Next]_Enum!vars
  BY EnumInit, InvStep, Invariant, PTL DEF Spec
<1> QED  BY <1>1 DEF Implements, Enum!Spec

-----------------------------------------------------------------------------
(***************************************************************************)
(* Greedy.  The cost of an answer is the number of arguments its round     *)
(* leaves over, so an answer of least cost leaves over the fewest, and one *)
(* that costs less than all soft literals together leaves fewer.           *)
(***************************************************************************)

\* The cost of an answer in seem_cred is what stays unvisited.
LEMMA CredCost ==
    ASSUME unvisited \in SUBSET Args, NEW A
    PROVE  Cost(CredSolver, A) = Cardinality(unvisited \ DecisionPart(A))
<1> PICK V : V = unvisited
  OBVIOUS
<1> DEFINE soft == {-accepted_var(i) : i \in V}
           over == V \ DecisionPart(A)
<1>1. \A i \in V : Holds(A, -accepted_var(i)) <=> i \notin DecisionPart(A)
  BY ArgumentLiterals, DecisionPartType DEF Acc
<1>2. {l \in soft : Holds(A, l)} = {-accepted_var(i) : i \in over}
  BY <1>1
<1>3. Cardinality({-accepted_var(i) : i \in over}) = Cardinality(over)
  BY SoftLiterals
<1>4. CredSolver.soft = soft
  BY CredFields
<1> QED  BY <1>2, <1>3, <1>4 DEF Cost

\* The cost of an answer in seem_skep is what stays included.
LEMMA SkepCost ==
    ASSUME IInv, pc = "skep", NEW A \in Models(count, stable(att))
    PROVE  Cost(SkepSolver, A) = Cardinality(included \cap DecisionPart(A))
<1> PICK V : V = included
  OBVIOUS
<1>0. V \in SUBSET Args /\ att \in Relations
  BY DEF IInv, TypeOK
<1> DEFINE soft == {-rejected_var(i) : i \in V}
           over == V \cap DecisionPart(A)
<1>1. \A i \in V : Holds(A, -rejected_var(i)) <=> i \in DecisionPart(A)
  BY <1>0, RejectedInStable, ArgumentLiterals
<1>2. {l \in soft : Holds(A, l)} = {-rejected_var(i) : i \in over}
  BY <1>1
<1>3. Cardinality({-rejected_var(i) : i \in over}) = Cardinality(over)
  BY <1>0, SoftLiterals
<1>4. SkepSolver.soft = soft
  BY SkepFields
<1> QED  BY <1>2, <1>3, <1>4 DEF Cost

\* An optimal answer costs no more than any other, and if the test that ends
\* the loops fails it costs less than the bound.
LEMMA OptimalCost ==
    ASSUME NEW s, IsFiniteSet(s.soft), NEW A \in Optimal(s), NEW w \in Nat
    PROVE  /\ \A B \in Answers(s) : Cost(s, A) <= Cost(s, B)
           /\ ~ Exhausted(s, w) => Cost(s, A) < w
<1>1. \A B : Cost(s, B) \in Nat
  BY CostBound
<1>2. \A B \in Answers(s) : Cost(s, A) <= Cost(s, B)
  BY DEF Optimal
<1>3. ASSUME ~ Exhausted(s, w) PROVE Cost(s, A) < w
  <2>1. PICK B \in Optimal(s) : ~ (Cost(s, B) >= w)
    BY <1>3 DEF Exhausted
  <2>2. Cost(s, A) <= Cost(s, B)
    BY <1>2 DEF Optimal
  <2> QED  BY <1>1, <2>1, <2>2
<1> QED  BY <1>2, <1>3

\* An extension of the problem at hand is among the answers of seem_cred.
LEMMA CredAnswer ==
    ASSUME att \in Relations, sem \in {"CO", "PR", "ST"}, NEW E \in Extensions(att, sem)
    PROVE  \E B \in Answers(CredSolver) : DecisionPart(B) = E
<1>1. E \in SUBSET Args
  BY DEF Extensions
<1>2. DecisionPart(ModelOf(att, E)) = E
  BY <1>1, ModelOfVariables, DecisionPartType
<1>3. CASE sem = "ST"
  <2>1. ModelOf(att, E) \in Models(count, stable(att))
    BY <1>3, StableReported DEF Extensions, IsExtension
  <2> QED  BY <1>2, <1>3, <2>1, CredFields
<1>4. CASE sem \in {"CO", "PR"}
  <2>1. Complete(att, E)
    BY <1>4, PreferredIsComplete DEF Extensions, IsExtension
  <2>2. ModelOf(att, E) \in Models(count, complete(att))
    BY <2>1, CompleteReported
  <2> QED  BY <1>2, <1>4, <2>2, CredFields
<1> QED  BY <1>3, <1>4

\* A round of seem_cred leaves as little unvisited as any extension could.
LEMMA CredGreedy ==
    ASSUME IInv, CredRound
    PROVE  /\ unvisited' # unvisited
           /\ \A E \in Extensions(att, sem) :
                 Cardinality(unvisited') <= Cardinality(unvisited \ E)
<1>1. PICK A \in Optimal(CredSolver) : unvisited' = unvisited \ DecisionPart(A)
  BY DEF CredRound
<1>2. /\ unvisited \in SUBSET Args /\ att \in Relations /\ sem \in {"CO", "PR", "ST"}
      /\ ~ Exhausted(CredSolver, Cardinality(unvisited))
  BY DEF CredRound, IInv, TypeOK, Phase
<1>3. IsFiniteSet(CredSolver.soft)
  BY <1>2, CredFields, SoftLiterals
<1>4. Cardinality(unvisited) \in Nat
  BY <1>2, Fewer
<1>5. /\ \A B \in Answers(CredSolver) : Cost(CredSolver, A) <= Cost(CredSolver, B)
      /\ Cost(CredSolver, A) < Cardinality(unvisited)
  BY <1>1, <1>2, <1>3, <1>4, OptimalCost
<1>6. \A B : Cost(CredSolver, B) = Cardinality(unvisited \ DecisionPart(B))
  BY <1>2, CredCost
<1>7. unvisited' # unvisited
  BY <1>1, <1>4, <1>5, <1>6
<1>8. ASSUME NEW E \in Extensions(att, sem)
      PROVE  Cardinality(unvisited') <= Cardinality(unvisited \ E)
  <2>1. PICK B \in Answers(CredSolver) : DecisionPart(B) = E
    BY <1>2, CredAnswer
  <2>2. Cost(CredSolver, A) <= Cost(CredSolver, B)
    BY <1>5, <2>1
  <2> QED  BY <1>1, <1>6, <2>1, <2>2
<1> QED  BY <1>7, <1>8

\* A round of seem_skep leaves as little included as any extension could.
LEMMA SkepGreedy ==
    ASSUME IInv, SkepRound
    PROVE  /\ included' # included
           /\ \A E \in Extensions(att, sem) :
                 Cardinality(included') <= Cardinality(included \cap E)
<1>1. PICK A \in Optimal(SkepSolver) : included' = included \cap DecisionPart(A)
  BY DEF SkepRound
<1>2. /\ pc = "skep" /\ included \in SUBSET Args /\ att \in Relations /\ sem = "ST"
      /\ ~ Exhausted(SkepSolver, Cardinality(included))
  BY DEF SkepRound, IInv, TypeOK, Phase
<1>3. /\ IsFiniteSet(SkepSolver.soft) /\ Answers(SkepSolver) = Models(count, stable(att))
      /\ A \in Answers(SkepSolver)
  BY <1>1, <1>2, SkepFields, SoftLiterals DEF Optimal
<1>4. Cardinality(included) \in Nat
  BY <1>2, Fewer
<1>5. /\ \A B \in Answers(SkepSolver) : Cost(SkepSolver, A) <= Cost(SkepSolver, B)
      /\ Cost(SkepSolver, A) < Cardinality(included)
  BY <1>1, <1>2, <1>3, <1>4, OptimalCost
<1>6. \A B \in Answers(SkepSolver) :
        Cost(SkepSolver, B) = Cardinality(included \cap DecisionPart(B))
  BY <1>2, <1>3, SkepCost
<1>7. included' # included
  BY <1>1, <1>3, <1>4, <1>5, <1>6
<1>8. ASSUME NEW E \in Extensions(att, sem)
      PROVE  Cardinality(included') <= Cardinality(included \cap E)
  <2>1. E \in SUBSET Args /\ Stable(att, E)
    BY <1>2 DEF Extensions, IsExtension
  <2>2. PICK B \in Answers(SkepSolver) : DecisionPart(B) = E
    BY <1>2, <1>3, <2>1, StableReported, ModelOfVariables, DecisionPartType
  <2>3. Cost(SkepSolver, A) <= Cost(SkepSolver, B)
    BY <1>5, <2>2
  <2> QED  BY <1>1, <1>3, <1>6, <2>2, <2>3
<1> QED  BY <1>7, <1>8

\* Every round of SEEM.cpp visits, or excludes, at least one argument and as
\* many as any extension could.
THEOREM GreedyAlways == Spec => Greedy
<1> DEFINE Round ==
        /\ pc = "cred" /\ pc' = "cred" =>
             /\ unvisited' # unvisited
             /\ \A E \in Extensions(att, sem) :
                   Cardinality(unvisited') <= Cardinality(unvisited \ E)
        /\ pc = "skep" /\ pc' = "skep" =>
             /\ included' # included
             /\ \A E \in Extensions(att, sem) :
                   Cardinality(included') <= Cardinality(included \cap E)
<1>1. ASSUME IInv, Next PROVE Round \/ UNCHANGED vars
  <2>1. CASE pc = "cred" /\ pc' = "cred"
    <3>1. CredRound
      BY <1>1, <2>1 DEF Next, CredStart, CredEnd, SkepStart, SkepRound, SkepEnd,
                        Unsupported, Ended, Over
    <3> QED  BY <1>1, <2>1, <3>1, CredGreedy
  <2>2. CASE pc = "skep" /\ pc' = "skep"
    <3>1. SkepRound
      BY <1>1, <2>2 DEF Next, CredStart, CredRound, CredEnd, SkepStart, SkepEnd,
                        Unsupported, Ended, Over
    <3> QED  BY <1>1, <2>2, <3>1, SkepGreedy
  <2> QED  BY <2>1, <2>2
<1>2. IInv /\ [Next]_vars => [Round]_vars
  BY <1>1
<1> QED  BY <1>2, Invariant, PTL DEF Spec, Greedy
=============================================================================
