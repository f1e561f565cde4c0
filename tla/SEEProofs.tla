----------------------------- MODULE SEEProofs -----------------------------
(***************************************************************************)
(* SEE.cpp is correct for every number of arguments and every framework,   *)
(* whatever models the solver returns: type correctness, NothingLost, and  *)
(* the refinement of Enumeration, over a library, over an external process *)
(* that leaves old values and may fail in any round, and over Kissat; only *)
(* see_skep after a failure is not right, and then lists nothing wrong.    *)
(***************************************************************************)
EXTENDS SEEBuilds, EncodingLemmas

\* TypeOK is inductive by itself.
LEMMA TypeStep == TypeOK /\ [Next]_vars => TypeOK'
<1> SUFFICES ASSUME TypeOK, [Next]_vars  PROVE TypeOK'
  OBVIOUS
<1> USE DEF TypeOK
<1>1. CASE CredStart
  BY <1>1, CountType, NewSolverType DEF CredStart
<1>2. CASE CredSat
  <2> PICK A \in Answers(solver) :
        LET s == AfterSat(solver, A) IN
        /\ unvisited' = unvisited \ s.model
        /\ result' = Push(result, unvisited \cap s.model)
        /\ solver' = add_clause(s, {accepted_var(i) : i \in unvisited \ s.model})
    BY <1>2 DEF CredSat, CredRound
  <2>1. solver' \in Solvers(count)
    BY CountType, SolverTypes
  <2>2. result' \in [Args -> Nat]
    BY PushType
  <2> QED  BY <1>2, <2>1, <2>2 DEF CredSat
<1>3. CASE CredUnsat
  BY <1>3, CountType, SolverTypes DEF CredUnsat
<1>4. CASE SkepStart
  BY <1>4, CountType, NewSolverType DEF SkepStart
<1>5. CASE SkepSat
  <2> PICK A \in Answers(solver) :
        LET s == AfterSat(solver, A) IN
        /\ included' = included \cap s.model
        /\ solver' = add_clause(s, {rejected_var(i) : i \in included \cap s.model})
    BY <1>5 DEF SkepSat, SkepRound
  <2>1. solver' \in Solvers(count)
    BY CountType, SolverTypes
  <2> QED  BY <1>5, <2>1 DEF SkepSat
<1>6. CASE SkepUnsat
  <2>1. solver' \in Solvers(count)
    BY <1>6, CountType, SolverTypes DEF SkepUnsat
  <2>2. result' \in [Args -> Nat]
    BY <1>6, PushType DEF SkepUnsat
  <2> QED  BY <1>6, <2>1, <2>2 DEF SkepUnsat
<1>7. CASE Unsupported
  BY <1>7 DEF Unsupported
<1>8. CASE Ended
  BY <1>8 DEF Ended, vars
<1>9. CASE UNCHANGED vars
  BY <1>9 DEF vars
<1> QED  BY <1>1, <1>2, <1>3, <1>4, <1>5, <1>6, <1>7, <1>8, <1>9 DEF Next

\* The initial states have the right type.
LEMMA TypeInit == Init => TypeOK
<1> SUFFICES ASSUME Init PROVE TypeOK
  OBVIOUS
<1>1. solver \in Solvers(count)
  BY CountType, NewSolverType DEF Init
<1>2. result \in [Args -> Nat]
  BY DEF Init, Nothing
<1> QED  BY <1>1, <1>2, FrameworksAssumption DEF Init, TypeOK

\* SEE.cpp keeps its variables in their types.
THEOREM TypeCorrect == Spec => []TypeOK
  BY TypeInit, TypeStep, PTL DEF Spec

\* Credulous acceptance is membership in an extension that see_cred's encoding
\* reports.
LEMMA CredGoal ==
    ASSUME att \in Relations, sem \in {"CO", "PR", "ST"}, NEW i \in Args
    PROVE  i \in Acceptable(att, "EC", sem)
              <=> \E A \in Models(count, CredEncoding) : i \in DecisionPart(A)
  BY CredulousModels DEF CredEncoding

-----------------------------------------------------------------------------
(***************************************************************************)
(* The inductive invariant.  NothingLost alone is not inductive: the new   *)
(* clause of see_skep only spares the right models if the models are those *)
(* of Encodings::stable (Sound), and solve() only answers with all of them *)
(* if no assumption is left (Phase).  Books relates what has been recorded *)
(* to what is acceptable.                                                  *)
(***************************************************************************)
Goal == Acceptable(att, task, sem)

Phase ==
    /\ pc = "start" => result = Nothing /\ unvisited = Args /\ included = Args
    /\ pc = "cred" => task = "EC" /\ sem \in {"CO", "PR", "ST"}
    /\ pc = "skep" => task = "ES" /\ sem = "ST"
    /\ solver.assumptions = {}

Sound ==
    /\ pc = "cred" => solver.models \subseteq Models(count, CredEncoding)
    /\ pc = "skep" => solver.models \subseteq Models(count, stable(att))

Books ==
    /\ pc = "cred" => result = Listing(Args \ unvisited) /\ Args \ unvisited \subseteq Goal
    /\ pc = "skep" => result = Nothing /\ Goal \subseteq included

IInv == TypeOK /\ Phase /\ Sound /\ NothingLost /\ Books

\* The invariant holds initially.
LEMMA InvInit == Init => IInv
<1> SUFFICES ASSUME Init PROVE IInv
  OBVIOUS
<1>1. TypeOK
  BY TypeInit
<1>2. Phase /\ Sound /\ NothingLost /\ Books
  BY DEF Init, Phase, Sound, NothingLost, Books, NewSolver
<1> QED  BY <1>1, <1>2 DEF IInv

\* see_cred starts with every model of its encoding.
LEMMA CredStartInv == IInv /\ CredStart => IInv'
<1> SUFFICES ASSUME IInv, CredStart PROVE IInv'
  OBVIOUS
<1>1. TypeOK'
  BY TypeStep DEF IInv, Next
<1>2. CredEncoding' = CredEncoding
  BY DEF CredStart, CredEncoding
<1>3. /\ solver'.models = Models(count, CredEncoding)
      /\ solver'.assumptions = {}
  BY DEF CredStart, NewSolver
<1>4. result' = Listing(Args \ unvisited') /\ Args \ unvisited' = {}
  BY NothingListed DEF IInv, Phase, CredStart
<1>5. Phase' /\ Sound' /\ NothingLost' /\ Books'
  BY <1>2, <1>3, <1>4 DEF CredStart, Phase, Sound, NothingLost, Books
<1> QED  BY <1>1, <1>5 DEF IInv

\* A round of see_cred lists unvisited arguments of a model, and its clause
\* spares every model with an argument still unvisited.
LEMMA CredSatInv == IInv /\ CredSat => IInv'
<1> SUFFICES ASSUME IInv, CredSat PROVE IInv'
  OBVIOUS
<1>1. TypeOK'
  BY TypeStep DEF IInv, Next
<1>0. PICK A \in Answers(solver) :
        LET s == AfterSat(solver, A) IN
        /\ unvisited' = unvisited \ s.model
        /\ result' = Push(result, unvisited \cap s.model)
        /\ solver' = add_clause(s, {accepted_var(i) : i \in unvisited \ s.model})
  BY DEF CredSat, CredRound
<1> DEFINE S == DecisionPart(A)
<1>2. /\ unvisited' = unvisited \ S
      /\ result' = Push(result, unvisited \cap S)
      /\ solver'.models = {B \in solver.models :
                              Satisfies(B, {accepted_var(i) : i \in unvisited \ S})}
      /\ solver'.assumptions = {}
  <2>1. solver \in Solvers(count) /\ count \in Nat
    BY CountType DEF IInv, TypeOK
  <2>2. AfterSat(solver, A).model = S
    BY <2>1, SolverFields
  <2> DEFINE c == {accepted_var(i) : i \in unvisited \ S}
  <2>3. solver' = add_clause(AfterSat(solver, A), c)
    BY <1>0, <2>2
  <2> HIDE DEF c
  <2>4. solver'.models = {B \in solver.models : Satisfies(B, c)} /\ solver'.assumptions = {}
    BY <2>1, <2>3, RoundFields
  <2> QED  BY <1>0, <2>2, <2>4 DEF c
<1>3. /\ pc = "cred" /\ pc' = "cred" /\ att' = att /\ task' = task /\ sem' = sem
      /\ task = "EC" /\ sem \in {"CO", "PR", "ST"}
      /\ unvisited \in SUBSET Args /\ att \in Relations /\ S \in SUBSET Args
  BY DecisionPartType DEF CredSat, IInv, Phase, TypeOK
<1>4. A \in Models(count, CredEncoding)
  BY <1>3, UnassumedAnswers DEF IInv, Phase, Sound
<1>5. CredEncoding' = CredEncoding /\ Goal' = Goal
  BY <1>3 DEF CredEncoding, Goal
<1> HIDE DEF S
<1>6. Sound'
  BY <1>2, <1>3, <1>5 DEF IInv, Sound
<1>7. NothingLost'
  <2> SUFFICES ASSUME NEW B \in Models(count, CredEncoding),
                      DecisionPart(B) \cap (unvisited \ S) # {}
               PROVE  B \in solver'.models
    BY <1>2, <1>3, <1>5 DEF NothingLost
  <2>1. B \in solver.models
    BY <1>3 DEF IInv, NothingLost
  <2>2. Satisfies(B, {accepted_var(i) : i \in unvisited \ S})
    BY <1>3, AcceptedClause
  <2> QED  BY <1>2, <2>1, <2>2
<1>8. Books'
  <2>1. result' = Listing(Args \ unvisited')
    <3>1. (Args \ unvisited) \cup (unvisited \cap S) = Args \ unvisited'
      BY <1>2, <1>3
    <3>2. Push(Listing(Args \ unvisited), unvisited \cap S)
            = Listing((Args \ unvisited) \cup (unvisited \cap S))
      BY <1>3, ListingGrows
    <3> QED  BY <1>2, <1>3, <3>1, <3>2 DEF IInv, Books
  <2>2. S \subseteq Goal
    BY <1>3, <1>4, CredGoal DEF Goal, S
  <2>3. Args \ unvisited \subseteq Goal
    BY <1>3 DEF IInv, Books
  <2> QED  BY <1>2, <1>3, <1>5, <2>1, <2>2, <2>3 DEF Books
<1>9. Phase'
  BY <1>2, <1>3 DEF Phase
<1> QED  BY <1>1, <1>6, <1>7, <1>8, <1>9 DEF IInv

\* see_skep starts with every model of Encodings::stable.
LEMMA SkepStartInv == IInv /\ SkepStart => IInv'
<1> SUFFICES ASSUME IInv, SkepStart PROVE IInv'
  OBVIOUS
<1>1. TypeOK'
  BY TypeStep DEF IInv, Next
<1>2. /\ solver'.models = Models(count, stable(att))
      /\ solver'.assumptions = {}
  BY DEF SkepStart, NewSolver
<1>3. result' = Nothing /\ included' = Args /\ Goal' \subseteq Args
  BY DEF IInv, Phase, SkepStart, Goal, Acceptable, Credulous, Skeptical
<1>4. Phase' /\ Sound' /\ NothingLost' /\ Books'
  BY <1>2, <1>3 DEF SkepStart, Phase, Sound, NothingLost, Books
<1> QED  BY <1>1, <1>4 DEF IInv

\* A round of see_skep drops arguments that an extension lacks, and its
\* clause spares every model without one of the arguments kept.
LEMMA SkepSatInv == IInv /\ SkepSat => IInv'
<1> SUFFICES ASSUME IInv, SkepSat PROVE IInv'
  OBVIOUS
<1>1. TypeOK'
  BY TypeStep DEF IInv, Next
<1>0. PICK A \in Answers(solver) :
        LET s == AfterSat(solver, A) IN
        /\ included' = included \cap s.model
        /\ solver' = add_clause(s, {rejected_var(i) : i \in included \cap s.model})
  BY DEF SkepSat, SkepRound
<1> DEFINE S == DecisionPart(A)
<1>2. /\ included' = included \cap S
      /\ solver'.models = {B \in solver.models :
                              Satisfies(B, {rejected_var(i) : i \in included \cap S})}
      /\ solver'.assumptions = {}
  <2>1. solver \in Solvers(count) /\ count \in Nat
    BY CountType DEF IInv, TypeOK
  <2>2. AfterSat(solver, A).model = S
    BY <2>1, SolverFields
  <2> DEFINE c == {rejected_var(i) : i \in included \cap S}
  <2>3. solver' = add_clause(AfterSat(solver, A), c)
    BY <1>0, <2>2
  <2> HIDE DEF c
  <2>4. solver'.models = {B \in solver.models : Satisfies(B, c)} /\ solver'.assumptions = {}
    BY <2>1, <2>3, RoundFields
  <2> QED  BY <1>0, <2>2, <2>4 DEF c
<1>3. /\ pc = "skep" /\ pc' = "skep" /\ att' = att /\ task' = task /\ sem' = sem
      /\ task = "ES" /\ sem = "ST" /\ result' = result
      /\ included \in SUBSET Args /\ att \in Relations /\ S \in SUBSET Args
  BY DecisionPartType DEF SkepSat, IInv, Phase, TypeOK
<1>4. A \in Models(count, stable(att))
  BY <1>3, UnassumedAnswers DEF IInv, Phase, Sound
<1>5. Goal' = Goal /\ Goal \in SUBSET Args
  BY <1>3 DEF Goal, Acceptable, Skeptical
<1> HIDE DEF S
<1>6. Sound'
  BY <1>2, <1>3 DEF IInv, Sound
<1>7. NothingLost'
  <2> SUFFICES ASSUME NEW B \in Models(count, stable(att)),
                      ~ (included \cap S \subseteq DecisionPart(B))
               PROVE  B \in solver'.models
    BY <1>2, <1>3 DEF NothingLost
  <2>1. B \in solver.models
    BY <1>3 DEF IInv, NothingLost
  <2>2. Satisfies(B, {rejected_var(i) : i \in included \cap S})
    BY <1>3, RejectedClause
  <2> QED  BY <1>2, <2>1, <2>2
<1>8. Books'
  <2>1. Goal \subseteq S
    BY <1>3, <1>4, <1>5, SkepticalModels DEF Goal, S
  <2> QED  BY <1>2, <1>3, <1>5, <2>1 DEF IInv, Books
<1>9. Phase'
  BY <1>2, <1>3 DEF Phase
<1> QED  BY <1>1, <1>6, <1>7, <1>8, <1>9 DEF IInv

\* Every step preserves the invariant.
LEMMA InvStep == IInv /\ [Next]_vars => IInv'
<1> SUFFICES ASSUME IInv, [Next]_vars PROVE IInv'
  OBVIOUS
<1>1. TypeOK'
  BY TypeStep DEF IInv
<1>2. CASE CredUnsat
  <2>1. solver'.assumptions = {}
    BY <1>2, CountType, SolverFields DEF CredUnsat, IInv, TypeOK
  <2> QED  BY <1>1, <1>2, <2>1 DEF CredUnsat, IInv, Phase, Sound, NothingLost, Books
<1>3. CASE SkepUnsat
  <2>1. solver'.assumptions = {}
    BY <1>3, CountType, SolverFields DEF SkepUnsat, IInv, TypeOK
  <2> QED  BY <1>1, <1>3, <2>1 DEF SkepUnsat, IInv, Phase, Sound, NothingLost, Books
<1>4. CASE Unsupported
  BY <1>1, <1>4 DEF Unsupported, IInv, Phase, Sound, NothingLost, Books
<1>5. CASE UNCHANGED vars
  BY <1>1, <1>5 DEF vars, IInv, Phase, Sound, NothingLost, Books, Goal, CredEncoding
<1>6. CASE Ended
  BY <1>5, <1>6 DEF Ended
<1> QED  BY <1>2, <1>3, <1>4, <1>5, <1>6, CredStartInv, CredSatInv, SkepStartInv,
            SkepSatInv DEF Next

\* The inductive invariant holds in every reachable state of SEE.cpp.
THEOREM Invariant == Spec => []IInv
  BY InvInit, InvStep, PTL DEF Spec

\* No clause of see_cred or see_skep rules out an extension that could still
\* change the answer.
THEOREM NothingLostAlways == Spec => []NothingLost
<1>1. IInv => NothingLost
  BY DEF IInv
<1> QED  BY <1>1, Invariant, PTL

-----------------------------------------------------------------------------
(***************************************************************************)
(* The refinement.  Enumeration has its own copies of the definitions of   *)
(* Argumentation; they mean the same.                                      *)
(***************************************************************************)

\* The goal of the abstract specification is the one of this module.
LEMMA EnumGoal == Enum!Goal = Goal
  BY DEF Enum!Goal, Enum!Acceptable, Enum!Credulous, Enum!Skeptical,
         Enum!Extensions, Enum!IsExtension, Enum!Complete, Enum!Preferred,
         Enum!Stable, Enum!Admissible, Enum!ConflictFree, Enum!Defends, Enum!Args,
         Goal, Acceptable, Credulous, Skeptical, Extensions, IsExtension,
         Complete, Preferred, Stable, Admissible, ConflictFree, Defends, Args

\* The lists of the abstract specification are the ones of this module.
LEMMA EnumLists ==
    /\ Enum!Nothing = Nothing
    /\ \A S : Enum!Listing(S) = Listing(S)
    /\ \A r, S : Enum!Push(r, S) = Push(r, S)
    /\ Enum!Args = Args
  BY DEF Enum!Nothing, Enum!Listing, Enum!Push, Enum!Args, Nothing, Listing, Push, Args

\* SEE.cpp starts where Enumeration does.
LEMMA EnumInit == Init => Enum!Init
<1> SUFFICES ASSUME Init PROVE Enum!Init
  OBVIOUS
<1>1. Enum!Relations = Relations /\ Enum!Tasks = Tasks /\ Enum!Semantics = Semantics
  BY DEF Enum!Relations, Enum!Tasks, Enum!Semantics, Enum!Args, Relations, Tasks,
         Semantics, Args
<1> QED  BY <1>1, EnumLists, FrameworksAssumption DEF Init, Enum!Init, Over

\* When solve() returns UNSAT_V in see_cred, all acceptable arguments have
\* been listed.
LEMMA CredComplete ==
    ASSUME IInv, pc = "cred", Answers(solver) = {}
    PROVE  Goal = Args \ unvisited
<1>1. /\ task = "EC" /\ sem \in {"CO", "PR", "ST"} /\ att \in Relations
      /\ solver.models = {}
  BY UnassumedAnswers DEF IInv, Phase, TypeOK
<1>2. Args \ unvisited \subseteq Goal /\ Goal \subseteq Args
  BY <1>1 DEF IInv, Books, Goal, Acceptable, Credulous
<1>3. ASSUME NEW i \in Goal, i \in unvisited PROVE FALSE
  <2>1. i \in Args /\ i \in Acceptable(att, "EC", sem)
    BY <1>1, <1>2 DEF Goal
  <2>2. PICK A \in Models(count, CredEncoding) : i \in DecisionPart(A)
    BY <1>1, <2>1, CredGoal
  <2>3. A \in solver.models
    BY <1>3, <2>2 DEF IInv, NothingLost
  <2> QED  BY <1>1, <2>3
<1> QED  BY <1>2, <1>3

\* When solve() returns UNSAT_V in see_skep, the arguments still included are
\* skeptically accepted, whatever has been dropped before.
LEMMA IncludedAccepted ==
    ASSUME TypeOK, Phase, NothingLost, pc = "skep", Answers(solver) = {}
    PROVE  included \subseteq Goal
<1>1. /\ task = "ES" /\ sem = "ST" /\ att \in Relations /\ included \in SUBSET Args
      /\ solver.models = {}
  BY UnassumedAnswers DEF Phase, TypeOK
<1>2. ASSUME NEW i \in included PROVE i \in Goal
  <2>1. i \in Args
    BY <1>1
  <2>2. ASSUME NEW A \in Models(count, stable(att)) PROVE i \in DecisionPart(A)
    BY <1>1, <1>2 DEF NothingLost
  <2>3. i \in Acceptable(att, "ES", "ST")
    BY <1>1, <2>1, <2>2, SkepticalModels
  <2> QED  BY <1>1, <2>3 DEF Goal
<1> QED  BY <1>2

\* If nothing has been dropped wrongly, they are all of them.
LEMMA SkepComplete ==
    ASSUME IInv, pc = "skep", Answers(solver) = {}
    PROVE  Goal = included
  BY IncludedAccepted DEF IInv, Books

\* Every step of SEE.cpp is a step of Enumeration or changes nothing there.
LEMMA EnumStep == IInv /\ IInv' /\ [Next]_vars => [Enum!Next]_Enum!vars
<1> SUFFICES ASSUME IInv, IInv', [Next]_vars PROVE [Enum!Next]_Enum!vars
  OBVIOUS
<1>1. CASE CredStart
  BY <1>1 DEF CredStart, Over, Enum!vars
<1>2. CASE CredSat
  <2>0. PICK A \in Answers(solver) :
        LET s == AfterSat(solver, A) IN
        /\ unvisited' = unvisited \ s.model
        /\ result' = Push(result, unvisited \cap s.model)
        /\ solver' = add_clause(s, {accepted_var(i) : i \in unvisited \ s.model})
    BY <1>2 DEF CredSat, CredRound
  <2> DEFINE new == unvisited \cap DecisionPart(A)
  <2>1. result' = Push(result, new) /\ unvisited' = unvisited \ DecisionPart(A)
    <3>1. AfterSat(solver, A).model = DecisionPart(A)
      BY CountType, SolverFields DEF IInv, TypeOK
    <3> QED  BY <2>0, <3>1
  <2>2. /\ pc = "cred" /\ pc' = "cred" /\ att' = att /\ task' = task /\ sem' = sem
        /\ task = "EC" /\ sem \in {"CO", "PR", "ST"} /\ unvisited \in SUBSET Args
    BY <1>2 DEF CredSat, IInv, Phase, TypeOK
  <2>3. new \subseteq Goal
    BY <2>1, <2>2 DEF IInv, Books, Goal
  <2>4. \A i \in new : result[i] = 0
    BY <2>2 DEF IInv, Books, Listing
  <2>5. Enum!Supported
    BY <2>2 DEF Enum!Supported, Problems
  <2>6. new \in SUBSET Args
    BY <2>2
  <2> HIDE DEF new
  <2>7. Enum!List(new)
    BY <2>1, <2>2, <2>3, <2>4, <2>5, EnumGoal, EnumLists DEF Enum!List, Over
  <2> QED  BY <2>6, <2>7, EnumLists DEF Enum!Next
<1>3. CASE CredUnsat
  <2>1. /\ pc = "cred" /\ pc' = "done" /\ Answers(solver) = {}
        /\ att' = att /\ task' = task /\ sem' = sem /\ result' = result
    BY <1>3 DEF CredUnsat
  <2>2. result' = Listing(Goal)
    BY <2>1, CredComplete DEF IInv, Books
  <2>3. Enum!Supported
    BY <2>1 DEF Enum!Supported, Problems, IInv, Phase
  <2>4. Enum!Finish
    BY <2>1, <2>2, <2>3, EnumGoal, EnumLists DEF Enum!Finish, Over
  <2> QED  BY <2>4 DEF Enum!Next
<1>4. CASE SkepStart
  BY <1>4 DEF SkepStart, Over, Enum!vars
<1>5. CASE SkepSat
  BY <1>5 DEF SkepSat, Over, Enum!vars
<1>6. CASE SkepUnsat
  <2>1. /\ pc = "skep" /\ pc' = "done" /\ Answers(solver) = {}
        /\ att' = att /\ task' = task /\ sem' = sem
        /\ result' = Push(result, included) /\ included \in SUBSET Args
    BY <1>6 DEF SkepUnsat, IInv, TypeOK
  <2>2. result' = Push(Listing({}), included)
    BY <2>1, NothingListed DEF IInv, Books
  <2>3. Push(Listing({}), included) = Listing({} \cup included)
    BY <2>1, ListingGrows
  <2>4. result' = Listing(Goal)
    BY <2>1, <2>2, <2>3, SkepComplete
  <2>5. Enum!Supported
    BY <2>1 DEF Enum!Supported, Problems, IInv, Phase
  <2>6. Enum!Finish
    BY <2>1, <2>4, <2>5, EnumGoal, EnumLists DEF Enum!Finish, Over
  <2> QED  BY <2>6 DEF Enum!Next
<1>7. CASE Unsupported
  <2>1. ~ Enum!Supported
    BY <1>7 DEF Unsupported, Enum!Supported, Problems
  <2>2. Enum!Refuse
    BY <1>7, <2>1 DEF Unsupported, Enum!Refuse, Over
  <2> QED  BY <2>2 DEF Enum!Next
<1>8. CASE UNCHANGED vars
  BY <1>8 DEF vars, Over, Enum!vars
<1>9. CASE Ended
  BY <1>8, <1>9 DEF Ended
<1> QED  BY <1>1, <1>2, <1>3, <1>4, <1>5, <1>6, <1>7, <1>8, <1>9 DEF Next

\* SEE.cpp implements Enumeration: for every framework and every problem it
\* advertises it lists exactly the acceptable arguments, each once.
THEOREM Refinement == Spec => Implements
<1>1. Spec => Enum!Init /\ [][Enum!Next]_Enum!vars
  BY EnumInit, EnumStep, Invariant, PTL DEF Spec
<1> QED  BY <1>1 DEF Implements, Enum!Spec

-----------------------------------------------------------------------------
(***************************************************************************)
(* SEE.cpp over ExternalSatSolver.cpp.  Base is what every round keeps,    *)
(* with a whole answer or without: it is IInv but for Books, and that a    *)
(* value see_cred sees although it was not printed this time is that of an *)
(* argument already listed.  Books holds as well until the process fails   *)
(* during see_skep.                                                        *)
(***************************************************************************)
StaleIsVisited == pc = "cred" => solver.model \cap unvisited = {}

Base == TypeOK /\ Phase /\ Sound /\ NothingLost /\ StaleIsVisited

ExtInv == IInv /\ StaleIsVisited

\* A round of see_cred is right whatever the model vector holds, as long as
\* the unvisited arguments in it are acceptable.
LEMMA CredRoundInv ==
    ASSUME IInv, pc = "cred", NEW s \in Solvers(count),
           s.models = solver.models, s.assumptions = {},
           s.model \cap unvisited \subseteq Goal,
           CredRound(s), UNCHANGED <<att, task, sem, pc, included>>
    PROVE  ExtInv' /\ [Enum!Next]_Enum!vars
<1> DEFINE M == s.model
           c == {accepted_var(i) : i \in unvisited \ M}
<1>1. /\ unvisited' = unvisited \ M
      /\ result' = Push(result, unvisited \cap M)
      /\ solver' = add_clause(s, c)
  BY DEF CredRound
<1>2. /\ pc' = "cred" /\ att' = att /\ task' = task /\ sem' = sem /\ included' = included
      /\ task = "EC" /\ sem \in {"CO", "PR", "ST"}
      /\ unvisited \in SUBSET Args /\ att \in Relations /\ M \in SUBSET Args
      /\ result = Listing(Args \ unvisited) /\ Args \ unvisited \subseteq Goal
  BY DEF IInv, Phase, Books, TypeOK, Solvers
<1>3. CredEncoding' = CredEncoding /\ Goal' = Goal
  BY <1>2 DEF CredEncoding, Goal
<1> HIDE DEF c
<1>4. /\ solver' \in Solvers(count)
      /\ solver'.models = {B \in solver.models : Satisfies(B, c)}
      /\ solver'.assumptions = {}
      /\ solver'.model = M
  BY <1>1, CountType, ClauseFields
<1> HIDE DEF M
<1>5. TypeOK'
  <2>1. result' \in [Args -> Nat]
    BY <1>1, PushType DEF IInv, TypeOK
  <2> QED  BY <1>1, <1>2, <1>4, <2>1 DEF IInv, TypeOK
<1>6. Phase' /\ Sound' /\ StaleIsVisited'
  BY <1>1, <1>2, <1>3, <1>4 DEF Phase, Sound, StaleIsVisited, IInv
<1>7. NothingLost'
  <2> SUFFICES ASSUME NEW B \in Models(count, CredEncoding),
                      DecisionPart(B) \cap (unvisited \ M) # {}
               PROVE  B \in solver'.models
    BY <1>1, <1>2, <1>3 DEF NothingLost
  <2>1. B \in solver.models
    BY <1>2 DEF IInv, NothingLost
  <2>2. Satisfies(B, {accepted_var(i) : i \in unvisited \ M})
    BY <1>2, AcceptedClause
  <2> QED  BY <1>4, <2>1, <2>2 DEF c
<1>8. Books'
  <2>1. (Args \ unvisited) \cup (unvisited \cap M) = Args \ unvisited'
    BY <1>1, <1>2
  <2>2. Push(Listing(Args \ unvisited), unvisited \cap M)
          = Listing((Args \ unvisited) \cup (unvisited \cap M))
    BY <1>2, ListingGrows
  <2>3. unvisited \cap M \subseteq Goal
    BY DEF M
  <2> QED  BY <1>1, <1>2, <1>3, <2>1, <2>2, <2>3 DEF Books
<1>9. Enum!Next
  <2> DEFINE new == unvisited \cap M
  <2>1. new \subseteq Goal /\ new \in SUBSET Args
    BY <1>2 DEF M
  <2>2. \A i \in new : result[i] = 0
    BY <1>2 DEF Listing
  <2>3. Enum!Supported
    BY <1>2 DEF Enum!Supported, Problems
  <2>4. result' = Push(result, new)
    BY <1>1
  <2> HIDE DEF new
  <2>5. Enum!List(new)
    BY <1>2, <2>1, <2>2, <2>3, <2>4, EnumGoal, EnumLists DEF Enum!List, Over
  <2> QED  BY <2>1, <2>5, EnumLists DEF Enum!Next
<1> QED  BY <1>5, <1>6, <1>7, <1>8, <1>9 DEF ExtInv, IInv

\* The model of an answer that see_cred gets, whole or cut short, holds no
\* unvisited argument that is not acceptable.
LEMMA OutputsAcceptable ==
    ASSUME ExtInv, pc = "cred",
           NEW s \in BrokenOutputs(solver) \cup {AfterOutput(solver, A, N) : A \in Answers(solver)}
    PROVE  /\ s \in Solvers(count)
           /\ s.models = solver.models
           /\ s.assumptions = {}
           /\ s.model \cap unvisited \subseteq Goal
<1>1. /\ solver \in Solvers(count) /\ count \in Nat /\ att \in Relations
      /\ task = "EC" /\ sem \in {"CO", "PR", "ST"}
      /\ solver.model \cap unvisited = {}
  BY CountType DEF ExtInv, IInv, Phase, TypeOK, StaleIsVisited
<1>2. CASE s = AfterSilence(solver)
  BY <1>1, <1>2 DEF AfterSilence, Solvers
<1>3. CASE \E A \in Answers(solver), m \in 0 .. N : s = AfterOutput(solver, A, m)
  <2>1. PICK A \in Answers(solver), m \in 0 .. N : s = AfterOutput(solver, A, m)
    BY <1>3
  <2>2. A \in Models(count, CredEncoding)
    BY UnassumedAnswers DEF ExtInv, IInv, Phase, Sound
  <2>3. DecisionPart(A) \subseteq Goal
    BY <1>1, <2>2, CredGoal, DecisionPartType DEF Goal
  <2>4. /\ s \in Solvers(count) /\ s.models = solver.models /\ s.assumptions = {}
        /\ s.model \subseteq solver.model \cup DecisionPart(A)
    BY <1>1, <2>1, OutputFields
  <2> QED  BY <1>1, <2>3, <2>4
<1>4. 0 .. (N - 1) \subseteq 0 .. N /\ N \in 0 .. N
  BY NAssumption
<1> QED  BY <1>2, <1>3, <1>4 DEF BrokenOutputs

\* A round of see_skep keeps the base whatever the model vector holds: its
\* clause names what is included after the round.
LEMMA SkepRoundBase ==
    ASSUME Base, pc = "skep", NEW s \in Solvers(count),
           s.models = solver.models, s.assumptions = {},
           SkepRound(s), UNCHANGED <<att, task, sem, pc, unvisited, result>>
    PROVE  Base' /\ included' = included \cap s.model
<1> DEFINE M == s.model
           c == {rejected_var(i) : i \in included \cap M}
<1>1. included' = included \cap M /\ solver' = add_clause(s, c)
  BY DEF SkepRound
<1>2. /\ pc' = "skep" /\ att' = att /\ task' = task /\ sem' = sem
      /\ unvisited' = unvisited /\ result' = result
      /\ task = "ES" /\ sem = "ST"
      /\ included \in SUBSET Args /\ att \in Relations
  BY DEF Base, Phase, TypeOK
<1> HIDE DEF c
<1>3. /\ solver' \in Solvers(count)
      /\ solver'.models = {B \in solver.models : Satisfies(B, c)}
      /\ solver'.assumptions = {}
  BY <1>1, CountType, ClauseFields
<1> HIDE DEF M
<1>4. TypeOK'
  BY <1>1, <1>2, <1>3 DEF Base, TypeOK
<1>5. Phase' /\ Sound' /\ StaleIsVisited'
  BY <1>1, <1>2, <1>3 DEF Phase, Sound, StaleIsVisited, Base
<1>6. NothingLost'
  <2> SUFFICES ASSUME NEW B \in Models(count, stable(att)),
                      ~ (included \cap M \subseteq DecisionPart(B))
               PROVE  B \in solver'.models
    BY <1>1, <1>2 DEF NothingLost
  <2>1. B \in solver.models
    BY <1>2 DEF Base, NothingLost
  <2>2. Satisfies(B, {rejected_var(i) : i \in included \cap M})
    BY <1>2, RejectedClause
  <2> QED  BY <1>3, <2>1, <2>2 DEF c
<1> QED  BY <1>1, <1>4, <1>5, <1>6 DEF Base, M

\* What see_skep is handed over, whole, cut short or not at all.
LEMMA SkepOutputs ==
    ASSUME Base, NEW s \in BrokenOutputs(solver) \cup {AfterOutput(solver, A, N) : A \in Answers(solver)}
    PROVE  s \in Solvers(count) /\ s.models = solver.models /\ s.assumptions = {}
<1>1. solver \in Solvers(count) /\ count \in Nat
  BY CountType DEF Base, TypeOK
<1>2. CASE s = AfterSilence(solver)
  BY <1>1, <1>2 DEF AfterSilence, Solvers
<1>3. CASE \E A \in Answers(solver), m \in 0 .. N : s = AfterOutput(solver, A, m)
  BY <1>1, <1>3, OutputFields
<1>4. 0 .. (N - 1) \subseteq 0 .. N /\ N \in 0 .. N
  BY NAssumption
<1> QED  BY <1>2, <1>3, <1>4 DEF BrokenOutputs

\* So every round of see_skep over an external process keeps the base.
LEMMA ExtSkepBase == Base /\ (ExtSkepSat \/ SkepBroken) => Base'
<1> SUFFICES ASSUME Base, ExtSkepSat \/ SkepBroken PROVE Base'
  OBVIOUS
<1>1. PICK s \in BrokenOutputs(solver) \cup {AfterOutput(solver, A, N) : A \in Answers(solver)} :
        SkepRound(s)
  BY DEF ExtSkepSat, SkepBroken
<1>2. pc = "skep" /\ UNCHANGED <<att, task, sem, pc, unvisited, result>>
  BY DEF ExtSkepSat, SkepBroken
<1> QED  BY <1>1, <1>2, SkepOutputs, SkepRoundBase

\* A round of see_skep with a whole answer: no argument of the answer is
\* missing, so nothing that is skeptically accepted is dropped.
LEMMA ExtSkepSatInv == ExtInv /\ ExtSkepSat => ExtInv'
<1> SUFFICES ASSUME ExtInv, ExtSkepSat PROVE ExtInv'
  OBVIOUS
<1>0. Base
  BY DEF Base, ExtInv, IInv
<1>1. PICK A \in Answers(solver) : SkepRound(AfterOutput(solver, A, N))
  BY DEF ExtSkepSat
<1> DEFINE s == AfterOutput(solver, A, N)
<1>2. /\ pc = "skep" /\ pc' = "skep" /\ att' = att /\ task' = task /\ sem' = sem
      /\ unvisited' = unvisited /\ result' = result
      /\ task = "ES" /\ sem = "ST" /\ att \in Relations /\ solver \in Solvers(count)
      /\ result = Nothing /\ Goal \subseteq included /\ included \in SUBSET Args
  BY DEF ExtSkepSat, ExtInv, IInv, Phase, Books, TypeOK
<1>3. /\ s \in Solvers(count) /\ s.models = solver.models /\ s.assumptions = {}
  BY <1>0, SkepOutputs
<1>4. A \in Models(count, stable(att)) /\ DecisionPart(A) \subseteq s.model
  BY <1>2, CountType, WholeAnswer, UnassumedAnswers DEF ExtInv, IInv, Phase, Sound
<1>5. SkepRound(s)
  BY <1>1
<1> HIDE DEF s
<1>6. Base' /\ included' = included \cap s.model
  BY <1>0, <1>2, <1>3, <1>5, SkepRoundBase
<1>7. Books'
  <2>1. Goal' = Goal
    BY <1>2 DEF Goal
  <2>2. Goal \subseteq DecisionPart(A)
    BY <1>2, <1>4, SkepticalModels DEF Goal
  <2> QED  BY <1>2, <1>4, <1>6, <2>1, <2>2 DEF Books
<1> QED  BY <1>6, <1>7 DEF ExtInv, IInv, Base

\* Every step but a failure during see_skep preserves the invariant and is a
\* step of Enumeration or changes nothing there.
LEMMA ExtStep ==
    ExtInv /\ [ExtAnswered \/ CredBroken]_vars => ExtInv' /\ [Enum!Next]_Enum!vars
<1> SUFFICES ASSUME ExtInv, [ExtAnswered \/ CredBroken]_vars PROVE ExtInv' /\ [Enum!Next]_Enum!vars
  OBVIOUS
<1>1. CASE CredStart \/ SkepStart \/ CredUnsat \/ SkepUnsat \/ Unsupported \/ Ended
           \/ UNCHANGED vars
  <2>1. [Next]_vars
    BY <1>1 DEF Next
  <2>2. IInv' /\ [Enum!Next]_Enum!vars
    BY <2>1, InvStep, EnumStep DEF ExtInv
  <2>3. StaleIsVisited'
    <3>1. CASE CredStart
      BY <3>1 DEF CredStart, NewSolver, StaleIsVisited
    <3>2. CASE Ended \/ UNCHANGED vars
      BY <3>2 DEF Ended, vars, ExtInv, StaleIsVisited
    <3>3. CASE SkepStart \/ CredUnsat \/ SkepUnsat \/ Unsupported
      BY <3>3 DEF SkepStart, CredUnsat, SkepUnsat, Unsupported, StaleIsVisited
    <3> QED  BY <1>1, <3>1, <3>2, <3>3
  <2> QED  BY <2>2, <2>3 DEF ExtInv
<1>2. CASE ExtCredSat \/ CredBroken
  <2>1. PICK s \in BrokenOutputs(solver) \cup {AfterOutput(solver, A, N) : A \in Answers(solver)} :
            CredRound(s)
    BY <1>2 DEF ExtCredSat, CredBroken
  <2>2. pc = "cred" /\ UNCHANGED <<att, task, sem, pc, included>>
    BY <1>2 DEF ExtCredSat, CredBroken
  <2>3. /\ s \in Solvers(count) /\ s.models = solver.models /\ s.assumptions = {}
        /\ s.model \cap unvisited \subseteq Goal
    BY <2>2, OutputsAcceptable
  <2> QED  BY <2>1, <2>2, <2>3, CredRoundInv DEF ExtInv
<1>3. CASE ExtSkepSat
  <2>1. [Enum!Next]_Enum!vars
    BY <1>3 DEF ExtSkepSat, Over, Enum!vars
  <2> QED  BY <1>3, <2>1, ExtSkepSatInv
<1> QED  BY <1>1, <1>2, <1>3 DEF ExtAnswered

\* The invariant holds initially.
LEMMA ExtInit == Init => ExtInv
  BY InvInit DEF Init, ExtInv, StaleIsVisited

-----------------------------------------------------------------------------
(***************************************************************************)
(* The builds together, as the run see checks them.  What the wrapper does *)
(* not share with the others only matters for Kissat: it still has all the *)
(* models of its encoding when it is asked.                                *)
(***************************************************************************)
Untouched ==
    wrapper = "kissat" =>
        /\ pc = "cred" => solver.models = Models(count, CredEncoding)
        /\ pc = "skep" => solver.models = Models(count, stable(att))

\* Only see_skep over an external process can be misled; what it will list is
\* pushed at its end.
MisledSkep ==
    /\ failed \in BOOLEAN
    /\ Misled => /\ wrapper = "external" /\ pc \in {"skep", "done"}
                 /\ pc = "skep" => result = Nothing

BuildInv ==
    /\ Base /\ (Misled \/ Books) /\ MisledSkep
    /\ Untouched /\ KissatFindsNothing /\ ListsOnlyAcceptable

\* If the encoding of a problem has no model, the problem has no extension;
\* for CO and PR there always is one.
LEMMA NoModelNoExtension ==
    ASSUME Base, solver.models = {}, pc \in {"cred", "skep"},
           pc = "cred" => solver.models = Models(count, CredEncoding),
           pc = "skep" => solver.models = Models(count, stable(att))
    PROVE  Extensions(att, sem) = {}
<1>1. /\ att \in Relations
      /\ pc = "cred" => sem \in {"CO", "PR", "ST"}
      /\ pc = "skep" => sem = "ST"
  BY DEF Base, TypeOK, Phase
<1>2. CASE sem = "ST"
  <2>1. Models(count, stable(att)) = {}
    BY <1>2 DEF CredEncoding
  <2>2. \A S \in SUBSET Args : ~ Stable(att, S)
    BY <1>1, <2>1, StableReported
  <2> QED  BY <1>2, <2>2 DEF Extensions, IsExtension
<1>3. CASE sem \in {"CO", "PR"}
  <2>1. Models(count, complete(att)) = {}
    BY <1>1, <1>3 DEF CredEncoding
  <2>2. \A S \in SUBSET Args : ~ Complete(att, S)
    BY <1>1, <2>1, CompleteReported
  <2>3. \A S \in SUBSET Args : ~ Preferred(att, S)
    BY <2>2, PreferredIsComplete
  <2> QED  BY <1>3, <2>2, <2>3 DEF Extensions, IsExtension
<1> QED  BY <1>1, <1>2, <1>3

\* A step of a build that is not misled by it preserves what the builds share,
\* and is a step of Enumeration or changes nothing there.
LEMMA SharedStep ==
    ExtInv /\ [BuildNext]_buildVars /\ ~ Misled' => ExtInv' /\ [Enum!Next]_Enum!vars
<1> SUFFICES ASSUME ExtInv, [BuildNext]_buildVars, ~ Misled'
             PROVE  ExtInv' /\ [Enum!Next]_Enum!vars
  OBVIOUS
<1>1. CASE [ExtAnswered \/ CredBroken]_vars
  BY <1>1, ExtStep
<1>2. CASE CredSat
  <2>1. [Next]_vars
    BY <1>2 DEF Next
  <2>2. IInv' /\ [Enum!Next]_Enum!vars
    BY <2>1, InvStep, EnumStep DEF ExtInv
  <2>3. StaleIsVisited'
    <3>1. PICK A \in Answers(solver) : CredRound(AfterSat(solver, A))
      BY <1>2 DEF CredSat
    <3> DEFINE s == AfterSat(solver, A)
               c == {accepted_var(i) : i \in unvisited \ s.model}
    <3>2. s \in Solvers(count)
      BY CountType, SolverTypes DEF ExtInv, IInv, TypeOK
    <3>3. solver' = add_clause(s, c) /\ unvisited' = unvisited \ s.model
      BY <3>1 DEF CredRound
    <3> HIDE DEF s, c
    <3>4. solver'.model = s.model
      BY <3>2, <3>3, CountType, ClauseFields
    <3> QED  BY <3>3, <3>4 DEF StaleIsVisited
  <2> QED  BY <2>2, <2>3 DEF ExtInv
<1>3. CASE SkepSat
  <2>1. [Next]_vars
    BY <1>3 DEF Next
  <2>2. IInv' /\ [Enum!Next]_Enum!vars
    BY <2>1, InvStep, EnumStep DEF ExtInv
  <2> QED  BY <1>3, <2>2 DEF SkepSat, ExtInv, StaleIsVisited
<1>4. ~ (SkepBroken /\ failed' = TRUE)
  BY DEF SkepBroken, Misled, ExtInv, IInv, Phase
<1> QED  BY <1>1, <1>2, <1>3, <1>4 DEF BuildNext, buildVars, Library, External, Kissat,
            KissatSat, Aborted, Next, ExtAnswered, ExtBroken

\* A step of Enumeration lists no argument that is not acceptable, and none
\* twice.
LEMMA EnumListsOnly ==
    ASSUME TypeOK, ListsOnlyAcceptable, [Enum!Next]_Enum!vars
    PROVE  ListsOnlyAcceptable'
<1>1. att' = att /\ task' = task /\ sem' = sem /\ result \in [Args -> Nat]
  BY DEF Enum!Next, Enum!List, Enum!Finish, Enum!Refuse, Enum!vars, TypeOK
<1>2. CASE result' = result
  BY <1>1, <1>2 DEF ListsOnlyAcceptable
<1>3. CASE Enum!Finish
  <2>1. result' = Listing(Goal)
    BY <1>3, EnumGoal, EnumLists DEF Enum!Finish
  <2> QED  BY <1>1, <2>1 DEF Listing, ListsOnlyAcceptable, Goal
<1>4. CASE \E S \in SUBSET Args : Enum!List(S)
  <2>1. PICK S \in SUBSET Args : Enum!List(S)
    BY <1>4
  <2>2. result' = Push(result, S) /\ \A i \in S : i \in Goal /\ result[i] = 0
    BY <2>1, EnumGoal, EnumLists DEF Enum!List
  <2> QED  BY <1>1, <2>2 DEF Push, ListsOnlyAcceptable, Goal
<1> QED  BY <1>2, <1>3, <1>4, EnumLists DEF Enum!Next, Enum!Refuse, Enum!vars

\* A failure during see_skep costs the books, and nothing else.
LEMMA SkepBrokenStep ==
    ASSUME BuildInv, SkepBroken, wrapper = "external", wrapper' = wrapper, failed' = TRUE
    PROVE  Base' /\ Misled' /\ MisledSkep' /\ ListsOnlyAcceptable'
<1>1. /\ pc = "skep" /\ pc' = "skep" /\ result' = result
      /\ att' = att /\ task' = task /\ sem' = sem
  BY DEF SkepBroken
<1>2. task = "ES" /\ result = Nothing
  BY <1>1 DEF BuildInv, Base, Phase, Books, MisledSkep
<1> QED  BY <1>1, <1>2, ExtSkepBase DEF BuildInv, Misled, MisledSkep, ListsOnlyAcceptable

\* Once it is misled see_skep still ends with accepted arguments only.
LEMMA MisledStep ==
    ASSUME BuildInv, Misled, [BuildNext]_buildVars
    PROVE  Base' /\ Misled' /\ MisledSkep' /\ ListsOnlyAcceptable'
<1>1. CASE UNCHANGED buildVars
  BY <1>1 DEF buildVars, vars, BuildInv, Base, TypeOK, Phase, Sound, NothingLost,
        StaleIsVisited, Misled, MisledSkep, ListsOnlyAcceptable, CredEncoding
<1>2. CASE ~ UNCHANGED buildVars
  <2>1. External /\ task = "ES" /\ wrapper' = "external" /\ failed' = TRUE
        /\ pc \in {"skep", "done"}
    BY <1>2 DEF BuildNext, Library, Kissat, KissatSat, Aborted, External, BuildInv, Misled,
                MisledSkep
  <2>2. ExtSkepSat \/ SkepBroken \/ SkepUnsat
    BY <1>2, <2>1 DEF External, ExtAnswered, ExtBroken, CredStart, ExtCredSat, CredUnsat,
            CredBroken, SkepStart, Unsupported, Ended, buildVars
  <2>3. CASE ExtSkepSat \/ SkepBroken
    BY <2>1, <2>3, ExtSkepBase DEF ExtSkepSat, SkepBroken, BuildInv, Misled, MisledSkep,
            ListsOnlyAcceptable
  <2>4. CASE SkepUnsat
    <3>1. /\ pc = "skep" /\ pc' = "done" /\ att' = att /\ task' = task /\ sem' = sem
          /\ Answers(solver) = {} /\ solver' = AfterUnsat(solver)
          /\ result' = Push(Nothing, included)
      BY <2>4 DEF SkepUnsat, BuildInv, Misled, MisledSkep
    <3>2. Base'
      <4>1. TypeOK'
        BY <2>4, TypeStep DEF Next, BuildInv, Base
      <4>2. solver'.assumptions = {}
        BY <3>1, CountType, SolverFields DEF BuildInv, Base, TypeOK
      <4> QED  BY <3>1, <4>1, <4>2 DEF Base, Phase, Sound, NothingLost, StaleIsVisited
    <3>3. included \subseteq Goal /\ included \in SUBSET Args
      BY <3>1, IncludedAccepted DEF BuildInv, Base, TypeOK
    <3>4. ListsOnlyAcceptable'
      BY <3>1, <3>3 DEF Push, Nothing, ListsOnlyAcceptable, Goal
    <3> QED  BY <2>1, <3>1, <3>2, <3>4 DEF Misled, MisledSkep
  <2> QED  BY <2>2, <2>3, <2>4
<1> QED  BY <1>1, <1>2

\* The problem does not change.
LEMMA TaskFixed == [BuildNext]_buildVars => task' = task
  BY DEF BuildNext, buildVars, vars, Library, External, Kissat, KissatSat, Aborted, Next,
         ExtAnswered, ExtBroken, CredStart, CredSat, ExtCredSat, CredBroken, CredUnsat,
         SkepStart, SkepSat, ExtSkepSat, SkepBroken, SkepUnsat, Unsupported, Ended

\* The parts of the invariant other than Kissat's.
LEMMA BuildStep ==
    ASSUME BuildInv, [BuildNext]_buildVars
    PROVE  /\ Base' /\ (Misled' \/ Books') /\ MisledSkep' /\ ListsOnlyAcceptable'
           /\ Misled' \/ [Enum!Next]_Enum!vars
<1>1. CASE Misled
  BY <1>1, MisledStep
<1>2. CASE ~ Misled /\ Misled'
  <2>1. ExtBroken /\ wrapper = "external" /\ wrapper' = wrapper /\ failed' = TRUE
    BY <1>2, TaskFixed DEF BuildNext, Library, External, Kissat, KissatSat, Aborted, buildVars,
            Misled
  <2>2. SkepBroken
    BY <1>2, <2>1, TaskFixed DEF ExtBroken, CredBroken, Misled, BuildInv, Base, Phase
  <2> QED  BY <2>1, <2>2, SkepBrokenStep
<1>3. CASE ~ Misled /\ ~ Misled'
  <2>1. ExtInv
    BY <1>3 DEF BuildInv, Base, ExtInv, IInv
  <2>2. ExtInv' /\ [Enum!Next]_Enum!vars
    BY <1>3, <2>1, SharedStep
  <2>3. ListsOnlyAcceptable'
    BY <2>2, EnumListsOnly DEF BuildInv, Base
  <2>4. failed' \in BOOLEAN
    BY DEF BuildInv, MisledSkep, BuildNext, buildVars, Library, External, Kissat, KissatSat,
           Aborted
  <2> QED  BY <1>3, <2>2, <2>3, <2>4 DEF ExtInv, IInv, Base, MisledSkep
<1> QED  BY <1>1, <1>2, <1>3

\* A Kissat build keeps all models of its encoding up to its first answer.
LEMMA KissatStep ==
    ASSUME BuildInv, [BuildNext]_buildVars
    PROVE  Untouched' /\ KissatFindsNothing'
<1>1. CASE UNCHANGED vars /\ wrapper' = wrapper
  BY <1>1 DEF BuildInv, Untouched, KissatFindsNothing, vars, CredEncoding
<1>2. CASE wrapper' = wrapper /\ wrapper # "kissat"
  BY <1>2 DEF Untouched, KissatFindsNothing
<1>3. CASE Kissat
  <2>1. wrapper' = wrapper /\ wrapper = "kissat"
    BY <1>3 DEF Kissat
  <2>2. CASE CredStart
    BY <2>2 DEF CredStart, NewSolver, Untouched, KissatFindsNothing, CredEncoding
  <2>3. CASE SkepStart
    BY <2>3 DEF SkepStart, NewSolver, Untouched, KissatFindsNothing
  <2>4. CASE CredUnsat \/ SkepUnsat
    <3>1. pc \in {"cred", "skep"} /\ pc' = "done" /\ att' = att /\ sem' = sem
      BY <2>4 DEF CredUnsat, SkepUnsat
    <3>2. solver.models = {}
      BY <2>4, UnassumedAnswers DEF CredUnsat, SkepUnsat, BuildInv, Base, Phase
    <3>3. Extensions(att, sem) = {}
      BY <2>1, <3>1, <3>2, NoModelNoExtension DEF BuildInv, Untouched
    <3> QED  BY <3>1, <3>3 DEF Untouched, KissatFindsNothing
  <2>5. CASE Unsupported
    BY <2>5 DEF Unsupported, Untouched, KissatFindsNothing
  <2>6. CASE Ended
    BY <1>1, <2>1, <2>6 DEF Ended
  <2> QED  BY <1>3, <2>2, <2>3, <2>4, <2>5, <2>6 DEF Kissat
<1> QED  BY <1>1, <1>2, <1>3 DEF BuildNext, buildVars, Library, External, KissatSat, Aborted

\* The inductive invariant of the builds.
THEOREM BuildInvariant == BuildSpec => []BuildInv
<1>1. BuildInit => BuildInv
  <2> SUFFICES ASSUME BuildInit PROVE BuildInv
    OBVIOUS
  <2>1. ExtInv
    BY ExtInit DEF BuildInit
  <2>2. ListsOnlyAcceptable
    BY DEF BuildInit, Init, Nothing, ListsOnlyAcceptable
  <2> QED  BY <2>1, <2>2 DEF BuildInit, Init, BuildInv, ExtInv, IInv, Base, Misled,
              MisledSkep, Untouched, KissatFindsNothing
<1>2. BuildInv /\ [BuildNext]_buildVars => BuildInv'
  BY BuildStep, KissatStep DEF BuildInv
<1> QED  BY <1>1, <1>2, PTL DEF BuildSpec

\* A Kissat build, whose process aborts after its first answer, only answers
\* when there is no extension to be found.
THEOREM KissatFindsNothingAlways == BuildSpec => []KissatFindsNothing
<1>1. BuildInv => KissatFindsNothing
  BY DEF BuildInv
<1> QED  BY <1>1, BuildInvariant, PTL

\* Whatever external processes fail, and when, no build of SEE.cpp lists an
\* argument that is not acceptable, or one twice.
THEOREM ListsOnlyAcceptableAlways == BuildSpec => []ListsOnlyAcceptable
<1>1. BuildInv => ListsOnlyAcceptable
  BY DEF BuildInv
<1> QED  BY <1>1, BuildInvariant, PTL

\* SEE.cpp implements Enumeration over each of its wrappers, in spite of stale
\* model entries and of processes that fail during see_cred; the exception,
\* see_skep after a failure, is in the statement.
THEOREM BuildRefinement == BuildSpec => ImplementsUnlessMisled
<1>1. BuildInit => Enum!Init
  BY EnumInit DEF BuildInit
<1>2. BuildInv /\ [BuildNext]_buildVars => [Enum!Next \/ Misled']_Enum!vars
  BY BuildStep
<1> QED  BY <1>1, <1>2, BuildInvariant, PTL DEF BuildSpec, ImplementsUnlessMisled

-----------------------------------------------------------------------------
(***************************************************************************)
(* FindsNew.  Once a clause has excluded something, only models that show  *)
(* something new are left (Selective): the clause that a round adds names  *)
(* what is still unvisited, or included, after it.  An answer that shows   *)
(* nothing new is therefore given before, and its own clause excludes it.  *)
(***************************************************************************)
Selective ==
    /\ pc = "cred" => Fresh \/ \A B \in solver.models : DecisionPart(B) \cap unvisited # {}
    /\ pc = "skep" => Fresh \/ \A B \in solver.models : ~ (included \subseteq DecisionPart(B))

\* The models a round of see_cred leaves are those with an argument that is
\* unvisited after it.
LEMMA CredRoundLeaves ==
    ASSUME Base, pc = "cred", NEW s \in Solvers(count), s.models = solver.models, CredRound(s)
    PROVE  /\ unvisited' = unvisited \ s.model
           /\ solver'.models = {B \in solver.models : DecisionPart(B) \cap unvisited' # {}}
<1> DEFINE c == {accepted_var(i) : i \in unvisited \ s.model}
<1>1. unvisited' = unvisited \ s.model /\ solver' = add_clause(s, c)
  BY DEF CredRound
<1>2. \A B : Satisfies(B, c) <=> DecisionPart(B) \cap (unvisited \ s.model) # {}
  <2>1. PICK S \in SUBSET Args : S = unvisited \ s.model
    BY DEF Base, TypeOK
  <2>2. \A B : Satisfies(B, {accepted_var(i) : i \in S}) <=> S \cap DecisionPart(B) # {}
    BY <2>1, AcceptedClause
  <2> QED  BY <2>1, <2>2
<1> HIDE DEF c
<1>3. solver'.models = {B \in solver.models : Satisfies(B, c)}
  BY <1>1, CountType, ClauseFields
<1> QED  BY <1>1, <1>2, <1>3

\* The models a round of see_skep leaves are those without an argument that
\* is included after it.
LEMMA SkepRoundLeaves ==
    ASSUME Base, pc = "skep", NEW s \in Solvers(count), s.models = solver.models, SkepRound(s)
    PROVE  /\ included' = included \cap s.model
           /\ solver'.models = {B \in solver.models : ~ (included' \subseteq DecisionPart(B))}
<1> DEFINE c == {rejected_var(i) : i \in included \cap s.model}
<1>1. included' = included \cap s.model /\ solver' = add_clause(s, c)
  BY DEF SkepRound
<1>2. \A B \in solver.models :
        Satisfies(B, c) <=> ~ (included \cap s.model \subseteq DecisionPart(B))
  <2>1. /\ included \cap s.model \in SUBSET Args /\ att \in Relations
        /\ solver.models \subseteq Models(count, stable(att))
    BY DEF Base, TypeOK, Sound
  <2> QED  BY <2>1, RejectedClause
<1> HIDE DEF c
<1>3. solver'.models = {B \in solver.models : Satisfies(B, c)}
  BY <1>1, CountType, ClauseFields
<1> QED  BY <1>1, <1>2, <1>3

\* In a round of see_cred the solver hands over a state with the same models,
\* and an answer in full shows the whole extension.
LEMMA CredHandsOver ==
    ASSUME ExtInv, pc = "cred"
    PROVE  /\ CredSat => \E A \in solver.models :
                /\ CredRound(AfterSat(solver, A)) /\ AfterSat(solver, A) \in Solvers(count)
                /\ AfterSat(solver, A).models = solver.models
                /\ DecisionPart(A) \subseteq AfterSat(solver, A).model
           /\ ExtCredSat => \E A \in solver.models :
                /\ CredRound(AfterOutput(solver, A, N))
                /\ AfterOutput(solver, A, N) \in Solvers(count)
                /\ AfterOutput(solver, A, N).models = solver.models
                /\ DecisionPart(A) \subseteq AfterOutput(solver, A, N).model
           /\ CredBroken => \E s \in Solvers(count) : CredRound(s) /\ s.models = solver.models
<1>1. solver \in Solvers(count) /\ count \in Nat /\ N \in Nat /\ Answers(solver) = solver.models
  BY CountType, NAssumption, UnassumedAnswers DEF ExtInv, IInv, TypeOK, Phase
<1>2. ASSUME CredSat
      PROVE  \E A \in solver.models :
                /\ CredRound(AfterSat(solver, A)) /\ AfterSat(solver, A) \in Solvers(count)
                /\ AfterSat(solver, A).models = solver.models
                /\ DecisionPart(A) \subseteq AfterSat(solver, A).model
  BY <1>1, <1>2, SolverTypes, SolverFields DEF CredSat
<1>3. ASSUME ExtCredSat
      PROVE  \E A \in solver.models :
                /\ CredRound(AfterOutput(solver, A, N))
                /\ AfterOutput(solver, A, N) \in Solvers(count)
                /\ AfterOutput(solver, A, N).models = solver.models
                /\ DecisionPart(A) \subseteq AfterOutput(solver, A, N).model
  <2>1. PICK A \in Answers(solver) : CredRound(AfterOutput(solver, A, N))
    BY <1>3 DEF ExtCredSat
  <2> QED  BY <1>1, <2>1, OutputFields, WholeAnswer
<1>4. ASSUME CredBroken
      PROVE  \E s \in Solvers(count) : CredRound(s) /\ s.models = solver.models
  <2>1. PICK s \in BrokenOutputs(solver) : CredRound(s)
    BY <1>4 DEF CredBroken
  <2> QED  BY <2>1, OutputsAcceptable
<1> QED  BY <1>2, <1>3, <1>4

\* The same of see_skep, where only the library is sure to show an argument
\* that the extension lacks.
LEMMA SkepHandsOver ==
    ASSUME Base, pc = "skep"
    PROVE  /\ SkepSat => \E A \in solver.models :
                /\ SkepRound(AfterSat(solver, A)) /\ AfterSat(solver, A) \in Solvers(count)
                /\ AfterSat(solver, A).models = solver.models
                /\ AfterSat(solver, A).model = DecisionPart(A)
           /\ ExtSkepSat \/ SkepBroken => \E s \in Solvers(count) : SkepRound(s) /\ s.models = solver.models
<1>1. solver \in Solvers(count) /\ count \in Nat /\ N \in Nat /\ Answers(solver) = solver.models
  BY CountType, NAssumption, UnassumedAnswers DEF Base, TypeOK, Phase
<1>2. ASSUME SkepSat
      PROVE  \E A \in solver.models :
                /\ SkepRound(AfterSat(solver, A)) /\ AfterSat(solver, A) \in Solvers(count)
                /\ AfterSat(solver, A).models = solver.models
                /\ AfterSat(solver, A).model = DecisionPart(A)
  BY <1>1, <1>2, SolverTypes, SolverFields DEF SkepSat
<1>3. ASSUME ExtSkepSat \/ SkepBroken
      PROVE  \E s \in Solvers(count) : SkepRound(s) /\ s.models = solver.models
  <2>1. PICK s \in BrokenOutputs(solver) \cup {AfterOutput(solver, A, N) : A \in Answers(solver)} :
          SkepRound(s)
    BY <1>3 DEF ExtSkepSat, SkepBroken
  <2> QED  BY <2>1, SkepOutputs
<1> QED  BY <1>2, <1>3

\* Every step of any build keeps the solver selective.
LEMMA SelectiveStep ==
    ASSUME Base, Misled \/ Books, MisledSkep, Selective, [BuildNext]_buildVars
    PROVE  Selective'
<1>1. CASE CredSat \/ ExtCredSat \/ CredBroken
  <2>1. pc = "cred" /\ pc' = "cred"
    BY <1>1 DEF CredSat, ExtCredSat, CredBroken
  <2>0. ExtInv
    BY <2>1 DEF Base, Misled, MisledSkep, ExtInv, IInv
  <2>2. PICK s \in Solvers(count) : CredRound(s) /\ s.models = solver.models
    BY <1>1, <2>0, <2>1, CredHandsOver
  <2>3. solver'.models = {B \in solver.models : DecisionPart(B) \cap unvisited' # {}}
    BY <2>1, <2>2, CredRoundLeaves
  <2> QED  BY <2>1, <2>3 DEF Selective
<1>2. CASE SkepSat \/ ExtSkepSat \/ SkepBroken
  <2>1. pc = "skep" /\ pc' = "skep"
    BY <1>2 DEF SkepSat, ExtSkepSat, SkepBroken
  <2>2. PICK s \in Solvers(count) : SkepRound(s) /\ s.models = solver.models
    BY <1>2, <2>1, SkepHandsOver
  <2>3. solver'.models = {B \in solver.models : ~ (included' \subseteq DecisionPart(B))}
    BY <2>1, <2>2, SkepRoundLeaves
  <2> QED  BY <2>1, <2>3 DEF Selective
<1>3. CASE CredStart \/ SkepStart
  BY <1>3 DEF CredStart, SkepStart, NewSolver, Selective, Fresh, CredEncoding
<1>4. CASE CredUnsat \/ SkepUnsat \/ Unsupported
  BY <1>4 DEF CredUnsat, SkepUnsat, Unsupported, Selective
<1>5. CASE UNCHANGED vars
  BY <1>5 DEF vars, Selective, Fresh, CredEncoding
<1> QED  BY <1>1, <1>2, <1>3, <1>4, <1>5 DEF BuildNext, buildVars, Library, External,
            Kissat, KissatSat, Aborted, Next, ExtAnswered, ExtBroken, Ended

\* An answer to see_cred in full that shows nothing new is the first that does.
LEMMA CredFindsNew ==
    ASSUME ExtInv, Selective, CredSat \/ ExtCredSat, unvisited' = unvisited
    PROVE  Fresh /\ ~ Fresh'
<1>1. /\ pc = "cred" /\ pc' = "cred" /\ att' = att /\ sem' = sem
      /\ unvisited \in SUBSET Args
  BY DEF CredSat, ExtCredSat, ExtInv, IInv, TypeOK
<1>2. PICK A \in solver.models, s \in Solvers(count) :
        CredRound(s) /\ s.models = solver.models /\ DecisionPart(A) \subseteq s.model
  BY <1>1, CredHandsOver
<1>3. /\ unvisited' = unvisited \ s.model
      /\ solver'.models = {B \in solver.models : DecisionPart(B) \cap unvisited' # {}}
  BY <1>1, <1>2, CredRoundLeaves DEF ExtInv, IInv, Base
<1>4. DecisionPart(A) \cap unvisited = {}
  BY <1>2, <1>3
<1>5. Fresh
  BY <1>1, <1>2, <1>4 DEF Selective
<1>6. A \in Models(count, CredEncoding) /\ A \notin solver'.models
  BY <1>1, <1>2, <1>3, <1>4, <1>5 DEF Fresh
<1>7. ~ Fresh'
  BY <1>1, <1>6 DEF Fresh, CredEncoding
<1> QED  BY <1>5, <1>7

\* An answer of a library to see_skep that shows nothing new is the first that
\* does.
LEMMA SkepFindsNew ==
    ASSUME Base, Selective, SkepSat, included' = included
    PROVE  Fresh /\ ~ Fresh'
<1>1. /\ pc = "skep" /\ pc' = "skep" /\ att' = att
  BY DEF SkepSat
<1>2. PICK A \in solver.models, s \in Solvers(count) :
        SkepRound(s) /\ s.models = solver.models /\ s.model = DecisionPart(A)
  BY <1>1, SkepHandsOver
<1>3. /\ included' = included \cap s.model
      /\ solver'.models = {B \in solver.models : ~ (included' \subseteq DecisionPart(B))}
  BY <1>1, <1>2, SkepRoundLeaves
<1>4. included \subseteq DecisionPart(A)
  BY <1>2, <1>3
<1>5. Fresh
  BY <1>1, <1>2, <1>4 DEF Selective
<1>6. A \in Models(count, stable(att)) /\ A \notin solver'.models
  BY <1>1, <1>2, <1>3, <1>4, <1>5 DEF Fresh
<1>7. ~ Fresh'
  BY <1>1, <1>6 DEF Fresh
<1> QED  BY <1>5, <1>7

\* Every answer of a library, and every answer in full of an external process
\* to see_cred, shows something new, but for one that its clause excludes.
THEOREM FindsNewAlways == BuildSpec => FindsNew
<1> DEFINE News ==
        (Library \/ CredAnswered) /\ pc' = pc =>
            \/ unvisited' # unvisited
            \/ included' # included
            \/ Fresh /\ ~ Fresh'
<1>1. BuildInit => Selective
  BY DEF BuildInit, Init, Selective
<1>2. BuildInv /\ Selective /\ [BuildNext]_buildVars => Selective'
  BY SelectiveStep DEF BuildInv
<1>3. ASSUME BuildInv, Selective, BuildNext PROVE News \/ UNCHANGED buildVars
  <2> SUFFICES ASSUME Library \/ CredAnswered, pc' = pc, unvisited' = unvisited,
                      included' = included
               PROVE  (Fresh /\ ~ Fresh') \/ UNCHANGED buildVars
    OBVIOUS
  <2>1. CredSat \/ ExtCredSat \/ SkepSat \/ UNCHANGED buildVars
    BY DEF Library, CredAnswered, Next, CredStart, CredUnsat, SkepStart, SkepUnsat,
           Unsupported, Ended, buildVars
  <2>2. Base /\ (CredSat \/ ExtCredSat => ExtInv)
    BY <1>3 DEF BuildInv, Base, MisledSkep, ExtInv, IInv, CredSat, ExtCredSat
  <2> QED  BY <1>3, <2>1, <2>2, CredFindsNew, SkepFindsNew
<1>4. BuildInv /\ Selective /\ [BuildNext]_buildVars => [News]_buildVars
  BY <1>3
<1> QED  BY <1>1, <1>2, <1>4, BuildInvariant, PTL DEF BuildSpec, FindsNew
=============================================================================
