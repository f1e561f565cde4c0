----------------------------- MODULE EEEProofs -----------------------------
(***************************************************************************)
(* EEE.cpp is correct for every number of arguments and every framework,   *)
(* whatever models the solver returns, whatever is stale in the vector an  *)
(* external solver fills, and whenever its process fails during eee_cred   *)
(* (ES-PR apart): type correctness, that growing ends in preferred         *)
(* extensions and skips none, and the refinement of Enumeration.  After a  *)
(* failure eee_skep is not right, and then lists nothing wrong.            *)
(***************************************************************************)
EXTENDS EEEBuilds, EncodingLemmas

(***************************************************************************)
(* The inductive invariant.                                                *)
(*                                                                         *)
(* Phase: which problem is being solved, and what is pending in the        *)
(* solver.  While an extension grows, the assumptions are its arguments.   *)
(*                                                                         *)
(* Sound: the solver only knows extensions; the set being grown is one.    *)
(*                                                                         *)
(* Books: what has been recorded, compared with what is acceptable.        *)
(*                                                                         *)
(* Closed(Q): the preferred extension Q has been taken into account, no    *)
(* subset of it is open any more, and the set being grown is not one.      *)
(*                                                                         *)
(* Blocked: a complete extension that is not open any more lies within the *)
(* set being grown or within a closed extension.                           *)
(***************************************************************************)
Goal == Acceptable(att, task, sem)

Phase ==
    /\ pc = "start" => /\ result = Nothing /\ included = {} /\ extension = {}
                       /\ noFurther = TRUE
    /\ pc = "cred" => task = "EC" /\ sem \in {"CO", "PR", "ST"}
    /\ pc = "grow" => task = "ES" /\ sem = "PR"
    /\ pc = "stable" => task = "ES" /\ sem = "ST"
    /\ pc \in {"cred", "stable"} => solver.assumptions = {}
    /\ pc = "grow" =>
         solver.assumptions = IF noFurther THEN {}
                              ELSE {accepted_var(i) : i \in extension}

Sound ==
    /\ pc = "cred" => solver.models \subseteq Models(count, CredEncoding)
    /\ pc = "grow" => solver.models \subseteq Models(count, complete(att))
    /\ pc = "grow" => IF noFurther THEN extension = {} ELSE Complete(att, extension)
    /\ pc = "stable" => solver.models \subseteq Models(count, stable(att))

Books ==
    /\ pc = "cred" => /\ result = Listing(included)
                      /\ solver.model \subseteq included
                      /\ included \subseteq Goal
    /\ pc \in {"grow", "stable"} => result = Nothing /\ Goal \subseteq included

Closed(Q) ==
    /\ Preferred(att, Q)
    /\ included \subseteq Q
    /\ \A B \in solver.models : ~ (DecisionPart(B) \subseteq Q)
    /\ noFurther \/ ~ (extension \subseteq Q)

Blocked ==
    pc = "grow" =>
        \A A \in Models(count, complete(att)) :
            \/ A \in solver.models
            \/ ~ noFurther /\ DecisionPart(A) \subseteq extension
            \/ \E Q \in SUBSET Args : Closed(Q) /\ DecisionPart(A) \subseteq Q

\* What every round keeps, with a whole answer or without.
Base == TypeOK /\ Phase /\ Sound /\ Blocked /\ NoExtensionMissed

IInv == Base /\ Books

\* What is acceptable are arguments.
LEMMA GoalType == Goal \in SUBSET Args
  BY DEF Goal, Acceptable, Credulous, Skeptical

\* The clause of eee_cred excludes one extension and no other.
LEMMA BlockingClause ==
    ASSUME NEW A, NEW E \in SUBSET Args
    PROVE  Satisfies(A, Blocking(E)) <=> DecisionPart(A) # E
<1> DEFINE c == {-accepted_var(i) : i \in E}
           d == {accepted_var(i) : i \in Args \ E}
<1>1. Satisfies(A, Blocking(E)) <=> Satisfies(A, c) \/ Satisfies(A, d)
  BY DEF Blocking, Satisfies
<1>2. Satisfies(A, c) <=> ~ (E \subseteq DecisionPart(A))
  BY RefusedClause
<1>3. Satisfies(A, d) <=> (Args \ E) \cap DecisionPart(A) # {}
  BY AcceptedClause
<1> HIDE DEF c, d
<1> QED  BY <1>1, <1>2, <1>3, DecisionPartType

-----------------------------------------------------------------------------
(***************************************************************************)
(* The refinement.  Enumeration has its own copies of the definitions of   *)
(* Argumentation; they mean the same.                                      *)
(***************************************************************************)

\* The goal of the abstract specification is the one of this module.
LEMMA EnumGoal == Enum!Goal = Goal
  BY DEF Enum!Goal, Enum!Acceptable, Enum!Credulous, Enum!Skeptical,
         Enum!Extensions, Enum!IsExtension, Enum!Complete, Enum!Preferred,
         Enum!Stable, Enum!Admissible, Enum!ConflictFree, Enum!Defends, Enum!Args,
         Goal, Acceptable, Credulous, Skeptical, Extensions, IsExtension,
         Complete, Preferred, Stable, Admissible, ConflictFree, Defends, Args

\* The lists of the abstract specification are the ones of this module.
LEMMA EnumLists ==
    /\ Enum!Nothing = Nothing
    /\ \A S : Enum!Listing(S) = Listing(S)
    /\ \A r, S : Enum!Push(r, S) = Push(r, S)
    /\ Enum!Args = Args
  BY DEF Enum!Nothing, Enum!Listing, Enum!Push, Enum!Args, Nothing, Listing, Push, Args

\* EEE.cpp starts where Enumeration does.
LEMMA EnumInit == Init => Enum!Init
<1> SUFFICES ASSUME Init PROVE Enum!Init
  OBVIOUS
<1>1. Enum!Relations = Relations /\ Enum!Tasks = Tasks /\ Enum!Semantics = Semantics
  BY DEF Enum!Relations, Enum!Tasks, Enum!Semantics, Enum!Args, Relations, Tasks,
         Semantics, Args
<1> QED  BY <1>1, EnumLists, FrameworksAssumption DEF Init, Enum!Init, Over

\* A loop that has recorded the goal ends as Enumeration does.
LEMMA EnumFinish ==
    ASSUME pc \in {"cred", "grow", "stable"}, pc' = "done", Phase,
           UNCHANGED <<att, task, sem>>, result' = Listing(Goal)
    PROVE  Enum!Next
<1>1. Enum!Supported
  BY DEF Enum!Supported, Problems, Phase
<1>2. Enum!Finish
  BY <1>1, EnumGoal, EnumLists DEF Enum!Finish, Over
<1> QED  BY <1>2 DEF Enum!Next

\* The same for a loop that lists what it has kept included at its end.
LEMMA EnumFinishSkep ==
    ASSUME pc \in {"grow", "stable"}, pc' = "done", Phase, UNCHANGED <<att, task, sem>>,
           result = Nothing, result' = Push(result, included), included = Goal
    PROVE  Enum!Next
<1>1. Push(Listing({}), Goal) = Listing({} \cup Goal)
  BY GoalType, ListingGrows
<1>2. result' = Listing(Goal)
  BY <1>1, NothingListed
<1> QED  BY <1>2, EnumFinish

-----------------------------------------------------------------------------
(***************************************************************************)
(* eee_cred, and eee_skep under stable semantics.  A round is right for    *)
(* every wrapper whose model vector holds at least the answer and, beyond  *)
(* it, only what an earlier answer left there.                             *)
(***************************************************************************)

\* What a round of a loop sees: AfterSat for a library, AfterOutput for an
\* external process that answers.
Rounds == {AfterSat(solver, A) : A \in Answers(solver)}
            \cup {AfterOutput(solver, A, N) : A \in Answers(solver)}

\* The model vector after an answer, or after the process failed.
LEMMA RoundModel ==
    ASSUME TypeOK, solver.assumptions = {}, NEW s \in Rounds \cup BrokenOutputs(solver)
    PROVE  /\ s \in Solvers(count) /\ s.models = solver.models /\ s.assumptions = {}
           /\ \A i \in s.model \ solver.model : \E A \in solver.models : i \in DecisionPart(A)
<1>1. solver \in Solvers(count) /\ count \in Nat /\ Answers(solver) = solver.models
  BY CountType, UnassumedAnswers DEF TypeOK
<1>2. CASE \E A \in solver.models : s = AfterSat(solver, A)
  BY <1>1, <1>2, SolverTypes, SolverFields
<1>3. CASE \E A \in solver.models, m \in 0 .. N : s = AfterOutput(solver, A, m)
  <2>1. PICK A \in solver.models, m \in 0 .. N : s = AfterOutput(solver, A, m)
    BY <1>3
  <2>2. /\ s \in Solvers(count) /\ s.models = solver.models /\ s.assumptions = {}
        /\ s.model \subseteq solver.model \cup DecisionPart(A)
    BY <1>1, <2>1, OutputFields
  <2> QED  BY <2>2
<1>4. CASE s = AfterSilence(solver)
  BY <1>1, <1>4 DEF AfterSilence, Solvers
<1>5. 0 .. (N - 1) \subseteq 0 .. N /\ N \in 0 .. N
  BY NAssumption
<1> QED  BY <1>1, <1>2, <1>3, <1>4, <1>5 DEF Rounds, BrokenOutputs

\* A whole answer leaves no accepted argument out of the vector.
LEMMA WholeRound ==
    ASSUME TypeOK, solver.assumptions = {}, NEW s \in Rounds
    PROVE  \E A \in solver.models : DecisionPart(A) \subseteq s.model
<1>1. solver \in Solvers(count) /\ count \in Nat
  BY CountType DEF TypeOK
<1>2. PICK A \in solver.models : s \in {AfterSat(solver, A), AfterOutput(solver, A, N)}
  BY UnassumedAnswers DEF Rounds
<1>3. CASE s = AfterSat(solver, A)
  BY <1>1, <1>3, SolverFields
<1>4. CASE s = AfterOutput(solver, A, N)
  BY <1>1, <1>4, WholeAnswer
<1> QED  BY <1>2, <1>3, <1>4

\* eee_cred starts with every model of its encoding.
LEMMA CredStartInv == IInv /\ CredStart => IInv' /\ [Enum!Next]_Enum!vars
<1> SUFFICES ASSUME IInv, CredStart PROVE IInv' /\ [Enum!Next]_Enum!vars
  OBVIOUS
<1>1. TypeOK'
  BY CountType, NewSolverType DEF IInv, Base, TypeOK, CredStart
<1>2. CredEncoding' = CredEncoding
  BY DEF CredStart, CredEncoding
<1>3. /\ solver'.models = Models(count, CredEncoding)
      /\ solver'.assumptions = {} /\ solver'.model = {}
  BY DEF CredStart, NewSolver
<1>4. result' = Listing(included') /\ included' = {}
  BY NothingListed DEF IInv, Base, Phase, CredStart
<1>5. Phase' /\ Sound' /\ Books' /\ Blocked' /\ NoExtensionMissed'
  BY <1>2, <1>3, <1>4 DEF CredStart, Phase, Sound, Books, Blocked, NoExtensionMissed
<1>6. UNCHANGED Enum!vars
  BY DEF CredStart, Over, Enum!vars
<1> QED  BY <1>1, <1>5, <1>6 DEF IInv, Base

\* A round of eee_cred lists what is new in the model, which is acceptable,
\* and excludes an extension whose arguments are then all listed.
LEMMA CredRoundInv ==
    ASSUME IInv, pc = "cred", NEW s \in Rounds \cup BrokenOutputs(solver), CredRound(s),
           UNCHANGED <<att, task, sem, pc, extension, noFurther>>
    PROVE  IInv' /\ [Enum!Next]_Enum!vars
<1> DEFINE M == s.model
           c == Blocking(M)
<1>1. /\ included' = included \cup M
      /\ result' = Push(result, M \ included)
      /\ solver' = add_clause(s, c)
  BY DEF CredRound
<1>2. /\ pc' = "cred" /\ att' = att /\ task' = task /\ sem' = sem
      /\ task = "EC" /\ sem \in {"CO", "PR", "ST"} /\ solver.assumptions = {}
      /\ included \in SUBSET Args /\ att \in Relations
      /\ result = Listing(included) /\ included \subseteq Goal
      /\ solver.model \subseteq included
  BY DEF IInv, Base, Phase, Books, TypeOK
<1>3. CredEncoding' = CredEncoding /\ Goal' = Goal
  BY <1>2 DEF CredEncoding, Goal
<1>4. /\ s \in Solvers(count) /\ s.models = solver.models /\ s.assumptions = {}
      /\ M \in SUBSET Args
  BY <1>2, RoundModel DEF IInv, Base, Solvers
<1>5. M \subseteq Goal
  <2>1. \A i \in M \ solver.model : \E A \in solver.models : i \in DecisionPart(A)
    BY <1>2, RoundModel DEF IInv, Base
  <2>2. solver.models \subseteq Models(count, CredEncoding)
    BY DEF IInv, Base, Sound
  <2>3. \A A \in solver.models : DecisionPart(A) \subseteq Goal
    BY <1>2, <2>2, CredulousModels, DecisionPartType DEF Goal, CredEncoding
  <2> QED  BY <1>2, <2>1, <2>3
<1> HIDE DEF c
<1>6. /\ solver' \in Solvers(count)
      /\ solver'.models = {B \in solver.models : Satisfies(B, c)}
      /\ solver'.assumptions = {} /\ solver'.model = M
  BY <1>1, <1>4, CountType, ClauseFields
<1> HIDE DEF M
<1>7. TypeOK'
  <2>1. result' \in [Args -> Nat]
    BY <1>1, PushType DEF IInv, Base, TypeOK
  <2> QED  BY <1>1, <1>2, <1>4, <1>6, <2>1 DEF IInv, Base, TypeOK
<1>8. Phase' /\ Sound' /\ Blocked'
  BY <1>2, <1>3, <1>6 DEF Phase, Sound, Blocked, IInv, Base
<1>9. Books'
  <2>1. Push(Listing(included), M \ included) = Listing(included \cup (M \ included))
    BY <1>2, <1>4, ListingGrows
  <2>2. included \cup (M \ included) = included'
    BY <1>1
  <2> QED  BY <1>1, <1>2, <1>3, <1>5, <1>6, <2>1, <2>2 DEF Books
<1>10. NoExtensionMissed'
  <2> SUFFICES ASSUME NEW B \in Models(count, CredEncoding), B \notin solver'.models
               PROVE  DecisionPart(B) \subseteq included'
    BY <1>2, <1>3 DEF NoExtensionMissed
  <2>1. CASE B \in solver.models
    BY <1>1, <1>4, <1>6, <2>1, BlockingClause DEF c
  <2>2. CASE B \notin solver.models
    BY <1>1, <1>2, <2>2 DEF IInv, Base, NoExtensionMissed
  <2> QED  BY <2>1, <2>2
<1>11. Enum!Next
  <2> DEFINE new == M \ included
  <2>1. new \subseteq Goal /\ new \in SUBSET Args
    BY <1>4, <1>5
  <2>2. \A i \in new : result[i] = 0
    BY <1>2, <2>1 DEF Listing
  <2>3. Enum!Supported
    BY <1>2 DEF Enum!Supported, Problems
  <2>4. result' = Push(result, new)
    BY <1>1
  <2> HIDE DEF new
  <2>5. Enum!List(new)
    BY <1>2, <2>1, <2>2, <2>3, <2>4, EnumGoal, EnumLists DEF Enum!List, Over
  <2> QED  BY <2>1, <2>5, EnumLists DEF Enum!Next
<1> QED  BY <1>7, <1>8, <1>9, <1>10, <1>11 DEF IInv, Base

\* When solve() returns UNSAT_V in eee_cred, every acceptable argument has
\* been listed.
LEMMA CredUnsatInv == IInv /\ CredUnsat => IInv' /\ [Enum!Next]_Enum!vars
<1> SUFFICES ASSUME IInv, CredUnsat PROVE IInv' /\ [Enum!Next]_Enum!vars
  OBVIOUS
<1>1. /\ pc = "cred" /\ pc' = "done" /\ att' = att /\ task' = task /\ sem' = sem
      /\ task = "EC" /\ sem \in {"CO", "PR", "ST"} /\ att \in Relations
      /\ result' = result /\ result = Listing(included) /\ included \subseteq Goal
      /\ solver.models = {}
  BY UnassumedAnswers DEF CredUnsat, IInv, Base, Phase, Books, TypeOK
<1>2. TypeOK'
  BY CountType, SolverTypes DEF CredUnsat, IInv, Base, TypeOK
<1>3. Phase' /\ Sound' /\ Books' /\ Blocked' /\ NoExtensionMissed'
  BY <1>1 DEF Phase, Sound, Books, Blocked, NoExtensionMissed
<1>4. ASSUME NEW i \in Goal PROVE i \in included
  <2>1. i \in Args /\ i \in Acceptable(att, "EC", sem)
    BY <1>1, GoalType DEF Goal
  <2>2. PICK A \in Models(count, CredEncoding) : i \in DecisionPart(A)
    BY <1>1, <2>1, CredulousModels DEF CredEncoding
  <2> QED  BY <1>1, <2>2 DEF IInv, Base, NoExtensionMissed
<1>5. result' = Listing(Goal)
  BY <1>1, <1>4
<1>6. Enum!Next
  BY <1>1, <1>5, EnumFinish DEF IInv, Base
<1> QED  BY <1>2, <1>3, <1>6 DEF IInv, Base

\* eee_skep starts with every stable extension.
LEMMA StableStartInv == IInv /\ StableStart => IInv' /\ [Enum!Next]_Enum!vars
<1> SUFFICES ASSUME IInv, StableStart PROVE IInv' /\ [Enum!Next]_Enum!vars
  OBVIOUS
<1>1. TypeOK'
  BY CountType, NewSolverType DEF IInv, Base, TypeOK, StableStart
<1>2. solver'.models = Models(count, stable(att)) /\ solver'.assumptions = {}
  BY DEF StableStart, NewSolver
<1>3. result' = Nothing /\ included' = Args /\ Goal' \subseteq included'
  BY GoalType DEF IInv, Base, Phase, StableStart, Goal
<1>4. Phase' /\ Sound' /\ Books' /\ Blocked' /\ NoExtensionMissed'
  BY <1>2, <1>3 DEF StableStart, Phase, Sound, Books, Blocked, NoExtensionMissed
<1>5. UNCHANGED Enum!vars
  BY DEF StableStart, Over, Enum!vars
<1> QED  BY <1>1, <1>4, <1>5 DEF IInv, Base

\* A round under stable semantics excludes extensions that contain all that is
\* kept, whatever the model vector holds.
LEMMA StableRoundBase ==
    ASSUME Base, pc = "stable", NEW s \in Rounds \cup BrokenOutputs(solver), StableRound(s),
           UNCHANGED <<att, task, sem, pc, extension, noFurther, result>>
    PROVE  Base' /\ included' = included \cap s.model /\ UNCHANGED Enum!vars
<1> DEFINE M == s.model
           c == {-accepted_var(i) : i \in M}
<1>1. included' = included \cap M /\ solver' = add_clause(s, c)
  BY DEF StableRound
<1>2. /\ pc' = "stable" /\ att' = att /\ task' = task /\ sem' = sem /\ result' = result
      /\ task = "ES" /\ sem = "ST" /\ solver.assumptions = {}
      /\ included \in SUBSET Args /\ att \in Relations
  BY DEF Base, Phase, TypeOK
<1>3. /\ s \in Solvers(count) /\ s.models = solver.models /\ s.assumptions = {}
      /\ M \in SUBSET Args
  BY <1>2, RoundModel DEF Base, Solvers
<1> HIDE DEF c
<1>4. /\ solver' \in Solvers(count)
      /\ solver'.models = {B \in solver.models : Satisfies(B, c)}
      /\ solver'.assumptions = {}
  BY <1>1, <1>3, CountType, ClauseFields
<1> HIDE DEF M
<1>5. TypeOK'
  BY <1>1, <1>2, <1>4 DEF Base, TypeOK
<1>6. Phase' /\ Sound' /\ Blocked'
  BY <1>2, <1>4 DEF Phase, Sound, Blocked, Base
<1>7. NoExtensionMissed'
  <2> SUFFICES ASSUME NEW B \in Models(count, stable(att)), B \notin solver'.models
               PROVE  included' \subseteq DecisionPart(B)
    BY <1>2 DEF NoExtensionMissed
  <2>1. CASE B \in solver.models
    BY <1>1, <1>3, <1>4, <2>1, RefusedClause DEF c
  <2>2. CASE B \notin solver.models
    BY <1>1, <1>2, <2>2 DEF Base, NoExtensionMissed
  <2> QED  BY <2>1, <2>2
<1>8. UNCHANGED Enum!vars
  BY <1>2 DEF Over, Enum!vars
<1> QED  BY <1>1, <1>5, <1>6, <1>7, <1>8 DEF Base, M

\* With a whole answer it drops only what an extension lacks.
LEMMA StableRoundInv ==
    ASSUME IInv, pc = "stable", NEW s \in Rounds, StableRound(s),
           UNCHANGED <<att, task, sem, pc, extension, noFurther, result>>
    PROVE  IInv' /\ [Enum!Next]_Enum!vars
<1>1. Base' /\ included' = included \cap s.model /\ UNCHANGED Enum!vars
  BY StableRoundBase DEF IInv
<1>2. /\ pc' = "stable" /\ result' = result /\ Goal' = Goal
      /\ task = "ES" /\ sem = "ST" /\ solver.assumptions = {} /\ att \in Relations
      /\ result = Nothing /\ Goal \subseteq included
  BY DEF IInv, Base, Phase, Books, TypeOK, Goal
<1>3. PICK A \in solver.models : DecisionPart(A) \subseteq s.model
  BY <1>2, WholeRound DEF IInv, Base
<1>4. A \in Models(count, stable(att))
  BY <1>3 DEF IInv, Base, Sound
<1>5. Goal \subseteq DecisionPart(A)
  BY <1>2, <1>4, GoalType, SkepticalModels DEF Goal
<1>6. Books'
  BY <1>1, <1>2, <1>3, <1>5 DEF Books
<1> QED  BY <1>1, <1>6 DEF IInv, Base

\* When solve() returns UNSAT_V, what is still included is in every stable
\* extension, whatever has been dropped before.
LEMMA StableUnsatBase ==
    ASSUME Base, StableUnsat
    PROVE  Base' /\ included \subseteq Goal
<1>1. /\ pc = "stable" /\ pc' = "done" /\ att' = att /\ task' = task /\ sem' = sem
      /\ task = "ES" /\ sem = "ST" /\ att \in Relations /\ included \in SUBSET Args
      /\ result' = Push(result, included) /\ solver.models = {}
  BY UnassumedAnswers DEF StableUnsat, Base, Phase, TypeOK
<1>2. TypeOK'
  <2>1. result' \in [Args -> Nat]
    BY <1>1, PushType DEF Base, TypeOK
  <2> QED  BY <2>1, CountType, SolverTypes DEF StableUnsat, Base, TypeOK
<1>3. Phase' /\ Sound' /\ Blocked' /\ NoExtensionMissed'
  BY <1>1 DEF Phase, Sound, Blocked, NoExtensionMissed
<1>4. ASSUME NEW i \in included PROVE i \in Goal
  <2>1. \A A \in Models(count, stable(att)) : i \in DecisionPart(A)
    BY <1>1, <1>4 DEF Base, NoExtensionMissed
  <2>2. i \in Acceptable(att, "ES", "ST")
    BY <1>1, <1>4, <2>1, SkepticalModels
  <2> QED  BY <1>1, <2>2 DEF Goal
<1> QED  BY <1>2, <1>3, <1>4 DEF Base

\* If nothing has been dropped wrongly, it is the answer.
LEMMA StableUnsatInv == IInv /\ StableUnsat => IInv' /\ [Enum!Next]_Enum!vars
<1> SUFFICES ASSUME IInv, StableUnsat PROVE IInv' /\ [Enum!Next]_Enum!vars
  OBVIOUS
<1>1. Base' /\ included \subseteq Goal
  BY StableUnsatBase DEF IInv
<1>2. /\ pc = "stable" /\ pc' = "done" /\ UNCHANGED <<att, task, sem>> /\ Phase
      /\ result' = Push(result, included) /\ result = Nothing /\ Goal \subseteq included
  BY DEF StableUnsat, IInv, Base, Books
<1>3. Books'
  BY <1>2 DEF Books
<1>4. Enum!Next
  BY <1>1, <1>2, EnumFinishSkep
<1> QED  BY <1>1, <1>3, <1>4 DEF IInv, Base

-----------------------------------------------------------------------------
(***************************************************************************)
(* eee_skep under preferred semantics.                                     *)
(***************************************************************************)

\* An argument is skeptically accepted iff every preferred extension has it.
LEMMA PreferredGoal ==
    ASSUME task = "ES", sem = "PR"
    PROVE  \A i \in Args : i \in Goal <=> \A P \in SUBSET Args : Preferred(att, P) => i \in P
  BY DEF Goal, Acceptable, Skeptical, Extensions, IsExtension

\* The answers while a set grows are the open extensions that contain it.
LEMMA GrowAnswers ==
    ASSUME IInv, pc = "grow"
    PROVE  Answers(solver) = IF noFurther THEN solver.models
                             ELSE {A \in solver.models : extension \subseteq DecisionPart(A)}
<1>1. CASE noFurther
  BY <1>1, UnassumedAnswers DEF IInv, Base, Phase
<1>2. CASE ~ noFurther
  <2> DEFINE lits == {accepted_var(i) : i \in extension}
  <2>1. solver.assumptions = lits /\ extension \in SUBSET Args
    BY <1>2 DEF IInv, Base, Phase, TypeOK
  <2>2. \A A : (\A l \in lits : Holds(A, l)) <=> extension \subseteq DecisionPart(A)
    BY <2>1, AcceptedAssumptions
  <2> HIDE DEF lits
  <2> QED  BY <1>2, <2>1, <2>2 DEF Answers
<1> QED  BY <1>1, <1>2

\* GrownIsPreferred follows: a preferred extension above the grown set that is
\* not the grown set would still be open, since no closed one contains it.
LEMMA GrownPreferred ==
    ASSUME IInv, pc = "grow", ~ noFurther, Answers(solver) = {}
    PROVE  Preferred(att, extension)
<1>1. Complete(att, extension) /\ att \in Relations
  BY DEF IInv, Base, Sound, TypeOK
<1>2. PICK P \in SUBSET Args : Preferred(att, P) /\ extension \subseteq P
  BY <1>1, PreferredAbove DEF Complete
<1> DEFINE A == ModelOf(att, P)
<1>3. A \in Models(count, complete(att)) /\ DecisionPart(A) = P
  BY <1>1, <1>2, PreferredReported
<1> HIDE DEF A
<1>4. A \notin solver.models
  BY <1>2, <1>3, GrowAnswers
<1>5. ASSUME NEW Q \in SUBSET Args, Closed(Q), P \subseteq Q PROVE FALSE
  BY <1>2, <1>5 DEF Closed
<1>6. P \subseteq extension
  BY <1>3, <1>4, <1>5 DEF IInv, Base, Blocked
<1> QED  BY <1>2, <1>6

\* eee_skep starts with every complete extension open.
LEMMA PreferredStartInv == IInv /\ PreferredStart => IInv' /\ [Enum!Next]_Enum!vars
<1> SUFFICES ASSUME IInv, PreferredStart PROVE IInv' /\ [Enum!Next]_Enum!vars
  OBVIOUS
<1>1. TypeOK'
  BY CountType, NewSolverType DEF IInv, Base, TypeOK, PreferredStart
<1>2. solver'.models = Models(count, complete(att)) /\ solver'.assumptions = {}
  BY DEF PreferredStart, NewSolver
<1>3. /\ result' = Nothing /\ included' = Args /\ Goal' \subseteq included'
      /\ extension' = {} /\ noFurther' = TRUE
  BY GoalType DEF IInv, Base, Phase, PreferredStart, Goal
<1>4. Phase' /\ Sound' /\ Books' /\ Blocked' /\ NoExtensionMissed'
  BY <1>2, <1>3 DEF PreferredStart, Phase, Sound, Books, Blocked, NoExtensionMissed
<1>5. UNCHANGED Enum!vars
  BY DEF PreferredStart, Over, Enum!vars
<1> QED  BY <1>1, <1>4, <1>5 DEF IInv, Base

\* A round of the inner loop: the set grown becomes the new answer, which is
\* in no closed extension, and what the clause excludes lies within it.
LEMMA GrowSatInv == IInv /\ GrowSat => IInv' /\ [Enum!Next]_Enum!vars
<1> SUFFICES ASSUME IInv, GrowSat PROVE IInv' /\ [Enum!Next]_Enum!vars
  OBVIOUS
<1>0. PICK A \in Answers(solver) : GrowRound(AfterSat(solver, A))
  BY DEF GrowSat
<1> DEFINE S == DecisionPart(A)
           s == AfterSat(solver, A)
           lits == {accepted_var(i) : i \in S}
           t == assume(s, lits)
           c == {accepted_var(i) : i \in Args \ S}
<1>1. /\ pc = "grow" /\ pc' = "grow" /\ att' = att /\ task' = task /\ sem' = sem
      /\ included' = included /\ result' = result /\ noFurther' = FALSE
      /\ task = "ES" /\ sem = "PR" /\ att \in Relations /\ extension \in SUBSET Args
      /\ solver \in Solvers(count) /\ count \in Nat
      /\ noFurther => extension = {}
      /\ result = Nothing /\ Goal \subseteq included
  BY CountType DEF GrowSat, IInv, Base, Phase, Sound, Books, TypeOK
<1>2. A \in solver.models /\ S \in SUBSET Args /\ extension \subseteq S
  BY <1>1, GrowAnswers, DecisionPartType
<1>3. A \in Models(count, complete(att)) /\ Complete(att, S)
  BY <1>1, <1>2, CompleteReports DEF IInv, Base, Sound
<1>4. s \in Solvers(count) /\ s.models = solver.models /\ s.assumptions = {} /\ s.model = S
  BY <1>1, SolverTypes, SolverFields
<1>5. extension' = S /\ solver' = add_clause(t, c)
  BY <1>0, <1>2, <1>4 DEF GrowRound
<1>6. lits \in SUBSET Int /\ t = assume(s, lits)
  BY <1>2, AcceptedAssumptions
<1> HIDE DEF s, lits, c, t
<1>7. t \in Solvers(count) /\ t.models = solver.models /\ t.assumptions = lits
  BY <1>4, <1>6, AssumeFields
<1>8. /\ solver' \in Solvers(count)
      /\ solver'.models = {B \in solver.models : Satisfies(B, c)}
      /\ solver'.assumptions = lits
  BY <1>1, <1>5, <1>7, ClauseFields
<1> HIDE DEF S
<1>9. \A B : Satisfies(B, c) <=> ~ (DecisionPart(B) \subseteq S)
  BY <1>2, OutsideClause DEF c
<1>10. TypeOK' /\ NoExtensionMissed'
  BY <1>1, <1>2, <1>5, <1>8 DEF IInv, Base, TypeOK, NoExtensionMissed
<1>11. Goal' = Goal
  BY <1>1 DEF Goal
<1>12. Phase' /\ Sound' /\ Books'
  BY <1>1, <1>3, <1>5, <1>8, <1>11 DEF IInv, Base, Phase, Sound, Books, lits
<1>13. Blocked'
  <2> SUFFICES ASSUME NEW B \in Models(count, complete(att)), B \notin solver'.models,
                      ~ (DecisionPart(B) \subseteq S)
               PROVE  \E Q \in SUBSET Args : Closed(Q)' /\ DecisionPart(B) \subseteq Q
    BY <1>1, <1>5 DEF Blocked
  <2>1. B \notin solver.models /\ ~ (~ noFurther /\ DecisionPart(B) \subseteq extension)
    BY <1>2, <1>8, <1>9
  <2>2. PICK Q \in SUBSET Args : Closed(Q) /\ DecisionPart(B) \subseteq Q
    BY <1>1, <2>1 DEF IInv, Base, Blocked
  <2>3. ~ (S \subseteq Q)
    BY <1>2, <2>2 DEF Closed, S
  <2>4. Closed(Q)'
    BY <1>1, <1>5, <1>8, <2>2, <2>3 DEF Closed
  <2> QED  BY <2>2, <2>4
<1>14. UNCHANGED Enum!vars
  BY <1>1 DEF Over, Enum!vars
<1> QED  BY <1>10, <1>12, <1>13, <1>14 DEF IInv, Base

\* The end of the inner loop: the grown set is preferred, is taken into
\* account, and becomes a closed extension.
LEMMA GrowUnsatInv == IInv /\ GrowUnsat => IInv' /\ [Enum!Next]_Enum!vars
<1> SUFFICES ASSUME IInv, GrowUnsat PROVE IInv' /\ [Enum!Next]_Enum!vars
  OBVIOUS
<1>0. PICK E : E = extension
  OBVIOUS
<1> DEFINE s == AfterUnsat(solver)
           c == {accepted_var(i) : i \in Args \ E}
<1>1. /\ pc = "grow" /\ pc' = "grow" /\ att' = att /\ task' = task /\ sem' = sem
      /\ included' = included \cap E /\ result' = result /\ noFurther' = TRUE
      /\ extension' = {} /\ solver' = add_clause(s, c)
      /\ ~ noFurther /\ Answers(solver) = {}
      /\ task = "ES" /\ sem = "PR" /\ att \in Relations
      /\ E \in SUBSET Args /\ included \in SUBSET Args
      /\ solver \in Solvers(count) /\ count \in Nat
      /\ result = Nothing /\ Goal \subseteq included
  BY <1>0, CountType DEF GrowUnsat, IInv, Base, Phase, Books, TypeOK
<1>2. s \in Solvers(count) /\ s.models = solver.models /\ s.assumptions = {}
  BY <1>1, SolverTypes, SolverFields
<1>3. Preferred(att, E)
  BY <1>0, <1>1, GrownPreferred
<1> HIDE DEF s, c
<1>4. /\ solver' \in Solvers(count)
      /\ solver'.models = {B \in solver.models : Satisfies(B, c)}
      /\ solver'.assumptions = {}
  BY <1>1, <1>2, ClauseFields
<1>5. \A B : Satisfies(B, c) <=> ~ (DecisionPart(B) \subseteq E)
  BY <1>1, OutsideClause DEF c
<1>6. TypeOK' /\ NoExtensionMissed'
  BY <1>1, <1>4 DEF IInv, Base, TypeOK, NoExtensionMissed
<1>7. Goal' = Goal /\ Goal \subseteq E
  BY <1>1, <1>3, PreferredGoal, GoalType DEF Goal
<1>8. Phase' /\ Sound' /\ Books'
  BY <1>1, <1>4, <1>7 DEF IInv, Base, Phase, Sound, Books
<1>9. Blocked'
  <2> SUFFICES ASSUME NEW B \in Models(count, complete(att)), B \notin solver'.models
               PROVE  \E Q \in SUBSET Args : Closed(Q)' /\ DecisionPart(B) \subseteq Q
    BY <1>1 DEF Blocked
  <2>1. Closed(E)'
    BY <1>1, <1>3, <1>4, <1>5 DEF Closed
  <2>2. CASE DecisionPart(B) \subseteq E
    BY <1>1, <2>1, <2>2
  <2>3. CASE ~ (DecisionPart(B) \subseteq E)
    <3>1. B \notin solver.models
      BY <1>4, <1>5, <2>3
    <3>2. PICK Q \in SUBSET Args : Closed(Q) /\ DecisionPart(B) \subseteq Q
      BY <1>0, <1>1, <2>3, <3>1 DEF IInv, Base, Blocked
    <3>3. Closed(Q)'
      BY <1>1, <1>4, <3>2 DEF Closed
    <3> QED  BY <3>2, <3>3
  <2> QED  BY <2>2, <2>3
<1>10. UNCHANGED Enum!vars
  BY <1>1 DEF Over, Enum!vars
<1> QED  BY <1>6, <1>8, <1>9, <1>10 DEF IInv, Base

\* NoPreferredSkipped follows: a preferred extension that is not open is the
\* grown set or a closed extension.
LEMMA NoneSkipped == IInv => NoPreferredSkipped
<1> SUFFICES ASSUME IInv, pc = "grow", NEW P \in Extensions(att, "PR"),
                    extension # P, \A A \in solver.models : DecisionPart(A) # P
             PROVE  included \subseteq P
  BY DEF NoPreferredSkipped
<1>1. P \in SUBSET Args /\ Preferred(att, P) /\ att \in Relations
  BY DEF Extensions, IsExtension, IInv, Base, TypeOK
<1> DEFINE A == ModelOf(att, P)
<1>2. A \in Models(count, complete(att)) /\ DecisionPart(A) = P
  BY <1>1, PreferredReported
<1> HIDE DEF A
<1>3. ~ (~ noFurther /\ P \subseteq extension)
  BY <1>1, PreferredMaximal DEF IInv, Base, Sound
<1>4. PICK Q \in SUBSET Args : Closed(Q) /\ P \subseteq Q
  BY <1>2, <1>3 DEF IInv, Base, Blocked
<1>5. P = Q
  BY <1>1, <1>4, PreferredMaximal DEF Closed
<1> QED  BY <1>4, <1>5 DEF Closed

\* The end of the outer loop: nothing is open, so what is still included is
\* in every preferred extension.
LEMMA PreferredEndInv == IInv /\ PreferredEnd => IInv' /\ [Enum!Next]_Enum!vars
<1> SUFFICES ASSUME IInv, PreferredEnd PROVE IInv' /\ [Enum!Next]_Enum!vars
  OBVIOUS
<1>1. /\ pc = "grow" /\ pc' = "done" /\ att' = att /\ task' = task /\ sem' = sem
      /\ task = "ES" /\ sem = "PR" /\ att \in Relations /\ included \in SUBSET Args
      /\ result' = Push(result, included) /\ result = Nothing /\ Goal \subseteq included
      /\ noFurther /\ solver.models = {}
  BY GrowAnswers DEF PreferredEnd, IInv, Base, Phase, Books, TypeOK
<1>2. TypeOK'
  <2>1. result' \in [Args -> Nat]
    BY <1>1, PushType DEF IInv, Base, TypeOK
  <2> QED  BY <2>1, CountType, SolverTypes DEF PreferredEnd, IInv, Base, TypeOK
<1>3. Phase' /\ Sound' /\ Books' /\ Blocked' /\ NoExtensionMissed'
  BY <1>1 DEF Phase, Sound, Books, Blocked, NoExtensionMissed
<1>4. ASSUME NEW P \in SUBSET Args, Preferred(att, P) PROVE included \subseteq P
  <2> DEFINE A == ModelOf(att, P)
  <2>1. A \in Models(count, complete(att)) /\ DecisionPart(A) = P
    BY <1>1, <1>4, PreferredReported
  <2> HIDE DEF A
  <2>2. PICK Q \in SUBSET Args : Closed(Q) /\ P \subseteq Q
    BY <1>1, <2>1 DEF IInv, Base, Blocked
  <2>3. P = Q
    BY <1>4, <2>2, PreferredMaximal DEF Closed
  <2> QED  BY <2>2, <2>3 DEF Closed
<1>5. included = Goal
  BY <1>1, <1>4, PreferredGoal
<1>6. Enum!Next
  BY <1>1, <1>5, EnumFinishSkep DEF IInv, Base
<1> QED  BY <1>2, <1>3, <1>6 DEF IInv, Base

-----------------------------------------------------------------------------

\* The invariant holds initially.
LEMMA InvInit == Init => IInv
<1> SUFFICES ASSUME Init PROVE IInv
  OBVIOUS
<1>1. TypeOK
  BY CountType, NewSolverType, FrameworksAssumption DEF Init, TypeOK, Nothing
<1>2. Phase /\ Sound /\ Books /\ Blocked /\ NoExtensionMissed
  BY DEF Init, Phase, Sound, Books, Blocked, NoExtensionMissed
<1> QED  BY <1>1, <1>2 DEF IInv, Base

\* Every step, over a library or over an external process, that does not
\* mislead eee_skep preserves the invariant and is a step of Enumeration or
\* changes nothing there.
LEMMA InvStep ==
    ASSUME IInv, [BuildNext]_buildVars, ~ Misled'
    PROVE  IInv' /\ [Enum!Next]_Enum!vars
<1>1. CASE CredSat \/ ExtCredSat \/ CredBroken
  <2>1. PICK s \in Rounds \cup BrokenOutputs(solver) : CredRound(s)
    BY <1>1 DEF CredSat, ExtCredSat, CredBroken, Rounds
  <2> QED  BY <1>1, <2>1, CredRoundInv DEF CredSat, ExtCredSat, CredBroken
<1>2. CASE StableSat \/ ExtStableSat
  <2>1. PICK s \in Rounds : StableRound(s)
    BY <1>2 DEF StableSat, ExtStableSat, Rounds
  <2> QED  BY <1>2, <2>1, StableRoundInv DEF StableSat, ExtStableSat
<1>3. CASE Unsupported
  <2>1. ~ Enum!Supported
    BY <1>3 DEF Unsupported, Enum!Supported, Problems
  <2>2. Enum!Refuse
    BY <1>3, <2>1 DEF Unsupported, Enum!Refuse, Over
  <2>3. IInv'
    BY <1>3 DEF Unsupported, IInv, Base, TypeOK, Phase, Sound, Books, Blocked, NoExtensionMissed
  <2> QED  BY <2>2, <2>3 DEF Enum!Next
<1>4. CASE UNCHANGED vars
  <2>1. UNCHANGED Enum!vars
    BY <1>4 DEF vars, Over, Enum!vars
  <2>2. IInv'
    BY <1>4 DEF vars, IInv, Base, TypeOK, Phase, Sound, Books, Blocked, NoExtensionMissed,
                Closed, Goal, CredEncoding
  <2> QED  BY <2>1, <2>2
<1>5. CASE Ended
  BY <1>4, <1>5 DEF Ended
<1>6. ~ (StableBroken /\ failed' = TRUE)
  BY DEF StableBroken, Misled, IInv, Base, Phase
<1> QED  BY <1>1, <1>2, <1>3, <1>4, <1>5, <1>6, CredStartInv, CredUnsatInv, StableStartInv,
            StableUnsatInv, PreferredStartInv, GrowSatInv, GrowUnsatInv, PreferredEndInv
         DEF BuildNext, buildVars, Library, External, Next, ExtOther,
             ExtBroken

-----------------------------------------------------------------------------
(***************************************************************************)
(* Failures.  Only eee_skep under stable semantics can be misled (ES-PR    *)
(* over an external process is not part of BuildSpec); what it will list   *)
(* is pushed at its end.                                                   *)
(***************************************************************************)
MisledStable ==
    /\ failed \in BOOLEAN
    /\ Misled => /\ wrapper = "external" /\ pc \in {"stable", "done"}
                 /\ pc = "stable" => result = Nothing

BuildInv == Base /\ (Misled \/ Books) /\ MisledStable /\ ListsOnlyAcceptable

\* A step of Enumeration lists no argument that is not acceptable, and none
\* twice.
LEMMA EnumListsOnly ==
    ASSUME TypeOK, ListsOnlyAcceptable, [Enum!Next]_Enum!vars
    PROVE  ListsOnlyAcceptable'
<1>1. att' = att /\ task' = task /\ sem' = sem /\ result \in [Args -> Nat]
  BY DEF Enum!Next, Enum!List, Enum!Finish, Enum!Refuse, Enum!vars, TypeOK
<1>2. CASE result' = result
  BY <1>1, <1>2 DEF ListsOnlyAcceptable
<1>3. CASE Enum!Finish
  <2>1. result' = Listing(Goal)
    BY <1>3, EnumGoal, EnumLists DEF Enum!Finish
  <2> QED  BY <1>1, <2>1 DEF Listing, ListsOnlyAcceptable, Goal
<1>4. CASE \E S \in SUBSET Args : Enum!List(S)
  <2>1. PICK S \in SUBSET Args : Enum!List(S)
    BY <1>4
  <2>2. result' = Push(result, S) /\ \A i \in S : i \in Goal /\ result[i] = 0
    BY <2>1, EnumGoal, EnumLists DEF Enum!List
  <2> QED  BY <1>1, <2>2 DEF Push, ListsOnlyAcceptable, Goal
<1> QED  BY <1>2, <1>3, <1>4, EnumLists DEF Enum!Next, Enum!Refuse, Enum!vars

\* Every round under stable semantics over an external process keeps the base.
LEMMA ExtStableBase == Base /\ (ExtStableSat \/ StableBroken) => Base'
<1> SUFFICES ASSUME Base, ExtStableSat \/ StableBroken PROVE Base'
  OBVIOUS
<1>1. PICK s \in Rounds \cup BrokenOutputs(solver) : StableRound(s)
  BY DEF ExtStableSat, StableBroken, Rounds
<1>2. pc = "stable" /\ UNCHANGED <<att, task, sem, pc, extension, noFurther, result>>
  BY DEF ExtStableSat, StableBroken
<1> QED  BY <1>1, <1>2, StableRoundBase

\* A failure under stable semantics costs the books, and nothing else.
LEMMA StableBrokenStep ==
    ASSUME BuildInv, StableBroken, wrapper = "external", wrapper' = wrapper, failed' = TRUE
    PROVE  Base' /\ Misled' /\ MisledStable' /\ ListsOnlyAcceptable'
<1>1. /\ pc = "stable" /\ pc' = "stable" /\ result' = result
      /\ att' = att /\ task' = task /\ sem' = sem
  BY DEF StableBroken
<1>2. task = "ES" /\ result = Nothing
  BY <1>1 DEF BuildInv, Base, Phase, Books, MisledStable
<1> QED  BY <1>1, <1>2, ExtStableBase DEF BuildInv, Misled, MisledStable, ListsOnlyAcceptable

\* Once it is misled eee_skep still ends with accepted arguments only.
LEMMA MisledStep ==
    ASSUME BuildInv, Misled, [BuildNext]_buildVars
    PROVE  Base' /\ Misled' /\ MisledStable' /\ ListsOnlyAcceptable'
<1>1. CASE UNCHANGED buildVars
  BY <1>1 DEF buildVars, vars, BuildInv, Base, TypeOK, Phase, Sound, Blocked, Closed,
        NoExtensionMissed, Misled, MisledStable, ListsOnlyAcceptable, CredEncoding
<1>2. CASE ~ UNCHANGED buildVars
  <2>1. External /\ task = "ES" /\ wrapper' = "external" /\ failed' = TRUE
        /\ pc \in {"stable", "done"}
    BY <1>2 DEF BuildNext, Library, External, BuildInv, Misled, MisledStable
  <2>2. ExtStableSat \/ StableBroken \/ StableUnsat
    BY <1>2, <2>1 DEF External, ExtOther, ExtBroken, CredStart, ExtCredSat, CredUnsat,
            CredBroken, StableStart, Unsupported, Ended, buildVars
  <2>3. CASE ExtStableSat \/ StableBroken
    BY <2>1, <2>3, ExtStableBase DEF ExtStableSat, StableBroken, BuildInv, Misled,
            MisledStable, ListsOnlyAcceptable
  <2>4. CASE StableUnsat
    <3>1. /\ pc = "stable" /\ pc' = "done" /\ att' = att /\ task' = task /\ sem' = sem
          /\ result' = Push(Nothing, included) /\ included \in SUBSET Args
      BY <2>4 DEF StableUnsat, BuildInv, Base, TypeOK, Misled, MisledStable
    <3>2. Base' /\ included \subseteq Goal
      BY <2>4, StableUnsatBase DEF BuildInv
    <3>3. ListsOnlyAcceptable'
      BY <3>1, <3>2 DEF Push, Nothing, ListsOnlyAcceptable, Goal
    <3> QED  BY <2>1, <3>1, <3>2, <3>3 DEF Misled, MisledStable
  <2> QED  BY <2>2, <2>3, <2>4
<1> QED  BY <1>1, <1>2

\* The problem does not change.
LEMMA TaskFixed == [BuildNext]_buildVars => task' = task
  BY DEF BuildNext, buildVars, vars, Library, External, Next, ExtOther, ExtBroken,
         CredStart, CredSat, ExtCredSat, CredBroken, CredUnsat, PreferredStart, GrowSat,
         GrowUnsat, PreferredEnd, StableStart, StableSat, ExtStableSat, StableBroken,
         StableUnsat, Unsupported, Ended

\* Every step preserves the invariant, and is a step of Enumeration or changes
\* nothing there unless eee_skep has been misled.
LEMMA BuildStep ==
    ASSUME BuildInv, [BuildNext]_buildVars
    PROVE  BuildInv' /\ (Misled' \/ [Enum!Next]_Enum!vars)
<1>1. CASE Misled
  BY <1>1, MisledStep DEF BuildInv
<1>2. CASE ~ Misled /\ Misled'
  <2>1. ExtBroken /\ wrapper = "external" /\ wrapper' = wrapper /\ failed' = TRUE
    BY <1>2, TaskFixed DEF BuildNext, Library, External, buildVars, Misled
  <2>2. StableBroken
    BY <1>2, <2>1, TaskFixed DEF ExtBroken, CredBroken, Misled, BuildInv, Base, Phase
  <2> QED  BY <2>1, <2>2, StableBrokenStep DEF BuildInv
<1>3. CASE ~ Misled /\ ~ Misled'
  <2>1. IInv
    BY <1>3 DEF BuildInv, IInv
  <2>2. IInv' /\ [Enum!Next]_Enum!vars
    BY <1>3, <2>1, InvStep
  <2>3. ListsOnlyAcceptable'
    BY <2>2, EnumListsOnly DEF BuildInv, Base
  <2>4. failed' \in BOOLEAN
    BY DEF BuildInv, MisledStable, BuildNext, buildVars, Library, External
  <2> QED  BY <1>3, <2>2, <2>3, <2>4 DEF BuildInv, IInv, MisledStable
<1> QED  BY <1>1, <1>2, <1>3

\* The inductive invariant holds in every reachable state of every build.
THEOREM Invariant == BuildSpec => []BuildInv
<1>1. BuildInit => BuildInv
  <2> SUFFICES ASSUME BuildInit PROVE BuildInv
    OBVIOUS
  <2>1. IInv
    BY InvInit DEF BuildInit
  <2>2. ListsOnlyAcceptable
    BY DEF BuildInit, Init, Nothing, ListsOnlyAcceptable
  <2> QED  BY <2>1, <2>2 DEF BuildInit, BuildInv, IInv, Misled, MisledStable
<1> QED  BY <1>1, BuildStep, PTL DEF BuildSpec

\* Over a library, and while a set grows, nothing has misled eee_skep.
LEMMA NotMisled ==
    ASSUME BuildInv, pc = "grow" \/ wrapper = "library"
    PROVE  IInv
  BY DEF BuildInv, MisledStable, IInv

\* EEE.cpp keeps its variables in their types.
THEOREM TypeCorrect == BuildSpec => []TypeOK
<1>1. BuildInv => TypeOK
  BY DEF BuildInv, Base
<1> QED  BY <1>1, Invariant, PTL

\* When the inner loop of eee_skep stops, the set it has grown over several
\* answers is a preferred extension.
THEOREM GrownIsPreferredAlways == BuildSpec => []GrownIsPreferred
<1>1. BuildInv => GrownIsPreferred
  BY NotMisled, GrownPreferred DEF GrownIsPreferred
<1> QED  BY <1>1, Invariant, PTL

\* eee_skep skips no preferred extension: each is open, taken into account, or
\* the one being grown.
THEOREM NoPreferredSkippedAlways == BuildSpec => []NoPreferredSkipped
<1>1. BuildInv => NoPreferredSkipped
  <2>1. pc # "grow" => NoPreferredSkipped
    BY DEF NoPreferredSkipped
  <2> QED  BY <2>1, NotMisled, NoneSkipped
<1> QED  BY <1>1, Invariant, PTL

\* No stale entry of an external solver's model vector, and no process that
\* fails, costs eee_cred, or eee_skep under stable semantics, an extension.
THEOREM NoExtensionMissedAlways == BuildSpec => []NoExtensionMissed
<1>1. BuildInv => NoExtensionMissed
  BY DEF BuildInv, Base
<1> QED  BY <1>1, Invariant, PTL

\* Whatever external processes fail, and when, EEE.cpp lists no argument that
\* is not acceptable, and none twice.
THEOREM ListsOnlyAcceptableAlways == BuildSpec => []ListsOnlyAcceptable
<1>1. BuildInv => ListsOnlyAcceptable
  BY DEF BuildInv
<1> QED  BY <1>1, Invariant, PTL

\* EEE.cpp implements Enumeration over a library, and over an external process
\* for every problem but ES-PR: it lists exactly the acceptable arguments,
\* each once, and refuses the problems it does not list.  The exception,
\* eee_skep after a failure of the process, is in the statement.
THEOREM Refinement == BuildSpec => ImplementsUnlessMisled
<1>1. BuildInit => Enum!Init
  BY EnumInit DEF BuildInit
<1>2. BuildInv /\ [BuildNext]_buildVars => [Enum!Next \/ Misled']_Enum!vars
  BY BuildStep
<1> QED  BY <1>1, <1>2, Invariant, PTL DEF BuildSpec, ImplementsUnlessMisled

-----------------------------------------------------------------------------
(***************************************************************************)
(* The measure of the loops: the assignments the clauses still allow.      *)
(***************************************************************************)

\* A clause that an answer falsifies makes the assignments left fewer.
LEMMA AnswerExcluded ==
    ASSUME NEW s \in Solvers(count), NEW A \in s.models, NEW c, ~ Satisfies(A, c),
           NEW r, r.models = {B \in s.models : Satisfies(B, c)}
    PROVE  r.models \subseteq s.models /\ r.models # s.models
  OBVIOUS

\* eee_cred and the loop for stable semantics exclude the answer itself.
LEMMA RoundExcludes ==
    ASSUME IInv, NEW A \in Answers(solver), pc \in {"cred", "stable"},
           \/ pc = "cred" /\ CredRound(AfterSat(solver, A))
           \/ pc = "stable" /\ StableRound(AfterSat(solver, A))
    PROVE  solver'.models \subseteq solver.models /\ solver'.models # solver.models
<1> DEFINE S == DecisionPart(A)
<1>1. /\ solver \in Solvers(count) /\ count \in Nat /\ A \in solver.models
      /\ AfterSat(solver, A).model = S
  BY CountType, UnassumedAnswers, SolverFields DEF IInv, Base, TypeOK, Phase
<1>2. S \in SUBSET Args
  BY DecisionPartType
<1>3. PICK c : solver' = add_clause(AfterSat(solver, A), c) /\ ~ Satisfies(A, c)
  <2>1. CASE pc = "cred"
    <3>1. solver' = add_clause(AfterSat(solver, A), Blocking(S))
      BY <1>1, <2>1 DEF CredRound
    <3> QED  BY <1>2, <3>1, BlockingClause
  <2>2. CASE pc = "stable"
    <3> DEFINE c == {-accepted_var(i) : i \in S}
    <3>1. solver' = add_clause(AfterSat(solver, A), c)
      BY <1>1, <2>2 DEF StableRound
    <3>2. ~ Satisfies(A, c)
      BY <1>2, RefusedClause
    <3> HIDE DEF c
    <3> QED  BY <3>1, <3>2
  <2> QED  BY <2>1, <2>2
<1>4. solver'.models = {B \in solver.models : Satisfies(B, c)}
  BY <1>1, <1>3, RoundFields
<1> QED  BY <1>1, <1>3, <1>4, AnswerExcluded

\* The inner loop of eee_skep excludes the answer and all within it.
LEMMA GrowExcludes ==
    ASSUME IInv, GrowSat
    PROVE  solver'.models \subseteq solver.models /\ solver'.models # solver.models
<1>0. PICK A \in Answers(solver) : GrowRound(AfterSat(solver, A))
  BY DEF GrowSat
<1> DEFINE S == DecisionPart(A)
           s == AfterSat(solver, A)
           lits == {accepted_var(i) : i \in S}
           t == assume(s, lits)
           c == {accepted_var(i) : i \in Args \ S}
<1>1. pc = "grow" /\ solver \in Solvers(count) /\ count \in Nat
  BY CountType DEF GrowSat, IInv, Base, TypeOK
<1>2. A \in solver.models /\ S \in SUBSET Args
  BY <1>1, GrowAnswers, DecisionPartType
<1>3. s \in Solvers(count) /\ s.models = solver.models /\ s.assumptions = {} /\ s.model = S
  BY <1>1, SolverTypes, SolverFields
<1>4. solver' = add_clause(t, c)
  BY <1>0, <1>3 DEF GrowRound
<1>5. lits \in SUBSET Int /\ t = assume(s, lits)
  BY <1>2, AcceptedAssumptions
<1>6. ~ Satisfies(A, c)
  BY <1>2, OutsideClause
<1> HIDE DEF S, s, lits, c, t
<1>7. t \in Solvers(count) /\ t.models = solver.models
  <2>1. /\ assume(s, lits) \in Solvers(count)
        /\ assume(s, lits).models = s.models
    BY <1>3, <1>5, AssumeFields
  <2> QED  BY <1>3, <1>5, <2>1
<1>8. solver'.models = {B \in solver.models : Satisfies(B, c)}
  BY <1>1, <1>4, <1>7, ClauseFields
<1> QED  BY <1>1, <1>2, <1>6, <1>8, AnswerExcluded

\* The UNSAT_V that ends the inner loop brings nothing excluded back.
LEMMA GrowEnds ==
    ASSUME IInv, GrowUnsat
    PROVE  solver'.models \subseteq solver.models /\ ~ noFurther /\ noFurther'
<1> DEFINE s == AfterUnsat(solver)
           c == {accepted_var(i) : i \in Args \ extension}
<1>1. /\ solver \in Solvers(count) /\ count \in Nat /\ solver' = add_clause(s, c)
      /\ ~ noFurther /\ noFurther'
  BY CountType DEF GrowUnsat, IInv, Base, TypeOK
<1>2. s \in Solvers(count) /\ s.models = solver.models
  BY <1>1, SolverTypes, SolverFields
<1> HIDE DEF s, c
<1>3. solver'.models = {B \in s.models : Satisfies(B, c)}
  BY <1>1, <1>2, ClauseFields
<1> QED  BY <1>1, <1>2, <1>3

\* Over a library no answer of EEE.cpp's loops is given twice: the
\* assignments left never come back, and become fewer with every call to
\* solve() but the one that ends the inner loop.
THEOREM NeverTwiceAlways == BuildSpec => NeverTwice
<1> DEFINE A == Library /\ pc' = pc =>
                    /\ solver'.models \subseteq solver.models
                    /\ \/ solver'.models # solver.models
                       \/ ~ noFurther /\ noFurther'
<1>1. BuildInv /\ [BuildNext]_buildVars => [A]_buildVars
  <2> SUFFICES ASSUME BuildInv, Library, pc' = pc, ~ UNCHANGED buildVars PROVE A
    OBVIOUS
  <2>0. IInv
    BY NotMisled DEF Library
  <2>1. Next /\ ~ UNCHANGED vars
    BY DEF Library, buildVars
  <2>2. CASE CredSat \/ StableSat
    <3>1. PICK B \in Answers(solver) :
              \/ pc = "cred" /\ CredRound(AfterSat(solver, B))
              \/ pc = "stable" /\ StableRound(AfterSat(solver, B))
      BY <2>2 DEF CredSat, StableSat
    <3> QED  BY <2>0, <3>1, RoundExcludes
  <2>3. CASE GrowSat
    BY <2>0, <2>3, GrowExcludes
  <2>4. CASE GrowUnsat
    BY <2>0, <2>4, GrowEnds
  <2>5. ~ (CredStart \/ CredUnsat \/ PreferredStart \/ PreferredEnd \/ StableStart
             \/ StableUnsat \/ Unsupported \/ Ended)
    BY <2>1 DEF CredStart, CredUnsat, PreferredStart, PreferredEnd, StableStart,
                StableUnsat, Unsupported, Ended
  <2> QED  BY <2>1, <2>2, <2>3, <2>4, <2>5 DEF Next
<1>2. BuildSpec => [][A]_buildVars
  BY <1>1, Invariant, PTL DEF BuildSpec
<1> QED  BY <1>2 DEF NeverTwice
=============================================================================
