----------------------------- MODULE IAQProofs -----------------------------
(***************************************************************************)
(* IAQ.cpp is correct for every number of arguments and every framework,   *)
(* whatever models the solver returns: type correctness, that the flipped  *)
(* query decides and that no counterexample is lost, and the refinement of *)
(* Enumeration.                                                            *)
(***************************************************************************)
EXTENDS IAQ, EncodingLemmas

(***************************************************************************)
(* The inductive invariant.                                                *)
(*                                                                         *)
(* Phase: the problem, and a solver without pending assumptions between    *)
(* two calls to solve().                                                   *)
(*                                                                         *)
(* Sound: what the solver knows; the set grown by a query is a complete    *)
(* extension without the argument asked about.                             *)
(*                                                                         *)
(* Books: the arguments before arg have been decided.                      *)
(*                                                                         *)
(* Open: a preferred extension is only blocked by a query if it is the set *)
(* grown.  Grown: before the flip, every open extension that contains the  *)
(* set grown also contains the argument.                                   *)
(***************************************************************************)
Goal == Acceptable(att, task, sem)

Decided == {i \in Goal : i < arg}

Asking == pc \in {"outer", "grow", "flip"}

Phase ==
    /\ pc = "start" => result = Nothing /\ arg = 0
    /\ pc = "cred" => task = "EC" /\ sem \in {"CO", "PR", "ST"}
    /\ pc = "stable" => task = "ES" /\ sem = "ST"
    /\ pc = "preferred" \/ Asking => task = "ES" /\ sem = "PR"
    /\ Asking => arg \in Args
    /\ solver.assumptions = {}

Sound ==
    /\ pc = "cred" => solver.models = Models(count, CredEncoding)
    /\ pc = "stable" => solver.models = Models(count, stable(att))
    /\ Asking => solver.models \subseteq Models(count, complete(att))
    /\ pc \in {"grow", "flip"} => Complete(att, visited) /\ arg \notin visited

Books == pc \in {"cred", "stable", "preferred"} \/ Asking => result = Listing(Decided)

Open ==
    Asking => \A P \in SUBSET Args : Preferred(att, P) =>
                 \/ ModelOf(att, P) \in solver.models
                 \/ pc \in {"grow", "flip"} /\ P = visited

Grown ==
    pc = "flip" => \A A \in solver.models :
                      visited \subseteq DecisionPart(A) => arg \in DecisionPart(A)

IInv == TypeOK /\ Phase /\ Sound /\ Books /\ Open /\ Grown

\* What is acceptable are arguments.
LEMMA GoalType == Goal \in SUBSET Args
  BY DEF Goal, Acceptable, Credulous, Skeptical

\* An argument is skeptically accepted iff every preferred extension has it.
LEMMA PreferredGoal ==
    ASSUME task = "ES", sem = "PR"
    PROVE  \A i \in Args : i \in Goal <=> \A P \in SUBSET Args : Preferred(att, P) => i \in P
  BY DEF Goal, Acceptable, Skeptical, Extensions, IsExtension

-----------------------------------------------------------------------------
(***************************************************************************)
(* The calls to solve(), each with assumptions of its own.                 *)
(***************************************************************************)

\* The literals assumed about an argument, and about the set that grows.
LEMMA Assumptions ==
    ASSUME NEW i \in Args, NEW V \in SUBSET Args, NEW A
    PROVE  /\ accepted_var(i) \in Int /\ -accepted_var(i) \in Int
           /\ {accepted_var(j) : j \in V} \in SUBSET Int
           /\ Holds(A, accepted_var(i)) <=> i \in DecisionPart(A)
           /\ Holds(A, -accepted_var(i)) <=> i \notin DecisionPart(A)
           /\ (\A l \in {accepted_var(j) : j \in V} : Holds(A, l)) <=> V \subseteq DecisionPart(A)
<1>1. /\ accepted_var(i) \in Int /\ -accepted_var(i) \in Int
      /\ Holds(A, accepted_var(i)) <=> i \in DecisionPart(A)
      /\ Holds(A, -accepted_var(i)) <=> i \notin DecisionPart(A)
  BY Variables, ArgumentLiterals, DecisionPartType DEF Acc
<1> QED  BY <1>1, AcceptedAssumptions

\* The answers when arg is assumed to be accepted, or not to be.
LEMMA QueryAnswers ==
    ASSUME TypeOK, solver.assumptions = {}, arg \in Args, NEW l \in {accepted_var(arg), -accepted_var(arg)}
    PROVE  /\ assume(solver, {l}) \in Solvers(count)
           /\ assume(solver, {l}).models = solver.models
           /\ Answers(assume(solver, {l})) =
                IF l = accepted_var(arg) THEN {A \in solver.models : arg \in DecisionPart(A)}
                ELSE {A \in solver.models : arg \notin DecisionPart(A)}
<1>1. solver \in Solvers(count)
  BY DEF TypeOK
<1>2. {l} \in SUBSET Int
  BY Assumptions
<1>3. /\ assume(solver, {l}) \in Solvers(count)
      /\ assume(solver, {l}).models = solver.models
      /\ Answers(assume(solver, {l})) = {A \in solver.models : \A m \in {l} : Holds(A, m)}
  BY <1>1, <1>2, AssumeFields
<1>4. \A A : /\ Holds(A, accepted_var(arg)) <=> arg \in DecisionPart(A)
             /\ Holds(A, -accepted_var(arg)) <=> arg \notin DecisionPart(A)
  BY Assumptions
<1> QED  BY <1>3, <1>4

\* The answers while the set visited grows, and when the assumption about arg
\* is flipped.
LEMMA GrowAnswers ==
    ASSUME TypeOK, solver.assumptions = {}, arg \in Args
    PROVE  /\ Growing \in Solvers(count) /\ Growing.models = solver.models
           /\ Answers(Growing) = {A \in solver.models : /\ arg \notin DecisionPart(A)
                                                        /\ visited \subseteq DecisionPart(A)}
           /\ Flipped \in Solvers(count) /\ Flipped.models = solver.models
           /\ Answers(Flipped) = {A \in solver.models : /\ arg \in DecisionPart(A)
                                                        /\ visited \subseteq DecisionPart(A)}
<1> DEFINE vs == {accepted_var(j) : j \in visited}
<1>1. solver \in Solvers(count) /\ visited \in SUBSET Args
  BY DEF TypeOK
<1>2. /\ accepted_var(arg) \in Int /\ -accepted_var(arg) \in Int /\ vs \in SUBSET Int
      /\ \A A : /\ Holds(A, accepted_var(arg)) <=> arg \in DecisionPart(A)
                /\ Holds(A, -accepted_var(arg)) <=> arg \notin DecisionPart(A)
                /\ (\A l \in vs : Holds(A, l)) <=> visited \subseteq DecisionPart(A)
  BY <1>1, Assumptions
<1> HIDE DEF vs
<1>3. ASSUME NEW l \in Int
      PROVE  /\ assume(solver, {l} \cup vs) \in Solvers(count)
             /\ assume(solver, {l} \cup vs).models = solver.models
             /\ Answers(assume(solver, {l} \cup vs)) =
                  {A \in solver.models : Holds(A, l) /\ visited \subseteq DecisionPart(A)}
  <2>1. {l} \cup vs \in SUBSET Int
    BY <1>2
  <2> DEFINE lits == {l} \cup vs
  <2>2. \A A : (\A m \in lits : Holds(A, m)) <=> Holds(A, l) /\ visited \subseteq DecisionPart(A)
    BY <1>2
  <2> HIDE DEF lits
  <2>3. /\ assume(solver, lits) \in Solvers(count)
        /\ assume(solver, lits).models = solver.models
        /\ Answers(assume(solver, lits)) = {A \in solver.models : \A m \in lits : Holds(A, m)}
    BY <1>1, <2>1, AssumeFields DEF lits
  <2> QED  BY <2>2, <2>3 DEF lits
<1>4. Growing = assume(solver, {-accepted_var(arg)} \cup vs)
  BY DEF Growing, vs
<1>5. Flipped = assume(solver, {accepted_var(arg)} \cup vs)
  BY DEF Flipped, vs
<1>6. /\ Growing \in Solvers(count) /\ Growing.models = solver.models
      /\ Answers(Growing) = {A \in solver.models : /\ Holds(A, -accepted_var(arg))
                                                   /\ visited \subseteq DecisionPart(A)}
  BY <1>2, <1>3, <1>4
<1>7. /\ Flipped \in Solvers(count) /\ Flipped.models = solver.models
      /\ Answers(Flipped) = {A \in solver.models : /\ Holds(A, accepted_var(arg))
                                                   /\ visited \subseteq DecisionPart(A)}
  BY <1>2, <1>3, <1>5
<1> QED  BY <1>2, <1>6, <1>7

-----------------------------------------------------------------------------
(***************************************************************************)
(* The refinement.  Enumeration has its own copies of the definitions of   *)
(* Argumentation; they mean the same.                                      *)
(***************************************************************************)

\* The goal of the abstract specification is the one of this module.
LEMMA EnumGoal == Enum!Goal = Goal
  BY DEF Enum!Goal, Enum!Acceptable, Enum!Credulous, Enum!Skeptical,
         Enum!Extensions, Enum!IsExtension, Enum!Complete, Enum!Preferred,
         Enum!Stable, Enum!Admissible, Enum!ConflictFree, Enum!Defends, Enum!Args,
         Goal, Acceptable, Credulous, Skeptical, Extensions, IsExtension,
         Complete, Preferred, Stable, Admissible, ConflictFree, Defends, Args

\* The lists of the abstract specification are the ones of this module.
LEMMA EnumLists ==
    /\ Enum!Nothing = Nothing
    /\ \A S : Enum!Listing(S) = Listing(S)
    /\ \A r, S : Enum!Push(r, S) = Push(r, S)
    /\ Enum!Args = Args
  BY DEF Enum!Nothing, Enum!Listing, Enum!Push, Enum!Args, Nothing, Listing, Push, Args

\* IAQ.cpp starts where Enumeration does.
LEMMA EnumInit == Init => Enum!Init
<1> SUFFICES ASSUME Init PROVE Enum!Init
  OBVIOUS
<1>1. Enum!Relations = Relations /\ Enum!Tasks = Tasks /\ Enum!Semantics = Semantics
  BY DEF Enum!Relations, Enum!Tasks, Enum!Semantics, Enum!Args, Relations, Tasks,
         Semantics, Args
<1> QED  BY <1>1, EnumLists, FrameworksAssumption DEF Init, Enum!Init, Over

\* The members of a set of arguments below a bound, and below the next one.
LEMMA Below ==
    ASSUME NEW G \in SUBSET Args, NEW a \in Args
    PROVE  /\ {i \in G : i < a} \in SUBSET Args /\ {a} \in SUBSET Args
           /\ {i \in G : i < a} \cap {a} = {}
           /\ a \in G => {i \in G : i < a + 1} = {i \in G : i < a} \cup {a}
           /\ a \notin G => {i \in G : i < a + 1} = {i \in G : i < a}
<1>1. a \in Int /\ \A i \in G : i \in Int
  BY NAssumption DEF Args
<1> DEFINE B == {i \in G : i < a}
           C == {i \in G : i < a + 1}
<1>2. B \subseteq G /\ a \notin B
  BY <1>1
<1>3. C \subseteq G /\ \A i \in G : i \in C <=> i \in B \/ i = a
  BY <1>1
<1> HIDE DEF B, C
<1>4. a \in G => C = B \cup {a}
  BY <1>2, <1>3
<1>5. a \notin G => C = B
  BY <1>2, <1>3
<1>6. B \in SUBSET Args /\ {a} \in SUBSET Args /\ B \cap {a} = {}
  BY <1>2
<1> QED  BY <1>4, <1>5, <1>6 DEF B, C

\* A query that has decided arg, and lists it iff it is acceptable, is a step
\* of Enumeration and leaves the arguments up to arg decided.
LEMMA NextArgument ==
    ASSUME IInv, pc \in {"cred", "stable"} \/ Asking, pc' \in {"cred", "stable", "preferred"},
           arg \in Args, arg' = arg + 1, UNCHANGED <<att, task, sem>>,
           result' = IF arg \in Goal THEN Push(result, {arg}) ELSE result
    PROVE  /\ result' \in [Args -> Nat] /\ arg' \in 0 .. N
           /\ result' = Listing(Decided')
           /\ [Enum!Next]_Enum!vars
<1>1. /\ result \in [Args -> Nat] /\ arg \in 0 .. N /\ arg \in Int
      /\ result = Listing(Decided) /\ <<task, sem>> \in Problems
      /\ Goal' = Goal
  BY DEF IInv, TypeOK, Books, Phase, Problems, Asking, Goal
<1>2. arg' \in 0 .. N
  BY NAssumption DEF Args
<1>4. Decided' = {i \in Goal : i < arg + 1}
  BY <1>1 DEF Decided
<1>5. CASE arg \in Goal
  <2>1. Decided \in SUBSET Args /\ Decided \cap {arg} = {} /\ {arg} \in SUBSET Args
    BY GoalType, Below DEF Decided
  <2>2. Decided' = Decided \cup {arg}
    BY <1>4, <1>5, GoalType, Below DEF Decided
  <2>3. result' = Listing(Decided') /\ result' = Push(result, {arg})
    BY <1>1, <1>5, <2>1, <2>2, ListingGrows
  <2>4. result[arg] = 0
    BY <1>1, <2>1 DEF Listing
  <2>5. Enum!Supported
    BY <1>1 DEF Enum!Supported
  <2>6. Enum!List({arg})
    BY <1>1, <1>5, <2>3, <2>4, <2>5, EnumGoal, EnumLists DEF Enum!List, Over, Asking
  <2>7. Enum!Next
    BY <2>1, <2>6, EnumLists DEF Enum!Next
  <2> QED  BY <1>1, <1>2, <2>3, <2>7, PushType
<1>6. CASE arg \notin Goal
  <2>1. Decided' = Decided
    BY <1>4, <1>6, GoalType, Below DEF Decided
  <2>2. UNCHANGED Enum!vars
    BY <1>6 DEF Enum!vars, Over, Asking
  <2> QED  BY <1>1, <1>2, <1>6, <2>1, <2>2
<1> QED  BY <1>5, <1>6

-----------------------------------------------------------------------------
(***************************************************************************)
(* iaq_cred, and iaq_skep under stable semantics.                          *)
(***************************************************************************)

\* A query of these loops leaves the clauses alone and takes the next argument.
LEMMA QueryInv ==
    ASSUME IInv, pc \in {"cred", "stable"}, arg \in Args, NEW list \in BOOLEAN,
           NEW l \in {accepted_var(arg), -accepted_var(arg)}, Query(l, list),
           arg \in Goal <=> IF list THEN Answers(assume(solver, {l})) # {}
                            ELSE Answers(assume(solver, {l})) = {}
    PROVE  IInv' /\ [Enum!Next]_Enum!vars
<1> DEFINE s == assume(solver, {l})
<1>1. /\ pc' = pc /\ att' = att /\ task' = task /\ sem' = sem /\ visited' = visited
      /\ arg' = arg + 1
  BY DEF Query
<1>2. result' = IF arg \in Goal THEN Push(result, {arg}) ELSE result
  BY DEF Query
<1>3. s \in Solvers(count) /\ s.models = solver.models /\ count \in Nat
  BY QueryAnswers, CountType DEF IInv, Phase
<1>4. (\E A : solver' = AfterSat(s, A)) \/ solver' = AfterUnsat(s)
  BY DEF Query
<1> HIDE DEF s
<1>5. solver' \in Solvers(count) /\ solver'.models = solver.models /\ solver'.assumptions = {}
  BY <1>3, <1>4, SolverTypes, SolverFields
<1>6. /\ result' \in [Args -> Nat] /\ arg' \in 0 .. N
      /\ result' = Listing(Decided')
      /\ [Enum!Next]_Enum!vars
  BY <1>1, <1>2, NextArgument
<1>7. TypeOK'
  BY <1>1, <1>5, <1>6 DEF IInv, TypeOK
<1>8. Phase'
  BY <1>1, <1>5 DEF IInv, Phase, Asking
<1>9. Sound' /\ Open' /\ Grown' /\ Books'
  BY <1>1, <1>5, <1>6 DEF IInv, Sound, Open, Grown, Books, Asking, CredEncoding
<1> QED  BY <1>6, <1>7, <1>8, <1>9 DEF IInv

\* iaq_cred and iaq_skep start with every model of the encoding they use.
LEMMA StartInv == IInv /\ (CredStart \/ StableStart \/ PreferredStart)
                    => IInv' /\ [Enum!Next]_Enum!vars
<1> SUFFICES ASSUME IInv, CredStart \/ StableStart \/ PreferredStart
             PROVE  IInv' /\ [Enum!Next]_Enum!vars
  OBVIOUS
<1>1. /\ pc = "start" /\ pc' \in {"cred", "stable", "preferred"}
      /\ att' = att /\ task' = task /\ sem' = sem /\ visited' = visited
      /\ arg' = arg /\ arg = 0 /\ result' = result /\ result = Nothing
      /\ Goal' = Goal /\ CredEncoding' = CredEncoding
  BY DEF CredStart, StableStart, PreferredStart, IInv, Phase, Goal, CredEncoding
<1>2. solver' \in Solvers(count) /\ solver'.assumptions = {}
  <2>1. CASE PreferredStart
    BY <2>1 DEF PreferredStart, IInv, TypeOK, Phase
  <2>2. CASE CredStart \/ StableStart
    <3>1. PICK cnf : solver' = NewSolver(count, cnf)
      BY <2>2 DEF CredStart, StableStart
    <3>2. NewSolver(count, cnf) \in Solvers(count)
      BY CountType, NewSolverType
    <3> QED  BY <3>1, <3>2 DEF NewSolver
  <2> QED  BY <2>1, <2>2
<1>3. /\ pc' = "cred" => solver'.models = Models(count, CredEncoding)
      /\ pc' = "stable" => solver'.models = Models(count, stable(att))
  BY DEF CredStart, StableStart, PreferredStart, NewSolver
<1>4. Decided' = {}
  <2>1. Decided' = {i \in Goal : i < 0}
    BY <1>1 DEF Decided
  <2>2. \A i \in Goal : ~ (i < 0)
    BY GoalType DEF Args
  <2> QED  BY <2>1, <2>2
<1>5. TypeOK'
  BY <1>1, <1>2 DEF IInv, TypeOK
<1>6. Phase'
  BY <1>1, <1>2 DEF CredStart, StableStart, PreferredStart, Phase, Asking
<1>7. Sound' /\ Open' /\ Grown' /\ Books'
  BY <1>1, <1>3, <1>4, NothingListed DEF Sound, Open, Grown, Books, Asking
<1>8. UNCHANGED Enum!vars
  BY <1>1 DEF Over, Enum!vars
<1> QED  BY <1>5, <1>6, <1>7, <1>8 DEF IInv

\* An argument is listed by iaq_cred iff some extension has it.
LEMMA CredQueryInv == IInv /\ CredQuery => IInv' /\ [Enum!Next]_Enum!vars
<1> SUFFICES ASSUME IInv, CredQuery PROVE IInv' /\ [Enum!Next]_Enum!vars
  OBVIOUS
<1> DEFINE l == accepted_var(arg)
<1>1. /\ pc = "cred" /\ Query(l, TRUE) /\ arg \in 0 .. N /\ arg < N
      /\ task = "EC" /\ sem \in {"CO", "PR", "ST"} /\ att \in Relations
      /\ solver.assumptions = {} /\ solver.models = Models(count, CredEncoding)
  BY DEF CredQuery, Query, IInv, TypeOK, Phase, Sound
<1>2. arg \in Args
  BY <1>1, NAssumption DEF Args
<1>3. Answers(assume(solver, {l})) = {A \in solver.models : arg \in DecisionPart(A)}
  BY <1>1, <1>2, QueryAnswers DEF IInv
<1>4. arg \in Goal <=> \E A \in solver.models : arg \in DecisionPart(A)
  BY <1>1, <1>2, CredulousModels DEF Goal, CredEncoding
<1> HIDE DEF l
<1>5. arg \in Goal <=> Answers(assume(solver, {l})) # {}
  BY <1>3, <1>4
<1> QED  BY <1>1, <1>2, <1>5, QueryInv DEF l

\* An argument is listed by iaq_skep iff no stable extension lacks it.
LEMMA StableQueryInv == IInv /\ StableQuery => IInv' /\ [Enum!Next]_Enum!vars
<1> SUFFICES ASSUME IInv, StableQuery PROVE IInv' /\ [Enum!Next]_Enum!vars
  OBVIOUS
<1> DEFINE l == -accepted_var(arg)
<1>1. /\ pc = "stable" /\ Query(l, FALSE) /\ arg \in 0 .. N /\ arg < N
      /\ task = "ES" /\ sem = "ST" /\ att \in Relations
      /\ solver.assumptions = {} /\ solver.models = Models(count, stable(att))
  BY DEF StableQuery, Query, IInv, TypeOK, Phase, Sound
<1>2. arg \in Args
  BY <1>1, NAssumption DEF Args
<1>3. l # accepted_var(arg)
  BY <1>2, Variables
<1>4. Answers(assume(solver, {l})) = {A \in solver.models : arg \notin DecisionPart(A)}
  BY <1>1, <1>2, <1>3, QueryAnswers DEF IInv
<1>5. arg \in Goal <=> \A A \in solver.models : arg \in DecisionPart(A)
  BY <1>1, <1>2, SkepticalModels DEF Goal
<1> HIDE DEF l
<1>6. arg \in Goal <=> Answers(assume(solver, {l})) = {}
  BY <1>4, <1>5
<1> QED  BY <1>1, <1>2, <1>6, QueryInv DEF l

-----------------------------------------------------------------------------
(***************************************************************************)
(* iaq_skep under preferred semantics: is_skeptically_preferred.           *)
(***************************************************************************)

\* The flipped query decides.  If the set grown is preferred, an answer would
\* be a complete extension above it.  If it is not, a preferred extension lies
\* strictly above it; that one is still open, so it contains the argument and
\* is an answer.
LEMMA FlipAnswers ==
    ASSUME IInv, pc = "flip"
    PROVE  Answers(Flipped) = {} <=> Preferred(att, visited)
<1>1. /\ arg \in Args /\ att \in Relations /\ solver.assumptions = {} /\ TypeOK
      /\ solver.models \subseteq Models(count, complete(att))
      /\ Complete(att, visited) /\ arg \notin visited
  BY DEF IInv, Phase, Sound, TypeOK, Asking
<1>2. Answers(Flipped) = {A \in solver.models : /\ arg \in DecisionPart(A)
                                                /\ visited \subseteq DecisionPart(A)}
  BY <1>1, GrowAnswers
<1>3. ASSUME Preferred(att, visited), NEW A \in Answers(Flipped) PROVE FALSE
  <2>1. Complete(att, DecisionPart(A))
    BY <1>1, <1>2, <1>3, CompleteReports
  <2>2. visited = DecisionPart(A)
    BY <1>2, <1>3, <2>1, PreferredMaximal
  <2> QED  BY <1>1, <1>2, <1>3, <2>2
<1>4. ASSUME ~ Preferred(att, visited) PROVE Answers(Flipped) # {}
  <2>1. PICK P \in SUBSET Args : Preferred(att, P) /\ visited \subseteq P
    BY <1>1, PreferredAbove DEF Complete
  <2> DEFINE A == ModelOf(att, P)
  <2>2. A \in solver.models
    BY <1>4, <2>1 DEF IInv, Open, Asking
  <2>3. DecisionPart(A) = P
    BY <1>1, <2>1, PreferredReported
  <2> HIDE DEF A
  <2>4. arg \in DecisionPart(A)
    BY <2>1, <2>2, <2>3 DEF IInv, Grown
  <2> QED  BY <1>2, <2>1, <2>2, <2>3, <2>4
<1> QED  BY <1>3, <1>4

\* Each query has a solver of its own, with every complete extension open.
LEMMA CallQueryInv == IInv /\ CallQuery => IInv' /\ [Enum!Next]_Enum!vars
<1> SUFFICES ASSUME IInv, CallQuery PROVE IInv' /\ [Enum!Next]_Enum!vars
  OBVIOUS
<1>1. /\ pc = "preferred" /\ pc' = "outer" /\ att' = att /\ task' = task /\ sem' = sem
      /\ arg' = arg /\ visited' = visited /\ result' = result
      /\ arg \in 0 .. N /\ arg < N /\ att \in Relations /\ task = "ES" /\ sem = "PR"
  BY DEF CallQuery, IInv, TypeOK, Phase
<1>2. arg \in Args
  BY <1>1, NAssumption DEF Args
<1>3. solver' \in Solvers(count)
  BY CountType, NewSolverType DEF CallQuery
<1>4. solver'.models = Models(count, complete(att)) /\ solver'.assumptions = {}
  BY DEF CallQuery, NewSolver
<1>5. TypeOK'
  BY <1>1, <1>3 DEF IInv, TypeOK
<1>6. Phase' /\ Sound' /\ Grown'
  BY <1>1, <1>2, <1>4 DEF Phase, Sound, Grown, Asking
<1>7. Books'
  BY <1>1 DEF IInv, Books, Decided, Goal, Asking
<1>8. Open'
  BY <1>1, <1>4, PreferredReported DEF Open
<1>9. UNCHANGED Enum!vars
  BY <1>1 DEF Over, Enum!vars
<1> QED  BY <1>5, <1>6, <1>7, <1>8, <1>9 DEF IInv

\* The body of the inner loop.  The set grown becomes the new answer; of the
\* preferred extensions the clause can only exclude the answer itself, and the
\* set grown before was preferred only if it is the answer.
LEMMA GrowInv ==
    ASSUME IInv, pc \in {"outer", "grow"}, pc' = "grow", UNCHANGED <<att, task, sem, arg, result>>,
           NEW s \in Solvers(count), s.models = solver.models,
           NEW A \in solver.models, arg \notin DecisionPart(A),
           NEW seen \in SUBSET DecisionPart(A), pc = "grow" => seen = visited,
           Grow(AfterSat(s, A), seen)
    PROVE  IInv' /\ [Enum!Next]_Enum!vars
<1> DEFINE S == DecisionPart(A)
           t == AfterSat(s, A)
           c == {accepted_var(i) : i \in Args \ S}
<1>1. /\ att' = att /\ task' = task /\ sem' = sem /\ arg' = arg /\ result' = result
      /\ task = "ES" /\ sem = "PR" /\ arg \in Args /\ att \in Relations /\ count \in Nat
      /\ solver.models \subseteq Models(count, complete(att))
  BY CountType DEF IInv, TypeOK, Phase, Sound, Asking
<1>2. t \in Solvers(count) /\ t.models = solver.models /\ t.assumptions = {} /\ t.model = S
  BY <1>1, SolverTypes, SolverFields
<1>3. visited' = S /\ solver' = add_clause(t, c)
  BY <1>2 DEF Grow
<1>4. S \in SUBSET Args /\ Complete(att, S)
  BY <1>1, DecisionPartType, CompleteReports
<1> HIDE DEF t, c
<1>5. /\ solver' \in Solvers(count) /\ solver'.assumptions = {}
      /\ solver'.models = {B \in solver.models : Satisfies(B, c)}
  BY <1>1, <1>2, <1>3, ClauseFields
<1>6. \A B : Satisfies(B, c) <=> ~ (DecisionPart(B) \subseteq S)
  BY <1>4, OutsideClause DEF c
<1>7. TypeOK'
  BY <1>1, <1>3, <1>4, <1>5 DEF IInv, TypeOK
<1>8. Phase' /\ Sound' /\ Grown'
  BY <1>1, <1>3, <1>4, <1>5 DEF Phase, Sound, Grown, Asking
<1>9. Books'
  BY <1>1 DEF IInv, Books, Decided, Goal, Asking
<1>10. Open'
  <2> SUFFICES ASSUME NEW P \in SUBSET Args, Preferred(att, P),
                      ModelOf(att, P) \notin solver'.models
               PROVE  P = S
    BY <1>1, <1>3 DEF Open
  <2> DEFINE B == ModelOf(att, P)
  <2>1. DecisionPart(B) = P
    BY <1>1, PreferredReported
  <2>2. B \in solver.models \/ (pc = "grow" /\ P = visited)
    BY DEF IInv, Open, Asking
  <2> HIDE DEF B
  <2>3. P \subseteq S
    BY <1>5, <1>6, <2>1, <2>2 DEF B
  <2> QED  BY <1>4, <2>3, PreferredMaximal
<1>11. UNCHANGED Enum!vars
  BY <1>1 DEF Over, Enum!vars
<1> QED  BY <1>7, <1>8, <1>9, <1>10, <1>11 DEF IInv

\* A query returns with arg decided.
LEMMA ReturnInv ==
    ASSUME IInv, Asking, NEW list \in BOOLEAN, Return(list), list <=> arg \in Goal,
           solver' \in Solvers(count), solver'.assumptions = {}
    PROVE  IInv' /\ [Enum!Next]_Enum!vars
<1>1. /\ pc' = "preferred" /\ att' = att /\ task' = task /\ sem' = sem /\ arg' = arg + 1
      /\ visited' = visited /\ arg \in Args /\ task = "ES" /\ sem = "PR"
      /\ result' = IF arg \in Goal THEN Push(result, {arg}) ELSE result
  BY DEF Return, IInv, Phase
<1>2. /\ result' \in [Args -> Nat] /\ arg' \in 0 .. N
      /\ result' = Listing(Decided')
      /\ [Enum!Next]_Enum!vars
  BY <1>1, NextArgument
<1>3. TypeOK'
  BY <1>1, <1>2 DEF IInv, TypeOK
<1>4. Phase' /\ Sound' /\ Grown' /\ Open' /\ Books'
  BY <1>1, <1>2 DEF Phase, Sound, Grown, Open, Books, Asking
<1> QED  BY <1>2, <1>3, <1>4 DEF IInv

\* The query without assumptions on a grown set.
LEMMA OuterInv == IInv /\ (OuterSat \/ OuterUnsat) => IInv' /\ [Enum!Next]_Enum!vars
<1> SUFFICES ASSUME IInv, OuterSat \/ OuterUnsat PROVE IInv' /\ [Enum!Next]_Enum!vars
  OBVIOUS
<1> DEFINE s == assume(solver, {-accepted_var(arg)})
<1>1. /\ pc = "outer" /\ Asking /\ arg \in Args /\ att \in Relations /\ count \in Nat
      /\ solver.assumptions = {} /\ TypeOK /\ task = "ES" /\ sem = "PR"
  BY CountType DEF OuterSat, OuterUnsat, IInv, Phase, TypeOK, Asking
<1>2. -accepted_var(arg) # accepted_var(arg)
  BY <1>1, Variables
<1>3. /\ s \in Solvers(count) /\ s.models = solver.models
      /\ Answers(s) = {A \in solver.models : arg \notin DecisionPart(A)}
  BY <1>1, <1>2, QueryAnswers
<1>4. CASE OuterSat
  <2>1. PICK A \in Answers(s) : Grow(AfterSat(s, A), {})
    BY <1>4 DEF OuterSat
  <2> HIDE DEF s
  <2>2. A \in solver.models /\ arg \notin DecisionPart(A)
    BY <1>3
  <2>3. pc' = "grow" /\ UNCHANGED <<att, task, sem, arg, result>>
    BY <1>4 DEF OuterSat
  <2> QED  BY <1>1, <1>3, <2>1, <2>2, <2>3, GrowInv
<1>5. CASE OuterUnsat
  <2>1. Answers(s) = {} /\ solver' = AfterUnsat(s) /\ Return(TRUE)
    BY <1>5 DEF OuterUnsat
  <2> HIDE DEF s
  <2>2. ASSUME NEW P \in SUBSET Args, Preferred(att, P) PROVE arg \in P
    <3>1. ModelOf(att, P) \in solver.models
      BY <1>1, <2>2 DEF IInv, Open
    <3>2. DecisionPart(ModelOf(att, P)) = P
      BY <1>1, <2>2, PreferredReported
    <3> QED  BY <1>3, <2>1, <3>1, <3>2
  <2>3. arg \in Goal
    BY <1>1, <2>2, PreferredGoal
  <2>4. solver' \in Solvers(count) /\ solver'.assumptions = {}
    BY <1>1, <1>3, <2>1, SolverTypes, SolverFields
  <2> QED  BY <1>1, <2>1, <2>3, <2>4, ReturnInv
<1> QED  BY <1>4, <1>5

\* Growing: an answer is taken in; without one, what is open above the set
\* grown contains the argument.
LEMMA GrowingInv == IInv /\ (GrowSat \/ GrowUnsat) => IInv' /\ [Enum!Next]_Enum!vars
<1> SUFFICES ASSUME IInv, GrowSat \/ GrowUnsat PROVE IInv' /\ [Enum!Next]_Enum!vars
  OBVIOUS
<1>1. /\ pc = "grow" /\ arg \in Args /\ count \in Nat /\ solver.assumptions = {} /\ TypeOK
      /\ task = "ES" /\ sem = "PR"
  BY CountType DEF GrowSat, GrowUnsat, IInv, Phase, Asking
<1>2. /\ Growing \in Solvers(count) /\ Growing.models = solver.models
      /\ Answers(Growing) = {A \in solver.models : /\ arg \notin DecisionPart(A)
                                                   /\ visited \subseteq DecisionPart(A)}
  BY <1>1, GrowAnswers
<1>3. CASE GrowSat
  <2>1. PICK A \in Answers(Growing) : Grow(AfterSat(Growing, A), visited)
    BY <1>3 DEF GrowSat
  <2>2. A \in solver.models /\ arg \notin DecisionPart(A) /\ visited \in SUBSET DecisionPart(A)
    BY <1>2
  <2>3. pc' = "grow" /\ UNCHANGED <<att, task, sem, arg, result>>
    BY <1>1, <1>3 DEF GrowSat
  <2> QED  BY <1>1, <1>2, <2>1, <2>2, <2>3, GrowInv
<1>4. CASE GrowUnsat
  <2>1. /\ pc' = "flip" /\ att' = att /\ task' = task /\ sem' = sem /\ arg' = arg
        /\ visited' = visited /\ result' = result
        /\ Answers(Growing) = {} /\ solver' = AfterUnsat(Growing)
    BY <1>4 DEF GrowUnsat
  <2>2. solver' \in Solvers(count) /\ solver'.models = solver.models /\ solver'.assumptions = {}
    BY <1>1, <1>2, <2>1, SolverTypes, SolverFields
  <2>3. TypeOK'
    BY <2>1, <2>2 DEF IInv, TypeOK
  <2>4. Grown'
    BY <1>2, <2>1, <2>2 DEF Grown
  <2>5. Phase' /\ Sound' /\ Open'
    BY <1>1, <2>1, <2>2 DEF IInv, Phase, Sound, Open, Asking
  <2>6. Books'
    BY <1>1, <2>1 DEF IInv, Books, Decided, Goal, Asking
  <2>7. UNCHANGED Enum!vars
    BY <1>1, <2>1 DEF Over, Enum!vars
  <2> QED  BY <2>3, <2>4, <2>5, <2>6, <2>7 DEF IInv
<1> QED  BY <1>3, <1>4

\* The flipped query: the set grown is not preferred and the search goes on,
\* or it is and the argument is not accepted.
LEMMA FlipInv == IInv /\ (FlipSat \/ FlipUnsat) => IInv' /\ [Enum!Next]_Enum!vars
<1> SUFFICES ASSUME IInv, FlipSat \/ FlipUnsat PROVE IInv' /\ [Enum!Next]_Enum!vars
  OBVIOUS
<1>1. /\ pc = "flip" /\ Asking /\ arg \in Args /\ count \in Nat /\ solver.assumptions = {}
      /\ TypeOK /\ task = "ES" /\ sem = "PR" /\ arg \notin visited /\ visited \in SUBSET Args
  BY CountType DEF FlipSat, FlipUnsat, IInv, Phase, Sound, TypeOK, Asking
<1>2. Flipped \in Solvers(count) /\ Flipped.models = solver.models
  BY <1>1, GrowAnswers
<1>3. CASE FlipSat
  <2>1. PICK A \in Answers(Flipped) : solver' = AfterSat(Flipped, A)
    BY <1>3 DEF FlipSat
  <2>2. /\ pc' = "outer" /\ att' = att /\ task' = task /\ sem' = sem /\ arg' = arg
        /\ visited' = visited /\ result' = result
    BY <1>3 DEF FlipSat
  <2>3. solver' \in Solvers(count) /\ solver'.models = solver.models /\ solver'.assumptions = {}
    BY <1>1, <1>2, <2>1, SolverTypes, SolverFields
  <2>4. ~ Preferred(att, visited)
    BY <1>1, <2>1, FlipAnswers
  <2>5. Open'
    BY <1>1, <2>2, <2>3, <2>4 DEF IInv, Open, Asking
  <2>6. TypeOK'
    BY <2>2, <2>3 DEF IInv, TypeOK
  <2>7. Phase' /\ Sound' /\ Grown'
    BY <1>1, <2>2, <2>3 DEF IInv, Phase, Sound, Grown, Asking
  <2>8. Books'
    BY <1>1, <2>2 DEF IInv, Books, Decided, Goal, Asking
  <2>9. UNCHANGED Enum!vars
    BY <1>1, <2>2 DEF Over, Enum!vars
  <2> QED  BY <2>5, <2>6, <2>7, <2>8, <2>9 DEF IInv
<1>4. CASE FlipUnsat
  <2>1. Answers(Flipped) = {} /\ solver' = AfterUnsat(Flipped) /\ Return(FALSE)
    BY <1>4 DEF FlipUnsat
  <2>2. Preferred(att, visited)
    BY <1>1, <2>1, FlipAnswers
  <2>3. arg \notin Goal
    BY <1>1, <2>2, PreferredGoal
  <2>4. solver' \in Solvers(count) /\ solver'.assumptions = {}
    BY <1>1, <1>2, <2>1, SolverTypes, SolverFields
  <2> QED  BY <1>1, <2>1, <2>3, <2>4, ReturnInv
<1> QED  BY <1>3, <1>4

-----------------------------------------------------------------------------

\* When the loop over the arguments ends, all of them have been decided.
LEMMA LoopEndInv == IInv /\ LoopEnd => IInv' /\ [Enum!Next]_Enum!vars
<1> SUFFICES ASSUME IInv, LoopEnd PROVE IInv' /\ [Enum!Next]_Enum!vars
  OBVIOUS
<1>1. /\ pc \in {"cred", "stable", "preferred"} /\ pc' = "done" /\ arg = N
      /\ att' = att /\ task' = task /\ sem' = sem /\ solver' = solver /\ arg' = arg
      /\ visited' = visited /\ result' = result
  BY DEF LoopEnd
<1>2. <<task, sem>> \in Problems /\ result = Listing(Decided)
  BY <1>1 DEF IInv, Phase, Books, Problems
<1>3. Decided = Goal
  <2>1. \A i \in Goal : i < arg
    BY <1>1, GoalType, NAssumption DEF Args
  <2> QED  BY <2>1 DEF Decided
<1>4. Enum!Supported
  BY <1>2 DEF Enum!Supported
<1>5. Enum!Finish
  BY <1>1, <1>2, <1>3, <1>4, EnumGoal, EnumLists DEF Enum!Finish, Over
<1>6. IInv'
  BY <1>1 DEF IInv, TypeOK, Phase, Sound, Books, Open, Grown, Asking
<1> QED  BY <1>5, <1>6 DEF Enum!Next

\* Nothing has happened when iaq_cred or iaq_skep is called.
LEMMA InvInit == Init => IInv
<1> SUFFICES ASSUME Init PROVE IInv
  OBVIOUS
<1>1. solver \in Solvers(count) /\ solver.assumptions = {}
  <2>1. NewSolver(0, {}) \in Solvers(count)
    BY CountType, NewSolverType
  <2> QED  BY <2>1 DEF Init, NewSolver
<1>2. TypeOK
  BY <1>1, FrameworksAssumption, NAssumption DEF Init, TypeOK, Nothing
<1>3. Phase /\ Sound /\ Books /\ Open /\ Grown
  BY <1>1 DEF Init, Phase, Sound, Books, Open, Grown, Asking
<1> QED  BY <1>2, <1>3 DEF IInv

\* Every step keeps the invariant, and is a step of Enumeration or a stutter.
LEMMA InvStep == IInv /\ [Next]_vars => IInv' /\ [Enum!Next]_Enum!vars
<1> SUFFICES ASSUME IInv, [Next]_vars PROVE IInv' /\ [Enum!Next]_Enum!vars
  OBVIOUS
<1>1. CASE Unsupported
  <2>1. ~ Enum!Supported
    BY <1>1 DEF Unsupported, Enum!Supported, Problems
  <2>2. Enum!Refuse
    BY <1>1, <2>1 DEF Unsupported, Enum!Refuse, Over
  <2>3. IInv'
    BY <1>1 DEF Unsupported, IInv, TypeOK, Phase, Sound, Books, Open, Grown, Asking
  <2> QED  BY <2>2, <2>3 DEF Enum!Next
<1>2. CASE UNCHANGED vars
  <2>1. UNCHANGED Enum!vars
    BY <1>2 DEF vars, Over, Enum!vars
  <2>2. IInv'
    BY <1>2 DEF vars, IInv, TypeOK, Phase, Sound, Books, Open, Grown, Asking, Decided,
                Goal, CredEncoding
  <2> QED  BY <2>1, <2>2
<1>3. CASE Ended
  BY <1>2, <1>3 DEF Ended
<1> QED  BY <1>1, <1>2, <1>3, StartInv, CredQueryInv, StableQueryInv, CallQueryInv,
            OuterInv, GrowingInv, FlipInv, LoopEndInv
         DEF Next

\* The inductive invariant holds in every reachable state.
THEOREM Invariant == Spec => []IInv
  BY InvInit, InvStep, PTL DEF Spec

\* IAQ.cpp keeps its variables in their types.
THEOREM TypeCorrect == Spec => []TypeOK
<1>1. IInv => TypeOK
  BY DEF IInv
<1> QED  BY <1>1, Invariant, PTL

\* The solve() after the assumption is flipped decides whether the set grown
\* is preferred, whatever clauses the earlier rounds of the query have left.
THEOREM FlipDecidesAlways == Spec => []FlipDecides
<1>1. IInv => FlipDecides
  BY FlipAnswers DEF FlipDecides
<1> QED  BY <1>1, Invariant, PTL

\* While is_skeptically_preferred looks for a preferred extension without the
\* argument, it has blocked none.
THEOREM NoCounterexampleLostAlways == Spec => []NoCounterexampleLost
<1>1. IInv => NoCounterexampleLost
  <2> SUFFICES ASSUME IInv, pc = "outer", NEW P \in SUBSET Args, Preferred(att, P)
               PROVE  \E A \in solver.models : DecisionPart(A) = P
    BY DEF NoCounterexampleLost, Extensions, IsExtension
  <2>1. att \in Relations /\ ModelOf(att, P) \in solver.models
    BY DEF IInv, TypeOK, Open, Asking
  <2> QED  BY <2>1, PreferredReported
<1> QED  BY <1>1, Invariant, PTL

\* IAQ.cpp implements Enumeration: it lists exactly the acceptable arguments,
\* each once, and refuses the problems it does not list.
THEOREM Refinement == Spec => Implements
<1>1. Spec => Enum!Init /\ [][Enum!Next]_Enum!vars
  BY EnumInit, InvStep, Invariant, PTL DEF Spec
<1> QED  BY <1>1 DEF Implements, Enum!Spec

-----------------------------------------------------------------------------
(***************************************************************************)
(* The measure of a query: the assignments the clauses still allow.        *)
(***************************************************************************)

\* The body of the inner loop excludes the answer it takes in.
LEMMA GrowExcludes ==
    ASSUME NEW s \in Solvers(count), NEW A \in s.models, NEW seen, Grow(AfterSat(s, A), seen)
    PROVE  solver'.models \subseteq s.models /\ solver'.models # s.models
<1> DEFINE S == DecisionPart(A)
           c == {accepted_var(i) : i \in Args \ S}
<1>1. count \in Nat /\ AfterSat(s, A).model = S /\ S \in SUBSET Args
  BY CountType, SolverFields, DecisionPartType
<1>2. solver' = add_clause(AfterSat(s, A), c)
  BY <1>1 DEF Grow
<1>3. ~ Satisfies(A, c)
  BY <1>1, OutsideClause
<1> HIDE DEF c
<1>4. solver'.models = {B \in s.models : Satisfies(B, c)}
  BY <1>1, <1>2, RoundFields
<1> QED  BY <1>3, <1>4

\* An answer to the first query or while the set grows is excluded.
LEMMA QueryExcludes ==
    ASSUME IInv, OuterSat \/ GrowSat
    PROVE  solver'.models \subseteq solver.models /\ solver'.models # solver.models
<1>1. TypeOK /\ arg \in Args /\ solver.assumptions = {}
  BY DEF OuterSat, GrowSat, IInv, Phase, Asking
<1>2. CASE OuterSat
  <2> DEFINE s == assume(solver, {-accepted_var(arg)})
  <2>1. -accepted_var(arg) # accepted_var(arg)
    BY <1>1, Variables
  <2>2. /\ s \in Solvers(count) /\ s.models = solver.models
        /\ Answers(s) = {A \in solver.models : arg \notin DecisionPart(A)}
    BY <1>1, <2>1, QueryAnswers
  <2>3. PICK A \in Answers(s) : Grow(AfterSat(s, A), {})
    BY <1>2 DEF OuterSat
  <2> HIDE DEF s
  <2>4. A \in s.models
    BY <2>2
  <2> QED  BY <2>2, <2>3, <2>4, GrowExcludes
<1>3. CASE GrowSat
  <2>1. PICK A \in Answers(Growing) : Grow(AfterSat(Growing, A), visited)
    BY <1>3 DEF GrowSat
  <2>2. Growing \in Solvers(count) /\ Growing.models = solver.models /\ A \in Growing.models
    BY <1>1, GrowAnswers
  <2> QED  BY <2>1, <2>2, GrowExcludes
<1> QED  BY <1>2, <1>3

\* The two calls that exclude nothing bring nothing excluded back.
LEMMA CallKeeps ==
    ASSUME IInv, GrowUnsat \/ FlipSat
    PROVE  solver'.models = solver.models
<1>1. TypeOK /\ arg \in Args /\ solver.assumptions = {} /\ count \in Nat
  BY CountType DEF GrowUnsat, FlipSat, IInv, Phase, Asking
<1>2. /\ Growing \in Solvers(count) /\ Growing.models = solver.models
      /\ Flipped \in Solvers(count) /\ Flipped.models = solver.models
  BY <1>1, GrowAnswers
<1> QED  BY <1>1, <1>2, SolverFields DEF GrowUnsat, FlipSat

\* Within a query no answer of the two loops is given twice, and at most two
\* calls to solve() in a row exclude nothing.
THEOREM NeverTwiceAlways == Spec => NeverTwice
<1> DEFINE A == arg' = arg /\ pc \in {"outer", "grow", "flip"} =>
                    /\ solver'.models \subseteq solver.models
                    /\ \/ solver'.models # solver.models
                       \/ pc = "grow" /\ pc' = "flip"
                       \/ pc = "flip" /\ pc' = "outer"
<1>1. IInv /\ [Next]_vars => [A]_vars
  <2> SUFFICES ASSUME IInv, Next, arg' = arg, pc \in {"outer", "grow", "flip"}
               PROVE  A
    OBVIOUS
  <2>1. CASE OuterSat \/ GrowSat
    BY <2>1, QueryExcludes
  <2>2. CASE GrowUnsat \/ FlipSat
    BY <2>2, CallKeeps DEF GrowUnsat, FlipSat
  <2>3. arg' # arg + 1
    BY DEF IInv, TypeOK
  <2>4. ~ (CredStart \/ CredQuery \/ StableStart \/ StableQuery \/ PreferredStart
             \/ CallQuery \/ OuterUnsat \/ FlipUnsat \/ LoopEnd \/ Unsupported \/ Ended)
    BY <2>3 DEF CredStart, CredQuery, StableStart, StableQuery, PreferredStart,
                CallQuery, OuterUnsat, FlipUnsat, Return, LoopEnd, Unsupported, Ended, Over
  <2> QED  BY <2>1, <2>2, <2>4 DEF Next
<1>2. Spec => [][A]_vars
  BY <1>1, Invariant, PTL DEF Spec
<1> QED  BY <1>2 DEF NeverTwice
=============================================================================
