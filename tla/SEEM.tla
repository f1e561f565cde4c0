-------------------------------- MODULE SEEM --------------------------------
(***************************************************************************)
(* SEEM.cpp: selective extension enumeration with a MaxSAT solver.  Each   *)
(* round asks for an extension that changes the answer the most, and the   *)
(* loop ends when the optimal cost says that none changes it at all: no    *)
(* blocking clause is ever added.                                          *)
(*                                                                         *)
(* One action is one round of a loop.  seem_cred builds a new solver in    *)
(* every round, and destroys it at its end, so that solver is not part of  *)
(* the state; seem_skep keeps one and re-weights its soft literals.        *)
(***************************************************************************)
EXTENDS MaxSatSolver

CONSTANT Frameworks     \* the attack relations the solver may be started on

ASSUME FrameworksAssumption == Frameworks \subseteq Relations

VARIABLES
    att, task, sem,     \* the framework and the problem, fixed at the start
    pc,                 \* "start", in the loop of seem_cred or seem_skep, or over
    solver,             \* the MaxSAT solver of seem_skep
    included,           \* seem_cred: seen in some extension; seem_skep: in all
    unvisited,          \* seem_cred: the arguments in no extension seen so far
    result              \* the list returned, as a bag

vars == <<att, task, sem, pc, solver, included, unvisited, result>>

Init ==
    /\ att \in Frameworks
    /\ task \in Tasks
    /\ sem \in Semantics
    /\ pc = "start"
    /\ solver = NewMaxSolver(0, {})
    /\ included = {}
    /\ unvisited = Args
    /\ result = Nothing

-----------------------------------------------------------------------------
\* Mutant: strictly greater.
Exhausted_strict(s, max_weight) == \A A \in Optimal(s) : Cost(s, A) > max_weight

\* The test that ends both loops: UNSAT_V, or nothing left to gain.
Exhausted(s, max_weight) == \A A \in Optimal(s) : Cost(s, A) >= max_weight

(***************************************************************************)
(* seem_cred: an unvisited argument that is not accepted costs 1.          *)
(***************************************************************************)
CredStart ==
    /\ pc = "start" /\ task = "EC"
    /\ sem \in {"CO", "PR", "ST"}
    /\ pc' = "cred"
    /\ UNCHANGED <<att, task, sem, solver, included, unvisited, result>>

\* Mutant: the soft literal has the other polarity.
CredSolver_positive ==
    add_soft_constraint(
        NewMaxSolver(count, IF sem = "ST" THEN stable(att) ELSE complete(att)),
        {accepted_var(i) : i \in unvisited})

CredSolver ==
    add_soft_constraint(
        NewMaxSolver(count, IF sem = "ST" THEN stable(att) ELSE complete(att)),
        {-accepted_var(i) : i \in unvisited})

CredRound ==
    /\ pc = "cred"
    /\ ~ Exhausted(CredSolver, Cardinality(unvisited))
    /\ \E A \in Optimal(CredSolver) :
         LET model == DecisionPart(A) IN
         /\ result' = Push(result, model \ included)
         /\ included' = included \cup model
         /\ unvisited' = unvisited \ model
    /\ UNCHANGED <<att, task, sem, pc, solver>>

CredEnd ==
    /\ pc = "cred"
    /\ Exhausted(CredSolver, Cardinality(unvisited))
    /\ pc' = "done"
    /\ UNCHANGED <<att, task, sem, solver, included, unvisited, result>>

(***************************************************************************)
(* seem_skep: an argument included so far that is not rejected costs 1;    *)
(* the soft literals of the others are switched off.                       *)
(***************************************************************************)
SkepStart ==
    /\ pc = "start" /\ task = "ES"
    /\ sem = "ST"
    /\ solver' = NewMaxSolver(count, stable(att))
    /\ included' = Args
    /\ pc' = "skep"
    /\ UNCHANGED <<att, task, sem, unvisited, result>>

\* Mutant: the soft literals of excluded arguments are left on.
SkepSolver_keep == add_soft_constraint(solver, {-rejected_var(i) : i \in included})

SkepSolver ==
    disable_soft_constraint(
        add_soft_constraint(solver, {-rejected_var(i) : i \in included}),
        {-rejected_var(i) : i \in Args \ included})

SkepRound ==
    /\ pc = "skep"
    /\ ~ Exhausted(SkepSolver, Cardinality(included))
    /\ \E A \in Optimal(SkepSolver) :
         /\ solver' = AfterSat(SkepSolver, A)
         /\ included' = included \cap DecisionPart(A)
    /\ UNCHANGED <<att, task, sem, pc, unvisited, result>>

SkepEnd ==
    /\ pc = "skep"
    /\ Exhausted(SkepSolver, Cardinality(included))
    /\ result' = Push(result, included)
    /\ pc' = "done"
    /\ UNCHANGED <<att, task, sem, solver, included, unvisited>>

(***************************************************************************)
(* Both functions exit(1) on a semantics they do not support.              *)
(***************************************************************************)
Unsupported ==
    /\ pc = "start"
    /\ \/ task = "EC" /\ sem \notin {"CO", "PR", "ST"}
       \/ task = "ES" /\ sem # "ST"
    /\ pc' = "exit1"
    /\ UNCHANGED <<att, task, sem, solver, included, unvisited, result>>

Over == pc \in {"done", "exit1"}

\* The process has ended.
Ended == Over /\ UNCHANGED vars

Next ==
    \/ CredStart \/ CredRound \/ CredEnd
    \/ SkepStart \/ SkepRound \/ SkepEnd
    \/ Unsupported \/ Ended

Spec == Init /\ [][Next]_vars

\* The process is single threaded and every call to solve() returns.
FairSpec == Spec /\ WF_vars(Next)

-----------------------------------------------------------------------------

TypeOK ==
    /\ att \in Relations /\ task \in Tasks /\ sem \in Semantics
    /\ pc \in {"start", "cred", "skep", "done", "exit1"}
    /\ solver \in MaxSolvers(count)
    /\ included \in SUBSET Args
    /\ unvisited \in SUBSET Args
    /\ result \in [Args -> Nat]

\* The problems print_problems lists for a SEEM build.
Problems == {<<"EC", "CO">>, <<"EC", "PR">>, <<"EC", "ST">>, <<"ES", "ST">>}

Enum == INSTANCE Enumeration WITH
            status <- IF Over THEN pc ELSE "running"

\* SEEM.cpp lists exactly the acceptable arguments of every problem it
\* advertises, each once, and refuses the other problems (the source asks of
\* seem_skep: "TODO does this really work always?").
Implements == Enum!Spec

\* The comparison of the optimal cost with the number of soft literals decides
\* whether any extension can still change the answer, in every round: with
\* the soft literals left from earlier rounds in seem_skep, and when there is
\* no extension at all.
CostTestDecides ==
    /\ pc = "cred" =>
         (Exhausted(CredSolver, Cardinality(unvisited))
            <=> Credulous(att, sem) \subseteq included)
    /\ pc = "skep" =>
         (Exhausted(SkepSolver, Cardinality(included))
            <=> included \subseteq Skeptical(att, sem))

\* Every round of a loop visits, or excludes, at least one argument, and as
\* many as any extension could: there are at most as many rounds as arguments.
\* This rests on costs alone, since no clause ever rules out what has been seen.
Greedy ==
    [][ /\ pc = "cred" /\ pc' = "cred" =>
             /\ unvisited' # unvisited
             /\ \A E \in Extensions(att, sem) :
                   Cardinality(unvisited') <= Cardinality(unvisited \ E)
        /\ pc = "skep" /\ pc' = "skep" =>
             /\ included' # included
             /\ \A E \in Extensions(att, sem) :
                   Cardinality(included') <= Cardinality(included \cap E) ]_vars

\* Every run of SEEM.cpp ends.
Termination == <>Over
=============================================================================
