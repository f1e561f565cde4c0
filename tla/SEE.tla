-------------------------------- MODULE SEE --------------------------------
(***************************************************************************)
(* SEE.cpp: enumeration by selective extension enumeration.  Each round    *)
(* asks the solver for one more extension that can still change the        *)
(* answer, and adds a clause that rules out those that cannot.             *)
(*                                                                         *)
(* One action is one round of a loop: the call to solve() and the body     *)
(* that follows it.  Which satisfying assignment the solver returns is     *)
(* left open.                                                              *)
(***************************************************************************)
EXTENDS Encodings

CONSTANT Frameworks     \* the attack relations the solver may be started on

ASSUME FrameworksAssumption == Frameworks \subseteq Relations

VARIABLES
    att, task, sem,     \* the framework and the problem, fixed at the start
    pc,                 \* "start", in the loop of see_cred or see_skep, or over
    solver,             \* the SAT solver
    unvisited,          \* see_cred: the arguments in no extension seen so far
    included,           \* see_skep: the arguments in all extensions seen so far
    result              \* the list returned, as a bag

vars == <<att, task, sem, pc, solver, unvisited, included, result>>

Init ==
    /\ att \in Frameworks
    /\ task \in Tasks
    /\ sem \in Semantics
    /\ pc = "start"
    /\ solver = NewSolver(0, {})
    /\ unvisited = Args
    /\ included = Args
    /\ result = Nothing

-----------------------------------------------------------------------------
(***************************************************************************)
(* see_cred                                                                *)
(***************************************************************************)
CredEncoding == IF sem = "ST" THEN stable(att) ELSE complete(att)

CredStart ==
    /\ pc = "start" /\ task = "EC"
    /\ sem \in {"CO", "PR", "ST"}
    /\ solver' = NewSolver(count, CredEncoding)
    /\ pc' = "cred"
    /\ UNCHANGED <<att, task, sem, unvisited, included, result>>

\* Mutant: the loop that builds unvisited_clause starts at 1.
CredRound_from_1(s) ==
    /\ unvisited' = unvisited \ s.model
    /\ result' = Push(result, unvisited \cap s.model)
    /\ solver' = add_clause(s, {accepted_var(i) : i \in unvisited \ (s.model \cup {0})})

\* Mutant: the whole model is listed, not only what was unvisited.
CredRound_relist(s) ==
    /\ unvisited' = unvisited \ s.model
    /\ result' = Push(result, s.model)
    /\ solver' = add_clause(s, {accepted_var(i) : i \in unvisited \ s.model})

\* Mutant: the clause is not added.
CredRound_no_clause(s) ==
    /\ unvisited' = unvisited \ s.model
    /\ result' = Push(result, unvisited \cap s.model)
    /\ solver' = s

\* The body of the loop, after solve() has returned SAT_V and left solver as s.
CredRound(s) ==
    /\ unvisited' = unvisited \ s.model
    /\ result' = Push(result, unvisited \cap s.model)
    /\ solver' = add_clause(s, {accepted_var(i) : i \in unvisited \ s.model})

CredSat ==
    /\ pc = "cred"
    /\ \E A \in Answers(solver) : CredRound(AfterSat(solver, A))
    /\ UNCHANGED <<att, task, sem, pc, included>>

CredUnsat ==
    /\ pc = "cred"
    /\ Answers(solver) = {}
    /\ solver' = AfterUnsat(solver)
    /\ pc' = "done"
    /\ UNCHANGED <<att, task, sem, unvisited, included, result>>

(***************************************************************************)
(* see_skep                                                                *)
(***************************************************************************)
SkepStart ==
    /\ pc = "start" /\ task = "ES"
    /\ sem = "ST"
    /\ solver' = NewSolver(count, stable(att))
    /\ pc' = "skep"
    /\ UNCHANGED <<att, task, sem, unvisited, included, result>>

\* Mutant: complement_clause also names the arguments already excluded.
SkepRound_all_args(s) ==
    /\ included' = included \cap s.model
    /\ solver' = add_clause(s, {rejected_var(i) : i \in Args})

SkepRound(s) ==
    /\ included' = included \cap s.model
    /\ solver' = add_clause(s, {rejected_var(i) : i \in included \cap s.model})

SkepSat ==
    /\ pc = "skep"
    /\ \E A \in Answers(solver) : SkepRound(AfterSat(solver, A))
    /\ UNCHANGED <<att, task, sem, pc, unvisited, result>>

SkepUnsat ==
    /\ pc = "skep"
    /\ Answers(solver) = {}
    /\ solver' = AfterUnsat(solver)
    /\ result' = Push(result, included)
    /\ pc' = "done"
    /\ UNCHANGED <<att, task, sem, unvisited, included>>

(***************************************************************************)
(* Both functions exit(1) on a semantics they do not support.              *)
(***************************************************************************)
Unsupported ==
    /\ pc = "start"
    /\ \/ task = "EC" /\ sem \notin {"CO", "PR", "ST"}
       \/ task = "ES" /\ sem # "ST"
    /\ pc' = "exit1"
    /\ UNCHANGED <<att, task, sem, solver, unvisited, included, result>>

Over == pc \in {"done", "exit1"}

\* The process has ended.
Ended == Over /\ UNCHANGED vars

Next ==
    \/ CredStart \/ CredSat \/ CredUnsat
    \/ SkepStart \/ SkepSat \/ SkepUnsat
    \/ Unsupported \/ Ended

Spec == Init /\ [][Next]_vars

-----------------------------------------------------------------------------

TypeOK ==
    /\ att \in Relations /\ task \in Tasks /\ sem \in Semantics
    /\ pc \in {"start", "cred", "skep", "done", "exit1"}
    /\ solver \in Solvers(count)
    /\ unvisited \in SUBSET Args
    /\ included \in SUBSET Args
    /\ result \in [Args -> Nat]

\* The problems print_problems lists for a SEE build.
Problems == {<<"EC", "CO">>, <<"EC", "PR">>, <<"EC", "ST">>, <<"ES", "ST">>}

Enum == INSTANCE Enumeration WITH
            status <- IF Over THEN pc ELSE "running"

\* SEE.cpp lists exactly the acceptable arguments of every problem it
\* advertises, each once, whatever extensions the solver picks, and refuses
\* the other problems; EC-PR is answered from complete extensions.
Implements == Enum!Spec

\* No clause of see_cred or see_skep rules out an extension that could still
\* change the answer: one with an unvisited argument, or without one of the
\* arguments still included.
NothingLost ==
    /\ pc = "cred" =>
         \A A \in Models(count, CredEncoding) :
            DecisionPart(A) \cap unvisited # {} => A \in solver.models
    /\ pc = "skep" =>
         \A A \in Models(count, stable(att)) :
            ~ (included \subseteq DecisionPart(A)) => A \in solver.models
=============================================================================
