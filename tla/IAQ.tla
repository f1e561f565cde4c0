-------------------------------- MODULE IAQ --------------------------------
(***************************************************************************)
(* IAQ.cpp: one acceptance query per argument, in index order.  Under      *)
(* preferred semantics a query is is_skeptically_preferred, with a solver  *)
(* of its own: it looks for a preferred extension without the argument.    *)
(*                                                                         *)
(* One action is one call to solve() and the code that follows it.         *)
(***************************************************************************)
EXTENDS Encodings

CONSTANT Frameworks     \* the attack relations the solver may be started on

ASSUME FrameworksAssumption == Frameworks \subseteq Relations

VARIABLES
    att, task, sem,     \* the framework and the problem, fixed at the start
    pc,                 \* "start", at the solve() named, or over
    solver,             \* the SAT solver
    arg,                \* the loop variable: the argument asked about
    visited,            \* is_skeptically_preferred: the set being grown
    result              \* the list returned, as a bag

vars == <<att, task, sem, pc, solver, arg, visited, result>>

Init ==
    /\ att \in Frameworks
    /\ task \in Tasks
    /\ sem \in Semantics
    /\ pc = "start"
    /\ solver = NewSolver(0, {})
    /\ arg = 0
    /\ visited = {}
    /\ result = Nothing

-----------------------------------------------------------------------------
(***************************************************************************)
(* iaq_cred, and iaq_skep under stable semantics: one solver, and one      *)
(* assumption per argument.                                                *)
(***************************************************************************)
CredEncoding == IF sem = "ST" THEN stable(att) ELSE complete(att)

CredStart ==
    /\ pc = "start" /\ task = "EC"
    /\ sem \in {"CO", "PR", "ST"}
    /\ solver' = NewSolver(count, CredEncoding)
    /\ pc' = "cred"
    /\ UNCHANGED <<att, task, sem, arg, visited, result>>

\* solver.assume(lit); solver.solve(); and on to the next argument, which is
\* listed if the answer is SAT_V (listIfSat) or UNSAT_V (otherwise).
Query(lit, listIfSat) ==
    LET s == assume(solver, {lit}) IN
    /\ arg < N
    /\ \/ /\ \E A \in Answers(s) : solver' = AfterSat(s, A)
          /\ result' = IF listIfSat THEN Push(result, {arg}) ELSE result
       \/ /\ Answers(s) = {}
          /\ solver' = AfterUnsat(s)
          /\ result' = IF listIfSat THEN result ELSE Push(result, {arg})
    /\ arg' = arg + 1
    /\ UNCHANGED <<att, task, sem, pc, visited>>

CredQuery == pc = "cred" /\ Query(accepted_var(arg), TRUE)

StableStart ==
    /\ pc = "start" /\ task = "ES" /\ sem = "ST"
    /\ solver' = NewSolver(count, stable(att))
    /\ pc' = "stable"
    /\ UNCHANGED <<att, task, sem, arg, visited, result>>

StableQuery == pc = "stable" /\ Query(-accepted_var(arg), FALSE)

(***************************************************************************)
(* iaq_skep under preferred semantics calls is_skeptically_preferred for   *)
(* each argument: "outer" is the solve() of its outer loop, "grow" that of *)
(* its inner loop and "flip" the one after new_assumptions[0] is negated.  *)
(***************************************************************************)
PreferredStart ==
    /\ pc = "start" /\ task = "ES" /\ sem = "PR"
    /\ pc' = "preferred"
    /\ UNCHANGED <<att, task, sem, solver, arg, visited, result>>

CallQuery ==
    /\ pc = "preferred" /\ arg < N
    /\ solver' = NewSolver(count, complete(att))
    /\ pc' = "outer"
    /\ UNCHANGED <<att, task, sem, arg, visited, result>>

\* Mutant: complement_clause is not added.
Grow_unblocked(s, seen) ==
    /\ visited' = seen \cup s.model
    /\ solver' = s

\* The body of the inner loop: take in the model s holds, require more.
Grow(s, seen) ==
    /\ visited' = seen \cup s.model
    /\ solver' = add_clause(s, {accepted_var(i) : i \in Args \ s.model})

OuterSat ==
    /\ pc = "outer"
    /\ LET s == assume(solver, {-accepted_var(arg)})
       IN  \E A \in Answers(s) : Grow(AfterSat(s, A), {})
    /\ pc' = "grow"
    /\ UNCHANGED <<att, task, sem, arg, result>>

Return(list) ==
    /\ result' = IF list THEN Push(result, {arg}) ELSE result
    /\ arg' = arg + 1
    /\ pc' = "preferred"
    /\ UNCHANGED <<att, task, sem, visited>>

OuterUnsat ==
    /\ pc = "outer"
    /\ LET s == assume(solver, {-accepted_var(arg)})
       IN  Answers(s) = {} /\ solver' = AfterUnsat(s)
    /\ Return(TRUE)

Growing == assume(solver, {-accepted_var(arg)} \cup {accepted_var(i) : i \in visited})

GrowSat ==
    /\ pc = "grow"
    /\ \E A \in Answers(Growing) : Grow(AfterSat(Growing, A), visited)
    /\ UNCHANGED <<att, task, sem, pc, arg, result>>

GrowUnsat ==
    /\ pc = "grow"
    /\ Answers(Growing) = {}
    /\ solver' = AfterUnsat(Growing)
    /\ pc' = "flip"
    /\ UNCHANGED <<att, task, sem, arg, visited, result>>

\* Mutant: new_assumptions[0] is not negated.
Flipped_same == assume(solver, {-accepted_var(arg)} \cup {accepted_var(i) : i \in visited})

Flipped == assume(solver, {accepted_var(arg)} \cup {accepted_var(i) : i \in visited})

FlipSat ==
    /\ pc = "flip"
    /\ \E A \in Answers(Flipped) : solver' = AfterSat(Flipped, A)
    /\ pc' = "outer"
    /\ UNCHANGED <<att, task, sem, arg, visited, result>>

\* Mutant: the outer loop goes on where it should return false.
FlipUnsat_continue ==
    /\ pc = "flip"
    /\ Answers(Flipped) = {}
    /\ solver' = AfterUnsat(Flipped)
    /\ pc' = "outer"
    /\ UNCHANGED <<att, task, sem, arg, visited, result>>

FlipUnsat ==
    /\ pc = "flip"
    /\ Answers(Flipped) = {}
    /\ solver' = AfterUnsat(Flipped)
    /\ Return(FALSE)

(***************************************************************************)
(* The loops over the arguments end; both functions exit(1) on a semantics *)
(* they do not support.                                                    *)
(***************************************************************************)
\* Mutant: the loops stop one argument early.
LoopEnd_early ==
    /\ pc \in {"cred", "stable", "preferred"} /\ arg + 1 >= N
    /\ pc' = "done"
    /\ UNCHANGED <<att, task, sem, solver, arg, visited, result>>

LoopEnd ==
    /\ pc \in {"cred", "stable", "preferred"} /\ arg = N
    /\ pc' = "done"
    /\ UNCHANGED <<att, task, sem, solver, arg, visited, result>>

Unsupported ==
    /\ pc = "start"
    /\ \/ task = "EC" /\ sem \notin {"CO", "PR", "ST"}
       \/ task = "ES" /\ sem \notin {"PR", "ST"}
    /\ pc' = "exit1"
    /\ UNCHANGED <<att, task, sem, solver, arg, visited, result>>

Over == pc \in {"done", "exit1"}

\* The process has ended.
Ended == Over /\ UNCHANGED vars

Next ==
    \/ CredStart \/ CredQuery
    \/ StableStart \/ StableQuery
    \/ PreferredStart \/ CallQuery \/ OuterSat \/ OuterUnsat
    \/ GrowSat \/ GrowUnsat \/ FlipSat \/ FlipUnsat
    \/ LoopEnd \/ Unsupported \/ Ended

Spec == Init /\ [][Next]_vars

\* The process is single threaded and every call to solve() returns.
FairSpec == Spec /\ WF_vars(Next)

-----------------------------------------------------------------------------

TypeOK ==
    /\ att \in Relations /\ task \in Tasks /\ sem \in Semantics
    /\ pc \in {"start", "cred", "stable", "preferred", "outer", "grow", "flip",
               "done", "exit1"}
    /\ solver \in Solvers(count)
    /\ arg \in 0 .. N
    /\ visited \in SUBSET Args
    /\ result \in [Args -> Nat]

\* The problems print_problems lists for an IAQ build.
Problems == {<<"EC", "CO">>, <<"EC", "PR">>, <<"EC", "ST">>,
             <<"ES", "PR">>, <<"ES", "ST">>}

Enum == INSTANCE Enumeration WITH
            status <- IF Over THEN pc ELSE "running"

\* IAQ.cpp lists exactly the acceptable arguments of every problem it
\* advertises, each once, and refuses the other problems.
Implements == Enum!Spec

\* The one solve() after the assumption is flipped decides whether the set
\* grown without the argument is a preferred extension, although the clauses
\* of all earlier rounds of the query are still in the solver.
FlipDecides ==
    pc = "flip" => (Answers(Flipped) = {} <=> Preferred(att, visited))

\* Until is_skeptically_preferred has met a preferred extension without the
\* argument, none is blocked: the UNSAT_V that ends the outer loop is a proof.
NoCounterexampleLost ==
    pc = "outer" =>
        \A P \in Extensions(att, "PR") :
            arg \notin P => \E A \in solver.models : DecisionPart(A) = P

\* Within a query no answer of the two loops is given twice: the clause that
\* follows it excludes it, and at most two calls to solve() in a row, the one
\* that ends the inner loop and the one after the flip, exclude nothing.
NeverTwice ==
    [][ arg' = arg /\ pc \in {"outer", "grow", "flip"} =>
            /\ solver'.models \subseteq solver.models
            /\ \/ solver'.models # solver.models
               \/ pc = "grow" /\ pc' = "flip"
               \/ pc = "flip" /\ pc' = "outer" ]_vars

\* Every query ends, although its loops only end on UNSAT_V.
Termination == <>Over
=============================================================================
