-------------------------------- MODULE EEE --------------------------------
(***************************************************************************)
(* EEE.cpp: exhaustive enumeration of extensions.  Every extension is      *)
(* asked for once and then blocked; under preferred semantics a round      *)
(* grows a complete extension until it is maximal before it is blocked.    *)
(*                                                                         *)
(* One action is one call to solve() and the code that follows it.         *)
(***************************************************************************)
EXTENDS Encodings

CONSTANT Frameworks     \* the attack relations the solver may be started on

ASSUME FrameworksAssumption == Frameworks \subseteq Relations

VARIABLES
    att, task, sem,     \* the framework and the problem, fixed at the start
    pc,                 \* "start", in the loop named, or over
    solver,             \* the SAT solver
    included,           \* eee_cred: seen in some extension; eee_skep: in all
    extension,          \* eee_skep, PR: the extension grown in this round
    noFurther,          \* eee_skep, PR: no answer yet in this round
    result              \* the list returned, as a bag

vars == <<att, task, sem, pc, solver, included, extension, noFurther, result>>

Init ==
    /\ att \in Frameworks
    /\ task \in Tasks
    /\ sem \in Semantics
    /\ pc = "start"
    /\ solver = NewSolver(0, {})
    /\ included = {}
    /\ extension = {}
    /\ noFurther = TRUE
    /\ result = Nothing

-----------------------------------------------------------------------------
(***************************************************************************)
(* eee_cred                                                                *)
(***************************************************************************)
CredEncoding == IF sem = "ST" THEN stable(att) ELSE complete(att)

CredStart ==
    /\ pc = "start" /\ task = "EC"
    /\ sem \in {"CO", "PR", "ST"}
    /\ solver' = NewSolver(count, CredEncoding)
    /\ pc' = "cred"
    /\ UNCHANGED <<att, task, sem, included, extension, noFurther, result>>

\* The clause that excludes one extension and no other.
Blocking(E) == {-accepted_var(i) : i \in E} \cup {accepted_var(i) : i \in Args \ E}

\* Mutant: an argument is listed each time it is seen.
CredRound_relist(s) ==
    /\ included' = included \cup s.model
    /\ result' = Push(result, s.model)
    /\ solver' = add_clause(s, Blocking(s.model))

\* The body of the loop, after solve() has returned SAT_V and left solver as s.
CredRound(s) ==
    /\ included' = included \cup s.model
    /\ result' = Push(result, s.model \ included)
    /\ solver' = add_clause(s, Blocking(s.model))

CredSat ==
    /\ pc = "cred"
    /\ \E A \in Answers(solver) : CredRound(AfterSat(solver, A))
    /\ UNCHANGED <<att, task, sem, pc, extension, noFurther>>

CredUnsat ==
    /\ pc = "cred"
    /\ Answers(solver) = {}
    /\ solver' = AfterUnsat(solver)
    /\ pc' = "done"
    /\ UNCHANGED <<att, task, sem, included, extension, noFurther, result>>

(***************************************************************************)
(* eee_skep under preferred semantics.  GrowSat is one round of the inner  *)
(* loop; GrowUnsat is the UNSAT_V that ends the inner loop, and closes the *)
(* grown extension; with noFurther it ends the outer loop instead.         *)
(***************************************************************************)
PreferredStart ==
    /\ pc = "start" /\ task = "ES" /\ sem = "PR"
    /\ solver' = NewSolver(count, complete(att))
    /\ included' = Args
    /\ pc' = "grow"
    /\ UNCHANGED <<att, task, sem, extension, noFurther, result>>

\* Mutant: the next answer need not contain the last one.
GrowRound_no_assume(s) ==
    /\ extension' = extension \cup s.model
    /\ solver' = add_clause(s, {accepted_var(i) : i \in Args \ s.model})

GrowRound(s) ==
    /\ extension' = extension \cup s.model
    /\ solver' = add_clause(assume(s, {accepted_var(i) : i \in s.model}),
                            {accepted_var(i) : i \in Args \ s.model})

GrowSat ==
    /\ pc = "grow"
    /\ \E A \in Answers(solver) : GrowRound(AfterSat(solver, A))
    /\ noFurther' = FALSE
    /\ UNCHANGED <<att, task, sem, pc, included, result>>

\* Mutant: the grown extension is blocked without being taken into account.
GrowUnsat_uncounted ==
    /\ pc = "grow" /\ ~ noFurther
    /\ Answers(solver) = {}
    /\ solver' = add_clause(AfterUnsat(solver),
                            {accepted_var(i) : i \in Args \ extension})
    /\ extension' = {}
    /\ noFurther' = TRUE
    /\ UNCHANGED <<att, task, sem, pc, included, result>>

GrowUnsat ==
    /\ pc = "grow" /\ ~ noFurther
    /\ Answers(solver) = {}
    /\ included' = included \cap extension
    /\ solver' = add_clause(AfterUnsat(solver),
                            {accepted_var(i) : i \in Args \ extension})
    /\ extension' = {}
    /\ noFurther' = TRUE
    /\ UNCHANGED <<att, task, sem, pc, result>>

PreferredEnd ==
    /\ pc = "grow" /\ noFurther
    /\ Answers(solver) = {}
    /\ solver' = AfterUnsat(solver)
    /\ result' = Push(result, included)
    /\ pc' = "done"
    /\ UNCHANGED <<att, task, sem, included, extension, noFurther>>

(***************************************************************************)
(* eee_skep under stable semantics.  The blocking clause only mentions the *)
(* accepted arguments: no stable extension contains another.               *)
(***************************************************************************)
StableStart ==
    /\ pc = "start" /\ task = "ES" /\ sem = "ST"
    /\ solver' = NewSolver(count, stable(att))
    /\ included' = Args
    /\ pc' = "stable"
    /\ UNCHANGED <<att, task, sem, extension, noFurther, result>>

\* Mutant: the extension found is not blocked.
StableRound_unblocked(s) ==
    /\ included' = included \cap s.model
    /\ solver' = s

\* Mutant: the extension found is blocked without being taken into account.
StableRound_uncounted(s) ==
    /\ included' = included
    /\ solver' = add_clause(s, {-accepted_var(i) : i \in s.model})

StableRound(s) ==
    /\ included' = included \cap s.model
    /\ solver' = add_clause(s, {-accepted_var(i) : i \in s.model})

StableSat ==
    /\ pc = "stable"
    /\ \E A \in Answers(solver) : StableRound(AfterSat(solver, A))
    /\ UNCHANGED <<att, task, sem, pc, extension, noFurther, result>>

StableUnsat ==
    /\ pc = "stable"
    /\ Answers(solver) = {}
    /\ solver' = AfterUnsat(solver)
    /\ result' = Push(result, included)
    /\ pc' = "done"
    /\ UNCHANGED <<att, task, sem, included, extension, noFurther>>

(***************************************************************************)
(* Both functions exit(1) on a semantics they do not support.              *)
(***************************************************************************)
Unsupported ==
    /\ pc = "start"
    /\ \/ task = "EC" /\ sem \notin {"CO", "PR", "ST"}
       \/ task = "ES" /\ sem \notin {"PR", "ST"}
    /\ pc' = "exit1"
    /\ UNCHANGED <<att, task, sem, solver, included, extension, noFurther, result>>

Over == pc \in {"done", "exit1"}

\* The process has ended.
Ended == Over /\ UNCHANGED vars

Next ==
    \/ CredStart \/ CredSat \/ CredUnsat
    \/ PreferredStart \/ GrowSat \/ GrowUnsat \/ PreferredEnd
    \/ StableStart \/ StableSat \/ StableUnsat
    \/ Unsupported \/ Ended

Spec == Init /\ [][Next]_vars

-----------------------------------------------------------------------------

TypeOK ==
    /\ att \in Relations /\ task \in Tasks /\ sem \in Semantics
    /\ pc \in {"start", "cred", "grow", "stable", "done", "exit1"}
    /\ solver \in Solvers(count)
    /\ included \in SUBSET Args
    /\ extension \in SUBSET Args
    /\ noFurther \in BOOLEAN
    /\ result \in [Args -> Nat]

\* The problems print_problems lists for an EEE build.
Problems == {<<"EC", "CO">>, <<"EC", "PR">>, <<"EC", "ST">>,
             <<"ES", "PR">>, <<"ES", "ST">>}

Enum == INSTANCE Enumeration WITH
            status <- IF Over THEN pc ELSE "running"

\* EEE.cpp lists exactly the acceptable arguments of every problem it
\* advertises, each once, and refuses the other problems.
Implements == Enum!Spec

\* When the inner loop of eee_skep stops growing, the set it has collected
\* over several answers is one preferred extension, although the solver only
\* knows complete extensions and clauses of earlier rounds are still there.
GrownIsPreferred ==
    pc = "grow" /\ ~ noFurther /\ Answers(solver) = {} => Preferred(att, extension)

\* No preferred extension is skipped: at every moment of eee_skep it is still
\* open in the solver, or has been taken into account, or is being grown.
NoPreferredSkipped ==
    pc = "grow" =>
        \A P \in Extensions(att, "PR") :
            \/ \E A \in solver.models : DecisionPart(A) = P
            \/ included \subseteq P
            \/ extension = P
=============================================================================
