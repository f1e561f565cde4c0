----------------------------- MODULE SatSolver -----------------------------
(***************************************************************************)
(* The incremental SAT solver as the algorithms see it (SATSolver.h and    *)
(* the wrappers around CaDiCaL, Glucose, CryptoMiniSat and CGSS2).         *)
(*                                                                         *)
(* A literal is a non-zero integer, negative when negated, as in the code; *)
(* a clause is the set of its literals.  An assignment is the set of the   *)
(* variables it makes true.  The clause database is abstracted to the set  *)
(* of assignments that satisfy it: adding a clause filters that set.  The  *)
(* library behind a wrapper is a sound and complete solver that may answer *)
(* with ANY satisfying assignment: the choice is left open.                *)
(***************************************************************************)
EXTENDS Argumentation

Holds(A, l) == IF l > 0 THEN l \in A ELSE -l \notin A

Satisfies(A, c) == \E l \in c : Holds(A, l)

(***************************************************************************)
(* The assignments to the variables 1 .. n that satisfy a set of clauses.  *)
(***************************************************************************)
Models(n, cnf) == {A \in SUBSET (1 .. n) : \A c \in cnf : Satisfies(A, c)}

(***************************************************************************)
(* Construction over n_vars variables, with the clauses an encoding adds   *)
(* right after it.  The decision variables are 1 .. n_args = N.            *)
(***************************************************************************)
NewSolver(n_vars, cnf) ==
    [models |-> Models(n_vars, cnf), assumptions |-> {}, model |-> {}]

add_clause(s, c) == [s EXCEPT !.models = {A \in s.models : Satisfies(A, c)}]

assume(s, lits) == [s EXCEPT !.assumptions = s.assumptions \cup lits]

(***************************************************************************)
(* solve(): the answers it may give under the pending assumptions (none    *)
(* means UNSAT_V), and the wrapper's state after SAT_V with answer A and   *)
(* after UNSAT_V.  Either way the assumptions are consumed; the model      *)
(* vector is only rewritten by SAT_V.  model[i] is variable i + 1.         *)
(***************************************************************************)
Answers(s) == {A \in s.models : \A l \in s.assumptions : Holds(A, l)}

DecisionPart(A) == {i \in Args : i + 1 \in A}

AfterSat(s, A) == [s EXCEPT !.assumptions = {}, !.model = DecisionPart(A)]

AfterUnsat(s) == [s EXCEPT !.assumptions = {}]

(***************************************************************************)
(* What a solver over n_vars variables may hold.                           *)
(***************************************************************************)
Solvers(n_vars) ==
    [models : SUBSET SUBSET (1 .. n_vars), assumptions : SUBSET Int,
     model : SUBSET Args]
=============================================================================
