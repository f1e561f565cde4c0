---------------------------- MODULE MaxSatSolver ----------------------------
(***************************************************************************)
(* The MaxSAT solver of Cgss2MaxSatSolver.cpp: a SAT solver with soft      *)
(* literals.  In the IPAMIR interface a soft literal of weight w costs w   *)
(* whenever it is TRUE, adding it again replaces its weight, and weight 0  *)
(* takes it out; the wrapper only uses the weights 1 and 0, so the state   *)
(* is the set of the literals of weight 1.                                 *)
(***************************************************************************)
EXTENDS Encodings

NewMaxSolver(n_vars, cnf) ==
    [models |-> Models(n_vars, cnf), assumptions |-> {}, model |-> {}, soft |-> {}]

add_soft_constraint(s, lits) == [s EXCEPT !.soft = s.soft \cup lits]

disable_soft_constraint(s, lits) == [s EXCEPT !.soft = s.soft \ lits]

Cost(s, A) == Cardinality({l \in s.soft : Holds(A, l)})

(***************************************************************************)
(* solve() returns an answer of least cost, and get_optimal_cost() is that *)
(* cost.                                                                   *)
(***************************************************************************)
Optimal(s) ==
    {A \in Answers(s) : \A B \in Answers(s) : Cost(s, A) <= Cost(s, B)}

MaxSolvers(n_vars) ==
    [models : SUBSET SUBSET (1 .. n_vars), assumptions : SUBSET Int,
     model : SUBSET Args, soft : SUBSET Int]
=============================================================================
