----------------------------- MODULE Encodings -----------------------------
(***************************************************************************)
(* The CNF encodings of Encodings.cpp over the variable numbering of       *)
(* AF::initialize_vars.  Each encoding is the set of clauses the function  *)
(* adds; the loops over arguments and attackers become set comprehensions, *)
(* so the order of the clauses and repeated attack lines are abstracted.   *)
(***************************************************************************)
EXTENDS SatSolver

(***************************************************************************)
(* AF::initialize_vars: accepted, then rejected (then, without PERF_ENC,   *)
(* undecided) variables, numbered consecutively from 1.                    *)
(***************************************************************************)
accepted_var(i) == i + 1

rejected_var(i) == N + i + 1

undecided_var(i) == 2 * N + i + 1

count == 2 * N              \* af.count in a PERF_ENC build

(***************************************************************************)
(* complete (PERF_ENC, the variant every Makefile target builds).          *)
(***************************************************************************)
\* Mutant: attackers_notout_clause is not added.
complete_of_no_notout(att, i) ==
    {{-accepted_var(i), -rejected_var(i)}} \cup
    IF i \in Unattacked(att) THEN {{accepted_var(i)}}
    ELSE {{-accepted_var(i), rejected_var(j)} : j \in Attackers(att, i)}
    \cup {{-accepted_var(j), rejected_var(i)} : j \in Attackers(att, i)}
    \cup {{accepted_var(j) : j \in Attackers(att, i)} \cup {-rejected_var(i)}}

\* Mutant: an accepted attacker does not force the argument to be rejected.
complete_of_may_reject(att, i) ==
    {{-accepted_var(i), -rejected_var(i)}} \cup
    IF i \in Unattacked(att) THEN {{accepted_var(i)}}
    ELSE {{-accepted_var(i), rejected_var(j)} : j \in Attackers(att, i)}
    \cup {{accepted_var(j) : j \in Attackers(att, i)} \cup {-rejected_var(i)}}
    \cup {{-rejected_var(j) : j \in Attackers(att, i)} \cup {accepted_var(i)}}

complete_of(att, i) ==
    {{-accepted_var(i), -rejected_var(i)}} \cup
    IF i \in Unattacked(att) THEN {{accepted_var(i)}}
    ELSE {{-accepted_var(i), rejected_var(j)} : j \in Attackers(att, i)}
    \cup {{-accepted_var(j), rejected_var(i)} : j \in Attackers(att, i)}
    \cup {{accepted_var(j) : j \in Attackers(att, i)} \cup {-rejected_var(i)}}
    \cup {{-rejected_var(j) : j \in Attackers(att, i)} \cup {accepted_var(i)}}

complete(att) == UNION {complete_of(att, i) : i \in Args}

(***************************************************************************)
(* complete without PERF_ENC: three labels per argument.                   *)
(***************************************************************************)
\* Mutant: attackers_in_clause is not added.
labelled_of_no_in(att, i) ==
    {{accepted_var(i), rejected_var(i), undecided_var(i)},
     {-accepted_var(i), -rejected_var(i)},
     {-accepted_var(i), -undecided_var(i)},
     {-rejected_var(i), -undecided_var(i)}} \cup
    IF i \in Unattacked(att) THEN {{accepted_var(i)}}
    ELSE {{-accepted_var(i), rejected_var(j)} : j \in Attackers(att, i)}
    \cup {{-rejected_var(j) : j \in Attackers(att, i)} \cup {accepted_var(i)}}

labelled_of(att, i) ==
    {{accepted_var(i), rejected_var(i), undecided_var(i)},
     {-accepted_var(i), -rejected_var(i)},
     {-accepted_var(i), -undecided_var(i)},
     {-rejected_var(i), -undecided_var(i)}} \cup
    IF i \in Unattacked(att) THEN {{accepted_var(i)}}
    ELSE {{-accepted_var(i), rejected_var(j)} : j \in Attackers(att, i)}
    \cup {{accepted_var(j) : j \in Attackers(att, i)} \cup {-rejected_var(i)}}
    \cup {{-rejected_var(j) : j \in Attackers(att, i)} \cup {accepted_var(i)}}

complete_labelled(att) == UNION {labelled_of(att, i) : i \in Args}

(***************************************************************************)
(* stable.                                                                 *)
(***************************************************************************)
\* Mutant: nothing forces an argument to be accepted or rejected.
stable_of_undecided(att, i) ==
    {{-accepted_var(i), -rejected_var(i)}} \cup
    IF i \in Unattacked(att) THEN {{accepted_var(i)}}
    ELSE {{-accepted_var(i), rejected_var(j)} : j \in Attackers(att, i)}
    \cup {{accepted_var(j) : j \in Attackers(att, i)} \cup {-rejected_var(i)}}
    \cup {{-rejected_var(j) : j \in Attackers(att, i)} \cup {accepted_var(i)}}

stable_of(att, i) ==
    {{-accepted_var(i), -rejected_var(i)}, {accepted_var(i), rejected_var(i)}}
    \cup
    IF i \in Unattacked(att) THEN {{accepted_var(i)}}
    ELSE {{-accepted_var(i), rejected_var(j)} : j \in Attackers(att, i)}
    \cup {{accepted_var(j) : j \in Attackers(att, i)} \cup {-rejected_var(i)}}
    \cup {{-rejected_var(j) : j \in Attackers(att, i)} \cup {accepted_var(i)}}

stable(att) == UNION {stable_of(att, i) : i \in Args}

(***************************************************************************)
(* admissible.  isAttackedSet shifts the variables by 2 * args, so that    *)
(* one solver can hold two admissible sets.                                *)
(***************************************************************************)
\* Mutant: out_clause is not added, so "rejected" needs no accepted attacker.
admissible_of_no_out(att, offset, i) ==
    {{-(offset + accepted_var(i)), -(offset + rejected_var(i))}} \cup
    IF i \in Unattacked(att) THEN {{offset + accepted_var(i)}}
    ELSE {{-(offset + accepted_var(i)), offset + rejected_var(j)} :
                j \in Attackers(att, i)}

admissible_of(att, offset, i) ==
    {{-(offset + accepted_var(i)), -(offset + rejected_var(i))}} \cup
    IF i \in Unattacked(att) THEN {{offset + accepted_var(i)}}
    ELSE {{-(offset + accepted_var(i)), offset + rejected_var(j)} :
                j \in Attackers(att, i)}
    \cup {{offset + accepted_var(j) : j \in Attackers(att, i)}
             \cup {-(offset + rejected_var(i))}}

admissible(att, isAttackedSet) ==
    LET offset == IF isAttackedSet THEN 2 * N ELSE 0
    IN  UNION {admissible_of(att, offset, i) : i \in Args}

(***************************************************************************)
(* attacks: one variable per attack, numbered after both admissible sets   *)
(* in the order of the two loops (target first, then its attackers; here   *)
(* the attackers are taken in index order), defined as "the source is in   *)
(* the first set and the target in the second", and one clause asking for  *)
(* at least one of them.                                                   *)
(***************************************************************************)
\* Mutant: the first attack variable is the last rejected one.
attack_var_early(att, x) ==
    4 * N + Cardinality({y \in att : \/ y[2] < x[2]
                                     \/ y[2] = x[2] /\ y[1] < x[1]})

attack_var(att, x) ==
    4 * N + 1 + Cardinality({y \in att : \/ y[2] < x[2]
                                         \/ y[2] = x[2] /\ y[1] < x[1]})

attacks(att) ==
    {{attack_var(att, x) : x \in att}}
    \cup {{-attack_var(att, x), accepted_var(x[1])} : x \in att}
    \cup {{-attack_var(att, x), 2 * N + accepted_var(x[2])} : x \in att}
    \cup {{attack_var(att, x), -(2 * N + accepted_var(x[2])),
           -accepted_var(x[1])} : x \in att}
=============================================================================
