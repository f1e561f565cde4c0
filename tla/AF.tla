--------------------------------- MODULE AF ---------------------------------
(***************************************************************************)
(* AF.cpp: the framework under construction, as a record.  names is        *)
(* int_to_arg; sized is the length the vectors attackers, attacked,        *)
(* unattacked and self_attack were last resized to; att holds the attacks  *)
(* between indices (repetitions are abstracted: every use of attackers     *)
(* treats it as a set); inBounds says that every attack so far was entered *)
(* within those vectors.  The maps att_exists and symmetric_attack are     *)
(* never read and left out.                                                *)
(***************************************************************************)
EXTENDS Integers, Sequences, FiniteSets, FiniteSetsExt

NewAF == [names |-> <<>>, sized |-> 0, att |-> {}, inBounds |-> TRUE]

\* args, the number of arguments, is kept equal to the length of int_to_arg.
args(af) == Len(af.names)

add_argument(af, name) == [af EXCEPT !.names = Append(@, name)]

\* The indices of a name.  add_argument does not look for an earlier use of
\* the name: arg_to_int then points to the last one.
Indices(af, name) == {i \in 0 .. args(af) - 1 : af.names[i + 1] = name}

arg_to_int(af, name) == Max(Indices(af, name))

initialize_attackers(af) == [af EXCEPT !.sized = args(af)]

\* An attack that mentions an unknown name is ignored.
add_attack(af, source, target) ==
    IF Indices(af, source) = {} \/ Indices(af, target) = {} THEN af
    ELSE LET i == arg_to_int(af, source)
             j == arg_to_int(af, target)
         IN  [af EXCEPT !.att = @ \cup {<<i, j>>},
                        !.inBounds = @ /\ i < af.sized /\ j < af.sized]
=============================================================================
