---------------------------- MODULE Enumeration ----------------------------
(***************************************************************************)
(* What every algorithm promises: given a framework and a problem, list    *)
(* the acceptable arguments, each exactly once, and nothing else; refuse   *)
(* the problems the solver does not list under --problems.                 *)
(*                                                                         *)
(* An algorithm may list arguments as it finds them or all at the end, in  *)
(* any order, but what it has listed is never taken back, so every listed  *)
(* argument must already be known to be acceptable.                        *)
(***************************************************************************)
EXTENDS Argumentation

CONSTANT Problems       \* the problems the solver lists, as <<task, sem>>

VARIABLES att, task, sem, status, result

vars == <<att, task, sem, status, result>>

Init ==
    /\ att \in Relations
    /\ task \in Tasks
    /\ sem \in Semantics
    /\ status = "running"
    /\ result = Nothing

Supported == <<task, sem>> \in Problems

Goal == Acceptable(att, task, sem)

List(S) ==
    /\ status = "running"
    /\ Supported
    /\ S \subseteq {i \in Goal : result[i] = 0}
    /\ result' = Push(result, S)
    /\ UNCHANGED <<att, task, sem, status>>

Finish ==
    /\ status = "running"
    /\ Supported
    /\ result' = Listing(Goal)
    /\ status' = "done"
    /\ UNCHANGED <<att, task, sem>>

Refuse ==
    /\ status = "running"
    /\ ~ Supported
    /\ status' = "exit1"
    /\ UNCHANGED <<att, task, sem, result>>

Next ==
    \/ \E S \in SUBSET Args : List(S)
    \/ Finish
    \/ Refuse

Spec == Init /\ [][Next]_vars
=============================================================================
