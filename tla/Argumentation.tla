--------------------------- MODULE Argumentation ---------------------------
(***************************************************************************)
(* Abstract argumentation frameworks and their semantics: the reference    *)
(* against which the encodings and the enumeration algorithms are judged.  *)
(*                                                                         *)
(* A framework is a set of arguments and an attack relation between them.  *)
(* The program numbers the arguments 0 .. args-1 (AF::add_argument), so    *)
(* Args is an interval; a framework is then just its attack relation att,  *)
(* a set of pairs <<source, target>>.  N = 0 is a framework the program    *)
(* accepts, and is allowed here.                                           *)
(***************************************************************************)
EXTENDS Integers, FiniteSets

CONSTANT N          \* af.args, the number of arguments

ASSUME NAssumption == N \in Nat

Args == 0 .. (N - 1)

Relations == SUBSET (Args \X Args)

(***************************************************************************)
(* Attacks.                                                                *)
(***************************************************************************)
Attackers(att, i) == {j \in Args : <<j, i>> \in att}

Attacked(att, S) == {i \in Args : \E j \in S : <<j, i>> \in att}

Attacks(att, S, T) == \E i \in S, j \in T : <<i, j>> \in att

Unattacked(att) == {i \in Args : \A j \in Args : <<j, i>> \notin att}

(***************************************************************************)
(* Dung's semantics.                                                       *)
(***************************************************************************)
ConflictFree(att, S) == \A i, j \in S : <<i, j>> \notin att

Defends(att, S, i) ==
    \A j \in Args : <<j, i>> \in att => \E k \in S : <<k, j>> \in att

Admissible(att, S) ==
    /\ S \subseteq Args
    /\ ConflictFree(att, S)
    /\ \A i \in S : Defends(att, S, i)

Complete(att, S) ==
    /\ Admissible(att, S)
    /\ \A i \in Args : Defends(att, S, i) => i \in S

Preferred(att, S) ==
    /\ Admissible(att, S)
    /\ \A T \in SUBSET Args : Admissible(att, T) /\ S \subseteq T => T = S

Stable(att, S) ==
    /\ S \subseteq Args
    /\ ConflictFree(att, S)
    /\ \A i \in Args \ S : \E j \in S : <<j, i>> \in att

(***************************************************************************)
(* The problems.  A task is EC (credulous) or ES (skeptical); a semantics  *)
(* is CO, PR or ST (or UNKNOWN_SEM, which has no extensions to speak of).  *)
(* An argument is skeptically accepted when it is in every extension, so   *)
(* when there is no stable extension every argument is.                    *)
(***************************************************************************)
Tasks == {"EC", "ES"}

Semantics == {"CO", "PR", "ST", "UNKNOWN_SEM"}

IsExtension(att, sem, S) ==
    \/ sem = "CO" /\ Complete(att, S)
    \/ sem = "PR" /\ Preferred(att, S)
    \/ sem = "ST" /\ Stable(att, S)

Extensions(att, sem) == {S \in SUBSET Args : IsExtension(att, sem, S)}

Credulous(att, sem) == {i \in Args : \E S \in Extensions(att, sem) : i \in S}

Skeptical(att, sem) == {i \in Args : \A S \in Extensions(att, sem) : i \in S}

Acceptable(att, task, sem) ==
    IF task = "EC" THEN Credulous(att, sem) ELSE Skeptical(att, sem)

(***************************************************************************)
(* The vector of argument names an algorithm returns, as a bag: how often  *)
(* each argument occurs in it.  Its order is abstracted.                   *)
(***************************************************************************)
Nothing == [i \in Args |-> 0]

Push(result, S) == [i \in Args |-> IF i \in S THEN result[i] + 1 ELSE result[i]]

Listing(S) == [i \in Args |-> IF i \in S THEN 1 ELSE 0]
=============================================================================
