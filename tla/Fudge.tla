------------------------------- MODULE Fudge -------------------------------
(***************************************************************************)
(* fudge.cpp: skeptical acceptance under preferred semantics (ES-PR)       *)
(* without computing preferred extensions.  Arguments move from the        *)
(* candidates C to the accepted T, or out.                                 *)
(*                                                                         *)
(* The three solvers are used through solve_extension() only and are, but  *)
(* for the third, rebuilt for every call.  Their answers are therefore     *)
(* given directly, as the argument sets which Encodings::admissible and    *)
(* Encodings::attacks describe (AdmissibleEncoding and AttacksEncoding in  *)
(* MCEncodings).  One action is one such call and the code that follows.   *)
(***************************************************************************)
EXTENDS Argumentation

CONSTANT Frameworks     \* the attack relations the solver may be started on

ASSUME FrameworksAssumption == Frameworks \subseteq Relations

VARIABLES
    att,                \* the framework
    pc,                 \* "admext" (solver1), "for", "attack" (solver2),
                        \* "extend" (solver3), or "done"
    accepted,           \* T
    candidate,          \* C
    num_candidates,
    extension,          \* E: what is left to visit of solver1.extension
    a,                  \* the argument of E tested
    attacker,           \* E': solver2.extension
    included,           \* S
    result              \* the list returned, as a bag

vars == <<att, pc, accepted, candidate, num_candidates, extension, a,
          attacker, included, result>>

Init ==
    /\ att \in Frameworks
    /\ pc = "admext"
    /\ accepted = {}
    /\ candidate = Args
    /\ num_candidates = N
    /\ extension = {}
    /\ a = 0
    /\ attacker = {}
    /\ included = {}
    /\ result = Nothing

-----------------------------------------------------------------------------
\* The argument sets Encodings::admissible describes.
AdmExt == {E \in SUBSET Args : Admissible(att, E) /\ Unattacked(att) \subseteq E}

\* C := C \ E+, with the counter kept by hand: one decrement per removal.
Discard(E) ==
    LET gone == candidate \cap Attacked(att, E) IN
    /\ candidate' = candidate \ gone
    /\ num_candidates' = num_candidates - Cardinality(gone)

(***************************************************************************)
(* The outer loop: E := AdmExt'(af, T, C), an admissible set that contains *)
(* T and meets C.                                                          *)
(***************************************************************************)
Solver1 == {E \in AdmExt : accepted \subseteq E /\ E \cap candidate # {}}

OuterSat ==
    /\ pc = "admext" /\ num_candidates # 0
    /\ \E E \in Solver1 : Discard(E) /\ extension' = E
    /\ pc' = "for"
    /\ UNCHANGED <<att, accepted, a, attacker, included, result>>

\* Mutant: the loop ends with one candidate left.
OuterEnd_early ==
    /\ pc = "admext"
    /\ num_candidates <= 1 \/ Solver1 = {}
    /\ pc' = "done"
    /\ UNCHANGED <<att, accepted, candidate, num_candidates, extension, a,
                   attacker, included, result>>

OuterEnd ==
    /\ pc = "admext"
    /\ num_candidates = 0 \/ Solver1 = {}
    /\ pc' = "done"
    /\ UNCHANGED <<att, accepted, candidate, num_candidates, extension, a,
                   attacker, included, result>>

(***************************************************************************)
(* The loop over E, in index order.                                        *)
(***************************************************************************)
First == CHOOSE i \in extension : \A j \in extension : i <= j

\* Mutant: arguments that are no longer candidates are tested too.
ForEach_untested ==
    /\ pc = "for" /\ extension # {}
    /\ extension' = extension \ {First}
    /\ a' = First /\ included' = {} /\ pc' = "attack"
    /\ UNCHANGED <<att, accepted, candidate, num_candidates, attacker, result>>

ForEach ==
    /\ pc = "for" /\ extension # {}
    /\ extension' = extension \ {First}
    /\ IF First \in candidate
       THEN a' = First /\ included' = {} /\ pc' = "attack"
       ELSE UNCHANGED <<a, included, pc>>
    /\ UNCHANGED <<att, accepted, candidate, num_candidates, attacker, result>>

ForEnd ==
    /\ pc = "for" /\ extension = {}
    /\ pc' = "admext"
    /\ UNCHANGED <<att, accepted, candidate, num_candidates, extension, a,
                   attacker, included, result>>

(***************************************************************************)
(* E' := AdmExtAtt(af, T u {a}, S): an admissible set not contained in S   *)
(* that attacks some admissible set S'' containing T u {a}.  There is none *)
(* iff a is accepted.                                                      *)
(***************************************************************************)
\* Mutant: nonsubset_clause is not added.
Solver2_any ==
    {E \in AdmExt : \E S2 \in AdmExt : /\ accepted \cup {a} \subseteq S2
                                       /\ Attacks(att, E, S2)}

\* Mutant: nonsubset_clause names the candidates, not what is outside S.
Solver2_candidates ==
    {E \in AdmExt : /\ E \cap candidate # {}
                    /\ \E S2 \in AdmExt : /\ accepted \cup {a} \subseteq S2
                                          /\ Attacks(att, E, S2)}

Solver2 ==
    {E \in AdmExt : /\ ~ (E \subseteq included)
                    /\ \E S2 \in AdmExt : /\ accepted \cup {a} \subseteq S2
                                          /\ Attacks(att, E, S2)}

AttackSat ==
    /\ pc = "attack"
    /\ \E E \in Solver2 : Discard(E) /\ attacker' = E
    /\ pc' = "extend"
    /\ UNCHANGED <<att, accepted, extension, a, included, result>>

\* Mutant: a is listed but not put into T.
Accept_not_in_T ==
    /\ pc = "attack"
    /\ Solver2 = {}
    /\ result' = Push(result, {a})
    /\ candidate' = candidate \ {a}
    /\ num_candidates' = num_candidates - 1
    /\ pc' = "for"
    /\ UNCHANGED <<att, accepted, extension, a, attacker, included>>

\* The counter is decremented without asking whether a is still a candidate.
Accept ==
    /\ pc = "attack"
    /\ Solver2 = {}
    /\ accepted' = accepted \cup {a}
    /\ result' = Push(result, {a})
    /\ candidate' = candidate \ {a}
    /\ num_candidates' = num_candidates - 1
    /\ pc' = "for"
    /\ UNCHANGED <<att, extension, a, attacker, included>>

(***************************************************************************)
(* E'' := AdmExt(af, E' u T u {a}), and S := S u E''.  There is none iff a *)
(* is dropped.                                                             *)
(***************************************************************************)
Solver3 == {E \in AdmExt : attacker \cup accepted \cup {a} \subseteq E}

ExtendSat ==
    /\ pc = "extend"
    /\ \E E \in Solver3 : Discard(E) /\ included' = included \cup E
    /\ pc' = "attack"
    /\ UNCHANGED <<att, accepted, extension, a, attacker, result>>

\* Mutant: the counter is decremented whether or not a is still a candidate.
Drop_untested ==
    /\ pc = "extend"
    /\ Solver3 = {}
    /\ candidate' = candidate \ {a}
    /\ num_candidates' = num_candidates - 1
    /\ pc' = "for"
    /\ UNCHANGED <<att, accepted, extension, a, attacker, included, result>>

Drop ==
    /\ pc = "extend"
    /\ Solver3 = {}
    /\ candidate' = candidate \ {a}
    /\ num_candidates' = IF a \in candidate THEN num_candidates - 1
                                            ELSE num_candidates
    /\ pc' = "for"
    /\ UNCHANGED <<att, accepted, extension, a, attacker, included, result>>

Over == pc = "done"

\* The process has ended.
Ended == Over /\ UNCHANGED vars

Next ==
    \/ OuterSat \/ OuterEnd
    \/ ForEach \/ ForEnd
    \/ AttackSat \/ Accept
    \/ ExtendSat \/ Drop
    \/ Ended

Spec == Init /\ [][Next]_vars

\* The process is single threaded and every call to solve_extension() returns.
FairSpec == Spec /\ WF_vars(Next)

-----------------------------------------------------------------------------

TypeOK ==
    /\ att \in Relations
    /\ pc \in {"admext", "for", "attack", "extend", "done"}
    /\ accepted \in SUBSET Args /\ candidate \in SUBSET Args
    /\ num_candidates \in 0 .. N
    /\ extension \in SUBSET Args
    /\ a \in Args \cup {0}
    /\ attacker \in SUBSET Args /\ included \in SUBSET Args
    /\ result \in [Args -> Nat]

\* The counter that ends the outer loop is the number of candidates, although
\* it is decremented in five places, one of them without a test.
CountsCandidates == num_candidates = Cardinality(candidate)

\* What the README promises of the algorithm, and ES-PR means: an accepted
\* argument is in every preferred extension.
OnlySkeptical == accepted \subseteq Skeptical(att, "PR")

\* As long as every accepted argument is skeptically accepted, none that is
\* has been dropped from C, by an attack or by the failure of solver3.
NoneDropped ==
    OnlySkeptical => Skeptical(att, "PR") \subseteq accepted \cup candidate

\* fudge.cpp can only err on one side: an answer without a wrong argument is
\* the whole answer, each argument once, whatever made the outer loop end.
MissesNothing ==
    pc = "done" /\ OnlySkeptical => result = Listing(Skeptical(att, "PR"))

\* An argument is only ever accepted wrongly when the extensions joined in S
\* conflict: where they do not, the failure of solver2 means that the argument
\* is in every preferred extension, whatever has been accepted before.
AcceptsRightly ==
    pc = "attack" /\ Solver2 = {} /\ ConflictFree(att, included)
        => a \in Skeptical(att, "PR")

Enum == INSTANCE Enumeration WITH
            task <- "ES", sem <- "PR", Problems <- {<<"ES", "PR">>},
            status <- IF Over THEN pc ELSE "running"

\* On small frameworks fudge.cpp lists exactly the skeptically accepted
\* arguments under preferred semantics, each once.
Implements == Enum!Spec

(***************************************************************************)
(* What gets less, the first that changes counting: the candidates that    *)
(* are not in E; what is left of E; and, for the argument tested, the      *)
(* arguments not in S and then the calls up to the next turn of its loop.  *)
(***************************************************************************)
Tested == IF pc \in {"attack", "extend"} THEN {a} ELSE {}

Pending == Cardinality(candidate \ (extension \cup Tested))

Inner ==
    CASE pc = "attack" -> 4 + 2 * Cardinality(Args \ included)
      [] pc = "extend" -> 3 + 2 * Cardinality(Args \ included)
      [] pc = "for"    -> 2
      [] pc = "admext" -> 1
      [] pc = "done"   -> 0

\* Every call to a solver and every turn of a loop leaves less to do, so the
\* three nested loops, none of which counts its rounds, cannot go on for ever.
Progress ==
    [][ \/ Pending' < Pending
        \/ Pending' = Pending /\ Cardinality(extension') < Cardinality(extension)
        \/ Pending' = Pending /\ extension' = extension /\ Inner' < Inner ]_vars

\* Every run of fudge.cpp ends.
Termination == <>Over
=============================================================================
