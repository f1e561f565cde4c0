----------------------------- MODULE SEEBuilds -----------------------------
(***************************************************************************)
(* SEE.cpp over each solver wrapper it can be built with: a library        *)
(* (CaDiCaL, Glucose, CryptoMiniSat), an external process, or Kissat.      *)
(*                                                                         *)
(* Kissat is not incremental: kissat_add aborts the process once there has *)
(* been a search.                                                          *)
(***************************************************************************)
EXTENDS SEEExternal

VARIABLES
    wrapper,            \* what SAT_Solver stands for in this build
    aborted,            \* the Kissat library has aborted the process
    failed              \* history: an external process has failed

buildVars == <<vars, wrapper, aborted, failed>>

BuildInit ==
    /\ Init
    /\ wrapper \in {"library", "external", "kissat"}
    /\ aborted = FALSE
    /\ failed = FALSE

Library == wrapper = "library" /\ Next /\ UNCHANGED <<wrapper, aborted, failed>>

External ==
    /\ wrapper = "external"
    /\ \/ ExtAnswered /\ UNCHANGED failed
       \/ ExtBroken /\ failed' = TRUE
    /\ UNCHANGED <<wrapper, aborted>>

\* Everything but a round of a loop.
Kissat ==
    /\ wrapper = "kissat" /\ ~ aborted
    /\ \/ CredStart \/ CredUnsat \/ SkepStart \/ SkepUnsat
       \/ Unsupported \/ Ended
    /\ UNCHANGED <<wrapper, aborted, failed>>

\* Mutant: the refusal of the clause ends the loop as UNSAT_V does.
KissatSat_ends_loop ==
    /\ wrapper = "kissat" /\ pc \in {"cred", "skep"}
    /\ Answers(solver) # {}
    /\ pc' = "done"
    /\ UNCHANGED <<att, task, sem, solver, unvisited, included, result,
                   wrapper, aborted, failed>>

\* After the first answer both loops call add_clause: the process aborts, and
\* what it has found is not printed.
KissatSat ==
    /\ wrapper = "kissat" /\ ~ aborted
    /\ pc \in {"cred", "skep"}
    /\ Answers(solver) # {}
    /\ aborted' = TRUE
    /\ UNCHANGED <<vars, wrapper, failed>>

Aborted == aborted /\ UNCHANGED buildVars

BuildNext == Library \/ External \/ Kissat \/ KissatSat \/ Aborted

\* A call to solve() in see_cred for which the external process answers in
\* full.
CredAnswered ==
    /\ wrapper = "external"
    /\ ExtCredSat \/ CredUnsat
    /\ UNCHANGED <<wrapper, aborted, failed>>

\* Every call to solve() returns, and the external process does not fail
\* every time.
BuildSpec ==
    /\ BuildInit /\ [][BuildNext]_buildVars
    /\ WF_buildVars(BuildNext)
    /\ SF_buildVars(CredAnswered)

-----------------------------------------------------------------------------

\* see_skep does not survive a failure: it takes the missing literals for
\* rejected arguments.  see_cred does.
Misled == failed /\ task = "ES"

\* In every build SEE.cpp lists exactly the acceptable arguments of every
\* problem it advertises, each once, and refuses the other problems: entries
\* left over in the model vector change nothing, nor does a process that fails
\* during see_cred.  Only see_skep after a failure is excepted.
ImplementsUnlessMisled ==
    Enum!Init /\ [][Enum!Next \/ Misled']_Enum!vars

\* Whatever fails, and however often, no build lists an argument that is not
\* acceptable, or one twice: after a failure see_skep may lose acceptable
\* arguments, but the clauses it then adds never let it end too early.
ListsOnlyAcceptable ==
    \A i \in Args : result[i] > 0 => result[i] = 1 /\ i \in Acceptable(att, task, sem)

\* No clause of the loops has excluded anything yet.
Fresh ==
    solver.models = Models(count, IF pc = "skep" THEN stable(att) ELSE CredEncoding)

\* Every answer shows something new, an argument not visited before or one
\* not in all extensions after all, but for one answer, which its clause
\* excludes: a library, and see_cred over an external process that answers,
\* gives at most one satisfying answer more than there are arguments.
FindsNew ==
    [][ (Library \/ CredAnswered) /\ pc' = pc =>
            \/ unvisited' # unvisited
            \/ included' # included
            \/ Fresh /\ ~ Fresh' ]_buildVars

\* Over a library every run of SEE.cpp ends, although its loops only end on
\* UNSAT_V; over an external process see_cred ends, if the process fails in
\* some rounds but not in all of them from some point on.
Terminates ==
    (wrapper = "library" \/ (wrapper = "external" /\ task = "EC")) ~> Over

\* A Kissat build only answers when there is no extension to be found.
KissatFindsNothing ==
    wrapper = "kissat" /\ pc = "done" => Extensions(att, sem) = {}
=============================================================================
