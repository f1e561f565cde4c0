----------------------------- MODULE EEEBuilds -----------------------------
(***************************************************************************)
(* EEE.cpp over a library, and over an external process for every problem  *)
(* but ES-PR.                                                              *)
(***************************************************************************)
EXTENDS EEEExternal

VARIABLES
    wrapper,            \* what SAT_Solver stands for in this build
    failed              \* history: an external process has failed

buildVars == <<vars, wrapper, failed>>

BuildInit ==
    /\ Init
    /\ wrapper \in {"library", "external"}
    /\ wrapper = "external" => <<task, sem>> # <<"ES", "PR">>
    /\ failed = FALSE

Library == wrapper = "library" /\ Next /\ UNCHANGED <<wrapper, failed>>

External ==
    /\ wrapper = "external"
    /\ \/ ExtOther /\ UNCHANGED failed
       \/ ExtBroken /\ failed' = TRUE
    /\ UNCHANGED wrapper

BuildNext == Library \/ External

\* The process is single threaded and every call to solve() returns.
BuildSpec == BuildInit /\ [][BuildNext]_buildVars /\ WF_buildVars(BuildNext)

\* eee_skep does not survive a failure: it takes the missing literals for
\* rejected arguments.  eee_cred does.
Misled == failed /\ task = "ES"

\* In every build EEE.cpp lists exactly the acceptable arguments of every
\* problem it advertises, each once, and refuses the other problems: entries
\* left over in the model vector change nothing, nor does a process that fails
\* during eee_cred.  Only eee_skep after a failure is excepted.
ImplementsUnlessMisled ==
    Enum!Init /\ [][Enum!Next \/ Misled']_Enum!vars

\* Whatever fails, and however often, neither build lists an argument that is
\* not acceptable, or one twice: after a failure eee_skep may lose acceptable
\* arguments, but the clauses it then adds only block extensions that have
\* all it still includes.
ListsOnlyAcceptable ==
    \A i \in Args : result[i] > 0 => result[i] = 1 /\ i \in Acceptable(att, task, sem)

\* Over a library no answer is given twice: the clauses that follow an answer
\* exclude it, and of two calls to solve() in a row at most one has none.
NeverTwice ==
    [][ Library /\ pc' = pc =>
            /\ solver'.models \subseteq solver.models
            /\ \/ solver'.models # solver.models
               \/ ~ noFurther /\ noFurther' ]_buildVars

\* Over a library every run of EEE.cpp ends, although its loops only end on
\* UNSAT_V.
LibraryTerminates == wrapper = "library" ~> Over
=============================================================================
