-------------------------------- MODULE Main --------------------------------
(***************************************************************************)
(* main() of Main.cpp: options, one of the two readers, the dispatch to    *)
(* the algorithm the build contains, and the answer.  The call of the      *)
(* algorithm is represented by what the modules about it show it to        *)
(* return, which is less for FUDGE and over an external process.           *)
(***************************************************************************)
EXTENDS Reader

CONSTANTS
    Builds,             \* the algorithm and the solver a binary is built with
    Requests            \* the values of option -p, split at each "-"

VARIABLES
    build,              \* the algorithm and the kind of solver compiled in
    opt,                \* what the command line says
    exit,               \* the exit status, "running" before, "crash" or "hung"
    printed             \* how often each name is printed

vars == <<readerVars, build, opt, exit, printed>>

\* bad: an unknown option; info: one of --help, --version, --formats and
\* --problems, or no argument at all; p, f, fo, s: the values of these options.
\* A path -s at which nothing can be started counts as none.
Options ==
    [bad : BOOLEAN, info : BOOLEAN, p : Requests,
     f : {"none", "unreadable", "readable"}, fo : {"none", "i23", "tgf", "other"},
     s : {"none", "solver"}]

AllNames == Names \cup 1 .. MaxArgs

NoAnswer == [x \in AllNames |-> 0]

\* The format defaults to i23.
ReaderOf(o) == IF o.fo = "tgf" THEN "tgf" ELSE "i23"

Init ==
    /\ build \in Builds
    /\ opt \in Options
    /\ exit = "running"
    /\ printed = NoAnswer
    /\ ReaderInit /\ format = ReaderOf(opt)

-----------------------------------------------------------------------------
(***************************************************************************)
(* The problem.  A request without "-" is its own semantics; what follows  *)
(* a second "-" is ignored.                                                *)
(***************************************************************************)
string_to_task(p) == IF p[1] \in {"EC", "ES"} THEN p[1] ELSE "UNKNOWN_TASK"

string_to_sem(p) ==
    LET sem == IF Len(p) = 1 THEN p[1] ELSE p[2]
    IN  IF sem \in {"CO", "ST", "PR"} THEN sem ELSE "UNKNOWN_SEM"

Problem == <<string_to_task(opt.p), string_to_sem(opt.p)>>

print_problems(b) ==
    CASE b \in {"IAQ", "EEE"} -> {"EC"} \X {"CO", "PR", "ST"} \cup {"ES"} \X {"ST", "PR"}
      [] b \in {"SEE", "SEEM"} -> {"EC"} \X {"CO", "PR", "ST"} \cup {<<"ES", "ST">>}
      [] b = "FUDGE" -> {<<"ES", "PR">>}

Listed == Problem \in print_problems(build.algorithm)

(***************************************************************************)
(* main() before the file is read: an unknown option ends it with status   *)
(* 1, a request for information with status 0, and what is missing or      *)
(* cannot be used with status 1.                                           *)
(***************************************************************************)
UnknownOption == opt.bad

MissingOption == opt.p = <<>> \/ opt.f = "none"

UnreadableFile == opt.f = "unreadable"

OtherFormat == opt.fo = "other"

Unusable == MissingOption \/ UnreadableFile \/ OtherFormat

ExitEarly ==
    /\ exit = "running" /\ file = <<>>
    /\ \/ UnknownOption /\ exit' = "1"
       \/ ~ UnknownOption /\ opt.info /\ exit' = "0"
       \/ ~ UnknownOption /\ ~ opt.info /\ Unusable /\ exit' = "1"
    /\ UNCHANGED <<readerVars, build, opt, printed>>

ReadOn ==
    /\ exit = "running" /\ ~ UnknownOption /\ ~ opt.info /\ ~ Unusable
    /\ Read
    /\ UNCHANGED <<build, opt, exit, printed>>

(***************************************************************************)
(* The dispatch.  No algorithm of a FUDGE build handles EC: the switch     *)
(* leaves the list empty and goes on.  An algorithm exits with status 1 on *)
(* a problem it does not list, before it looks at the framework; otherwise *)
(* an encoding reads the vectors of AF at every index below args.          *)
(* Over an external process it may also not return: the process may fail   *)
(* each time it is asked, or give the same answer again for ever.          *)
(***************************************************************************)
Framework(N) == INSTANCE Argumentation

\* Mutant: both cases of the switch call the credulous function.
Accepted_cred ==
    Framework(args(af))!Acceptable(af.att, "EC", string_to_sem(opt.p))

Accepted ==
    Framework(args(af))!Acceptable(af.att, string_to_task(opt.p), string_to_sem(opt.p))

Arguments == 0 .. args(af) - 1

\* What the algorithm may return, where Goal, of All, is what should be listed.
Returned(Goal, All) ==
    LET external == build.solver = "external"
        silent == external /\ opt.s = "none"
        counting == build.algorithm \in {"SEE", "EEE"} /\ external /\ ~ silent
    IN  {S \in SUBSET All :
           \* A library answers every call, and only FUDGE may list too much.
           /\ ~ external =>
                S = Goal \/ (build.algorithm = "FUDGE" /\ ~ (S \subseteq Goal))
           \* Without a process every query looks satisfiable: SEE and EEE go on
           \* for ever, and so does IAQ on ES-PR unless there is no argument.
           /\ silent =>
                /\ build.algorithm = "IAQ"
                /\ S = IF Problem[1] = "EC" THEN All ELSE {}
                /\ Problem = <<"ES", "PR">> => All = {}
           \* With a process that may fail now and then, and entries left over in
           \* the model vector, SEE and EEE still find all that is in some
           \* extension, but may lose what is in every stable one.
           /\ counting /\ Problem[1] = "EC" => S = Goal
           /\ counting /\ Problem = <<"ES", "ST">> => S \subseteq Goal}

\* print_extension_ee: the names of the arguments in the list.
Printed(S) == [x \in AllNames |-> Cardinality({i \in S : af.names[i + 1] = x})]

NoAlgorithm == build.algorithm = "FUDGE" /\ string_to_task(opt.p) = "EC"

Dispatch ==
    /\ exit = "running" /\ phase = "read"
    /\ \/ NoAlgorithm /\ exit' = "0" /\ printed' = printed
       \/ ~ NoAlgorithm /\ ~ Listed /\ exit' = "1" /\ printed' = printed
       \/ Listed /\ af.sized < args(af) /\ exit' = "crash" /\ printed' = printed
       \/ /\ Listed /\ af.sized = args(af) /\ exit' = "0"
          /\ \E S \in Returned(Accepted, Arguments) : printed' = Printed(S)
       \/ /\ Listed /\ af.sized = args(af) /\ exit' = "hung"
          /\ build.solver = "external" /\ printed' = printed
    /\ UNCHANGED <<readerVars, build, opt>>

\* The process has ended, or loops without effect.
Ended == (exit # "running" \/ phase = "hung") /\ UNCHANGED vars

Next == ExitEarly \/ ReadOn \/ Dispatch \/ Ended

Spec == Init /\ [][Next]_vars

-----------------------------------------------------------------------------

\* The framework a well-formed file states, with the arguments numbered in
\* the order of the file, and what is acceptable in it, by name.
Position(name) == CHOOSE i \in 0 .. Len(StatedNames) - 1 : StatedNames[i + 1] = name

AcceptableNames ==
    LET att == {<<Position(x[1]), Position(x[2])>> : x \in StatedAttacks}
    IN  {StatedNames[i + 1] : i \in
            Framework(Len(StatedNames))!Acceptable(att, Problem[1], Problem[2])}

Stated == {StatedNames[q] : q \in DOMAIN StatedNames}

\* From the options to the output: what main() prints for a well-formed file
\* and a problem the build lists are names stated in the file, each once, and
\* they are to the framework in the file what the algorithm's answer is to its
\* own.  A library build of IAQ, EEE, SEE or SEEM prints the acceptable
\* arguments, and FUDGE does unless it prints one too many.  An external SEE
\* or EEE prints them for EC, and nothing wrong for ES-ST.  Without -s an
\* external IAQ prints every argument for EC and none for ES-ST.
AnswersTheFile ==
    exit = "0" /\ ~ opt.info /\ WellFormed /\ Listed =>
        \E S \in Returned(AcceptableNames, Stated) :
            printed = [x \in AllNames |-> IF x \in S THEN 1 ELSE 0]

\* A binary that ends with status 0 without being asked for information has
\* answered one of the problems it lists under --problems.
OnlyListedAnswered == exit = "0" /\ ~ opt.info => Listed
=============================================================================
