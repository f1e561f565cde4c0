# A TLA+ model of algorithms_for_acceptable_arguments

The program reads an abstract argumentation framework (arguments and attacks)
and lists the arguments that are credulously (`EC`) or skeptically (`ES`)
accepted under complete (`CO`), preferred (`PR`) or stable (`ST`) semantics. It
is built once per algorithm (IAQ, EEE, SEE, SEEM, FUDGE) and per SAT solver.
Everything rests on CNF encodings handed to an incremental SAT solver that may
answer with *any* satisfying assignment. This directory models the program from
its options to its output: the readers, the framework, the encodings, the
solvers' contract and the five algorithms, and the wrappers that do not keep to
the contract (the external solver, Kissat). TLC checks the modules on small
frameworks and files; TLAPS proves, for every number of arguments and files of
any length, that the encodings are right, that SEE, EEE, IAQ and SEEM compute
what they promise over a library, what of it SEE and EEE keep over an external
process that may fail, when FUDGE does and on which side it can err, that every
round of their loops makes progress, and that `main()` prints for the file what
its algorithm answers.

## 1. Inventory

| part | source | state | operations | interacts with |
|---|---|---|---|---|
| AF | `src/AF.cpp`, `include/AF.h` | argument names and numbers, `attackers`, `attacked`, `unattacked`, variable numbers | `add_argument`, `add_attack`, `initialize_attackers`, `initialize_vars` | filled by Main, read by the encodings and algorithms |
| Encodings | `src/Encodings.cpp` | none | `admissible`, `attacks`, `complete` (two variants), `stable` | add clauses to a solver |
| SAT wrappers | `src/CadicalSatSolver.cpp`, `src/GlucoseSatSolver.cpp`, `src/CryptoMiniSatSolver.cpp` | clauses, pending assumptions, `model` (and `extension`) | `add_clause`, `assume`, `solve`, `solve_extension` | called by the algorithms, call a library |
| MaxSAT wrapper | `src/Cgss2MaxSatSolver.cpp` | also soft literals | also `add_soft_constraint`, `disable_soft_constraint`, `get_optimal_cost` | SEEM |
| Kissat wrapper | `src/KissatSolver.cpp` | clauses | as above, without assumptions | aborts on a second use; built by `make full` |
| External solver | `src/ExternalSatSolver.cpp` | clauses as text, `model` | runs a process per `solve` and parses its output | a solver binary given with `-s` |
| IAQ, EEE, SEE, SEEM, FUDGE | `src/IAQ.cpp`, `src/EEE.cpp`, `src/SEE.cpp`, `src/SEEM.cpp`, `src/fudge.cpp` | arguments included, unvisited, accepted or candidate; the result | one function per task | a solver and the encodings |
| Main | `src/Main.cpp` | options, the framework | option loop, two parsers, dispatch | all of the above |

The program has one thread. What is hard in it is not concurrency but
nondeterminism and accumulated state: an algorithm is a loop around `solve()`
whose answers it does not control, every round adds clauses that stay for all
later rounds, loops end only when the solver says UNSAT, and the conclusion
drawn from an UNSAT is right only if no clause added earlier has excluded
something it should not. The hazards are listed in `PROJECT.json`, each at its
line.

Two parts add failures and ordering of their own. The external solver is a
process per `solve()`: it may not start, die, or stop within its answer, and the
wrapper reads what it prints into a vector that still holds the previous answer.
The readers keep the tokens of earlier lines and rely on a separator, or a `p`
line, to size the vectors of `AF` before an attack is entered.

What makes each part correct:

* an encoding: its models are exactly the sets of arguments it stands for;
* an algorithm: it lists exactly the acceptable arguments, each once, for every
  problem `--problems` lists, refuses the others, and ends;
* on the way: no extension is lost, a grown set is maximal, a counter kept by
  hand is right;
* a wrapper: what the algorithm reads in `model` is an answer to its last
  `solve()`, or cannot do harm;
* a reader: the framework it builds is the one the file states, and no attack is
  entered beyond the vectors;
* main: what is printed answers the file and the request, or the status says
  that it does not.

## 2. Modules

| module | models | remarks |
|---|---|---|
| `Argumentation` | the framework and Dung's semantics, tasks, the result list | the reference definitions; a framework is its attack relation over `0 .. N-1` |
| `SatSolver` | the wrappers' common behaviour | the clause database is the set of assignments that satisfy it; a clause filters the set; assumptions last for one `solve()` |
| `MaxSatSolver` | `Cgss2MaxSatSolver.cpp` | soft literals cost 1 when true (IPAMIR); `solve()` returns an answer of least cost |
| `Encodings` | `Encodings.cpp`, `AF::initialize_vars` | signed integer literals, clauses as sets of literals |
| `Enumeration` | nothing in the code: the promise | `List`, `Finish`, `Refuse`; what is listed is never taken back |
| `SEE`, `EEE`, `IAQ`, `SEEM` | the algorithm of that name | one action per `solve()` and the code up to the next one |
| `Fudge` | `fudge.cpp` | the answers of its three solvers are given as argument sets |
| `ExternalSatSolver` | `ExternalSatSolver.cpp` | what one `solve()` leaves in the model vector, after a full answer, after one cut short, after silence |
| `SEEExternal`, `EEEExternal` | a `SAT_EXTERNAL` build of that algorithm | the same rounds (`CredRound`, `GrowRound`, ...) over the model that `ExternalSatSolver` hands over; `CredBroken`, `SkepBroken` and `StableBroken` are the rounds in which the process failed |
| `IAQExternal` | `iaq_cred` in a `SAT_EXTERNAL` build without a process | |
| `SEEBuilds`, `EEEBuilds` | the algorithm over each wrapper | `wrapper` is what `SAT_Solver` stands for (`Encodings.h`); the history variable `failed` records that a process has failed; a Kissat build aborts on the first clause after a `solve()` |
| `AF` | `AF.cpp` | a record: names, sizes of the vectors, attacks by index |
| `Reader` | the two readers in `main()` | i23 line by line, tgf token by token; the file is chosen as it is read |
| `Main` | `main()` | options, `Reader`, dispatch by build, output; an algorithm returns what the modules about it show (`Returned`, below) |
| `MC*` | | the frameworks, requests and files for TLC |
| `EncodingLemmas` | | lemmas on Dung's semantics, the encodings and the solvers |
| `EncodingsProofs`, `SEEProofs`, `EEEProofs`, `IAQProofs`, `SEEMProofs`, `FudgeProofs`, `MainProofs` | | the theorems, one module per component |

How they fit: each algorithm module is compared with the promise `Enumeration`
over `SatSolver` (or `MaxSatSolver`) and `Encodings`; the `*External` modules
replace the solver's answer by that of `ExternalSatSolver` and keep the rest;
`Main` composes `Reader` (which uses `AF`) with what they are shown to return.
The only builds there can be over an external solver are IAQ, EEE and SEE: SEEM
and FUDGE call functions that only the CGSS2 and the CaDiCaL wrapper have.

`Main` does not assume that every build is right. A build is an algorithm and a
kind of solver, and `Returned` holds what is shown of it elsewhere:

| build | returns | shown by |
|---|---|---|
| IAQ, EEE, SEE, SEEM over a library | exactly the acceptable arguments | `Implements` (iaq, seem), `ImplementsUnlessMisled` (eee, see), proved |
| FUDGE | the same, or a set with a wrong argument | `MissesNothing`, proved; `fudge_union` |
| SEE, EEE over a process, `EC` | the acceptable arguments, or it does not return | `ImplementsUnlessMisled`, proved |
| SEE, EEE over a process, `ES-ST` | some of them, or it does not return | `ListsOnlyAcceptable`, proved |
| EEE over a process, `ES-PR`; IAQ over a process | any arguments, or it does not return | nothing is shown; `eee_external_preferred` |
| IAQ without a process | everything for `EC`, nothing for `ES-ST`; `ES-PR` does not return | `iaq_external_silent`; for `ES` from the loops in `IAQ.cpp`, whose calls all return `SAT_V` |
| SEE, EEE without a process | does not return | every round is one of the `*Broken` ones; the loops end on `UNSAT_V` only |

Conventions. Definitions keep the names of the source where they have one.
`pc` names the loop (or the `solve()`) the function is in; `"done"` is the
return of the result, `"exit1"` the `exit(1)` on an unsupported semantics. A
vector of booleans over the arguments is the set of the true ones. The result,
a vector of names, is a bag (a function from arguments to counts): its order is
abstracted, duplicates are not. An operator named `X_something` just before `X`
and commented "Mutant" is a plausible bug, used to show that a property
notices it; no specification uses it.

The order of clauses and repeated attacks are abstracted; names occur in `AF`,
`Reader` and `Main` only, the algorithms work on indices. `NewSolver` takes the
clauses of the encoding at once: between the constructor and the first `solve()`
nothing else happens to the solver.

In `Fudge` the solvers hold up to `4 * N` variables and one per attack, too
many to enumerate. `solver1`, `solver2` are rebuilt for every call and `solver3`
gets no clauses after its encoding, so their answers are the admissible sets
(with all unattacked arguments) under the conditions assumed, and pairs of them
of which the first attacks the second. That this is what the encodings describe
is what `AdmissibleEncoding` and `AttacksEncoding` say, which are checked and
proved.

The external solver. `ReadModel` is the loop over the first `m` literals, one
`ReadLiteral` each. The faults are those the wrapper cannot tell from an
answer: nothing printed, or an answer that ends after fewer literals than
arguments. An answer to a set of clauses without models can only be lost
entirely; a process that prints `s UNSATISFIABLE` is believed, and right.

Files. `Reader` chooses each line or token as it is read and collects them in
`file`, which only the properties look at (`WellFormed`, `StatedNames`,
`StatedAttacks`). A line of an i23 file is empty or a comment, a `p` line with or
without a number, or an attack line with up to two tokens. Names are numbers
and `0` is the token `#`; a name in tgf is any token, of which the reader only
asks whether two are equal.

## 3. Runs

| run | properties | result |
|---|---|---|
| `encodings` | for all 512 frameworks with 3 arguments: the models of `admissible`, `complete`, `stable`, `attacks` are exactly the intended sets; `complete` has one model per extension; the variant without `PERF_ENC` reports sets that need not be complete, but its maximal ones are the preferred extensions | holds |
| `see` | SEE over a library, over an external process that may fail in any round of `see_cred` and `see_skep`, and over Kissat: `ImplementsUnlessMisled` (refinement of `Enumeration`, but for `see_skep` after a failure), `ListsOnlyAcceptable` (in spite of every failure), `NothingLost`, `KissatFindsNothing`, `FindsNew` (at most one satisfying answer more than there are arguments), `Terminates` | holds, for all frameworks with 3 arguments, all tasks and semantics |
| `eee` | EEE over a library, and, for all problems but `ES-PR`, over an external process that may fail in any round: `ImplementsUnlessMisled`, `ListsOnlyAcceptable`, `GrownIsPreferred`, `NoPreferredSkipped`, `NoExtensionMissed`, `NeverTwice` (over a library), `LibraryTerminates` | holds, likewise |
| `iaq`, `seem` | `Implements`, `Termination`, and: `FlipDecides`, `NoCounterexampleLost`, `NeverTwice`; `CostTestDecides`, `Greedy` | holds, likewise |
| `fudge` | `CountsCandidates`, `NoneDropped`, `MissesNothing`, `AcceptsRightly`, `Implements`, `Progress`, `Termination` | holds for all frameworks with 3 arguments |
| `fudge_union` | `OnlySkeptical` on one framework with 6 arguments | violated, see below |
| `eee_external_preferred` | `AnswersRight` for `ES-PR` over a process that never fails | violated |
| `iaq_external_silent` | `AnswersRight` for `EC` when no process can be started | violated |
| `reader` | `ReadsTheFramework`, `InventedOnlyFromOneToken`, `InBounds` | holds for all files within the bounds |
| `main` | `AnswersTheFile`, for every build, request and option | holds within the bounds |
| `main_fudge` | `OnlyListedAnswered` for a FUDGE build | violated |

Three questions the source leaves open get an answer: `Encodings::stable`
("TODO check correctness") is right; `seem_skep` ("TODO does this really work
always?") is right provided that CGSS2 stays optimal when weights change between
calls, although the wrapper has `make_incremental()` commented out (both are
checked and proved); and `ES-ST` without a stable extension (`Main.cpp`, "TODO
what if st(F) = \emptyset") lists every argument in all four algorithms that
support it, as the definition has it.

### The violations

**FUDGE (`fudge_union`).** `fudge_skep` keeps in `included` (S) the *union* of the extensions E'' found so
far and asks for an attacker E' not contained in that union. In the framework of
`fudge_union` (`0 <-> 1`, `2 <-> 3`, `4 -> 4`, `4 -> 5`, `2 -> 4`, `1 -> 4`)
argument 5 is not in the preferred extension `{0, 3}`. Testing 5, the solvers
may return E' = {0}, E'' = {0, 2, 5}, then E' = {1}, E'' = {1, 3, 5}; now S
holds all of 0, 1, 2, 3, no E' is left, and 5 is accepted. Whether this happens
depends on the models CaDiCaL picks. It cannot happen with up to four arguments
(checked for all frameworks with four arguments as well, outside the recorded
runs because of its size). The error is always of this kind: an answer without a
wrong argument is the whole answer (`MissesNothing`, checked and proved), and an
argument is accepted wrongly only when S holds a conflict at that moment, as it
does here (`AcceptsRightly`, likewise).

**Stale values (`eee_external_preferred`).** `ExternalSatSolver::solve` clears
`model[1-var]` for a negative literal `var`, two places above the variable's own
entry `model[-var-1]`, and does not reset the vector. Entry `i` is true after an
answer if the answer accepts argument `i`, or if it was true before and argument
`i - 2` is accepted or does not exist. `eee_skep` under `PR`, on two arguments
that attack each other, grows the second extension together with the first and
lists an argument that one of them lacks. For the same reason `see_skep` may add a
clause that the extension just seen satisfies, and be given it again for ever,
and `is_skeptically_preferred` may assume stale entries and take the failed flip
for a counterexample; neither is a run of its own. That `see_cred` is not
affected (`see`, and proved) is due to its design: it only asks for arguments it
has not visited, and whatever is stale it has. `eee_cred`, and `eee_skep` under
`ST`, only give right answers, if they give one.

What a process that *fails* does to SEE and EEE is no violation of its own, the
repository promises nothing of it, but it is checked and proved. `see_cred` and
`eee_cred` are not affected: what is cut off is found later. `see_skep` and
`eee_skep` under `ST` take what a failed process did not print for rejected: with
a silent process every argument that was not yet dropped is, and `ES-ST` is
answered with too little (`Misled`). They never answer with too much
(`ListsOnlyAcceptable`): an extension is only blocked when it has all that is
still included.

**Silence (`iaq_external_silent`).** `solve()` returns `SAT_V` unless a line says
otherwise. Without `-s`, which neither the README's direct call of the binary nor
`print_usage` mentions, no process starts and `iaq_cred` lists every argument.

**FUDGE and EC (`main_fudge`).** The `EC` case of a FUDGE build is empty: `main()`
prints `[]` and returns 0 for problems that `--problems` does not list, where it
otherwise says so and returns 1.

Kissat has no run of its own that fails: `KissatFindsNothing`, in `see`, says what
such a build does. `make full` builds SEE over Kissat, which aborts on any clause
added after a search; it answers only if there is no extension, and is then
right.

### Bounds

`N = 3` with *all* attack relations (512): self-attacks, mutual attacks, odd and
even cycles, several preferred extensions and no stable extension all occur, and
several rounds of every loop happen (coverage of all actions). The encodings use
2 variables per argument, so a solver has 64 assignments; 4 arguments would mean
65536 frameworks of 256 assignments each, out of reach of a short run.
`MaxAttacks = 3` bounds the frameworks in the check of `attacks`, whose solver
has `4 * N` variables and one per attack (2^15 assignments). No counter of the
algorithms is capped: their loops end by themselves.

The same bounds serve the external builds: entry `i` is cleared by the literal of
argument `i - 2`, so `N = 3` has an entry that is cleared and two that are not.
`eee_external_preferred` and `iaq_external_silent` need 2 arguments.

`Names`, `MaxArgs`, `MaxLines` and `MaxTokens` bound the files. In `reader`
these are 3 names, `p` lines up to 2 (so that a name can be unknown), 4 lines
(a `p` line and three more, enough for a line with two tokens, one with one and
a second `p` line) and 7 tokens (three arguments, the separator and an attack and
a half). `main` uses the five library builds and the three external ones, all
options and 11 requests on files with up to 3 lines or 5 tokens.

### Fairness

`FairSpec` (`BuildSpec` for SEE and EEE) adds weak fairness of the next-state
relation: the process has one thread, which keeps running, and every call of
`solve()` returns. `Termination`, `Terminates` and `LibraryTerminates` are then statements about
the loops: that they do not find ever new (or the same) answers for ever.

`SEEBuilds` lets the external process fail in any round, and adds
strong fairness of `CredAnswered`, the rounds in which it answers in full: each
`solve()` starts a new process, so failures do not persist, but one that never
answers would be asked for ever, and the code has no limit on that.
The readers have no fairness: a read error in an i23
file is a loop that never ends (`"hung"`), and nothing promises otherwise.

## 4. Proofs

For every `N`, every set of frameworks, every choice of models, and files of any
length over any set of names. Each component has an inductive invariant, `IInv`
(`ReaderInv` for the readers); the properties a run checks are conjuncts of it or
follow from it, seldom are they inductive by themselves. The types of the
variables (`TypeOK`) are the first conjunct of it and proved (`TypeCorrect`), so
no run repeats them.

* `EncodingLemmas`. *Semantics*: Dung's fundamental lemma; a preferred extension
  is complete; every admissible set is below a preferred one (the complements of
  the admissible supersets have a minimal element, strict inclusion being
  well-founded on the subsets of a finite set); hence `CredulousPreferred`, on
  which every algorithm relies when it answers `EC-PR` from complete
  extensions. *Encodings*: the clauses of one argument read as a propositional
  formula (`CompleteAt`, `StableAt`, `AdmissibleAt`, `LabelledAt`), and from them
  both directions: what is reported is an extension, and an assignment built
  from the extension (`ModelOf`) shows that it is reported. *Solvers*: what
  `add_clause`, `assume`, `solve` and the reading of an external answer do.
* `EncodingsProofs`: the six properties of the run `encodings`. For `attacks` the
  argument is about numbering: the variables of the two sets and of the attacks
  are apart because the position of an attack in the list is below the number of
  attacks.
* `SEEProofs`: `TypeOK`, `NothingLost` and `Implements` over a library. `IInv`
  joins to `NothingLost` that the solver's models are models of the encoding
  (`Sound`: in `see_skep` a clause of rejected variables means what it should
  only there), that no assumption is pending (`Phase`), and what has been listed
  or dropped so far in terms of the goal (`Books`). The refinement then needs two
  facts: with UNSAT everything acceptable is listed (`CredComplete`), or
  everything included is acceptable (`SkepComplete`). For the builds, `BuildInv`
  has two parts. `Base` holds whatever fails: `IInv` but for `Books`, and that in
  `see_cred` every stale entry of the model vector is visited; with UNSAT it makes
  all that is still included acceptable, hence `ListsOnlyAcceptable`. `Books`, by
  which nothing acceptable has been dropped, holds until a failure in `see_skep`
  (`Misled \/ Books`), and with it the refinement does. What a round of
  `see_cred` reads then is, within the unvisited arguments, a part
  of one of the solver's answers (all of it, if it was complete); `see_skep` needs
  that a full answer is contained in what is read, so that an argument it drops
  really is missing from an extension. Both facts are about the loop that reads
  the literals: `ReadModelClosed` shows by induction over the literals that the
  loop leaves the vector `ClosedForm` describes. For Kissat, the invariant says
  that the solver still holds exactly the encoding, so that UNSAT means that there
  is no extension (`KissatFindsNothing`). `FindsNew` needs `Selective`: once a
  round has added its clause, every answer accepts an unvisited argument, or
  lacks an included one, so it changes that set; the only round that may change
  neither is the first, and it ends the state in which no clause has excluded
  anything.
* `EEEProofs`: all safety properties of the run `eee`, over a library and over an
  external process that may fail; what holds after a failure and what only before
  is told apart as for SEE. `Blocked` is the heart of it: every complete extension that
  the clauses of earlier rounds exclude lies below the set being grown or below a
  preferred extension that has been counted (`Closed`). So when growing ends the
  set is maximal among *all* complete extensions, not only the open ones.
  `NeverTwice` follows from what the clauses mean: each is falsified by the
  answer it follows.
* `IAQProofs`: all safety properties of the run `iaq`. `Open` says that a query
  has blocked no preferred extension but, at most, the one it has just grown;
  `Grown` says that whatever is still open above the grown set contains the
  argument, which makes the flipped query exact. `NeverTwice` as for EEE.
* `SEEMProofs`: all safety properties of the run `seem`. Least costs exist because
  the models are finitely many; that the cost reaches the number of soft literals
  iff no extension changes the answer is a fact about cardinalities
  (`CostTestDecides`), and with it the refinement is short. `Greedy` compares the
  answer, which is of least cost, with the assignment that reports any other
  extension: the cost is what stays unvisited, or included.
* `FudgeProofs`: all safety properties of the run `fudge` but `Implements`, which is
  false for larger frameworks. `Testing` explains the one decrement of
  `num_candidates` that tests nothing: the argument tested is a candidate whenever
  `solver2` can fail. Where FUDGE can err is located by `JoinInv`: there is an
  admissible set with all that has been accepted and the argument tested
  (`Company`), and S defends all its members and is empty or has that argument
  (`Joined`). If a preferred extension lacked the argument, it would attack that
  set, so with `solver2` without an answer it would be within S; a conflict-free S
  is admissible, hence equal to it, but S has the argument
  (`AcceptsRightly`). So every run in which S has no conflict when an argument is
  accepted refines `Enumeration` (`RefinementUnlessMixed`), among them all runs on
  a framework with a single preferred extension, such as an acyclic one, since S
  then is part of it (`RefinementOnePreferred`). `Progress` is a lexicographic
  measure of the three loops: the candidates outside E, what is left of E, and
  the arguments outside S with the calls up to the next turn.
* `MainProofs`: the properties of the runs `reader` and `main`. `ReaderInv` says
  that the vectors have one entry per argument whenever attacks are entered
  (`Sizes`); for i23, what the strings `source` and `target` hold in terms of the
  lines read (`LastTarget`, `Sourced`), where every attack comes from (`Traced`),
  and what a single `p` line and the attacks after it add (`Announced`,
  `Entered`); for tgf, that the file is the names, a separator, and pairs, and
  the attacks are those of the pairs with known names (`Parted`). `MainReads`
  carries this over to `main()`; that different arguments have different names
  after a well-formed file (`NamesDiffer`) carries each clause of `Returned` from
  indices to names (`ReturnedByName`) and makes the printed answer that of the
  file (`AnswersTheFile`). What `Returned` says is taken over from the modules in
  the table of section 2; the theorem is about `main()`, not about them.

Assumptions: `N \in Nat`, `Frameworks \subseteq Relations`, names are positive
numbers (`NamesAssumption`), and the bounds on files are numbers
(`BoundsAssumption`).

Only model-checked: termination (`Terminates`, `LibraryTerminates`,
`Termination`: liveness under fairness is out of the prover's reach; what each
rests on, that every round leaves less to do, is proved as `FindsNew`,
`NeverTwice`, `Greedy` and `Progress`), and `Implements` of FUDGE without a
condition, on small frameworks.

## 5. Not modelled

* the bundled solvers under `lib/`: represented by their contract;
* scripts, Makefile, evaluation: no state of the program;
* the `EXPERIMENTAL` block of `Encodings.cpp`: enabled by no target, redefines
  functions and would not compile;
* of the external solver: an answer cut within a literal (the number is then
  another variable), the bits two places beyond the end of the vector that the
  last two literals write, and the signal a writer gets when the process has
  died before reading its input;
* `eee_skep` under `PR` over a process that fails, and IAQ over an external
  process (but for `iaq_cred` without any): `Main` assumes nothing of their answers;
* EEE and IAQ over Kissat: the same abort, or the `exit(1)` of its `assume()`; and
  Kissat builds in `Main`;
* of the readers: numbers too large for an `int`;
* `solve_extension()` of the wrappers but through its result;
* error and interrupted answers of the libraries: no limit is set, and CGSS2
  reports an error only for calls that are not made.

The program's own code, about 1300 lines in `src/src` and `src/include`, is
modelled in full but for the points above. More than 99% of the lines in the
repository are the third-party solvers under `lib/`: they are general SAT and
MaxSAT solvers, not written for this program, and what it needs of them is one
sentence (an answer is a model of the clauses, of least cost for MaxSAT).

## 6. State

Every property that a passing run checks is proved, but for termination and the
unconditional refinement by FUDGE (see section 4). What could be added: whether
a framework with five arguments makes FUDGE err, which needs a larger run than
those recorded here; and what IAQ, and `eee_skep` under `PR`, still guarantee over
a process that fails.
