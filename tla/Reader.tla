------------------------------- MODULE Reader -------------------------------
(***************************************************************************)
(* The two readers in main() (Main.cpp), for the formats i23 and tgf.      *)
(*                                                                         *)
(* One action is one round of a loop: an i23 file is read line by line, a  *)
(* tgf file token by token, then two tokens at a time.  What the next line *)
(* or token is, and where the file ends, is left open; file collects what  *)
(* was read.  Names are positive numbers, as in i23 files; 0 stands for    *)
(* the token "#" of tgf.                                                   *)
(***************************************************************************)
EXTENDS AF

CONSTANTS
    Names,              \* the tokens a line may name an argument with
    MaxArgs,            \* the largest number a "p" line may announce
    MaxLines,           \* bound on the lines of an i23 file
    MaxTokens           \* bound on the tokens of a tgf file

ASSUME NamesAssumption == Names \subseteq Nat \ {0}

ASSUME BoundsAssumption == MaxArgs \in Nat /\ MaxLines \in Nat /\ MaxTokens \in Nat

VARIABLES
    format,             \* "i23" or "tgf"
    file,               \* the lines or tokens read so far
    phase,              \* the loop main() is in, "read" after it, or "hung"
    af,                 \* the framework
    n_args,             \* the number last read from a "p" line
    source, target      \* the tokens last read into these strings

readerVars == <<format, file, phase, af, n_args, source, target>>

Hash == 0
NoName == 0             \* the empty string, no argument's name

ReaderInit ==
    /\ format \in {"i23", "tgf"}
    /\ file = <<>>
    /\ phase = IF format = "i23" THEN "lines" ELSE "arguments"
    /\ af = NewAF
    /\ n_args = 0
    /\ source = NoName
    /\ target = NoName

-----------------------------------------------------------------------------
(***************************************************************************)
(* i23.  A line is skipped (empty, or a comment), a "p" line with or       *)
(* without a number (0 if it cannot be parsed), or the tokens of an attack *)
(* line: a line of blanks, "\r" included, has none; a third is not read.   *)
(***************************************************************************)
Missing == -1

NextLine(line) ==
    /\ phase = "lines" /\ Len(file) < MaxLines
    /\ file' = Append(file, line)
    /\ UNCHANGED <<format, phase>>

SkippedLine ==
    /\ NextLine([kind |-> "skip"])
    /\ UNCHANGED <<af, n_args, source, target>>

\* Mutant: initialize_attackers is only called for the first "p" line.
WithArguments_once(n) ==
    LET more == [af EXCEPT !.names = @ \o [i \in 1 .. n |-> i]]
    IN  IF af.sized = 0 THEN initialize_attackers(more) ELSE more

\* add_argument for "1" .. "n", and the resizing that follows.
WithArguments(n) ==
    initialize_attackers([af EXCEPT !.names = @ \o [i \in 1 .. n |-> i]])

\* Without a number, n_args keeps the value of the last "p" line.
ParameterLine ==
    \E n \in {Missing} \cup 0 .. MaxArgs :
        /\ NextLine([kind |-> "p", n |-> n])
        /\ n_args' = IF n = Missing THEN n_args ELSE n
        /\ af' = WithArguments(n_args')
        /\ UNCHANGED <<source, target>>

\* Mutant: a token is only stored when another one follows it.
Token_late(toks, k, old) == IF Len(toks) > k THEN toks[k] ELSE old

\* Mutant: the first of two tokens is stored as the target, too.
Token_first(toks, k, old) == IF Len(toks) >= k THEN toks[1] ELSE old

\* The k-th token of a line, or what the string held before.
Token(toks, k, old) == IF Len(toks) >= k THEN toks[k] ELSE old

AttackLine ==
    \E len \in 0 .. 2 : \E toks \in [1 .. len -> Names] :
        /\ NextLine([kind |-> "attack", toks |-> toks])
        /\ source' = Token(toks, 1, source)
        /\ target' = Token(toks, 2, target)
        /\ af' = add_attack(af, source', target')
        /\ UNCHANGED n_args

\* The loop ends at the end of the file.  A read error is not the end of the
\* file: getline() then leaves an empty line, for ever.
EndOfLines ==
    /\ phase = "lines"
    /\ phase' \in {"read", "hung"}
    /\ UNCHANGED <<format, file, af, n_args, source, target>>

(***************************************************************************)
(* tgf.  A read error ends the loops as the end of the file does.          *)
(***************************************************************************)
NextTokens(toks) ==
    /\ Len(file) + Len(toks) <= MaxTokens
    /\ file' = file \o toks
    /\ UNCHANGED <<format, n_args>>

ArgumentToken ==
    /\ phase = "arguments"
    /\ \E name \in Names :
         /\ NextTokens(<<name>>)
         /\ af' = add_argument(af, name)
    /\ UNCHANGED <<phase, source, target>>

Separator ==
    /\ phase = "arguments"
    /\ NextTokens(<<Hash>>)
    /\ af' = initialize_attackers(af)
    /\ phase' = "attacks"
    /\ UNCHANGED <<source, target>>

AttackTokens ==
    /\ phase = "attacks"
    /\ \E s, t \in Names :
         /\ NextTokens(<<s, t>>)
         /\ source' = s
         /\ target' = t
         /\ af' = add_attack(af, s, t)
    /\ UNCHANGED phase

\* The file ends in either loop, possibly after a source without a target.
EndOfTokens ==
    /\ phase \in {"arguments", "attacks"}
    /\ phase' = "read"
    /\ \/ UNCHANGED <<file, source>>
       \/ /\ phase = "attacks" /\ Len(file) < MaxTokens
          /\ \E s \in Names : source' = s /\ file' = Append(file, s)
    /\ UNCHANGED <<format, af, n_args, target>>

Read ==
    \/ SkippedLine \/ ParameterLine \/ AttackLine \/ EndOfLines
    \/ ArgumentToken \/ Separator \/ AttackTokens \/ EndOfTokens

-----------------------------------------------------------------------------
(***************************************************************************)
(* What a file means, read as a whole.                                     *)
(***************************************************************************)
LinesOf(kind) == {q \in DOMAIN file : file[q].kind = kind}

AttackLines(len) == {q \in LinesOf("attack") : Len(file[q].toks) = len}

\* An i23 file with one "p" line, before any attack, and no line with one
\* token or with an unknown name.  Lines of blanks are allowed anywhere.
WellFormedI23 ==
    \E p \in LinesOf("p") :
        /\ LinesOf("p") = {p}
        /\ AttackLines(1) = {}
        /\ \A q \in AttackLines(2) :
             q > p /\ \A k \in 1 .. 2 : file[q].toks[k] \in 1 .. file[p].n

\* A tgf file: different names, the separator, and pairs of these names.
WellFormedTgf ==
    \E h \in DOMAIN file :
        /\ file[h] = Hash
        /\ (Len(file) - h) % 2 = 0
        /\ \A i, j \in 1 .. h - 1 : file[i] = file[j] => i = j
        /\ \A q \in h + 1 .. Len(file) : \E i \in 1 .. h - 1 : file[i] = file[q]

WellFormed == IF format = "i23" THEN WellFormedI23 ELSE WellFormedTgf

\* The arguments and the attacks a well-formed file states, by name.
Separated == CHOOSE h \in DOMAIN file : file[h] = Hash

StatedNames ==
    IF format = "i23"
    THEN [i \in 1 .. file[CHOOSE p \in LinesOf("p") : TRUE].n |-> i]
    ELSE SubSeq(file, 1, Separated - 1)

StatedAttacks ==
    IF format = "i23"
    THEN {<<file[q].toks[1], file[q].toks[2]>> : q \in AttackLines(2)}
    ELSE {<<file[q], file[q + 1]>> :
            q \in {q \in Separated + 1 .. Len(file) - 1 : (q - Separated) % 2 = 1}}

NamedAttacks == {<<af.names[x[1] + 1], af.names[x[2] + 1]>> : x \in af.att}

\* After any part of a well-formed file, main() has built exactly the
\* framework that part states: a line of blanks, or one that ends in "\r",
\* adds nothing although the strings source and target are still set.
ReadsTheFramework ==
    WellFormed => af.names = StatedNames /\ NamedAttacks = StatedAttacks

\* Even in a file that is not well formed, an attack that no line states
\* comes from a line with one token, completed with the last target read.
InventedOnlyFromOneToken ==
    format = "i23" =>
        \A x \in NamedAttacks \ StatedAttacks :
            \E q \in AttackLines(1), r \in AttackLines(2) :
                /\ r < q /\ x = <<file[q].toks[1], file[r].toks[2]>>
                /\ \A k \in AttackLines(2) : k <= r \/ k > q

\* No attack is entered beyond the vectors of AF, and when the file has been
\* read they have one entry per argument, unless a tgf file has no "#".
InBounds ==
    /\ af.inBounds
    /\ phase = "read" => \/ af.sized = args(af)
                         \/ format = "tgf" /\ \A q \in DOMAIN file : file[q] # Hash
=============================================================================
