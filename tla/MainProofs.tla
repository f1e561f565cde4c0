----------------------------- MODULE MainProofs -----------------------------
(***************************************************************************)
(* The readers of main() and its answer, for files and names of any        *)
(* number: the vectors of AF suffice, a well-formed file is read as the    *)
(* framework it states, what another one adds is accounted for, and the    *)
(* names printed are those of the acceptable arguments.                    *)
(***************************************************************************)
EXTENDS Main, MCReader, SequenceTheorems, FiniteSetTheorems, WellFoundedInduction, TLAPS

-----------------------------------------------------------------------------
(***************************************************************************)
(* AF.cpp.                                                                 *)
(***************************************************************************)
AFs == [names : Seq(Nat \ {0}), sized : Nat, att : SUBSET (Nat \X Nat), inBounds : BOOLEAN]

\* Attacks are between arguments.
Between(g) == \A x \in g.att : x[1] < Len(g.names) /\ x[2] < Len(g.names)

Known(g, name) == \E i \in 1 .. Len(g.names) : g.names[i] = name

Named(g) == {<<g.names[x[1] + 1], g.names[x[2] + 1]>> : x \in g.att}

\* A set of indices has a greatest element.
LEMMA MaxIn ==
    ASSUME NEW n \in Nat, NEW S \in SUBSET (0 .. n - 1), S # {}
    PROVE  Max(S) \in S
<1> DEFINE R == OpToRel(<, Nat)
           T == {n - x : x \in S}
<1>1. T \subseteq Nat /\ T # {}
  OBVIOUS
<1>2. PICK m \in T : \A y \in T : ~ (<<y, m>> \in R)
  <2> HIDE DEF R, T
  <2>1. IsWellFoundedOn(R, Nat)
    BY NatLessThanWellFounded DEF R
  <2> QED  BY <1>1, <2>1, WFMin
<1>3. \A y \in T : ~ (y < m)
  <2> HIDE DEF T
  <2> QED  BY <1>1, <1>2 DEF OpToRel
<1>4. PICK x \in S : m = n - x
  BY <1>2
<1>5. \A y \in S : x >= y
  <2> TAKE y \in S
  <2>1. ~ (n - y < n - x)
    BY <1>3, <1>4
  <2> QED  BY <2>1
<1> QED  BY <1>5 DEF Max

\* The index add_attack looks up is one of an argument with that name.
LEMMA NameIndex ==
    ASSUME NEW g \in AFs, NEW name
    PROVE  /\ Known(g, name) <=> Indices(g, name) # {}
           /\ Known(g, name) => /\ arg_to_int(g, name) \in 0 .. Len(g.names) - 1
                                /\ g.names[arg_to_int(g, name) + 1] = name
           /\ name = NoName => ~ Known(g, name)
<1>1. g.names \in Seq(Nat \ {0}) /\ Len(g.names) \in Nat
  BY DEF AFs
<1>2. Indices(g, name) \in SUBSET (0 .. Len(g.names) - 1)
  BY DEF Indices, args
<1>3. Known(g, name) <=> Indices(g, name) # {}
  <2>1. ASSUME NEW i \in 1 .. Len(g.names), g.names[i] = name PROVE Indices(g, name) # {}
    <3>1. i - 1 \in 0 .. Len(g.names) - 1 /\ (i - 1) + 1 = i
      BY <1>1
    <3>2. i - 1 \in Indices(g, name)
      BY <2>1, <3>1 DEF Indices, args
    <3> QED  BY <3>2
  <2>2. ASSUME NEW i \in Indices(g, name) PROVE Known(g, name)
    <3>1. i + 1 \in 1 .. Len(g.names) /\ g.names[i + 1] = name
      BY <1>1, <2>2 DEF Indices, args
    <3> QED  BY <3>1 DEF Known
  <2> QED  BY <2>1, <2>2 DEF Known
<1>4. Known(g, name) => arg_to_int(g, name) \in Indices(g, name)
  BY <1>1, <1>2, <1>3, MaxIn DEF arg_to_int
<1>5. name = NoName => ~ Known(g, name)
  BY <1>1 DEF Known, NoName
<1> QED  BY <1>2, <1>3, <1>4, <1>5 DEF Indices

\* What add_attack changes.
LEMMA AddAttack ==
    ASSUME NEW g \in AFs, Between(g), NEW s, NEW t, NEW h, h = add_attack(g, s, t)
    PROVE  /\ h \in AFs /\ Between(h)
           /\ h.names = g.names /\ h.sized = g.sized
           /\ g.sized = Len(g.names) => h.inBounds = g.inBounds
           /\ Known(g, s) /\ Known(g, t) => Named(h) = Named(g) \cup {<<s, t>>}
           /\ ~ (Known(g, s) /\ Known(g, t)) => Named(h) = Named(g)
<1>1. CASE ~ (Known(g, s) /\ Known(g, t))
  <2>1. h = g
    BY <1>1, NameIndex DEF add_attack
  <2> QED  BY <1>1, <2>1
<1>2. CASE Known(g, s) /\ Known(g, t)
  <2>1. PICK i \in 0 .. Len(g.names) - 1 : i = arg_to_int(g, s) /\ g.names[i + 1] = s
    BY <1>2, NameIndex
  <2>2. PICK j \in 0 .. Len(g.names) - 1 : j = arg_to_int(g, t) /\ g.names[j + 1] = t
    BY <1>2, NameIndex
  <2>3. h = [g EXCEPT !.att = @ \cup {<<i, j>>},
                      !.inBounds = @ /\ i < g.sized /\ j < g.sized]
    BY <1>2, <2>1, <2>2, NameIndex DEF add_attack
  <2>4. h = [names |-> g.names, sized |-> g.sized, att |-> g.att \cup {<<i, j>>},
             inBounds |-> g.inBounds /\ i < g.sized /\ j < g.sized]
    BY <2>3 DEF AFs
  <2>5. Len(g.names) \in Nat /\ i \in Nat /\ j \in Nat /\ i < Len(g.names) /\ j < Len(g.names)
    BY DEF AFs
  <2>6. /\ h.names = g.names /\ h.sized = g.sized /\ h.att = g.att \cup {<<i, j>>}
        /\ h.inBounds = (g.inBounds /\ i < g.sized /\ j < g.sized)
    BY <2>4
  <2>7. h \in AFs
    BY <2>4, <2>5 DEF AFs
  <2>8. Between(h)
    BY <2>5, <2>6 DEF Between
  <2>9. g.sized = Len(g.names) => h.inBounds = g.inBounds
    BY <2>5, <2>6 DEF AFs
  <2>10. Named(h) = Named(g) \cup {<<s, t>>}
    <3> DEFINE pair(x) == <<g.names[x[1] + 1], g.names[x[2] + 1]>>
    <3>1. pair(<<i, j>>) = <<s, t>>
      BY <2>1, <2>2
    <3>2. Named(g) = {pair(x) : x \in g.att} /\ Named(h) = {pair(x) : x \in h.att}
      BY <2>6 DEF Named
    <3> HIDE DEF pair
    <3> QED  BY <2>6, <3>1, <3>2
  <2> QED  BY <1>2, <2>6, <2>7, <2>8, <2>9, <2>10
<1> QED  BY <1>1, <1>2

\* More arguments, as add_argument enters them, leave the attacks alone.
LEMMA MoreNames ==
    ASSUME NEW g \in AFs, Between(g), NEW more \in Seq(Nat \ {0}),
           NEW h, h = [g EXCEPT !.names = g.names \o more]
    PROVE  /\ h \in AFs /\ Between(h)
           /\ h.names = g.names \o more /\ h.sized = g.sized
           /\ h.att = g.att /\ h.inBounds = g.inBounds
           /\ Named(h) = Named(g)
<1>1. h = [names |-> g.names \o more, sized |-> g.sized, att |-> g.att, inBounds |-> g.inBounds]
  BY DEF AFs
<1>2. /\ h.names = g.names \o more /\ h.sized = g.sized
      /\ h.att = g.att /\ h.inBounds = g.inBounds
  BY <1>1
<1>3. g.names \in Seq(Nat \ {0}) /\ Len(g.names) \in Nat /\ Len(more) \in Nat
  BY DEF AFs
<1>4. /\ h.names \in Seq(Nat \ {0}) /\ Len(h.names) = Len(g.names) + Len(more)
      /\ \A i \in 1 .. Len(g.names) : h.names[i] = g.names[i]
  BY <1>2, <1>3, ConcatProperties
<1>5. h \in AFs
  BY <1>1, <1>2, <1>4 DEF AFs
<1>6. g.att \in SUBSET (Nat \X Nat)
  BY DEF AFs
<1>7. Between(h)
  BY <1>2, <1>3, <1>4, <1>6 DEF Between
<1>8. Named(h) = Named(g)
  <2>1. ASSUME NEW x \in g.att
        PROVE  h.names[x[1] + 1] = g.names[x[1] + 1] /\ h.names[x[2] + 1] = g.names[x[2] + 1]
    <3>1. x[1] \in Nat /\ x[2] \in Nat /\ x[1] < Len(g.names) /\ x[2] < Len(g.names)
      BY <1>6 DEF Between
    <3>2. x[1] + 1 \in 1 .. Len(g.names) /\ x[2] + 1 \in 1 .. Len(g.names)
      BY ONLY <1>3, <3>1
    <3> QED  BY ONLY <1>4, <3>2
  <2> QED  BY <1>2, <2>1 DEF Named
<1> QED  BY <1>2, <1>5, <1>7, <1>8

\* initialize_attackers gives the vectors one entry per argument.
LEMMA Resized ==
    ASSUME NEW g \in AFs, Between(g), NEW h, h = initialize_attackers(g)
    PROVE  /\ h \in AFs /\ Between(h)
           /\ h.names = g.names /\ h.sized = Len(h.names)
           /\ h.att = g.att /\ h.inBounds = g.inBounds
           /\ Named(h) = Named(g)
<1>1. h = [names |-> g.names, sized |-> Len(g.names), att |-> g.att, inBounds |-> g.inBounds]
  BY DEF AFs, initialize_attackers, args
<1>2. /\ h.names = g.names /\ h.sized = Len(g.names)
      /\ h.att = g.att /\ h.inBounds = g.inBounds
  BY <1>1
<1>3. h \in AFs
  BY <1>1 DEF AFs
<1> QED  BY <1>2, <1>3 DEF Between, Named

-----------------------------------------------------------------------------
(***************************************************************************)
(* The inductive invariant of the readers.                                 *)
(*                                                                         *)
(* Types and Sizes: the vectors of AF have one entry per argument whenever *)
(* attacks are read.                                                       *)
(*                                                                         *)
(* Lines (i23): LastTarget says what the string target holds, Sourced that *)
(* the strings source and target, which a line of blanks enters once more, *)
(* are accounted for, Traced where each attack comes from.  Announced and  *)
(* Entered say what a single "p" line and the attacks after it do.         *)
(*                                                                         *)
(* Parted(h) (tgf): the file is the names, "#" at h, and the pairs.        *)
(***************************************************************************)
Lines == [kind : {"skip"}] \cup [kind : {"p"}, n : Int] \cup [kind : {"attack"}, toks : Seq(Names)]

Tokens == Names \cup {Hash}

Types ==
    /\ \/ format = "i23" /\ file \in Seq(Lines) /\ phase \in {"lines", "read", "hung"}
       \/ format = "tgf" /\ file \in Seq(Tokens) /\ phase \in {"arguments", "attacks", "read"}
    /\ af \in AFs /\ Between(af)
    /\ n_args \in Nat
    /\ source \in Names \cup {NoName} /\ target \in Names \cup {NoName}

NoHash == \A q \in 1 .. Len(file) : file[q] # Hash

Sizes ==
    /\ af.inBounds
    /\ af.sized = Len(af.names) \/ (format = "tgf" /\ NoHash /\ phase # "attacks")

Explained(x) ==
    \/ \E q \in AttackLines(2) : x = <<file[q].toks[1], file[q].toks[2]>>
    \/ \E q \in AttackLines(1), r \in AttackLines(2) :
         /\ r < q /\ x = <<file[q].toks[1], file[r].toks[2]>>
         /\ \A k \in AttackLines(2) : k <= r \/ k > q

LastTarget ==
    \/ target = NoName /\ AttackLines(2) = {}
    \/ \E r \in AttackLines(2) : /\ target = file[r].toks[2]
                                 /\ \A k \in AttackLines(2) : k <= r

Sourced == target # NoName => Explained(<<source, target>>)

Traced == \A x \in Named(af) : Explained(x)

Announced ==
    /\ LinesOf("p") = {} => af.names = <<>> /\ n_args = 0
    /\ \A p \in LinesOf("p") : LinesOf("p") = {p} => af.names = [i \in 1 .. file[p].n |-> i]

Entered ==
    \A p \in LinesOf("p"), q \in AttackLines(2) :
        LinesOf("p") = {p} /\ q > p /\ (\A k \in 1 .. 2 : file[q].toks[k] \in 1 .. file[p].n)
            => <<file[q].toks[1], file[q].toks[2]>> \in Named(af)

I23 == format = "i23" => LastTarget /\ Sourced /\ Traced /\ Announced /\ Entered

Pairs(h) == {q \in h + 1 .. Len(file) - 1 : (q - h) % 2 = 1}

Parted(h) ==
    /\ file[h] = Hash
    /\ \A q \in 1 .. Len(file) : q # h => file[q] # Hash
    /\ Len(af.names) = h - 1 /\ \A i \in 1 .. h - 1 : af.names[i] = file[i]
    /\ Named(af) = {<<file[q], file[q + 1]>> :
                      q \in {q \in Pairs(h) : Known(af, file[q]) /\ Known(af, file[q + 1])}}

Tgf ==
    format = "tgf" =>
        /\ phase = "arguments" => NoHash /\ af.names = file /\ af.att = {}
        /\ phase # "arguments" => \/ NoHash /\ af.names = file
                                  \/ \E h \in 1 .. Len(file) : Parted(h)
        /\ phase = "attacks" => ~ NoHash
        /\ phase = "attacks" => \A h \in 1 .. Len(file) : file[h] = Hash => (Len(file) - h) % 2 = 0

ReaderInv == Types /\ Sizes /\ I23 /\ Tgf

-----------------------------------------------------------------------------
(***************************************************************************)
(* i23.                                                                    *)
(***************************************************************************)

\* One more line.
LEMMA OneMoreLine ==
    ASSUME file \in Seq(Lines), NEW line \in Lines, file' = Append(file, line),
           NEW n, n = Len(file)
    PROVE  /\ n \in Nat /\ file' \in Seq(Lines)
           /\ \A q \in 1 .. n : file'[q] = file[q]
           /\ file'[n + 1] = line
           /\ \A kind : LinesOf(kind) \subseteq 1 .. n
           /\ \A kind : line.kind # kind => LinesOf(kind)' = LinesOf(kind)
           /\ \A kind : line.kind = kind => LinesOf(kind)' = LinesOf(kind) \cup {n + 1}
           /\ \A len : AttackLines(len) \subseteq 1 .. n
           /\ \A len : line.kind # "attack" => AttackLines(len)' = AttackLines(len)
           /\ \A len : line.kind = "attack" /\ Len(line.toks) # len
                          => AttackLines(len)' = AttackLines(len)
           /\ \A len : line.kind = "attack" /\ Len(line.toks) = len
                          => AttackLines(len)' = AttackLines(len) \cup {n + 1}
<1>1. /\ n \in Nat /\ file' \in Seq(Lines) /\ Len(file') = n + 1
      /\ \A q \in 1 .. n : file'[q] = file[q]
      /\ file'[n + 1] = line
  BY AppendProperties
<1>2. DOMAIN file = 1 .. n /\ DOMAIN file' = 1 .. n + 1
  BY <1>1
<1>3. 1 .. n + 1 = (1 .. n) \cup {n + 1}
  BY <1>1
<1>4. ASSUME NEW kind
      PROVE  /\ LinesOf(kind) \subseteq 1 .. n
             /\ line.kind # kind => LinesOf(kind)' = LinesOf(kind)
             /\ line.kind = kind => LinesOf(kind)' = LinesOf(kind) \cup {n + 1}
  <2>1. LinesOf(kind) = {q \in 1 .. n : file[q].kind = kind}
    BY <1>2 DEF LinesOf
  <2>2. LinesOf(kind)' = {q \in (1 .. n) \cup {n + 1} : file'[q].kind = kind}
    BY <1>2, <1>3 DEF LinesOf
  <2> QED  BY <1>1, <2>1, <2>2
<1>5. ASSUME NEW len
      PROVE  /\ AttackLines(len) \subseteq 1 .. n
             /\ line.kind # "attack" => AttackLines(len)' = AttackLines(len)
             /\ line.kind = "attack" /\ Len(line.toks) # len
                  => AttackLines(len)' = AttackLines(len)
             /\ line.kind = "attack" /\ Len(line.toks) = len
                  => AttackLines(len)' = AttackLines(len) \cup {n + 1}
  <2>1. AttackLines(len) = {q \in LinesOf("attack") : Len(file[q].toks) = len}
    BY DEF AttackLines
  <2>2. AttackLines(len)' = {q \in LinesOf("attack")' : Len(file'[q].toks) = len}
    BY DEF AttackLines
  <2>3. LinesOf("attack") \subseteq 1 .. n
    BY <1>4
  <2>4. CASE line.kind # "attack"
    <3>1. LinesOf("attack")' = LinesOf("attack")
      BY <1>4, <2>4
    <3> QED  BY <1>1, <2>1, <2>2, <2>3, <2>4, <3>1
  <2>5. CASE line.kind = "attack"
    <3>1. LinesOf("attack")' = LinesOf("attack") \cup {n + 1}
      BY <1>4, <2>5
    <3> QED  BY <1>1, <2>1, <2>2, <2>3, <2>5, <3>1
  <2> QED  BY <2>4, <2>5
<1> QED  BY <1>1, <1>4, <1>5

\* What has been explained stays explained.
LEMMA ExplainedStays ==
    ASSUME file \in Seq(Lines), NEW line \in Lines, file' = Append(file, line),
           NEW x, Explained(x)
    PROVE  Explained(x)'
<1> DEFINE n == Len(file)
<1>1. /\ n \in Nat
      /\ \A q \in 1 .. n : file'[q] = file[q]
      /\ \A len : AttackLines(len) \subseteq 1 .. n
      /\ \A len : AttackLines(len) \subseteq AttackLines(len)'
      /\ \A len : AttackLines(len)' \subseteq AttackLines(len) \cup {n + 1}
  BY OneMoreLine
<1> HIDE DEF n
<1>2. CASE \E q \in AttackLines(2) : x = <<file[q].toks[1], file[q].toks[2]>>
  BY <1>1, <1>2 DEF Explained
<1>3. ASSUME NEW q \in AttackLines(1), NEW r \in AttackLines(2),
             r < q /\ x = <<file[q].toks[1], file[r].toks[2]>>,
             \A k \in AttackLines(2) : k <= r \/ k > q
      PROVE  Explained(x)'
  <2>1. q \in AttackLines(1)' /\ r \in AttackLines(2)' /\ q \in 1 .. n
    BY <1>1, <1>3
  <2>2. x = <<file'[q].toks[1], file'[r].toks[2]>>
    BY <1>1, <1>3
  <2>3. \A k \in AttackLines(2)' : k <= r \/ k > q
    BY <1>1, <1>3, <2>1
  <2> QED  BY <1>3, <2>1, <2>2, <2>3 DEF Explained
<1> QED  BY <1>2, <1>3 DEF Explained

\* A line that is not an attack line does not disturb what is known of the
\* attack lines.
LEMMA OtherLine ==
    ASSUME file \in Seq(Lines), NEW line \in Lines, line.kind # "attack",
           file' = Append(file, line), target' = target, source' = source,
           LastTarget, Sourced, Traced, Named(af') = Named(af)
    PROVE  LastTarget' /\ Sourced' /\ Traced'
<1> DEFINE n == Len(file)
<1>0. /\ \A q \in 1 .. n : file'[q] = file[q]
      /\ \A len : AttackLines(len) \subseteq 1 .. n
      /\ \A len : AttackLines(len)' = AttackLines(len)
  BY OneMoreLine
<1> HIDE DEF n
<1>1. AttackLines(2) \subseteq 1 .. n /\ AttackLines(2)' = AttackLines(2)
  BY <1>0
<1>2. LastTarget'
  BY <1>0, <1>1 DEF LastTarget
<1>3. Sourced'
  BY ExplainedStays DEF Sourced
<1>4. Traced'
  <2> SUFFICES ASSUME NEW x \in Named(af') PROVE Explained(x)'
    BY DEF Traced, Named
  <2>1. Explained(x)
    BY DEF Traced
  <2> QED  BY <2>1, ExplainedStays
<1> QED  BY <1>2, <1>3, <1>4

\* An empty line or a comment.
LEMMA SkippedInv == ReaderInv /\ SkippedLine => ReaderInv'
<1> SUFFICES ASSUME ReaderInv, SkippedLine PROVE ReaderInv'
  OBVIOUS
<1> DEFINE line == [kind |-> "skip"]
           n == Len(file)
<1>1. /\ format' = format /\ phase' = phase /\ af' = af /\ n_args' = n_args
      /\ source' = source /\ target' = target /\ file' = Append(file, line)
      /\ phase = "lines" /\ format = "i23" /\ file \in Seq(Lines)
  BY DEF SkippedLine, NextLine, ReaderInv, Types
<1>2. line \in Lines /\ line.kind = "skip"
  BY DEF Lines
<1> HIDE DEF line
<1>3. /\ file' \in Seq(Lines)
      /\ \A q \in 1 .. n : file'[q] = file[q]
      /\ LinesOf("p")' = LinesOf("p") /\ LinesOf("p") \subseteq 1 .. n
      /\ AttackLines(2)' = AttackLines(2) /\ AttackLines(2) \subseteq 1 .. n
  BY <1>1, <1>2, OneMoreLine
<1> HIDE DEF n
<1>4. Types' /\ Sizes' /\ Tgf'
  BY <1>1, <1>3 DEF ReaderInv, Types, Sizes, Tgf, Between
<1>5. LastTarget' /\ Sourced' /\ Traced'
  BY <1>1, <1>2, OtherLine DEF ReaderInv, I23
<1>6. Announced'
  BY <1>1, <1>3 DEF ReaderInv, I23, Announced
<1>7. Entered'
  <2>1. Entered
    BY <1>1 DEF ReaderInv, I23
  <2>2. Named(af') = Named(af)
    BY <1>1
  <2> SUFFICES ASSUME NEW p \in LinesOf("p")', NEW q \in AttackLines(2)',
                      LinesOf("p")' = {p}, q > p,
                      \A k \in 1 .. 2 : file'[q].toks[k] \in 1 .. file'[p].n
               PROVE  <<file'[q].toks[1], file'[q].toks[2]>> \in Named(af')
    BY DEF Entered, Named
  <2>3. file'[p] = file[p] /\ file'[q] = file[q]
    BY <1>3
  <2> QED  BY <1>3, <2>1, <2>2, <2>3 DEF Entered
<1> QED  BY <1>4, <1>5, <1>6, <1>7 DEF ReaderInv, I23

\* A "p" line adds arguments, and no other line of a file with one "p" line
\* does.
LEMMA ParameterInv == ReaderInv /\ ParameterLine => ReaderInv'
<1> SUFFICES ASSUME ReaderInv, ParameterLine PROVE ReaderInv'
  OBVIOUS
<1>1. PICK m \in {Missing} \cup 0 .. MaxArgs :
        /\ NextLine([kind |-> "p", n |-> m])
        /\ n_args' = IF m = Missing THEN n_args ELSE m
        /\ af' = WithArguments(n_args')
        /\ UNCHANGED <<source, target>>
  BY DEF ParameterLine
<1> DEFINE line == [kind |-> "p", n |-> m]
           n == Len(file)
<1>2. /\ format' = format /\ phase' = phase
      /\ source' = source /\ target' = target /\ file' = Append(file, line)
      /\ phase = "lines" /\ format = "i23" /\ file \in Seq(Lines)
      /\ af \in AFs /\ Between(af) /\ af.inBounds
  BY <1>1 DEF NextLine, ReaderInv, Types, Sizes
<1>3. m \in Int /\ n_args \in Nat /\ n_args' \in Nat
  BY <1>1, BoundsAssumption DEF ReaderInv, Types, Missing
<1>4. line \in Lines /\ line.kind = "p" /\ line.n = m
  BY <1>3 DEF Lines
<1> HIDE DEF line
<1>5. /\ n \in Nat
      /\ file' \in Seq(Lines)
      /\ \A q \in 1 .. n : file'[q] = file[q]
      /\ file'[n + 1] = line
      /\ LinesOf("p")' = LinesOf("p") \cup {n + 1} /\ LinesOf("p") \subseteq 1 .. n
      /\ AttackLines(2)' = AttackLines(2) /\ AttackLines(2) \subseteq 1 .. n
  BY <1>2, <1>4, OneMoreLine
<1> HIDE DEF n
<1> DEFINE more == [i \in 1 .. n_args' |-> i]
           g == [af EXCEPT !.names = af.names \o more]
<1>6. more \in Seq(Nat \ {0})
  BY <1>3
<1>7. af' = initialize_attackers(g)
  BY <1>1 DEF WithArguments
<1>8. /\ g \in AFs /\ Between(g) /\ g.names = af.names \o more
      /\ g.inBounds = af.inBounds /\ Named(g) = Named(af)
  BY <1>2, <1>6, MoreNames
<1> HIDE DEF g
<1>9. /\ af' \in AFs /\ Between(af') /\ af'.names = af.names \o more
      /\ af'.sized = Len(af'.names) /\ af'.inBounds
      /\ Named(af') = Named(af)
  BY <1>2, <1>7, <1>8, Resized
<1>10. Types'
  BY <1>2, <1>3, <1>5, <1>9 DEF ReaderInv, Types, Between
<1>11. Sizes' /\ Tgf'
  BY <1>2, <1>9 DEF Sizes, Tgf
<1>12. LastTarget' /\ Sourced' /\ Traced'
  BY <1>2, <1>4, <1>9, OtherLine DEF ReaderInv, I23
<1>13. Announced'
  <2>1. LinesOf("p")' # {}
    BY <1>5
  <2>2. SUFFICES ASSUME NEW p \in LinesOf("p")', LinesOf("p")' = {p}
        PROVE  af'.names = [i \in 1 .. file'[p].n |-> i]
    BY <2>1 DEF Announced
  <2>3. p = n + 1 /\ LinesOf("p") = {}
    <3>1. p = n + 1
      BY <1>5, <2>2
    <3>2. ASSUME NEW q \in LinesOf("p") PROVE FALSE
      BY <1>5, <2>2, <3>1, <3>2
    <3> QED  BY <3>1, <3>2
  <2>4. af.names = <<>> /\ n_args = 0
    BY <1>2, <2>3 DEF ReaderInv, I23, Announced
  <2>5. af'.names = more
    BY <1>6, <1>9, <2>4, ConcatEmptySeq
  <2>6. 1 .. n_args' = 1 .. m
    BY <1>1, <1>3, <2>4 DEF Missing
  <2> QED  BY <1>4, <1>5, <2>3, <2>5, <2>6
<1>14. Entered'
  <2> SUFFICES ASSUME NEW p \in LinesOf("p")', NEW q \in AttackLines(2)',
                      LinesOf("p")' = {p}, q > p
               PROVE  FALSE
    BY DEF Entered
  <2> QED  BY <1>5
<1> QED  BY <1>10, <1>11, <1>12, <1>13, <1>14 DEF ReaderInv, I23

\* An attack line.  With two tokens it states its attack; with one, the last
\* target completes it; with none, the last attack is entered once more.
LEMMA AttackInv == ReaderInv /\ AttackLine => ReaderInv'
<1> SUFFICES ASSUME ReaderInv, AttackLine PROVE ReaderInv'
  OBVIOUS
<1>1. PICK len \in 0 .. 2 : \E toks \in [1 .. len -> Names] :
        /\ NextLine([kind |-> "attack", toks |-> toks])
        /\ source' = Token(toks, 1, source)
        /\ target' = Token(toks, 2, target)
        /\ af' = add_attack(af, source', target')
        /\ UNCHANGED n_args
  BY DEF AttackLine
<1>2. PICK toks \in [1 .. len -> Names] :
        /\ NextLine([kind |-> "attack", toks |-> toks])
        /\ source' = Token(toks, 1, source)
        /\ target' = Token(toks, 2, target)
        /\ af' = add_attack(af, source', target')
        /\ UNCHANGED n_args
  BY <1>1
<1> DEFINE line == [kind |-> "attack", toks |-> toks]
           n == Len(file)
<1>3. toks \in Seq(Names) /\ Len(toks) = len
  OBVIOUS
<1>4. /\ source' = (IF len >= 1 THEN toks[1] ELSE source)
      /\ target' = (IF len = 2 THEN toks[2] ELSE target)
  BY <1>2, <1>3 DEF Token
<1>5. /\ format' = format /\ phase' = phase
      /\ n_args' = n_args /\ file' = Append(file, line)
      /\ phase = "lines" /\ format = "i23" /\ file \in Seq(Lines)
      /\ af \in AFs /\ Between(af) /\ af.inBounds
      /\ source \in Names \cup {NoName} /\ target \in Names \cup {NoName}
  BY <1>2 DEF NextLine, ReaderInv, Types, Sizes
<1>6. line \in Lines /\ line.kind = "attack" /\ line.toks = toks
  BY <1>3 DEF Lines
<1> HIDE DEF line
<1>7. /\ n \in Nat
      /\ file' \in Seq(Lines)
      /\ \A q \in 1 .. n : file'[q] = file[q]
      /\ file'[n + 1] = line
      /\ LinesOf("p")' = LinesOf("p") /\ LinesOf("p") \subseteq 1 .. n
  BY <1>5, <1>6, OneMoreLine
<1>8. /\ AttackLines(1) \subseteq 1 .. n /\ AttackLines(2) \subseteq 1 .. n
      /\ len # 1 => AttackLines(1)' = AttackLines(1)
      /\ len = 1 => AttackLines(1)' = AttackLines(1) \cup {n + 1}
      /\ len # 2 => AttackLines(2)' = AttackLines(2)
      /\ len = 2 => AttackLines(2)' = AttackLines(2) \cup {n + 1}
  BY <1>3, <1>5, <1>6, OneMoreLine
<1> HIDE DEF n
<1>9. /\ af' \in AFs /\ Between(af')
      /\ af'.names = af.names /\ af'.sized = af.sized
      /\ af.sized = Len(af.names) => af'.inBounds = af.inBounds
      /\ Known(af, source') /\ Known(af, target')
            => Named(af') = Named(af) \cup {<<source', target'>>}
      /\ ~ (Known(af, source') /\ Known(af, target')) => Named(af') = Named(af)
  <2>1. PICK h, s, t : h = af' /\ s = source' /\ t = target'
    OBVIOUS
  <2>2. af \in AFs /\ Between(af) /\ h = add_attack(af, s, t)
    BY <1>2, <1>5, <2>1
  <2>3. /\ h \in AFs /\ Between(h)
        /\ h.names = af.names /\ h.sized = af.sized
        /\ af.sized = Len(af.names) => h.inBounds = af.inBounds
        /\ Known(af, s) /\ Known(af, t) => Named(h) = Named(af) \cup {<<s, t>>}
        /\ ~ (Known(af, s) /\ Known(af, t)) => Named(h) = Named(af)
    BY ONLY <2>2, AddAttack
  <2> QED  BY <2>1, <2>3
<1>10. Types'
  <2>1. source' \in Names \cup {NoName} /\ target' \in Names \cup {NoName}
    BY <1>4, <1>5
  <2> QED  BY <1>5, <1>7, <1>9, <2>1 DEF ReaderInv, Types, Between
<1>11. Sizes' /\ Tgf'
  <2>1. af.sized = Len(af.names)
    BY <1>5 DEF ReaderInv, Sizes
  <2>2. af'.inBounds /\ af'.sized = Len(af'.names)
    BY <1>5, <1>9, <2>1
  <2> QED  BY <1>5, <2>2 DEF Sizes, Tgf
<1>12. LastTarget'
  <2>1. CASE len = 2
    <3>1. n + 1 \in AttackLines(2)' /\ target' = file'[n + 1].toks[2]
      BY <1>4, <1>6, <1>7, <1>8, <2>1
    <3>2. \A k \in AttackLines(2)' : k <= n + 1
      BY <1>7, <1>8, <2>1
    <3> QED  BY <3>1, <3>2 DEF LastTarget
  <2>2. CASE len # 2
    <3>1. AttackLines(2)' = AttackLines(2) /\ target' = target
      BY <1>4, <1>8, <2>2
    <3> QED  BY <1>5, <1>7, <1>8, <3>1 DEF ReaderInv, I23, LastTarget
  <2> QED  BY <2>1, <2>2
<1>13. ASSUME NEW x, x = <<source', target'>>, target' # NoName
       PROVE  Explained(x)'
  <2>1. CASE len = 2
    <3>1. n + 1 \in AttackLines(2)'
      BY <1>8, <2>1
    <3>2. x = <<file'[n + 1].toks[1], file'[n + 1].toks[2]>>
      BY <1>4, <1>6, <1>7, <1>13, <2>1
    <3> QED  BY <3>1, <3>2 DEF Explained
  <2>2. CASE len = 1
    <3>1. target' = target /\ source' = toks[1]
      BY <1>4, <2>2
    <3>2. PICK r \in AttackLines(2) : /\ target = file[r].toks[2]
                                      /\ \A k \in AttackLines(2) : k <= r
      BY <1>5, <1>13, <3>1 DEF ReaderInv, I23, LastTarget
    <3>3. n + 1 \in AttackLines(1)' /\ r \in AttackLines(2)' /\ r < n + 1
      BY <1>7, <1>8, <2>2
    <3>4. x = <<file'[n + 1].toks[1], file'[r].toks[2]>>
      BY <1>13, <1>6, <1>7, <1>8, <3>1, <3>2
    <3>5. \A k \in AttackLines(2)' : k <= r \/ k > n + 1
      BY <1>8, <2>2, <3>2
    <3> QED  BY <3>3, <3>4, <3>5 DEF Explained
  <2>3. CASE len = 0
    <3>1. target' = target /\ source' = source
      BY <1>4, <2>3
    <3>2. Explained(x)
      BY <1>5, <1>13, <3>1 DEF ReaderInv, I23, Sourced
    <3> QED  BY <1>5, <1>6, <3>2, ExplainedStays
  <2> QED  BY <2>1, <2>2, <2>3
<1>14. Traced'
  <2> SUFFICES ASSUME NEW x \in Named(af') PROVE Explained(x)'
    BY DEF Traced, Named
  <2>1. CASE x \in Named(af)
    <3>1. Explained(x)
      BY <1>5, <2>1 DEF ReaderInv, I23, Traced
    <3> QED  BY <1>5, <1>6, <3>1, ExplainedStays
  <2>2. CASE x \notin Named(af)
    <3>1. Known(af, target') /\ x = <<source', target'>>
      BY <1>9, <2>2
    <3>2. target' # NoName
      BY <1>5, <3>1, NameIndex
    <3> QED  BY <1>13, <3>1, <3>2
  <2> QED  BY <2>1, <2>2
<1>15. Announced'
  <2>1. Announced
    BY <1>5 DEF ReaderInv, I23
  <2>2. LinesOf("p")' = {} => af'.names = <<>> /\ n_args' = 0
    BY <1>5, <1>7, <1>9, <2>1 DEF Announced
  <2>3. ASSUME NEW p \in LinesOf("p")', LinesOf("p")' = {p}
        PROVE  af'.names = [i \in 1 .. file'[p].n |-> i]
    <3>1. file'[p] = file[p]
      BY <1>7
    <3> QED  BY <1>7, <1>9, <2>1, <2>3, <3>1 DEF Announced
  <2> QED  BY <2>2, <2>3 DEF Announced
<1>16. Entered'
  <2>1. Entered /\ Announced
    BY <1>5 DEF ReaderInv, I23
  <2> SUFFICES ASSUME NEW p \in LinesOf("p")', NEW q \in AttackLines(2)',
                      LinesOf("p")' = {p}, q > p,
                      \A k \in 1 .. 2 : file'[q].toks[k] \in 1 .. file'[p].n
               PROVE  <<file'[q].toks[1], file'[q].toks[2]>> \in Named(af')
    BY DEF Entered, Named
  <2>2. p \in LinesOf("p") /\ LinesOf("p") = {p} /\ file'[p] = file[p]
    BY <1>7
  <2>3. CASE q \in AttackLines(2)
    BY <1>7, <1>8, <1>9, <2>1, <2>2, <2>3 DEF Entered
  <2>4. CASE q \notin AttackLines(2)
    <3>1. len = 2 /\ q = n + 1
      BY <1>8, <2>4
    <3>2. file'[q].toks[1] = source' /\ file'[q].toks[2] = target'
      BY <1>4, <1>6, <1>7, <3>1
    <3>3. af.names = [i \in 1 .. file[p].n |-> i] /\ file[p].n \in Int
      <4>1. file[p] \in Lines /\ file[p].kind = "p"
        BY <1>5, <1>7, <2>2 DEF LinesOf
      <4> QED  BY <2>1, <2>2, <4>1 DEF Announced, Lines
    <3>4. source' \in 1 .. file[p].n /\ target' \in 1 .. file[p].n
      BY <2>2, <3>2
    <3>5. Known(af, source') /\ Known(af, target')
      BY <3>3, <3>4 DEF Known
    <3> QED  BY <1>9, <3>2, <3>5
  <2> QED  BY <2>3, <2>4
<1>17. Sourced'
  BY <1>13 DEF Sourced, Explained
<1> QED  BY <1>10, <1>11, <1>12, <1>14, <1>15, <1>16, <1>17 DEF ReaderInv, I23

\* The end of the lines.
LEMMA EndOfLinesInv == ReaderInv /\ EndOfLines => ReaderInv'
<1> SUFFICES ASSUME ReaderInv, EndOfLines PROVE ReaderInv'
  OBVIOUS
<1>1. /\ format' = format /\ phase' \in {"read", "hung"} /\ af' = af /\ n_args' = n_args
      /\ source' = source /\ target' = target /\ file' = file
      /\ format = "i23" /\ file \in Seq(Lines)
  BY DEF EndOfLines, ReaderInv, Types
<1>2. Types' /\ Sizes' /\ Tgf'
  BY <1>1 DEF ReaderInv, Types, Sizes, Tgf, Between
<1>3. I23'
  BY <1>1 DEF ReaderInv, I23, LastTarget, Sourced, Traced, Announced, Entered,
              Explained, AttackLines, LinesOf, Named
<1> QED  BY <1>2, <1>3 DEF ReaderInv

-----------------------------------------------------------------------------
(***************************************************************************)
(* tgf.                                                                    *)
(***************************************************************************)

\* Where a pair may start when one or two more tokens follow whole pairs.
LEMMA NextPair ==
    ASSUME NEW h \in Nat, NEW n \in Nat, h <= n, (n - h) % 2 = 0
    PROVE  /\ {q \in h + 1 .. n : (q - h) % 2 = 1} = {q \in h + 1 .. n - 1 : (q - h) % 2 = 1}
           /\ {q \in h + 1 .. n + 1 : (q - h) % 2 = 1}
                = {q \in h + 1 .. n - 1 : (q - h) % 2 = 1} \cup {n + 1}
           /\ (n + 2 - h) % 2 = 0
<1>1. (n + 2 - h) % 2 = 0 /\ (n + 1 - h) % 2 = 1
  OBVIOUS
<1>2. \A q \in h + 1 .. n : q \in h + 1 .. n - 1 \/ q = n
  OBVIOUS
<1>3. \A q \in h + 1 .. n + 1 : q \in h + 1 .. n \/ q = n + 1
  OBVIOUS
<1>4. \A q \in h + 1 .. n - 1 : q \in h + 1 .. n /\ q \in h + 1 .. n + 1
  OBVIOUS
<1>5. n + 1 \in h + 1 .. n + 1
  OBVIOUS
<1> QED  BY <1>1, <1>2, <1>3, <1>4, <1>5

\* A name in the first part.
LEMMA ArgumentInv == ReaderInv /\ ArgumentToken => ReaderInv'
<1> SUFFICES ASSUME ReaderInv, ArgumentToken PROVE ReaderInv'
  OBVIOUS
<1>1. PICK name \in Names : NextTokens(<<name>>) /\ af' = add_argument(af, name)
  BY DEF ArgumentToken
<1>2. /\ format' = format /\ phase' = phase /\ n_args' = n_args
      /\ source' = source /\ target' = target /\ file' = file \o <<name>>
      /\ phase = "arguments" /\ format = "tgf" /\ file \in Seq(Tokens)
      /\ af \in AFs /\ Between(af) /\ af.inBounds
      /\ NoHash /\ af.names = file /\ af.att = {}
  BY <1>1 DEF ArgumentToken, NextTokens, ReaderInv, Types, Sizes, Tgf
<1>3. name \in Nat \ {0} /\ <<name>> \in Seq(Nat \ {0}) /\ <<name>> \in Seq(Tokens)
  BY NamesAssumption DEF Tokens
<1>4. /\ file' \in Seq(Tokens) /\ Len(file') = Len(file) + 1 /\ Len(file) \in Nat
      /\ \A q \in 1 .. Len(file) : file'[q] = file[q]
      /\ file'[Len(file) + 1] = name
  BY <1>2, <1>3, ConcatProperties
<1>5. af' = [af EXCEPT !.names = af.names \o <<name>>]
  <2>1. af.names \in Seq(Nat \ {0})
    BY <1>2 DEF AFs
  <2>2. Append(af.names, name) = af.names \o <<name>>
    BY <1>3, <2>1, AppendIsConcat
  <2> QED  BY <1>1, <2>2 DEF add_argument
<1>6. /\ af' \in AFs /\ Between(af') /\ af'.names = file' /\ af'.att = {} /\ af'.inBounds
  <2>1. PICK h : h = [af EXCEPT !.names = af.names \o <<name>>]
    OBVIOUS
  <2>2. /\ h \in AFs /\ Between(h) /\ h.names = af.names \o <<name>>
        /\ h.att = af.att /\ h.inBounds = af.inBounds
    BY <1>2, <1>3, <2>1, MoreNames
  <2> QED  BY <1>2, <1>5, <2>1, <2>2
<1>7. NoHash'
  BY <1>2, <1>3, <1>4 DEF NoHash, Hash
<1>8. Types'
  BY <1>2, <1>4, <1>6 DEF ReaderInv, Types, Between
<1>9. Sizes' /\ Tgf' /\ I23'
  BY <1>2, <1>6, <1>7 DEF Sizes, Tgf, I23
<1> QED  BY <1>8, <1>9 DEF ReaderInv

\* The separator.
LEMMA SeparatorInv == ReaderInv /\ Separator => ReaderInv'
<1> SUFFICES ASSUME ReaderInv, Separator PROVE ReaderInv'
  OBVIOUS
<1> DEFINE n == Len(file)
<1>1. /\ format' = format /\ phase' = "attacks" /\ n_args' = n_args
      /\ source' = source /\ target' = target /\ file' = file \o <<Hash>>
      /\ af' = initialize_attackers(af)
      /\ phase = "arguments" /\ format = "tgf" /\ file \in Seq(Tokens)
      /\ af \in AFs /\ Between(af) /\ af.inBounds
      /\ NoHash /\ af.names = file /\ af.att = {}
  BY DEF Separator, NextTokens, ReaderInv, Types, Sizes, Tgf
<1>2. <<Hash>> \in Seq(Tokens)
  BY DEF Tokens
<1>3. /\ file' \in Seq(Tokens) /\ Len(file') = n + 1 /\ n \in Nat
      /\ \A q \in 1 .. n : file'[q] = file[q]
      /\ file'[n + 1] = Hash
  BY <1>1, <1>2, ConcatProperties
<1>4. /\ af' \in AFs /\ Between(af') /\ af'.names = file /\ af'.att = {} /\ af'.inBounds
      /\ af'.sized = Len(af'.names)
  BY <1>1, Resized
<1> HIDE DEF n
<1>5. \A q \in 1 .. n + 1 : q # n + 1 => file'[q] # Hash
  <2>1. \A q \in 1 .. n : file[q] # Hash
    BY <1>1 DEF NoHash, n
  <2> QED  BY <1>3, <2>1
<1>6. ~ NoHash'
  BY <1>3 DEF NoHash
<1>7. PICK h : h = n + 1
  OBVIOUS
<1>8. Parted(h)'
  <2>1. Len(af'.names) = h - 1 /\ \A i \in 1 .. h - 1 : af'.names[i] = file'[i]
    BY <1>3, <1>4, <1>7 DEF n
  <2>2. Named(af') = {}
    BY <1>4 DEF Named
  <2>3. Pairs(h)' = {}
    BY <1>3, <1>7 DEF Pairs
  <2> QED  BY <1>3, <1>5, <1>7, <2>1, <2>2, <2>3 DEF Parted, Named
<1>9. \A k \in 1 .. n + 1 : file'[k] = Hash => (n + 1 - k) % 2 = 0
  BY <1>3, <1>5
<1>10. Types'
  BY <1>1, <1>3, <1>4 DEF ReaderInv, Types, Between
<1>11. Tgf'
  <2>1. h \in 1 .. Len(file')
    BY <1>3, <1>7
  <2>2. \E k \in 1 .. Len(file') : Parted(k)'
    BY <1>8, <2>1
  <2>3. \A k \in 1 .. Len(file') : file'[k] = Hash => (Len(file') - k) % 2 = 0
    BY <1>3, <1>9
  <2> QED  BY <1>1, <1>6, <2>2, <2>3 DEF Tgf
<1>12. Sizes' /\ I23'
  BY <1>1, <1>4 DEF Sizes, I23
<1> QED  BY <1>10, <1>11, <1>12 DEF ReaderInv

\* More tokens that are not "#".
LEMMA MoreTokens ==
    ASSUME file \in Seq(Tokens), NEW more \in Seq(Names), file' = file \o more
    PROVE  /\ file' \in Seq(Tokens) /\ Len(file') = Len(file) + Len(more)
           /\ \A q \in 1 .. Len(file) : file'[q] = file[q]
           /\ \A q \in 1 .. Len(more) : file'[Len(file) + q] = more[q]
           /\ \A q \in 1 .. Len(file) + Len(more) :
                file'[q] = Hash => q \in 1 .. Len(file) /\ file[q] = Hash
           /\ NoHash' <=> NoHash
<1>0. PICK n : n = Len(file)
  OBVIOUS
<1>1. more \in Seq(Tokens) /\ n \in Nat /\ Len(more) \in Nat
  BY <1>0 DEF Tokens
<1>2. /\ file' \in Seq(Tokens) /\ Len(file') = n + Len(more)
      /\ \A q \in 1 .. n + Len(more) : file'[q] = IF q <= n THEN file[q] ELSE more[q - n]
  BY <1>0, <1>1, ConcatProperties
<1>3. \A q \in 1 .. n : file'[q] = file[q]
  BY <1>1, <1>2
<1>4. \A q \in 1 .. Len(more) : file'[n + q] = more[q]
  <2> TAKE q \in 1 .. Len(more)
  <2>1. n + q \in 1 .. n + Len(more) /\ ~ (n + q <= n) /\ (n + q) - n = q
    BY <1>1
  <2> QED  BY <1>2, <2>1
<1>5. \A q \in 1 .. Len(more) : more[q] # Hash
  BY NamesAssumption DEF Hash
<1>6. ASSUME NEW q \in 1 .. n + Len(more), file'[q] = Hash
      PROVE  q \in 1 .. n /\ file[q] = Hash
  <2>1. CASE q <= n
    <3>1. q \in 1 .. n
      BY ONLY <1>1, <2>1, q \in 1 .. n + Len(more)
    <3> QED  BY ONLY <1>3, <1>6, <3>1
  <2>2. CASE ~ (q <= n)
    <3>1. q - n \in 1 .. Len(more)
      BY ONLY <1>1, <2>2, q \in 1 .. n + Len(more)
    <3> QED  BY <1>2, <1>5, <1>6, <2>2, <3>1
  <2> QED  BY <2>1, <2>2
<1>7. NoHash' <=> NoHash
  <2>1. \A q \in 1 .. n : q \in 1 .. n + Len(more)
    BY <1>1
  <2>2. 1 .. Len(file') = 1 .. n + Len(more)
    BY <1>2
  <2> QED  BY <1>0, <1>3, <1>6, <2>1, <2>2 DEF NoHash
<1> QED  BY <1>0, <1>2, <1>3, <1>4, <1>6, <1>7

\* The tokens of the pairs read so far do not change.
LEMMA SamePairs ==
    ASSUME NEW h \in 1 .. Len(file), Len(file) \in Nat, Parted(h),
           \A q \in 1 .. Len(file) : file'[q] = file[q]
    PROVE  /\ \A q \in Pairs(h) : file'[q] = file[q] /\ file'[q + 1] = file[q + 1]
           /\ Named(af) = {<<file'[q], file'[q + 1]>> :
                 q \in {q \in Pairs(h) : Known(af, file'[q]) /\ Known(af, file'[q + 1])}}
<1>1. \A q \in Pairs(h) : q \in 1 .. Len(file) /\ q + 1 \in 1 .. Len(file)
  BY DEF Pairs
<1>2. \A q \in Pairs(h) : file'[q] = file[q] /\ file'[q + 1] = file[q + 1]
  BY <1>1
<1>3. {q \in Pairs(h) : Known(af, file'[q]) /\ Known(af, file'[q + 1])}
        = {q \in Pairs(h) : Known(af, file[q]) /\ Known(af, file[q + 1])}
  BY <1>2
<1>4. Named(af) = {<<file[q], file[q + 1]>> :
                     q \in {q \in Pairs(h) : Known(af, file[q]) /\ Known(af, file[q + 1])}}
  BY DEF Parted
<1> QED  BY <1>2, <1>3, <1>4

\* A source and a target.
LEMMA AttackTokensInv == ReaderInv /\ AttackTokens => ReaderInv'
<1> SUFFICES ASSUME ReaderInv, AttackTokens PROVE ReaderInv'
  OBVIOUS
<1>1. PICK s \in Names, t \in Names :
        /\ NextTokens(<<s, t>>)
        /\ source' = s /\ target' = t
        /\ af' = add_attack(af, s, t)
  BY DEF AttackTokens
<1>2. PICK n : n = Len(file)
  OBVIOUS
<1>3. /\ format' = format /\ phase' = phase /\ n_args' = n_args /\ file' = file \o <<s, t>>
      /\ phase = "attacks" /\ format = "tgf" /\ file \in Seq(Tokens)
      /\ af \in AFs /\ Between(af) /\ af.inBounds /\ af.sized = Len(af.names)
      /\ ~ NoHash
  BY <1>1 DEF AttackTokens, NextTokens, ReaderInv, Types, Sizes, Tgf
<1>4. PICK h \in 1 .. n : Parted(h)
  BY <1>2, <1>3 DEF ReaderInv, Tgf
<1>6. /\ n \in Nat /\ file' \in Seq(Tokens) /\ Len(file') = n + 2
      /\ \A q \in 1 .. n : file'[q] = file[q]
      /\ file'[n + 1] = s /\ file'[n + 2] = t
      /\ \A q \in 1 .. n + 2 : file'[q] = Hash => q \in 1 .. n /\ file[q] = Hash
      /\ ~ NoHash'
  <2>1. PICK more : more = <<s, t>>
    OBVIOUS
  <2>2. more \in Seq(Names) /\ Len(more) = 2 /\ more[1] = s /\ more[2] = t
    BY <2>1
  <2>3. file \in Seq(Tokens) /\ more \in Seq(Names) /\ file' = file \o more
    BY <1>3, <2>1, <2>2
  <2>4. /\ file' \in Seq(Tokens) /\ Len(file') = Len(file) + Len(more)
        /\ \A q \in 1 .. Len(file) : file'[q] = file[q]
        /\ \A q \in 1 .. Len(more) : file'[Len(file) + q] = more[q]
        /\ \A q \in 1 .. Len(file) + Len(more) :
             file'[q] = Hash => q \in 1 .. Len(file) /\ file[q] = Hash
        /\ NoHash' <=> NoHash
    BY ONLY <2>3, MoreTokens
  <2> QED  BY <1>2, <1>3, <2>2, <2>4
<1>7. (n - h) % 2 = 0 /\ file[h] = Hash /\ \A q \in 1 .. n : q # h => file[q] # Hash
  BY <1>2, <1>3, <1>4 DEF ReaderInv, Tgf, Parted
<1>8. /\ af' \in AFs /\ Between(af') /\ af'.names = af.names
      /\ af'.sized = Len(af'.names) /\ af'.inBounds
      /\ Known(af, s) /\ Known(af, t) => Named(af') = Named(af) \cup {<<s, t>>}
      /\ ~ (Known(af, s) /\ Known(af, t)) => Named(af') = Named(af)
  <2>1. PICK g : g = add_attack(af, s, t)
    OBVIOUS
  <2>2. af \in AFs /\ Between(af)
    BY <1>3
  <2>3. /\ g \in AFs /\ Between(g)
        /\ g.names = af.names /\ g.sized = af.sized
        /\ af.sized = Len(af.names) => g.inBounds = af.inBounds
        /\ Known(af, s) /\ Known(af, t) => Named(g) = Named(af) \cup {<<s, t>>}
        /\ ~ (Known(af, s) /\ Known(af, t)) => Named(g) = Named(af)
    BY ONLY <2>1, <2>2, AddAttack
  <2>4. g = af'
    BY <1>1, <2>1
  <2> QED  BY <1>3, <2>3, <2>4
<1>9. Parted(h)'
  <2> DEFINE pair(q) == <<file'[q], file'[q + 1]>>
             Both(q) == Known(af, file'[q]) /\ Known(af, file'[q + 1])
  <2>1. h \in Nat /\ h <= n
    BY <1>6
  <2>2. Pairs(h)' = Pairs(h) \cup {n + 1}
    <3>1. Pairs(h) = {q \in h + 1 .. n - 1 : (q - h) % 2 = 1}
      BY <1>2 DEF Pairs
    <3>2. Pairs(h)' = {q \in h + 1 .. n + 1 : (q - h) % 2 = 1}
      <4>1. Len(file') - 1 = n + 1
        BY <1>6
      <4> QED  BY <4>1 DEF Pairs
    <3>3. n \in Nat /\ (n - h) % 2 = 0
      BY <1>6, <1>7
    <3>4. {q \in h + 1 .. n + 1 : (q - h) % 2 = 1}
            = {q \in h + 1 .. n - 1 : (q - h) % 2 = 1} \cup {n + 1}
      BY ONLY <2>1, <3>3, NextPair
    <3> QED  BY <3>1, <3>2, <3>4
  <2>3. Named(af) = {pair(q) : q \in {q \in Pairs(h) : Both(q)}}
    BY <1>2, <1>4, <1>6, SamePairs
  <2>4. pair(n + 1) = <<s, t>> /\ Both(n + 1) = (Known(af, s) /\ Known(af, t))
    <3>1. (n + 1) + 1 = n + 2
      BY <1>6
    <3> QED  BY <1>6, <3>1
  <2> HIDE DEF pair, Both
  <2>5. Named(af') = {pair(q) : q \in {q \in Pairs(h) \cup {n + 1} : Both(q)}}
    <3>1. CASE Both(n + 1)
      <4>1. {q \in Pairs(h) \cup {n + 1} : Both(q)} = {q \in Pairs(h) : Both(q)} \cup {n + 1}
        BY <3>1
      <4> QED  BY <1>8, <2>3, <2>4, <3>1, <4>1
    <3>2. CASE ~ Both(n + 1)
      <4>1. {q \in Pairs(h) \cup {n + 1} : Both(q)} = {q \in Pairs(h) : Both(q)}
        BY <3>2
      <4> QED  BY <1>8, <2>3, <2>4, <3>2, <4>1
    <3> QED  BY <3>1, <3>2
  <2>6. \A x : Known(af', x) <=> Known(af, x)
    BY <1>8 DEF Known
  <2>7. Named(af') = {<<file'[q], file'[q + 1]>> :
                        q \in {q \in Pairs(h)' : Known(af', file'[q]) /\ Known(af', file'[q + 1])}}
    <3>1. {q \in Pairs(h)' : Known(af', file'[q]) /\ Known(af', file'[q + 1])}
            = {q \in Pairs(h) \cup {n + 1} : Both(q)}
      BY <2>2, <2>6 DEF Both
    <3> QED  BY <2>5, <3>1 DEF pair
  <2>8. /\ file'[h] = Hash
        /\ \A q \in 1 .. Len(file') : q # h => file'[q] # Hash
    BY <1>6, <1>7
  <2>9. Len(af'.names) = h - 1 /\ \A i \in 1 .. h - 1 : af'.names[i] = file'[i]
    <3>1. Len(af.names) = h - 1 /\ \A i \in 1 .. h - 1 : af.names[i] = file[i]
      BY <1>4 DEF Parted
    <3>2. \A i \in 1 .. h - 1 : i \in 1 .. n
      BY <1>6, <2>1
    <3> QED  BY <1>6, <1>8, <3>1, <3>2
  <2> QED  BY <2>7, <2>8, <2>9 DEF Parted, Named, Known
<1>10. Types'
  BY <1>1, <1>3, <1>6, <1>8 DEF ReaderInv, Types, Between
<1>11. Sizes' /\ I23'
  BY <1>3, <1>8 DEF Sizes, I23
<1>12. Tgf'
  <2>1. h \in 1 .. Len(file')
    BY <1>6
  <2>2. \E k \in 1 .. Len(file') : Parted(k)'
    BY <1>9, <2>1
  <2>3. (n + 2 - h) % 2 = 0
    BY <1>6, <1>7, NextPair
  <2>4. \A k \in 1 .. Len(file') : file'[k] = Hash => (Len(file') - k) % 2 = 0
    BY <1>6, <1>7, <2>3
  <2> QED  BY <1>3, <1>6, <2>2, <2>4 DEF Tgf
<1> QED  BY <1>10, <1>11, <1>12 DEF ReaderInv

\* Parted does not depend on the other variables.
LEMMA SameParted ==
    ASSUME NEW h, Parted(h), file' = file, af' = af
    PROVE  Parted(h)'
<1>1. Pairs(h)' = Pairs(h)
  BY DEF Pairs
<1>2. Named(af)' = Named(af) /\ \A x : Known(af', x) <=> Known(af, x)
  OBVIOUS
<1>3. {q \in Pairs(h)' : Known(af', file'[q]) /\ Known(af', file'[q + 1])}
        = {q \in Pairs(h) : Known(af, file[q]) /\ Known(af, file[q + 1])}
  BY <1>1, <1>2
<1> QED  BY <1>2, <1>3 DEF Parted

\* The end of a tgf file, possibly after a source.
LEMMA EndOfTokensInv == ReaderInv /\ EndOfTokens => ReaderInv'
<1> SUFFICES ASSUME ReaderInv, EndOfTokens PROVE ReaderInv'
  OBVIOUS
<1>1. /\ format' = format /\ phase' = "read" /\ af' = af /\ n_args' = n_args /\ target' = target
      /\ phase \in {"arguments", "attacks"} /\ format = "tgf" /\ file \in Seq(Tokens)
      /\ af \in AFs /\ Between(af) /\ af.inBounds
      /\ source \in Names \cup {NoName} /\ target \in Names \cup {NoName}
  BY DEF EndOfTokens, ReaderInv, Types, Sizes
<1>2. I23'
  BY <1>1 DEF I23
<1>3. CASE UNCHANGED <<file, source>>
  <2>1. Types'
    BY <1>1, <1>3 DEF ReaderInv, Types, Between
  <2>2. Sizes'
    BY <1>1, <1>3 DEF ReaderInv, Sizes, NoHash
  <2>3. Tgf'
    <3>1. ASSUME NEW h, Parted(h) PROVE Parted(h)'
      BY <1>1, <1>3, <3>1, SameParted
    <3>2. NoHash => NoHash'
      BY <1>3 DEF NoHash
    <3>3. (NoHash /\ af.names = file) \/ \E h \in 1 .. Len(file) : Parted(h)
      BY <1>1 DEF ReaderInv, Tgf
    <3> QED  BY <1>1, <1>3, <3>1, <3>2, <3>3 DEF Tgf
  <2> QED  BY <1>2, <2>1, <2>2, <2>3 DEF ReaderInv
<1>4. ASSUME phase = "attacks", NEW s \in Names, source' = s, file' = Append(file, s)
      PROVE  ReaderInv'
  <2>1. PICK n : n = Len(file)
    OBVIOUS
  <2>2. /\ n \in Nat /\ file' \in Seq(Tokens) /\ Len(file') = n + 1
        /\ \A q \in 1 .. n : file'[q] = file[q]
        /\ file'[n + 1] = s
    BY <1>1, <1>4, <2>1, AppendProperties DEF Tokens
  <2>3. s # Hash
    BY NamesAssumption DEF Hash
  <2>4. PICK h \in 1 .. n : Parted(h)
    BY <1>1, <1>4, <2>1 DEF ReaderInv, Tgf
  <2>5. (n - h) % 2 = 0 /\ h \in Nat /\ h <= n
    BY <1>1, <1>4, <2>1, <2>2, <2>4 DEF ReaderInv, Tgf, Parted
  <2>6. Parted(h)'
    <3>1. Pairs(h)' = Pairs(h)
      <4>1. Pairs(h) = {q \in h + 1 .. n - 1 : (q - h) % 2 = 1}
        BY <2>1 DEF Pairs
      <4>2. Len(file') - 1 = n
        BY <2>2
      <4>3. Pairs(h)' = {q \in h + 1 .. n : (q - h) % 2 = 1}
        BY <4>2 DEF Pairs
      <4>4. n \in Nat
        BY <2>2
      <4>5. {q \in h + 1 .. n : (q - h) % 2 = 1} = {q \in h + 1 .. n - 1 : (q - h) % 2 = 1}
        BY ONLY <2>5, <4>4, NextPair
      <4> QED  BY <4>1, <4>3, <4>5
    <3>2. Named(af) = {<<file'[q], file'[q + 1]>> :
              q \in {q \in Pairs(h) : Known(af, file'[q]) /\ Known(af, file'[q + 1])}}
      BY <2>1, <2>2, <2>4, SamePairs
    <3>3. /\ file'[h] = Hash
          /\ \A q \in 1 .. Len(file') : q # h => file'[q] # Hash
      BY <2>1, <2>2, <2>3, <2>4 DEF Parted
    <3>4. Len(af.names) = h - 1 /\ \A i \in 1 .. h - 1 : af.names[i] = file'[i]
      <4>1. Len(af.names) = h - 1 /\ \A i \in 1 .. h - 1 : af.names[i] = file[i]
        BY <2>4 DEF Parted
      <4>2. \A i \in 1 .. h - 1 : i \in 1 .. n
        BY <2>2, <2>5
      <4> QED  BY <2>2, <4>1, <4>2
    <3> QED  BY <1>1, <3>1, <3>2, <3>3, <3>4 DEF Parted, Named, Known
  <2>7. h \in 1 .. Len(file')
    BY <2>2
  <2>8. Tgf'
    <3>1. \E k \in 1 .. Len(file') : Parted(k)'
      BY <2>6, <2>7
    <3> QED  BY <1>1, <3>1 DEF Tgf
  <2>9. Types'
    BY <1>1, <1>4, <2>2 DEF ReaderInv, Types, Between
  <2>10. Sizes'
    BY <1>1, <1>4 DEF ReaderInv, Sizes
  <2> QED  BY <1>2, <2>8, <2>9, <2>10 DEF ReaderInv
<1> QED  BY <1>3, <1>4 DEF EndOfTokens

-----------------------------------------------------------------------------
(***************************************************************************)
(* The readers.                                                            *)
(***************************************************************************)

\* Before the first line or token the invariant holds.
LEMMA InitInv == ReaderInit => ReaderInv
<1> SUFFICES ASSUME ReaderInit PROVE ReaderInv
  OBVIOUS
<1>1. /\ format \in {"i23", "tgf"} /\ file = <<>>
      /\ phase = (IF format = "i23" THEN "lines" ELSE "arguments")
      /\ n_args = 0 /\ source = NoName /\ target = NoName
      /\ af.names = <<>> /\ af.sized = 0 /\ af.att = {} /\ af.inBounds
      /\ af \in AFs
  BY DEF ReaderInit, NewAF, AFs
<1>2. Types
  BY <1>1 DEF Types, Between
<1>3. NoHash /\ Named(af) = {}
  BY <1>1 DEF NoHash, Named
<1>4. Sizes /\ Tgf
  BY <1>1, <1>3 DEF Sizes, Tgf
<1>5. I23
  <2>1. DOMAIN file = {}
    BY <1>1
  <2>2. LinesOf("p") = {} /\ AttackLines(2) = {}
    BY <2>1 DEF LinesOf, AttackLines
  <2> QED  BY <1>1, <1>3, <2>2 DEF I23, LastTarget, Sourced, Traced, Announced, Entered
<1> QED  BY <1>2, <1>4, <1>5 DEF ReaderInv

\* Nothing changes after the loops.
LEMMA SameInv == ReaderInv /\ UNCHANGED readerVars => ReaderInv'
<1> SUFFICES ASSUME ReaderInv, UNCHANGED readerVars PROVE ReaderInv'
  OBVIOUS
<1>1. /\ format' = format /\ file' = file /\ phase' = phase /\ af' = af
      /\ n_args' = n_args /\ source' = source /\ target' = target
  BY DEF readerVars
<1>2. Types' /\ Sizes'
  BY <1>1 DEF ReaderInv, Types, Sizes, NoHash, Between
<1>3. I23'
  BY <1>1 DEF ReaderInv, I23, LastTarget, Sourced, Traced, Announced, Entered,
              Explained, AttackLines, LinesOf, Named
<1>4. Tgf'
  <2>1. ASSUME NEW h, Parted(h) PROVE Parted(h)'
    BY <1>1, <2>1, SameParted
  <2>2. NoHash' <=> NoHash
    BY <1>1 DEF NoHash
  <2> QED  BY <1>1, <2>1, <2>2 DEF ReaderInv, Tgf
<1> QED  BY <1>2, <1>3, <1>4 DEF ReaderInv

\* The invariant of the readers.
THEOREM ReaderInvariant == ReaderSpec => []ReaderInv
<1>1. ReaderInv /\ [Read \/ Done]_readerVars => ReaderInv'
  BY SkippedInv, ParameterInv, AttackInv, EndOfLinesInv, ArgumentInv, SeparatorInv,
     AttackTokensInv, EndOfTokensInv, SameInv DEF Read, Done
<1> QED  BY InitInv, <1>1, PTL DEF ReaderSpec

\* The invariant bounds what is entered into the vectors of AF.
LEMMA InBoundsInv == ReaderInv => InBounds
<1> SUFFICES ASSUME ReaderInv PROVE InBounds
  OBVIOUS
<1>1. DOMAIN file = 1 .. Len(file)
  BY DEF ReaderInv, Types
<1> QED  BY <1>1 DEF ReaderInv, Sizes, InBounds, args, NoHash

\* No attack is entered beyond the vectors of AF, and after the file they
\* have one entry per argument, unless a tgf file has no "#".
THEOREM InBoundsAlways == ReaderSpec => []InBounds
BY ReaderInvariant, InBoundsInv, PTL

\* The invariant accounts for every attack of an i23 file.
LEMMA InventedInv == ReaderInv => InventedOnlyFromOneToken
<1> SUFFICES ASSUME ReaderInv, format = "i23", NEW x \in NamedAttacks \ StatedAttacks
             PROVE  \E q \in AttackLines(1), r \in AttackLines(2) :
                       /\ r < q /\ x = <<file[q].toks[1], file[r].toks[2]>>
                       /\ \A k \in AttackLines(2) : k <= r \/ k > q
  BY DEF InventedOnlyFromOneToken
<1>1. Explained(x)
  BY DEF ReaderInv, I23, Traced, Named, NamedAttacks
<1>2. ~ \E q \in AttackLines(2) : x = <<file[q].toks[1], file[q].toks[2]>>
  BY DEF StatedAttacks
<1> QED  BY <1>1, <1>2 DEF Explained

\* An attack that no line of an i23 file states comes from a line with one
\* token, completed with the last target read.
THEOREM InventedOnlyFromOneTokenAlways == ReaderSpec => []InventedOnlyFromOneToken
BY ReaderInvariant, InventedInv, PTL

\* What a well-formed i23 file states.
LEMMA ReadsI23 ==
    ASSUME ReaderInv, format = "i23", WellFormed
    PROVE  af.names = StatedNames /\ NamedAttacks = StatedAttacks
<1>1. PICK p \in LinesOf("p") :
        /\ LinesOf("p") = {p}
        /\ AttackLines(1) = {}
        /\ \A q \in AttackLines(2) :
             q > p /\ \A k \in 1 .. 2 : file[q].toks[k] \in 1 .. file[p].n
  BY DEF WellFormed, WellFormedI23
<1>2. af.names = StatedNames
  <2>1. (CHOOSE r \in LinesOf("p") : TRUE) = p
    BY <1>1
  <2> QED  BY <1>1, <2>1 DEF ReaderInv, I23, Announced, StatedNames
<1>3. NamedAttacks = Named(af)
  BY DEF NamedAttacks, Named
<1>4. StatedAttacks = {<<file[q].toks[1], file[q].toks[2]>> : q \in AttackLines(2)}
  BY DEF StatedAttacks
<1>5. ASSUME NEW x \in Named(af) PROVE x \in StatedAttacks
  <2>1. Explained(x)
    BY DEF ReaderInv, I23, Traced
  <2> QED  BY <1>1, <1>4, <2>1 DEF Explained
<1>6. ASSUME NEW q \in AttackLines(2) PROVE <<file[q].toks[1], file[q].toks[2]>> \in Named(af)
  BY <1>1 DEF ReaderInv, I23, Entered
<1> QED  BY <1>2, <1>3, <1>4, <1>5, <1>6

\* What a well-formed tgf file states.
LEMMA ReadsTgf ==
    ASSUME ReaderInv, format = "tgf", WellFormed
    PROVE  af.names = StatedNames /\ NamedAttacks = StatedAttacks
<1>1. file \in Seq(Tokens) /\ af \in AFs /\ Len(file) \in Nat
  BY DEF ReaderInv, Types
<1>2. PICK h \in 1 .. Len(file) :
        /\ file[h] = Hash
        /\ \A q \in h + 1 .. Len(file) : \E i \in 1 .. h - 1 : file[i] = file[q]
  <2>1. DOMAIN file = 1 .. Len(file)
    BY <1>1
  <2>2. WellFormedTgf
    BY DEF WellFormed
  <2> QED  BY ONLY <2>1, <2>2 DEF WellFormedTgf
<1>3. PICK k \in 1 .. Len(file) : Parted(k)
  BY <1>2 DEF ReaderInv, Tgf, NoHash
<1>4. Parted(h) /\ \A q \in 1 .. Len(file) : file[q] = Hash <=> q = h
  BY <1>2, <1>3 DEF Parted
<1>5. Separated = h
  <2>1. DOMAIN file = 1 .. Len(file)
    BY <1>1
  <2> QED  BY <1>4, <2>1 DEF Separated
<1>6. Len(af.names) = h - 1 /\ \A i \in 1 .. h - 1 : af.names[i] = file[i]
  BY <1>4 DEF Parted
<1>7. af.names = StatedNames
  <2>1. af.names \in Seq(Nat \ {0})
    BY <1>1 DEF AFs
  <2>2. \A i \in 1 .. h - 1 : file[i] \in Nat \ {0}
    BY <1>6, <2>1
  <2>3. /\ SubSeq(file, 1, h - 1) \in Seq(Nat \ {0})
        /\ Len(SubSeq(file, 1, h - 1)) = h - 1
        /\ \A i \in 1 .. h - 1 : SubSeq(file, 1, h - 1)[i] = file[i]
    BY <1>1, <1>6, <2>2, SubSeqProperties
  <2>4. af.names = SubSeq(file, 1, h - 1)
    BY <1>6, <2>1, <2>3, SeqEqual
  <2> QED  BY <1>5, <2>4 DEF StatedNames
<1>8. \A q \in h + 1 .. Len(file) : Known(af, file[q])
  BY <1>2, <1>6 DEF Known
<1>9. \A q \in Pairs(h) : Known(af, file[q]) /\ Known(af, file[q + 1])
  <2>1. \A q \in Pairs(h) : q \in h + 1 .. Len(file) /\ q + 1 \in h + 1 .. Len(file)
    BY <1>1 DEF Pairs
  <2> QED  BY <1>8, <2>1
<1>10. {q \in Pairs(h) : Known(af, file[q]) /\ Known(af, file[q + 1])} = Pairs(h)
  BY <1>9
<1>11. Named(af) = {<<file[q], file[q + 1]>> : q \in Pairs(h)}
  BY <1>4, <1>10 DEF Parted
<1>12. StatedAttacks = {<<file[q], file[q + 1]>> : q \in Pairs(h)}
  BY <1>5 DEF StatedAttacks, Pairs
<1> QED  BY <1>7, <1>11, <1>12 DEF NamedAttacks, Named

\* After any part of a well-formed file, main() has built the framework this
\* part states.
THEOREM ReadsTheFrameworkAlways == ReaderSpec => []ReadsTheFramework
<1>1. ReaderInv => ReadsTheFramework
  <2>1. ReaderInv => format \in {"i23", "tgf"}
    BY DEF ReaderInv, Types
  <2> QED  BY <2>1, ReadsI23, ReadsTgf DEF ReadsTheFramework
<1> QED  BY <1>1, ReaderInvariant, PTL

-----------------------------------------------------------------------------
(***************************************************************************)
(* main().                                                                 *)
(***************************************************************************)

\* What main() does to the framework is what the readers do by themselves:
\* the other steps leave it alone.
THEOREM MainReads == Spec => ReaderSpec
<1>1. Init => ReaderInit
  BY DEF Init
<1>2. [Next]_vars => [Read \/ Done]_readerVars
  <2> SUFFICES ASSUME [Next]_vars PROVE [Read \/ Done]_readerVars
    OBVIOUS
  <2>1. CASE ExitEarly
    BY <2>1 DEF ExitEarly
  <2>2. CASE ReadOn
    BY <2>2 DEF ReadOn
  <2>3. CASE Dispatch
    BY <2>3 DEF Dispatch
  <2>4. CASE UNCHANGED vars
    BY <2>4 DEF vars
  <2> QED  BY <2>1, <2>2, <2>3, <2>4 DEF Next, Ended
<1> QED  BY <1>1, <1>2, PTL DEF Spec, ReaderSpec

\* After a well-formed file, different arguments have different names.
LEMMA NamesDiffer ==
    ASSUME ReaderInv, WellFormed
    PROVE  \A i, j \in 1 .. Len(af.names) : af.names[i] = af.names[j] => i = j
<1>1. CASE format = "i23"
  <2>1. PICK p \in LinesOf("p") : LinesOf("p") = {p}
    BY <1>1 DEF WellFormed, WellFormedI23
  <2>2. af.names = [i \in 1 .. file[p].n |-> i]
    BY <1>1, <2>1 DEF ReaderInv, I23, Announced
  <2>3. af.names \in Seq(Nat \ {0})
    BY DEF ReaderInv, Types, AFs
  <2>4. DOMAIN af.names = 1 .. Len(af.names)
    BY <2>3
  <2> QED  BY <2>2, <2>4
<1>2. CASE format = "tgf"
  <2>1. file \in Seq(Tokens) /\ Len(file) \in Nat
    BY <1>2 DEF ReaderInv, Types
  <2>2. PICK h \in 1 .. Len(file) :
          /\ file[h] = Hash
          /\ \A i, j \in 1 .. h - 1 : file[i] = file[j] => i = j
    <3>1. DOMAIN file = 1 .. Len(file)
      BY <2>1
    <3>2. WellFormedTgf
      BY <1>2 DEF WellFormed
    <3> QED  BY ONLY <3>1, <3>2 DEF WellFormedTgf
  <2>3. PICK k \in 1 .. Len(file) : Parted(k)
    BY <1>2, <2>2 DEF ReaderInv, Tgf, NoHash
  <2>4. k = h
    BY <2>2, <2>3 DEF Parted
  <2>5. Len(af.names) = h - 1 /\ \A i \in 1 .. h - 1 : af.names[i] = file[i]
    BY <2>3, <2>4 DEF Parted
  <2> QED  BY <2>2, <2>5
<1> QED  BY <1>1, <1>2 DEF ReaderInv, Types

\* An algorithm's answer by index is an answer by name, when different indices
\* have different names.
LEMMA ReturnedByName ==
    ASSUME NEW All, NEW Goal \in SUBSET All, NEW name,
           \A i, j \in All : name[i] = name[j] => i = j,
           NEW S \in Returned(Goal, All)
    PROVE  {name[i] : i \in S} \in Returned({name[i] : i \in Goal}, {name[i] : i \in All})
<1> DEFINE Of(T) == {name[i] : i \in T}
<1>1. S \in SUBSET All
  BY DEF Returned
<1>2. Of(S) \in SUBSET Of(All)
  BY <1>1
<1>3. S = Goal => Of(S) = Of(Goal)
  OBVIOUS
<1>4. S \subseteq Goal <=> Of(S) \subseteq Of(Goal)
  BY <1>1
<1>5. (S = All => Of(S) = Of(All)) /\ (S = {} => Of(S) = {}) /\ (All = {} => Of(All) = {})
  OBVIOUS
<1> HIDE DEF Of
<1>6. Of(S) \in Returned(Of(Goal), Of(All))
  BY <1>1, <1>2, <1>3, <1>4, <1>5 DEF Returned
<1> QED  BY <1>6 DEF Of

\* With status 0, and without a request for information, the names printed
\* are those of what the algorithm returned.
Answered ==
    exit = "0" /\ ~ opt.info /\ Listed =>
        phase = "read" /\ \E S \in Returned(Accepted, Arguments) : printed = Printed(S)

\* From the options to the output: for a well-formed file and a problem the
\* build lists, main() prints names stated in the file, each once, and they
\* are to the framework in the file what the algorithm's answer is to its own.
THEOREM AnswersTheFileAlways == Spec => []AnswersTheFile
<1>1. Init => Answered
  BY DEF Init, Answered
<1>2. Answered /\ [Next]_vars => Answered'
  <2> SUFFICES ASSUME Answered, [Next]_vars PROVE Answered'
    OBVIOUS
  <2> DEFINE Prints(x) == \E S \in Returned(Accepted, Arguments) : x = Printed(S)
  <2>0. ASSUME opt' = opt, build' = build, af' = af
        PROVE  Listed' = Listed /\ Prints(printed)' = Prints(printed')
    <3>1. /\ Accepted' = Accepted /\ Arguments' = Arguments
          /\ Listed' = Listed /\ Problem' = Problem
      BY <2>0 DEF Listed, Problem, Accepted, Arguments
    <3>2. Returned(Accepted, Arguments)' = Returned(Accepted, Arguments)
      BY <2>0, <3>1 DEF Returned
    <3>3. ASSUME NEW S PROVE Printed(S)' = Printed(S)
      BY <2>0 DEF Printed
    <3> QED  BY <3>1, <3>2, <3>3
  <2>1. CASE ExitEarly
    BY <2>1 DEF ExitEarly, Answered
  <2>2. CASE ReadOn
    BY <2>2 DEF ReadOn, Answered
  <2>3. CASE Dispatch
    <3>1. opt' = opt /\ build' = build /\ af' = af /\ phase' = phase /\ phase = "read"
      BY <2>3 DEF Dispatch, readerVars
    <3>2. NoAlgorithm => ~ Listed
      BY DEF NoAlgorithm, Listed, Problem, print_problems
    <3>3. exit' = "0" /\ Listed => Prints(printed')
      BY <2>3, <3>2 DEF Dispatch
    <3> HIDE DEF Prints
    <3>4. exit' = "0" /\ Listed' => phase' = "read" /\ Prints(printed)'
      BY <2>0, <3>1, <3>3
    <3> QED  BY <3>4 DEF Answered, Prints
  <2>4. CASE UNCHANGED vars
    <3>1. /\ opt' = opt /\ build' = build /\ af' = af /\ phase' = phase
          /\ exit' = exit /\ printed' = printed
      BY <2>4 DEF vars, readerVars
    <3>2. exit = "0" /\ ~ opt.info /\ Listed => phase = "read" /\ Prints(printed)
      BY DEF Answered
    <3> HIDE DEF Prints
    <3>3. exit' = "0" /\ ~ opt'.info /\ Listed' => phase' = "read" /\ Prints(printed)'
      BY <2>0, <3>1, <3>2
    <3> QED  BY <3>3 DEF Answered, Prints
  <2> QED  BY <2>1, <2>2, <2>3, <2>4 DEF Next, Ended
<1>3. Answered /\ ReaderInv => AnswersTheFile
  <2> SUFFICES ASSUME Answered, ReaderInv, exit = "0", ~ opt.info, WellFormed, Listed
               PROVE  \E T \in Returned(AcceptableNames, Stated) :
                        printed = [x \in AllNames |-> IF x \in T THEN 1 ELSE 0]
    BY DEF AnswersTheFile
  <2>1. af.names = StatedNames /\ NamedAttacks = StatedAttacks
    BY ReadsI23, ReadsTgf DEF ReaderInv, Types
  <2>2. /\ Len(af.names) \in Nat /\ af.att \in SUBSET (Nat \X Nat)
        /\ \A x \in af.att : x[1] < Len(af.names) /\ x[2] < Len(af.names)
    BY DEF ReaderInv, Types, AFs, Between
  <2>3. ASSUME NEW i \in 0 .. Len(af.names) - 1, NEW j \in 0 .. Len(af.names) - 1,
               af.names[i + 1] = af.names[j + 1]
        PROVE  i = j
    <3>1. i + 1 \in 1 .. Len(af.names) /\ j + 1 \in 1 .. Len(af.names)
      BY <2>2
    <3>2. i + 1 = j + 1
      BY <2>3, <3>1, NamesDiffer
    <3> QED  BY <2>2, <3>2
  <2>4. ASSUME NEW i \in 0 .. Len(af.names) - 1 PROVE Position(af.names[i + 1]) = i
    BY <2>1, <2>3 DEF Position
  <2> DEFINE att == {<<Position(x[1]), Position(x[2])>> : x \in StatedAttacks}
  <2>5. att = af.att
    <3> DEFINE pair(x) == <<af.names[x[1] + 1], af.names[x[2] + 1]>>
               place(y) == <<Position(y[1]), Position(y[2])>>
    <3>1. att = {place(y) : y \in StatedAttacks} /\ StatedAttacks = {pair(x) : x \in af.att}
      BY <2>1 DEF NamedAttacks
    <3>2. ASSUME NEW x \in af.att PROVE place(pair(x)) = x
      <4>1. x[1] \in 0 .. Len(af.names) - 1 /\ x[2] \in 0 .. Len(af.names) - 1 /\ x = <<x[1], x[2]>>
        BY <2>2
      <4> QED  BY <2>4, <4>1
    <3> HIDE DEF att, pair, place
    <3> QED  BY <3>1, <3>2
  <2>6. AcceptableNames = {af.names[i + 1] : i \in Accepted}
    <3>1. Framework(Len(StatedNames))!Acceptable(att, Problem[1], Problem[2]) = Accepted
      <4> HIDE DEF att
      <4> QED  BY <2>1, <2>5 DEF Accepted, Problem, args
    <3> QED  BY <2>1, <3>1 DEF AcceptableNames
  <2>7. Accepted \in SUBSET Arguments
    BY DEF Accepted, Arguments, args, Framework!Acceptable, Framework!Credulous,
           Framework!Skeptical, Framework!Args
  <2>8. Arguments = 0 .. Len(af.names) - 1
    BY DEF Arguments, args
  <2>9. Stated = {af.names[i + 1] : i \in Arguments}
    <3>1. DOMAIN af.names = 1 .. Len(af.names)
      BY DEF ReaderInv, Types, AFs
    <3>2. ASSUME NEW q \in 1 .. Len(af.names)
          PROVE  \E i \in Arguments : af.names[q] = af.names[i + 1]
      <4>1. q - 1 \in Arguments /\ q - 1 + 1 = q
        BY <2>2, <2>8
      <4> QED  BY <4>1
    <3>3. \A i \in Arguments : i + 1 \in 1 .. Len(af.names)
      BY <2>2, <2>8
    <3> QED  BY <2>1, <3>1, <3>2, <3>3 DEF Stated
  <2>10. PICK S \in Returned(Accepted, Arguments) : printed = Printed(S)
    BY DEF Answered
  <2>11. S \in SUBSET Arguments
    BY DEF Returned
  <2> DEFINE T == {af.names[i + 1] : i \in S}
  <2>12. T \in Returned(AcceptableNames, Stated)
    <3> DEFINE name == [i \in Arguments |-> af.names[i + 1]]
    <3>1. \A i, j \in Arguments : name[i] = name[j] => i = j
      BY <2>3, <2>8
    <3>2. AcceptableNames = {name[i] : i \in Accepted} /\ Stated = {name[i] : i \in Arguments}
      BY <2>6, <2>7, <2>9
    <3>3. T = {name[i] : i \in S}
      BY <2>11
    <3> HIDE DEF name, T
    <3> QED  BY <2>7, <3>1, <3>2, <3>3, ReturnedByName
  <2>13. ASSUME NEW x \in AllNames
         PROVE  Printed(S)[x] = IF x \in T THEN 1 ELSE 0
    <3> DEFINE Those == {i \in S : af.names[i + 1] = x}
    <3>1. Printed(S)[x] = Cardinality(Those)
      BY DEF Printed
    <3>2. CASE x \in T
      <4>1. PICK i \in S : af.names[i + 1] = x
        BY <3>2
      <4>2. Those = {i}
        BY <2>3, <2>8, <2>11, <4>1
      <4> HIDE DEF Those
      <4> QED  BY <3>1, <3>2, <4>2, FS_Singleton
    <3>3. CASE x \notin T
      <4>1. Those = {}
        BY <3>3
      <4> HIDE DEF Those
      <4> QED  BY <3>1, <3>3, <4>1, FS_EmptySet
    <3> QED  BY <3>2, <3>3
  <2>14. printed = [x \in AllNames |-> IF x \in T THEN 1 ELSE 0]
    <3> HIDE DEF T
    <3> QED  BY <2>10, <2>13 DEF Printed
  <2> QED  BY <2>12, <2>14
<1> QED  BY <1>1, <1>2, <1>3, MainReads, ReaderInvariant, PTL DEF Spec
=============================================================================
