---------------------------- MODULE FudgeProofs ----------------------------
(***************************************************************************)
(* fudge.cpp for every number of arguments and every framework: its hand-  *)
(* kept counter is right, it drops no skeptically accepted argument unless *)
(* it has accepted a wrong one before, and so it can only err by accepting *)
(* too much.  (That it does err is shown by TLC, run fudge_union.)         *)
(***************************************************************************)
EXTENDS Fudge, EncodingLemmas

(***************************************************************************)
(* The inductive invariant.  Testing explains the decrement in Accept that *)
(* nothing guards: the argument tested stays a candidate until an attacker *)
(* is found, and if the attacker attacks the argument itself solver3 fails *)
(* and Drop, which does test, follows.                                     *)
(***************************************************************************)
Testing ==
    /\ pc = "attack" => a \in candidate
    /\ pc = "extend" => /\ a \in Args
                        /\ Admissible(att, attacker)
                        /\ a \in candidate \/ a \in Attacked(att, attacker)

Recorded == result = Listing(accepted) /\ accepted \cap candidate = {}

IInv == TypeOK /\ CountsCandidates /\ Testing /\ Recorded /\ NoneDropped /\ MissesNothing

-----------------------------------------------------------------------------

\* The number of candidates is at most the number of arguments.
LEMMA CandidateCount ==
    ASSUME NEW C \in SUBSET Args
    PROVE  IsFiniteSet(C) /\ Cardinality(C) \in 0 .. N
<1>1. Cardinality(Args) = N /\ IsFiniteSet(Args)
  BY NAssumption, FS_Interval DEF Args
<1>2. IsFiniteSet(C) /\ Cardinality(C) <= Cardinality(Args)
  BY <1>1, FS_Subset
<1>3. Cardinality(C) \in Nat
  BY <1>2, FS_CardinalityType
<1> QED  BY <1>1, <1>2, <1>3, NAssumption

\* Skeptical acceptance is membership in every preferred extension.
LEMMA SkepticalType ==
    /\ Skeptical(att, "PR") \in SUBSET Args
    /\ \A i \in Args : i \in Skeptical(att, "PR")
                         <=> \A P \in SUBSET Args : Preferred(att, P) => i \in P
  BY DEF Skeptical, Extensions, IsExtension

\* What an admissible set attacks is not skeptically accepted.
LEMMA AttackedNotSkeptical ==
    ASSUME NEW E, Admissible(att, E), NEW i \in Attacked(att, E)
    PROVE  i \notin Skeptical(att, "PR")
<1>1. PICK P \in SUBSET Args : Preferred(att, P) /\ E \subseteq P
  BY PreferredAbove
<1>2. i \in Args /\ \E j \in P : <<j, i>> \in att
  BY <1>1 DEF Attacked
<1>3. i \notin P
  BY <1>1, <1>2 DEF Preferred, Admissible, ConflictFree
<1> QED  BY <1>1, <1>2, <1>3, SkepticalType

\* Every preferred extension contains the unattacked arguments, so it is a
\* set that Encodings::admissible describes.
LEMMA PreferredAdmExt ==
    ASSUME NEW P \in SUBSET Args, Preferred(att, P)
    PROVE  P \in AdmExt
<1>1. Complete(att, P)
  BY PreferredIsComplete
<1> QED  BY <1>1 DEF Complete, AdmExt, Unattacked, Defends

\* Discarding what an admissible set attacks keeps the counter right, and
\* removes nothing that is skeptically accepted.
LEMMA Discarded ==
    ASSUME TypeOK, CountsCandidates, NEW E \in AdmExt, Discard(E)
    PROVE  /\ candidate' = candidate \ Attacked(att, E)
           /\ candidate' \in SUBSET Args
           /\ num_candidates' \in 0 .. N
           /\ num_candidates' = Cardinality(candidate')
           /\ Skeptical(att, "PR") \cap candidate \subseteq candidate'
<1> DEFINE gone == candidate \cap Attacked(att, E)
<1>1. /\ candidate' = candidate \ gone
      /\ num_candidates' = num_candidates - Cardinality(gone)
  BY DEF Discard
<1>2. candidate \in SUBSET Args /\ num_candidates = Cardinality(candidate)
  BY DEF TypeOK, CountsCandidates
<1>3. candidate' = candidate \ Attacked(att, E) /\ candidate' \in SUBSET Args
  BY <1>1, <1>2
<1>4. candidate \cap gone = gone
  OBVIOUS
<1> HIDE DEF gone
<1>5. num_candidates' = Cardinality(candidate')
  BY <1>1, <1>2, <1>4, CandidateCount, FS_Difference
<1>6. num_candidates' \in 0 .. N
  BY <1>3, <1>5, CandidateCount
<1>7. Skeptical(att, "PR") \cap candidate \subseteq candidate'
  BY <1>3, AttackedNotSkeptical DEF AdmExt
<1> QED  BY <1>3, <1>5, <1>6, <1>7

-----------------------------------------------------------------------------
(***************************************************************************)
(* One lemma per action.                                                   *)
(***************************************************************************)

\* The outer loop finds a set to visit.
LEMMA OuterSatInv == IInv /\ OuterSat => IInv'
<1> SUFFICES ASSUME IInv, OuterSat PROVE IInv'
  OBVIOUS
<1>1. PICK E \in Solver1 : Discard(E) /\ extension' = E
  BY DEF OuterSat
<1>2. E \in AdmExt /\ E \in SUBSET Args
  BY DEF Solver1, AdmExt
<1>3. /\ candidate' \in SUBSET candidate /\ candidate' \in SUBSET Args
      /\ num_candidates' \in 0 .. N /\ num_candidates' = Cardinality(candidate')
      /\ Skeptical(att, "PR") \cap candidate \subseteq candidate'
  BY <1>1, <1>2, Discarded DEF IInv
<1> QED  BY <1>1, <1>2, <1>3 DEF OuterSat, IInv, TypeOK, CountsCandidates, Testing,
            Recorded, NoneDropped, MissesNothing, OnlySkeptical

\* The outer loop ends: if only skeptically accepted arguments have been
\* accepted, a preferred extension would be an answer of solver1 if another
\* one was left.
LEMMA OuterEndInv == IInv /\ OuterEnd => IInv'
<1> SUFFICES ASSUME IInv, OuterEnd PROVE IInv'
  OBVIOUS
<1>1. TypeOK' /\ CountsCandidates' /\ Testing' /\ Recorded' /\ NoneDropped'
  BY DEF OuterEnd, IInv, TypeOK, CountsCandidates, Testing, Recorded, NoneDropped,
         OnlySkeptical
<1>2. ASSUME OnlySkeptical PROVE accepted = Skeptical(att, "PR")
  <2>1. /\ Skeptical(att, "PR") \subseteq accepted \cup candidate
        /\ candidate \in SUBSET Args /\ num_candidates = Cardinality(candidate)
    BY <1>2 DEF IInv, TypeOK, NoneDropped, CountsCandidates
  <2>2. ASSUME NEW i \in Skeptical(att, "PR"), i \notin accepted PROVE FALSE
    <3>1. i \in candidate /\ i \in Args
      BY <2>1, <2>2
    <3>2. num_candidates # 0
      BY <2>1, <3>1, CandidateCount, FS_EmptySet
    <3>3. Admissible(att, {})
      BY DEF Admissible, ConflictFree
    <3>4. PICK P \in SUBSET Args : Preferred(att, P)
      BY <3>3, PreferredAbove
    <3>5. Skeptical(att, "PR") \subseteq P
      BY <3>4, SkepticalType
    <3>6. P \in Solver1
      BY <1>2, <2>2, <3>1, <3>4, <3>5, PreferredAdmExt DEF Solver1, OnlySkeptical
    <3> QED  BY <3>2, <3>6 DEF OuterEnd
  <2> QED  BY <1>2, <2>2 DEF OnlySkeptical
<1>3. MissesNothing'
  BY <1>2 DEF OuterEnd, IInv, Recorded, MissesNothing, OnlySkeptical
<1> QED  BY <1>1, <1>3 DEF IInv

\* The loop over E goes on to its first argument.
LEMMA ForEachInv == IInv /\ ForEach => IInv'
<1> SUFFICES ASSUME IInv, ForEach PROVE IInv'
  OBVIOUS
<1>1. TypeOK' /\ Testing'
  BY DEF ForEach, IInv, TypeOK, Testing
<1>2. CountsCandidates' /\ Recorded' /\ NoneDropped' /\ MissesNothing'
  BY DEF ForEach, IInv, CountsCandidates, Recorded, NoneDropped, MissesNothing,
         OnlySkeptical
<1> QED  BY <1>1, <1>2 DEF IInv

\* solver2 finds an attacker, which may attack the argument tested.
LEMMA AttackSatInv == IInv /\ AttackSat => IInv'
<1> SUFFICES ASSUME IInv, AttackSat PROVE IInv'
  OBVIOUS
<1>1. PICK E \in Solver2 : Discard(E) /\ attacker' = E
  BY DEF AttackSat
<1>2. E \in AdmExt /\ E \in SUBSET Args /\ Admissible(att, E)
  BY DEF Solver2, AdmExt
<1>3. /\ candidate' = candidate \ Attacked(att, E) /\ candidate' \in SUBSET Args
      /\ num_candidates' \in 0 .. N /\ num_candidates' = Cardinality(candidate')
      /\ Skeptical(att, "PR") \cap candidate \subseteq candidate'
  BY <1>1, <1>2, Discarded DEF IInv
<1>4. Testing'
  BY <1>1, <1>2, <1>3 DEF AttackSat, IInv, TypeOK, Testing
<1> QED  BY <1>1, <1>2, <1>3, <1>4 DEF AttackSat, IInv, TypeOK, CountsCandidates,
            Recorded, NoneDropped, MissesNothing, OnlySkeptical

\* The argument tested is accepted: it is still a candidate.
LEMMA AcceptInv == IInv /\ Accept => IInv'
<1> SUFFICES ASSUME IInv, Accept PROVE IInv'
  OBVIOUS
<1>1. /\ pc = "attack" /\ pc' = "for" /\ att' = att
      /\ accepted' = accepted \cup {a} /\ candidate' = candidate \ {a}
      /\ result' = Push(result, {a}) /\ num_candidates' = num_candidates - 1
      /\ a \in candidate /\ a \in Args /\ a \notin accepted
      /\ candidate \in SUBSET Args /\ accepted \in SUBSET Args
      /\ num_candidates = Cardinality(candidate) /\ result = Listing(accepted)
  BY DEF Accept, IInv, TypeOK, Testing, Recorded, CountsCandidates
<1>2. num_candidates' = Cardinality(candidate') /\ num_candidates' \in 0 .. N
  <2>1. num_candidates' = Cardinality(candidate')
    BY <1>1, CandidateCount, FS_RemoveElement
  <2> QED  BY <1>1, <2>1, CandidateCount
<1>3. result' = Listing(accepted')
  BY <1>1, ListingGrows
<1>4. result' \in [Args -> Nat]
  BY <1>1, PushType DEF IInv, TypeOK
<1>5. TypeOK' /\ CountsCandidates' /\ Testing' /\ Recorded'
  BY <1>1, <1>2, <1>3, <1>4 DEF Accept, IInv, TypeOK, CountsCandidates, Testing, Recorded
<1>6. NoneDropped' /\ MissesNothing'
  BY <1>1 DEF IInv, NoneDropped, MissesNothing, OnlySkeptical
<1> QED  BY <1>5, <1>6 DEF IInv

\* solver3 extends the attacker by the argument tested, which is therefore not
\* attacked by either: it is still a candidate.
LEMMA ExtendSatInv == IInv /\ ExtendSat => IInv'
<1> SUFFICES ASSUME IInv, ExtendSat PROVE IInv'
  OBVIOUS
<1>1. PICK E \in Solver3 : Discard(E) /\ included' = included \cup E
  BY DEF ExtendSat
<1>2. /\ E \in AdmExt /\ E \in SUBSET Args /\ Admissible(att, E)
      /\ attacker \subseteq E /\ a \in E
  BY DEF Solver3, AdmExt
<1>3. /\ candidate' = candidate \ Attacked(att, E) /\ candidate' \in SUBSET Args
      /\ num_candidates' \in 0 .. N /\ num_candidates' = Cardinality(candidate')
      /\ Skeptical(att, "PR") \cap candidate \subseteq candidate'
  BY <1>1, <1>2, Discarded DEF IInv
<1>4. a \notin Attacked(att, E) /\ a \notin Attacked(att, attacker)
  BY <1>2 DEF Attacked, Admissible, ConflictFree
<1>5. Testing'
  BY <1>3, <1>4 DEF ExtendSat, IInv, Testing
<1> QED  BY <1>1, <1>2, <1>3, <1>5 DEF ExtendSat, IInv, TypeOK, CountsCandidates,
            Recorded, NoneDropped, MissesNothing, OnlySkeptical

\* The argument tested is dropped.  If it and all of T were skeptically
\* accepted, a preferred extension above the attacker would answer solver3.
LEMMA DropInv == IInv /\ Drop => IInv'
<1> SUFFICES ASSUME IInv, Drop PROVE IInv'
  OBVIOUS
<1>1. /\ pc = "extend" /\ pc' = "for" /\ att' = att /\ accepted' = accepted
      /\ candidate' = candidate \ {a} /\ Solver3 = {}
      /\ num_candidates' = IF a \in candidate THEN num_candidates - 1 ELSE num_candidates
      /\ a \in Args /\ Admissible(att, attacker)
      /\ candidate \in SUBSET Args /\ num_candidates = Cardinality(candidate)
  BY DEF Drop, IInv, TypeOK, Testing, CountsCandidates
<1>2. num_candidates' = Cardinality(candidate') /\ num_candidates' \in 0 .. N
  <2>1. num_candidates' = Cardinality(candidate')
    BY <1>1, CandidateCount, FS_RemoveElement
  <2> QED  BY <1>1, <2>1, CandidateCount
<1>3. TypeOK' /\ CountsCandidates' /\ Testing' /\ Recorded' /\ MissesNothing'
  BY <1>1, <1>2 DEF Drop, IInv, TypeOK, CountsCandidates, Testing, Recorded, MissesNothing
<1>4. ASSUME OnlySkeptical, a \in Skeptical(att, "PR") PROVE FALSE
  <2>1. PICK P \in SUBSET Args : Preferred(att, P) /\ attacker \subseteq P
    BY <1>1, PreferredAbove
  <2>2. Skeptical(att, "PR") \subseteq P
    BY <2>1, SkepticalType
  <2>3. P \in Solver3
    BY <1>4, <2>1, <2>2, PreferredAdmExt DEF Solver3, OnlySkeptical
  <2> QED  BY <1>1, <2>3
<1>5. NoneDropped'
  BY <1>1, <1>4 DEF IInv, NoneDropped, OnlySkeptical
<1> QED  BY <1>3, <1>5 DEF IInv

\* The invariant holds initially.
LEMMA InvInit == Init => IInv
<1> SUFFICES ASSUME Init PROVE IInv
  OBVIOUS
<1>1. Cardinality(Args) = N
  BY NAssumption, FS_Interval DEF Args
<1>2. TypeOK /\ CountsCandidates
  BY <1>1, NAssumption, FrameworksAssumption DEF Init, TypeOK, CountsCandidates, Nothing
<1>3. Testing /\ Recorded /\ NoneDropped /\ MissesNothing
  BY NothingListed, SkepticalType DEF Init, Testing, Recorded, NoneDropped, MissesNothing
<1> QED  BY <1>2, <1>3 DEF IInv

\* Every step preserves the invariant.
LEMMA InvStep == IInv /\ [Next]_vars => IInv'
<1> SUFFICES ASSUME IInv, [Next]_vars PROVE IInv'
  OBVIOUS
<1>1. CASE ForEnd
  BY <1>1 DEF ForEnd, IInv, TypeOK, CountsCandidates, Testing, Recorded, NoneDropped,
              MissesNothing, OnlySkeptical
<1>2. CASE UNCHANGED vars
  BY <1>2 DEF vars, IInv, TypeOK, CountsCandidates, Testing, Recorded, NoneDropped,
              MissesNothing, OnlySkeptical
<1>3. CASE Ended
  BY <1>2, <1>3 DEF Ended
<1> QED  BY <1>1, <1>2, <1>3, OuterSatInv, OuterEndInv, ForEachInv, AttackSatInv,
            AcceptInv, ExtendSatInv, DropInv DEF Next

-----------------------------------------------------------------------------

\* The inductive invariant holds in every reachable state of fudge.cpp.
THEOREM Invariant == Spec => []IInv
  BY InvInit, InvStep, PTL DEF Spec

\* fudge.cpp keeps its variables in their types; in particular the counter
\* never becomes negative.
THEOREM TypeCorrect == Spec => []TypeOK
<1>1. IInv => TypeOK
  BY DEF IInv
<1> QED  BY <1>1, Invariant, PTL

\* The counter that ends the outer loop is the number of candidates, although
\* one of its five decrements is not guarded.
THEOREM CountsCandidatesAlways == Spec => []CountsCandidates
<1>1. IInv => CountsCandidates
  BY DEF IInv
<1> QED  BY <1>1, Invariant, PTL

\* As long as only skeptically accepted arguments have been accepted, none
\* has been dropped.
THEOREM NoneDroppedAlways == Spec => []NoneDropped
<1>1. IInv => NoneDropped
  BY DEF IInv
<1> QED  BY <1>1, Invariant, PTL

\* An answer of fudge.cpp without a wrong argument is the whole answer.
THEOREM MissesNothingAlways == Spec => []MissesNothing
<1>1. IInv => MissesNothing
  BY DEF IInv
<1> QED  BY <1>1, Invariant, PTL

-----------------------------------------------------------------------------
(***************************************************************************)
(* Where fudge.cpp can go wrong.  The argument tested is in an admissible  *)
(* set together with all of T and what is left of E (Company), and S is a  *)
(* union of admissible sets that contain the argument (Joined).  Let P be  *)
(* a preferred extension without the argument.  It conflicts with the      *)
(* set of Company, being maximal, and so attacks it; when solver2 finds    *)
(* nothing P is therefore part of S.  If S has no conflict it is           *)
(* admissible, so P, being maximal, is S: but S contains the argument.     *)
(***************************************************************************)
Company ==
    pc \in {"for", "attack", "extend"} =>
        \E E \in AdmExt : /\ accepted \cup extension \subseteq E
                          /\ pc \in {"attack", "extend"} => a \in E

Joined ==
    pc \in {"attack", "extend"} =>
        /\ included = {} \/ a \in included
        /\ \A i \in included : Defends(att, included, i)

\* For the measure of Progress: E is used up when the loop over it ends, and
\* an attacker adds to S.
Forward ==
    /\ pc = "admext" => extension = {}
    /\ pc = "extend" => ~ (attacker \subseteq included)

JoinInv == IInv /\ Company /\ Joined /\ Forward

\* The first argument of what is left of E is in it.
LEMMA FirstIn ==
    ASSUME TypeOK, extension # {}
    PROVE  First \in extension
<1> PICK X : X = extension
  OBVIOUS
<1>1. X \subseteq Nat /\ X # {}
  BY NAssumption DEF TypeOK, Args
<1>2. \E i \in X : \A j \in X : i <= j
  <2> DEFINE R == OpToRel(<, Nat)
  <2>1. PICK m \in X : \A y \in X : ~ (<<y, m>> \in R)
    <3> HIDE DEF R
    <3>1. IsWellFoundedOn(R, Nat)
      BY NatLessThanWellFounded DEF R
    <3> QED  BY <1>1, <3>1, WFMin
  <2>2. \A y \in X : ~ (y < m)
    BY <1>1, <2>1 DEF OpToRel
  <2> HIDE DEF R
  <2> QED  BY <1>1, <2>2
<1> QED  BY <1>2 DEF First

\* Two sets that defend what they contain do so together.
LEMMA JoinDefends ==
    ASSUME NEW S, NEW E, \A i \in S : Defends(att, S, i), \A i \in E : Defends(att, E, i)
    PROVE  \A i \in S \cup E : Defends(att, S \cup E, i)
  BY DEF Defends

\* If solver2 finds nothing and S has no conflict, the argument tested is in
\* every preferred extension.
LEMMA AcceptedRightly ==
    ASSUME JoinInv, pc = "attack", Solver2 = {}, ConflictFree(att, included)
    PROVE  a \in Skeptical(att, "PR")
<1>1. /\ a \in Args /\ included \in SUBSET Args
      /\ included = {} \/ a \in included
      /\ \A i \in included : Defends(att, included, i)
  BY DEF JoinInv, IInv, TypeOK, Testing, Joined
<1>2. PICK E \in AdmExt : accepted \cup {a} \subseteq E
  BY DEF JoinInv, Company
<1>3. E \in SUBSET Args /\ Admissible(att, E)
  BY <1>2 DEF AdmExt
<1>4. ASSUME NEW P \in SUBSET Args, Preferred(att, P), a \notin P PROVE FALSE
  <2>1. Admissible(att, P) /\ P \in AdmExt
    BY <1>4, PreferredAdmExt DEF AdmExt
  <2>2. Attacks(att, P, E)
    <3> SUFFICES ASSUME ~ Attacks(att, P, E) PROVE FALSE
      OBVIOUS
    <3>1. ~ Attacks(att, E, P)
      BY <1>3, <2>1 DEF Attacks, Admissible, Defends
    <3>2. ConflictFree(att, P \cup E)
      BY <1>3, <2>1, <3>1 DEF Attacks, Admissible, ConflictFree
    <3>3. Admissible(att, P \cup E)
      BY <1>3, <2>1, <3>2, JoinDefends DEF Admissible
    <3> QED  BY <1>2, <1>3, <1>4, <3>3 DEF Preferred
  <2>3. P \subseteq included
    BY <1>2, <2>1, <2>2 DEF Solver2
  <2>4. Admissible(att, included)
    BY <1>1 DEF Admissible
  <2>5. included = P
    BY <1>1, <1>4, <2>3, <2>4 DEF Preferred
  <2>6. included # {}
    BY <2>2, <2>5 DEF Attacks
  <2> QED  BY <1>1, <1>4, <2>5, <2>6
<1> QED  BY <1>1, <1>4, SkepticalType

\* The invariant holds initially.
LEMMA JoinInit == Init => JoinInv
  BY InvInit DEF Init, JoinInv, Company, Joined, Forward

\* Every step preserves the invariant.
LEMMA JoinStep == JoinInv /\ [Next]_vars => JoinInv'
<1> SUFFICES ASSUME JoinInv, [Next]_vars PROVE JoinInv'
  OBVIOUS
<1>0. IInv'
  BY InvStep DEF JoinInv
<1>1. CASE OuterSat
  <2>1. PICK E \in Solver1 : extension' = E
    BY <1>1 DEF OuterSat
  <2>2. E \in AdmExt' /\ accepted' \cup extension' \subseteq E
    BY <1>1, <2>1 DEF OuterSat, Solver1, AdmExt
  <2>3. pc' = "for"
    BY <1>1 DEF OuterSat
  <2>4. Company'
    BY <2>2, <2>3 DEF Company
  <2> QED  BY <1>0, <2>3, <2>4 DEF JoinInv, Joined, Forward
<1>2. CASE ForEach
  <2>1. /\ pc = "for" /\ First \in extension /\ AdmExt' = AdmExt
        /\ extension' = extension \ {First} /\ accepted' = accepted
        /\ pc' \in {"for", "attack"}
        /\ pc' = "attack" => a' = First /\ included' = {}
    BY <1>2, FirstIn DEF ForEach, JoinInv, IInv, AdmExt
  <2>2. PICK E \in AdmExt : accepted \cup extension \subseteq E
    BY <2>1 DEF JoinInv, Company
  <2>3. Company'
    BY <2>1, <2>2 DEF Company
  <2> QED  BY <1>0, <2>1, <2>3 DEF JoinInv, Joined, Forward
<1>3. CASE AttackSat
  <2>1. PICK E \in Solver2 : attacker' = E
    BY <1>3 DEF AttackSat
  <2>2. /\ pc = "attack" /\ pc' = "extend" /\ AdmExt' = AdmExt /\ att' = att
        /\ extension' = extension /\ accepted' = accepted /\ a' = a
        /\ included' = included
    BY <1>3 DEF AttackSat, AdmExt
  <2>3. Company' /\ Joined'
    BY <2>2 DEF JoinInv, Company, Joined
  <2>4. Forward'
    BY <2>1, <2>2 DEF Forward, Solver2
  <2> QED  BY <1>0, <2>3, <2>4 DEF JoinInv
<1>4. CASE Accept
  <2>1. /\ pc = "attack" /\ pc' = "for" /\ AdmExt' = AdmExt
        /\ extension' = extension /\ accepted' = accepted \cup {a}
    BY <1>4 DEF Accept, AdmExt
  <2>2. Company'
    BY <2>1 DEF JoinInv, Company
  <2> QED  BY <1>0, <2>1, <2>2 DEF JoinInv, Joined, Forward
<1>5. CASE ExtendSat
  <2>1. PICK E \in Solver3 : included' = included \cup E
    BY <1>5 DEF ExtendSat
  <2>2. /\ pc = "extend" /\ pc' = "attack" /\ AdmExt' = AdmExt /\ att' = att
        /\ extension' = extension /\ accepted' = accepted /\ a' = a
    BY <1>5 DEF ExtendSat, AdmExt
  <2>3. Company'
    BY <2>2 DEF JoinInv, Company
  <2>4. a \in E /\ \A i \in E : Defends(att, E, i)
    BY <2>1 DEF Solver3, AdmExt, Admissible
  <2>5. \A i \in included \cup E : Defends(att, included \cup E, i)
    BY <2>2, <2>4, JoinDefends DEF JoinInv, Joined
  <2>6. Joined'
    BY <2>1, <2>2, <2>4, <2>5 DEF Joined
  <2> QED  BY <1>0, <2>2, <2>3, <2>6 DEF JoinInv, Forward
<1>6. CASE Drop
  <2>1. /\ pc = "extend" /\ pc' = "for" /\ AdmExt' = AdmExt
        /\ extension' = extension /\ accepted' = accepted
    BY <1>6 DEF Drop, AdmExt
  <2>2. Company'
    BY <2>1 DEF JoinInv, Company
  <2> QED  BY <1>0, <2>1, <2>2 DEF JoinInv, Joined, Forward
<1>7. CASE OuterEnd \/ ForEnd
  BY <1>0, <1>7 DEF OuterEnd, ForEnd, JoinInv, Company, Joined, Forward
<1>8. CASE UNCHANGED vars
  BY <1>0, <1>8 DEF vars, JoinInv, Company, Joined, Forward, AdmExt
<1>9. CASE Ended
  BY <1>8, <1>9 DEF Ended
<1> QED  BY <1>1, <1>2, <1>3, <1>4, <1>5, <1>6, <1>7, <1>8, <1>9 DEF Next

\* The stronger invariant holds in every reachable state of fudge.cpp.
THEOREM JoinInvariant == Spec => []JoinInv
  BY JoinInit, JoinStep, PTL DEF Spec

\* An argument is only ever accepted wrongly when the extensions joined in S
\* conflict.
THEOREM AcceptsRightlyAlways == Spec => []AcceptsRightly
<1>1. JoinInv => AcceptsRightly
  BY AcceptedRightly DEF AcceptsRightly
<1> QED  BY <1>1, JoinInvariant, PTL

-----------------------------------------------------------------------------
(***************************************************************************)
(* The refinement, as far as it holds.  Unmixed says that the extensions   *)
(* joined in S have no conflict when the argument they were joined for is  *)
(* accepted; a run in which it always holds is right.  It does in every    *)
(* run on a framework with one preferred extension, such as an acyclic     *)
(* one, because S is then part of it.                                      *)
(***************************************************************************)
Unmixed == pc = "attack" /\ Solver2 = {} => ConflictFree(att, included)

OnePreferred == \A P, Q \in SUBSET Args : Preferred(att, P) /\ Preferred(att, Q) => P = Q

\* A step from a state in which Unmixed holds accepts nothing wrong.
LEMMA RightStep ==
    ASSUME JoinInv, OnlySkeptical, Unmixed, [Next]_vars
    PROVE  OnlySkeptical'
<1>1. CASE Accept
  BY <1>1, AcceptedRightly DEF Accept, Unmixed, OnlySkeptical
<1>2. CASE ~ Accept
  BY <1>2 DEF Next, vars, OuterSat, OuterEnd, ForEach, ForEnd, AttackSat, ExtendSat,
              Drop, Ended, OnlySkeptical
<1> QED  BY <1>1, <1>2

\* The goal of the abstract specification is skeptical acceptance under
\* preferred semantics, and its lists are the ones of this module.
LEMMA EnumMeaning ==
    /\ Enum!Goal = Skeptical(att, "PR")
    /\ Enum!Nothing = Nothing
    /\ \A S : Enum!Listing(S) = Listing(S)
    /\ \A r, S : Enum!Push(r, S) = Push(r, S)
    /\ Enum!Args = Args
    /\ Enum!Supported
<1>1. Enum!Goal = Skeptical(att, "PR")
  BY DEF Enum!Goal, Enum!Acceptable, Enum!Skeptical, Enum!Extensions, Enum!IsExtension,
         Enum!Complete, Enum!Preferred, Enum!Stable, Enum!Admissible,
         Enum!ConflictFree, Enum!Defends, Enum!Args, Skeptical, Extensions,
         IsExtension, Complete, Preferred, Stable, Admissible, ConflictFree,
         Defends, Args
<1>2. /\ Enum!Nothing = Nothing
      /\ \A S : Enum!Listing(S) = Listing(S)
      /\ \A r, S : Enum!Push(r, S) = Push(r, S)
      /\ Enum!Args = Args
  BY DEF Enum!Nothing, Enum!Listing, Enum!Push, Enum!Args, Nothing, Listing, Push, Args
<1>3. Enum!Supported
  BY DEF Enum!Supported
<1> QED  BY <1>1, <1>2, <1>3

\* fudge.cpp starts where Enumeration does.
LEMMA EnumInit == Init => Enum!Init
<1> SUFFICES ASSUME Init PROVE Enum!Init
  OBVIOUS
<1>1. Enum!Relations = Relations /\ "ES" \in Enum!Tasks /\ "PR" \in Enum!Semantics
  BY DEF Enum!Relations, Enum!Tasks, Enum!Semantics, Enum!Args, Relations, Args
<1> QED  BY <1>1, EnumMeaning, FrameworksAssumption DEF Init, Enum!Init, Over

\* As long as nothing wrong has been accepted, a step is a step of
\* Enumeration or changes nothing there.
LEMMA EnumStep ==
    ASSUME JoinInv, OnlySkeptical, Unmixed, [Next]_vars
    PROVE  [Enum!Next]_Enum!vars
<1>1. CASE Accept
  <2>1. /\ pc = "attack" /\ pc' = "for" /\ att' = att
        /\ result' = Push(result, {a}) /\ a \in Args
        /\ result = Listing(accepted) /\ a \notin accepted
    BY <1>1 DEF Accept, JoinInv, IInv, TypeOK, Testing, Recorded
  <2>2. a \in Skeptical(att, "PR")
    BY <1>1, AcceptedRightly DEF Accept, Unmixed
  <2>3. result[a] = 0
    BY <2>1 DEF Listing
  <2>4. Enum!List({a})
    BY <2>1, <2>2, <2>3, EnumMeaning DEF Enum!List, Over
  <2> QED  BY <2>1, <2>4, EnumMeaning DEF Enum!Next
<1>2. CASE OuterEnd
  <2>1. pc = "admext" /\ pc' = "done" /\ att' = att /\ result' = result /\ accepted' = accepted
    BY <1>2 DEF OuterEnd
  <2>2. OnlySkeptical'
    BY <2>1 DEF OnlySkeptical
  <2>3. MissesNothing'
    BY InvStep DEF JoinInv, IInv
  <2>4. result' = Listing(Skeptical(att, "PR"))
    BY <2>1, <2>2, <2>3 DEF MissesNothing
  <2>5. Enum!Finish
    BY <2>1, <2>4, EnumMeaning DEF Enum!Finish, Over
  <2> QED  BY <2>5 DEF Enum!Next
<1>3. CASE ~ Accept /\ ~ OuterEnd
  BY <1>3 DEF Next, vars, OuterSat, ForEach, ForEnd, AttackSat, ExtendSat, Drop,
              Ended, Over, Enum!vars
<1> QED  BY <1>1, <1>2, <1>3

\* fudge.cpp lists exactly the skeptically accepted arguments, each once, in
\* every run in which the extensions joined for an argument it accepts do not
\* conflict.
THEOREM RefinementUnlessMixed == Spec /\ []Unmixed => Implements
<1>1. Init => OnlySkeptical
  BY DEF Init, OnlySkeptical
<1>2. JoinInv /\ OnlySkeptical /\ Unmixed /\ [Next]_vars => OnlySkeptical'
  BY RightStep
<1>3. JoinInv /\ OnlySkeptical /\ Unmixed /\ [Next]_vars => [Enum!Next]_Enum!vars
  BY EnumStep
<1>4. Spec /\ []Unmixed => Enum!Init /\ [][Enum!Next]_Enum!vars
  BY <1>1, <1>2, <1>3, EnumInit, JoinInvariant, PTL DEF Spec
<1> QED  BY <1>4 DEF Implements, Enum!Spec

\* With one preferred extension S stays within it.
Within == OnePreferred /\ \A P \in SUBSET Args : Preferred(att, P) => included \subseteq P

\* A step leaves S within the preferred extension.
LEMMA WithinStep ==
    ASSUME Within, [Next]_vars
    PROVE  Within'
<1>0. att' = att
  BY DEF Next, vars, OuterSat, OuterEnd, ForEach, ForEnd, AttackSat, Accept, ExtendSat,
         Drop, Ended
<1>1. CASE included' \in {included, {}}
  BY <1>0, <1>1 DEF Within, OnePreferred
<1>2. CASE ExtendSat
  <2>1. PICK E \in AdmExt : included' = included \cup E
    BY <1>2 DEF ExtendSat, Solver3
  <2>2. ASSUME NEW P \in SUBSET Args, Preferred(att, P) PROVE E \subseteq P
    <3>1. PICK Q \in SUBSET Args : Preferred(att, Q) /\ E \subseteq Q
      BY <2>1, PreferredAbove DEF AdmExt
    <3> QED  BY <2>2, <3>1 DEF Within, OnePreferred
  <2> QED  BY <1>0, <2>1, <2>2 DEF Within, OnePreferred
<1>3. CASE ~ ExtendSat
  <2>1. included' \in {included, {}}
    BY <1>3 DEF Next, vars, OuterSat, OuterEnd, ForEach, ForEnd, AttackSat, Accept,
                Drop, Ended
  <2> QED  BY <1>1, <2>1
<1> QED  BY <1>2, <1>3

\* On a framework with a single preferred extension fudge.cpp lists exactly
\* the skeptically accepted arguments, each once.
THEOREM RefinementOnePreferred == Spec /\ OnePreferred => Implements
<1>1. Init /\ OnePreferred => Within
  BY DEF Init, Within
<1>2. Within => Unmixed
  <2> SUFFICES ASSUME Within PROVE Unmixed
    OBVIOUS
  <2>1. Admissible(att, {})
    BY DEF Admissible, ConflictFree
  <2>2. PICK P \in SUBSET Args : Preferred(att, P)
    BY <2>1, PreferredAbove
  <2> QED  BY <2>2 DEF Within, Unmixed, Preferred, Admissible, ConflictFree
<1>3. Within /\ [Next]_vars => Within'
  BY WithinStep
<1>4. Spec /\ OnePreferred => []Unmixed
  BY <1>1, <1>2, <1>3, PTL DEF Spec
<1> QED  BY <1>4, RefinementUnlessMixed, PTL

-----------------------------------------------------------------------------
(***************************************************************************)
(* Progress: the measure is lexicographic, and each action lowers one of   *)
(* its three parts without raising an earlier one.                         *)
(***************************************************************************)

\* A step that lets no candidate outside E come back leaves no more pending.
LEMMA PendingStep ==
    ASSUME TypeOK, TypeOK',
           candidate' \ (extension' \cup Tested') \subseteq candidate \ (extension \cup Tested)
    PROVE  Pending' < Pending \/ Pending' = Pending
<1> PICK C, D : /\ C = candidate' \ (extension' \cup Tested')
                /\ D = candidate \ (extension \cup Tested)
  OBVIOUS
<1>1. C \in SUBSET Args /\ D \in SUBSET Args /\ C \subseteq D
  BY DEF TypeOK
<1>2. Pending' = Cardinality(C) /\ Pending = Cardinality(D)
  BY DEF Pending
<1> QED  BY <1>1, <1>2, Fewer

\* Every step leaves less to do.
LEMMA ProgressStep ==
    ASSUME JoinInv, Next
    PROVE  \/ UNCHANGED vars
           \/ Pending' < Pending
           \/ Pending' = Pending /\ Cardinality(extension') < Cardinality(extension)
           \/ Pending' = Pending /\ extension' = extension /\ Inner' < Inner
<1>0. TypeOK /\ TypeOK'
  BY InvStep DEF JoinInv, IInv
<1>1. CASE OuterSat
  <2>1. PICK E \in Solver1 : Discard(E) /\ extension' = E
    BY <1>1 DEF OuterSat
  <2>2. /\ pc = "admext" /\ pc' = "for" /\ extension = {} /\ Tested = {} /\ Tested' = {}
    BY <1>1 DEF OuterSat, JoinInv, Forward, Tested
  <2>3. E \in AdmExt /\ E \cap candidate # {}
    BY DEF Solver1
  <2>4. candidate' = candidate \ Attacked(att, E)
    BY <2>1 DEF Discard
  <2> PICK C, D : C = candidate' \ E /\ D = candidate
    OBVIOUS
  <2>5. C \in SUBSET Args /\ D \in SUBSET Args /\ C \subseteq D /\ C # D
    BY <1>0, <2>3, <2>4 DEF TypeOK
  <2>6. Cardinality(C) < Cardinality(D)
    BY <2>5, Fewer
  <2>7. Pending' = Cardinality(C) /\ Pending = Cardinality(D)
    BY <2>1, <2>2 DEF Pending
  <2> QED  BY <2>6, <2>7
<1>2. CASE ForEach
  <2>1. /\ pc = "for" /\ First \in extension /\ extension' = extension \ {First}
        /\ candidate' = candidate
        /\ \/ First \in candidate /\ a' = First /\ pc' = "attack"
           \/ First \notin candidate /\ pc' = "for"
    BY <1>0, <1>2, FirstIn DEF ForEach
  <2>2. candidate' \ (extension' \cup Tested') = candidate \ (extension \cup Tested)
    BY <2>1 DEF Tested
  <2>3. Pending' = Pending
    BY <2>2 DEF Pending
  <2> PICK C, D : C = extension' /\ D = extension
    OBVIOUS
  <2>4. C \in SUBSET Args /\ D \in SUBSET Args /\ C \subseteq D /\ C # D
    BY <1>0, <2>1 DEF TypeOK
  <2>5. Cardinality(C) < Cardinality(D)
    BY <2>4, Fewer
  <2> QED  BY <2>3, <2>5
<1>3. CASE ForEnd \/ OuterEnd
  <2>1. /\ extension' = extension /\ candidate' = candidate
        /\ \/ pc = "for" /\ pc' = "admext"
           \/ pc = "admext" /\ pc' = "done"
    BY <1>3 DEF ForEnd, OuterEnd
  <2>2. Pending' = Pending
    BY <2>1 DEF Pending, Tested
  <2>3. Inner' < Inner
    BY <2>1 DEF Inner
  <2> QED  BY <2>1, <2>2, <2>3
<1>4. \A S \in SUBSET Args : Cardinality(Args \ S) \in Nat
  BY CandidateCount
<1>5. CASE AttackSat
  <2>1. PICK E : Discard(E)
    BY <1>5 DEF AttackSat
  <2>2. /\ pc = "attack" /\ pc' = "extend" /\ extension' = extension /\ a' = a
        /\ included' = included /\ candidate' \subseteq candidate
    BY <1>5, <2>1 DEF AttackSat, Discard
  <2>3. Pending' < Pending \/ Pending' = Pending
    BY <1>0, <2>2, PendingStep DEF Tested
  <2>4. Inner' < Inner
    <3> PICK r : r = Cardinality(Args \ included)
      OBVIOUS
    <3>1. r \in Nat
      BY <1>0, <1>4 DEF TypeOK
    <3>2. Inner = 4 + 2 * r /\ Inner' = 3 + 2 * r
      BY <2>2 DEF Inner
    <3> QED  BY <3>1, <3>2
  <2> QED  BY <2>2, <2>3, <2>4
<1>6. CASE ExtendSat
  <2>1. PICK E \in Solver3 : Discard(E) /\ included' = included \cup E
    BY <1>6 DEF ExtendSat
  <2>2. /\ pc = "extend" /\ pc' = "attack" /\ extension' = extension /\ a' = a
        /\ candidate' \subseteq candidate
    BY <1>6, <2>1 DEF ExtendSat, Discard
  <2>3. Pending' < Pending \/ Pending' = Pending
    BY <1>0, <2>2, PendingStep DEF Tested
  <2>4. attacker \subseteq E /\ ~ (attacker \subseteq included)
    BY <2>1, <2>2 DEF Solver3, JoinInv, Forward
  <2>5. Inner' < Inner
    <3> PICK C, D : C = Args \ included' /\ D = Args \ included
      OBVIOUS
    <3>1. C \in SUBSET Args /\ D \in SUBSET Args /\ C \subseteq D /\ C # D
      BY <1>0, <2>1, <2>4 DEF TypeOK
    <3> PICK r, q : r = Cardinality(C) /\ q = Cardinality(D)
      OBVIOUS
    <3>2. r \in Nat /\ q \in Nat /\ r < q
      BY <3>1, Fewer
    <3>3. Inner = 3 + 2 * q /\ Inner' = 4 + 2 * r
      BY <2>2 DEF Inner
    <3> QED  BY <3>2, <3>3
  <2> QED  BY <2>2, <2>3, <2>5
<1>7. CASE Accept \/ Drop
  <2>1. /\ pc \in {"attack", "extend"} /\ pc' = "for" /\ extension' = extension
        /\ candidate' = candidate \ {a}
    BY <1>7 DEF Accept, Drop
  <2>2. candidate' \ (extension' \cup Tested') = candidate \ (extension \cup Tested)
    BY <2>1 DEF Tested
  <2>3. Pending' = Pending
    BY <2>2 DEF Pending
  <2>4. Inner' < Inner
    <3> PICK r : r = Cardinality(Args \ included)
      OBVIOUS
    <3>1. r \in Nat
      BY <1>0, <1>4 DEF TypeOK
    <3>2. Inner \in {4 + 2 * r, 3 + 2 * r} /\ Inner' = 2
      BY <2>1 DEF Inner
    <3> QED  BY <3>1, <3>2
  <2> QED  BY <2>1, <2>3, <2>4
<1>8. CASE Ended
  BY <1>8 DEF Ended
<1> QED  BY <1>1, <1>2, <1>3, <1>5, <1>6, <1>7, <1>8 DEF Next

\* Every call to a solver and every turn of a loop of fudge.cpp leaves less
\* to do.
THEOREM ProgressAlways == Spec => Progress
<1>1. JoinInv /\ [Next]_vars =>
        [ \/ Pending' < Pending
          \/ Pending' = Pending /\ Cardinality(extension') < Cardinality(extension)
          \/ Pending' = Pending /\ extension' = extension /\ Inner' < Inner ]_vars
  BY ProgressStep
<1> QED  BY <1>1, JoinInvariant, PTL DEF Spec, Progress
=============================================================================
