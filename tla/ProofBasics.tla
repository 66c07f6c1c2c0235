------------------------------- MODULE ProofBasics -------------------------------
(***************************************************************************)
(* Lemmas about data the proofs of several components rest on: the least   *)
(* and the greatest of a set of numbers, from which a claim is proved for  *)
(* all numbers, sequences of anything, and the sum of a finite set as      *)
(* MapThenSumSet defines it.                                               *)
(***************************************************************************)
EXTENDS Integers, Sequences, FiniteSets, FiniteSetsExt, FiniteSetTheorems, WellFoundedInduction, TLAPS

NatLess == {p \in Nat \X Nat : p[1] < p[2]}

LEMMA LeastNatural ==
  ASSUME NEW T, T \subseteq Nat, T # {}
  PROVE  \E x \in T : \A y \in T : x <= y
  <1>1. NatLess = OpToRel(<, Nat)
    BY DEF NatLess, OpToRel
  <1>2. IsWellFoundedOn(NatLess, Nat)
    BY <1>1, NatLessThanWellFounded, Zenon
  <1>3. PICK x \in T : \A y \in T : ~(<<y, x>> \in NatLess)
    BY <1>2, WFMin
  <1>4. \A y \in T : ~(y < x)
    BY <1>3 DEF NatLess
  <1> QED
    BY <1>4

LEMMA GreatestNatural ==
  ASSUME NEW b \in Nat, NEW T, T \subseteq 0 .. b, T # {}
  PROVE  \E x \in T : \A y \in T : x >= y
  <1> DEFINE U == {n \in Nat : \A y \in T : n >= y}
  <1>1. b \in U /\ U \subseteq Nat
    OBVIOUS
  <1>2. PICK x \in U : \A n \in U : x <= n
    BY <1>1, LeastNatural
  <1>3. ASSUME x \notin T PROVE FALSE
    <2>1. \A y \in T : y \in Nat /\ x > y
      BY <1>3, <1>2
    <2>2. PICK y \in T : TRUE
      OBVIOUS
    <2>3. x - 1 \in U
      BY <2>1, <2>2, <1>2
    <2> QED
      BY <2>3, <1>2
  <1> QED
    BY <1>2, <1>3

----------------------------------------------------------------------------
(* Sequences of anything. *)

IsSeq(s) == \E S : s \in Seq(S)

LEMMA SeqBasics ==
    ASSUME NEW s, IsSeq(s)
    PROVE  /\ Len(s) \in Nat /\ DOMAIN s = 1 .. Len(s)
           /\ s = [i \in 1 .. Len(s) |-> s[i]]
  BY DEF IsSeq

LEMMA AppendBasics ==
    ASSUME NEW s, IsSeq(s), NEW e
    PROVE  /\ IsSeq(Append(s, e)) /\ Len(Append(s, e)) = Len(s) + 1
           /\ \A i \in 1 .. Len(s) : Append(s, e)[i] = s[i]
           /\ Append(s, e)[Len(s) + 1] = e
  <1>1. PICK S : s \in Seq(S)
    BY DEF IsSeq
  <1>2. PICK T : T = S \cup {e}
    OBVIOUS
  <1>3. s \in Seq(T) /\ e \in T
    BY <1>1, <1>2
  <1>4. Append(s, e) \in Seq(T)
    BY <1>3
  <1> QED
    BY <1>3, <1>4 DEF IsSeq

LEMMA ExceptBasics ==
    ASSUME NEW s, IsSeq(s), NEW i \in DOMAIN s, NEW e
    PROVE  /\ IsSeq([s EXCEPT ![i] = e]) /\ Len([s EXCEPT ![i] = e]) = Len(s)
           /\ \A k \in DOMAIN s : [s EXCEPT ![i] = e][k] = IF k = i THEN e ELSE s[k]
  <1>1. PICK S : s \in Seq(S)
    BY DEF IsSeq
  <1>2. PICK T : T = S \cup {e}
    OBVIOUS
  <1>3. s \in Seq(T) /\ e \in T
    BY <1>1, <1>2
  <1>4. PICK t : t = [s EXCEPT ![i] = e]
    OBVIOUS
  <1>5. /\ DOMAIN t = 1 .. Len(s) /\ Len(s) \in Nat
        /\ \A k \in 1 .. Len(s) : t[k] = IF k = i THEN e ELSE s[k]
    BY <1>3, <1>4
  <1>6. t \in [1 .. Len(s) -> T]
    BY <1>3, <1>4, <1>5
  <1>7. t \in Seq(T)
    BY <1>5, <1>6
  <1>8. Len(t) = Len(s)
    BY <1>5, <1>7
  <1> QED
    BY <1>3, <1>4, <1>5, <1>7, <1>8 DEF IsSeq

----------------------------------------------------------------------------
(* Sums *)

\* A finite set without the least of its subsets that lack a property has it.
LEMMA LeastSubset ==
    ASSUME NEW S, IsFiniteSet(S), NEW bad, bad \subseteq SUBSET S, bad # {}
    PROVE  \E s \in bad : \A t \in bad : t \subseteq s => t = s
  <1>1. IsWellFoundedOn(StrictSubsetOrdering(S), SUBSET S)
    BY FS_StrictSubsetOrderingWellFounded, FS_FiniteSubsetsOfFinite
  <1>2. PICK s \in bad : \A t \in bad : ~(<<t, s>> \in StrictSubsetOrdering(S))
    BY <1>1, WFMin
  <1> QED
    BY <1>2 DEF StrictSubsetOrdering

Chosen(s) == CHOOSE x \in s : TRUE

LEMMA ChosenIn == \A s : s # {} => Chosen(s) \in s
  BY DEF Chosen

\* g is the table MapThenFoldSet builds over the subsets of S, for the terms F.
Sums(F, S, g) ==
    g = [s \in SUBSET S |-> IF s = {} THEN 0 ELSE F[Chosen(s)] + g[s \ {Chosen(s)}]]

SumOver(F, S) == (CHOOSE g : Sums(F, S, g))[S]

LEMMA SumsAgree ==
    ASSUME NEW F, NEW S, NEW T, IsFiniteSet(S), NEW g, NEW h, Sums(F, S, g), Sums(F, T, h)
    PROVE  \A s \in SUBSET S : s \in SUBSET T => g[s] = h[s]
  <1>0. PICK bad : bad = {s \in SUBSET S : s \in SUBSET T /\ g[s] # h[s]}
    OBVIOUS
  <1> SUFFICES ASSUME bad # {} PROVE FALSE
    BY <1>0
  <1>1. bad \subseteq SUBSET S
    BY <1>0
  <1>2. PICK s \in bad : \A t \in bad : t \subseteq s => t = s
    BY <1>1, LeastSubset
  <1>3. s \in SUBSET S /\ s \in SUBSET T /\ g[s] # h[s]
    BY <1>0, <1>2
  <1>4. PICK c : c = Chosen(s)
    OBVIOUS
  <1>5. g[s] = IF s = {} THEN 0 ELSE F[c] + g[s \ {c}]
    BY <1>3, <1>4 DEF Sums
  <1>6. h[s] = IF s = {} THEN 0 ELSE F[c] + h[s \ {c}]
    BY <1>3, <1>4 DEF Sums
  <1>7. s # {} /\ c \in s
    BY <1>3, <1>4, <1>5, <1>6, ChosenIn
  <1>8. s \ {c} \notin bad
    BY <1>2, <1>7
  <1>9. g[s \ {c}] = h[s \ {c}]
    BY <1>0, <1>3, <1>8
  <1> QED
    BY <1>3, <1>5, <1>6, <1>9

LEMMA SumsExist ==
    ASSUME NEW F, NEW S, IsFiniteSet(S)
    PROVE  \E g : Sums(F, S, g)
  <1>0. PICK bad : bad = {s \in SUBSET S : ~\E g : Sums(F, s, g)}
    OBVIOUS
  <1> SUFFICES ASSUME bad # {} PROVE FALSE
    BY <1>0
  <1>1. bad \subseteq SUBSET S
    BY <1>0
  <1>2. PICK s \in bad : \A t \in bad : t \subseteq s => t = s
    BY <1>1, LeastSubset
  <1>3. s \in SUBSET S /\ ~\E g : Sums(F, s, g)
    BY <1>0, <1>2
  <1>4. \A t \in SUBSET s : t # s => \E g : Sums(F, t, g)
    BY <1>0, <1>2, <1>3
  <1> DEFINE table(t) == CHOOSE g : Sums(F, t, g)
             value(t) == IF t = {} THEN 0
                         ELSE F[Chosen(t)] + table(t \ {Chosen(t)})[t \ {Chosen(t)}]
  <1>5. \A t \in SUBSET s : t # s => Sums(F, t, table(t))
    BY <1>4
  <1>6. PICK g : g = [t \in SUBSET s |-> value(t)]
    OBVIOUS
  <1>7. ASSUME NEW t \in SUBSET s, t # s
        PROVE  g[t] = table(t)[t]
    <2>1. g[t] = value(t)
      BY <1>6
    <2>2. PICK c : c = Chosen(t)
      OBVIOUS
    <2>3. table(t)[t] = IF t = {} THEN 0 ELSE F[c] + table(t)[t \ {c}]
      <3>1. PICK h : h = table(t)
        OBVIOUS
      <3>2. Sums(F, t, h)
        BY <1>5, <1>7, <3>1
      <3>3. h[t] = IF t = {} THEN 0 ELSE F[c] + h[t \ {c}]
        BY <2>2, <3>2 DEF Sums
      <3> QED
        BY <3>1, <3>3
    <2>4. ASSUME t # {}
          PROVE  table(t)[t \ {c}] = table(t \ {c})[t \ {c}]
      <3>1. c \in t /\ t \ {c} \in SUBSET s /\ t \ {c} # s
        BY <1>7, <2>2, <2>4, ChosenIn
      <3>2. Sums(F, t \ {c}, table(t \ {c})) /\ Sums(F, t, table(t))
        BY <1>5, <1>7, <3>1
      <3>3. IsFiniteSet(t)
        BY <1>3, FS_Subset
      <3>4. PICK d : d = t \ {c}
        OBVIOUS
      <3>5. d \in SUBSET d /\ d \in SUBSET t
        BY <3>4
      <3> HIDE DEF table
      <3> QED
        BY <3>2, <3>3, <3>4, <3>5, SumsAgree
    <2> QED
      BY <2>1, <2>2, <2>3, <2>4
  <1>8. ASSUME NEW t \in SUBSET s
        PROVE  g[t] = IF t = {} THEN 0 ELSE F[Chosen(t)] + g[t \ {Chosen(t)}]
    <2>1. g[t] = value(t)
      BY <1>6
    <2>2. PICK c : c = Chosen(t)
      OBVIOUS
    <2>3. ASSUME t # {}
          PROVE  g[t \ {c}] = table(t \ {c})[t \ {c}]
      <3>1. c \in t /\ t \ {c} \in SUBSET s /\ t \ {c} # s
        BY <2>2, <2>3, ChosenIn
      <3> HIDE DEF table
      <3> QED
        BY <1>7, <3>1
    <2> QED
      BY <2>1, <2>2, <2>3
  <1>9. g = [t \in SUBSET s |-> IF t = {} THEN 0 ELSE F[Chosen(t)] + g[t \ {Chosen(t)}]]
    <2>1. g = [t \in SUBSET s |-> g[t]]
      BY <1>6
    <2> QED
      BY <1>8, <2>1
  <1> QED
    BY <1>3, <1>9 DEF Sums

\* A sum is that of its parts, whichever element is taken first.
LEMMA SumUnfolds ==
    ASSUME NEW F, NEW S, IsFiniteSet(S)
    PROVE  SumOver(F, S) = IF S = {} THEN 0
                           ELSE F[Chosen(S)] + SumOver(F, S \ {Chosen(S)})
  <1>1. PICK g : g = CHOOSE h : Sums(F, S, h)
    OBVIOUS
  <1>2. Sums(F, S, g)
    BY <1>1, SumsExist
  <1>3. PICK c : c = Chosen(S)
    OBVIOUS
  <1>4. PICK k : k = CHOOSE h : Sums(F, S \ {c}, h)
    OBVIOUS
  <1>5. IsFiniteSet(S \ {c})
    BY FS_Subset
  <1>6. Sums(F, S \ {c}, k)
    BY <1>4, <1>5, SumsExist
  <1>7. g[S \ {c}] = k[S \ {c}]
    <2>1. PICK d : d = S \ {c}
      OBVIOUS
    <2>2. d \in SUBSET S /\ d \in SUBSET d /\ Sums(F, d, k)
      BY <1>6, <2>1
    <2> QED
      BY <1>2, <2>1, <2>2, SumsAgree
  <1>8. g[S] = IF S = {} THEN 0 ELSE F[c] + g[S \ {c}]
    BY <1>2, <1>3 DEF Sums
  <1> QED
    BY <1>1, <1>3, <1>4, <1>7, <1>8 DEF SumOver

LEMMA SumIsNat ==
    ASSUME NEW F, NEW S, IsFiniteSet(S), \A x \in S : F[x] \in Nat
    PROVE  SumOver(F, S) \in Nat
  <1>0. PICK bad : bad = {s \in SUBSET S : SumOver(F, s) \notin Nat}
    OBVIOUS
  <1> SUFFICES ASSUME bad # {} PROVE FALSE
    BY <1>0
  <1>1. bad \subseteq SUBSET S
    BY <1>0
  <1>2. PICK s \in bad : \A t \in bad : t \subseteq s => t = s
    BY <1>1, LeastSubset
  <1>3. s \in SUBSET S /\ SumOver(F, s) \notin Nat /\ IsFiniteSet(s)
    BY <1>0, <1>2, FS_Subset
  <1>4. PICK c : c = Chosen(s)
    OBVIOUS
  <1>5. SumOver(F, s) = IF s = {} THEN 0 ELSE F[c] + SumOver(F, s \ {c})
    BY <1>3, <1>4, SumUnfolds
  <1>6. s # {}
    BY <1>3, <1>5
  <1>7. c \in s /\ s \ {c} \in SUBSET S /\ s \ {c} # s
    BY <1>3, <1>4, <1>6, ChosenIn
  <1>8. SumOver(F, s \ {c}) \in Nat
    BY <1>0, <1>2, <1>7
  <1>9. F[c] \in Nat
    BY <1>3, <1>7
  <1> QED
    BY <1>3, <1>5, <1>6, <1>8, <1>9

LEMMA SumOfTwo ==
    ASSUME NEW F, NEW a, NEW b, a # b, F[a] \in Nat, F[b] \in Nat
    PROVE  SumOver(F, {a, b}) = F[a] + F[b]
  <1>1. SumOver(F, {}) = 0
    BY SumUnfolds, FS_EmptySet
  <1>2. ASSUME NEW x PROVE SumOver(F, {x}) = F[x] + 0
    <2>1. IsFiniteSet({x}) /\ {x} # {} /\ Chosen({x}) = x
      BY ChosenIn, FS_Singleton
    <2>2. PICK d : d = {x}
      OBVIOUS
    <2>3. SumOver(F, d) = F[x] + SumOver(F, d \ {x})
      BY <2>1, <2>2, SumUnfolds
    <2>4. d \ {x} = {}
      BY <2>2
    <2> QED
      BY <1>1, <2>2, <2>3, <2>4
  <1>3. SumOver(F, {a}) = F[a] /\ SumOver(F, {b}) = F[b]
    <2>1. SumOver(F, {a}) = F[a] + 0
      BY <1>2
    <2>2. SumOver(F, {b}) = F[b] + 0
      BY <1>2
    <2> QED
      BY <2>1, <2>2
  <1>4. PICK c : c = Chosen({a, b})
    OBVIOUS
  <1>5. c \in {a, b}
    BY <1>4, ChosenIn
  <1>6. IsFiniteSet({a, b})
    <2>1. IsFiniteSet({a}) /\ {a, b} = {a} \cup {b}
      BY FS_Singleton
    <2> QED
      BY <2>1, FS_AddElement
  <1>7. SumOver(F, {a, b}) = F[c] + SumOver(F, {a, b} \ {c})
    BY <1>4, <1>6, SumUnfolds
  <1>8. CASE c = a
    <2>1. {a, b} \ {c} = {b}
      BY <1>8
    <2> QED
      BY <1>3, <1>7, <1>8, <2>1
  <1>9. CASE c = b
    <2>1. {a, b} \ {c} = {a}
      BY <1>9
    <2>2. SumOver(F, {a, b}) = F[b] + F[a]
      BY <1>3, <1>7, <1>9, <2>1
    <2> QED
      BY <2>2
  <1> QED
    BY <1>5, <1>8, <1>9

LEMMA MaxOfTwo ==
    ASSUME NEW a \in Int, NEW b \in Int
    PROVE  Max({a, b}) \in {a, b} /\ Max({a, b}) >= a /\ Max({a, b}) >= b
  BY DEF Max
=============================================================================
