---------------------------- MODULE PricesProofs ----------------------------
(***************************************************************************)
(* For every set of lists and of runs: a figure is the bill of the run's   *)
(* events and its breakdowns add up to it, a run has one figure under one  *)
(* label, a newer list does not reach back, and a list that was published  *)
(* has exactly one tier for a prompt.                                      *)
(*                                                                         *)
(* A label names one figure because it names one list, and because what a  *)
(* stream has given so far is a function of the set of its events: the     *)
(* order they came in, and how often, leaves no trace.  The figure is the  *)
(* bill because a sum over a finite set is the same whichever element is   *)
(* taken out of it first, and each request adds what it is billed.         *)
(***************************************************************************)
EXTENDS Prices, FiniteSetTheorems, WellFoundedInduction, TLAPS

-----------------------------------------------------------------------------
(* The least of some numbers.                                              *)

Less == {p \in Nat \X Nat : p[1] < p[2]}

LEMMA Smallest ==
  ASSUME NEW T \in SUBSET Nat, T # {}
  PROVE  \E x \in T : \A y \in T : x <= y
<1>1. OpToRel(<, Nat) = Less
  BY DEF OpToRel, Less
<1>2. IsWellFoundedOn(Less, Nat)
  BY NatLessThanWellFounded, <1>1
<1>3. PICK x \in T : \A y \in T : <<y, x>> \notin Less
  BY <1>2, WFMin, Zenon
<1>4. ASSUME NEW y \in T, ~(x <= y) PROVE FALSE
  <2>1. <<y, x>> \in Nat \X Nat /\ y < x
    BY <1>4
  <2>2. <<y, x>> \in Less
    BY <2>1 DEF Less
  <2> QED
    BY <1>3, <2>2
<1> QED
  BY <1>4

-----------------------------------------------------------------------------
(* Folds over finite sets.                                                 *)

(* Of finite sets, one has none of the others below it.                    *)
LEMMA MinimalSet ==
  ASSUME NEW S, IsFiniteSet(S), NEW bad, bad \subseteq SUBSET S, bad # {}
  PROVE  \E s \in bad : \A t \in bad : t \subseteq s => t = s
<1> DEFINE sizes == {Cardinality(s) : s \in bad}
<1>1. \A s \in bad : IsFiniteSet(s) /\ Cardinality(s) \in Nat
  BY FS_Subset, FS_CardinalityType
<1>2. sizes \in SUBSET Nat /\ sizes # {}
  BY <1>1
<1>3. PICK x \in sizes : \A y \in sizes : x <= y
  <2> HIDE DEF sizes
  <2> QED
    BY <1>2, Smallest
<1>4. PICK s \in bad : x = Cardinality(s)
  BY <1>3
<1>5. ASSUME NEW t \in bad, t \subseteq s, t # s PROVE FALSE
  <2>1. Cardinality(t) < Cardinality(s) /\ Cardinality(t) \in Nat /\ Cardinality(s) \in Nat
    BY <1>1, <1>5, FS_Subset
  <2>2. Cardinality(t) \in sizes
    OBVIOUS
  <2> QED
    BY <1>3, <1>4, <2>1, <2>2
<1> QED
  BY <1>5

Pick(s) == CHOOSE x \in s : TRUE
Rest(s) == s \ {Pick(s)}

LEMMA PickIs ==
  ASSUME NEW S, NEW s \in SUBSET S, s # {}
  PROVE  Pick(s) \in s /\ Pick(s) \in S /\ Rest(s) \in SUBSET S /\ Rest(s) # s
         /\ Rest(s) \subseteq s
BY DEF Pick, Rest

Folded(J, start, op, S) ==
  J = [s \in SUBSET S |-> IF s = {} THEN start ELSE op[<<Pick(s), J[Rest(s)]>>]]

LEMMA FoldIs ==
  ASSUME NEW S, IsFiniteSet(S), NEW V, NEW start \in V, NEW op \in [S \X V -> V],
         NEW J, Folded(J, start, op, S)
  PROVE  J \in [SUBSET S -> V]
<1>1. \A s \in SUBSET S : J[s] = IF s = {} THEN start ELSE op[<<Pick(s), J[Rest(s)]>>]
  BY DEF Folded
<1>2. J = [s \in SUBSET S |-> J[s]]
  BY DEF Folded
<1> DEFINE bad == {s \in SUBSET S : J[s] \notin V}
<1>3. ASSUME bad # {} PROVE FALSE
  <2>1. PICK s \in bad : \A t \in bad : t \subseteq s => t = s
    <3>1. bad \subseteq SUBSET S
      OBVIOUS
    <3> HIDE DEF bad
    <3> QED
      BY <1>3, <3>1, MinimalSet
  <2>2. s \in SUBSET S /\ J[s] \notin V /\ s # {}
    BY <1>1
  <2>3. Pick(s) \in S /\ Rest(s) \in SUBSET S /\ Rest(s) \notin bad
    <3>1. Pick(s) \in S /\ Rest(s) \in SUBSET S /\ Rest(s) # s /\ Rest(s) \subseteq s
      BY <2>2, PickIs
    <3> HIDE DEF bad
    <3> QED
      BY <2>1, <3>1
  <2>4. J[Rest(s)] \in V /\ J[s] = op[<<Pick(s), J[Rest(s)]>>]
    BY <1>1, <2>2, <2>3
  <2> QED
    BY <2>2, <2>3, <2>4
<1>4. \A s \in SUBSET S : J[s] \in V
  BY <1>3
<1> HIDE DEF bad
<1> QED
  BY <1>2, <1>4

(* There is one, by a least size of sets that cannot be folded.            *)
LEMMA FoldExists ==
  ASSUME NEW S, IsFiniteSet(S), NEW start, NEW op
  PROVE  \E J : Folded(J, start, op, S)
<1> DEFINE Small(n) == {s \in SUBSET S : Cardinality(s) <= n}
           Upto(J, n) == \A s \in Small(n) :
                           J[s] = IF s = {} THEN start ELSE op[<<Pick(s), J[Rest(s)]>>]
           bad == {n \in Nat : ~\E J : Upto(J, n)}
<1>1. \A s \in SUBSET S :
        IsFiniteSet(s) /\ Cardinality(s) \in Nat /\ Cardinality(s) <= Cardinality(S)
  BY FS_Subset, FS_CardinalityType
<1>2. \A s \in SUBSET S : s # {} =>
        Rest(s) \in SUBSET S /\ Cardinality(Rest(s)) = Cardinality(s) - 1
  BY <1>1, PickIs, FS_RemoveElement, SMTT(30) DEF Rest
<1>3. ASSUME bad # {} PROVE FALSE
  <2>1. PICK n \in bad : \A m \in bad : n <= m
    <3>1. bad \in SUBSET Nat
      OBVIOUS
    <3> HIDE DEF bad
    <3> QED
      BY <1>3, <3>1, Smallest
  <2>2. n \in Nat /\ ~\E J : Upto(J, n)
    OBVIOUS
  <2>3. CASE n = 0
    <3> DEFINE J == [s \in SUBSET S |-> start]
    <3>1. \A s \in Small(0) : s = {}
      BY <1>1, FS_EmptySet
    <3>2. Upto(J, 0)
      BY <3>1
    <3> QED
      BY <2>2, <2>3, <3>2
  <2>4. CASE n # 0
    <3>1. n - 1 \in Nat /\ n - 1 \notin bad
      <4>1. n - 1 \in Nat /\ ~(n <= n - 1)
        BY <2>2, <2>4
      <4> HIDE DEF bad
      <4> QED
        BY <2>1, <4>1
    <3>2. PICK J : Upto(J, n - 1)
      BY <3>1
    <3> DEFINE K == [s \in SUBSET S |->
                       IF Cardinality(s) = n THEN op[<<Pick(s), J[Rest(s)]>>] ELSE J[s]]
    <3>3. ASSUME NEW s \in Small(n)
          PROVE  K[s] = IF s = {} THEN start ELSE op[<<Pick(s), K[Rest(s)]>>]
      <4>1. s \in SUBSET S /\ Cardinality(s) \in Nat /\ Cardinality(s) <= n
        BY <1>1
      <4>2. CASE s = {}
        <5>1. Cardinality(s) = 0
          BY <4>2, FS_EmptySet
        <5>2. K[s] = J[s] /\ s \in Small(n - 1)
          BY <2>2, <2>4, <4>1, <5>1
        <5> QED
          BY <3>2, <4>2, <5>2
      <4>3. CASE s # {}
        <5>1. Rest(s) \in SUBSET S /\ Cardinality(Rest(s)) = Cardinality(s) - 1
          BY <1>2, <4>1, <4>3
        <5>2. K[Rest(s)] = J[Rest(s)]
          BY <2>2, <4>1, <5>1
        <5>3. CASE Cardinality(s) = n
          BY <4>1, <4>3, <5>2, <5>3
        <5>4. CASE Cardinality(s) # n
          <6>1. s \in Small(n - 1) /\ K[s] = J[s]
            BY <2>2, <4>1, <5>4
          <6> QED
            BY <3>2, <4>3, <5>2, <6>1
        <5> QED
          BY <5>3, <5>4
      <4> QED
        BY <4>2, <4>3
    <3>4. Upto(K, n)
      BY <3>3
    <3> QED
      BY <2>2, <3>4
  <2> QED
    BY <2>3, <2>4
<1>4. PICK J : Upto(J, Cardinality(S))
  BY <1>3, FS_CardinalityType
<1> DEFINE K == [s \in SUBSET S |-> J[s]]
<1>5. ASSUME NEW s \in SUBSET S PROVE K[s] = IF s = {} THEN start ELSE op[<<Pick(s), K[Rest(s)]>>]
  <2>1. s \in Small(Cardinality(S)) /\ (s # {} => Rest(s) \in SUBSET S)
    BY <1>1, <1>2
  <2> QED
    BY <1>4, <2>1
<1>6. K = [s \in SUBSET S |-> K[s]]
  OBVIOUS
<1> HIDE DEF K
<1>7. Folded(K, start, op, S)
  BY <1>5, <1>6 DEF Folded
<1> QED
  BY <1>7

-----------------------------------------------------------------------------
(* Sums.                                                                   *)

Summed(I, F, S) ==
  I = [s \in SUBSET S |-> IF s = {} THEN 0 ELSE F[Pick(s)] + I[Rest(s)]]

Numbers(F, S) == \A x \in S : F[x] \in Nat

LEMMA SumTyped ==
  ASSUME NEW S, IsFiniteSet(S), NEW F, Numbers(F, S), NEW I, Summed(I, F, S)
  PROVE  I \in [SUBSET S -> Nat]
<1>1. \A s \in SUBSET S : I[s] = IF s = {} THEN 0 ELSE F[Pick(s)] + I[Rest(s)]
  BY DEF Summed
<1>2. I = [s \in SUBSET S |-> I[s]]
  BY DEF Summed
<1> DEFINE bad == {s \in SUBSET S : I[s] \notin Nat}
<1>3. ASSUME bad # {} PROVE FALSE
  <2>1. PICK s \in bad : \A t \in bad : t \subseteq s => t = s
    <3>1. bad \subseteq SUBSET S
      OBVIOUS
    <3> HIDE DEF bad
    <3> QED
      BY <1>3, <3>1, MinimalSet
  <2>2. s \in SUBSET S /\ I[s] \notin Nat /\ s # {}
    BY <1>1
  <2>3. Pick(s) \in S /\ Rest(s) \in SUBSET S /\ Rest(s) \notin bad
    <3>1. Pick(s) \in S /\ Rest(s) \in SUBSET S /\ Rest(s) # s /\ Rest(s) \subseteq s
      BY <2>2, PickIs
    <3> HIDE DEF bad
    <3> QED
      BY <2>1, <3>1
  <2>4. I[Rest(s)] \in Nat /\ F[Pick(s)] \in Nat /\ I[s] = F[Pick(s)] + I[Rest(s)]
    BY <1>1, <2>2, <2>3 DEF Numbers
  <2> QED
    BY <2>2, <2>4
<1>4. \A s \in SUBSET S : I[s] \in Nat
  BY <1>3
<1> HIDE DEF bad
<1> QED
  BY <1>2, <1>4

LEMMA SumExists ==
  ASSUME NEW S, IsFiniteSet(S), NEW F, Numbers(F, S)
  PROVE  \E I : Summed(I, F, S)
<1> DEFINE op == [p \in S \X Nat |-> F[p[1]] + p[2]]
<1>1. op \in [S \X Nat -> Nat]
  BY DEF Numbers
<1>2. \A x \in S, n \in Nat : op[<<x, n>>] = F[x] + n
  OBVIOUS
<1> HIDE DEF op
<1>3. PICK I : Folded(I, 0, op, S)
  BY FoldExists
<1>4. I \in [SUBSET S -> Nat]
  BY <1>1, <1>3, FoldIs
<1>5. ASSUME NEW s \in SUBSET S PROVE I[s] = IF s = {} THEN 0 ELSE F[Pick(s)] + I[Rest(s)]
  <2>1. I[s] = IF s = {} THEN 0 ELSE op[<<Pick(s), I[Rest(s)]>>]
    BY <1>3 DEF Folded
  <2>2. s # {} => Pick(s) \in S /\ Rest(s) \in SUBSET S
    BY PickIs
  <2> QED
    BY <1>2, <1>4, <2>1, <2>2
<1>6. I = [s \in SUBSET S |-> I[s]]
  BY <1>4
<1> QED
  BY <1>5, <1>6 DEF Summed

(* Whichever is taken out first, the sum is the same.                      *)
LEMMA SumIs ==
  ASSUME NEW S, IsFiniteSet(S), NEW F, Numbers(F, S), NEW I, Summed(I, F, S)
  PROVE  /\ I[{}] = 0
         /\ \A s \in SUBSET S : \A x \in s : I[s] = F[x] + I[s \ {x}]
<1>1. \A s \in SUBSET S : I[s] = IF s = {} THEN 0 ELSE F[Pick(s)] + I[Rest(s)]
  BY DEF Summed
<1>2. I \in [SUBSET S -> Nat]
  BY SumTyped
<1> DEFINE bad == {s \in SUBSET S : \E x \in s : I[s] # F[x] + I[s \ {x}]}
<1>3. ASSUME bad # {} PROVE FALSE
  <2>1. PICK s \in bad : \A t \in bad : t \subseteq s => t = s
    <3>1. bad \subseteq SUBSET S
      OBVIOUS
    <3> HIDE DEF bad
    <3> QED
      BY <1>3, <3>1, MinimalSet
  <2>2. PICK x \in s : I[s] # F[x] + I[s \ {x}]
    OBVIOUS
  <2>3. s \in SUBSET S /\ s # {}
    OBVIOUS
  <2> DEFINE p == Pick(s)
             a == s \ {p}
             b == s \ {x}
             c == (s \ {p}) \ {x}
  <2>4. p \in s /\ p \in S /\ x \in S /\ I[s] = F[p] + I[a]
    BY <1>1, <2>2, <2>3, PickIs DEF Rest
  <2>5. p # x
    BY <2>2, <2>4
  <2>6. a \in SUBSET S /\ b \in SUBSET S /\ c \in SUBSET S /\ a \notin bad /\ b \notin bad
    <3>1. a \in SUBSET S /\ a \subseteq s /\ a # s /\ b \in SUBSET S /\ b \subseteq s /\ b # s
          /\ c \in SUBSET S
      BY <2>3, <2>4
    <3> HIDE DEF bad, a, b, c
    <3> QED
      BY <2>1, <3>1
  <2>7. I[a] = F[x] + I[c]
    BY <2>2, <2>5, <2>6
  <2>8. I[b] = F[p] + I[c]
    <3>1. p \in b /\ b \ {p} = c
      BY <2>4, <2>5
    <3> QED
      BY <2>6, <3>1
  <2>9. F[p] \in Nat /\ F[x] \in Nat /\ I[c] \in Nat
    BY <1>2, <2>4, <2>6 DEF Numbers
  <2> HIDE DEF p, a, c
  <2> QED
    BY <2>2, <2>4, <2>7, <2>8, <2>9
<1> QED
  BY <1>1, <1>3

(* What is summed under other names has the same sum.                      *)
LEMMA SumMatch ==
  ASSUME NEW S, IsFiniteSet(S), NEW F, Numbers(F, S), NEW I, Summed(I, F, S),
         NEW T, IsFiniteSet(T), NEW G, Numbers(G, T), NEW J, Summed(J, G, T),
         NEW all \in SUBSET S, NEW name \in [all -> T],
         \A x, y \in all : name[x] = name[y] => x = y,
         \A x \in all : G[name[x]] = F[x]
  PROVE  I[all] = J[{name[x] : x \in all}]
<1> DEFINE Named(s) == {name[x] : x \in s}
           bad == {s \in SUBSET all : I[s] # J[Named(s)]}
<1>1. /\ I[{}] = 0 /\ J[{}] = 0
      /\ \A s \in SUBSET S : \A x \in s : I[s] = F[x] + I[s \ {x}]
      /\ \A t \in SUBSET T : \A y \in t : J[t] = G[y] + J[t \ {y}]
  BY SumIs, SMTT(30)
<1>2. ASSUME bad # {} PROVE FALSE
  <2>1. PICK s \in bad : \A t \in bad : t \subseteq s => t = s
    <3>1. bad \subseteq SUBSET S
      OBVIOUS
    <3> HIDE DEF bad
    <3> QED
      BY <1>2, <3>1, MinimalSet
  <2>2. s \in SUBSET all /\ I[s] # J[Named(s)]
    OBVIOUS
  <2>3. s # {}
    <3>1. Named({}) = {}
      OBVIOUS
    <3> QED
      BY <1>1, <2>2, <3>1
  <2>4. PICK x \in s : TRUE
    BY <2>3
  <2> DEFINE r == s \ {x}
  <2>5. r \in SUBSET all /\ r \notin bad
    <3>1. r \in SUBSET all /\ r \subseteq s /\ r # s
      BY <2>2
    <3> HIDE DEF bad, r
    <3> QED
      BY <2>1, <3>1
  <2>6. I[r] = J[Named(r)]
    BY <2>5
  <2>7. Named(s) \in SUBSET T /\ name[x] \in Named(s) /\ Named(s) \ {name[x]} = Named(r)
    BY <2>2
  <2>8. J[Named(s)] = G[name[x]] + J[Named(r)]
    <3> HIDE DEF Named
    <3> QED
      BY <1>1, <2>7, ZenonT(30)
  <2>9. I[s] = F[x] + I[r] /\ G[name[x]] = F[x]
    BY <1>1, <2>2
  <2> HIDE DEF r, Named
  <2> QED
    BY <2>2, <2>6, <2>8, <2>9
<1> QED
  BY <1>2

(* And what is the same under the same.                                    *)
LEMMA SumAgree ==
  ASSUME NEW S, IsFiniteSet(S), NEW F, Numbers(F, S), NEW I, Summed(I, F, S),
         NEW T, IsFiniteSet(T), NEW G, Numbers(G, T), NEW J, Summed(J, G, T),
         NEW s, s \subseteq S, s \subseteq T, \A x \in s : F[x] = G[x]
  PROVE  I[s] = J[s]
<1> DEFINE name == [x \in s |-> x]
<1>1. /\ name \in [s -> T] /\ {name[x] : x \in s} = s
      /\ \A x, y \in s : name[x] = name[y] => x = y
      /\ \A x \in s : G[name[x]] = F[x]
  OBVIOUS
<1> HIDE DEF name
<1>2. I[s] = J[{name[x] : x \in s}]
  BY <1>1, SumMatch
<1> QED
  BY <1>1, <1>2

LEMMA SumAdds ==
  ASSUME NEW S, IsFiniteSet(S), NEW F, Numbers(F, S), NEW I, Summed(I, F, S),
         NEW G, Numbers(G, S), NEW J, Summed(J, G, S),
         NEW H, NEW K, Summed(K, H, S), \A x \in S : H[x] = F[x] + G[x]
  PROVE  K[S] = I[S] + J[S]
<1>1. Numbers(H, S)
  BY DEF Numbers
<1>2. /\ I[{}] = 0 /\ J[{}] = 0 /\ K[{}] = 0
      /\ \A s \in SUBSET S : \A x \in s : /\ I[s] = F[x] + I[s \ {x}]
                                          /\ J[s] = G[x] + J[s \ {x}]
                                          /\ K[s] = H[x] + K[s \ {x}]
  BY <1>1, SumIs
<1>3. I \in [SUBSET S -> Nat] /\ J \in [SUBSET S -> Nat] /\ K \in [SUBSET S -> Nat]
  BY <1>1, SumTyped
<1> DEFINE bad == {s \in SUBSET S : K[s] # I[s] + J[s]}
<1>4. ASSUME bad # {} PROVE FALSE
  <2>1. PICK s \in bad : \A t \in bad : t \subseteq s => t = s
    <3>1. bad \subseteq SUBSET S
      OBVIOUS
    <3> HIDE DEF bad
    <3> QED
      BY <1>4, <3>1, MinimalSet
  <2>2. s \in SUBSET S /\ K[s] # I[s] + J[s] /\ s # {}
    <3>1. K[{}] = I[{}] + J[{}]
      BY <1>2
    <3> QED
      BY <3>1
  <2>3. PICK x \in s : TRUE
    BY <2>2
  <2> DEFINE r == s \ {x}
  <2>4. r \in SUBSET S /\ r \notin bad
    <3>1. r \in SUBSET S /\ r \subseteq s /\ r # s
      BY <2>2
    <3> HIDE DEF bad, r
    <3> QED
      BY <2>1, <3>1
  <2>5. K[r] = I[r] + J[r]
    BY <2>4
  <2>6. I[s] = F[x] + I[r] /\ J[s] = G[x] + J[r] /\ K[s] = H[x] + K[r]
    BY <1>2, <2>2
  <2>7. F[x] \in Nat /\ G[x] \in Nat /\ H[x] = F[x] + G[x] /\ I[r] \in Nat /\ J[r] \in Nat
    BY <1>3, <2>2, <2>4 DEF Numbers
  <2> HIDE DEF r
  <2> QED
    BY <2>2, <2>5, <2>6, <2>7
<1> QED
  BY <1>4

(* What FoldFunction adds up.                                              *)
SumOf(F) == FoldFunction(+, 0, F)

LEMMA SumOfIs ==
  ASSUME NEW S, IsFiniteSet(S), NEW F \in [S -> Nat]
  PROVE  \E I : Summed(I, F, S) /\ Numbers(F, S) /\ SumOf(F) = I[S] /\ SumOf(F) \in Nat
<1> DEFINE C == CHOOSE I : I = [s \in SUBSET S |-> IF s = {} THEN 0
                                  ELSE F[CHOOSE x \in s : TRUE] + I[s \ {CHOOSE x \in s : TRUE}]]
<1>1. Numbers(F, S) /\ DOMAIN F = S
  BY DEF Numbers
<1>2. \E I : Summed(I, F, S)
  BY <1>1, SumExists
<1>3. Summed(C, F, S)
  BY <1>2 DEF Summed, Pick, Rest
<1>4. SumOf(F) = C[S]
  BY <1>1 DEF SumOf, FoldFunction, FoldFunctionOnSet, MapThenFoldSet
<1> HIDE DEF C
<1>5. C \in [SUBSET S -> Nat]
  BY <1>1, <1>3, SumTyped
<1> QED
  BY <1>1, <1>3, <1>4, <1>5

(* The sum of a function of two parts, and of one with a value put in.     *)
LEMMA SumOfParts ==
  ASSUME NEW S, IsFiniteSet(S), NEW F \in [S -> Nat], NEW G \in [S -> Nat]
  PROVE  SumOf([x \in S |-> F[x] + G[x]]) = SumOf(F) + SumOf(G)
<1> DEFINE H == [x \in S |-> F[x] + G[x]]
<1>1. H \in [S -> Nat] /\ \A x \in S : H[x] = F[x] + G[x]
  OBVIOUS
<1> HIDE DEF H
<1>2. PICK I : Summed(I, F, S) /\ Numbers(F, S) /\ SumOf(F) = I[S]
  BY SumOfIs
<1>3. PICK J : Summed(J, G, S) /\ Numbers(G, S) /\ SumOf(G) = J[S]
  BY SumOfIs
<1>4. PICK K : Summed(K, H, S) /\ SumOf(H) = K[S]
  BY <1>1, SumOfIs
<1>5. K[S] = I[S] + J[S]
  BY <1>1, <1>2, <1>3, <1>4, SumAdds
<1> QED
  BY <1>2, <1>3, <1>4, <1>5 DEF H

SlotAdds(F, S, slot, n) ==
  /\ InSlot(F, slot, n) \in [S \cup {slot} -> Nat]
  /\ SumOf(InSlot(F, slot, n)) = SumOf(F) + n

LEMMA SumOfSlot ==
  ASSUME NEW S, IsFiniteSet(S), NEW F \in [S -> Nat], NEW slot, NEW n \in Nat
  PROVE  SlotAdds(F, S, slot, n)
<1> DEFINE T == S \cup {slot}
           G == InSlot(F, slot, n)
           r == T \ {slot}
<1>1. /\ G \in [T -> Nat]
      /\ G[slot] = (IF slot \in S THEN F[slot] ELSE 0) + n
      /\ \A x \in r : x \in S /\ G[x] = F[x]
  BY DEF InSlot
<1>2. IsFiniteSet(T)
  BY FS_AddElement
<1> HIDE DEF G
<1>3. PICK I : Summed(I, F, S) /\ Numbers(F, S) /\ SumOf(F) = I[S] /\ SumOf(F) \in Nat
  BY SumOfIs
<1>4. PICK J : Summed(J, G, T) /\ Numbers(G, T) /\ SumOf(G) = J[T]
  <2> HIDE DEF T
  <2> QED
    BY <1>1, <1>2, SumOfIs
<1>5. J[T] = G[slot] + J[r]
  <2>1. T \in SUBSET T /\ slot \in T
    OBVIOUS
  <2> HIDE DEF T
  <2> QED
    BY <1>2, <1>4, <2>1, SumIs
<1>6. I[r] = J[r]
  <2>1. r \subseteq S /\ r \subseteq T /\ \A x \in r : F[x] = G[x]
    BY <1>1
  <2> HIDE DEF r, T
  <2> QED
    BY <1>2, <1>3, <1>4, <2>1, SumAgree
<1>7. I[S] = (IF slot \in S THEN F[slot] ELSE 0) + I[r]
  <2>1. CASE slot \in S
    <3>1. r = S \ {slot} /\ S \in SUBSET S
      BY <2>1
    <3> HIDE DEF r
    <3>2. I[S] = F[slot] + I[S \ {slot}]
      BY <1>3, <2>1, <3>1, SumIs
    <3> QED
      BY <2>1, <3>1, <3>2
  <2>2. CASE slot \notin S
    <3>1. r = S
      BY <2>2
    <3> QED
      BY <1>3, <2>2, <3>1
  <2> QED
    BY <2>1, <2>2
<1>8. I[r] \in Nat /\ (slot \in S => F[slot] \in Nat)
  <2>1. r \in SUBSET S
    OBVIOUS
  <2>2. I \in [SUBSET S -> Nat]
    BY <1>3, SumTyped
  <2> HIDE DEF r
  <2> QED
    BY <2>1, <2>2
<1> HIDE DEF r
<1>9. J[T] = I[S] + n
  BY <1>1, <1>5, <1>6, <1>7, <1>8
<1> QED
  BY <1>1, <1>3, <1>4, <1>9 DEF G, SlotAdds

-----------------------------------------------------------------------------
(* The list in force.                                                      *)

(* Where a list is eligible one is the latest, the one that is in force.   *)
LEMMA InForce ==
  ASSUME NEW L \in SUBSET Lists, NEW vendor, NEW day \in Nat, Eligible(L, vendor, day) # {}
  PROVE  ListInForce(L, vendor, day) \in Eligible(L, vendor, day)
<1> DEFINE eligible == Eligible(L, vendor, day)
<1>1. \A l \in eligible : l.stem \in Nat /\ l.stem <= day
  BY ListsAssumption DEF Eligible
<1> DEFINE ages == {day - l.stem : l \in eligible}
<1>2. ages \in SUBSET Nat /\ ages # {}
  BY <1>1
<1>3. PICK x \in ages : \A y \in ages : x <= y
  BY <1>2, Smallest
<1>4. PICK l \in eligible : x = day - l.stem
  BY <1>3
<1>5. ASSUME NEW k \in eligible PROVE k.stem <= l.stem
  <2>1. day - k.stem \in ages
    OBVIOUS
  <2>2. day - l.stem <= day - k.stem
    BY <1>3, <1>4, <2>1
  <2> QED
    BY <1>1, <2>2
<1> HIDE DEF eligible
<1>6. (CHOOSE e \in eligible : \A k \in eligible : k.stem <= e.stem) \in eligible
  BY <1>5
<1> QED
  BY <1>6 DEF ListInForce, eligible

(* Either there is none, or it is one of the published lists.              *)
LEMMA InForceIsPublished ==
  ASSUME NEW L \in SUBSET Lists, NEW vendor, NEW day \in Nat
  PROVE  ListInForce(L, vendor, day) \in L \cup {None}
<1>1. CASE Eligible(L, vendor, day) = {}
  BY <1>1 DEF ListInForce
<1>2. CASE Eligible(L, vendor, day) # {}
  BY <1>2, InForce DEF Eligible
<1> QED
  BY <1>1, <1>2

-----------------------------------------------------------------------------
(* The tiers of a list that was published.                                 *)

Tiers == UNION {{l.models[model] : model \in DOMAIN l.models} : l \in {k \in Lists : Valid(k)}}

LEMMA TiersAre ==
  ASSUME NEW tiers \in Tiers
  PROVE  /\ BoundsAscend(tiers)
         /\ Len(tiers) \in Nat \ {0} /\ DOMAIN tiers = 1..Len(tiers)
         /\ tiers[Len(tiers)].max = Unbounded
         /\ \A i \in 1..(Len(tiers) - 1) : tiers[i].max \in Nat
<1>1. PICK l \in Lists : Valid(l) /\ \E model \in DOMAIN l.models : tiers = l.models[model]
  BY DEF Tiers
<1>2. PICK model \in DOMAIN l.models : tiers = l.models[model]
  BY <1>1
<1>3. /\ BoundsAscend(tiers)
      /\ tiers \in Seq(Range(tiers))
      /\ \A i \in DOMAIN tiers : tiers[i].max \in Nat \cup {Unbounded, NotACount}
  BY <1>1, <1>2, ListsAssumption DEF Valid
<1>4. Len(tiers) \in Nat /\ DOMAIN tiers = 1..Len(tiers) /\ Len(tiers) # 0
  BY <1>3 DEF BoundsAscend
<1>5. tiers[Len(tiers)].max = Unbounded
  BY <1>3, <1>4 DEF BoundsAscend, Last
<1>6. \A i \in 1..(Len(tiers) - 1) : tiers[i].max \in Nat
  BY <1>3, <1>4 DEF BoundsAscend, Finite
<1> QED
  BY <1>3, <1>4, <1>5, <1>6

(* The bounds ascend, not only from one to the next.                       *)
LEMMA BoundsAscendAll ==
  ASSUME NEW tiers \in Tiers, NEW i \in Nat, NEW j \in Nat, 1 <= i, i < j, j < Len(tiers)
  PROVE  tiers[i].max < tiers[j].max
<1> DEFINE bad == {k \in Nat : i < k /\ k < Len(tiers) /\ ~(tiers[i].max < tiers[k].max)}
<1> SUFFICES ASSUME bad # {} PROVE FALSE
  OBVIOUS
<1>1. PICK k \in bad : \A y \in bad : k <= y
  BY Smallest
<1>2. /\ Len(tiers) \in Nat
      /\ \A n \in 1..(Len(tiers) - 1) : tiers[n].max \in Nat
      /\ \A n \in 1..(Len(tiers) - 2) : tiers[n].max < tiers[n + 1].max
  BY TiersAre DEF BoundsAscend
<1>3. k - 1 \in 1..(Len(tiers) - 2) /\ k \in 1..(Len(tiers) - 1) /\ k - 1 \in Nat
  BY <1>1, <1>2
<1>4. tiers[k - 1].max < tiers[k].max
  <2>1. tiers[k - 1].max < tiers[(k - 1) + 1].max /\ (k - 1) + 1 = k
    BY <1>2, <1>3
  <2> QED
    BY <2>1
<1>5. k - 1 = i \/ tiers[i].max < tiers[k - 1].max
  BY <1>1, <1>2, <1>3
<1>6. tiers[i].max < tiers[k].max
  BY <1>2, <1>3, <1>4, <1>5, SMTT(30)
<1> QED
  BY <1>1, <1>6

(* A published list has exactly one tier whose range holds a prompt, and   *)
(* the walk over the tiers stops there (pick_tier, check_bounds).          *)
THEOREM OneTierPerPrompt ==
  ASSUME NEW tiers \in Tiers, NEW prompt \in Nat
  PROVE  /\ PickTier(tiers, prompt) \in DOMAIN tiers
         /\ Holding(tiers, prompt) = {PickTier(tiers, prompt)}
<1> DEFINE fits == {i \in DOMAIN tiers : tiers[i].max = Unbounded \/ prompt <= tiers[i].max}
           t == PickTier(tiers, prompt)
           n == Len(tiers)
<1>1. /\ n \in Nat /\ n # 0 /\ DOMAIN tiers = 1..n
      /\ tiers[n].max = Unbounded
      /\ \A i \in 1..(n - 1) : tiers[i].max \in Nat /\ tiers[i].max # Unbounded
  BY TiersAre, ListsAssumption
<1>2. n \in fits /\ fits \in SUBSET Nat
  BY <1>1
<1>3. \E x \in fits : \A y \in fits : x <= y
  BY <1>2, Smallest
<1>4. t \in fits /\ \A y \in fits : t <= y
  <2>1. t = Min(fits)
    BY <1>2 DEF PickTier
  <2> HIDE DEF fits, t
  <2> QED
    BY <1>3, <2>1 DEF Min
<1>5. \A i \in 1..(n - 1) : i < t => prompt > tiers[i].max
  BY <1>1, <1>4
<1>6. t \in Holding(tiers, prompt)
  BY <1>1, <1>4, <1>5 DEF Holding
<1>7. ASSUME NEW h \in Holding(tiers, prompt) PROVE h = t
  <2>1. h \in fits
    BY <1>7 DEF Holding
  <2>2. ASSUME t < h PROVE FALSE
    <3>1. t \in 1..(n - 1) /\ h - 1 \in 1..(n - 1) /\ prompt <= tiers[t].max
      BY <1>1, <1>4, <2>1, <2>2
    <3>2. prompt > tiers[h - 1].max
      BY <1>1, <1>4, <2>1, <2>2 DEF Holding
    <3>3. /\ t \in Nat /\ h - 1 \in Nat /\ 1 <= t /\ h - 1 < Len(tiers)
          /\ t = h - 1 \/ t < h - 1
      BY <1>1, <2>1, <2>2, <3>1
    <3>4. t = h - 1 \/ tiers[t].max < tiers[h - 1].max
      <4> HIDE DEF t
      <4> QED
        BY <3>3, BoundsAscendAll
    <3> QED
      BY <1>1, <3>1, <3>2, <3>4
  <2> QED
    BY <1>1, <1>4, <2>1, <2>2
<1> QED
  BY <1>4, <1>6, <1>7

-----------------------------------------------------------------------------
(* What one request is billed.                                             *)

UsageRead(usage) ==
  /\ Counts(usage) \subseteq Nat \cup {NotACount}
  /\ \/ usage.split = NoSplit
     \/ {usage.split.five, usage.split.hour} \subseteq Nat \cup {NotACount}

LEMMA ClassesAreFinite == IsFiniteSet(CLASSES)
<1> DEFINE a == {"input"}
           b == a \cup {"output"}
           c == b \cup {"cache_write_5m"}
           d == c \cup {"cache_write_1h"}
           e == d \cup {"cache_read"}
<1>1. IsFiniteSet(a)
  BY FS_Singleton
<1> HIDE DEF a
<1>2. IsFiniteSet(b)
  BY <1>1, FS_AddElement
<1> HIDE DEF b
<1>3. IsFiniteSet(c)
  BY <1>2, FS_AddElement
<1> HIDE DEF c
<1>4. IsFiniteSet(d)
  BY <1>3, FS_AddElement
<1> HIDE DEF d
<1>5. IsFiniteSet(e)
  BY <1>4, FS_AddElement
<1>6. CLASSES = e
  BY DEF CLASSES, a, b, c, d
<1> QED
  BY <1>5, <1>6

LEMMA TokensAre ==
  ASSUME NEW usage, UsageRead(usage), TokensKnown(usage)
  PROVE  /\ \A class \in CLASSES : TokensOf(usage)[class] \in Nat
         /\ Prompt(TokensOf(usage)) \in Nat
<1>1. usage.input \in Nat /\ usage.output \in Nat /\ usage.read \in Nat
  BY DEF UsageRead, TokensKnown, Counts
<1>2. usage.split # NoSplit => usage.split.five \in Nat /\ usage.split.hour \in Nat
  BY DEF UsageRead, TokensKnown
<1> DEFINE t == TokensOf(usage)
<1>3. /\ t.input \in Nat /\ t.output \in Nat /\ t.cache_read \in Nat
      /\ t.cache_write_5m \in Nat /\ t.cache_write_1h \in Nat
  BY <1>1, <1>2 DEF TokensOf
<1> HIDE DEF t
<1>4. \A class \in CLASSES : t[class] \in Nat
  BY <1>3 DEF CLASSES
<1>5. Prompt(t) \in Nat
  BY <1>3 DEF Prompt
<1> QED
  BY <1>4, <1>5 DEF t

PartOf(request, models) ==
  LET tiers  == models[request.model]
      tokens == TokensOf(request.usage)
  IN [class \in CLASSES |->
        tiers[PickTier(tiers, Prompt(tokens))].price[class] * tokens[class]]

FigureOf(request, models) == SumOf(PartOf(request, models))

SlotOf(request, models) ==
  <<request.model,
    TierLabel(models[request.model],
              PickTier(models[request.model], Prompt(TokensOf(request.usage))))>>

Payable(request, models) ==
  UsageRead(request.usage) /\ TokensKnown(request.usage) /\ request.model \in DOMAIN models

LEMMA ProductsAre ==
  ASSUME NEW m \in Nat, NEW n \in Nat
  PROVE  m * n \in Nat
OBVIOUS

LEMMA PartIs ==
  ASSUME NEW l \in Lists, Valid(l), NEW q, Payable(q, l.models)
  PROVE  /\ PickTier(l.models[q.model], Prompt(TokensOf(q.usage))) # None
         /\ l.models[q.model] \in Tiers
         /\ PartOf(q, l.models) \in [CLASSES -> Nat]
         /\ FigureOf(q, l.models) \in Nat
         /\ SlotOf(q, l.models) \in Slots
<1> DEFINE tiers == l.models[q.model]
           tokens == TokensOf(q.usage)
           t == PickTier(tiers, Prompt(tokens))
<1>1. tiers \in Tiers
  BY DEF Tiers, Payable
<1>2. Prompt(tokens) \in Nat /\ \A class \in CLASSES : tokens[class] \in Nat
  BY TokensAre DEF Payable
<1> HIDE DEF tokens
<1>3. t \in DOMAIN tiers /\ DOMAIN tiers = 1..Len(tiers) /\ Len(tiers) \in Nat
  <2> HIDE DEF tiers
  <2> QED
    BY <1>1, <1>2, OneTierPerPrompt, TiersAre
<1>4. t # None
  BY <1>3, NoneAssumption
<1>5. \A class \in CLASSES : tiers[t].price[class] \in Nat
  <2>1. PricesRead(tiers)
    BY DEF Valid, Payable
  <2>2. \A class \in CLASSES : tiers[t].price[class] \in Nat \cup {NotAPrice}
    <3> HIDE DEF t
    <3> QED
      BY <1>3, ListsAssumption DEF Payable
  <2> HIDE DEF tiers, t
  <2> QED
    BY <1>3, <2>1, <2>2 DEF PricesRead
<1>6. PartOf(q, l.models) = [class \in CLASSES |-> tiers[t].price[class] * tokens[class]]
  BY DEF PartOf, tokens
<1>7. PartOf(q, l.models) \in [CLASSES -> Nat]
  <2> HIDE DEF tiers, t
  <2> QED
    BY <1>2, <1>5, <1>6, ProductsAre
<1>8. SumOf(PartOf(q, l.models)) \in Nat
  BY <1>7, ClassesAreFinite, SumOfIs
<1>9. SlotOf(q, l.models) \in Slots
  <2>1. SlotOf(q, l.models) = <<q.model, TierLabel(tiers, t)>> /\ q.model \in DOMAIN l.models
    BY DEF SlotOf, tokens, Payable
  <2> HIDE DEF t
  <2>2. <<q.model, TierLabel(tiers, t)>>
          \in {<<q.model, TierLabel(l.models[q.model], i)>> : i \in DOMAIN l.models[q.model]}
    BY <1>3
  <2> QED
    BY <2>1, <2>2 DEF Slots
<1> QED
  BY <1>1, <1>4, <1>7, <1>8, <1>9 DEF FigureOf, tokens

(* The tier whose range holds the prompt is the only one, so what the      *)
(* definition over ranges bills is what the walk over the tiers adds.      *)
LEMMA BilledIs ==
  ASSUME NEW l \in Lists, Valid(l), NEW q, Payable(q, l.models)
  PROVE  Billed(q, l.models) = FigureOf(q, l.models)
<1> DEFINE tiers == l.models[q.model]
           tokens == TokensOf(q.usage)
           t == PickTier(tiers, Prompt(tokens))
           part == PartOf(q, l.models)
           bill(i) == MapThenSumSet(LAMBDA class : tiers[i].price[class] * tokens[class], CLASSES)
<1>1. /\ tiers \in Tiers /\ part \in [CLASSES -> Nat] /\ FigureOf(q, l.models) \in Nat
  BY PartIs
<1>2. part = [class \in CLASSES |-> tiers[t].price[class] * tokens[class]]
  BY DEF PartOf
<1>3. Holding(tiers, Prompt(tokens)) = {t}
  <2>1. Prompt(tokens) \in Nat
    BY TokensAre DEF Payable
  <2> HIDE DEF tiers, tokens
  <2> QED
    BY <1>1, <2>1, OneTierPerPrompt
<1>4. bill(t) = FigureOf(q, l.models)
  <2> HIDE DEF t, tiers, tokens, part
  <2> DEFINE C == CHOOSE I : I = [s \in SUBSET CLASSES |-> IF s = {} THEN 0
                     ELSE tiers[t].price[CHOOSE x \in s : TRUE] * tokens[CHOOSE x \in s : TRUE]
                            + I[s \ {CHOOSE x \in s : TRUE}]]
  <2>1. PICK I : Summed(I, part, CLASSES) /\ Numbers(part, CLASSES) /\ SumOf(part) = I[CLASSES]
    BY <1>1, ClassesAreFinite, SumOfIs
  <2>2. \A s \in SUBSET CLASSES : s # {} =>
          part[CHOOSE x \in s : TRUE]
            = tiers[t].price[CHOOSE x \in s : TRUE] * tokens[CHOOSE x \in s : TRUE]
    BY <1>2
  <2>3. ASSUME NEW J
        PROVE  Summed(J, part, CLASSES) <=>
                 J = [s \in SUBSET CLASSES |-> IF s = {} THEN 0
                        ELSE tiers[t].price[CHOOSE x \in s : TRUE] * tokens[CHOOSE x \in s : TRUE]
                               + J[s \ {CHOOSE x \in s : TRUE}]]
    <3> DEFINE term(s) == part[CHOOSE x \in s : TRUE]
               product(s) == tiers[t].price[CHOOSE x \in s : TRUE] * tokens[CHOOSE x \in s : TRUE]
               rest(s) == J[s \ {CHOOSE x \in s : TRUE}]
    <3>1. \A s \in SUBSET CLASSES : s # {} => term(s) = product(s)
      BY <2>2
    <3> HIDE DEF term, product, rest
    <3>2. [s \in SUBSET CLASSES |-> IF s = {} THEN 0 ELSE term(s) + rest(s)]
            = [s \in SUBSET CLASSES |-> IF s = {} THEN 0 ELSE product(s) + rest(s)]
      BY <3>1
    <3> QED
      BY <3>2 DEF Summed, Pick, Rest, term, product, rest
  <2> DEFINE Folds(J) == J = [s \in SUBSET CLASSES |-> IF s = {} THEN 0
                        ELSE tiers[t].price[CHOOSE x \in s : TRUE] * tokens[CHOOSE x \in s : TRUE]
                               + J[s \ {CHOOSE x \in s : TRUE}]]
  <2>4. Summed(C, part, CLASSES)
    <3>1. C = CHOOSE J : Folds(J)
      OBVIOUS
    <3>2. \A J : Summed(J, part, CLASSES) <=> Folds(J)
      BY <2>3
    <3> HIDE DEF C, Folds
    <3>3. Folds(C)
      BY <2>1, <3>1, <3>2
    <3> QED
      BY <3>2, <3>3
  <2>5. bill(t) = C[CLASSES]
    BY DEF MapThenSumSet, MapThenFoldSet
  <2> HIDE DEF C
  <2>6. C[CLASSES] = I[CLASSES]
    BY <2>1, <2>4, ClassesAreFinite, SumAgree
  <2> QED
    BY <2>1, <2>5, <2>6 DEF FigureOf, part
<1>5. Billed(q, l.models) = MapThenSumSet(bill, {t})
  BY <1>3 DEF Billed
<1>6. MapThenSumSet(bill, {t}) = bill(t)
  <2> HIDE DEF t, bill
  <2> DEFINE F == [x \in {t} |-> bill(x)]
             C == CHOOSE I : I = [s \in SUBSET {t} |-> IF s = {} THEN 0
                     ELSE bill(CHOOSE x \in s : TRUE) + I[s \ {CHOOSE x \in s : TRUE}]]
  <2>1. IsFiniteSet({t}) /\ Numbers(F, {t})
    BY <1>1, <1>4, FS_Singleton DEF Numbers
  <2>2. \E I : Summed(I, F, {t})
    <3> HIDE DEF F
    <3> QED
      BY <2>1, SumExists
  <2>3. \A s \in SUBSET {t} : s # {} => F[CHOOSE x \in s : TRUE] = bill(CHOOSE x \in s : TRUE)
    OBVIOUS
  <2> HIDE DEF F
  <2>4. ASSUME NEW J
        PROVE  Summed(J, F, {t}) <=>
                 J = [s \in SUBSET {t} |-> IF s = {} THEN 0
                        ELSE bill(CHOOSE x \in s : TRUE) + J[s \ {CHOOSE x \in s : TRUE}]]
    BY <2>3 DEF Summed, Pick, Rest
  <2>5. Summed(C, F, {t})
    BY <2>2, <2>4, ZenonT(30)
  <2>6. MapThenSumSet(bill, {t}) = C[{t}]
    BY DEF MapThenSumSet, MapThenFoldSet
  <2> HIDE DEF C
  <2>7. C[{}] = 0 /\ C[{t}] = F[t] + C[{t} \ {t}]
    <3> DEFINE one == {t}
    <3>1. one \in SUBSET one /\ t \in one
      OBVIOUS
    <3>2. IsFiniteSet(one) /\ Numbers(F, one) /\ Summed(C, F, one)
      BY <2>1, <2>5
    <3> HIDE DEF one
    <3>3. C[{}] = 0 /\ C[one] = F[t] + C[one \ {t}]
      BY <3>1, <3>2, SumIs
    <3> QED
      BY <3>3 DEF one
  <2>8. {t} \ {t} = {} /\ F[t] = bill(t)
    BY DEF F
  <2> QED
    BY <1>1, <1>4, <2>6, <2>7, <2>8
<1> QED
  BY <1>4, <1>5, <1>6

-----------------------------------------------------------------------------
(* What all requests are billed.                                           *)

(* A figure whose two breakdowns account for the whole of it.              *)
Sound ==
  {t \in Tallies : /\ IsFiniteSet(DOMAIN t.by_tier)
                   /\ SumOf(t.by_tier) = t.total /\ SumOf(t.by_class) = t.total}

LEMMA NothingIsSound == NoTally \in Sound /\ NoTally.total = 0
<1> DEFINE none == NoTally.by_tier
           zero == NoTally.by_class
<1>1. /\ none \in [{} -> Nat] /\ zero \in [CLASSES -> Nat] /\ zero = [class \in CLASSES |-> 0]
      /\ NoTally.total = 0 /\ NoTally.requests = 0
      /\ NoTally = [total |-> 0, requests |-> 0, by_tier |-> none, by_class |-> zero]
  BY DEF NoTally
<1> HIDE DEF none, zero
<1>2. SumOf(none) = 0
  <2>1. IsFiniteSet({})
    BY FS_EmptySet
  <2>2. PICK I : Summed(I, none, {}) /\ Numbers(none, {}) /\ SumOf(none) = I[{}]
    BY <1>1, <2>1, SumOfIs
  <2>3. I[{}] = 0
    BY <2>1, <2>2, SumIs
  <2> QED
    BY <2>2, <2>3
<1>3. SumOf(zero) = 0
  <2>1. [class \in CLASSES |-> zero[class] + zero[class]] = zero
    BY <1>1
  <2>2. SumOf(zero) = SumOf(zero) + SumOf(zero)
    BY <1>1, <2>1, ClassesAreFinite, SumOfParts
  <2>3. SumOf(zero) \in Nat
    BY <1>1, ClassesAreFinite, SumOfIs
  <2>4. \A n \in Nat : n = n + n => n = 0
    OBVIOUS
  <2> QED
    BY <2>2, <2>3, <2>4, Zenon
<1>4. IsFiniteSet(DOMAIN none)
  BY <1>1, FS_EmptySet
<1>5. NoTally \in Tallies
  <2>1. none \in UNION {[slots -> Nat] : slots \in SUBSET Slots}
    BY <1>1
  <2> HIDE DEF NoTally
  <2> QED
    BY <1>1, <2>1 DEF Tallies
<1> QED
  BY <1>1, <1>2, <1>3, <1>4, <1>5 DEF Sound, none, zero

LEMMA AddKeeps ==
  ASSUME NEW l \in Lists, Valid(l), NEW q, Payable(q, l.models), NEW t \in Sound
  PROVE  /\ Add(q, l.models, t) \in Sound
         /\ Add(q, l.models, t).total = t.total + FigureOf(q, l.models)
<1> DEFINE part == PartOf(q, l.models)
           figure == FigureOf(q, l.models)
           slot == SlotOf(q, l.models)
           by_tier == InSlot(t.by_tier, slot, figure)
           by_class == [class \in CLASSES |-> t.by_class[class] + part[class]]
           more == [total |-> t.total + figure, requests |-> t.requests + 1,
                    by_tier |-> by_tier, by_class |-> by_class]
<1>1. Add(q, l.models, t) = more
  BY DEF Add, PartOf, FigureOf, SlotOf, SumOf, FoldFunction, FoldFunctionOnSet, MapThenFoldSet
<1>2. /\ part \in [CLASSES -> Nat] /\ figure \in Nat /\ slot \in Slots /\ figure = SumOf(part)
  BY PartIs DEF FigureOf
<1>3. /\ t.total \in Nat /\ t.requests \in Nat /\ t.by_class \in [CLASSES -> Nat]
      /\ \E slots \in SUBSET Slots : t.by_tier \in [slots -> Nat]
      /\ IsFiniteSet(DOMAIN t.by_tier)
      /\ SumOf(t.by_tier) = t.total /\ SumOf(t.by_class) = t.total
  BY DEF Sound, Tallies
<1> HIDE DEF part, figure, slot
<1>4. PICK slots \in SUBSET Slots : t.by_tier \in [slots -> Nat]
  BY <1>3
<1>5. IsFiniteSet(slots) /\ IsFiniteSet(slots \cup {slot})
  <2>1. DOMAIN t.by_tier = slots
    BY <1>4
  <2> QED
    BY <1>3, <2>1, FS_AddElement
<1>6. by_tier \in [slots \cup {slot} -> Nat] /\ SumOf(by_tier) = t.total + figure
  <2> DEFINE old == t.by_tier
  <2>1. old \in [slots -> Nat] /\ SumOf(old) = t.total
    BY <1>3, <1>4
  <2>2. by_tier = InSlot(old, slot, figure)
    OBVIOUS
  <2> HIDE DEF old, by_tier, by_class, more
  <2>3. figure \in Nat /\ IsFiniteSet(slots)
    BY <1>2, <1>5
  <2>4. SlotAdds(old, slots, slot, figure)
    BY <2>1, <2>3, SumOfSlot
  <2> QED
    BY <2>1, <2>2, <2>4 DEF SlotAdds
<1>7. by_class \in [CLASSES -> Nat] /\ SumOf(by_class) = t.total + figure
  <2>1. SumOf(by_class) = SumOf(t.by_class) + SumOf(part)
    BY <1>2, <1>3, ClassesAreFinite, SumOfParts
  <2>2. by_class \in [CLASSES -> Nat]
    BY <1>2, <1>3
  <2> QED
    BY <1>2, <1>3, <2>1, <2>2
<1> HIDE DEF by_tier, by_class
<1>8. by_tier \in UNION {[s -> Nat] : s \in SUBSET Slots} /\ IsFiniteSet(DOMAIN by_tier)
  <2>1. slots \cup {slot} \in SUBSET Slots
    BY <1>2
  <2>2. DOMAIN by_tier = slots \cup {slot}
    BY <1>6
  <2> QED
    BY <1>5, <1>6, <2>1, <2>2
<1>9. more \in Tallies
  BY <1>2, <1>3, <1>7, <1>8 DEF Tallies
<1>10. more.by_tier = by_tier /\ more.by_class = by_class /\ more.total = t.total + figure
  OBVIOUS
<1> HIDE DEF more
<1> QED
  BY <1>1, <1>6, <1>7, <1>8, <1>9, <1>10 DEF Sound, figure

Billing(found_) == {id \in DOMAIN found_ : ~Synthetic(found_[id])}

(* All of the requests are priced, each into a sound figure, which is the  *)
(* sum of what each is billed.                                             *)
LEMMA PriceIs ==
  ASSUME NEW l \in Lists, Valid(l), NEW f, IsFiniteSet(DOMAIN f),
         \A id \in Billing(f) : Payable(f[id], l.models)
  PROVE  \E I : /\ Summed(I, [id \in Billing(f) |-> FigureOf(f[id], l.models)], Billing(f))
                /\ PriceRequests(f, l.models) \in Sound
                /\ PriceRequests(f, l.models).total = I[Billing(f)]
<1> DEFINE billed == Billing(f)
           F == [id \in billed |-> FigureOf(f[id], l.models)]
           op == [p \in billed \X Sound |-> Add(f[p[1]], l.models, p[2])]
           Adds(J) == J = [s \in SUBSET billed |-> IF s = {} THEN NoTally
                             ELSE Add(f[CHOOSE x \in s : TRUE], l.models,
                                      J[s \ {CHOOSE x \in s : TRUE}])]
           C == CHOOSE J : Adds(J)
<1>1. IsFiniteSet(billed) /\ \A id \in billed : Payable(f[id], l.models)
  BY FS_Subset DEF Billing
<1> HIDE DEF billed
<1>2. \A id \in billed : F[id] = FigureOf(f[id], l.models) /\ F[id] \in Nat
  BY <1>1, PartIs
<1>3. \A id \in billed : \A t \in Sound : /\ Add(f[id], l.models, t) \in Sound
                                           /\ Add(f[id], l.models, t).total = t.total + F[id]
  BY <1>1, <1>2, AddKeeps
<1>4. Numbers(F, billed)
  BY <1>2 DEF Numbers
<1> HIDE DEF F
<1>5. PICK I : Summed(I, F, billed)
  BY <1>1, <1>4, SumExists
<1>6. \E J : Adds(J)
  <2>1. op \in [billed \X Sound -> Sound]
    BY <1>3
  <2>2. \A id \in billed, t \in Sound : op[<<id, t>>] = Add(f[id], l.models, t)
    OBVIOUS
  <2> HIDE DEF op
  <2>3. PICK J : Folded(J, NoTally, op, billed)
    BY <1>1, FoldExists
  <2>4. J \in [SUBSET billed -> Sound]
    BY <1>1, <2>1, <2>3, NothingIsSound, FoldIs
  <2>5. ASSUME NEW s \in SUBSET billed
        PROVE  J[s] = IF s = {} THEN NoTally ELSE Add(f[Pick(s)], l.models, J[Rest(s)])
    <3>1. J[s] = IF s = {} THEN NoTally ELSE op[<<Pick(s), J[Rest(s)]>>]
      BY <2>3 DEF Folded
    <3>2. s # {} => Pick(s) \in billed /\ Rest(s) \in SUBSET billed
      BY PickIs
    <3> QED
      BY <2>2, <2>4, <3>1, <3>2
  <2>6. J = [s \in SUBSET billed |-> J[s]]
    BY <2>4
  <2>7. Adds(J)
    BY <2>5, <2>6 DEF Pick, Rest
  <2> QED
    BY <2>7
<1>7. Adds(C)
  <2> HIDE DEF Adds
  <2> QED
    BY <1>6
<1>8. PriceRequests(f, l.models) = C[billed]
  <2>1. \A id \in billed : Priced(f[id], l.models)
    BY <1>1, PartIs DEF Priced, Payable
  <2>2. PriceRequests(f, l.models)
          = FoldSet(LAMBDA id, tally : Add(f[id], l.models, tally), NoTally, billed)
    BY <2>1 DEF PriceRequests, Billing, billed
  <2> QED
    BY <2>2 DEF FoldSet, MapThenFoldSet
<1>9. \A s \in SUBSET billed :
        C[s] = IF s = {} THEN NoTally ELSE Add(f[Pick(s)], l.models, C[Rest(s)])
  <2> HIDE DEF C
  <2> QED
    BY <1>7 DEF Pick, Rest
<1> HIDE DEF C, op
<1>10. /\ I[{}] = 0 /\ I \in [SUBSET billed -> Nat]
       /\ \A s \in SUBSET billed : s # {} => I[s] = F[Pick(s)] + I[Rest(s)]
  <2>1. I[{}] = 0 /\ I \in [SUBSET billed -> Nat]
    BY <1>1, <1>4, <1>5, SumIs, SumTyped
  <2>2. \A s \in SUBSET billed : s # {} => I[s] = F[Pick(s)] + I[Rest(s)]
    BY <1>5 DEF Summed
  <2> QED
    BY <2>1, <2>2
<1> DEFINE bad == {s \in SUBSET billed : ~(C[s] \in Sound /\ C[s].total = I[s])}
<1>11. ASSUME bad # {} PROVE FALSE
  <2>1. PICK s \in bad : \A t \in bad : t \subseteq s => t = s
    <3>1. bad \subseteq SUBSET billed
      OBVIOUS
    <3> HIDE DEF bad
    <3> QED
      BY <1>1, <1>11, <3>1, MinimalSet
  <2>2. s \in SUBSET billed /\ ~(C[s] \in Sound /\ C[s].total = I[s])
    OBVIOUS
  <2>3. s # {}
    <3>1. C[{}] = NoTally
      BY <1>9
    <3> QED
      BY <1>10, <2>2, <3>1, NothingIsSound
  <2> DEFINE r == Rest(s)
  <2>4. Pick(s) \in billed /\ r \in SUBSET billed /\ r \notin bad
    <3>1. Pick(s) \in billed /\ r \in SUBSET billed /\ r # s /\ r \subseteq s
      BY <2>2, <2>3, PickIs
    <3> HIDE DEF bad, r
    <3> QED
      BY <2>1, <3>1
  <2>5. C[r] \in Sound /\ C[r].total = I[r]
    BY <2>4
  <2>6. C[s] = Add(f[Pick(s)], l.models, C[r])
    BY <1>9, <2>2, <2>3
  <2>7. I[s] = F[Pick(s)] + I[r] /\ F[Pick(s)] \in Nat /\ I[r] \in Nat
    BY <1>2, <1>10, <2>2, <2>3, <2>4
  <2> HIDE DEF r, bad
  <2>8. C[s] \in Sound /\ C[s].total = I[r] + F[Pick(s)]
    BY <1>3, <2>4, <2>5, <2>6
  <2> QED
    BY <2>2, <2>7, <2>8
<1>12. C[billed] \in Sound /\ C[billed].total = I[billed]
  BY <1>11
<1> QED
  BY <1>5, <1>8, <1>12 DEF F, billed

-----------------------------------------------------------------------------
(* What has been read is a function of the set of the events.              *)

Asks(events) == {e \in events : e.kind = "assistant"}
Request(e) == [model |-> e.model, usage |-> e.usage]

Consistent(events) ==
  /\ \A e \in events : e.kind # "torn"
  /\ \A e \in Asks(events) : e.id # NoId
  /\ \A d, e \in Asks(events) : d.id = e.id => Request(d) = Request(e)

FoundOf(events) ==
  IF Asks(events) = {} THEN << >>
  ELSE [id \in {e.id : e \in Asks(events)} |->
          Request(CHOOSE e \in Asks(events) : e.id = id)]

LEMMA FoundOfIs ==
  ASSUME NEW events, Consistent(events)
  PROVE  /\ DOMAIN FoundOf(events) = {e.id : e \in Asks(events)}
         /\ \A e \in Asks(events) : FoundOf(events)[e.id] = Request(e)
<1>1. CASE Asks(events) = {}
  BY <1>1 DEF FoundOf
<1>2. CASE Asks(events) # {}
  <2>1. FoundOf(events) = [id \in {e.id : e \in Asks(events)} |->
                             Request(CHOOSE e \in Asks(events) : e.id = id)]
    BY <1>2 DEF FoundOf
  <2>2. ASSUME NEW e \in Asks(events) PROVE FoundOf(events)[e.id] = Request(e)
    <3> DEFINE d == CHOOSE d \in Asks(events) : d.id = e.id
    <3>1. d \in Asks(events) /\ d.id = e.id
      OBVIOUS
    <3>2. FoundOf(events)[e.id] = Request(d)
      BY <2>1
    <3> HIDE DEF d
    <3> QED
      BY <3>1, <3>2 DEF Consistent
  <2> QED
    BY <2>1, <2>2
<1> QED
  BY <1>1, <1>2

(* A line that asks adds itself.                                           *)
LEMMA FoundOfMore ==
  ASSUME NEW events, NEW e, Consistent(events), e.kind = "assistant", e.id # NoId,
         e.id \in DOMAIN FoundOf(events) => FoundOf(events)[e.id] = Request(e)
  PROVE  /\ Consistent(events \cup {e})
         /\ FoundOf(events \cup {e}) =
              [id \in DOMAIN FoundOf(events) \cup {e.id} |->
                 IF id = e.id THEN Request(e) ELSE FoundOf(events)[id]]
<1> DEFINE more == events \cup {e}
           f == FoundOf(events)
           g == [id \in DOMAIN f \cup {e.id} |-> IF id = e.id THEN Request(e) ELSE f[id]]
<1>1. Asks(more) = Asks(events) \cup {e}
  BY DEF Asks
<1>2. Consistent(more)
  <2>1. \A d \in Asks(events) : d.id = e.id => Request(d) = Request(e)
    BY FoundOfIs
  <2> QED
    BY <1>1, <2>1 DEF Consistent
<1>3. /\ FoundOf(more) = [id \in {d.id : d \in Asks(more)} |->
                            Request(CHOOSE d \in Asks(more) : d.id = id)]
      /\ \A d \in Asks(more) : FoundOf(more)[d.id] = Request(d)
  BY <1>1, <1>2, FoundOfIs DEF FoundOf
<1>4. DOMAIN f \cup {e.id} = {d.id : d \in Asks(more)}
  <2>1. DOMAIN f = {d.id : d \in Asks(events)}
    BY FoundOfIs
  <2> HIDE DEF f, more
  <2> QED
    BY <1>1, <2>1
<1>5. ASSUME NEW d \in Asks(more) PROVE g[d.id] = FoundOf(more)[d.id]
  <2>1. d \in Asks(events) => f[d.id] = Request(d)
    BY FoundOfIs
  <2>2. FoundOf(more)[d.id] = Request(d) /\ (d.id = e.id => Request(d) = Request(e))
    BY <1>1, <1>2, <1>3 DEF Consistent
  <2>3. d.id \in DOMAIN f \cup {e.id}
    BY <1>4
  <2> HIDE DEF f
  <2> QED
    BY <1>1, <2>1, <2>2, <2>3
<1> QED
  <2> HIDE DEF f, more
  <2>1. FoundOf(more) = g
    <3> HIDE DEF g
    <3>1. g = [id \in {d.id : d \in Asks(more)} |-> g[id]]
      BY <1>4 DEF g
    <3> QED
      BY <1>3, <1>5, <3>1
  <2> QED
    BY <1>2, <2>1 DEF f, more

(* What is refused cannot be read on from.                                 *)
LEMMA RefusedIsInconsistent ==
  ASSUME NEW events, NEW part \in SUBSET events, NEW e \in events, Consistent(part),
         \/ e.kind = "torn"
         \/ /\ e.kind = "assistant"
            /\ \/ e.id = NoId
               \/ e.id \in DOMAIN FoundOf(part) /\ FoundOf(part)[e.id] # Request(e)
  PROVE  ~Consistent(events)
<1> SUFFICES ASSUME Consistent(events) PROVE FALSE
  OBVIOUS
<1>1. Asks(part) \subseteq Asks(events)
  BY DEF Asks
<1>2. e \in Asks(events) /\ e.id # NoId
  BY DEF Consistent, Asks
<1>3. e.id \in DOMAIN FoundOf(part) /\ FoundOf(part)[e.id] # Request(e)
  BY <1>2 DEF Consistent
<1>4. PICK d \in Asks(part) : d.id = e.id
  BY <1>3, FoundOfIs
<1>5. FoundOf(part)[e.id] = Request(d)
  BY <1>4, FoundOfIs
<1> QED
  BY <1>1, <1>2, <1>3, <1>4, <1>5 DEF Consistent

-----------------------------------------------------------------------------
(* The bill of the events, and the figure of what was found in them.       *)

LEMMA ImageIsFinite ==
  ASSUME NEW S, IsFiniteSet(S), NEW f, DOMAIN f = S, f = [x \in S |-> f[x]]
  PROVE  IsFiniteSet({f[x] : x \in S})
<1> DEFINE T == {f[x] : x \in S}
<1>1. f \in [S -> T]
  OBVIOUS
<1>2. f \in Surjection(S, T)
  BY <1>1 DEF Surjection
<1> HIDE DEF T
<1>3. IsFiniteSet(T)
  BY <1>2, FS_Surjection
<1> QED
  BY <1>3 DEF T

(* Two records of one request are priced alike.                            *)
LEMMA AlikePriced ==
  ASSUME NEW p, NEW q, p.model = q.model, p.usage = q.usage, NEW models
  PROVE  /\ Synthetic(p) <=> Synthetic(q)
         /\ Payable(p, models) <=> Payable(q, models)
         /\ FigureOf(p, models) = FigureOf(q, models)
<1>1. /\ Synthetic(p) <=> Synthetic(q)
      /\ Payable(p, models) <=> Payable(q, models)
  BY DEF Synthetic, Payable
<1>2. PartOf(p, models) = PartOf(q, models)
  BY DEF PartOf
<1> QED
  BY <1>1, <1>2 DEF FigureOf

Ask(e) == [id |-> e.id, model |-> e.model, usage |-> e.usage]

LEMMA RequestsAre == ASSUME NEW events PROVE Requests(events) = {Ask(e) : e \in Asks(events)}
BY DEF Requests, Asks, Ask

LEMMA FoundIs ==
  ASSUME NEW r \in Runs, Consistent(Events[r])
  PROVE  LET f == FoundOf(Events[r])
         IN /\ IsFiniteSet(Asks(Events[r])) /\ IsFiniteSet(DOMAIN f)
            /\ \A id \in DOMAIN f : UsageRead(f[id].usage)
<1> DEFINE asks == Asks(Events[r])
           f == FoundOf(Events[r])
           ids == [e \in asks |-> e.id]
<1>1. IsFiniteSet(asks)
  <2>1. asks \in SUBSET Events[r] /\ IsFiniteSet(Events[r])
    BY RunsAssumption DEF Asks
  <2> HIDE DEF asks
  <2> QED
    BY <2>1, FS_Subset
<1>2. DOMAIN f = {e.id : e \in asks} /\ \A e \in asks : f[e.id] = Request(e)
  BY FoundOfIs
<1>3. \A e \in asks : UsageRead(e.usage)
  BY RunsAssumption DEF Asks, UsageRead
<1> HIDE DEF asks, f
<1>4. IsFiniteSet(DOMAIN f)
  <2>1. IsFiniteSet({ids[e] : e \in asks})
    BY <1>1, ImageIsFinite
  <2>2. {ids[e] : e \in asks} = DOMAIN f
    BY <1>2
  <2> QED
    BY <2>1, <2>2
<1>5. ASSUME NEW id \in DOMAIN f PROVE UsageRead(f[id].usage)
  <2>1. PICK e \in asks : e.id = id
    BY <1>2
  <2>2. f[id] = Request(e)
    BY <1>2, <2>1
  <2>3. Request(e).usage = e.usage
    BY DEF Request
  <2> QED
    BY <1>3, <2>1, <2>2, <2>3
<1> QED
  BY <1>1, <1>4, <1>5 DEF asks, f

(* A request of the set is one that was found, under its id.               *)
LEMMA AsksAreFound ==
  ASSUME NEW events, Consistent(events)
  PROVE  LET f == FoundOf(events)
         IN /\ \A q \in Requests(events) :
                 q.id \in DOMAIN f /\ q.model = f[q.id].model /\ q.usage = f[q.id].usage
            /\ \A id \in DOMAIN f :
                 [id |-> id, model |-> f[id].model, usage |-> f[id].usage] \in Requests(events)
            /\ \A q \in Requests(events) :
                 q = [id |-> q.id, model |-> f[q.id].model, usage |-> f[q.id].usage]
<1> DEFINE f == FoundOf(events)
<1>1. DOMAIN f = {e.id : e \in Asks(events)} /\ \A e \in Asks(events) : f[e.id] = Request(e)
  BY FoundOfIs
<1> HIDE DEF f
<1>2. \A e \in Asks(events) : f[e.id].model = e.model /\ f[e.id].usage = e.usage
  <2>1. \A e \in Asks(events) : Request(e).model = e.model /\ Request(e).usage = e.usage
    BY DEF Request
  <2> QED
    BY <1>1, <2>1
<1>3. ASSUME NEW q \in Requests(events)
      PROVE  /\ q.id \in DOMAIN f /\ q.model = f[q.id].model /\ q.usage = f[q.id].usage
             /\ q = [id |-> q.id, model |-> f[q.id].model, usage |-> f[q.id].usage]
  <2>1. PICK e \in Asks(events) : q = Ask(e)
    BY RequestsAre
  <2>2. q.id = e.id /\ q.model = e.model /\ q.usage = e.usage
    BY <2>1 DEF Ask
  <2> QED
    BY <1>1, <1>2, <2>1, <2>2 DEF Ask
<1>4. ASSUME NEW id \in DOMAIN f
      PROVE  [id |-> id, model |-> f[id].model, usage |-> f[id].usage] \in Requests(events)
  <2>1. PICK e \in Asks(events) : e.id = id
    BY <1>1
  <2>2. [id |-> id, model |-> f[id].model, usage |-> f[id].usage] = Ask(e)
    BY <1>2, <2>1 DEF Ask
  <2> QED
    BY <2>2, RequestsAre
<1> QED
  BY <1>3, <1>4 DEF f

LEMMA BillableIs ==
  ASSUME NEW r \in Runs, NEW models
  PROVE  LET f == FoundOf(Events[r])
         IN Billable(Events[r], models) <=>
              /\ Consistent(Events[r])
              /\ \A id \in Billing(f) : Payable(f[id], models)
<1> DEFINE events == Events[r]
           f == FoundOf(events)
<1>1. Billable(events, models) => Consistent(events)
  <2> SUFFICES ASSUME Billable(events, models) PROVE Consistent(events)
    OBVIOUS
  <2>1. \A e \in Asks(events) : Ask(e) \in Requests(events)
    BY RequestsAre
  <2>2. \A e \in Asks(events) : Ask(e).id # NoId
    BY <2>1 DEF Billable
  <2>3. \A e \in Asks(events) : e.id # NoId
    BY <2>2 DEF Ask
  <2>4. ASSUME NEW d \in Asks(events), NEW e \in Asks(events), d.id = e.id
        PROVE  Request(d) = Request(e)
    <3>1. Ask(d).id = Ask(e).id
      BY <2>4 DEF Ask
    <3>2. Ask(d) = Ask(e)
      BY <2>1, <3>1 DEF Billable
    <3>3. Ask(d).model = Ask(e).model /\ Ask(d).usage = Ask(e).usage
      BY <3>2
    <3> QED
      BY <3>3 DEF Ask, Request
  <2>5. \A e \in events : e.kind # "torn"
    BY DEF Billable
  <2> QED
    BY <2>3, <2>4, <2>5 DEF Consistent
<1>2. ASSUME Consistent(events)
      PROVE  Billable(events, models) <=> \A id \in Billing(f) : Payable(f[id], models)
  <2>1. /\ \A q \in Requests(events) :
             q.id \in DOMAIN f /\ q.model = f[q.id].model /\ q.usage = f[q.id].usage
        /\ \A id \in DOMAIN f :
             [id |-> id, model |-> f[id].model, usage |-> f[id].usage] \in Requests(events)
        /\ \A q \in Requests(events) :
             q = [id |-> q.id, model |-> f[q.id].model, usage |-> f[q.id].usage]
    BY <1>2, AsksAreFound
  <2>2. \A id \in DOMAIN f : UsageRead(f[id].usage)
    BY <1>2, FoundIs
  <2>3. /\ \A e \in events : e.kind # "torn"
        /\ \A q1, q2 \in Requests(events) : q1.id = q2.id => q1 = q2
    <3>1. \A e \in events : e.kind # "torn"
      BY <1>2 DEF Consistent
    <3>2. \A q1, q2 \in Requests(events) : q1.id = q2.id => q1 = q2
      BY <2>1
    <3> QED
      BY <3>1, <3>2
  <2>4. \A q \in Requests(events) : q.id # NoId
    <3>1. \A e \in Asks(events) : Ask(e).id # NoId
      BY <1>2 DEF Consistent, Ask
    <3> QED
      BY <3>1, RequestsAre
  <2> DEFINE Fine(q) == Synthetic(q) \/ (TokensKnown(q.usage) /\ q.model \in DOMAIN models)
             BothFine == \A q \in Requests(events) : Fine(q)
             AllPayable == \A id \in Billing(f) : Payable(f[id], models)
  <2>5. \A q \in Requests(events) : Fine(q) <=> Synthetic(f[q.id]) \/ Payable(f[q.id], models)
    <3> SUFFICES ASSUME NEW q \in Requests(events)
                 PROVE  Fine(q) <=> Synthetic(f[q.id]) \/ Payable(f[q.id], models)
      OBVIOUS
    <3>1. /\ q.id \in DOMAIN f /\ q.model = f[q.id].model /\ q.usage = f[q.id].usage
          /\ UsageRead(f[q.id].usage)
      BY <2>1, <2>2
    <3>2. Synthetic(q) <=> Synthetic(f[q.id])
      BY <3>1, AlikePriced
    <3> QED
      BY <3>1, <3>2 DEF Payable
  <2>6. BothFine => AllPayable
    <3> SUFFICES ASSUME BothFine, NEW id \in Billing(f) PROVE Payable(f[id], models)
      OBVIOUS
    <3> DEFINE q == [id |-> id, model |-> f[id].model, usage |-> f[id].usage]
    <3>1. id \in DOMAIN f /\ ~Synthetic(f[id])
      BY DEF Billing
    <3>2. q \in Requests(events) /\ q.id = id
      BY <2>1, <3>1
    <3> HIDE DEF q, f, Fine
    <3> QED
      BY <2>5, <3>1, <3>2
  <2>7. AllPayable => BothFine
    <3> HIDE DEF f, Fine
    <3> QED
      BY <2>1, <2>5 DEF Billing
  <2>8. Billable(events, models) <=> BothFine
    BY <2>3, <2>4 DEF Billable
  <2> QED
    BY <2>6, <2>7, <2>8
<1> QED
  BY <1>1, <1>2

(* Requests that cannot all be priced are refused.                         *)
LEMMA PriceRefuses ==
  ASSUME NEW f, NEW models, NEW id \in Billing(f), ~Payable(f[id], models), UsageRead(f[id].usage)
  PROVE  PriceRequests(f, models) = None
<1>1. ~Priced(f[id], models)
  BY DEF Priced, Payable
<1>2. \E x \in {k \in DOMAIN f : ~Synthetic(f[k])} : ~Priced(f[x], models)
  BY <1>1 DEF Billing
<1> QED
  BY <1>2 DEF PriceRequests

(* What MapThenSumSet adds up.                                             *)
Sums(T, models) == MapThenSumSet(LAMBDA q : Billed(q, models), T)

LEMMA BillAdds ==
  ASSUME NEW models, NEW T, IsFiniteSet(T), NEW G, Numbers(G, T),
         \A q \in T : Billed(q, models) = G[q]
  PROVE  \E J : Summed(J, G, T) /\ Sums(T, models) = J[T]
<1> DEFINE Adds(J) == J = [s \in SUBSET T |-> IF s = {} THEN 0
                             ELSE Billed(CHOOSE x \in s : TRUE, models)
                                  + J[s \ {CHOOSE x \in s : TRUE}]]
           C == CHOOSE J : Adds(J)
<1>1. PICK J : Summed(J, G, T)
  BY SumExists
<1>2. \A s \in SUBSET T : s # {} => Billed(Pick(s), models) = G[Pick(s)]
  BY PickIs
<1>3. ASSUME NEW K PROVE Summed(K, G, T) <=> Adds(K)
  BY <1>2, ZenonT(30) DEF Summed, Pick, Rest
<1>4. Adds(C)
  <2> HIDE DEF Adds
  <2>1. Adds(J)
    BY <1>1, <1>3
  <2> QED
    BY <2>1
<1>5. Summed(C, G, T)
  <2> HIDE DEF Adds, C
  <2> QED
    BY <1>3, <1>4
<1>6. Sums(T, models) = C[T]
  BY DEF Sums, MapThenSumSet, MapThenFoldSet
<1> HIDE DEF C
<1> QED
  BY <1>5, <1>6

LEMMA FigureIsBill ==
  ASSUME NEW r \in Runs, Consistent(Events[r]), NEW l \in Lists, Valid(l),
         \A id \in Billing(FoundOf(Events[r])) : Payable(FoundOf(Events[r])[id], l.models)
  PROVE  /\ PriceRequests(FoundOf(Events[r]), l.models) \in Sound
         /\ PriceRequests(FoundOf(Events[r]), l.models).total = Bill(Events[r], l.models)
<1> DEFINE events == Events[r]
           f == FoundOf(events)
           billed == Billing(f)
           F == [id \in billed |-> FigureOf(f[id], l.models)]
           T == {q \in Requests(events) : ~Synthetic(q)}
           G == [q \in T |-> FigureOf(q, l.models)]
           name == [id \in billed |-> [id |-> id, model |-> f[id].model, usage |-> f[id].usage]]
<1>1. IsFiniteSet(Asks(events)) /\ IsFiniteSet(DOMAIN f)
  BY FoundIs
<1>2. /\ \A q \in Requests(events) :
           q.id \in DOMAIN f /\ q.model = f[q.id].model /\ q.usage = f[q.id].usage
      /\ \A id \in DOMAIN f :
           [id |-> id, model |-> f[id].model, usage |-> f[id].usage] \in Requests(events)
      /\ \A q \in Requests(events) :
           q = [id |-> q.id, model |-> f[q.id].model, usage |-> f[q.id].usage]
  BY AsksAreFound
<1>3. IsFiniteSet(T)
  <2> DEFINE ask == [e \in Asks(events) |-> Ask(e)]
  <2>1. IsFiniteSet({ask[e] : e \in Asks(events)})
    BY <1>1, ImageIsFinite
  <2>2. {ask[e] : e \in Asks(events)} = Requests(events)
    BY RequestsAre
  <2>3. T \in SUBSET Requests(events)
    OBVIOUS
  <2> HIDE DEF T, ask
  <2> QED
    BY <2>1, <2>2, <2>3, FS_Subset
<1>4. /\ IsFiniteSet(billed) /\ billed \subseteq DOMAIN f
      /\ \A id \in billed : ~Synthetic(f[id]) /\ Payable(f[id], l.models)
  BY <1>1, FS_Subset DEF Billing
<1>5. \A id \in DOMAIN f : id \in billed <=> ~Synthetic(f[id])
  BY DEF Billing
<1>6. PICK I : /\ Summed(I, F, billed)
               /\ PriceRequests(f, l.models) \in Sound
               /\ PriceRequests(f, l.models).total = I[billed]
  BY <1>1, PriceIs
<1> HIDE DEF f, billed
<1>7. ASSUME NEW q \in T
      PROVE  /\ q.id \in billed /\ Payable(q, l.models)
             /\ FigureOf(q, l.models) = FigureOf(f[q.id], l.models)
  <2>1. q.id \in DOMAIN f /\ q.model = f[q.id].model /\ q.usage = f[q.id].usage /\ ~Synthetic(q)
    BY <1>2
  <2> QED
    BY <1>4, <1>5, <2>1, AlikePriced
<1>8. ASSUME NEW id \in billed
      PROVE  name[id] \in T /\ name[id].id = id
  <2>1. /\ name[id] \in Requests(events) /\ name[id].id = id
        /\ name[id].model = f[id].model /\ name[id].usage = f[id].usage
    BY <1>2, <1>4
  <2> HIDE DEF name
  <2>2. ~Synthetic(name[id])
    BY <1>4, <2>1, AlikePriced
  <2> QED
    BY <2>1, <2>2
<1>9. name \in [billed -> T] /\ \A x, y \in billed : name[x] = name[y] => x = y
  BY <1>8
<1>10. {name[id] : id \in billed} = T
  <2>1. ASSUME NEW q \in T PROVE q.id \in billed /\ q = name[q.id]
    <3>1. q.id \in billed
      BY <1>7
    <3>2. name[q.id] = [id |-> q.id, model |-> f[q.id].model, usage |-> f[q.id].usage]
      BY <3>1
    <3> HIDE DEF name
    <3>3. q \in Requests(events)
      OBVIOUS
    <3> QED
      BY <1>2, <3>1, <3>2, <3>3
  <2>2. \A id \in billed : name[id] \in T
    BY <1>8
  <2> HIDE DEF name, T
  <2> QED
    BY <2>1, <2>2
<1>11. \A q \in T : G[q] = FigureOf(q, l.models) /\ G[q] \in Nat /\ Billed(q, l.models) = G[q]
  BY <1>7, PartIs, BilledIs
<1>12. \A id \in billed : F[id] \in Nat /\ G[name[id]] = F[id]
  <2> SUFFICES ASSUME NEW id \in billed PROVE F[id] \in Nat /\ G[name[id]] = F[id]
    OBVIOUS
  <2>1. F[id] = FigureOf(f[id], l.models) /\ F[id] \in Nat
    BY <1>4, PartIs
  <2>2. G[name[id]] = FigureOf(f[id], l.models)
    BY <1>7, <1>8, <1>11
  <2> QED
    BY <2>1, <2>2
<1>13. Numbers(F, billed) /\ Numbers(G, T)
  BY <1>11, <1>12 DEF Numbers
<1>14. Bill(events, l.models) = Sums(T, l.models)
  BY DEF Bill, Sums
<1> HIDE DEF F, G, T, name
<1>15. PICK J : Summed(J, G, T) /\ Sums(T, l.models) = J[T]
  BY <1>3, <1>11, <1>13, BillAdds
<1>16. I[billed] = J[{name[id] : id \in billed}]
  BY <1>3, <1>4, <1>6, <1>9, <1>12, <1>13, <1>15, SumMatch
<1> QED
  BY <1>6, <1>10, <1>14, <1>15, <1>16 DEF f

-----------------------------------------------------------------------------
(* A label names one list.                                                 *)

LEMMA LabelNamesOneList ==
  ASSUME NEW k \in Lists, NEW l \in Lists, PlacedRight(k), PlacedRight(l),
         k.price_list_id = l.price_list_id
  PROVE  k.dirs = l.dirs /\ k.stem = l.stem
<1>1. k.vendor = l.vendor /\ k.effective_date = l.effective_date
  BY DEF PlacedRight
<1>2. k.stem = l.stem
  BY <1>1 DEF PlacedRight
<1>3. /\ k.dirs \in Seq(Range(k.dirs)) /\ l.dirs \in Seq(Range(l.dirs))
      /\ Len(k.dirs) = 1 /\ Len(l.dirs) = 1 /\ k.dirs[1] = l.dirs[1]
  BY <1>1, ListsAssumption DEF PlacedRight
<1>4. /\ k.dirs = [i \in 1..Len(k.dirs) |-> k.dirs[i]]
      /\ l.dirs = [i \in 1..Len(l.dirs) |-> l.dirs[i]]
  BY <1>3
<1> QED
  BY <1>2, <1>3, <1>4

-----------------------------------------------------------------------------
(* The inductive invariant.                                                *)

Figure(l) ==
  IF l # None /\ Consistent(Events[run])
  THEN PriceRequests(FoundOf(Events[run]), l.models) ELSE None

PublishedApart ==
  /\ \A l \in lists : Valid(l)
  /\ \A k, l \in lists : k.dirs = l.dirs /\ k.stem = l.stem => k = l

ReadSoFar ==
  /\ Consistent(read)
  /\ found = FoundOf(read)
  /\ list = None => read = {}

FiguresAreOfLists ==
  \A x \in figures : \E l \in lists \cup {None} : x = [label |-> Label(l), result |-> Figure(l)]

Types ==
  /\ lists \subseteq Lists
  /\ run \in Runs
  /\ list \in lists \cup {None}
  /\ read \subseteq Events[run]

Inv == Types /\ PublishedApart /\ ReadSoFar /\ FiguresAreOfLists

LEMMA NothingRead == Consistent({}) /\ FoundOf({}) = << >>
BY DEF Consistent, FoundOf, Asks

LEMMA InvInit == Init => Inv
BY NothingRead DEF Init, Inv, Types, PublishedApart, ReadSoFar, FiguresAreOfLists

LEMMA InvPublish == ASSUME Inv, NEW p \in Lists, Publish(p) PROVE Inv'
<1> USE DEF Inv, Publish
<1>1. Types' /\ ReadSoFar'
  BY DEF Types, ReadSoFar
<1>2. PublishedApart'
  BY DEF PublishedApart
<1>3. FiguresAreOfLists'
  <2> SUFFICES ASSUME NEW x \in figures
               PROVE  \E l \in lists' \cup {None} : x = [label |-> Label(l), result |-> Figure(l)']
    BY DEF FiguresAreOfLists, Label
  <2>1. PICK l \in lists \cup {None} : x = [label |-> Label(l), result |-> Figure(l)]
    BY DEF FiguresAreOfLists
  <2>2. Figure(l)' = Figure(l)
    BY DEF Figure
  <2> QED
    BY <2>1, <2>2
<1> QED
  BY <1>1, <1>2, <1>3

(* Whatever is printed is the figure of a list that is published.          *)
LEMMA PrintsKeeps ==
  ASSUME Inv, UNCHANGED <<lists, run>>, NEW l \in lists \cup {None}, Prints(Label(l), Figure(l))
  PROVE  Inv'
<1> USE DEF Inv, Prints
<1>1. Types' /\ PublishedApart'
  BY DEF Types, PublishedApart
<1>2. ReadSoFar'
  BY NothingRead DEF ReadSoFar
<1>3. FiguresAreOfLists'
  <2> SUFFICES ASSUME NEW x \in figures'
               PROVE  \E k \in lists \cup {None} : x = [label |-> Label(k), result |-> Figure(k)']
    BY DEF FiguresAreOfLists, Label
  <2>1. \A k : Figure(k)' = Figure(k)
    BY DEF Figure
  <2>2. PICK k \in lists \cup {None} : x = [label |-> Label(k), result |-> Figure(k)]
    BY DEF FiguresAreOfLists
  <2> QED
    BY <2>1, <2>2
<1> QED
  BY <1>1, <1>2, <1>3

LEMMA InvStart == ASSUME Inv, Start PROVE Inv'
<1> DEFINE l == IF Row[run].vendor = NoVendor THEN None
                ELSE ListInForce(lists, Row[run].vendor, Row[run].day)
<1>1. l \in lists \cup {None}
  BY RunsAssumption, InForceIsPublished DEF Inv, Types
<1>2. /\ UNCHANGED <<lists, run>> /\ list = None
      /\ \/ l = None /\ Prints(None, None)
         \/ list' = l /\ UNCHANGED <<read, found, figures>>
  BY DEF Start, Idle
<1> HIDE DEF l
<1>3. CASE l = None /\ Prints(None, None)
  <2>1. Prints(Label(l), Figure(l))
    BY <1>3 DEF Label, Figure
  <2> QED
    BY <1>1, <1>2, <2>1, PrintsKeeps
<1>4. CASE list' = l /\ UNCHANGED <<read, found, figures>>
  <2>1. Types' /\ PublishedApart' /\ ReadSoFar'
    BY <1>1, <1>2, <1>4 DEF Inv, Types, PublishedApart, ReadSoFar
  <2>2. FiguresAreOfLists'
    BY <1>2, <1>4 DEF Inv, FiguresAreOfLists, Figure, Label
  <2> QED
    BY <2>1, <2>2 DEF Inv
<1> QED
  BY <1>2, <1>3, <1>4

LEMMA InvReadLine == ASSUME Inv, NEW e \in Events[run], ReadLine(e) PROVE Inv'
<1>1. /\ UNCHANGED <<lists, run>> /\ list \in lists /\ list # None
      /\ Consistent(read) /\ found = FoundOf(read) /\ read \subseteq Events[run]
  BY ListsAssumption DEF Inv, Types, ReadSoFar, ReadLine, Idle
<1>2. CASE Refused(e) /\ Prints(Label(list), None)
  <2>1. ~Consistent(Events[run])
    BY <1>1, <1>2, RefusedIsInconsistent DEF Refused, Request
  <2>2. Prints(Label(list), Figure(list))
    BY <1>2, <2>1 DEF Figure
  <2> QED
    BY <1>1, <2>2, PrintsKeeps
<1>3. CASE /\ ~Refused(e) /\ read' = read \cup {e}
           /\ found' = IF e.kind = "assistant" THEN Collected(e) ELSE found
           /\ UNCHANGED <<list, figures>>
  <2>1. Types' /\ PublishedApart'
    BY <1>1, <1>3 DEF Inv, Types, PublishedApart
  <2>2. FiguresAreOfLists'
    BY <1>1, <1>3 DEF Inv, FiguresAreOfLists, Figure, Label
  <2>3. Consistent(read') /\ found' = FoundOf(read')
    <3>1. CASE e.kind = "assistant"
      <4>1. /\ e.id # NoId
            /\ e.id \in DOMAIN FoundOf(read) => FoundOf(read)[e.id] = Request(e)
        BY <1>1, <1>3, <3>1 DEF Refused, Request
      <4>2. found' = [id \in DOMAIN FoundOf(read) \cup {e.id} |->
                        IF id = e.id THEN Request(e) ELSE FoundOf(read)[id]]
        BY <1>1, <1>3, <3>1 DEF Collected, Request
      <4> QED
        BY <1>1, <1>3, <3>1, <4>1, <4>2, FoundOfMore
    <3>2. CASE e.kind # "assistant"
      <4>1. Asks(read') = Asks(read)
        BY <1>3, <3>2 DEF Asks
      <4>2. e.kind # "torn"
        BY <1>3 DEF Refused
      <4> QED
        BY <1>1, <1>3, <3>2, <4>1, <4>2 DEF Consistent, FoundOf
    <3> QED
      BY <3>1, <3>2
  <2> QED
    BY <1>1, <1>3, <2>1, <2>2, <2>3 DEF Inv, ReadSoFar
<1> QED
  BY <1>2, <1>3 DEF ReadLine

LEMMA InvEndOfStream == ASSUME Inv, EndOfStream PROVE Inv'
<1>1. /\ UNCHANGED <<lists, run>> /\ list \in lists /\ list # None
      /\ Consistent(Events[run]) /\ found = FoundOf(Events[run])
      /\ Prints(Label(list), PriceRequests(found, list.models))
  BY DEF Inv, Types, ReadSoFar, EndOfStream, Idle
<1>2. Prints(Label(list), Figure(list))
  BY <1>1 DEF Figure
<1> QED
  BY <1>1, <1>2, PrintsKeeps

LEMMA InvInductive == Inv /\ [Next]_vars => Inv'
<1> SUFFICES ASSUME Inv, [Next]_vars PROVE Inv'
  OBVIOUS
<1>1. CASE UNCHANGED vars
  BY <1>1 DEF vars, Inv, Types, PublishedApart, ReadSoFar, FiguresAreOfLists, Figure, Label
<1> QED
  BY <1>1, InvPublish, InvStart, InvReadLine, InvEndOfStream DEF Next

LEMMA Invariant == Spec => []Inv
<1> QED
  BY InvInit, InvInductive, PTL DEF Spec

-----------------------------------------------------------------------------
(* Theorems.                                                               *)

(* Whatever is priced is priced by a published list, and what a stream has *)
(* given is what its events say (read_row, requests, list_in_force).       *)
THEOREM TypeCorrect == Spec => []TypeOK
<1>1. Inv => TypeOK
  <2> SUFFICES ASSUME Inv PROVE TypeOK
    OBVIOUS
  <2>1. ASSUME NEW id \in DOMAIN found
        PROVE  /\ id # NoId
               /\ \E e \in read : /\ e.id = id
                                  /\ found[id] = [model |-> e.model, usage |-> e.usage]
    <3>1. Consistent(read) /\ found = FoundOf(read)
      BY DEF Inv, ReadSoFar
    <3>2. /\ id \in {e.id : e \in Asks(read)}
          /\ \A e \in Asks(read) : found[e.id] = Request(e)
      BY <2>1, <3>1, FoundOfIs
    <3>3. PICK e \in Asks(read) : e.id = id /\ found[id] = Request(e)
      BY <3>2
    <3> QED
      BY <3>1, <3>3 DEF Consistent, Asks, Request
  <2>2. \A x \in figures : \E l \in lists \cup {None} : x.label = Label(l)
    BY DEF Inv, FiguresAreOfLists
  <2> QED
    BY <2>1, <2>2 DEF Inv, Types, TypeOK
<1> QED
  BY <1>1, Invariant, PTL

(* "The list names the figure": a run has one figure under one label, in   *)
(* whatever order its events were read and whatever was published between  *)
(* (price_requests, price_list_validate.py's placement).                   *)
THEOREM OneFigurePerLabel == Spec => []LabelNamesOneFigure
<1>1. Inv => LabelNamesOneFigure
  <2> SUFFICES ASSUME Inv, NEW x \in figures, NEW y \in figures, x.label = y.label
               PROVE  x = y
    BY DEF LabelNamesOneFigure
  <2>1. PICK k \in lists \cup {None} : x = [label |-> Label(k), result |-> Figure(k)]
    BY DEF Inv, FiguresAreOfLists
  <2>2. PICK l \in lists \cup {None} : y = [label |-> Label(l), result |-> Figure(l)]
    BY DEF Inv, FiguresAreOfLists
  <2>3. Label(k) = Label(l)
    BY <2>1, <2>2
  <2>4. k = l
    <3>1. \A m \in lists : m \in Lists /\ m # None /\ PlacedRight(m) /\ m.price_list_id # None
      BY ListsAssumption DEF Inv, Types, PublishedApart, Valid
    <3>2. CASE k = None \/ l = None
      BY <2>3, <3>1, <3>2 DEF Label
    <3>3. CASE k # None /\ l # None
      <4>1. k \in lists /\ l \in lists /\ k.price_list_id = l.price_list_id
        BY <2>3, <3>3 DEF Label
      <4>2. k.dirs = l.dirs /\ k.stem = l.stem
        BY <3>1, <4>1, LabelNamesOneList
      <4> QED
        BY <4>1, <4>2 DEF Inv, PublishedApart
    <3> QED
      BY <3>2, <3>3
  <2> QED
    BY <2>1, <2>2, <2>4
<1> QED
  BY <1>1, Invariant, PTL

(* "A newer list does not reach back": one dated after a run's day is not  *)
(* even a candidate for it (list_in_force).                                *)
THEOREM NoListReachesBack == Spec => NewerListsDoNotReachBack
<1>1. ASSUME Inv, [Next]_vars, lists' # lists, Row[run].vendor # NoVendor,
             \A l \in lists' \ lists : l.effective_date > Row[run].day
      PROVE  ListInForce(lists', Row[run].vendor, Row[run].day)
             = ListInForce(lists, Row[run].vendor, Row[run].day)
  <2>1. PICK p \in Lists : Publish(p)
    BY <1>1 DEF Next, vars, Start, ReadLine, EndOfStream
  <2>2. lists' = lists \cup {p} /\ p \notin lists /\ PlacedRight(p)
    BY <2>1 DEF Publish, Valid
  <2>3. p.stem > Row[run].day /\ Row[run].day \in Nat /\ p.stem \in Nat \cup {NotADate}
    BY <1>1, <2>2, RunsAssumption, ListsAssumption DEF PlacedRight, Inv, Types
  <2>4. p.stem # NotADate => ~(p.stem <= Row[run].day)
    BY <2>3
  <2>5. Eligible(lists', Row[run].vendor, Row[run].day) = Eligible(lists, Row[run].vendor, Row[run].day)
    BY <2>2, <2>4 DEF Eligible
  <2> QED
    BY <2>5 DEF ListInForce
<1>2. Inv /\ [Next]_vars
      => [/\ Row[run].vendor # NoVendor
          /\ \A l \in lists' \ lists : l.effective_date > Row[run].day
          => ListInForce(lists', Row[run].vendor, Row[run].day)
             = ListInForce(lists, Row[run].vendor, Row[run].day)]_lists
  BY <1>1
<1> QED
  BY <1>2, Invariant, PTL DEF Spec, NewerListsDoNotReachBack

(* The list a label names is the one that was priced by.                   *)
LEMMA LabelFindsList ==
  ASSUME Inv, NEW l \in lists
  PROVE  (CHOOSE k \in lists : Label(k) = Label(l)) = l
<1>1. \A m \in lists : /\ m \in Lists /\ m # None /\ PlacedRight(m)
                       /\ Label(m) = m.price_list_id
  BY ListsAssumption DEF Inv, Types, PublishedApart, Valid, Label
<1>2. ASSUME NEW k \in lists, Label(k) = Label(l) PROVE k = l
  <2>1. k.price_list_id = l.price_list_id
    BY <1>1, <1>2
  <2>2. k.dirs = l.dirs /\ k.stem = l.stem
    BY <1>1, <2>1, LabelNamesOneList
  <2> QED
    BY <2>2 DEF Inv, PublishedApart
<1> QED
  BY <1>2

(* What a published list prices a run at: the bill, or nothing.            *)
LEMMA FigureOfList ==
  ASSUME Inv, NEW l \in lists
  PROVE  /\ IF Billable(Events[run], l.models)
            THEN Figure(l) \in Sound /\ Figure(l).total = Bill(Events[run], l.models)
            ELSE Figure(l) = None
         /\ None \notin Sound
<1> DEFINE f == FoundOf(Events[run])
<1>1. l \in Lists /\ l # None /\ Valid(l) /\ run \in Runs
  BY ListsAssumption DEF Inv, Types, PublishedApart
<1>2. Billable(Events[run], l.models) <=>
        Consistent(Events[run]) /\ \A id \in Billing(f) : Payable(f[id], l.models)
  BY <1>1, BillableIs
<1>3. CASE Billable(Events[run], l.models)
  <2>1. Figure(l) = PriceRequests(f, l.models)
    BY <1>1, <1>2, <1>3 DEF Figure
  <2>2. /\ PriceRequests(f, l.models) \in Sound
        /\ PriceRequests(f, l.models).total = Bill(Events[run], l.models)
    BY <1>1, <1>2, <1>3, FigureIsBill
  <2> QED
    BY <1>3, <2>1, <2>2, NoneAssumption DEF Sound
<1>4. CASE ~Billable(Events[run], l.models)
  <2>1. CASE ~Consistent(Events[run])
    BY <1>4, <2>1, NoneAssumption DEF Figure, Sound
  <2>2. CASE Consistent(Events[run])
    <3>1. PICK id \in Billing(f) : ~Payable(f[id], l.models)
      BY <1>2, <1>4, <2>2
    <3>2. UsageRead(f[id].usage)
      BY <1>1, <2>2, FoundIs DEF Billing
    <3>3. PriceRequests(f, l.models) = None
      BY <3>1, <3>2, PriceRefuses
    <3>4. Figure(l) = None
      BY <3>3 DEF Figure
    <3> QED
      BY <1>4, <3>4, NoneAssumption DEF Sound
  <2> QED
    BY <2>1, <2>2
<1> QED
  BY <1>3, <1>4

(* Whatever is printed under a list's label is the bill of the run's       *)
(* events, in whatever order and however often a stream repeated them, and *)
(* a run is refused exactly when it has no bill: a list that passed its    *)
(* validator leaves no prompt without a tier and none with two (requests,  *)
(* pick_tier, price_requests).                                             *)
THEOREM FiguresAreTheBills == Spec => []FiguresAreBills
<1>1. Inv => FiguresAreBills
  <2> SUFFICES ASSUME Inv, NEW x \in figures, x.label # None
               PROVE  LET models == (CHOOSE l \in lists : Label(l) = x.label).models
                      IN IF Billable(Events[run], models)
                         THEN x.result # None /\ x.result.total = Bill(Events[run], models)
                         ELSE x.result = None
    BY DEF FiguresAreBills
  <2>1. PICK l \in lists \cup {None} : x = [label |-> Label(l), result |-> Figure(l)]
    BY DEF Inv, FiguresAreOfLists
  <2>2. l \in lists /\ x.label = Label(l) /\ x.result = Figure(l)
    BY <2>1 DEF Label
  <2>3. (CHOOSE k \in lists : Label(k) = x.label) = l
    BY <2>2, LabelFindsList
  <2>4. IF Billable(Events[run], l.models)
        THEN Figure(l) # None /\ Figure(l).total = Bill(Events[run], l.models)
        ELSE Figure(l) = None
    BY <2>2, FigureOfList
  <2> QED
    BY <2>2, <2>3, <2>4
<1> QED
  BY <1>1, Invariant, PTL

(* No request of a figure is lost between its tiers or its token classes:  *)
(* either breakdown adds up to the whole (price_requests).                 *)
THEOREM BreakdownsAccountForAll == Spec => []BreakdownsAddUp
<1>1. Inv => BreakdownsAddUp
  <2> SUFFICES ASSUME Inv, NEW x \in figures, x.result # None
               PROVE  /\ SumOf(x.result.by_tier) = x.result.total
                      /\ SumOf(x.result.by_class) = x.result.total
    BY DEF BreakdownsAddUp, SumOf
  <2>1. PICK l \in lists \cup {None} : x = [label |-> Label(l), result |-> Figure(l)]
    BY DEF Inv, FiguresAreOfLists
  <2>2. l \in lists /\ x.result = Figure(l)
    BY <2>1 DEF Figure
  <2>3. Figure(l) \in Sound
    BY <2>2, FigureOfList
  <2> QED
    BY <2>2, <2>3 DEF Sound
<1> QED
  BY <1>1, Invariant, PTL
=============================================================================
