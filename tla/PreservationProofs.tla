------------------------- MODULE PreservationProofs -------------------------
(***************************************************************************)
(* For every listing, every page and every repository: the gate reads each *)
(* preserved file as the content it had at the base commit, passes nothing *)
(* it has not read, and compares body with body.                           *)
(*                                                                         *)
(* git's answer is one sequence after another; the gate, told only sizes,  *)
(* stands after every turn where one of them ends (Standing).  What it     *)
(* then compares is the text that people wrote (BodyIsText): reading       *)
(* undoes the line ends, the block ends at its second fence, and only      *)
(* newlines are between that and the text.                                 *)
(***************************************************************************)
EXTENDS Preservation, SequenceTheorems, WellFoundedInduction, TLAPS

-----------------------------------------------------------------------------
(* The least of some numbers.                                              *)

Less == {p \in Nat \X Nat : p[1] < p[2]}

LEMMA Smallest ==
  ASSUME NEW T \in SUBSET Nat, T # {}
  PROVE  \E x \in T : \A y \in T : x <= y
<1>1. OpToRel(<, Nat) = Less
  BY DEF OpToRel, Less
<1>2. IsWellFoundedOn(Less, Nat)
  BY NatLessThanWellFounded, <1>1
<1>3. PICK x \in T : \A y \in T : <<y, x>> \notin Less
  BY <1>2, WFMin, Zenon
<1>4. ASSUME NEW y \in T, ~(x <= y) PROVE FALSE
  <2>1. <<y, x>> \in Nat \X Nat /\ y < x
    BY <1>4
  <2>2. <<y, x>> \in Less
    BY <2>1 DEF Less
  <2> QED
    BY <1>3, <2>2
<1> QED
  BY <1>4

(* The least is the one that is no greater than any.                       *)
LEMMA LeastIs ==
  ASSUME NEW T \in SUBSET Nat, NEW x \in T, \A y \in T : x <= y
  PROVE  Min(T) = x
<1>1. \A y \in T : (\A z \in T : y <= z) => y = x
  OBVIOUS
<1> QED
  BY <1>1 DEF Min

-----------------------------------------------------------------------------
(* Sequences one after the other, as FlattenSeq lays them.                 *)

Laid(F, seqs) ==
  F = [i \in 1..Len(seqs) |-> IF i = 1 THEN seqs[i] ELSE F[i - 1] \o seqs[i]]

(* They can be laid, by a least length at which they cannot.               *)
LEMMA CanBeLaid ==
  ASSUME NEW T, NEW seqs \in Seq(Seq(T))
  PROVE  \E F : Laid(F, seqs)
<1> DEFINE n == Len(seqs)
           Upto(F, k) == F = [i \in 1..k |-> IF i = 1 THEN seqs[i] ELSE F[i - 1] \o seqs[i]]
           bad == {k \in 0..n : ~\E F : Upto(F, k)}
<1>1. n \in Nat /\ bad \in SUBSET Nat
  <2>1. n \in Nat
    OBVIOUS
  <2> HIDE DEF n
  <2>2. \A k \in bad : k \in 0..n
    OBVIOUS
  <2> HIDE DEF bad
  <2> QED
    BY <2>1, <2>2
<1>2. ASSUME bad # {} PROVE FALSE
  <2>1. PICK k \in bad : \A j \in bad : k <= j
    <3> HIDE DEF bad
    <3> QED
      BY <1>1, <1>2, Smallest
  <2>2. k \in 0..n /\ ~\E F : Upto(F, k)
    OBVIOUS
  <2>3. CASE k = 0
    <3> DEFINE F == [i \in 1..0 |-> seqs[i]]
    <3>1. Upto(F, 0)
      OBVIOUS
    <3> QED
      BY <2>2, <2>3, <3>1
  <2>4. CASE k # 0
    <3>1. k - 1 \in 0..n /\ k - 1 \notin bad
      <4> HIDE DEF bad
      <4> QED
        BY <1>1, <2>1, <2>2, <2>4
    <3>2. PICK F : Upto(F, k - 1)
      BY <3>1
    <3> DEFINE G == [i \in 1..k |-> IF i = k THEN IF k = 1 THEN seqs[k] ELSE F[k - 1] \o seqs[k]
                                    ELSE F[i]]
    <3>3. \A i \in 1..(k - 1) : F[i] = IF i = 1 THEN seqs[i] ELSE F[i - 1] \o seqs[i]
      <4>1. Upto(F, k - 1)
        BY <3>2
      <4> QED
        BY <4>1, Zenon
    <3>4. \A i \in 1..k : G[i] = IF i = 1 THEN seqs[i] ELSE G[i - 1] \o seqs[i]
      BY <1>1, <2>2, <2>4, <3>3
    <3>5. G = [i \in 1..k |-> G[i]]
      OBVIOUS
    <3> HIDE DEF G
    <3>6. Upto(G, k)
      BY <3>4, <3>5
    <3> QED
      BY <2>2, <3>6
  <2> QED
    BY <2>3, <2>4
<1>3. n \in 0..n /\ n \notin bad
  <2> HIDE DEF bad, n
  <2> QED
    BY <1>1, <1>2
<1>4. PICK F : Upto(F, n)
  BY <1>3
<1> QED
  BY <1>4 DEF Laid

(* Each is a sequence of the same things, one longer than the one before.  *)
Grows(F, seqs, T) ==
  /\ F \in [1..Len(seqs) -> Seq(T)]
  /\ seqs # << >> => F[1] = seqs[1]
  /\ \A i \in 2..Len(seqs) : F[i] = F[i - 1] \o seqs[i]

LEMMA LaidAre ==
  ASSUME NEW T, NEW seqs \in Seq(Seq(T)), NEW F, Laid(F, seqs)
  PROVE  Grows(F, seqs, T)
<1> DEFINE n == Len(seqs)
           bad == {i \in 1..n : F[i] \notin Seq(T)}
<1>1. n \in Nat /\ bad \in SUBSET Nat /\ \A i \in 1..n : seqs[i] \in Seq(T)
  OBVIOUS
<1>2. \A i \in 1..n : F[i] = IF i = 1 THEN seqs[i] ELSE F[i - 1] \o seqs[i]
  BY Zenon DEF Laid
<1>3. ASSUME bad # {} PROVE FALSE
  <2>1. PICK k \in bad : \A j \in bad : k <= j
    <3> HIDE DEF bad
    <3> QED
      BY <1>1, <1>3, Smallest
  <2>2. k \in 1..n /\ F[k] \notin Seq(T)
    OBVIOUS
  <2>3. k # 1
    BY <1>1, <1>2, <2>2
  <2>4. k - 1 \in 1..n /\ k - 1 \notin bad
    <3> HIDE DEF bad
    <3> QED
      BY <1>1, <2>1, <2>2, <2>3
  <2>5. F[k - 1] \in Seq(T) /\ seqs[k] \in Seq(T) /\ F[k] = F[k - 1] \o seqs[k]
    BY <1>1, <1>2, <2>2, <2>3, <2>4
  <2> QED
    BY <2>2, <2>5
<1>4. DOMAIN F = 1..n /\ F = [i \in 1..n |-> F[i]]
  BY Zenon DEF Laid
<1>5. F \in [1..n -> Seq(T)]
  BY <1>3, <1>4
<1>6. seqs # << >> => 1 \in 1..n
  OBVIOUS
<1> HIDE DEF n
<1>7. (seqs # << >> => F[1] = seqs[1]) /\ \A i \in 2..n : F[i] = F[i - 1] \o seqs[i]
  <2>1. \A i \in 2..n : i \in 1..n /\ i # 1
    BY <1>1
  <2>2. ASSUME NEW i \in 2..n PROVE F[i] = F[i - 1] \o seqs[i]
    BY <1>2, <2>1, Zenon
  <2>3. seqs # << >> => F[1] = seqs[1]
    BY <1>2, <1>6, Zenon
  <2> QED
    BY <2>2, <2>3
<1> QED
  BY <1>5, <1>7 DEF n, Grows

(* FlattenSeq is the last of them, so it is there to reason about.         *)
LEMMA Flattened ==
  ASSUME NEW T, NEW seqs \in Seq(Seq(T)), seqs # << >>
  PROVE  \E F : Laid(F, seqs) /\ FlattenSeq(seqs) = F[Len(seqs)]
<1>1. \E F : F = [i \in 1..Len(seqs) |-> IF i = 1 THEN seqs[i] ELSE F[i - 1] \o seqs[i]]
  BY CanBeLaid DEF Laid
<1> DEFINE C == CHOOSE F : F = [i \in 1..Len(seqs) |->
                                  IF i = 1 THEN seqs[i] ELSE F[i - 1] \o seqs[i]]
<1>2. Laid(C, seqs)
  BY <1>1 DEF Laid
<1>3. Len(seqs) # 0
  OBVIOUS
<1>4. FlattenSeq(seqs) = C[Len(seqs)]
  BY <1>3 DEF FlattenSeq
<1> QED
  BY <1>2, <1>4

(* Sequences of the same things flatten to a sequence of them.             *)
LEMMA FlatIsSeq ==
  ASSUME NEW T, NEW seqs \in Seq(Seq(T))
  PROVE  FlattenSeq(seqs) \in Seq(T)
<1>1. CASE seqs = << >>
  <2>1. FlattenSeq(seqs) = << >>
    BY <1>1 DEF FlattenSeq
  <2> QED
    BY <2>1
<1>2. CASE seqs # << >>
  <2>1. PICK F : Laid(F, seqs) /\ FlattenSeq(seqs) = F[Len(seqs)]
    BY <1>2, Flattened
  <2>2. F \in [1..Len(seqs) -> Seq(T)]
    BY <2>1, LaidAre DEF Grows
  <2>3. Len(seqs) \in 1..Len(seqs)
    BY <1>2
  <2> QED
    BY <2>1, <2>2, <2>3
<1> QED
  BY <1>1, <1>2

(* Where each of them ends.                                                *)
Stands(ends, seqs) ==
  /\ ends \in [0..Len(seqs) -> Nat]
  /\ ends[0] = 0 /\ ends[Len(seqs)] = Len(FlattenSeq(seqs))
  /\ \A i \in 1..Len(seqs) :
       /\ ends[i] = ends[i - 1] + Len(seqs[i])
       /\ ends[i] <= Len(FlattenSeq(seqs))
       /\ \A j \in 1..Len(seqs[i]) : FlattenSeq(seqs)[ends[i - 1] + j] = seqs[i][j]

(* What is flattened can be cut where each of them ends.                   *)
LEMMA Standing ==
  ASSUME NEW T, NEW seqs \in Seq(Seq(T)), seqs # << >>
  PROVE  \E ends : Stands(ends, seqs)
<1> DEFINE n == Len(seqs)
           flat == FlattenSeq(seqs)
<1>1. PICK F : Laid(F, seqs) /\ flat = F[n]
  BY Flattened
<1>2. /\ F \in [1..n -> Seq(T)] /\ F[1] = seqs[1]
      /\ \A i \in 2..n : F[i] = F[i - 1] \o seqs[i]
  <2>1. Grows(F, seqs, T)
    BY <1>1, LaidAre
  <2> QED
    BY <2>1 DEF Grows
<1>3. n \in Nat /\ n >= 1 /\ \A i \in 1..n : seqs[i] \in Seq(T) /\ F[i] \in Seq(T)
  <2>1. n \in Nat /\ n >= 1 /\ \A i \in 1..n : seqs[i] \in Seq(T)
    OBVIOUS
  <2> HIDE DEF n
  <2> QED
    BY <1>2, <2>1
<1> DEFINE Begins(i) == Len(F[i]) <= Len(flat) /\ \A j \in 1..Len(F[i]) : flat[j] = F[i][j]
           bad == {m \in 0..(n - 1) : ~Begins(n - m)}
<1> HIDE DEF flat, n
<1>4. bad \in SUBSET Nat
  BY <1>3
<1>5. ASSUME bad # {} PROVE FALSE
  <2>1. PICK m \in bad : \A y \in bad : m <= y
    <3> HIDE DEF bad
    <3> QED
      BY <1>4, <1>5, Smallest
  <2>2. m \in 0..(n - 1) /\ ~Begins(n - m)
    OBVIOUS
  <2>3. m # 0
    BY <1>1, <1>3, <2>2
  <2>4. m - 1 \in 0..(n - 1) /\ m - 1 \notin bad
    <3> HIDE DEF bad
    <3> QED
      BY <1>3, <2>1, <2>2, <2>3
  <2> DEFINE i == n - m
  <2>5. i \in 1..n /\ i + 1 \in 2..n /\ n - (m - 1) = i + 1
    BY <1>3, <2>2, <2>3
  <2> HIDE DEF i
  <2>6. Begins(i + 1)
    BY <2>4, <2>5
  <2>7. F[i + 1] = F[i] \o seqs[i + 1]
    <3>1. (i + 1) - 1 = i
      BY <2>5
    <3> QED
      BY <1>2, <2>5, <3>1
  <2>8. F[i] \in Seq(T) /\ F[i + 1] \in Seq(T) /\ seqs[i + 1] \in Seq(T)
    BY <1>3, <2>5
  <2>9. Len(F[i]) <= Len(F[i + 1]) /\ \A j \in 1..Len(F[i]) : F[i + 1][j] = F[i][j]
    <3> DEFINE x == F[i]
               y == seqs[i + 1]
               z == F[i + 1]
    <3>1. x \in Seq(T) /\ y \in Seq(T) /\ z = x \o y
      BY <2>7, <2>8
    <3> HIDE DEF x, y, z
    <3>2. Len(x) <= Len(z) /\ \A j \in 1..Len(x) : z[j] = x[j]
      BY <3>1
    <3> QED
      BY <3>2 DEF x, z
  <2>10. Begins(i)
    <3>1. flat \in Seq(T)
      BY <1>1, <1>3
    <3> QED
      BY <2>6, <2>8, <2>9, <3>1
  <2> QED
    BY <2>2, <2>10 DEF i
<1>6. \A i \in 1..n : Begins(i)
  <2> SUFFICES ASSUME NEW i \in 1..n PROVE Begins(i)
    OBVIOUS
  <2>1. n - i \in 0..(n - 1) /\ n - (n - i) = i
    BY <1>3
  <2> QED
    BY <1>5, <2>1
<1> DEFINE ends == [i \in 0..n |-> IF i = 0 THEN 0 ELSE Len(F[i])]
<1>7. ends \in [0..n -> Nat] /\ ends[0] = 0 /\ ends[n] = Len(flat)
  BY <1>1, <1>3
<1>8. ASSUME NEW i \in 1..n
      PROVE  /\ ends[i] = ends[i - 1] + Len(seqs[i])
             /\ ends[i] <= Len(flat)
             /\ \A j \in 1..Len(seqs[i]) : flat[ends[i - 1] + j] = seqs[i][j]
  <2>1. ends[i] = Len(F[i]) /\ F[i] \in Seq(T) /\ seqs[i] \in Seq(T) /\ Begins(i)
    BY <1>3, <1>6
  <2>2. CASE i = 1
    <3>1. ends[i - 1] = 0 /\ F[i] = seqs[i]
      BY <1>2, <1>3, <2>2
    <3> HIDE DEF ends
    <3> QED
      BY <2>1, <3>1
  <2>3. CASE i # 1
    <3>1. i \in 2..n /\ i - 1 \in 1..n
      BY <1>3, <2>3
    <3>2. ends[i - 1] = Len(F[i - 1])
      BY <1>3, <3>1
    <3>3. F[i - 1] \in Seq(T) /\ F[i] = F[i - 1] \o seqs[i]
      BY <1>2, <1>3, <3>1
    <3> HIDE DEF ends
    <3> DEFINE x == F[i - 1]
               y == seqs[i]
               z == F[i]
    <3>4. x \in Seq(T) /\ y \in Seq(T) /\ z = x \o y
      BY <2>1, <3>3
    <3> HIDE DEF x, y, z
    <3>5. /\ Len(z) = Len(x) + Len(y)
          /\ \A j \in 1..Len(y) : Len(x) + j \in 1..Len(z) /\ z[Len(x) + j] = y[j]
      BY <3>4
    <3>6. /\ Len(F[i]) = Len(F[i - 1]) + Len(seqs[i])
          /\ \A j \in 1..Len(seqs[i]) : /\ Len(F[i - 1]) + j \in 1..Len(F[i])
                                         /\ F[i][Len(F[i - 1]) + j] = seqs[i][j]
      BY <3>5 DEF x, y, z
    <3> QED
      BY <2>1, <3>2, <3>6
  <2> QED
    BY <2>2, <2>3
<1> HIDE DEF ends
<1>9. Stands(ends, seqs)
  BY <1>7, <1>8 DEF Stands, n, flat
<1> QED
  BY <1>9

-----------------------------------------------------------------------------
(* Line ends.                                                              *)

(* What each token is written as, and what is left of each that is read.   *)
Ended(b, crlf) ==
  [i \in DOMAIN b |-> IF crlf /\ b[i] = NL THEN <<CR, NL>> ELSE <<b[i]>>]

Unended(f) ==
  [i \in DOMAIN f |-> IF f[i] = CR /\ i < Len(f) /\ f[i + 1] = NL THEN << >> ELSE <<f[i]>>]

(* Each is a sequence of sequences, as long as what it is made of.         *)
LEMMA EndedAre ==
  ASSUME NEW T, NEW b \in Seq(T), NEW crlf, NL \in T, CR \in T
  PROVE  /\ Ended(b, crlf) \in Seq(Seq(T)) /\ Len(Ended(b, crlf)) = Len(b)
         /\ Unended(b) \in Seq(Seq(T)) /\ Len(Unended(b)) = Len(b)
<1>1. Len(b) \in Nat /\ DOMAIN b = 1..Len(b) /\ \A i \in 1..Len(b) : b[i] \in T
  OBVIOUS
<1> DEFINE x == Ended(b, crlf)
           y == Unended(b)
<1>2. \A i \in 1..Len(b) : x[i] \in Seq(T) /\ y[i] \in Seq(T)
  BY <1>1 DEF Ended, Unended
<1>3. x = [i \in 1..Len(b) |-> x[i]] /\ y = [i \in 1..Len(b) |-> y[i]]
  BY <1>1 DEF Ended, Unended
<1> HIDE DEF x, y
<1>4. x \in Seq(Seq(T)) /\ Len(x) = Len(b) /\ y \in Seq(Seq(T)) /\ Len(y) = Len(b)
  BY <1>1, <1>2, <1>3
<1> QED
  BY <1>4 DEF x, y

(* Reading undoes however the lines were ended.                            *)
LEMMA LineEndsAreUndone ==
  ASSUME NEW T, NEW b \in Seq(T), NL \in T, CR \in T, NEW crlf \in BOOLEAN,
         \A i \in DOMAIN b : b[i] # CR
  PROVE  OneNewline(LineEnds(b, crlf)) = b
<1> DEFINE n == Len(b)
           c == Ended(b, crlf)
           f == FlattenSeq(c)
           d == Unended(f)
           g == FlattenSeq(d)
<1>1. LineEnds(b, crlf) = f /\ OneNewline(f) = g
  BY DEF LineEnds, OneNewline, Ended, Unended
<1>2. c \in Seq(Seq(T)) /\ Len(c) = n /\ f \in Seq(T)
  BY EndedAre, FlatIsSeq
<1>3. d \in Seq(Seq(T)) /\ Len(d) = Len(f) /\ g \in Seq(T)
  <2> HIDE DEF f
  <2> QED
    BY <1>2, EndedAre, FlatIsSeq
<1>4. n \in Nat /\ DOMAIN b = 1..n
  OBVIOUS
<1>5. \A i \in 1..n : c[i] = IF crlf /\ b[i] = NL THEN <<CR, NL>> ELSE <<b[i]>>
  BY <1>4 DEF Ended
<1>6. \A k \in 1..Len(f) :
        d[k] = IF f[k] = CR /\ k < Len(f) /\ f[k + 1] = NL THEN << >> ELSE <<f[k]>>
  <2> HIDE DEF f
  <2>1. DOMAIN f = 1..Len(f)
    BY <1>2
  <2> QED
    BY <2>1 DEF Unended
<1> HIDE DEF n, c, f, d, g
<1>7. CASE n = 0
  <2>1. c = << >>
    BY <1>2, <1>7
  <2>2. f = << >>
    BY <2>1 DEF f, FlattenSeq
  <2>3. d = << >>
    BY <1>3, <2>2
  <2>4. g = << >>
    BY <2>3 DEF g, FlattenSeq
  <2>5. b = << >>
    BY <1>7 DEF n
  <2> QED
    BY <1>1, <2>4, <2>5
<1>8. CASE n # 0
  <2>1. PICK e : Stands(e, c)
    BY <1>2, <1>4, <1>8, Standing
  <2>2. /\ e \in [0..n -> Nat] /\ e[0] = 0 /\ e[n] = Len(f)
        /\ \A i \in 1..n : /\ e[i] = e[i - 1] + Len(c[i]) /\ e[i] <= Len(f)
                           /\ \A j \in 1..Len(c[i]) : f[e[i - 1] + j] = c[i][j]
    BY <1>2, <2>1 DEF Stands, f
  (* A token that is no CR ends what it was written as.                    *)
  <2>3. ASSUME NEW i \in 1..n
        PROVE  /\ e[i] \in 1..Len(f) /\ f[e[i]] = b[i] /\ b[i] # CR
               /\ \/ e[i] = e[i - 1] + 1
                  \/ e[i] = e[i - 1] + 2 /\ f[e[i - 1] + 1] = CR /\ b[i] = NL
    <3>1. e[i] \in Nat /\ e[i - 1] \in Nat /\ b[i] # CR /\ Len(f) \in Nat
      BY <1>2, <1>4, <2>2
    <3>2. CASE crlf /\ b[i] = NL
      <4>1. c[i] = <<CR, NL>>
        BY <1>5, <3>2
      <4>2. Len(c[i]) = 2 /\ c[i][1] = CR /\ c[i][2] = NL /\ 1 \in 1..2 /\ 2 \in 1..2
        BY <4>1
      <4>3. e[i] = e[i - 1] + 2 /\ f[e[i - 1] + 1] = CR /\ f[e[i - 1] + 2] = NL
        BY <2>2, <4>2
      <4> QED
        BY <2>2, <3>1, <3>2, <4>3
    <3>3. CASE ~(crlf /\ b[i] = NL)
      <4>1. c[i] = <<b[i]>>
        BY <1>5, <3>3
      <4>2. Len(c[i]) = 1 /\ c[i][1] = b[i] /\ 1 \in 1..1
        BY <4>1
      <4>3. e[i] = e[i - 1] + 1 /\ f[e[i - 1] + 1] = b[i]
        BY <2>2, <4>2
      <4> QED
        BY <2>2, <3>1, <4>3
    <3> QED
      BY <3>2, <3>3
  <2>4. Len(f) \in Nat /\ Len(f) # 0
    BY <1>2, <1>4, <1>8, <2>3, SMTT(30)
  <2>5. PICK k : Stands(k, d)
    BY <1>3, <2>4, Standing
  <2>6. /\ k \in [0..Len(f) -> Nat] /\ k[0] = 0 /\ k[Len(f)] = Len(g)
        /\ \A i \in 1..Len(f) : /\ k[i] = k[i - 1] + Len(d[i])
                                /\ \A j \in 1..Len(d[i]) : g[k[i - 1] + j] = d[i][j]
    BY <1>3, <2>5 DEF Stands, g
  (* So many tokens later, one is left.                                    *)
  <2>7. ASSUME NEW i \in 1..n
        PROVE  k[e[i]] = k[e[i - 1]] + 1 /\ g[k[e[i]]] = b[i]
    <3>1. /\ e[i] \in 1..Len(f) /\ f[e[i]] = b[i] /\ b[i] # CR
          /\ \/ e[i] = e[i - 1] + 1
             \/ e[i] = e[i - 1] + 2 /\ f[e[i - 1] + 1] = CR /\ b[i] = NL
      BY <2>3
    <3>2. e[i - 1] \in Nat
      BY <1>4, <2>2
    <3>3. d[e[i]] = <<b[i]>>
      BY <1>6, <3>1
    <3>4. Len(d[e[i]]) = 1 /\ d[e[i]][1] = b[i] /\ 1 \in 1..1
      BY <3>3
    <3>5. k[e[i]] = k[e[i] - 1] + 1 /\ g[k[e[i] - 1] + 1] = b[i]
      BY <2>6, <3>1, <3>4
    <3>6. k[e[i] - 1] = k[e[i - 1]]
      <4>1. CASE e[i] = e[i - 1] + 1
        BY <3>2, <4>1
      <4>2. CASE e[i] = e[i - 1] + 2 /\ f[e[i - 1] + 1] = CR /\ b[i] = NL
        <5> DEFINE m == e[i - 1] + 1
        <5>1. m \in 1..Len(f) /\ m < Len(f) /\ m + 1 = e[i] /\ m - 1 = e[i - 1] /\ m = e[i] - 1
          <6> DEFINE x == e[i - 1]
                     y == e[i]
          <6>1. x \in Nat /\ y \in 1..Len(f) /\ y = x + 2
            BY <3>1, <3>2, <4>2
          <6> HIDE DEF x, y
          <6> QED
            BY <2>4, <6>1 DEF x, y
        <5>2. f[m] = CR /\ f[m + 1] = NL
          BY <3>1, <4>2, <5>1
        <5> HIDE DEF m
        <5>3. d[m] = << >>
          BY <1>6, <5>1, <5>2
        <5>4. Len(d[m]) = 0
          BY <5>3
        <5>5. k[m] = k[m - 1] + 0 /\ k[m - 1] \in Nat
          BY <2>4, <2>6, <5>1, <5>4, SMTT(30)
        <5> QED
          BY <5>1, <5>5
      <4> QED
        BY <3>1, <4>1, <4>2
    <3> QED
      BY <3>5, <3>6
  <2> DEFINE bad == {i \in 0..n : k[e[i]] # i}
  <2>8. ASSUME bad # {} PROVE FALSE
    <3>1. bad \in SUBSET Nat
      BY <1>4
    <3>2. PICK i \in bad : \A j \in bad : i <= j
      <4> HIDE DEF bad
      <4> QED
        BY <2>8, <3>1, Smallest
    <3>3. i \in 0..n /\ k[e[i]] # i
      OBVIOUS
    <3>4. i # 0
      BY <2>2, <2>6, <3>3
    <3>5. i \in 1..n /\ i - 1 \in 0..n /\ i - 1 \notin bad
      <4> HIDE DEF bad
      <4> QED
        BY <1>4, <3>2, <3>3, <3>4
    <3>6. k[e[i - 1]] = i - 1 /\ k[e[i]] = k[e[i - 1]] + 1
      BY <2>7, <3>5
    <3> QED
      BY <1>4, <3>3, <3>5, <3>6
  <2>9. \A i \in 0..n : k[e[i]] = i
    BY <2>8
  <2>10. Len(g) = n
    BY <1>4, <2>2, <2>6, <2>9
  <2>11. \A i \in 1..n : g[i] = b[i]
    <3>1. \A i \in 1..n : i \in 0..n
      BY <1>4
    <3> QED
      BY <2>7, <2>9, <3>1
  <2>12. g = b
    BY <1>3, <1>4, <2>10, <2>11 DEF n
  <2> QED
    BY <1>1, <2>12
<1> QED
  BY <1>7, <1>8

-----------------------------------------------------------------------------
(* The text of a page.                                                     *)

(* A line ends at the first newline, or where the text does.               *)
LEMMA EndsWhere ==
  ASSUME NEW T, NEW text \in Seq(T), NEW start \in Nat, NEW e \in start..(Len(text) + 1),
         start >= 1, e <= Len(text) => text[e] = NL,
         \A i \in start..(e - 1) : text[i] # NL
  PROVE  LineEnd(text, start) = e
<1> DEFINE ends == {i \in start..Len(text) : text[i] = NL} \cup {Len(text) + 1}
<1>1. Len(text) \in Nat
  OBVIOUS
<1>2. ends \in SUBSET Nat /\ e \in ends
  BY <1>1
<1>3. \A i \in ends : e <= i
  BY <1>1
<1> HIDE DEF ends
<1>4. Min(ends) = e
  BY <1>2, <1>3, LeastIs
<1> QED
  BY <1>4 DEF LineEnd, ends

(* Every line that starts ends, at its first newline.                      *)
LEMMA LineEndIs ==
  ASSUME NEW T, NEW text \in Seq(T), NEW start \in 1..(Len(text) + 1)
  PROVE  /\ LineEnd(text, start) \in start..(Len(text) + 1)
         /\ LineEnd(text, start) <= Len(text) => text[LineEnd(text, start)] = NL
         /\ \A i \in start..(LineEnd(text, start) - 1) : text[i] # NL
<1> DEFINE ends == {i \in start..Len(text) : text[i] = NL} \cup {Len(text) + 1}
<1>1. Len(text) \in Nat
  OBVIOUS
<1>2. ends \in SUBSET Nat /\ ends # {}
  BY <1>1
<1>3. PICK e \in ends : \A i \in ends : e <= i
  <2> HIDE DEF ends
  <2> QED
    BY <1>2, Smallest
<1>4. /\ e \in start..(Len(text) + 1) /\ (e <= Len(text) => text[e] = NL)
      /\ \A i \in start..(e - 1) : text[i] # NL
  BY <1>1, <1>3
<1>5. LineEnd(text, start) = e
  <2> HIDE DEF ends
  <2> QED
    BY <1>4, EndsWhere
<1> QED
  BY <1>4, <1>5

(* A page with a block, position by position.                              *)
Written(b, block, blanks, text) ==
  LET m == Len(block)
  IN /\ Len(b) = m + 5 + blanks + Len(text)
     /\ b[1] = FENCE /\ b[2] = NL
     /\ \A i \in 1..m : b[2 + i] = block[i]
     /\ b[m + 3] = NL /\ b[m + 4] = FENCE /\ b[m + 5] = NL
     /\ \A i \in 1..blanks : b[m + 5 + i] = NL
     /\ \A i \in 1..Len(text) : b[m + 5 + blanks + i] = text[i]

(* One sequence after another, position by position.                       *)
After(z, x, y) ==
  /\ Len(z) = Len(x) + Len(y)
  /\ \A i \in 1..Len(x) : z[i] = x[i]
  /\ \A i \in 1..Len(y) : z[Len(x) + i] = y[i]

LEMMA Put ==
  ASSUME NEW T, NEW x \in Seq(T), NEW y \in Seq(T), NEW z, z = x \o y
  PROVE  z \in Seq(T) /\ After(z, x, y)
BY DEF After

(* People write such a page so.                                            *)
LEMMA WrittenIs ==
  ASSUME NEW T, NEW block \in Seq(T), NEW blanks \in Nat, NEW text \in Seq(T),
         NL \in T, FENCE \in T
  PROVE  Written(<<FENCE, NL>> \o block \o <<NL, FENCE, NL>> \o Blank(blanks) \o text,
                 block, blanks, text)
<1> DEFINE m == Len(block)
           p == <<FENCE, NL>> \o block
           q == p \o <<NL, FENCE, NL>>
           r == q \o Blank(blanks)
           b == r \o text
<1>1. /\ p \in Seq(T) /\ Len(p) = m + 2 /\ m \in Nat
      /\ p[1] = FENCE /\ p[2] = NL /\ \A i \in 1..m : p[2 + i] = block[i]
  OBVIOUS
<1> HIDE DEF m, p
<1>2. /\ q \in Seq(T) /\ Len(q) = m + 5
      /\ \A i \in 1..(m + 2) : q[i] = p[i]
      /\ q[m + 3] = NL /\ q[m + 4] = FENCE /\ q[m + 5] = NL
  BY <1>1
<1> HIDE DEF q
<1>3. Blank(blanks) \in Seq(T) /\ Len(Blank(blanks)) = blanks
      /\ \A i \in 1..blanks : Blank(blanks)[i] = NL
  BY DEF Blank
<1>4. /\ r \in Seq(T) /\ Len(r) = m + 5 + blanks
      /\ \A i \in 1..(m + 5) : r[i] = q[i]
      /\ \A i \in 1..blanks : r[m + 5 + i] = NL
  <2> DEFINE blank == Blank(blanks)
             len == Len(q)
  <2>1. /\ r \in Seq(T) /\ Len(r) = len + Len(blank)
        /\ \A i \in 1..len : r[i] = q[i]
        /\ \A i \in 1..Len(blank) : r[len + i] = blank[i]
    <3>1. q \in Seq(T) /\ blank \in Seq(T) /\ r = q \o blank
      BY <1>2, <1>3
    <3> HIDE DEF r, blank
    <3>2. r \in Seq(T) /\ After(r, q, blank)
      BY <3>1, Put
    <3> QED
      BY <3>2 DEF After
  <2>2. len = m + 5 /\ Len(blank) = blanks /\ \A i \in 1..blanks : blank[i] = NL
    BY <1>2, <1>3
  <2> HIDE DEF r, len, blank
  <2> QED
    BY <2>1, <2>2
<1> HIDE DEF r
<1>5. /\ b \in Seq(T) /\ Len(b) = m + 5 + blanks + Len(text) /\ Len(text) \in Nat
      /\ \A i \in 1..(m + 5 + blanks) : b[i] = r[i]
      /\ \A i \in 1..Len(text) : b[m + 5 + blanks + i] = text[i]
  <2> DEFINE len == Len(r)
  <2>1. /\ b \in Seq(T) /\ Len(b) = len + Len(text) /\ Len(text) \in Nat
        /\ \A i \in 1..len : b[i] = r[i]
        /\ \A i \in 1..Len(text) : b[len + i] = text[i]
    <3>1. r \in Seq(T) /\ b = r \o text /\ Len(text) \in Nat
      BY <1>4
    <3> HIDE DEF b
    <3>2. b \in Seq(T) /\ After(b, r, text)
      BY <3>1, Put
    <3> QED
      BY <3>1, <3>2 DEF After
  <2>2. len = m + 5 + blanks
    BY <1>4
  <2> HIDE DEF b, len
  <2> QED
    BY <2>1, <2>2
<1> HIDE DEF b
<1>6. \A i \in 1..(m + 5) : b[i] = q[i]
  <2>1. \A i \in 1..(m + 5) : i \in 1..(m + 5 + blanks)
    BY <1>1
  <2> QED
    BY <1>4, <1>5, <2>1
<1>7. \A i \in 1..(m + 2) : b[i] = p[i]
  <2>1. \A i \in 1..(m + 2) : i \in 1..(m + 5)
    BY <1>1
  <2> QED
    BY <1>2, <1>6, <2>1
<1>8. b[1] = FENCE /\ b[2] = NL /\ \A i \in 1..m : b[2 + i] = block[i]
  <2>1. 1 \in 1..(m + 2) /\ 2 \in 1..(m + 2) /\ \A i \in 1..m : 2 + i \in 1..(m + 2)
    BY <1>1
  <2> QED
    BY <1>1, <1>7, <2>1
<1>9. b[m + 3] = NL /\ b[m + 4] = FENCE /\ b[m + 5] = NL
  BY <1>1, <1>2, <1>6
<1>10. \A i \in 1..blanks : b[m + 5 + i] = NL
  <2> SUFFICES ASSUME NEW i \in 1..blanks PROVE b[m + 5 + i] = NL
    OBVIOUS
  <2>1. m + 5 + i \in 1..(m + 5 + blanks)
    BY <1>1
  <2> QED
    BY <1>4, <1>5, <2>1
<1>11. Written(b, block, blanks, text)
  BY <1>5, <1>8, <1>9, <1>10 DEF Written, m
<1>12. b = <<FENCE, NL>> \o block \o <<NL, FENCE, NL>> \o Blank(blanks) \o text
  BY DEF b, r, q, p
<1> QED
  BY <1>11, <1>12

(* The block of such a page ends at its second fence.                      *)
LEMMA BlockEnds ==
  ASSUME NEW T, NEW b \in Seq(T), NEW block \in Seq(T), NEW blanks \in Nat, NEW text \in Seq(T),
         Written(b, block, blanks, text),
         \A start \in Starts(block) : ~IsFence(block, start)
  PROVE  /\ HasBlock(b)
         /\ LineEnd(b, Min(Closings(b))) = Len(block) + 5
<1> DEFINE m == Len(block)
<1>1. m \in Nat /\ Len(text) \in Nat /\ Len(b) = m + 5 + blanks + Len(text)
  BY DEF Written
<1>2. /\ b[1] = FENCE /\ b[2] = NL /\ b[m + 3] = NL /\ b[m + 4] = FENCE /\ b[m + 5] = NL
      /\ \A i \in 1..m : b[2 + i] = block[i]
  BY DEF Written
<1>3. NL # FENCE
  BY TokensAssumption
<1> HIDE DEF m
<1>4. IsFence(b, 1)
  <2>1. LineEnd(b, 1) = 2
    <3>1. 2 \in 1..(Len(b) + 1) /\ 1 \in Nat /\ 1 >= 1
      BY <1>1
    <3>2. \A i \in 1..(2 - 1) : b[i] # NL
      BY <1>2, <1>3
    <3> QED
      BY <1>2, <3>1, <3>2, EndsWhere
  <2> QED
    BY <1>2, <2>1 DEF IsFence
<1>5. LineEnd(b, m + 4) = m + 5
  <2>1. m + 4 \in Nat /\ m + 4 >= 1 /\ m + 5 \in (m + 4)..(Len(b) + 1)
    BY <1>1
  <2>2. \A i \in (m + 4)..((m + 5) - 1) : b[i] # NL
    <3>1. \A i \in (m + 4)..((m + 5) - 1) : i = m + 4
      BY <1>1
    <3> QED
      BY <1>2, <1>3, <3>1
  <2> QED
    BY <1>2, <2>1, <2>2, EndsWhere, ZenonT(30)
<1>6. m + 4 \in Closings(b)
  <2>1. m + 3 \in DOMAIN b /\ m + 4 = (m + 3) + 1 /\ m + 4 # 1
    BY <1>1
  <2>2. m + 4 \in Starts(b) \ {1}
    BY <1>2, <2>1 DEF Starts
  <2>3. m + 4 \in (m + 4)..((m + 5) - 1) /\ \A i \in (m + 4)..((m + 5) - 1) : i = m + 4
    BY <1>1
  <2>4. IsFence(b, m + 4)
    BY <1>2, <1>5, <2>3 DEF IsFence
  <2> QED
    BY <2>2, <2>4 DEF Closings
(* No line of the block is taken for it.                                   *)
<1>7. ASSUME NEW s \in Closings(b), s < m + 4 PROVE FALSE
  <2>1. s \in Starts(b) /\ s # 1 /\ IsFence(b, s)
    BY DEF Closings
  <2>2. s - 1 \in 1..Len(b) /\ b[s - 1] = NL /\ s \in Nat
    <3>1. PICK j \in DOMAIN b : b[j] = NL /\ s = j + 1
      BY <2>1 DEF Starts
    <3> QED
      BY <3>1
  <2>3. s \in 3..(m + 3)
    <3>1. s - 1 # 1
      BY <1>2, <1>3, <2>2
    <3> QED
      BY <1>1, <1>7, <2>2, <3>1
  <2> DEFINE t == s - 2
             e == LineEnd(block, t)
  <2>4. t \in 1..(m + 1) /\ s = t + 2
    BY <1>1, <2>3
  <2> HIDE DEF t
  <2>5. t \in Starts(block)
    <3>1. CASE t = 1
      BY <3>1 DEF Starts
    <3>2. CASE t # 1
      <4>1. t - 1 \in 1..m /\ 2 + (t - 1) = s - 1 /\ t = (t - 1) + 1
        BY <1>1, <2>4, <3>2
      <4>2. block[t - 1] = NL /\ t - 1 \in DOMAIN block
        <5>1. block[t - 1] = NL
          BY <1>2, <2>2, <4>1
        <5>2. DOMAIN block = 1..m
          BY DEF m
        <5> QED
          BY <4>1, <5>1, <5>2
      <4> QED
        BY <4>1, <4>2 DEF Starts
    <3> QED
      BY <3>1, <3>2
  <2>6. /\ e \in t..(m + 1) /\ (e <= m => block[e] = NL)
        /\ \A i \in t..(e - 1) : block[i] # NL
    BY <2>4, LineEndIs DEF m
  <2> HIDE DEF e
  <2>7. LineEnd(b, s) = e + 2
    <3>1. s \in Nat /\ s >= 1 /\ e + 2 \in s..(Len(b) + 1)
      BY <1>1, <2>4, <2>6
    <3>2. b[e + 2] = NL
      <4>1. CASE e <= m
        <5>1. e \in 1..m /\ e + 2 = 2 + e
          BY <1>1, <2>4, <2>6, <4>1
        <5> QED
          BY <1>2, <2>6, <4>1, <5>1
      <4>2. CASE e = m + 1
        <5>1. e + 2 = m + 3
          BY <1>1, <4>2
        <5> QED
          BY <1>2, <5>1
      <4> QED
        BY <1>1, <2>4, <2>6, <4>1, <4>2
    <3>3. ASSUME NEW i \in s..((e + 2) - 1) PROVE b[i] # NL
      <4>1. i - 2 \in t..(e - 1) /\ i - 2 \in 1..m /\ i = 2 + (i - 2)
        BY <1>1, <2>4, <2>6
      <4> QED
        BY <1>2, <2>6, <4>1, SMTT(30)
    <3> QED
      BY <3>1, <3>2, <3>3, EndsWhere
  <2>8. PICK f \in s..((e + 2) - 1) :
          b[f] = FENCE /\ \A i \in (s..((e + 2) - 1)) \ {f} : b[i] = CR
    BY <2>1, <2>7 DEF IsFence
  <2>9. f - 2 \in t..(e - 1) /\ f - 2 \in 1..m /\ f = 2 + (f - 2)
    BY <1>1, <2>4, <2>6
  <2>10. block[f - 2] = FENCE
    BY <1>2, <2>8, <2>9
  <2>11. ASSUME NEW i \in (t..(e - 1)) \ {f - 2} PROVE block[i] = CR
    <3>1. 2 + i \in (s..((e + 2) - 1)) \ {f} /\ i \in 1..m
      BY <1>1, <2>4, <2>6, <2>9
    <3> QED
      BY <1>2, <2>8, <3>1
  <2>12. IsFence(block, t)
    BY <2>9, <2>10, <2>11 DEF IsFence, e
  <2> QED
    BY <2>5, <2>12
<1>8. Min(Closings(b)) = m + 4
  <2>1. Closings(b) \in SUBSET Nat
    <3>1. \A j \in DOMAIN b : j + 1 \in Nat
      OBVIOUS
    <3> QED
      BY <3>1 DEF Closings, Starts
  <2>2. \A s \in Closings(b) : m + 4 <= s
    BY <1>1, <1>7, <2>1
  <2> QED
    BY <1>6, <2>1, <2>2, LeastIs
<1> QED
  BY <1>4, <1>5, <1>6, <1>8 DEF HasBlock, m

(* What is left below it without its leading newlines is the text.         *)
LEMMA BlanksGo ==
  ASSUME NEW T, NEW rest \in Seq(T), NEW blanks \in Nat, NEW text \in Seq(T),
         Len(rest) = blanks + Len(text),
         \A i \in 1..blanks : rest[i] = NL,
         \A i \in 1..Len(text) : rest[blanks + i] = text[i],
         text # << >> => text[1] # NL
  PROVE  WithoutLeadingBlanks(rest) = text
<1> DEFINE kept == {i \in DOMAIN rest : rest[i] # NL}
<1>1. Len(text) \in Nat /\ DOMAIN rest = 1..(blanks + Len(text))
  OBVIOUS
<1>2. CASE text = << >>
  <2>1. kept = {}
    BY <1>1, <1>2
  <2> QED
    BY <1>2, <2>1 DEF WithoutLeadingBlanks
<1>3. CASE text # << >>
  <2>1. Len(text) >= 1 /\ text[1] # NL
    BY <1>3
  <2>2. blanks + 1 \in kept /\ kept \in SUBSET Nat
    BY <1>1, <2>1
  <2>3. \A i \in kept : blanks + 1 <= i
    BY <1>1
  <2> HIDE DEF kept
  <2>4. Min(kept) = blanks + 1
    BY <2>2, <2>3, LeastIs
  <2> DEFINE left == SubSeq(rest, blanks + 1, Len(rest))
  <2>5. left \in Seq(T) /\ Len(left) = Len(text)
        /\ \A i \in 1..Len(text) : left[i] = rest[blanks + i]
    BY <1>1, <2>1
  <2> HIDE DEF left
  <2>6. left = text
    BY <2>5
  <2> QED
    BY <2>2, <2>4, <2>6 DEF WithoutLeadingBlanks, kept, left
<1> QED
  BY <1>2, <1>3

(* The gate reads a page's text out of its bytes, whatever block it has,   *)
(* however many blank lines follow it and however its lines end; of a page *)
(* without a block the blank lines it begins with come along (body).       *)
LEMMA BodyIsText ==
  ASSUME NEW page, IsPage(page)
  PROVE  Body(Bytes(page)) = IF page.block = NoBlock THEN Blank(page.blanks) \o page.text
                                                     ELSE page.text
<1> DEFINE block == page.block
           blanks == page.blanks
           text == page.text
           b == WithBlock(page) \o Blank(blanks) \o text
<1>1. /\ blanks \in Nat /\ page.crlf \in BOOLEAN /\ text \in Seq(Range(text))
      /\ CR \notin Range(text) /\ (text # << >> => text[1] # NL)
  BY Zenon DEF IsPage
<1>2. NL # CR /\ FENCE # CR
  BY TokensAssumption
<1>3. \A i \in DOMAIN text : text[i] # CR
  BY <1>1 DEF Range
<1>4. CASE block = NoBlock
  <2> DEFINE T == Range(text) \cup {NL, CR}
             whole == Blank(blanks) \o text
  <2>1. ~HasBlock(whole)
    BY <1>4, Zenon DEF IsPage
  <2>2. text \in Seq(T) /\ NL \in T /\ CR \in T
    BY <1>1, SeqMonotonic
  <2> HIDE DEF T, text, blanks
  <2>3. /\ Blank(blanks) \in Seq(T) /\ Len(Blank(blanks)) = blanks
        /\ \A i \in 1..blanks : Blank(blanks)[i] = NL
    BY <1>1, <2>2 DEF Blank
  <2>4. whole \in Seq(T)
    BY <2>2, <2>3
  <2>5. ASSUME NEW i \in DOMAIN whole PROVE whole[i] # CR
    <3>1. /\ Len(whole) = blanks + Len(text) /\ i \in 1..Len(whole)
          /\ i <= blanks => whole[i] = Blank(blanks)[i]
          /\ i > blanks => whole[i] = text[i - blanks]
      BY <1>1, <2>2, <2>3, <2>4
    <3>2. i <= blanks => whole[i] = NL
      BY <1>1, <2>3, <3>1
    <3>3. i > blanks => i - blanks \in DOMAIN text
      BY <1>1, <2>2, <3>1
    <3> QED
      BY <1>1, <1>2, <1>3, <3>1, <3>2, <3>3 DEF text
  <2>6. b = whole
    <3>1. WithBlock(page) = << >>
      BY <1>4 DEF WithBlock
    <3> QED
      BY <2>4, <3>1
  <2>7. Bytes(page) = LineEnds(whole, page.crlf)
    BY <2>6 DEF Bytes, blanks, text
  <2> HIDE DEF whole
  <2>8. OneNewline(LineEnds(whole, page.crlf)) = whole
    BY <1>1, <1>2, <2>2, <2>4, <2>5, LineEndsAreUndone
  <2> QED
    BY <1>4, <2>1, <2>7, <2>8 DEF Body, whole, text, blanks
<1>5. CASE block # NoBlock
  <2>1. /\ block \in Seq(Range(block)) /\ CR \notin Range(block)
        /\ \A start \in Starts(block) : ~IsFence(block, start)
    BY <1>5, Zenon DEF IsPage
  <2> DEFINE T == Range(text) \cup Range(block) \cup {NL, CR, FENCE}
  <2>2. text \in Seq(T) /\ block \in Seq(T) /\ NL \in T /\ CR \in T /\ FENCE \in T
    BY <1>1, <2>1, SeqMonotonic
  <2>3. \A i \in DOMAIN block : block[i] # CR
    BY <2>1 DEF Range
  <2>4. b = <<FENCE, NL>> \o block \o <<NL, FENCE, NL>> \o Blank(blanks) \o text
    BY <1>5 DEF WithBlock
  <2> HIDE DEF T, text, block, blanks
  <2>5. Written(b, block, blanks, text)
    BY <1>1, <2>2, <2>4, WrittenIs
  <2>6. b \in Seq(T)
    <3>1. Blank(blanks) \in Seq(T)
      BY <1>1, <2>2 DEF Blank
    <3>2. <<FENCE, NL>> \in Seq(T) /\ <<NL, FENCE, NL>> \in Seq(T)
      BY <2>2
    <3> QED
      BY <2>2, <2>4, <3>1, <3>2
  <2> HIDE DEF b
  <2> DEFINE m == Len(block)
  <2>7. /\ m \in Nat /\ Len(text) \in Nat /\ Len(b) = m + 5 + blanks + Len(text)
        /\ b[1] = FENCE /\ b[2] = NL /\ b[m + 3] = NL /\ b[m + 4] = FENCE /\ b[m + 5] = NL
        /\ \A i \in 1..m : b[2 + i] = block[i]
        /\ \A i \in 1..blanks : b[m + 5 + i] = NL
        /\ \A i \in 1..Len(text) : b[m + 5 + blanks + i] = text[i]
    BY <2>2, <2>5 DEF Written
  <2>8. DOMAIN block = 1..m /\ DOMAIN text = 1..Len(text) /\ DOMAIN b = 1..Len(b)
    BY <2>2, <2>6
  <2> HIDE DEF m
  <2>9. ASSUME NEW i \in DOMAIN b PROVE b[i] # CR
    <3>1. \/ i \in {1, 2, m + 3, m + 4, m + 5}
          \/ i - 2 \in 1..m /\ i = 2 + (i - 2)
          \/ i - (m + 5) \in 1..blanks /\ i = m + 5 + (i - (m + 5))
          \/ i - (m + 5 + blanks) \in 1..Len(text)
             /\ i = m + 5 + blanks + (i - (m + 5 + blanks))
      <4> DEFINE l == Len(text)
      <4>1. m \in Nat /\ blanks \in Nat /\ l \in Nat /\ i \in 1..(m + 5 + blanks + l)
        BY <1>1, <2>7, <2>8
      <4> HIDE DEF l
      <4>2. i \in 1..(m + 5) \/ i \in (m + 6)..(m + 5 + blanks)
            \/ i \in (m + 6 + blanks)..(m + 5 + blanks + l)
        BY <4>1
      <4>3. i \in 1..(m + 5) => i \in {1, 2, m + 3, m + 4, m + 5} \/ i - 2 \in 1..m
        BY <4>1
      <4>4. i \in (m + 6)..(m + 5 + blanks) => i - (m + 5) \in 1..blanks
        BY <4>1
      <4>5. i \in (m + 6 + blanks)..(m + 5 + blanks + l) => i - (m + 5 + blanks) \in 1..l
        BY <4>1
      <4>6. /\ i = 2 + (i - 2) /\ i = m + 5 + (i - (m + 5))
            /\ i = m + 5 + blanks + (i - (m + 5 + blanks))
        BY <4>1
      <4> QED
        BY <4>2, <4>3, <4>4, <4>5, <4>6 DEF l
    <3> QED
      BY <1>2, <1>3, <2>3, <2>7, <2>8, <3>1, SMTT(30)
  <2>10. OneNewline(Bytes(page)) = b
    <3>1. Bytes(page) = LineEnds(b, page.crlf)
      BY DEF Bytes, b, blanks, text
    <3> QED
      BY <1>1, <2>2, <2>6, <2>9, <3>1, LineEndsAreUndone
  <2>11. HasBlock(b) /\ LineEnd(b, Min(Closings(b))) = m + 5
    BY <1>1, <2>1, <2>2, <2>5, <2>6, BlockEnds DEF m
  <2> DEFINE rest == SubSeq(b, (m + 5) + 1, Len(b))
  <2>12. rest \in Seq(T) /\ Len(rest) = blanks + Len(text)
         /\ \A i \in 1..(blanks + Len(text)) : rest[i] = b[m + 5 + i]
    BY <1>1, <2>6, <2>7
  <2> HIDE DEF rest
  <2>13. /\ \A i \in 1..blanks : rest[i] = NL
         /\ \A i \in 1..Len(text) : rest[blanks + i] = text[i]
    <3>1. ASSUME NEW i \in 1..blanks PROVE rest[i] = NL
      <4>1. i \in 1..(blanks + Len(text))
        BY <1>1, <2>7
      <4> QED
        BY <2>7, <2>12, <4>1
    <3>2. ASSUME NEW i \in 1..Len(text) PROVE rest[blanks + i] = text[i]
      <4>1. blanks + i \in 1..(blanks + Len(text)) /\ m + 5 + (blanks + i) = m + 5 + blanks + i
        BY <1>1, <2>7
      <4>2. rest[blanks + i] = b[m + 5 + (blanks + i)]
        BY <2>12, <4>1
      <4> QED
        BY <2>7, <4>1, <4>2
    <3> QED
      BY <3>1, <3>2
  <2>14. WithoutLeadingBlanks(rest) = text
    BY <1>1, <2>2, <2>12, <2>13, BlanksGo
  <2> QED
    BY <1>5, <2>10, <2>11, <2>14 DEF Body, AfterBlock, rest, text, block
<1> QED
  BY <1>4, <1>5

-----------------------------------------------------------------------------
(* What is listed, what people wrote, and what git answers.                *)

(* What is preserved was listed.                                           *)
LEMMA PreservedAre ==
  /\ Preserved \in Seq(Range(Entries))
  /\ \A i \in DOMAIN Preserved : Preserved[i].path \in Paths
<1> DEFINE found == [i \in DOMAIN Entries |->
                       IF Entries[i].file /\ Entries[i].matches THEN <<Entries[i]>> ELSE << >>]
           E == Range(Entries)
<1>1. \A i \in DOMAIN Entries : Entries[i] \in E
  BY DEF Range
<1>2. Entries \in Seq(E)
  BY EntriesAssumption
<1> HIDE DEF E
<1>3. \A i \in DOMAIN Entries : found[i] \in Seq(E)
  BY <1>1
<1>4. found \in Seq(Seq(E))
  <2>1. DOMAIN Entries = 1..Len(Entries) /\ Len(Entries) \in Nat
    BY <1>2
  <2>2. found = [i \in 1..Len(Entries) |-> found[i]]
    BY <2>1
  <2> HIDE DEF found
  <2> QED
    BY <1>3, <2>1, <2>2
<1> HIDE DEF found
<1>5. FlattenSeq(found) \in Seq(E)
  BY <1>4, FlatIsSeq
<1>6. Preserved = FlattenSeq(found)
  BY DEF Preserved, found
<1>7. Preserved \in Seq(E)
  BY <1>5, <1>6
<1>8. \A i \in DOMAIN Preserved : Preserved[i] \in E
  BY <1>7
<1> QED
  BY <1>7, <1>8 DEF E, Paths

(* Whatever people write is bytes.                                         *)
LEMMA BytesAre ==
  ASSUME NEW page, IsPage(page)
  PROVE  Bytes(page) \in Seq(Range(Bytes(page)))
<1> DEFINE T == Range(page.block) \cup Range(page.text) \cup {NL, CR, FENCE}
           written == WithBlock(page) \o Blank(page.blanks) \o page.text
           ended == [i \in DOMAIN written |->
                       IF page.crlf /\ written[i] = NL THEN <<CR, NL>> ELSE <<written[i]>>]
<1>1. /\ page.block = NoBlock \/ page.block \in Seq(Range(page.block))
      /\ page.text \in Seq(Range(page.text)) /\ page.blanks \in Nat
  BY Zenon DEF IsPage
<1>2. page.text \in Seq(T)
  BY <1>1, SeqMonotonic
<1>3. WithBlock(page) \in Seq(T)
  <2>1. CASE page.block = NoBlock
    BY <2>1 DEF WithBlock
  <2>2. CASE page.block # NoBlock
    <3>1. page.block \in Seq(T)
      BY <1>1, <2>2, SeqMonotonic
    <3>2. <<FENCE, NL>> \in Seq(T) /\ <<NL, FENCE, NL>> \in Seq(T)
      OBVIOUS
    <3> HIDE DEF T
    <3> QED
      BY <2>2, <3>1, <3>2 DEF WithBlock
  <2> QED
    BY <2>1, <2>2
<1>4. Blank(page.blanks) \in Seq(T)
  <2>1. \A i \in 1..page.blanks : NL \in T
    OBVIOUS
  <2> HIDE DEF T
  <2> QED
    BY <1>1, <2>1 DEF Blank
<1>5. NL \in T /\ CR \in T
  OBVIOUS
<1> HIDE DEF T
<1>6. written \in Seq(T)
  BY <1>2, <1>3, <1>4
<1> HIDE DEF written
<1>7. \A i \in DOMAIN written : ended[i] \in Seq(T)
  BY <1>5, <1>6
<1>8. ended \in Seq(Seq(T))
  <2>1. DOMAIN written = 1..Len(written) /\ Len(written) \in Nat
    BY <1>6
  <2>2. ended = [i \in 1..Len(written) |-> ended[i]]
    BY <2>1
  <2> HIDE DEF ended
  <2> QED
    BY <1>7, <2>1, <2>2
<1> HIDE DEF ended
<1>9. FlattenSeq(ended) \in Seq(T)
  BY <1>8, FlatIsSeq
<1>10. Bytes(page) = FlattenSeq(ended)
  BY DEF Bytes, LineEnds, ended, written
<1> QED
  BY <1>9, <1>10, SeqOfRange DEF Range

(* At the base commit there is a page at every path.                       *)
Based == \A p \in Paths : base[p] \in Bases[p]

(* The ids are contents of pages at the base commit, one per file.         *)
LEMMA IdsAre ==
  ASSUME Based
  PROVE  /\ DOMAIN Ids = 1..Len(Preserved) /\ Len(Ids) = Len(Preserved) /\ Len(Preserved) \in Nat
         /\ \A i \in DOMAIN Ids : /\ Ids[i] = IdOf(Preserved[i].path)
                                  /\ Ids[i] \in Seq(Range(Ids[i]))
<1>1. DOMAIN Preserved = 1..Len(Preserved) /\ Len(Preserved) \in Nat
  BY PreservedAre
<1>2. DOMAIN Ids = 1..Len(Preserved) /\ Len(Ids) = Len(Preserved)
  BY <1>1 DEF Ids
<1>3. ASSUME NEW i \in DOMAIN Ids
      PROVE  /\ Ids[i] = IdOf(Preserved[i].path)
             /\ Ids[i] \in Seq(Range(Ids[i]))
  <2>1. Ids[i] = Bytes(base[Preserved[i].path]) /\ Preserved[i].path \in Paths
    BY <1>1, <1>2, PreservedAre DEF Ids, IdOf
  <2>2. IsPage(base[Preserved[i].path])
    BY <2>1, PagesAssumption DEF Based
  <2> QED
    BY <2>1, <2>2, BytesAre DEF IdOf
<1> QED
  BY <1>1, <1>2, <1>3

(* What git writes of each id.                                             *)
Chunks ==
  [i \in DOMAIN Ids |->
    IF Ids[i] \in readable.objects THEN <<Header(Len(Ids[i])), NL>> \o Ids[i] \o <<NL>>
    ELSE <<MISSING, NL>>]

Tokens == {NL, MISSING} \cup [size : Nat] \cup (UNION {Range(Ids[i]) : i \in DOMAIN Ids})

LEMMA ChunksAre ==
  ASSUME Based
  PROVE  /\ Chunks \in Seq(Seq(Tokens)) /\ Len(Chunks) = Len(Preserved)
         /\ Output = FlattenSeq(Chunks)
         /\ \A i \in DOMAIN Ids :
              /\ Ids[i] \in Seq(Tokens)
              /\ Ids[i] \in readable.objects =>
                   /\ Len(Chunks[i]) = Len(Ids[i]) + 3
                   /\ Chunks[i][1] = Header(Len(Ids[i])) /\ Chunks[i][2] = NL
                   /\ \A j \in 1..Len(Ids[i]) : Chunks[i][j + 2] = Ids[i][j]
              /\ Ids[i] \notin readable.objects =>
                   Len(Chunks[i]) = 2 /\ Chunks[i][1] = MISSING /\ Chunks[i][2] = NL
<1>1. DOMAIN Ids = 1..Len(Preserved) /\ Len(Preserved) \in Nat
  BY IdsAre
<1>2. ASSUME NEW i \in DOMAIN Ids
      PROVE  /\ Ids[i] \in Seq(Tokens) /\ Chunks[i] \in Seq(Tokens)
             /\ Ids[i] \in readable.objects =>
                  /\ Len(Chunks[i]) = Len(Ids[i]) + 3
                  /\ Chunks[i][1] = Header(Len(Ids[i])) /\ Chunks[i][2] = NL
                  /\ \A j \in 1..Len(Ids[i]) : Chunks[i][j + 2] = Ids[i][j]
             /\ Ids[i] \notin readable.objects =>
                  Len(Chunks[i]) = 2 /\ Chunks[i][1] = MISSING /\ Chunks[i][2] = NL
  <2> DEFINE id == Ids[i]
  <2>1. Range(id) \subseteq Tokens /\ NL \in Tokens /\ MISSING \in Tokens
    <3>1. Range(id) \in {Range(Ids[k]) : k \in DOMAIN Ids}
      OBVIOUS
    <3> HIDE DEF id
    <3> QED
      BY <3>1 DEF Tokens
  <2>2. id \in Seq(Tokens)
    BY <2>1, IdsAre, SeqMonotonic
  <2>3. Header(Len(id)) \in Tokens
    <3>1. Len(id) \in Nat
      BY <2>2
    <3> HIDE DEF id
    <3>2. [size |-> Len(id)] \in [size : Nat]
      BY <3>1
    <3> QED
      BY <3>2 DEF Tokens, Header
  <2>4. Chunks[i] = IF id \in readable.objects THEN <<Header(Len(id)), NL>> \o id \o <<NL>>
                    ELSE <<MISSING, NL>>
    BY DEF Chunks
  <2> DEFINE header == Header(Len(id))
             chunk == Chunks[i]
  <2> HIDE DEF id, header, chunk
  <2>5. CASE id \in readable.objects
    <3>1. chunk = <<header, NL>> \o id \o <<NL>>
      BY <2>4, <2>5 DEF chunk, header
    <3>2. header \in Tokens
      BY <2>3 DEF header
    <3>3. /\ chunk \in Seq(Tokens) /\ Len(chunk) = Len(id) + 3
          /\ chunk[1] = header /\ chunk[2] = NL
          /\ \A j \in 1..Len(id) : chunk[j + 2] = id[j]
      BY <2>1, <2>2, <3>1, <3>2
    <3> QED
      BY <2>2, <2>5, <3>3 DEF id, header, chunk
  <2>6. CASE id \notin readable.objects
    <3>1. chunk = <<MISSING, NL>>
      BY <2>4, <2>6 DEF chunk
    <3>2. /\ chunk \in Seq(Tokens) /\ Len(chunk) = 2 /\ chunk[1] = MISSING /\ chunk[2] = NL
      BY <2>1, <3>1
    <3> QED
      BY <2>2, <2>6, <3>2 DEF id, chunk
  <2> QED
    BY <2>5, <2>6
<1>3. DOMAIN Chunks = 1..Len(Preserved) /\ \A i \in 1..Len(Preserved) : Chunks[i] \in Seq(Tokens)
  BY <1>1, <1>2 DEF Chunks
<1>4. Chunks = [i \in 1..Len(Preserved) |-> Chunks[i]]
  BY <1>1 DEF Chunks
<1>5. Chunks \in Seq(Seq(Tokens)) /\ Len(Chunks) = Len(Preserved)
  BY <1>1, <1>3, <1>4
<1>6. Output = FlattenSeq(Chunks)
  BY DEF Output, Chunks
<1> QED
  BY <1>2, <1>5, <1>6

(* Where each of them ends in what git wrote.                              *)
Ends == CHOOSE ends : Stands(ends, Chunks)

LEMMA EndsAre ==
  ASSUME Based, Preserved # << >>
  PROVE  Stands(Ends, Chunks) /\ Output \in Seq(Tokens)
<1>1. Chunks \in Seq(Seq(Tokens)) /\ Len(Chunks) = Len(Preserved) /\ Output = FlattenSeq(Chunks)
  BY ChunksAre
<1>2. Len(Preserved) # 0
  BY PreservedAre
<1>3. Chunks # << >>
  BY <1>1, <1>2
<1>4. \E ends : Stands(ends, Chunks)
  BY <1>1, <1>3, Standing
<1> QED
  BY <1>1, <1>4, FlatIsSeq DEF Ends

-----------------------------------------------------------------------------
(* The gate.                                                               *)

Asked ==
  patterns = "globs" /\ readable.commit /\ readable.answers /\ Preserved # << >>

Kept(path) ==
  /\ work[path] # Deleted
  /\ Body(Bytes(base[path])) = Body(Bytes(work[path]))

(* What was read is what the ids name.                                     *)
ReadRight == \A id \in DOMAIN blobs : blobs[id] = id

(* Cutting, the gate stands where a blob ends, and has read what is before.*)
CutRight ==
  /\ out = Output
  /\ at = Ends[next - 1] + 1
  /\ DOMAIN blobs = {Ids[i] : i \in 1..(next - 1)}
  /\ \A i \in 1..(next - 1) : Ids[i] \in readable.objects

AllRead == DOMAIN blobs = Range(Ids) /\ Range(Ids) \subseteq readable.objects

ComparedRight ==
  offences = {Preserved[i].path : i \in {k \in 1..(next - 1) : ~Kept(Preserved[k].path)}}

(* A verdict was asked for, has read all there was, and is of the bodies.  *)
Grounded ==
  /\ Asked
  /\ Range(Ids) \subseteq readable.objects
  /\ verdict = Passed <=> \A i \in DOMAIN Preserved : Kept(Preserved[i].path)

(* The inductive invariant.                                                *)
Inv ==
  /\ Based
  /\ patterns \in {"none", "invalid", "unmatched", "globs"}
  /\ phase \in {"editing", "cutting", "comparing", "done"}
  /\ verdict \in Gate /\ (phase # "done" => verdict = Unavailable)
  /\ offences \subseteq Paths
  /\ next \in 1..(Len(Preserved) + 1)
  /\ at \in 1..(Len(out) + 1)
  /\ DOMAIN blobs \subseteq Range(Ids)
  /\ ReadRight
  /\ phase = "editing" => next = 1 /\ at = 1 /\ DOMAIN blobs = {}
  /\ phase \in {"editing", "cutting"} => offences = {}
  /\ phase \in {"cutting", "comparing"} => Asked
  /\ phase = "cutting" => CutRight
  /\ phase = "comparing" => AllRead /\ ComparedRight
  /\ verdict.result # "not-run" => Grounded
  /\ verdict = NotApplied => HadNothing

(* The four verdicts the gate may give.                                    *)
LEMMA Verdicts ==
  /\ Passed \in Gate /\ Failed \in Gate /\ NotApplied \in Gate /\ Unavailable \in Gate
  /\ Unavailable.result = "not-run" /\ NotApplied.result = "not-run"
  /\ Passed # Failed /\ Passed # NotApplied /\ Passed # Unavailable
  /\ NotApplied # Failed /\ NotApplied # Unavailable
BY DEF Gate, Results, Passed, Failed, NotApplied, Unavailable

(* Nothing is read and nothing said before the run is over.                *)
LEMMA Initially == Init => Inv
<1> SUFFICES ASSUME Init PROVE Inv
  OBVIOUS
<1>1. Based /\ patterns \in {"none", "invalid", "unmatched", "globs"}
  BY DEF Init, Based
<1>2. 1 \in 1..(Len(Preserved) + 1) /\ 1 \in 1..(Len(out) + 1) /\ DOMAIN << >> = {}
  BY PreservedAre DEF Init
<1> QED
  BY <1>1, <1>2, Verdicts DEF Init, Inv, ReadRight

(* Where a blob should begin the next line is what git announces of it,    *)
(* and what it announces is as long as that blob is.                       *)
LEMMA Reading ==
  ASSUME Inv, phase = "cutting", next <= Len(Ids)
  PROVE  /\ EndOfLine = at + 1
         /\ Announced = IF Ids[next] \in readable.objects THEN <<Header(Len(Ids[next]))>>
                        ELSE <<MISSING>>
         /\ Ids[next] \in Seq(Tokens) /\ out \in Seq(Tokens) /\ at \in Nat
         /\ Ids[next] \in readable.objects =>
              /\ SubSeq(out, at + 2, at + 1 + Len(Ids[next])) = Ids[next]
              /\ Ends[next] = at + Len(Ids[next]) + 2
              /\ Ends[next] <= Len(out)
<1> DEFINE chunk == Chunks[next]
           id == Ids[next]
<1>1. /\ Based /\ Preserved # << >> /\ CutRight /\ next \in 1..(Len(Preserved) + 1)
      /\ at \in 1..(Len(out) + 1)
  BY DEF Inv, Asked
<1>2. next \in DOMAIN Ids /\ next \in 1..Len(Chunks) /\ next \in Nat
  BY <1>1, IdsAre, ChunksAre
<1>3. Stands(Ends, Chunks) /\ out \in Seq(Tokens) /\ out = FlattenSeq(Chunks)
  BY <1>1, EndsAre, ChunksAre DEF CutRight
<1>4. /\ id \in Seq(Tokens) /\ chunk \in Seq(Tokens)
      /\ id \in readable.objects =>
           /\ Len(chunk) = Len(id) + 3
           /\ chunk[1] = Header(Len(id)) /\ chunk[2] = NL
           /\ \A j \in 1..Len(id) : chunk[j + 2] = id[j]
      /\ id \notin readable.objects =>
           Len(chunk) = 2 /\ chunk[1] = MISSING /\ chunk[2] = NL
  <2>1. Chunks \in Seq(Seq(Tokens))
    BY <1>1, ChunksAre
  <2>2. chunk \in Seq(Tokens)
    BY <1>2, <2>1
  <2> QED
    BY <1>1, <1>2, <2>2, ChunksAre
<1>5. /\ Ends[next] = Ends[next - 1] + Len(chunk) /\ Ends[next] <= Len(out)
      /\ \A j \in 1..Len(chunk) : out[Ends[next - 1] + j] = chunk[j]
      /\ Ends[next - 1] \in Nat
  BY <1>2, <1>3, SMTT(30) DEF Stands
<1>6. at = Ends[next - 1] + 1
  BY <1>1 DEF CutRight
<1> HIDE DEF chunk, id
<1>7. Len(chunk) \in Nat /\ Len(chunk) >= 2 /\ Len(id) \in Nat
  BY <1>4
<1>8. /\ at + 1 \in 1..Len(out) /\ out[at] = chunk[1] /\ out[at + 1] = chunk[2]
      /\ \A j \in 1..Len(chunk) : out[at - 1 + j] = chunk[j]
  <2>1. 1 \in 1..Len(chunk) /\ 2 \in 1..Len(chunk) /\ Len(out) \in Nat
    BY <1>3, <1>7
  <2>2. out[Ends[next - 1] + 1] = chunk[1] /\ out[Ends[next - 1] + 2] = chunk[2]
    BY <1>5, <2>1
  <2>3. at \in Nat /\ at - 1 = Ends[next - 1] /\ at + 1 = Ends[next - 1] + 2
    BY <1>5, <1>6
  <2>4. at + 1 \in 1..Len(out)
    BY <1>5, <1>6, <1>7, <2>1
  <2>5. out[at] = chunk[1] /\ out[at + 1] = chunk[2]
    BY <1>6, <2>2, <2>3
  <2>6. \A j \in 1..Len(chunk) : out[at - 1 + j] = chunk[j]
    BY <1>5, <2>3
  <2> QED
    BY <2>4, <2>5, <2>6
<1>9. out[at + 1] = NL /\ out[at] # NL
  <2>1. chunk[2] = NL /\ chunk[1] \in {MISSING, Header(Len(id))}
    BY <1>4
  <2>2. NL # MISSING /\ NL # Header(Len(id))
    BY <1>7, TokensAssumption DEF Header
  <2> QED
    BY <1>8, <2>1, <2>2
<1>10. EndOfLine = at + 1
  <2> DEFINE ends == {i \in DOMAIN out : i >= at /\ out[i] = NL}
  <2>1. DOMAIN out = 1..Len(out) /\ Len(out) \in Nat /\ at \in Nat
    BY <1>1, <1>3
  <2>2. ends \in SUBSET Nat /\ at + 1 \in ends /\ at \notin ends
    BY <1>8, <1>9, <2>1
  <2>3. \A i \in ends : i >= at
    OBVIOUS
  <2> HIDE DEF ends
  <2>4. \A i \in ends : at + 1 <= i
    BY <2>1, <2>2, <2>3
  <2>5. Min(ends) = at + 1
    BY <2>2, <2>4, LeastIs
  <2> QED
    BY <2>5 DEF EndOfLine, ends
<1>11. Announced = <<out[at]>>
  <2>1. at \in 1..Len(out) /\ EndOfLine - 1 = at
    BY <1>1, <1>3, <1>8, <1>10
  <2> DEFINE line == SubSeq(out, at, at)
  <2>2. at \in Nat /\ Len(out) \in Nat
    BY <1>1, <1>3
  <2>3. line \in Seq(Tokens) /\ Len(line) = 1 /\ line[1] = out[at]
    BY <1>3, <2>1, <2>2, SubSeqProperties
  <2> HIDE DEF line
  <2>4. line = <<out[at]>>
    BY <2>3
  <2> QED
    BY <2>1, <2>4 DEF Announced, line
<1>12. Announced = IF id \in readable.objects THEN <<Header(Len(id))>> ELSE <<MISSING>>
  BY <1>4, <1>8, <1>11
<1>13. ASSUME id \in readable.objects
       PROVE  /\ SubSeq(out, at + 2, at + 1 + Len(id)) = id
              /\ Ends[next] = at + Len(id) + 2
  <2>1. Len(chunk) = Len(id) + 3 /\ \A j \in 1..Len(id) : chunk[j + 2] = id[j]
    BY <1>4, <1>13
  <2>2. at \in Nat /\ at >= 1 /\ at + Len(id) + 2 <= Len(out) /\ Len(out) \in Nat
    BY <1>1, <1>3, <1>5, <1>6, <1>7, <2>1, SMTT(30)
  <2>3. \A j \in 1..Len(id) : out[at + 1 + j] = id[j]
    <3> SUFFICES ASSUME NEW j \in 1..Len(id) PROVE out[at + 1 + j] = id[j]
      OBVIOUS
    <3>1. j + 2 \in 1..Len(chunk) /\ at - 1 + (j + 2) = at + 1 + j
      BY <1>7, <2>1, <2>2
    <3>2. out[at - 1 + (j + 2)] = chunk[j + 2]
      BY <1>8, <3>1
    <3> QED
      BY <2>1, <3>1, <3>2
  <2> DEFINE cut == SubSeq(out, at + 2, at + 1 + Len(id))
  <2>4. cut \in Seq(Tokens) /\ Len(cut) = Len(id) /\ \A j \in 1..Len(id) : cut[j] = out[at + 1 + j]
    <3> DEFINE from == at + 2
               to == at + 1 + Len(id)
    <3>1. from \in 1..(Len(out) + 1) /\ to \in (from - 1)..Len(out) /\ to - from + 1 = Len(id)
          /\ \A j \in 1..Len(id) : from + j - 1 = at + 1 + j
      BY <1>7, <2>2
    <3> HIDE DEF from, to
    <3>2. /\ SubSeq(out, from, to) \in Seq(Tokens)
          /\ Len(SubSeq(out, from, to)) = IF from <= to THEN to - from + 1 ELSE 0
          /\ \A j \in 1..(to - from + 1) : SubSeq(out, from, to)[j] = out[from + j - 1]
      BY <1>3, <3>1, SubSeqProperties
    <3>3. Len(SubSeq(out, from, to)) = to - from + 1
      BY <1>7, <2>2, <3>1, <3>2
    <3> QED
      BY <3>1, <3>2, <3>3 DEF from, to
  <2> HIDE DEF cut
  <2>5. cut = id
    <3>1. Len(cut) = Len(id) /\ \A j \in 1..Len(cut) : cut[j] = id[j]
      BY <2>3, <2>4
    <3>2. cut \in Seq(Tokens) /\ id \in Seq(Tokens)
      BY <1>4, <2>4
    <3> QED
      BY <3>1, <3>2
  <2>6. Ends[next] = at + Len(id) + 2
    <3> DEFINE e == Ends[next - 1]
               f == Ends[next]
    <3>1. f = e + Len(chunk) /\ e \in Nat /\ at = e + 1
      BY <1>5, <1>6
    <3> HIDE DEF e, f
    <3>2. f = at + Len(id) + 2
      BY <1>7, <2>1, <3>1
    <3> QED
      BY <3>2 DEF f
  <2> QED
    BY <2>5, <2>6 DEF cut
<1>14. at \in Nat /\ Ends[next] <= Len(out) /\ id \in Seq(Tokens) /\ out \in Seq(Tokens)
  BY <1>3, <1>4, <1>5, <1>6
<1> QED
  BY <1>10, <1>12, <1>13, <1>14 DEF id

(* What a step leaves alone: the base, the objects and the working tree.   *)
LEMMA TheSame ==
  ASSUME UNCHANGED <<patterns, base, readable>>
  PROVE  /\ Ids' = Ids /\ Output' = Output /\ Ends' = Ends
         /\ (Based <=> Based') /\ (Asked <=> Asked')
         /\ (HadNothing <=> HadNothing')
         /\ work' = work => \A path : Kept(path) <=> Kept(path)'
<1>1. \A path : IdOf(path)' = IdOf(path)
  BY DEF IdOf
<1>2. Ids' = Ids
  BY <1>1 DEF Ids
<1>3. Output' = Output /\ Chunks' = Chunks
  BY <1>2 DEF Output, Chunks
<1>4. Ends' = Ends
  BY <1>3 DEF Ends
<1> QED
  BY <1>2, <1>3, <1>4 DEF Based, Asked, Kept, HadNothing, NothingToKeep

(* The gate begins to cut where git began to write.                        *)
LEMMA Judging == ASSUME Inv, Judge PROVE Inv'
<1>1. /\ phase = "editing" /\ UNCHANGED <<patterns, base, readable, work, at, next, blobs, offences>>
      /\ next = 1 /\ at = 1 /\ DOMAIN blobs = {} /\ offences = {} /\ verdict = Unavailable
  BY DEF Judge, Inv
<1>2. /\ Ids' = Ids /\ Output' = Output /\ Ends' = Ends
      /\ (Based <=> Based') /\ (Asked <=> Asked') /\ (HadNothing <=> HadNothing')
  BY <1>1, TheSame
<1>3. CASE Asks = Passed
  <2>1. /\ phase' = "cutting" /\ out' = Output /\ verdict' = verdict
    BY <1>3 DEF Judge
  <2>2. Asked
    BY <1>3, Verdicts DEF Asks, Asked, NothingToKeep, Inv
  <2>3. Stands(Ends, Chunks) /\ Output \in Seq(Tokens)
    BY <2>2, EndsAre DEF Inv, Asked
  <2>4. Ends[0] = 0 /\ Len(Output) \in Nat
    BY <2>3 DEF Stands
  <2>5. CutRight'
    BY <1>1, <1>2, <2>1, <2>4 DEF CutRight
  <2>6. at' \in 1..(Len(out') + 1)
    BY <1>1, <2>1, <2>4
  <2> QED
    BY <1>1, <1>2, <2>1, <2>2, <2>5, <2>6, Verdicts DEF Inv, ReadRight
<1>4. CASE Asks # Passed
  <2>1. /\ phase' = "done" /\ verdict' = Asks /\ out' = out
    BY <1>4 DEF Judge, End
  <2>2. Asks \in {Unavailable, NotApplied}
    BY <1>4 DEF Asks
  <2>3. Asks = NotApplied => HadNothing
    BY Verdicts DEF Asks, HadNothing
  <2> QED
    BY <1>1, <1>2, <2>1, <2>2, <2>3, Verdicts DEF Inv, ReadRight
<1> QED
  BY <1>3, <1>4

(* One turn of the loop ends where a blob ends.                            *)
LEMMA Cutting == ASSUME Inv, Cut PROVE Inv'
<1>1. /\ phase = "cutting" /\ next <= Len(Ids)
      /\ next' = next + 1
      /\ UNCHANGED <<patterns, base, readable, work, phase, out, offences, verdict>>
  BY DEF Cut
<1>2. PICK size \in 0..Len(out) :
        /\ Announced = <<Header(size)>>
        /\ blobs' = WithBlob(Ids[next], SubSeq(out, EndOfLine + 1, EndOfLine + 1 + size - 1))
        /\ at' = EndOfLine + 1 + size + 1
  BY DEF Cut
<1>3. /\ Ids' = Ids /\ Output' = Output /\ Ends' = Ends
      /\ (Based <=> Based') /\ (Asked <=> Asked') /\ (HadNothing <=> HadNothing')
  BY <1>1, TheSame
<1> DEFINE id == Ids[next]
<1>4. /\ EndOfLine = at + 1
      /\ Announced = IF id \in readable.objects THEN <<Header(Len(id))>> ELSE <<MISSING>>
      /\ id \in Seq(Tokens) /\ out \in Seq(Tokens) /\ at \in Nat
      /\ id \in readable.objects =>
           /\ SubSeq(out, at + 2, at + 1 + Len(id)) = id
           /\ Ends[next] = at + Len(id) + 2
           /\ Ends[next] <= Len(out)
  BY <1>1, Reading
<1>5. /\ DOMAIN Ids = 1..Len(Preserved) /\ Len(Ids) = Len(Preserved) /\ Len(Preserved) \in Nat
      /\ next \in 1..(Len(Preserved) + 1)
  BY IdsAre DEF Inv
<1>6. next \in DOMAIN Ids /\ id \in Range(Ids)
  BY <1>1, <1>5 DEF Range
<1> HIDE DEF id
<1>7. Len(id) \in Nat /\ Len(out) \in Nat
  BY <1>4
<1>8. id \in readable.objects /\ size = Len(id)
  <2>1. Header(size).size = size /\ Header(Len(id)).size = Len(id)
    BY DEF Header
  <2>2. CASE id \notin readable.objects
    <3>1. <<MISSING>> = <<Header(size)>>
      BY <1>2, <1>4, <2>2
    <3>2. MISSING = Header(size) /\ size \in Nat
      BY <1>2, <1>7, <3>1
    <3>3. Header(size) \in [size : Nat]
      BY <3>2 DEF Header
    <3> QED
      BY <3>2, <3>3, TokensAssumption
  <2>3. CASE id \in readable.objects
    <3>1. <<Header(Len(id))>> = <<Header(size)>>
      BY <1>2, <1>4, <2>3
    <3>2. Header(Len(id)) = Header(size)
      BY <3>1
    <3> QED
      BY <2>1, <2>3, <3>2
  <2> QED
    BY <2>2, <2>3
<1>9. blobs' = WithBlob(id, id)
  <2>1. EndOfLine + 1 = at + 2 /\ EndOfLine + 1 + size - 1 = at + 1 + Len(id)
    BY <1>4, <1>7, <1>8
  <2>2. blobs' = WithBlob(id, SubSeq(out, EndOfLine + 1, EndOfLine + 1 + size - 1))
    BY <1>2 DEF id
  <2> QED
    BY <1>4, <1>8, <2>1, <2>2
<1>10. at' = Ends[next] + 1 /\ at' \in 1..(Len(out) + 1)
  BY <1>2, <1>4, <1>7, <1>8
<1>11. DOMAIN blobs' = DOMAIN blobs \cup {id} /\ \A i \in DOMAIN blobs' : blobs'[i] = i
  BY <1>9 DEF WithBlob, Inv, ReadRight
<1>12. CutRight /\ Asked /\ offences = {} /\ verdict = Unavailable
  BY <1>1 DEF Inv
<1>13. 1..(next' - 1) = (1..(next - 1)) \cup {next} /\ next' - 1 = next /\ next' \in 1..(Len(Preserved) + 1)
  BY <1>1, <1>5
<1>14. CutRight'
  <2>1. out' = Output' /\ at' = Ends'[next' - 1] + 1
    BY <1>1, <1>3, <1>10, <1>12, <1>13 DEF CutRight
  <2>2. DOMAIN blobs' = {Ids[i] : i \in 1..(next' - 1)}
    <3>1. DOMAIN blobs' = {Ids[i] : i \in 1..(next - 1)} \cup {Ids[next]}
      BY <1>11, <1>12 DEF CutRight, id
    <3>2. {Ids[i] : i \in (1..(next - 1)) \cup {next}}
            = {Ids[i] : i \in 1..(next - 1)} \cup {Ids[next]}
      OBVIOUS
    <3> QED
      BY <1>13, <3>1, <3>2, Zenon
  <2>3. \A i \in 1..(next' - 1) : Ids[i] \in readable.objects
    BY <1>8, <1>12, <1>13 DEF CutRight, id
  <2> QED
    BY <1>1, <1>3, <2>1, <2>2, <2>3 DEF CutRight
<1>15. DOMAIN blobs' \subseteq Range(Ids)' /\ ReadRight'
  BY <1>3, <1>6, <1>11 DEF Inv, ReadRight
<1> QED
  BY <1>1, <1>3, <1>10, <1>12, <1>13, <1>14, <1>15, Verdicts DEF Inv

(* After the last turn every id was read.                                  *)
LEMMA CutEnds == ASSUME Inv, CutDone PROVE Inv'
<1>1. /\ phase = "cutting" /\ next > Len(Ids) /\ phase' = "comparing" /\ next' = 1
      /\ UNCHANGED <<patterns, base, readable, work, out, at, blobs, offences, verdict>>
      /\ CutRight /\ Asked /\ offences = {} /\ verdict = Unavailable
  BY DEF CutDone, Inv
<1>2. /\ Ids' = Ids /\ (Based <=> Based') /\ (Asked <=> Asked') /\ (HadNothing <=> HadNothing')
  BY <1>1, TheSame
<1>3. /\ DOMAIN Ids = 1..Len(Preserved) /\ Len(Ids) = Len(Preserved) /\ Len(Preserved) \in Nat
      /\ next \in 1..(Len(Preserved) + 1)
  BY IdsAre DEF Inv
<1>4. next - 1 = Len(Preserved)
  BY <1>1, <1>3
<1>5. DOMAIN blobs = Range(Ids) /\ Range(Ids) \subseteq readable.objects
  BY <1>1, <1>3, <1>4 DEF CutRight, Range
<1>6. AllRead' /\ ComparedRight'
  <2>1. \A k \in 1..(1 - 1) : FALSE
    OBVIOUS
  <2>2. 1..(next' - 1) = {}
    BY <1>1
  <2> QED
    BY <1>1, <1>2, <1>5, <2>2 DEF AllRead, ComparedRight
<1>7. next' \in 1..(Len(Preserved) + 1)
  BY <1>1, <1>3
<1> QED
  BY <1>1, <1>2, <1>6, <1>7, Verdicts DEF Inv, ReadRight

(* A file is an offence exactly where its body was not kept.               *)
LEMMA Comparing == ASSUME Inv, Compare PROVE Inv'
<1> DEFINE path == Preserved[next].path
<1>1. /\ phase = "comparing" /\ next <= Len(Preserved) /\ next' = next + 1
      /\ UNCHANGED <<patterns, base, readable, work, phase, out, at, blobs, verdict>>
      /\ AllRead /\ ComparedRight /\ Asked /\ verdict = Unavailable /\ ReadRight
  BY DEF Compare, Inv
<1>2. /\ Ids' = Ids /\ (Based <=> Based') /\ (Asked <=> Asked') /\ (HadNothing <=> HadNothing')
      /\ \A p : Kept(p) <=> Kept(p)'
  BY <1>1, TheSame
<1>3. /\ DOMAIN Ids = 1..Len(Preserved) /\ Len(Preserved) \in Nat /\ next \in 1..(Len(Preserved) + 1)
      /\ DOMAIN Preserved = 1..Len(Preserved)
  BY IdsAre, PreservedAre DEF Inv
<1>4. next \in DOMAIN Ids /\ next \in DOMAIN Preserved /\ path \in Paths
  BY <1>1, <1>3, PreservedAre
<1>5. Ids[next] = IdOf(path) /\ Ids[next] \in DOMAIN blobs
  BY <1>1, <1>4, IdsAre DEF Inv, AllRead, Range
<1>6. blobs[IdOf(path)] = Bytes(base[path])
  BY <1>1, <1>5 DEF ReadRight, IdOf
<1>7. offences' = IF Kept(path) THEN offences ELSE offences \cup {path}
  BY <1>6 DEF Compare, Kept
<1> DEFINE lost(n) == {k \in 1..n : ~Kept(Preserved[k].path)}
<1>8. offences = {Preserved[i].path : i \in lost(next - 1)}
  BY <1>1 DEF ComparedRight
<1>9. 1..next = (1..(next - 1)) \cup {next} /\ next' - 1 = next /\ next' \in 1..(Len(Preserved) + 1)
  BY <1>1, <1>3
<1>10. lost(next) = IF Kept(path) THEN lost(next - 1) ELSE lost(next - 1) \cup {next}
  BY <1>9
<1> HIDE DEF lost
<1>11. offences' = {Preserved[i].path : i \in lost(next)}
  BY <1>7, <1>8, <1>10
<1>12. lost(next) = {k \in 1..(next' - 1) : ~Kept(Preserved[k].path)'}
  BY <1>2, <1>9 DEF lost
<1>13. ComparedRight'
  BY <1>11, <1>12 DEF ComparedRight
<1>14. AllRead' /\ offences' \subseteq Paths
  BY <1>1, <1>2, <1>4, <1>7 DEF AllRead, Inv
<1> QED
  BY <1>1, <1>2, <1>9, <1>13, <1>14, Verdicts DEF Inv, ReadRight

(* The verdict is over all the files.                                      *)
LEMMA Concluding == ASSUME Inv, Conclude PROVE Inv'
<1>1. /\ phase = "comparing" /\ next > Len(Preserved) /\ phase' = "done"
      /\ verdict' = IF offences = {} THEN Passed ELSE Failed
      /\ UNCHANGED <<patterns, base, readable, work, out, at, next, blobs, offences>>
      /\ AllRead /\ ComparedRight /\ Asked
  BY DEF Conclude, End, Inv
<1>2. /\ Ids' = Ids /\ (Based <=> Based') /\ (Asked <=> Asked') /\ (HadNothing <=> HadNothing')
      /\ \A p : Kept(p) <=> Kept(p)'
  BY <1>1, TheSame
<1>3. DOMAIN Preserved = 1..Len(Preserved) /\ next - 1 = Len(Preserved)
  BY <1>1, PreservedAre DEF Inv
<1>4. offences = {} <=> \A i \in DOMAIN Preserved : Kept(Preserved[i].path)
  BY <1>1, <1>3 DEF ComparedRight
<1>5. Grounded'
  BY <1>1, <1>2, <1>4, Verdicts DEF Grounded, AllRead
<1> QED
  BY <1>1, <1>2, <1>5, Verdicts DEF Inv, ReadRight

(* Every step keeps the invariant.                                         *)
LEMMA Inductive == Inv /\ [Next]_vars => Inv'
<1> SUFFICES ASSUME Inv, [Next]_vars PROVE Inv'
  OBVIOUS
<1>1. ASSUME NEW p \in Paths, NEW page, Edit(p, page) PROVE Inv'
  <2>1. /\ phase = "editing" /\ verdict = Unavailable
        /\ UNCHANGED <<patterns, base, readable, phase, out, at, next, blobs, offences, verdict>>
    BY <1>1 DEF Edit, Inv
  <2>2. Ids' = Ids /\ (Based <=> Based') /\ (Asked <=> Asked') /\ (HadNothing <=> HadNothing')
    BY <2>1, TheSame
  <2> QED
    BY <2>1, <2>2, Verdicts DEF Inv, ReadRight
<1>2. CASE CutFails
  <2>1. /\ phase = "cutting" /\ phase' = "done" /\ verdict' = Unavailable
        /\ UNCHANGED <<patterns, base, readable, work, out, at, next, blobs, offences>>
    BY <1>2 DEF CutFails, End
  <2>2. Ids' = Ids /\ (Based <=> Based') /\ (Asked <=> Asked') /\ (HadNothing <=> HadNothing')
    BY <2>1, TheSame
  <2> QED
    BY <2>1, <2>2, Verdicts DEF Inv, ReadRight
<1>3. CASE UNCHANGED vars
  <2>1. UNCHANGED <<patterns, base, readable, work, phase, out, at, next, blobs, offences, verdict>>
    BY <1>3 DEF vars
  <2>2. /\ Ids' = Ids /\ Output' = Output /\ Ends' = Ends
        /\ (Based <=> Based') /\ (Asked <=> Asked') /\ (HadNothing <=> HadNothing')
        /\ \A path : Kept(path) <=> Kept(path)'
    BY <2>1, TheSame
  <2>3. (CutRight => CutRight') /\ (AllRead => AllRead') /\ (ReadRight => ReadRight')
    BY <2>1, <2>2 DEF CutRight, AllRead, ReadRight
  <2>4. (ComparedRight => ComparedRight') /\ (Grounded => Grounded')
    BY <2>1, <2>2 DEF ComparedRight, Grounded
  <2> QED
    BY <2>1, <2>2, <2>3, <2>4 DEF Inv
<1> QED
  BY <1>1, <1>2, <1>3, Judging, Cutting, CutEnds, Comparing, Concluding DEF Next

(* So it always holds.                                                     *)
LEMMA Invariance == Spec => []Inv
BY Initially, Inductive, PTL DEF Spec

(* The gate stands inside what git wrote, has read the ids it passed and   *)
(* no others, and says nothing before it is done (gate, _blobs).           *)
THEOREM TypeCorrect == Spec => []TypeOK
<1>1. Inv => TypeOK
  BY DEF Inv, TypeOK, CutRight
<1> QED
  BY <1>1, Invariance, PTL

(* Every id is read as the content it names, whatever the contents are:    *)
(* of any length, empty, alike, or with lines like git's own (_blobs).     *)
THEOREM ReadAsNamed == Spec => []BlobsAreRight
<1>1. Inv => BlobsAreRight
  BY DEF Inv, BlobsAreRight, AllRead, ReadRight
<1> QED
  BY <1>1, Invariance, PTL

(* A verdict was asked for and has read every preserved file's content at  *)
(* the base commit; what git no longer has is never passed over, nor taken *)
(* for nothing having been to keep (gate).                                 *)
THEOREM NothingUnread == Spec => []NoPassUnread
<1>1. Inv => NoPassUnread
  BY Verdicts DEF Inv, NoPassUnread, Grounded, Asked
<1> QED
  BY <1>1, Invariance, PTL

(* A pass says of every preserved file that it is still there with the     *)
(* body it had, and a failure that one of them is not: which pages those   *)
(* are for the people who wrote them is what TextAloneDecides adds         *)
(* (_offences, gate).                                                      *)
BodiesDecide ==
  verdict.result # "not-run" =>
    (verdict = Passed <=> \A e \in Range(Preserved) : Kept(e.path))

THEOREM VerdictIsOfBodies == Spec => []BodiesDecide
<1>1. Inv => BodiesDecide
  BY DEF Inv, BodiesDecide, Grounded, Range
<1> QED
  BY <1>1, Invariance, PTL
(* The working tree holds pages, save where the run removed one.           *)
Worked == DOMAIN work = Paths /\ \A p \in Paths : work[p] = Deleted \/ IsPage(work[p])

(* A run leaves pages.                                                     *)
LEMMA WorkedAlways == Spec => [](Based /\ Worked)
<1>1. Init => Based /\ Worked
  BY PagesAssumption DEF Init, Based, Worked
<1>2. Based /\ Worked /\ [Next]_vars => (Based /\ Worked)'
  <2> SUFFICES ASSUME Based, Worked, [Next]_vars PROVE (Based /\ Worked)'
    OBVIOUS
  <2>1. ASSUME NEW p \in Paths, NEW page \in Pages[p] \cup {Deleted}, Edit(p, page)
        PROVE  (Based /\ Worked)'
    <3>1. work' = [work EXCEPT ![p] = page] /\ base' = base
      BY <2>1 DEF Edit
    <3>2. page = Deleted \/ IsPage(page)
      BY PagesAssumption
    <3> QED
      BY <3>1, <3>2 DEF Based, Worked
  <2>2. CASE UNCHANGED <<base, work>>
    BY <2>2 DEF Based, Worked
  <2>3. CASE Judge \/ Cut \/ CutFails \/ CutDone \/ Compare \/ Conclude \/ UNCHANGED vars
    <3>1. UNCHANGED <<base, work>>
      BY <2>3 DEF Judge, Cut, CutFails, CutDone, Compare, Conclude, vars
    <3> QED
      BY <2>2, <3>1
  <2> QED
    BY <2>1, <2>3 DEF Next
<1> QED
  BY <1>1, <1>2, PTL DEF Spec

(* Blank lines above a text: how many, and where the text is.              *)
Over(bytes, k, z) ==
  /\ Len(bytes) = k + Len(z) /\ Len(z) \in Nat
  /\ \A i \in 1..k : bytes[i] = NL
  /\ \A i \in 1..Len(z) : bytes[k + i] = z[i]

LEMMA BlanksOver ==
  ASSUME NEW T, NL \in T, NEW k \in Nat, NEW z \in Seq(T)
  PROVE  Over(Blank(k) \o z, k, z)
<1> DEFINE c == Blank(k)
           l == Len(z)
<1>1. c \in Seq(T) /\ Len(c) = k /\ \A i \in 1..k : c[i] = NL
  BY DEF Blank
<1>2. l \in Nat
  OBVIOUS
<1> HIDE DEF c
<1>3. Len(c \o z) = k + l
  BY <1>1
<1>4. ASSUME NEW i \in 1..k PROVE (c \o z)[i] = NL
  <2>1. i \in 1..(Len(c) + Len(z)) /\ i <= Len(c)
    BY <1>1, <1>2
  <2>2. (c \o z)[i] = c[i]
    BY <1>1, <2>1
  <2> QED
    BY <1>1, <2>2
<1>5. ASSUME NEW i \in 1..l PROVE (c \o z)[k + i] = z[i]
  <2>1. k + i \in 1..(Len(c) + Len(z)) /\ k + i > Len(c) /\ k + i - Len(c) = i
    BY <1>1, <1>2
  <2> QED
    BY <1>1, <2>1
<1> QED
  BY <1>2, <1>3, <1>4, <1>5 DEF Over, c, l

(* They can be told from the text.                                         *)
LEMMA BlanksApart ==
  ASSUME NEW T, NEW m \in Nat, NEW n \in Nat, NEW x \in Seq(T), NEW y \in Seq(T), NEW bytes,
         x # << >> => x[1] # NL, y # << >> => y[1] # NL,
         Over(bytes, m, x), Over(bytes, n, y)
  PROVE  m = n /\ x = y
<1>1. ASSUME NEW k \in Nat, NEW l \in Nat, NEW v \in Seq(T), NEW w \in Seq(T), k < l,
             v # << >> => v[1] # NL, Over(bytes, k, v), Over(bytes, l, w)
      PROVE  FALSE
  <2>1. Len(v) \in Nat /\ Len(v) >= 1
    BY <1>1 DEF Over
  <2>2. v # << >>
    BY <2>1
  <2>3. bytes[k + 1] = v[1]
    BY <1>1, <2>1 DEF Over
  <2>4. bytes[k + 1] = NL
    BY <1>1 DEF Over
  <2> QED
    BY <1>1, <2>2, <2>3, <2>4
<1>2. ~(m < n) /\ ~(n < m)
  BY <1>1
<1>3. m = n
  BY <1>2
<1>4. Len(x) = Len(y)
  BY <1>3 DEF Over
<1>5. \A i \in 1..Len(x) : x[i] = y[i]
  BY <1>3, <1>4 DEF Over
<1> QED
  BY <1>3, <1>4, <1>5

(* A page's text, and the blank lines that are its own.                    *)
Own(page) == Blank(OwnBlanks(page)) \o page.text

OwnIsBody(page) ==
  /\ OwnBlanks(page) \in Nat /\ page.text \in Seq(Range(page.text))
  /\ page.text # << >> => page.text[1] # NL
  /\ Body(Bytes(page)) = Own(page)

LEMMA BodyIsOwn ==
  ASSUME NEW page, IsPage(page)
  PROVE  OwnIsBody(page)
<1>1. /\ page.blanks \in Nat /\ page.text \in Seq(Range(page.text))
      /\ page.text # << >> => page.text[1] # NL
  BY Zenon DEF IsPage
<1>2. OwnBlanks(page) \in Nat
  BY <1>1 DEF OwnBlanks
<1>3. Body(Bytes(page)) = Own(page)
  <2>1. CASE page.block = NoBlock
    <3>1. Body(Bytes(page)) = Blank(page.blanks) \o page.text
      BY <2>1, BodyIsText
    <3> QED
      BY <2>1, <3>1 DEF OwnBlanks, Own
  <2>2. CASE page.block # NoBlock
    <3>1. Blank(0) = << >>
      BY DEF Blank
    <3>2. << >> \o page.text = page.text
      BY <1>1
    <3>3. Own(page) = page.text
      BY <2>2, <3>1, <3>2 DEF OwnBlanks, Own
    <3>4. Body(Bytes(page)) = page.text
      BY <2>2, BodyIsText
    <3> QED
      BY <3>3, <3>4
  <2> QED
    BY <2>1, <2>2
<1> QED
  BY <1>1, <1>2, <1>3 DEF OwnIsBody

(* Two pages have the same body if and only if they have the same text.    *)
LEMMA SameBody ==
  ASSUME NEW before, IsPage(before), NEW after, IsPage(after), after # Deleted
  PROVE  Body(Bytes(before)) = Body(Bytes(after)) <=> SameText(before, after)
<1> DEFINE T == Range(before.text) \cup Range(after.text) \cup {NL}
<1>1. OwnIsBody(before) /\ OwnIsBody(after)
  BY BodyIsOwn
<1>2. before.text \in Seq(T) /\ after.text \in Seq(T) /\ NL \in T
  <2>1. Range(before.text) \subseteq T /\ Range(after.text) \subseteq T /\ NL \in T
    OBVIOUS
  <2>2. /\ before.text \in Seq(Range(before.text))
        /\ after.text \in Seq(Range(after.text))
    BY <1>1 DEF OwnIsBody
  <2> HIDE DEF T
  <2> QED
    BY <2>1, <2>2, SeqMonotonic
<1> HIDE DEF T
<1>3. Over(Own(before), OwnBlanks(before), before.text)
  BY <1>1, <1>2, BlanksOver DEF OwnIsBody, Own
<1>4. Over(Own(after), OwnBlanks(after), after.text)
  BY <1>1, <1>2, BlanksOver DEF OwnIsBody, Own
<1>5. ASSUME Own(before) = Own(after)
      PROVE  OwnBlanks(before) = OwnBlanks(after) /\ before.text = after.text
  <2>1. Over(Own(before), OwnBlanks(after), after.text)
    BY <1>4, <1>5
  <2>2. /\ OwnBlanks(before) \in Nat /\ OwnBlanks(after) \in Nat
        /\ before.text # << >> => before.text[1] # NL
        /\ after.text # << >> => after.text[1] # NL
    BY <1>1 DEF OwnIsBody
  <2> QED
    BY <1>2, <1>3, <2>1, <2>2, BlanksApart
<1>6. SameText(before, after) => Own(before) = Own(after)
  BY DEF SameText, Own
<1>7. SameText(before, after) <=> Own(before) = Own(after)
  BY <1>5, <1>6 DEF SameText
<1> QED
  BY <1>1, <1>7 DEF OwnIsBody

(* A verdict is one on what people wrote: a page passes with any block put *)
(* over its text, rewritten or taken away, any blank lines below a block   *)
(* and any line ends, and fails with any other text, for every listing and *)
(* every page; the blank lines that begin a page without a block count to  *)
(* its text, so that there the block is not told from it (body, _offences, *)
(* gate).                                                                  *)
THEOREM VerdictIsOfText == Spec => []TextAloneDecides
<1>1. ASSUME Based, Worked, NEW e \in Range(Preserved)
      PROVE  Kept(e.path) <=> SameText(base[e.path], work[e.path])
  <2>1. e.path \in Paths
    BY PreservedAre DEF Range
  <2>2. IsPage(base[e.path])
    BY <1>1, <2>1, PagesAssumption DEF Based
  <2>3. work[e.path] = Deleted \/ IsPage(work[e.path])
    BY <1>1, <2>1 DEF Worked
  <2>4. CASE work[e.path] = Deleted
    BY <2>4 DEF Kept, SameText
  <2>5. CASE work[e.path] # Deleted
    BY <2>2, <2>3, <2>5, SameBody DEF Kept
  <2> QED
    BY <2>4, <2>5
<1>2. Based /\ Worked /\ BodiesDecide => TextAloneDecides
  BY <1>1 DEF BodiesDecide, TextAloneDecides
<1> QED
  BY <1>2, WorkedAlways, VerdictIsOfBodies, PTL
=============================================================================
