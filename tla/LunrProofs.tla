----------------------------- MODULE LunrProofs -----------------------------
(***************************************************************************)
(* The automaton that lunr makes of the terms of an index, for documents,  *)
(* terms and characters of any number: it is exact and minimal unless a    *)
(* term has a digit.  And the queries of a reader: two of them with a      *)
(* space between mean what they mean one by one, and for any text there is *)
(* a query that asks for it.                                               *)
(*                                                                         *)
(* The builder keeps the path of the last word: on it nodes may still      *)
(* grow, and one way leads to each of them.  What it has minimized is off  *)
(* the path, never changes, and is registered under the string that spells *)
(* it.  That no two nodes are spelled the same is what makes minimize      *)
(* sound, and that two of one language would be spelled the same is what   *)
(* makes it complete.                                                      *)
(***************************************************************************)
EXTENDS LunrIndex, FiniteSetTheorems, SequenceTheorems, WellFoundedInduction, TLAPS

-----------------------------------------------------------------------------
(* Recursion and induction, over sets                                      *)

\* Every set of naturals that is not empty has a least element.
LEMMA Least == ASSUME NEW T \in SUBSET Nat, T # {} PROVE \E n \in T : \A m \in T : n <= m
<1> DEFINE R == {ss \in Nat \X Nat : ss[1] < ss[2]}
<1>1. IsWellFoundedOn(R, Nat)
  BY NatLessThanWellFounded DEF OpToRel
<1> HIDE DEF R
<1>2. PICK n \in T : \A m \in T : ~ (<<m, n>> \in R)
  BY <1>1, WFMin
<1>3. ASSUME NEW m \in T PROVE n <= m
  <2>1. <<m, n>> \in Nat \X Nat
    OBVIOUS
  <2>2. ~(m < n)
    <3> SUFFICES ASSUME m < n PROVE <<m, n>> \in R
      BY <1>2
    <3>1. <<m, n>>[1] < <<m, n>>[2]
      OBVIOUS
    <3> QED
      BY <2>1, <3>1, Zenon DEF R
  <2> QED
    BY <2>2
<1> QED
  BY <1>3

\* Induction, for a set: the library's theorem is for an operator.
LEMMA Induction ==
  ASSUME NEW S, 0 \in S, \A n \in Nat : n \in S => n + 1 \in S
  PROVE  Nat \subseteq S
<1> SUFFICES ASSUME Nat \ S # {} PROVE FALSE
  OBVIOUS
<1>1. PICK n \in Nat \ S : \A m \in Nat \ S : n <= m
  BY Least
<1>2. n - 1 \in Nat /\ n - 1 \in S
  BY <1>1
<1> QED
  BY <1>1, <1>2

\* What f[k \in 0 .. n] == IF k = 0 THEN base ELSE step[k][f[k - 1]] declares.
Declares(f, n, base, step) ==
  f = [k \in 0 .. n |-> IF k = 0 THEN base ELSE step[k][f[k - 1]]]

\* There is such a function if the steps lead from each I[k - 1] to I[k].
LEMMA Recursion ==
  ASSUME NEW n \in Nat, NEW I, NEW base \in I[0], NEW step,
         \A k \in 1 .. n : \A s \in I[k - 1] : step[k][s] \in I[k]
  PROVE  \E f : Declares(f, n, base, step) /\ \A k \in 0 .. n : f[k] \in I[k]
<1> DEFINE P(p, m) == /\ p[0] = base /\ \A k \in 0 .. m : p[k] \in I[k]
                      /\ \A k \in 1 .. m : p[k] = step[k][p[k - 1]]
           G == {m \in Nat : m <= n => \E p : P(p, m)}
<1>1. 0 \in G
  <2>1. P([k \in 0 .. 0 |-> base], 0)
    OBVIOUS
  <2> QED
    BY <2>1
<1>2. ASSUME NEW m \in Nat, m \in G PROVE m + 1 \in G
  <2> SUFFICES ASSUME m + 1 <= n PROVE \E q : P(q, m + 1)
    OBVIOUS
  <2>1. PICK p : P(p, m)
    <3>1. m <= n
      OBVIOUS
    <3> HIDE DEF P
    <3> QED
      BY <1>2, <3>1
  <2> DEFINE last == step[m + 1][p[m]]
             q == [k \in 0 .. m + 1 |-> IF k = m + 1 THEN last ELSE p[k]]
  <2>2. last \in I[m + 1]
    <3>1. m \in 0 .. m /\ m + 1 \in 1 .. n /\ (m + 1) - 1 = m
      OBVIOUS
    <3> QED
      BY <2>1, <3>1
  <2>3. q[m + 1] = last /\ \A k \in 0 .. m : q[k] = p[k]
    <3>1. m + 1 \in 0 .. m + 1 /\ \A k \in 0 .. m : k \in 0 .. m + 1 /\ k # m + 1
      OBVIOUS
    <3> HIDE DEF last
    <3> QED
      BY <3>1
  <2> HIDE DEF q
  <2>4. \A k \in 0 .. m + 1 : k = m + 1 \/ k \in 0 .. m
    OBVIOUS
  <2>5. \A k \in 0 .. m + 1 : q[k] \in I[k]
    BY <2>1, <2>2, <2>3, <2>4
  <2>6. ASSUME NEW k \in 1 .. m + 1 PROVE q[k] = step[k][q[k - 1]]
    <3>1. CASE k = m + 1
      <4>1. k - 1 = m /\ m \in 0 .. m
        BY <3>1
      <4> QED
        BY <2>3, <3>1, <4>1
    <3>2. CASE k # m + 1
      <4>1. k \in 1 .. m /\ k \in 0 .. m /\ k - 1 \in 0 .. m
        BY <3>2
      <4> QED
        BY <2>1, <2>3, <4>1
    <3> QED
      BY <3>1, <3>2
  <2>7. q[0] = base
    <3>1. 0 \in 0 .. m
      OBVIOUS
    <3> QED
      BY <2>1, <2>3, <3>1
  <2> QED
    BY <2>5, <2>6, <2>7
<1>3. PICK p : P(p, n)
  <2>1. Nat \subseteq G
    <3> HIDE DEF G
    <3> QED
      BY <1>1, <1>2, Induction
  <2> HIDE DEF P
  <2> QED
    BY <2>1
<1> DEFINE f == [k \in 0 .. n |-> p[k]]
<1>4. \A k \in 0 .. n : f[k] = p[k] /\ f[k] \in I[k]
  BY <1>3
<1>5. ASSUME NEW k \in 0 .. n PROVE f[k] = IF k = 0 THEN base ELSE step[k][f[k - 1]]
  <2>1. k # 0 => k \in 1 .. n /\ k - 1 \in 0 .. n
    OBVIOUS
  <2> HIDE DEF f
  <2> QED
    BY <1>3, <1>4, <2>1
<1>6. Declares(f, n, base, step)
  BY <1>5 DEF Declares
<1> QED
  BY <1>4, <1>6

\* What the steps lead to from I[0] is where it ends.
LEMMA Stays ==
  ASSUME NEW n \in Nat, NEW I, NEW f, f[0] \in I[0],
         \A k \in 1 .. n : f[k - 1] \in I[k - 1] => f[k] \in I[k]
  PROVE  \A k \in 0 .. n : f[k] \in I[k]
<1> DEFINE G == {m \in Nat : m <= n => f[m] \in I[m]}
<1>1. 0 \in G
  OBVIOUS
<1>2. ASSUME NEW m \in Nat, m \in G PROVE m + 1 \in G
  <2> SUFFICES ASSUME m + 1 <= n PROVE f[m + 1] \in I[m + 1]
    OBVIOUS
  <2>1. m + 1 \in 1 .. n /\ (m + 1) - 1 = m /\ m <= n
    OBVIOUS
  <2>2. f[m] \in I[m]
    BY <1>2, <2>1
  <2> QED
    BY <2>1, <2>2
<1>3. Nat \subseteq G
  <2> HIDE DEF G
  <2> QED
    BY <1>1, <1>2, Induction
<1> QED
  BY <1>3

\* Induction over any set by rank.
LEMMA RankInduction ==
  ASSUME NEW D, NEW rank \in [D -> Nat], NEW S,
         \A x \in D : (\A y \in D : rank[y] < rank[x] => y \in S) => x \in S
  PROVE  D \subseteq S
<1> DEFINE T == {rank[x] : x \in D \ S}
<1> SUFFICES ASSUME T # {} PROVE FALSE
  OBVIOUS
<1>1. T \in SUBSET Nat
  OBVIOUS
<1>2. PICK r \in T : \A s \in T : r <= s
  <2> HIDE DEF T
  <2> QED
    BY <1>1, Least
<1>3. PICK x \in D \ S : rank[x] = r
  BY <1>2
<1>4. ASSUME NEW y \in D, rank[y] < rank[x] PROVE y \in S
  <2> SUFFICES ASSUME y \notin S PROVE FALSE
    OBVIOUS
  <2>1. rank[y] \in T /\ rank[y] \in Nat /\ rank[x] \in Nat
    OBVIOUS
  <2>2. r <= rank[y]
    <3> HIDE DEF T
    <3> QED
      BY <1>2, <2>1
  <2> QED
    BY <1>3, <1>4, <2>1, <2>2
<1> QED
  BY <1>3, <1>4

Lower(D, rank, x) == {y \in D : rank[y] < rank[x]}

\* The steps lead from values of a lower rank to a value.
Leads(D, V, rank, step) ==
  \A x \in D : \A h \in [Lower(D, rank, x) -> V] : step[x][h] \in V

\* What f[x \in D] == step[x][f below x] declares.
Ranked(f, D, V, rank, step) ==
  f \in [D -> V] /\ \A x \in D : f[x] = step[x][Restrict(f, Lower(D, rank, x))]

\* A recursive function over any set, as long as each value rests on values of a
\* lower rank.
LEMMA RankedRecursion ==
  ASSUME NEW D, NEW V, NEW rank \in [D -> Nat], NEW step, Leads(D, V, rank, step)
  PROVE  \E f : Ranked(f, D, V, rank, step)
<1>0. \A x \in D : \A h \in [Lower(D, rank, x) -> V] : step[x][h] \in V
  BY DEF Leads
<1> DEFINE Below(n) == {y \in D : rank[y] < n}
           Rule(p, x) == p[x] = step[x][[y \in Below(rank[x]) |-> p[y]]]
           P(p, n) == p \in [Below(n) -> V] /\ \A x \in Below(n) : Rule(p, x)
<1>1. ASSUME NEW n \in Nat, NEW p, P(p, n), NEW m \in Nat, NEW q, P(q, m)
      PROVE  \A x \in Below(n) \cap Below(m) : p[x] = q[x]
  <2> DEFINE T == {rank[x] : x \in {x \in Below(n) \cap Below(m) : p[x] # q[x]}}
  <2> SUFFICES ASSUME T # {} PROVE FALSE
    OBVIOUS
  <2>1. T \in SUBSET Nat
    OBVIOUS
  <2>2. PICK r \in T : \A s \in T : r <= s
    <3> HIDE DEF T
    <3> QED
      BY <2>1, Least
  <2>3. PICK x \in Below(n) \cap Below(m) : p[x] # q[x] /\ rank[x] = r
    BY <2>2
  <2>4. \A y \in Below(rank[x]) : p[y] = q[y]
    <3> SUFFICES ASSUME NEW y \in Below(rank[x]), p[y] # q[y] PROVE FALSE
      OBVIOUS
    <3>1. y \in Below(n) \cap Below(m) /\ rank[y] < r /\ rank[y] \in Nat /\ r \in Nat
      BY <2>3
    <3>2. rank[y] \in T
      BY <3>1
    <3>3. r <= rank[y]
      <4> HIDE DEF T
      <4> QED
        BY <2>2, <3>2
    <3> QED
      BY <3>1, <3>3
  <2>5. [y \in Below(rank[x]) |-> p[y]] = [y \in Below(rank[x]) |-> q[y]]
    <3> HIDE DEF Below
    <3> QED
      BY <2>4
  <2>6. Rule(p, x) /\ Rule(q, x)
    BY <1>1, <2>3
  <2>7. p[x] = q[x]
    <3> HIDE DEF Below
    <3> QED
      BY <2>5, <2>6
  <2> QED
    BY <2>3, <2>7
<1> DEFINE G == {n \in Nat : \E p : P(p, n)}
<1>2. 0 \in G
  <2> DEFINE p == [x \in {} |-> 0]
  <2>1. Below(0) = {}
    OBVIOUS
  <2>2. p \in [{} -> V]
    OBVIOUS
  <2> HIDE DEF Below, p
  <2> QED
    BY <2>1, <2>2
<1>3. ASSUME NEW n \in Nat, n \in G PROVE n + 1 \in G
  <2>1. PICK p : P(p, n)
    BY <1>3
  <2> DEFINE q == [x \in Below(n + 1) |-> step[x][[y \in Below(rank[x]) |-> p[y]]]]
  <2>2. ASSUME NEW x \in Below(n + 1)
        PROVE  Below(rank[x]) \subseteq Below(n) /\ x \in D /\ rank[x] \in Nat
    OBVIOUS
  <2>3. ASSUME NEW x \in Below(n + 1) PROVE [y \in Below(rank[x]) |-> p[y]] \in [Below(rank[x]) -> V]
    <3>1. Below(rank[x]) \subseteq Below(n)
      BY <2>2
    <3> HIDE DEF Below
    <3> QED
      BY <2>1, <3>1
  <2>4. ASSUME NEW x \in Below(n + 1) PROVE q[x] \in V
    <3>1. step[x][[y \in Below(rank[x]) |-> p[y]]] \in V
      <4>1. x \in D /\ Below(rank[x]) = Lower(D, rank, x)
        BY DEF Lower
      <4> HIDE DEF Below
      <4> QED
        BY <1>0, <2>3, <4>1
    <3> HIDE DEF Below
    <3> QED
      BY <3>1
  <2>5. ASSUME NEW x \in Below(n) PROVE q[x] = p[x]
    <3>1. x \in Below(n + 1)
      OBVIOUS
    <3>2. Rule(p, x)
      BY <2>1
    <3> HIDE DEF Below
    <3> QED
      BY <3>1, <3>2
  <2>6. ASSUME NEW x \in Below(n + 1) PROVE Rule(q, x)
    <3>1. \A y \in Below(rank[x]) : q[y] = p[y]
      <4>1. Below(rank[x]) \subseteq Below(n)
        BY <2>2
      <4> HIDE DEF Below, q
      <4> QED
        BY <2>5, <4>1
    <3>2. [y \in Below(rank[x]) |-> q[y]] = [y \in Below(rank[x]) |-> p[y]]
      <4> HIDE DEF Below, q
      <4> QED
        BY <3>1
    <3>3. q[x] = step[x][[y \in Below(rank[x]) |-> p[y]]]
      <4> HIDE DEF Below
      <4> QED
        OBVIOUS
    <3> HIDE DEF Below, q
    <3> QED
      BY <3>2, <3>3
  <2>7. P(q, n + 1)
    <3>1. q \in [Below(n + 1) -> V]
      <4> HIDE DEF Below
      <4> QED
        BY <2>4
    <3> HIDE DEF Below, q
    <3> QED
      BY <2>6, <3>1
  <2> HIDE DEF P
  <2> QED
    BY <2>7
<1>4. \A n \in Nat : \E p : P(p, n)
  <2>1. Nat \subseteq G
    <3> HIDE DEF G
    <3> QED
      BY <1>2, <1>3, Induction
  <2> HIDE DEF P
  <2> QED
    BY <2>1
<1> DEFINE upTo == [n \in Nat |-> CHOOSE p : P(p, n)]
           f == [x \in D |-> upTo[rank[x] + 1][x]]
<1>5. \A n \in Nat : P(upTo[n], n)
  <2> HIDE DEF P
  <2> QED
    BY <1>4
<1>6. ASSUME NEW x \in D PROVE x \in Below(rank[x] + 1) /\ rank[x] \in Nat /\ rank[x] + 1 \in Nat
  OBVIOUS
<1>7. ASSUME NEW n \in Nat, NEW x \in Below(n) PROVE f[x] = upTo[n][x]
  <2>1. x \in D /\ x \in Below(rank[x] + 1) /\ rank[x] + 1 \in Nat
    OBVIOUS
  <2>2. P(upTo[n], n) /\ P(upTo[rank[x] + 1], rank[x] + 1)
    <3> HIDE DEF P, upTo
    <3> QED
      BY <1>5, <2>1
  <2>3. upTo[n][x] = upTo[rank[x] + 1][x]
    <3> HIDE DEF P, upTo, Below
    <3> QED
      BY <1>1, <2>1, <2>2
  <2> HIDE DEF upTo
  <2> QED
    BY <2>1, <2>3
<1>8. ASSUME NEW x \in D PROVE f[x] \in V /\ Rule(f, x)
  <2> DEFINE n == rank[x] + 1
  <2>1. x \in Below(n) /\ n \in Nat /\ Below(rank[x]) \subseteq Below(n)
    OBVIOUS
  <2>2. upTo[n] \in [Below(n) -> V] /\ Rule(upTo[n], x)
    <3>1. P(upTo[n], n)
      <4> HIDE DEF P, upTo, n
      <4> QED
        BY <1>5, <2>1
    <3> HIDE DEF upTo, n, Below
    <3> QED
      BY <2>1, <3>1
  <2>3. f[x] = upTo[n][x] /\ \A y \in Below(rank[x]) : f[y] = upTo[n][y]
    <3> HIDE DEF upTo, n, Below, f
    <3> QED
      BY <1>7, <2>1
  <2>4. [y \in Below(rank[x]) |-> f[y]] = [y \in Below(rank[x]) |-> upTo[n][y]]
    <3> HIDE DEF upTo, n, Below, f
    <3> QED
      BY <2>3
  <2> HIDE DEF upTo, n, Below, f
  <2> QED
    BY <2>1, <2>2, <2>3, <2>4
<1>9. f \in [D -> V]
  <2> HIDE DEF upTo
  <2>1. \A x \in D : f[x] \in V
    BY <1>8
  <2> QED
    BY <2>1
<1> QED
  <2> HIDE DEF f
  <2>1. ASSUME NEW x \in D PROVE f[x] = step[x][Restrict(f, Lower(D, rank, x))]
    <3>1. Restrict(f, Lower(D, rank, x)) = [y \in Below(rank[x]) |-> f[y]]
      BY DEF Restrict, Lower
    <3> HIDE DEF Below
    <3> QED
      BY <1>8, <3>1
  <2> QED
    BY <1>9, <2>1 DEF Ranked

-----------------------------------------------------------------------------
(* The strings of toString                                                 *)

\* An id is spelled in decimal.
LEMMA DigitsRule ==
  \A n \in Nat :
    /\ TokenSet!Digits(n) \in Seq(Digit) \ {<<>>}
    /\ TokenSet!Digits(n) = IF n < 10 THEN <<n>> ELSE Append(TokenSet!Digits(n \div 10), n % 10)
<1> DEFINE V == Seq(Digit) \ {<<>>}
           rank == [k \in Nat |-> k]
           Below(k) == Lower(Nat, rank, k)
           step == [k \in Nat |-> [h \in [Below(k) -> V] |->
                      IF k < 10 THEN <<k>> ELSE Append(h[k \div 10], k % 10)]]
           Eq(f) == f = [k \in Nat |-> IF k < 10 THEN <<k>> ELSE Append(f[k \div 10], k % 10)]
           digits == CHOOSE f : Eq(f)
<1>1. \A k \in Nat : k >= 10 => k \div 10 \in Nat /\ k \div 10 < k /\ k % 10 \in Digit
  BY DEF Digit
<1>2. \A k \in Nat : k < 10 => k \in Digit
  BY DEF Digit
<1>3. rank \in [Nat -> Nat] /\ \A k \in Nat : rank[k] = k
  OBVIOUS
<1>4. \A d \in Digit : <<d>> \in V /\ \A ds \in V : Append(ds, d) \in V
  OBVIOUS
<1>5. ASSUME NEW k \in Nat, NEW h \in [Below(k) -> V]
      PROVE  step[k][h] \in V /\ step[k][h] = IF k < 10 THEN <<k>> ELSE Append(h[k \div 10], k % 10)
  <2>1. step[k][h] = IF k < 10 THEN <<k>> ELSE Append(h[k \div 10], k % 10)
    <3> HIDE DEF Below, V
    <3> QED
      OBVIOUS
  <2>2. k >= 10 => h[k \div 10] \in V
    <3>1. k >= 10 => k \div 10 \in Below(k)
      BY <1>1 DEF Lower
    <3> HIDE DEF Below
    <3> QED
      BY <3>1
  <2> HIDE DEF step, Below, V
  <2>3. CASE k < 10
    BY <1>2, <1>4, <2>1, <2>3
  <2>4. CASE k >= 10
    <3>1. ~ (k < 10)
      BY <2>4
    <3> QED
      BY <1>1, <1>4, <2>1, <2>2, <2>4, <3>1
  <2> QED
    BY <2>3, <2>4
<1>6. PICK f : Ranked(f, Nat, V, rank, step)
  <2>1. Leads(Nat, V, rank, step)
    <3> HIDE DEF step, rank, V
    <3> QED
      BY <1>5 DEF Leads
  <2> HIDE DEF step, rank, V
  <2> QED
    BY <1>3, <2>1, RankedRecursion
<1>7. ASSUME NEW k \in Nat PROVE f[k] = IF k < 10 THEN <<k>> ELSE Append(f[k \div 10], k % 10)
  <2> DEFINE h == [y \in Below(k) |-> f[y]]
  <2>1. h \in [Below(k) -> V] /\ (k >= 10 => h[k \div 10] = f[k \div 10])
    <3>1. k >= 10 => k \div 10 \in Below(k)
      BY <1>1 DEF Lower
    <3>2. Below(k) \subseteq Nat
      BY DEF Lower
    <3>3. f \in [Nat -> V]
      BY <1>6 DEF Ranked
    <3> HIDE DEF Below, V
    <3> QED
      BY <3>1, <3>2, <3>3
  <2>2. f[k] = step[k][h]
    <3> HIDE DEF V, step, rank
    <3> QED
      BY <1>6 DEF Ranked, Restrict
  <2> HIDE DEF h, Below, V, step
  <2>3. f[k] = IF k < 10 THEN <<k>> ELSE Append(h[k \div 10], k % 10)
    BY <1>5, <2>1, <2>2
  <2> QED
    BY <2>1, <2>3
<1>8. Eq(digits)
  <2>1. Eq(f)
    <3> HIDE DEF V, step, rank
    <3> QED
      BY <1>6, <1>7 DEF Ranked
  <2> HIDE DEF Eq
  <2> QED
    BY <2>1
<1>9. \A n \in Nat : TokenSet!Digits(n) = digits[n]
  BY DEF TokenSet!Digits
<1> HIDE DEF digits
<1>10. \A k \in Nat : digits[k] = IF k < 10 THEN <<k>> ELSE Append(digits[k \div 10], k % 10)
  BY <1>8
<1>11. \A k \in Nat : digits[k] \in V
  <2> DEFINE S == {k \in Nat : digits[k] \in V}
  <2>1. ASSUME NEW k \in Nat, \A y \in Nat : rank[y] < rank[k] => y \in S PROVE k \in S
    <3>1. k >= 10 => digits[k \div 10] \in V
      BY <1>1, <2>1
    <3> HIDE DEF V, rank
    <3>2. CASE k < 10
      BY <1>2, <1>4, <1>10, <3>2
    <3>3. CASE ~ (k < 10)
      <4>1. digits[k] = Append(digits[k \div 10], k % 10)
        BY <1>10, <3>3
      <4>2. k >= 10
        BY <3>3
      <4>3. digits[k \div 10] \in V /\ k % 10 \in Digit
        BY <1>1, <3>1, <4>2
      <4>4. Append(digits[k \div 10], k % 10) \in V
        BY <1>4, <4>3
      <4> QED
        BY <4>1, <4>4
    <3> QED
      BY <3>2, <3>3
  <2>2. Nat \subseteq S
    <3> HIDE DEF S, rank
    <3> QED
      BY <1>3, <2>1, RankInduction
  <2> QED
    BY <2>2
<1>12. ASSUME NEW n \in Nat
       PROVE  TokenSet!Digits(n) = IF n < 10 THEN <<n>> ELSE Append(TokenSet!Digits(n \div 10), n % 10)
  <2>1. n >= 10 => n \div 10 \in Nat
    BY <1>1
  <2>2. CASE n < 10
    BY <1>9, <1>10, <2>2
  <2>3. CASE ~ (n < 10)
    <3>1. n >= 10
      BY <2>3
    <3>2. digits[n] = Append(digits[n \div 10], n % 10)
      BY <1>10, <2>3
    <3>3. TokenSet!Digits(n) = digits[n] /\ TokenSet!Digits(n \div 10) = digits[n \div 10]
      BY <1>9, <2>1, <3>1
    <3> QED
      BY <2>3, <3>2, <3>3
  <2> QED
    BY <2>2, <2>3
<1> QED
  BY <1>9, <1>11, <1>12

\* No two ids are spelled the same.
LEMMA DigitsInjective ==
  \A m, n \in Nat : TokenSet!Digits(m) = TokenSet!Digits(n) => m = n
<1> DEFINE rank == [k \in Nat |-> k]
           S == {k \in Nat : \A n \in Nat : TokenSet!Digits(k) = TokenSet!Digits(n) => k = n}
           D(k) == TokenSet!Digits(k)
<1>1. ASSUME NEW k \in Nat
      PROVE  /\ D(k) \in Seq(Digit) /\ Len(D(k)) >= 1
             /\ k < 10 => D(k) = <<k>>
             /\ ~(k < 10) => /\ k \div 10 \in Nat /\ k \div 10 < k /\ k % 10 \in Nat
                             /\ D(k) = Append(D(k \div 10), k % 10)
                             /\ D(k \div 10) \in Seq(Digit) /\ Len(D(k \div 10)) >= 1
  <2>1. D(k) \in Seq(Digit) /\ D(k) # <<>>
    BY DigitsRule
  <2>2. ~(k < 10) => /\ k \div 10 \in Nat /\ k \div 10 < k /\ k % 10 \in Nat
    <3>1. k \in Nat /\ 10 \in Nat
      OBVIOUS
    <3>2. k \div 10 \in Nat /\ k % 10 \in Nat
      BY <3>1
    <3>3. ~(k < 10) => k \div 10 < k
      BY <3>1, <3>2
    <3> QED
      BY <3>2, <3>3
  <2>3. k < 10 => D(k) = <<k>>
    BY DigitsRule
  <2>4. ~(k < 10) => D(k) = Append(D(k \div 10), k % 10)
    BY DigitsRule
  <2>5. ~(k < 10) => D(k \div 10) \in Seq(Digit) /\ D(k \div 10) # <<>>
    BY <2>2, DigitsRule
  <2> HIDE DEF D
  <2>6. \A ds \in Seq(Digit) : ds # <<>> => Len(ds) >= 1
    OBVIOUS
  <2> QED
    BY <2>1, <2>2, <2>3, <2>4, <2>5, <2>6
<1> HIDE DEF D
<1>2. ASSUME NEW k \in Nat, \A y \in Nat : rank[y] < rank[k] => y \in S PROVE k \in S
  <2> SUFFICES ASSUME NEW n \in Nat, D(k) = D(n) PROVE k = n
    BY DEF D
  <2>1. CASE k < 10
    <3>1. CASE n < 10
      BY <1>1, <2>1, <3>1
    <3>2. CASE ~(n < 10)
      <4>1. Len(D(k)) = 1
        BY <1>1, <2>1
      <4>2. D(n) = Append(D(n \div 10), n % 10) /\ D(n \div 10) \in Seq(Digit) /\ Len(D(n \div 10)) >= 1
        BY <1>1, <3>2
      <4>3. Len(D(n)) >= 2
        BY <4>2
      <4> QED
        BY <4>1, <4>3
    <3> QED
      BY <3>1, <3>2
  <2>2. CASE ~(k < 10)
    <3>1. D(k) = Append(D(k \div 10), k % 10) /\ D(k \div 10) \in Seq(Digit) /\ Len(D(k \div 10)) >= 1
      BY <1>1, <2>2
    <3>2. CASE n < 10
      <4>1. Len(D(n)) = 1
        BY <1>1, <3>2
      <4>2. Len(D(k)) >= 2
        BY <3>1
      <4> QED
        BY <4>1, <4>2
    <3>3. CASE ~(n < 10)
      <4>1. D(n) = Append(D(n \div 10), n % 10) /\ D(n \div 10) \in Seq(Digit)
        BY <1>1, <3>3
      <4>2. D(k \div 10) = D(n \div 10) /\ k % 10 = n % 10
        <5> DEFINE x == D(k \div 10)
                   y == D(n \div 10)
                   p == k % 10
                   q == n % 10
        <5>1. x \in Seq(Digit) /\ y \in Seq(Digit) /\ Append(x, p) = Append(y, q)
          BY <3>1, <4>1
        <5> HIDE DEF x, y, p, q
        <5>2. x = y /\ p = q
          <6>1. Len(x) = Len(y)
            BY <5>1
          <6>2. \A i \in 1 .. Len(x) : x[i] = y[i]
            <7>1. \A i \in 1 .. Len(x) : Append(x, p)[i] = x[i] /\ Append(y, q)[i] = y[i]
              BY <5>1, <6>1
            <7> QED
              BY <5>1, <7>1
          <6>3. Append(x, p)[Len(x) + 1] = p /\ Append(y, q)[Len(x) + 1] = q
            BY <5>1, <6>1
          <6> QED
            BY <5>1, <6>1, <6>2, <6>3
        <5> QED
          BY <5>2 DEF x, y, p, q
      <4>3. k \div 10 \in S /\ n \div 10 \in Nat
        <5>1. k \div 10 \in Nat /\ k \div 10 < k
          BY <1>1, <2>2
        <5>2. rank[k \div 10] < rank[k]
          BY <5>1
        <5>3. n \div 10 \in Nat
          BY <1>1, <3>3
        <5> HIDE DEF S, rank
        <5> QED
          BY <1>2, <5>1, <5>2, <5>3
      <4>4. k \div 10 = n \div 10
        BY <4>2, <4>3 DEF D
      <4> QED
        BY <4>2, <4>4
    <3> QED
      BY <3>2, <3>3
  <2> QED
    BY <2>1, <2>2
<1>3. rank \in [Nat -> Nat]
  OBVIOUS
<1>4. Nat \subseteq S
  <2> HIDE DEF S, rank
  <2> QED
    BY <1>2, <1>3, RankInduction
<1> QED
  BY <1>4

\* A string, a label and what follows it.
Labelled(s, c, u) == s \o <<c>> \o u

\* Where the last label stands: whatever follows it is a digit.
LEMMA LastLabel ==
  ASSUME NEW s \in Seq(Nat), NEW t \in Seq(Nat), NEW c \in Nat \ Digit, NEW d \in Nat \ Digit,
         NEW u \in Seq(Digit), NEW v \in Seq(Digit), Labelled(s, c, u) = Labelled(t, d, v)
  PROVE  s = t /\ c = d /\ u = v
<1> DEFINE x == s \o <<c>> \o u
           y == t \o <<d>> \o v
<1>1. /\ Len(x) = Len(s) + 1 + Len(u)
      /\ \A i \in 1 .. Len(s) : x[i] = s[i]
      /\ x[Len(s) + 1] = c
      /\ \A i \in 1 .. Len(u) : x[Len(s) + 1 + i] = u[i]
  OBVIOUS
<1>2. /\ Len(y) = Len(t) + 1 + Len(v)
      /\ \A i \in 1 .. Len(t) : y[i] = t[i]
      /\ y[Len(t) + 1] = d
      /\ \A i \in 1 .. Len(v) : y[Len(t) + 1 + i] = v[i]
  OBVIOUS
<1>3. x = y
  BY DEF Labelled
<1> HIDE DEF x, y
<1>4. /\ Len(s) \in Nat /\ Len(t) \in Nat /\ Len(u) \in Nat /\ Len(v) \in Nat
      /\ \A i \in 1 .. Len(u) : u[i] \in Digit
      /\ \A i \in 1 .. Len(v) : v[i] \in Digit
  OBVIOUS
<1>5. Len(s) = Len(t)
  <2>1. ~(Len(s) < Len(t))
    <3> SUFFICES ASSUME Len(s) < Len(t) PROVE FALSE
      OBVIOUS
    <3> DEFINE i == Len(t) - Len(s)
    <3>1. i \in 1 .. Len(u) /\ Len(s) + 1 + i = Len(t) + 1
      BY <1>1, <1>2, <1>3, <1>4
    <3>2. x[Len(s) + 1 + i] = u[i] /\ u[i] \in Digit
      BY <1>1, <1>4, <3>1
    <3> QED
      BY <1>2, <1>3, <3>1, <3>2
  <2>2. ~(Len(t) < Len(s))
    <3> SUFFICES ASSUME Len(t) < Len(s) PROVE FALSE
      OBVIOUS
    <3> DEFINE i == Len(s) - Len(t)
    <3>1. i \in 1 .. Len(v) /\ Len(t) + 1 + i = Len(s) + 1
      BY <1>1, <1>2, <1>3, <1>4
    <3>2. y[Len(t) + 1 + i] = v[i] /\ v[i] \in Digit
      BY <1>2, <1>4, <3>1
    <3> QED
      BY <1>1, <1>3, <3>1, <3>2
  <2> QED
    BY <1>4, <2>1, <2>2
<1>6. s = t
  <2>1. \A i \in 1 .. Len(s) : s[i] = t[i]
    BY <1>1, <1>2, <1>3, <1>5
  <2> QED
    BY <1>5, <2>1, SeqEqual
<1>7. c = d
  <2>1. x[Len(s) + 1] = c
    BY <1>1
  <2>2. y[Len(s) + 1] = d
    BY <1>2, <1>5
  <2> HIDE DEF x, y
  <2> QED
    BY <1>3, <2>1, <2>2
<1>8. u = v
  <2>1. Len(u) = Len(v)
    BY <1>1, <1>2, <1>3, <1>4, <1>5
  <2>2. \A i \in 1 .. Len(u) : u[i] = v[i]
    <3> TAKE i \in 1 .. Len(u)
    <3>1. x[Len(s) + 1 + i] = u[i] /\ y[Len(t) + 1 + i] = v[i]
      BY <1>1, <1>2, <2>1
    <3> QED
      BY <1>3, <1>5, <3>1
  <2> QED
    BY <2>1, <2>2, SeqEqual
<1> QED
  BY <1>6, <1>7, <1>8

\* What spells an id is digits, at least one.
LEMMA DigitsType ==
  ASSUME NEW n \in Nat
  PROVE  /\ TokenSet!Digits(n) \in Seq(Digit) /\ TokenSet!Digits(n) \in Seq(Nat)
         /\ Len(TokenSet!Digits(n)) >= 1
<1>1. TokenSet!Digits(n) \in Seq(Digit) /\ TokenSet!Digits(n) # <<>>
  BY DigitsRule
<1>2. Digit \subseteq Nat
  BY DEF Digit
<1>3. TokenSet!Digits(n) \in Seq(Nat)
  BY <1>1, <1>2, SeqMonotonic
<1>4. Len(TokenSet!Digits(n)) >= 1
  BY <1>1, EmptySeq
<1> QED
  BY <1>1, <1>3, <1>4

\* The strings that the loop of toString goes through.
Spells(str, bit, labels, ids) ==
  /\ str \in [0 .. Len(labels) -> Seq(Nat)]
  /\ str[0] = <<bit>>
  /\ \A i \in 1 .. Len(labels) : str[i] = str[i - 1] \o <<labels[i]>> \o TokenSet!Digits(ids[i])

\* The loop of toString has its values.
LEMMA SpelledRule ==
  ASSUME NEW bit \in Nat, NEW labels \in Seq(Nat), NEW ids \in [1 .. Len(labels) -> Nat]
  PROVE  \E str : Spells(str, bit, labels, ids) /\ TokenSet!Spelled(bit, labels, ids) = str[Len(labels)]
<1> DEFINE n == Len(labels)
           I == [k \in 0 .. n |-> Seq(Nat)]
           Next(k, s) == s \o <<labels[k]>> \o TokenSet!Digits(ids[k])
           step == [k \in 1 .. n |-> [s \in Seq(Nat) |-> Next(k, s)]]
           Eq(f) == f = [i \in 0 .. n |-> IF i = 0 THEN <<bit>> ELSE Next(i, f[i - 1])]
           str == CHOOSE f : Eq(f)
<1>1. n \in Nat /\ \A k \in 0 .. n : I[k] = Seq(Nat)
  OBVIOUS
<1>2. ASSUME NEW k \in 1 .. n, NEW s \in Seq(Nat) PROVE Next(k, s) \in Seq(Nat) /\ step[k][s] = Next(k, s)
  <2>1. labels[k] \in Nat /\ ids[k] \in Nat
    OBVIOUS
  <2>3. TokenSet!Digits(ids[k]) \in Seq(Nat)
    BY <2>1, DigitsType
  <2>4. Next(k, s) \in Seq(Nat)
    <3>1. s \o <<labels[k]>> \in Seq(Nat)
      BY <2>1
    <3> QED
      BY <2>3, <3>1
  <2> HIDE DEF Next
  <2> QED
    BY <2>4
<1> HIDE DEF Next
<1>3. PICK f : Declares(f, n, <<bit>>, step) /\ \A k \in 0 .. n : f[k] \in I[k]
  <2>1. \A k \in 1 .. n : \A s \in I[k - 1] : step[k][s] \in I[k]
    <3> TAKE k \in 1 .. n
    <3>1. k - 1 \in 0 .. n /\ k \in 0 .. n
      BY <1>1
    <3> HIDE DEF n, I, step
    <3> QED
      BY <1>1, <1>2, <3>1
  <2>2. <<bit>> \in I[0]
    <3>1. 0 \in 0 .. n
      BY <1>1
    <3> QED
      BY <1>1, <3>1
  <2> HIDE DEF n, I, step
  <2> QED
    BY <1>1, <2>1, <2>2, Recursion
<1>4. ASSUME NEW k \in 0 .. n, k # 0 PROVE step[k][f[k - 1]] = Next(k, f[k - 1])
  <2>1. k \in 1 .. n /\ k - 1 \in 0 .. n
    BY <1>1, <1>4
  <2> HIDE DEF n, I, step
  <2> QED
    BY <1>1, <1>2, <1>3, <2>1
<1>5. Eq(f)
  <2> HIDE DEF n, I, step
  <2> QED
    BY <1>3, <1>4 DEF Declares
<1>6. Eq(str)
  <2> HIDE DEF Eq
  <2> QED
    BY <1>5
<1>7. TokenSet!Spelled(bit, labels, ids) = str[n]
  BY DEF TokenSet!Spelled, Next
<1> HIDE DEF str
<1>8. \A k \in 0 .. n : str[k] = f[k]
  <2> DEFINE J == [k \in 0 .. n |-> {f[k]}]
  <2>1. str[0] \in J[0]
    <3>1. 0 \in 0 .. n
      BY <1>1
    <3> HIDE DEF n
    <3> QED
      BY <1>5, <1>6, <3>1
  <2>2. ASSUME NEW k \in 1 .. n, str[k - 1] \in J[k - 1] PROVE str[k] \in J[k]
    <3>1. k \in 0 .. n /\ k # 0 /\ k - 1 \in 0 .. n
      BY <1>1
    <3> HIDE DEF n
    <3> QED
      BY <1>5, <1>6, <2>2, <3>1
  <2>3. \A k \in 0 .. n : str[k] \in J[k]
    <3> HIDE DEF n, J
    <3> QED
      BY <1>1, <2>1, <2>2, Stays
  <2> QED
    BY <2>3
<1>9. Spells(f, bit, labels, ids)
  <2>1. \A k \in 0 .. n : f[k] \in Seq(Nat)
    BY <1>1, <1>3
  <2>2. ASSUME NEW k \in 1 .. n PROVE f[k] = Next(k, f[k - 1])
    <3>1. k \in 0 .. n /\ k # 0
      BY <1>1
    <3> HIDE DEF n
    <3> QED
      BY <1>5, <3>1
  <2>3. 0 \in 0 .. n
    BY <1>1
  <2> HIDE DEF n
  <2>4. f[0] = <<bit>> /\ f \in [0 .. n -> Seq(Nat)]
    BY <1>5, <2>1, <2>3
  <2> QED
    BY <2>2, <2>4 DEF Spells, Next, n
<1>10. n \in 0 .. n
  BY <1>1
<1> HIDE DEF n
<1> QED
  BY <1>7, <1>8, <1>9, <1>10 DEF n

\* What the loop of toString goes over: labels, none of which is a digit, and ids.
Spellable(bit, labels, ids) ==
  bit \in Nat /\ labels \in Seq(Nat \ Digit) /\ ids \in [1 .. Len(labels) -> Nat]

\* One turn of the loop.
Turn(s, c, n) == Labelled(s, c, TokenSet!Digits(n))

\* What a turn adds can be read off its end: the last label is the last character that
\* is not a digit.
LEMMA TurnInjective ==
  ASSUME NEW s \in Seq(Nat), NEW c \in Nat \ Digit, NEW m \in Nat,
         NEW t \in Seq(Nat), NEW d \in Nat \ Digit, NEW n \in Nat,
         Turn(s, c, m) = Turn(t, d, n)
  PROVE  s = t /\ c = d /\ m = n
<1>1. TokenSet!Digits(m) \in Seq(Digit) /\ TokenSet!Digits(n) \in Seq(Digit)
  BY DigitsType
<1>2. s = t /\ c = d /\ TokenSet!Digits(m) = TokenSet!Digits(n)
  BY <1>1, LastLabel DEF Turn
<1> QED
  BY <1>2, DigitsInjective

\* A turn leaves more than the bit that the string starts with.
LEMMA TurnIsLong ==
  ASSUME NEW s \in Seq(Nat), NEW c \in Nat, NEW m \in Nat, NEW b
  PROVE  Turn(s, c, m) # <<b>>
<1> DEFINE ds == TokenSet!Digits(m)
<1>1. ds \in Seq(Nat) /\ Len(ds) >= 1
  BY DigitsType
<1> HIDE DEF ds
<1>2. Len(s \o <<c>> \o ds) = Len(s) + 1 + Len(ds) /\ Len(s) \in Nat
  BY <1>1
<1>3. Len(Turn(s, c, m)) # Len(<<b>>)
  BY <1>1, <1>2 DEF Turn, Labelled, ds
<1> QED
  BY <1>3

\* No two nodes are spelled the same: the strings are read backwards, turn by turn.
LEMMA SpelledInjective ==
  ASSUME NEW bit1, NEW labels1, NEW ids1, Spellable(bit1, labels1, ids1),
         NEW bit2, NEW labels2, NEW ids2, Spellable(bit2, labels2, ids2),
         TokenSet!Spelled(bit1, labels1, ids1) = TokenSet!Spelled(bit2, labels2, ids2)
  PROVE  bit1 = bit2 /\ labels1 = labels2 /\ ids1 = ids2
<1>1. labels1 \in Seq(Nat) /\ labels2 \in Seq(Nat)
  BY SeqMonotonic DEF Spellable
<1>m. PICK m \in Nat : m = Len(labels1)
  BY <1>1
<1>n. PICK n \in Nat : n = Len(labels2)
  BY <1>1
<1>2. PICK s : Spells(s, bit1, labels1, ids1) /\ TokenSet!Spelled(bit1, labels1, ids1) = s[m]
  BY <1>1, <1>m, <1>n, SpelledRule DEF Spellable
<1>3. PICK t : Spells(t, bit2, labels2, ids2) /\ TokenSet!Spelled(bit2, labels2, ids2) = t[n]
  BY <1>1, <1>m, <1>n, SpelledRule DEF Spellable
<1> DEFINE Same(i, j) == /\ i = j /\ bit1 = bit2
                         /\ \A k \in 1 .. i : labels1[k] = labels2[k] /\ ids1[k] = ids2[k]
           G == {i \in Nat : i <= m => \A j \in 0 .. n : s[i] = t[j] => Same(i, j)}
<1>4. ASSUME NEW i \in 1 .. m
      PROVE  /\ s[i] = Turn(s[i - 1], labels1[i], ids1[i]) /\ s[i - 1] \in Seq(Nat)
             /\ labels1[i] \in Nat \ Digit /\ ids1[i] \in Nat
  <2>1. labels1[i] \in Nat \ Digit /\ ids1[i] \in Nat
    BY <1>m, ElementOfSeq DEF Spellable
  <2>2. i - 1 \in 0 .. Len(labels1)
    BY <1>m
  <2> QED
    BY <1>2, <1>m, <2>1, <2>2 DEF Spells, Turn, Labelled
<1>5. ASSUME NEW j \in 1 .. n
      PROVE  /\ t[j] = Turn(t[j - 1], labels2[j], ids2[j]) /\ t[j - 1] \in Seq(Nat)
             /\ labels2[j] \in Nat \ Digit /\ ids2[j] \in Nat
  <2>1. labels2[j] \in Nat \ Digit /\ ids2[j] \in Nat
    BY <1>n, ElementOfSeq DEF Spellable
  <2>2. j - 1 \in 0 .. Len(labels2)
    BY <1>n
  <2> QED
    BY <1>3, <1>n, <2>1, <2>2 DEF Spells, Turn, Labelled
<1>6. s[0] = <<bit1>> /\ t[0] = <<bit2>>
  BY <1>2, <1>3 DEF Spells
<1>7. 0 \in G
  <2>1. ASSUME NEW j \in 0 .. n, s[0] = t[j] PROVE Same(0, j)
    <3>1. j = 0
      <4>1. j # 0 => j \in 1 .. n
        OBVIOUS
      <4>2. j # 0 => t[j] # <<bit1>>
        BY <1>5, <4>1, TurnIsLong
      <4> QED
        BY <1>6, <2>1, <4>2
    <3>2. bit1 = bit2
      <4>1. <<bit1>> = <<bit2>>
        BY <1>6, <2>1, <3>1
      <4> QED
        BY <4>1
    <3>3. \A k \in 1 .. 0 : FALSE
      OBVIOUS
    <3> QED
      BY <3>1, <3>2, <3>3
  <2> QED
    BY <2>1
<1>8. ASSUME NEW i \in Nat, i \in G PROVE i + 1 \in G
  <2>1. ASSUME i + 1 <= m, NEW j \in 0 .. n, s[i + 1] = t[j] PROVE Same(i + 1, j)
    <3>1. i + 1 \in 1 .. m /\ (i + 1) - 1 = i
      BY <2>1
    <3>2. /\ s[i + 1] = Turn(s[i], labels1[i + 1], ids1[i + 1]) /\ s[i] \in Seq(Nat)
          /\ labels1[i + 1] \in Nat \ Digit /\ ids1[i + 1] \in Nat
      BY <1>4, <3>1
    <3>3. j \in 1 .. n /\ j - 1 \in 0 .. n
      <4>1. j = 0 => t[j] = <<bit2>>
        BY <1>6
      <4>2. s[i + 1] # <<bit2>>
        BY <3>2, TurnIsLong
      <4>3. j # 0
        BY <2>1, <4>1, <4>2
      <4> QED
        BY <4>3
    <3>4. /\ t[j] = Turn(t[j - 1], labels2[j], ids2[j]) /\ t[j - 1] \in Seq(Nat)
          /\ labels2[j] \in Nat \ Digit /\ ids2[j] \in Nat
      BY <1>5, <3>3
    <3>5. s[i] = t[j - 1] /\ labels1[i + 1] = labels2[j] /\ ids1[i + 1] = ids2[j]
      <4>1. Turn(s[i], labels1[i + 1], ids1[i + 1]) = Turn(t[j - 1], labels2[j], ids2[j])
        BY <2>1, <3>2, <3>4
      <4> QED
        BY <3>2, <3>4, <4>1, TurnInjective
    <3>6. Same(i, j - 1)
      <4>1. i <= m
        BY <3>1
      <4> QED
        BY <1>8, <3>3, <3>5, <4>1
    <3>7. i + 1 = j
      BY <3>3, <3>6
    <3>8. ASSUME NEW k \in 1 .. i + 1 PROVE labels1[k] = labels2[k] /\ ids1[k] = ids2[k]
      <4>1. k = i + 1 \/ k \in 1 .. i
        OBVIOUS
      <4> QED
        BY <3>5, <3>6, <3>7, <4>1
    <3> QED
      BY <3>6, <3>7, <3>8
  <2> QED
    BY <2>1
<1>9. Same(m, n)
  <2>1. Nat \subseteq G
    <3> HIDE DEF G
    <3> QED
      BY <1>7, <1>8, Induction
  <2>2. n \in 0 .. n
    BY <1>1
  <2>3. s[m] = t[n]
    BY <1>2, <1>3, <1>m, <1>n
  <2> HIDE DEF Same
  <2> QED
    BY <1>1, <2>1, <2>2, <2>3
<1>10. labels1 = labels2
  <2>1. Len(labels1) = Len(labels2) /\ \A k \in 1 .. Len(labels1) : labels1[k] = labels2[k]
    BY <1>9, <1>m, <1>n
  <2> QED
    BY <1>1, <2>1, SeqEqual
<1>11. ids1 = ids2
  <2>1. ids1 \in [1 .. m -> Nat] /\ ids2 \in [1 .. m -> Nat]
    BY <1>9, <1>m, <1>n DEF Spellable
  <2>2. \A k \in 1 .. m : ids1[k] = ids2[k]
    BY <1>9
  <2> QED
    BY <2>1, <2>2
<1> QED
  BY <1>9, <1>10, <1>11

-----------------------------------------------------------------------------
(* Sorted sequences                                                        *)

\* R is a strict total order of S.
Orders(R, S) ==
  /\ \A x \in S : <<x, x>> \notin R
  /\ \A x, y, z \in S : <<x, y>> \in R /\ <<y, z>> \in R => <<x, z>> \in R
  /\ \A x, y \in S : x = y \/ <<x, y>> \in R \/ <<y, x>> \in R

Place(R, S, x) == Cardinality({y \in S : <<y, x>> \in R})

\* Every place is taken, by one element.
LEMMA Places ==
  ASSUME NEW S, IsFiniteSet(S), NEW R, Orders(R, S)
  PROVE  /\ Cardinality(S) \in Nat
         /\ \A x \in S : Place(R, S, x) \in 0 .. Cardinality(S) - 1
         /\ \A x, y \in S : <<x, y>> \in R => Place(R, S, x) < Place(R, S, y)
         /\ \A i \in 0 .. Cardinality(S) - 1 : \E x \in S : Place(R, S, x) = i
<1> DEFINE n == Cardinality(S)
           below(x) == {y \in S : <<y, x>> \in R}
<1>1. n \in Nat
  BY FS_CardinalityType
<1>2. ASSUME NEW x \in S
      PROVE  /\ x \notin below(x) /\ IsFiniteSet(below(x)) /\ Cardinality(below(x)) \in Nat
             /\ IsFiniteSet(below(x) \cup {x})
             /\ Cardinality(below(x) \cup {x}) = Cardinality(below(x)) + 1
  <2>1. below(x) \in SUBSET S /\ x \notin below(x)
    BY DEF Orders
  <2> HIDE DEF below
  <2>2. IsFiniteSet(below(x))
    BY <2>1, FS_Subset
  <2>3. Cardinality(below(x)) \in Nat
    BY <2>2, FS_CardinalityType
  <2> QED
    BY <2>1, <2>2, <2>3, FS_AddElement
<1>3. \A x \in S : Place(R, S, x) = Cardinality(below(x))
  BY DEF Place
<1>4. ASSUME NEW x \in S PROVE Place(R, S, x) \in 0 .. n - 1
  <2>1. below(x) \cup {x} \in SUBSET S
    OBVIOUS
  <2> HIDE DEF below
  <2>2. Cardinality(below(x) \cup {x}) <= n
    BY <2>1, FS_Subset
  <2> HIDE DEF n
  <2> QED
    BY <1>1, <1>2, <1>3, <2>2
<1>5. ASSUME NEW x \in S, NEW y \in S, <<x, y>> \in R PROVE Place(R, S, x) < Place(R, S, y)
  <2>1. below(x) \cup {x} \in SUBSET below(y)
    BY <1>5 DEF Orders
  <2> HIDE DEF below
  <2>2. Cardinality(below(x) \cup {x}) <= Cardinality(below(y))
    BY <1>2, <2>1, FS_Subset
  <2>3. Place(R, S, x) = Cardinality(below(x)) /\ Place(R, S, y) = Cardinality(below(y))
    BY <1>3
  <2>4. /\ Cardinality(below(x)) \in Nat /\ Cardinality(below(y)) \in Nat
        /\ Cardinality(below(x) \cup {x}) = Cardinality(below(x)) + 1
    BY <1>2
  <2> QED
    BY <2>2, <2>3, <2>4
<1>6. \A i \in 0 .. n - 1 : \E x \in S : Place(R, S, x) = i
  <2> DEFINE f == [x \in S |-> Place(R, S, x)]
             T == 0 .. n - 1
  <2> HIDE DEF n
  <2>1. f \in [S -> T]
    BY <1>4
  <2>2. \A x, y \in S : x # y => f[x] # f[y]
    <3> SUFFICES ASSUME NEW x \in S, NEW y \in S, x # y PROVE f[x] # f[y]
      OBVIOUS
    <3>1. <<x, y>> \in R \/ <<y, x>> \in R
      BY DEF Orders
    <3>2. f[x] < f[y] \/ f[y] < f[x]
      BY <1>5, <3>1
    <3>3. f[x] \in Nat /\ f[y] \in Nat
      BY <1>1, <1>4
    <3> HIDE DEF f
    <3> QED
      BY <3>2, <3>3
  <2>3. f \in Injection(S, T)
    <3> HIDE DEF f, T
    <3> QED
      BY <2>1, <2>2 DEF Injection, IsInjective
  <2>4. IsFiniteSet(T) /\ Cardinality(T) = n
    <3>1. n - 1 \in Int /\ 0 \in Int /\ (0 > n - 1 => n = 0)
      BY <1>1
    <3>2. IsFiniteSet(T) /\ Cardinality(T) = IF 0 > n - 1 THEN 0 ELSE n - 1 - 0 + 1
      BY <3>1, FS_Interval
    <3> QED
      BY <1>1, <3>1, <3>2
  <2>5. f \in Surjection(S, T)
    <3> HIDE DEF f, T
    <3> QED
      BY <2>3, <2>4, FS_Injection DEF n
  <2>6. \A i \in T : \E x \in S : f[x] = i
    <3> HIDE DEF f, T
    <3> QED
      BY <2>5 DEF Surjection
  <2> QED
    BY <2>6
<1> QED
  BY <1>1, <1>4, <1>5, <1>6

\* What Sorted makes of a set under an order of it.
Enumerates(s, R, S) ==
  /\ Cardinality(S) \in Nat
  /\ s = [i \in 1 .. Cardinality(S) |-> CHOOSE x \in S : Place(R, S, x) = i - 1]

\* It has all elements of the set, in their order.
LEMMA SortedProperties ==
  ASSUME NEW S, IsFiniteSet(S), NEW R, Orders(R, S), NEW s, Enumerates(s, R, S)
  PROVE  /\ s \in Seq(S) /\ Len(s) = Cardinality(S)
         /\ \A x \in S : \E i \in DOMAIN s : s[i] = x
         /\ \A i, j \in DOMAIN s : i < j => <<s[i], s[j]>> \in R
<1>1. PICK n \in Nat : n = Cardinality(S)
  BY DEF Enumerates
<1>2. s = [i \in 1 .. n |-> CHOOSE x \in S : Place(R, S, x) = i - 1]
  BY <1>1 DEF Enumerates
<1>3. /\ \A x \in S : Place(R, S, x) \in 0 .. n - 1
      /\ \A x, y \in S : <<x, y>> \in R => Place(R, S, x) < Place(R, S, y)
      /\ \A i \in 0 .. n - 1 : \E x \in S : Place(R, S, x) = i
  BY <1>1, Places
<1>4. ASSUME NEW i \in 1 .. n PROVE s[i] \in S /\ Place(R, S, s[i]) = i - 1
  <2>1. i - 1 \in 0 .. n - 1
    OBVIOUS
  <2>2. \E x \in S : Place(R, S, x) = i - 1
    BY <1>3, <2>1
  <2>3. s[i] = CHOOSE x \in S : Place(R, S, x) = i - 1
    BY <1>2
  <2> QED
    BY <2>2, <2>3
<1>5. DOMAIN s = 1 .. n
  BY <1>2
<1>6. s \in Seq(S) /\ Len(s) = n
  <2>1. s \in [1 .. n -> S]
    BY <1>2, <1>4
  <2> QED
    BY <2>1
<1>7. \A x, y \in S : Place(R, S, x) = Place(R, S, y) => x = y
  <2> SUFFICES ASSUME NEW x \in S, NEW y \in S, x # y PROVE Place(R, S, x) # Place(R, S, y)
    OBVIOUS
  <2>1. Place(R, S, x) < Place(R, S, y) \/ Place(R, S, y) < Place(R, S, x)
    BY <1>3 DEF Orders
  <2>2. Place(R, S, x) \in Int /\ Place(R, S, y) \in Int
    BY <1>3
  <2> QED
    BY <2>1, <2>2
<1>8. ASSUME NEW x \in S PROVE \E i \in DOMAIN s : s[i] = x
  <2> DEFINE i == Place(R, S, x) + 1
  <2>1. i \in 1 .. n /\ i - 1 = Place(R, S, x)
    BY <1>3
  <2>2. s[i] \in S /\ Place(R, S, s[i]) = Place(R, S, x)
    BY <1>4, <2>1
  <2>3. s[i] = x
    BY <1>7, <2>2
  <2> QED
    BY <1>5, <2>1, <2>3
<1>9. ASSUME NEW i \in DOMAIN s, NEW j \in DOMAIN s, i < j PROVE <<s[i], s[j]>> \in R
  <2>1. s[i] \in S /\ s[j] \in S /\ Place(R, S, s[i]) = i - 1 /\ Place(R, S, s[j]) = j - 1
    BY <1>4, <1>5
  <2>2. i \in Int /\ j \in Int
    BY <1>5
  <2>3. s[i] # s[j] /\ ~(Place(R, S, s[j]) < Place(R, S, s[i]))
    BY <1>9, <2>1, <2>2
  <2> QED
    BY <1>3, <2>1, <2>3 DEF Orders
<1> QED
  BY <1>1, <1>6, <1>8, <1>9

\* The instance has its own copies of the operators of the library.
LEMMA SameCardinality == \A S : TokenSet!Cardinality(S) = Cardinality(S)
BY DEF TokenSet!Cardinality, Cardinality

\* The instance's operators of the library are those of this module.
LEMMA SameMax == \A S : TokenSet!Max(S) = Max(S)
BY DEF TokenSet!Max, Max

\* The labels of a node in the order that toString takes them.
LEMMA SortedLabelsProperties ==
  ASSUME NEW S \in SUBSET Nat, IsFiniteSet(S)
  PROVE  /\ TokenSet!SortedLabels(S) \in Seq(S)
         /\ \A x \in S : \E i \in DOMAIN TokenSet!SortedLabels(S) : TokenSet!SortedLabels(S)[i] = x
<1> DEFINE R == {p \in S \X S : p[1] < p[2]}
           s == TokenSet!SortedLabels(S)
<1>1. \A x, y \in S : <<x, y>> \in R <=> x < y
  OBVIOUS
<1>2. Orders(R, S)
  <2> HIDE DEF R
  <2> QED
    BY <1>1 DEF Orders
<1>3. Enumerates(s, R, S)
  <2> DEFINE below == [x \in S |-> {y \in S : y < x}]
  <2>1. \A x \in S : below[x] = {y \in S : <<y, x>> \in R}
    <3> HIDE DEF R
    <3> QED
      BY <1>1
  <2>2. s = [i \in 1 .. TokenSet!Cardinality(S) |->
               CHOOSE x \in S : TokenSet!Cardinality(below[x]) = i - 1]
    <3>1. s = TokenSet!Sorted(S, below)
      BY DEF TokenSet!SortedLabels
    <3> HIDE DEF below, s
    <3> QED
      BY <3>1 DEF TokenSet!Sorted
  <2> HIDE DEF R, s, below
  <2>3. \A x \in S : TokenSet!Cardinality(below[x]) = Place(R, S, x)
    BY <2>1, SameCardinality DEF Place
  <2>4. \A i : (CHOOSE x \in S : TokenSet!Cardinality(below[x]) = i - 1)
                 = CHOOSE x \in S : Place(R, S, x) = i - 1
    BY <2>3
  <2>5. s = [i \in 1 .. Cardinality(S) |-> CHOOSE x \in S : Place(R, S, x) = i - 1]
    BY <2>2, <2>4, SameCardinality
  <2> QED
    BY <2>5, FS_CardinalityType DEF Enumerates
<1> HIDE DEF R, s
<1> QED
  BY <1>2, <1>3, SortedProperties DEF s

\* The comparison of insert orders the words.
LEMMA PrecedesOrders ==
  ASSUME NEW S \in SUBSET Seq(Nat)
  PROVE  Orders({p \in S \X S : TokenSet!Precedes(p[1], p[2])}, S)
<1> DEFINE P(u, v) == TokenSet!Precedes(u, v)
           R == {p \in S \X S : P(p[1], p[2])}
<1>1. \A x, y \in S : <<x, y>> \in R <=> P(x, y)
  <2> HIDE DEF P
  <2> QED
    OBVIOUS
<1>2. ASSUME NEW x \in S PROVE ~P(x, x)
  <2>1. \A i \in DOMAIN x : x[i] \in Nat
    OBVIOUS
  <2> QED
    BY <2>1 DEF TokenSet!Precedes
<1>3. ASSUME NEW x \in S, NEW y \in S, NEW z \in S, P(x, y), P(y, z) PROVE P(x, z)
  <2>1. PICK i \in DOMAIN y : /\ \A j \in 1 .. i - 1 : j \in DOMAIN x /\ x[j] = y[j]
                              /\ i \in DOMAIN x => x[i] < y[i]
    BY <1>3 DEF TokenSet!Precedes
  <2>2. PICK k \in DOMAIN z : /\ \A j \in 1 .. k - 1 : j \in DOMAIN y /\ y[j] = z[j]
                              /\ k \in DOMAIN y => y[k] < z[k]
    BY <1>3 DEF TokenSet!Precedes
  <2>3. /\ i \in Nat /\ k \in Nat /\ i >= 1 /\ k >= 1
        /\ Len(x) \in Nat /\ Len(y) \in Nat /\ Len(z) \in Nat
        /\ DOMAIN x = 1 .. Len(x) /\ DOMAIN y = 1 .. Len(y) /\ DOMAIN z = 1 .. Len(z)
        /\ \A j \in DOMAIN x : x[j] \in Nat
        /\ \A j \in DOMAIN y : y[j] \in Nat
        /\ \A j \in DOMAIN z : z[j] \in Nat
    <3>1. x \in Seq(Nat) /\ y \in Seq(Nat) /\ z \in Seq(Nat)
      OBVIOUS
    <3>2. Len(x) \in Nat /\ Len(y) \in Nat /\ Len(z) \in Nat
      BY <3>1
    <3>3. DOMAIN x = 1 .. Len(x) /\ DOMAIN y = 1 .. Len(y) /\ DOMAIN z = 1 .. Len(z)
      BY <3>1
    <3>4. /\ \A j \in DOMAIN x : x[j] \in Nat
          /\ \A j \in DOMAIN y : y[j] \in Nat
          /\ \A j \in DOMAIN z : z[j] \in Nat
      BY <3>1, <3>2, <3>3
    <3>5. i \in Nat /\ k \in Nat /\ i >= 1 /\ k >= 1
      BY <3>2, <3>3
    <3> QED
      BY <3>2, <3>3, <3>4, <3>5
  <2>4. CASE i < k
    <3>1. i \in 1 .. k - 1
      BY <2>3, <2>4
    <3>2. i \in DOMAIN z /\ y[i] = z[i]
      BY <2>2, <2>3, <3>1
    <3>3. \A j \in 1 .. i - 1 : j \in 1 .. k - 1
      BY <2>3, <2>4
    <3>4. \A j \in 1 .. i - 1 : j \in DOMAIN x /\ x[j] = z[j]
      BY <2>1, <2>2, <3>3
    <3>5. i \in DOMAIN x => x[i] < z[i]
      BY <2>1, <3>2
    <3> QED
      BY <3>2, <3>4, <3>5 DEF TokenSet!Precedes
  <2>5. CASE k <= i
    <3>1. k \in DOMAIN y
      BY <2>3, <2>5
    <3>2. y[k] < z[k]
      BY <2>2, <3>1
    <3>3. \A j \in 1 .. k - 1 : j \in 1 .. i - 1
      BY <2>3, <2>5
    <3>4. \A j \in 1 .. k - 1 : j \in DOMAIN x /\ x[j] = z[j]
      BY <2>1, <2>2, <3>3
    <3>5. k \in DOMAIN x => x[k] < z[k]
      <4> SUFFICES ASSUME k \in DOMAIN x PROVE x[k] < z[k]
        OBVIOUS
      <4>1. k = i \/ k \in 1 .. i - 1
        BY <2>3, <2>5
      <4>2. x[k] <= y[k]
        BY <2>1, <2>3, <3>1, <4>1
      <4> QED
        BY <2>3, <3>1, <3>2, <4>2
    <3> QED
      BY <3>4, <3>5 DEF TokenSet!Precedes
  <2> QED
    BY <2>3, <2>4, <2>5
<1>4. ASSUME NEW x \in S, NEW y \in S, x # y PROVE P(x, y) \/ P(y, x)
  <2> DEFINE T == {j \in Nat \ {0} : ~(j \in DOMAIN x /\ j \in DOMAIN y /\ x[j] = y[j])}
  <2>1. /\ \A j : j \in DOMAIN x <=> j \in 1 .. Len(x)
        /\ \A j : j \in DOMAIN y <=> j \in 1 .. Len(y)
        /\ Len(x) \in Nat /\ Len(y) \in Nat
        /\ \A j \in DOMAIN x : x[j] \in Nat
        /\ \A j \in DOMAIN y : y[j] \in Nat
    OBVIOUS
  <2>2. Len(x) + 1 \in T /\ T \in SUBSET Nat
    BY <2>1
  <2>3. PICK i \in T : \A j \in T : i <= j
    <3> HIDE DEF T
    <3> QED
      BY <2>2, Least
  <2>4. i \in Nat /\ i >= 1
    OBVIOUS
  <2>5. ASSUME NEW j \in 1 .. i - 1 PROVE j \in DOMAIN x /\ j \in DOMAIN y /\ x[j] = y[j]
    <3>1. j \in Nat \ {0} /\ ~(i <= j)
      BY <2>4
    <3>2. j \notin T
      <4> HIDE DEF T
      <4> QED
        BY <2>3, <3>1
    <3> QED
      BY <3>1, <3>2
  <2>6. CASE i \in DOMAIN x /\ i \in DOMAIN y
    <3>1. x[i] < y[i] \/ y[i] < x[i]
      BY <2>1, <2>6
    <3> HIDE DEF T
    <3> QED
      BY <2>5, <2>6, <3>1 DEF TokenSet!Precedes
  <2>7. CASE i \in DOMAIN x /\ i \notin DOMAIN y
    <3> HIDE DEF T
    <3> QED
      BY <2>5, <2>7 DEF TokenSet!Precedes
  <2>8. CASE i \notin DOMAIN x /\ i \in DOMAIN y
    <3> HIDE DEF T
    <3> QED
      BY <2>5, <2>8 DEF TokenSet!Precedes
  <2>9. CASE i \notin DOMAIN x /\ i \notin DOMAIN y
    <3>1. ~(Len(x) >= i) /\ ~(Len(y) >= i)
      BY <2>1, <2>4, <2>9
    <3>2. Len(x) = i - 1 /\ Len(y) = i - 1
      <4>1. ~(Len(x) < i - 1)
        <5> SUFFICES ASSUME Len(x) < i - 1 PROVE FALSE
          OBVIOUS
        <5>1. Len(x) + 1 \in 1 .. i - 1
          BY <2>1, <2>4
        <5>2. Len(x) + 1 \in DOMAIN x
          BY <2>5, <5>1
        <5> QED
          BY <2>1, <5>2
      <4>2. ~(Len(y) < i - 1)
        <5> SUFFICES ASSUME Len(y) < i - 1 PROVE FALSE
          OBVIOUS
        <5>1. Len(y) + 1 \in 1 .. i - 1
          BY <2>1, <2>4
        <5>2. Len(y) + 1 \in DOMAIN y
          BY <2>5, <5>1
        <5> QED
          BY <2>1, <5>2
      <4> QED
        BY <2>1, <2>4, <3>1, <4>1, <4>2
    <3>3. \A j \in 1 .. Len(x) : x[j] = y[j]
      BY <2>5, <3>2
    <3>4. x \in Seq(Nat) /\ y \in Seq(Nat) /\ Len(x) = Len(y)
      BY <3>2
    <3>5. x = y
      BY <3>3, <3>4, SeqEqual
    <3> QED
      BY <1>4, <3>5
  <2> QED
    BY <2>6, <2>7, <2>8, <2>9
<1>5. Orders(R, S)
  <2> HIDE DEF R, P
  <2> QED
    BY <1>1, <1>2, <1>3, <1>4 DEF Orders
<1> QED
  BY <1>5

\* The words of a finite set, in their order.
LEMMA SortedWordsProperties ==
  ASSUME NEW S \in SUBSET Seq(Nat), IsFiniteSet(S)
  PROVE  /\ TokenSet!SortedWords(S) \in Seq(S)
         /\ Len(TokenSet!SortedWords(S)) = Cardinality(S)
         /\ \A x \in S : \E i \in DOMAIN TokenSet!SortedWords(S) :
              TokenSet!SortedWords(S)[i] = x
<1> DEFINE R == {p \in S \X S : TokenSet!Precedes(p[1], p[2])}
           s == TokenSet!SortedWords(S)
<1>1. \A x, y \in S : <<x, y>> \in R <=> TokenSet!Precedes(x, y)
  OBVIOUS
<1>2. Orders(R, S)
  BY PrecedesOrders
<1>3. Enumerates(s, R, S)
  <2> DEFINE below == [x \in S |-> {y \in S : TokenSet!Precedes(y, x)}]
  <2>1. \A x \in S : below[x] = {y \in S : <<y, x>> \in R}
    <3> HIDE DEF R
    <3> QED
      BY <1>1
  <2>2. s = [i \in 1 .. TokenSet!Cardinality(S) |->
               CHOOSE x \in S : TokenSet!Cardinality(below[x]) = i - 1]
    <3>1. s = TokenSet!Sorted(S, below)
      BY DEF TokenSet!SortedWords
    <3> HIDE DEF below, s
    <3> QED
      BY <3>1 DEF TokenSet!Sorted
  <2> HIDE DEF R, s, below
  <2>3. \A x \in S : TokenSet!Cardinality(below[x]) = Place(R, S, x)
    BY <2>1, SameCardinality DEF Place
  <2>4. \A i : (CHOOSE x \in S : TokenSet!Cardinality(below[x]) = i - 1)
                 = CHOOSE x \in S : Place(R, S, x) = i - 1
    BY <2>3
  <2>5. s = [i \in 1 .. Cardinality(S) |-> CHOOSE x \in S : Place(R, S, x) = i - 1]
    BY <2>2, <2>4, SameCardinality
  <2> QED
    BY <2>5, FS_CardinalityType DEF Enumerates
<1> HIDE DEF R, s
<1> QED
  BY <1>2, <1>3, SortedProperties DEF s

-----------------------------------------------------------------------------
(* Nodes and their keys                                                    *)

\* The edges of an automaton none of whose labels is a digit.
Graph(g) ==
  /\ IsFiniteSet(DOMAIN g)
  /\ DOMAIN g \subseteq Nat \X (Nat \ Digit)
  /\ g \in [DOMAIN g -> Nat]

Labels(g, n) == TokenSet!Labels(g, n)

\* The labels of a node are finitely many, and no digits.
LEMMA LabelsProperties ==
  ASSUME NEW g, Graph(g), NEW n
  PROVE  /\ \A c : c \in Labels(g, n) <=> <<n, c>> \in DOMAIN g
         /\ Labels(g, n) \in SUBSET (Nat \ Digit) /\ IsFiniteSet(Labels(g, n))
         /\ \A c \in Labels(g, n) : n \in Nat /\ g[n, c] \in Nat
<1> DEFINE E == {e \in DOMAIN g : e[1] = n}
           f == [e \in E |-> e[2]]
           L == Labels(g, n)
<1>1. L = {e[2] : e \in E}
  BY DEF Labels, TokenSet!Labels
<1>2. \A e \in DOMAIN g : e[1] \in Nat /\ e[2] \in Nat \ Digit /\ e = <<e[1], e[2]>>
  BY DEF Graph
<1>3. \A c : c \in L <=> <<n, c>> \in DOMAIN g
  <2> SUFFICES ASSUME NEW c PROVE c \in L <=> <<n, c>> \in DOMAIN g
    OBVIOUS
  <2>1. ASSUME c \in L PROVE <<n, c>> \in DOMAIN g
    <3>1. PICK e \in E : c = e[2]
      BY <1>1, <2>1
    <3> QED
      BY <1>2, <3>1
  <2>2. ASSUME <<n, c>> \in DOMAIN g PROVE c \in L
    <3>1. <<n, c>> \in E /\ <<n, c>>[2] = c
      BY <2>2
    <3> HIDE DEF E, L
    <3> QED
      BY <1>1, <3>1
  <2> QED
    BY <2>1, <2>2
<1>4. L \in SUBSET (Nat \ Digit)
  BY <1>1, <1>2
<1>5. IsFiniteSet(L)
  <2>1. E \in SUBSET DOMAIN g
    OBVIOUS
  <2>2. IsFiniteSet(E)
    BY <2>1, FS_Subset DEF Graph
  <2>3. f \in Surjection(E, L)
    <3>1. f \in [E -> L]
      BY <1>1
    <3>2. \A c \in L : \E e \in E : f[e] = c
      BY <1>1
    <3> HIDE DEF f, E, L
    <3> QED
      BY <3>1, <3>2 DEF Surjection
  <2> HIDE DEF f, E, L
  <2> QED
    BY <2>2, <2>3, FS_Surjection
<1>6. ASSUME NEW c \in L PROVE n \in Nat /\ g[n, c] \in Nat
  <2>1. <<n, c>> \in DOMAIN g
    BY <1>3
  <2> QED
    BY <2>1 DEF Graph
<1> HIDE DEF L
<1> QED
  BY <1>3, <1>4, <1>5, <1>6 DEF L

\* Key, with the final nodes as an argument.
Spell(g, F, n) ==
  LET labels == TokenSet!SortedLabels(Labels(g, n))
  IN  TokenSet!Spelled(IF n \in F THEN 1 ELSE 0, labels, [i \in DOMAIN labels |-> g[n, labels[i]]])

\* toString of a node of the automaton.
LEMMA KeySpells == \A g, n : TokenSet!Key(g, n) = Spell(g, final, n)
BY DEF TokenSet!Key, Spell, Labels

\* Two nodes that nothing tells apart: what merging them rests on.
Alike(g, F, m, n) ==
  /\ m \in F <=> n \in F
  /\ Labels(g, m) = Labels(g, n)
  /\ \A c \in Labels(g, m) : g[m, c] = g[n, c]

\* What Spell is made from.
SpelledFrom(g, F, n, bit, labels, ids) ==
  /\ Spell(g, F, n) = TokenSet!Spelled(bit, labels, ids)
  /\ Spellable(bit, labels, ids)
  /\ bit = IF n \in F THEN 1 ELSE 0
  /\ \A c : c \in Labels(g, n) <=> \E i \in 1 .. Len(labels) : labels[i] = c
  /\ \A i \in 1 .. Len(labels) : ids[i] = g[n, labels[i]]

\* Key makes the string from the bit, the labels and the ids of the node.
LEMMA SpellProperties ==
  ASSUME NEW g, Graph(g), NEW F, NEW n
  PROVE  \E bit, labels, ids : SpelledFrom(g, F, n, bit, labels, ids)
<1> DEFINE L == Labels(g, n)
<1>1. /\ L \in SUBSET (Nat \ Digit) /\ L \in SUBSET Nat /\ IsFiniteSet(L)
      /\ \A c \in L : g[n, c] \in Nat
  BY LabelsProperties
<1>2. PICK labels : labels = TokenSet!SortedLabels(L)
  OBVIOUS
<1>3. PICK ids : ids = [i \in DOMAIN labels |-> g[n, labels[i]]]
  OBVIOUS
<1>4. PICK bit : bit = IF n \in F THEN 1 ELSE 0
  OBVIOUS
<1>5. Spell(g, F, n) = TokenSet!Spelled(bit, labels, ids)
  BY <1>2, <1>3, <1>4 DEF Spell
<1> HIDE DEF L
<1>6. labels \in Seq(L) /\ \A x \in L : \E i \in DOMAIN labels : labels[i] = x
  BY <1>1, <1>2, SortedLabelsProperties
<1>7. DOMAIN labels = 1 .. Len(labels) /\ Len(labels) \in Nat
  BY <1>6
<1>8. \A i \in 1 .. Len(labels) : labels[i] \in L
  BY <1>6, <1>7
<1>9. Spellable(bit, labels, ids)
  <2>1. labels \in Seq(Nat \ Digit)
    BY <1>1, <1>6, SeqMonotonic
  <2>2. ids \in [1 .. Len(labels) -> Nat]
    BY <1>1, <1>3, <1>7, <1>8
  <2> QED
    BY <1>4, <2>1, <2>2 DEF Spellable
<1>10. \A c : c \in L <=> \E i \in 1 .. Len(labels) : labels[i] = c
  BY <1>6, <1>7, <1>8
<1>11. \A i \in 1 .. Len(labels) : ids[i] = g[n, labels[i]]
  BY <1>3, <1>7
<1>12. SpelledFrom(g, F, n, bit, labels, ids)
  <2>1. \A c : c \in Labels(g, n) <=> \E i \in 1 .. Len(labels) : labels[i] = c
    BY <1>10 DEF L
  <2> QED
    BY <1>4, <1>5, <1>9, <1>11, <2>1 DEF SpelledFrom
<1> QED
  BY <1>12

\* Nodes of one key are alike.  This is where a digit among the labels would do harm.
LEMMA SpellInjective ==
  ASSUME NEW g, Graph(g), NEW F, NEW m, NEW n, Spell(g, F, m) = Spell(g, F, n)
  PROVE  Alike(g, F, m, n)
<1>1. PICK bit1, labels1, ids1 : SpelledFrom(g, F, m, bit1, labels1, ids1)
  BY SpellProperties
<1>2. PICK bit2, labels2, ids2 : SpelledFrom(g, F, n, bit2, labels2, ids2)
  BY SpellProperties
<1>3. bit1 = bit2 /\ labels1 = labels2 /\ ids1 = ids2
  <2>1. TokenSet!Spelled(bit1, labels1, ids1) = TokenSet!Spelled(bit2, labels2, ids2)
    BY <1>1, <1>2 DEF SpelledFrom
  <2>2. Spellable(bit1, labels1, ids1) /\ Spellable(bit2, labels2, ids2)
    BY <1>1, <1>2 DEF SpelledFrom
  <2> QED
    BY <2>1, <2>2, SpelledInjective
<1>4. m \in F <=> n \in F
  <2>1. (m \in F => bit1 = 1) /\ (m \notin F => bit1 = 0)
    BY <1>1 DEF SpelledFrom
  <2>2. (n \in F => bit2 = 1) /\ (n \notin F => bit2 = 0)
    BY <1>2 DEF SpelledFrom
  <2> QED
    BY <1>3, <2>1, <2>2
<1>5. \A c : c \in Labels(g, m) <=> c \in Labels(g, n)
  BY <1>1, <1>2, <1>3 DEF SpelledFrom
<1>6. ASSUME NEW c \in Labels(g, m) PROVE g[m, c] = g[n, c]
  <2>1. PICK i \in 1 .. Len(labels1) : labels1[i] = c
    BY <1>1 DEF SpelledFrom
  <2>2. ids1[i] = g[m, c]
    BY <1>1, <2>1 DEF SpelledFrom
  <2>3. ids1[i] = g[n, c]
    BY <1>2, <1>3, <2>1 DEF SpelledFrom
  <2> QED
    BY <2>2, <2>3
<1>7. Labels(g, m) = Labels(g, n)
  <2>1. Labels(g, m) \in SUBSET (Nat \ Digit) /\ Labels(g, n) \in SUBSET (Nat \ Digit)
    BY LabelsProperties
  <2> QED
    BY <1>5, <2>1
<1> QED
  BY <1>4, <1>6, <1>7 DEF Alike

\* h and G have the node as g and F have it.
Kept(g, F, h, G, n) ==
  /\ Labels(h, n) = Labels(g, n)
  /\ \A c \in Labels(g, n) : h[n, c] = g[n, c]
  /\ n \in G <=> n \in F

\* The key of a node is the same as long as the node is.
LEMMA SpellKept ==
  ASSUME NEW g, Graph(g), NEW F, NEW h, NEW G, NEW n, Kept(g, F, h, G, n)
  PROVE  Spell(h, G, n) = Spell(g, F, n)
<1>0. /\ Labels(h, n) = Labels(g, n)
      /\ \A c \in Labels(g, n) : h[n, c] = g[n, c]
      /\ n \in G <=> n \in F
  BY DEF Kept
<1> DEFINE L == Labels(g, n)
<1>1. PICK labels : labels = TokenSet!SortedLabels(L)
  OBVIOUS
<1>2. labels \in Seq(L)
  <2>1. L \in SUBSET Nat /\ IsFiniteSet(L)
    BY LabelsProperties
  <2> HIDE DEF L
  <2> QED
    BY <1>1, <2>1, SortedLabelsProperties
<1>3. \A i \in DOMAIN labels : labels[i] \in L
  <2>1. DOMAIN labels = 1 .. Len(labels)
    BY <1>2, LenProperties
  <2> HIDE DEF L
  <2> QED
    BY <1>2, <2>1, ElementOfSeq
<1>4. [i \in DOMAIN labels |-> h[n, labels[i]]] = [i \in DOMAIN labels |-> g[n, labels[i]]]
  BY <1>0, <1>3
<1>5. (IF n \in G THEN 1 ELSE 0) = IF n \in F THEN 1 ELSE 0
  BY <1>0
<1> QED
  BY <1>0, <1>1, <1>4, <1>5 DEF Spell

-----------------------------------------------------------------------------
(* Languages                                                               *)

Words == Seq(Nat)

Empty(F, n) == IF n \in F THEN {<<>>} ELSE {}

\* The words of one more character.
Longer(g, F, L, n) == Empty(F, n) \cup UNION {TokenSet!Prefixed(c, L[g[n, c]]) : c \in Labels(g, n)}

Lang(g, F, k) == TokenSet!Language(g, F, k)

\* The words of at most k + 1 characters, from those of at most k.
LEMMA LanguageRule ==
  ASSUME NEW g, Graph(g), NEW F
  PROVE  /\ \A k \in Nat : Lang(g, F, k) \in [Nat -> SUBSET Words]
         /\ \A n \in Nat : Lang(g, F, 0)[n] = Empty(F, n)
         /\ \A k \in Nat : \A n \in Nat : Lang(g, F, k + 1)[n] = Longer(g, F, Lang(g, F, k), n)
<1> DEFINE V == [Nat -> SUBSET Words]
           rank == [k \in Nat |-> k]
           Below(k) == Lower(Nat, rank, k)
           Value(k, L) == [n \in Nat |-> IF k = 0 THEN Empty(F, n) ELSE Longer(g, F, L, n)]
           step == [k \in Nat |-> [h \in [Below(k) -> V] |-> Value(k, h[k - 1])]]
           Eq(f) == f = [k \in Nat |-> [n \in Nat |->
                          (IF n \in F THEN {<<>>} ELSE {})
                            \cup IF k = 0 THEN {} ELSE
                              UNION {TokenSet!Prefixed(c, f[k - 1][g[n, c]]) : c \in TokenSet!Labels(g, n)}]]
           words == CHOOSE f : Eq(f)
<1>1. rank \in [Nat -> Nat] /\ \A k \in Nat : rank[k] = k
  OBVIOUS
<1>2. ASSUME NEW L \in V, NEW n \in Nat PROVE Longer(g, F, L, n) \in SUBSET Words
  <2>1. Empty(F, n) \in SUBSET Words
    BY DEF Empty, Words
  <2>2. ASSUME NEW c \in Labels(g, n) PROVE TokenSet!Prefixed(c, L[g[n, c]]) \in SUBSET Words
    <3>1. g[n, c] \in Nat /\ c \in Nat
      BY LabelsProperties
    <3>2. L[g[n, c]] \in SUBSET Words
      BY <3>1
    <3>3. \A w \in Words : <<c>> \o w \in Words
      <4>0. c \in Nat
        BY <3>1
      <4>1. <<c>> \in Seq(Nat)
        BY <4>0
      <4> QED
        BY <4>1, ConcatProperties DEF Words
    <3> QED
      BY <3>2, <3>3 DEF TokenSet!Prefixed
  <2> QED
    BY <2>1, <2>2 DEF Longer
<1>3. ASSUME NEW n \in Nat PROVE Empty(F, n) \in SUBSET Words
  BY DEF Empty, Words
<1>4. ASSUME NEW k \in Nat, NEW h \in [Below(k) -> V]
      PROVE  step[k][h] \in V /\ step[k][h] = Value(k, h[k - 1])
  <2>1. step[k][h] = Value(k, h[k - 1])
    <3> HIDE DEF Below, V, Value
    <3> QED
      OBVIOUS
  <2>2. k # 0 => h[k - 1] \in V
    <3>1. k # 0 => k - 1 \in Below(k)
      BY DEF Lower
    <3> HIDE DEF Below, V
    <3> QED
      BY <3>1
  <2>3. Value(k, h[k - 1]) \in V
    <3>1. CASE k = 0
      BY <1>3, <3>1
    <3>2. CASE k # 0
      <4> HIDE DEF Below
      <4> QED
        BY <1>2, <2>2, <3>2
    <3> QED
      BY <3>1, <3>2
  <2> HIDE DEF step, Value, V, Below
  <2> QED
    BY <2>1, <2>3
<1>5. PICK f : Ranked(f, Nat, V, rank, step)
  <2>1. Leads(Nat, V, rank, step)
    <3> HIDE DEF step, rank, V
    <3> QED
      BY <1>4 DEF Leads
  <2> HIDE DEF step, rank, V
  <2> QED
    BY <1>1, <2>1, RankedRecursion
<1>6. f \in [Nat -> V]
  <2> HIDE DEF step, rank, V
  <2> QED
    BY <1>5 DEF Ranked
<1>7. ASSUME NEW k \in Nat PROVE f[k] = Value(k, f[k - 1])
  <2> DEFINE h == [y \in Below(k) |-> f[y]]
  <2>1. h \in [Below(k) -> V] /\ (k # 0 => h[k - 1] = f[k - 1])
    <3>1. k # 0 => k - 1 \in Below(k)
      BY DEF Lower
    <3>2. Below(k) \subseteq Nat
      BY DEF Lower
    <3> HIDE DEF Below, V
    <3> QED
      BY <1>6, <3>1, <3>2
  <2>2. f[k] = step[k][h]
    <3> HIDE DEF V, step, rank
    <3> QED
      BY <1>5 DEF Ranked, Restrict
  <2> HIDE DEF h, Below, V, step
  <2>3. f[k] = Value(k, h[k - 1])
    <3> HIDE DEF Value
    <3> QED
      BY <1>4, <2>1, <2>2
  <2>4. Value(k, h[k - 1]) = Value(k, f[k - 1])
    BY <2>1
  <2> HIDE DEF Value
  <2> QED
    BY <2>3, <2>4
<1>8. Eq(f)
  <2> DEFINE At(k, n) == (IF n \in F THEN {<<>>} ELSE {})
                           \cup IF k = 0 THEN {} ELSE
                             UNION {TokenSet!Prefixed(c, f[k - 1][g[n, c]]) : c \in TokenSet!Labels(g, n)}
  <2>1. ASSUME NEW k \in Nat, NEW n \in Nat PROVE Value(k, f[k - 1])[n] = At(k, n)
    BY DEF Empty, Longer, Labels
  <2>2. ASSUME NEW k \in Nat PROVE f[k] = [n \in Nat |-> At(k, n)]
    <3>1. f[k] \in V
      <4> HIDE DEF V
      <4> QED
        BY <1>6
    <3>2. f[k] = Value(k, f[k - 1])
      BY <1>7
    <3>3. \A n \in Nat : f[k][n] = At(k, n)
      <4> HIDE DEF Value, At, V
      <4> QED
        BY <2>1, <3>2
    <3> HIDE DEF Value, At
    <3> QED
      BY <3>1, <3>3
  <2>3. f = [k \in Nat |-> [n \in Nat |-> At(k, n)]]
    <3> HIDE DEF V, At
    <3> QED
      BY <1>6, <2>2
  <2> QED
    BY <2>3
<1>9. Eq(words)
  <2> HIDE DEF Eq
  <2> QED
    BY <1>8
<1>10. \A k \in Nat : Lang(g, F, k) = words[k]
  BY DEF Lang, TokenSet!Language
<1> HIDE DEF words
<1>11. ASSUME NEW k \in Nat PROVE words[k] = f[k]
  <2> DEFINE J == {m \in Nat : words[m] = f[m]}
  <2>1. ASSUME NEW m \in Nat, NEW L, L = words[m - 1], L = f[m - 1] \/ m = 0 PROVE words[m] = f[m]
    <3> DEFINE At(l, n) == (IF n \in F THEN {<<>>} ELSE {})
                             \cup IF m = 0 THEN {} ELSE
                               UNION {TokenSet!Prefixed(c, l[g[n, c]]) : c \in TokenSet!Labels(g, n)}
    <3>1. words[m] = [n \in Nat |-> At(words[m - 1], n)]
      BY <1>9
    <3>2. f[m] = [n \in Nat |-> At(f[m - 1], n)]
      BY <1>8
    <3>3. \A n \in Nat : At(words[m - 1], n) = At(f[m - 1], n)
      BY <2>1
    <3> HIDE DEF At
    <3> QED
      BY <3>1, <3>2, <3>3
  <2>2. 0 \in J
    <3> HIDE DEF Eq
    <3> QED
      BY <2>1
  <2>3. ASSUME NEW m \in Nat, m \in J PROVE m + 1 \in J
    <3>1. m + 1 \in Nat /\ (m + 1) - 1 = m /\ words[m] = f[m]
      BY <2>3
    <3> QED
      BY <2>1, <3>1
  <2>4. Nat \subseteq J
    <3> HIDE DEF J
    <3> QED
      BY <2>2, <2>3, Induction
  <2> QED
    BY <2>4
<1>12. \A k \in Nat : Lang(g, F, k) = f[k]
  <2> HIDE DEF Eq
  <2> QED
    BY <1>10, <1>11
<1>13. \A k \in Nat : Lang(g, F, k) \in [Nat -> SUBSET Words]
  BY <1>6, <1>12
<1>14. \A n \in Nat : Lang(g, F, 0)[n] = Empty(F, n)
  <2>1. f[0] = Value(0, f[0 - 1])
    BY <1>7
  <2>2. \A n \in Nat : Value(0, f[0 - 1])[n] = Empty(F, n)
    OBVIOUS
  <2> HIDE DEF Value
  <2> QED
    BY <1>12, <2>1, <2>2
<1>15. ASSUME NEW k \in Nat, NEW n \in Nat PROVE Lang(g, F, k + 1)[n] = Longer(g, F, Lang(g, F, k), n)
  <2>1. k + 1 \in Nat /\ (k + 1) - 1 = k /\ k + 1 # 0
    OBVIOUS
  <2>2. f[k + 1] = Value(k + 1, f[k])
    <3> HIDE DEF Value
    <3>1. f[k + 1] = Value(k + 1, f[(k + 1) - 1])
      BY <1>7, <2>1
    <3> QED
      BY <2>1, <3>1
  <2>3. Value(k + 1, f[k])[n] = Longer(g, F, f[k], n)
    BY <2>1
  <2> HIDE DEF Value
  <2> QED
    BY <1>12, <2>1, <2>2, <2>3
<1> QED
  BY <1>13, <1>14, <1>15

Accepts(g, F, k, n, w) == w \in Lang(g, F, k)[n]

Leaves(g, F, k, n, w) ==
  \E c \in Labels(g, n) : \E v \in Words : w = <<c>> \o v /\ Accepts(g, F, k, g[n, c], v)

\* A word is accepted if it leads to a final node.
LEMMA AcceptsRule ==
  ASSUME NEW g, Graph(g), NEW F, NEW n \in Nat, NEW w
  PROVE  /\ Accepts(g, F, 0, n, w) <=> w = <<>> /\ n \in F
         /\ \A k \in Nat :
              Accepts(g, F, k + 1, n, w) <=> (w = <<>> /\ n \in F) \/ Leaves(g, F, k, n, w)
<1>1. w \in Empty(F, n) <=> w = <<>> /\ n \in F
  BY DEF Empty
<1>2. Accepts(g, F, 0, n, w) <=> w = <<>> /\ n \in F
  BY <1>1, LanguageRule DEF Accepts
<1>3. ASSUME NEW k \in Nat
      PROVE  Accepts(g, F, k + 1, n, w) <=> (w = <<>> /\ n \in F) \/ Leaves(g, F, k, n, w)
  <2> DEFINE L == Lang(g, F, k)
  <2>1. L \in [Nat -> SUBSET Words] /\ Lang(g, F, k + 1)[n] = Longer(g, F, L, n)
    BY LanguageRule
  <2> HIDE DEF L
  <2>2. w \in Longer(g, F, L, n) <=>
          w \in Empty(F, n) \/ \E c \in Labels(g, n) : w \in TokenSet!Prefixed(c, L[g[n, c]])
    BY DEF Longer
  <2>3. ASSUME NEW c \in Labels(g, n)
        PROVE  w \in TokenSet!Prefixed(c, L[g[n, c]]) <=> \E v \in Words : w = <<c>> \o v /\ v \in L[g[n, c]]
    <3>1. g[n, c] \in Nat
      BY LabelsProperties
    <3>2. L[g[n, c]] \in SUBSET Words
      BY <2>1, <3>1
    <3> QED
      BY <3>2 DEF TokenSet!Prefixed
  <2>4. w \in Longer(g, F, L, n) <=>
          \/ w = <<>> /\ n \in F
          \/ \E c \in Labels(g, n) : \E v \in Words : w = <<c>> \o v /\ v \in L[g[n, c]]
    BY <1>1, <2>2, <2>3
  <2> QED
    BY <2>1, <2>4 DEF Accepts, Leaves, L
<1> QED
  BY <1>2, <1>3

-----------------------------------------------------------------------------
(* Nodes that are merged                                                   *)

\* The two automata accept the same words from any node.
SameLanguages(g, F, h, G) ==
  \A k \in Nat : \A n \in Nat : \A w : Accepts(h, G, k, n, w) <=> Accepts(g, F, k, n, w)

\* An edge may lead to a node that is like its own.
LEMMA Redirecting ==
  ASSUME NEW g, Graph(g), NEW F, NEW e \in DOMAIN g, NEW r \in Nat, Alike(g, F, g[e], r),
         NEW h, h = [g EXCEPT ![e] = r]
  PROVE  /\ Graph(h) /\ DOMAIN h = DOMAIN g
         /\ \A n : Labels(h, n) = Labels(g, n)
         /\ SameLanguages(g, F, h, F)
<1>1. DOMAIN h = DOMAIN g /\ h[e] = r /\ \A d \in DOMAIN g : d # e => h[d] = g[d]
  OBVIOUS
<1>2. Graph(h)
  BY <1>1 DEF Graph
<1>3. \A n : Labels(h, n) = Labels(g, n)
  BY <1>1 DEF Labels, TokenSet!Labels
<1>4. g[e] \in Nat
  BY DEF Graph
<1>5. ASSUME NEW k \in Nat, NEW w PROVE Accepts(g, F, k, g[e], w) <=> Accepts(g, F, k, r, w)
  <2>1. CASE k = 0
    BY <1>4, <2>1, AcceptsRule DEF Alike
  <2>2. CASE k # 0
    <3>1. PICK j \in Nat : k = j + 1
      <4>1. k - 1 \in Nat /\ k = (k - 1) + 1
        BY <2>2
      <4> QED
        BY <4>1
    <3>2. Leaves(g, F, j, g[e], w) <=> Leaves(g, F, j, r, w)
      BY DEF Leaves, Alike
    <3>3. g[e] \in F <=> r \in F
      BY DEF Alike
    <3> QED
      BY <1>4, <3>1, <3>2, <3>3, AcceptsRule
  <2> QED
    BY <2>1, <2>2
<1> DEFINE Same(k) == \A n \in Nat : \A w : Accepts(h, F, k, n, w) <=> Accepts(g, F, k, n, w)
           S == {k \in Nat : Same(k)}
<1>6. Same(0)
  <2> SUFFICES ASSUME NEW n \in Nat, NEW w PROVE Accepts(h, F, 0, n, w) <=> Accepts(g, F, 0, n, w)
    OBVIOUS
  <2>1. Accepts(h, F, 0, n, w) <=> w = <<>> /\ n \in F
    BY <1>2, AcceptsRule
  <2>2. Accepts(g, F, 0, n, w) <=> w = <<>> /\ n \in F
    BY AcceptsRule
  <2> QED
    BY <2>1, <2>2
<1>7. ASSUME NEW k \in Nat, Same(k) PROVE Same(k + 1)
  <2> SUFFICES ASSUME NEW n \in Nat, NEW w
               PROVE  Accepts(h, F, k + 1, n, w) <=> Accepts(g, F, k + 1, n, w)
    OBVIOUS
  <2>1. ASSUME NEW c \in Labels(g, n), NEW v
        PROVE  Accepts(h, F, k, h[n, c], v) <=> Accepts(g, F, k, g[n, c], v)
    <3>1. <<n, c>> \in DOMAIN g /\ g[n, c] \in Nat
      BY LabelsProperties
    <3>2. h[n, c] \in Nat
      BY <1>2, <1>3, LabelsProperties
    <3>3. Accepts(h, F, k, h[n, c], v) <=> Accepts(g, F, k, h[n, c], v)
      BY <1>7, <3>2
    <3>4. CASE <<n, c>> = e
      <4>1. h[n, c] = r /\ g[n, c] = g[e]
        BY <1>1, <3>4
      <4> QED
        BY <1>5, <3>3, <4>1
    <3>5. CASE <<n, c>> # e
      <4>1. h[n, c] = g[n, c]
        BY <1>1, <3>1, <3>5
      <4> QED
        BY <3>3, <4>1
    <3> QED
      BY <3>4, <3>5
  <2>2. Leaves(h, F, k, n, w) <=> Leaves(g, F, k, n, w)
    <3>1. Labels(h, n) = Labels(g, n)
      BY <1>3
    <3> QED
      BY <2>1, <3>1 DEF Leaves
  <2>3. Accepts(h, F, k + 1, n, w) <=> (w = <<>> /\ n \in F) \/ Leaves(h, F, k, n, w)
    BY <1>2, AcceptsRule
  <2>4. Accepts(g, F, k + 1, n, w) <=> (w = <<>> /\ n \in F) \/ Leaves(g, F, k, n, w)
    BY AcceptsRule
  <2> QED
    BY <2>2, <2>3, <2>4
<1>8. SameLanguages(g, F, h, F)
  <2>1. Nat \subseteq S
    <3> HIDE DEF Same
    <3>1. 0 \in S /\ \A k \in Nat : k \in S => k + 1 \in S
      BY <1>6, <1>7
    <3> HIDE DEF S
    <3> QED
      BY <3>1, Induction
  <2> QED
    BY <2>1 DEF SameLanguages
<1> QED
  BY <1>1, <1>2, <1>3, <1>8

-----------------------------------------------------------------------------
(* A path for one more word                                                *)

Suffix(word, i) == SubSeq(word, i + 1, Len(word))

\* The rests of a word, character by character.
LEMMA SuffixProperties ==
  ASSUME NEW word \in Words
  PROVE  /\ Suffix(word, 0) = word
         /\ Suffix(word, Len(word)) = <<>>
         /\ \A i \in 0 .. Len(word) : Suffix(word, i) \in Words
         /\ \A i \in 1 .. Len(word) : Suffix(word, i - 1) = <<word[i]>> \o Suffix(word, i)
<1>1. PICK n \in Nat : n = Len(word)
  BY DEF Words
<1>2. \A i \in 1 .. n : word[i] \in Nat
  BY <1>1 DEF Words
<1>3. ASSUME NEW i \in 0 .. n
      PROVE  /\ Suffix(word, i) \in Words /\ Len(Suffix(word, i)) = n - i
             /\ \A j \in 1 .. n - i : Suffix(word, i)[j] = word[i + j]
  <2>1. \A j \in i + 1 .. n : word[j] \in Nat
    BY <1>2
  <2>2. /\ SubSeq(word, i + 1, n) \in Seq(Nat)
        /\ Len(SubSeq(word, i + 1, n)) = IF i + 1 <= n THEN n - (i + 1) + 1 ELSE 0
        /\ \A j \in 1 .. n - (i + 1) + 1 : SubSeq(word, i + 1, n)[j] = word[i + 1 + j - 1]
    BY <1>1, <2>1, SubSeqProperties DEF Words
  <2>3. Len(SubSeq(word, i + 1, n)) = n - i
    BY <2>2
  <2>4. \A j \in 1 .. n - i : SubSeq(word, i + 1, n)[j] = word[i + j]
    BY <2>2
  <2> QED
    BY <1>1, <2>2, <2>3, <2>4 DEF Suffix, Words
<1>4. Suffix(word, 0) = word
  <2>1. 0 \in 0 .. n /\ n - 0 = n /\ \A j \in 1 .. n : 0 + j = j
    OBVIOUS
  <2>2. Suffix(word, 0) \in Words /\ Len(Suffix(word, 0)) = n /\ \A j \in 1 .. n : Suffix(word, 0)[j] = word[j]
    BY <1>3, <2>1
  <2> QED
    BY <1>1, <2>2, SeqEqual DEF Words
<1>5. Suffix(word, n) = <<>>
  <2>1. n \in 0 .. n /\ n - n = 0
    OBVIOUS
  <2>2. Suffix(word, n) \in Words /\ Len(Suffix(word, n)) = 0
    BY <1>3, <2>1
  <2> QED
    BY <2>2, EmptySeq DEF Words
<1>6. ASSUME NEW i \in 1 .. n PROVE Suffix(word, i - 1) = <<word[i]>> \o Suffix(word, i)
  <2>1. i - 1 \in 0 .. n /\ i \in 0 .. n /\ n - i \in Nat /\ n - (i - 1) = (n - i) + 1
    OBVIOUS
  <2>2. PICK s : s = Suffix(word, i)
    OBVIOUS
  <2>3. PICK t : t = Suffix(word, i - 1)
    OBVIOUS
  <2>4. s \in Seq(Nat) /\ Len(s) = n - i /\ \A j \in 1 .. n - i : s[j] = word[i + j]
    BY <1>3, <2>1, <2>2 DEF Words
  <2>5. t \in Seq(Nat) /\ Len(t) = n - (i - 1) /\ \A j \in 1 .. n - (i - 1) : t[j] = word[(i - 1) + j]
    BY <1>3, <2>1, <2>3 DEF Words
  <2>6. PICK c \in Nat : c = word[i]
    BY <1>2
  <2>7. <<c>> \in Seq(Nat) /\ Len(<<c>>) = 1 /\ <<c>>[1] = c
    OBVIOUS
  <2>8. PICK r : r = <<c>> \o s
    OBVIOUS
  <2>9. r \in Seq(Nat) /\ Len(r) = 1 + (n - i)
        /\ \A j \in 1 .. 1 + (n - i) : r[j] = IF j <= 1 THEN <<c>>[j] ELSE s[j - 1]
    BY <2>4, <2>7, <2>8, ConcatProperties
  <2>10. ASSUME NEW j \in 1 .. 1 + (n - i) PROVE r[j] = t[j]
    <3>1. t[j] = word[(i - 1) + j]
      BY <2>5
    <3>2. CASE j = 1
      <4>1. r[j] = c /\ (i - 1) + j = i
        BY <2>7, <2>9, <3>2
      <4> QED
        BY <2>6, <3>1, <4>1
    <3>3. CASE j # 1
      <4>1. j - 1 \in 1 .. n - i /\ i + (j - 1) = (i - 1) + j /\ ~(j <= 1)
        BY <3>3
      <4>2. r[j] = s[j - 1]
        BY <2>9, <4>1
      <4>3. s[j - 1] = word[i + (j - 1)]
        BY <2>4, <4>1
      <4> QED
        BY <3>1, <4>1, <4>2, <4>3
    <3> QED
      BY <3>2, <3>3
  <2>11. r = t
    <3>1. Len(r) = Len(t)
      BY <2>1, <2>5, <2>9
    <3>2. \A j \in 1 .. Len(r) : r[j] = t[j]
      BY <2>9, <2>10
    <3> QED
      BY <2>5, <2>9, <3>1, <3>2, SeqEqual
  <2> QED
    BY <2>2, <2>3, <2>6, <2>8, <2>11
<1>7. \A i \in 0 .. n : Suffix(word, i) \in Words
  BY <1>3
<1> QED
  BY <1>1, <1>4, <1>5, <1>6, <1>7

\* A word that starts with a character is not empty, and has one rest.
LEMMA Leading ==
  ASSUME NEW c, NEW d, NEW v \in Words, NEW u \in Words, c \in Nat, d \in Nat
  PROVE  <<c>> \o v # <<>> /\ (<<c>> \o v = <<d>> \o u => c = d /\ v = u)
<1>1. /\ <<c>> \in Seq(Nat) /\ Len(<<c>>) = 1 /\ <<c>>[1] = c
      /\ <<d>> \in Seq(Nat) /\ Len(<<d>>) = 1 /\ <<d>>[1] = d
  OBVIOUS
<1>2. PICK m \in Nat : m = Len(v)
  BY DEF Words
<1>3. PICK n \in Nat : n = Len(u)
  BY DEF Words
<1>4. PICK r : r = <<c>> \o v
  OBVIOUS
<1>5. PICK s : s = <<d>> \o u
  OBVIOUS
<1>6. Len(r) = 1 + m /\ \A j \in 1 .. 1 + m : r[j] = IF j <= 1 THEN <<c>>[j] ELSE v[j - 1]
  BY <1>1, <1>2, <1>4, ConcatProperties DEF Words
<1>7. Len(s) = 1 + n /\ \A j \in 1 .. 1 + n : s[j] = IF j <= 1 THEN <<d>>[j] ELSE u[j - 1]
  BY <1>1, <1>3, <1>5, ConcatProperties DEF Words
<1>8. r # <<>>
  BY <1>6, <1>2
<1>9. ASSUME r = s PROVE c = d /\ v = u
  <2>1. m = n
    BY <1>6, <1>7, <1>9
  <2>2. c = d
    <3>1. 1 \in 1 .. 1 + m /\ 1 \in 1 .. 1 + n
      OBVIOUS
    <3>2. r[1] = <<c>>[1]
      BY <1>6, <3>1
    <3>3. s[1] = <<d>>[1]
      BY <1>7, <3>1
    <3> QED
      BY <1>1, <1>9, <3>2, <3>3
  <2>3. ASSUME NEW j \in 1 .. m PROVE v[j] = u[j]
    <3>1. j + 1 \in 1 .. 1 + m /\ ~(j + 1 <= 1) /\ (j + 1) - 1 = j
      OBVIOUS
    <3>2. r[j + 1] = v[j] /\ s[j + 1] = u[j]
      BY <1>6, <1>7, <2>1, <3>1
    <3> QED
      BY <1>9, <3>2
  <2> QED
    BY <1>2, <1>3, <2>1, <2>2, <2>3, SeqEqual DEF Words
<1> QED
  BY <1>4, <1>5, <1>8, <1>9

\* h and G are the edges and the final nodes g and F, and a path q that word leads
\* along.  What is new of the path starts at a node that nothing leads from.
Extends(g, F, q, word, h, G) ==
  /\ Graph(g) /\ Graph(h)
  /\ word \in Words
  /\ q \in [0 .. Len(word) -> Nat]
  /\ \A i, j \in 0 .. Len(word) : q[i] = q[j] => i = j
  /\ G = F \cup {q[Len(word)]}
  /\ DOMAIN h = DOMAIN g \cup {<<q[i - 1], word[i]>> : i \in 1 .. Len(word)}
  /\ \A e \in DOMAIN g : h[e] = g[e]
  /\ \A i \in 1 .. Len(word) : h[q[i - 1], word[i]] = q[i]
  /\ \A e \in DOMAIN g : \A i \in 0 .. Len(word) :
       g[e] = q[i] => i >= 1 /\ e = <<q[i - 1], word[i]>>
  /\ \A i \in 1 .. Len(word) :
       <<q[i - 1], word[i]>> \notin DOMAIN g => Labels(g, q[i]) = {} /\ q[i] \notin F

\* w is the rest of word past the node n.
OnPath(q, word, k, n, w) ==
  \E i \in 0 .. Len(word) : n = q[i] /\ w = Suffix(word, i) /\ Len(word) - i <= k

Extended(g, F, q, word, h, G) ==
  \A k \in Nat : \A n \in Nat : \A w :
    Accepts(h, G, k, n, w) <=> Accepts(g, F, k, n, w) \/ OnPath(q, word, k, n, w)

\* A path for one more word adds that word and the rests of it.
LEMMA Extending ==
  ASSUME NEW g, NEW F, NEW q, NEW word, NEW h, NEW G, Extends(g, F, q, word, h, G)
  PROVE  Extended(g, F, q, word, h, G)
<1>0. Graph(g) /\ Graph(h) /\ word \in Words
  BY DEF Extends
<1>1. PICK m \in Nat : m = Len(word)
  BY <1>0, LenProperties DEF Words
<1>2. /\ Graph(g) /\ Graph(h) /\ word \in Words
      /\ q \in [0 .. m -> Nat]
      /\ \A i, j \in 0 .. m : q[i] = q[j] => i = j
      /\ G = F \cup {q[m]}
      /\ \A e \in DOMAIN g : h[e] = g[e]
      /\ \A i \in 1 .. m : h[q[i - 1], word[i]] = q[i]
      /\ \A e \in DOMAIN g : \A i \in 0 .. m : g[e] = q[i] => i >= 1 /\ e = <<q[i - 1], word[i]>>
      /\ \A i \in 1 .. m : <<q[i - 1], word[i]>> \notin DOMAIN g => Labels(g, q[i]) = {} /\ q[i] \notin F
  BY <1>1 DEF Extends
<1>3. /\ \A e \in DOMAIN g : e \in DOMAIN h
      /\ \A i \in 1 .. m : <<q[i - 1], word[i]>> \in DOMAIN h
      /\ \A e \in DOMAIN h : e \in DOMAIN g \/ \E i \in 1 .. m : e = <<q[i - 1], word[i]>>
  BY <1>1 DEF Extends
<1>4. /\ Suffix(word, m) = <<>>
      /\ \A i \in 0 .. m : Suffix(word, i) \in Words
      /\ \A i \in 1 .. m : Suffix(word, i - 1) = <<word[i]>> \o Suffix(word, i)
  BY <1>1, <1>2, SuffixProperties
<1>5. \A k \in Nat : \A n, w : OnPath(q, word, k, n, w) <=>
        \E i \in 0 .. m : n = q[i] /\ w = Suffix(word, i) /\ m - i <= k
  BY <1>1 DEF OnPath
<1> DEFINE Same(k) == \A n \in Nat : \A w :
                        Accepts(h, G, k, n, w) <=> Accepts(g, F, k, n, w) \/ OnPath(q, word, k, n, w)
           S == {k \in Nat : Same(k)}
<1>6. ASSUME NEW k \in Nat, NEW n \in Nat, NEW w
      PROVE  w = <<>> /\ n \in G => (w = <<>> /\ n \in F) \/ OnPath(q, word, k, n, w)
  <2>1. CASE n \in F
    BY <2>1
  <2>2. CASE w = <<>> /\ n = q[m]
    <3>1. m \in 0 .. m /\ m - m <= k
      OBVIOUS
    <3> QED
      BY <1>4, <1>5, <2>2, <3>1
  <2> QED
    BY <1>2, <2>1, <2>2
<1>7. Same(0)
  <2> SUFFICES ASSUME NEW n \in Nat, NEW w
               PROVE  Accepts(h, G, 0, n, w) <=> Accepts(g, F, 0, n, w) \/ OnPath(q, word, 0, n, w)
    OBVIOUS
  <2>1. Accepts(h, G, 0, n, w) <=> w = <<>> /\ n \in G
    BY <1>0, AcceptsRule
  <2>2. Accepts(g, F, 0, n, w) <=> w = <<>> /\ n \in F
    BY <1>0, AcceptsRule
  <2>3. ASSUME OnPath(q, word, 0, n, w) PROVE w = <<>> /\ n \in G
    <3>1. PICK i \in 0 .. m : n = q[i] /\ w = Suffix(word, i) /\ m - i <= 0
      BY <1>5, <2>3
    <3>2. i = m
      BY <3>1
    <3> QED
      BY <1>2, <1>4, <3>1, <3>2
  <2>4. n \in F => n \in G
    BY <1>2
  <2> QED
    BY <1>6, <2>1, <2>2, <2>3, <2>4
<1>8. ASSUME NEW k \in Nat, Same(k), NEW n \in Nat, NEW w, Leaves(h, G, k, n, w)
      PROVE  Leaves(g, F, k, n, w) \/ OnPath(q, word, k + 1, n, w)
  <2>1. PICK c \in Labels(h, n), v \in Words : w = <<c>> \o v /\ Accepts(h, G, k, h[n, c], v)
    BY <1>8 DEF Leaves
  <2>2. <<n, c>> \in DOMAIN h /\ h[n, c] \in Nat
    BY <1>2, LabelsProperties
  <2>3. Accepts(g, F, k, h[n, c], v) \/ OnPath(q, word, k, h[n, c], v)
    BY <1>8, <2>1, <2>2
  <2>4. ASSUME NEW i \in 1 .. m, n = q[i - 1], c = word[i], v = Suffix(word, i), m - i <= k
        PROVE  OnPath(q, word, k + 1, n, w)
    <3>1. i - 1 \in 0 .. m /\ m - (i - 1) <= k + 1
      BY <2>4
    <3>2. w = Suffix(word, i - 1)
      BY <1>4, <2>1, <2>4
    <3> QED
      BY <1>5, <2>4, <3>1, <3>2
  <2>5. CASE <<n, c>> \in DOMAIN g
    <3>1. c \in Labels(g, n) /\ h[n, c] = g[n, c]
      BY <1>2, <2>5, LabelsProperties
    <3>2. CASE Accepts(g, F, k, h[n, c], v)
      BY <2>1, <3>1, <3>2 DEF Leaves
    <3>3. CASE OnPath(q, word, k, h[n, c], v)
      <4>1. PICK i \in 0 .. m : h[n, c] = q[i] /\ v = Suffix(word, i) /\ m - i <= k
        BY <1>5, <3>3
      <4>2. i >= 1 /\ <<n, c>> = <<q[i - 1], word[i]>>
        <5>1. g[<<n, c>>] = q[i]
          BY <3>1, <4>1
        <5> QED
          BY <1>2, <2>5, <5>1
      <4>3. i \in 1 .. m /\ n = q[i - 1] /\ c = word[i]
        BY <4>2
      <4> QED
        BY <2>4, <4>1, <4>3
    <3> QED
      BY <2>3, <3>2, <3>3
  <2>6. CASE <<n, c>> \notin DOMAIN g
    <3>1. PICK j \in 1 .. m : <<n, c>> = <<q[j - 1], word[j]>>
      BY <1>3, <2>2, <2>6
    <3>2. n = q[j - 1] /\ c = word[j] /\ h[n, c] = q[j]
      BY <1>2, <3>1
    <3>3. Labels(g, q[j]) = {} /\ q[j] \notin F
      BY <1>2, <2>6, <3>1
    <3>4. ~Accepts(g, F, k, h[n, c], v)
      <4>1. CASE k = 0
        BY <1>2, <2>2, <3>2, <3>3, <4>1, AcceptsRule
      <4>2. CASE k # 0
        <5>1. PICK l \in Nat : k = l + 1
          <6>1. k - 1 \in Nat /\ k = (k - 1) + 1
            BY <4>2
          <6> QED
            BY <6>1
        <5>2. ~Leaves(g, F, l, h[n, c], v)
          BY <3>2, <3>3 DEF Leaves
        <5>3. h[n, c] \notin F
          BY <3>2, <3>3
        <5> QED
          BY <1>2, <2>2, <5>1, <5>2, <5>3, AcceptsRule
      <4> QED
        BY <4>1, <4>2
    <3>5. PICK i \in 0 .. m : h[n, c] = q[i] /\ v = Suffix(word, i) /\ m - i <= k
      BY <1>5, <2>3, <3>4
    <3>6. i = j
      <4>0. j \in 0 .. m
        OBVIOUS
      <4>1. q[i] = q[j]
        BY <3>2, <3>5
      <4>2. \A a, b \in 0 .. m : q[a] = q[b] => a = b
        BY <1>2
      <4> QED
        BY <4>0, <4>1, <4>2
    <3> QED
      BY <2>4, <3>2, <3>5, <3>6
  <2> QED
    BY <2>5, <2>6
<1>9. ASSUME NEW k \in Nat, Same(k), NEW n \in Nat, NEW w, Leaves(g, F, k, n, w)
      PROVE  Leaves(h, G, k, n, w)
  <2>1. PICK c \in Labels(g, n), v \in Words : w = <<c>> \o v /\ Accepts(g, F, k, g[n, c], v)
    BY <1>9 DEF Leaves
  <2>2. <<n, c>> \in DOMAIN g /\ g[n, c] \in Nat
    BY <1>2, LabelsProperties
  <2>3. c \in Labels(h, n) /\ h[n, c] = g[n, c]
    BY <1>2, <1>3, <2>2, LabelsProperties
  <2>4. Accepts(h, G, k, h[n, c], v)
    BY <1>9, <2>1, <2>2, <2>3
  <2> QED
    BY <2>1, <2>3, <2>4 DEF Leaves
<1>10. ASSUME NEW k \in Nat, Same(k), NEW n \in Nat, NEW w, OnPath(q, word, k + 1, n, w)
       PROVE  (w = <<>> /\ n \in G) \/ Leaves(h, G, k, n, w)
  <2>1. PICK i \in 0 .. m : n = q[i] /\ w = Suffix(word, i) /\ m - i <= k + 1
    <3>1. k + 1 \in Nat
      OBVIOUS
    <3> QED
      BY <1>5, <1>10, <3>1
  <2>2. CASE i = m
    BY <1>2, <1>4, <2>1, <2>2
  <2>3. CASE i # m
    <3>1. PICK j \in 1 .. m : j = i + 1 /\ j - 1 = i /\ j \in 0 .. m /\ m - j <= k
      <4>1. i + 1 \in 1 .. m /\ (i + 1) - 1 = i /\ i + 1 \in 0 .. m /\ m - (i + 1) <= k
        BY <2>1, <2>3
      <4> QED
        BY <4>1
    <3>2. w = <<word[j]>> \o Suffix(word, j) /\ Suffix(word, j) \in Words
      BY <1>4, <2>1, <3>1
    <3>3. <<n, word[j]>> \in DOMAIN h /\ h[n, word[j]] = q[j] /\ q[j] \in Nat
      BY <1>2, <1>3, <2>1, <3>1
    <3>4. word[j] \in Labels(h, n)
      BY <1>2, <3>3, LabelsProperties
    <3>5. OnPath(q, word, k, q[j], Suffix(word, j))
      BY <1>5, <3>1
    <3>6. Accepts(h, G, k, h[n, word[j]], Suffix(word, j))
      BY <1>10, <3>3, <3>5
    <3> QED
      BY <3>2, <3>4, <3>6 DEF Leaves
  <2> QED
    BY <2>2, <2>3
<1>11. ASSUME NEW k \in Nat, Same(k) PROVE Same(k + 1)
  <2> SUFFICES ASSUME NEW n \in Nat, NEW w
               PROVE  Accepts(h, G, k + 1, n, w) <=> Accepts(g, F, k + 1, n, w) \/ OnPath(q, word, k + 1, n, w)
    OBVIOUS
  <2>1. Accepts(h, G, k + 1, n, w) <=> (w = <<>> /\ n \in G) \/ Leaves(h, G, k, n, w)
    BY <1>0, AcceptsRule
  <2>2. Accepts(g, F, k + 1, n, w) <=> (w = <<>> /\ n \in F) \/ Leaves(g, F, k, n, w)
    BY <1>0, AcceptsRule
  <2>3. Leaves(h, G, k, n, w) => Leaves(g, F, k, n, w) \/ OnPath(q, word, k + 1, n, w)
    BY <1>8, <1>11
  <2>4. Leaves(g, F, k, n, w) => Leaves(h, G, k, n, w)
    BY <1>9, <1>11
  <2>5. OnPath(q, word, k + 1, n, w) => (w = <<>> /\ n \in G) \/ Leaves(h, G, k, n, w)
    BY <1>10, <1>11
  <2>6. w = <<>> /\ n \in G => (w = <<>> /\ n \in F) \/ OnPath(q, word, k + 1, n, w)
    BY <1>6
  <2>7. n \in F => n \in G
    BY <1>2
  <2> QED
    BY <2>1, <2>2, <2>3, <2>4, <2>5, <2>6, <2>7
<1>12. Nat \subseteq S
  <2> HIDE DEF Same
  <2>1. 0 \in S /\ \A k \in Nat : k \in S => k + 1 \in S
    BY <1>7, <1>11
  <2> HIDE DEF S
  <2> QED
    BY <2>1, Induction
<1> QED
  BY <1>12 DEF Extended

-----------------------------------------------------------------------------
(* The builder                                                             *)

\* q is the path of word.  Up to its node len it is as long as the builder left it,
\* and there is one way to each of its nodes.
Path(g, q, word, len) ==
  /\ Graph(g)
  /\ word \in Seq(Nat \ Digit)
  /\ q \in [0 .. Len(word) -> Nat] /\ q[0] = Root
  /\ \A i, j \in 0 .. Len(word) : q[i] = q[j] => i = j
  /\ len \in 0 .. Len(word)
  /\ \A i \in 1 .. len : <<q[i - 1], word[i]>> \in DOMAIN g /\ g[q[i - 1], word[i]] = q[i]
  /\ \A e \in DOMAIN g : \A i \in 0 .. len :
       g[e] = q[i] => i >= 1 /\ e = <<q[i - 1], word[i]>>

\* No node has an id from next on, and each of the path has one that leaves room for
\* those before it.
Bounded(g, F, q, word, next) ==
  /\ next \in Nat
  /\ \A i \in 0 .. Len(word) : q[i] < next /\ Root + i <= q[i]
  /\ \A e \in DOMAIN g : e[1] < next /\ g[e] < next
  /\ \A n \in F : n \in Nat /\ n < next

\* Every registered node is registered as what it still is, and off the path.
Registered(g, F, reg, q, len, next) ==
  /\ reg \in [DOMAIN reg -> Nat]
  /\ \A k \in DOMAIN reg : /\ reg[k] \in Nat /\ reg[k] < next
                           /\ \A i \in 0 .. len : reg[k] # q[i]
                           /\ Spell(g, F, reg[k]) = k

Known(reg, n) == \E k \in DOMAIN reg : n = reg[k]

\* All that a registered node leads to is registered, and so is all that a node of the
\* path leads to, but the next one of the path.
Closed(g, reg, q, word, len) ==
  \A e \in DOMAIN g :
    (\E i \in 0 .. len : e[1] = q[i]) \/ Known(reg, e[1]) =>
      Known(reg, g[e]) \/ \E i \in 1 .. len : e = <<q[i - 1], word[i]>>

\* Some word leads from the node to a final one.
Ends(g, F, n) == \E k \in Nat : \E w : Accepts(g, F, k, n, w)

AllEnd(g, F, reg, q, word) ==
  /\ \A k \in DOMAIN reg : Ends(g, F, reg[k])
  /\ \A i \in 1 .. Len(word) : Ends(g, F, q[i])

Builder(g, F, reg, q, word, len, next) ==
  /\ Path(g, q, word, len)
  /\ Bounded(g, F, q, word, next)
  /\ Registered(g, F, reg, q, len, next)
  /\ Closed(g, reg, q, word, len)
  /\ AllEnd(g, F, reg, q, word)

\* What tells the languages apart tells whether a node has a word.
LEMMA EndsKept ==
  ASSUME NEW g, NEW F, NEW h, NEW G, SameLanguages(g, F, h, G), NEW n \in Nat, Ends(g, F, n)
  PROVE  Ends(h, G, n)
BY DEF SameLanguages, Ends

\* m is what a node of the path was minimized to.
Checked(g, F, reg, q, word, len, next, m) ==
  /\ Builder(m.edges, F, m.register, q, word, len, next)
  /\ DOMAIN m.edges = DOMAIN g
  /\ SameLanguages(g, F, m.edges, F)

Unchecked(q, word, i) == [parent |-> q[i - 1], char |-> word[i], child |-> q[i]]

\* The deepest node of the path can go: another has its key, and the one edge that
\* leads to it takes that one, or it is the first of its key.
LEMMA Checking ==
  ASSUME NEW g, NEW reg, NEW q, NEW word, NEW len, NEW next,
         Builder(g, final, reg, q, word, len, next), len # 0
  PROVE  Checked(g, final, reg, q, word, len - 1, next,
                 TokenSet!CheckNode([edges |-> g, register |-> reg], Unchecked(q, word, len)))
<1> DEFINE u == Unchecked(q, word, len)
           e == <<q[len - 1], word[len]>>
           key == Spell(g, final, q[len])
           m == TokenSet!CheckNode([edges |-> g, register |-> reg], u)
<1>0. Path(g, q, word, len) /\ Bounded(g, final, q, word, next) /\ Registered(g, final, reg, q, len, next)
  BY DEF Builder
<1>1. Graph(g)
  BY <1>0 DEF Path
<1>2. PICK n \in Nat : n = Len(word)
  BY <1>0, LenProperties DEF Path
<1>3. /\ word \in Seq(Nat \ Digit)
      /\ q \in [0 .. n -> Nat] /\ q[0] = Root
      /\ \A i, j \in 0 .. n : q[i] = q[j] => i = j
      /\ len \in 0 .. n
      /\ \A i \in 1 .. len : <<q[i - 1], word[i]>> \in DOMAIN g /\ g[q[i - 1], word[i]] = q[i]
      /\ \A d \in DOMAIN g : \A i \in 0 .. len : g[d] = q[i] => i >= 1 /\ d = <<q[i - 1], word[i]>>
  BY <1>0, <1>2 DEF Path
<1>4. len \in 1 .. n /\ len - 1 \in 0 .. n
  <2>1. len \in 0 .. n
    BY <1>3
  <2> QED
    BY <2>1
<1>5. e \in DOMAIN g /\ g[e] = q[len] /\ e[1] = q[len - 1]
  <2>1. len \in 1 .. len
    BY <1>4
  <2> QED
    BY <1>3, <2>1
<1>6. u.parent = q[len - 1] /\ u.char = word[len] /\ u.child = q[len]
  BY DEF Unchecked
<1>7. TokenSet!Key(g, u.child) = key
  BY <1>6, KeySpells
<1>8. ASSUME NEW i \in 0 .. len - 1 PROVE i \in 0 .. len /\ i \in 0 .. n /\ i # len
  BY <1>4
<1>9. ASSUME NEW h, Graph(h), DOMAIN h = DOMAIN g,
             \A d \in DOMAIN g : d # e => h[d] = g[d],
             h[e] = g[e] \/ \A i \in 0 .. len : h[e] # q[i], h[e] < next
      PROVE  Path(h, q, word, len - 1) /\ Bounded(h, final, q, word, next)
  <2>1. ASSUME NEW i \in 1 .. len - 1
        PROVE  <<q[i - 1], word[i]>> \in DOMAIN h /\ h[q[i - 1], word[i]] = q[i]
    <3>1. i \in 1 .. len /\ i - 1 \in 0 .. n /\ len - 1 \in 0 .. n /\ i - 1 # len - 1
      BY <1>4
    <3>2. <<q[i - 1], word[i]>> \in DOMAIN g /\ g[q[i - 1], word[i]] = q[i]
      BY <1>3, <3>1
    <3>3. q[i - 1] # q[len - 1]
      <4>1. \A a, b \in 0 .. n : q[a] = q[b] => a = b
        BY <1>3
      <4> QED
        BY <3>1, <4>1
    <3>4. <<q[i - 1], word[i]>> # e
      BY <3>3
    <3> QED
      BY <1>9, <3>2, <3>4
  <2>2. ASSUME NEW d \in DOMAIN h, NEW i \in 0 .. len - 1, h[d] = q[i]
        PROVE  i >= 1 /\ d = <<q[i - 1], word[i]>>
    <3>1. h[d] = g[d]
      BY <1>8, <1>9, <2>2
    <3>2. d \in DOMAIN g /\ g[d] = q[i] /\ i \in 0 .. len
      BY <1>8, <1>9, <2>2, <3>1
    <3> QED
      BY <1>3, <3>2
  <2>3. Path(h, q, word, len - 1)
    BY <1>2, <1>3, <1>4, <1>9, <2>1, <2>2 DEF Path
  <2>4. ASSUME NEW d \in DOMAIN h PROVE d[1] < next /\ h[d] < next
    <3>1. d[1] < next /\ g[d] < next
      BY <1>0, <1>9 DEF Bounded
    <3>2. CASE d = e
      BY <1>9, <3>1, <3>2
    <3>3. CASE d # e
      <4>1. h[d] = g[d]
        BY <1>9, <3>3
      <4> QED
        BY <3>1, <4>1
    <3> QED
      BY <3>2, <3>3
  <2>5. Bounded(h, final, q, word, next)
    BY <1>0, <2>4 DEF Bounded
  <2> QED
    BY <2>3, <2>5
<1>12. ASSUME NEW h, NEW rg, DOMAIN h = DOMAIN g,
              \A d \in DOMAIN g : d # e => h[d] = g[d],
              \A x : Known(reg, x) => Known(rg, x),
              \A x : Known(rg, x) => Known(reg, x) \/ x = q[len],
              Known(rg, h[e])
       PROVE  Closed(h, rg, q, word, len - 1)
  <2> SUFFICES ASSUME NEW d \in DOMAIN g, d # e,
                      (\E i \in 0 .. len - 1 : d[1] = q[i]) \/ Known(rg, d[1])
               PROVE  Known(rg, h[d]) \/ \E i \in 1 .. len - 1 : d = <<q[i - 1], word[i]>>
    <3> HIDE DEF e
    <3> QED
      BY <1>12 DEF Closed
  <2>1. h[d] = g[d]
    BY <1>12
  <2>2. (\E i \in 0 .. len : d[1] = q[i]) \/ Known(reg, d[1])
    <3>1. len \in 0 .. len
      BY <1>4
    <3>2. CASE \E i \in 0 .. len - 1 : d[1] = q[i]
      BY <1>8, <3>2
    <3>3. CASE Known(rg, d[1])
      BY <1>12, <3>1, <3>3
    <3> QED
      BY <3>2, <3>3
  <2>3. Known(reg, g[d]) \/ \E i \in 1 .. len : d = <<q[i - 1], word[i]>>
    BY <2>2 DEF Builder, Closed
  <2>4. CASE Known(reg, g[d])
    BY <1>12, <2>1, <2>4
  <2>5. ASSUME NEW i \in 1 .. len, d = <<q[i - 1], word[i]>>
        PROVE  \E j \in 1 .. len - 1 : d = <<q[j - 1], word[j]>>
    <3>1. i # len
      BY <2>5
    <3>2. i \in 1 .. len - 1
      BY <1>4, <3>1
    <3> QED
      BY <2>5, <3>2
  <2> QED
    BY <2>3, <2>4, <2>5
<1>10. CASE key \in DOMAIN reg
  <2> DEFINE r == reg[key]
             h == [g EXCEPT ![e] = r]
  <2>1. /\ r \in Nat /\ r < next /\ \A i \in 0 .. len : r # q[i]
        /\ Spell(g, final, r) = key
    BY <1>0, <1>10 DEF Registered
  <2>2. Alike(g, final, g[e], r)
    BY <1>1, <1>5, <2>1, SpellInjective
  <2>3. m.edges = h /\ m.register = reg
    BY <1>6, <1>7, <1>10 DEF TokenSet!CheckNode
  <2>4. h[e] = r /\ \A d \in DOMAIN g : d # e => h[d] = g[d]
    BY <1>5
  <2>5. /\ Graph(h) /\ DOMAIN h = DOMAIN g
        /\ \A l : Labels(h, l) = Labels(g, l)
        /\ SameLanguages(g, final, h, final)
    <3> HIDE DEF r, e
    <3> QED
      BY <1>1, <1>5, <2>1, <2>2, Redirecting
  <2> HIDE DEF h
  <2>6. Path(h, q, word, len - 1) /\ Bounded(h, final, q, word, next)
    <3> HIDE DEF r, e
    <3> QED
      BY <1>9, <2>1, <2>4, <2>5
  <2>7. Registered(h, final, reg, q, len - 1, next)
    <3> SUFFICES ASSUME NEW k \in DOMAIN reg
                 PROVE  /\ reg[k] \in Nat /\ reg[k] < next
                        /\ \A i \in 0 .. len - 1 : reg[k] # q[i]
                        /\ Spell(h, final, reg[k]) = k
      BY <1>0 DEF Registered
    <3>1. /\ reg[k] \in Nat /\ reg[k] < next /\ \A i \in 0 .. len : reg[k] # q[i]
          /\ Spell(g, final, reg[k]) = k
      BY <1>0 DEF Registered
    <3>2. \A i \in 0 .. len - 1 : reg[k] # q[i]
      BY <1>8, <3>1
    <3>3. ASSUME NEW c \in Labels(g, reg[k]) PROVE h[reg[k], c] = g[reg[k], c]
      <4>1. <<reg[k], c>> \in DOMAIN g
        BY <1>1, LabelsProperties
      <4>2. <<reg[k], c>> # e
        <5>1. len - 1 \in 0 .. len
          BY <1>4
        <5>2. reg[k] # q[len - 1]
          BY <3>1, <5>1
        <5> QED
          BY <5>2
      <4> QED
        BY <2>4, <4>1, <4>2
    <3>4. Spell(h, final, reg[k]) = Spell(g, final, reg[k])
      <4>1. Labels(h, reg[k]) = Labels(g, reg[k])
        BY <2>5
      <4>2. Kept(g, final, h, final, reg[k])
        BY <3>3, <4>1 DEF Kept
      <4> QED
        BY <1>1, <4>2, SpellKept
    <3> QED
      BY <3>1, <3>2, <3>4
  <2>8. Closed(h, reg, q, word, len - 1)
    <3>1. Known(reg, h[e])
      BY <1>10, <2>4 DEF Known
    <3> HIDE DEF e, r
    <3> QED
      BY <1>12, <2>4, <2>5, <3>1
  <2>9. AllEnd(h, final, reg, q, word)
    <3>1. \A k \in DOMAIN reg : reg[k] \in Nat /\ Ends(g, final, reg[k])
      BY <1>0 DEF Registered, Builder, AllEnd
    <3>2. \A i \in 1 .. Len(word) : q[i] \in Nat /\ Ends(g, final, q[i])
      <4>1. \A i \in 1 .. Len(word) : i \in 0 .. n
        BY <1>2
      <4>2. q \in [0 .. n -> Nat]
        BY <1>3
      <4> QED
        BY <4>1, <4>2 DEF Builder, AllEnd
    <3> HIDE DEF e, r
    <3> QED
      BY <2>5, <3>1, <3>2, EndsKept DEF AllEnd
  <2> HIDE DEF m
  <2> QED
    BY <2>3, <2>5, <2>6, <2>7, <2>8, <2>9 DEF Checked, Builder, m
<1>11. CASE key \notin DOMAIN reg
  <2> DEFINE more == [k \in DOMAIN reg \cup {key} |-> IF k = key THEN q[len] ELSE reg[k]]
  <2>1. m.edges = g /\ m.register = more
    BY <1>6, <1>7, <1>11 DEF TokenSet!CheckNode
  <2>2. Path(g, q, word, len - 1) /\ Bounded(g, final, q, word, next)
    <3>1. g[e] < next
      BY <1>0, <1>5 DEF Bounded
    <3> HIDE DEF e
    <3> QED
      BY <1>1, <1>9, <3>1
  <2>3. SameLanguages(g, final, g, final)
    BY DEF SameLanguages
  <2>4. Registered(g, final, more, q, len - 1, next)
    <3> SUFFICES ASSUME NEW k \in DOMAIN more
                 PROVE  /\ more[k] \in Nat /\ more[k] < next
                        /\ \A i \in 0 .. len - 1 : more[k] # q[i]
                        /\ Spell(g, final, more[k]) = k
      <4>1. \A x \in DOMAIN reg : reg[x] \in Nat
        BY <1>0 DEF Registered
      <4>2. q[len] \in Nat
        BY <1>3, <1>4
      <4>3. more \in [DOMAIN more -> Nat]
        BY <4>1, <4>2
      <4> HIDE DEF more
      <4> QED
        BY <4>3 DEF Registered
    <3>1. CASE k = key
      <4>1. more[k] = q[len]
        BY <3>1
      <4>2. q[len] \in Nat /\ q[len] < next
        BY <1>0, <1>2, <1>3, <1>4 DEF Bounded
      <4>3. ASSUME NEW i \in 0 .. len - 1 PROVE q[len] # q[i]
        <5>1. \A a, b \in 0 .. n : q[a] = q[b] => a = b
          BY <1>3
        <5>2. i \in 0 .. n /\ i # len /\ len \in 0 .. n
          BY <1>4, <1>8
        <5> QED
          BY <5>1, <5>2
      <4> HIDE DEF more
      <4> QED
        BY <3>1, <4>1, <4>2, <4>3
    <3>2. CASE k # key
      <4>1. k \in DOMAIN reg /\ more[k] = reg[k]
        BY <3>2
      <4>2. /\ reg[k] \in Nat /\ reg[k] < next /\ \A i \in 0 .. len : reg[k] # q[i]
            /\ Spell(g, final, reg[k]) = k
        BY <1>0, <4>1 DEF Registered
      <4> HIDE DEF more
      <4> QED
        BY <1>8, <4>1, <4>2
    <3> QED
      BY <3>1, <3>2
  <2>5. more[key] = q[len] /\ \A k \in DOMAIN reg : more[k] = reg[k]
    BY <1>11
  <2>6. \A k : k \in DOMAIN more <=> k = key \/ k \in DOMAIN reg
    OBVIOUS
  <2>7. \A x : Known(more, x) <=> Known(reg, x) \/ x = q[len]
    <3> HIDE DEF more, key
    <3> QED
      BY <2>5, <2>6 DEF Known
  <2>8. Closed(g, more, q, word, len - 1)
    <3> HIDE DEF more, e, key
    <3> QED
      BY <1>5, <1>12, <2>7
  <2>9. AllEnd(g, final, more, q, word)
    <3>1. len \in 1 .. Len(word)
      BY <1>2, <1>4
    <3> HIDE DEF more, key
    <3> QED
      BY <2>5, <2>6, <3>1 DEF Builder, AllEnd
  <2> HIDE DEF m, more
  <2> QED
    BY <2>1, <2>2, <2>3, <2>4, <2>8, <2>9 DEF Checked, Builder, m
<1> QED
  BY <1>10, <1>11

-----------------------------------------------------------------------------
(* minimize                                                                *)

\* The state of the builder: its path is all of the last word's, and no node of it
\* is minimized.
Building(q) ==
  /\ Builder(edges, final, minimizedNodes, q, previousWord, Len(previousWord), nextId)
  /\ uncheckedNodes = [i \in 1 .. Len(previousWord) |-> Unchecked(q, previousWord, i)]

CheckedTo(q, downTo, m) ==
  Checked(edges, final, minimizedNodes, q, previousWord, downTo, nextId, m)

\* One turn of the loop of minimize.
LEMMA CheckingOn ==
  ASSUME NEW q, Building(q), NEW len \in 1 .. Len(previousWord), NEW m, CheckedTo(q, len, m),
         m = [edges |-> m.edges, register |-> m.register]
  PROVE  CheckedTo(q, len - 1, TokenSet!CheckNode(m, uncheckedNodes[len]))
<1>1. Builder(m.edges, final, m.register, q, previousWord, len, nextId)
  BY DEF CheckedTo, Checked
<1>2. uncheckedNodes[len] = Unchecked(q, previousWord, len)
  BY DEF Building
<1>3. PICK l : l = TokenSet!CheckNode(m, uncheckedNodes[len])
  OBVIOUS
<1>4. len # 0
  OBVIOUS
<1>5. Checked(m.edges, final, m.register, q, previousWord, len - 1, nextId, l)
  BY <1>1, <1>2, <1>3, <1>4, Checking
<1>6. DOMAIN l.edges = DOMAIN edges
  BY <1>5 DEF CheckedTo, Checked
<1>7. SameLanguages(edges, final, l.edges, final)
  <2>1. SameLanguages(edges, final, m.edges, final) /\ SameLanguages(m.edges, final, l.edges, final)
    BY <1>5 DEF CheckedTo, Checked
  <2> QED
    BY <2>1 DEF SameLanguages
<1>8. Builder(l.edges, final, l.register, q, previousWord, len - 1, nextId)
  BY <1>5 DEF Checked
<1> QED
  BY <1>3, <1>6, <1>7, <1>8 DEF CheckedTo, Checked

\* The loop of minimize: the path is minimized from its end, as far as asked.
LEMMA Minimizing ==
  ASSUME NEW q, Building(q), NEW downTo \in 0 .. Len(previousWord)
  PROVE  CheckedTo(q, downTo, TokenSet!Minimized(downTo))
<1>0. /\ Builder(edges, final, minimizedNodes, q, previousWord, Len(previousWord), nextId)
      /\ Path(edges, q, previousWord, Len(previousWord))
      /\ Graph(edges) /\ previousWord \in Seq(Nat \ Digit)
      /\ q \in [0 .. Len(previousWord) -> Nat]
      /\ minimizedNodes \in [DOMAIN minimizedNodes -> Nat]
  <2>1. Builder(edges, final, minimizedNodes, q, previousWord, Len(previousWord), nextId)
    BY DEF Building
  <2>2. /\ Path(edges, q, previousWord, Len(previousWord))
        /\ Registered(edges, final, minimizedNodes, q, Len(previousWord), nextId)
    BY <2>1 DEF Builder
  <2> QED
    BY <2>1, <2>2 DEF Path, Registered
<1>1. PICK n \in Nat : n = Len(previousWord)
  BY <1>0, LenProperties
<1>2. Len(uncheckedNodes) = n
  <2>1. DOMAIN uncheckedNodes = 1 .. n
    BY <1>1 DEF Building
  <2> QED
    BY <2>1
<1>3. PICK d \in Nat : d = n - downTo
  <2>1. downTo \in 0 .. n
    BY <1>1
  <2>2. n - downTo \in Nat
    BY <2>1
  <2> QED
    BY <2>2
<1> DEFINE E == DOMAIN edges
           K == DOMAIN minimizedNodes \cup {Spell(g, final, x) : g \in [E -> Nat], x \in Nat}
           R == UNION {[D -> Nat] : D \in SUBSET K}
           M0 == {m \in [edges : [E -> Nat], register : R] : TRUE}
           base == [edges |-> edges, register |-> minimizedNodes]
           U(k) == uncheckedNodes[n - k + 1]
           step == [k \in 1 .. d |-> [m \in M0 |-> TokenSet!CheckNode(m, U(k))]]
           I == [k \in 0 .. d |-> {m \in M0 : CheckedTo(q, n - k, m)}]
           Eq(f) == f = [i \in 0 .. n - downTo |->
                          IF i = 0 THEN [edges |-> edges, register |-> minimizedNodes]
                            ELSE TokenSet!CheckNode(f[i - 1], uncheckedNodes[n - i + 1])]
           minimize == CHOOSE f : Eq(f)
<1>4. edges \in [E -> Nat] /\ minimizedNodes \in R
  <2>1. edges \in [E -> Nat]
    BY <1>0 DEF Graph
  <2>2. minimizedNodes \in [DOMAIN minimizedNodes -> Nat]
    BY <1>0
  <2> QED
    BY <2>1, <2>2
<1>5. base \in I[0]
  <2>1. base \in M0
    BY <1>4
  <2>2. SameLanguages(edges, final, edges, final)
    BY DEF SameLanguages
  <2>3. CheckedTo(q, n - 0, base)
    <3>1. n - 0 = Len(previousWord)
      BY <1>1
    <3> QED
      BY <1>0, <2>2, <3>1 DEF CheckedTo, Checked
  <2>4. 0 \in 0 .. d
    OBVIOUS
  <2> HIDE DEF base, M0
  <2> QED
    BY <2>1, <2>3, <2>4
<1>6. ASSUME NEW m \in M0 PROVE /\ m = [edges |-> m.edges, register |-> m.register]
                                /\ m.edges \in [E -> Nat] /\ m.register \in R
  <2> HIDE DEF R, E
  <2> QED
    OBVIOUS
<1>7. ASSUME NEW k \in 1 .. d, NEW m \in I[k - 1] PROVE TokenSet!CheckNode(m, U(k)) \in I[k]
  <2>1. k - 1 \in 0 .. d /\ k \in 0 .. d
    OBVIOUS
  <2>2. m \in M0 /\ CheckedTo(q, n - (k - 1), m)
    <3> HIDE DEF M0
    <3> QED
      BY <2>1
  <2>3. PICK len \in 1 .. n : len = n - (k - 1) /\ len = n - k + 1 /\ len - 1 = n - k
    <3>1. downTo \in 0 .. n
      BY <1>1
    <3>2. n - (k - 1) \in 1 .. n /\ n - (k - 1) = n - k + 1 /\ (n - (k - 1)) - 1 = n - k
      BY <1>3, <3>1
    <3> QED
      BY <3>2
  <2>4. PICK l : l = TokenSet!CheckNode(m, uncheckedNodes[len])
    OBVIOUS
  <2>5. CheckedTo(q, len - 1, l)
    <3>1. len \in 1 .. Len(previousWord)
      BY <1>1
    <3>2. CheckedTo(q, len, m)
      BY <2>2, <2>3
    <3>3. m = [edges |-> m.edges, register |-> m.register]
      BY <1>6, <2>2
    <3> QED
      BY <2>4, <3>1, <3>2, <3>3, CheckingOn
  <2>6. l \in M0
    <3> HIDE DEF I, step, base, Eq, K, R, M0
    <3>1. Graph(l.edges) /\ DOMAIN l.edges = E
      <4>1. /\ Builder(l.edges, final, l.register, q, previousWord, len - 1, nextId)
            /\ DOMAIN l.edges = DOMAIN edges
        BY <2>5 DEF CheckedTo, Checked
      <4>2. Path(l.edges, q, previousWord, len - 1)
        BY <4>1 DEF Builder
      <4> QED
        BY <4>1, <4>2 DEF Path
    <3>2. l.edges \in [E -> Nat]
      BY <3>1 DEF Graph
    <3>3. uncheckedNodes[len].child \in Nat
      <4>1. len \in 1 .. n /\ len \in 0 .. n
        OBVIOUS
      <4>2. uncheckedNodes[len] = Unchecked(q, previousWord, len)
        BY <1>1, <4>1 DEF Building
      <4>3. q \in [0 .. n -> Nat]
        BY <1>0, <1>1
      <4> QED
        BY <4>1, <4>2, <4>3 DEF Unchecked
    <3>4. PICK key : key = TokenSet!Key(m.edges, uncheckedNodes[len].child)
      OBVIOUS
    <3>5. key \in K
      <4>1. key = Spell(m.edges, final, uncheckedNodes[len].child)
        BY <3>4, KeySpells
      <4>2. m.edges \in [E -> Nat]
        BY <1>6, <2>2
      <4> QED
        BY <3>3, <4>1, <4>2 DEF K
    <3>6. m.register \in R
      BY <1>6, <2>2
    <3>7. PICK D \in SUBSET K : m.register \in [D -> Nat]
      BY <3>6 DEF R
    <3>8. l.register \in R /\ l = [edges |-> l.edges, register |-> l.register]
      <4>1. CASE key \in DOMAIN m.register
        <5>1. l = [edges |-> [m.edges EXCEPT ![<<uncheckedNodes[len].parent, uncheckedNodes[len].char>>] = m.register[key]],
                   register |-> m.register]
          BY <2>4, <3>4, <4>1 DEF TokenSet!CheckNode
        <5> QED
          BY <3>6, <5>1
      <4>2. CASE key \notin DOMAIN m.register
        <5> DEFINE reg == [k2 \in DOMAIN m.register \cup {key} |->
                              IF k2 = key THEN uncheckedNodes[len].child ELSE m.register[k2]]
        <5>1. l = [edges |-> m.edges, register |-> reg]
          BY <2>4, <3>4, <4>2 DEF TokenSet!CheckNode
        <5>2. reg \in [D \cup {key} -> Nat]
          <6>1. DOMAIN m.register = D /\ \A x \in D : m.register[x] \in Nat
            BY <3>7
          <6> QED
            BY <3>3, <6>1
        <5>3. D \cup {key} \in SUBSET K
          BY <3>5
        <5>4. reg \in R
          <6> HIDE DEF reg
          <6> QED
            BY <5>2, <5>3 DEF R
        <5> HIDE DEF reg
        <5> QED
          BY <5>1, <5>4
      <4> QED
        BY <4>1, <4>2
    <3> HIDE DEF E
    <3> QED
      BY <3>2, <3>8 DEF M0
  <2> HIDE DEF M0
  <2> QED
    BY <2>1, <2>3, <2>4, <2>5, <2>6
<1>8. PICK f : Declares(f, d, base, step) /\ \A k \in 0 .. d : f[k] \in I[k]
  <2>1. \A k \in 1 .. d : \A s \in I[k - 1] : step[k][s] \in I[k]
    <3>1. ASSUME NEW k \in 1 .. d, NEW s \in I[k - 1] PROVE s \in M0
      <4>1. k - 1 \in 0 .. d
        OBVIOUS
      <4> HIDE DEF M0
      <4> QED
        BY <3>1, <4>1
    <3>2. ASSUME NEW k \in 1 .. d, NEW s \in M0 PROVE step[k][s] = TokenSet!CheckNode(s, U(k))
      <4> HIDE DEF M0
      <4> QED
        BY <3>1
    <3> HIDE DEF step, I, M0, U
    <3> QED
      BY <1>7, <3>1, <3>2
  <2> HIDE DEF step, I, base
  <2> QED
    BY <1>5, <2>1, Recursion
<1>9. Eq(f)
  <2>1. f = [k \in 0 .. d |-> IF k = 0 THEN base ELSE step[k][f[k - 1]]]
    <3> HIDE DEF base, step
    <3> QED
      BY <1>8 DEF Declares
  <2>2. ASSUME NEW k \in 0 .. d PROVE f[k] = IF k = 0 THEN base ELSE TokenSet!CheckNode(f[k - 1], U(k))
    <3>1. CASE k = 0
      <4> HIDE DEF step, base
      <4> QED
        BY <2>1, <3>1
    <3>2. CASE k # 0
      <4>1. k \in 1 .. d /\ k - 1 \in 0 .. d
        BY <3>2
      <4>2. f[k] = step[k][f[k - 1]]
        <5> HIDE DEF step, base
        <5> QED
          BY <2>1, <3>2
      <4>3. f[k - 1] \in M0
        <5>1. f[k - 1] \in I[k - 1]
          <6> HIDE DEF I
          <6> QED
            BY <1>8, <4>1
        <5> HIDE DEF M0
        <5> QED
          BY <4>1, <5>1
      <4>4. step[k][f[k - 1]] = TokenSet!CheckNode(f[k - 1], U(k))
        <5> HIDE DEF M0
        <5> QED
          BY <4>1, <4>3
      <4> HIDE DEF step, base
      <4> QED
        BY <3>2, <4>2, <4>4
    <3> QED
      BY <3>1, <3>2
  <2>3. f = [k \in 0 .. d |-> IF k = 0 THEN base ELSE TokenSet!CheckNode(f[k - 1], U(k))]
    <3> HIDE DEF step, base
    <3> QED
      BY <2>1, <2>2
  <2> QED
    BY <1>3, <2>3
<1>10. Eq(minimize)
  <2> HIDE DEF Eq
  <2> QED
    BY <1>9
<1>11. TokenSet!Minimized(downTo) = minimize[d]
  BY <1>2, <1>3 DEF TokenSet!Minimized
<1> HIDE DEF minimize
<1>12. /\ minimize[0] = base
       /\ \A k \in 1 .. d : minimize[k] = TokenSet!CheckNode(minimize[k - 1], U(k))
  <2>1. minimize = [k \in 0 .. d |-> IF k = 0 THEN base ELSE TokenSet!CheckNode(minimize[k - 1], U(k))]
    BY <1>3, <1>10
  <2>2. 0 \in 0 .. d /\ \A k \in 1 .. d : k \in 0 .. d /\ k # 0
    OBVIOUS
  <2> HIDE DEF base, Eq
  <2> QED
    BY <2>1, <2>2
<1>13. minimize[d] \in I[d]
  <2>1. minimize[0] \in I[0]
    <3> HIDE DEF I, base
    <3> QED
      BY <1>5, <1>12
  <2>2. \A k \in 1 .. d : minimize[k - 1] \in I[k - 1] => minimize[k] \in I[k]
    <3> HIDE DEF I, Eq
    <3> QED
      BY <1>7, <1>12
  <2>3. d \in 0 .. d
    OBVIOUS
  <2> HIDE DEF I, Eq
  <2> QED
    BY <2>1, <2>2, <2>3, Stays
<1>14. CheckedTo(q, n - d, minimize[d])
  <2>1. d \in 0 .. d
    OBVIOUS
  <2> HIDE DEF M0, Eq
  <2> QED
    BY <1>13, <2>1
<1>15. n - d = downTo
  <2>1. downTo \in 0 .. n
    BY <1>1
  <2> QED
    BY <1>3, <2>1
<1> QED
  BY <1>11, <1>14, <1>15

-----------------------------------------------------------------------------
(* insert                                                                  *)

\* u and v share their first p characters, and no more.
Share(p, u, v) ==
  /\ p \in 0 .. Len(u) /\ p \in 0 .. Len(v)
  /\ \A i \in 1 .. p : u[i] = v[i]
  /\ p = Len(u) \/ p = Len(v) \/ u[p + 1] # v[p + 1]

\* The loop of insert stops at the first character that differs.
LEMMA CommonPrefixProperties ==
  ASSUME NEW word \in Words, previousWord \in Words
  PROVE  Share(TokenSet!CommonPrefix(word), word, previousWord)
<1>1. PICK m \in Nat : m = Len(word)
  BY LenProperties DEF Words
<1>2. PICK n \in Nat : n = Len(previousWord) /\ DOMAIN previousWord = 1 .. n
  BY LenProperties DEF Words
<1> DEFINE S == {k \in 0 .. m : \A i \in 1 .. k : i \in DOMAIN previousWord /\ word[i] = previousWord[i]}
           T == {m - k : k \in S}
<1>3. S \in SUBSET Nat /\ \A k \in S : k \in 0 .. m
  OBVIOUS
<1>4. 0 \in S
  OBVIOUS
<1>5. PICK p \in S : \A k \in S : p >= k
  <2>1. T \in SUBSET Nat
    <3>1. \A k \in S : m - k \in Nat
      BY <1>3
    <3> HIDE DEF S
    <3> QED
      BY <3>1
  <2>2. T # {}
    <3> HIDE DEF S
    <3> QED
      BY <1>4
  <2>3. PICK t \in T : \A s \in T : t <= s
    <3> HIDE DEF T
    <3> QED
      BY <2>1, <2>2, Least
  <2>4. PICK k \in S : t = m - k
    OBVIOUS
  <2>5. ASSUME NEW j \in S PROVE k >= j
    <3>1. m - j \in T
      OBVIOUS
    <3>2. m - k <= m - j
      BY <2>3, <2>4, <3>1
    <3>3. k \in 0 .. m /\ j \in 0 .. m
      BY <1>3
    <3> QED
      BY <3>2, <3>3
  <2> QED
    BY <2>5
<1>6. Max(S) \in S /\ \A k \in S : Max(S) >= k
  <2> HIDE DEF S
  <2> QED
    BY <1>5 DEF Max
<1>7. PICK q \in 0 .. m : q = TokenSet!CommonPrefix(word) /\ q = Max(S)
  <2>1. TokenSet!CommonPrefix(word) = TokenSet!Max(S)
    BY <1>1 DEF TokenSet!CommonPrefix
  <2>2. Max(S) \in 0 .. m
    <3> HIDE DEF S
    <3> QED
      BY <1>3, <1>6
  <2> HIDE DEF S
  <2> QED
    BY <2>1, <2>2, SameMax
<1>8. \A i \in 1 .. q : i \in DOMAIN previousWord /\ word[i] = previousWord[i]
  <2>1. q \in S
    <3> HIDE DEF S
    <3> QED
      BY <1>6, <1>7
  <2> QED
    BY <2>1
<1>9. q \in 0 .. n
  <2>1. q # 0 => q \in 1 .. q
    OBVIOUS
  <2>2. q # 0 => q \in 1 .. n
    BY <1>2, <1>8, <2>1
  <2> QED
    BY <2>2
<1>10. q = m \/ q = n \/ word[q + 1] # previousWord[q + 1]
  <2> SUFFICES ASSUME q # m, q # n, word[q + 1] = previousWord[q + 1] PROVE FALSE
    OBVIOUS
  <2>1. q + 1 \in 0 .. m /\ q + 1 \in 1 .. n
    BY <1>9
  <2>2. ASSUME NEW i \in 1 .. q + 1 PROVE i \in DOMAIN previousWord /\ word[i] = previousWord[i]
    <3>1. i \in 1 .. q \/ i = q + 1
      OBVIOUS
    <3> QED
      BY <1>2, <1>8, <2>1, <3>1
  <2>3. q + 1 \in S
    BY <2>1, <2>2
  <2>4. q >= q + 1
    <3> HIDE DEF S
    <3> QED
      BY <1>6, <1>7, <2>3
  <2> QED
    BY <2>4
<1> QED
  BY <1>1, <1>2, <1>7, <1>8, <1>9, <1>10 DEF Share

\* What comes next of a word that does not precede the last one.
LEMMA NextCharacter ==
  ASSUME NEW u \in Words, NEW v \in Words, ~TokenSet!Precedes(u, v), NEW p, Share(p, u, v)
  PROVE  /\ p = Len(u) => u = v
         /\ p # Len(u) /\ p # Len(v) => u[p + 1] > v[p + 1]
<1>1. PICK m \in Nat : m = Len(u) /\ DOMAIN u = 1 .. m
  BY LenProperties DEF Words
<1>2. PICK n \in Nat : n = Len(v) /\ DOMAIN v = 1 .. n
  BY LenProperties DEF Words
<1>3. /\ p \in 0 .. m /\ p \in 0 .. n /\ \A i \in 1 .. p : u[i] = v[i]
      /\ p = m \/ p = n \/ u[p + 1] # v[p + 1]
  BY <1>1, <1>2 DEF Share
<1>4. \A j \in 1 .. (p + 1) - 1 : j \in DOMAIN u /\ u[j] = v[j]
  BY <1>1, <1>3
<1>5. p # n => ~(p + 1 \in DOMAIN u => u[p + 1] < v[p + 1])
  <2> SUFFICES ASSUME p # n PROVE ~(p + 1 \in DOMAIN u => u[p + 1] < v[p + 1])
    OBVIOUS
  <2>1. p + 1 \in DOMAIN v
    BY <1>2, <1>3
  <2> QED
    BY <1>4, <2>1 DEF TokenSet!Precedes
<1>6. ASSUME p = m PROVE u = v
  <2>1. p = n
    <3>1. p + 1 \notin DOMAIN u
      BY <1>1, <1>6
    <3> QED
      BY <1>5, <3>1
  <2>2. \A i \in 1 .. m : u[i] = v[i]
    BY <1>3, <1>6
  <2> QED
    BY <1>1, <1>2, <1>6, <2>1, <2>2, SeqEqual DEF Words
<1>7. ASSUME p # m, p # n PROVE u[p + 1] > v[p + 1]
  <2>1. p + 1 \in 1 .. m /\ p + 1 \in 1 .. n
    BY <1>3, <1>7
  <2>2. u[p + 1] \in Nat /\ v[p + 1] \in Nat
    BY <1>1, <1>2, <2>1, ElementOfSeq DEF Words
  <2>3. ~(u[p + 1] < v[p + 1])
    BY <1>1, <1>5, <1>7, <2>1
  <2>4. u[p + 1] # v[p + 1]
    BY <1>3, <1>7
  <2> QED
    BY <2>2, <2>3, <2>4
<1> QED
  BY <1>1, <1>2, <1>6, <1>7

\* Nothing leads from a node of the path past the path, nor from its end.
Rightmost(g, q, word) ==
  /\ \A i \in 1 .. Len(word) : \A c \in Labels(g, q[i - 1]) : c <= word[i]
  /\ Labels(g, q[Len(word)]) = {}

\* The path of the word u that leaves the path q at its node p for new nodes.
Branch(q, p, u, next) == [i \in 0 .. Len(u) |-> IF i <= p THEN q[i] ELSE next + i - p - 1]

\* The edges of the path r from the one of its ith character on.
EdgesOf(r, u, i) == {<<r[j - 1], u[j]>> : j \in i .. Len(u)}

\* h is g with the new edges of the path r.
Grown(g, r, p, u, h) ==
  /\ DOMAIN h = DOMAIN g \cup EdgesOf(r, u, p + 1)
  /\ h \in [DOMAIN h -> Nat]
  /\ \A i \in p + 1 .. Len(u) : h[r[i - 1], u[i]] = r[i]
  /\ \A e \in DOMAIN g : (\A i \in p + 1 .. Len(u) : e # <<r[i - 1], u[i]>>) => h[e] = g[e]

\* A word that may follow v, and the p characters it shares with it.
Follows(u, v, p) ==
  /\ u \in Seq(Nat \ Digit)
  /\ Share(p, u, v)
  /\ p = Len(u) => u = v
  /\ p # Len(u) /\ p # Len(v) => u[p + 1] > v[p + 1]

\* What the path r has of the path q and of new nodes.
Branches(g, q, p, u, next, r) ==
  /\ r \in [0 .. Len(u) -> Nat] /\ r[0] = Root
  /\ \A i, j \in 0 .. Len(u) : r[i] = r[j] => i = j
  /\ \A i \in 0 .. Len(u) : r[i] < next + Len(u) - p /\ Root + i <= r[i]
  /\ \A i \in 0 .. Len(u) : i <= p => r[i] = q[i] /\ r[i] < next
  /\ \A i \in 0 .. Len(u) : i > p => r[i] >= next /\ r[i] = next + i - p - 1
  /\ \A i \in 1 .. p : <<r[i - 1], u[i]>> \in DOMAIN g /\ g[r[i - 1], u[i]] = r[i]
  /\ \A i \in p + 1 .. Len(u) : <<r[i - 1], u[i]>> \notin DOMAIN g
  /\ \A e \in DOMAIN g : \A i \in 0 .. Len(u) :
       g[e] = r[i] => i >= 1 /\ i <= p /\ e = <<r[i - 1], u[i]>>

\* The branch is new, and no way leads to a node of it but the path.
LEMMA BranchProperties ==
  ASSUME NEW g, NEW F, NEW reg, NEW q, NEW v, NEW p, NEW next,
         Builder(g, F, reg, q, v, p, next), Rightmost(g, q, v),
         NEW u, Follows(u, v, p), NEW r, r = Branch(q, p, u, next)
  PROVE  Branches(g, q, p, u, next, r)
<1>0. Path(g, q, v, p) /\ Bounded(g, F, q, v, next)
  BY DEF Builder
<1>1. Graph(g) /\ v \in Seq(Nat \ Digit) /\ u \in Seq(Nat \ Digit) /\ next \in Nat
  BY <1>0 DEF Path, Bounded, Follows
<1>2. PICK n \in Nat : n = Len(u)
  BY <1>1, LenProperties
<1>3. PICK l \in Nat : l = Len(v)
  BY <1>1, LenProperties
<1>4. p \in 0 .. n /\ p \in 0 .. l /\ p \in Nat
  <2>1. p \in 0 .. n /\ p \in 0 .. l
    BY <1>2, <1>3 DEF Follows, Share
  <2> QED
    BY <2>1
<1>5. \A i \in 1 .. p : u[i] = v[i]
  BY DEF Follows, Share
<1>6. /\ q \in [0 .. l -> Nat] /\ q[0] = Root
      /\ \A i, j \in 0 .. l : q[i] = q[j] => i = j
  BY <1>0, <1>3 DEF Path
<1>7. \A i \in 1 .. p : <<q[i - 1], v[i]>> \in DOMAIN g /\ g[q[i - 1], v[i]] = q[i]
  BY <1>0 DEF Path
<1>8. \A e \in DOMAIN g : \A i \in 0 .. p : g[e] = q[i] => i >= 1 /\ e = <<q[i - 1], v[i]>>
  BY <1>0 DEF Path
<1>9. /\ \A i \in 0 .. l : q[i] < next /\ Root + i <= q[i]
      /\ \A e \in DOMAIN g : e[1] < next /\ g[e] < next
  BY <1>0, <1>3 DEF Bounded
<1>10. Root \in Nat
  <2>1. 0 \in 0 .. l
    OBVIOUS
  <2> QED
    BY <1>6, <2>1
<1>11. DOMAIN r = 0 .. n /\ \A i \in 0 .. n : r[i] = IF i <= p THEN q[i] ELSE next + i - p - 1
  BY <1>2 DEF Branch
<1>12. ASSUME NEW i \in 0 .. n, i <= p PROVE i \in 0 .. l /\ i \in 0 .. p /\ r[i] = q[i] /\ r[i] < next /\ r[i] \in Nat
  <2>1. i \in 0 .. l /\ i \in 0 .. p
    BY <1>4, <1>12
  <2>2. r[i] = q[i]
    BY <1>11, <1>12
  <2>3. q[i] \in Nat /\ q[i] < next
    BY <1>6, <1>9, <2>1
  <2> QED
    BY <2>1, <2>2, <2>3
<1>13. ASSUME NEW i \in 0 .. n, i > p PROVE r[i] >= next /\ r[i] = next + i - p - 1 /\ r[i] \in Nat
  <2>1. r[i] = next + i - p - 1
    BY <1>4, <1>11, <1>13
  <2> QED
    BY <1>1, <1>4, <1>13, <2>1
<1>14. r \in [0 .. n -> Nat]
  <2>1. \A i \in 0 .. n : i <= p \/ i > p
    BY <1>4
  <2>2. \A i \in 0 .. n : r[i] \in Nat
    BY <1>12, <1>13, <2>1
  <2>3. r = [i \in 0 .. n |-> r[i]]
    BY <1>2 DEF Branch
  <2> QED
    BY <2>2, <2>3
<1>15. r[0] = Root
  <2>1. 0 \in 0 .. n /\ 0 <= p
    BY <1>4
  <2> QED
    BY <1>6, <1>12, <2>1
<1>16. ASSUME NEW i \in 0 .. n, NEW j \in 0 .. n, r[i] = r[j] PROVE i = j
  <2>1. CASE i <= p /\ j <= p
    <3>1. i \in 0 .. l /\ j \in 0 .. l /\ q[i] = q[j]
      BY <1>12, <1>16, <2>1
    <3>2. \A a, b \in 0 .. l : q[a] = q[b] => a = b
      BY <1>6
    <3> QED
      BY <3>1, <3>2
  <2>2. CASE i > p /\ j > p
    <3>1. r[i] = next + i - p - 1 /\ r[j] = next + j - p - 1
      BY <1>13, <2>2
    <3>2. next \in Nat /\ p \in Nat
      BY <1>1, <1>4
    <3>3. next + i - p - 1 = next + j - p - 1
      BY <1>16, <3>1
    <3> QED
      BY <3>2, <3>3
  <2>3. CASE i <= p /\ j > p
    <3>1. r[i] \in Nat /\ r[i] < next /\ r[j] >= next
      BY <1>12, <1>13, <2>3
    <3> QED
      BY <1>1, <1>16, <3>1
  <2>4. CASE i > p /\ j <= p
    <3>1. r[j] \in Nat /\ r[j] < next /\ r[i] >= next
      BY <1>12, <1>13, <2>4
    <3> QED
      BY <1>1, <1>16, <3>1
  <2> QED
    BY <1>4, <2>1, <2>2, <2>3, <2>4
<1>17. ASSUME NEW i \in 0 .. n PROVE r[i] < next + n - p /\ Root + i <= r[i]
  <2>1. CASE i <= p
    <3>1. r[i] = q[i] /\ r[i] < next /\ i \in 0 .. l /\ r[i] \in Nat
      BY <1>12, <2>1
    <3>2. Root + i <= q[i]
      BY <1>9, <3>1
    <3>3. next <= next + n - p
      BY <1>1, <1>4
    <3> QED
      BY <1>1, <1>4, <3>1, <3>2, <3>3
  <2>2. CASE i > p
    <3>1. r[i] = next + i - p - 1
      BY <1>13, <2>2
    <3>2. Root + p <= q[p] /\ q[p] < next /\ q[p] \in Nat
      BY <1>4, <1>6, <1>9
    <3> QED
      BY <1>1, <1>4, <1>10, <3>1, <3>2
  <2> QED
    BY <1>4, <2>1, <2>2
<1>18. ASSUME NEW i \in 1 .. p PROVE <<r[i - 1], u[i]>> \in DOMAIN g /\ g[r[i - 1], u[i]] = r[i]
  <2>1. i \in 0 .. n /\ i - 1 \in 0 .. n /\ i <= p /\ i - 1 <= p
    BY <1>4
  <2>2. r[i - 1] = q[i - 1] /\ r[i] = q[i]
    BY <1>12, <2>1
  <2>3. u[i] = v[i]
    BY <1>5
  <2> QED
    BY <1>7, <2>2, <2>3
<1>19. ASSUME NEW i \in p + 1 .. n, <<r[i - 1], u[i]>> \in DOMAIN g PROVE FALSE
  <2>0. i - 1 \in 0 .. n /\ i \in 1 .. n
    BY <1>4
  <2>1. CASE i = p + 1
    <3>1. i - 1 = p /\ r[i - 1] = q[p]
      <4>1. i - 1 = p /\ p \in 0 .. n /\ p <= p
        BY <1>4, <2>1
      <4> QED
        BY <1>12, <4>1
    <3>2. u[i] \in Labels(g, q[p])
      BY <1>1, <1>19, <3>1, LabelsProperties
    <3>3. p # l
      BY <1>3, <3>2 DEF Rightmost
    <3>4. i \in 1 .. l
      BY <1>4, <2>1, <3>3
    <3>5. u[i] <= v[i]
      <4>1. \A c \in Labels(g, q[i - 1]) : c <= v[i]
        BY <1>3, <3>4 DEF Rightmost
      <4>2. u[i] \in Labels(g, q[i - 1])
        BY <3>1, <3>2
      <4> QED
        BY <4>1, <4>2
    <3>6. u[i] > v[i]
      <4>1. p # Len(u) /\ p # Len(v)
        BY <1>2, <1>3, <1>4, <2>1, <3>3
      <4> QED
        BY <2>1, <4>1 DEF Follows
    <3>7. u[i] \in Nat /\ v[i] \in Nat
      <4>1. i \in 1 .. Len(u) /\ i \in 1 .. Len(v)
        BY <1>2, <1>3, <2>0, <3>4
      <4>2. u[i] \in Nat \ Digit /\ v[i] \in Nat \ Digit
        BY <1>1, <4>1, ElementOfSeq
      <4> QED
        BY <4>2
    <3> QED
      BY <3>5, <3>6, <3>7
  <2>2. CASE i # p + 1
    <3>1. i - 1 > p
      BY <1>4, <2>2
    <3>2. r[i - 1] >= next /\ r[i - 1] \in Nat
      BY <1>13, <2>0, <3>1
    <3>3. <<r[i - 1], u[i]>>[1] < next
      BY <1>9, <1>19
    <3> QED
      BY <1>1, <3>2, <3>3
  <2> QED
    BY <2>1, <2>2
<1>20. ASSUME NEW e \in DOMAIN g, NEW i \in 0 .. n, g[e] = r[i]
       PROVE  i >= 1 /\ i <= p /\ e = <<r[i - 1], u[i]>>
  <2>1. i <= p
    <3> SUFFICES ASSUME i > p PROVE FALSE
      BY <1>4
    <3>1. r[i] >= next /\ r[i] \in Nat
      BY <1>13
    <3>2. g[e] < next
      BY <1>9
    <3> QED
      BY <1>1, <1>20, <3>1, <3>2
  <2>2. i \in 0 .. p /\ g[e] = q[i]
    BY <1>12, <1>20, <2>1
  <2>3. i >= 1 /\ e = <<q[i - 1], v[i]>>
    BY <1>8, <2>2
  <2>4. i \in 1 .. p /\ i - 1 \in 0 .. n /\ i - 1 <= p
    BY <1>4, <2>1, <2>3
  <2>5. r[i - 1] = q[i - 1] /\ u[i] = v[i]
    BY <1>5, <1>12, <2>4
  <2> QED
    BY <2>1, <2>3, <2>5
<1>21. \A i \in 0 .. n : i <= p => r[i] = q[i] /\ r[i] < next
  BY <1>12
<1>22. \A i \in 0 .. n : i > p => r[i] >= next /\ r[i] = next + i - p - 1
  BY <1>13
<1>23. \A i, j \in 0 .. n : r[i] = r[j] => i = j
  BY <1>16
<1>24. \A i \in 0 .. n : r[i] < next + n - p /\ Root + i <= r[i]
  BY <1>17
<1>25. \A i \in p + 1 .. n : <<r[i - 1], u[i]>> \notin DOMAIN g
  BY <1>19
<1>26. \A e \in DOMAIN g : \A i \in 0 .. n : g[e] = r[i] => i >= 1 /\ i <= p /\ e = <<r[i - 1], u[i]>>
  BY <1>20
<1>27. \A i \in 1 .. p : <<r[i - 1], u[i]>> \in DOMAIN g /\ g[r[i - 1], u[i]] = r[i]
  BY <1>18
<1> QED
  BY <1>2, <1>14, <1>15, <1>21, <1>22, <1>23, <1>24, <1>25, <1>26, <1>27 DEF Branches

\* The new edges, finitely many.
LEMMA NewEdges ==
  ASSUME NEW i \in Nat, NEW r, NEW u, Len(u) \in Nat
  PROVE  IsFiniteSet(EdgesOf(r, u, i))
<1> DEFINE S == EdgesOf(r, u, i)
           f == [j \in i .. Len(u) |-> <<r[j - 1], u[j]>>]
<1>1. IsFiniteSet(i .. Len(u))
  BY FS_Interval
<1>2. f \in Surjection(i .. Len(u), S)
  BY DEF Surjection, EdgesOf
<1> HIDE DEF f, S
<1>3. IsFiniteSet(S)
  BY <1>1, <1>2, FS_Surjection
<1> QED
  BY <1>3 DEF S

\* The automaton with the branch is that of a builder whose path is the word's.
LEMMA Growing ==
  ASSUME NEW g, NEW F, NEW reg, NEW q, NEW v, NEW p, NEW next,
         Builder(g, F, reg, q, v, p, next), Rightmost(g, q, v),
         NEW u, Follows(u, v, p), NEW r, r = Branch(q, p, u, next),
         NEW h, Grown(g, r, p, u, h), NEW G, G = F \cup {r[Len(u)]}
  PROVE  /\ Extends(g, F, r, u, h, G)
         /\ Builder(h, G, reg, r, u, Len(u), next + Len(u) - p)
         /\ Rightmost(h, r, u)
<1>0. /\ Path(g, q, v, p) /\ Bounded(g, F, q, v, next) /\ Registered(g, F, reg, q, p, next)
  BY DEF Builder
<1>1. Graph(g) /\ v \in Seq(Nat \ Digit) /\ u \in Seq(Nat \ Digit) /\ next \in Nat
  BY <1>0 DEF Path, Bounded, Follows
<1>2. PICK n \in Nat : n = Len(u)
  BY <1>1, LenProperties
<1>3. PICK l \in Nat : l = Len(v)
  BY <1>1, LenProperties
<1>4. p \in 0 .. n /\ p \in 0 .. l /\ p \in Nat
  <2>1. p \in 0 .. n /\ p \in 0 .. l
    BY <1>2, <1>3 DEF Follows, Share
  <2> QED
    BY <2>1
<1>5. /\ r \in [0 .. n -> Nat] /\ r[0] = Root
      /\ \A i, j \in 0 .. n : r[i] = r[j] => i = j
      /\ \A i \in 0 .. n : r[i] < next + n - p /\ Root + i <= r[i]
      /\ \A i \in 0 .. n : i <= p => r[i] = q[i] /\ r[i] < next
      /\ \A i \in 0 .. n : i > p => r[i] >= next /\ r[i] = next + i - p - 1
      /\ \A i \in 1 .. p : <<r[i - 1], u[i]>> \in DOMAIN g /\ g[r[i - 1], u[i]] = r[i]
      /\ \A i \in p + 1 .. n : <<r[i - 1], u[i]>> \notin DOMAIN g
      /\ \A e \in DOMAIN g : \A i \in 0 .. n : g[e] = r[i] => i >= 1 /\ i <= p /\ e = <<r[i - 1], u[i]>>
  <2>1. Branches(g, q, p, u, next, r)
    BY BranchProperties
  <2> QED
    BY <1>2, <2>1 DEF Branches
<1>6. \A i \in 1 .. n : i \in 0 .. n /\ i - 1 \in 0 .. n /\ (i \in 1 .. p \/ i \in p + 1 .. n)
  BY <1>4
<1>7. \A i \in p + 1 .. n : i \in 1 .. n /\ i \in 0 .. n /\ i - 1 \in 0 .. n /\ i > p /\ i # 0
  BY <1>4
<1>8. \A i \in 1 .. p : i \in 1 .. n /\ i \in 0 .. n /\ i - 1 \in 0 .. n /\ i <= p
  BY <1>4
<1>9. \A i \in 1 .. n : u[i] \in Nat \ Digit
  BY <1>1, <1>2, ElementOfSeq
<1>10. /\ \A e \in DOMAIN g : e[1] < next /\ g[e] < next
       /\ \A x \in F : x \in Nat /\ x < next
  BY <1>0 DEF Bounded
<1>11. /\ \A e : e \in DOMAIN h <=> e \in DOMAIN g \/ \E i \in p + 1 .. n : e = <<r[i - 1], u[i]>>
       /\ h \in [DOMAIN h -> Nat]
       /\ \A i \in p + 1 .. n : h[r[i - 1], u[i]] = r[i]
  BY <1>2 DEF Grown, EdgesOf
<1>12. ASSUME NEW e \in DOMAIN g PROVE h[e] = g[e] /\ e \in DOMAIN h
  <2>1. \A i \in p + 1 .. n : e # <<r[i - 1], u[i]>>
    BY <1>5
  <2> QED
    BY <1>2, <1>11, <2>1 DEF Grown
<1>13. ASSUME NEW i \in 1 .. n PROVE <<r[i - 1], u[i]>> \in DOMAIN h /\ h[r[i - 1], u[i]] = r[i]
  <2>1. CASE i \in 1 .. p
    BY <1>5, <1>12, <2>1
  <2>2. CASE i \in p + 1 .. n
    BY <1>11, <2>2
  <2> QED
    BY <1>6, <2>1, <2>2
<1>14. Graph(h)
  <2>1. IsFiniteSet(DOMAIN h)
    <3>1. IsFiniteSet(EdgesOf(r, u, p + 1))
      <4>1. p + 1 \in Nat /\ Len(u) \in Nat
        BY <1>2, <1>4
      <4> QED
        BY <4>1, NewEdges
    <3>2. IsFiniteSet(DOMAIN g)
      BY <1>1 DEF Graph
    <3> QED
      BY <3>1, <3>2, FS_Union DEF Grown
  <2>2. DOMAIN h \subseteq Nat \X (Nat \ Digit)
    <3>1. DOMAIN g \subseteq Nat \X (Nat \ Digit)
      BY <1>1 DEF Graph
    <3>2. \A i \in p + 1 .. n : r[i - 1] \in Nat /\ u[i] \in Nat \ Digit
      BY <1>5, <1>7, <1>9
    <3>3. ASSUME NEW e \in DOMAIN h PROVE e \in Nat \X (Nat \ Digit)
      <4>1. CASE e \in DOMAIN g
        BY <3>1, <4>1
      <4>2. CASE e \notin DOMAIN g
        <5>1. PICK i \in p + 1 .. n : e = <<r[i - 1], u[i]>>
          BY <1>11, <4>2
        <5> QED
          BY <3>2, <5>1
      <4> QED
        BY <4>1, <4>2
    <3> QED
      BY <3>3
  <2> QED
    BY <1>11, <2>1, <2>2 DEF Graph
<1>15. ASSUME NEW x PROVE /\ x < next \/ x \notin F
                          /\ x \in Nat /\ x >= next => Labels(g, x) = {} /\ x \notin F
  <2>1. x \in F => x < next
    BY <1>10
  <2>2. ASSUME x \in Nat, x >= next, NEW c \in Labels(g, x) PROVE FALSE
    <3>1. <<x, c>> \in DOMAIN g
      BY <1>1, LabelsProperties
    <3>2. <<x, c>>[1] < next
      BY <1>10, <3>1
    <3> QED
      BY <1>1, <2>2, <3>2
  <2>3. x \in Nat /\ x >= next => x \notin F
    BY <1>1, <2>1
  <2> QED
    BY <2>1, <2>2, <2>3
<1>16. Extends(g, F, r, u, h, G)
  <2>1. DOMAIN h = DOMAIN g \cup {<<r[i - 1], u[i]>> : i \in 1 .. n}
    <3>1. \A e : e \in DOMAIN h <=> e \in DOMAIN g \/ \E i \in 1 .. n : e = <<r[i - 1], u[i]>>
      BY <1>7, <1>11, <1>13
    <3> QED
      BY <3>1
  <2>2. ASSUME NEW e \in DOMAIN g, NEW i \in 0 .. n, g[e] = r[i]
        PROVE  i >= 1 /\ e = <<r[i - 1], u[i]>>
    BY <1>5, <2>2
  <2>3. ASSUME NEW i \in 1 .. n, <<r[i - 1], u[i]>> \notin DOMAIN g
        PROVE  Labels(g, r[i]) = {} /\ r[i] \notin F
    <3>1. i \in p + 1 .. n
      BY <1>5, <1>6, <2>3
    <3>2. r[i] \in Nat /\ r[i] >= next
      BY <1>5, <1>7, <3>1
    <3> QED
      BY <1>15, <3>2
  <2>4. u \in Words
    BY <1>1, SeqMonotonic DEF Words
  <2>5. \A i, j \in 0 .. n : r[i] = r[j] => i = j
    BY <1>5
  <2>6. r \in [0 .. n -> Nat]
    BY <1>5
  <2>7. \A e \in DOMAIN g : h[e] = g[e]
    BY <1>12
  <2>8. \A i \in 1 .. n : h[r[i - 1], u[i]] = r[i]
    BY <1>13
  <2>9. \A e \in DOMAIN g : \A i \in 0 .. n : g[e] = r[i] => i >= 1 /\ e = <<r[i - 1], u[i]>>
    BY <2>2
  <2>10. \A i \in 1 .. n : <<r[i - 1], u[i]>> \notin DOMAIN g => Labels(g, r[i]) = {} /\ r[i] \notin F
    BY <2>3
  <2> QED
    BY <1>1, <1>2, <1>14, <2>1, <2>4, <2>5, <2>6, <2>7, <2>8, <2>9, <2>10 DEF Extends
<1>17. Path(h, r, u, n)
  <2>1. ASSUME NEW e \in DOMAIN h, NEW i \in 0 .. n, h[e] = r[i]
        PROVE  i >= 1 /\ e = <<r[i - 1], u[i]>>
    <3>1. CASE e \in DOMAIN g
      <4>1. g[e] = r[i]
        BY <1>12, <2>1, <3>1
      <4> QED
        BY <1>5, <3>1, <4>1
    <3>2. CASE e \notin DOMAIN g
      <4>1. PICK j \in p + 1 .. n : e = <<r[j - 1], u[j]>>
        BY <1>11, <3>2
      <4>2. h[e] = r[j] /\ j \in 0 .. n /\ j \in 1 .. n
        BY <1>7, <1>11, <4>1
      <4>3. i = j
        <5>1. \A a, b \in 0 .. n : r[a] = r[b] => a = b
          BY <1>5
        <5> QED
          BY <2>1, <4>2, <5>1
      <4> QED
        BY <4>1, <4>2, <4>3
    <3> QED
      BY <3>1, <3>2
  <2>2. r \in [0 .. n -> Nat] /\ r[0] = Root /\ \A i, j \in 0 .. n : r[i] = r[j] => i = j
    BY <1>5
  <2>3. \A i \in 1 .. n : <<r[i - 1], u[i]>> \in DOMAIN h /\ h[r[i - 1], u[i]] = r[i]
    BY <1>13
  <2>4. \A e \in DOMAIN h : \A i \in 0 .. n : h[e] = r[i] => i >= 1 /\ e = <<r[i - 1], u[i]>>
    BY <2>1
  <2>5. n \in 0 .. n
    OBVIOUS
  <2> QED
    BY <1>1, <1>2, <1>14, <2>2, <2>3, <2>4, <2>5 DEF Path
<1>18. Bounded(h, G, r, u, next + n - p)
  <2>0. PICK x \in Nat : x = next + n - p /\ next <= x
    <3>1. next + n - p \in Nat /\ next <= next + n - p
      BY <1>1, <1>4
    <3> QED
      BY <3>1
  <2>1. \A i \in 0 .. n : r[i] < x /\ Root + i <= r[i]
    BY <1>5, <2>0
  <2>2. ASSUME NEW e \in DOMAIN h PROVE e[1] < x /\ h[e] < x
    <3>1. CASE e \in DOMAIN g
      <4>1. e[1] < next /\ h[e] < next
        BY <1>10, <1>12, <3>1
      <4>2. e[1] \in Nat /\ h[e] \in Nat
        BY <1>14 DEF Graph
      <4> QED
        BY <1>1, <2>0, <4>1, <4>2
    <3>2. CASE e \notin DOMAIN g
      <4>1. PICK j \in p + 1 .. n : e = <<r[j - 1], u[j]>>
        BY <1>11, <3>2
      <4>2. h[e] = r[j] /\ j \in 0 .. n /\ j - 1 \in 0 .. n /\ e[1] = r[j - 1]
        BY <1>7, <1>11, <4>1
      <4> QED
        BY <2>1, <4>2
    <3> QED
      BY <3>1, <3>2
  <2>3. ASSUME NEW y \in G PROVE y \in Nat /\ y < x
    <3>1. CASE y \in F
      <4>1. y \in Nat /\ y < next
        BY <1>10, <3>1
      <4> QED
        BY <1>1, <2>0, <4>1
    <3>2. CASE y = r[n]
      <4>1. n \in 0 .. n
        OBVIOUS
      <4> QED
        BY <1>5, <2>1, <3>2, <4>1
    <3> QED
      BY <1>2, <3>1, <3>2
  <2> QED
    BY <1>2, <2>0, <2>1, <2>2, <2>3 DEF Bounded
<1>19. Registered(h, G, reg, r, n, next + n - p)
  <2>0. PICK x \in Nat : x = next + n - p /\ next <= x
    <3>1. next + n - p \in Nat /\ next <= next + n - p
      BY <1>1, <1>4
    <3> QED
      BY <3>1
  <2>1. ASSUME NEW k \in DOMAIN reg
        PROVE  /\ reg[k] \in Nat /\ reg[k] < x
               /\ \A i \in 0 .. n : reg[k] # r[i]
               /\ Spell(h, G, reg[k]) = k
    <3>1. /\ reg[k] \in Nat /\ reg[k] < next /\ \A i \in 0 .. p : reg[k] # q[i]
          /\ Spell(g, F, reg[k]) = k
      BY <1>0 DEF Registered
    <3>2. ASSUME NEW i \in 0 .. n PROVE reg[k] # r[i]
      <4>1. CASE i <= p
        <5>1. i \in 0 .. p
          BY <1>4, <4>1
        <5>2. r[i] = q[i]
          BY <1>5, <4>1
        <5> QED
          BY <3>1, <5>1, <5>2
      <4>2. CASE i > p
        <5>1. r[i] >= next
          BY <1>5, <4>2
        <5> QED
          BY <1>1, <3>1, <5>1
      <4> QED
        BY <1>4, <4>1, <4>2
    <3>3. \A c : <<reg[k], c>> \in DOMAIN h <=> <<reg[k], c>> \in DOMAIN g
      <4>1. \A i \in p + 1 .. n : reg[k] # r[i - 1]
        BY <1>7, <3>2
      <4>2. \A c : \A i \in p + 1 .. n : <<reg[k], c>> # <<r[i - 1], u[i]>>
        BY <4>1
      <4>3. \A e : e \in DOMAIN h <=> e \in DOMAIN g \/ \E i \in p + 1 .. n : e = <<r[i - 1], u[i]>>
        BY <1>11
      <4>4. ASSUME NEW c PROVE <<reg[k], c>> \in DOMAIN h <=> <<reg[k], c>> \in DOMAIN g
        BY <4>2, <4>3
      <4> QED
        BY <4>4
    <3>4. Labels(h, reg[k]) = Labels(g, reg[k])
      <4>1. \A c : c \in Labels(h, reg[k]) <=> c \in Labels(g, reg[k])
        BY <1>1, <1>14, <3>3, LabelsProperties
      <4>2. Labels(h, reg[k]) \in SUBSET (Nat \ Digit) /\ Labels(g, reg[k]) \in SUBSET (Nat \ Digit)
        BY <1>1, <1>14, LabelsProperties
      <4> QED
        BY <4>1, <4>2
    <3>5. \A c \in Labels(g, reg[k]) : h[reg[k], c] = g[reg[k], c]
      BY <1>1, <1>12, LabelsProperties
    <3>6. reg[k] \in G <=> reg[k] \in F
      <4>1. n \in 0 .. n
        OBVIOUS
      <4> QED
        BY <1>2, <3>2, <4>1
    <3>7. Spell(h, G, reg[k]) = Spell(g, F, reg[k])
      <4>1. Kept(g, F, h, G, reg[k])
        BY <3>4, <3>5, <3>6 DEF Kept
      <4> QED
        BY <1>1, <4>1, SpellKept
    <3>8. reg[k] < x
      BY <1>1, <2>0, <3>1
    <3> QED
      BY <3>1, <3>2, <3>7, <3>8
  <2>2. reg \in [DOMAIN reg -> Nat]
    BY <1>0 DEF Registered
  <2> QED
    BY <2>0, <2>1, <2>2 DEF Registered
<1>20. ASSUME NEW i \in 1 .. n, NEW c \in Labels(h, r[i - 1]) PROVE c <= u[i]
  <2>0. i - 1 \in 0 .. n /\ i \in 0 .. n /\ c \in Nat /\ u[i] \in Nat
    <3>1. c \in Nat
      BY <1>14, LabelsProperties
    <3>2. u[i] \in Nat
      BY <1>9
    <3> QED
      BY <1>6, <3>1, <3>2
  <2>1. <<r[i - 1], c>> \in DOMAIN h
    BY <1>14, LabelsProperties
  <2>2. CASE <<r[i - 1], c>> \in DOMAIN g
    <3>1. r[i - 1] < next /\ c \in Labels(g, r[i - 1])
      <4>1. <<r[i - 1], c>>[1] < next
        BY <1>10, <2>2
      <4> QED
        BY <1>1, <2>2, <4>1, LabelsProperties
    <3>2. i - 1 <= p
      <4> SUFFICES ASSUME i - 1 > p PROVE FALSE
        BY <1>4
      <4>1. r[i - 1] >= next /\ r[i - 1] \in Nat
        BY <1>5, <2>0
      <4> QED
        BY <1>1, <3>1, <4>1
    <3>3. r[i - 1] = q[i - 1]
      BY <1>5, <2>0, <3>2
    <3>4. i - 1 # l
      BY <1>3, <3>1, <3>3 DEF Rightmost
    <3>5. i \in 1 .. l
      BY <1>4, <3>2, <3>4
    <3>6. c <= v[i]
      <4>1. \A d \in Labels(g, q[i - 1]) : d <= v[i]
        BY <1>3, <3>5 DEF Rightmost
      <4> QED
        BY <3>1, <3>3, <4>1
    <3>7. v[i] \in Nat
      <4>1. v[i] \in Nat \ Digit
        BY <1>1, <1>3, <3>5, ElementOfSeq
      <4> QED
        BY <4>1
    <3>8. CASE i \in 1 .. p
      <4>1. u[i] = v[i]
        BY <3>8 DEF Follows, Share
      <4> QED
        BY <3>6, <4>1
    <3>9. CASE i = p + 1
      <4>1. p # Len(u) /\ p # Len(v)
        BY <1>2, <1>3, <1>4, <3>5, <3>9
      <4>2. u[i] > v[i]
        BY <3>9, <4>1 DEF Follows
      <4> QED
        BY <2>0, <3>6, <3>7, <4>2
    <3> QED
      BY <1>4, <3>2, <3>8, <3>9
  <2>3. CASE <<r[i - 1], c>> \notin DOMAIN g
    <3>1. PICK j \in p + 1 .. n : <<r[i - 1], c>> = <<r[j - 1], u[j]>>
      BY <1>11, <2>1, <2>3
    <3>2. r[i - 1] = r[j - 1] /\ c = u[j] /\ j - 1 \in 0 .. n /\ j \in 0 .. n
      BY <1>7, <3>1
    <3>3. i - 1 = j - 1
      <4>1. \A a, b \in 0 .. n : r[a] = r[b] => a = b
        BY <1>5
      <4> QED
        BY <2>0, <3>2, <4>1
    <3>4. i = j
      BY <3>3
    <3> QED
      BY <2>0, <3>2, <3>4
  <2> QED
    BY <2>2, <2>3
<1>21. ASSUME NEW c \in Labels(h, r[n]) PROVE FALSE
  <2>0. n \in 0 .. n
    OBVIOUS
  <2>1. <<r[n], c>> \in DOMAIN h
    BY <1>14, LabelsProperties
  <2>2. CASE <<r[n], c>> \in DOMAIN g
    <3>1. r[n] < next /\ c \in Labels(g, r[n])
      <4>1. <<r[n], c>>[1] < next
        BY <1>10, <2>2
      <4> QED
        BY <1>1, <2>2, <4>1, LabelsProperties
    <3>2. n <= p
      <4> SUFFICES ASSUME n > p PROVE FALSE
        BY <1>4
      <4>1. r[n] >= next /\ r[n] \in Nat
        BY <1>5, <2>0
      <4> QED
        BY <1>1, <3>1, <4>1
    <3>3. p = n
      BY <1>4, <3>2
    <3>4. u = v
      BY <1>2, <3>3 DEF Follows
    <3>5. r[n] = q[l]
      BY <1>2, <1>3, <1>5, <2>0, <3>2, <3>4
    <3> QED
      BY <1>3, <3>1, <3>5 DEF Rightmost
  <2>3. CASE <<r[n], c>> \notin DOMAIN g
    <3>1. PICK j \in p + 1 .. n : <<r[n], c>> = <<r[j - 1], u[j]>>
      BY <1>11, <2>1, <2>3
    <3>2. r[n] = r[j - 1] /\ j - 1 \in 0 .. n
      BY <1>7, <3>1
    <3>3. n = j - 1
      <4>1. \A a, b \in 0 .. n : r[a] = r[b] => a = b
        BY <1>5
      <4> QED
        BY <2>0, <3>2, <4>1
    <3> QED
      BY <1>4, <3>3
  <2> QED
    BY <2>2, <2>3
<1>22. Rightmost(h, r, u)
  BY <1>2, <1>20, <1>21 DEF Rightmost
<1>24. Closed(h, reg, r, u, n)
  <2> SUFFICES ASSUME NEW e \in DOMAIN h, (\E i \in 0 .. n : e[1] = r[i]) \/ Known(reg, e[1]),
                      ~ \E i \in 1 .. n : e = <<r[i - 1], u[i]>>
               PROVE  Known(reg, h[e])
    BY DEF Closed
  <2>1. e \in DOMAIN g /\ h[e] = g[e]
    <3>1. e \in DOMAIN g
      BY <1>7, <1>11
    <3> QED
      BY <1>12, <3>1
  <2>2. (\E i \in 0 .. p : e[1] = q[i]) \/ Known(reg, e[1])
    <3> SUFFICES ASSUME NEW i \in 0 .. n, e[1] = r[i] PROVE \E j \in 0 .. p : e[1] = q[j]
      OBVIOUS
    <3>1. e[1] < next
      BY <1>10, <2>1
    <3>2. i <= p
      <4> SUFFICES ASSUME i > p PROVE FALSE
        BY <1>4
      <4>1. r[i] >= next /\ r[i] \in Nat
        BY <1>5
      <4> QED
        BY <1>1, <3>1, <4>1
    <3>3. \A j \in 0 .. n : j <= p => r[j] = q[j]
      BY <1>5
    <3>4. i \in 0 .. p
      BY <1>4, <3>2
    <3> QED
      BY <3>2, <3>3, <3>4
  <2>3. Known(reg, g[e]) \/ \E i \in 1 .. p : e = <<q[i - 1], v[i]>>
    BY <2>1, <2>2 DEF Builder, Closed
  <2>4. ASSUME NEW i \in 1 .. p, e = <<q[i - 1], v[i]>> PROVE FALSE
    <3>1. i \in 1 .. n /\ i - 1 \in 0 .. n /\ i - 1 <= p
      BY <1>4
    <3>2. r[i - 1] = q[i - 1]
      BY <1>5, <3>1
    <3>3. u[i] = v[i]
      BY DEF Follows, Share
    <3> QED
      BY <2>4, <3>1, <3>2, <3>3
  <2> QED
    BY <2>1, <2>3, <2>4
<1>25. AllEnd(h, G, reg, r, u)
  <2>1. ASSUME NEW k \in Nat, NEW x \in Nat, NEW w
        PROVE  Accepts(h, G, k, x, w) <=> Accepts(g, F, k, x, w) \/ OnPath(r, u, k, x, w)
    BY <1>16, Extending DEF Extended
  <2>2. ASSUME NEW k \in DOMAIN reg PROVE Ends(h, G, reg[k])
    <3>1. reg[k] \in Nat /\ Ends(g, F, reg[k])
      BY <1>0 DEF Registered, Builder, AllEnd
    <3> QED
      BY <2>1, <3>1 DEF Ends
  <2>3. ASSUME NEW i \in 1 .. n PROVE Ends(h, G, r[i])
    <3>1. i \in 0 .. n /\ n - i <= n
      OBVIOUS
    <3>2. r[i] \in Nat
      BY <1>5, <3>1
    <3>3. OnPath(r, u, n, r[i], Suffix(u, i))
      BY <1>2, <3>1 DEF OnPath
    <3> QED
      BY <2>1, <3>2, <3>3 DEF Ends
  <2> QED
    BY <1>2, <2>2, <2>3 DEF AllEnd
<1>23. Builder(h, G, reg, r, u, n, next + n - p)
  BY <1>17, <1>18, <1>19, <1>24, <1>25 DEF Builder
<1> QED
  BY <1>2, <1>16, <1>22, <1>23

\* Redirecting an edge changes no label.
LEMMA SameLabels ==
  ASSUME NEW g, NEW h, DOMAIN g = DOMAIN h
  PROVE  \A n : Labels(g, n) = Labels(h, n)
BY DEF Labels, TokenSet!Labels

\* insert grows the path of its word from what is left of the last one's.
GrownTo(q, word, p, m, r) ==
  /\ Grown(m.edges, r, p, word, edges')
  /\ minimizedNodes' = m.register
  /\ uncheckedNodes' = [i \in 1 .. Len(word) |-> Unchecked(r, word, i)]
  /\ nextId' = nextId + Len(word) - p
  /\ final' = final \cup {r[Len(word)]}
  /\ previousWord' = word

\* Insert, its loop of new nodes written out.
LEMMA InsertGrows ==
  ASSUME NEW q, Building(q), NEW word \in Seq(Nat \ Digit), TokenSet!Insert(word),
         NEW p, p = TokenSet!CommonPrefix(word), Share(p, word, previousWord),
         NEW m, m = TokenSet!Minimized(p), Graph(m.edges),
         NEW r, r = Branch(q, p, word, nextId), Branches(m.edges, q, p, word, nextId, r)
  PROVE  GrownTo(q, word, p, m, r)
<1>1. PICK n \in Nat : n = Len(word)
  BY LenProperties
<1>2. Path(edges, q, previousWord, Len(previousWord)) /\ Bounded(edges, final, q, previousWord, nextId)
  BY DEF Building, Builder
<1>3. previousWord \in Seq(Nat \ Digit) /\ nextId \in Nat /\ q[0] = Root
  BY <1>2 DEF Path, Bounded
<1>4. PICK l \in Nat : l = Len(previousWord)
  BY <1>3, LenProperties
<1>5. p \in 0 .. n /\ p \in 0 .. l /\ p \in Nat
  <2>1. p \in 0 .. n /\ p \in 0 .. l
    BY <1>1, <1>4 DEF Share
  <2> QED
    BY <2>1
<1>6. /\ r \in [0 .. n -> Nat] /\ r[0] = Root
      /\ \A i, j \in 0 .. n : r[i] = r[j] => i = j
      /\ \A i \in 0 .. n : i <= p => r[i] = q[i]
      /\ \A i \in 0 .. n : i > p => r[i] = nextId + i - p - 1
  BY <1>1 DEF Branches
<1>7. uncheckedNodes = [i \in 1 .. l |-> Unchecked(q, previousWord, i)]
  BY <1>4 DEF Building
<1> DEFINE parent(i) == IF i > p + 1 THEN nextId + i - p - 2
                          ELSE IF p = 0 THEN Root ELSE uncheckedNodes[p].child
           fresh == [i \in 1 .. Len(word) - p |->
                      [parent |-> parent(p + i), char |-> word[p + i], child |-> nextId + i - 1]]
           new == {<<u.parent, u.char>> : u \in TokenSet!ToSet(fresh)}
<1>8. /\ edges' = [e \in DOMAIN m.edges \cup new |->
                    IF e \in new THEN (CHOOSE u \in TokenSet!ToSet(fresh) : e = <<u.parent, u.char>>).child
                                 ELSE m.edges[e]]
      /\ minimizedNodes' = m.register
      /\ uncheckedNodes' = SubSeq(uncheckedNodes, 1, p) \o fresh
      /\ nextId' = nextId + Len(fresh)
      /\ final' = final \cup {parent(Len(word) + 1)}
      /\ previousWord' = word
  BY DEF TokenSet!Insert
<1>9. ASSUME NEW i \in p + 1 .. n + 1 PROVE parent(i) = r[i - 1]
  <2>1. i - 1 \in 0 .. n /\ i \in Nat
    BY <1>5
  <2>2. CASE i = p + 1
    <3>1. i - 1 = p /\ p \in 0 .. n /\ p <= p /\ ~(i > p + 1)
      BY <1>5, <2>2
    <3>2. r[i - 1] = q[p]
      BY <1>6, <3>1
    <3>3. CASE p = 0
      BY <1>3, <3>1, <3>2, <3>3
    <3>4. CASE p # 0
      <4>1. p \in 1 .. l
        BY <1>5, <3>4
      <4>2. uncheckedNodes[p].child = q[p]
        BY <1>7, <4>1 DEF Unchecked
      <4> QED
        BY <3>1, <3>2, <3>4, <4>2
    <3> QED
      BY <3>3, <3>4
  <2>3. CASE i # p + 1
    <3>1. i > p + 1 /\ i - 1 > p
      BY <1>5, <2>3
    <3>2. parent(i) = nextId + i - p - 2
      BY <3>1
    <3>3. r[i - 1] = nextId + (i - 1) - p - 1
      BY <1>6, <2>1, <3>1
    <3>4. nextId + i - p - 2 = nextId + (i - 1) - p - 1
      BY <1>3, <1>5, <2>1
    <3> QED
      BY <3>2, <3>3, <3>4
  <2> QED
    BY <2>2, <2>3
<1>10. ASSUME NEW i \in 1 .. n - p PROVE fresh[i] = Unchecked(r, word, p + i)
  <2>1. PICK j \in p + 1 .. n : j = p + i /\ j \in p + 1 .. n + 1 /\ j \in 0 .. n /\ j > p
    <3>1. p + i \in p + 1 .. n /\ p + i \in p + 1 .. n + 1 /\ p + i \in 0 .. n /\ p + i > p
      BY <1>5
    <3> QED
      BY <3>1
  <2>2. parent(j) = r[j - 1]
    <3> HIDE DEF parent
    <3> QED
      BY <1>9, <2>1
  <2>3. nextId + i - 1 = r[j]
    <3>1. r[j] = nextId + j - p - 1
      BY <1>6, <2>1
    <3>2. nextId + i - 1 = nextId + j - p - 1
      <4>1. nextId + i - 1 = nextId + (p + i) - p - 1
        BY <1>3, <1>5
      <4> QED
        BY <2>1, <4>1
    <3> QED
      BY <3>1, <3>2
  <2>4. fresh[i] = [parent |-> parent(j), char |-> word[j], child |-> nextId + i - 1]
    <3> HIDE DEF parent
    <3> QED
      BY <1>1, <2>1
  <2> HIDE DEF fresh, parent
  <2>5. fresh[i] = [parent |-> r[j - 1], char |-> word[j], child |-> r[j]]
    BY <2>2, <2>3, <2>4
  <2>6. fresh[i] = Unchecked(r, word, j)
    BY <2>5 DEF Unchecked
  <2> QED
    BY <2>1, <2>6
<1>11. DOMAIN fresh = 1 .. n - p /\ fresh = [i \in 1 .. n - p |-> fresh[i]] /\ Len(fresh) = n - p
  <2>1. n - p \in Nat
    BY <1>5
  <2>2. fresh = [i \in 1 .. n - p |-> fresh[i]] /\ DOMAIN fresh = 1 .. n - p
    BY <1>1
  <2> HIDE DEF fresh
  <2> QED
    BY <2>1, <2>2
<1>12. \A u : u \in TokenSet!ToSet(fresh) <=> \E i \in p + 1 .. n : u = Unchecked(r, word, i)
  <2>1. \A u : u \in TokenSet!ToSet(fresh) <=> \E i \in 1 .. n - p : u = fresh[i]
    <3> HIDE DEF fresh
    <3> QED
      BY <1>11 DEF TokenSet!ToSet
  <2>2. ASSUME NEW u, NEW i \in 1 .. n - p, u = fresh[i] PROVE \E j \in p + 1 .. n : u = Unchecked(r, word, j)
    <3>1. p + i \in p + 1 .. n
      BY <1>5
    <3> HIDE DEF fresh
    <3> QED
      BY <1>10, <2>2, <3>1
  <2>3. ASSUME NEW u, NEW j \in p + 1 .. n, u = Unchecked(r, word, j) PROVE \E i \in 1 .. n - p : u = fresh[i]
    <3>1. j - p \in 1 .. n - p /\ p + (j - p) = j
      BY <1>5
    <3>2. fresh[j - p] = Unchecked(r, word, j)
      <4> HIDE DEF fresh
      <4> QED
        BY <1>10, <3>1
    <3> HIDE DEF fresh
    <3> QED
      BY <2>3, <3>1, <3>2
  <2> HIDE DEF fresh
  <2> QED
    BY <2>1, <2>2, <2>3
<1> HIDE DEF parent, fresh
<1>13. /\ \A i : Unchecked(r, word, i).parent = r[i - 1]
       /\ \A i : Unchecked(r, word, i).char = word[i]
       /\ \A i : Unchecked(r, word, i).child = r[i]
  BY DEF Unchecked
<1>14. \A e : e \in new <=> \E i \in p + 1 .. n : e = <<r[i - 1], word[i]>>
  <2>1. \A e : e \in new <=> \E u \in TokenSet!ToSet(fresh) : e = <<u.parent, u.char>>
    OBVIOUS
  <2> HIDE DEF new
  <2>2. ASSUME NEW e, e \in new PROVE \E i \in p + 1 .. n : e = <<r[i - 1], word[i]>>
    <3>1. PICK u \in TokenSet!ToSet(fresh) : e = <<u.parent, u.char>>
      BY <2>1, <2>2
    <3>2. PICK i \in p + 1 .. n : u = Unchecked(r, word, i)
      BY <1>12
    <3> QED
      BY <1>13, <3>1, <3>2
  <2>3. ASSUME NEW i \in p + 1 .. n PROVE <<r[i - 1], word[i]>> \in new
    <3>1. Unchecked(r, word, i) \in TokenSet!ToSet(fresh)
      BY <1>12
    <3> QED
      BY <1>13, <2>1, <3>1
  <2> QED
    BY <2>2, <2>3
<1>15. new = EdgesOf(r, word, p + 1)
  <2>1. \A e : e \in EdgesOf(r, word, p + 1) <=> \E i \in p + 1 .. n : e = <<r[i - 1], word[i]>>
    BY <1>1 DEF EdgesOf
  <2> HIDE DEF new
  <2> QED
    BY <1>14, <2>1
<1> HIDE DEF new
<1>16. DOMAIN edges' = DOMAIN m.edges \cup new
  BY <1>8
<1>17. ASSUME NEW i \in p + 1 .. n PROVE edges'[<<r[i - 1], word[i]>>] = r[i]
  <2>1. PICK e : e = <<r[i - 1], word[i]>>
    OBVIOUS
  <2>2. e \in new
    BY <1>14, <2>1
  <2>3. edges'[e] = (CHOOSE u \in TokenSet!ToSet(fresh) : e = <<u.parent, u.char>>).child
    BY <1>8, <2>2
  <2>4. PICK u : u = CHOOSE x \in TokenSet!ToSet(fresh) : e = <<x.parent, x.char>>
    OBVIOUS
  <2>5. \E x \in TokenSet!ToSet(fresh) : e = <<x.parent, x.char>>
    BY <1>12, <1>13, <2>1
  <2>6. u \in TokenSet!ToSet(fresh) /\ e = <<u.parent, u.char>>
    BY <2>4, <2>5
  <2>7. PICK j \in p + 1 .. n : u = Unchecked(r, word, j)
    BY <1>12, <2>6
  <2>8. r[j - 1] = r[i - 1]
    <3>1. u.parent = r[j - 1]
      BY <1>13, <2>7
    <3>2. <<r[i - 1], word[i]>> = <<u.parent, u.char>>
      BY <2>1, <2>6
    <3> QED
      BY <3>1, <3>2
  <2>9. j - 1 \in 0 .. n /\ i - 1 \in 0 .. n
    BY <1>5
  <2>10. j = i
    <3>1. \A a, b \in 0 .. n : r[a] = r[b] => a = b
      BY <1>6
    <3>2. j - 1 = i - 1
      BY <2>8, <2>9, <3>1
    <3> QED
      BY <3>2
  <2>11. edges'[e] = u.child
    BY <2>3, <2>4
  <2> QED
    BY <1>13, <2>1, <2>7, <2>10, <2>11
<1>18. ASSUME NEW e \in DOMAIN m.edges, \A i \in p + 1 .. Len(word) : e # <<r[i - 1], word[i]>>
       PROVE  edges'[e] = m.edges[e]
  <2>1. e \notin new
    BY <1>1, <1>14, <1>18
  <2> QED
    BY <1>8, <2>1
<1>19. edges' \in [DOMAIN edges' -> Nat]
  <2>1. ASSUME NEW e \in DOMAIN edges' PROVE edges'[e] \in Nat
    <3>1. CASE e \in new
      <4>1. PICK i \in p + 1 .. n : e = <<r[i - 1], word[i]>>
        BY <1>14, <3>1
      <4>2. i \in 0 .. n
        BY <1>5
      <4> QED
        BY <1>6, <1>17, <4>1, <4>2
    <3>2. CASE e \notin new
      <4>1. e \in DOMAIN m.edges /\ edges'[e] = m.edges[e]
        BY <1>8, <1>16, <3>2
      <4> QED
        BY <4>1 DEF Graph
    <3> QED
      BY <3>1, <3>2
  <2>2. edges' = [e \in DOMAIN edges' |-> edges'[e]]
    BY <1>8
  <2> QED
    BY <2>1, <2>2
<1>20. Grown(m.edges, r, p, word, edges')
  BY <1>1, <1>15, <1>16, <1>17, <1>18, <1>19 DEF Grown
<1>21. nextId' = nextId + Len(word) - p
  <2>1. nextId' = nextId + (n - p)
    BY <1>8, <1>11
  <2> QED
    BY <1>1, <1>3, <1>5, <2>1
<1>22. final' = final \cup {r[Len(word)]}
  <2>1. parent(n + 1) = r[n + 1 - 1]
    <3>1. n + 1 \in p + 1 .. n + 1
      BY <1>5
    <3> QED
      BY <1>9, <3>1
  <2>2. n + 1 - 1 = n
    OBVIOUS
  <2> QED
    BY <1>1, <1>8, <2>1, <2>2
<1>23. uncheckedNodes' = [i \in 1 .. Len(word) |-> Unchecked(r, word, i)]
  <2> DEFINE T == {Unchecked(q, previousWord, i) : i \in 1 .. l} \cup {Unchecked(r, word, i) : i \in 1 .. n}
             path == [i \in 1 .. n |-> Unchecked(r, word, i)]
  <2>1. uncheckedNodes \in Seq(T) /\ Len(uncheckedNodes) = l
    <3>1. uncheckedNodes \in [1 .. l -> T] /\ DOMAIN uncheckedNodes = 1 .. l
      BY <1>7
    <3> HIDE DEF T
    <3> QED
      BY <3>1
  <2>2. path \in Seq(T) /\ Len(path) = n /\ \A i \in 1 .. n : path[i] = Unchecked(r, word, i)
    <3>1. path \in [1 .. n -> T] /\ DOMAIN path = 1 .. n
      OBVIOUS
    <3>2. \A i \in 1 .. n : path[i] = Unchecked(r, word, i)
      OBVIOUS
    <3> HIDE DEF T, path
    <3> QED
      BY <3>1, <3>2
  <2>3. fresh \in Seq(T)
    <3>1. \A i \in 1 .. n - p : fresh[i] \in T
      <4>1. \A i \in 1 .. n - p : p + i \in 1 .. n
        BY <1>5
      <4> QED
        BY <1>10, <4>1
    <3>2. n - p \in Nat
      BY <1>5
    <3> HIDE DEF T
    <3>3. fresh \in [1 .. n - p -> T]
      BY <1>11, <3>1
    <3> QED
      BY <1>11, <3>2, <3>3
  <2> HIDE DEF T, path
  <2>4. PICK s : s = SubSeq(uncheckedNodes, 1, p)
    OBVIOUS
  <2>5. s \in Seq(T) /\ Len(s) = p /\ \A i \in 1 .. p : s[i] = uncheckedNodes[i]
    <3>1. \A i \in 1 .. p : i \in 1 .. l
      BY <1>5
    <3>2. \A i \in 1 .. p : uncheckedNodes[i] \in T
      BY <2>1, <3>1, ElementOfSeq
    <3>3. /\ SubSeq(uncheckedNodes, 1, p) \in Seq(T)
          /\ Len(SubSeq(uncheckedNodes, 1, p)) = IF 1 <= p THEN p - 1 + 1 ELSE 0
          /\ \A i \in 1 .. p - 1 + 1 : SubSeq(uncheckedNodes, 1, p)[i] = uncheckedNodes[1 + i - 1]
      BY <1>5, <2>1, <3>2, SubSeqProperties
    <3>4. Len(s) = p
      BY <1>5, <2>4, <3>3
    <3>5. ASSUME NEW i \in 1 .. p PROVE s[i] = uncheckedNodes[i]
      <4>1. i \in 1 .. p - 1 + 1 /\ 1 + i - 1 = i
        BY <1>5
      <4> QED
        BY <2>4, <3>3, <4>1
    <3> QED
      BY <2>4, <3>3, <3>4, <3>5
  <2>6. PICK t : t = s \o fresh
    OBVIOUS
  <2>7. t \in Seq(T) /\ Len(t) = n
        /\ \A i \in 1 .. n : t[i] = IF i <= p THEN s[i] ELSE fresh[i - p]
    <3>1. p + (n - p) = n
      BY <1>5
    <3>2. /\ s \o fresh \in Seq(T) /\ Len(s \o fresh) = Len(s) + Len(fresh)
          /\ \A i \in 1 .. Len(s) + Len(fresh) :
               (s \o fresh)[i] = IF i <= Len(s) THEN s[i] ELSE fresh[i - Len(s)]
      BY <2>3, <2>5, ConcatProperties
    <3> QED
      BY <1>11, <2>5, <2>6, <3>1, <3>2
  <2>8. ASSUME NEW i \in 1 .. n PROVE t[i] = path[i]
    <3>1. CASE i <= p
      <4>1. i \in 1 .. p /\ i \in 1 .. l /\ i \in 0 .. n /\ i - 1 \in 0 .. n /\ i - 1 <= p
        BY <1>5, <3>1
      <4>2. t[i] = Unchecked(q, previousWord, i)
        BY <1>7, <2>5, <2>7, <3>1, <4>1
      <4>3. r[i] = q[i] /\ r[i - 1] = q[i - 1]
        BY <1>6, <3>1, <4>1
      <4>4. word[i] = previousWord[i]
        BY <4>1 DEF Share
      <4> QED
        BY <2>2, <4>2, <4>3, <4>4 DEF Unchecked
    <3>2. CASE i > p
      <4>1. i - p \in 1 .. n - p /\ p + (i - p) = i /\ ~(i <= p)
        BY <1>5, <3>2
      <4>2. t[i] = fresh[i - p]
        BY <2>7, <4>1
      <4>3. fresh[i - p] = Unchecked(r, word, i)
        BY <1>10, <4>1
      <4> QED
        BY <2>2, <4>2, <4>3
    <3> QED
      BY <1>5, <3>1, <3>2
  <2>9. t = path
    BY <2>2, <2>7, <2>8, SeqEqual
  <2> QED
    BY <1>1, <1>8, <2>4, <2>6, <2>9 DEF path
<1> QED
  BY <1>8, <1>20, <1>21, <1>22, <1>23 DEF GrownTo

\* What insert leaves, in the new state.
Inserted(word) ==
  /\ \E r : /\ Builder(edges', final', minimizedNodes', r, word, Len(word), nextId')
            /\ Rightmost(edges', r, word)
            /\ uncheckedNodes' = [i \in 1 .. Len(word) |-> Unchecked(r, word, i)]
  /\ previousWord' = word
  /\ nextId <= nextId' /\ Len(word) < nextId' - Root
  /\ \A k \in Nat : \A w :
       Accepts(edges', final', k, Root, w) <=> Accepts(edges, final, k, Root, w) \/ (w = word /\ Len(word) <= k)

\* insert adds its word, and no other.
LEMMA Inserting ==
  ASSUME NEW q, Building(q), Rightmost(edges, q, previousWord),
         NEW word \in Seq(Nat \ Digit), TokenSet!Insert(word)
  PROVE  Inserted(word)
<1>1. Path(edges, q, previousWord, Len(previousWord)) /\ Bounded(edges, final, q, previousWord, nextId)
  BY DEF Building, Builder
<1>2. previousWord \in Seq(Nat \ Digit) /\ nextId \in Nat
  BY <1>1 DEF Path, Bounded
<1>3. word \in Words /\ previousWord \in Words
  BY <1>2, SeqMonotonic DEF Words
<1>4. PICK p : p = TokenSet!CommonPrefix(word)
  OBVIOUS
<1>5. Share(p, word, previousWord)
  BY <1>3, <1>4, CommonPrefixProperties
<1>6. Follows(word, previousWord, p)
  <2>1. ~TokenSet!Precedes(word, previousWord)
    BY DEF TokenSet!Insert
  <2>2. /\ p = Len(word) => word = previousWord
        /\ p # Len(word) /\ p # Len(previousWord) => word[p + 1] > previousWord[p + 1]
    BY <1>3, <1>5, <2>1, NextCharacter
  <2> QED
    BY <1>5, <2>2 DEF Follows
<1>7. p \in 0 .. Len(previousWord)
  BY <1>5 DEF Share
<1>8. PICK m : m = TokenSet!Minimized(p)
  OBVIOUS
<1>9. CheckedTo(q, p, m)
  BY <1>7, <1>8, Minimizing
<1>10. /\ Builder(m.edges, final, m.register, q, previousWord, p, nextId)
       /\ DOMAIN m.edges = DOMAIN edges
       /\ SameLanguages(edges, final, m.edges, final)
  BY <1>9 DEF CheckedTo, Checked
<1>11. Graph(m.edges)
  BY <1>10 DEF Builder, Path
<1>12. Rightmost(m.edges, q, previousWord)
  <2>1. \A n : Labels(m.edges, n) = Labels(edges, n)
    BY <1>10, SameLabels
  <2> QED
    BY <2>1 DEF Rightmost
<1>13. PICK r : r = Branch(q, p, word, nextId)
  OBVIOUS
<1>14. Branches(m.edges, q, p, word, nextId, r)
  BY <1>6, <1>10, <1>12, <1>13, BranchProperties
<1>15. GrownTo(q, word, p, m, r)
  BY <1>4, <1>5, <1>8, <1>11, <1>13, <1>14, InsertGrows
<1>16. PICK G : G = final \cup {r[Len(word)]}
  OBVIOUS
<1>17. PICK h : h = edges'
  OBVIOUS
<1>18. /\ Extends(m.edges, final, r, word, h, G)
       /\ Builder(h, G, m.register, r, word, Len(word), nextId + Len(word) - p)
       /\ Rightmost(h, r, word)
  <2>1. Grown(m.edges, r, p, word, h)
    BY <1>15, <1>17 DEF GrownTo
  <2> QED
    BY <1>6, <1>10, <1>12, <1>13, <1>16, <2>1, Growing
<1>19. /\ final' = G /\ minimizedNodes' = m.register /\ nextId' = nextId + Len(word) - p
       /\ previousWord' = word /\ uncheckedNodes' = [i \in 1 .. Len(word) |-> Unchecked(r, word, i)]
  BY <1>15, <1>16 DEF GrownTo
<1>20. PICK n \in Nat : n = Len(word)
  BY LenProperties
<1>21. p \in 0 .. n
  BY <1>5, <1>20 DEF Share
<1>22. r \in [0 .. n -> Nat] /\ r[0] = Root /\ \A i, j \in 0 .. n : r[i] = r[j] => i = j
  BY <1>14, <1>20 DEF Branches
<1>23. Root \in Nat
  <2>1. 0 \in 0 .. n
    OBVIOUS
  <2> QED
    BY <1>22, <2>1
<1>24. nextId <= nextId' /\ Len(word) < nextId' - Root
  <2>1. nextId' \in Nat /\ nextId <= nextId'
    BY <1>2, <1>19, <1>20, <1>21
  <2>2. r[n] < nextId' /\ Root + n <= r[n] /\ r[n] \in Nat
    <3>1. n \in 0 .. n
      OBVIOUS
    <3>2. r[n] < nextId + n - p /\ Root + n <= r[n]
      BY <1>14, <1>20, <3>1 DEF Branches
    <3>3. nextId' = nextId + n - p
      BY <1>19, <1>20
    <3>4. r[n] \in Nat
      BY <1>22, <3>1
    <3>6. r[n] < nextId'
      BY <3>2, <3>3
    <3>7. Root + n <= r[n]
      BY <3>2
    <3> QED
      BY <3>4, <3>6, <3>7
  <2>3. n < nextId' - Root
    <3>1. PICK x \in Nat : x = r[n]
      BY <2>2
    <3>2. PICK y \in Nat : y = nextId'
      BY <2>1
    <3>3. x < y /\ Root + n <= x
      BY <2>2, <3>1, <3>2
    <3>4. n < y - Root
      BY <1>23, <3>3
    <3> QED
      BY <3>2, <3>4
  <2> QED
    BY <1>20, <2>1, <2>3
<1>25. ASSUME NEW k \in Nat, NEW w
       PROVE  Accepts(edges', final', k, Root, w) <=>
                Accepts(edges, final, k, Root, w) \/ (w = word /\ Len(word) <= k)
  <2>1. Accepts(h, G, k, Root, w) <=> Accepts(m.edges, final, k, Root, w) \/ OnPath(r, word, k, Root, w)
    <3>1. Extended(m.edges, final, r, word, h, G)
      BY <1>18, Extending
    <3> QED
      BY <1>23, <3>1 DEF Extended
  <2>2. Accepts(m.edges, final, k, Root, w) <=> Accepts(edges, final, k, Root, w)
    BY <1>10, <1>23 DEF SameLanguages
  <2>3. Suffix(word, 0) = word
    BY <1>3, SuffixProperties
  <2>4. ASSUME OnPath(r, word, k, Root, w) PROVE w = word /\ Len(word) <= k
    <3>1. PICK i \in 0 .. n : Root = r[i] /\ w = Suffix(word, i) /\ n - i <= k
      BY <1>20, <2>4 DEF OnPath
    <3>2. i = 0
      <4>1. \A a, b \in 0 .. n : r[a] = r[b] => a = b
        BY <1>22
      <4>2. 0 \in 0 .. n /\ r[i] = r[0]
        BY <1>22, <3>1
      <4> QED
        BY <4>1, <4>2
    <3> QED
      BY <1>20, <2>3, <3>1, <3>2
  <2>5. ASSUME w = word, Len(word) <= k PROVE OnPath(r, word, k, Root, w)
    <3>1. 0 \in 0 .. n /\ n - 0 <= k
      BY <1>20, <2>5
    <3> QED
      BY <1>20, <1>22, <2>3, <2>5, <3>1 DEF OnPath
  <2> QED
    BY <1>17, <1>19, <2>1, <2>2, <2>4, <2>5
<1>26. /\ Builder(edges', final', minimizedNodes', r, word, Len(word), nextId')
       /\ Rightmost(edges', r, word)
       /\ uncheckedNodes' = [i \in 1 .. Len(word) |-> Unchecked(r, word, i)]
  BY <1>17, <1>18, <1>19
<1> QED
  BY <1>19, <1>24, <1>25, <1>26 DEF Inserted

\* build minimizes what is left of the last path, and changes no language.
LEMMA Finishing ==
  ASSUME NEW q, Building(q), TokenSet!Finish
  PROVE  /\ SameLanguages(edges, final, edges', final')
         /\ nextId' = nextId
         /\ Builder(edges', final', minimizedNodes', q, previousWord', 0, nextId')
<1>1. Path(edges, q, previousWord, Len(previousWord))
  BY DEF Building, Builder
<1>2. PICK l \in Nat : l = Len(previousWord)
  BY <1>1, LenProperties DEF Path
<1>3. PICK m : m = TokenSet!Minimized(0)
  OBVIOUS
<1>4. CheckedTo(q, 0, m)
  <2>1. 0 \in 0 .. Len(previousWord)
    BY <1>2
  <2> QED
    BY <1>3, <2>1, Minimizing
<1>5. /\ edges' = m.edges /\ minimizedNodes' = m.register
      /\ final' = final /\ nextId' = nextId /\ previousWord' = previousWord
  BY <1>3 DEF TokenSet!Finish
<1> QED
  BY <1>4, <1>5 DEF CheckedTo, Checked

-----------------------------------------------------------------------------
(* The terms of an index                                                   *)

\* Lower case keeps a text a text.
LEMMA LowerCaseType ==
  ASSUME NEW text \in Words
  PROVE  ToLowerCase(text) \in Words
<1>1. PICK n \in Nat : n = Len(text) /\ DOMAIN text = 1 .. n
  BY LenProperties DEF Words
<1>2. PICK l \in Nat : l = Len(UpperCase) /\ DOMAIN UpperCase = 1 .. l
  BY LettersAssumption, LenProperties
<1>3. ASSUME NEW i \in 1 .. n PROVE ToLowerCase(text)[i] \in Nat
  <2>1. CASE \E k \in DOMAIN UpperCase : UpperCase[k] = text[i]
    <3>1. PICK k : k = CHOOSE x \in DOMAIN UpperCase : UpperCase[x] = text[i]
      OBVIOUS
    <3>2. k \in DOMAIN UpperCase
      BY <2>1, <3>1
    <3>3. LowerCase[k] \in Nat
      <4>1. k \in 1 .. Len(LowerCase)
        BY <1>2, <3>2, LettersAssumption
      <4> QED
        BY <4>1, LettersAssumption, ElementOfSeq
    <3>4. ToLowerCase(text)[i] = LowerCase[k]
      BY <1>1, <2>1, <3>1 DEF ToLowerCase
    <3> QED
      BY <3>3, <3>4
  <2>2. CASE ~\E k \in DOMAIN UpperCase : UpperCase[k] = text[i]
    <3>1. ToLowerCase(text)[i] = text[i]
      BY <1>1, <2>2 DEF ToLowerCase
    <3> QED
      BY <1>1, <3>1 DEF Words
  <2> QED
    BY <2>1, <2>2
<1>4. ToLowerCase(text) = [i \in 1 .. n |-> ToLowerCase(text)[i]]
  BY <1>1 DEF ToLowerCase
<1>5. ToLowerCase(text) \in [1 .. n -> Nat]
  BY <1>3, <1>4
<1> QED
  BY <1>5 DEF Words

\* Where the token ends that starts at p.
TokenEnd(str, p) == Min({q \in p .. Len(str) : str[q] = Space} \cup {Len(str) + 1})

\* A token ends within the text, or with it.
LEMMA TokenEndProperties ==
  ASSUME NEW str \in Words, NEW p \in Nat, p <= Len(str)
  PROVE  TokenEnd(str, p) \in p .. Len(str) + 1
<1> DEFINE S == {q \in p .. Len(str) : str[q] = Space} \cup {Len(str) + 1}
<1>1. PICK n \in Nat : n = Len(str)
  BY LenProperties DEF Words
<1>2. \A q \in S : q \in p .. n + 1
  BY <1>1
<1>3. S \in SUBSET Nat /\ S # {}
  <2>1. \A q \in S : q \in Nat
    <3>1. \A q \in p .. n + 1 : q \in Nat
      OBVIOUS
    <3> HIDE DEF S
    <3> QED
      BY <1>2, <3>1
  <2>2. Len(str) + 1 \in S
    OBVIOUS
  <2> HIDE DEF S
  <2> QED
    BY <2>1, <2>2
<1>4. TokenEnd(str, p) = Min(S)
  BY DEF TokenEnd
<1> HIDE DEF S
<1>5. PICK q \in S : \A r \in S : q <= r
  BY <1>3, Least
<1>6. Min(S) \in S
  BY <1>5 DEF Min
<1> QED
  BY <1>1, <1>2, <1>4, <1>6

\* The token that starts at p, if there is one.
Token(str, p) == IF TokenEnd(str, p) > p THEN <<SubSeq(str, p, TokenEnd(str, p) - 1)>> ELSE <<>>

\* A token is a word.
LEMMA TokenType ==
  ASSUME NEW str \in Words, NEW p \in Nat \ {0}, p <= Len(str)
  PROVE  Token(str, p) \in Seq(Words)
<1>1. PICK n \in Nat : n = Len(str)
  BY LenProperties DEF Words
<1>2. PICK end \in p .. n + 1 : end = TokenEnd(str, p)
  BY <1>1, TokenEndProperties
<1>3. SubSeq(str, p, end - 1) \in Words
  <2>1. p \in Int /\ end - 1 \in Int
    OBVIOUS
  <2>2. \A i \in p .. end - 1 : str[i] \in Nat
    <3>1. \A i \in p .. end - 1 : i \in 1 .. Len(str)
      BY <1>1
    <3> QED
      BY <3>1, ElementOfSeq DEF Words
  <2> QED
    BY <2>1, <2>2, SubSeqProperties DEF Words
<1>4. CASE end > p
  <2>1. Token(str, p) = <<SubSeq(str, p, end - 1)>>
    BY <1>2, <1>4 DEF Token
  <2> QED
    BY <1>3, <2>1
<1>5. CASE ~(end > p)
  <2>1. Token(str, p) = <<>>
    BY <1>2, <1>5 DEF Token
  <2> QED
    BY <2>1
<1> QED
  BY <1>4, <1>5

\* The tokenizer makes a list of words.
LEMMA TokensType ==
  ASSUME NEW text \in Words
  PROVE  Tokens(text) \in Seq(Words)
<1>1. PICK str : str = ToLowerCase(text)
  OBVIOUS
<1>2. str \in Words
  BY <1>1, LowerCaseType
<1>3. PICK n \in Nat : n = Len(str)
  BY <1>2, LenProperties DEF Words
<1> DEFINE D == Nat \ {0}
           V == Seq(Words)
           rank == [p \in D |-> IF p > n THEN 0 ELSE n + 1 - p]
           Below(p) == Lower(D, rank, p)
           Value(p, h) == IF p > Len(str) THEN <<>> ELSE Token(str, p) \o h[TokenEnd(str, p) + 1]
           step == [p \in D |-> [h \in [Below(p) -> V] |-> Value(p, h)]]
           Eq(f) == f = [p \in Nat \ {0} |->
                          LET end == Min({q \in p .. Len(str) : str[q] = Space} \cup {Len(str) + 1})
                          IN  IF p > Len(str) THEN <<>>
                              ELSE (IF end > p THEN <<SubSeq(str, p, end - 1)>> ELSE <<>>) \o f[end + 1]]
           from == CHOOSE f : Eq(f)
<1>4. rank \in [D -> Nat]
  OBVIOUS
<1>5. ASSUME NEW p \in D, p <= n PROVE TokenEnd(str, p) + 1 \in Below(p)
  <2>1. PICK end \in p .. n + 1 : end = TokenEnd(str, p)
    BY <1>2, <1>3, <1>5, TokenEndProperties
  <2>2. end + 1 \in D /\ rank[end + 1] < rank[p]
    <3>1. end + 1 \in D /\ rank[p] = n + 1 - p
      BY <1>5
    <3>2. CASE end + 1 > n
      BY <1>5, <3>1, <3>2
    <3>3. CASE ~(end + 1 > n)
      <4>1. rank[end + 1] = n + 1 - (end + 1)
        BY <3>1, <3>3
      <4> QED
        BY <3>1, <4>1
    <3> QED
      BY <3>2, <3>3
  <2> HIDE DEF rank
  <2> QED
    BY <2>1, <2>2 DEF Lower
<1>6. ASSUME NEW p \in D, NEW h \in [Below(p) -> V] PROVE Value(p, h) \in V
  <2>1. CASE p > n
    <3>1. <<>> \in V
      OBVIOUS
    <3> HIDE DEF V
    <3> QED
      BY <1>3, <2>1, <3>1
  <2>2. CASE ~(p > n)
    <3>1. p <= n
      BY <2>2
    <3>2. Token(str, p) \in V
      BY <1>2, <1>3, <3>1, TokenType
    <3>3. h[TokenEnd(str, p) + 1] \in V
      <4> HIDE DEF V, Below
      <4> QED
        BY <1>5, <3>1
    <3>4. Token(str, p) \o h[TokenEnd(str, p) + 1] \in V
      BY <3>2, <3>3, ConcatProperties
    <3> HIDE DEF V
    <3> QED
      BY <1>3, <2>2, <3>4
  <2> QED
    BY <2>1, <2>2
<1>7. PICK f : Ranked(f, D, V, rank, step)
  <2>1. Leads(D, V, rank, step)
    <3>1. \A p \in D : \A h \in [Below(p) -> V] : step[p][h] = Value(p, h)
      <4> HIDE DEF Below, V, Value
      <4> QED
        OBVIOUS
    <3> HIDE DEF step, rank, V, Value, D
    <3> QED
      BY <1>6, <3>1 DEF Leads
  <2> HIDE DEF step, rank, V, D
  <2> QED
    BY <1>4, <2>1, RankedRecursion
<1>8. f \in [D -> V]
  <2> HIDE DEF step, rank, V, D
  <2> QED
    BY <1>7 DEF Ranked
<1>9. ASSUME NEW p \in D PROVE f[p] = Value(p, f)
  <2> DEFINE h == [y \in Below(p) |-> f[y]]
  <2>1. h \in [Below(p) -> V]
    <3>1. Below(p) \subseteq D
      BY DEF Lower
    <3> HIDE DEF Below, V, D
    <3> QED
      BY <1>8, <3>1
  <2>2. f[p] = step[p][h]
    <3> HIDE DEF V, step, rank, D
    <3> QED
      BY <1>7 DEF Ranked, Restrict
  <2>3. step[p][h] = Value(p, h)
    <3> HIDE DEF Value, V, Below, h
    <3> QED
      BY <2>1
  <2>4. Value(p, h) = Value(p, f)
    <3>1. CASE p > n
      BY <1>3, <3>1
    <3>2. CASE ~(p > n)
      <4>1. TokenEnd(str, p) + 1 \in Below(p)
        BY <1>5, <3>2
      <4>2. h[TokenEnd(str, p) + 1] = f[TokenEnd(str, p) + 1]
        <5> HIDE DEF Below
        <5> QED
          BY <4>1
      <4> HIDE DEF h
      <4> QED
        BY <4>2
    <3> QED
      BY <3>1, <3>2
  <2> HIDE DEF Value, h, step
  <2> QED
    BY <2>2, <2>3, <2>4
<1>10. Eq(f)
  <2>1. f = [p \in D |-> f[p]]
    <3> HIDE DEF D, V
    <3> QED
      BY <1>8
  <2>2. f = [p \in D |-> Value(p, f)]
    <3> HIDE DEF Value, D
    <3> QED
      BY <1>9, <2>1
  <2> QED
    BY <2>2 DEF Token, TokenEnd
<1>11. Eq(from)
  <2> HIDE DEF Eq
  <2> QED
    BY <1>10
<1>12. Tokens(text) = from[1]
  BY <1>1 DEF Tokens
<1> HIDE DEF from
<1>13. ASSUME NEW p \in D PROVE from[p] = Value(p, from)
  BY <1>11 DEF Token, TokenEnd
<1>14. D \subseteq {p \in D : from[p] \in V}
  <2> DEFINE T == {p \in D : from[p] \in V}
  <2>1. ASSUME NEW p \in D, \A y \in D : rank[y] < rank[p] => y \in T PROVE p \in T
    <3>1. Below(p) \subseteq T
      <4> HIDE DEF T, rank, D
      <4> QED
        BY <2>1 DEF Lower
    <3> DEFINE h == [y \in Below(p) |-> from[y]]
    <3>2. h \in [Below(p) -> V]
      <4> HIDE DEF Below, D, V
      <4> QED
        BY <3>1
    <3>3. Value(p, h) \in V
      <4> HIDE DEF Value, h, V, D, Below
      <4> QED
        BY <1>6, <3>2
    <3>4. Value(p, h) = Value(p, from)
      <4>1. CASE p > n
        BY <1>3, <4>1
      <4>2. CASE ~(p > n)
        <5>1. TokenEnd(str, p) + 1 \in Below(p)
          BY <1>5, <4>2
        <5>2. h[TokenEnd(str, p) + 1] = from[TokenEnd(str, p) + 1]
          <6> HIDE DEF Below
          <6> QED
            BY <5>1
        <5> HIDE DEF h
        <5> QED
          BY <5>2
      <4> QED
        BY <4>1, <4>2
    <3> HIDE DEF Value, h, V, D
    <3> QED
      BY <1>13, <3>3, <3>4
  <2>2. D \subseteq T
    <3> HIDE DEF T, rank, D
    <3> QED
      BY <1>4, <2>1, RankInduction
  <2> QED
    BY <2>2
<1>15. from[1] \in V
  <2>1. 1 \in D
    OBVIOUS
  <2> HIDE DEF V, D
  <2> QED
    BY <1>14, <2>1
<1> QED
  BY <1>12, <1>15

Once(s) == \A i, j \in DOMAIN s : s[i] = s[j] => i = j

TermLists == {s \in Seq(Words) : Once(s)}

\* A term that is there is not added again.
LEMMA AddingTerm ==
  ASSUME NEW s \in TermLists, NEW w \in Words
  PROVE  (IF Contains(s, w) THEN s ELSE Append(s, w)) \in TermLists
<1>1. PICK n \in Nat : n = Len(s) /\ DOMAIN s = 1 .. n
  BY LenProperties DEF TermLists
<1>2. CASE Contains(s, w)
  BY <1>2
<1>3. CASE ~Contains(s, w)
  <2>1. \A i \in 1 .. n : s[i] # w
    BY <1>1, <1>3 DEF Contains
  <2>2. PICK t : t = Append(s, w)
    OBVIOUS
  <2>3. t \in Seq(Words) /\ DOMAIN t = 1 .. n + 1 /\ t[n + 1] = w /\ \A i \in 1 .. n : t[i] = s[i]
    <3>1. s \in Seq(Words)
      BY DEF TermLists
    <3>2. /\ Append(s, w) \in Seq(Words) /\ Len(Append(s, w)) = Len(s) + 1
          /\ \A i \in 1 .. Len(s) : Append(s, w)[i] = s[i]
          /\ Append(s, w)[Len(s) + 1] = w
      BY <3>1, AppendProperties
    <3>3. DOMAIN t = 1 .. Len(t)
      BY <2>2, <3>2, LenProperties
    <3> QED
      BY <1>1, <2>2, <3>2, <3>3
  <2>4. ASSUME NEW i \in 1 .. n + 1, NEW j \in 1 .. n + 1, t[i] = t[j] PROVE i = j
    <3>1. CASE i = n + 1 /\ j = n + 1
      BY <3>1
    <3>2. CASE i # n + 1 /\ j # n + 1
      <4>1. i \in 1 .. n /\ j \in 1 .. n
        BY <3>2
      <4>2. s[i] = s[j]
        BY <2>3, <2>4, <4>1
      <4> QED
        BY <1>1, <4>1, <4>2 DEF TermLists, Once
    <3>3. CASE i = n + 1 /\ j # n + 1
      <4>1. j \in 1 .. n
        BY <3>3
      <4> QED
        BY <2>1, <2>3, <2>4, <3>3, <4>1
    <3>4. CASE i # n + 1 /\ j = n + 1
      <4>1. i \in 1 .. n
        BY <3>4
      <4> QED
        BY <2>1, <2>3, <2>4, <3>4, <4>1
    <3> QED
      BY <3>1, <3>2, <3>3, <3>4
  <2>5. t \in TermLists
    BY <2>3, <2>4 DEF TermLists, Once
  <2> QED
    BY <1>3, <2>2, <2>5
<1> QED
  BY <1>2, <1>3

\* Adding terms keeps each of them once.
LEMMA IndexedType ==
  ASSUME NEW known \in TermLists, NEW new \in Seq(Words)
  PROVE  Indexed(known, new) \in TermLists
<1>1. PICK n \in Nat : n = Len(new)
  BY LenProperties
<1> DEFINE Then(k, s) == IF Contains(s, new[k]) THEN s ELSE Append(s, new[k])
           step == [k \in 1 .. n |-> [s \in TermLists |-> Then(k, s)]]
           I == [k \in 0 .. n |-> TermLists]
           Eq(f) == f = [i \in 0 .. Len(new) |->
                          IF i = 0 THEN known
                          ELSE IF Contains(f[i - 1], new[i]) THEN f[i - 1]
                          ELSE Append(f[i - 1], new[i])]
           index == CHOOSE f : Eq(f)
<1>2. ASSUME NEW k \in 1 .. n, NEW s \in TermLists PROVE Then(k, s) \in TermLists
  <2>1. new[k] \in Words
    BY <1>1, ElementOfSeq
  <2> QED
    BY <2>1, AddingTerm
<1>3. /\ \A k \in 0 .. n : I[k] = TermLists
      /\ \A k \in 1 .. n : I[k - 1] = TermLists
      /\ \A k \in 1 .. n : I[k] = TermLists
  OBVIOUS
<1>4. \A k \in 1 .. n : \A s \in TermLists : step[k][s] = Then(k, s)
  <2> HIDE DEF Then
  <2> QED
    OBVIOUS
<1>5. PICK f : Declares(f, n, known, step) /\ \A k \in 0 .. n : f[k] \in I[k]
  <2>1. \A k \in 1 .. n : \A s \in I[k - 1] : step[k][s] \in I[k]
    <3> HIDE DEF Then, step, I
    <3> QED
      BY <1>2, <1>3, <1>4
  <2>2. known \in I[0]
    <3>1. 0 \in 0 .. n
      OBVIOUS
    <3> HIDE DEF I
    <3> QED
      BY <1>3, <3>1
  <2> HIDE DEF step, I
  <2> QED
    BY <2>1, <2>2, Recursion
<1>6. Eq(f)
  <2>1. ASSUME NEW k \in 1 .. n PROVE step[k][f[k - 1]] = Then(k, f[k - 1])
    <3>1. k - 1 \in 0 .. n
      OBVIOUS
    <3> HIDE DEF step, I, Then
    <3> QED
      BY <1>3, <1>4, <1>5, <3>1
  <2>2. f = [k \in 0 .. n |-> IF k = 0 THEN known ELSE step[k][f[k - 1]]]
    <3> HIDE DEF step, I
    <3> QED
      BY <1>5 DEF Declares
  <2>3. \A k \in 0 .. n : k = 0 \/ k \in 1 .. n
    OBVIOUS
  <2>4. f = [k \in 0 .. n |-> IF k = 0 THEN known ELSE Then(k, f[k - 1])]
    <3> HIDE DEF step, Then
    <3> QED
      BY <2>1, <2>2, <2>3
  <2> QED
    BY <1>1, <2>4
<1>7. Eq(index)
  <2> HIDE DEF Eq
  <2> QED
    BY <1>6
<1>8. Indexed(known, new) = index[n]
  BY <1>1 DEF Indexed
<1> HIDE DEF index
<1>9. index[0] = known /\ \A k \in 1 .. n : index[k] = Then(k, index[k - 1])
  <2>1. index = [k \in 0 .. n |-> IF k = 0 THEN known ELSE Then(k, index[k - 1])]
    BY <1>1, <1>7
  <2>2. 0 \in 0 .. n /\ \A k \in 1 .. n : k \in 0 .. n /\ k # 0
    OBVIOUS
  <2> HIDE DEF Then, Eq
  <2> QED
    BY <2>1, <2>2
<1>10. index[n] \in I[n]
  <2>1. \A k \in 1 .. n : index[k - 1] \in I[k - 1] => index[k] \in I[k]
    <3> HIDE DEF Then, I, Eq
    <3> QED
      BY <1>2, <1>3, <1>9
  <2>2. index[0] \in I[0]
    <3>1. 0 \in 0 .. n
      OBVIOUS
    <3> HIDE DEF I, Then, Eq
    <3> QED
      BY <1>3, <1>9, <3>1
  <2>3. n \in 0 .. n
    OBVIOUS
  <2> HIDE DEF I, Then, Eq
  <2> QED
    BY <2>1, <2>2, <2>3, Stays
<1>11. n \in 0 .. n
  OBVIOUS
<1> QED
  BY <1>3, <1>8, <1>10, <1>11

\* The terms of a field of a document are words.
LEMMA FieldTermsType ==
  ASSUME corpus \in Corpora, NEW d \in 1 .. Len(corpus), NEW field \in ToSet(AllFields)
  PROVE  FieldTerms(d, field) \in Seq(Words)
<1>1. corpus \in Seq([ToSet(AllFields) -> Words])
  BY CorporaAssumption DEF Words
<1>2. corpus[d] \in [ToSet(AllFields) -> Words]
  BY <1>1, ElementOfSeq
<1>3. d \in DOMAIN corpus /\ field \in DOMAIN corpus[d] /\ corpus[d][field] \in Words
  <2>1. DOMAIN corpus = 1 .. Len(corpus)
    BY <1>1, LenProperties
  <2> QED
    BY <1>2, <2>1
<1>4. PICK tokens : tokens = Tokens(corpus[d][field])
  OBVIOUS
<1>5. tokens \in Seq(Words)
  BY <1>3, <1>4, TokensType
<1>6. PICK n \in Nat : n = Len(tokens) /\ DOMAIN tokens = 1 .. n
  BY <1>5, LenProperties
<1>7. ASSUME NEW i \in 1 .. n PROVE Stem(Trimmed(tokens[i])) \in Words
  <2>1. tokens[i] \in ToSet(tokens)
    BY <1>6 DEF ToSet
  <2>2. \A token \in ToSet(Tokens(corpus[d][field])) : Stem(Trimmed(token)) \in Seq(Nat)
    BY <1>3, StemAssumption
  <2> QED
    BY <1>4, <2>1, <2>2 DEF Words
<1>8. FieldTerms(d, field) = [i \in 1 .. n |-> Stem(Trimmed(tokens[i]))]
  BY <1>4, <1>6 DEF FieldTerms, IndexPipeline
<1>9. FieldTerms(d, field) \in [1 .. n -> Words]
  BY <1>7, <1>8
<1> QED
  BY <1>9

-----------------------------------------------------------------------------
(* The index                                                               *)

\* No term has a digit.
NoDigits == \A i \in DOMAIN terms : \A j \in DOMAIN terms[i] : terms[i][j] \notin Digit

\* What the automaton accepts from its root.
Exact ==
  /\ nextId \in Nat /\ Root < nextId
  /\ \A i \in 1 .. inserted : Len(SortedTerms[i]) < nextId - Root
  /\ \A k \in Nat : \A w : Accepts(edges, final, k, Root, w) <=>
                             \E i \in 1 .. inserted : w = SortedTerms[i] /\ Len(w) <= k

TermsInv ==
  /\ corpus \in Corpora /\ added \in 0 .. Len(corpus)
  /\ terms \in TermLists
  /\ inserted \in 0 .. Len(terms) /\ built \in BOOLEAN
  /\ inserted # 0 \/ built => added = Len(corpus)
  /\ built => inserted = Len(terms)

BuiltOn == \E q : Building(q) /\ Rightmost(edges, q, previousWord)

\* No node but the root is left of the path.
Finished == \E q : Builder(edges, final, minimizedNodes, q, previousWord, 0, nextId)

AutomatonInv ==
  /\ inserted = 0 /\ ~built => TokenSet!InitTokenSet
  /\ NoDigits /\ ~built => BuiltOn
  /\ NoDigits /\ built => Finished
  /\ NoDigits => Exact

\* A corpus is a list of documents.
LEMMA CorpusType == corpus \in Corpora => Len(corpus) \in Nat
BY CorporaAssumption, LenProperties

\* build inserts each term of the index, whatever the order it is in.
LEMMA SortedTermsType ==
  ASSUME terms \in TermLists
  PROVE  /\ \A i \in 1 .. Len(terms) : SortedTerms[i] \in Words /\ SortedTerms[i] \in ToSet(terms)
         /\ NoDigits => \A i \in 1 .. Len(terms) : SortedTerms[i] \in Seq(Nat \ Digit)
<1>1. PICK n \in Nat : n = Len(terms) /\ DOMAIN terms = 1 .. n
  BY LenProperties DEF TermLists
<1>2. PICK S : S = ToSet(terms)
  OBVIOUS
<1>3. S = {terms[i] : i \in 1 .. n}
  BY <1>1, <1>2 DEF ToSet
<1>4. terms \in [1 .. n -> Words]
  BY <1>1 DEF TermLists
<1>5. S \in SUBSET Words
  BY <1>3, <1>4
<1>6. terms \in Surjection(1 .. n, S) /\ terms \in Injection(1 .. n, S)
  <2>1. terms \in [1 .. n -> S] /\ \A w \in S : \E i \in 1 .. n : terms[i] = w
    <3>1. \A i \in 1 .. n : terms[i] \in S
      BY <1>3
    <3>2. \A w \in S : \E i \in 1 .. n : terms[i] = w
      BY <1>3
    <3>3. terms = [i \in 1 .. n |-> terms[i]]
      BY <1>4
    <3> QED
      BY <3>1, <3>2, <3>3
  <2>2. \A i, j \in 1 .. n : terms[i] = terms[j] => i = j
    BY <1>1 DEF TermLists, Once
  <2> QED
    BY <2>1, <2>2 DEF Surjection, Injection, IsInjective
<1>7. IsFiniteSet(S) /\ Cardinality(S) = n
  <2>1. IsFiniteSet(1 .. n) /\ Cardinality(1 .. n) = n
    BY FS_Interval
  <2>2. IsFiniteSet(S) /\ (Cardinality(S) = Cardinality(1 .. n) <=> terms \in Injection(1 .. n, S))
    BY <1>6, <2>1, FS_Surjection
  <2> QED
    BY <1>6, <2>1, <2>2
<1>8. PICK s : s = SortedTerms
  OBVIOUS
<1>9. s \in Seq(S) /\ Len(s) = n
  <2>1. s = TokenSet!SortedWords(S)
    BY <1>2, <1>8 DEF SortedTerms
  <2>2. S \in SUBSET Seq(Nat)
    BY <1>5 DEF Words
  <2> QED
    BY <1>7, <2>1, <2>2, SortedWordsProperties
<1>10. ASSUME NEW i \in 1 .. n PROVE s[i] \in S /\ s[i] \in Words
  BY <1>5, <1>9, ElementOfSeq
<1>11. ASSUME NoDigits, NEW i \in 1 .. n PROVE s[i] \in Seq(Nat \ Digit)
  <2>1. PICK j \in 1 .. n : s[i] = terms[j]
    BY <1>3, <1>10
  <2>2. PICK w : w = terms[j]
    OBVIOUS
  <2>3. w \in Seq(Nat)
    BY <1>4, <2>2 DEF Words
  <2>4. PICK m \in Nat : m = Len(w) /\ DOMAIN w = 1 .. m
    BY <2>3, LenProperties
  <2>5. \A x \in 1 .. m : w[x] \notin Digit
    BY <1>1, <1>11, <2>2, <2>4 DEF NoDigits
  <2>6. \A x \in 1 .. m : w[x] \in Nat
    BY <2>3, <2>4, ElementOfSeq
  <2>7. w \in [1 .. m -> Nat \ Digit]
    <3>1. w = [x \in 1 .. m |-> w[x]]
      BY <2>3, <2>4
    <3> QED
      BY <2>5, <2>6, <3>1
  <2> QED
    BY <2>1, <2>2, <2>7
<1> QED
  BY <1>1, <1>2, <1>8, <1>10, <1>11

\* A token set just made: its root alone, and no word.
LEMMA Starting ==
  ASSUME TokenSet!InitTokenSet
  PROVE  /\ BuiltOn
         /\ nextId \in Nat /\ Root < nextId
         /\ \A k \in Nat : \A w : ~Accepts(edges, final, k, Root, w)
<1>1. /\ edges = <<>> /\ final = {} /\ nextId = Root + 1 /\ previousWord = <<>>
      /\ uncheckedNodes = <<>> /\ minimizedNodes = <<>>
  BY DEF TokenSet!InitTokenSet
<1>2. Root \in Nat
  BY RootAssumption
<1>3. DOMAIN edges = {}
  BY <1>1
<1>4. Graph(edges)
  <2>1. IsFiniteSet(DOMAIN edges)
    BY <1>3, FS_EmptySet
  <2>2. edges \in [DOMAIN edges -> Nat]
    BY <1>1
  <2> QED
    BY <1>3, <2>1, <2>2 DEF Graph
<1>5. \A n : Labels(edges, n) = {}
  BY <1>3 DEF Labels, TokenSet!Labels
<1> DEFINE q == [i \in 0 .. 0 |-> Root]
<1>6. q \in [0 .. 0 -> Nat] /\ q[0] = Root /\ \A i \in 0 .. 0 : i = 0
  BY <1>2
<1> HIDE DEF q
<1>7. Len(previousWord) = 0 /\ previousWord \in Seq(Nat \ Digit)
  BY <1>1
<1>8. Path(edges, q, previousWord, Len(previousWord))
  <2>1. 0 \in 0 .. 0 /\ \A i \in 1 .. 0 : FALSE
    OBVIOUS
  <2> QED
    BY <1>3, <1>4, <1>6, <1>7, <2>1 DEF Path
<1>9. Bounded(edges, final, q, previousWord, nextId)
  <2>1. nextId \in Nat /\ Root < nextId /\ Root + 0 <= Root
    BY <1>1, <1>2
  <2>2. \A i \in 0 .. 0 : q[i] < nextId /\ Root + i <= q[i]
    BY <1>6, <2>1
  <2> QED
    BY <1>1, <1>3, <1>7, <2>1, <2>2 DEF Bounded
<1>10. Registered(edges, final, minimizedNodes, q, Len(previousWord), nextId)
  <2>1. DOMAIN minimizedNodes = {} /\ minimizedNodes \in [DOMAIN minimizedNodes -> Nat]
    BY <1>1
  <2> QED
    BY <2>1 DEF Registered
<1>11. uncheckedNodes = [i \in 1 .. Len(previousWord) |-> Unchecked(q, previousWord, i)]
  <2>1. 1 .. 0 = {}
    OBVIOUS
  <2>2. DOMAIN uncheckedNodes = {} /\ uncheckedNodes = [i \in {} |-> Unchecked(q, previousWord, i)]
    BY <1>1
  <2> QED
    BY <1>7, <2>1, <2>2
<1>12. BuiltOn
  <2>1. Building(q)
    <3>1. Closed(edges, minimizedNodes, q, previousWord, Len(previousWord))
      BY <1>3 DEF Closed
    <3>2. AllEnd(edges, final, minimizedNodes, q, previousWord)
      <4>1. DOMAIN minimizedNodes = {} /\ \A i \in 1 .. Len(previousWord) : FALSE
        BY <1>1, <1>7
      <4> QED
        BY <4>1 DEF AllEnd
    <3> QED
      BY <1>8, <1>9, <1>10, <1>11, <3>1, <3>2 DEF Building, Builder
  <2>2. Rightmost(edges, q, previousWord)
    <3>1. \A i \in 1 .. Len(previousWord) : FALSE
      BY <1>7
    <3> QED
      BY <1>5, <3>1 DEF Rightmost
  <2> QED
    BY <2>1, <2>2 DEF BuiltOn
<1>13. ASSUME NEW k \in Nat, NEW w PROVE ~Accepts(edges, final, k, Root, w)
  <2>1. Root \notin final
    BY <1>1
  <2>2. CASE k = 0
    BY <1>2, <1>4, <2>1, <2>2, AcceptsRule
  <2>3. CASE k # 0
    <3>1. PICK l \in Nat : k = l + 1
      <4>1. k - 1 \in Nat /\ k = (k - 1) + 1
        BY <2>3
      <4> QED
        BY <4>1
    <3>2. ~Leaves(edges, final, l, Root, w)
      BY <1>5 DEF Leaves
    <3> QED
      BY <1>2, <1>4, <2>1, <3>1, <3>2, AcceptsRule
  <2> QED
    BY <2>2, <2>3
<1>14. nextId \in Nat /\ Root < nextId
  BY <1>1, <1>2
<1> QED
  BY <1>12, <1>13, <1>14

\* A document brings its terms, field by field.
LEMMA AddedTerms ==
  ASSUME TermsInv, AddDocument
  PROVE  terms' \in TermLists
<1>1. PICK n \in Nat : n = Len(AllFields) /\ DOMAIN AllFields = 1 .. n
  BY FieldsAssumption, LenProperties
<1>2. PICK l \in Nat : l = Len(corpus)
  BY CorpusType DEF TermsInv
<1>3. PICK d \in 1 .. l : d = added + 1
  <2>1. added \in 0 .. l /\ added < l
    BY <1>2 DEF TermsInv, AddDocument
  <2>2. added + 1 \in 1 .. l
    BY <2>1
  <2> QED
    BY <2>2
<1> DEFINE Then(k, s) == Indexed(s, FieldTerms(d, AllFields[k]))
           step == [k \in 1 .. n |-> [s \in TermLists |-> Then(k, s)]]
           I == [k \in 0 .. n |-> TermLists]
           Eq(f) == f = [i \in 0 .. Len(AllFields) |->
                          IF i = 0 THEN terms ELSE Indexed(f[i - 1], FieldTerms(added + 1, AllFields[i]))]
           index == CHOOSE f : Eq(f)
<1>4. ASSUME NEW k \in 1 .. n, NEW s \in TermLists PROVE Then(k, s) \in TermLists
  <2>1. AllFields[k] \in ToSet(AllFields)
    BY <1>1 DEF ToSet
  <2>2. FieldTerms(d, AllFields[k]) \in Seq(Words)
    BY <1>2, <2>1, FieldTermsType DEF TermsInv
  <2> QED
    BY <2>2, IndexedType
<1>5. /\ \A k \in 0 .. n : I[k] = TermLists
      /\ \A k \in 1 .. n : I[k - 1] = TermLists
      /\ \A k \in 1 .. n : I[k] = TermLists
  OBVIOUS
<1>6. \A k \in 1 .. n : \A s \in TermLists : step[k][s] = Then(k, s)
  <2> HIDE DEF Then
  <2> QED
    OBVIOUS
<1>7. terms \in TermLists
  BY DEF TermsInv
<1>8. PICK f : Declares(f, n, terms, step) /\ \A k \in 0 .. n : f[k] \in I[k]
  <2>1. \A k \in 1 .. n : \A s \in I[k - 1] : step[k][s] \in I[k]
    <3> HIDE DEF Then, step, I
    <3> QED
      BY <1>4, <1>5, <1>6
  <2>2. terms \in I[0]
    <3>1. 0 \in 0 .. n
      OBVIOUS
    <3> HIDE DEF I
    <3> QED
      BY <1>5, <1>7, <3>1
  <2> HIDE DEF step, I
  <2> QED
    BY <2>1, <2>2, Recursion
<1>9. Eq(f)
  <2>1. ASSUME NEW k \in 1 .. n PROVE step[k][f[k - 1]] = Then(k, f[k - 1])
    <3>1. k - 1 \in 0 .. n
      OBVIOUS
    <3> HIDE DEF step, I, Then
    <3> QED
      BY <1>5, <1>6, <1>8, <3>1
  <2>2. f = [k \in 0 .. n |-> IF k = 0 THEN terms ELSE step[k][f[k - 1]]]
    <3> HIDE DEF step, I
    <3> QED
      BY <1>8 DEF Declares
  <2>3. \A k \in 0 .. n : k = 0 \/ k \in 1 .. n
    OBVIOUS
  <2>4. f = [k \in 0 .. n |-> IF k = 0 THEN terms ELSE Then(k, f[k - 1])]
    <3> HIDE DEF step, Then
    <3> QED
      BY <2>1, <2>2, <2>3
  <2> QED
    BY <1>1, <1>3, <2>4
<1>10. Eq(index)
  <2> HIDE DEF Eq
  <2> QED
    BY <1>9
<1>11. terms' = index[n]
  BY <1>1 DEF AddDocument
<1> HIDE DEF index
<1>12. index[0] = terms /\ \A k \in 1 .. n : index[k] = Then(k, index[k - 1])
  <2>1. index = [k \in 0 .. n |-> IF k = 0 THEN terms ELSE Then(k, index[k - 1])]
    BY <1>1, <1>3, <1>10
  <2>2. 0 \in 0 .. n /\ \A k \in 1 .. n : k \in 0 .. n /\ k # 0
    OBVIOUS
  <2> HIDE DEF Then, Eq
  <2> QED
    BY <2>1, <2>2
<1>13. index[n] \in I[n]
  <2>1. \A k \in 1 .. n : index[k - 1] \in I[k - 1] => index[k] \in I[k]
    <3> HIDE DEF Then, I, Eq
    <3> QED
      BY <1>4, <1>5, <1>12
  <2>2. index[0] \in I[0]
    <3>1. 0 \in 0 .. n
      OBVIOUS
    <3> HIDE DEF I, Then, Eq
    <3> QED
      BY <1>5, <1>7, <1>12, <3>1
  <2>3. n \in 0 .. n
    OBVIOUS
  <2> HIDE DEF I, Then, Eq
  <2> QED
    BY <2>1, <2>2, <2>3, Stays
<1>14. n \in 0 .. n
  OBVIOUS
<1> QED
  BY <1>5, <1>11, <1>13, <1>14

\* The steps that leave the automaton, and the terms, as they are.
LEMMA Unchanged ==
  ASSUME TermsInv, AutomatonInv, UNCHANGED <<terms, inserted, built, tokenSetVars>>
  PROVE  AutomatonInv'
<1>1. /\ terms' = terms /\ inserted' = inserted /\ built' = built
      /\ edges' = edges /\ final' = final /\ nextId' = nextId /\ previousWord' = previousWord
      /\ uncheckedNodes' = uncheckedNodes /\ minimizedNodes' = minimizedNodes
  BY DEF tokenSetVars
<1>2. TokenSet!InitTokenSet' <=> TokenSet!InitTokenSet
  BY <1>1 DEF TokenSet!InitTokenSet
<1>3. NoDigits' <=> NoDigits
  BY <1>1 DEF NoDigits
<1>4. BuiltOn => BuiltOn'
  BY <1>1 DEF BuiltOn, Building
<1>7. Finished => Finished'
  BY <1>1 DEF Finished
<1>5. SortedTerms' = SortedTerms
  BY <1>1 DEF SortedTerms
<1>6. Exact => Exact'
  BY <1>1, <1>5 DEF Exact
<1> QED
  BY <1>1, <1>2, <1>3, <1>4, <1>6, <1>7 DEF AutomatonInv

\* While documents are added the automaton is that of no word.
LEMMA AddingKeeps ==
  ASSUME TermsInv, AutomatonInv, AddDocument
  PROVE  AutomatonInv'
<1>1. added # Len(corpus)
  <2>1. PICK l \in Nat : l = Len(corpus)
    BY CorpusType DEF TermsInv
  <2>2. added \in 0 .. l /\ added < l
    BY <2>1 DEF TermsInv, AddDocument
  <2>3. added # l
    BY <2>2
  <2> QED
    BY <2>1, <2>3
<1>2. inserted = 0 /\ ~built
  BY <1>1 DEF TermsInv
<1>3. TokenSet!InitTokenSet
  BY <1>2 DEF AutomatonInv
<1>4. /\ BuiltOn
      /\ nextId \in Nat /\ Root < nextId
      /\ \A k \in Nat : \A w : ~Accepts(edges, final, k, Root, w)
  BY <1>3, Starting
<1>5. /\ inserted' = inserted /\ built' = built
      /\ edges' = edges /\ final' = final /\ nextId' = nextId /\ previousWord' = previousWord
      /\ uncheckedNodes' = uncheckedNodes /\ minimizedNodes' = minimizedNodes
  BY DEF AddDocument, tokenSetVars
<1>6. TokenSet!InitTokenSet'
  BY <1>3, <1>5 DEF TokenSet!InitTokenSet
<1>7. BuiltOn'
  BY <1>4, <1>5 DEF BuiltOn, Building
<1>8. Exact'
  <2>1. \A i \in 1 .. inserted' : FALSE
    BY <1>2, <1>5
  <2> QED
    BY <1>4, <1>5, <2>1 DEF Exact
<1> QED
  BY <1>2, <1>5, <1>6, <1>7, <1>8 DEF AutomatonInv

\* One more term is one more word.
LEMMA InsertingKeeps ==
  ASSUME TermsInv, AutomatonInv, InsertTerm
  PROVE  AutomatonInv'
<1>1. PICK n \in Nat : n = Len(terms)
  BY LenProperties DEF TermsInv, TermLists
<1>2. inserted \in 0 .. n /\ inserted < n
  BY <1>1 DEF TermsInv, InsertTerm
<1>3. PICK i \in 1 .. n : i = inserted + 1 /\ inserted' = i /\ i # 0
  <2>1. inserted + 1 \in 1 .. n /\ inserted + 1 # 0
    BY <1>2
  <2> QED
    BY <2>1 DEF InsertTerm
<1>4. terms' = terms /\ built' = built
  BY DEF InsertTerm, documentVars
<1>5. SortedTerms' = SortedTerms /\ (NoDigits' <=> NoDigits)
  BY <1>4 DEF SortedTerms, NoDigits
<1>6. PICK word : word = SortedTerms[i]
  OBVIOUS
<1>7. TokenSet!Insert(word)
  BY <1>3, <1>6 DEF InsertTerm
<1>8. ASSUME NoDigits, ~built PROVE Inserted(word)
  <2>1. PICK q : Building(q) /\ Rightmost(edges, q, previousWord)
    BY <1>8 DEF AutomatonInv, BuiltOn
  <2>2. word \in Seq(Nat \ Digit)
    BY <1>1, <1>6, <1>8, SortedTermsType DEF TermsInv
  <2> QED
    BY <1>7, <2>1, <2>2, Inserting
<1>9. ~built
  <2>1. inserted # n
    BY <1>2
  <2> QED
    BY <1>1, <2>1 DEF TermsInv
<1>10. inserted' # 0
  BY <1>3
<1>11. NoDigits => BuiltOn'
  <2> SUFFICES ASSUME NoDigits PROVE BuiltOn'
    OBVIOUS
  <2>1. PICK r : /\ Builder(edges', final', minimizedNodes', r, word, Len(word), nextId')
                 /\ Rightmost(edges', r, word)
                 /\ uncheckedNodes' = [j \in 1 .. Len(word) |-> Unchecked(r, word, j)]
    BY <1>8, <1>9 DEF Inserted
  <2>2. previousWord' = word
    BY <1>8, <1>9 DEF Inserted
  <2>3. Building(r)'
    BY <2>1, <2>2 DEF Building
  <2>4. Rightmost(edges', r, previousWord')
    BY <2>1, <2>2
  <2> QED
    BY <2>3, <2>4 DEF BuiltOn
<1>12. NoDigits => Exact'
  <2> SUFFICES ASSUME NoDigits PROVE Exact'
    OBVIOUS
  <2>1. Inserted(word) /\ Exact
    BY <1>8, <1>9 DEF AutomatonInv
  <2>2. nextId \in Nat /\ Root < nextId /\ Root \in Nat
    BY <2>1, RootAssumption DEF Exact
  <2>3. nextId' \in Nat
    <3>1. PICK r : Builder(edges', final', minimizedNodes', r, word, Len(word), nextId')
      BY <2>1 DEF Inserted
    <3> QED
      BY <3>1 DEF Builder, Bounded
  <2>4. nextId <= nextId' /\ Len(word) < nextId' - Root
    BY <2>1 DEF Inserted
  <2>5. PICK x \in Nat : x = nextId'
    BY <2>3
  <2>6. Root < x
    BY <2>2, <2>4, <2>5
  <2>7. ASSUME NEW j \in 1 .. i PROVE Len(SortedTerms[j]) < x - Root
    <3>1. CASE j = i
      BY <1>6, <2>4, <2>5, <3>1
    <3>2. CASE j # i
      <4>1. j \in 1 .. inserted /\ j \in 1 .. n
        BY <1>2, <1>3, <3>2
      <4>2. PICK l \in Nat : l = Len(SortedTerms[j])
        <5>1. SortedTerms[j] \in Seq(Nat)
          BY <1>1, <4>1, SortedTermsType DEF TermsInv, Words
        <5> QED
          BY <5>1, LenProperties
      <4>3. l < nextId - Root
        BY <2>1, <4>1, <4>2 DEF Exact
      <4>4. nextId <= x
        BY <2>4, <2>5
      <4>5. l < x - Root
        BY <2>2, <4>3, <4>4
      <4> QED
        BY <4>2, <4>5
    <3> QED
      BY <3>1, <3>2
  <2>8. ASSUME NEW k \in Nat, NEW w
        PROVE  Accepts(edges', final', k, Root, w) <=> \E j \in 1 .. i : w = SortedTerms[j] /\ Len(w) <= k
    <3>1. Accepts(edges', final', k, Root, w) <=>
            Accepts(edges, final, k, Root, w) \/ (w = word /\ Len(word) <= k)
      BY <2>1 DEF Inserted
    <3>2. Accepts(edges, final, k, Root, w) <=> \E j \in 1 .. inserted : w = SortedTerms[j] /\ Len(w) <= k
      BY <2>1 DEF Exact
    <3>3. /\ \A j \in 1 .. i : j \in 1 .. inserted \/ j = i
          /\ \A j \in 1 .. inserted : j \in 1 .. i
          /\ i \in 1 .. i
      BY <1>2, <1>3
    <3> QED
      BY <1>6, <3>1, <3>2, <3>3
  <2>9. inserted' = i /\ SortedTerms' = SortedTerms
    BY <1>3, <1>5
  <2> QED
    BY <2>3, <2>5, <2>6, <2>7, <2>8, <2>9 DEF Exact
<1> QED
  BY <1>4, <1>5, <1>9, <1>10, <1>11, <1>12 DEF AutomatonInv

\* What is still unchecked when the last term is in can be minimized.
LEMMA BuildKeeps ==
  ASSUME TermsInv, AutomatonInv, Build
  PROVE  AutomatonInv'
<1>1. built' = TRUE /\ ~built /\ terms' = terms /\ inserted' = inserted /\ TokenSet!Finish
  BY DEF Build, documentVars
<1>2. SortedTerms' = SortedTerms /\ (NoDigits' <=> NoDigits)
  BY <1>1 DEF SortedTerms, NoDigits
<1>3. NoDigits => Exact'
  <2> SUFFICES ASSUME NoDigits PROVE Exact'
    OBVIOUS
  <2>1. BuiltOn /\ Exact
    BY <1>1 DEF AutomatonInv
  <2>2. PICK q : Building(q)
    BY <2>1 DEF BuiltOn
  <2>3. SameLanguages(edges, final, edges', final') /\ nextId' = nextId
    BY <1>1, <2>2, Finishing
  <2>4. ASSUME NEW k \in Nat, NEW w
        PROVE  Accepts(edges', final', k, Root, w) <=> Accepts(edges, final, k, Root, w)
    BY <2>3, RootAssumption DEF SameLanguages
  <2> QED
    BY <1>1, <1>2, <2>1, <2>3, <2>4 DEF Exact
<1>4. NoDigits => Finished'
  <2> SUFFICES ASSUME NoDigits PROVE Finished'
    OBVIOUS
  <2>1. PICK q : Building(q)
    BY <1>1 DEF AutomatonInv, BuiltOn
  <2>2. Builder(edges', final', minimizedNodes', q, previousWord', 0, nextId')
    BY <1>1, <2>1, Finishing
  <2> QED
    BY <2>2 DEF Finished
<1> QED
  BY <1>1, <1>2, <1>3, <1>4 DEF AutomatonInv

-----------------------------------------------------------------------------
(* The automaton is exact                                                  *)

\* Every step keeps what is said of the terms.
LEMMA TermsKept ==
  ASSUME TermsInv, [IndexNext]_indexVars
  PROVE  TermsInv'
<1>0. PICK l \in Nat : l = Len(corpus)
  BY CorpusType DEF TermsInv
<1>1. PICK n \in Nat : n = Len(terms)
  BY LenProperties DEF TermsInv, TermLists
<1>2. CASE AddDocument
  <2>1. terms' \in TermLists
    BY <1>2, AddedTerms
  <2>2. /\ corpus' = corpus /\ inserted' = inserted /\ built' = built /\ added' = added + 1 /\ added < l
    BY <1>0, <1>2 DEF AddDocument
  <2>3. added \in 0 .. l
    BY <1>0 DEF TermsInv
  <2>4. inserted = 0 /\ built = FALSE
    <3>1. added # l
      BY <2>2, <2>3
    <3> QED
      BY <1>0, <3>1 DEF TermsInv
  <2>5. PICK m \in Nat : m = Len(terms')
    BY <2>1, LenProperties DEF TermLists
  <2>6. added + 1 \in 0 .. l /\ 0 \in 0 .. m
    BY <2>2, <2>3
  <2> QED
    BY <1>0, <2>1, <2>2, <2>4, <2>5, <2>6 DEF TermsInv
<1>3. CASE InsertTerm
  <2>1. /\ corpus' = corpus /\ added' = added /\ terms' = terms /\ built' = built
        /\ inserted' = inserted + 1 /\ inserted < n /\ added = Len(corpus)
    BY <1>1, <1>3 DEF InsertTerm, documentVars
  <2>2. inserted \in 0 .. n
    BY <1>1 DEF TermsInv
  <2>3. inserted + 1 \in 0 .. n /\ inserted # n
    BY <2>1, <2>2
  <2>4. ~built
    BY <1>1, <2>3 DEF TermsInv
  <2> QED
    BY <1>1, <2>1, <2>3, <2>4 DEF TermsInv
<1>4. CASE Build
  BY <1>4 DEF Build, documentVars, TermsInv
<1>5. ASSUME NEW string \in Strings, Search(string) PROVE TermsInv'
  BY <1>5 DEF Search, documentVars, TermsInv
<1>6. CASE UNCHANGED indexVars
  BY <1>6 DEF indexVars, documentVars, TermsInv
<1> QED
  BY <1>2, <1>3, <1>4, <1>5, <1>6 DEF IndexNext

\* Every step keeps what is said of the automaton.
LEMMA AutomatonKept ==
  ASSUME TermsInv, AutomatonInv, [IndexNext]_indexVars
  PROVE  AutomatonInv'
<1>1. ASSUME NEW string \in Strings, Search(string) PROVE AutomatonInv'
  <2>1. UNCHANGED <<terms, inserted, built, tokenSetVars>>
    BY <1>1 DEF Search, documentVars
  <2> QED
    BY <2>1, Unchanged
<1>2. CASE UNCHANGED indexVars
  <2>1. UNCHANGED <<terms, inserted, built, tokenSetVars>>
    BY <1>2 DEF indexVars, documentVars
  <2> QED
    BY <2>1, Unchanged
<1> QED
  BY <1>1, <1>2, AddingKeeps, InsertingKeeps, BuildKeeps DEF IndexNext

\* Both hold of a builder that was just made.
LEMMA IndexStarts ==
  ASSUME InitIndex
  PROVE  TermsInv /\ AutomatonInv
<1>1. /\ corpus \in Corpora /\ added = 0 /\ terms = <<>> /\ inserted = 0 /\ built = FALSE
      /\ TokenSet!InitTokenSet
  BY DEF InitIndex
<1>2. TermsInv
  <2>1. PICK l \in Nat : l = Len(corpus)
    BY <1>1, CorpusType
  <2>2. 0 \in 0 .. l /\ 0 \in 0 .. 0
    OBVIOUS
  <2>3. Len(terms) = 0
    BY <1>1
  <2>4. terms \in TermLists
    <3>1. terms \in Seq(Words) /\ DOMAIN terms = {}
      BY <1>1
    <3> QED
      BY <3>1 DEF TermLists, Once
  <2> QED
    BY <1>1, <2>1, <2>2, <2>3, <2>4 DEF TermsInv
<1>3. AutomatonInv
  <2>1. /\ BuiltOn
        /\ nextId \in Nat /\ Root < nextId
        /\ \A k \in Nat : \A w : ~Accepts(edges, final, k, Root, w)
    BY <1>1, Starting
  <2>2. \A i \in 1 .. inserted : FALSE
    BY <1>1
  <2>3. Exact
    BY <2>1, <2>2 DEF Exact
  <2> QED
    BY <1>1, <2>1, <2>3 DEF AutomatonInv
<1> QED
  BY <1>2, <1>3

\* An exact automaton accepts the terms inserted, and nothing else, from its root.
LEMMA ExactLanguage ==
  ASSUME TermsInv, Exact
  PROVE  TokenSetIsExact
<1>1. PICK k \in Nat : k = nextId - Root
  <2>1. nextId \in Nat /\ Root \in Nat /\ Root < nextId
    BY RootAssumption DEF Exact
  <2> QED
    BY <2>1
<1>2. PICK L : L = TokenSet!RightLanguage(Root)
  OBVIOUS
<1>3. ASSUME NEW w PROVE w \in L <=> Accepts(edges, final, k, Root, w)
  BY <1>1, <1>2 DEF TokenSet!RightLanguage, Accepts, Lang
<1>4. ASSUME NEW i \in 1 .. inserted PROVE Len(SortedTerms[i]) <= k
  <2>1. PICK n \in Nat : n = Len(terms)
    BY LenProperties DEF TermsInv, TermLists
  <2>2. inserted \in 0 .. n
    BY <2>1 DEF TermsInv
  <2>3. i \in 1 .. n
    BY <2>2
  <2>4. PICK l \in Nat : l = Len(SortedTerms[i])
    <3>1. SortedTerms[i] \in Seq(Nat)
      BY <2>1, <2>3, SortedTermsType DEF TermsInv, Words
    <3> QED
      BY <3>1, LenProperties
  <2>5. l < k
    BY <1>1, <2>4 DEF Exact
  <2> QED
    BY <2>4, <2>5
<1>5. ASSUME NEW w PROVE w \in L <=> \E i \in 1 .. inserted : w = SortedTerms[i]
  <2>1. Accepts(edges, final, k, Root, w) <=> \E i \in 1 .. inserted : w = SortedTerms[i] /\ Len(w) <= k
    BY DEF Exact
  <2> QED
    BY <1>3, <1>4, <2>1
<1>6. L = {SortedTerms[i] : i \in 1 .. inserted}
  <2>1. \A w : w \in L <=> w \in {SortedTerms[i] : i \in 1 .. inserted}
    BY <1>5
  <2> QED
    BY <2>1
<1> QED
  BY <1>2, <1>6 DEF TokenSetIsExact

(***************************************************************************)
(* Whatever documents the builder is given, as long as no term has a       *)
(* digit, the automaton that TokenSet.Builder makes of the terms, word by  *)
(* word, and minimizes with finish, accepts each term that was inserted    *)
(* and nothing else: at each turn of insert, and at the end of build.      *)
(* Without the condition this is false: the string that toString makes of  *)
(* a node puts a label and the id after it side by side, so that the       *)
(* strings of different nodes can be equal, and minimize takes one of them *)
(* for the other.                                                          *)
(***************************************************************************)
THEOREM TokenSetExact == IndexSpec => [](NoDigits => TokenSetIsExact)
<1>1. InitIndex => TermsInv /\ AutomatonInv
  BY IndexStarts
<1>2. TermsInv /\ AutomatonInv /\ [IndexNext]_indexVars => TermsInv' /\ AutomatonInv'
  BY TermsKept, AutomatonKept
<1>3. TermsInv /\ AutomatonInv => (NoDigits => TokenSetIsExact)
  BY ExactLanguage DEF AutomatonInv
<1> QED
  BY <1>1, <1>2, <1>3, PTL DEF IndexSpec

-----------------------------------------------------------------------------
(* The automaton is minimal                                                *)

\* The word leads from the node to a final one.
Accepted(g, F, n, w) == \E k \in Nat : Accepts(g, F, k, n, w)

\* In no step only the empty word is accepted, by a final node.
LEMMA AcceptsNone ==
  ASSUME NEW g, Graph(g), NEW F, NEW n \in Nat, NEW w, Accepts(g, F, 0, n, w)
  PROVE  w = <<>> /\ n \in F
<1>1. Accepts(g, F, 0, n, w) <=> w = <<>> /\ n \in F
  BY AcceptsRule
<1> QED
  BY <1>1

\* In one step more an edge may be followed.
LEMMA AcceptsMore ==
  ASSUME NEW g, Graph(g), NEW F, NEW n \in Nat, NEW w, NEW k \in Nat, Accepts(g, F, k + 1, n, w)
  PROVE  (w = <<>> /\ n \in F) \/ Leaves(g, F, k, n, w)
<1>1. Accepts(g, F, k + 1, n, w) <=> (w = <<>> /\ n \in F) \/ Leaves(g, F, k, n, w)
  BY AcceptsRule
<1> QED
  BY <1>1

\* A word that is accepted within some number of steps is no longer than that.
LEMMA AcceptsFits ==
  ASSUME NEW g, Graph(g), NEW F, NEW k \in Nat, NEW n \in Nat, NEW w, Accepts(g, F, k, n, w)
  PROVE  w \in Words /\ Len(w) <= k
<1> DEFINE Fits(j) == \A m \in Nat : \A u : Accepts(g, F, j, m, u) => u \in Words /\ Len(u) <= j
           S == {j \in Nat : Fits(j)}
<1>1. <<>> \in Words /\ Len(<<>>) = 0
  BY DEF Words
<1>2. 0 \in S
  <2>1. ASSUME NEW m \in Nat, NEW u, Accepts(g, F, 0, m, u) PROVE u \in Words /\ Len(u) <= 0
    <3>1. u = <<>> /\ m \in F
      BY <2>1, AcceptsNone
    <3> QED
      BY <1>1, <3>1
  <2> QED
    BY <2>1
<1>3. ASSUME NEW j \in Nat, j \in S PROVE j + 1 \in S
  <2>1. ASSUME NEW m \in Nat, NEW u, Accepts(g, F, j + 1, m, u) PROVE u \in Words /\ Len(u) <= j + 1
    <3>1. CASE u = <<>>
      BY <1>1, <3>1
    <3>2. CASE Leaves(g, F, j, m, u)
      <4>1. PICK c \in Labels(g, m) : \E v \in Words : u = <<c>> \o v /\ Accepts(g, F, j, g[m, c], v)
        BY <3>2 DEF Leaves
      <4>2. PICK v \in Words : u = <<c>> \o v /\ Accepts(g, F, j, g[m, c], v)
        BY <4>1
      <4>3. c \in Nat /\ g[m, c] \in Nat
        BY LabelsProperties
      <4>4. Fits(j)
        BY <1>3
      <4>5. Len(v) <= j /\ Len(v) \in Nat
        <5>1. Len(v) <= j
          BY <4>2, <4>3, <4>4
        <5> QED
          BY <5>1, LenProperties DEF Words
      <4>6. <<c>> \in Seq(Nat) /\ Len(<<c>>) = 1
        <5>1. c \in Nat
          BY <4>3
        <5> QED
          BY <5>1
      <4>7. u \in Words /\ Len(u) = 1 + Len(v)
        BY <4>2, <4>6, ConcatProperties DEF Words
      <4>8. Len(u) <= j + 1
        BY <4>5, <4>7
      <4> QED
        BY <4>7, <4>8
    <3>3. u = <<>> \/ Leaves(g, F, j, m, u)
      BY <2>1, AcceptsMore
    <3> QED
      BY <3>1, <3>2, <3>3
  <2> QED
    BY <2>1
<1>4. Nat \subseteq S
  <2> HIDE DEF S
  <2> QED
    BY <1>2, <1>3, Induction
<1>5. Fits(k)
  BY <1>4
<1> QED
  BY <1>5

\* A word is accepted from a node in as many steps as it has characters, or more.
LEMMA AcceptedEarly ==
  ASSUME NEW g, Graph(g), NEW F, NEW k \in Nat, NEW n \in Nat, NEW w,
         Accepted(g, F, n, w), Len(w) <= k
  PROVE  Accepts(g, F, k, n, w)
<1> DEFINE Early(i) == \A j \in Nat : \A m \in Nat : \A u :
                         Accepts(g, F, i, m, u) /\ Len(u) <= j => Accepts(g, F, j, m, u)
           S == {i \in Nat : Early(i)}
<1>0. ASSUME NEW j \in Nat PROVE j = 0 \/ \E l \in Nat : j = l + 1
  <2>1. j # 0 => j - 1 \in Nat /\ j = (j - 1) + 1
    OBVIOUS
  <2> QED
    BY <2>1
<1>1. ASSUME NEW j \in Nat, NEW m \in F, m \in Nat PROVE Accepts(g, F, j, m, <<>>)
  <2>1. CASE j = 0
    BY <1>1, <2>1, AcceptsRule
  <2>2. ASSUME NEW l \in Nat, j = l + 1 PROVE Accepts(g, F, j, m, <<>>)
    BY <1>1, <2>2, AcceptsRule
  <2> QED
    BY <1>0, <2>1, <2>2
<1>2. 0 \in S
  BY <1>1, AcceptsRule
<1>3. ASSUME NEW i \in Nat, i \in S PROVE i + 1 \in S
  <2>1. ASSUME NEW j \in Nat, NEW m \in Nat, NEW u, Accepts(g, F, i + 1, m, u), Len(u) <= j
        PROVE  Accepts(g, F, j, m, u)
    <3>1. CASE u = <<>> /\ m \in F
      BY <1>1, <3>1
    <3>2. CASE Leaves(g, F, i, m, u)
      <4>1. PICK c \in Labels(g, m) : \E v \in Words : u = <<c>> \o v /\ Accepts(g, F, i, g[m, c], v)
        BY <3>2 DEF Leaves
      <4>2. PICK v \in Words : u = <<c>> \o v /\ Accepts(g, F, i, g[m, c], v)
        BY <4>1
      <4>3. c \in Nat /\ g[m, c] \in Nat
        BY LabelsProperties
      <4>4. <<c>> \in Seq(Nat) /\ Len(<<c>>) = 1
        <5>1. c \in Nat
          BY <4>3
        <5> QED
          BY <5>1
      <4>5. Len(u) = 1 + Len(v) /\ Len(v) \in Nat
        BY <4>2, <4>4, ConcatProperties, LenProperties DEF Words
      <4>6. PICK l \in Nat : j = l + 1
        <5>1. j # 0
          BY <2>1, <4>5
        <5> QED
          BY <1>0, <5>1
      <4>7. Len(v) <= l
        BY <2>1, <4>5, <4>6
      <4>8. Early(i)
        BY <1>3
      <4>9. Accepts(g, F, l, g[m, c], v)
        <5> HIDE DEF S
        <5> QED
          BY <4>2, <4>3, <4>7, <4>8
      <4>10. Leaves(g, F, l, m, u)
        BY <4>2, <4>9 DEF Leaves
      <4> QED
        BY <4>6, <4>10, AcceptsRule
    <3> QED
      BY <2>1, <3>1, <3>2, AcceptsRule
  <2> QED
    BY <2>1
<1>4. Nat \subseteq S
  <2> HIDE DEF S
  <2> QED
    BY <1>2, <1>3, Induction
<1>5. PICK i \in Nat : Accepts(g, F, i, n, w)
  BY DEF Accepted
<1>6. Early(i)
  BY <1>4
<1> QED
  BY <1>5, <1>6

\* A word is accepted if its rest is, past the first character.
LEMMA AcceptedRule ==
  ASSUME NEW g, Graph(g), NEW F, NEW n \in Nat
  PROVE  /\ Accepted(g, F, n, <<>>) <=> n \in F
         /\ \A c \in Nat : \A v \in Words :
              Accepted(g, F, n, <<c>> \o v) <=> c \in Labels(g, n) /\ Accepted(g, F, g[n, c], v)
<1>1. \A k \in Nat : \A w : ~ (Leaves(g, F, k, n, w) /\ w = <<>>)
  <2> SUFFICES ASSUME NEW k \in Nat, Leaves(g, F, k, n, <<>>) PROVE FALSE
    OBVIOUS
  <2>1. PICK c \in Labels(g, n) : \E v \in Words : <<>> = <<c>> \o v
    BY DEF Leaves
  <2>2. PICK v \in Words : <<>> = <<c>> \o v
    BY <2>1
  <2>3. c \in Nat
    BY LabelsProperties
  <2> QED
    BY <2>2, <2>3, Leading
<1>0. ASSUME NEW k \in Nat PROVE k = 0 \/ \E l \in Nat : k = l + 1
  <2>1. k # 0 => k - 1 \in Nat /\ k = (k - 1) + 1
    OBVIOUS
  <2> QED
    BY <2>1
<1>2. Accepted(g, F, n, <<>>) <=> n \in F
  <2>1. ASSUME NEW k \in Nat, Accepts(g, F, k, n, <<>>) PROVE n \in F
    <3>1. CASE k = 0
      BY <2>1, <3>1, AcceptsRule
    <3>2. ASSUME NEW l \in Nat, k = l + 1 PROVE n \in F
      <4>1. n \in F \/ Leaves(g, F, l, n, <<>>)
        BY <2>1, <3>2, AcceptsRule
      <4> QED
        BY <1>1, <4>1
    <3> QED
      BY <1>0, <3>1, <3>2
  <2>2. n \in F => Accepts(g, F, 0, n, <<>>)
    BY AcceptsRule
  <2> QED
    BY <2>1, <2>2 DEF Accepted
<1>3. ASSUME NEW c \in Nat, NEW v \in Words
      PROVE  Accepted(g, F, n, <<c>> \o v) <=> c \in Labels(g, n) /\ Accepted(g, F, g[n, c], v)
  <2>0. PICK w : w = <<c>> \o v
    OBVIOUS
  <2>1. w # <<>>
    BY <2>0, Leading
  <2>2. ASSUME NEW k \in Nat, Accepts(g, F, k, n, w)
        PROVE  c \in Labels(g, n) /\ Accepted(g, F, g[n, c], v)
    <3>1. k # 0
      <4> SUFFICES ASSUME k = 0 PROVE FALSE
        OBVIOUS
      <4>1. Accepts(g, F, 0, n, w)
        BY <2>2
      <4>2. w = <<>> /\ n \in F
        BY <4>1, AcceptsNone
      <4> QED
        BY <2>1, <4>2
    <3>2. PICK l \in Nat : k = l + 1
      BY <1>0, <3>1
    <3>3. Leaves(g, F, l, n, w)
      <4>1. Accepts(g, F, l + 1, n, w)
        BY <2>2, <3>2
      <4> QED
        BY <2>1, <4>1, AcceptsMore
    <3>4. PICK d \in Labels(g, n) : \E u \in Words : w = <<d>> \o u /\ Accepts(g, F, l, g[n, d], u)
      BY <3>3 DEF Leaves
    <3>5. PICK u \in Words : w = <<d>> \o u /\ Accepts(g, F, l, g[n, d], u)
      BY <3>4
    <3>6. d \in Nat
      BY LabelsProperties
    <3>7. c = d /\ v = u
      <4>1. <<c>> \o v = <<d>> \o u
        BY <2>0, <3>5
      <4> QED
        BY <3>6, <4>1, Leading
    <3> QED
      BY <3>5, <3>7 DEF Accepted
  <2>3. ASSUME c \in Labels(g, n), NEW k \in Nat, Accepts(g, F, k, g[n, c], v)
        PROVE  Accepts(g, F, k + 1, n, w)
    <3>1. Leaves(g, F, k, n, w)
      BY <2>0, <2>3 DEF Leaves
    <3> QED
      BY <3>1, AcceptsRule
  <2>4. \A k \in Nat : k + 1 \in Nat
    OBVIOUS
  <2> QED
    BY <2>0, <2>2, <2>3, <2>4 DEF Accepted
<1> QED
  BY <1>2, <1>3

\* Nodes that nothing tells apart have one key.
LEMMA AlikeSpell ==
  ASSUME NEW g, Graph(g), NEW F, NEW m, NEW n, Alike(g, F, m, n)
  PROVE  Spell(g, F, m) = Spell(g, F, n)
<1>1. PICK labels : labels = TokenSet!SortedLabels(Labels(g, n))
  OBVIOUS
<1>2. Labels(g, m) = Labels(g, n) /\ (m \in F <=> n \in F)
  BY DEF Alike
<1>3. \A c \in Labels(g, n) : g[m, c] = g[n, c]
  BY DEF Alike
<1>4. \A i \in DOMAIN labels : labels[i] \in Labels(g, n)
  <2>1. Labels(g, n) \in SUBSET Nat /\ IsFiniteSet(Labels(g, n))
    BY LabelsProperties
  <2>2. labels \in Seq(Labels(g, n))
    BY <1>1, <2>1, SortedLabelsProperties
  <2>3. DOMAIN labels = 1 .. Len(labels)
    BY <2>2, LenProperties
  <2> QED
    BY <2>2, <2>3, ElementOfSeq
<1>5. [i \in DOMAIN labels |-> g[m, labels[i]]] = [i \in DOMAIN labels |-> g[n, labels[i]]]
  BY <1>3, <1>4
<1>6. (IF m \in F THEN 1 ELSE 0) = IF n \in F THEN 1 ELSE 0
  BY <1>2
<1> QED
  BY <1>1, <1>2, <1>5, <1>6 DEF Spell

\* What the registry is once every node but the root is in it.
Registry(g, F, reg) ==
  /\ Graph(g)
  /\ \A k \in DOMAIN reg : reg[k] \in Nat /\ Spell(g, F, reg[k]) = k /\ Ends(g, F, reg[k])
  /\ \A e \in DOMAIN g : Known(reg, e[1]) => Known(reg, g[e])

SameWords(g, F, m, n) == \A w : Accepted(g, F, m, w) <=> Accepted(g, F, n, w)

Within(g, F, n, j) == \A w : Accepted(g, F, n, w) => Len(w) <= j

\* What follows for the nodes that one label leads to from two nodes of the same words.
Followed(g, F, reg, m, n, c) ==
  /\ c \in Labels(g, n)
  /\ Known(reg, g[m, c])
  /\ SameWords(g, F, g[m, c], g[n, c])
  /\ \E v \in Words : Accepted(g, F, m, <<c>> \o v)
  /\ \A j \in Nat : Within(g, F, m, j) => j # 0 /\ Within(g, F, g[m, c], j - 1)

\* Such nodes are both registered, and have the same words themselves.
LEMMA Following ==
  ASSUME NEW g, NEW F, NEW reg, Registry(g, F, reg), NEW m \in Nat, NEW n \in Nat, Known(reg, m),
         SameWords(g, F, m, n), NEW c \in Labels(g, m)
  PROVE  Followed(g, F, reg, m, n, c)
<1>0. Graph(g)
  BY DEF Registry
<1>1. c \in Nat /\ <<m, c>> \in DOMAIN g /\ g[m, c] \in Nat
  BY <1>0, LabelsProperties
<1>2. Known(reg, g[m, c])
  <2>1. <<m, c>>[1] = m
    OBVIOUS
  <2> QED
    BY <1>1, <2>1 DEF Registry
<1>3. PICK v : Accepted(g, F, g[m, c], v)
  BY <1>2 DEF Registry, Known, Ends, Accepted
<1>4. \A x \in Nat : \A w : Accepted(g, F, x, w) => w \in Words
  BY <1>0, AcceptsFits DEF Accepted
<1>5. v \in Words
  BY <1>1, <1>3, <1>4
<1>6. ASSUME NEW w \in Words
      PROVE  /\ Accepted(g, F, m, <<c>> \o w) <=> Accepted(g, F, g[m, c], w)
             /\ Accepted(g, F, n, <<c>> \o w) <=> c \in Labels(g, n) /\ Accepted(g, F, g[n, c], w)
  BY <1>0, <1>1, AcceptedRule
<1>7. Accepted(g, F, m, <<c>> \o v)
  BY <1>3, <1>5, <1>6
<1>8. c \in Labels(g, n)
  BY <1>5, <1>6, <1>7 DEF SameWords
<1>9. SameWords(g, F, g[m, c], g[n, c])
  <2>1. g[n, c] \in Nat
    BY <1>0, <1>8, LabelsProperties
  <2>2. ASSUME NEW w PROVE Accepted(g, F, g[m, c], w) <=> Accepted(g, F, g[n, c], w)
    <3>1. CASE w \in Words
      BY <1>6, <1>8, <3>1 DEF SameWords
    <3>2. CASE w \notin Words
      BY <1>1, <1>4, <2>1, <3>2
    <3> QED
      BY <3>1, <3>2
  <2> QED
    BY <2>2 DEF SameWords
<1>10. ASSUME NEW j \in Nat, Within(g, F, m, j), NEW w, Accepted(g, F, g[m, c], w)
       PROVE  j # 0 /\ Len(w) <= j - 1
  <2>1. w \in Words
    BY <1>1, <1>4, <1>10
  <2>2. Len(<<c>> \o w) <= j
    BY <1>6, <1>10, <2>1 DEF Within
  <2>3. PICK l \in Nat : l = Len(w)
    BY <2>1, LenProperties DEF Words
  <2>4. Len(<<c>> \o w) = 1 + l
    <3>1. <<c>> \in Seq(Nat) /\ Len(<<c>>) = 1
      <4>1. c \in Nat
        BY <1>1
      <4> QED
        BY <4>1
    <3> QED
      BY <2>1, <2>3, <3>1, ConcatProperties DEF Words
  <2> QED
    BY <2>2, <2>3, <2>4
<1>11. ASSUME NEW j \in Nat, Within(g, F, m, j) PROVE j # 0 /\ Within(g, F, g[m, c], j - 1)
  BY <1>3, <1>10, <1>11 DEF Within
<1> QED
  BY <1>2, <1>5, <1>7, <1>8, <1>9, <1>11 DEF Followed

\* Registered nodes of the same words are one.
LEMMA Distinct ==
  ASSUME NEW g, NEW F, NEW reg, Registry(g, F, reg), NEW j \in Nat, NEW m, NEW n,
         Known(reg, m), Known(reg, n), SameWords(g, F, m, n), Within(g, F, m, j)
  PROVE  m = n
<1> DEFINE T(i) == \A x, y : /\ Known(reg, x) /\ Known(reg, y)
                             /\ SameWords(g, F, x, y) /\ Within(g, F, x, i)
                             => x = y
           S == {i \in Nat : T(i)}
<1>0. Graph(g)
  BY DEF Registry
<1>1. ASSUME NEW i \in Nat, i # 0 => T(i - 1), NEW x, NEW y, Known(reg, x), Known(reg, y),
             SameWords(g, F, x, y), Within(g, F, x, i)
      PROVE  x = y
  <2>1. x \in Nat /\ y \in Nat
    BY <1>1 DEF Known, Registry
  <2>2. SameWords(g, F, y, x)
    BY <1>1 DEF SameWords
  <2>3. ASSUME NEW c \in Labels(g, x) PROVE Followed(g, F, reg, x, y, c)
    BY <1>1, <2>1, Following
  <2>4. ASSUME NEW c \in Labels(g, y) PROVE Followed(g, F, reg, y, x, c)
    BY <1>1, <2>1, <2>2, Following
  <2>5. Labels(g, x) = Labels(g, y)
    <3>1. \A c : c \in Labels(g, x) <=> c \in Labels(g, y)
      BY <2>3, <2>4 DEF Followed
    <3>2. Labels(g, x) \in SUBSET (Nat \ Digit) /\ Labels(g, y) \in SUBSET (Nat \ Digit)
      BY <1>0, LabelsProperties
    <3> QED
      BY <3>1, <3>2
  <2>6. ASSUME NEW c \in Labels(g, x) PROVE g[x, c] = g[y, c]
    <3>1. /\ Known(reg, g[x, c]) /\ SameWords(g, F, g[x, c], g[y, c])
          /\ i # 0 /\ Within(g, F, g[x, c], i - 1)
      BY <1>1, <2>3 DEF Followed
    <3>2. Known(reg, g[y, c])
      BY <2>4, <2>5 DEF Followed
    <3>3. T(i - 1)
      BY <1>1, <3>1
    <3> QED
      BY <3>1, <3>2, <3>3
  <2>7. x \in F <=> y \in F
    <3>1. /\ Accepted(g, F, x, <<>>) <=> x \in F
          /\ Accepted(g, F, y, <<>>) <=> y \in F
      BY <1>0, <2>1, AcceptedRule
    <3> QED
      BY <1>1, <3>1 DEF SameWords
  <2>8. Spell(g, F, x) = Spell(g, F, y)
    <3>1. Alike(g, F, x, y)
      BY <2>5, <2>6, <2>7 DEF Alike
    <3> QED
      BY <1>0, <3>1, AlikeSpell
  <2>9. PICK k1 \in DOMAIN reg : x = reg[k1] /\ Spell(g, F, x) = k1
    BY <1>1 DEF Known, Registry
  <2>10. PICK k2 \in DOMAIN reg : y = reg[k2] /\ Spell(g, F, y) = k2
    BY <1>1 DEF Known, Registry
  <2> QED
    BY <2>8, <2>9, <2>10
<1>2. 0 \in S
  <2>1. T(0)
    BY <1>1
  <2> HIDE DEF T
  <2> QED
    BY <2>1
<1>3. ASSUME NEW i \in Nat, i \in S PROVE i + 1 \in S
  <2>1. i + 1 \in Nat /\ (i + 1) - 1 = i /\ T(i)
    BY <1>3
  <2>2. T(i + 1)
    BY <1>1, <2>1
  <2> HIDE DEF T
  <2> QED
    BY <2>1, <2>2
<1>4. Nat \subseteq S
  <2> HIDE DEF S
  <2> QED
    BY <1>2, <1>3, Induction
<1>5. T(j)
  <2> HIDE DEF T
  <2> QED
    BY <1>4
<1> QED
  BY <1>5

\* What f[k \in Nat] == IF k = 0 THEN base ELSE step[k][f[k - 1]] declares.
DeclaresOn(f, base, step) ==
  f = [k \in Nat |-> IF k = 0 THEN base ELSE step[k][f[k - 1]]]

\* There is such a function if the steps stay in one set.
LEMMA NatRecursion ==
  ASSUME NEW V, NEW base \in V, NEW step, \A k \in Nat \ {0} : \A s \in V : step[k][s] \in V
  PROVE  \E f : DeclaresOn(f, base, step)
<1> DEFINE rank == [k \in Nat |-> k]
           Below(k) == Lower(Nat, rank, k)
           Value(k, h) == IF k = 0 THEN base ELSE step[k][h[k - 1]]
           steps == [k \in Nat |-> [h \in [Below(k) -> V] |-> Value(k, h)]]
<1>1. rank \in [Nat -> Nat] /\ \A k \in Nat : rank[k] = k
  OBVIOUS
<1>2. ASSUME NEW k \in Nat, k # 0 PROVE k - 1 \in Below(k) /\ k - 1 \in Nat
  BY <1>2 DEF Lower
<1>3. ASSUME NEW k \in Nat, NEW h \in [Below(k) -> V] PROVE steps[k][h] \in V /\ steps[k][h] = Value(k, h)
  <2>1. steps[k][h] = Value(k, h)
    <3> HIDE DEF Below, Value
    <3> QED
      OBVIOUS
  <2>2. Value(k, h) \in V
    <3>1. CASE k = 0
      BY <3>1
    <3>2. CASE k # 0
      <4>1. h[k - 1] \in V
        <5> HIDE DEF Below
        <5> QED
          BY <1>2, <3>2
      <4> QED
        BY <3>2, <4>1
    <3> QED
      BY <3>1, <3>2
  <2> HIDE DEF steps, Value
  <2> QED
    BY <2>1, <2>2
<1>4. PICK f : Ranked(f, Nat, V, rank, steps)
  <2>1. Leads(Nat, V, rank, steps)
    <3> HIDE DEF steps, rank
    <3> QED
      BY <1>3 DEF Leads
  <2> HIDE DEF steps, rank
  <2> QED
    BY <1>1, <2>1, RankedRecursion
<1>5. f \in [Nat -> V]
  <2> HIDE DEF steps, rank
  <2> QED
    BY <1>4 DEF Ranked
<1>6. ASSUME NEW k \in Nat PROVE f[k] = IF k = 0 THEN base ELSE step[k][f[k - 1]]
  <2> DEFINE h == [y \in Below(k) |-> f[y]]
  <2>1. h \in [Below(k) -> V] /\ (k # 0 => h[k - 1] = f[k - 1])
    <3>1. Below(k) \subseteq Nat
      BY DEF Lower
    <3> HIDE DEF Below
    <3> QED
      BY <1>2, <1>5, <3>1
  <2>2. f[k] = steps[k][h]
    <3> HIDE DEF steps, rank
    <3> QED
      BY <1>4 DEF Ranked, Restrict
  <2> HIDE DEF h, Below, steps
  <2>3. f[k] = IF k = 0 THEN base ELSE step[k][h[k - 1]]
    BY <1>3, <2>1, <2>2
  <2>4. CASE k = 0
    BY <2>3, <2>4
  <2>5. CASE k # 0
    BY <2>1, <2>3, <2>5
  <2> QED
    BY <2>4, <2>5
<1>7. DeclaresOn(f, base, step)
  <2> HIDE DEF steps, rank
  <2> QED
    BY <1>5, <1>6 DEF DeclaresOn
<1> QED
  BY <1>7

\* Numbers of steps.
LEMMA Steps ==
  /\ \A k \in Nat : /\ k + 1 \in Nat /\ (k + 1) - 1 = k /\ k + 1 # 0
                    /\ k # 0 => k - 1 \in Nat
  /\ \A top \in Int : \A k \in 0 .. top : k \in Nat
  /\ \A a, b \in Nat : a - b \in Int
  OBVIOUS

\* What holds of the root, and of the nodes that lead on from one it holds of, holds of
\* all that is reachable.
LEMMA ReachableWithin ==
  ASSUME Graph(edges), nextId \in Nat, NEW P \in SUBSET Nat, Root \in P,
         \A n \in P : \A c \in Labels(edges, n) : edges[n, c] \in P
  PROVE  TokenSet!Reachable \subseteq P
<1>0. /\ \A k \in Nat : /\ k + 1 \in Nat /\ (k + 1) - 1 = k /\ k + 1 # 0
                        /\ k # 0 => k - 1 \in Nat
      /\ \A top \in Int : \A k \in 0 .. top : k \in Nat
      /\ nextId - Root \in Int
  BY RootAssumption, Steps
<1> DEFINE Onward(N) == UNION {{edges[n, c] : c \in TokenSet!Labels(edges, n)} : n \in N}
           V == SUBSET P
           step == [k \in Nat |-> [N \in V |-> Onward(N)]]
           Eq(f) == f = [k \in Nat |-> IF k = 0 THEN {Root}
                          ELSE UNION {{edges[n, c] : c \in TokenSet!Labels(edges, n)} : n \in f[k - 1]}]
           level == CHOOSE f : Eq(f)
<1>1. ASSUME NEW N \in V PROVE Onward(N) \in V
  <2>1. ASSUME NEW x \in Onward(N) PROVE x \in P
    <3>1. PICK n \in N : x \in {edges[n, c] : c \in TokenSet!Labels(edges, n)}
      BY <2>1
    <3>2. PICK c \in TokenSet!Labels(edges, n) : x = edges[n, c]
      BY <3>1
    <3>3. n \in P
      BY <1>1
    <3>4. edges[n, c] \in P
      BY <3>2, <3>3 DEF Labels
    <3> QED
      BY <3>2, <3>4
  <2> HIDE DEF Onward
  <2>2. Onward(N) \subseteq P
    BY <2>1
  <2> QED
    BY <2>2
<1>2. \A k \in Nat : \A N \in V : step[k][N] = Onward(N)
  <2> HIDE DEF Onward
  <2> QED
    OBVIOUS
<1>3. {Root} \in V
  OBVIOUS
<1>4. PICK f : DeclaresOn(f, {Root}, step)
  <2>1. \A k \in Nat \ {0} : \A N \in V : step[k][N] \in V
    <3> HIDE DEF step, Onward, V
    <3> QED
      BY <1>1, <1>2
  <2> HIDE DEF step, V
  <2> QED
    BY <1>3, <2>1, NatRecursion
<1>5. \A k \in Nat : f[k] \in V
  <2> DEFINE S == {k \in Nat : f[k] \in V}
  <2>1. f = [k \in Nat |-> IF k = 0 THEN {Root} ELSE step[k][f[k - 1]]]
    BY <1>4 DEF DeclaresOn
  <2>2. 0 \in S
    <3>1. f[0] = {Root}
      <4> HIDE DEF step
      <4> QED
        BY <2>1
    <3> HIDE DEF V
    <3> QED
      BY <1>3, <3>1
  <2>3. ASSUME NEW k \in Nat, k \in S PROVE k + 1 \in S
    <3>1. k + 1 \in Nat /\ (k + 1) - 1 = k /\ k + 1 # 0
      BY <1>0, Zenon
    <3>2. f[k + 1] = step[k + 1][f[k]]
      <4> HIDE DEF step
      <4> QED
        BY <2>1, <3>1
    <3> HIDE DEF step, V, Onward
    <3> QED
      BY <1>1, <1>2, <2>3, <3>1, <3>2
  <2>4. Nat \subseteq S
    <3> HIDE DEF S
    <3> QED
      BY <2>2, <2>3, Induction
  <2> HIDE DEF V
  <2> QED
    BY <2>4
<1>6. Eq(f)
  <2>1. ASSUME NEW k \in Nat, k # 0 PROVE step[k][f[k - 1]] = Onward(f[k - 1])
    <3>1. k - 1 \in Nat
      BY <1>0, <2>1, Zenon
    <3> HIDE DEF step, V, Onward
    <3> QED
      BY <1>2, <1>5, <3>1
  <2>2. f = [k \in Nat |-> IF k = 0 THEN {Root} ELSE step[k][f[k - 1]]]
    <3> HIDE DEF step
    <3> QED
      BY <1>4 DEF DeclaresOn
  <2>3. f = [k \in Nat |-> IF k = 0 THEN {Root} ELSE Onward(f[k - 1])]
    <3> HIDE DEF step, Onward
    <3> QED
      BY <2>1, <2>2
  <2> QED
    BY <2>3
<1>7. Eq(level)
  <2> HIDE DEF Eq
  <2> QED
    BY <1>6
<1>8. TokenSet!Reachable = UNION {level[k] : k \in 0 .. nextId - Root}
  BY DEF TokenSet!Reachable
<1> HIDE DEF level
<1>9. \A k \in Nat : level[k] \in V
  <2> DEFINE S == {k \in Nat : level[k] \in V}
  <2>1. level = [k \in Nat |-> IF k = 0 THEN {Root} ELSE Onward(level[k - 1])]
    BY <1>7
  <2>2. 0 \in S
    <3>1. level[0] = {Root}
      <4> HIDE DEF Onward
      <4> QED
        BY <2>1
    <3> HIDE DEF V
    <3> QED
      BY <1>3, <3>1
  <2>3. ASSUME NEW k \in Nat, k \in S PROVE k + 1 \in S
    <3>1. k + 1 \in Nat /\ (k + 1) - 1 = k /\ k + 1 # 0
      BY <1>0, Zenon
    <3>2. level[k + 1] = Onward(level[k])
      <4> HIDE DEF Onward
      <4> QED
        BY <2>1, <3>1
    <3> HIDE DEF V, Onward
    <3> QED
      BY <1>1, <2>3, <3>1, <3>2
  <2>4. Nat \subseteq S
    <3> HIDE DEF S
    <3> QED
      BY <2>2, <2>3, Induction
  <2> HIDE DEF V, Eq
  <2> QED
    BY <2>4
<1>10. \A k \in 0 .. nextId - Root : k \in Nat
  BY <1>0, Zenon
<1> QED
  <2> HIDE DEF Eq
  <2> QED
    BY <1>8, <1>9, <1>10

\* A node of a finished automaton, and a way to it: its words are what is left of words
\* of the root.
Led(n) ==
  /\ n = Root \/ Known(minimizedNodes, n)
  /\ \E u \in Words : /\ n = Root \/ Len(u) # 0
                      /\ \A w \in Words : Accepted(edges, final, n, w) => Accepted(edges, final, Root, u \o w)

\* finish has registered every node that anything leads to.
LEMMA FinishedRegistry ==
  ASSUME Finished
  PROVE  /\ Registry(edges, final, minimizedNodes) /\ nextId \in Nat
         /\ \A c \in Labels(edges, Root) : Known(minimizedNodes, edges[Root, c])
<1>1. PICK q : Builder(edges, final, minimizedNodes, q, previousWord, 0, nextId)
  BY DEF Finished
<1>2. /\ Graph(edges) /\ q[0] = Root /\ nextId \in Nat
      /\ \A k \in DOMAIN minimizedNodes :
           /\ minimizedNodes[k] \in Nat /\ Spell(edges, final, minimizedNodes[k]) = k
           /\ Ends(edges, final, minimizedNodes[k])
  BY <1>1 DEF Builder, Path, Bounded, Registered, AllEnd
<1>3. ASSUME NEW e \in DOMAIN edges, e[1] = Root \/ Known(minimizedNodes, e[1])
      PROVE  Known(minimizedNodes, edges[e])
  <2>1. 0 \in 0 .. 0 /\ \A i \in 1 .. 0 : FALSE
    OBVIOUS
  <2>2. (\E i \in 0 .. 0 : e[1] = q[i]) \/ Known(minimizedNodes, e[1])
    BY <1>2, <1>3, <2>1
  <2>3. Known(minimizedNodes, edges[e]) \/ \E i \in 1 .. 0 : e = <<q[i - 1], previousWord[i]>>
    BY <1>1, <2>2 DEF Builder, Closed
  <2> QED
    BY <2>1, <2>3
<1>4. ASSUME NEW c \in Labels(edges, Root) PROVE Known(minimizedNodes, edges[Root, c])
  <2>1. <<Root, c>> \in DOMAIN edges /\ <<Root, c>>[1] = Root
    BY <1>2, LabelsProperties
  <2> QED
    BY <1>3, <2>1
<1>5. Registry(edges, final, minimizedNodes)
  BY <1>2, <1>3 DEF Registry
<1> QED
  BY <1>2, <1>4, <1>5

\* All that is reachable has a way to it.
LEMMA ReachableLed ==
  ASSUME Finished
  PROVE  \A n \in TokenSet!Reachable : n \in Nat /\ Led(n)
<1>0. /\ Registry(edges, final, minimizedNodes) /\ nextId \in Nat /\ Graph(edges)
      /\ \A c \in Labels(edges, Root) : Known(minimizedNodes, edges[Root, c])
  BY FinishedRegistry DEF Registry
<1> DEFINE P == {n \in Nat : Led(n)}
<1>1. Root \in P
  <2>1. <<>> \in Words /\ \A w \in Words : <<>> \o w = w
    BY ConcatSimplifications DEF Words
  <2>2. Led(Root)
    BY <2>1 DEF Led
  <2> QED
    BY <2>2, RootAssumption
<1>2. ASSUME NEW n \in Nat, Led(n), NEW c \in Labels(edges, n) PROVE edges[n, c] \in Nat /\ Led(edges[n, c])
  <2>1. c \in Nat /\ <<n, c>> \in DOMAIN edges /\ <<n, c>>[1] = n /\ edges[n, c] \in Nat
    BY <1>0, LabelsProperties
  <2>2. Known(minimizedNodes, edges[n, c])
    <3>1. CASE n = Root
      BY <1>0, <3>1
    <3>2. CASE Known(minimizedNodes, n)
      BY <1>0, <2>1, <3>2 DEF Registry
    <3> QED
      BY <1>2, <3>1, <3>2 DEF Led
  <2>3. PICK u \in Words : \A w \in Words : Accepted(edges, final, n, w) => Accepted(edges, final, Root, u \o w)
    BY <1>2 DEF Led
  <2>4. PICK x : x = <<c>>
    OBVIOUS
  <2>5. x \in Words /\ Len(x) = 1
    <3>1. c \in Nat
      BY <2>1
    <3>2. <<c>> \in Seq(Nat) /\ Len(<<c>>) = 1
      BY <3>1
    <3> QED
      BY <2>4, <3>2 DEF Words
  <2>6. u \o x \in Words /\ Len(u \o x) # 0
    <3>1. Len(u) \in Nat
      BY LenProperties DEF Words
    <3>2. u \o x \in Words /\ Len(u \o x) = Len(u) + 1
      <4>1. u \in Seq(Nat) /\ x \in Seq(Nat) /\ Len(x) = 1
        BY <2>5 DEF Words
      <4>2. u \o x \in Seq(Nat) /\ Len(u \o x) = Len(u) + Len(x)
        BY <4>1, ConcatProperties
      <4> QED
        BY <4>1, <4>2 DEF Words
    <3> QED
      BY <3>1, <3>2
  <2>7. ASSUME NEW w \in Words, Accepted(edges, final, edges[n, c], w)
        PROVE  Accepted(edges, final, Root, (u \o x) \o w)
    <3>1. Accepted(edges, final, n, x \o w)
      BY <1>0, <2>1, <2>4, <2>7, AcceptedRule
    <3>2. x \o w \in Words
      BY <2>5, ConcatProperties DEF Words
    <3>3. Accepted(edges, final, Root, u \o (x \o w))
      BY <2>3, <3>1, <3>2
    <3>4. (u \o x) \o w = u \o (x \o w)
      BY <2>5, ConcatAssociative DEF Words
    <3> QED
      BY <3>3, <3>4
  <2> QED
    BY <2>1, <2>2, <2>6, <2>7 DEF Led
<1>3. TokenSet!Reachable \subseteq P
  <2>1. \A n \in P : \A c \in Labels(edges, n) : edges[n, c] \in P
    BY <1>2
  <2> HIDE DEF P
  <2>2. P \in SUBSET Nat
    BY DEF P
  <2> QED
    BY <1>0, <1>1, <2>1, <2>2, ReachableWithin
<1> QED
  BY <1>3

\* The words of a node of a finished automaton are its right language.
LEMMA WordsOfLed ==
  ASSUME TermsInv, Exact, Finished, NEW n \in Nat, Led(n), NEW k \in Nat, k = nextId - Root
  PROVE  /\ Within(edges, final, n, k)
         /\ \A w : w \in TokenSet!RightLanguage(n) <=> Accepted(edges, final, n, w)
<1>0. Graph(edges) /\ Root \in Nat
  BY FinishedRegistry, RootAssumption DEF Registry
<1>1. ASSUME NEW w, Accepted(edges, final, n, w) PROVE w \in Words /\ Len(w) <= k
  <2>1. w \in Words
    BY <1>0, <1>1, AcceptsFits DEF Accepted
  <2>2. PICK u \in Words : Accepted(edges, final, Root, u \o w)
    BY <1>1, <2>1 DEF Led
  <2>3. PICK j \in Nat : Accepts(edges, final, j, Root, u \o w)
    BY <2>2 DEF Accepted
  <2>4. PICK i \in 1 .. inserted : u \o w = SortedTerms[i]
    BY <2>3 DEF Exact
  <2>5. Len(u \o w) < k
    BY <2>4 DEF Exact
  <2>6. PICK l \in Nat : l = Len(w)
    BY <2>1, LenProperties DEF Words
  <2>7. PICK m \in Nat : m = Len(u)
    BY LenProperties DEF Words
  <2>8. Len(u \o w) = m + l
    BY <2>1, <2>6, <2>7, ConcatProperties DEF Words
  <2>9. l <= k
    BY <2>5, <2>8
  <2> QED
    BY <2>1, <2>6, <2>9
<1>2. ASSUME NEW w PROVE w \in TokenSet!RightLanguage(n) <=> Accepts(edges, final, k, n, w)
  BY DEF TokenSet!RightLanguage, Accepts, Lang
<1>3. ASSUME NEW w PROVE Accepts(edges, final, k, n, w) <=> Accepted(edges, final, n, w)
  <2>1. Accepts(edges, final, k, n, w) => Accepted(edges, final, n, w)
    BY DEF Accepted
  <2>2. ASSUME Accepted(edges, final, n, w) PROVE Accepts(edges, final, k, n, w)
    BY <1>0, <1>1, <2>2, AcceptedEarly
  <2> QED
    BY <2>1, <2>2
<1> QED
  BY <1>1, <1>2, <1>3 DEF Within

\* The root has a longer word than any other node.
LEMMA RootIsLonger ==
  ASSUME NEW n \in Nat, Finished, Led(n), n # Root, NEW k \in Nat, Within(edges, final, n, k)
  PROVE  ~SameWords(edges, final, Root, n)
<1> SUFFICES ASSUME SameWords(edges, final, Root, n) PROVE FALSE
  OBVIOUS
<1>0. Graph(edges) /\ Registry(edges, final, minimizedNodes)
  BY FinishedRegistry DEF Registry
<1>1. Known(minimizedNodes, n)
  BY DEF Led
<1>2. PICK v : Accepted(edges, final, n, v)
  BY <1>0, <1>1 DEF Registry, Known, Ends, Accepted
<1>3. PICK u \in Words : /\ Len(u) # 0
                         /\ \A w \in Words : Accepted(edges, final, n, w) => Accepted(edges, final, Root, u \o w)
  BY DEF Led
<1>4. ASSUME NEW w, Accepted(edges, final, n, w) PROVE w \in Words /\ Len(w) \in Nat
  <2>1. w \in Words
    BY <1>0, <1>4, AcceptsFits DEF Accepted
  <2> QED
    BY <2>1, LenProperties DEF Words
<1> DEFINE S == {j \in Nat : \E w : Accepted(edges, final, n, w) /\ Len(w) >= j}
<1>5. 0 \in S
  <2>1. Len(v) >= 0
    BY <1>2, <1>4
  <2> QED
    BY <1>2, <2>1
<1>6. ASSUME NEW j \in Nat, j \in S PROVE j + 1 \in S
  <2>1. PICK w : Accepted(edges, final, n, w) /\ Len(w) >= j
    BY <1>6
  <2>2. w \in Words /\ Len(w) \in Nat
    BY <1>4, <2>1
  <2>3. Accepted(edges, final, n, u \o w)
    BY <1>3, <2>1, <2>2 DEF SameWords
  <2>4. PICK m \in Nat : m = Len(u)
    BY LenProperties DEF Words
  <2>5. Len(u \o w) = m + Len(w)
    BY <2>2, <2>4, ConcatProperties DEF Words
  <2>6. Len(u \o w) >= j + 1
    <3>1. PICK l \in Nat : l = Len(w)
      BY <2>2
    <3>2. m # 0 /\ l >= j /\ Len(u \o w) = m + l
      BY <1>3, <2>1, <2>4, <2>5, <3>1
    <3>3. PICK t \in Nat : t = m + l
      OBVIOUS
    <3>4. t >= j + 1
      BY <3>2, <3>3
    <3>5. Len(u \o w) = t
      BY <3>2, <3>3
    <3> HIDE DEF S
    <3> QED
      BY <3>3, <3>4, <3>5
  <2>7. PICK y \in Nat : y = j + 1
    OBVIOUS
  <2>8. \E x : Accepted(edges, final, n, x) /\ Len(x) >= y
    <3> HIDE DEF S
    <3> QED
      BY <2>3, <2>6, <2>7
  <2>9. y \in S
    BY <2>8
  <2> HIDE DEF S
  <2> QED
    BY <2>7, <2>9
<1>7. Nat \subseteq S
  <2> HIDE DEF S
  <2> QED
    BY <1>5, <1>6, Induction
<1>8. PICK w : Accepted(edges, final, n, w) /\ Len(w) >= k + 1
  <2>1. k + 1 \in S
    BY <1>7
  <2> QED
    BY <2>1
<1>9. Len(w) <= k /\ Len(w) \in Nat
  BY <1>4, <1>8 DEF Within
<1> QED
  BY <1>8, <1>9

\* A finished automaton has no two nodes of one right language.
LEMMA MinimalAutomaton ==
  ASSUME TermsInv, Exact, Finished
  PROVE  TokenSetIsMinimal
<1>1. PICK k \in Nat : k = nextId - Root
  <2>1. nextId \in Nat /\ Root \in Nat /\ Root < nextId
    BY RootAssumption DEF Exact
  <2> QED
    BY <2>1
<1>2. ASSUME NEW m \in TokenSet!Reachable, NEW n \in TokenSet!Reachable,
             TokenSet!RightLanguage(m) = TokenSet!RightLanguage(n)
      PROVE  m = n
  <2>1. m \in Nat /\ Led(m) /\ n \in Nat /\ Led(n)
    BY ReachableLed
  <2>2. /\ Within(edges, final, m, k) /\ Within(edges, final, n, k)
        /\ \A w : w \in TokenSet!RightLanguage(m) <=> Accepted(edges, final, m, w)
        /\ \A w : w \in TokenSet!RightLanguage(n) <=> Accepted(edges, final, n, w)
    BY <1>1, <2>1, WordsOfLed
  <2>3. SameWords(edges, final, m, n) /\ SameWords(edges, final, n, m)
    BY <1>2, <2>2 DEF SameWords
  <2>4. CASE m = Root
    <3>1. n = Root
      <4> SUFFICES ASSUME n # Root PROVE FALSE
        OBVIOUS
      <4> QED
        BY <2>1, <2>2, <2>3, <2>4, RootIsLonger
    <3> QED
      BY <2>4, <3>1
  <2>5. CASE n = Root
    <3>1. m = Root
      <4> SUFFICES ASSUME m # Root PROVE FALSE
        OBVIOUS
      <4> QED
        BY <2>1, <2>2, <2>3, <2>5, RootIsLonger
    <3> QED
      BY <2>5, <3>1
  <2>6. CASE m # Root /\ n # Root
    <3>1. Known(minimizedNodes, m) /\ Known(minimizedNodes, n)
      BY <2>1, <2>6 DEF Led
    <3>2. Registry(edges, final, minimizedNodes)
      BY FinishedRegistry
    <3> QED
      BY <2>2, <2>3, <3>1, <3>2, Distinct
  <2> QED
    BY <2>4, <2>5, <2>6
<1> QED
  BY <1>2 DEF TokenSetIsMinimal

(***************************************************************************)
(* And what build leaves is minimal: no two nodes that can be reached      *)
(* accept the same words from there on.  What comes out of minimize is     *)
(* registered under its string, a registered node leads to registered      *)
(* nodes only, and so two of them that accept the same words have, from    *)
(* the leaves up, one string: they are one node.                           *)
(***************************************************************************)
THEOREM TokenSetMinimal == IndexSpec => [](NoDigits => TokenSetIsMinimal)
<1>1. InitIndex => TermsInv /\ AutomatonInv
  BY IndexStarts
<1>2. TermsInv /\ AutomatonInv /\ [IndexNext]_indexVars => TermsInv' /\ AutomatonInv'
  BY TermsKept, AutomatonKept
<1>3. TermsInv /\ AutomatonInv => (NoDigits => TokenSetIsMinimal)
  <2>1. CASE ~built
    BY <2>1 DEF TokenSetIsMinimal
  <2>2. CASE built
    BY <2>2, MinimalAutomaton DEF AutomatonInv
  <2> QED
    BY <2>1, <2>2
<1> QED
  BY <1>1, <1>2, <1>3, PTL DEF IndexSpec
-----------------------------------------------------------------------------
(* Queries: what a backslash escapes                                       *)

\* No two of the special characters are the same, and none is a digit.
LEMMA SpecialsDiffer ==
  /\ Colon # Tilde /\ Colon # Caret /\ Colon # Backslash /\ Colon # Space
  /\ Tilde # Caret /\ Tilde # Backslash /\ Tilde # Space
  /\ Caret # Backslash /\ Caret # Space /\ Backslash # Space
  /\ \A c \in Special : c \in Nat /\ c \notin Digit
<1> DEFINE s == <<Colon, Tilde, Caret, Backslash, Space>>
<1>1. \A i, j \in 1 .. 5 : i # j => s[i] # s[j]
  <2>1. DOMAIN s = 1 .. 5
    OBVIOUS
  <2>2. IsInjective(s)
    BY SpecialAssumption
  <2> HIDE DEF s
  <2> QED
    BY <2>1, <2>2 DEF IsInjective
<1>2. \A c \in Special : c \in Nat /\ c \notin Digit
  BY SpecialAssumption
<1> QED
  BY <1>1, <1>2

\* The greatest and the least element of a set.
LEMMA MaxIs == ASSUME NEW T \in SUBSET Nat, NEW m \in T, \A x \in T : m >= x PROVE Max(T) = m
<1>1. Max(T) \in T /\ \A x \in T : Max(T) >= x
  BY DEF Max
<1> HIDE DEF Max
<1>2. Max(T) >= m /\ m >= Max(T) /\ Max(T) \in Nat /\ m \in Nat
  BY <1>1
<1> QED
  BY <1>2

\* The least element of a set of numbers.
LEMMA MinIs == ASSUME NEW T \in SUBSET Nat, NEW m \in T, \A x \in T : m <= x PROVE Min(T) = m
<1>1. Min(T) \in T /\ \A x \in T : Min(T) <= x
  BY DEF Min
<1> HIDE DEF Min
<1>2. Min(T) <= m /\ m <= Min(T) /\ Min(T) \in Nat /\ m \in Nat
  BY <1>1
<1> QED
  BY <1>2

\* The places before i that may end a run of backslashes.
Others(str, i) == {j \in 0 .. i - 1 : j = 0 \/ str[j] # Backslash}

\* There is a last place before i that ends such a run.
LEMMA OthersMax ==
  ASSUME NEW str, NEW i \in Nat \ {0}
  PROVE  \E m \in Others(str, i) : m = Max(Others(str, i)) /\ m \in 0 .. i - 1 /\ \A j \in Others(str, i) : m >= j
<1> DEFINE T == {i - 1 - j : j \in Others(str, i)}
<1>1. T \in SUBSET Nat /\ i - 1 \in T
  BY DEF Others
<1>2. PICK k \in T : \A x \in T : k <= x
  <2> HIDE DEF T
  <2> QED
    BY <1>1, Least
<1>3. PICK m \in Others(str, i) : k = i - 1 - m
  BY <1>2
<1>4. m \in 0 .. i - 1
  BY DEF Others
<1>5. ASSUME NEW j \in Others(str, i) PROVE m >= j
  <2>1. j \in 0 .. i - 1 /\ i - 1 - j \in T
    BY DEF Others
  <2>2. k <= i - 1 - j
    <3> HIDE DEF T
    <3> QED
      BY <1>2, <2>1
  <2> QED
    BY <1>3, <1>4, <2>1, <2>2
<1>6. Others(str, i) \in SUBSET Nat
  BY DEF Others
<1>7. Max(Others(str, i)) = m
  BY <1>5, <1>6, MaxIs
<1> QED
  BY <1>4, <1>5, <1>7

\* A backslash escapes what comes after it unless it is escaped itself.
LEMMA Escaping ==
  ASSUME NEW str
  PROVE  /\ ~EscapedAt(str, 1)
         /\ \A p \in Nat \ {0} : str[p] # Backslash => ~EscapedAt(str, p + 1)
         /\ \A p \in Nat \ {0} : str[p] = Backslash => (EscapedAt(str, p + 1) <=> ~EscapedAt(str, p))
<1> DEFINE run(i) == i - 1 - Max(Others(str, i))
<1>0. \A i : EscapedAt(str, i) <=> run(i) % 2 = 1
  BY DEF EscapedAt, Others
<1>1. ~EscapedAt(str, 1)
  <2>1. Others(str, 1) = {0}
    BY DEF Others
  <2>2. Max(Others(str, 1)) = 0
    BY <2>1, MaxIs
  <2> QED
    BY <1>0, <2>2
<1>2. ASSUME NEW p \in Nat \ {0}, str[p] # Backslash PROVE ~EscapedAt(str, p + 1)
  <2>1. Others(str, p + 1) \in SUBSET Nat /\ p \in Others(str, p + 1) /\ \A x \in Others(str, p + 1) : p >= x
    BY <1>2 DEF Others
  <2>2. Max(Others(str, p + 1)) = p
    BY <2>1, MaxIs
  <2>3. run(p + 1) = 0
    BY <2>2
  <2> HIDE DEF run
  <2> QED
    BY <1>0, <2>3
<1>3. ASSUME NEW p \in Nat \ {0}, str[p] = Backslash PROVE EscapedAt(str, p + 1) <=> ~EscapedAt(str, p)
  <2>1. Others(str, p + 1) = Others(str, p)
    BY <1>3 DEF Others
  <2>2. PICK m \in 0 .. p - 1 : m = Max(Others(str, p))
    BY OthersMax
  <2>3. run(p + 1) = run(p) + 1 /\ run(p) \in Nat
    BY <2>1, <2>2
  <2> HIDE DEF run
  <2>4. \A n \in Nat : (n + 1) % 2 = 1 <=> ~(n % 2 = 1)
    OBVIOUS
  <2> QED
    BY <1>0, <2>3, <2>4
<1> QED
  BY <1>1, <1>2, <1>3

-----------------------------------------------------------------------------
(* Recursion that goes up                                                  *)

\* The numbers after p, if there is something at p that they may decide.
After(n, p) == {q \in Nat : p <= n /\ q > p}

\* What f[p \in Nat] == step[p][f after p] declares.
Climbs(f, n, V, step) ==
  f \in [Nat -> V] /\ \A p \in Nat : f[p] = step[p][[q \in After(n, p) |-> f[q]]]

\* A recursive function that goes up, and stops above n.
LEMMA Climbing ==
  ASSUME NEW n \in Nat, NEW V, NEW step, \A p \in Nat : \A h \in [After(n, p) -> V] : step[p][h] \in V
  PROVE  \E f : Climbs(f, n, V, step)
<1> DEFINE rank == [p \in Nat |-> IF p > n THEN 0 ELSE n + 1 - p]
<1>1. rank \in [Nat -> Nat] /\ \A p \in Nat : rank[p] = IF p > n THEN 0 ELSE n + 1 - p
  OBVIOUS
<1>2. ASSUME NEW p \in Nat PROVE Lower(Nat, rank, p) = After(n, p)
  <2>1. ASSUME NEW q \in Nat PROVE rank[q] < rank[p] <=> p <= n /\ q > p
    <3> HIDE DEF rank
    <3>1. rank[p] = (IF p > n THEN 0 ELSE n + 1 - p) /\ rank[q] = (IF q > n THEN 0 ELSE n + 1 - q)
      BY <1>1
    <3> QED
      BY <3>1
  <2> HIDE DEF rank
  <2> QED
    BY <2>1 DEF Lower, After
<1> HIDE DEF rank
<1>3. PICK f : Ranked(f, Nat, V, rank, step)
  <2>1. Leads(Nat, V, rank, step)
    BY <1>2 DEF Leads
  <2> QED
    BY <1>1, <2>1, RankedRecursion
<1>4. f \in [Nat -> V] /\ \A p \in Nat : f[p] = step[p][Restrict(f, After(n, p))]
  BY <1>2, <1>3 DEF Ranked
<1>5. \A p \in Nat : Restrict(f, After(n, p)) = [q \in After(n, p) |-> f[q]]
  BY DEF Restrict
<1> QED
  BY <1>4, <1>5 DEF Climbs

\* Induction down from above n.
LEMMA ClimbingInduction ==
  ASSUME NEW n \in Nat, NEW G, \A p \in Nat : After(n, p) \subseteq G => p \in G
  PROVE  Nat \subseteq G
<1> DEFINE rank == [p \in Nat |-> IF p > n THEN 0 ELSE n + 1 - p]
<1>1. rank \in [Nat -> Nat] /\ \A p \in Nat : rank[p] = IF p > n THEN 0 ELSE n + 1 - p
  OBVIOUS
<1> HIDE DEF rank
<1>2. ASSUME NEW p \in Nat, \A q \in Nat : rank[q] < rank[p] => q \in G PROVE p \in G
  <2>1. ASSUME NEW q \in After(n, p) PROVE q \in G
    <3>1. q \in Nat /\ p <= n /\ q > p
      BY DEF After
    <3>2. rank[p] = n + 1 - p /\ rank[q] = IF q > n THEN 0 ELSE n + 1 - q
      BY <1>1, <3>1
    <3>3. rank[q] < rank[p]
      BY <3>1, <3>2
    <3> QED
      BY <1>2, <3>1, <3>3
  <2> QED
    BY <2>1
<1> QED
  BY <1>1, <1>2, RankInduction

-----------------------------------------------------------------------------
(* Where lexText stops                                                     *)

\* lexText reads one character after the other, a backslash with its successor.
LEMMA StopRule ==
  ASSUME NEW str \in Words, NEW p \in Nat
  PROVE  /\ Stop(str, p) \in Nat
         /\ Stop(str, p) = IF p > Len(str) THEN p
                           ELSE IF str[p] = Backslash THEN Stop(str, p + 2)
                           ELSE IF str[p] \in Special THEN p ELSE Stop(str, p + 1)
<1>1. PICK n \in Nat : n = Len(str)
  BY LenProperties DEF Words
<1> DEFINE Value(q, h) == IF q > Len(str) THEN q
                          ELSE IF str[q] = Backslash THEN h[q + 2]
                          ELSE IF str[q] \in Special THEN q ELSE h[q + 1]
           step == [q \in Nat |-> [h \in [After(n, q) -> Nat] |-> Value(q, h)]]
           Eq(f) == f = [q \in Nat |->
                          IF q > Len(str) THEN q
                          ELSE IF str[q] = Backslash THEN f[q + 2]
                          ELSE IF str[q] \in Special THEN q ELSE f[q + 1]]
           stop == CHOOSE f : Eq(f)
<1>2. ASSUME NEW q \in Nat, q <= n PROVE q + 1 \in After(n, q) /\ q + 2 \in After(n, q)
  BY <1>2 DEF After
<1>3. ASSUME NEW q \in Nat, NEW h \in [After(n, q) -> Nat] PROVE step[q][h] \in Nat
  <2>1. Value(q, h) \in Nat
    BY <1>1, <1>2
  <2> HIDE DEF Value
  <2> QED
    BY <2>1
<1>4. PICK f : Climbs(f, n, Nat, step)
  <2> HIDE DEF step
  <2> QED
    BY <1>3, Climbing
<1>5. ASSUME NEW q \in Nat PROVE f[q] = Value(q, f) /\ f[q] \in Nat
  <2> DEFINE h == [r \in After(n, q) |-> f[r]]
  <2>0. f \in [Nat -> Nat] /\ f[q] = step[q][h]
    <3> HIDE DEF step
    <3> QED
      BY <1>4 DEF Climbs
  <2>1. h \in [After(n, q) -> Nat]
    BY <2>0 DEF After
  <2>2. step[q][h] = Value(q, h)
    <3> HIDE DEF h, Value
    <3> QED
      BY <2>1
  <2>3. Value(q, h) = Value(q, f)
    BY <1>1, <1>2
  <2> HIDE DEF h, step, Value
  <2> QED
    BY <2>0, <2>2, <2>3
<1>6. Eq(f)
  <2>1. f \in [Nat -> Nat]
    BY <1>4 DEF Climbs
  <2> QED
    BY <1>5, <2>1
<1>7. Eq(stop)
  <2> HIDE DEF Eq
  <2> QED
    BY <1>6
<1>8. \A q : Stop(str, q) = stop[q]
  BY DEF Stop
<1>9. stop = f
  <2>0. f \in [Nat -> Nat]
    BY <1>4 DEF Climbs
  <2> DEFINE G == {q \in Nat : stop[q] = f[q]}
  <2>1. ASSUME NEW q \in Nat, After(n, q) \subseteq G PROVE q \in G
    <3>1. stop[q] = Value(q, stop)
      BY <1>7
    <3>2. f[q] = Value(q, f)
      BY <1>5
    <3>3. \A r \in After(n, q) : stop[r] = f[r]
      BY <2>1
    <3>4. Value(q, stop) = Value(q, f)
      BY <1>1, <1>2, <3>3
    <3> HIDE DEF Value, Eq, stop
    <3> QED
      BY <3>1, <3>2, <3>4
  <2>2. \A q \in Nat : stop[q] = f[q]
    <3> HIDE DEF G
    <3>1. Nat \subseteq G
      BY <2>1, ClimbingInduction
    <3> QED
      BY <3>1 DEF G
  <2>3. stop = [q \in Nat |-> stop[q]]
    BY <1>7
  <2> HIDE DEF stop
  <2> QED
    BY <2>0, <2>2, <2>3
<1> HIDE DEF stop, Eq
<1>10. p + 1 \in Nat /\ p + 2 \in Nat
  OBVIOUS
<1> QED
  BY <1>5, <1>8, <1>9, <1>10

-----------------------------------------------------------------------------
(* What is taken from a string                                             *)

\* One character of a string.
LEMMA SubSeqOne ==
  ASSUME NEW str \in Words, NEW p \in Nat
  PROVE  /\ p + 1 <= Len(str) => SubSeq(str, p + 1, p + 1) = <<str[p + 1]>>
         /\ SubSeq(str, p + 1, p) = <<>>
<1>1. Len(str) \in Nat
  BY LenProperties DEF Words
<1>2. ASSUME p + 1 <= Len(str) PROVE SubSeq(str, p + 1, p + 1) = <<str[p + 1]>>
  <2> DEFINE s == SubSeq(str, p + 1, p + 1)
  <2>1. p + 1 \in 1 .. Len(str)
    BY <1>1, <1>2
  <2>2. s \in Seq(Nat) /\ Len(s) = 1 /\ s[1] = str[p + 1]
    BY <1>1, <2>1 DEF Words
  <2> HIDE DEF s
  <2>3. s = <<s[1]>>
    BY <2>2
  <2> QED
    BY <2>2, <2>3 DEF s
<1>3. SubSeq(str, p + 1, p) = <<>>
  BY DEF Words
<1> QED
  BY <1>2, <1>3

\* The character that a backslash at p takes with it.
Taken(str, p, to) == IF p + 1 < to THEN <<str[p + 1]>> ELSE <<>>

\* What sliceString takes from p on, given what it takes later.
Slice(str, to, p, h) ==
  IF p >= to THEN <<>>
  ELSE IF str[p] = Backslash THEN Taken(str, p, to) \o h[p + 2]
  ELSE <<str[p]>> \o h[p + 1]

\* The functions that sliceString is one of.
Slices(f, str, to) == f \in [Nat -> Seq({str[k] : k \in Nat})] /\ \A p \in Nat : f[p] = Slice(str, to, p, f)

\* sliceString is one of these functions.
LEMMA SliceRule ==
  ASSUME NEW str \in Words, NEW to \in 1 .. Len(str) + 1
  PROVE  \E f : Slices(f, str, to) /\ \A p \in Nat : SliceString(str, p, to) = f[p]
<1>1. PICK n \in Nat : n = Len(str) /\ to \in 1 .. n + 1
  BY LenProperties DEF Words
<1> DEFINE V == Seq({str[k] : k \in Nat})
           Value(q, h) == Slice(str, to, q, h)
           step == [q \in Nat |-> [h \in [After(to - 1, q) -> V] |-> Value(q, h)]]
           Eq(f) == f = [q \in Nat |->
                          IF q >= to THEN <<>>
                          ELSE IF str[q] = Backslash
                            THEN SubSeq(str, q + 1, IF q + 1 < to THEN q + 1 ELSE q) \o f[q + 2]
                            ELSE <<str[q]>> \o f[q + 1]]
           rest == CHOOSE f : Eq(f)
<1>2. ASSUME NEW q \in Nat, q < to PROVE q + 1 \in After(to - 1, q) /\ q + 2 \in After(to - 1, q)
  BY <1>1, <1>2 DEF After
<1>3. ASSUME NEW q \in Nat PROVE <<str[q]>> \in V /\ Taken(str, q, to) \in V /\ <<>> \in V
  <2>1. <<str[q]>> \in V
    OBVIOUS
  <2>2. <<str[q + 1]>> \in V /\ <<>> \in V
    OBVIOUS
  <2> HIDE DEF V
  <2> QED
    BY <2>1, <2>2 DEF Taken
<1>4. ASSUME NEW q \in Nat
      PROVE  SubSeq(str, q + 1, IF q + 1 < to THEN q + 1 ELSE q) = Taken(str, q, to)
  <2>1. CASE q + 1 < to
    <3>1. q + 1 <= Len(str)
      BY <1>1, <2>1
    <3> QED
      BY <2>1, <3>1, SubSeqOne DEF Taken
  <2>2. CASE ~(q + 1 < to)
    BY <2>2, SubSeqOne DEF Taken
  <2> QED
    BY <2>1, <2>2
<1>5. ASSUME NEW q \in Nat, NEW h \in [After(to - 1, q) -> V] PROVE step[q][h] = Value(q, h) /\ step[q][h] \in V
  <2>0. step[q][h] = Value(q, h)
    <3> HIDE DEF Value, V
    <3> QED
      OBVIOUS
  <2>1. CASE q >= to
    <3>1. Value(q, h) = <<>>
      BY <2>1 DEF Slice
    <3> HIDE DEF Value, V, step
    <3> QED
      BY <1>3, <2>0, <3>1
  <2>2. CASE ~(q >= to)
    <3>1. h[q + 1] \in V /\ h[q + 2] \in V
      <4>1. q + 1 \in After(to - 1, q) /\ q + 2 \in After(to - 1, q)
        BY <1>1, <1>2, <2>2
      <4> HIDE DEF V
      <4> QED
        BY <4>1
    <3>2. Value(q, h) = IF str[q] = Backslash THEN Taken(str, q, to) \o h[q + 2] ELSE <<str[q]>> \o h[q + 1]
      BY <2>2 DEF Slice
    <3>3. Taken(str, q, to) \o h[q + 2] \in V /\ <<str[q]>> \o h[q + 1] \in V
      <4>1. <<str[q]>> \in V /\ Taken(str, q, to) \in V
        BY <1>3
      <4> QED
        BY <3>1, <4>1, ConcatProperties
    <3> HIDE DEF Value, V, step
    <3> QED
      BY <2>0, <3>2, <3>3
  <2> QED
    BY <2>1, <2>2
<1>6. PICK f : Climbs(f, to - 1, V, step)
  <2>1. to - 1 \in Nat
    BY <1>1
  <2> HIDE DEF step, V
  <2> QED
    BY <1>5, <2>1, Climbing
<1>7. f \in [Nat -> V]
  <2> HIDE DEF step, V
  <2> QED
    BY <1>6 DEF Climbs
<1>8. ASSUME NEW q \in Nat, NEW g, NEW k, q < to => g[q + 1] = k[q + 1] /\ g[q + 2] = k[q + 2]
      PROVE  Value(q, g) = Value(q, k)
  <2>1. q >= to \/ q < to
    BY <1>1
  <2> QED
    BY <1>8, <2>1 DEF Slice
<1>9. ASSUME NEW q \in Nat PROVE f[q] = Value(q, f)
  <2> DEFINE h == [r \in After(to - 1, q) |-> f[r]]
  <2>1. f[q] = step[q][h]
    <3> HIDE DEF step, V
    <3> QED
      BY <1>6 DEF Climbs
  <2>2. h \in [After(to - 1, q) -> V]
    <3>1. After(to - 1, q) \subseteq Nat
      BY DEF After
    <3> HIDE DEF V
    <3> QED
      BY <1>7, <3>1
  <2>3. step[q][h] = Value(q, h)
    <3> HIDE DEF h, V, Value, step
    <3> QED
      BY <1>5, <2>2
  <2>4. Value(q, h) = Value(q, f)
    <3>1. q < to => h[q + 1] = f[q + 1] /\ h[q + 2] = f[q + 2]
      BY <1>2
    <3> HIDE DEF h, Value
    <3> QED
      BY <1>8, <3>1
  <2> HIDE DEF h, step, Value
  <2> QED
    BY <2>1, <2>3, <2>4
<1>10. ASSUME NEW g, NEW q \in Nat
       PROVE  Value(q, g) = IF q >= to THEN <<>>
                          ELSE IF str[q] = Backslash
                            THEN SubSeq(str, q + 1, IF q + 1 < to THEN q + 1 ELSE q) \o g[q + 2]
                            ELSE <<str[q]>> \o g[q + 1]
  BY <1>4 DEF Slice
<1>11. Eq(f)
  <2>1. f = [q \in Nat |-> f[q]]
    <3> HIDE DEF V
    <3> QED
      BY <1>7
  <2> HIDE DEF Value
  <2> QED
    BY <1>9, <1>10, <2>1
<1>12. Eq(rest)
  <2> HIDE DEF Eq
  <2> QED
    BY <1>11
<1>13. \A q : SliceString(str, q, to) = rest[q]
  BY DEF SliceString
<1>14. \A q \in Nat : rest[q] = Value(q, rest)
  <2>1. \A q \in Nat : rest[q] = IF q >= to THEN <<>>
                          ELSE IF str[q] = Backslash
                            THEN SubSeq(str, q + 1, IF q + 1 < to THEN q + 1 ELSE q) \o rest[q + 2]
                            ELSE <<str[q]>> \o rest[q + 1]
    <3> DEFINE B(g, q) == IF q >= to THEN <<>>
                          ELSE IF str[q] = Backslash
                            THEN SubSeq(str, q + 1, IF q + 1 < to THEN q + 1 ELSE q) \o g[q + 2]
                            ELSE <<str[q]>> \o g[q + 1]
    <3>1. rest = [q \in Nat |-> B(rest, q)]
      <4> HIDE DEF rest
      <4> QED
        BY <1>12
    <3>2. \A q \in Nat : rest[q] = B(rest, q)
      <4> HIDE DEF B, rest
      <4> QED
        BY <3>1
    <3> HIDE DEF rest
    <3> QED
      BY <3>2
  <2> HIDE DEF Value, rest
  <2> QED
    BY <1>10, <2>1
<1> HIDE DEF rest, Eq
<1>15. ASSUME NEW q \in Nat PROVE rest[q] = f[q]
  <2> DEFINE G == {r \in Nat : rest[r] = f[r]}
  <2>1. ASSUME NEW r \in Nat, After(to - 1, r) \subseteq G PROVE r \in G
    <3>1. \A x \in After(to - 1, r) : rest[x] = f[x]
      BY <2>1
    <3>2. Value(r, rest) = Value(r, f)
      <4>1. r < to => rest[r + 1] = f[r + 1] /\ rest[r + 2] = f[r + 2]
        BY <1>2, <3>1
      <4> HIDE DEF Value
      <4> QED
        BY <1>8, <4>1
    <3> HIDE DEF Value
    <3> QED
      BY <1>9, <1>14, <3>2
  <2>2. Nat \subseteq G
    <3>1. to - 1 \in Nat
      BY <1>1
    <3> HIDE DEF G
    <3> QED
      BY <2>1, <3>1, ClimbingInduction
  <2> QED
    BY <2>2
<1>16. Slices(f, str, to)
  <2> HIDE DEF Value
  <2> QED
    BY <1>7, <1>9 DEF Slices, Value
<1> QED
  BY <1>13, <1>15, <1>16

-----------------------------------------------------------------------------
(* A string in another one                                                 *)

\* t is what stands in s after the first d characters, up to its character n.
Stands(t, s, d, n) ==
  /\ t \in Words /\ s \in Words /\ d \in Nat /\ n \in 0 .. Len(t) /\ n + d <= Len(s)
  /\ \A k \in 1 .. n : t[k] = s[k + d]

\* A slice is the same wherever its characters stand.
LEMMA SliceShift ==
  ASSUME NEW t, NEW s, NEW d, NEW n, Stands(t, s, d, n), NEW p \in Nat \ {0}
  PROVE  SliceString(t, p, n + 1) = SliceString(s, p + d, n + 1 + d)
<1>1. PICK l \in Nat, m \in Nat : l = Len(t) /\ m = Len(s)
  BY LenProperties DEF Stands, Words
<1>2. t \in Words /\ s \in Words /\ d \in Nat /\ n \in 0 .. l /\ n + d <= m
  BY <1>1 DEF Stands
<1> DEFINE to == n + 1
<1>3. to \in 1 .. Len(t) + 1 /\ to + d \in 1 .. Len(s) + 1 /\ n \in Nat
  BY <1>1, <1>2
<1>4. PICK f : Slices(f, t, to) /\ \A q \in Nat : SliceString(t, q, to) = f[q]
  <2> HIDE DEF to
  <2> QED
    BY <1>2, <1>3, SliceRule
<1>5. PICK g : Slices(g, s, to + d) /\ \A q \in Nat : SliceString(s, q, to + d) = g[q]
  <2> HIDE DEF to
  <2> QED
    BY <1>2, <1>3, SliceRule
<1> DEFINE G == {q \in Nat : q # 0 => f[q] = g[q + d]}
<1>6. ASSUME NEW q \in Nat, After(n, q) \subseteq G PROVE q \in G
  <2> SUFFICES ASSUME q # 0 PROVE f[q] = g[q + d]
    OBVIOUS
  <2>1. q + d \in Nat
    BY <1>2
  <2>2. f[q] = Slice(t, to, q, f) /\ g[q + d] = Slice(s, to + d, q + d, g)
    <3> HIDE DEF to
    <3> QED
      BY <1>4, <1>5, <2>1 DEF Slices
  <2>3. CASE q > n
    <3>1. q >= to /\ q + d >= to + d
      BY <1>2, <2>3
    <3> HIDE DEF to
    <3> QED
      BY <2>2, <3>1 DEF Slice
  <2>4. CASE q <= n
    <3>1. ~(q >= to) /\ ~(q + d >= to + d) /\ (q + 1 < to <=> q + d + 1 < to + d)
      BY <1>2, <2>4
    <3>2. t[q] = s[q + d] /\ (q + 1 < to => t[q + 1] = s[q + d + 1])
      <4>1. q \in 1 .. n /\ (q + 1 < to => q + 1 \in 1 .. n)
        BY <1>2, <2>4
      <4>2. q + 1 + d = q + d + 1
        BY <1>2
      <4> HIDE DEF to
      <4> QED
        BY <4>1, <4>2 DEF Stands
    <3>3. f[q + 1] = g[q + d + 1] /\ f[q + 2] = g[q + d + 2]
      <4>1. q + 1 \in After(n, q) /\ q + 2 \in After(n, q)
        BY <2>4 DEF After
      <4>2. q + 1 + d = q + d + 1 /\ q + 2 + d = q + d + 2 /\ q + 1 # 0 /\ q + 2 # 0
        BY <1>2
      <4> QED
        BY <1>6, <4>1, <4>2
    <3> HIDE DEF to, G
    <3>4. Taken(t, q, to) = Taken(s, q + d, to + d)
      BY <3>1, <3>2 DEF Taken
    <3> QED
      BY <2>2, <3>1, <3>2, <3>3, <3>4 DEF Slice
  <2> QED
    BY <1>2, <2>3, <2>4
<1>7. Nat \subseteq G
  <2> HIDE DEF G
  <2> QED
    BY <1>3, <1>6, ClimbingInduction
<1> QED
  <2>1. p + d \in Nat /\ f[p] = g[p + d]
    BY <1>2, <1>7
  <2> QED
    BY <1>4, <1>5, <2>1

-----------------------------------------------------------------------------
(* Where a run of digits ends                                              *)

\* The run of digits from p on ends before q.
DigitsTo(str, p, q) ==
  /\ q \in p .. Len(str) + 1
  /\ \A k \in p .. q - 1 : str[k] \in Digit
  /\ q <= Len(str) => str[q] \notin Digit

\* There is only one such place.
LEMMA DigitsEndIs ==
  ASSUME NEW str \in Words, NEW p \in Nat, NEW q, DigitsTo(str, p, q)
  PROVE  DigitsEnd(str, p) = q
<1>1. PICK n \in Nat : n = Len(str)
  BY LenProperties DEF Words
<1> DEFINE T == {k \in p .. Len(str) : str[k] \notin Digit} \cup {Len(str) + 1}
<1>2. T \in SUBSET Nat /\ DigitsEnd(str, p) = Min(T)
  BY <1>1 DEF DigitsEnd
<1>3. q \in T
  BY <1>1 DEF DigitsTo
<1>4. ASSUME NEW k \in T PROVE q <= k
  <2>1. k \in p .. n + 1 \/ k = n + 1
    BY <1>1
  <2>2. k = n + 1 \/ (k \in p .. n /\ str[k] \notin Digit)
    BY <1>1
  <2> QED
    BY <1>1, <2>2 DEF DigitsTo
<1> HIDE DEF T
<1> QED
  BY <1>2, <1>3, <1>4, MinIs

\* acceptDigitRun finds it.
LEMMA DigitsEndProperties ==
  ASSUME NEW str \in Words, NEW p \in Nat, p <= Len(str) + 1
  PROVE  DigitsTo(str, p, DigitsEnd(str, p))
<1>1. PICK n \in Nat : n = Len(str)
  BY LenProperties DEF Words
<1> DEFINE T == {k \in p .. Len(str) : str[k] \notin Digit} \cup {Len(str) + 1}
<1>2. T \in SUBSET Nat /\ n + 1 \in T
  BY <1>1
<1>3. PICK q \in T : \A k \in T : q <= k
  <2> HIDE DEF T
  <2> QED
    BY <1>2, Least
<1>4. q \in p .. n + 1 /\ (q <= n => str[q] \notin Digit)
  BY <1>1
<1>5. ASSUME NEW k \in p .. q - 1 PROVE str[k] \in Digit
  <2>1. k \in p .. n /\ k < q
    BY <1>1, <1>4
  <2>2. k \notin T
    <3> HIDE DEF T
    <3> QED
      BY <1>2, <1>3, <2>1
  <2> QED
    BY <1>1, <2>1, <2>2
<1>6. DigitsTo(str, p, q)
  BY <1>1, <1>4, <1>5 DEF DigitsTo
<1> QED
  BY <1>6, DigitsEndIs

-----------------------------------------------------------------------------
(* Where lexText stops, in a string in another one                         *)

\* lexText stops at a delimiter or past the end.
LEMMA StopProperties ==
  ASSUME NEW str \in Words, NEW p \in Nat
  PROVE  /\ Stop(str, p) \in Nat /\ p <= Stop(str, p)
         /\ Stop(str, p) <= Len(str) => str[Stop(str, p)] \in Special \ {Backslash}
<1>1. PICK n \in Nat : n = Len(str)
  BY LenProperties DEF Words
<1> DEFINE G == {q \in Nat : /\ q <= Stop(str, q)
                             /\ Stop(str, q) <= Len(str) => str[Stop(str, q)] \in Special \ {Backslash}}
<1>2. ASSUME NEW q \in Nat, After(n, q) \subseteq G PROVE q \in G
  <2>1. /\ Stop(str, q) \in Nat
        /\ Stop(str, q) = IF q > n THEN q
                          ELSE IF str[q] = Backslash THEN Stop(str, q + 2)
                          ELSE IF str[q] \in Special THEN q ELSE Stop(str, q + 1)
    BY <1>1, StopRule
  <2>2. CASE q > n
    BY <1>1, <2>1, <2>2
  <2>3. CASE q <= n
    <3>1. q + 1 \in G /\ q + 2 \in G
      <4>1. q + 1 \in After(n, q) /\ q + 2 \in After(n, q)
        BY <2>3 DEF After
      <4> QED
        BY <1>2, <4>1
    <3>2. /\ Stop(str, q + 1) \in Nat /\ q + 1 <= Stop(str, q + 1)
          /\ Stop(str, q + 2) \in Nat /\ q + 2 <= Stop(str, q + 2)
      BY <3>1, StopRule
    <3>3. CASE str[q] = Backslash
      <4>1. Stop(str, q) = Stop(str, q + 2)
        BY <2>1, <2>3, <3>3
      <4> QED
        BY <3>1, <3>2, <4>1
    <3>4. CASE str[q] # Backslash /\ str[q] \in Special
      <4>1. Stop(str, q) = q
        BY <2>1, <2>3, <3>4
      <4> QED
        BY <3>4, <4>1
    <3>5. CASE str[q] # Backslash /\ str[q] \notin Special
      <4>1. Stop(str, q) = Stop(str, q + 1)
        BY <2>1, <2>3, <3>5
      <4> QED
        BY <3>1, <3>2, <4>1
    <3> QED
      BY <3>3, <3>4, <3>5
  <2> QED
    BY <1>1, <2>2, <2>3
<1>3. Nat \subseteq G
  <2> HIDE DEF G
  <2> QED
    BY <1>1, <1>2, ClimbingInduction
<1> QED
  BY <1>3, StopRule

\* It stops at the same characters wherever they stand.
LEMMA StopShift ==
  ASSUME NEW t, NEW s, NEW d, Stands(t, s, d, Len(t)), Len(s) = Len(t) + d, NEW p \in Nat \ {0}
  PROVE  Stop(s, p + d) = Stop(t, p) + d
<1>1. PICK n \in Nat, m \in Nat : n = Len(t) /\ m = Len(s)
  BY LenProperties DEF Stands, Words
<1>2. t \in Words /\ s \in Words /\ d \in Nat /\ m = n + d /\ \A k \in 1 .. n : t[k] = s[k + d]
  BY <1>1 DEF Stands
<1> DEFINE G == {q \in Nat : q # 0 => Stop(s, q + d) = Stop(t, q) + d}
<1>3. ASSUME NEW q \in Nat, After(n, q) \subseteq G PROVE q \in G
  <2> SUFFICES ASSUME q # 0 PROVE Stop(s, q + d) = Stop(t, q) + d
    OBVIOUS
  <2>1. Stop(t, q) = IF q > n THEN q
                     ELSE IF t[q] = Backslash THEN Stop(t, q + 2)
                     ELSE IF t[q] \in Special THEN q ELSE Stop(t, q + 1)
    BY <1>1, <1>2, StopRule
  <2>2. Stop(s, q + d) = IF q + d > m THEN q + d
                     ELSE IF s[q + d] = Backslash THEN Stop(s, q + d + 2)
                     ELSE IF s[q + d] \in Special THEN q + d ELSE Stop(s, q + d + 1)
    <3>1. q + d \in Nat
      BY <1>2
    <3> QED
      BY <1>1, <1>2, <3>1, StopRule
  <2>3. CASE q > n
    BY <1>1, <1>2, <2>1, <2>2, <2>3
  <2>4. CASE q <= n
    <3>1. q + 1 \in G /\ q + 2 \in G
      <4>1. q + 1 \in After(n, q) /\ q + 2 \in After(n, q)
        BY <2>4 DEF After
      <4> QED
        BY <1>3, <4>1
    <3>2. Stop(s, q + d + 1) = Stop(t, q + 1) + d /\ Stop(s, q + d + 2) = Stop(t, q + 2) + d
      <4>1. q + 1 + d = q + d + 1 /\ q + 2 + d = q + d + 2 /\ q + 1 # 0 /\ q + 2 # 0
        BY <1>2
      <4> QED
        BY <3>1, <4>1
    <3>3. t[q] = s[q + d] /\ ~(q + d > m) /\ ~(q > n)
      <4>1. q \in 1 .. n
        BY <1>1, <2>4
      <4> QED
        BY <1>1, <1>2, <2>4, <4>1
    <3> HIDE DEF G
    <3> QED
      BY <2>1, <2>2, <3>2, <3>3
  <2> QED
    BY <1>1, <2>3, <2>4
<1>4. Nat \subseteq G
  <2> HIDE DEF G
  <2> QED
    BY <1>1, <1>3, ClimbingInduction
<1> QED
  BY <1>4

\* Before a space that is not escaped, lexText stops where it would if the string
\* ended there.
LEMMA StopBefore ==
  ASSUME NEW t, NEW s, NEW i \in 1 .. Len(s), Len(t) = i - 1, Stands(t, s, 0, i - 1),
         s[i] = Space, ~EscapedAt(s, i), NEW p \in 1 .. i, ~EscapedAt(s, p)
  PROVE  Stop(s, p) = Stop(t, p) /\ Stop(s, p) \in p .. i /\ ~EscapedAt(s, Stop(s, p))
<1>1. PICK m \in Nat : m = Len(s) /\ i \in 1 .. m
  BY LenProperties DEF Stands, Words
<1>2. t \in Words /\ s \in Words /\ \A k \in 1 .. i - 1 : t[k] = s[k]
  <2>1. \A k \in 1 .. i - 1 : t[k] = s[k + 0] /\ k + 0 = k
    BY DEF Stands
  <2> QED
    BY <2>1 DEF Stands
<1> DEFINE G == {q \in Nat : q # 0 /\ q <= i /\ ~EscapedAt(s, q) =>
                   Stop(s, q) = Stop(t, q) /\ Stop(s, q) \in q .. i /\ ~EscapedAt(s, Stop(s, q))}
<1>3. ASSUME NEW q \in Nat, After(i - 1, q) \subseteq G PROVE q \in G
  <2> SUFFICES ASSUME q # 0, q <= i, ~EscapedAt(s, q)
               PROVE  Stop(s, q) = Stop(t, q) /\ Stop(s, q) \in q .. i /\ ~EscapedAt(s, Stop(s, q))
    OBVIOUS
  <2>1. Stop(t, q) = IF q > i - 1 THEN q
                     ELSE IF t[q] = Backslash THEN Stop(t, q + 2)
                     ELSE IF t[q] \in Special THEN q ELSE Stop(t, q + 1)
    BY <1>2, StopRule
  <2>2. Stop(s, q) = IF s[q] = Backslash THEN Stop(s, q + 2)
                     ELSE IF s[q] \in Special THEN q ELSE Stop(s, q + 1)
    <3>1. ~(q > Len(s))
      BY <1>1
    <3> QED
      BY <1>2, <3>1, StopRule
  <2>3. CASE q = i
    <3>1. s[q] # Backslash /\ s[q] \in Special
      BY <2>3, SpecialsDiffer DEF Special
    <3>2. Stop(s, q) = q /\ Stop(t, q) = q
      BY <2>1, <2>2, <2>3, <3>1
    <3> QED
      BY <2>3, <3>2
  <2>4. CASE q < i
    <3>1. t[q] = s[q] /\ ~(q > i - 1)
      BY <1>2, <2>4
    <3>2. q + 1 \in G /\ q + 2 \in G
      <4>1. q + 1 \in After(i - 1, q) /\ q + 2 \in After(i - 1, q)
        BY <2>4 DEF After
      <4> QED
        BY <1>3, <4>1
    <3>3. CASE s[q] = Backslash
      <4>1. EscapedAt(s, q + 1)
        BY <3>3, Escaping
      <4>2. q + 1 # i
        BY <4>1
      <4>3. ~EscapedAt(s, q + 2)
        <5>1. q + 1 \in Nat \ {0} /\ q + 2 = (q + 1) + 1
          OBVIOUS
        <5> QED
          BY <4>1, <5>1, Escaping
      <4>4. q + 2 # 0 /\ q + 2 <= i
        BY <2>4, <4>2
      <4>5. Stop(s, q + 2) = Stop(t, q + 2) /\ Stop(s, q + 2) \in q + 2 .. i /\ ~EscapedAt(s, Stop(s, q + 2))
        BY <3>2, <4>3, <4>4
      <4>6. Stop(s, q) = Stop(s, q + 2) /\ Stop(t, q) = Stop(t, q + 2)
        BY <2>1, <2>2, <3>1, <3>3
      <4> HIDE DEF G
      <4> QED
        BY <4>5, <4>6
    <3>4. CASE s[q] # Backslash /\ s[q] \in Special
      <4>1. Stop(s, q) = q /\ Stop(t, q) = q
        BY <2>1, <2>2, <3>1, <3>4
      <4> QED
        BY <2>4, <4>1
    <3>5. CASE s[q] # Backslash /\ s[q] \notin Special
      <4>1. ~EscapedAt(s, q + 1) /\ q + 1 # 0 /\ q + 1 <= i
        BY <2>4, <3>5, Escaping
      <4>2. Stop(s, q + 1) = Stop(t, q + 1) /\ Stop(s, q + 1) \in q + 1 .. i /\ ~EscapedAt(s, Stop(s, q + 1))
        BY <3>2, <4>1
      <4>3. Stop(s, q) = Stop(s, q + 1) /\ Stop(t, q) = Stop(t, q + 1)
        BY <2>1, <2>2, <3>1, <3>5
      <4> HIDE DEF G
      <4> QED
        BY <4>2, <4>3
    <3> QED
      BY <3>3, <3>4, <3>5
  <2> QED
    BY <2>3, <2>4
<1>4. Nat \subseteq G
  <2>1. i - 1 \in Nat
    OBVIOUS
  <2> HIDE DEF G
  <2> QED
    BY <1>3, <2>1, ClimbingInduction
<1>5. p \in Nat /\ p # 0 /\ p <= i
  OBVIOUS
<1> QED
  BY <1>4, <1>5

-----------------------------------------------------------------------------
(* The lexer                                                               *)

\* The types of the lexemes.
LexemeTypes == {"TERM", "FIELD", "EDIT_DISTANCE", "BOOST"}

\* What the lexer may emit of a string.
LexemesOf(str) ==
  {Lexeme(type, SliceString(str, p, q)) : type \in LexemeTypes, p \in Nat, q \in Nat}
    \cup {Lexeme(type, SubSeq(str, p, q)) : type \in LexemeTypes, p \in Nat, q \in Int}

\* What lexText reads from p on, and where it goes on.
Text(str, p) == SliceString(str, p, Min({Stop(str, p), Len(str) + 1}))
Term(str, p) == IF Stop(str, p) > p THEN <<Lexeme("TERM", Text(str, p))>> ELSE <<>>
Past(str, p) == DigitsEnd(str, Stop(str, p) + 1)
Number(str, p, type) == <<Lexeme(type, SubSeq(str, Stop(str, p) + 1, Past(str, p) - 1))>>

\* The lexemes from p on, given those from later places on.
Lexed(str, p, h) ==
  IF Stop(str, p) > Len(str) THEN Term(str, p)
  ELSE CASE str[Stop(str, p)] = Colon -> <<Lexeme("FIELD", Text(str, p))>> \o h[Stop(str, p) + 1]
         [] str[Stop(str, p)] = Tilde -> Term(str, p) \o Number(str, p, "EDIT_DISTANCE") \o h[Past(str, p)]
         [] str[Stop(str, p)] = Caret -> Term(str, p) \o Number(str, p, "BOOST") \o h[Past(str, p)]
         [] str[Stop(str, p)] = Space -> Term(str, p) \o h[Stop(str, p) + 1]

\* The functions that the lexer is one of.
Lexers(f, str) == f \in [Nat -> Seq(LexemesOf(str))] /\ \A p \in Nat : f[p] = Lexed(str, p, f)

\* The lexemes at each delimiter.
LEMMA LexedCases ==
  ASSUME NEW str \in Words, NEW p \in Nat, NEW h
  PROVE  /\ Stop(str, p) > Len(str) => Lexed(str, p, h) = Term(str, p)
         /\ Stop(str, p) <= Len(str) =>
              \/ /\ str[Stop(str, p)] = Colon
                 /\ Lexed(str, p, h) = <<Lexeme("FIELD", Text(str, p))>> \o h[Stop(str, p) + 1]
              \/ /\ str[Stop(str, p)] = Tilde
                 /\ Lexed(str, p, h) = (Term(str, p) \o Number(str, p, "EDIT_DISTANCE")) \o h[Past(str, p)]
              \/ /\ str[Stop(str, p)] = Caret
                 /\ Lexed(str, p, h) = (Term(str, p) \o Number(str, p, "BOOST")) \o h[Past(str, p)]
              \/ /\ str[Stop(str, p)] = Space
                 /\ Lexed(str, p, h) = Term(str, p) \o h[Stop(str, p) + 1]
<1>1. PICK stop \in Nat, n \in Nat : stop = Stop(str, p) /\ n = Len(str)
  BY StopProperties, LenProperties DEF Words
<1>2. stop <= n => str[stop] = Colon \/ str[stop] = Tilde \/ str[stop] = Caret \/ str[stop] = Space
  BY <1>1, StopProperties DEF Special
<1> DEFINE c == str[stop]
           field == <<Lexeme("FIELD", Text(str, p))>> \o h[stop + 1]
           edit == (Term(str, p) \o Number(str, p, "EDIT_DISTANCE")) \o h[Past(str, p)]
           boost == (Term(str, p) \o Number(str, p, "BOOST")) \o h[Past(str, p)]
           space == Term(str, p) \o h[stop + 1]
           arms == CASE c = Colon -> field [] c = Tilde -> edit [] c = Caret -> boost [] c = Space -> space
<1>3. Lexed(str, p, h) = IF stop > n THEN Term(str, p) ELSE arms
  BY <1>1 DEF Lexed
<1>4. stop > n \/ (stop <= n /\ ~(stop > n))
  BY <1>1
<1> HIDE DEF field, edit, boost, space
<1>5. /\ c = Colon => arms = field
      /\ c = Tilde => arms = edit
      /\ c = Caret => arms = boost
      /\ c = Space => arms = space
  BY SpecialsDiffer
<1> HIDE DEF c, arms
<1>6. stop <= n => \/ c = Colon /\ Lexed(str, p, h) = field
                   \/ c = Tilde /\ Lexed(str, p, h) = edit
                   \/ c = Caret /\ Lexed(str, p, h) = boost
                   \/ c = Space /\ Lexed(str, p, h) = space
  BY <1>2, <1>3, <1>4, <1>5 DEF c
<1>7. stop > n => Lexed(str, p, h) = Term(str, p)
  BY <1>3
<1> QED
  BY <1>1, <1>6, <1>7 DEF c, field, edit, boost, space

\* lexText goes on further to the right.
LEMMA LexerMoves ==
  ASSUME NEW str \in Words, NEW p \in Nat, Stop(str, p) <= Len(str)
  PROVE  /\ Past(str, p) \in Nat /\ Past(str, p) >= Stop(str, p) + 1
         /\ Stop(str, p) + 1 \in After(Len(str), p) /\ Past(str, p) \in After(Len(str), p)
<1>1. PICK stop \in Nat, n \in Nat : stop = Stop(str, p) /\ n = Len(str) /\ p <= stop
  BY StopProperties, LenProperties DEF Words
<1>2. DigitsTo(str, stop + 1, Past(str, p))
  BY <1>1, DigitsEndProperties DEF Past
<1>3. Past(str, p) \in stop + 1 .. n + 1
  BY <1>1, <1>2 DEF DigitsTo
<1> QED
  BY <1>1, <1>3 DEF After

\* What is read is a sequence of such lexemes.
LEMMA LexedType ==
  ASSUME NEW str \in Words, NEW p \in Nat
  PROVE  /\ <<Lexeme("FIELD", Text(str, p))>> \in Seq(LexemesOf(str))
         /\ Term(str, p) \in Seq(LexemesOf(str))
         /\ Stop(str, p) <= Len(str) =>
              \A type \in LexemeTypes : Number(str, p, type) \in Seq(LexemesOf(str))
<1>1. PICK stop \in Nat, n \in Nat : stop = Stop(str, p) /\ n = Len(str)
  BY StopProperties, LenProperties DEF Words
<1>2. Min({stop, n + 1}) \in Nat
  <2>1. CASE stop <= n + 1
    <3>1. \A x \in {stop, n + 1} : stop <= x
      BY <2>1
    <3> QED
      BY <3>1, MinIs
  <2>2. CASE ~(stop <= n + 1)
    <3>1. \A x \in {stop, n + 1} : n + 1 <= x
      BY <2>2
    <3>2. n + 1 \in {stop, n + 1} /\ {stop, n + 1} \in SUBSET Nat
      OBVIOUS
    <3>3. Min({stop, n + 1}) = n + 1
      BY <3>1, <3>2, MinIs
    <3> QED
      BY <3>3
  <2> QED
    BY <2>1, <2>2
<1>3. \A type \in LexemeTypes : Lexeme(type, Text(str, p)) \in LexemesOf(str)
  BY <1>1, <1>2 DEF LexemesOf, Text
<1>4. "FIELD" \in LexemeTypes /\ "TERM" \in LexemeTypes
  BY DEF LexemeTypes
<1>5. ASSUME stop <= n, NEW type \in LexemeTypes PROVE Number(str, p, type) \in Seq(LexemesOf(str))
  <2>1. stop + 1 \in Nat /\ Past(str, p) - 1 \in Int
    BY <1>1, <1>5, LexerMoves
  <2>2. Lexeme(type, SubSeq(str, stop + 1, Past(str, p) - 1)) \in LexemesOf(str)
    BY <2>1 DEF LexemesOf
  <2> QED
    BY <1>1, <2>2 DEF Number
<1>6. <<Lexeme("FIELD", Text(str, p))>> \in Seq(LexemesOf(str)) /\ Term(str, p) \in Seq(LexemesOf(str))
  BY <1>3, <1>4 DEF Term
<1> QED
  BY <1>1, <1>5, <1>6

\* The lexer is one of these functions.
LEMMA LexerRule ==
  ASSUME NEW str \in Words
  PROVE  \E f : Lexers(f, str) /\ Lexemes(str) = f[1]
<1>1. PICK n \in Nat : n = Len(str)
  BY LenProperties DEF Words
<1> DEFINE V == Seq(LexemesOf(str))
           step == [p \in Nat |-> [h \in [After(n, p) -> V] |-> Lexed(str, p, h)]]
           Eq(f) == f = [start \in Nat |->
             LET stop == Stop(str, start)
                 text == SliceString(str, start, Min({stop, Len(str) + 1}))
                 term == IF stop > start THEN <<Lexeme("TERM", text)>> ELSE <<>>
                 digits == DigitsEnd(str, stop + 1)
                 number(type) == <<Lexeme(type, SubSeq(str, stop + 1, digits - 1))>>
             IN  IF stop > Len(str) THEN term
                 ELSE CASE str[stop] = Colon -> <<Lexeme("FIELD", text)>> \o f[stop + 1]
                        [] str[stop] = Tilde -> term \o number("EDIT_DISTANCE") \o f[digits]
                        [] str[stop] = Caret -> term \o number("BOOST") \o f[digits]
                        [] str[stop] = Space -> term \o f[stop + 1]]
           lexText == CHOOSE f : Eq(f)
<1>2. \A f : Eq(f) <=> f = [p \in Nat |-> Lexed(str, p, f)]
  BY DEF Lexed, Term, Text, Number, Past
<1>3. Lexemes(str) = lexText[1]
  BY DEF Lexemes
<1> HIDE DEF Eq
<1>4. ASSUME NEW p \in Nat, NEW g, NEW h, \A q \in After(n, p) : g[q] = h[q]
      PROVE  Lexed(str, p, g) = Lexed(str, p, h)
  <2>1. CASE Stop(str, p) > Len(str)
    BY <2>1, LexedCases
  <2>2. CASE ~(Stop(str, p) > Len(str))
    <3>1. Stop(str, p) <= Len(str)
      BY <1>1, <2>2, StopProperties
    <3>2. Stop(str, p) + 1 \in After(n, p) /\ Past(str, p) \in After(n, p)
      BY <1>1, <3>1, LexerMoves
    <3>3. g[Stop(str, p) + 1] = h[Stop(str, p) + 1] /\ g[Past(str, p)] = h[Past(str, p)]
      BY <1>4, <3>2
    <3> QED
      BY <3>3 DEF Lexed
  <2> QED
    BY <2>1, <2>2
<1>5. ASSUME NEW p \in Nat, NEW h \in [After(n, p) -> V] PROVE Lexed(str, p, h) \in V
  <2>1. CASE Stop(str, p) > Len(str)
    BY <2>1, LexedCases, LexedType
  <2>2. CASE ~(Stop(str, p) > Len(str))
    <3>1. Stop(str, p) <= Len(str)
      BY <1>1, <2>2, StopProperties
    <3>2. Stop(str, p) + 1 \in After(n, p) /\ Past(str, p) \in After(n, p)
      BY <1>1, <3>1, LexerMoves
    <3> HIDE DEF V
    <3>3. h[Stop(str, p) + 1] \in V /\ h[Past(str, p)] \in V
      BY <3>2
    <3>4. /\ <<Lexeme("FIELD", Text(str, p))>> \in V /\ Term(str, p) \in V
          /\ Number(str, p, "EDIT_DISTANCE") \in V /\ Number(str, p, "BOOST") \in V
      BY <3>1, LexedType DEF V, LexemeTypes
    <3>5. ASSUME NEW s1 \in V, NEW s2 \in V PROVE s1 \o s2 \in V
      BY <3>5, ConcatProperties DEF V
    <3>6. /\ <<Lexeme("FIELD", Text(str, p))>> \o h[Stop(str, p) + 1] \in V
          /\ Term(str, p) \o h[Stop(str, p) + 1] \in V
          /\ (Term(str, p) \o Number(str, p, "EDIT_DISTANCE")) \o h[Past(str, p)] \in V
          /\ (Term(str, p) \o Number(str, p, "BOOST")) \o h[Past(str, p)] \in V
      <4>1. /\ Term(str, p) \o Number(str, p, "EDIT_DISTANCE") \in V
            /\ Term(str, p) \o Number(str, p, "BOOST") \in V
        BY <3>4, <3>5
      <4> QED
        BY <3>3, <3>4, <3>5, <4>1
    <3> QED
      BY <3>1, <3>6, LexedCases
  <2> QED
    BY <2>1, <2>2
<1>6. ASSUME NEW p \in Nat, NEW h \in [After(n, p) -> V] PROVE step[p][h] = Lexed(str, p, h)
  <2> HIDE DEF V
  <2> QED
    OBVIOUS
<1>7. PICK f : Climbs(f, n, V, step)
  <2>1. \A p \in Nat : \A h \in [After(n, p) -> V] : step[p][h] \in V
    <3> HIDE DEF step, V
    <3> QED
      BY <1>5, <1>6
  <2> HIDE DEF step, V
  <2> QED
    BY <2>1, Climbing
<1>8. f \in [Nat -> V]
  <2> HIDE DEF step, V
  <2> QED
    BY <1>7 DEF Climbs
<1>9. ASSUME NEW p \in Nat PROVE f[p] = Lexed(str, p, f)
  <2> DEFINE h == [q \in After(n, p) |-> f[q]]
  <2>1. f[p] = step[p][h]
    <3> HIDE DEF step, V
    <3> QED
      BY <1>7 DEF Climbs
  <2>2. h \in [After(n, p) -> V]
    <3>1. After(n, p) \subseteq Nat
      BY DEF After
    <3> HIDE DEF V
    <3> QED
      BY <1>8, <3>1
  <2>3. \A q \in After(n, p) : h[q] = f[q]
    OBVIOUS
  <2> HIDE DEF h, step
  <2> QED
    BY <1>4, <1>6, <2>1, <2>2, <2>3
<1>10. Eq(f)
  <2>1. f = [p \in Nat |-> f[p]]
    <3> HIDE DEF V
    <3> QED
      BY <1>8
  <2> QED
    BY <1>2, <1>9, <2>1
<1>11. Eq(lexText)
  BY <1>10
<1>12. \A p \in Nat : lexText[p] = Lexed(str, p, lexText)
  <2>1. lexText = [p \in Nat |-> Lexed(str, p, lexText)]
    BY <1>2, <1>11
  <2> HIDE DEF lexText
  <2> QED
    BY <2>1
<1> HIDE DEF lexText
<1> DEFINE G == {p \in Nat : lexText[p] = f[p]}
<1>13. ASSUME NEW p \in Nat, After(n, p) \subseteq G PROVE p \in G
  <2>1. \A q \in After(n, p) : lexText[q] = f[q]
    BY <1>13
  <2>2. Lexed(str, p, lexText) = Lexed(str, p, f)
    BY <1>4, <2>1
  <2> QED
    BY <1>9, <1>12, <2>2
<1>14. Nat \subseteq G
  <2> HIDE DEF G
  <2> QED
    BY <1>13, ClimbingInduction
<1>15. lexText[1] = f[1]
  BY <1>14
<1> HIDE DEF V
<1>16. Lexers(f, str)
  BY <1>8, <1>9 DEF Lexers, V
<1> QED
  BY <1>3, <1>15, <1>16

-----------------------------------------------------------------------------
(* The lexer, in a string in another one                                   *)

\* A part of a string.
Part(str, p, q) == SubSeq(str, p, q)

\* What is taken of a string is the same wherever its characters stand.
LEMMA PartShift ==
  ASSUME NEW t, NEW s, NEW d, NEW n, Stands(t, s, d, n), NEW p \in Nat \ {0}, NEW q \in Int, q <= n
  PROVE  Part(t, p, q) = Part(s, p + d, q + d)
<1>1. PICK l \in Nat, m \in Nat : l = Len(t) /\ m = Len(s)
  BY LenProperties DEF Stands, Words
<1>2. t \in Seq(Nat) /\ s \in Seq(Nat) /\ d \in Nat /\ n \in 0 .. l /\ n + d <= m
  BY <1>1 DEF Stands, Words
<1> DEFINE a == SubSeq(t, p, q)
           b == SubSeq(s, p + d, q + d)
<1>3. \A k \in p .. q : k \in 1 .. l /\ k + d \in 1 .. m /\ t[k] = s[k + d]
  <2>1. \A k \in p .. q : k \in 1 .. n
    BY <1>2
  <2>2. \A k \in 1 .. n : k \in 1 .. l /\ k + d \in 1 .. m
    BY <1>2
  <2> QED
    BY <2>1, <2>2 DEF Stands
<1>4. \A k \in p .. q : t[k] \in Nat
  BY <1>1, <1>2, <1>3, ElementOfSeq
<1>5. /\ a \in Seq(Nat) /\ Len(a) = IF p <= q THEN q - p + 1 ELSE 0
      /\ \A k \in 1 .. q - p + 1 : a[k] = t[p + k - 1]
  BY <1>4, SubSeqProperties
<1>6. \A k \in p + d .. q + d : s[k] \in Nat
  <2>1. \A k \in p + d .. q + d : k - d \in p .. q /\ (k - d) + d = k
    BY <1>2
  <2> QED
    BY <1>3, <1>4, <2>1
<1>7. /\ b \in Seq(Nat) /\ Len(b) = IF p + d <= q + d THEN (q + d) - (p + d) + 1 ELSE 0
      /\ \A k \in 1 .. (q + d) - (p + d) + 1 : b[k] = s[p + d + k - 1]
  <2>1. p + d \in Int /\ q + d \in Int
    BY <1>2
  <2> QED
    BY <1>6, <2>1, SubSeqProperties
<1>8. Len(a) = Len(b)
  BY <1>2, <1>5, <1>7
<1>9. ASSUME NEW k \in 1 .. Len(a) PROVE a[k] = b[k]
  <2>1. k \in 1 .. q - p + 1 /\ k \in 1 .. (q + d) - (p + d) + 1 /\ p + k - 1 \in p .. q
    BY <1>2, <1>5
  <2>2. (p + k - 1) + d = p + d + k - 1
    BY <1>2
  <2>3. t[p + k - 1] = s[p + d + k - 1]
    BY <1>3, <2>1, <2>2
  <2> HIDE DEF a, b
  <2> QED
    BY <1>5, <1>7, <2>1, <2>3
<1> HIDE DEF a, b
<1>10. a = b
  BY <1>5, <1>7, <1>8, <1>9, SeqEqual
<1> QED
  BY <1>10 DEF a, b, Part

\* After t, s ends or has no digit and nothing that is escaped.
Ended(t, s, d, p) ==
  \/ Len(s) = Len(t) + d
  \/ Stop(t, p) <= Len(t) + 1 /\ Len(t) + d < Len(s) /\ s[Len(t) + 1 + d] \notin Digit

\* Then the lexer reads the same in t as in s.
LEMMA LexerShift ==
  ASSUME NEW t, NEW s, NEW d, Stands(t, s, d, Len(t)), NEW p \in Nat \ {0},
         Stop(s, p + d) = Stop(t, p) + d, Ended(t, s, d, p)
  PROVE  /\ Text(t, p) = Text(s, p + d)
         /\ Term(t, p) = Term(s, p + d)
         /\ Stop(t, p) <= Len(t) =>
              /\ Past(s, p + d) = Past(t, p) + d
              /\ \A type : Number(t, p, type) = Number(s, p + d, type)
<1>1. PICK l \in Nat, m \in Nat, stop \in Nat : l = Len(t) /\ m = Len(s) /\ stop = Stop(t, p) /\ p <= stop
  BY LenProperties, StopProperties DEF Stands, Words
<1>2. t \in Words /\ s \in Words /\ d \in Nat /\ l + d <= m
  BY <1>1 DEF Stands
<1>3. Stop(s, p + d) = stop + d /\ stop + d \in Nat /\ p + d \in Nat
  BY <1>1, <1>2
<1>4. m = l + d \/ (stop <= l + 1 /\ l + d < m /\ s[l + 1 + d] \notin Digit)
  BY <1>1 DEF Ended
<1>5. PICK n \in 0 .. l : Min({stop, l + 1}) = n + 1 /\ Min({stop + d, m + 1}) = n + 1 + d
  <2>1. CASE stop <= l + 1
    <3>1. \A x \in {stop, l + 1} : stop <= x
      BY <1>1, <2>1
    <3>2. \A x \in {stop + d, m + 1} : stop + d <= x
      BY <1>2, <2>1
    <3>3. stop - 1 \in 0 .. l /\ stop = (stop - 1) + 1
      BY <1>1, <2>1
    <3>4. Min({stop, l + 1}) = stop
      <4>1. {stop, l + 1} \in SUBSET Nat /\ stop \in {stop, l + 1}
        OBVIOUS
      <4> QED
        BY <3>1, <4>1, MinIs
    <3>5. Min({stop + d, m + 1}) = stop + d
      <4>1. {stop + d, m + 1} \in SUBSET Nat /\ stop + d \in {stop + d, m + 1}
        BY <1>3
      <4> QED
        BY <3>2, <4>1, MinIs
    <3> QED
      BY <3>3, <3>4, <3>5
  <2>2. CASE ~(stop <= l + 1)
    <3>1. m = l + d
      BY <1>4, <2>2
    <3>2. \A x \in {stop, l + 1} : l + 1 <= x
      BY <2>2
    <3>3. \A x \in {stop + d, m + 1} : m + 1 <= x
      BY <1>2, <2>2, <3>1
    <3>4. Min({stop, l + 1}) = l + 1
      <4>1. {stop, l + 1} \in SUBSET Nat /\ l + 1 \in {stop, l + 1}
        OBVIOUS
      <4> QED
        BY <3>2, <4>1, MinIs
    <3>5. Min({stop + d, m + 1}) = m + 1
      <4>1. {stop + d, m + 1} \in SUBSET Nat /\ m + 1 \in {stop + d, m + 1}
        BY <1>3
      <4> QED
        BY <3>3, <4>1, MinIs
    <3>6. l \in 0 .. l /\ m + 1 = l + 1 + d
      BY <1>2, <3>1
    <3> QED
      BY <3>4, <3>5, <3>6
  <2> QED
    BY <1>1, <2>1, <2>2
<1>6. Text(t, p) = Text(s, p + d)
  <2>1. Stands(t, s, d, n)
    <3>1. n \in 0 .. l /\ n + d <= m /\ \A k \in 1 .. n : k \in 1 .. l
      BY <1>1, <1>2
    <3> QED
      BY <1>1, <1>2, <3>1 DEF Stands
  <2>2. SliceString(t, p, n + 1) = SliceString(s, p + d, n + 1 + d)
    BY <2>1, SliceShift
  <2> QED
    BY <1>1, <1>3, <1>5, <2>2 DEF Text
<1>7. Term(t, p) = Term(s, p + d)
  <2>1. stop > p <=> stop + d > p + d
    BY <1>2
  <2> QED
    BY <1>1, <1>3, <1>6, <2>1 DEF Term
<1>8. ASSUME stop <= l
      PROVE  Past(s, p + d) = Past(t, p) + d /\ \A type : Number(t, p, type) = Number(s, p + d, type)
  <2>1. PICK q : q = Past(t, p) /\ DigitsTo(t, stop + 1, q)
    BY <1>1, <1>2, <1>8, DigitsEndProperties DEF Past
  <2>2. q \in stop + 1 .. l + 1
    BY <1>1, <2>1 DEF DigitsTo
  <2>3. DigitsTo(s, stop + d + 1, q + d)
    <3>1. q + d \in stop + d + 1 .. m + 1
      BY <1>2, <2>2
    <3>2. ASSUME NEW k \in stop + d + 1 .. q + d - 1 PROVE s[k] \in Digit
      <4>1. k - d \in stop + 1 .. q - 1 /\ k - d \in 1 .. l /\ (k - d) + d = k
        BY <1>2, <2>2
      <4>2. t[k - d] \in Digit
        BY <2>1, <4>1 DEF DigitsTo
      <4>3. t[k - d] = s[(k - d) + d]
        BY <1>1, <4>1 DEF Stands
      <4> QED
        BY <4>1, <4>2, <4>3
    <3>3. ASSUME q + d <= m PROVE s[q + d] \notin Digit
      <4>1. CASE q <= l
        <5>1. q \in 1 .. l
          BY <2>2, <4>1
        <5>2. t[q] \notin Digit
          BY <1>1, <2>1, <4>1 DEF DigitsTo
        <5> QED
          BY <1>1, <5>1, <5>2 DEF Stands
      <4>2. CASE ~(q <= l)
        <5>1. q = l + 1 /\ m # l + d
          BY <1>2, <2>2, <3>3, <4>2
        <5> QED
          BY <1>4, <5>1
      <4> QED
        BY <4>1, <4>2
    <3>4. q + d \in stop + d + 1 .. Len(s) + 1 /\ (q + d <= Len(s) => s[q + d] \notin Digit)
      BY <1>1, <3>1, <3>3
    <3>5. q + d \in Int /\ stop + d + 1 \in Int
      BY <1>2, <2>2
    <3> HIDE DEF Digit
    <3>6. \A k \in stop + d + 1 .. (q + d) - 1 : s[k] \in Digit
      <4>1. (q + d) - 1 = q + d - 1
        BY <1>2, <2>2
      <4> QED
        BY <3>2, <4>1
    <3> QED
      BY <3>4, <3>6 DEF DigitsTo
  <2>4. Past(s, p + d) = q + d
    <3>1. stop + d + 1 \in Nat
      BY <1>3
    <3>2. DigitsEnd(s, stop + d + 1) = q + d
      BY <1>2, <2>3, <3>1, DigitsEndIs
    <3>3. Past(s, p + d) = DigitsEnd(s, Stop(s, p + d) + 1)
      BY DEF Past
    <3>4. Stop(s, p + d) + 1 = stop + d + 1
      BY <1>3
    <3> QED
      BY <3>2, <3>3, <3>4
  <2>5. SubSeq(t, stop + 1, q - 1) = SubSeq(s, stop + d + 1, q + d - 1)
    <3>1. PICK a \in Nat \ {0}, b \in Int : a = stop + 1 /\ b = q - 1 /\ b <= l
      BY <2>2
    <3>2. Part(t, a, b) = Part(s, a + d, b + d)
      <4>1. Stands(t, s, d, l)
        BY <1>1
      <4> QED
        BY <3>1, <4>1, PartShift
    <3>3. a + d = stop + d + 1 /\ b + d = q + d - 1
      BY <1>2, <2>2, <3>1
    <3> QED
      BY <3>1, <3>2, <3>3 DEF Part
  <2>6. ASSUME NEW type PROVE Number(t, p, type) = Number(s, p + d, type)
    <3>1. Number(t, p, type) = <<Lexeme(type, SubSeq(t, stop + 1, q - 1))>>
      BY <1>1, <2>1 DEF Number
    <3>2. Number(s, p + d, type) = <<Lexeme(type, SubSeq(s, stop + d + 1, q + d - 1))>>
      <4>1. (q + d) - 1 = q + d - 1
        BY <1>2, <2>2
      <4> QED
        BY <1>3, <2>4, <4>1 DEF Number
    <3> QED
      BY <2>5, <3>1, <3>2
  <2> QED
    BY <2>1, <2>4, <2>6
<1> QED
  BY <1>1, <1>6, <1>7, <1>8

\* From the same characters come the same lexemes.
LEMMA LexedShift ==
  ASSUME NEW t, NEW s, NEW d, Stands(t, s, d, Len(t)), Len(s) = Len(t) + d,
         NEW g, Lexers(g, t), NEW f, Lexers(f, s), NEW p \in Nat \ {0}
  PROVE  g[p] = f[p + d]
<1>1. PICK l \in Nat : l = Len(t)
  BY LenProperties DEF Stands, Words
<1>2. t \in Words /\ s \in Words /\ d \in Nat
  BY DEF Stands
<1> DEFINE G == {q \in Nat : q # 0 => g[q] = f[q + d]}
<1>3. ASSUME NEW q \in Nat, After(l, q) \subseteq G PROVE q \in G
  <2> SUFFICES ASSUME q # 0 PROVE g[q] = f[q + d]
    OBVIOUS
  <2>0. q + d \in Nat
    BY <1>2
  <2>1. g[q] = Lexed(t, q, g) /\ f[q + d] = Lexed(s, q + d, f)
    BY <2>0 DEF Lexers
  <2>2. PICK stop \in Nat : stop = Stop(t, q) /\ q <= stop /\ Stop(s, q + d) = stop + d
    <3>1. q \in Nat \ {0}
      OBVIOUS
    <3>2. Stop(s, q + d) = Stop(t, q) + d
      BY <3>1, StopShift
    <3>3. Stop(t, q) \in Nat /\ q <= Stop(t, q)
      BY <1>2, StopProperties
    <3> QED
      BY <3>2, <3>3
  <2>3. Ended(t, s, d, q)
    BY DEF Ended
  <2>4. /\ Text(t, q) = Text(s, q + d) /\ Term(t, q) = Term(s, q + d)
        /\ stop <= Len(t) => /\ Past(s, q + d) = Past(t, q) + d
                             /\ \A type : Number(t, q, type) = Number(s, q + d, type)
    BY <2>2, <2>3, LexerShift
  <2>5. CASE stop > l
    <3>1. Stop(s, q + d) > Len(s)
      BY <1>1, <1>2, <2>2, <2>5
    <3> QED
      BY <1>1, <2>0, <2>1, <2>2, <2>4, <2>5, <3>1 DEF Lexed
  <2>6. CASE stop <= l
    <3>1. ~(Stop(s, q + d) > Len(s)) /\ ~(Stop(t, q) > Len(t))
      BY <1>1, <1>2, <2>2, <2>6
    <3>2. t[stop] = s[stop + d]
      <4>1. stop \in 1 .. l
        BY <2>2, <2>6
      <4> QED
        BY <1>1, <4>1 DEF Stands
    <3>3. g[stop + 1] = f[stop + 1 + d] /\ g[Past(t, q)] = f[Past(t, q) + d]
      <4>1. stop + 1 \in After(l, q) /\ Past(t, q) \in After(l, q)
        BY <1>1, <1>2, <2>2, <2>6, LexerMoves
      <4>2. stop + 1 \in G /\ Past(t, q) \in G /\ stop + 1 # 0 /\ Past(t, q) # 0
        BY <1>3, <4>1 DEF After
      <4> QED
        BY <4>2
    <3>4. stop + 1 + d = (stop + d) + 1
      BY <1>2
    <3>5. Past(s, q + d) = Past(t, q) + d /\ \A type : Number(t, q, type) = Number(s, q + d, type)
      BY <1>1, <2>4, <2>6
    <3> DEFINE c == t[stop]
               Arms(str, r, h) ==
                 \/ c = Colon /\ Lexed(str, r, h) = <<Lexeme("FIELD", Text(str, r))>> \o h[Stop(str, r) + 1]
                 \/ c = Tilde /\ Lexed(str, r, h) = (Term(str, r) \o Number(str, r, "EDIT_DISTANCE")) \o h[Past(str, r)]
                 \/ c = Caret /\ Lexed(str, r, h) = (Term(str, r) \o Number(str, r, "BOOST")) \o h[Past(str, r)]
                 \/ c = Space /\ Lexed(str, r, h) = Term(str, r) \o h[Stop(str, r) + 1]
    <3> HIDE DEF G
    <3>6. Arms(t, q, g)
      <4>1. c = t[Stop(t, q)] /\ Stop(t, q) <= Len(t)
        BY <1>1, <2>2, <2>6
      <4> HIDE DEF c
      <4> QED
        BY <1>2, <4>1, LexedCases
    <3>7. Arms(s, q + d, f)
      <4>1. c = s[Stop(s, q + d)] /\ Stop(s, q + d) <= Len(s)
        BY <1>1, <1>2, <2>2, <2>6, <3>2
      <4> HIDE DEF c
      <4> QED
        BY <1>2, <2>0, <4>1, LexedCases
    <3>8. g[Stop(t, q) + 1] = f[Stop(s, q + d) + 1] /\ g[Past(t, q)] = f[Past(s, q + d)]
      BY <2>2, <3>3, <3>4, <3>5
    <3>9. Number(t, q, "EDIT_DISTANCE") = Number(s, q + d, "EDIT_DISTANCE")
          /\ Number(t, q, "BOOST") = Number(s, q + d, "BOOST")
      BY <3>5
    <3> HIDE DEF c
    <3>10. Lexed(t, q, g) = Lexed(s, q + d, f)
      <4>1. c = Colon \/ c = Tilde \/ c = Caret \/ c = Space
        BY <3>6
      <4>2. CASE c = Colon
        BY <2>4, <3>6, <3>7, <3>8, <4>2, SpecialsDiffer, Zenon
      <4>3. CASE c = Tilde
        BY <2>4, <3>6, <3>7, <3>8, <3>9, <4>3, SpecialsDiffer, Zenon
      <4>4. CASE c = Caret
        BY <2>4, <3>6, <3>7, <3>8, <3>9, <4>4, SpecialsDiffer, Zenon
      <4>5. CASE c = Space
        BY <2>4, <3>6, <3>7, <3>8, <4>5, SpecialsDiffer, Zenon
      <4> QED
        BY <4>1, <4>2, <4>3, <4>4, <4>5
    <3> QED
      BY <2>1, <3>10
  <2> QED
    BY <2>5, <2>6
<1>4. Nat \subseteq G
  <2> HIDE DEF G
  <2> QED
    BY <1>1, <1>3, ClimbingInduction
<1> QED
  BY <1>4

-----------------------------------------------------------------------------
(* The lexemes of two strings                                              *)

\* A sequence of some elements is one of more.
LEMMA SeqGrows == ASSUME NEW S, NEW R, S \subseteq R, NEW s \in Seq(S) PROVE s \in Seq(R)
<1>1. Len(s) \in Nat /\ s \in [1 .. Len(s) -> S]
  BY LenProperties
<1>2. s \in [1 .. Len(s) -> R]
  BY <1>1
<1> QED
  BY <1>1, <1>2, IsASeq

\* One sequence after the other, and a part of a sequence, by names of their own:
\* a fact about \o or SubSeq is not found again by the provers under a quantifier.
Joined(s, t) == s \o t

\* Joining is associative.
LEMMA JoinedAssociative ==
  ASSUME NEW S, NEW s \in Seq(S), NEW t \in Seq(S), NEW u \in Seq(S)
  PROVE  Joined(Joined(s, t), u) = Joined(s, Joined(t, u))
BY ConcatAssociative DEF Joined

\* Before a space that is not escaped, the lexer reads what it would if the string
\* ended there, and then the rest.
LEMMA LexedBefore ==
  ASSUME NEW t, NEW s, NEW i \in 1 .. Len(s), Len(t) = i - 1, Stands(t, s, 0, i - 1),
         s[i] = Space, ~EscapedAt(s, i),
         NEW h, Lexers(h, t), NEW f, Lexers(f, s), NEW p \in 1 .. i, ~EscapedAt(s, p)
  PROVE  f[p] = Joined(h[p], f[i + 1])
<1>1. PICK m \in Nat : m = Len(s) /\ i \in 1 .. m
  BY LenProperties DEF Stands, Words
<1>2. t \in Words /\ s \in Words /\ \A k \in 1 .. i - 1 : t[k] = s[k]
  <2>1. \A k \in 1 .. i - 1 : t[k] = s[k + 0] /\ k + 0 = k
    BY DEF Stands
  <2> QED
    BY <2>1 DEF Stands
<1> DEFINE L == LexemesOf(t) \cup LexemesOf(s)
           V == Seq(L)
<1>0. \A x : x \in Seq(LexemesOf(t)) \/ x \in Seq(LexemesOf(s)) => x \in V
  BY SeqGrows
<1>3. \A q \in Nat : h[q] \in V /\ f[q] \in V
  <2>1. \A q \in Nat : h[q] \in Seq(LexemesOf(t)) /\ f[q] \in Seq(LexemesOf(s))
    BY DEF Lexers
  <2> HIDE DEF V
  <2> QED
    BY <1>0, <2>1
<1> DEFINE G == {q \in Nat : q # 0 /\ q <= i /\ ~EscapedAt(s, q) => f[q] = Joined(h[q], f[i + 1])}
<1>4. ASSUME NEW q \in Nat, After(i - 1, q) \subseteq G PROVE q \in G
  <2> SUFFICES ASSUME q # 0, q <= i, ~EscapedAt(s, q) PROVE f[q] = Joined(h[q], f[i + 1])
    OBVIOUS
  <2>1. h[q] = Lexed(t, q, h) /\ f[q] = Lexed(s, q, f)
    BY DEF Lexers
  <2>2. PICK stop \in q .. i : stop = Stop(s, q) /\ stop = Stop(t, q) /\ ~EscapedAt(s, stop)
    <3>1. q \in 1 .. i
      OBVIOUS
    <3> QED
      BY <3>1, StopBefore
  <2>3. /\ Text(t, q) = Text(s, q) /\ Term(t, q) = Term(s, q)
        /\ stop < i => /\ Past(s, q) = Past(t, q)
                       /\ \A type : Number(t, q, type) = Number(s, q, type)
    <3>1. q + 0 = q /\ Stop(t, q) + 0 = Stop(t, q) /\ q \in Nat \ {0}
      BY <2>2
    <3>2. Ended(t, s, 0, q)
      <4>1. Stop(t, q) <= Len(t) + 1 /\ Len(t) + 0 < Len(s) /\ Len(t) + 1 + 0 = i
        BY <1>1, <2>2
      <4>2. s[i] \notin Digit
        BY SpecialsDiffer DEF Special
      <4> QED
        BY <4>1, <4>2 DEF Ended
    <3>3. /\ Text(t, q) = Text(s, q + 0) /\ Term(t, q) = Term(s, q + 0)
          /\ Stop(t, q) <= Len(t) => /\ Past(s, q + 0) = Past(t, q) + 0
                                     /\ \A type : Number(t, q, type) = Number(s, q + 0, type)
      <4>1. Stop(s, q + 0) = Stop(t, q) + 0
        BY <2>2, <3>1
      <4> QED
        BY <3>1, <3>2, <4>1, LexerShift
    <3>4. stop < i => Stop(t, q) <= Len(t) /\ Past(t, q) + 0 = Past(t, q)
      BY <1>2, <2>2, LexerMoves
    <3> QED
      BY <3>1, <3>3, <3>4
  <2>4. Term(t, q) \in V /\ f[i + 1] \in V
    <3>1. Term(t, q) \in Seq(LexemesOf(t))
      BY <1>2, LexedType
    <3> HIDE DEF V
    <3> QED
      BY <1>0, <1>3, <3>1
  <2>5. CASE stop = i
    <3>1. Stop(t, q) > Len(t) /\ Stop(s, q) <= Len(s)
      BY <1>1, <2>2, <2>5
    <3>2. h[q] = Term(t, q)
      BY <1>2, <2>1, <3>1, LexedCases
    <3>3. s[Stop(s, q)] = Space
      BY <2>2, <2>5
    <3>4. Lexed(s, q, f) = Term(s, q) \o f[Stop(s, q) + 1]
      BY <1>2, <3>1, <3>3, LexedCases, SpecialsDiffer
    <3> QED
      BY <2>1, <2>2, <2>3, <2>5, <3>2, <3>4, Zenon DEF Joined
  <2>6. CASE stop < i
    <3> DEFINE c == t[stop]
               Arms(str, r, k) ==
                 \/ c = Colon /\ Lexed(str, r, k) = <<Lexeme("FIELD", Text(str, r))>> \o k[Stop(str, r) + 1]
                 \/ c = Tilde /\ Lexed(str, r, k) = (Term(str, r) \o Number(str, r, "EDIT_DISTANCE")) \o k[Past(str, r)]
                 \/ c = Caret /\ Lexed(str, r, k) = (Term(str, r) \o Number(str, r, "BOOST")) \o k[Past(str, r)]
                 \/ c = Space /\ Lexed(str, r, k) = Term(str, r) \o k[Stop(str, r) + 1]
    <3>0. stop \in 1 .. i - 1
      BY <2>2, <2>6
    <3>1. Arms(t, q, h)
      <4>1. c = t[Stop(t, q)] /\ Stop(t, q) <= Len(t)
        BY <2>2, <2>6
      <4> HIDE DEF c
      <4> QED
        BY <1>2, <4>1, LexedCases
    <3>2. Arms(s, q, f)
      <4>1. c = s[Stop(s, q)] /\ Stop(s, q) <= Len(s)
        BY <1>1, <1>2, <2>2, <2>6, <3>0
      <4> HIDE DEF c
      <4> QED
        BY <1>2, <4>1, LexedCases
    <3>3. stop + 1 \in Nat /\ f[stop + 1] = Joined(h[stop + 1], f[i + 1])
      <4>1. stop + 1 \in After(i - 1, q)
        BY <2>2, <2>6 DEF After
      <4>2. ~EscapedAt(s, stop + 1)
        <5>1. s[stop] # Backslash
          <6>1. Stop(t, q) <= Len(t)
            BY <2>2, <2>6
          <6>2. t[Stop(t, q)] \in Special \ {Backslash}
            BY <1>2, <6>1, StopProperties
          <6> QED
            BY <1>2, <2>2, <3>0, <6>2
        <5> QED
          BY <3>0, <5>1, Escaping
      <4>3. stop + 1 # 0 /\ stop + 1 <= i
        BY <2>2, <2>6
      <4> QED
        BY <1>4, <4>1, <4>2, <4>3 DEF After
    <3>4. PICK past \in stop + 1 .. i : past = Past(t, q) /\ DigitsTo(t, stop + 1, past)
      <4>1. stop + 1 \in Nat /\ stop + 1 <= Len(t) + 1
        BY <3>0
      <4>2. DigitsTo(t, stop + 1, Past(t, q))
        BY <1>2, <2>2, <4>1, DigitsEndProperties DEF Past
      <4>3. Past(t, q) \in stop + 1 .. i
        <5>1. Past(t, q) \in stop + 1 .. Len(t) + 1
          BY <4>2 DEF DigitsTo
        <5> QED
          BY <5>1
      <4> QED
        BY <4>2, <4>3
    <3>5. past \in Nat /\ f[past] = Joined(h[past], f[i + 1])
      <4>1. past \in After(i - 1, q)
        BY <2>2, <2>6 DEF After
      <4>2. ~EscapedAt(s, past)
        <5>1. CASE past = stop + 1
          <6>1. s[stop] # Backslash
            <7>1. Stop(t, q) <= Len(t)
              BY <2>2, <2>6
            <7>2. t[Stop(t, q)] \in Special \ {Backslash}
              BY <1>2, <7>1, StopProperties
            <7> QED
              BY <1>2, <2>2, <3>0, <7>2
          <6> QED
            BY <3>0, <5>1, <6>1, Escaping
        <5>2. CASE past # stop + 1
          <6>1. past - 1 \in stop + 1 .. past - 1 /\ past - 1 \in 1 .. i - 1 /\ (past - 1) + 1 = past
            BY <3>0, <5>2
          <6>2. t[past - 1] \in Digit
            BY <3>4, <6>1 DEF DigitsTo
          <6>3. s[past - 1] # Backslash
            BY <1>2, <6>1, <6>2, SpecialsDiffer DEF Special
          <6> QED
            BY <6>1, <6>3, Escaping
        <5> QED
          BY <5>1, <5>2
      <4>3. past # 0 /\ past <= i
        BY <3>0
      <4> QED
        BY <1>4, <4>1, <4>2, <4>3 DEF After
    <3>6. /\ <<Lexeme("FIELD", Text(t, q))>> \in V
          /\ Number(t, q, "EDIT_DISTANCE") \in V /\ Number(t, q, "BOOST") \in V
          /\ h[stop + 1] \in V /\ h[past] \in V
      <4>1. Stop(t, q) <= Len(t)
        BY <2>2, <2>6
      <4>2. /\ <<Lexeme("FIELD", Text(t, q))>> \in Seq(LexemesOf(t))
            /\ Number(t, q, "EDIT_DISTANCE") \in Seq(LexemesOf(t)) /\ Number(t, q, "BOOST") \in Seq(LexemesOf(t))
        BY <1>2, <4>1, LexedType DEF LexemeTypes
      <4> HIDE DEF V
      <4> QED
        BY <1>0, <1>3, <3>3, <3>5, <4>2
    <3>7. Term(t, q) \o Number(t, q, "EDIT_DISTANCE") \in V /\ Term(t, q) \o Number(t, q, "BOOST") \in V
      BY <2>4, <3>6, ConcatProperties
    <3>8. Past(s, q) = past /\ Stop(s, q) = stop /\ Stop(t, q) = stop
      BY <2>2, <2>3, <2>6, <3>4
    <3>9. /\ Number(t, q, "EDIT_DISTANCE") = Number(s, q, "EDIT_DISTANCE")
          /\ Number(t, q, "BOOST") = Number(s, q, "BOOST")
      BY <2>3, <2>6
    <3> HIDE DEF c, G, V
    <3>10. Lexed(s, q, f) = Joined(Lexed(t, q, h), f[i + 1])
      <4>1. c = Colon \/ c = Tilde \/ c = Caret \/ c = Space
        BY <3>1
      <4>2. CASE c = Colon
        <5> DEFINE x == <<Lexeme("FIELD", Text(t, q))>>
        <5>1. Lexed(t, q, h) = x \o h[stop + 1] /\ Lexed(s, q, f) = x \o f[stop + 1]
          BY <2>3, <3>1, <3>2, <3>8, <4>2, SpecialsDiffer, Zenon
        <5> HIDE DEF x
        <5>2. (x \o h[stop + 1]) \o f[i + 1] = x \o (h[stop + 1] \o f[i + 1])
          <6>1. x \in Seq(L) /\ h[stop + 1] \in Seq(L) /\ f[i + 1] \in Seq(L)
            BY <2>4, <3>6 DEF V, x
          <6> HIDE DEF L
          <6>2. Joined(Joined(x, h[stop + 1]), f[i + 1]) = Joined(x, Joined(h[stop + 1], f[i + 1]))
            BY <6>1, JoinedAssociative
          <6> QED
            BY <6>2, Zenon DEF Joined
        <5> QED
          BY <3>3, <5>1, <5>2, Zenon DEF Joined
      <4>3. CASE c = Tilde
        <5> DEFINE x == Term(t, q) \o Number(t, q, "EDIT_DISTANCE")
        <5>1. Lexed(t, q, h) = x \o h[past] /\ Lexed(s, q, f) = x \o f[past]
          BY <2>3, <3>1, <3>2, <3>4, <3>8, <3>9, <4>3, SpecialsDiffer, Zenon
        <5>2. x \in V
          BY <2>4, <3>6, <3>7
        <5> HIDE DEF x
        <5>3. (x \o h[past]) \o f[i + 1] = x \o (h[past] \o f[i + 1])
          <6>1. x \in Seq(L) /\ h[past] \in Seq(L) /\ f[i + 1] \in Seq(L)
            BY <2>4, <3>6, <5>2 DEF V
          <6> HIDE DEF L
          <6>2. Joined(Joined(x, h[past]), f[i + 1]) = Joined(x, Joined(h[past], f[i + 1]))
            BY <6>1, JoinedAssociative
          <6> QED
            BY <6>2, Zenon DEF Joined
        <5> QED
          BY <3>5, <5>1, <5>3, Zenon DEF Joined
      <4>4. CASE c = Caret
        <5> DEFINE x == Term(t, q) \o Number(t, q, "BOOST")
        <5>1. Lexed(t, q, h) = x \o h[past] /\ Lexed(s, q, f) = x \o f[past]
          BY <2>3, <3>1, <3>2, <3>4, <3>8, <3>9, <4>4, SpecialsDiffer, Zenon
        <5>2. x \in V
          BY <2>4, <3>6, <3>7
        <5> HIDE DEF x
        <5>3. (x \o h[past]) \o f[i + 1] = x \o (h[past] \o f[i + 1])
          <6>1. x \in Seq(L) /\ h[past] \in Seq(L) /\ f[i + 1] \in Seq(L)
            BY <2>4, <3>6, <5>2 DEF V
          <6> HIDE DEF L
          <6>2. Joined(Joined(x, h[past]), f[i + 1]) = Joined(x, Joined(h[past], f[i + 1]))
            BY <6>1, JoinedAssociative
          <6> QED
            BY <6>2, Zenon DEF Joined
        <5> QED
          BY <3>5, <5>1, <5>3, Zenon DEF Joined
      <4>5. CASE c = Space
        <5> DEFINE x == Term(t, q)
        <5>1. Lexed(t, q, h) = x \o h[stop + 1] /\ Lexed(s, q, f) = x \o f[stop + 1]
          BY <2>3, <3>1, <3>2, <3>8, <4>5, SpecialsDiffer, Zenon
        <5> HIDE DEF x
        <5>2. (x \o h[stop + 1]) \o f[i + 1] = x \o (h[stop + 1] \o f[i + 1])
          <6>1. x \in Seq(L) /\ h[stop + 1] \in Seq(L) /\ f[i + 1] \in Seq(L)
            BY <2>4, <3>6 DEF V, x
          <6> HIDE DEF L
          <6>2. Joined(Joined(x, h[stop + 1]), f[i + 1]) = Joined(x, Joined(h[stop + 1], f[i + 1]))
            BY <6>1, JoinedAssociative
          <6> QED
            BY <6>2, Zenon DEF Joined
        <5> QED
          BY <3>3, <5>1, <5>2, Zenon DEF Joined
      <4> QED
        BY <4>1, <4>2, <4>3, <4>4, <4>5
    <3> QED
      BY <2>1, <3>10
  <2>7. stop = i \/ stop < i
    BY <2>2
  <2> QED
    BY <2>5, <2>6, <2>7
<1>5. Nat \subseteq G
  <2>1. i - 1 \in Nat
    OBVIOUS
  <2> HIDE DEF G
  <2> QED
    BY <1>4, <2>1, ClimbingInduction
<1>6. p \in Nat /\ p # 0 /\ p <= i
  OBVIOUS
<1> QED
  BY <1>5, <1>6

\* What stands on the two sides of a space is read by itself.
LEMMA LexemesSplit ==
  ASSUME NEW s \in Words, NEW i \in 1 .. Len(s), s[i] = Space, ~EscapedAt(s, i)
  PROVE  Lexemes(s) = Joined(Lexemes(SubSeq(s, 1, i - 1)), Lexemes(SubSeq(s, i + 1, Len(s))))
<1>1. PICK m \in Nat : m = Len(s) /\ i \in 1 .. m
  BY LenProperties DEF Words
<1> DEFINE t == SubSeq(s, 1, i - 1)
           u == SubSeq(s, i + 1, Len(s))
<1>2. \A k \in 1 .. m : s[k] \in Nat
  BY <1>1, ElementOfSeq DEF Words
<1>3. t \in Words /\ Len(t) = i - 1 /\ \A k \in 1 .. i - 1 : t[k] = s[k]
  <2>1. \A k \in 1 .. i - 1 : k \in 1 .. m
    BY <1>1
  <2>2. /\ t \in Seq(Nat) /\ Len(t) = IF 1 <= i - 1 THEN i - 1 - 1 + 1 ELSE 0
        /\ \A k \in 1 .. i - 1 - 1 + 1 : t[k] = s[1 + k - 1]
    <3>1. 1 \in Int /\ i - 1 \in Int /\ \A k \in 1 .. i - 1 : s[k] \in Nat
      BY <1>2, <2>1
    <3> QED
      BY <3>1, SubSeqProperties
  <2> HIDE DEF t
  <2>3. Len(t) = i - 1
    BY <2>2
  <2>4. ASSUME NEW k \in 1 .. i - 1 PROVE t[k] = s[k]
    <3>1. k \in 1 .. i - 1 - 1 + 1 /\ 1 + k - 1 = k
      OBVIOUS
    <3> QED
      BY <2>2, <3>1
  <2> QED
    BY <2>2, <2>3, <2>4 DEF Words
<1>4. u \in Words /\ Len(u) = m - i /\ \A k \in 1 .. m - i : u[k] = s[k + i]
  <2>1. \A k \in i + 1 .. m : k \in 1 .. m
    BY <1>1
  <2>2. /\ u \in Seq(Nat) /\ Len(u) = IF i + 1 <= m THEN m - (i + 1) + 1 ELSE 0
        /\ \A k \in 1 .. m - (i + 1) + 1 : u[k] = s[(i + 1) + k - 1]
    <3>1. i + 1 \in Int /\ m \in Int /\ \A k \in i + 1 .. m : s[k] \in Nat
      BY <1>2, <2>1
    <3> QED
      BY <1>1, <3>1, SubSeqProperties
  <2> HIDE DEF u
  <2>3. Len(u) = m - i
    BY <1>1, <2>2
  <2>4. ASSUME NEW k \in 1 .. m - i PROVE u[k] = s[k + i]
    <3>1. k \in 1 .. m - (i + 1) + 1 /\ (i + 1) + k - 1 = k + i
      BY <1>1
    <3> QED
      BY <2>2, <3>1
  <2> QED
    BY <2>2, <2>3, <2>4 DEF Words
<1> HIDE DEF t, u
<1>5. PICK f : Lexers(f, s) /\ Lexemes(s) = f[1]
  BY LexerRule
<1>6. PICK h : Lexers(h, t) /\ Lexemes(t) = h[1]
  BY <1>3, LexerRule
<1>7. PICK g : Lexers(g, u) /\ Lexemes(u) = g[1]
  BY <1>4, LexerRule
<1>8. f[1] = Joined(h[1], f[i + 1])
  <2>1. Stands(t, s, 0, i - 1)
    BY <1>1, <1>3 DEF Stands
  <2>2. 1 \in 1 .. i /\ ~EscapedAt(s, 1)
    BY Escaping
  <2> QED
    BY <1>3, <1>5, <1>6, <2>1, <2>2, LexedBefore
<1>9. g[1] = f[1 + i]
  <2>1. Stands(u, s, i, Len(u)) /\ Len(s) = Len(u) + i
    BY <1>1, <1>4 DEF Stands
  <2>2. 1 \in Nat \ {0}
    OBVIOUS
  <2> QED
    BY <1>5, <1>7, <2>1, <2>2, LexedShift
<1>10. 1 + i = i + 1
  OBVIOUS
<1> QED
  BY <1>5, <1>6, <1>7, <1>8, <1>9, <1>10, Zenon DEF t, u

-----------------------------------------------------------------------------
(* The greatest of a set                                                   *)

\* A set of numbers up to n has a greatest one.
LEMMA Greatest ==
  ASSUME NEW n \in Nat, NEW T \in SUBSET (1 .. n), T # {}
  PROVE  Max(T) \in T
<1> DEFINE R == {n - x : x \in T}
<1>1. R \in SUBSET Nat /\ R # {}
  <2>1. \A x \in T : x \in 1 .. n /\ n - x \in Nat
    <3>1. \A x \in 1 .. n : n - x \in Nat
      OBVIOUS
    <3> QED
      BY <3>1
  <2> QED
    BY <2>1
<1>2. PICK r \in R : \A y \in R : r <= y
  <2> HIDE DEF R
  <2> QED
    BY <1>1, Least
<1>3. PICK m \in T : r = n - m
  BY <1>2
<1>4. ASSUME NEW x \in T PROVE m >= x
  <2>1. r <= n - x
    <3>1. n - x \in R
      OBVIOUS
    <3> HIDE DEF R
    <3> QED
      BY <1>2, <3>1
  <2> QED
    BY <1>3, <2>1
<1>5. T \in SUBSET Nat
  OBVIOUS
<1> QED
  BY <1>4, <1>5, MaxIs

-----------------------------------------------------------------------------
(* The parser                                                              *)

\* What the parser may make of the lexemes.
FieldsOf(lex) == {AllFields} \cup {<<lex[k].str>> : k \in 1 .. Len(lex)}
NumbersOf(lex) == {1, None} \cup {ParseInt(lex[k].str) : k \in 1 .. Len(lex)}
ClausesOf(lex) ==
  [fields : FieldsOf(lex), term : {ToLowerCase(lex[k].str) : k \in 1 .. Len(lex)},
   boost : NumbersOf(lex), editDistance : NumbersOf(lex), usePipeline : BOOLEAN]
ParsesOf(lex) ==
  {[state |-> "error"], InitialParse}
    \cup [state : {"term"}, clauses : Seq(ClausesOf(lex)), fields : {AllFields}, current : ClausesOf(lex)]
    \cup [state : {"field"}, clauses : Seq(ClausesOf(lex)), fields : FieldsOf(lex)]

\* The lexemes that the lexer emits have a type.
Typed(lex) == \E S : lex \in Seq(S) /\ \A l \in S : l.type \in LexemeTypes

\* Those of a string have.
LEMMA LexemesTyped == ASSUME NEW str \in Words PROVE Typed(Lexemes(str))
<1>1. PICK f : Lexers(f, str) /\ Lexemes(str) = f[1]
  BY LexerRule
<1>2. Lexemes(str) \in Seq(LexemesOf(str))
  BY <1>1 DEF Lexers
<1>3. \A l \in LexemesOf(str) : l.type \in LexemeTypes
  BY DEF LexemesOf, Lexeme
<1> QED
  BY <1>2, <1>3 DEF Typed

\* One lexeme more leaves the parser in one of these states.
LEMMA ParseType ==
  ASSUME NEW lex, NEW k \in 1 .. Len(lex), NEW parse \in ParsesOf(lex), lex[k].type \in LexemeTypes
  PROVE  ParseLexeme(parse, lex[k]) \in ParsesOf(lex)
<1> DEFINE F == FieldsOf(lex)
           C == ClausesOf(lex)
           str == lex[k].str
           type == lex[k].type
           Inside == [state : {"term"}, clauses : Seq(C), fields : {AllFields}, current : C]
           Named == [state : {"field"}, clauses : Seq(C), fields : F]
<1>1. AllFields \in F /\ <<str>> \in F
  BY DEF FieldsOf
<1>2. \A fields \in F : Clause(str, fields) \in C
  BY DEF Clause, ClausesOf, NumbersOf, Contains
<1>3. \A x : x \in Inside => x \in ParsesOf(lex)
  BY DEF ParsesOf
<1>4. \A x : x \in Named => x \in ParsesOf(lex)
  BY DEF ParsesOf
<1>5. [state |-> "error"] \in ParsesOf(lex)
  BY DEF ParsesOf
<1>6. \/ parse.state = "error" /\ parse = [state |-> "error"]
      \/ parse = InitialParse
      \/ parse.state = "term" /\ parse \in Inside
      \/ parse.state = "field" /\ parse \in Named
  BY DEF ParsesOf
<1>7. parse.state # "error" => parse.fields \in F
  BY <1>1, <1>6 DEF InitialParse
<1>8. parse.state # "error" => Completed(parse) \in Seq(C)
  <2>1. CASE parse = InitialParse
    BY <2>1 DEF InitialParse, Completed
  <2>2. CASE parse.state = "term" /\ parse \in Inside
    <3>1. parse.clauses \in Seq(C) /\ parse.current \in C
      BY <2>2
    <3> HIDE DEF C
    <3> QED
      BY <2>2, <3>1 DEF Completed
  <2>3. CASE parse.state = "field" /\ parse \in Named
    BY <2>3 DEF Completed
  <2> QED
    BY <1>6, <2>1, <2>2, <2>3
<1> HIDE DEF F, C
<1>9. ASSUME parse.state # "error" PROVE ParseTerm(parse, str) \in Inside
  <2>1. Clause(str, parse.fields) \in C
    BY <1>2, <1>7, <1>9
  <2>2. Completed(parse) \in Seq(C)
    BY <1>8, <1>9
  <2> QED
    BY <1>1, <2>1, <2>2 DEF ParseTerm
<1>10. ASSUME parse.state # "error" PROVE ParseField(parse, str) \in ParsesOf(lex)
  <2>1. [state |-> "field", clauses |-> Completed(parse), fields |-> <<str>>] \in Named
    BY <1>1, <1>8, <1>10
  <2> QED
    BY <1>4, <1>5, <2>1 DEF ParseField
<1>11. ParseInt(str) \in NumbersOf(lex)
  BY DEF NumbersOf
<1>12. ParseEditDistance(parse, str) \in ParsesOf(lex)
  <2>1. CASE parse.state = "term" /\ str # <<>>
    <3>1. parse \in Inside
      BY <1>6, <2>1 DEF InitialParse
    <3>2. parse.current \in C
      BY <3>1
    <3>3. [parse.current EXCEPT !.editDistance = ParseInt(str)] \in C
      BY <1>11, <3>2 DEF C, ClausesOf
    <3>4. [parse EXCEPT !.current = [parse.current EXCEPT !.editDistance = ParseInt(str)]] \in Inside
      BY <3>1, <3>3
    <3>5. ParseEditDistance(parse, str) = [parse EXCEPT !.current = [parse.current EXCEPT !.editDistance = ParseInt(str)]]
      BY <2>1, <3>1 DEF ParseEditDistance
    <3> QED
      BY <1>3, <3>4, <3>5
  <2>2. CASE ~(parse.state = "term" /\ str # <<>>)
    BY <1>5, <2>2 DEF ParseEditDistance
  <2> QED
    BY <2>1, <2>2
<1>13. ParseBoost(parse, str) \in ParsesOf(lex)
  <2>1. CASE parse.state = "term" /\ str # <<>>
    <3>1. parse \in Inside
      BY <1>6, <2>1 DEF InitialParse
    <3>2. parse.current \in C
      BY <3>1
    <3>3. [parse.current EXCEPT !.boost = ParseInt(str)] \in C
      BY <1>11, <3>2 DEF C, ClausesOf
    <3>4. [parse EXCEPT !.current = [parse.current EXCEPT !.boost = ParseInt(str)]] \in Inside
      BY <3>1, <3>3
    <3>5. ParseBoost(parse, str) = [parse EXCEPT !.current = [parse.current EXCEPT !.boost = ParseInt(str)]]
      BY <2>1, <3>1 DEF ParseBoost
    <3> QED
      BY <1>3, <3>4, <3>5
  <2>2. CASE ~(parse.state = "term" /\ str # <<>>)
    BY <1>5, <2>2 DEF ParseBoost
  <2> QED
    BY <2>1, <2>2
<1>14. type = "TERM" \/ type = "FIELD" \/ type = "EDIT_DISTANCE" \/ type = "BOOST"
  BY DEF LexemeTypes
<1>15. parse.state # "error" =>
         /\ type = "TERM" => ParseLexeme(parse, lex[k]) = ParseTerm(parse, str)
         /\ type = "FIELD" => ParseLexeme(parse, lex[k]) = ParseField(parse, str)
         /\ type = "EDIT_DISTANCE" => ParseLexeme(parse, lex[k]) = ParseEditDistance(parse, str)
         /\ type = "BOOST" => ParseLexeme(parse, lex[k]) = ParseBoost(parse, str)
  BY DEF ParseLexeme
<1>16. parse.state = "error" => ParseLexeme(parse, lex[k]) = parse
  BY DEF ParseLexeme
<1> HIDE DEF Inside, Named, str, type
<1> QED
  BY <1>3, <1>9, <1>10, <1>12, <1>13, <1>14, <1>15, <1>16

\* The states of the parser, lexeme by lexeme.
Parsing(f, lex) == f[0] = InitialParse /\ \A k \in 1 .. Len(lex) : f[k] = ParseLexeme(f[k - 1], lex[k])

\* The fold over the lexemes goes through the states.
LEMMA ParsingRule ==
  ASSUME NEW lex, Typed(lex)
  PROVE  \E f : /\ Parsing(f, lex) /\ f[Len(lex)] = FoldLeft(ParseLexeme, InitialParse, lex)
                /\ \A k \in 0 .. Len(lex) : f[k] \in ParsesOf(lex)
<1>1. PICK S : lex \in Seq(S) /\ \A l \in S : l.type \in LexemeTypes
  BY DEF Typed
<1>2. PICK n \in Nat : n = Len(lex) /\ DOMAIN lex = 1 .. n
  BY <1>1, LenProperties
<1>3. \A k \in 1 .. n : lex[k].type \in LexemeTypes
  BY <1>1, <1>2, ElementOfSeq
<1> DEFINE D == SUBSET (DOMAIN lex)
           V == ParsesOf(lex)
           rank == [s \in D |-> Cardinality(s)]
           Below(s) == Lower(D, rank, s)
           Value(s, h) == IF s = {} THEN InitialParse ELSE ParseLexeme(h[s \ {Max(s)}], lex[Max(s)])
           step == [s \in D |-> [h \in [Below(s) -> V] |-> Value(s, h)]]
           Eq(f) == f = [s \in SUBSET (DOMAIN lex) |->
                          IF s = {} THEN InitialParse
                          ELSE LET x == Max(s) IN ParseLexeme(f[s \ {x}], lex[x])]
           iter == CHOOSE f : Eq(f)
<1>4. FoldLeft(ParseLexeme, InitialParse, lex) = iter[1 .. n]
  <2>1. FoldLeft(ParseLexeme, InitialParse, lex) = iter[DOMAIN lex]
    BY DEF FoldLeft, MapThenFoldSet
  <2> QED
    BY <1>2, <2>1
<1>5. \A f : Eq(f) <=> f = [s \in D |-> Value(s, f)]
  OBVIOUS
<1>0. D = SUBSET (1 .. n)
  BY <1>2
<1> HIDE DEF D, Eq
<1>6. IsFiniteSet(1 .. n) /\ \A s \in D : IsFiniteSet(s)
  <2>1. IsFiniteSet(1 .. n)
    BY FS_Interval
  <2>2. \A s \in D : s \subseteq 1 .. n
    BY <1>0
  <2> QED
    BY <2>1, <2>2, FS_Subset
<1>7. rank \in [D -> Nat] /\ \A s \in D : rank[s] = Cardinality(s)
  BY <1>6, FS_CardinalityType
<1> HIDE DEF rank
<1>8. ASSUME NEW s \in D, s # {} PROVE Max(s) \in s /\ s \ {Max(s)} \in Below(s)
  <2>1. Max(s) \in s
    BY <1>0, <1>8, Greatest
  <2>2. s \ {Max(s)} \in D
    BY <1>0
  <2>3. Cardinality(s \ {Max(s)}) = Cardinality(s) - 1 /\ Cardinality(s) \in Nat
    BY <1>6, <2>1, FS_RemoveElement, FS_CardinalityType
  <2>4. rank[s \ {Max(s)}] < rank[s]
    BY <1>7, <2>2, <2>3
  <2> QED
    BY <2>1, <2>2, <2>4 DEF Lower
<1>9. ASSUME NEW s \in D, NEW h \in [Below(s) -> V] PROVE step[s][h] = Value(s, h) /\ Value(s, h) \in V
  <2>1. step[s][h] = Value(s, h)
    <3> HIDE DEF Value, Below, V
    <3> QED
      OBVIOUS
  <2>2. CASE s = {}
    BY <2>1, <2>2 DEF ParsesOf
  <2>3. CASE s # {}
    <3>1. PICK x \in 1 .. n : x = Max(s) /\ s \ {x} \in Below(s)
      BY <1>0, <1>8, <2>3
    <3>2. h[s \ {x}] \in V
      <4> HIDE DEF V, Below
      <4> QED
        BY <3>1
    <3>3. ParseLexeme(h[s \ {x}], lex[x]) \in V
      BY <1>2, <1>3, <3>2, ParseType
    <3>4. Value(s, h) = ParseLexeme(h[s \ {x}], lex[x])
      BY <2>3, <3>1
    <3> HIDE DEF Value, V, step
    <3> QED
      BY <2>1, <3>3, <3>4
  <2> QED
    BY <2>2, <2>3
<1>10. PICK f : Ranked(f, D, V, rank, step)
  <2>1. Leads(D, V, rank, step)
    <3> HIDE DEF V, step, Value
    <3> QED
      BY <1>9 DEF Leads
  <2> HIDE DEF V, step
  <2> QED
    BY <1>7, <2>1, RankedRecursion
<1>11. f \in [D -> V]
  <2> HIDE DEF V, step
  <2> QED
    BY <1>10 DEF Ranked
<1>12. ASSUME NEW s \in D PROVE f[s] = Value(s, f)
  <2> DEFINE h == [r \in Below(s) |-> f[r]]
  <2>1. f[s] = step[s][h]
    <3>1. f[s] = step[s][Restrict(f, Below(s))]
      <4> HIDE DEF V, step
      <4> QED
        BY <1>10 DEF Ranked
    <3>2. Restrict(f, Below(s)) = h
      BY DEF Restrict
    <3> HIDE DEF V, step, h
    <3> QED
      BY <3>1, <3>2
  <2>2. h \in [Below(s) -> V]
    <3>1. Below(s) \subseteq D
      BY DEF Lower
    <3> HIDE DEF V, Below
    <3> QED
      BY <1>11, <3>1
  <2>3. Value(s, h) = Value(s, f)
    <3>1. s # {} => h[s \ {Max(s)}] = f[s \ {Max(s)}]
      <4>1. s # {} => s \ {Max(s)} \in Below(s)
        BY <1>8
      <4> HIDE DEF Below
      <4> QED
        BY <4>1
    <3> HIDE DEF h
    <3> QED
      BY <3>1
  <2> HIDE DEF V, step, h, Value
  <2> QED
    BY <1>9, <2>1, <2>2, <2>3
<1>13. Eq(iter)
  <2>1. f = [s \in D |-> f[s]]
    <3> HIDE DEF V
    <3> QED
      BY <1>11
  <2>2. Eq(f)
    <3> HIDE DEF Value
    <3> QED
      BY <1>5, <1>12, <2>1
  <2> QED
    BY <2>2
<1>14. \A s \in D : iter[s] = Value(s, iter)
  <2>1. iter = [s \in D |-> Value(s, iter)]
    <3> HIDE DEF iter
    <3> QED
      BY <1>5, <1>13
  <2> HIDE DEF iter, Value
  <2> QED
    BY <2>1
<1> HIDE DEF iter
<1> DEFINE g == [k \in 0 .. n |-> iter[1 .. k]]
<1>15. g[0] = InitialParse
  <2>1. 1 .. 0 = {} /\ {} \in D /\ 0 \in 0 .. n
    BY <1>0
  <2>2. iter[{}] = InitialParse
    BY <1>14, <2>1
  <2> QED
    BY <2>1, <2>2
<1>16. ASSUME NEW k \in 1 .. n PROVE g[k] = ParseLexeme(g[k - 1], lex[k])
  <2>1. 1 .. k \in D /\ 1 .. k # {} /\ (1 .. k) \ {k} = 1 .. k - 1 /\ k - 1 \in 0 .. n /\ k \in 0 .. n
    BY <1>0
  <2>2. Max(1 .. k) = k
    <3>1. 1 .. k \in SUBSET Nat /\ k \in 1 .. k /\ \A x \in 1 .. k : k >= x
      OBVIOUS
    <3> QED
      BY <3>1, MaxIs
  <2>3. iter[1 .. k] = ParseLexeme(iter[1 .. k - 1], lex[k])
    <3>1. iter[1 .. k] = Value(1 .. k, iter)
      BY <1>14, <2>1
    <3> QED
      BY <2>1, <2>2, <3>1
  <2> QED
    BY <2>1, <2>3
<1>17. g[n] = iter[1 .. n]
  OBVIOUS
<1> HIDE DEF g
<1>18. Parsing(g, lex)
  BY <1>2, <1>15, <1>16 DEF Parsing
<1>19. \A k \in 0 .. n : g[k] \in V
  <2> DEFINE G == [k \in 0 .. n |-> V]
  <2>1. g[0] \in G[0]
    BY <1>15 DEF ParsesOf
  <2>2. ASSUME NEW k \in 1 .. n, g[k - 1] \in G[k - 1] PROVE g[k] \in G[k]
    <3>1. k - 1 \in 0 .. n /\ k \in 0 .. n
      OBVIOUS
    <3>2. g[k - 1] \in V
      BY <2>2, <3>1
    <3>3. ParseLexeme(g[k - 1], lex[k]) \in V
      BY <1>2, <1>3, <3>2, ParseType
    <3> HIDE DEF V
    <3> QED
      BY <1>16, <3>1, <3>3
  <2>3. \A k \in 0 .. n : g[k] \in G[k]
    <3> HIDE DEF G
    <3> QED
      BY <2>1, <2>2, Stays
  <2> HIDE DEF V
  <2> QED
    BY <2>3
<1> HIDE DEF V
<1> QED
  BY <1>2, <1>4, <1>17, <1>18, <1>19 DEF V

-----------------------------------------------------------------------------
(* A parse that goes on                                                    *)

\* The parser goes the same way after a query P as from the start, with the clauses
\* of P in front; an error remains one.
Resumed(P, p, q) ==
  \/ p.state = "error"
  \/ p = InitialParse /\ q = P
  \/ /\ p.state \in {"term", "field"} /\ q.state = p.state /\ q.fields = p.fields
     /\ q.clauses = Joined(Completed(P), p.clauses)
     /\ p.state = "term" => q.current = p.current

\* What the parser makes of some lexemes, or of others.
LEMMA ParseShape ==
  ASSUME NEW lex, NEW p \in ParsesOf(lex), NEW S, ClausesOf(lex) \subseteq S
  PROVE  \/ p.state = "error" /\ p = [state |-> "error"]
         \/ p.state = "start" /\ p = InitialParse
         \/ /\ p.state = "term" /\ p.clauses \in Seq(S) /\ p.current \in S /\ p.fields = AllFields
            /\ p = [state |-> "term", clauses |-> p.clauses, fields |-> p.fields, current |-> p.current]
            /\ p.current = [fields |-> p.current.fields, term |-> p.current.term, boost |-> p.current.boost,
                            editDistance |-> p.current.editDistance, usePipeline |-> p.current.usePipeline]
         \/ /\ p.state = "field" /\ p.clauses \in Seq(S)
            /\ p = [state |-> "field", clauses |-> p.clauses, fields |-> p.fields]
<1>1. \A c \in Seq(ClausesOf(lex)) : c \in Seq(S)
  BY SeqGrows
<1>2. \A c \in ClausesOf(lex) :
        c \in S /\ c = [fields |-> c.fields, term |-> c.term, boost |-> c.boost,
                        editDistance |-> c.editDistance, usePipeline |-> c.usePipeline]
  BY DEF ClausesOf
<1>3. CASE p = [state |-> "error"]
  BY <1>3
<1>4. CASE p = InitialParse
  BY <1>4 DEF InitialParse
<1>5. CASE p \in [state : {"term"}, clauses : Seq(ClausesOf(lex)), fields : {AllFields}, current : ClausesOf(lex)]
  <2>1. /\ p.state = "term" /\ p.clauses \in Seq(ClausesOf(lex)) /\ p.current \in ClausesOf(lex) /\ p.fields = AllFields
        /\ p = [state |-> "term", clauses |-> p.clauses, fields |-> p.fields, current |-> p.current]
    BY <1>5
  <2> QED
    BY <1>1, <1>2, <2>1
<1>6. CASE p \in [state : {"field"}, clauses : Seq(ClausesOf(lex)), fields : FieldsOf(lex)]
  <2>1. /\ p.state = "field" /\ p.clauses \in Seq(ClausesOf(lex))
        /\ p = [state |-> "field", clauses |-> p.clauses, fields |-> p.fields]
    BY <1>6
  <2> QED
    BY <1>1, <2>1
<1> QED
  BY <1>3, <1>4, <1>5, <1>6 DEF ParsesOf

\* The length and the elements of two sequences joined.
LEMMA JoinedProperties ==
  ASSUME NEW S, NEW s \in Seq(S), NEW t \in Seq(S)
  PROVE  /\ Joined(s, t) \in Seq(S)
         /\ Len(Joined(s, t)) = Len(s) + Len(t)
         /\ \A i \in 1 .. Len(s) + Len(t) : Joined(s, t)[i] = IF i <= Len(s) THEN s[i] ELSE t[i - Len(s)]
BY ConcatProperties DEF Joined

\* An element after two sequences joined is one after the second.
LEMMA JoinedAppend ==
  ASSUME NEW S, NEW a \in Seq(S), NEW b \in Seq(S), NEW c \in S
  PROVE  Append(Joined(a, b), c) = Joined(a, Append(b, c))
<1>1. PICK l \in Nat, m \in Nat : l = Len(a) /\ m = Len(b)
  BY LenProperties
<1> DEFINE ab == Joined(a, b)
           bc == Append(b, c)
           x == Append(ab, c)
           y == Joined(a, bc)
<1>2. /\ ab \in Seq(S) /\ Len(ab) = l + m
      /\ \A i \in 1 .. l + m : ab[i] = IF i <= l THEN a[i] ELSE b[i - l]
  BY <1>1, JoinedProperties
<1>3. bc \in Seq(S) /\ Len(bc) = m + 1 /\ bc[m + 1] = c /\ \A i \in 1 .. m : bc[i] = b[i]
  BY <1>1, AppendProperties
<1> HIDE DEF ab, bc
<1>4. x \in Seq(S) /\ Len(x) = l + m + 1 /\ x[l + m + 1] = c /\ \A i \in 1 .. l + m : x[i] = ab[i]
  BY <1>2, AppendProperties
<1>5. /\ y \in Seq(S) /\ Len(y) = l + (m + 1)
      /\ \A i \in 1 .. l + (m + 1) : y[i] = IF i <= l THEN a[i] ELSE bc[i - l]
  <2>1. bc \in Seq(S)
    BY <1>3
  <2>2. /\ y \in Seq(S) /\ Len(y) = Len(a) + Len(bc)
        /\ \A i \in 1 .. Len(a) + Len(bc) : y[i] = IF i <= Len(a) THEN a[i] ELSE bc[i - Len(a)]
    BY <2>1, JoinedProperties
  <2>3. Len(a) = l /\ Len(bc) = m + 1
    BY <1>1, <1>3
  <2> HIDE DEF y
  <2> QED
    BY <2>2, <2>3
<1> HIDE DEF x, y
<1>6. Len(x) = Len(y)
  BY <1>4, <1>5
<1>7. ASSUME NEW i \in 1 .. Len(x) PROVE x[i] = y[i]
  <2>1. i \in 1 .. l + (m + 1)
    BY <1>4
  <2>2. CASE i <= l
    <3>1. i \in 1 .. l + m
      BY <2>1, <2>2
    <3> QED
      BY <1>2, <1>4, <1>5, <2>1, <2>2, <3>1
  <2>3. CASE ~(i <= l) /\ i <= l + m
    <3>1. i \in 1 .. l + m /\ i - l \in 1 .. m
      BY <2>1, <2>3
    <3> QED
      BY <1>2, <1>3, <1>4, <1>5, <2>1, <2>3, <3>1
  <2>4. CASE i = l + m + 1
    <3>1. ~(i <= l) /\ i - l = m + 1
      BY <2>4
    <3> QED
      BY <1>3, <1>4, <1>5, <2>1, <2>4, <3>1
  <2> QED
    BY <2>1, <2>2, <2>3, <2>4
<1>8. x = y
  BY <1>4, <1>5, <1>6, <1>7, SeqEqual
<1> QED
  BY <1>8 DEF x, y, ab, bc

\* The clauses that are complete come after those of P.
LEMMA ResumedCompleted ==
  ASSUME NEW S, NEW lex, ClausesOf(lex) \subseteq S, NEW p \in ParsesOf(lex),
         NEW P, Completed(P) \in Seq(S), NEW q, Resumed(P, p, q), p.state # "error"
  PROVE  Completed(q) = Joined(Completed(P), Completed(p))
<1>1. CASE p = InitialParse /\ q = P
  <2>1. Completed(p) = <<>>
    BY <1>1 DEF InitialParse, Completed
  <2>2. Completed(P) = Joined(Completed(P), <<>>)
    BY ConcatEmptySeq DEF Joined
  <2> QED
    BY <1>1, <2>1, <2>2
<1>2. CASE p.state = "field" /\ q.state = "field" /\ q.clauses = Joined(Completed(P), p.clauses)
  BY <1>2 DEF Completed
<1>3. CASE p.state = "term" /\ q.state = "term" /\ q.clauses = Joined(Completed(P), p.clauses) /\ q.current = p.current
  <2>1. p.clauses \in Seq(S) /\ p.current \in S
    BY <1>3, ParseShape
  <2> DEFINE a == Completed(P)
             b == p.clauses
             c == p.current
  <2>2. Completed(q) = Append(Joined(a, b), c) /\ Completed(p) = Append(b, c)
    BY <1>3 DEF Completed
  <2>3. a \in Seq(S) /\ b \in Seq(S) /\ c \in S
    BY <2>1
  <2> HIDE DEF a, b, c
  <2>4. Append(Joined(a, b), c) = Joined(a, Append(b, c))
    BY <2>3, JoinedAppend
  <2> QED
    BY <2>2, <2>4 DEF a, b, c
<1> QED
  BY <1>1, <1>2, <1>3 DEF Resumed

\* One lexeme more, and the parser still goes the same way.
LEMMA ResumedKept ==
  ASSUME NEW S, NEW lex, ClausesOf(lex) \subseteq S, NEW p \in ParsesOf(lex),
         NEW other, ClausesOf(other) \subseteq S, NEW q \in ParsesOf(other),
         NEW P \in ParsesOf(other), P.state \in {"start", "term"}, Completed(P) \in Seq(S),
         Resumed(P, p, q), NEW l, l.type \in LexemeTypes
  PROVE  Resumed(P, ParseLexeme(p, l), ParseLexeme(q, l))
<1> DEFINE p1 == ParseLexeme(p, l)
           q1 == ParseLexeme(q, l)
<1>1. CASE p.state = "error"
  BY <1>1 DEF ParseLexeme, Resumed
<1>2. CASE p.state # "error"
  <2>1. Completed(q) = Joined(Completed(P), Completed(p))
    BY <1>2, ResumedCompleted
  <2>2. /\ q.state # "error" /\ q.fields = p.fields
        /\ p.state = "field" <=> q.state = "field"
        /\ p.state = "term" => q.state = "term" /\ q.current = p.current /\ q.clauses = Joined(Completed(P), p.clauses)
    <3>1. CASE p = InitialParse /\ q = P
      <4>1. P.fields = AllFields
        <5>1. InitialParse.fields = AllFields
          BY DEF InitialParse
        <5>2. P = InitialParse \/ P.state = "error" \/ P.state = "field" \/ P.fields = AllFields
          BY ParseShape
        <5> QED
          BY <5>1, <5>2
      <4> QED
        BY <3>1, <4>1 DEF InitialParse
    <3>2. CASE ~(p = InitialParse /\ q = P)
      BY <1>2, <3>2 DEF Resumed
    <3> QED
      BY <3>1, <3>2
  <2>3. CASE l.type = "TERM"
    <3>1. p1 = ParseTerm(p, l.str) /\ q1 = ParseTerm(q, l.str)
      BY <1>2, <2>2, <2>3 DEF ParseLexeme
    <3> HIDE DEF p1, q1
    <3> QED
      BY <2>1, <2>2, <3>1 DEF ParseTerm, Resumed, p1, q1
  <2>4. CASE l.type = "FIELD"
    <3>1. p1 = ParseField(p, l.str) /\ q1 = ParseField(q, l.str)
      BY <1>2, <2>2, <2>4 DEF ParseLexeme
    <3>2. CASE p.state # "field" /\ Contains(AllFields, l.str)
      <4>1. /\ p1 = [state |-> "field", clauses |-> Completed(p), fields |-> <<l.str>>]
            /\ q1 = [state |-> "field", clauses |-> Completed(q), fields |-> <<l.str>>]
        BY <2>2, <3>1, <3>2 DEF ParseField
      <4> HIDE DEF p1, q1
      <4>2. p1.state = "field" /\ q1.state = "field" /\ q1.fields = p1.fields /\ p1.clauses = Completed(p) /\ q1.clauses = Completed(q)
        BY <4>1
      <4> QED
        BY <2>1, <4>2 DEF Resumed, p1, q1
    <3>3. CASE ~(p.state # "field" /\ Contains(AllFields, l.str))
      <4>1. p1.state = "error"
        BY <3>1, <3>3 DEF ParseField
      <4> QED
        BY <4>1 DEF Resumed
    <3> QED
      BY <3>2, <3>3
  <2>5. CASE l.type = "EDIT_DISTANCE"
    <3>1. p1 = ParseEditDistance(p, l.str) /\ q1 = ParseEditDistance(q, l.str)
      BY <1>2, <2>2, <2>5 DEF ParseLexeme
    <3>2. CASE p.state = "term" /\ l.str # <<>>
      <4>1. /\ p = [state |-> "term", clauses |-> p.clauses, fields |-> p.fields, current |-> p.current]
            /\ q = [state |-> "term", clauses |-> q.clauses, fields |-> q.fields, current |-> q.current]
        BY <2>2, <3>2, ParseShape
      <4> DEFINE c == [p.current EXCEPT !.editDistance = ParseInt(l.str)]
      <4>2. /\ p1 = [p EXCEPT !.current = c]
            /\ q1 = [q EXCEPT !.current = [q.current EXCEPT !.editDistance = ParseInt(l.str)]]
        BY <2>2, <3>1, <3>2, <4>1 DEF ParseEditDistance
      <4>3. [q.current EXCEPT !.editDistance = ParseInt(l.str)] = c
        BY <2>2, <3>2
      <4> HIDE DEF p1, q1, c
      <4>4. /\ p1.state = "term" /\ p1.clauses = p.clauses /\ p1.fields = p.fields /\ p1.current = c
            /\ q1.state = "term" /\ q1.clauses = q.clauses /\ q1.fields = q.fields /\ q1.current = c
        BY <4>1, <4>2, <4>3
      <4> QED
        BY <2>2, <3>2, <4>4 DEF Resumed, p1, q1
    <3>3. CASE ~(p.state = "term" /\ l.str # <<>>)
      <4>1. p1.state = "error"
        BY <3>1, <3>3 DEF ParseEditDistance
      <4> QED
        BY <4>1 DEF Resumed
    <3> QED
      BY <3>2, <3>3
  <2>6. CASE l.type = "BOOST"
    <3>1. p1 = ParseBoost(p, l.str) /\ q1 = ParseBoost(q, l.str)
      BY <1>2, <2>2, <2>6 DEF ParseLexeme
    <3>2. CASE p.state = "term" /\ l.str # <<>>
      <4>1. /\ p = [state |-> "term", clauses |-> p.clauses, fields |-> p.fields, current |-> p.current]
            /\ q = [state |-> "term", clauses |-> q.clauses, fields |-> q.fields, current |-> q.current]
        BY <2>2, <3>2, ParseShape
      <4> DEFINE c == [p.current EXCEPT !.boost = ParseInt(l.str)]
      <4>2. /\ p1 = [p EXCEPT !.current = c]
            /\ q1 = [q EXCEPT !.current = [q.current EXCEPT !.boost = ParseInt(l.str)]]
        BY <2>2, <3>1, <3>2, <4>1 DEF ParseBoost
      <4>3. [q.current EXCEPT !.boost = ParseInt(l.str)] = c
        BY <2>2, <3>2
      <4> HIDE DEF p1, q1, c
      <4>4. /\ p1.state = "term" /\ p1.clauses = p.clauses /\ p1.fields = p.fields /\ p1.current = c
            /\ q1.state = "term" /\ q1.clauses = q.clauses /\ q1.fields = q.fields /\ q1.current = c
        BY <4>1, <4>2, <4>3
      <4> QED
        BY <2>2, <3>2, <4>4 DEF Resumed, p1, q1
    <3>3. CASE ~(p.state = "term" /\ l.str # <<>>)
      <4>1. p1.state = "error"
        BY <3>1, <3>3 DEF ParseBoost
      <4> QED
        BY <4>1 DEF Resumed
    <3> QED
      BY <3>2, <3>3
  <2> HIDE DEF p1, q1
  <2> QED
    BY <2>3, <2>4, <2>5, <2>6 DEF LexemeTypes, p1, q1
<1> QED
  BY <1>1, <1>2

-----------------------------------------------------------------------------
(* What two queries mean as one                                            *)

\* What the parser makes of the lexemes.
ParsedFrom(lex) == FoldLeft(ParseLexeme, InitialParse, lex)

\* Of some lexemes and then of others, the parser makes what it makes of the first,
\* and goes on with the others as if they were alone.
LEMMA ParsedResumes ==
  ASSUME NEW L, NEW R, Typed(L), Typed(R), Typed(Joined(L, R)),
         ParsedFrom(L).state \in {"start", "term"}, ParsedFrom(R).state # "error"
  PROVE  \E S : /\ ClausesOf(R) \subseteq S
                /\ ParsedFrom(R) \in ParsesOf(R)
                /\ Completed(ParsedFrom(L)) \in Seq(S) /\ Completed(ParsedFrom(R)) \in Seq(S)
                /\ Resumed(ParsedFrom(L), ParsedFrom(R), ParsedFrom(Joined(L, R)))
<1> DEFINE W == Joined(L, R)
           S == ClausesOf(L) \cup ClausesOf(R) \cup ClausesOf(W)
<1>1. PICK fl : Parsing(fl, L) /\ fl[Len(L)] = ParsedFrom(L) /\ \A k \in 0 .. Len(L) : fl[k] \in ParsesOf(L)
  BY ParsingRule DEF ParsedFrom
<1>2. PICK fr : Parsing(fr, R) /\ fr[Len(R)] = ParsedFrom(R) /\ \A k \in 0 .. Len(R) : fr[k] \in ParsesOf(R)
  BY ParsingRule DEF ParsedFrom
<1>3. PICK fw : Parsing(fw, W) /\ fw[Len(W)] = ParsedFrom(W) /\ \A k \in 0 .. Len(W) : fw[k] \in ParsesOf(W)
  BY ParsingRule DEF ParsedFrom
<1>4. PICK T : L \in Seq(T) /\ R \in Seq(T) /\ \A l \in T : l.type \in LexemeTypes
  <2>1. PICK A : L \in Seq(A) /\ \A l \in A : l.type \in LexemeTypes
    BY DEF Typed
  <2>2. PICK B : R \in Seq(B) /\ \A l \in B : l.type \in LexemeTypes
    BY DEF Typed
  <2>3. L \in Seq(A \cup B) /\ R \in Seq(A \cup B)
    BY <2>1, <2>2, SeqGrows
  <2> QED
    BY <2>1, <2>2, <2>3
<1>5. PICK n \in Nat, m \in Nat : n = Len(L) /\ m = Len(R)
  BY <1>4, LenProperties
<1>6. /\ Len(W) = n + m
      /\ \A k \in 1 .. n : W[k] = L[k]
      /\ \A k \in 1 .. m : W[n + k] = R[k]
  <2>1. W \in Seq(T) /\ Len(W) = n + m /\ \A k \in 1 .. n + m : W[k] = IF k <= n THEN L[k] ELSE R[k - n]
    BY <1>4, <1>5, JoinedProperties
  <2> HIDE DEF W
  <2>2. ASSUME NEW k \in 1 .. n PROVE W[k] = L[k]
    BY <2>1
  <2>3. ASSUME NEW k \in 1 .. m PROVE W[n + k] = R[k]
    <3>1. n + k \in 1 .. n + m /\ ~(n + k <= n) /\ (n + k) - n = k
      OBVIOUS
    <3> QED
      BY <2>1, <3>1
  <2> QED
    BY <2>1, <2>2, <2>3
<1>7. \A k \in 1 .. m : R[k].type \in LexemeTypes
  BY <1>4, <1>5, ElementOfSeq
<1> HIDE DEF W
<1>8. fw[n] = fl[n]
  <2> DEFINE I == [k \in 0 .. n |-> {fl[k]}]
  <2>1. fw[0] \in I[0]
    BY <1>1, <1>3 DEF Parsing
  <2>2. ASSUME NEW k \in 1 .. n, fw[k - 1] \in I[k - 1] PROVE fw[k] \in I[k]
    <3>1. fw[k] = ParseLexeme(fw[k - 1], W[k]) /\ fl[k] = ParseLexeme(fl[k - 1], L[k])
      <4>1. k \in 1 .. Len(W) /\ k \in 1 .. Len(L)
        BY <1>5, <1>6
      <4> QED
        BY <1>1, <1>3, <4>1 DEF Parsing
    <3>2. fw[k - 1] = fl[k - 1] /\ W[k] = L[k]
      BY <1>6, <2>2
    <3> QED
      BY <3>1, <3>2
  <2>3. \A k \in 0 .. n : fw[k] \in I[k]
    <3> HIDE DEF I
    <3> QED
      BY <2>1, <2>2, Stays
  <2> QED
    BY <2>3
<1> DEFINE P == fw[n]
<1>9. P = ParsedFrom(L) /\ P.state \in {"start", "term"} /\ P \in ParsesOf(W)
  <2>1. n \in 0 .. Len(W)
    BY <1>6
  <2> QED
    BY <1>1, <1>3, <1>5, <1>8, <2>1
<1>10. ClausesOf(R) \subseteq S /\ ClausesOf(W) \subseteq S
  OBVIOUS
<1> HIDE DEF P, S
<1>11. \A lex, p : ClausesOf(lex) \subseteq S /\ p \in ParsesOf(lex) /\ p.state # "error" => Completed(p) \in Seq(S)
  <2> SUFFICES ASSUME NEW lex, NEW p \in ParsesOf(lex), ClausesOf(lex) \subseteq S, p.state # "error"
               PROVE  Completed(p) \in Seq(S)
    OBVIOUS
  <2>1. CASE p = InitialParse
    BY <2>1 DEF Completed, InitialParse
  <2>2. CASE p.state = "term" /\ p.clauses \in Seq(S) /\ p.current \in S
    BY <2>2, AppendProperties DEF Completed
  <2>3. CASE p.state = "field" /\ p.clauses \in Seq(S)
    BY <2>3 DEF Completed
  <2> QED
    BY <2>1, <2>2, <2>3, ParseShape
<1>12. Completed(P) \in Seq(S)
  BY <1>9, <1>10, <1>11
<1>13. \A k \in 0 .. m : Resumed(P, fr[k], fw[n + k])
  <2> DEFINE I == [k \in 0 .. m |-> IF Resumed(P, fr[k], fw[n + k]) THEN {fr[k]} ELSE {}]
  <2>1. fr[0] \in I[0]
    <3>1. fr[0] = InitialParse /\ fw[n + 0] = P
      BY <1>2 DEF Parsing, P
    <3>2. Resumed(P, fr[0], fw[n + 0])
      BY <3>1 DEF Resumed
    <3> QED
      BY <3>2
  <2>2. ASSUME NEW k \in 1 .. m, fr[k - 1] \in I[k - 1] PROVE fr[k] \in I[k]
    <3>1. Resumed(P, fr[k - 1], fw[n + (k - 1)])
      BY <2>2
    <3>2. /\ k \in 1 .. Len(R) /\ n + k \in 1 .. Len(W) /\ n + (k - 1) = (n + k) - 1
          /\ k - 1 \in 0 .. Len(R) /\ n + (k - 1) \in 0 .. Len(W)
      BY <1>5, <1>6
    <3>3. fr[k] = ParseLexeme(fr[k - 1], R[k]) /\ fw[n + k] = ParseLexeme(fw[n + (k - 1)], R[k])
      <4>1. fw[n + k] = ParseLexeme(fw[(n + k) - 1], W[n + k]) /\ W[n + k] = R[k]
        BY <1>3, <1>6, <3>2 DEF Parsing
      <4> QED
        BY <1>2, <3>2, <4>1 DEF Parsing
    <3>4. fr[k - 1] \in ParsesOf(R) /\ fw[n + (k - 1)] \in ParsesOf(W) /\ R[k].type \in LexemeTypes
      BY <1>2, <1>3, <1>7, <3>2
    <3>5. Resumed(P, ParseLexeme(fr[k - 1], R[k]), ParseLexeme(fw[n + (k - 1)], R[k]))
      <4>1. PICK p, q, l : p = fr[k - 1] /\ q = fw[n + (k - 1)] /\ l = R[k]
        OBVIOUS
      <4> QED
        BY <1>9, <1>10, <1>12, <3>1, <3>4, <4>1, ResumedKept
    <3> QED
      BY <3>3, <3>5
  <2>3. \A k \in 0 .. m : fr[k] \in I[k]
    <3> HIDE DEF I
    <3> QED
      BY <2>1, <2>2, Stays
  <2> QED
    BY <2>3
<1>14. fr[m] = ParsedFrom(R) /\ fw[n + m] = ParsedFrom(W) /\ ParsedFrom(R) \in ParsesOf(R)
  BY <1>2, <1>3, <1>5, <1>6
<1> QED
  <2>1. Resumed(ParsedFrom(L), ParsedFrom(R), ParsedFrom(W))
    BY <1>9, <1>13, <1>14
  <2>2. Completed(ParsedFrom(R)) \in Seq(S)
    BY <1>10, <1>11, <1>14
  <2>3. Completed(ParsedFrom(L)) \in Seq(S)
    BY <1>9, <1>12
  <2> QED
    BY <1>10, <1>14, <2>1, <2>2, <2>3 DEF W

\* The clauses of a query whose lexemes are those of two are the clauses of the two.
LEMMA ParseJoined ==
  ASSUME NEW L, NEW R, Typed(L), Typed(R), Typed(Joined(L, R)),
         ParsedFrom(L).state \notin {"error", "field"}, ParsedFrom(R).state \notin {"error", "field"}
  PROVE  /\ ParsedFrom(Joined(L, R)).state \notin {"error", "field"}
         /\ Completed(ParsedFrom(Joined(L, R))) = Joined(Completed(ParsedFrom(L)), Completed(ParsedFrom(R)))
<1> DEFINE P == ParsedFrom(L)
           p == ParsedFrom(R)
           q == ParsedFrom(Joined(L, R))
<1>1. P.state \in {"start", "term"}
  <2>1. PICK f : f[Len(L)] = P /\ \A k \in 0 .. Len(L) : f[k] \in ParsesOf(L)
    BY ParsingRule DEF ParsedFrom
  <2>2. Len(L) \in 0 .. Len(L)
    BY LenProperties DEF Typed
  <2>3. P \in ParsesOf(L)
    BY <2>1, <2>2
  <2> HIDE DEF P
  <2>4. P.state = "error" \/ P.state = "start" \/ P.state = "term" \/ P.state = "field"
    BY <2>3, ParseShape
  <2> QED
    BY <2>4 DEF P
<1>2. PICK S : /\ ClausesOf(R) \subseteq S /\ p \in ParsesOf(R)
               /\ Completed(P) \in Seq(S) /\ Resumed(P, p, q)
  BY <1>1, ParsedResumes
<1>3. p.state \notin {"error", "field"}
  OBVIOUS
<1> HIDE DEF P, p, q
<1>4. Completed(q) = Joined(Completed(P), Completed(p))
  BY <1>2, <1>3, ResumedCompleted
<1>5. q.state \notin {"error", "field"}
  BY <1>1, <1>2, <1>3 DEF Resumed
<1> QED
  BY <1>4, <1>5 DEF P, p, q

\* A string with a space that is not escaped, whose two sides are queries.
LEMMA ParseSplit ==
  ASSUME NEW s \in Words, NEW i \in 1 .. Len(s), s[i] = Space, ~EscapedAt(s, i),
         Parse(SubSeq(s, 1, i - 1)).ok, Parse(SubSeq(s, i + 1, Len(s))).ok
  PROVE  Parse(s) = [ok |-> TRUE, clauses |-> Parse(SubSeq(s, 1, i - 1)).clauses
                                                \o Parse(SubSeq(s, i + 1, Len(s))).clauses]
<1> DEFINE t == SubSeq(s, 1, i - 1)
           u == SubSeq(s, i + 1, Len(s))
<1>1. t \in Words /\ u \in Words
  <2>1. PICK n \in Nat : n = Len(s)
    BY LenProperties DEF Words
  <2>2. \A k \in 1 .. n : s[k] \in Nat
    BY <2>1, ElementOfSeq DEF Words
  <2>3. \A k \in 1 .. i - 1 : s[k] \in Nat
    BY <2>1, <2>2
  <2>4. \A k \in i + 1 .. n : s[k] \in Nat
    BY <2>1, <2>2
  <2>5. t \in Seq(Nat)
    BY <2>3, SubSeqProperties
  <2>6. u \in Seq(Nat)
    BY <2>1, <2>4, SubSeqProperties
  <2> QED
    BY <2>5, <2>6 DEF Words
<1>2. Lexemes(s) = Joined(Lexemes(t), Lexemes(u))
  BY LexemesSplit
<1>3. \A x : /\ Parse(x).ok => ParsedFrom(Lexemes(x)).state \notin {"error", "field"}
             /\ ParsedFrom(Lexemes(x)).state \notin {"error", "field"} =>
                  Parse(x) = [ok |-> TRUE, clauses |-> Completed(ParsedFrom(Lexemes(x)))]
  BY DEF Parse, ParsedFrom
<1> HIDE DEF t, u
<1>4. ParsedFrom(Lexemes(t)).state \notin {"error", "field"} /\ ParsedFrom(Lexemes(u)).state \notin {"error", "field"}
  BY <1>3 DEF t, u
<1>5. Typed(Lexemes(t)) /\ Typed(Lexemes(u)) /\ Typed(Joined(Lexemes(t), Lexemes(u)))
  BY <1>1, <1>2, LexemesTyped
<1>6. /\ ParsedFrom(Lexemes(s)).state \notin {"error", "field"}
      /\ Completed(ParsedFrom(Lexemes(s))) = Joined(Completed(ParsedFrom(Lexemes(t))), Completed(ParsedFrom(Lexemes(u))))
  <2>1. PICK L, R : L = Lexemes(t) /\ R = Lexemes(u)
    OBVIOUS
  <2> QED
    BY <1>2, <1>4, <1>5, <2>1, ParseJoined
<1>7. /\ Parse(t).clauses = Completed(ParsedFrom(Lexemes(t)))
      /\ Parse(u).clauses = Completed(ParsedFrom(Lexemes(u)))
      /\ Parse(s) = [ok |-> TRUE, clauses |-> Completed(ParsedFrom(Lexemes(s)))]
  BY <1>3, <1>4, <1>6
<1>8. Parse(s) = [ok |-> TRUE, clauses |-> Joined(Parse(t).clauses, Parse(u).clauses)]
  BY <1>6, <1>7
<1> QED
  BY <1>8 DEF Joined, t, u

\* The string that is asked has characters for its elements.
AskedInv == asked \in Words

\* What is asked is a string of characters.
LEMMA AskedWords ==
  /\ InitIndex => AskedInv
  /\ AskedInv /\ [IndexNext]_indexVars => AskedInv'
<1>1. InitIndex => AskedInv
  BY DEF InitIndex, AskedInv, Words
<1>2. ASSUME AskedInv, [IndexNext]_indexVars PROVE AskedInv'
  <2>1. ASSUME NEW string \in Strings, Search(string) PROVE AskedInv'
    BY <2>1, StringsAssumption DEF Search, AskedInv, Words
  <2>2. CASE UNCHANGED asked
    BY <1>2, <2>2 DEF AskedInv
  <2>3. AddDocument \/ InsertTerm \/ Build \/ UNCHANGED indexVars => UNCHANGED asked
    BY DEF AddDocument, InsertTerm, Build, indexVars
  <2> QED
    BY <1>2, <2>1, <2>2, <2>3 DEF IndexNext
<1> QED
  BY <1>1, <1>2

(***************************************************************************)
(* Whatever is asked, a space that no backslash escapes splits it into two *)
(* queries that mean together what each means alone.  The lexer stops at   *)
(* the space whatever is before it, and takes nothing from beyond it; the  *)
(* parser keeps nothing of a clause when the next one begins.              *)
(***************************************************************************)
THEOREM QueriesComposed == IndexSpec => []QueriesCompose
<1>1. InitIndex => AskedInv
  BY AskedWords
<1>2. AskedInv /\ [IndexNext]_indexVars => AskedInv'
  BY AskedWords
<1>3. AskedInv => QueriesCompose
  <2> SUFFICES ASSUME AskedInv PROVE QueriesCompose
    OBVIOUS
  <2>1. DOMAIN asked = 1 .. Len(asked)
    BY LenProperties DEF AskedInv, Words
  <2>2. ASSUME NEW i \in DOMAIN asked, asked[i] = Space, ~EscapedAt(asked, i),
               Parse(SubSeq(asked, 1, i - 1)).ok, Parse(SubSeq(asked, i + 1, Len(asked))).ok
        PROVE  Query = [ok |-> TRUE, clauses |-> Parse(SubSeq(asked, 1, i - 1)).clauses
                                                   \o Parse(SubSeq(asked, i + 1, Len(asked))).clauses]
    <3>1. PICK s \in Words : s = asked
      BY DEF AskedInv
    <3>2. i \in 1 .. Len(s) /\ s[i] = Space /\ ~EscapedAt(s, i)
      BY <2>1, <2>2, <3>1
    <3>3. Parse(SubSeq(s, 1, i - 1)).ok /\ Parse(SubSeq(s, i + 1, Len(s))).ok
      BY <2>2, <3>1, Zenon
    <3>4. Parse(s) = [ok |-> TRUE, clauses |-> Parse(SubSeq(s, 1, i - 1)).clauses
                                                 \o Parse(SubSeq(s, i + 1, Len(s))).clauses]
      BY <3>2, <3>3, ParseSplit, Zenon
    <3> QED
      BY <3>1, <3>4, Zenon DEF Query
  <2> SUFFICES ASSUME NEW i \in {i \in DOMAIN asked : asked[i] = Space /\ ~EscapedAt(asked, i)},
                      Parse(SubSeq(asked, 1, i - 1)).ok, Parse(SubSeq(asked, i + 1, Len(asked))).ok
               PROVE  Query = [ok |-> TRUE, clauses |-> Parse(SubSeq(asked, 1, i - 1)).clauses
                                                          \o Parse(SubSeq(asked, i + 1, Len(asked))).clauses]
    BY Zenon DEF QueriesCompose
  <2>3. i \in DOMAIN asked /\ asked[i] = Space /\ ~EscapedAt(asked, i)
    OBVIOUS
  <2> QED
    BY <2>2, <2>3, Zenon
<1> QED
  BY <1>1, <1>2, <1>3, PTL DEF IndexSpec

-----------------------------------------------------------------------------
(* What Escaped writes                                                     *)

\* What Escaped writes for a character.
Unit(c) == IF c \in Special THEN <<Backslash, c>> ELSE <<c>>

\* Escaped writes the characters one after the other.
LEMMA EscapedRule ==
  ASSUME NEW w \in Words
  PROVE  \E e : /\ e[0] = <<>> /\ Escaped(w) = e[Len(w)]
                /\ \A i \in 0 .. Len(w) : e[i] \in Words
                /\ \A i \in 1 .. Len(w) : e[i] = Joined(e[i - 1], Unit(w[i]))
<1>1. PICK n \in Nat : n = Len(w) /\ w \in [1 .. n -> Nat]
  BY LenProperties DEF Words
<1>2. \A i \in 1 .. n : Unit(w[i]) \in Words
  <2> SUFFICES ASSUME NEW c \in Nat PROVE Unit(c) \in Words
    BY <1>1
  <2> QED
    BY SpecialsDiffer DEF Unit, Words, Special
<1> DEFINE units == [i \in 1 .. n |-> Unit(w[i])]
           Eq(f) == f = [i \in 1 .. n |-> IF i = 1 THEN units[i] ELSE f[i - 1] \o units[i]]
           flatten == CHOOSE f : Eq(f)
<1>3. Escaped(w) = FlattenSeq(units)
  <2>1. units = [i \in DOMAIN w |-> IF w[i] \in Special THEN <<Backslash, w[i]>> ELSE <<w[i]>>]
    BY <1>1 DEF Unit
  <2> QED
    BY <2>1 DEF Escaped
<1>4. Len(units) = n /\ units \in Seq(Words)
  <2>1. units \in [1 .. n -> Words]
    BY <1>2
  <2> QED
    BY <1>1, <2>1, IsASeq, LenProperties
<1>5. FlattenSeq(units) = IF n = 0 THEN units ELSE flatten[n]
  BY <1>4 DEF FlattenSeq
<1> DEFINE I == [k \in 0 .. n |-> Words]
           step == [k \in 1 .. n |-> [s \in Words |-> Joined(s, Unit(w[k]))]]
<1>6. PICK e : Declares(e, n, <<>>, step) /\ \A k \in 0 .. n : e[k] \in I[k]
  <2>1. <<>> \in I[0]
    BY DEF Words
  <2>2. ASSUME NEW k \in 1 .. n, NEW s \in I[k - 1] PROVE step[k][s] \in I[k]
    <3>1. s \in Words /\ I[k] = Words
      OBVIOUS
    <3>2. Joined(s, Unit(w[k])) \in Words
      BY <1>2, <3>1, JoinedProperties DEF Words
    <3> QED
      BY <3>1, <3>2
  <2> HIDE DEF I, step
  <2> QED
    BY <2>1, <2>2, Recursion
<1>7. \A k \in 0 .. n : e[k] \in Words
  BY <1>6
<1>8. e[0] = <<>> /\ \A k \in 1 .. n : e[k] = Joined(e[k - 1], Unit(w[k]))
  <2>1. e = [k \in 0 .. n |-> IF k = 0 THEN <<>> ELSE step[k][e[k - 1]]]
    BY <1>6 DEF Declares
  <2>2. e[0] = <<>>
    BY <2>1
  <2>3. ASSUME NEW k \in 1 .. n PROVE e[k] = Joined(e[k - 1], Unit(w[k]))
    <3>1. e[k - 1] \in Words
      BY <1>7
    <3>2. step[k][e[k - 1]] = Joined(e[k - 1], Unit(w[k]))
      BY <3>1
    <3>3. e[k] = step[k][e[k - 1]]
      <4> HIDE DEF step
      <4>1. k \in 0 .. n /\ k # 0
        OBVIOUS
      <4> QED
        BY <2>1, <4>1
    <3> QED
      BY <3>2, <3>3
  <2> QED
    BY <2>2, <2>3
<1> HIDE DEF step, I
<1>9. Eq([k \in 1 .. n |-> e[k]])
  <2> DEFINE g == [k \in 1 .. n |-> e[k]]
  <2>1. ASSUME NEW k \in 1 .. n PROVE e[k] = IF k = 1 THEN units[k] ELSE g[k - 1] \o units[k]
    <3>1. CASE k = 1
      <4>1. e[k] = Joined(<<>>, Unit(w[k]))
        BY <1>8, <3>1
      <4>2. Joined(<<>>, Unit(w[k])) = Unit(w[k])
        BY <1>2, ConcatEmptySeq DEF Joined, Words
      <4> QED
        BY <3>1, <4>1, <4>2
    <3>2. CASE k # 1
      <4>1. g[k - 1] = e[k - 1]
        BY <3>2
      <4> QED
        BY <1>8, <3>2, <4>1 DEF Joined
    <3> QED
      BY <3>1, <3>2
  <2> HIDE DEF units
  <2> QED
    BY <2>1
<1>10. Eq(flatten)
  BY <1>9
<1> HIDE DEF flatten
<1>11. \A k \in 0 .. n : k # 0 => flatten[k] = e[k]
  <2> DEFINE f == [k \in 0 .. n |-> IF k = 0 THEN <<>> ELSE flatten[k]]
             J == [k \in 0 .. n |-> {e[k]}]
  <2>1. f[0] \in J[0]
    BY <1>8
  <2>2. ASSUME NEW k \in 1 .. n, f[k - 1] \in J[k - 1] PROVE f[k] \in J[k]
    <3>1. flatten[k] = IF k = 1 THEN units[k] ELSE flatten[k - 1] \o units[k]
      <4> HIDE DEF units
      <4> QED
        BY <1>10
    <3>2. units[k] = Unit(w[k])
      OBVIOUS
    <3> HIDE DEF units
    <3>3. CASE k = 1
      <4>1. e[k] = Joined(<<>>, Unit(w[k]))
        BY <1>8, <3>3
      <4>2. Joined(<<>>, Unit(w[k])) = Unit(w[k])
        BY <1>2, ConcatEmptySeq DEF Joined, Words
      <4> QED
        BY <3>1, <3>2, <3>3, <4>1, <4>2
    <3>4. CASE k # 1
      <4>1. k - 1 \in 0 .. n /\ k - 1 # 0
        BY <3>4
      <4>2. flatten[k - 1] = e[k - 1]
        BY <2>2, <4>1
      <4>3. flatten[k] = e[k]
        BY <1>8, <3>1, <3>2, <3>4, <4>2 DEF Joined
      <4> QED
        BY <4>3
    <3> QED
      BY <3>3, <3>4
  <2>3. \A k \in 0 .. n : f[k] \in J[k]
    <3> HIDE DEF f, J
    <3> QED
      BY <2>1, <2>2, Stays
  <2> QED
    BY <2>3
<1>12. Escaped(w) = e[n]
  <2>1. CASE n = 0
    BY <1>3, <1>5, <1>8, <2>1
  <2>2. CASE n # 0
    BY <1>3, <1>5, <1>11, <2>2
  <2> QED
    BY <2>1, <2>2
<1> QED
  BY <1>1, <1>7, <1>8, <1>12

\* What stands where in two strings joined.
LEMMA JoinedAt ==
  ASSUME NEW s \in Words, NEW t \in Words
  PROVE  /\ Joined(s, t) \in Words
         /\ Len(Joined(s, t)) = Len(s) + Len(t)
         /\ \A k \in 1 .. Len(s) : Joined(s, t)[k] = s[k]
         /\ \A k \in 1 .. Len(t) : Joined(s, t)[Len(s) + k] = t[k]
<1> DEFINE u == Joined(s, t)
<1>1. /\ u \in Seq(Nat) /\ Len(u) = Len(s) + Len(t)
      /\ \A k \in 1 .. Len(s) + Len(t) : u[k] = IF k <= Len(s) THEN s[k] ELSE t[k - Len(s)]
  BY JoinedProperties DEF Words
<1>2. PICK l \in Nat, m \in Nat : l = Len(s) /\ m = Len(t)
  BY LenProperties DEF Words
<1> HIDE DEF u
<1>3. ASSUME NEW k \in 1 .. l PROVE u[k] = s[k]
  <2>1. k \in 1 .. l + m /\ k <= l
    OBVIOUS
  <2> QED
    BY <1>1, <1>2, <2>1
<1>4. ASSUME NEW k \in 1 .. m PROVE u[l + k] = t[k]
  <2>1. l + k \in 1 .. l + m /\ ~(l + k <= l) /\ (l + k) - l = k
    OBVIOUS
  <2> QED
    BY <1>1, <1>2, <2>1
<1>5. u \in Words
  BY <1>1 DEF Words
<1> QED
  BY <1>1, <1>2, <1>3, <1>4, <1>5 DEF u

\* From p to q a string has the character c as Escaped writes it.
Writes(str, p, q, c) ==
  /\ q <= Len(str) + 1
  /\ IF c \in Special THEN q = p + 2 /\ str[p] = Backslash /\ str[p + 1] = c
                      ELSE q = p + 1 /\ str[p] = c

\* It still has when something comes after.
LEMMA SpellsOn ==
  ASSUME NEW s \in Words, NEW t \in Words, NEW p \in Nat \ {0}, NEW q \in Nat, NEW c, Writes(s, p, q, c)
  PROVE  Writes(Joined(s, t), p, q, c)
<1>1. PICK l \in Nat, m \in Nat : l = Len(s) /\ m = Len(t)
  BY LenProperties DEF Words
<1> DEFINE u == Joined(s, t)
<1>2. Len(u) = l + m /\ \A k \in 1 .. l : u[k] = s[k]
  BY <1>1, JoinedAt
<1> HIDE DEF u
<1>3. q <= l + m + 1 /\ q <= l + 1
  BY <1>1 DEF Writes
<1>4. CASE c \in Special
  <2>1. p \in 1 .. l /\ p + 1 \in 1 .. l
    BY <1>3, <1>4 DEF Writes
  <2> QED
    BY <1>2, <1>3, <1>4, <2>1 DEF Writes, u
<1>5. CASE c \notin Special
  <2>1. p \in 1 .. l
    BY <1>3, <1>5 DEF Writes
  <2> QED
    BY <1>2, <1>3, <1>5, <2>1 DEF Writes, u
<1> QED
  BY <1>4, <1>5

\* At the end, where it was just written.
LEMMA UnitSpells ==
  ASSUME NEW s \in Words, NEW c \in Nat
  PROVE  /\ Joined(s, Unit(c)) \in Words
         /\ Writes(Joined(s, Unit(c)), Len(s) + 1, Len(Joined(s, Unit(c))) + 1, c)
<1>1. PICK l \in Nat : l = Len(s)
  BY LenProperties DEF Words
<1>2. CASE c \in Special
  <2> DEFINE t == <<Backslash, c>>
             u == Joined(s, t)
  <2>1. Unit(c) = t /\ t \in Words /\ Len(t) = 2 /\ t[1] = Backslash /\ t[2] = c
    BY <1>2, SpecialsDiffer DEF Unit, Special, Words
  <2> HIDE DEF t
  <2>2. u \in Words /\ Len(u) = l + 2 /\ \A k \in 1 .. 2 : u[l + k] = t[k]
    <3>1. t \in Words
      BY <2>1
    <3>2. u \in Words /\ Len(u) = Len(s) + Len(t) /\ \A k \in 1 .. Len(t) : u[Len(s) + k] = t[k]
      BY <3>1, JoinedAt
    <3> HIDE DEF u
    <3> QED
      BY <1>1, <2>1, <3>2
  <2> HIDE DEF u
  <2>3. u[l + 1] = t[1] /\ u[l + 1 + 1] = t[2]
    BY <2>2
  <2>4. Writes(u, l + 1, Len(u) + 1, c)
    BY <1>2, <2>1, <2>2, <2>3 DEF Writes
  <2> QED
    BY <1>1, <2>1, <2>2, <2>4 DEF u, Words
<1>3. CASE c \notin Special
  <2> DEFINE t == <<c>>
             u == Joined(s, t)
  <2>1. Unit(c) = t /\ t \in Words /\ Len(t) = 1 /\ t[1] = c
    BY <1>3 DEF Unit, Words
  <2> HIDE DEF t
  <2>2. u \in Words /\ Len(u) = l + 1 /\ \A k \in 1 .. 1 : u[l + k] = t[k]
    <3>1. t \in Words
      BY <2>1
    <3>2. u \in Words /\ Len(u) = Len(s) + Len(t) /\ \A k \in 1 .. Len(t) : u[Len(s) + k] = t[k]
      BY <3>1, JoinedAt
    <3> HIDE DEF u
    <3> QED
      BY <1>1, <2>1, <3>2
  <2> HIDE DEF u
  <2>3. u[l + 1] = t[1]
    BY <2>2
  <2>4. Writes(u, l + 1, Len(u) + 1, c)
    BY <1>3, <2>1, <2>2, <2>3 DEF Writes
  <2> QED
    BY <1>1, <2>1, <2>2, <2>4 DEF u, Words
<1> QED
  BY <1>2, <1>3

\* Where the characters of w are in Escaped(w).
Written(str, at, w, n) ==
  /\ at[0] = 1
  /\ \A i \in 0 .. n : at[i] \in Nat \ {0}
  /\ \A i \in 1 .. n : Writes(str, at[i - 1], at[i], w[i])

\* Escaped writes every character of w, and nothing else.
LEMMA EscapedSpelled ==
  ASSUME NEW w \in Words
  PROVE  \E at : /\ Written(Escaped(w), at, w, Len(w))
                 /\ Escaped(w) \in Words /\ at[Len(w)] = Len(Escaped(w)) + 1
<1>1. PICK n \in Nat : n = Len(w) /\ \A i \in 1 .. n : w[i] \in Nat
  BY LenProperties, ElementOfSeq DEF Words
<1>2. PICK e : /\ e[0] = <<>> /\ Escaped(w) = e[n]
               /\ \A i \in 0 .. n : e[i] \in Words
               /\ \A i \in 1 .. n : e[i] = Joined(e[i - 1], Unit(w[i]))
  BY <1>1, EscapedRule
<1> DEFINE at == [i \in 0 .. n |-> Len(e[i]) + 1]
           I == [i \in 0 .. n |-> {s \in Words : Written(s, at, w, i)}]
<1>3. \A i \in 0 .. n : at[i] = Len(e[i]) + 1 /\ at[i] \in Nat \ {0}
  <2>1. \A i \in 0 .. n : Len(e[i]) \in Nat
    BY <1>2, LenProperties DEF Words
  <2> QED
    BY <2>1
<1>4. at[0] = 1
  BY <1>2
<1> HIDE DEF at
<1>5. e[0] \in I[0]
  BY <1>2, <1>3, <1>4 DEF Written
<1>6. ASSUME NEW i \in 1 .. n, e[i - 1] \in I[i - 1] PROVE e[i] \in I[i]
  <2>0. i - 1 \in 0 .. n /\ i \in 0 .. n
    OBVIOUS
  <2>1. PICK s, t : s = e[i - 1] /\ t = Unit(w[i]) /\ e[i] = Joined(s, t)
    BY <1>2
  <2>2. s \in Words /\ Written(s, at, w, i - 1)
    BY <1>6, <2>0, <2>1
  <2>3. t \in Words
    BY <1>1, <2>1, SpecialsDiffer DEF Unit, Words, Special
  <2>4. e[i] \in Words
    BY <1>2, <2>0
  <2>5. ASSUME NEW j \in 1 .. i PROVE Writes(e[i], at[j - 1], at[j], w[j])
    <3>1. CASE j = i
      <4>1. Writes(Joined(s, Unit(w[i])), Len(s) + 1, Len(Joined(s, Unit(w[i]))) + 1, w[i])
        BY <1>1, <2>2, UnitSpells
      <4>2. at[i - 1] = Len(s) + 1 /\ at[i] = Len(e[i]) + 1
        BY <1>3, <2>0, <2>1
      <4> QED
        BY <2>1, <3>1, <4>1, <4>2
    <3>2. CASE j # i
      <4>1. j \in 1 .. i - 1 /\ j - 1 \in 0 .. n /\ j \in 0 .. n
        BY <3>2
      <4>2. Writes(s, at[j - 1], at[j], w[j])
        BY <2>2, <4>1 DEF Written
      <4>3. at[j - 1] \in Nat \ {0} /\ at[j] \in Nat
        BY <1>3, <4>1
      <4> QED
        BY <2>1, <2>2, <2>3, <4>2, <4>3, SpellsOn
    <3> QED
      BY <3>1, <3>2
  <2>6. \A j \in 0 .. i : at[j] \in Nat \ {0}
    BY <1>3
  <2>7. Written(e[i], at, w, i)
    BY <1>4, <2>5, <2>6 DEF Written
  <2> QED
    BY <2>0, <2>4, <2>7
<1>7. \A i \in 0 .. n : e[i] \in I[i]
  <2> HIDE DEF I
  <2> QED
    BY <1>5, <1>6, Stays
<1>8. e[n] \in Words /\ Written(e[n], at, w, n) /\ at[n] = Len(e[n]) + 1
  <2>1. n \in 0 .. n
    OBVIOUS
  <2> QED
    BY <1>3, <1>7, <2>1
<1> QED
  BY <1>1, <1>2, <1>8

\* A string is its first character and what comes after.
LEMMA TailRule ==
  ASSUME NEW w \in Words, NEW n, n = Len(w), NEW i \in 0 .. n
  PROVE  /\ i = n => Part(w, i + 1, n) = <<>>
         /\ i = 0 => Part(w, i + 1, n) = w
         /\ i < n => Part(w, i + 1, n) = Joined(<<w[i + 1]>>, Part(w, i + 1 + 1, n))
<1>1. n \in Nat /\ \A k \in 1 .. n : w[k] \in Nat
  BY LenProperties, ElementOfSeq DEF Words
<1>2. \A j \in 0 .. n : /\ Part(w, j + 1, n) \in Words /\ Len(Part(w, j + 1, n)) = n - j
                        /\ \A k \in 1 .. n - j : Part(w, j + 1, n)[k] = w[j + k]
  <2> TAKE j \in 0 .. n
  <2> DEFINE u == Part(w, j + 1, n)
  <2>1. \A k \in j + 1 .. n : w[k] \in Nat
    BY <1>1
  <2>2. /\ u \in Seq(Nat) /\ Len(u) = IF j + 1 <= n THEN n - (j + 1) + 1 ELSE 0
        /\ \A k \in 1 .. n - (j + 1) + 1 : u[k] = w[j + 1 + k - 1]
    BY <1>1, <2>1, SubSeqProperties DEF Part
  <2> HIDE DEF u
  <2>3. Len(u) = n - j
    BY <1>1, <2>2
  <2>4. ASSUME NEW k \in 1 .. n - j PROVE u[k] = w[j + k]
    <3>1. k \in 1 .. n - (j + 1) + 1 /\ j + 1 + k - 1 = j + k
      BY <1>1
    <3> QED
      BY <2>2, <3>1
  <2> QED
    BY <2>2, <2>3, <2>4 DEF u, Words
<1> DEFINE t == Part(w, i + 1, n)
<1>3. t \in Words /\ Len(t) = n - i /\ \A k \in 1 .. n - i : t[k] = w[i + k]
  BY <1>2
<1> HIDE DEF t
<1>4. ASSUME i = n PROVE t = <<>>
  <2>1. Len(t) = 0
    BY <1>1, <1>3, <1>4
  <2> QED
    BY <1>3, <2>1, EmptySeq DEF Words
<1>5. ASSUME i = 0 PROVE t = w
  <2>1. Len(t) = Len(w) /\ \A k \in 1 .. Len(t) : t[k] = w[k]
    BY <1>1, <1>3, <1>5
  <2> QED
    BY <1>3, <2>1, SeqEqual DEF Words
<1>6. ASSUME i < n PROVE t = Joined(<<w[i + 1]>>, Part(w, i + 1 + 1, n))
  <2> DEFINE one == <<w[i + 1]>>
             r == Part(w, i + 1 + 1, n)
             u == Joined(one, r)
  <2>1. one \in Words /\ Len(one) = 1 /\ one[1] = w[i + 1]
    <3>1. i + 1 \in 1 .. n
      BY <1>1, <1>6
    <3> QED
      BY <1>1, <3>1 DEF Words
  <2>2. r \in Words /\ Len(r) = n - (i + 1) /\ \A k \in 1 .. n - (i + 1) : r[k] = w[i + 1 + k]
    <3>1. i + 1 \in 0 .. n
      BY <1>1, <1>6
    <3> QED
      BY <1>2, <3>1
  <2> HIDE DEF one, r
  <2>3. /\ u \in Words /\ Len(u) = Len(one) + Len(r)
        /\ \A k \in 1 .. Len(one) : u[k] = one[k]
        /\ \A k \in 1 .. Len(r) : u[Len(one) + k] = r[k]
    BY <2>1, <2>2, JoinedAt
  <2> HIDE DEF u
  <2>4. Len(u) = Len(t)
    BY <1>1, <1>3, <2>1, <2>2, <2>3
  <2>5. ASSUME NEW k \in 1 .. Len(t) PROVE t[k] = u[k]
    <3>1. k \in 1 .. n - i
      BY <1>3
    <3>2. CASE k = 1
      <4>1. k \in 1 .. Len(one)
        BY <2>1, <3>2
      <4> QED
        BY <1>3, <2>1, <2>3, <3>1, <3>2, <4>1
    <3>3. CASE k # 1
      <4>1. k - 1 \in 1 .. n - (i + 1) /\ 1 + (k - 1) = k /\ i + 1 + (k - 1) = i + k
        BY <1>1, <3>1, <3>3
      <4>2. u[k] = r[k - 1]
        BY <2>1, <2>2, <2>3, <4>1
      <4>3. r[k - 1] = w[i + k]
        BY <2>2, <4>1
      <4> QED
        BY <1>3, <3>1, <4>2, <4>3
    <3> QED
      BY <3>2, <3>3
  <2>6. t = u
    BY <1>3, <2>3, <2>4, <2>5, SeqEqual DEF Words
  <2> QED
    BY <2>6 DEF u, one, r
<1> QED
  BY <1>4, <1>5, <1>6 DEF t

\* Escaped text that a delimiter or the end follows is read as what it stands for.
LEMMA EscapedRead ==
  ASSUME NEW w \in Words, NEW s \in Words, NEW a \in Nat, NEW E, E = Escaped(w),
         Stands(E, s, a, Len(E)), NEW next, next = a + Len(E) + 1,
         next <= Len(s) => s[next] \in Special \ {Backslash}
  PROVE  /\ next \in a + 1 .. Len(s) + 1 /\ (w # <<>> => next > a + 1)
         /\ Stop(s, a + 1) = next /\ SliceString(s, a + 1, next) = w
<1>1. PICK n \in Nat, e \in Nat, m \in Nat : n = Len(w) /\ e = Len(E) /\ m = Len(s)
  BY LenProperties DEF Stands, Words
<1>2. next = a + e + 1 /\ next \in 1 .. m + 1
  BY <1>1 DEF Stands
<1>3. PICK at : Written(E, at, w, n) /\ at[n] = e + 1
  BY <1>1, EscapedSpelled
<1>4. PICK f : Slices(f, s, next) /\ \A p \in Nat : SliceString(s, p, next) = f[p]
  BY <1>1, <1>2, SliceRule
<1>5. ASSUME NEW i \in 0 .. n - 1
      PROVE  \E p, q \in Nat \ {0} :
               /\ p = a + at[i] /\ q = a + at[i + 1] /\ q <= next /\ p < q
               /\ \/ q = p + 2 /\ s[p] = Backslash /\ s[p + 1] = w[i + 1]
                  \/ q = p + 1 /\ s[p] = w[i + 1] /\ w[i + 1] \notin Special
  <2>1. i + 1 \in 1 .. n /\ (i + 1) - 1 = i /\ i \in 0 .. n /\ i + 1 \in 0 .. n
    OBVIOUS
  <2>2. PICK x \in Nat \ {0}, y \in Nat \ {0} : x = at[i] /\ y = at[i + 1] /\ Writes(E, x, y, w[i + 1])
    BY <1>3, <2>1 DEF Written
  <2>3. y <= e + 1
    BY <1>1, <2>2 DEF Writes
  <2>0. PICK p \in Nat \ {0}, q \in Nat \ {0} : p = a + x /\ q = a + y /\ q <= next
    BY <1>2, <2>3
  <2>4. \A k \in 1 .. e : E[k] = s[a + k]
    <3>1. \A k \in 1 .. e : E[k] = s[k + a] /\ k + a = a + k
      BY <1>1 DEF Stands
    <3> QED
      BY <3>1
  <2>5. CASE w[i + 1] \in Special
    <3>1. y = x + 2 /\ E[x] = Backslash /\ E[x + 1] = w[i + 1]
      BY <2>2, <2>5 DEF Writes
    <3>2. x \in 1 .. e /\ x + 1 \in 1 .. e /\ a + (x + 1) = p + 1
      BY <2>0, <2>3, <3>1
    <3>3. s[p] = Backslash /\ s[p + 1] = w[i + 1]
      <4>1. E[x] = s[a + x] /\ E[x + 1] = s[a + (x + 1)]
        BY <2>4, <3>2
      <4>2. s[p] = E[x]
        BY <2>0, <4>1
      <4>3. s[p + 1] = E[x + 1]
        <5>1. PICK r : r = a + (x + 1) /\ r = p + 1
          BY <3>2
        <5> QED
          BY <4>1, <5>1
      <4> QED
        BY <3>1, <4>2, <4>3
    <3>4. q = p + 2 /\ p < q
      <4>1. y = x + 2
        BY <3>1
      <4> QED
        BY <2>0, <4>1
    <3> QED
      BY <2>0, <2>2, <3>3, <3>4
  <2>6. CASE w[i + 1] \notin Special
    <3>1. y = x + 1 /\ E[x] = w[i + 1]
      BY <2>2, <2>6 DEF Writes
    <3>2. x \in 1 .. e
      BY <2>3, <3>1
    <3>3. s[p] = w[i + 1]
      BY <2>0, <2>4, <3>1, <3>2
    <3>4. q = p + 1 /\ p < q
      BY <2>0, <3>1
    <3> QED
      BY <2>0, <2>2, <2>6, <3>3, <3>4
  <2> QED
    BY <2>5, <2>6
<1> DEFINE G == {i \in Nat : i <= n => Stop(s, a + at[i]) = next /\ f[a + at[i]] = Part(w, i + 1, n)}
<1>6. ASSUME NEW i \in Nat, After(n, i) \subseteq G PROVE i \in G
  <2> SUFFICES ASSUME i <= n PROVE Stop(s, a + at[i]) = next /\ f[a + at[i]] = Part(w, i + 1, n)
    OBVIOUS
  <2>1. CASE i = n
    <3>1. a + at[i] = next
      BY <1>2, <1>3, <2>1
    <3>2. Stop(s, next) = next
      <4>1. next \in Nat
        BY <1>2
      <4>2. CASE next <= Len(s)
        <5>1. s[next] \in Special /\ s[next] # Backslash /\ ~(next > Len(s))
          BY <1>1, <4>1, <4>2
        <5> QED
          BY <4>1, <5>1, StopRule
      <4>3. CASE ~(next <= Len(s))
        <5>1. next > Len(s)
          BY <1>1, <4>1, <4>3
        <5> QED
          BY <4>1, <5>1, StopRule
      <4> QED
        BY <4>2, <4>3
    <3>3. f[next] = <<>>
      <4>1. next \in Nat /\ next >= next
        BY <1>2
      <4>2. f[next] = Slice(s, next, next, f)
        BY <1>4, <4>1 DEF Slices
      <4> QED
        BY <4>1, <4>2 DEF Slice
    <3>4. Part(w, i + 1, n) = <<>>
      <4>1. i \in 0 .. n
        BY <2>1
      <4> QED
        BY <1>1, <2>1, <4>1, TailRule
    <3> QED
      BY <3>1, <3>2, <3>3, <3>4
  <2>2. CASE i # n
    <3>1. i \in 0 .. n - 1 /\ i + 1 \in After(n, i)
      BY <2>2 DEF After
    <3>2. PICK p \in Nat \ {0}, q \in Nat \ {0} :
            /\ p = a + at[i] /\ q = a + at[i + 1] /\ q <= next /\ p < q
            /\ \/ q = p + 2 /\ s[p] = Backslash /\ s[p + 1] = w[i + 1]
               \/ q = p + 1 /\ s[p] = w[i + 1] /\ w[i + 1] \notin Special
      BY <1>5, <3>1
    <3>3. Stop(s, q) = next /\ f[q] = Part(w, i + 1 + 1, n)
      BY <1>6, <2>2, <3>1, <3>2
    <3>4. Part(w, i + 1, n) = Joined(<<w[i + 1]>>, f[q])
      <4>1. i \in 0 .. n /\ i < n
        BY <2>2
      <4>2. Part(w, i + 1, n) = Joined(<<w[i + 1]>>, Part(w, i + 1 + 1, n))
        BY <1>1, <4>1, TailRule
      <4> QED
        BY <3>3, <4>2
    <3>5. p < next /\ p <= m /\ p \in Nat
      BY <1>2, <3>2
    <3>6. Stop(s, p) = IF s[p] = Backslash THEN Stop(s, p + 2)
                       ELSE IF s[p] \in Special THEN p ELSE Stop(s, p + 1)
      <4>1. ~(p > Len(s))
        BY <1>1, <3>5
      <4> QED
        BY <3>5, <4>1, StopRule
    <3>7. f[p] = IF s[p] = Backslash THEN Taken(s, p, next) \o f[p + 2] ELSE <<s[p]>> \o f[p + 1]
      <4>1. ~(p >= next)
        BY <1>2, <3>5
      <4>2. f[p] = Slice(s, next, p, f)
        BY <1>4, <3>5 DEF Slices
      <4> QED
        BY <4>1, <4>2 DEF Slice
    <3>8. CASE q = p + 2 /\ s[p] = Backslash /\ s[p + 1] = w[i + 1]
      <4>1. Taken(s, p, next) = <<w[i + 1]>>
        <5>1. p + 1 < next
          <6>1. q <= next /\ q = p + 2 /\ next \in Nat
            BY <1>2, <3>2, <3>8
          <6> QED
            BY <6>1
        <5> QED
          BY <3>8, <5>1 DEF Taken
      <4>2. Stop(s, p) = Stop(s, q) /\ f[p] = <<w[i + 1]>> \o f[q]
        BY <3>6, <3>7, <3>8, <4>1
      <4> QED
        BY <3>2, <3>3, <3>4, <4>2 DEF Joined
    <3>9. CASE q = p + 1 /\ s[p] = w[i + 1] /\ w[i + 1] \notin Special
      <4>1. s[p] # Backslash /\ s[p] \notin Special
        BY <3>9 DEF Special
      <4>2. Stop(s, p) = Stop(s, q) /\ f[p] = <<w[i + 1]>> \o f[q]
        BY <3>6, <3>7, <3>9, <4>1
      <4> QED
        BY <3>2, <3>3, <3>4, <4>2 DEF Joined
    <3> QED
      BY <3>2, <3>8, <3>9
  <2> QED
    BY <2>1, <2>2
<1>7. Nat \subseteq G
  <2> HIDE DEF G
  <2> QED
    BY <1>6, ClimbingInduction
<1>8. Stop(s, a + 1) = next /\ SliceString(s, a + 1, next) = w
  <2>1. at[0] = 1
    BY <1>3 DEF Written
  <2>2. Stop(s, a + 1) = next /\ f[a + 1] = Part(w, 0 + 1, n)
    BY <1>7, <2>1
  <2>3. Part(w, 0 + 1, n) = w
    <3>1. 0 \in 0 .. n
      OBVIOUS
    <3> QED
      BY <1>1, <3>1, TailRule
  <2> QED
    BY <1>4, <2>2, <2>3
<1>9. w # <<>> => next > a + 1
  <2> SUFFICES ASSUME w # <<>> PROVE next > a + 1
    OBVIOUS
  <2>1. n # 0
    BY <1>1, EmptySeq DEF Words
  <2>2. a + at[0] < a + at[1] /\ a + at[1] <= next /\ a + at[1] \in Nat
    BY <1>5, <2>1
  <2>3. at[0] = 1
    BY <1>3 DEF Written
  <2> QED
    BY <1>2, <2>2, <2>3
<1> QED
  BY <1>1, <1>2, <1>8, <1>9

-----------------------------------------------------------------------------
(* What Notation writes                                                    *)

\* It still stands there when something comes after.
LEMMA StandsOn ==
  ASSUME NEW t, NEW s, NEW d, NEW n, Stands(t, s, d, n), NEW u \in Words
  PROVE  Stands(t, Joined(s, u), d, n)
<1>1. PICK l \in Nat, m \in Nat : l = Len(s) /\ m = Len(u)
  BY LenProperties DEF Stands, Words
<1> DEFINE v == Joined(s, u)
<1>2. v \in Words /\ Len(v) = Len(s) + Len(u) /\ \A k \in 1 .. Len(s) : v[k] = s[k]
  <2>1. s \in Words
    BY DEF Stands
  <2> QED
    BY <2>1, JoinedAt
<1> HIDE DEF v
<1>3. t \in Words /\ d \in Nat /\ n \in Nat /\ n \in 0 .. Len(t) /\ n + d <= l
  BY <1>1, LenProperties DEF Stands, Words
<1>4. n + d <= Len(v)
  BY <1>1, <1>2, <1>3
<1>5. ASSUME NEW k \in 1 .. n PROVE t[k] = v[k + d]
  <2>1. k + d \in 1 .. l
    BY <1>3
  <2>2. t[k] = s[k + d]
    BY DEF Stands
  <2> QED
    BY <1>1, <1>2, <2>1, <2>2
<1> QED
  BY <1>2, <1>3, <1>4, <1>5 DEF Stands, v

\* At the end, where it was just joined.
LEMMA StandsEnd ==
  ASSUME NEW s \in Words, NEW t \in Words
  PROVE  Stands(t, Joined(s, t), Len(s), Len(t))
<1>1. PICK l \in Nat, m \in Nat : l = Len(s) /\ m = Len(t)
  BY LenProperties DEF Words
<1> DEFINE v == Joined(s, t)
<1>2. v \in Words /\ Len(v) = Len(s) + Len(t) /\ \A k \in 1 .. Len(t) : v[Len(s) + k] = t[k]
  BY JoinedAt
<1> HIDE DEF v
<1>3. ASSUME NEW k \in 1 .. m PROVE t[k] = v[k + l]
  <2>1. l + k = k + l
    OBVIOUS
  <2> QED
    BY <1>1, <1>2, <2>1
<1>4. m \in 0 .. m /\ m + l <= l + m
  OBVIOUS
<1> QED
  BY <1>1, <1>2, <1>3, <1>4 DEF Stands, v

\* A string starts with another one.
Starts(t, s) == t \in Words /\ s \in Words /\ Len(t) <= Len(s) /\ \A k \in 1 .. Len(t) : s[k] = t[k]

\* Two strings joined start with the first.
LEMMA JoinedStarts == ASSUME NEW s \in Words, NEW t \in Words PROVE Starts(s, Joined(s, t))
<1>1. PICK l \in Nat, m \in Nat : l = Len(s) /\ m = Len(t)
  BY LenProperties DEF Words
<1> DEFINE v == Joined(s, t)
<1>2. v \in Words /\ Len(v) = Len(s) + Len(t) /\ \A k \in 1 .. Len(s) : v[k] = s[k]
  BY JoinedAt
<1> HIDE DEF v
<1>3. Len(s) <= Len(v)
  BY <1>1, <1>2
<1> QED
  BY <1>2, <1>3 DEF Starts, v

\* What Notation writes of a number: nothing, or a delimiter and a digit.
Marked(sign, none, number) == IF number = none THEN <<>> ELSE <<sign, number>>

\* A number is at the end of s, after p characters; or none.
Marks(s, p, sign, none, number, size) ==
  \/ number = none /\ size = 0
  \/ number \in Digit /\ size = 2 /\ p + 2 <= Len(s) /\ s[p + 1] = sign /\ s[p + 2] = number

\* At the end, where it was just written.
LEMMA MarkedEnd ==
  ASSUME NEW s \in Words, NEW sign \in Special, NEW none, NEW number, number = none \/ number \in Digit
  PROVE  \E size \in {0, 2} :
           /\ Marked(sign, none, number) \in Words
           /\ Len(Joined(s, Marked(sign, none, number))) = Len(s) + size
           /\ Marks(Joined(s, Marked(sign, none, number)), Len(s), sign, none, number, size)
<1>1. PICK l \in Nat : l = Len(s)
  BY LenProperties DEF Words
<1> DEFINE t == Marked(sign, none, number)
           v == Joined(s, t)
<1>2. CASE number = none
  <2>1. t \in Words /\ Len(t) = 0
    BY <1>2 DEF Marked, Words
  <2>2. Len(v) = Len(s) + Len(t)
    BY <2>1, JoinedAt
  <2> HIDE DEF t, v
  <2>3. Len(v) = Len(s) + 0
    BY <2>1, <2>2
  <2> QED
    BY <1>2, <2>1, <2>3 DEF Marks, t, v
<1>3. CASE number # none
  <2>1. t = <<sign, number>>
    BY <1>3 DEF Marked
  <2>2. number \in Digit /\ sign \in Nat /\ number \in Nat
    BY <1>3, SpecialsDiffer DEF Digit
  <2>3. t \in Words /\ Len(t) = 2 /\ t[1] = sign /\ t[2] = number
    BY <2>1, <2>2 DEF Words
  <2> HIDE DEF t
  <2>4. Len(v) = Len(s) + Len(t) /\ \A k \in 1 .. Len(t) : v[Len(s) + k] = t[k]
    <3>1. t \in Words
      BY <2>3
    <3> QED
      BY <3>1, JoinedAt
  <2> HIDE DEF v
  <2>5. Len(v) = Len(s) + 2 /\ v[Len(s) + 1] = sign /\ v[Len(s) + 2] = number
    BY <2>3, <2>4
  <2>6. Len(s) + 2 <= Len(v)
    BY <1>1, <2>5
  <2>7. Marks(v, Len(s), sign, none, number, 2)
    BY <2>2, <2>5, <2>6 DEF Marks
  <2> QED
    BY <2>3, <2>5, <2>7 DEF t, v
<1> QED
  BY <1>2, <1>3

\* It still is when something comes after.
LEMMA MarksOn ==
  ASSUME NEW s \in Words, NEW u \in Words, NEW p \in Nat, NEW sign, NEW none, NEW number, NEW size,
         Marks(s, p, sign, none, number, size)
  PROVE  Marks(Joined(s, u), p, sign, none, number, size)
<1>1. CASE number = none /\ size = 0
  BY <1>1 DEF Marks
<1>2. CASE ~(number = none /\ size = 0)
  <2>1. number \in Digit /\ size = 2 /\ p + 2 <= Len(s) /\ s[p + 1] = sign /\ s[p + 2] = number
    BY <1>2 DEF Marks
  <2>2. Starts(s, Joined(s, u))
    BY JoinedStarts
  <2> DEFINE v == Joined(s, u)
  <2> HIDE DEF v
  <2>3. Len(s) <= Len(v) /\ Len(v) \in Nat /\ Len(s) \in Nat /\ \A k \in 1 .. Len(s) : v[k] = s[k]
    BY <2>2, LenProperties DEF Starts, Words, v
  <2>4. p + 1 \in 1 .. Len(s) /\ p + 2 \in 1 .. Len(s) /\ p + 2 <= Len(v)
    BY <2>1, <2>3
  <2>5. v[p + 1] = sign /\ v[p + 2] = number
    BY <2>1, <2>3, <2>4
  <2>6. Marks(v, p, sign, none, number, size)
    BY <2>1, <2>4, <2>5 DEF Marks
  <2> QED
    BY <2>6 DEF v
<1> QED
  BY <1>1, <1>2

\* A clause of w, as Notation writes it: its field, w escaped, distance and boost.
Laid(s, w, fields, distance, boost, a, e, x, y) ==
  /\ s \in Words /\ a \in Nat /\ x \in {0, 2} /\ y \in {0, 2}
  /\ Stands(Escaped(w), s, a, e) /\ e = Len(Escaped(w))
  /\ Len(s) = a + e + x + y
  /\ Marks(s, a + e, Tilde, None, distance, x)
  /\ Marks(s, a + e + x, Caret, 1, boost, y)
  /\ \/ fields = AllFields /\ a = 0
     \/ \E f \in Words : /\ fields = <<f>> /\ Stands(Escaped(f), s, 0, a - 1)
                         /\ a = Len(Escaped(f)) + 1 /\ s[a] = Colon

\* That is what Notation writes.
LEMMA NotationLaid ==
  ASSUME NEW c, NEW w \in Words, c.term = w,
         NEW fields, c.fields = fields, fields = AllFields \/ \E f \in Words : fields = <<f>>,
         NEW distance \in {None} \cup Digit, c.editDistance = distance,
         NEW boost \in Digit, c.boost = boost
  PROVE  \E a, e, x, y : Laid(Notation(c), w, fields, distance, boost, a, e, x, y)
<1> DEFINE E == Escaped(w)
           T == Marked(Tilde, None, distance)
           B == Marked(Caret, 1, boost)
           pre == IF fields = AllFields THEN <<>> ELSE Joined(Escaped(fields[1]), <<Colon>>)
           s2 == Joined(pre, E)
           s3 == Joined(s2, T)
           s4 == Joined(s3, B)
<1>1. Notation(c) = s4
  <2>1. Notation(c) = (((IF fields = AllFields THEN <<>> ELSE Escaped(fields[1]) \o <<Colon>>) \o E) \o T) \o B
    BY DEF Notation, Marked
  <2> QED
    BY <2>1 DEF Joined
<1>2. E \in Words
  BY EscapedSpelled
<1>3. PICK a : a \in Nat /\ a = Len(pre)
               /\ pre \in Words
               /\ \/ fields = AllFields /\ a = 0
                  \/ \E f \in Words : /\ fields = <<f>> /\ Stands(Escaped(f), pre, 0, a - 1)
                                      /\ a = Len(Escaped(f)) + 1 /\ pre[a] = Colon
  <2>1. CASE fields = AllFields
    <3>1. pre = <<>>
      BY <2>1
    <3>2. <<>> \in Words /\ Len(<<>>) = 0
      BY DEF Words
    <3> HIDE DEF pre
    <3> QED
      BY <2>1, <3>1, <3>2
  <2>2. CASE fields # AllFields
    <3>1. PICK f \in Words : fields = <<f>>
      BY <2>2
    <3> DEFINE F == Escaped(f)
               colon == <<Colon>>
    <3>2. pre = Joined(F, colon) /\ F \in Words /\ colon \in Words /\ Len(colon) = 1 /\ colon[1] = Colon
      <4>1. pre = Joined(Escaped(fields[1]), <<Colon>>) /\ fields[1] = f
        BY <2>2, <3>1
      <4>2. F \in Words
        BY EscapedSpelled
      <4>3. Colon \in Nat
        BY SpecialsDiffer DEF Special
      <4> QED
        BY <4>1, <4>2, <4>3 DEF Words
    <3> HIDE DEF F, colon, pre
    <3>3. PICK l \in Nat : l = Len(F)
      BY <3>2, LenProperties DEF Words
    <3>4. /\ Joined(F, colon) \in Words /\ Len(Joined(F, colon)) = Len(F) + Len(colon)
          /\ \A k \in 1 .. Len(F) : Joined(F, colon)[k] = F[k]
          /\ \A k \in 1 .. Len(colon) : Joined(F, colon)[Len(F) + k] = colon[k]
      BY <3>2, JoinedAt
    <3>5. pre \in Words /\ Len(pre) = l + 1 /\ pre[l + 1] = Colon /\ \A k \in 1 .. l : pre[k] = F[k]
      BY <3>2, <3>3, <3>4
    <3>6. Stands(F, pre, 0, l)
      <4>1. \A k \in 1 .. l : F[k] = pre[k + 0]
        BY <3>5
      <4>2. l \in 0 .. Len(F) /\ l + 0 <= Len(pre)
        BY <3>3, <3>5
      <4> QED
        BY <3>2, <3>5, <4>1, <4>2 DEF Stands
    <3>7. (l + 1) - 1 = l /\ l + 1 \in Nat
      OBVIOUS
    <3> QED
      BY <3>1, <3>3, <3>5, <3>6, <3>7 DEF F
  <2> QED
    BY <2>1, <2>2
<1> HIDE DEF pre, E
<1>4. PICK e \in Nat : e = Len(E)
  BY <1>2, LenProperties DEF Words
<1>5. s2 \in Words /\ Len(s2) = a + e /\ Stands(E, s2, a, e) /\ Starts(pre, s2)
  <2>1. s2 \in Words /\ Len(s2) = Len(pre) + Len(E)
    BY <1>2, <1>3, JoinedAt
  <2>2. Stands(E, s2, Len(pre), Len(E)) /\ Starts(pre, s2)
    BY <1>2, <1>3, StandsEnd, JoinedStarts
  <2> QED
    BY <1>3, <1>4, <2>1, <2>2
<1> HIDE DEF s2
<1>6. PICK x \in {0, 2} : T \in Words /\ Len(s3) = Len(s2) + x /\ Marks(s3, Len(s2), Tilde, None, distance, x)
  <2>1. Tilde \in Special
    BY DEF Special
  <2> QED
    BY <1>5, <2>1, MarkedEnd
<1>7. s3 \in Words
  BY <1>5, <1>6, JoinedAt
<1>8. PICK y \in {0, 2} : B \in Words /\ Len(s4) = Len(s3) + y /\ Marks(s4, Len(s3), Caret, 1, boost, y)
  <2>1. Caret \in Special
    BY DEF Special
  <2> HIDE DEF s3
  <2> QED
    BY <1>7, <2>1, MarkedEnd
<1>9. s4 \in Words
  BY <1>7, <1>8, JoinedAt
<1>10. Marks(s4, Len(s2), Tilde, None, distance, x)
  <2>1. Len(s2) \in Nat
    BY <1>3, <1>4, <1>5
  <2> HIDE DEF T, B
  <2> QED
    BY <1>6, <1>7, <1>8, <2>1, MarksOn
<1>11. Stands(E, s4, a, e)
  <2>1. Stands(E, s3, a, e)
    BY <1>5, <1>6, StandsOn
  <2> HIDE DEF s3
  <2> QED
    BY <1>8, <2>1, StandsOn
<1>12. \A k \in 1 .. a : s4[k] = pre[k]
  <2>1. \A k \in 1 .. Len(pre) : s2[k] = pre[k]
    BY <1>5 DEF Starts
  <2>2. Starts(s2, s3) /\ Starts(s3, s4)
    BY <1>5, <1>6, <1>7, <1>8, JoinedStarts
  <2> HIDE DEF s3, s4
  <2>3. ASSUME NEW k \in 1 .. a PROVE s4[k] = pre[k]
    <3>1. k \in 1 .. Len(s2) /\ k \in 1 .. Len(s3) /\ k \in 1 .. Len(pre)
      BY <1>3, <1>4, <1>5, <1>6
    <3> QED
      BY <2>1, <2>2, <3>1 DEF Starts
  <2> QED
    BY <2>3
<1> HIDE DEF s3, s4
<1>13. Len(s2) = a + e /\ Len(s3) = a + e + x /\ Len(s4) = a + e + x + y
  BY <1>5, <1>6, <1>8
<1>14. \/ fields = AllFields /\ a = 0
       \/ \E f \in Words : /\ fields = <<f>> /\ Stands(Escaped(f), s4, 0, a - 1)
                           /\ a = Len(Escaped(f)) + 1 /\ s4[a] = Colon
  <2>1. CASE \E f \in Words : /\ fields = <<f>> /\ Stands(Escaped(f), pre, 0, a - 1)
                              /\ a = Len(Escaped(f)) + 1 /\ pre[a] = Colon
    <3>1. PICK f \in Words : /\ fields = <<f>> /\ Stands(Escaped(f), pre, 0, a - 1)
                             /\ a = Len(Escaped(f)) + 1 /\ pre[a] = Colon
      BY <2>1
    <3>2. PICK l \in Nat : l = Len(Escaped(f)) /\ a = l + 1 /\ a - 1 = l
      <4>1. Escaped(f) \in Words
        BY EscapedSpelled
      <4>2. PICK l \in Nat : l = Len(Escaped(f))
        BY <4>1, LenProperties DEF Words
      <4>3. a = l + 1
        BY <3>1, <4>2
      <4> QED
        BY <4>2, <4>3
    <3>3. s4[a] = Colon
      <4>1. a \in 1 .. a
        BY <3>2
      <4> QED
        BY <1>12, <3>1, <4>1
    <3>4. Stands(Escaped(f), s4, 0, l)
      <4>1. Stands(Escaped(f), pre, 0, l)
        BY <3>1, <3>2
      <4>2. ASSUME NEW k \in 1 .. l PROVE Escaped(f)[k] = s4[k + 0]
        <5>1. k \in 1 .. a /\ k + 0 = k
          BY <3>2
        <5>2. Escaped(f)[k] = pre[k + 0]
          BY <4>1 DEF Stands
        <5> QED
          BY <1>12, <5>1, <5>2
      <4>3. l + 0 <= Len(s4)
        BY <1>3, <1>4, <1>13, <3>2
      <4> QED
        BY <1>9, <4>1, <4>2, <4>3 DEF Stands
    <3> QED
      BY <3>1, <3>2, <3>3, <3>4
  <2> QED
    BY <1>3, <2>1
<1>15. Laid(s4, w, fields, distance, boost, a, e, x, y)
  BY <1>3, <1>4, <1>8, <1>9, <1>10, <1>11, <1>13, <1>14 DEF Laid, E
<1> QED
  BY <1>1, <1>15

-----------------------------------------------------------------------------
(* What the lexer reads of a notation                                      *)

\* Nothing before or after a sequence.
LEMMA JoinedEmpty ==
  ASSUME NEW S, NEW s \in Seq(S)
  PROVE  Joined(s, <<>>) = s /\ Joined(<<>>, s) = s
BY ConcatEmptySeq DEF Joined

\* The text up to where lexText stops.
LEMMA TextRead ==
  ASSUME NEW s \in Words, NEW p \in Nat, NEW q, Stop(s, p) = q, q \in Nat, q <= Len(s) + 1
  PROVE  Text(s, p) = SliceString(s, p, q)
<1>1. PICK m \in Nat : m = Len(s)
  BY LenProperties DEF Words
<1>2. {q, m + 1} \in SUBSET Nat /\ q \in {q, m + 1} /\ \A x \in {q, m + 1} : q <= x
  BY <1>1
<1>3. Min({q, m + 1}) = q
  BY <1>2, MinIs
<1> QED
  BY <1>1, <1>3 DEF Text

\* One digit after a delimiter, and what comes next is none.
LEMMA NumberRead ==
  ASSUME NEW s \in Words, NEW p \in Nat, NEW k \in Nat, Stop(s, p) = k,
         NEW n \in Digit, k + 2 <= Len(s) + 1, s[k + 1] = n, k + 2 <= Len(s) => s[k + 2] \notin Digit
  PROVE  Past(s, p) = k + 2 /\ \A type : Number(s, p, type) = <<Lexeme(type, <<n>>)>>
<1>1. PICK m \in Nat : m = Len(s)
  BY LenProperties DEF Words
<1>2. DigitsTo(s, k + 1, k + 2)
  <2>1. k + 2 \in k + 1 .. Len(s) + 1
    BY <1>1
  <2>2. \A j \in k + 1 .. (k + 2) - 1 : j = k + 1
    OBVIOUS
  <2> HIDE DEF Digit
  <2> QED
    BY <2>1, <2>2 DEF DigitsTo
<1>3. Past(s, p) = k + 2
  <2>1. k + 1 \in Nat
    OBVIOUS
  <2>2. DigitsEnd(s, k + 1) = k + 2
    BY <1>2, <2>1, DigitsEndIs
  <2> QED
    BY <2>2 DEF Past
<1>4. SubSeq(s, k + 1, (k + 2) - 1) = <<n>>
  <2>1. (k + 2) - 1 = k + 1 /\ k + 1 <= Len(s)
    BY <1>1
  <2>2. SubSeq(s, k + 1, k + 1) = <<s[k + 1]>>
    BY <2>1, SubSeqOne
  <2> QED
    BY <2>1, <2>2
<1>5. ASSUME NEW type PROVE Number(s, p, type) = <<Lexeme(type, <<n>>)>>
  <2>1. Number(s, p, type) = <<Lexeme(type, SubSeq(s, k + 1, (k + 2) - 1))>>
    BY <1>3 DEF Number
  <2> QED
    BY <1>4, <2>1
<1> QED
  BY <1>3, <1>5

\* The lexemes of a clause.
FieldLexeme(a, fields) == IF a = 0 THEN <<>> ELSE <<Lexeme("FIELD", fields[1])>>
TermLexeme(w) == <<Lexeme("TERM", w)>>
NumberLexeme(type, size, number) == IF size = 0 THEN <<>> ELSE <<Lexeme(type, <<number>>)>>

\* The lexer at the boost of a clause, or at its end.
LEMMA BoostRead ==
  ASSUME NEW s \in Words, NEW f, Lexers(f, s), NEW p \in Nat, NEW boost, NEW y,
         Len(s) = p + y, Marks(s, p, Caret, 1, boost, y)
  PROVE  f[p + 1] = NumberLexeme("BOOST", y, boost)
<1>1. \A q \in Nat : f[q] = Lexed(s, q, f)
  BY DEF Lexers
<1>2. ASSUME NEW q \in Nat, q = Len(s) + 1 PROVE f[q] = <<>>
  <2>1. Stop(s, q) = q /\ q > Len(s)
    <3>1. Len(s) \in Nat
      BY LenProperties DEF Words
    <3>2. q > Len(s)
      BY <1>2, <3>1
    <3> QED
      BY <3>2, StopRule
  <2>2. Lexed(s, q, f) = Term(s, q)
    BY <2>1, LexedCases
  <2>3. Term(s, q) = <<>>
    BY <2>1 DEF Term
  <2> QED
    BY <1>1, <2>2, <2>3
<1>3. CASE y = 0
  <2>1. p + 1 = Len(s) + 1 /\ p + 1 \in Nat
    BY <1>3
  <2> QED
    BY <1>2, <1>3, <2>1 DEF NumberLexeme
<1>4. CASE y # 0
  <2>1. y = 2 /\ boost \in Digit /\ s[p + 1] = Caret /\ s[p + 2] = boost
    BY <1>4 DEF Marks
  <2>2. PICK r \in Nat : r = p + 1 /\ r + 1 = p + 2 /\ r + 1 = Len(s) /\ r + 2 = Len(s) + 1 /\ r <= Len(s)
                         /\ s[r] = Caret /\ s[r + 1] = boost
    BY <2>1
  <2>3. Stop(s, r) = r
    <3>1. s[r] \in Special /\ s[r] # Backslash /\ ~(r > Len(s))
      <4>1. ~(r > Len(s))
        BY <2>2
      <4> QED
        BY <2>2, <4>1, SpecialsDiffer DEF Special
    <3> QED
      BY <3>1, StopRule
  <2>4. Past(s, r) = r + 2 /\ Number(s, r, "BOOST") = <<Lexeme("BOOST", <<boost>>)>>
    <3>1. r + 2 <= Len(s) + 1 /\ ~(r + 2 <= Len(s))
      BY <2>2
    <3> QED
      BY <2>1, <2>2, <2>3, <3>1, NumberRead
  <2>5. Term(s, r) = <<>>
    BY <2>3 DEF Term
  <2>6. f[r + 2] = <<>>
    <3>1. r + 2 \in Nat
      OBVIOUS
    <3> QED
      BY <1>2, <2>2, <3>1
  <2>7. Lexed(s, r, f) = (Term(s, r) \o Number(s, r, "BOOST")) \o f[Past(s, r)]
    BY <2>2, <2>3, LexedCases, SpecialsDiffer
  <2> DEFINE l == Lexeme("BOOST", <<boost>>)
             t == <<l>>
  <2>8. f[r] = Joined(Joined(<<>>, t), <<>>)
    BY <1>1, <2>4, <2>5, <2>6, <2>7, Zenon DEF Joined
  <2>9. t \in Seq({l})
    <3> HIDE DEF l
    <3> QED
      OBVIOUS
  <2> HIDE DEF t
  <2>10. Joined(Joined(<<>>, t), <<>>) = t
    <3>1. Joined(<<>>, t) = t
      BY <2>9, JoinedEmpty
    <3>2. Joined(t, <<>>) = t
      BY <2>9, JoinedEmpty
    <3> QED
      BY <3>1, <3>2
  <2> QED
    BY <1>4, <2>2, <2>8, <2>10 DEF NumberLexeme, t
<1> QED
  BY <1>3, <1>4

\* The lexer at the term of a clause.
LEMMA TermRead ==
  ASSUME NEW s, NEW w \in Words, w # <<>>, NEW fields, NEW distance, NEW boost, NEW a, NEW e, NEW x, NEW y,
         Laid(s, w, fields, distance, boost, a, e, x, y), NEW f, Lexers(f, s)
  PROVE  f[a + 1] = Joined(Joined(TermLexeme(w), NumberLexeme("EDIT_DISTANCE", x, distance)),
                           NumberLexeme("BOOST", y, boost))
<1> DEFINE T == TermLexeme(w)
           X == NumberLexeme("EDIT_DISTANCE", x, distance)
           Y == NumberLexeme("BOOST", y, boost)
<1>1. PICK m \in Nat, p \in Nat, q \in Nat :
        m = Len(s) /\ p = a + 1 /\ q = a + e + 1 /\ a \in Nat /\ e \in Nat /\ x \in {0, 2} /\ y \in {0, 2}
        /\ m = a + e + x + y /\ s \in Words
  <2>1. Escaped(w) \in Words
    BY EscapedSpelled
  <2>2. e \in Nat
    BY <2>1, LenProperties DEF Laid, Words
  <2>3. Len(s) \in Nat
    BY LenProperties DEF Laid, Words
  <2>4. a \in Nat /\ x \in {0, 2} /\ y \in {0, 2} /\ Len(s) = a + e + x + y /\ s \in Words
    BY DEF Laid
  <2>5. a + 1 \in Nat /\ a + e + 1 \in Nat
    BY <2>2, <2>4
  <2> QED
    BY <2>2, <2>3, <2>4, <2>5
<1>2. x = 2 => distance \in Digit /\ q + 1 <= m /\ s[q] = Tilde /\ s[q + 1] = distance
  <2> SUFFICES ASSUME x = 2 PROVE distance \in Digit /\ q + 1 <= m /\ s[q] = Tilde /\ s[q + 1] = distance
    OBVIOUS
  <2>1. distance \in Digit /\ s[a + e + 1] = Tilde /\ s[a + e + 2] = distance
    BY DEF Laid, Marks
  <2>2. a + e + 2 = q + 1 /\ q + 1 <= m
    BY <1>1
  <2> QED
    BY <1>1, <2>1, <2>2
<1>3. y = 2 => /\ boost \in Digit /\ s[q + x] = Caret /\ s[q + x + 1] = boost
               /\ q + x + 1 = m
  <2> SUFFICES ASSUME y = 2 PROVE boost \in Digit /\ s[q + x] = Caret /\ s[q + x + 1] = boost /\ q + x + 1 = m
    OBVIOUS
  <2>1. boost \in Digit /\ s[a + e + x + 1] = Caret /\ s[a + e + x + 2] = boost
    BY DEF Laid, Marks
  <2>2. a + e + x + 1 = q + x /\ a + e + x + 2 = q + x + 1 /\ q + x + 1 = m
    BY <1>1
  <2> QED
    BY <2>1, <2>2
<1>4. x = 0 /\ y = 0 => q = m + 1
  BY <1>1
<1>5. q <= m => s[q] = Tilde \/ s[q] = Caret
  <2>1. x = 0 /\ y = 2 => s[q] = Caret
    <3>1. x = 0 => q + x = q
      BY <1>1
    <3> QED
      BY <1>3, <3>1
  <2>2. q <= m => x = 2 \/ y = 2
    BY <1>1, <1>4
  <2> QED
    BY <1>1, <1>2, <2>1, <2>2
<1>6. Stop(s, p) = q /\ SliceString(s, p, q) = w /\ q > p /\ q <= m + 1
  <2>1. Stands(Escaped(w), s, a, Len(Escaped(w))) /\ q = a + Len(Escaped(w)) + 1
    BY <1>1 DEF Laid
  <2>2. q <= Len(s) => s[q] \in Special \ {Backslash}
    BY <1>1, <1>5, SpecialsDiffer DEF Special
  <2>3. /\ q \in a + 1 .. Len(s) + 1 /\ (w # <<>> => q > a + 1)
        /\ Stop(s, a + 1) = q /\ SliceString(s, a + 1, q) = w
    <3>1. a \in Nat /\ s \in Words
      BY <1>1
    <3> QED
      BY <2>1, <2>2, <3>1, EscapedRead
  <2> QED
    BY <1>1, <2>3
<1>7. Term(s, p) = T
  <2>1. Text(s, p) = w
    BY <1>1, <1>6, TextRead
  <2> QED
    BY <1>6, <2>1 DEF Term, TermLexeme
<1>8. f[p] = Lexed(s, p, f)
  BY DEF Lexers
<1>9. f[q + x] = Y
  <2>1. Len(s) = (a + e + x) + y /\ a + e + x \in Nat /\ (a + e + x) + 1 = q + x
    BY <1>1
  <2>2. Marks(s, a + e + x, Caret, 1, boost, y)
    BY DEF Laid
  <2>3. f[(a + e + x) + 1] = NumberLexeme("BOOST", y, boost)
    BY <1>1, <2>1, <2>2, BoostRead
  <2> QED
    BY <2>1, <2>3
<1>10. T \in Seq({Lexeme("TERM", w)})
  BY DEF TermLexeme
<1>11. CASE x = 2
  <2>1. Past(s, p) = q + 2 /\ Number(s, p, "EDIT_DISTANCE") = <<Lexeme("EDIT_DISTANCE", <<distance>>)>>
    <3>1. q + 2 <= Len(s) + 1
      BY <1>1, <1>2, <1>11
    <3>2. q + 2 <= Len(s) => s[q + 2] \notin Digit
      <4>1. q + 2 <= m => y = 2
        BY <1>1, <1>11
      <4>2. Caret \notin Digit
        BY SpecialsDiffer DEF Special
      <4>3. y = 2 => s[q + 2] = Caret
        BY <1>3, <1>11
      <4> QED
        BY <1>1, <4>1, <4>2, <4>3
    <3>3. s \in Words /\ p \in Nat /\ q \in Nat /\ Stop(s, p) = q
      BY <1>1, <1>6
    <3>4. distance \in Digit /\ s[q + 1] = distance
      BY <1>2, <1>11
    <3> QED
      BY <3>1, <3>2, <3>3, <3>4, NumberRead
  <2>2. Lexed(s, p, f) = (Term(s, p) \o Number(s, p, "EDIT_DISTANCE")) \o f[Past(s, p)]
    <3>1. Stop(s, p) <= Len(s) /\ s[Stop(s, p)] = Tilde
      BY <1>1, <1>2, <1>6, <1>11
    <3> QED
      BY <1>1, <3>1, LexedCases, SpecialsDiffer
  <2>3. Number(s, p, "EDIT_DISTANCE") = X
    BY <1>11, <2>1 DEF NumberLexeme
  <2>4. f[Past(s, p)] = Y
    BY <1>9, <1>11, <2>1
  <2> HIDE DEF T, X, Y
  <2>5. f[p] = Joined(Joined(T, X), Y)
    BY <1>7, <1>8, <2>2, <2>3, <2>4, Zenon DEF Joined
  <2> QED
    BY <1>1, <2>5 DEF T, X, Y
<1>12. CASE x = 0 /\ y = 2
  <2>0. q + x = q /\ X = <<>>
    BY <1>1, <1>12 DEF NumberLexeme
  <2>1. Past(s, p) = q + 2 /\ Number(s, p, "BOOST") = <<Lexeme("BOOST", <<boost>>)>>
    <3>1. q + 1 = m /\ q + 2 <= Len(s) + 1 /\ ~(q + 2 <= Len(s))
      BY <1>1, <1>3, <1>12
    <3>2. s[q + 1] = boost /\ boost \in Digit
      BY <1>3, <1>12, <2>0
    <3>3. s \in Words /\ p \in Nat /\ q \in Nat /\ Stop(s, p) = q /\ (q + 2 <= Len(s) => s[q + 2] \notin Digit)
      BY <1>1, <1>6, <3>1
    <3>4. q + 2 <= Len(s) + 1
      BY <3>1
    <3> QED
      BY <3>2, <3>3, <3>4, NumberRead
  <2>2. Lexed(s, p, f) = (Term(s, p) \o Number(s, p, "BOOST")) \o f[Past(s, p)]
    <3>1. q <= m /\ s[q] = Caret
      BY <1>1, <1>3, <1>12, <2>0
    <3>2. Stop(s, p) <= Len(s) /\ s[Stop(s, p)] = Caret
      BY <1>1, <1>6, <3>1
    <3> QED
      BY <1>1, <3>2, LexedCases, SpecialsDiffer
  <2>3. Number(s, p, "BOOST") = Y
    BY <1>12, <2>1 DEF NumberLexeme
  <2>4. f[Past(s, p)] = <<>>
    <3>1. PICK r \in Nat : r = m /\ q + 2 = r + 1 /\ Len(s) = r + 0
      BY <1>1, <1>3, <1>12
    <3>2. Marks(s, r, Caret, 1, 1, 0)
      BY DEF Marks
    <3>3. f[r + 1] = NumberLexeme("BOOST", 0, 1)
      BY <1>1, <3>1, <3>2, BoostRead
    <3> QED
      BY <2>1, <3>1, <3>3 DEF NumberLexeme
  <2>5. Y \in Seq({Lexeme("BOOST", <<boost>>)})
    BY <1>12 DEF NumberLexeme
  <2> HIDE DEF T, X, Y
  <2>6. f[p] = Joined(Joined(T, Y), <<>>)
    BY <1>7, <1>8, <2>2, <2>3, <2>4, Zenon DEF Joined
  <2>7. Joined(Joined(T, Y), <<>>) = Joined(T, Y) /\ Joined(T, X) = T
    <3> DEFINE S == {Lexeme("TERM", w), Lexeme("BOOST", <<boost>>)}
    <3>1. T \in Seq(S) /\ Y \in Seq(S)
      BY <1>10, <2>5, SeqGrows
    <3> HIDE DEF S
    <3>2. Joined(T, Y) \in Seq(S)
      BY <3>1, JoinedProperties
    <3>3. Joined(T, <<>>) = T
      BY <3>1, JoinedEmpty
    <3> QED
      BY <2>0, <3>2, <3>3, JoinedEmpty
  <2>8. f[p] = Joined(Joined(T, X), Y)
    BY <2>6, <2>7
  <2> QED
    BY <1>1, <2>8 DEF T, X, Y
<1>13. CASE x = 0 /\ y = 0
  <2>1. Lexed(s, p, f) = Term(s, p)
    <3>1. Stop(s, p) > Len(s)
      BY <1>1, <1>4, <1>6, <1>13
    <3> QED
      BY <1>1, <3>1, LexedCases
  <2>2. X = <<>> /\ Y = <<>>
    BY <1>13 DEF NumberLexeme
  <2> HIDE DEF T, X, Y
  <2>3. Joined(T, <<>>) = T
    BY <1>10, JoinedEmpty
  <2>4. f[p] = Joined(Joined(T, X), Y)
    BY <1>7, <1>8, <2>1, <2>2, <2>3
  <2> QED
    BY <1>1, <2>4 DEF T, X, Y
<1> QED
  BY <1>1, <1>11, <1>12, <1>13

\* And from the start of the clause.
LEMMA ClauseRead ==
  ASSUME NEW s, NEW w \in Words, w # <<>>, NEW fields, NEW distance, NEW boost, NEW a, NEW e, NEW x, NEW y,
         Laid(s, w, fields, distance, boost, a, e, x, y)
  PROVE  Lexemes(s) = Joined(FieldLexeme(a, fields),
                             Joined(Joined(TermLexeme(w), NumberLexeme("EDIT_DISTANCE", x, distance)),
                                    NumberLexeme("BOOST", y, boost)))
<1> DEFINE C == Joined(Joined(TermLexeme(w), NumberLexeme("EDIT_DISTANCE", x, distance)),
                       NumberLexeme("BOOST", y, boost))
<1>0. s \in Words /\ a \in Nat
  BY DEF Laid
<1>1. PICK f : Lexers(f, s) /\ Lexemes(s) = f[1]
  BY <1>0, LexerRule
<1>2. f[a + 1] = C
  BY <1>1, TermRead
<1> HIDE DEF C
<1>3. CASE a = 0
  <2>1. f[1] = C /\ FieldLexeme(a, fields) = <<>>
    BY <1>2, <1>3 DEF FieldLexeme
  <2>2. f[1] \in Seq(LexemesOf(s))
    BY <1>1 DEF Lexers
  <2>3. Joined(<<>>, f[1]) = f[1]
    BY <2>2, JoinedEmpty
  <2> QED
    BY <1>1, <2>1, <2>3 DEF C
<1>4. CASE a # 0
  <2>1. PICK g \in Words : /\ fields = <<g>> /\ Stands(Escaped(g), s, 0, a - 1)
                           /\ a = Len(Escaped(g)) + 1 /\ s[a] = Colon
    BY <1>4 DEF Laid
  <2>2. PICK l \in Nat : l = Len(Escaped(g)) /\ a = l + 1 /\ a - 1 = l
    <3>1. Escaped(g) \in Words
      BY EscapedSpelled
    <3>2. PICK l \in Nat : l = Len(Escaped(g))
      BY <3>1, LenProperties DEF Words
    <3>3. a = l + 1
      BY <2>1, <3>2
    <3> QED
      BY <3>2, <3>3
  <2>3. /\ a \in 0 + 1 .. Len(s) + 1 /\ Stop(s, 0 + 1) = a /\ SliceString(s, 0 + 1, a) = g
    <3>1. Stands(Escaped(g), s, 0, Len(Escaped(g))) /\ a = 0 + Len(Escaped(g)) + 1
      BY <2>1, <2>2
    <3>2. a <= Len(s) => s[a] \in Special \ {Backslash}
      BY <2>1, SpecialsDiffer DEF Special
    <3>3. 0 \in Nat
      OBVIOUS
    <3> QED
      BY <1>0, <3>1, <3>2, <3>3, EscapedRead
  <2>4. a <= Len(s)
    <3>1. Stands(Escaped(w), s, a, e) /\ e = Len(Escaped(w))
      BY DEF Laid
    <3>2. e \in Nat
      <4>1. Escaped(w) \in Words
        BY EscapedSpelled
      <4> QED
        BY <3>1, <4>1, LenProperties DEF Words
    <3>3. e + a <= Len(s) /\ Len(s) \in Nat
      BY <1>0, <3>1, LenProperties DEF Stands, Words
    <3> QED
      BY <1>0, <3>2, <3>3
  <2>5. Stop(s, 1) = a /\ Text(s, 1) = g
    <3>1. Stop(s, 1) = a /\ SliceString(s, 1, a) = g /\ a <= Len(s) + 1
      BY <1>0, <2>3
    <3> QED
      BY <1>0, <3>1, TextRead
  <2>6. Lexed(s, 1, f) = <<Lexeme("FIELD", Text(s, 1))>> \o f[Stop(s, 1) + 1]
    <3>1. Stop(s, 1) <= Len(s) /\ s[Stop(s, 1)] = Colon
      BY <2>1, <2>4, <2>5
    <3> QED
      BY <1>0, <3>1, LexedCases, SpecialsDiffer
  <2>7. f[1] = Lexed(s, 1, f)
    BY <1>1 DEF Lexers
  <2>8. f[1] = Joined(<<Lexeme("FIELD", g)>>, C)
    BY <1>2, <2>5, <2>6, <2>7, Zenon DEF Joined
  <2>9. FieldLexeme(a, fields) = <<Lexeme("FIELD", g)>>
    BY <1>4, <2>1 DEF FieldLexeme
  <2> QED
    BY <1>1, <2>8, <2>9 DEF C
<1> QED
  BY <1>3, <1>4

-----------------------------------------------------------------------------
(* What the parser makes of it                                             *)

\* Without lexemes the parser has not begun.
LEMMA ParsedNone == ParsedFrom(<<>>) = InitialParse
<1>1. Typed(<<>>)
  <2>1. PICK S : S = {}
    OBVIOUS
  <2>2. <<>> \in Seq(S) /\ \A l \in S : l.type \in LexemeTypes
    BY <2>1
  <2> QED
    BY <2>2 DEF Typed
<1>2. PICK f : Parsing(f, <<>>) /\ f[Len(<<>>)] = ParsedFrom(<<>>)
  BY <1>1, ParsingRule DEF ParsedFrom
<1>3. Len(<<>>) = 0
  OBVIOUS
<1> QED
  BY <1>2, <1>3 DEF Parsing

\* One lexeme more is one step more.
LEMMA ParsedAppend ==
  ASSUME NEW S, \A l \in S : l.type \in LexemeTypes, NEW L \in Seq(S), NEW l \in S
  PROVE  ParsedFrom(Joined(L, <<l>>)) = ParseLexeme(ParsedFrom(L), l)
<1> DEFINE one == <<l>>
           W == Joined(L, one)
<1>1. one \in Seq(S) /\ Len(one) = 1 /\ one[1] = l
  OBVIOUS
<1> HIDE DEF one
<1>2. PICK n \in Nat : n = Len(L)
  BY LenProperties
<1>3. /\ W \in Seq(S) /\ Len(W) = n + 1 /\ W[n + 1] = l
      /\ \A k \in 1 .. n : W[k] = L[k]
  <2>1. W \in Seq(S) /\ Len(W) = Len(L) + Len(one)
        /\ \A k \in 1 .. Len(L) + Len(one) : W[k] = IF k <= Len(L) THEN L[k] ELSE one[k - Len(L)]
    BY <1>1, JoinedProperties
  <2> HIDE DEF W
  <2>2. Len(W) = n + 1 /\ \A k \in 1 .. n + 1 : W[k] = IF k <= n THEN L[k] ELSE one[k - n]
    BY <1>1, <1>2, <2>1
  <2>3. n + 1 \in 1 .. n + 1 /\ ~(n + 1 <= n) /\ (n + 1) - n = 1 /\ \A k \in 1 .. n : k \in 1 .. n + 1 /\ k <= n
    OBVIOUS
  <2> QED
    BY <1>1, <2>1, <2>2, <2>3
<1> HIDE DEF W
<1>4. Typed(L) /\ Typed(W)
  BY <1>3 DEF Typed
<1>5. PICK g : Parsing(g, L) /\ g[Len(L)] = ParsedFrom(L)
  BY <1>4, ParsingRule DEF ParsedFrom
<1>6. PICK f : Parsing(f, W) /\ f[Len(W)] = ParsedFrom(W)
  BY <1>4, ParsingRule DEF ParsedFrom
<1>7. f[n] = g[n]
  <2> DEFINE I == [k \in 0 .. n |-> {g[k]}]
  <2>1. f[0] \in I[0]
    BY <1>5, <1>6 DEF Parsing
  <2>2. ASSUME NEW k \in 1 .. n, f[k - 1] \in I[k - 1] PROVE f[k] \in I[k]
    <3>1. f[k] = ParseLexeme(f[k - 1], W[k]) /\ g[k] = ParseLexeme(g[k - 1], L[k])
      <4>1. k \in 1 .. Len(W) /\ k \in 1 .. Len(L)
        BY <1>2, <1>3
      <4> QED
        BY <1>5, <1>6, <4>1 DEF Parsing
    <3>2. f[k - 1] = g[k - 1] /\ W[k] = L[k]
      BY <1>3, <2>2
    <3> QED
      BY <3>1, <3>2
  <2>3. \A k \in 0 .. n : f[k] \in I[k]
    <3> HIDE DEF I
    <3> QED
      BY <2>1, <2>2, Stays
  <2> QED
    BY <2>3
<1>8. f[n + 1] = ParseLexeme(f[n], l)
  <2>1. n + 1 \in 1 .. Len(W) /\ (n + 1) - 1 = n
    BY <1>3
  <2>2. f[n + 1] = ParseLexeme(f[(n + 1) - 1], W[n + 1])
    BY <1>6, <2>1 DEF Parsing
  <2> QED
    BY <1>3, <2>1, <2>2
<1> QED
  BY <1>2, <1>3, <1>5, <1>6, <1>7, <1>8 DEF W, one

\* One digit is read as itself.
LEMMA DigitParsed == ASSUME NEW d \in Digit PROVE ParseInt(<<d>>) = d
<1> DEFINE str == <<d>>
           D == SUBSET (DOMAIN str)
           Value(s, h) == IF s = {} THEN 0 ELSE 10 * h[s \ {Max(s)}] + str[Max(s)]
           Eq(f) == f = [s \in SUBSET (DOMAIN str) |->
                          IF s = {} THEN 0
                          ELSE LET x == Max(s) IN 10 * f[s \ {x}] + str[x]]
           iter == CHOOSE f : Eq(f)
<1>1. ParseInt(str) = iter[DOMAIN str]
  BY DEF ParseInt, FoldLeft, MapThenFoldSet
<1>2. DOMAIN str = {1} /\ str[1] = d /\ d \in Nat
  BY DEF Digit
<1> HIDE DEF str
<1>3. Max({1}) = 1
  <2>1. {1} \in SUBSET Nat /\ 1 \in {1} /\ \A x \in {1} : 1 >= x
    OBVIOUS
  <2> QED
    BY <2>1, MaxIs
<1>4. D = {{}, {1}} /\ {1} \ {1} = {} /\ {1} # {}
  BY <1>2
<1> DEFINE g == [s \in D |-> IF s = {} THEN 0 ELSE 10 * 0 + d]
<1>5. Eq(g)
  <2>1. g[{}] = 0
    BY <1>4
  <2>2. \A s \in D : (IF s = {} THEN 0 ELSE 10 * 0 + d) = Value(s, g)
    <3>1. (IF {} = {} THEN 0 ELSE 10 * 0 + d) = Value({}, g)
      OBVIOUS
    <3>2. 10 * 0 + d = Value({1}, g)
      <4> HIDE DEF g
      <4> QED
        BY <1>2, <1>3, <1>4, <2>1
    <3> HIDE DEF g, Value
    <3> QED
      BY <1>4, <3>1, <3>2
  <2> QED
    BY <2>2
<1>6. Eq(iter)
  <2> HIDE DEF Eq
  <2> QED
    BY <1>5
<1>7. \A s \in D : iter[s] = Value(s, iter)
  <2> HIDE DEF iter
  <2> QED
    BY <1>6
<1> HIDE DEF iter
<1>8. iter[{}] = 0
  BY <1>4, <1>7
<1>9. iter[{1}] = 10 * 0 + d
  <2>1. iter[{1}] = 10 * iter[{1} \ {Max({1})}] + str[Max({1})]
    BY <1>4, <1>7
  <2> QED
    BY <1>2, <1>3, <1>4, <1>8, <2>1
<1> QED
  BY <1>1, <1>2, <1>9 DEF str

\* The parser at the end of a clause, with nothing before it.
OneClause(c) == [state |-> "term", clauses |-> <<>>, fields |-> AllFields, current |-> c]

\* What is read of a clause makes that clause.
Makes(w, fields, a, distance, boost, x, y) ==
  ParsedFrom(Joined(FieldLexeme(a, fields),
                    Joined(Joined(TermLexeme(w), NumberLexeme("EDIT_DISTANCE", x, distance)),
                           NumberLexeme("BOOST", y, boost))))
    = OneClause([Clause(w, fields) EXCEPT !.boost = boost, !.editDistance = distance])

\* So do the lexemes of a clause, with or without field, distance and boost.
LEMMA ClauseParsed ==
  ASSUME NEW w, NEW fields, NEW a, NEW distance \in {None} \cup Digit, NEW boost \in Digit, NEW x, NEW y,
         a = 0 => fields = AllFields, a # 0 => \E g : fields = <<g>> /\ Contains(AllFields, g),
         (x = 0 /\ distance = None) \/ (x # 0 /\ distance \in Digit),
         (y = 0 /\ boost = 1) \/ y # 0
  PROVE  Makes(w, fields, a, distance, boost, x, y)
<1> DEFINE field == Lexeme("FIELD", fields[1])
           term == Lexeme("TERM", w)
           edit == Lexeme("EDIT_DISTANCE", <<distance>>)
           boosted == Lexeme("BOOST", <<boost>>)
           S == {field, term, edit, boosted}
           F == FieldLexeme(a, fields)
           T == TermLexeme(w)
           X == NumberLexeme("EDIT_DISTANCE", x, distance)
           Y == NumberLexeme("BOOST", y, boost)
<1>1. \A l \in S : l.type \in LexemeTypes
  BY DEF Lexeme, LexemeTypes
<1>2. /\ F = IF a = 0 THEN <<>> ELSE <<field>>
      /\ T = <<term>>
      /\ X = IF x = 0 THEN <<>> ELSE <<edit>>
      /\ Y = IF y = 0 THEN <<>> ELSE <<boosted>>
  BY DEF FieldLexeme, TermLexeme, NumberLexeme
<1>3. field \in S /\ term \in S /\ edit \in S /\ boosted \in S
  OBVIOUS
<1>4. /\ field.type = "FIELD" /\ field.str = fields[1] /\ term.type = "TERM" /\ term.str = w
      /\ edit.type = "EDIT_DISTANCE" /\ edit.str = <<distance>> /\ boosted.type = "BOOST" /\ boosted.str = <<boost>>
  BY DEF Lexeme
<1> HIDE DEF field, term, edit, boosted, S, F, T, X, Y
<1>5. F \in Seq(S) /\ T \in Seq(S) /\ X \in Seq(S) /\ Y \in Seq(S)
  BY <1>2, <1>3
<1> DEFINE FT == Joined(F, T)
           FTX == Joined(FT, X)
           FTXY == Joined(FTX, Y)
<1>6. FT \in Seq(S) /\ FTX \in Seq(S)
  <2>1. FT \in Seq(S)
    BY <1>5, JoinedProperties
  <2> HIDE DEF FT
  <2> QED
    BY <1>5, <2>1, JoinedProperties
<1>7. Joined(F, Joined(Joined(T, X), Y)) = FTXY
  <2>1. Joined(T, X) \in Seq(S)
    BY <1>5, JoinedProperties
  <2>2. Joined(Joined(F, Joined(T, X)), Y) = Joined(F, Joined(Joined(T, X), Y))
    BY <1>5, <2>1, JoinedAssociative
  <2>3. Joined(Joined(F, T), X) = Joined(F, Joined(T, X))
    BY <1>5, JoinedAssociative
  <2> QED
    BY <2>2, <2>3
<1> HIDE DEF FT, FTX, FTXY
<1> DEFINE c0 == Clause(w, fields)
           c1 == [c0 EXCEPT !.editDistance = distance]
           c2 == [c0 EXCEPT !.boost = boost, !.editDistance = distance]
<1>8. /\ distance = None => c1 = c0
      /\ c2 = [c1 EXCEPT !.boost = boost]
      /\ boost = 1 => c2 = c1
  <2>1. PICK u : /\ u = ~Contains(w, Star)
                 /\ c0 = [fields |-> fields, term |-> ToLowerCase(w), boost |-> 1, editDistance |-> None,
                          usePipeline |-> u]
    BY Zenon DEF Clause
  <2> HIDE DEF c0
  <2>2. c1 = [fields |-> fields, term |-> ToLowerCase(w), boost |-> 1, editDistance |-> distance, usePipeline |-> u]
    BY <2>1
  <2>3. c2 = [fields |-> fields, term |-> ToLowerCase(w), boost |-> boost, editDistance |-> distance,
              usePipeline |-> u]
    <3> DEFINE b == [c0 EXCEPT !.boost = boost]
    <3>1. b = [fields |-> fields, term |-> ToLowerCase(w), boost |-> boost, editDistance |-> None,
               usePipeline |-> u]
      BY <2>1
    <3> HIDE DEF b
    <3>2. [b EXCEPT !.editDistance = distance]
            = [fields |-> fields, term |-> ToLowerCase(w), boost |-> boost, editDistance |-> distance,
               usePipeline |-> u]
      BY <3>1
    <3>3. c2 = [b EXCEPT !.editDistance = distance]
      BY Zenon DEF b
    <3> QED
      BY <3>2, <3>3
  <2> HIDE DEF c1, c2
  <2> QED
    BY <2>1, <2>2, <2>3
<1> HIDE DEF c0, c1, c2
<1>9. PICK P : /\ P = ParsedFrom(F) /\ P.state # "error" /\ P.state # "term"
               /\ P.clauses = <<>> /\ P.fields = fields
  <2>1. CASE a = 0
    <3>1. ParsedFrom(F) = InitialParse
      BY <1>2, <2>1, ParsedNone
    <3> QED
      BY <2>1, <3>1 DEF InitialParse
  <2>2. CASE a # 0
    <3>1. PICK g : fields = <<g>> /\ Contains(AllFields, g)
      BY <2>2
    <3>2. ParsedFrom(F) = ParseLexeme(InitialParse, field)
      <4>1. <<>> \in Seq(S)
        OBVIOUS
      <4>2. ParsedFrom(Joined(<<>>, <<field>>)) = ParseLexeme(ParsedFrom(<<>>), field)
        BY <1>1, <1>3, <4>1, ParsedAppend
      <4>3. Joined(<<>>, <<field>>) = F
        BY <1>2, <1>5, <2>2, JoinedEmpty
      <4> QED
        BY <4>2, <4>3, ParsedNone
    <3>3. ParseLexeme(InitialParse, field) = ParseField(InitialParse, fields[1])
      BY <1>4 DEF ParseLexeme, InitialParse
    <3>4. fields[1] = g
      BY <3>1
    <3>5. ParseField(InitialParse, g) = [state |-> "field", clauses |-> Completed(InitialParse), fields |-> <<g>>]
      BY <3>1 DEF ParseField, InitialParse
    <3>6. Completed(InitialParse) = <<>>
      BY DEF Completed, InitialParse
    <3> QED
      BY <3>1, <3>2, <3>3, <3>4, <3>5, <3>6
  <2> QED
    BY <2>1, <2>2
<1>10. ParsedFrom(FT) = OneClause(c0)
  <2>1. ParsedFrom(FT) = ParseLexeme(P, term)
    BY <1>1, <1>2, <1>3, <1>5, <1>9, ParsedAppend DEF FT
  <2>2. ParseLexeme(P, term) = ParseTerm(P, w)
    BY <1>4, <1>9 DEF ParseLexeme
  <2>3. Completed(P) = <<>>
    BY <1>9 DEF Completed
  <2>4. ParseTerm(P, w) = OneClause(c0)
    BY <1>9, <2>3 DEF ParseTerm, OneClause, c0
  <2> QED
    BY <2>1, <2>2, <2>4
<1>11. ParsedFrom(FTX) = OneClause(c1)
  <2>1. CASE x = 0
    <3>1. FTX = FT
      BY <1>2, <1>6, <2>1, JoinedEmpty DEF FTX
    <3> QED
      BY <1>8, <1>10, <2>1, <3>1
  <2>2. CASE x # 0
    <3>1. ParsedFrom(FTX) = ParseLexeme(OneClause(c0), edit)
      BY <1>1, <1>2, <1>3, <1>6, <1>10, <2>2, ParsedAppend DEF FTX
    <3>2. ParseLexeme(OneClause(c0), edit) = ParseEditDistance(OneClause(c0), <<distance>>)
      BY <1>4 DEF ParseLexeme, OneClause
    <3>3. ParseEditDistance(OneClause(c0), <<distance>>)
            = [OneClause(c0) EXCEPT !.current = [c0 EXCEPT !.editDistance = ParseInt(<<distance>>)]]
      BY DEF ParseEditDistance, OneClause
    <3>4. ParseInt(<<distance>>) = distance
      BY <2>2, DigitParsed
    <3>5. [OneClause(c0) EXCEPT !.current = c1] = OneClause(c1)
      BY DEF OneClause
    <3> QED
      BY <3>1, <3>2, <3>3, <3>4, <3>5 DEF c1
  <2> QED
    BY <2>1, <2>2
<1>12. ParsedFrom(FTXY) = OneClause(c2)
  <2>1. CASE y = 0
    <3>1. FTXY = FTX
      BY <1>2, <1>6, <2>1, JoinedEmpty DEF FTXY
    <3> QED
      BY <1>8, <1>11, <2>1, <3>1
  <2>2. CASE y # 0
    <3>1. ParsedFrom(FTXY) = ParseLexeme(OneClause(c1), boosted)
      BY <1>1, <1>2, <1>3, <1>6, <1>11, <2>2, ParsedAppend DEF FTXY
    <3>2. ParseLexeme(OneClause(c1), boosted) = ParseBoost(OneClause(c1), <<boost>>)
      BY <1>4 DEF ParseLexeme, OneClause
    <3>3. ParseBoost(OneClause(c1), <<boost>>)
            = [OneClause(c1) EXCEPT !.current = [c1 EXCEPT !.boost = ParseInt(<<boost>>)]]
      BY DEF ParseBoost, OneClause
    <3>4. ParseInt(<<boost>>) = boost
      BY DigitParsed
    <3>5. [OneClause(c1) EXCEPT !.current = c2] = OneClause(c2)
      BY DEF OneClause
    <3> QED
      BY <1>8, <3>1, <3>2, <3>3, <3>4, <3>5
  <2> QED
    BY <2>1, <2>2
<1> QED
  BY <1>7, <1>12 DEF F, T, X, Y, c2, c0, Makes

(***************************************************************************)
(* Whatever text in lower case is asked for, its notation says it: with    *)
(* the special characters escaped and a field, a distance and a boost      *)
(* around it, it is read back as the one clause that was meant.  A special *)
(* character is escaped, so lexText stops at none of them within the text  *)
(* and at the delimiter or the end after it; each digit stands alone, so   *)
(* its run ends with it.                                                   *)
(***************************************************************************)
THEOREM TermsCanBeWritten == IndexSpec => []EveryTermCanBeWritten
<1>1. InitIndex => AskedInv
  BY AskedWords
<1>2. AskedInv /\ [IndexNext]_indexVars => AskedInv'
  BY AskedWords
<1>3. AskedInv => EveryTermCanBeWritten
  <2> SUFFICES ASSUME AskedInv, asked # <<>>, asked = ToLowerCase(asked),
                      NEW fields \in {AllFields} \cup {<<f>> : f \in ToSet(AllFields)},
                      NEW boost \in {0, 1, 9}, NEW distance \in {None, 0, 2}
               PROVE  LET c == [Clause(asked, fields) EXCEPT !.boost = boost, !.editDistance = distance]
                      IN  Parse(Notation(c)) = [ok |-> TRUE, clauses |-> <<c>>]
    BY Zenon DEF EveryTermCanBeWritten
  <2> DEFINE c == [Clause(asked, fields) EXCEPT !.boost = boost, !.editDistance = distance]
             s == Notation(c)
  <2>1. asked \in Words /\ distance \in {None} \cup Digit /\ boost \in Digit
    BY DEF AskedInv, Digit
  <2>2. c.fields = fields /\ c.term = asked /\ c.boost = boost /\ c.editDistance = distance
    BY DEF Clause
  <2>3. fields = AllFields \/ \E f \in Words : fields = <<f>> /\ Contains(AllFields, f)
    <3>1. \A f \in ToSet(AllFields) : f \in Words /\ Contains(AllFields, f)
      <4>1. DOMAIN AllFields = 1 .. Len(AllFields) /\ \A i \in 1 .. Len(AllFields) : AllFields[i] \in Words
        BY FieldsAssumption, LenProperties, ElementOfSeq DEF Words
      <4> QED
        BY <4>1 DEF ToSet, Contains
    <3> QED
      BY <3>1
  <2> HIDE DEF c
  <2>4. PICK a, e, x, y : Laid(s, asked, fields, distance, boost, a, e, x, y)
    BY <2>1, <2>2, <2>3, NotationLaid
  <2> HIDE DEF s
  <2>5. ParsedFrom(Lexemes(s)) = OneClause(c)
    <3>1. Lexemes(s) = Joined(FieldLexeme(a, fields),
                              Joined(Joined(TermLexeme(asked), NumberLexeme("EDIT_DISTANCE", x, distance)),
                                     NumberLexeme("BOOST", y, boost)))
      BY <2>1, <2>4, ClauseRead
    <3>2. /\ a = 0 => fields = AllFields
          /\ a # 0 => \E g : fields = <<g>> /\ Contains(AllFields, g)
      <4>1. \/ fields = AllFields /\ a = 0
            \/ \E f \in Words : /\ fields = <<f>> /\ Stands(Escaped(f), s, 0, a - 1)
                                /\ a = Len(Escaped(f)) + 1 /\ s[a] = Colon
        BY <2>4, Zenon DEF Laid
      <4>2. ASSUME NEW f \in Words, fields = <<f>>, a = Len(Escaped(f)) + 1
            PROVE  a # 0 /\ Contains(AllFields, f)
        <5>1. Len(Escaped(f)) \in Nat
          BY EscapedSpelled, LenProperties DEF Words
        <5>2. CASE fields = AllFields
          <6>1. Len(AllFields) = 1 /\ AllFields[1] = f
            BY <4>2, <5>2
          <6> QED
            BY <4>2, <5>1, <6>1 DEF Contains
        <5>3. CASE fields # AllFields
          <6>1. PICK g \in Words : fields = <<g>> /\ Contains(AllFields, g)
            BY <2>3, <5>3
          <6>2. f = fields[1] /\ g = fields[1]
            BY <4>2, <6>1
          <6> QED
            BY <4>2, <5>1, <6>1, <6>2
        <5> QED
          BY <5>2, <5>3
      <4>3. CASE fields = AllFields /\ a = 0
        BY <4>3
      <4>4. CASE \E f \in Words : /\ fields = <<f>> /\ Stands(Escaped(f), s, 0, a - 1)
                                   /\ a = Len(Escaped(f)) + 1 /\ s[a] = Colon
        <5>1. PICK f \in Words : fields = <<f>> /\ a = Len(Escaped(f)) + 1
          BY Zenon, <4>4
        <5>2. a # 0 /\ Contains(AllFields, f)
          BY Zenon, <4>2, <5>1
        <5> QED
          BY Zenon, <5>1, <5>2
      <4> QED
        BY Zenon, <4>1, <4>3, <4>4
    <3>3. (x = 0 /\ distance = None) \/ (x # 0 /\ distance \in Digit)
      BY <2>4 DEF Laid, Marks
    <3>4. (y = 0 /\ boost = 1) \/ y # 0
      BY <2>4 DEF Laid, Marks
    <3> DEFINE L == Joined(FieldLexeme(a, fields),
                           Joined(Joined(TermLexeme(asked), NumberLexeme("EDIT_DISTANCE", x, distance)),
                                  NumberLexeme("BOOST", y, boost)))
               d == [Clause(asked, fields) EXCEPT !.boost = boost, !.editDistance = distance]
    <3>5. Makes(asked, fields, a, distance, boost, x, y)
      BY <2>1, <3>2, <3>3, <3>4, ClauseParsed
    <3>6. c = d
      BY Zenon DEF c
    <3>7. Lexemes(s) = L
      BY Zenon, <3>1
    <3>8. ParsedFrom(L) = OneClause(d)
      BY Zenon, <3>5 DEF Makes
    <3> HIDE DEF L, d
    <3> QED
      BY <3>6, <3>7, <3>8
  <2>6. Parse(s) = [ok |-> TRUE, clauses |-> Completed(OneClause(c))]
    <3>1. OneClause(c).state = "term"
      BY DEF OneClause
    <3> QED
      BY <2>5, <3>1 DEF Parse, ParsedFrom
  <2>7. Completed(OneClause(c)) = <<c>>
    BY DEF Completed, OneClause
  <2> QED
    BY <2>6, <2>7 DEF s, c
<1> QED
  BY <1>1, <1>2, <1>3, PTL DEF IndexSpec
=============================================================================
