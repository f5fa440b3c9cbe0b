----------------------------- MODULE DocsProofs -----------------------------
(***************************************************************************)
(* Safety of the scripts of the documentation site, for articles, tab      *)
(* groups, tables of contents and searches of any size: of DocsPage, and   *)
(* of DocsSearch, whose variables and specification are its own.  And the  *)
(* vectors of LunrVector by which the search scores, of any length.        *)
(***************************************************************************)
EXTENDS DocsPage, DocsSearch, LunrVector, SequenceTheorems, WellFoundedInduction, TLAPS

-----------------------------------------------------------------------------
(* Recursion and induction, over sets                                      *)

\* Every set of naturals that is not empty has a least element.
LEMMA Least == ASSUME NEW T \in SUBSET Nat, T # {} PROVE \E n \in T : \A m \in T : n <= m
<1> DEFINE R == {ss \in Nat \X Nat : ss[1] < ss[2]}
<1>1. IsWellFoundedOn(R, Nat)
  BY NatLessThanWellFounded DEF OpToRel
<1> HIDE DEF R
<1>2. PICK n \in T : \A m \in T : ~ (<<m, n>> \in R)
  BY <1>1, WFMin
<1>3. ASSUME NEW m \in T PROVE n <= m
  <2>1. <<m, n>> \in Nat \X Nat
    OBVIOUS
  <2>2. ~(m < n)
    <3> SUFFICES ASSUME m < n PROVE <<m, n>> \in R
      BY <1>2
    <3>1. <<m, n>>[1] < <<m, n>>[2]
      OBVIOUS
    <3> QED
      BY <2>1, <3>1, Zenon DEF R
  <2> QED
    BY <2>2
<1> QED
  BY <1>3

\* Induction, for a set: the library's theorem is for an operator.
LEMMA Induction ==
  ASSUME NEW S, 0 \in S, \A n \in Nat : n \in S => n + 1 \in S
  PROVE  Nat \subseteq S
<1> SUFFICES ASSUME Nat \ S # {} PROVE FALSE
  OBVIOUS
<1>1. PICK n \in Nat \ S : \A m \in Nat \ S : n <= m
  BY Least
<1>2. n - 1 \in Nat /\ n - 1 \in S
  BY <1>1
<1> QED
  BY <1>1, <1>2

\* What f[k \in 0 .. n] == IF k = 0 THEN base ELSE step[k][f[k - 1]] declares.
Declares(f, n, base, step) ==
  f = [k \in 0 .. n |-> IF k = 0 THEN base ELSE step[k][f[k - 1]]]

\* There is such a function if the steps lead from each I[k - 1] to I[k].
LEMMA Recursion ==
  ASSUME NEW n \in Nat, NEW I, NEW base \in I[0], NEW step,
         \A k \in 1 .. n : \A s \in I[k - 1] : step[k][s] \in I[k]
  PROVE  \E f : Declares(f, n, base, step) /\ \A k \in 0 .. n : f[k] \in I[k]
<1> DEFINE P(p, m) == /\ p[0] = base /\ \A k \in 0 .. m : p[k] \in I[k]
                      /\ \A k \in 1 .. m : p[k] = step[k][p[k - 1]]
           G == {m \in Nat : m <= n => \E p : P(p, m)}
<1>1. 0 \in G
  <2>1. P([k \in 0 .. 0 |-> base], 0)
    OBVIOUS
  <2> QED
    BY <2>1
<1>2. ASSUME NEW m \in Nat, m \in G PROVE m + 1 \in G
  <2> SUFFICES ASSUME m + 1 <= n PROVE \E q : P(q, m + 1)
    OBVIOUS
  <2>1. PICK p : P(p, m)
    <3>1. m <= n
      OBVIOUS
    <3> HIDE DEF P
    <3> QED
      BY <1>2, <3>1
  <2> DEFINE last == step[m + 1][p[m]]
             q == [k \in 0 .. m + 1 |-> IF k = m + 1 THEN last ELSE p[k]]
  <2>2. last \in I[m + 1]
    <3>1. m \in 0 .. m /\ m + 1 \in 1 .. n /\ (m + 1) - 1 = m
      OBVIOUS
    <3> QED
      BY <2>1, <3>1
  <2>3. q[m + 1] = last /\ \A k \in 0 .. m : q[k] = p[k]
    <3>1. m + 1 \in 0 .. m + 1 /\ \A k \in 0 .. m : k \in 0 .. m + 1 /\ k # m + 1
      OBVIOUS
    <3> HIDE DEF last
    <3> QED
      BY <3>1
  <2> HIDE DEF q
  <2>4. \A k \in 0 .. m + 1 : k = m + 1 \/ k \in 0 .. m
    OBVIOUS
  <2>5. \A k \in 0 .. m + 1 : q[k] \in I[k]
    BY <2>1, <2>2, <2>3, <2>4
  <2>6. ASSUME NEW k \in 1 .. m + 1 PROVE q[k] = step[k][q[k - 1]]
    <3>1. CASE k = m + 1
      <4>1. k - 1 = m /\ m \in 0 .. m
        BY <3>1
      <4> QED
        BY <2>3, <3>1, <4>1
    <3>2. CASE k # m + 1
      <4>1. k \in 1 .. m /\ k \in 0 .. m /\ k - 1 \in 0 .. m
        BY <3>2
      <4> QED
        BY <2>1, <2>3, <4>1
    <3> QED
      BY <3>1, <3>2
  <2>7. q[0] = base
    <3>1. 0 \in 0 .. m
      OBVIOUS
    <3> QED
      BY <2>1, <2>3, <3>1
  <2> QED
    BY <2>5, <2>6, <2>7
<1>3. PICK p : P(p, n)
  <2>1. Nat \subseteq G
    <3> HIDE DEF G
    <3> QED
      BY <1>1, <1>2, Induction
  <2> HIDE DEF P
  <2> QED
    BY <2>1
<1> DEFINE f == [k \in 0 .. n |-> p[k]]
<1>4. \A k \in 0 .. n : f[k] = p[k] /\ f[k] \in I[k]
  BY <1>3
<1>5. ASSUME NEW k \in 0 .. n PROVE f[k] = IF k = 0 THEN base ELSE step[k][f[k - 1]]
  <2>1. k # 0 => k \in 1 .. n /\ k - 1 \in 0 .. n
    OBVIOUS
  <2> HIDE DEF f
  <2> QED
    BY <1>3, <1>4, <2>1
<1>6. Declares(f, n, base, step)
  BY <1>5 DEF Declares
<1> QED
  BY <1>4, <1>6

\* What the steps lead to from I[0] is where it ends.
LEMMA Stays ==
  ASSUME NEW n \in Nat, NEW I, NEW f, f[0] \in I[0],
         \A k \in 1 .. n : f[k - 1] \in I[k - 1] => f[k] \in I[k]
  PROVE  \A k \in 0 .. n : f[k] \in I[k]
<1> DEFINE G == {m \in Nat : m <= n => f[m] \in I[m]}
<1>1. 0 \in G
  OBVIOUS
<1>2. ASSUME NEW m \in Nat, m \in G PROVE m + 1 \in G
  <2> SUFFICES ASSUME m + 1 <= n PROVE f[m + 1] \in I[m + 1]
    OBVIOUS
  <2>1. m + 1 \in 1 .. n /\ (m + 1) - 1 = m /\ m <= n
    OBVIOUS
  <2>2. f[m] \in I[m]
    BY <1>2, <2>1
  <2> QED
    BY <2>1, <2>2
<1>3. Nat \subseteq G
  <2> HIDE DEF G
  <2> QED
    BY <1>1, <1>2, Induction
<1> QED
  BY <1>3

-----------------------------------------------------------------------------
(* The outline of the article                                              *)

\* A turn of the loop of Closed.
CloseTop(t, level) ==
  IF Len(t.stack) > 1 /\ level < Last(t.stack).level THEN BuildParent(t) ELSE t

\* The condition of the loop does not hold.
Stopped(t, level) == ~(Len(t.stack) > 1 /\ level < Last(t.stack).level)

\* A set that a turn of the loop does not leave is not left by the loop, which ends:
\* every turn takes a frame.
LEMMA Closes ==
  ASSUME NEW T, NEW s \in T, NEW level, \A t \in T : Len(t.stack) \in Nat,
         \A t \in T : ~Stopped(t, level) =>
           BuildParent(t) \in T /\ Len(BuildParent(t).stack) = Len(t.stack) - 1
  PROVE  Closed(s, level) \in T /\ Stopped(Closed(s, level), level)
<1> DEFINE n == Len(s.stack)
           I == [k \in 0 .. n |-> {t \in T : Stopped(t, level) \/ Len(t.stack) = n - k}]
           step == [k \in 1 .. n |-> [t \in I[k - 1] |-> CloseTop(t, level)]]
           Eq(c) == c = [k \in 0 .. n |-> IF k = 0 THEN s ELSE CloseTop(c[k - 1], level)]
           close == CHOOSE c : Eq(c)
<1>1. n \in Nat /\ s \in I[0]
  OBVIOUS
<1>2. ASSUME NEW k \in 1 .. n, NEW t \in I[k - 1] PROVE CloseTop(t, level) \in I[k]
  <2>0. k - 1 \in 0 .. n /\ k \in 0 .. n
    BY <1>1
  <2>1. t \in T /\ (Stopped(t, level) \/ Len(t.stack) = n - (k - 1))
    <3> HIDE DEF n
    <3> QED
      BY <2>0
  <2>2. CASE Stopped(t, level)
    BY <2>0, <2>1, <2>2 DEF CloseTop, Stopped
  <2>3. CASE ~Stopped(t, level)
    <3>1. CloseTop(t, level) = BuildParent(t) /\ BuildParent(t) \in T
      BY <2>1, <2>3 DEF CloseTop, Stopped
    <3>2. Len(BuildParent(t).stack) = Len(t.stack) - 1 /\ Len(t.stack) = n - (k - 1)
      BY <2>1, <2>3
    <3>3. n - (k - 1) - 1 = n - k
      BY <1>1
    <3> HIDE DEF n
    <3> QED
      BY <2>0, <3>1, <3>2, <3>3
  <2> QED
    BY <2>2, <2>3
<1>3. PICK f : Declares(f, n, s, step) /\ \A k \in 0 .. n : f[k] \in I[k]
  <2>1. \A k \in 1 .. n : \A t \in I[k - 1] : step[k][t] \in I[k]
    <3> HIDE DEF I
    <3> QED
      BY <1>2
  <2> HIDE DEF I, step, n
  <2> QED
    BY <1>1, <2>1, Recursion
<1>4. Eq(f)
  <2>1. ASSUME NEW k \in 1 .. n PROVE step[k][f[k - 1]] = CloseTop(f[k - 1], level)
    <3>1. f[k - 1] \in I[k - 1]
      <4>1. k - 1 \in 0 .. n
        BY <1>1
      <4> HIDE DEF I
      <4> QED
        BY <1>3, <4>1
    <3> HIDE DEF I
    <3> QED
      BY <3>1
  <2>2. \A k \in 0 .. n : k # 0 => k \in 1 .. n
    BY <1>1
  <2> HIDE DEF step, I
  <2> QED
    BY <1>3, <2>1, <2>2 DEF Declares
<1>5. Eq(close)
  <2> HIDE DEF Eq
  <2> QED
    BY <1>4
<1>6. Closed(s, level) = close[n]
  BY DEF Closed, CloseTop
<1>7. PICK c : Eq(c) /\ Closed(s, level) = c[n]
  <2> HIDE DEF Eq, close
  <2> QED
    BY <1>5, <1>6
<1>8. c[0] = s /\ \A k \in 1 .. n : c[k] = CloseTop(c[k - 1], level)
  <2>1. 0 \in 0 .. n /\ \A k \in 1 .. n : k \in 0 .. n /\ k # 0
    BY <1>1
  <2> QED
    BY <1>7, <2>1
<1>9. c[n] \in I[n]
  <2> HIDE DEF I, n
  <2>1. \A k \in 0 .. n : c[k] \in I[k]
    BY <1>1, <1>2, <1>8, Stays
  <2> QED
    BY <1>1, <2>1
<1>10. c[n] \in T /\ (Stopped(c[n], level) \/ Len(c[n].stack) = 0)
  BY <1>1, <1>9
<1> HIDE DEF Eq, close, I, step, n
<1>11. Stopped(c[n], level)
  <2>1. Len(c[n].stack) = 0 => ~(Len(c[n].stack) > 1)
    OBVIOUS
  <2> QED
    BY <1>10, <2>1, Zenon DEF Stopped
<1> QED
  BY <1>7, <1>10, <1>11

Frames == [level : 1 .. 4, siblings : Seq(Nat)]

Above(i) == Max(Shallower(i) \cup {0})

OnStack(st, i) == \E j \in 1 .. Len(st) : Contains(st[j].siblings, i)

\* Where the siblings of a frame are going to be attached.
Under(st, j) == IF j = 1 THEN 0 ELSE Last(st[j - 1].siblings)

\* The frames of a stack are what is open of the headings so far, level by level, and
\* whatever was closed is attached to what it belongs under.
Frame(st, j) ==
  /\ st[j].siblings # <<>>
  /\ \A i : Contains(st[j].siblings, i) =>
       i \in 1 .. Len(levels) /\ levels[i] = st[j].level /\ Above(i) = Under(st, j)
  /\ \A k \in 1 .. j - 1 : st[k].level < st[j].level

Nested(st, up) ==
  /\ st # <<>> => st[1].level = levels[1]
  /\ \A j \in 1 .. Len(st) : Frame(st, j)
  /\ \A i \in 1 .. Len(levels) : up[i] = IF OnStack(st, i) THEN 0 ELSE Above(i)

\* Behind the last sibling of a frame there is nothing that is not below it: nothing
\* above the level of the next frame, or, behind the top, not above level.
Trail(st, level) ==
  \A j \in 1 .. Len(st) : \A i \in Last(st[j].siblings) + 1 .. Len(levels) :
    IF j = Len(st) THEN levels[i] > level ELSE levels[i] >= st[j + 1].level

Fits(t, n, level) ==
  /\ t.stack \in Seq(Frames) /\ (t.stack = <<>> <=> levels = <<>>)
  /\ t.parent \in Seq(Nat) /\ Len(t.parent) = n
  /\ \A i \in Len(levels) + 1 .. n : t.parent[i] = 0
  /\ Nested(t.stack, t.parent)
  /\ Trail(t.stack, level)

Kept(n, level) ==
  {t \in [stack : Seq(Frames), parent : Seq(Nat)] : Fits(t, n, level)}

LEMMA Greatest ==
  ASSUME NEW T \in SUBSET Nat, NEW m \in T, \A x \in T : x <= m
  PROVE  Max(T) = m
<1>1. \E x \in T : \A y \in T : x >= y
  OBVIOUS
<1>2. Max(T) \in T /\ \A y \in T : Max(T) >= y
  BY <1>1 DEF Max
<1>3. \A n \in T : (\A y \in T : n >= y) => n = m
  <2> SUFFICES ASSUME NEW n \in T, \A y \in T : n >= y PROVE n = m
    OBVIOUS
  <2>1. n >= m /\ n <= m /\ n \in Nat /\ m \in Nat
    OBVIOUS
  <2> QED
    BY <2>1
<1> QED
  BY <1>2, <1>3

LEMMA LastInside ==
  ASSUME NEW st \in Seq(Frames), NEW j \in 1 .. Len(st), Frame(st, j)
  PROVE  /\ Last(st[j].siblings) \in Nat
         /\ Last(st[j].siblings) \in 1 .. Len(levels)
         /\ Contains(st[j].siblings, Last(st[j].siblings))
         /\ levels[Last(st[j].siblings)] = st[j].level
<1>1. st[j].siblings \in Seq(Nat) /\ st[j].siblings # <<>>
  <2>1. st[j] \in Frames
    OBVIOUS
  <2> QED
    BY <2>1 DEF Frames, Frame
<1>2. Contains(st[j].siblings, Last(st[j].siblings)) /\ Last(st[j].siblings) \in Nat
  BY <1>1 DEF Contains, Last
<1> QED
  BY <1>2 DEF Frame

LEMMA FrontFacts ==
  ASSUME NEW S, NEW s \in Seq(S), Len(s) > 0
  PROVE  /\ Front(s) \in Seq(S) /\ Len(Front(s)) = Len(s) - 1
         /\ \A j \in 1 .. Len(s) - 1 : Front(s)[j] = s[j]
<1> DEFINE n == Len(s) - 1
<1>1. n \in Int /\ n \in Nat /\ Len(s) = n + 1 /\ \A j \in 1 .. n : s[j] \in S
  OBVIOUS
<1>2. Front(s) = SubSeq(s, 1, n)
  BY DEF Front
<1> HIDE DEF n
<1>3. /\ SubSeq(s, 1, n) \in Seq(S)
      /\ Len(SubSeq(s, 1, n)) = IF 1 <= n THEN n - 1 + 1 ELSE 0
      /\ \A j \in 1 .. n - 1 + 1 : SubSeq(s, 1, n)[j] = s[1 + j - 1]
  BY <1>1, SubSeqProperties
<1>4. Len(SubSeq(s, 1, n)) = n /\ n - 1 + 1 = n /\ \A j \in 1 .. n : 1 + j - 1 = j
  BY <1>1, <1>3
<1>5. \A j \in 1 .. n : SubSeq(s, 1, n)[j] = s[j]
  BY <1>1, <1>3, <1>4
<1> QED
  BY <1>1, <1>2, <1>3, <1>4, <1>5 DEF n

\* What BuildParent does: the top frame goes, and its siblings are attached.
PopsTo(st, up, rest, up2) ==
  /\ Len(rest) = Len(st) - 1
  /\ \A j \in 1 .. Len(st) - 1 : rest[j] = st[j]
  /\ \A i \in 1 .. Len(levels) :
       up2[i] = IF Contains(st[Len(st)].siblings, i) THEN Last(st[Len(st) - 1].siblings) ELSE up[i]

LEMMA PopStack ==
  ASSUME levels \in Seq(1 .. 4), NEW level \in Nat, NEW st \in Seq(Frames), NEW up,
         Nested(st, up), Trail(st, level), Len(st) > 1, level < st[Len(st)].level,
         NEW rest \in Seq(Frames), NEW up2, PopsTo(st, up, rest, up2)
  PROVE  Nested(rest, up2) /\ Trail(rest, level)
<1>p. PICK m \in Nat : m = Len(st) /\ m > 1 /\ level < st[m].level
  OBVIOUS
<1>q. /\ Len(rest) = m - 1 /\ \A j \in 1 .. m - 1 : rest[j] = st[j]
      /\ \A i \in 1 .. Len(levels) :
           up2[i] = IF Contains(st[m].siblings, i) THEN Last(st[m - 1].siblings) ELSE up[i]
  BY <1>p DEF PopsTo
<1>r. \A j \in 1 .. m : st[j] \in Frames /\ st[j].level \in Nat
  <2>1. \A j \in 1 .. m : st[j] \in Frames
    BY <1>p
  <2> QED
    BY <2>1, SMTT(30) DEF Frames
<1>l. \A i \in 1 .. Len(levels) : levels[i] \in Nat
  BY SMTT(30)
<1> USE <1>p, <1>q
<1>f. \A j \in 1 .. m : Frame(st, j)
  BY DEF Nested
<1>m. m \in 1 .. m /\ m - 1 \in 1 .. m - 1 /\ 1 .. m - 1 = (1 .. m) \ {m}
  OBVIOUS
<1>1. \A j \in 1 .. m - 1 : Frame(rest, j)
  <2> SUFFICES ASSUME NEW j \in 1 .. m - 1 PROVE Frame(rest, j)
    OBVIOUS
  <2>1. rest[j] = st[j] /\ \A k \in 1 .. j - 1 : rest[k] = st[k]
    OBVIOUS
  <2>2. Under(rest, j) = Under(st, j)
    <3>1. j # 1 => j - 1 \in 1 .. m - 1
      OBVIOUS
    <3> QED
      BY <3>1 DEF Under
  <2>3. Frame(st, j)
    BY <1>f, <1>m
  <2> QED
    BY <2>1, <2>2, <2>3 DEF Frame
<1>2. \A i \in 1 .. Len(levels) :
        OnStack(rest, i) <=> OnStack(st, i) /\ ~Contains(st[m].siblings, i)
  <2> SUFFICES ASSUME NEW i \in 1 .. Len(levels)
               PROVE  OnStack(rest, i) <=> OnStack(st, i) /\ ~Contains(st[m].siblings, i)
    OBVIOUS
  <2>1. ASSUME NEW j \in 1 .. m - 1 PROVE ~(Contains(st[j].siblings, i) /\ Contains(st[m].siblings, i))
    <3>1. Frame(st, j) /\ Frame(st, m) /\ st[j].level < st[m].level
      BY <1>f, <1>m DEF Frame
    <3>3. st[j].level \in Nat /\ st[m].level \in Nat
      BY <1>m, <1>r
    <3>4. st[j].level # st[m].level
      BY <3>1, <3>3
    <3> QED
      BY <3>1, <3>4 DEF Frame
  <2> QED
    BY <1>m, <2>1 DEF OnStack
<1>3. \A i \in 1 .. Len(levels) : up2[i] = IF OnStack(rest, i) THEN 0 ELSE Above(i)
  <2> SUFFICES ASSUME NEW i \in 1 .. Len(levels)
               PROVE  up2[i] = IF OnStack(rest, i) THEN 0 ELSE Above(i)
    OBVIOUS
  <2>1. up[i] = IF OnStack(st, i) THEN 0 ELSE Above(i)
    BY DEF Nested
  <2>2. Contains(st[m].siblings, i) => Above(i) = Last(st[m - 1].siblings)
    <3>1. Frame(st, m) /\ Under(st, m) = Last(st[m - 1].siblings)
      BY <1>f, <1>m DEF Under
    <3> QED
      BY <3>1 DEF Frame
  <2>3. Contains(st[m].siblings, i) => OnStack(st, i)
    BY <1>m DEF OnStack
  <2> QED
    BY <1>2, <2>1, <2>2, <2>3
<1>4. Trail(rest, level)
  <2> SUFFICES ASSUME NEW j \in 1 .. m - 1, NEW i \in Last(st[j].siblings) + 1 .. Len(levels)
               PROVE  IF j = m - 1 THEN levels[i] > level ELSE levels[i] >= rest[j + 1].level
    BY DEF Trail
  <2>1. levels[i] >= st[j + 1].level
    BY <1>m DEF Trail
  <2>2. j # m - 1 => rest[j + 1] = st[j + 1]
    BY SMTT(30)
  <2>3. levels[i] \in Nat
    <3>1. Last(st[j].siblings) \in Nat
      BY <1>f, <1>m, LastInside
    <3>2. i \in 1 .. Len(levels)
      BY <3>1
    <3> QED
      BY <1>l, <3>2
  <2>4. st[m].level \in Nat
    BY <1>m, <1>r
  <2> QED
    BY <2>1, <2>2, <2>3, <2>4
<1>5. rest # <<>> /\ st # <<>> /\ rest[1] = st[1]
  BY <1>m
<1> QED
  BY <1>1, <1>3, <1>4, <1>5 DEF Nested

LEMMA Pop ==
  ASSUME levels \in Seq(1 .. 4), NEW n \in Nat, Len(levels) <= n, NEW level \in Nat,
         NEW t \in Kept(n, level), ~Stopped(t, level)
  PROVE  BuildParent(t) \in Kept(n, level) /\ Len(BuildParent(t).stack) = Len(t.stack) - 1
<1>1. PICK st \in Seq(Frames), up \in Seq(Nat) : t.stack = st /\ t.parent = up
  BY DEF Kept
<1>2. PICK m \in Nat : m = Len(st) /\ m > 1 /\ level < st[m].level
  BY <1>1 DEF Stopped, Last
<1>3. /\ Len(up) = n
      /\ \A i \in Len(levels) + 1 .. n : up[i] = 0
      /\ Nested(st, up) /\ Trail(st, level)
      /\ levels # <<>>
  BY <1>1, <1>2 DEF Kept, Fits
<1>4. PICK rest \in Seq(Frames) :
        rest = Front(st) /\ Len(rest) = m - 1 /\ \A j \in 1 .. m - 1 : rest[j] = st[j]
  <2>1. /\ Front(st) \in Seq(Frames) /\ Len(Front(st)) = Len(st) - 1
        /\ \A j \in 1 .. Len(st) - 1 : Front(st)[j] = st[j]
    BY <1>2, FrontFacts
  <2> QED
    BY <1>2, <2>1
<1>5. PICK under \in 1 .. Len(levels) : under = Last(st[m - 1].siblings)
  <2>1. Frame(st, m - 1) /\ m - 1 \in 1 .. Len(st)
    BY <1>2, <1>3 DEF Nested
  <2> QED
    BY <2>1, LastInside
<1> DEFINE up2 == [i \in 1 .. n |-> IF Contains(st[m].siblings, i) THEN under ELSE up[i]]
<1>6. BuildParent(t) = [stack |-> rest, parent |-> up2]
  <2>1. DOMAIN up = 1 .. n /\ Last(st) = st[m]
    BY <1>2, <1>3 DEF Last
  <2> QED
    BY <1>1, <1>2, <1>4, <1>5, <2>1 DEF BuildParent
<1>7. up2 \in Seq(Nat) /\ Len(up2) = n
  <2>1. up2 \in [1 .. n -> Nat]
    BY <1>3, <1>5
  <2> HIDE DEF up2
  <2> QED
    BY <2>1
<1>8. /\ \A i \in 1 .. Len(levels) :
           up2[i] = IF Contains(st[m].siblings, i) THEN Last(st[m - 1].siblings) ELSE up[i]
      /\ \A i \in Len(levels) + 1 .. n : up2[i] = 0
  <2>1. \A i : Contains(st[m].siblings, i) => i \in 1 .. Len(levels)
    BY <1>2, <1>3 DEF Nested, Frame
  <2>2. Len(levels) \in Nat
    OBVIOUS
  <2> QED
    BY <1>3, <1>5, <2>1, <2>2, SMTT(30)
<1> HIDE DEF up2
<1>9. Nested(rest, up2) /\ Trail(rest, level)
  <2>1. Len(st) > 1 /\ level < st[Len(st)].level
    BY <1>2
  <2>2. Nested(st, up) /\ Trail(st, level)
    BY <1>3
  <2>3. PopsTo(st, up, rest, up2)
    BY <1>2, <1>4, <1>8 DEF PopsTo
  <2> QED
    BY <2>1, <2>2, <2>3, PopStack
<1>10. rest # <<>>
  BY <1>2, <1>4
<1> DEFINE q == [stack |-> rest, parent |-> up2]
<1>11. Fits(q, n, level)
  BY <1>3, <1>7, <1>8, <1>9, <1>10 DEF Fits
<1>12. q \in Kept(n, level)
  BY <1>7, <1>11 DEF Kept
<1> QED
  BY <1>1, <1>2, <1>4, <1>6, <1>12

LEMMA CloseFits ==
  ASSUME levels \in Seq(1 .. 4), NEW n \in Nat, Len(levels) <= n, NEW level \in Nat, NEW s,
         s \in Kept(n, level)
  PROVE  Closed(s, level) \in Kept(n, level) /\ Stopped(Closed(s, level), level)
<1>1. \A t \in Kept(n, level) : Len(t.stack) \in Nat
  BY DEF Kept
<1>2. \A t \in Kept(n, level) : ~Stopped(t, level) =>
        BuildParent(t) \in Kept(n, level) /\ Len(BuildParent(t).stack) = Len(t.stack) - 1
  BY Pop
<1> QED
  BY <1>1, <1>2, Closes

-----------------------------------------------------------------------------
OutlineType ==
  /\ levels \in Seq(1 .. 4)
  /\ stack \in Seq(Frames)
  /\ parent \in Seq(Nat) /\ Len(parent) = Len(levels)
  /\ affix \in {"building", "rendered", "threw"}

FirstIsHighest == \A i \in 1 .. Len(levels) : levels[i] >= levels[1]

OutlineInv ==
  /\ OutlineType
  /\ affix = "building" => /\ Nested(stack, parent) /\ Trail(stack, 4)
                           /\ stack = <<>> <=> levels = <<>>
                           /\ FirstIsHighest
  /\ affix = "rendered" => FirstIsHighest /\ \A i \in 1 .. Len(levels) : parent[i] = Above(i)
  /\ affix = "threw" => ~FirstIsHighest

\* The next heading, of the given level, once the frames below it are closed.
NextHeading(st, up, item, level) ==
  /\ levels \in Seq(1 .. 4) /\ FirstIsHighest
  /\ level \in 1 .. 4 /\ item = Len(levels) + 1
  /\ st \in Seq(Frames) /\ up \in Seq(Nat) /\ Len(up) = item /\ up[item] = 0
  /\ st = <<>> <=> levels = <<>>
  /\ Nested(st, up) /\ Trail(st, level)
  /\ levels' = Append(levels, level)

LEMMA AboveOld ==
  ASSUME NEW level, levels \in Seq(1 .. 4), levels' = Append(levels, level),
         NEW i \in 1 .. Len(levels)
  PROVE  levels'[i] = levels[i] /\ Above(i)' = Above(i)
<1>1. Len(levels) \in Nat /\ \A j \in 1 .. Len(levels) : levels'[j] = levels[j]
  OBVIOUS
<1>2. \A j \in 1 .. i - 1 : j \in 1 .. Len(levels)
  BY <1>1
<1>3. Shallower(i)' = Shallower(i)
  BY <1>1, <1>2 DEF Shallower
<1> QED
  BY <1>1, <1>3 DEF Above

LEMMA AboveNew ==
  ASSUME levels \in Seq(1 .. 4), NEW level \in 1 .. 4, levels' = Append(levels, level),
         NEW item \in Nat, item = Len(levels) + 1,
         NEW y \in 0 .. Len(levels), y # 0 => levels[y] < level,
         \A i \in y + 1 .. Len(levels) : levels[i] >= level
  PROVE  Above(item)' = y
<1> DEFINE T == {j \in 1 .. Len(levels) : levels[j] < level} \cup {0}
<1>1. Shallower(item)' \cup {0} = T
  <2>1. Len(levels) \in Nat /\ item - 1 = Len(levels) /\ levels'[item] = level
        /\ \A j \in 1 .. Len(levels) : levels'[j] = levels[j]
    OBVIOUS
  <2> QED
    BY <2>1 DEF Shallower
<1>2. T \in SUBSET Nat /\ y \in T
  OBVIOUS
<1>3. \A x \in T : x <= y
  <2> SUFFICES ASSUME NEW x \in 1 .. Len(levels), levels[x] < level, ~(x <= y) PROVE FALSE
    OBVIOUS
  <2>1. x \in y + 1 .. Len(levels) /\ levels[x] \in 1 .. 4
    OBVIOUS
  <2> QED
    BY <2>1
<1> HIDE DEF T
<1>4. Max(T) = y
  BY <1>2, <1>3, Greatest
<1> QED
  BY <1>1, <1>4 DEF Above

LEMMA FrameStays ==
  ASSUME NEW st, NEW up, NEW item \in Nat, NEW level, NextHeading(st, up, item, level),
         NEW ns, NEW j \in 1 .. Len(st), ns[j] = st[j],
         \A k \in 1 .. j - 1 : ns[k] = st[k]
  PROVE  Frame(ns, j)'
<1>1. Len(st) \in Nat /\ Frame(st, j) /\ Len(levels') = Len(levels) + 1 /\ Len(levels) \in Nat
  BY DEF NextHeading, Nested
<1>2. Under(ns, j)' = Under(st, j)
  <2>1. j # 1 => j - 1 \in 1 .. j - 1
    BY <1>1
  <2> QED
    BY <2>1 DEF Under
<1>3. \A i : Contains(ns[j].siblings, i)' => Contains(st[j].siblings, i)
  BY DEF Contains
<1>4. ASSUME NEW i, Contains(ns[j].siblings, i)'
      PROVE  i \in 1 .. Len(levels)' /\ levels'[i] = ns[j].level /\ Above(i)' = Under(ns, j)'
  <2>1. i \in 1 .. Len(levels) /\ levels[i] = st[j].level /\ Above(i) = Under(st, j)
    BY <1>1, <1>3, <1>4 DEF Frame
  <2>2. levels'[i] = levels[i] /\ Above(i)' = Above(i)
    BY <2>1, AboveOld DEF NextHeading
  <2> QED
    BY <1>1, <1>2, <2>1, <2>2
<1> QED
  BY <1>1, <1>4 DEF Frame

LEMMA LevelsRise ==
  ASSUME NEW st \in Seq(Frames), NEW up, Nested(st, up)
  PROVE  /\ \A j \in 1 .. Len(st) : st[j].level \in 1 .. 4
         /\ \A j, k \in 1 .. Len(st) : j < k => st[j].level < st[k].level
<1>1. \A j \in 1 .. Len(st) : st[j] \in Frames
  OBVIOUS
<1>2. \A j \in 1 .. Len(st) : Frame(st, j)
  BY DEF Nested
<1>3. ASSUME NEW j \in 1 .. Len(st), NEW k \in 1 .. Len(st), j < k PROVE st[j].level < st[k].level
  <2>1. j \in 1 .. k - 1
    BY <1>3
  <2> QED
    BY <1>2, <2>1 DEF Frame
<1> QED
  BY <1>1, <1>3 DEF Frames

\* A heading below the last open level opens a frame.
Opens(st, up, item, level, ns) ==
  /\ NextHeading(st, up, item, level)
  /\ st # <<>> => level > st[Len(st)].level
  /\ ns = Append(st, [level |-> level, siblings |-> <<item>>])

LEMMA OpensFrame ==
  ASSUME NEW st, NEW up, NEW item \in Nat, NEW level, NEW ns, Opens(st, up, item, level, ns)
  PROVE  ns \in Seq(Frames) /\ Nested(ns, up)' /\ Trail(ns, 4)'
<1> DEFINE new == [level |-> level, siblings |-> <<item>>]
<1>1. PICK m \in Nat : m = Len(st)
  BY SMTT(30) DEF Opens, NextHeading
<1>2. PICK n \in Nat : n = Len(levels)
  BY DEF Opens, NextHeading
<1>s. st \in Seq(Frames) /\ Nested(st, up) /\ Trail(st, level) /\ (m = 0 <=> n = 0)
  <2>1. st \in Seq(Frames) /\ Nested(st, up) /\ Trail(st, level) /\ (st = <<>> <=> levels = <<>>)
    BY DEF Opens, NextHeading
  <2>2. (st = <<>> <=> m = 0) /\ (levels = <<>> <=> n = 0)
    BY <1>1, <1>2, EmptySeq DEF Opens, NextHeading
  <2> QED
    BY <2>1, <2>2
<1>v. levels \in Seq(1 .. 4) /\ level \in 1 .. 4 /\ levels' = Append(levels, level)
  BY DEF Opens, NextHeading
<1>i. level \in Nat /\ level <= 4 /\ item = n + 1 /\ up[item] = 0
  BY <1>2 DEF Opens, NextHeading
<1>l. /\ Len(levels') = n + 1 /\ levels'[n + 1] = level
      /\ \A i \in 1 .. n : levels'[i] = levels[i] /\ levels[i] \in Nat
  BY <1>2, <1>v
<1>3. new \in Frames /\ new.siblings \in Seq(Nat) /\ new.siblings # <<>>
      /\ Last(new.siblings) = item /\ \A i : Contains(new.siblings, i) <=> i = item
  BY <1>v DEF Frames, Last, Contains
<1>4. /\ ns \in Seq(Frames) /\ Len(ns) = m + 1 /\ ns[m + 1] = new
      /\ \A j \in 1 .. m : ns[j] = st[j]
  <2> HIDE DEF new
  <2>1. ns = Append(st, new)
    BY DEF new, Opens
  <2> QED
    BY <1>1, <1>s, <1>3, <2>1
<1>5. new.level = level /\ new.siblings = <<item>>
  OBVIOUS
<1> HIDE DEF new
<1>f. \A j \in 1 .. m : Frame(st, j)
  BY <1>1, <1>s DEF Nested
<1>6. /\ \A j \in 1 .. m : st[j].level \in Nat /\ st[j].level <= st[m].level
      /\ \A j \in 1 .. m - 1 : st[j + 1].level <= st[m].level
  <2>1. /\ \A j \in 1 .. m : st[j].level \in 1 .. 4
        /\ \A j, k \in 1 .. m : j < k => st[j].level < st[k].level
    <3>1. /\ \A j \in 1 .. Len(st) : st[j].level \in 1 .. 4
          /\ \A j, k \in 1 .. Len(st) : j < k => st[j].level < st[k].level
      BY <1>s, LevelsRise
    <3> QED
      BY <1>1, <3>1
  <2>2. ASSUME NEW j \in 1 .. m PROVE st[j].level \in Nat /\ st[j].level <= st[m].level
    <3>1. m \in 1 .. m /\ (j < m \/ j = m)
      OBVIOUS
    <3>2. st[j].level \in Nat /\ st[m].level \in Nat
      BY <2>1, <3>1
    <3> QED
      BY <2>1, <3>1, <3>2
  <2>3. \A j \in 1 .. m - 1 : j + 1 \in 1 .. m
    OBVIOUS
  <2> QED
    BY <2>2, <2>3
<1>7. m > 0 => level > st[m].level
  <2>1. m > 0 => st # <<>>
    BY <1>1
  <2> QED
    BY <1>1, <2>1 DEF Opens
<1>8. Above(item)' = Under(ns, m + 1)
  <2>1. CASE m = 0
    <3>1. 0 \in 0 .. Len(levels) /\ \A i \in 0 + 1 .. Len(levels) : levels[i] >= level
      BY <1>2, <1>s, <2>1
    <3>2. Above(item)' = 0
      BY <1>2, <1>i, <1>v, <3>1, AboveNew
    <3> QED
      BY <2>1, <3>2 DEF Under
  <2>2. CASE m > 0
    <3>1. Frame(st, m) /\ m \in 1 .. m
      BY <1>f, <2>2
    <3>2. PICK y \in 1 .. n : y = Last(st[m].siblings) /\ levels[y] = st[m].level
      BY <1>1, <1>2, <1>s, <3>1, LastInside
    <3>3. levels[y] < level
      BY <1>7, <2>2, <3>2
    <3>4. \A i \in y + 1 .. n : levels[i] >= level
      <4> SUFFICES ASSUME NEW i \in y + 1 .. n PROVE levels[i] >= level
        OBVIOUS
      <4>1. levels[i] > level
        BY <1>1, <1>2, <1>s, <3>1, <3>2 DEF Trail
      <4>2. levels[i] \in Nat
        BY <1>l
      <4> QED
        BY <1>i, <4>1, <4>2
    <3>5. Above(item)' = y
      <4>1. y \in 0 .. Len(levels) /\ item = Len(levels) + 1
        BY <1>2, <1>i
      <4>2. (y # 0 => levels[y] < level) /\ \A i \in y + 1 .. Len(levels) : levels[i] >= level
        BY <1>2, <3>3, <3>4
      <4> QED
        BY <1>v, <4>1, <4>2, AboveNew
    <3>6. Under(ns, m + 1) = Last(st[m].siblings)
      BY <1>4, <2>2, <3>1 DEF Under
    <3> QED
      BY <3>2, <3>5, <3>6
  <2> QED
    BY <2>1, <2>2
<1>9. \A j \in 1 .. m + 1 : Frame(ns, j)'
  <2>1. ASSUME NEW j \in 1 .. m PROVE Frame(ns, j)'
    <3>1. ns[j] = st[j] /\ \A k \in 1 .. j - 1 : ns[k] = st[k]
      BY <1>4
    <3> QED
      BY <1>1, <3>1, FrameStays DEF Opens
  <2>2. Frame(ns, m + 1)'
    <3>0. (m + 1) - 1 = m
      OBVIOUS
    <3>1. \A k \in 1 .. (m + 1) - 1 : ns[k].level < ns[m + 1].level
      <4> SUFFICES ASSUME NEW k \in 1 .. m PROVE ns[k].level < ns[m + 1].level
        BY <3>0
      <4>1. ns[k].level = st[k].level /\ ns[m + 1].level = level /\ m > 0
        BY <1>4, <1>5
      <4>2. st[k].level \in Nat /\ st[k].level <= st[m].level /\ st[m].level \in Nat
        BY <1>6
      <4> QED
        BY <1>7, <1>i, <4>1, <4>2
    <3>2. \A i : Contains(ns[m + 1].siblings, i)' => i = item
      BY <1>3, <1>4 DEF Contains
    <3>3. ns[m + 1].siblings # <<>> /\ item \in 1 .. Len(levels') /\ levels'[item] = ns[m + 1].level
      BY <1>3, <1>4, <1>5, <1>i, <1>l
    <3>4. Under(ns, m + 1)' = Under(ns, m + 1)
      BY DEF Under
    <3> QED
      BY <1>8, <3>1, <3>2, <3>3, <3>4 DEF Frame
  <2> QED
    BY <2>1, <2>2
<1>10. ASSUME NEW i \in 1 .. n + 1 PROVE up[i] = IF OnStack(ns, i) THEN 0 ELSE Above(i)'
  <2>1. CASE i = n + 1
    <3>1. Contains(ns[m + 1].siblings, i) /\ m + 1 \in 1 .. Len(ns)
      BY <1>3, <1>4, <1>i, <2>1
    <3> QED
      BY <1>i, <2>1, <3>1 DEF OnStack
  <2>2. CASE i \in 1 .. n
    <3>1. up[i] = IF OnStack(st, i) THEN 0 ELSE Above(i)
      BY <1>2, <1>s, <2>2 DEF Nested
    <3>2. OnStack(ns, i) <=> OnStack(st, i)
      <4>1. ~Contains(ns[m + 1].siblings, i)
        BY <1>i, <1>3, <1>4, <2>2
      <4>2. \A j \in 1 .. m + 1 : j = m + 1 \/ j \in 1 .. m
        OBVIOUS
      <4>3. \A j \in 1 .. m : j \in 1 .. m + 1
        OBVIOUS
      <4> QED
        BY <1>1, <1>4, <4>1, <4>2, <4>3 DEF OnStack
    <3>3. Above(i)' = Above(i)
      BY <1>2, <1>v, <2>2, AboveOld
    <3> QED
      BY <3>1, <3>2, <3>3
  <2> QED
    BY <2>1, <2>2
<1>11. ASSUME NEW j \in 1 .. m + 1, NEW i \in Last(ns[j].siblings) + 1 .. n + 1
       PROVE  IF j = m + 1 THEN levels'[i] > 4 ELSE levels'[i] >= ns[j + 1].level
  <2>1. CASE j = m + 1
    <3>1. Last(ns[j].siblings) = n + 1
      BY <1>3, <1>4, <1>i, <2>1
    <3> QED
      BY <3>1
  <2>2. CASE j \in 1 .. m
    <3>1. Last(ns[j].siblings) \in Nat /\ ns[j] = st[j]
      BY <1>1, <1>f, <1>s, <1>4, <2>2, LastInside
    <3>2. CASE j = m
      <4>1. ns[j + 1].level = level
        BY <1>4, <1>5, <3>2
      <4>2. CASE i = n + 1
        BY <1>i, <1>l, <2>2, <4>1, <4>2
      <4>3. CASE i # n + 1
        <5>1. i \in 1 .. n /\ i \in Last(st[j].siblings) + 1 .. n
          BY <3>1, <4>3
        <5>2. levels[i] > level
          BY <1>1, <1>2, <1>s, <2>2, <3>2, <5>1 DEF Trail
        <5>3. levels'[i] = levels[i] /\ levels[i] \in Nat
          BY <1>l, <5>1
        <5> QED
          BY <1>i, <2>2, <4>1, <5>2, <5>3
      <4> QED
        BY <4>2, <4>3
    <3>3. CASE j # m
      <4>1. j \in 1 .. m - 1 /\ j + 1 \in 1 .. m /\ ns[j + 1] = st[j + 1]
        BY <1>4, <2>2, <3>3
      <4>2. CASE i = n + 1
        <5>1. st[j + 1].level <= st[m].level /\ st[j + 1].level \in Nat /\ st[m].level \in Nat
          BY <1>6, <4>1
        <5>2. level > st[m].level
          BY <1>7, <2>2
        <5> QED
          BY <1>i, <1>l, <2>2, <4>1, <4>2, <5>1, <5>2
      <4>3. CASE i # n + 1
        <5>1. i \in 1 .. n /\ i \in Last(st[j].siblings) + 1 .. n
          BY <3>1, <4>3
        <5>2. levels[i] >= st[j + 1].level
          BY <1>1, <1>2, <1>s, <2>2, <3>3, <5>1 DEF Trail
        <5>3. levels'[i] = levels[i] /\ levels[i] \in Nat
          BY <1>l, <5>1
        <5> QED
          BY <2>2, <4>1, <5>2, <5>3
      <4> QED
        BY <4>2, <4>3
    <3> QED
      BY <3>2, <3>3
  <2> QED
    BY <2>1, <2>2
<1>12. ns # <<>> /\ ns[1].level = levels'[1]
  <2>1. ns # <<>>
    BY <1>4
  <2>2. CASE m = 0
    BY <1>s, <1>4, <1>5, <1>l, <2>1, <2>2
  <2>3. CASE m > 0
    <3>1. 1 \in 1 .. m /\ 1 \in 1 .. n /\ st # <<>>
      BY <1>1, <1>s, <2>3
    <3> QED
      BY <1>s, <1>4, <1>l, <2>1, <3>1 DEF Nested
  <2> QED
    BY <2>2, <2>3
<1>13. Nested(ns, up)'
  <2>1. \A i : OnStack(ns, i)' <=> OnStack(ns, i)
    BY DEF OnStack, Contains
  <2> QED
    BY <1>4, <1>9, <1>10, <1>12, <1>l, <2>1 DEF Nested
<1>14. Trail(ns, 4)'
  <2>1. \A j : Last(ns[j].siblings)' = Last(ns[j].siblings)
    BY DEF Last
  <2> QED
    BY <1>4, <1>11, <1>l, <2>1 DEF Trail
<1> QED
  BY <1>4, <1>13, <1>14

\* A heading of the last open level joins its frame.
Joins(st, up, item, level, ns) ==
  /\ NextHeading(st, up, item, level)
  /\ st # <<>> /\ level = st[Len(st)].level
  /\ ns = [st EXCEPT ![Len(st)].siblings = Append(@, item)]

LEMMA JoinsFrame ==
  ASSUME NEW st, NEW up, NEW item \in Nat, NEW level, NEW ns, Joins(st, up, item, level, ns)
  PROVE  ns \in Seq(Frames) /\ Nested(ns, up)' /\ Trail(ns, 4)'
<1>1. PICK m \in Nat : m = Len(st)
  BY DEF Joins, NextHeading
<1>0. NextHeading(st, up, item, level)
  BY DEF Joins
<1>2. PICK n \in Nat : n = Len(levels)
  BY <1>0 DEF NextHeading
<1>s. st \in Seq(Frames) /\ Nested(st, up) /\ Trail(st, level) /\ m > 0 /\ n > 0
  <2>0. st # <<>> /\ (st = <<>> <=> levels = <<>>)
    BY DEF Joins, NextHeading
  <2>1. st \in Seq(Frames) /\ Nested(st, up) /\ Trail(st, level) /\ st # <<>> /\ levels # <<>>
    BY <2>0 DEF Joins, NextHeading
  <2>2. (st = <<>> <=> m = 0) /\ (levels = <<>> <=> n = 0)
    BY <1>1, <1>2, EmptySeq DEF Joins, NextHeading
  <2> QED
    BY <2>1, <2>2
<1>v. levels \in Seq(1 .. 4) /\ level \in 1 .. 4 /\ levels' = Append(levels, level)
  BY DEF Joins, NextHeading
<1>i. level \in Nat /\ item = n + 1 /\ up[item] = 0 /\ level = st[m].level
  BY <1>1, <1>2 DEF Joins, NextHeading
<1>l. /\ Len(levels') = n + 1 /\ levels'[n + 1] = level
      /\ \A i \in 1 .. n : levels'[i] = levels[i] /\ levels[i] \in Nat
  BY <1>2, <1>v
<1>3. PICK sib : sib = st[m].siblings
  OBVIOUS
<1>m. m \in 1 .. m /\ \A j \in 1 .. m : j = m \/ j \in 1 .. m - 1
  BY <1>s
<1>4. st[m] \in Frames /\ sib \in Seq(Nat) /\ st[m] = [level |-> level, siblings |-> sib]
  <2>1. st[m] \in Frames
    BY <1>1, <1>s, <1>m
  <2> QED
    BY <1>i, <1>3, <2>1 DEF Frames
<1>5. PICK grown : grown = Append(sib, item)
  OBVIOUS
<1>6. /\ grown \in Seq(Nat) /\ grown # <<>> /\ Last(grown) = item
      /\ \A i : Contains(grown, i) <=> Contains(sib, i) \/ i = item
  <2>1. grown \in Seq(Nat) /\ Len(grown) = Len(sib) + 1 /\ grown[Len(sib) + 1] = item
        /\ Len(sib) \in Nat /\ \A k \in 1 .. Len(sib) : grown[k] = sib[k]
    BY <1>4, <1>5
  <2>2. grown # <<>> /\ Last(grown) = item
    BY <2>1, EmptySeq DEF Last
  <2>3. ASSUME NEW i PROVE Contains(grown, i) <=> Contains(sib, i) \/ i = item
    <3>1. Contains(grown, i) <=> \E k \in 1 .. Len(sib) + 1 : grown[k] = i
      BY <2>1 DEF Contains
    <3>2. Contains(sib, i) <=> \E k \in 1 .. Len(sib) : sib[k] = i
      BY <1>4 DEF Contains
    <3>3. \A k \in 1 .. Len(sib) + 1 : k \in 1 .. Len(sib) \/ k = Len(sib) + 1
      BY <2>1
    <3>4. \A k \in 1 .. Len(sib) : k \in 1 .. Len(sib) + 1
      BY <2>1
    <3>5. Len(sib) + 1 \in 1 .. Len(sib) + 1
      BY <2>1
    <3> QED
      BY <2>1, <3>1, <3>2, <3>3, <3>4, <3>5
  <2> QED
    BY <2>1, <2>2, <2>3
<1>7. /\ ns \in Seq(Frames) /\ Len(ns) = m /\ ns[m].siblings = grown /\ ns[m].level = level
      /\ \A j \in 1 .. m - 1 : ns[j] = st[j]
  <2> DEFINE new == [level |-> level, siblings |-> grown]
  <2>1. new \in Frames /\ new.siblings = grown /\ new.level = level
    BY <1>v, <1>6 DEF Frames
  <2>2. ns = [st EXCEPT ![m] = new]
    <3>1. ns = [st EXCEPT ![m] = [st[m] EXCEPT !.siblings = Append(st[m].siblings, item)]]
      BY <1>1 DEF Joins
    <3>2. [st[m] EXCEPT !.siblings = Append(st[m].siblings, item)]
            = [st[m] EXCEPT !.siblings = grown]
      BY <1>3, <1>5
    <3>3. [st[m] EXCEPT !.siblings = grown] = new
      BY <1>4
    <3> QED
      BY <3>1, <3>2, <3>3
  <2> HIDE DEF new
  <2>3. /\ ns \in Seq(Frames) /\ Len(ns) = m /\ ns[m] = new
        /\ \A j \in 1 .. m : j # m => ns[j] = st[j]
    BY <1>1, <1>s, <1>m, <2>1, <2>2
  <2>4. \A j \in 1 .. m - 1 : j \in 1 .. m /\ j # m
    OBVIOUS
  <2> QED
    BY <2>1, <2>3, <2>4
<1>f. \A j \in 1 .. m : Frame(st, j)
  BY <1>1, <1>s DEF Nested
<1>r. /\ \A j \in 1 .. m : st[j].level \in Nat
      /\ \A j, k \in 1 .. m : j < k => st[j].level < st[k].level
  <2>1. /\ \A j \in 1 .. m : st[j].level \in 1 .. 4
        /\ \A j, k \in 1 .. m : j < k => st[j].level < st[k].level
    BY <1>1, <1>s, LevelsRise
  <2> QED
    BY <2>1
<1>u. /\ Under(ns, m) = Under(st, m) /\ \A j \in 1 .. m - 1 : Under(ns, j) = Under(st, j)
  <2>1. \A j \in 1 .. m : j # 1 => j - 1 \in 1 .. m - 1
    OBVIOUS
  <2> QED
    BY <1>m, <1>7, <2>1 DEF Under
<1>8. Above(item)' = Under(st, m)
  <2>1. CASE m = 1
    <3>1. level = levels[1]
      BY <1>s, <1>i, <2>1 DEF Joins, Nested
    <3>2. \A i \in 0 + 1 .. Len(levels) : levels[i] >= level
      BY <3>1 DEF Joins, NextHeading, FirstIsHighest
    <3>3. Above(item)' = 0
      <4>1. 0 \in 0 .. Len(levels) /\ item = Len(levels) + 1
        BY <1>2, <1>i
      <4> QED
        BY <1>v, <3>2, <4>1, AboveNew
    <3> QED
      BY <2>1, <3>3 DEF Under
  <2>2. CASE m # 1
    <3>0. m - 1 \in 1 .. m /\ m - 1 < m /\ m - 1 # m /\ (m - 1) + 1 = m
      BY <1>s, <2>2
    <3>1. PICK y \in 1 .. n : y = Last(st[m - 1].siblings) /\ levels[y] = st[m - 1].level
      BY <1>1, <1>2, <1>s, <1>f, <3>0, LastInside
    <3>2. levels[y] < level
      BY <1>i, <1>m, <1>r, <3>0, <3>1
    <3>3. \A i \in y + 1 .. n : levels[i] >= level
      BY <1>1, <1>2, <1>s, <1>i, <3>0, <3>1 DEF Trail
    <3>4. Above(item)' = y
      <4>1. y \in 0 .. Len(levels) /\ item = Len(levels) + 1
        BY <1>2, <1>i
      <4>2. (y # 0 => levels[y] < level) /\ \A i \in y + 1 .. Len(levels) : levels[i] >= level
        BY <1>2, <3>2, <3>3
      <4> QED
        BY <1>v, <4>1, <4>2, AboveNew
    <3> QED
      BY <2>2, <3>1, <3>4 DEF Under
  <2> QED
    BY <2>1, <2>2
<1>9. \A j \in 1 .. m : Frame(ns, j)'
  <2>1. ASSUME NEW j \in 1 .. m - 1 PROVE Frame(ns, j)'
    <3>1. ns[j] = st[j] /\ j \in 1 .. m /\ \A k \in 1 .. j - 1 : ns[k] = st[k]
      BY <1>7
    <3> QED
      BY <1>1, <3>1, FrameStays DEF Joins
  <2>2. Frame(ns, m)'
    <3>1. \A k \in 1 .. m - 1 : ns[k].level < ns[m].level
      <4>1. \A k \in 1 .. m - 1 : k \in 1 .. m /\ k < m
        OBVIOUS
      <4> QED
        BY <1>i, <1>m, <1>7, <1>r, <4>1
    <3>2. ASSUME NEW i, Contains(ns[m].siblings, i)'
          PROVE  i \in 1 .. Len(levels') /\ levels'[i] = ns[m].level /\ Above(i)' = Under(ns, m)
      <4>1. Contains(sib, i) \/ i = item
        BY <1>6, <1>7, <3>2 DEF Contains
      <4>2. CASE i = item
        <5>1. item \in 1 .. Len(levels')
          BY <1>i, <1>l
        <5> QED
          BY <1>i, <1>l, <1>7, <1>u, <1>8, <4>2, <5>1
      <4>3. CASE Contains(sib, i)
        <5>1. i \in 1 .. n /\ levels[i] = level /\ Above(i) = Under(st, m)
          BY <1>2, <1>i, <1>3, <1>f, <1>m, <4>3 DEF Frame
        <5>2. levels'[i] = levels[i] /\ Above(i)' = Above(i)
          BY <1>2, <1>v, <5>1, AboveOld
        <5>3. i \in 1 .. Len(levels')
          BY <1>l, <5>1
        <5> QED
          BY <1>7, <1>u, <5>1, <5>2, <5>3
      <4> QED
        BY <4>1, <4>2, <4>3
    <3>3. Under(ns, m)' = Under(ns, m)
      BY DEF Under
    <3> QED
      BY <1>6, <1>7, <3>1, <3>2, <3>3 DEF Frame
  <2> QED
    BY <1>m, <2>1, <2>2
<1>10. ASSUME NEW i \in 1 .. n + 1 PROVE up[i] = IF OnStack(ns, i) THEN 0 ELSE Above(i)'
  <2>1. CASE i = n + 1
    <3>1. Contains(ns[m].siblings, i) /\ m \in 1 .. Len(ns)
      BY <1>6, <1>7, <1>i, <1>m, <2>1
    <3> QED
      BY <1>i, <2>1, <3>1 DEF OnStack
  <2>2. CASE i \in 1 .. n
    <3>1. up[i] = IF OnStack(st, i) THEN 0 ELSE Above(i)
      BY <1>2, <1>s, <2>2 DEF Nested
    <3>2. OnStack(ns, i) <=> OnStack(st, i)
      <4>1. Contains(ns[m].siblings, i) <=> Contains(st[m].siblings, i)
        BY <1>i, <1>3, <1>6, <1>7, <2>2
      <4>2. \A j \in 1 .. m : Contains(ns[j].siblings, i) <=> Contains(st[j].siblings, i)
        BY <1>m, <1>7, <4>1
      <4> QED
        BY <1>1, <1>7, <4>2 DEF OnStack
    <3>3. Above(i)' = Above(i)
      BY <1>2, <1>v, <2>2, AboveOld
    <3> QED
      BY <3>1, <3>2, <3>3
  <2> QED
    BY <2>1, <2>2
<1>11. ASSUME NEW j \in 1 .. m, NEW i \in Last(ns[j].siblings) + 1 .. n + 1
       PROVE  IF j = m THEN levels'[i] > 4 ELSE levels'[i] >= ns[j + 1].level
  <2>1. CASE j = m
    <3>1. Last(ns[j].siblings) = n + 1
      BY <1>6, <1>7, <1>i, <2>1
    <3> QED
      BY <3>1
  <2>2. CASE j # m
    <3>1. j \in 1 .. m - 1 /\ j + 1 \in 1 .. m
      BY <2>2
    <3>2. ns[j + 1].level = st[j + 1].level /\ ns[j] = st[j] /\ st[j + 1].level \in Nat
      BY <1>i, <1>m, <1>7, <1>r, <3>1
    <3>3. Last(st[j].siblings) \in Nat
      BY <1>1, <1>f, <1>s, LastInside
    <3>4. CASE i = n + 1
      <4>1. j + 1 = m \/ j + 1 < m
        BY <3>1
      <4>2. level >= st[j + 1].level
        BY <1>i, <1>m, <1>r, <3>1, <3>2, <4>1
      <4> QED
        BY <1>l, <2>2, <3>2, <3>4, <4>2
    <3>5. CASE i # n + 1
      <4>1. i \in 1 .. n /\ i \in Last(st[j].siblings) + 1 .. n
        BY <3>2, <3>3, <3>5
      <4>2. levels[i] >= st[j + 1].level
        BY <1>1, <1>2, <1>s, <2>2, <4>1 DEF Trail
      <4> QED
        BY <1>l, <2>2, <3>2, <4>1, <4>2
    <3> QED
      BY <3>4, <3>5
  <2> QED
    BY <2>1, <2>2
<1>12. ns # <<>> /\ ns[1].level = levels'[1]
  <2>1. ns # <<>> /\ 1 \in 1 .. m /\ 1 \in 1 .. n /\ st # <<>>
    BY <1>1, <1>s, <1>7, EmptySeq
  <2>2. ns[1].level = st[1].level
    BY <1>i, <1>m, <1>7, <2>1
  <2> QED
    BY <1>s, <1>l, <2>1, <2>2 DEF Nested
<1>13. Nested(ns, up)'
  <2>1. \A i : OnStack(ns, i)' <=> OnStack(ns, i)
    BY DEF OnStack, Contains
  <2> QED
    BY <1>7, <1>9, <1>10, <1>12, <1>l, <2>1 DEF Nested
<1>14. Trail(ns, 4)'
  <2>1. \A j : Last(ns[j].siblings)' = Last(ns[j].siblings)
    BY DEF Last
  <2> QED
    BY <1>7, <1>11, <1>l, <2>1 DEF Trail
<1> QED
  BY <1>7, <1>13, <1>14

LEMMA StillHighest ==
  ASSUME NEW st, NEW up, NEW item \in Nat, NEW level, NextHeading(st, up, item, level),
         st # <<>> => level >= st[Len(st)].level
  PROVE  FirstIsHighest'
<1>1. PICK n \in Nat : n = Len(levels)
  BY DEF NextHeading
<1>2. /\ Len(levels') = n + 1 /\ levels'[n + 1] = level /\ level \in Nat
      /\ \A i \in 1 .. n : levels'[i] = levels[i] /\ levels[i] \in Nat
  <2>1. levels \in Seq(1 .. 4) /\ level \in 1 .. 4 /\ levels' = Append(levels, level)
    BY DEF NextHeading
  <2> QED
    BY <1>1, <2>1
<1>3. CASE n = 0
  <2>1. \A i \in 1 .. n + 1 : i = n + 1 /\ i = 1
    BY <1>3
  <2> QED
    BY <1>2, <2>1 DEF FirstIsHighest
<1>4. CASE n > 0
  <2>1. levels # <<>>
    BY <1>1, <1>4, EmptySeq
  <2>2. st # <<>> /\ st \in Seq(Frames) /\ Nested(st, up)
    BY <2>1 DEF NextHeading
  <2>3. PICK m \in Nat : m = Len(st) /\ m > 0
    BY <2>2, EmptySeq
  <2>4. level >= st[m].level /\ st[1].level = levels[1]
    BY <2>2, <2>3 DEF Nested
  <2>5. st[1].level \in Nat /\ st[m].level \in Nat /\ st[1].level <= st[m].level
    <3>1. 1 \in 1 .. m /\ m \in 1 .. m /\ (m = 1 \/ 1 < m)
      BY <2>3
    <3>2. /\ \A j \in 1 .. m : st[j].level \in 1 .. 4
          /\ \A j, k \in 1 .. m : j < k => st[j].level < st[k].level
      BY <2>2, <2>3, LevelsRise
    <3>3. st[1].level \in 1 .. 4 /\ st[m].level \in 1 .. 4
      BY <3>1, <3>2
    <3> QED
      BY <3>1, <3>2, <3>3, SMTT(30)
  <2>6. level >= levels[1]
    BY <1>2, <2>4, <2>5
  <2>7. 1 \in 1 .. n /\ \A i \in 1 .. n + 1 : i \in 1 .. n \/ i = n + 1
    BY <1>4
  <2>8. \A i \in 1 .. n : levels[i] >= levels[1]
    BY <1>1 DEF NextHeading, FirstIsHighest
  <2> QED
    BY <1>2, <2>6, <2>7, <2>8 DEF FirstIsHighest
<1> QED
  BY <1>1, <1>3, <1>4

LEMMA Carried ==
  ASSUME NEW ns, NEW up, stack' = ns, parent' = up, Nested(ns, up)', Trail(ns, 4)'
  PROVE  Nested(stack, parent)' /\ Trail(stack, 4)'
<1>1. Nested(stack, parent)'
  BY DEF Nested, Frame, Under, OnStack, Contains, Last
<1>2. Trail(stack, 4)'
  BY DEF Trail, Last
<1> QED
  BY <1>1, <1>2

\* Nothing is deeper than level 4, so behind the top frame there is nothing at all.
LEMMA TrailsDown ==
  ASSUME levels \in Seq(1 .. 4), NEW st \in Seq(Frames), NEW up, Nested(st, up), Trail(st, 4),
         NEW level \in Nat, level <= 4
  PROVE  Trail(st, level)
<1> SUFFICES ASSUME NEW j \in 1 .. Len(st), NEW i \in Last(st[j].siblings) + 1 .. Len(levels)
             PROVE  IF j = Len(st) THEN levels[i] > level ELSE levels[i] >= st[j + 1].level
  BY DEF Trail
<1>1. Last(st[j].siblings) \in Nat
  BY LastInside DEF Nested
<1>2. i \in 1 .. Len(levels) /\ levels[i] \in 1 .. 4
  BY <1>1
<1>3. IF j = Len(st) THEN levels[i] > 4 ELSE levels[i] >= st[j + 1].level
  BY DEF Trail
<1> QED
  BY <1>2, <1>3

LEMMA InitOutlineInv == InitOutline => OutlineInv
<1> SUFFICES ASSUME InitOutline PROVE OutlineInv
  OBVIOUS
<1> USE DEF InitOutline
<1>1. Len(levels) = 0 /\ Len(stack) = 0 /\ Len(parent) = 0
  BY EmptySeq
<1>2. OutlineType
  BY <1>1, EmptySeq DEF OutlineType
<1>3. FirstIsHighest
  BY <1>1 DEF FirstIsHighest
<1>4. Nested(stack, parent) /\ Trail(stack, 4)
  BY <1>1 DEF Nested, Trail
<1> QED
  BY <1>2, <1>3, <1>4 DEF OutlineInv

LEMMA HeadingStep ==
  ASSUME OutlineInv, NEW level \in 1 .. 4, Heading(level)
  PROVE  OutlineInv'
<1> DEFINE s0 == [stack |-> stack, parent |-> Append(parent, 0)]
<1>1. PICK item \in Nat : item = Len(levels) + 1
  BY DEF OutlineInv, OutlineType
<1>2. affix = "building" /\ levels' = Append(levels, level) /\ level \in Nat /\ level <= 4
  BY DEF Heading
<1>3. /\ Nested(stack, parent) /\ Trail(stack, 4) /\ FirstIsHighest
      /\ stack = <<>> <=> levels = <<>>
  BY <1>2 DEF OutlineInv
<1>4. levels \in Seq(1 .. 4) /\ stack \in Seq(Frames) /\ parent \in Seq(Nat)
      /\ Len(parent) = Len(levels)
  BY DEF OutlineInv, OutlineType
<1>5. s0 \in Kept(item, level)
  <2>1. /\ Append(parent, 0) \in Seq(Nat) /\ Len(Append(parent, 0)) = item
        /\ \A i \in 1 .. Len(levels) : Append(parent, 0)[i] = parent[i]
        /\ \A i \in Len(levels) + 1 .. item : Append(parent, 0)[i] = 0
    BY <1>1, <1>4
  <2>2. Trail(stack, level)
    BY <1>2, <1>3, <1>4, TrailsDown
  <2>3. Nested(stack, Append(parent, 0))
    BY <1>3, <2>1 DEF Nested
  <2> QED
    BY <1>3, <1>4, <2>1, <2>2, <2>3 DEF Kept, Fits
<1>6. PICK t \in Kept(item, level) : t = Closed(s0, level) /\ Stopped(t, level)
  <2>1. Len(levels) <= item
    BY <1>1, <1>4
  <2> HIDE DEF s0
  <2> QED
    BY <1>2, <1>4, <1>5, <2>1, CloseFits
<1>7. PICK st, up : st = t.stack /\ up = t.parent
  OBVIOUS
<1>8. NextHeading(st, up, item, level)
  <2>1. Fits(t, item, level)
    BY <1>6 DEF Kept
  <2>2. /\ st \in Seq(Frames) /\ (st = <<>> <=> levels = <<>>)
        /\ up \in Seq(Nat) /\ Len(up) = item /\ Nested(st, up) /\ Trail(st, level)
    BY <1>7, <2>1 DEF Fits
  <2>3. up[item] = 0
    <3>1. item \in Len(levels) + 1 .. item
      BY <1>1
    <3> QED
      BY <1>7, <2>1, <3>1 DEF Fits
  <2> QED
    BY <1>1, <1>2, <1>3, <1>4, <2>2, <2>3 DEF NextHeading
<1> DEFINE top == Last(st)
           frame == [level |-> level, siblings |-> <<item>>]
<1>9. /\ parent' = up
      /\ IF st = <<>> \/ level > top.level
           THEN stack' = Append(st, frame) /\ UNCHANGED affix
         ELSE IF level = top.level
           THEN stack' = [st EXCEPT ![Len(st)].siblings = Append(@, item)] /\ UNCHANGED affix
         ELSE stack' = st /\ affix' = "threw"
  BY <1>1, <1>6, <1>7 DEF Heading
<1>10. st \in Seq(Frames) /\ up \in Seq(Nat) /\ Len(up) = item
  BY <1>8 DEF NextHeading
<1>11. levels' \in Seq(1 .. 4) /\ Len(levels') = item /\ levels' # <<>>
  BY <1>1, <1>2, <1>4, EmptySeq
<1>12. top = st[Len(st)]
  BY DEF Last
<1> HIDE DEF s0, top
<1>13. ASSUME NEW ns, ns \in Seq(Frames), Nested(ns, up)', Trail(ns, 4)', ns # <<>>,
              stack' = ns, UNCHANGED affix, FirstIsHighest'
       PROVE  OutlineInv'
  <2>1. Nested(stack, parent)' /\ Trail(stack, 4)'
    BY <1>9, <1>13, Carried
  <2>2. OutlineType'
    BY <1>2, <1>9, <1>10, <1>11, <1>13 DEF OutlineType
  <2>3. affix' = "building" /\ stack' # <<>> /\ levels' # <<>>
    BY <1>2, <1>11, <1>13
  <2> QED
    BY <1>13, <2>1, <2>2, <2>3 DEF OutlineInv
<1>14. CASE st = <<>> \/ level > top.level
  <2>1. PICK ns : ns = Append(st, frame)
    OBVIOUS
  <2>2. Opens(st, up, item, level, ns)
    BY <1>8, <1>12, <1>14, <2>1 DEF Opens
  <2>3. ns \in Seq(Frames) /\ Nested(ns, up)' /\ Trail(ns, 4)'
    BY <2>2, OpensFrame
  <2>4. ns # <<>>
    BY <1>10, <2>1
  <2>5. FirstIsHighest'
    <3>1. st # <<>> => st[Len(st)].level \in 1 .. 4
      <4>1. ASSUME st # <<>> PROVE Len(st) \in 1 .. Len(st)
        BY <1>10, <4>1, EmptySeq
      <4> QED
        BY <1>8, <1>10, <4>1, LevelsRise DEF NextHeading
    <3>2. st # <<>> => level >= st[Len(st)].level
      BY <1>2, <1>12, <1>14, <3>1
    <3> QED
      BY <1>8, <3>2, StillHighest
  <2> QED
    BY <1>9, <1>13, <1>14, <2>1, <2>3, <2>4, <2>5
<1>15. CASE st # <<>> /\ level = top.level
  <2>1. PICK ns : ns = [st EXCEPT ![Len(st)].siblings = Append(@, item)]
    OBVIOUS
  <2>2. Joins(st, up, item, level, ns)
    BY <1>8, <1>12, <1>15, <2>1 DEF Joins
  <2>3. ns \in Seq(Frames) /\ Nested(ns, up)' /\ Trail(ns, 4)'
    BY <2>2, JoinsFrame
  <2>4. ns # <<>>
    <3>1. Len(ns) = Len(st)
      BY <1>10, <2>1
    <3> QED
      BY <1>10, <1>15, <2>3, <3>1, EmptySeq
  <2>5. FirstIsHighest'
    BY <1>2, <1>8, <1>12, <1>15, StillHighest
  <2>6. ~(level > top.level)
    BY <1>2, <1>15
  <2> QED
    BY <1>9, <1>13, <1>15, <2>1, <2>3, <2>4, <2>5, <2>6
<1>16. CASE st # <<>> /\ ~(level > top.level) /\ level # top.level
  <2>1. stack' = st /\ affix' = "threw"
    BY <1>9, <1>16
  <2>2. OutlineType'
    BY <1>9, <1>10, <1>11, <2>1 DEF OutlineType
  <2>3. PICK m \in Nat : m = Len(st) /\ m > 0
    BY <1>10, <1>16, EmptySeq
  <2>4. top.level \in 1 .. 4
    <3>1. Len(st) \in 1 .. Len(st)
      BY <2>3
    <3> QED
      BY <1>8, <1>10, <1>12, <3>1, LevelsRise DEF NextHeading
  <2>5. level < top.level
    BY <1>2, <1>16, <2>4
  <2>6. m = 1
    <3>1. ~(Len(st) > 1 /\ level < top.level)
      BY <1>6, <1>7 DEF Stopped, top
    <3> QED
      BY <2>3, <2>5, <3>1
  <2>7. levels[1] = top.level /\ levels # <<>>
    BY <1>8, <1>12, <1>16, <2>3, <2>6 DEF NextHeading, Nested
  <2>8. levels'[1] = levels[1] /\ levels'[item] = level /\ item \in 1 .. Len(levels')
    <3>1. 1 \in 1 .. Len(levels)
      BY <1>4, <2>7, EmptySeq
    <3> QED
      BY <1>1, <1>2, <1>4, <1>11, <3>1
  <2>9. ~(FirstIsHighest')
    <3>1. ~(levels'[item] >= levels'[1])
      BY <1>2, <2>4, <2>5, <2>7, <2>8
    <3> QED
      BY <2>8, <3>1 DEF FirstIsHighest
  <2> QED
    BY <2>1, <2>2, <2>9 DEF OutlineInv
<1> QED
  BY <1>14, <1>15, <1>16

LEMMA RenderStep ==
  ASSUME OutlineInv, RenderAffix
  PROVE  OutlineInv'
<1> DEFINE s0 == [stack |-> stack, parent |-> parent]
<1>1. PICK n \in Nat : n = Len(levels)
  BY DEF OutlineInv, OutlineType
<1>2. affix = "building" /\ affix' = "rendered" /\ levels' = levels /\ stack' = <<>>
  BY DEF RenderAffix
<1>3. /\ Nested(stack, parent) /\ Trail(stack, 4) /\ FirstIsHighest
      /\ stack = <<>> <=> levels = <<>>
  BY <1>2 DEF OutlineInv
<1>4. levels \in Seq(1 .. 4) /\ stack \in Seq(Frames) /\ parent \in Seq(Nat)
      /\ Len(parent) = n
  BY <1>1 DEF OutlineInv, OutlineType
<1>5. parent' \in Seq(Nat) /\ Len(parent') = n /\ \A i \in 1 .. n : parent'[i] = Above(i)
  <2>1. CASE stack = <<>>
    <3>1. n = 0
      BY <1>1, <1>3, <2>1, EmptySeq
    <3>2. parent' = parent
      BY <2>1 DEF RenderAffix
    <3> QED
      BY <1>4, <3>1, <3>2
  <2>2. CASE stack # <<>>
    <3>1. s0 \in Kept(n, 0)
      <4>1. Trail(stack, 0)
        BY <1>3, <1>4, TrailsDown
      <4> QED
        BY <1>1, <1>3, <1>4, <4>1 DEF Kept, Fits
    <3>2. PICK t \in Kept(n, 0) : t = Closed(s0, 0) /\ Stopped(t, 0)
      <4>1. Len(levels) <= n
        BY <1>1
      <4> HIDE DEF s0
      <4> QED
        BY <1>4, <3>1, <4>1, CloseFits
    <3>3. parent' = t.parent
      BY <2>2, <3>2 DEF RenderAffix
    <3>4. PICK st, up : st = t.stack /\ up = t.parent
      OBVIOUS
    <3>5. /\ st \in Seq(Frames) /\ (st = <<>> <=> levels = <<>>)
          /\ up \in Seq(Nat) /\ Len(up) = n /\ Nested(st, up)
      BY <3>2, <3>4 DEF Kept, Fits
    <3>6. st # <<>>
      BY <1>3, <2>2, <3>5
    <3>7. PICK m \in Nat : m = Len(st) /\ m > 0
      BY <3>5, <3>6, EmptySeq
    <3>8. m = 1
      <4>1. ~(m > 1 /\ 0 < st[m].level)
        BY <3>2, <3>4, <3>7 DEF Stopped, Last
      <4>2. m \in 1 .. m
        BY <3>7
      <4>3. st[m].level \in 1 .. 4
        BY <3>5, <3>7, <4>2, LevelsRise
      <4> QED
        BY <3>7, <4>1, <4>3
    <3>9. ASSUME NEW i \in 1 .. n PROVE up[i] = Above(i)
      <4>1. up[i] = IF OnStack(st, i) THEN 0 ELSE Above(i)
        BY <1>1, <3>5 DEF Nested
      <4>2. ASSUME OnStack(st, i) PROVE Above(i) = 0
        <5>1. Contains(st[1].siblings, i)
          BY <3>7, <3>8, <4>2 DEF OnStack
        <5>2. Frame(st, 1)
          BY <3>5, <3>7, <3>8 DEF Nested
        <5> QED
          BY <5>1, <5>2 DEF Frame, Under
      <4> QED
        BY <4>1, <4>2
    <3> QED
      BY <3>3, <3>4, <3>5, <3>9
  <2> QED
    BY <2>1, <2>2
<1>6. OutlineType'
  BY <1>1, <1>2, <1>4, <1>5, EmptySeq DEF OutlineType
<1>7. FirstIsHighest' /\ \A i : Above(i)' = Above(i)
  BY <1>2, <1>3 DEF FirstIsHighest, Above, Shallower
<1>8. \A i \in 1 .. Len(levels)' : parent'[i] = Above(i)'
  BY <1>1, <1>2, <1>5, <1>7
<1> QED
  BY <1>2, <1>6, <1>7, <1>8 DEF OutlineInv

LEMMA OutlineSteps == OutlineInv /\ [OutlineStep]_outlineVars => OutlineInv'
<1> SUFFICES ASSUME OutlineInv, [OutlineStep]_outlineVars PROVE OutlineInv'
  OBVIOUS
<1>1. ASSUME NEW level \in 1 .. 4, Heading(level) PROVE OutlineInv'
  BY <1>1, HeadingStep
<1>2. CASE RenderAffix
  BY <1>2, RenderStep
<1>3. CASE LeaveOutline
  <2>1. levels' = <<>> /\ stack' = <<>> /\ parent' = <<>> /\ affix' = "rendered"
    BY <1>3 DEF LeaveOutline
  <2>2. Len(levels') = 0 /\ Len(parent') = 0
    BY <2>1, EmptySeq
  <2>3. OutlineType'
    BY <2>1, <2>2, EmptySeq DEF OutlineType
  <2>4. FirstIsHighest' /\ \A i \in 1 .. Len(levels)' : parent'[i] = Above(i)'
    BY <2>2 DEF FirstIsHighest
  <2> QED
    BY <2>1, <2>3, <2>4 DEF OutlineInv
<1>4. CASE UNCHANGED outlineVars
  <2>1. levels' = levels /\ stack' = stack /\ parent' = parent /\ affix' = affix
    BY <1>4 DEF outlineVars
  <2>2. OutlineType' <=> OutlineType
    BY <2>1 DEF OutlineType
  <2>3. FirstIsHighest' <=> FirstIsHighest
    BY <2>1 DEF FirstIsHighest
  <2>4. \A i : Above(i)' = Above(i)
    BY <2>1 DEF Above, Shallower
  <2>5. Nested(stack, parent)' <=> Nested(stack, parent)
    <3>1. \A j : Frame(stack, j)' <=> Frame(stack, j)
      BY <2>1, <2>4 DEF Frame, Under, Contains, Last
    <3>2. \A i : OnStack(stack, i)' <=> OnStack(stack, i)
      BY <2>1 DEF OnStack, Contains
    <3> QED
      BY <2>1, <2>4, <3>1, <3>2 DEF Nested
  <2>6. Trail(stack, 4)' <=> Trail(stack, 4)
    BY <2>1 DEF Trail, Last
  <2> QED
    BY <2>1, <2>2, <2>3, <2>4, <2>5, <2>6 DEF OutlineInv
<1> QED
  BY <1>1, <1>2, <1>3, <1>4 DEF OutlineStep

LEMMA OutlineSays == OutlineInv => OutlineNestsHeadings
<1> SUFFICES ASSUME OutlineInv PROVE OutlineNestsHeadings
  OBVIOUS
<1>1. DOMAIN levels = 1 .. Len(levels) /\ \A i \in 1 .. Len(levels) : levels[i] \in 1 .. 4
  BY DEF OutlineInv, OutlineType
<1>2. affix = "threw" <=> ~FirstIsHighest
  BY DEF OutlineInv, OutlineType
<1>3. FirstIsHighest <=> ~\E i \in DOMAIN levels : levels[i] < levels[1]
  <2>1. \A i \in 1 .. Len(levels) : 1 \in 1 .. Len(levels)
    BY DEF OutlineInv, OutlineType
  <2>2. \A i \in 1 .. Len(levels) : levels[i] >= levels[1] <=> ~(levels[i] < levels[1])
    BY <1>1, <2>1
  <2> QED
    BY <1>1, <2>2 DEF FirstIsHighest
<1>4. affix = "rendered" => \A i \in DOMAIN levels : parent[i] = Above(i)
  BY <1>1 DEF OutlineInv
<1> QED
  BY <1>2, <1>3, <1>4 DEF OutlineNestsHeadings, Above

(***************************************************************************)
(* However the levels of the headings of an article jump, every heading is *)
(* listed under the last shallower one before it; the script of the page   *)
(* throws only if a heading is above the first one.                        *)
(***************************************************************************)
THEOREM HeadingsNested == Spec => []OutlineNestsHeadings
<1>1. Init => OutlineInv
  BY InitOutlineInv DEF Init
<1>2. OutlineInv /\ [Next]_vars => OutlineInv'
  <2>1. [Next]_vars => [OutlineStep]_outlineVars
    BY DEF Next, vars, RenderOutline, RenderTabs, Click, FilterToc
  <2> QED
    BY <2>1, OutlineSteps
<1> QED
  BY <1>1, <1>2, OutlineSays, PTL DEF Spec

-----------------------------------------------------------------------------
(* The tab groups                                                          *)

\* A sequence that holds each of the members of C once.
Holds(s, S, C) ==
  /\ s \in Seq(S) /\ ToSet(s) = C
  /\ \A i, j \in 1 .. Len(s) : s[i] = s[j] => i = j

\* The elements of s, the i-th left out.
Without(r, s, i) ==
  /\ Len(r) = Len(s) - 1
  /\ \A k \in 1 .. Len(s) - 1 : r[k] = IF k < i THEN s[k] ELSE s[k + 1]

\* RemoveAt leaves one element out.
LEMMA RemoveAtIs ==
  ASSUME NEW S, NEW s \in Seq(S), NEW i \in 1 .. Len(s)
  PROVE  RemoveAt(s, i) \in Seq(S) /\ Without(RemoveAt(s, i), s, i)
<1>1. PICK n \in Nat : n = Len(s) /\ i \in Nat /\ 1 <= i /\ i <= n
  OBVIOUS
<1>2. PICK a : a = SubSeq(s, 1, i - 1)
  OBVIOUS
<1>3. PICK b : b = SubSeq(s, i + 1, n)
  OBVIOUS
<1>4. a \in Seq(S) /\ Len(a) = i - 1 /\ \A k \in 1 .. i - 1 : a[k] = s[k]
  <2>1. i - 1 \in Nat /\ \A k \in 1 .. i - 1 : s[k] \in S
    BY <1>1
  <2>2. /\ SubSeq(s, 1, i - 1) \in Seq(S)
        /\ Len(SubSeq(s, 1, i - 1)) = IF 1 <= i - 1 THEN i - 1 - 1 + 1 ELSE 0
        /\ \A k \in 1 .. i - 1 - 1 + 1 : SubSeq(s, 1, i - 1)[k] = s[1 + k - 1]
    BY <1>1, <2>1, SubSeqProperties
  <2>3. i - 1 - 1 + 1 = i - 1 /\ \A k \in 1 .. i - 1 : 1 + k - 1 = k
    BY <1>1
  <2> QED
    BY <1>1, <1>2, <2>2, <2>3
<1>5. b \in Seq(S) /\ Len(b) = n - i /\ \A k \in 1 .. n - i : b[k] = s[i + k]
  <2>1. i + 1 \in Nat /\ \A k \in i + 1 .. n : s[k] \in S
    BY <1>1
  <2>2. /\ SubSeq(s, i + 1, n) \in Seq(S)
        /\ Len(SubSeq(s, i + 1, n)) = IF i + 1 <= n THEN n - (i + 1) + 1 ELSE 0
        /\ \A k \in 1 .. n - (i + 1) + 1 : SubSeq(s, i + 1, n)[k] = s[i + 1 + k - 1]
    BY <1>1, <2>1, SubSeqProperties
  <2>3. n - (i + 1) + 1 = n - i /\ \A k \in 1 .. n - i : i + 1 + k - 1 = i + k
    BY <1>1
  <2> QED
    BY <1>1, <1>3, <2>2, <2>3, SMTT(30)
<1>6. RemoveAt(s, i) = a \o b
  BY <1>1, <1>2, <1>3 DEF RemoveAt
<1>7. PICK r : r = a \o b
  OBVIOUS
<1>8. /\ r \in Seq(S) /\ Len(r) = n - 1
      /\ \A k \in 1 .. n - 1 : r[k] = IF k <= i - 1 THEN a[k] ELSE b[k - (i - 1)]
  <2>1. i - 1 + (n - i) = n - 1
    BY <1>1
  <2>2. r \in Seq(S) /\ Len(r) = Len(a) + Len(b)
    BY <1>4, <1>5, <1>7, ConcatProperties
  <2>3. \A k \in 1 .. Len(a) + Len(b) : r[k] = IF k <= Len(a) THEN a[k] ELSE b[k - Len(a)]
    BY <1>4, <1>5, <1>7, ConcatProperties
  <2> QED
    BY <1>4, <1>5, <2>1, <2>2, <2>3
<1>9. ASSUME NEW k \in 1 .. n - 1 PROVE r[k] = IF k < i THEN s[k] ELSE s[k + 1]
  <2>1. CASE k < i
    <3>1. k \in 1 .. i - 1 /\ k <= i - 1
      BY <1>1, <2>1
    <3> QED
      BY <1>4, <1>8, <2>1, <3>1
  <2>2. CASE ~(k < i)
    <3>1. ~(k <= i - 1) /\ k - (i - 1) \in 1 .. n - i /\ i + (k - (i - 1)) = k + 1
      BY <1>1, <2>2
    <3> QED
      BY <1>5, <1>8, <2>2, <3>1
  <2> QED
    BY <2>1, <2>2
<1> QED
  BY <1>1, <1>6, <1>7, <1>8, <1>9 DEF Without

\* Min of naturals is the least of them.
LEMMA SmallestIn ==
  ASSUME NEW T \in SUBSET Nat, T # {}
  PROVE  Min(T) \in T /\ \A x \in T : Min(T) <= x
<1>1. \E x \in T : \A y \in T : x <= y
  BY Least
<1> QED
  BY <1>1 DEF Min

\* SelectInSeq finds an element that is there.
LEMMA FirstIn ==
  ASSUME NEW S, NEW s \in Seq(S), NEW e, \E i \in 1 .. Len(s) : s[i] = e
  PROVE  SelectInSeq(s, LAMBDA v : v = e) \in 1 .. Len(s) /\ s[SelectInSeq(s, LAMBDA v : v = e)] = e
<1> DEFINE I == {i \in 1 .. Len(s) : s[i] = e}
<1>1. I \in SUBSET Nat /\ I # {}
  OBVIOUS
<1>2. SelectInSeq(s, LAMBDA v : v = e) = Min(I)
  BY <1>1 DEF SelectInSeq
<1>3. Min(I) \in I
  <2> HIDE DEF I
  <2> QED
    BY <1>1, SmallestIn
<1> QED
  BY <1>2, <1>3

\* What is left of a sequence without repetitions when an element is removed,
LEMMA RemovedHolds ==
  ASSUME NEW S, NEW C, NEW s, Holds(s, S, C), NEW e
  PROVE  Holds(RemoveFirst(s, e), S, C \ {e})
<1>1. s \in Seq(S) /\ C = ToSet(s) /\ ToSet(s) = {s[k] : k \in 1 .. Len(s)}
  BY DEF Holds, ToSet
<1>2. \A i, j \in 1 .. Len(s) : s[i] = s[j] => i = j
  BY DEF Holds
<1>3. PICK n \in Nat : n = Len(s)
  BY <1>1
<1>4. CASE ~\E i \in 1 .. Len(s) : s[i] = e
  <2>1. RemoveFirst(s, e) = s /\ C \ {e} = C
    BY <1>1, <1>4 DEF RemoveFirst
  <2> QED
    BY <2>1
<1>5. CASE \E i \in 1 .. Len(s) : s[i] = e
  <2>1. PICK i \in 1 .. n : s[i] = e /\ RemoveFirst(s, e) = RemoveAt(s, i)
    BY <1>1, <1>3, <1>5, FirstIn DEF RemoveFirst
  <2>2. PICK r \in Seq(S) : r = RemoveFirst(s, e) /\ Len(r) = n - 1
                            /\ \A k \in 1 .. n - 1 : r[k] = IF k < i THEN s[k] ELSE s[k + 1]
    BY <1>1, <1>3, <2>1, RemoveAtIs DEF Without
  <2> DEFINE at(k) == IF k < i THEN k ELSE k + 1
  <2>3. \A k \in 1 .. n - 1 : r[k] = s[at(k)] /\ at(k) \in 1 .. n /\ at(k) # i
    BY <2>2
  <2>4. \A k, l \in 1 .. n - 1 : at(k) = at(l) => k = l
    OBVIOUS
  <2>5. \A m \in 1 .. n : m # i => \E k \in 1 .. n - 1 : at(k) = m
    <3> SUFFICES ASSUME NEW m \in 1 .. n, m # i PROVE \E k \in 1 .. n - 1 : at(k) = m
      OBVIOUS
    <3>1. CASE m < i
      <4>1. m \in 1 .. n - 1 /\ at(m) = m
        BY <3>1
      <4> QED
        BY <4>1
    <3>2. CASE m > i
      <4>1. m - 1 \in 1 .. n - 1 /\ at(m - 1) = m
        BY <3>2
      <4> QED
        BY <4>1
    <3> QED
      BY <3>1, <3>2
  <2> HIDE DEF at
  <2>6. \A k, l \in 1 .. Len(r) : r[k] = r[l] => k = l
    BY <1>2, <1>3, <2>2, <2>3, <2>4
  <2>7. ToSet(r) = {r[k] : k \in 1 .. n - 1}
    BY <2>2 DEF ToSet
  <2>8. ToSet(r) = C \ {e}
    <3>1. ASSUME NEW k \in 1 .. n - 1 PROVE r[k] \in C /\ r[k] # e
      BY <1>1, <1>2, <1>3, <2>1, <2>3
    <3>2. ASSUME NEW m \in 1 .. n, s[m] # e PROVE \E k \in 1 .. n - 1 : r[k] = s[m]
      BY <2>1, <2>3, <2>5, <3>2
    <3>3. ToSet(r) \subseteq C \ {e}
      BY <2>7, <3>1
    <3>4. ASSUME NEW x \in C, x # e PROVE x \in ToSet(r)
      <4>1. PICK m \in 1 .. n : x = s[m]
        BY <1>1, <1>3
      <4> QED
        BY <2>7, <3>2, <3>4, <4>1
    <3> QED
      BY <3>3, <3>4
  <2> QED
    BY <2>2, <2>6, <2>8 DEF Holds
<1> QED
  BY <1>4, <1>5

\* when a new one is appended,
LEMMA AppendedHolds ==
  ASSUME NEW S, NEW C, NEW s, Holds(s, S, C), NEW e \in S, e \notin C
  PROVE  Holds(Append(s, e), S, C \cup {e})
<1>1. s \in Seq(S) /\ C = {s[k] : k \in 1 .. Len(s)}
  BY DEF Holds, ToSet
<1>2. PICK n \in Nat : n = Len(s)
  BY <1>1
<1>3. PICK r \in Seq(S) : r = Append(s, e) /\ Len(r) = n + 1 /\ r[n + 1] = e
                          /\ \A k \in 1 .. n : r[k] = s[k]
  <2>1. /\ Append(s, e) \in Seq(S) /\ Len(Append(s, e)) = Len(s) + 1
        /\ Append(s, e)[Len(s) + 1] = e
        /\ \A k \in 1 .. Len(s) : Append(s, e)[k] = s[k]
    BY <1>1, AppendProperties
  <2> QED
    BY <1>2, <2>1
<1>4. \A k \in 1 .. n + 1 : k = n + 1 \/ k \in 1 .. n
  OBVIOUS
<1>5. \A k \in 1 .. n : k \in 1 .. n + 1 /\ s[k] # e
  <2>1. \A k \in 1 .. n : s[k] \in C
    BY <1>1, <1>2
  <2> QED
    BY <2>1
<1>6. \A k, l \in 1 .. n : s[k] = s[l] => k = l
  BY <1>2 DEF Holds
<1>7. \A k, l \in 1 .. n + 1 : r[k] = r[l] => k = l
  BY <1>3, <1>4, <1>5, <1>6
<1>8. ToSet(r) = C \cup {e}
  <2>1. ToSet(r) = {r[k] : k \in 1 .. n + 1}
    BY <1>3 DEF ToSet
  <2>2. n + 1 \in 1 .. n + 1
    OBVIOUS
  <2> QED
    BY <1>1, <1>2, <1>3, <1>4, <1>5, <2>1, <2>2
<1> QED
  BY <1>3, <1>7, <1>8 DEF Holds

\* when a new one takes the place of one that is there,
LEMMA ReplacedHolds ==
  ASSUME NEW S, NEW C, NEW s, Holds(s, S, C), NEW p \in C, NEW e \in S, e \notin C
  PROVE  Holds(Replaced(s, p, e), S, (C \ {p}) \cup {e})
<1>1. s \in Seq(S) /\ C = {s[k] : k \in 1 .. Len(s)}
  BY DEF Holds, ToSet
<1>2. PICK n \in Nat : n = Len(s)
  BY <1>1
<1>3. PICK i \in 1 .. n : i = SelectInSeq(s, LAMBDA c : c = p) /\ s[i] = p
  BY <1>1, <1>2, FirstIn
<1>4. Replaced(s, p, e) = [s EXCEPT ![i] = e]
  <2>1. i # 0
    OBVIOUS
  <2> QED
    BY <1>3, <2>1 DEF Replaced, ReplaceAt, SelectInSeq
<1>5. PICK r \in Seq(S) : r = Replaced(s, p, e) /\ Len(r) = n /\ r[i] = e
                          /\ \A k \in 1 .. n : k # i => r[k] = s[k]
  <2>1. s \in [1 .. n -> S]
    BY <1>1, <1>2
  <2>2. [s EXCEPT ![i] = e] \in Seq(S) /\ Len([s EXCEPT ![i] = e]) = n
    BY <1>1, <1>2
  <2> QED
    BY <1>4, <2>1, <2>2
<1>6. \A k, l \in 1 .. n : s[k] = s[l] => k = l
  BY <1>2 DEF Holds
<1>7. \A k \in 1 .. n : s[k] # e
  BY <1>1, <1>2
<1>8. \A k, l \in 1 .. n : r[k] = r[l] => k = l
  BY <1>5, <1>6, <1>7
<1>9. ToSet(r) = (C \ {p}) \cup {e}
  <2>1. ToSet(r) = {r[k] : k \in 1 .. n}
    BY <1>5 DEF ToSet
  <2>2. C = {s[k] : k \in 1 .. n}
    BY <1>1, <1>2
  <2>3. ASSUME NEW k \in 1 .. n PROVE r[k] \in (C \ {p}) \cup {e}
    BY <1>3, <1>5, <1>6, <2>2
  <2>4. ASSUME NEW x \in (C \ {p}) \cup {e} PROVE \E k \in 1 .. n : r[k] = x
    <3>1. CASE x = e
      BY <1>5, <3>1
    <3>2. CASE x # e
      <4>1. PICK k \in 1 .. n : s[k] = x /\ k # i
        BY <1>3, <2>2, <3>2
      <4> QED
        BY <1>5, <4>1
    <3> QED
      BY <3>1, <3>2
  <2> QED
    BY <2>1, <2>3, <2>4
<1> QED
  BY <1>5, <1>8, <1>9 DEF Holds

\* when the ids of a tab are spliced out of it, one after the other,
LEMMA ForgetTabHolds ==
  ASSUME NEW S, NEW C, NEW s, Holds(s, S, C), NEW ids \in Seq(S)
  PROVE  Holds(ForgetTab(s, ids), S, C \ ToSet(ids))
<1> DEFINE n == Len(ids)
           I == [k \in 0 .. n |-> {c \in Seq(S) : Holds(c, S, C \ {ids[j] : j \in 1 .. k})}]
           step == [k \in 1 .. n |-> [c \in I[k - 1] |-> RemoveFirst(c, ids[k])]]
           Eq(c) == c = [k \in 0 .. n |-> IF k = 0 THEN s ELSE RemoveFirst(c[k - 1], ids[k])]
           left == CHOOSE c : Eq(c)
<1>1. n \in Nat /\ s \in I[0]
  <2>1. {ids[j] : j \in 1 .. 0} = {} /\ s \in Seq(S) /\ n \in Nat
    BY DEF Holds
  <2>2. 0 \in 0 .. n /\ C \ {} = C
    BY <2>1
  <2> HIDE DEF n
  <2> QED
    BY <2>1, <2>2
<1>2. ASSUME NEW k \in 1 .. n, NEW c \in I[k - 1] PROVE RemoveFirst(c, ids[k]) \in I[k]
  <2>1. k - 1 \in 0 .. n /\ k \in 0 .. n
    BY <1>1
  <2>2. Holds(c, S, C \ {ids[j] : j \in 1 .. k - 1})
    BY <2>1
  <2>3. Holds(RemoveFirst(c, ids[k]), S, (C \ {ids[j] : j \in 1 .. k - 1}) \ {ids[k]})
    BY <2>2, RemovedHolds
  <2>4. 1 .. k = (1 .. k - 1) \cup {k}
    BY <1>1
  <2>5. (C \ {ids[j] : j \in 1 .. k - 1}) \ {ids[k]} = C \ {ids[j] : j \in 1 .. k}
    <3> HIDE DEF n
    <3> QED
      BY <2>4
  <2>6. RemoveFirst(c, ids[k]) \in Seq(S)
    BY <2>3 DEF Holds
  <2> HIDE DEF n
  <2> QED
    BY <2>1, <2>3, <2>5, <2>6
<1> HIDE DEF I
<1>3. PICK f : Declares(f, n, s, step) /\ \A k \in 0 .. n : f[k] \in I[k]
  <2>1. \A k \in 1 .. n : \A c \in I[k - 1] : step[k][c] \in I[k]
    BY <1>2
  <2> HIDE DEF step, n
  <2> QED
    BY <1>1, <2>1, Recursion
<1>4. Eq(f)
  <2>1. ASSUME NEW k \in 1 .. n PROVE step[k][f[k - 1]] = RemoveFirst(f[k - 1], ids[k])
    <3>1. k - 1 \in 0 .. n
      BY <1>1
    <3> QED
      BY <1>3, <3>1
  <2>2. \A k \in 0 .. n : k # 0 => k \in 1 .. n
    BY <1>1
  <2> HIDE DEF step
  <2> QED
    BY <1>3, <2>1, <2>2 DEF Declares
<1>5. Eq(left)
  <2> HIDE DEF Eq
  <2> QED
    BY <1>4
<1>6. ForgetTab(s, ids) = left[n]
  BY DEF ForgetTab
<1>7. PICK c : Eq(c) /\ ForgetTab(s, ids) = c[n]
  <2> HIDE DEF Eq, left
  <2> QED
    BY <1>5, <1>6
<1>8. c[0] = s /\ \A k \in 1 .. n : c[k] = RemoveFirst(c[k - 1], ids[k])
  <2>1. 0 \in 0 .. n /\ \A k \in 1 .. n : k \in 0 .. n /\ k # 0
    BY <1>1
  <2> QED
    BY <1>7, <2>1
<1>9. c[n] \in I[n]
  <2> HIDE DEF n
  <2>1. \A k \in 0 .. n : c[k] \in I[k]
    BY <1>1, <1>2, <1>8, Stays
  <2> QED
    BY <1>1, <2>1
<1>10. ToSet(ids) = {ids[j] : j \in 1 .. n} /\ n \in 0 .. n
  BY <1>1 DEF ToSet
<1> QED
  <2> HIDE DEF n
  <2> QED
    BY <1>7, <1>9, <1>10 DEF I

\* and when those of every tab of a group are.
LEMMA ForgetHolds ==
  ASSUME NEW C, NEW s, Holds(s, TabIds, C), NEW tabs \in Seq(Tabs)
  PROVE  Holds(Forget(s, tabs), TabIds, C \ UNION {ToSet(tabs[t].ids) : t \in DOMAIN tabs})
<1>0. \A k \in 1 .. Len(tabs) : tabs[k].ids \in Seq(TabIds)
  <2>1. \A k \in 1 .. Len(tabs) : tabs[k] \in Tabs
    OBVIOUS
  <2> QED
    BY <2>1 DEF Tabs
<1> DEFINE n == Len(tabs)
           Gone(k) == UNION {ToSet(tabs[t].ids) : t \in 1 .. k}
           I == [k \in 0 .. n |-> {c \in Seq(TabIds) : Holds(c, TabIds, C \ Gone(k))}]
           step == [k \in 1 .. n |-> [c \in I[k - 1] |-> ForgetTab(c, tabs[k].ids)]]
           Eq(c) == c = [k \in 0 .. n |-> IF k = 0 THEN s ELSE ForgetTab(c[k - 1], tabs[k].ids)]
           left == CHOOSE c : Eq(c)
<1>1. n \in Nat /\ s \in I[0]
  <2>1. Gone(0) = {} /\ s \in Seq(TabIds) /\ n \in Nat
    BY DEF Holds
  <2>2. 0 \in 0 .. n /\ C \ {} = C
    BY <2>1
  <2> HIDE DEF n, Gone
  <2> QED
    BY <2>1, <2>2
<1>2. ASSUME NEW k \in 1 .. n, NEW c \in I[k - 1] PROVE ForgetTab(c, tabs[k].ids) \in I[k]
  <2>1. k - 1 \in 0 .. n /\ k \in 0 .. n /\ tabs[k].ids \in Seq(TabIds)
    BY <1>0, <1>1
  <2>2. Holds(c, TabIds, C \ Gone(k - 1))
    <3> HIDE DEF Gone
    <3> QED
      BY <2>1
  <2>3. Holds(ForgetTab(c, tabs[k].ids), TabIds, (C \ Gone(k - 1)) \ ToSet(tabs[k].ids))
    <3> HIDE DEF Gone
    <3> QED
      BY <2>1, <2>2, ForgetTabHolds
  <2>4. 1 .. k = (1 .. k - 1) \cup {k}
    BY <1>1
  <2>5. (C \ Gone(k - 1)) \ ToSet(tabs[k].ids) = C \ Gone(k)
    <3> HIDE DEF n
    <3> QED
      BY <2>4
  <2>6. ForgetTab(c, tabs[k].ids) \in Seq(TabIds)
    BY <2>3 DEF Holds
  <2> HIDE DEF n, Gone
  <2> QED
    BY <2>1, <2>3, <2>5, <2>6
<1> HIDE DEF I
<1>3. PICK f : Declares(f, n, s, step) /\ \A k \in 0 .. n : f[k] \in I[k]
  <2>1. \A k \in 1 .. n : \A c \in I[k - 1] : step[k][c] \in I[k]
    BY <1>2
  <2> HIDE DEF step, n
  <2> QED
    BY <1>1, <2>1, Recursion
<1>4. Eq(f)
  <2>1. ASSUME NEW k \in 1 .. n PROVE step[k][f[k - 1]] = ForgetTab(f[k - 1], tabs[k].ids)
    <3>1. k - 1 \in 0 .. n
      BY <1>1
    <3> QED
      BY <1>3, <3>1
  <2>2. \A k \in 0 .. n : k # 0 => k \in 1 .. n
    BY <1>1
  <2> HIDE DEF step
  <2> QED
    BY <1>3, <2>1, <2>2 DEF Declares
<1>5. Eq(left)
  <2> HIDE DEF Eq
  <2> QED
    BY <1>4
<1>6. Forget(s, tabs) = left[n]
  BY DEF Forget
<1>7. PICK c : Eq(c) /\ Forget(s, tabs) = c[n]
  <2> HIDE DEF Eq, left
  <2> QED
    BY <1>5, <1>6
<1>8. c[0] = s /\ \A k \in 1 .. n : c[k] = ForgetTab(c[k - 1], tabs[k].ids)
  <2>1. 0 \in 0 .. n /\ \A k \in 1 .. n : k \in 0 .. n /\ k # 0
    BY <1>1
  <2> QED
    BY <1>7, <2>1
<1>9. c[n] \in I[n]
  <2> HIDE DEF n
  <2>1. \A k \in 0 .. n : c[k] \in I[k]
    BY <1>1, <1>2, <1>8, Stays
  <2> QED
    BY <1>1, <2>1
<1>10. DOMAIN tabs = 1 .. n /\ n \in 0 .. n
  BY <1>1
<1> QED
  <2> HIDE DEF n
  <2> QED
    BY <1>7, <1>9, <1>10 DEF I

TabsOf(g) == DOMAIN layout[g].tabs
Id(g, t) == layout[g].tabs[t].ids[1]
Cond(g, t) == layout[g].tabs[t].condition

\* A tab with condition c is there when the ids of C are selected.
Meets(C, c) == c \in C \cup {NoCondition}

\* What Update is given, and what it returns.
Classified == [chosen : Seq(TabIds), visible : [1 .. Len(layout) -> SUBSET Nat],
             selected : [1 .. Len(layout) -> SUBSET Nat], threw : BOOLEAN]

\* At most one id of the group is selected.
Single(C, g) == \A x, y \in C \cap Ids(g) : x = y

\* Tab t of group g is selected.
Chosen(C, g, t) == Id(g, t) \in C /\ Meets(C, Cond(g, t))

\* The group shows one tab, the one that is selected.
ShowsOne(c, g) ==
  /\ c.visible[g] \subseteq TabsOf(g)
  /\ \A u \in c.visible[g] : Meets(ToSet(c.chosen), Cond(g, u))
  /\ \E t \in c.visible[g] : c.selected[g] = {t} /\ Id(g, t) \in ToSet(c.chosen)

Sound(c, k) ==
  /\ c \in Classified /\ c.threw = FALSE
  /\ Holds(c.chosen, TabIds, ToSet(c.chosen))
  /\ \A g \in Dependent : Single(ToSet(c.chosen), g)
  /\ \A g \in Dependent : g <= k => ShowsOne(c, g)

\* What there is to know of the groups of a well-formed page.
Page ==
  /\ Len(layout) \in Nat /\ DOMAIN layout = 1 .. Len(layout)
  /\ \A g \in Dependent :
       /\ g \in 1 .. Len(layout) /\ layout[g].tabs \in Seq(Tabs) /\ TabsOf(g) \in SUBSET Nat
       /\ \A t \in TabsOf(g) : /\ ToSet(layout[g].tabs[t].ids) = {Id(g, t)}
                               /\ Id(g, t) \in Ids(g) /\ Id(g, t) \in TabIds
                               /\ Cond(g, t) \in Conditions(g) \cup {NoCondition}
       /\ \A x \in Ids(g) : x # NoCondition /\ \E t \in TabsOf(g) : x = Id(g, t)

Rules ==
  \A g \in Dependent :
    /\ \A t, u \in TabsOf(g) : t # u /\ Id(g, t) = Id(g, u) =>
         Cond(g, t) # Cond(g, u) /\ \E h \in Dependent : {Cond(g, t), Cond(g, u)} \subseteq Ids(h)
    /\ \/ \E t \in TabsOf(g) : Cond(g, t) = NoCondition
       \/ \E h \in Dependent : h < g /\ Ids(h) = Conditions(g)
    /\ \A h \in Dependent :
         /\ Ids(g) \cap Ids(h) # {} => layout[g].tabs = layout[h].tabs
         /\ Ids(h) \cap Conditions(g) # {} => Conditions(h) = {}

\* The groups that are not independent have tabs with one id each.
LEMMA PageIs ==
  ASSUME LayoutsAssumption, layout \in Layouts, WellFormed
  PROVE  Page
<1>1. layout \in Seq(Groups)
  BY DEF LayoutsAssumption
<1>2. Len(layout) \in Nat /\ DOMAIN layout = 1 .. Len(layout)
  BY <1>1
<1>3. ASSUME NEW g \in Dependent
      PROVE  /\ g \in 1 .. Len(layout) /\ layout[g].tabs \in Seq(Tabs) /\ TabsOf(g) \in SUBSET Nat
             /\ \A t \in TabsOf(g) : /\ ToSet(layout[g].tabs[t].ids) = {Id(g, t)}
                                     /\ Id(g, t) \in Ids(g) /\ Id(g, t) \in TabIds
                                     /\ Cond(g, t) \in Conditions(g) \cup {NoCondition}
             /\ \A x \in Ids(g) : x # NoCondition /\ \E t \in TabsOf(g) : x = Id(g, t)
  <2>1. g \in 1 .. Len(layout)
    BY <1>2 DEF Dependent
  <2>2. layout[g] \in Groups
    BY <1>1, <2>1
  <2>3. layout[g].tabs \in Seq(Tabs)
    BY <2>2 DEF Groups
  <2>4. TabsOf(g) = 1 .. Len(layout[g].tabs) /\ TabsOf(g) \in SUBSET Nat
    BY <2>3 DEF TabsOf
  <2>5. ASSUME NEW t \in TabsOf(g)
        PROVE  /\ ToSet(layout[g].tabs[t].ids) = {Id(g, t)} /\ Id(g, t) \in TabIds
    <3>1. layout[g].tabs[t] \in Tabs
      BY <2>3, <2>4
    <3>2. layout[g].tabs[t].ids \in Seq(TabIds)
      BY <3>1 DEF Tabs
    <3>3. Len(layout[g].tabs[t].ids) = 1
      BY DEF WellFormed, TabsOf
    <3>4. DOMAIN layout[g].tabs[t].ids = {1}
      BY <3>2, <3>3
    <3> QED
      BY <3>2, <3>4 DEF ToSet, Id
  <2>6. Ids(g) = UNION {ToSet(layout[g].tabs[t].ids) : t \in TabsOf(g)}
    BY DEF Ids, TabsOf
  <2>7. \A t \in TabsOf(g) : Id(g, t) \in Ids(g)
    BY <2>5, <2>6
  <2>8. \A x \in Ids(g) : x # NoCondition /\ \E t \in TabsOf(g) : x = Id(g, t)
    <3>1. ASSUME NEW x \in Ids(g) PROVE \E t \in TabsOf(g) : x = Id(g, t)
      <4>1. PICK t \in TabsOf(g) : x \in ToSet(layout[g].tabs[t].ids)
        BY <2>6
      <4> QED
        BY <2>5, <4>1
    <3>2. NoCondition \notin TabIds
      BY DEF LayoutsAssumption
    <3> QED
      BY <2>5, <3>1, <3>2
  <2>9. \A t \in TabsOf(g) : Cond(g, t) \in Conditions(g) \cup {NoCondition}
    BY DEF Cond, Conditions, TabsOf
  <2> QED
    BY <2>1, <2>3, <2>4, <2>5, <2>7, <2>8, <2>9
<1> QED
  BY <1>2, <1>3 DEF Page

\* And respect the rules, in terms of these ids.
LEMMA RulesHold ==
  ASSUME LayoutsAssumption, layout \in Layouts, WellFormed
  PROVE  Rules
<1>1. Page
  BY PageIs
<1> SUFFICES ASSUME NEW g \in Dependent
             PROVE
    /\ \A t, u \in TabsOf(g) : t # u /\ Id(g, t) = Id(g, u) =>
         Cond(g, t) # Cond(g, u) /\ \E h \in Dependent : {Cond(g, t), Cond(g, u)} \subseteq Ids(h)
    /\ \/ \E t \in TabsOf(g) : Cond(g, t) = NoCondition
       \/ \E h \in Dependent : h < g /\ Ids(h) = Conditions(g)
    /\ \A h \in Dependent :
         /\ Ids(g) \cap Ids(h) # {} => layout[g].tabs = layout[h].tabs
         /\ Ids(h) \cap Conditions(g) # {} => Conditions(h) = {}
  BY DEF Rules
<1>2. ASSUME NEW t \in TabsOf(g), NEW u \in TabsOf(g), t # u, Id(g, t) = Id(g, u)
      PROVE  Cond(g, t) # Cond(g, u) /\ \E h \in Dependent : {Cond(g, t), Cond(g, u)} \subseteq Ids(h)
  <2>1. Unambiguous(g)
    BY DEF WellFormed
  <2>2. layout[g].tabs[t].ids = layout[g].tabs[u].ids
    <3>1. layout[g].tabs \in Seq(Tabs) /\ TabsOf(g) = 1 .. Len(layout[g].tabs)
      BY <1>1 DEF Page, TabsOf
    <3>2. layout[g].tabs[t] \in Tabs /\ layout[g].tabs[u] \in Tabs
      BY <3>1
    <3>3. layout[g].tabs[t].ids \in Seq(TabIds) /\ layout[g].tabs[u].ids \in Seq(TabIds)
      BY <3>2 DEF Tabs
    <3>4. Len(layout[g].tabs[t].ids) = 1 /\ Len(layout[g].tabs[u].ids) = 1
      BY DEF WellFormed, TabsOf
    <3>5. layout[g].tabs[t].ids[1] = layout[g].tabs[u].ids[1]
      BY <1>2 DEF Id
    <3>6. PICK a, b : a = layout[g].tabs[t].ids /\ b = layout[g].tabs[u].ids
      OBVIOUS
    <3>7. a \in Seq(TabIds) /\ b \in Seq(TabIds) /\ Len(a) = Len(b)
          /\ \A i \in 1 .. Len(a) : a[i] = b[i]
      BY <3>3, <3>4, <3>5, <3>6, SMTT(30)
    <3>8. a = b
      BY <3>7, SeqEqual
    <3> QED
      BY <3>6, <3>8
  <2> QED
    BY <1>2, <2>1, <2>2 DEF Unambiguous, TabsOf, Cond, Unconditional
<1>3. \/ \E t \in TabsOf(g) : Cond(g, t) = NoCondition
      \/ \E h \in Dependent : h < g /\ Ids(h) = Conditions(g)
  BY DEF WellFormed, Inhabited, TabsOf, Cond, Unconditional
<1>4. \A h \in Dependent :
         /\ Ids(g) \cap Ids(h) # {} => layout[g].tabs = layout[h].tabs
         /\ Ids(h) \cap Conditions(g) # {} => Conditions(h) = {}
  BY DEF WellFormed, Unconditional
<1> QED
  BY <1>2, <1>3, <1>4

\* Tabs of a group that are selected are one tab.
LEMMA OneChosen ==
  ASSUME Page, Rules, NEW C, \A h \in Dependent : Single(C, h),
         NEW g \in Dependent, NEW t \in TabsOf(g), NEW u \in TabsOf(g),
         Chosen(C, g, t), Chosen(C, g, u)
  PROVE  t = u
<1>1. Id(g, t) \in C \cap Ids(g) /\ Id(g, u) \in C \cap Ids(g)
  BY DEF Page, Chosen
<1>2. Id(g, t) = Id(g, u)
  BY <1>1 DEF Single
<1> SUFFICES ASSUME t # u PROVE FALSE
  OBVIOUS
<1>3. Cond(g, t) # Cond(g, u) /\ \E h \in Dependent : {Cond(g, t), Cond(g, u)} \subseteq Ids(h)
  BY <1>2 DEF Rules
<1>4. PICK h \in Dependent : Cond(g, t) \in Ids(h) /\ Cond(g, u) \in Ids(h)
  BY <1>3
<1>5. Cond(g, t) \in C \cup {NoCondition} /\ Cond(g, u) \in C \cup {NoCondition}
  BY DEF Chosen, Meets
<1>6. CASE Cond(g, t) \in C /\ Cond(g, u) \in C
  BY <1>3, <1>4, <1>6 DEF Single
<1>7. CASE Cond(g, t) = NoCondition \/ Cond(g, u) = NoCondition
  BY <1>4, <1>7 DEF Page
<1> QED
  BY <1>5, <1>6, <1>7

\* What the update of g selects when none of its tabs was: the ids of the others stay.
Reselects(C, C2, g, first) ==
  /\ first \in TabsOf(g) /\ Meets(C, Cond(g, first))
  /\ \A t \in TabsOf(g) : ~Chosen(C, g, t)
  /\ C2 = (C \ Ids(g)) \cup {Id(g, first)}

\* The other groups keep what they show when a group selects its first tab.
LEMMA ReselectKeeps ==
  ASSUME Page, Rules, NEW g \in Dependent, NEW C, NEW C2, NEW first, Reselects(C, C2, g, first)
  PROVE  /\ \A h \in Dependent : \A t \in TabsOf(h) : Meets(C, Cond(h, t)) => Meets(C2, Cond(h, t))
         /\ \A h \in Dependent : \A t \in TabsOf(h) : Chosen(C, h, t) => Chosen(C2, h, t)
         /\ \A h \in Dependent : Single(C, h) => Single(C2, h)
<1>1. ASSUME NEW h \in Dependent, NEW t \in TabsOf(h), Meets(C, Cond(h, t))
      PROVE  Meets(C2, Cond(h, t))
  <2> SUFFICES ASSUME Cond(h, t) # NoCondition, Cond(h, t) \in Ids(g) PROVE FALSE
    BY <1>1 DEF Meets, Reselects
  <2>1. Cond(h, t) \in C /\ Cond(h, t) \in Conditions(h)
    BY <1>1 DEF Meets, Page
  <2>2. Conditions(g) = {}
    BY <2>1 DEF Rules
  <2>3. PICK u \in TabsOf(g) : Cond(h, t) = Id(g, u)
    BY DEF Page
  <2>4. Cond(g, u) = NoCondition
    BY <2>2 DEF Page
  <2> QED
    BY <2>1, <2>3, <2>4 DEF Reselects, Chosen, Meets
<1>2. ASSUME NEW h \in Dependent, NEW t \in TabsOf(h), Chosen(C, h, t)
      PROVE  Chosen(C2, h, t)
  <2>1. CASE Id(h, t) \in Ids(g)
    <3>1. Id(h, t) \in Ids(h)
      BY DEF Page
    <3>2. layout[g].tabs = layout[h].tabs
      BY <2>1, <3>1 DEF Rules
    <3>3. t \in TabsOf(g) /\ Chosen(C, g, t)
      BY <1>2, <3>2 DEF TabsOf, Chosen, Id, Cond
    <3> QED
      BY <3>3 DEF Reselects
  <2>2. CASE Id(h, t) \notin Ids(g)
    BY <1>1, <1>2, <2>2 DEF Chosen, Reselects
  <2> QED
    BY <2>1, <2>2
<1>3. ASSUME NEW h \in Dependent, Single(C, h) PROVE Single(C2, h)
  <2>1. CASE Ids(g) \cap Ids(h) = {}
    <3>1. Id(g, first) \in Ids(g)
      BY DEF Page, Reselects
    <3>2. C2 \cap Ids(h) = C \cap Ids(h)
      BY <2>1, <3>1 DEF Reselects
    <3> QED
      BY <1>3, <3>2 DEF Single
  <2>2. CASE Ids(g) \cap Ids(h) # {}
    <3>1. layout[g].tabs = layout[h].tabs
      BY <2>2 DEF Rules
    <3>2. Ids(h) = Ids(g)
      BY <3>1 DEF Ids
    <3> QED
      BY <3>2 DEF Single, Reselects
  <2> QED
    BY <2>1, <2>2
<1> QED
  BY <1>1, <1>2, <1>3

\* A group that is brought up to date shows one tab, and none that was selected
\* is lost.
LEMMA UpdateSound ==
  ASSUME Page, Rules, NEW g \in Dependent, NEW c, Sound(c, g - 1)
  PROVE  /\ Sound(Update(c, g), g)
         /\ \A h \in Dependent : \A t \in TabsOf(h) :
              Chosen(ToSet(c.chosen), h, t) => Chosen(ToSet(Update(c, g).chosen), h, t)
<1> DEFINE C == ToSet(c.chosen)
           n == Len(layout)
           tabs == layout[g].tabs
           there == {t \in TabsOf(g) : Meets(C, Cond(g, t))}
           active == {t \in there : ToSet(tabs[t].ids) \cap C # {}}
           first == Min(there)
           Seen(chosen, picked, threw) ==
             [chosen |-> chosen, visible |-> [c.visible EXCEPT ![g] = there],
              selected |-> [c.selected EXCEPT ![g] = picked], threw |-> threw]
<1>0. c \in Classified /\ c.threw = FALSE /\ Holds(c.chosen, TabIds, C)
      /\ (\A h \in Dependent : Single(C, h)) /\ \A h \in Dependent : h <= g - 1 => ShowsOne(c, h)
  BY SMTT(30) DEF Sound
<1>1. Update(c, g) = IF active # {} THEN Seen(c.chosen, active, FALSE)
                     ELSE IF there = {} THEN Seen(Forget(c.chosen, tabs), {}, TRUE)
                     ELSE Seen(Append(Forget(c.chosen, tabs), tabs[first].ids[1]), {first}, FALSE)
  BY <1>0 DEF Update, TabsOf, Cond, Meets
<1>2. /\ g \in 1 .. n /\ n \in Nat /\ tabs \in Seq(Tabs) /\ TabsOf(g) \in SUBSET Nat
      /\ \A h \in Dependent : h \in Nat
  BY DEF Page
<1>3. active = {t \in there : Id(g, t) \in C}
  <2>1. \A t \in there : ToSet(tabs[t].ids) = {Id(g, t)}
    BY DEF Page
  <2>2. \A t \in there : ToSet(tabs[t].ids) \cap C # {} <=> Id(g, t) \in C
    BY <2>1
  <2> HIDE DEF there, C, tabs
  <2> QED
    BY <2>2
<1>4. there # {}
  <2>1. CASE \E t \in TabsOf(g) : Cond(g, t) = NoCondition
    BY <2>1 DEF Meets
  <2>2. CASE \E h \in Dependent : h < g /\ Ids(h) = Conditions(g)
    <3>1. PICK h \in Dependent : h < g /\ Ids(h) = Conditions(g)
      BY <2>2
    <3>2. ShowsOne(c, h)
      BY <1>0, <1>2, <3>1
    <3>3. PICK t \in TabsOf(h) : Id(h, t) \in C
      BY <3>2 DEF ShowsOne
    <3>4. Id(h, t) \in Conditions(g)
      BY <3>1, <3>3 DEF Page
    <3>5. PICK u \in TabsOf(g) : Cond(g, u) = Id(h, t)
      BY <3>4 DEF Conditions, Cond, TabsOf
    <3> QED
      BY <3>3, <3>5 DEF Meets
  <2> QED
    BY <2>1, <2>2 DEF Rules
<1>5. PICK vis, sel : vis = c.visible /\ sel = c.selected
  OBVIOUS
<1>6. vis \in [1 .. n -> SUBSET Nat] /\ sel \in [1 .. n -> SUBSET Nat] /\ there \in SUBSET Nat
  BY <1>0, <1>2, <1>5 DEF Classified
<1> HIDE DEF there, active, C, n
<1>7. ASSUME NEW D, NEW s, Holds(s, TabIds, D), NEW t \in there, Id(g, t) \in D,
             \A h \in Dependent : Single(D, h),
             \A h \in Dependent : \A u \in TabsOf(h) : Meets(C, Cond(h, u)) => Meets(D, Cond(h, u)),
             \A h \in Dependent : \A u \in TabsOf(h) : Chosen(C, h, u) => Chosen(D, h, u)
      PROVE  Sound(Seen(s, {t}, FALSE), g)
  <2>0. PICK c2 : c2 = Seen(s, {t}, FALSE)
    OBVIOUS
  <2>1. /\ c2 = [chosen |-> s, visible |-> [vis EXCEPT ![g] = there],
                 selected |-> [sel EXCEPT ![g] = {t}], threw |-> FALSE]
        /\ c2.chosen = s /\ c2.threw = FALSE
        /\ c2.visible = [vis EXCEPT ![g] = there] /\ c2.selected = [sel EXCEPT ![g] = {t}]
    BY <1>5, <2>0
  <2>2. c2 \in Classified
    <3>1. {t} \in SUBSET Nat /\ s \in Seq(TabIds)
      BY <1>6, <1>7 DEF Holds
    <3>2. [vis EXCEPT ![g] = there] \in [1 .. n -> SUBSET Nat]
      BY <1>2, <1>6
    <3>3. [sel EXCEPT ![g] = {t}] \in [1 .. n -> SUBSET Nat]
      BY <1>2, <1>6, <3>1
    <3> QED
      BY <2>1, <3>1, <3>2, <3>3 DEF Classified, n
  <2>3. D = ToSet(s)
    BY <1>7 DEF Holds
  <2>4. ASSUME NEW h \in Dependent, h <= g PROVE ShowsOne(c2, h)
    <3>1. CASE h = g
      <4>1. c2.visible[h] = there /\ c2.selected[h] = {t}
        BY <1>2, <1>6, <2>1, <3>1
      <4>2. there \subseteq TabsOf(g) /\ \A u \in there : Meets(D, Cond(g, u))
        BY <1>7 DEF there
      <4> QED
        BY <1>7, <2>1, <2>3, <3>1, <4>1, <4>2 DEF ShowsOne
    <3>2. CASE h # g
      <4>1. h <= g - 1
        BY <1>2, <2>4, <3>2
      <4>2. ShowsOne(c, h)
        BY <1>0, <4>1
      <4>3. c2.visible[h] = c.visible[h] /\ c2.selected[h] = c.selected[h]
        <5>1. h \in 1 .. n
          BY DEF Page, n
        <5> QED
          BY <1>5, <1>6, <2>1, <3>2, <5>1
      <4>4. /\ c.visible[h] \subseteq TabsOf(h)
            /\ \A u \in c.visible[h] : Meets(C, Cond(h, u))
        BY <4>2 DEF ShowsOne, C
      <4>5. PICK u \in c.visible[h] : c.selected[h] = {u} /\ Id(h, u) \in C
        BY <4>2 DEF ShowsOne, C
      <4>6. Id(h, u) \in D
        BY <1>7, <4>4, <4>5 DEF Chosen
      <4>7. \A v \in c.visible[h] : Meets(D, Cond(h, v))
        BY <1>7, <4>4
      <4> QED
        BY <2>1, <2>3, <4>3, <4>4, <4>5, <4>6, <4>7 DEF ShowsOne
    <3> QED
      BY <3>1, <3>2
  <2> QED
    BY <1>7, <2>0, <2>1, <2>2, <2>3, <2>4 DEF Sound
<1>8. CASE active # {}
  <2>1. PICK t \in there : t \in active /\ Id(g, t) \in C
    BY <1>3, <1>8
  <2>2. \A u \in active : Chosen(C, g, u) /\ u \in TabsOf(g)
    BY <1>3 DEF there, Chosen
  <2>3. active = {t}
    BY <1>0, <2>1, <2>2, OneChosen
  <2>4. Update(c, g) = Seen(c.chosen, {t}, FALSE)
    BY <1>1, <1>8, <2>3
  <2>5. Sound(Seen(c.chosen, {t}, FALSE), g)
    BY <1>0, <1>7, <2>1
  <2>6. Update(c, g).chosen = c.chosen
    BY <2>4
  <2> QED
    BY <2>4, <2>5, <2>6
<1>9. CASE active = {}
  <2>1. first \in there
    BY <1>4, <1>6, SmallestIn
  <2>2. PICK s, D : s = Append(Forget(c.chosen, tabs), tabs[first].ids[1])
                    /\ D = (C \ Ids(g)) \cup {Id(g, first)}
    OBVIOUS
  <2>3. first \in TabsOf(g) /\ Id(g, first) \in TabIds /\ Id(g, first) \in Ids(g)
    BY <2>1 DEF there, Page
  <2>4. Holds(s, TabIds, D)
    <3>1. Holds(Forget(c.chosen, tabs), TabIds, C \ Ids(g))
      BY <1>0, <1>2, ForgetHolds DEF Ids
    <3>2. Id(g, first) \notin C \ Ids(g) /\ tabs[first].ids[1] = Id(g, first)
      BY <2>3 DEF Id
    <3> HIDE DEF first, tabs
    <3> QED
      BY <2>2, <2>3, <3>1, <3>2, AppendedHolds
  <2>5. Reselects(C, D, g, first)
    <3>1. \A t \in TabsOf(g) : ~Chosen(C, g, t)
      BY <1>3, <1>9 DEF there, Chosen
    <3> QED
      BY <2>1, <2>2, <2>3, <3>1 DEF Reselects, there
  <2>6. /\ \A h \in Dependent : \A t \in TabsOf(h) : Meets(C, Cond(h, t)) => Meets(D, Cond(h, t))
        /\ \A h \in Dependent : \A t \in TabsOf(h) : Chosen(C, h, t) => Chosen(D, h, t)
        /\ \A h \in Dependent : Single(D, h)
    BY <1>0, <2>5, ReselectKeeps
  <2>7. Update(c, g) = Seen(s, {first}, FALSE)
    BY <1>1, <1>4, <1>9, <2>2
  <2>8. Sound(Seen(s, {first}, FALSE), g)
    BY <1>7, <2>1, <2>2, <2>4, <2>6
  <2>9. ToSet(Update(c, g).chosen) = D
    BY <2>4, <2>7 DEF Holds
  <2> QED
    BY <2>6, <2>7, <2>8, <2>9 DEF C
<1> QED
  BY <1>8, <1>9

\* The ids that are selected and the classes of the tabs.
Current == [chosen |-> selectedTabs, visible |-> visible, selected |-> selected, threw |-> tabsThrew]

\* The inductive invariant: what the groups that were gone through show is
\* what is selected.
TabsInv ==
  /\ layout \in Layouts
  /\ grouped \in Nat /\ grouped <= Len(layout)
  /\ WellFormed => Sound(Current, grouped)

\* What a click asks for: the id of t for the one of its group that was selected.
LEMMA ReplacedSound ==
  ASSUME Page, Rules, NEW c, Sound(c, Len(layout)), NEW d, d.threw = FALSE, d.chosen \in Seq(TabIds) => d \in Classified,
         NEW g \in Dependent, NEW t \in c.visible[g], Id(g, t) \notin ToSet(c.chosen),
         d.chosen = Replaced(c.chosen, layout[g].tabs[Min(c.selected[g])].ids[1], Id(g, t))
  PROVE  Sound(d, 0) /\ Chosen(ToSet(d.chosen), g, t)
<1>1. PICK C, D : C = ToSet(c.chosen) /\ D = ToSet(d.chosen)
  BY SMTT(30)
<1>2. g \in Nat /\ g <= Len(layout) /\ ShowsOne(c, g) /\ Holds(c.chosen, TabIds, C) /\ Single(C, g)
  <2>1. g \in 1 .. Len(layout) /\ Len(layout) \in Nat
    BY DEF Page
  <2>2. g \in Nat /\ g <= Len(layout)
    BY <2>1
  <2>3. ShowsOne(c, g)
    BY <2>2 DEF Sound
  <2>4. Holds(c.chosen, TabIds, C)
    BY <1>1 DEF Sound
  <2>5. Single(C, g)
    BY <1>1 DEF Sound
  <2> QED
    BY <2>2, <2>3, <2>4, <2>5
<1>3. t \in TabsOf(g) /\ Meets(C, Cond(g, t)) /\ Id(g, t) \in TabIds /\ Id(g, t) \in Ids(g)
  BY <1>1, <1>2 DEF ShowsOne, Page
<1>4. PICK u \in TabsOf(g) : c.selected[g] = {u} /\ Id(g, u) \in C
  BY <1>1, <1>2 DEF ShowsOne
<1>5. Min(c.selected[g]) = u
  <2>1. {u} \in SUBSET Nat /\ {u} # {}
    BY <1>4 DEF Page
  <2> QED
    BY <1>4, <2>1, SmallestIn
<1>6. PICK p \in C : p = Id(g, u) /\ p \in Ids(g) /\ \A x \in C \cap Ids(g) : x = p
  <2>1. Id(g, u) \in Ids(g)
    BY <1>4 DEF Page
  <2> QED
    BY <1>2, <1>4, <2>1 DEF Single
<1>7. Holds(d.chosen, TabIds, (C \ {p}) \cup {Id(g, t)})
  <2>1. d.chosen = Replaced(c.chosen, p, Id(g, t))
    BY <1>5, <1>6, SMTT(30) DEF Id
  <2> QED
    BY <1>1, <1>2, <1>3, <1>6, <2>1, ReplacedHolds
<1>8. D = (C \ {p}) \cup {Id(g, t)}
  BY <1>1, <1>7 DEF Holds
<1>9. ASSUME NEW h \in Dependent PROVE Single(D, h)
  <2>1. CASE Id(g, t) \in Ids(h)
    <3>1. layout[g].tabs = layout[h].tabs
      BY <1>3, <2>1 DEF Rules
    <3>2. Ids(h) = Ids(g)
      BY <3>1 DEF Ids
    <3> QED
      BY <1>6, <1>8, <3>2 DEF Single
  <2>2. CASE Id(g, t) \notin Ids(h)
    BY <1>1, <1>8, <2>2 DEF Single, Sound
  <2> QED
    BY <2>1, <2>2
<1>10. Cond(g, t) # p
  <2> SUFFICES ASSUME Cond(g, t) = p PROVE FALSE
    OBVIOUS
  <2>1. p # NoCondition
    BY <1>6 DEF Page
  <2>2. p \in Ids(g) \cap Conditions(g)
    BY <1>3, <1>6, <2>1 DEF Page
  <2> QED
    BY <2>2 DEF Rules
<1>11. Chosen(D, g, t)
  BY <1>3, <1>8, <1>10 DEF Chosen, Meets
<1>12. \A h \in Dependent : ~(h <= 0)
  BY SMTT(30) DEF Page
<1>13. Holds(d.chosen, TabIds, ToSet(d.chosen))
  BY <1>1, <1>7, <1>8, SMTT(30)
<1>14. d \in Classified
  BY <1>13 DEF Holds
<1> QED
  BY <1>1, <1>9, <1>11, <1>12, <1>13, <1>14 DEF Sound

\* Every group is brought up to date, and the tab that was clicked stays selected.
LEMMA ClickSound ==
  ASSUME Page, Rules, Sound(Current, Len(layout)),
         NEW g \in Dependent, NEW t \in visible[g], ClickDependent(g, t),
         Id(g, t) \notin ToSet(selectedTabs)
  PROVE  \E d : Sound(d, Len(layout)) /\ Becomes(d) /\ Chosen(ToSet(d.chosen), g, t)
<1> DEFINE n == Len(layout)
           tabs == layout[g].tabs
           base == Classes(Replaced(selectedTabs, tabs[Min(selected[g])].ids[1], tabs[t].ids[1]))
           Visit(c, h) == IF h \in Dependent THEN Update(c, h) ELSE c
           Eq(f) == f = [h \in 0 .. n |-> IF h = 0 THEN base ELSE
                           IF h \in Dependent THEN Update(f[h - 1], h) ELSE f[h - 1]]
           upTo == CHOOSE f : Eq(f)
           I == [k \in 0 .. n |-> {c \in Classified : Sound(c, k) /\ Chosen(ToSet(c.chosen), g, t)}]
           step == [k \in 1 .. n |-> [c \in I[k - 1] |-> Visit(c, k)]]
<1>1. /\ n \in Nat /\ Dependent \subseteq 1 .. n
      /\ Current.chosen = selectedTabs /\ Current.visible = visible /\ Current.selected = selected
      /\ tabsThrew = FALSE
  BY DEF Page, Current, Sound
<1>2. base \in I[0]
  <2>1. PICK s : s = Replaced(selectedTabs, tabs[Min(selected[g])].ids[1], tabs[t].ids[1])
    BY SMTT(30)
  <2>2. PICK d : d = base /\ d = [chosen |-> s, visible |-> visible, selected |-> selected, threw |-> FALSE]
    BY <2>1 DEF Classes
  <2>3. d.chosen = s /\ d.threw = FALSE
    BY <2>2
  <2>4. tabs[t].ids[1] = Id(g, t)
    BY DEF Id
  <2>5. s \in Seq(TabIds) => d \in Classified
    BY <1>1, <2>2 DEF Classified, Sound, Current
  <2>6. Sound(d, 0) /\ Chosen(ToSet(d.chosen), g, t)
    BY <1>1, <2>1, <2>3, <2>4, <2>5, ReplacedSound
  <2>7. d \in Classified
    BY <2>6 DEF Sound
  <2>8. 0 \in 0 .. n
    BY <1>1
  <2> HIDE DEF base
  <2> QED
    BY <2>2, <2>6, <2>7, <2>8
<1> HIDE DEF base
<1>3. ASSUME NEW k \in 1 .. n, NEW c \in Classified, Sound(c, k - 1), Chosen(ToSet(c.chosen), g, t)
      PROVE  Visit(c, k) \in Classified /\ Sound(Visit(c, k), k) /\ Chosen(ToSet(Visit(c, k).chosen), g, t)
  <2>1. CASE k \in Dependent
    <3>1. t \in TabsOf(g)
      BY <1>1 DEF Sound, ShowsOne, Page
    <3>2. Visit(c, k) = Update(c, k)
      BY <2>1
    <3>3. Sound(Update(c, k), k) /\ Chosen(ToSet(Update(c, k).chosen), g, t)
      BY <1>3, <2>1, <3>1, UpdateSound
    <3> HIDE DEF Visit
    <3> QED
      BY <3>2, <3>3 DEF Sound
  <2>2. CASE k \notin Dependent
    <3>1. \A h \in Dependent : h <= k => h <= k - 1
      BY <1>1, <2>2
    <3> QED
      BY <1>3, <2>2, <3>1 DEF Sound
  <2> QED
    BY <2>1, <2>2
<1> HIDE DEF Visit
<1>4. ASSUME NEW k \in 1 .. n, NEW c \in I[k - 1] PROVE Visit(c, k) \in I[k]
  <2>1. k - 1 \in 0 .. n /\ k \in 0 .. n
    BY <1>1
  <2>2. c \in Classified /\ Sound(c, k - 1) /\ Chosen(ToSet(c.chosen), g, t)
    BY <2>1
  <2> QED
    BY <1>3, <2>1, <2>2
<1> HIDE DEF I
<1>5. PICK f : Declares(f, n, base, step) /\ \A k \in 0 .. n : f[k] \in I[k]
  <2>1. \A k \in 1 .. n : \A c \in I[k - 1] : step[k][c] \in I[k]
    BY <1>4
  <2> HIDE DEF step, n
  <2> QED
    BY <1>1, <1>2, <2>1, Recursion
<1>6. Eq(f)
  <2>1. ASSUME NEW k \in 1 .. n PROVE step[k][f[k - 1]] = Visit(f[k - 1], k)
    <3>1. k - 1 \in 0 .. n
      BY <1>1
    <3> QED
      BY <1>5, <3>1
  <2>2. \A k \in 0 .. n : k # 0 => k \in 1 .. n
    BY <1>1
  <2> HIDE DEF step
  <2> QED
    BY <1>5, <2>1, <2>2 DEF Declares, Visit
<1>7. Eq(upTo)
  <2> HIDE DEF Eq
  <2> QED
    BY <1>6
<1>8. Becomes(upTo[n])
  <2>1. ToSet(selectedTabs) \cap ToSet(tabs[t].ids) = {}
    <3>1. t \in TabsOf(g)
      BY <1>1 DEF Sound, ShowsOne, Page
    <3>2. ToSet(tabs[t].ids) = {Id(g, t)}
      BY <3>1 DEF Page
    <3> HIDE DEF tabs
    <3> QED
      BY <3>2
  <2> QED
    BY <2>1 DEF ClickDependent, base
<1>9. PICK u : Eq(u) /\ Becomes(u[n])
  <2> HIDE DEF Eq, upTo
  <2> QED
    BY <1>7, <1>8
<1> HIDE DEF upTo
<1>10. u[0] = base /\ \A k \in 1 .. n : u[k] = Visit(u[k - 1], k)
  <2>1. 0 \in 0 .. n /\ \A k \in 1 .. n : k \in 0 .. n /\ k # 0
    BY <1>1
  <2> QED
    BY <1>9, <2>1 DEF Visit
<1>11. u[n] \in I[n]
  <2> HIDE DEF n
  <2>1. \A k \in 0 .. n : u[k] \in I[k]
    BY <1>1, <1>2, <1>4, <1>10, Stays
  <2> QED
    BY <1>1, <2>1
<1>12. n \in 0 .. n
  BY <1>1
<1> QED
  <2> HIDE DEF n
  <2>1. Sound(u[n], n) /\ Chosen(ToSet(u[n].chosen), g, t)
    BY <1>11, <1>12 DEF I
  <2> QED
    BY <1>9, <2>1 DEF n

\* A tab that is selected is shown, wherever its group is.
LEMMA ChosenShown ==
  ASSUME Page, Rules, NEW c, NEW k, Sound(c, k),
         NEW g \in Dependent, NEW t \in TabsOf(g), Chosen(ToSet(c.chosen), g, t),
         NEW h \in Dependent, h <= k, layout[h].tabs = layout[g].tabs
  PROVE  t \in c.selected[h]
<1>1. PICK C : C = ToSet(c.chosen)
  OBVIOUS
<1>2. ShowsOne(c, h) /\ \A i \in Dependent : Single(C, i)
  BY <1>1 DEF Sound
<1>3. PICK u \in TabsOf(h) : c.selected[h] = {u} /\ Chosen(C, h, u)
  BY <1>1, <1>2 DEF ShowsOne, Chosen
<1>4. t \in TabsOf(h) /\ Chosen(C, h, t)
  BY <1>1 DEF TabsOf, Chosen, Id, Cond
<1>5. t = u
  BY <1>2, <1>3, <1>4, OneChosen
<1> QED
  BY <1>3, <1>5

\* What Sound says does not depend on more than the layout.
LEMMA SameLayout ==
  ASSUME layout' = layout, NEW c, NEW k, Sound(c, k), c = Current', k = grouped'
  PROVE  Sound(Current, grouped)'
<1>1. /\ Dependent' = Dependent /\ Classified' = Classified
      /\ \A g : Ids(g)' = Ids(g) /\ TabsOf(g)' = TabsOf(g)
      /\ \A g, t : Id(g, t)' = Id(g, t) /\ Cond(g, t)' = Cond(g, t)
  BY DEF Dependent, Classified, Ids, TabsOf, Id, Cond
<1>2. ASSUME NEW g \in Dependent, g <= k PROVE ShowsOne(Current, g)'
  <2>1. ShowsOne(c, g)
    BY <1>2 DEF Sound
  <2> QED
    BY <1>1, <2>1 DEF ShowsOne, Meets
<1>3. \A g \in Dependent : Single(ToSet(Current.chosen), g)'
  BY <1>1 DEF Sound, Single
<1>4. Current' \in Classified' /\ Current'.threw = FALSE /\ Holds(Current'.chosen, TabIds, ToSet(Current'.chosen))
  BY <1>1 DEF Sound
<1> QED
  BY <1>1, <1>2, <1>3, <1>4 DEF Sound

\* What a step of the page leaves is what it computed.
LEMMA SoundNext ==
  ASSUME layout' = layout, NEW d, NEW k, Sound(d, k), Becomes(d), grouped' = k
  PROVE  Sound(Current, grouped)'
<1>1. Current' = d
  <2>1. d = [chosen |-> d.chosen, visible |-> d.visible, selected |-> d.selected, threw |-> d.threw]
    BY DEF Sound, Classified
  <2> QED
    BY <2>1 DEF Current, Becomes
<1> QED
  BY <1>1, SameLayout

\* Nothing is selected before initTabs.
LEMMA InitTabsInv == LayoutsAssumption /\ InitTabs => TabsInv
<1> SUFFICES ASSUME LayoutsAssumption, InitTabs PROVE TabsInv
  OBVIOUS
<1>1. /\ layout \in Layouts /\ layout \in Seq(Groups) /\ grouped = 0
      /\ Len(layout) \in Nat /\ DOMAIN layout = 1 .. Len(layout)
  BY DEF InitTabs, LayoutsAssumption
<1>2. Sound(Current, 0)
  <2>1. Current.chosen = <<>> /\ Current.threw = FALSE
    BY DEF Current, InitTabs
  <2>2. Current \in Classified
    <3>1. \A g \in 1 .. Len(layout) : DOMAIN layout[g].tabs \in SUBSET Nat
      <4> TAKE g \in 1 .. Len(layout)
      <4>1. layout[g] \in Groups
        BY <1>1
      <4>2. layout[g].tabs \in Seq(Tabs)
        BY <4>1 DEF Groups
      <4> QED
        BY <4>2
    <3>2. visible \in [1 .. Len(layout) -> SUBSET Nat] /\ selected \in [1 .. Len(layout) -> SUBSET Nat]
      BY <1>1, <3>1 DEF InitTabs
    <3>3. selectedTabs \in Seq(TabIds) /\ tabsThrew \in BOOLEAN
      BY EmptySeq DEF InitTabs
    <3> QED
      BY <3>2, <3>3 DEF Current, Classified
  <2>3. ToSet(Current.chosen) = {}
    BY <2>1 DEF ToSet
  <2>4. Holds(Current.chosen, TabIds, ToSet(Current.chosen))
    BY <2>1 DEF Holds
  <2>5. \A g \in Dependent : Single(ToSet(Current.chosen), g) /\ ~(g <= 0)
    BY <1>1, <2>3 DEF Single, Dependent
  <2> QED
    BY <2>1, <2>2, <2>4, <2>5 DEF Sound
<1> QED
  BY <1>1, <1>2 DEF TabsInv

\* Neither initTabs nor a click leaves the invariant.
LEMMA TabSteps ==
  ASSUME LayoutsAssumption, TabsInv, [TabStep]_tabVars
  PROVE  TabsInv'
<1>1. layout \in Layouts /\ grouped \in Nat /\ Len(layout) \in Nat
  BY DEF TabsInv, LayoutsAssumption
<1>2. CASE InitTabGroup
  <2>1. layout' = layout /\ grouped' = grouped + 1 /\ grouped < Len(layout) /\ ~tabsThrew
    BY <1>2 DEF InitTabGroup
  <2>2. WellFormed' = WellFormed
    BY <2>1 DEF WellFormed, Dependent, Inhabited, Unambiguous, Unconditional, Ids, Conditions
  <2>3. ASSUME WellFormed PROVE Sound(Current, grouped)'
    <3>1. Page /\ Rules
      BY <1>1, <2>3, PageIs, RulesHold
    <3>2. Sound(Current, grouped)
      BY <2>3 DEF TabsInv
    <3>3. CASE grouped + 1 \in Dependent
      <4>1. PICK c, d, k : c = Current /\ k = grouped + 1 /\ d = Update(c, k)
        OBVIOUS
      <4>2. Classes(selectedTabs) = c
        BY <3>2, <4>1 DEF Classes, Current, Sound
      <4>3. Becomes(d)
        BY <1>2, <3>3, <4>1, <4>2 DEF InitTabGroup
      <4>4. k - 1 = grouped /\ k \in Dependent
        BY <1>1, <3>3, <4>1
      <4>5. Sound(c, k - 1)
        BY <3>2, <4>1, <4>4
      <4>6. Sound(d, k)
        BY <3>1, <4>1, <4>4, <4>5, UpdateSound
      <4> QED
        BY <2>1, <4>1, <4>3, <4>6, SoundNext
    <3>4. CASE grouped + 1 \notin Dependent
      <4>1. Becomes(Current)
        BY <1>2, <3>4 DEF InitTabGroup, Becomes, Current
      <4>2. \A h \in Dependent : h <= grouped + 1 => h <= grouped
        BY <1>1, <3>1, <3>4 DEF Page
      <4>3. Sound(Current, grouped + 1)
        BY <3>2, <4>2 DEF Sound
      <4> QED
        BY <2>1, <4>1, <4>3, SoundNext
    <3> QED
      BY <3>3, <3>4
  <2> QED
    BY <1>1, <2>1, <2>2, <2>3 DEF TabsInv
<1>3. ASSUME NEW g \in DOMAIN layout, NEW t \in DOMAIN layout[g].tabs, ClickTab(g, t)
      PROVE  TabsInv'
  <2>1. /\ layout' = layout /\ grouped' = grouped /\ grouped = Len(layout) /\ t \in visible[g]
    BY <1>3 DEF ClickTab
  <2>2. WellFormed' = WellFormed
    BY <2>1 DEF WellFormed, Dependent, Inhabited, Unambiguous, Unconditional, Ids, Conditions
  <2>3. ASSUME WellFormed PROVE Sound(Current, grouped)'
    <3>1. Page /\ Rules
      BY <1>1, <2>3, PageIs, RulesHold
    <3>2. Sound(Current, grouped)
      BY <2>3 DEF TabsInv
    <3>3. CASE g \in Dependent
      <4>1. ClickDependent(g, t)
        BY <1>3, <3>3 DEF ClickTab, Dependent
      <4>2. CASE Id(g, t) \in ToSet(selectedTabs)
        <5>1. ToSet(selectedTabs) \cap ToSet(layout[g].tabs[t].ids) # {}
          BY <3>1, <3>3, <4>2, SMTT(30) DEF Page, TabsOf
        <5>2. Becomes(Current)
          BY <4>1, <5>1 DEF ClickDependent, Becomes, Current
        <5> QED
          BY <2>1, <3>2, <5>2, SoundNext
      <4>3. CASE Id(g, t) \notin ToSet(selectedTabs)
        <5>1. PICK d : Sound(d, Len(layout)) /\ Becomes(d)
          BY <2>1, <3>1, <3>2, <3>3, <4>1, <4>3, ClickSound
        <5> QED
          BY <2>1, <5>1, SoundNext
      <4> QED
        BY <4>2, <4>3
    <3>4. CASE g \notin Dependent
      <4>1. PICK picked : picked = {u \in DOMAIN layout[g].tabs :
                            ToSet(layout[g].tabs[u].ids) \cap ToSet(layout[g].tabs[t].ids) # {}}
        OBVIOUS
      <4>2. /\ selected' = [selected EXCEPT ![g] = picked]
            /\ selectedTabs' = selectedTabs /\ visible' = visible /\ tabsThrew' = tabsThrew
        BY <1>3, <3>4, <4>1 DEF ClickTab, ClickIndependent, Dependent
      <4>3. PICK vis, sel : vis = visible /\ sel = [selected EXCEPT ![g] = picked]
        OBVIOUS
      <4>4. PICK d : d = [chosen |-> selectedTabs, visible |-> vis, selected |-> sel, threw |-> tabsThrew]
        OBVIOUS
      <4>5. /\ d.chosen = selectedTabs /\ d.visible = visible /\ d.threw = tabsThrew
             /\ d.selected = [selected EXCEPT ![g] = picked]
        BY <4>3, <4>4
      <4>6. Becomes(d)
        BY <4>2, <4>5 DEF Becomes
      <4>7. picked \in SUBSET Nat
        <5>1. layout \in Seq(Groups)
          BY <1>1 DEF LayoutsAssumption
        <5>2. layout[g] \in Groups
          BY <5>1
        <5>3. layout[g].tabs \in Seq(Tabs)
          BY <5>2 DEF Groups
        <5>4. DOMAIN layout[g].tabs \subseteq Nat
          BY <5>3
        <5> QED
          BY <4>1, <5>4
      <4>8. d \in Classified
        BY <3>2, <4>3, <4>4, <4>7 DEF Sound, Current, Classified
      <4>9. \A h \in Dependent : h # g /\ (ShowsOne(Current, h) => ShowsOne(d, h))
        <5> TAKE h \in Dependent
        <5>1. h # g
          BY <3>4
        <5>2. d.selected[h] = Current.selected[h] /\ d.visible = Current.visible /\ d.chosen = Current.chosen
          <6>1. selected \in [1 .. Len(layout) -> SUBSET Nat] /\ h \in 1 .. Len(layout)
            BY <3>1, <3>2 DEF Sound, Current, Classified, Page
          <6> QED
            BY <4>5, <5>1, <6>1 DEF Current
        <5> QED
          BY <5>1, <5>2 DEF ShowsOne
      <4>10. d.threw = Current.threw /\ d.chosen = Current.chosen
        BY <4>5 DEF Current
      <4>11. Sound(d, grouped)
        BY <3>2, <4>8, <4>9, <4>10 DEF Sound
      <4> QED
        BY <2>1, <4>6, <4>11, SoundNext
    <3> QED
      BY <3>3, <3>4
  <2> QED
    BY <1>1, <2>1, <2>2, <2>3 DEF TabsInv
<1>4. CASE UNCHANGED tabVars
  <2>1. layout' = layout /\ grouped' = grouped /\ Becomes(Current)
    BY <1>4 DEF tabVars, Becomes, Current
  <2>2. WellFormed' = WellFormed
    BY <2>1 DEF WellFormed, Dependent, Inhabited, Unambiguous, Unconditional, Ids, Conditions
  <2>3. ASSUME WellFormed PROVE Sound(Current, grouped)'
    <3>1. Sound(Current, grouped)
      BY <2>3 DEF TabsInv
    <3> QED
      BY <2>1, <3>1, SoundNext
  <2> QED
    BY <1>1, <2>1, <2>2, <2>3 DEF TabsInv
<1> QED
  BY <1>2, <1>3, <1>4 DEF TabStep

\* The invariant is about what the reader sees.
LEMMA TabsInvShows == ASSUME LayoutsAssumption, TabsInv PROVE OneTabShown
<1> SUFFICES ASSUME WellFormed
             PROVE  ~tabsThrew /\ \A g \in Ready : \E t \in visible[g] : selected[g] = {t}
  BY DEF OneTabShown
<1>1. Sound(Current, grouped) /\ Current.visible = visible /\ Current.selected = selected /\ Current.threw = tabsThrew
  BY DEF TabsInv, Current
<1> QED
  BY <1>1 DEF Sound, ShowsOne, Ready

\* A click selects the id of the tab, unless it is selected already.
LEMMA ClicksStep ==
  ASSUME LayoutsAssumption, TabsInv, WellFormed,
         NEW g \in Dependent, NEW t \in DOMAIN layout[g].tabs, ClickTab(g, t),
         NEW h \in Dependent, layout[h].tabs = layout[g].tabs
  PROVE  t \in selected'[h]
<1>1. /\ layout \in Layouts /\ grouped = Len(layout) /\ t \in visible[g] /\ ClickDependent(g, t)
  BY DEF TabsInv, ClickTab, Dependent
<1>2. Page /\ Rules /\ Sound(Current, Len(layout))
  BY <1>1, PageIs, RulesHold DEF TabsInv
<1>3. t \in TabsOf(g) /\ h <= Len(layout)
  BY <1>2 DEF TabsOf, Page
<1>4. CASE Id(g, t) \in ToSet(selectedTabs)
  <2>1. ToSet(selectedTabs) \cap ToSet(layout[g].tabs[t].ids) # {}
    BY <1>2, <1>3, <1>4 DEF Page
  <2>2. selected' = selected
    BY <1>1, <2>1 DEF ClickDependent
  <2>3. /\ Current.chosen = selectedTabs /\ Current.visible = visible /\ Current.selected = selected
        /\ ShowsOne(Current, g)
    BY <1>1, <1>2 DEF Current, Sound, Page
  <2>4. Chosen(ToSet(Current.chosen), g, t)
    BY <1>1, <1>4, <2>3 DEF ShowsOne, Chosen
  <2> QED
    BY <1>2, <1>3, <2>2, <2>3, <2>4, ChosenShown
<1>5. CASE Id(g, t) \notin ToSet(selectedTabs)
  <2>1. PICK d : Sound(d, Len(layout)) /\ Becomes(d) /\ Chosen(ToSet(d.chosen), g, t)
    BY <1>1, <1>2, <1>5, ClickSound
  <2>2. t \in d.selected[h]
    BY <1>2, <1>3, <2>1, ChosenShown
  <2> QED
    BY <2>1, <2>2 DEF Becomes
<1> QED
  BY <1>4, <1>5

(***************************************************************************)
(* However many groups a page has, and whatever the reader clicks: if the  *)
(* page is well-formed each of its groups shows one tab, one that is there *)
(* (updateVisibilityAndSelection always finds one), and no script throws.  *)
(***************************************************************************)
THEOREM TabsShown == Spec => []OneTabShown
<1>1. Init => TabsInv
  BY LayoutsAssumption, InitTabsInv DEF Init
<1>2. TabsInv /\ [Next]_vars => TabsInv'
  <2>1. [Next]_vars => [TabStep]_tabVars
    BY DEF Next, vars, RenderOutline, RenderTabs, Click, FilterToc, TabStep
  <2> QED
    BY <2>1, LayoutsAssumption, TabSteps
<1>3. TabsInv => OneTabShown
  BY LayoutsAssumption, TabsInvShows
<1> QED
  BY <1>1, <1>2, <1>3, PTL DEF Spec

(***************************************************************************)
(* A click on a tab of a well-formed page is never lost: the tab is shown  *)
(* after it, in its group and in all those that have the same tabs,        *)
(* although the groups before it are brought up to date first and may      *)
(* select a tab of their own.                                              *)
(***************************************************************************)
THEOREM ClicksFollowed == Spec => ClicksAreFollowed
<1>1. Init => TabsInv
  BY LayoutsAssumption, InitTabsInv DEF Init
<1>2. TabsInv /\ [Next]_vars => TabsInv'
  <2>1. [Next]_vars => [TabStep]_tabVars
    BY DEF Next, vars, RenderOutline, RenderTabs, Click, FilterToc, TabStep
  <2> QED
    BY <2>1, LayoutsAssumption, TabSteps
<1>3. TabsInv => \A g \in Dependent : \A t \in DOMAIN layout[g].tabs :
        WellFormed /\ ClickTab(g, t) =>
          \A h \in Dependent : layout[h].tabs = layout[g].tabs => t \in selected'[h]
  BY LayoutsAssumption, ClicksStep
<1>4. TabsInv => [WellFormed =>
        \A g \in Dependent : \A t \in DOMAIN layout[g].tabs :
          ClickTab(g, t) =>
            \A h \in Dependent : layout[h].tabs = layout[g].tabs => t \in selected'[h]]_tabVars
  BY <1>3
<1> QED
  BY <1>1, <1>2, <1>4, PTL DEF Spec, ClicksAreFollowed

-----------------------------------------------------------------------------
(* The table of contents                                                   *)

Entries == 1 .. Len(tree)

TocType ==
  /\ tree \in Trees
  /\ shown \in SUBSET Entries /\ hidden \in SUBSET Entries /\ filtered \in SUBSET Entries
  /\ matching \in SUBSET Leaves

TocInv == TocType /\ FilterIsExact

Classed == [shown : SUBSET Entries, hidden : SUBSET Entries, filtered : SUBSET Entries]

\* What the classes of the leaves and of the first k entries are to say.
Exact(c, leaves, k) ==
  /\ c.shown \cap Leaves = leaves
  /\ c.hidden \cap Leaves = Leaves \ leaves
  /\ \A i \in 1 .. k : i \notin Leaves =>
       /\ Below(i) \cap leaves # {} => i \notin c.hidden
       /\ Below(i) \subseteq Leaves \ leaves => i \in c.hidden

LEMMA TreeFacts ==
  ASSUME TreesAssumption, tree \in Trees
  PROVE  /\ Len(tree) \in Nat /\ DOMAIN tree = Entries
         /\ \A i \in Entries : tree[i] \in 0 .. i - 1
         /\ Leaves \subseteq Entries
         /\ \A i \in Entries \ Leaves : \E j \in Entries : tree[j] = i
<1>1. tree \in Seq(Nat) /\ \A i \in DOMAIN tree : tree[i] \in 0 .. i - 1
  BY DEF TreesAssumption
<1>2. DOMAIN tree = Entries /\ Len(tree) \in Nat
  BY <1>1 DEF Entries
<1>3. Leaves \subseteq Entries /\ \A i \in Entries \ Leaves : \E j \in Entries : tree[j] = i
  BY <1>2 DEF Leaves, ToSet
<1> QED
  BY <1>1, <1>2, <1>3

LEMMA ParentsHaveSome ==
  ASSUME TreesAssumption, tree \in Trees, NEW i \in Entries \ Leaves
  PROVE  Below(i) # {}
<1> DEFINE n == Len(tree)
           P(p, k) == \A j \in 1 .. k : p[j] = (tree[j] # 0 /\ (tree[j] = i \/ p[tree[j]]))
           Eq(u) == u = [j \in DOMAIN tree |-> tree[j] # 0 /\ (tree[j] = i \/ u[tree[j]])]
           under == CHOOSE u : Eq(u)
           G == {k \in Nat : k <= n => \E p \in [1 .. k -> BOOLEAN] : P(p, k)}
<1>1. n \in Nat /\ DOMAIN tree = 1 .. n /\ \A j \in 1 .. n : tree[j] \in 0 .. j - 1
  BY TreeFacts DEF Entries
<1>2. PICK j \in 1 .. n : tree[j] = i /\ i # 0
  BY TreeFacts DEF Entries
<1>3. 0 \in G
  <2>1. [k \in 1 .. 0 |-> TRUE] \in [1 .. 0 -> BOOLEAN]
    OBVIOUS
  <2>2. P([k \in 1 .. 0 |-> TRUE], 0)
    OBVIOUS
  <2> QED
    BY <2>1, <2>2
<1>4. ASSUME NEW k \in Nat, k \in G PROVE k + 1 \in G
  <2> SUFFICES ASSUME k + 1 <= n PROVE \E q \in [1 .. k + 1 -> BOOLEAN] : P(q, k + 1)
    OBVIOUS
  <2>1. PICK p \in [1 .. k -> BOOLEAN] : P(p, k)
    <3>1. k <= n
      BY <1>1
    <3> HIDE DEF P, n
    <3> QED
      BY <1>4, <3>1
  <2> DEFINE last == tree[k + 1] # 0 /\ (tree[k + 1] = i \/ p[tree[k + 1]])
             q == [x \in 1 .. k + 1 |-> IF x = k + 1 THEN last ELSE p[x]]
  <2>2. k + 1 \in 1 .. n /\ tree[k + 1] \in 0 .. k
    BY <1>1
  <2>3. q \in [1 .. k + 1 -> BOOLEAN]
    <3>1. last \in BOOLEAN
      BY Zenon
    <3>2. \A x \in 1 .. k + 1 : x = k + 1 \/ x \in 1 .. k
      OBVIOUS
    <3> HIDE DEF last
    <3> QED
      BY <3>1, <3>2
  <2>4. \A x \in 1 .. k : q[x] = p[x] /\ tree[x] \in 0 .. k
    <3>1. \A x \in 1 .. k : x \in 1 .. k + 1 /\ x # k + 1 /\ x \in 1 .. n
      BY <1>1
    <3>2. \A x \in 1 .. k : tree[x] \in 0 .. k
      BY <1>1, <3>1
    <3> HIDE DEF last
    <3> QED
      BY <3>1, <3>2
  <2>5. q[k + 1] = last
    <3>1. k + 1 \in 1 .. k + 1
      OBVIOUS
    <3> HIDE DEF last
    <3> QED
      BY <3>1
  <2> HIDE DEF q
  <2>6. \A y \in 0 .. k : y # 0 => y \in 1 .. k
    OBVIOUS
  <2>7. ASSUME NEW x \in 1 .. k + 1
        PROVE  q[x] = (tree[x] # 0 /\ (tree[x] = i \/ q[tree[x]]))
    <3>1. CASE x = k + 1
      BY <2>2, <2>4, <2>5, <2>6, <3>1, Zenon
    <3>2. CASE x # k + 1
      <4>1. x \in 1 .. k
        BY <3>2
      <4> QED
        BY <2>1, <2>4, <2>6, <4>1, Zenon
    <3> QED
      BY <3>1, <3>2
  <2> QED
    BY <2>3, <2>7
<1>5. Nat \subseteq G
  <2> HIDE DEF G
  <2> QED
    BY <1>3, <1>4, Induction
<1>6. PICK p \in [1 .. n -> BOOLEAN] : P(p, n)
  <2>1. n \in Nat /\ n <= n
    BY <1>1
  <2> HIDE DEF P, n
  <2> QED
    BY <1>5, <2>1
<1>7. Eq(p)
  BY <1>1, <1>6
<1>8. Eq(under)
  <2> HIDE DEF Eq
  <2> QED
    BY <1>7
<1>9. Below(i) = {k \in DOMAIN tree : under[k]}
  BY DEF Below
<1>10. PICK u : Eq(u) /\ Below(i) = {k \in DOMAIN tree : u[k]}
  <2> HIDE DEF Eq, under
  <2> QED
    BY <1>8, <1>9
<1>11. u[j]
  BY <1>1, <1>2, <1>10
<1> QED
  BY <1>1, <1>2, <1>10, <1>11

LEMMA FilterStep ==
  ASSUME TreesAssumption, TocInv, NEW leaves \in SUBSET Leaves, Filter(leaves)
  PROVE  TocInv'
<1> DEFINE n == Len(tree)
           base == [shown |-> (shown \ Leaves) \cup leaves,
                    hidden |-> (hidden \cup Leaves) \ leaves,
                    filtered |-> filtered]
           Visit(c, i) == IF i \in Leaves THEN c ELSE FilterParent(c, i)
           Eq(f) == f = [i \in 0 .. n |-> IF i = 0 THEN base ELSE
                           IF i \in Leaves THEN f[i - 1] ELSE FilterParent(f[i - 1], i)]
           upTo == CHOOSE f : Eq(f)
           I == [k \in 0 .. n |-> {c \in Classed : Exact(c, leaves, k)}]
           step == [k \in 1 .. n |-> [c \in I[k - 1] |-> Visit(c, k)]]
<1>1. /\ tree \in Trees /\ n \in Nat /\ Entries = 1 .. n /\ Leaves \subseteq Entries
      /\ shown \in SUBSET Entries /\ hidden \in SUBSET Entries /\ filtered \in SUBSET Entries
  BY TreeFacts DEF TocInv, TocType, Entries
<1>2. base \in I[0]
  <2>1. base \in Classed
    BY <1>1 DEF Classed
  <2>2. 0 \in 0 .. n
    BY <1>1
  <2>3. Exact(base, leaves, 0)
    BY DEF Exact
  <2> HIDE DEF base
  <2> QED
    BY <2>1, <2>2, <2>3
<1>3. ASSUME NEW i \in 1 .. n, NEW c \in Classed, Exact(c, leaves, i - 1)
      PROVE  Visit(c, i) \in Classed /\ Exact(Visit(c, i), leaves, i)
  <2>1. \A j \in 1 .. i : j = i \/ j \in 1 .. i - 1
    OBVIOUS
  <2>0. Visit(c, i) \in Classed
    BY <1>1, <1>3 DEF Classed, FilterParent
  <2>2. CASE i \in Leaves
    BY <1>3, <2>0, <2>1, <2>2 DEF Exact
  <2>3. CASE i \notin Leaves
    <3> DEFINE d == FilterParent(c, i)
    <3>1. Visit(c, i) = d
      BY <2>3
    <3>2. d.shown \cap Leaves = leaves /\ d.hidden \cap Leaves = Leaves \ leaves
      BY <1>3, <2>3 DEF Exact, FilterParent
    <3>3. \A j : j # i => (j \in d.hidden <=> j \in c.hidden)
      BY DEF FilterParent
    <3>4. i \in d.hidden <=> Below(i) \cap c.shown = {}
      BY DEF FilterParent
    <3> HIDE DEF d
    <3>5. Below(i) \cap leaves # {} => i \notin d.hidden
      BY <1>3, <3>4 DEF Exact
    <3>6. Below(i) \subseteq Leaves \ leaves => i \in d.hidden
      BY <1>3, <3>4 DEF Exact
    <3>7. ASSUME NEW j \in 1 .. i, j \notin Leaves
          PROVE  /\ Below(j) \cap leaves # {} => j \notin d.hidden
                 /\ Below(j) \subseteq Leaves \ leaves => j \in d.hidden
      <4>1. CASE j = i
        BY <3>5, <3>6, <4>1
      <4>2. CASE j # i
        <5>1. j \in 1 .. i - 1
          BY <2>1, <4>2
        <5> QED
          BY <1>3, <3>3, <3>7, <4>2, <5>1 DEF Exact
      <4> QED
        BY <4>1, <4>2
    <3> QED
      BY <2>0, <3>1, <3>2, <3>7 DEF Exact
  <2> QED
    BY <2>0, <2>2, <2>3
<1> HIDE DEF base, Visit
<1>4. ASSUME NEW k \in 1 .. n, NEW c \in I[k - 1] PROVE Visit(c, k) \in I[k]
  <2>1. k - 1 \in 0 .. n /\ k \in 0 .. n
    BY <1>1
  <2>2. c \in Classed /\ Exact(c, leaves, k - 1)
    BY <2>1
  <2> QED
    BY <1>3, <2>1, <2>2
<1> HIDE DEF I
<1>5. PICK f : Declares(f, n, base, step) /\ \A k \in 0 .. n : f[k] \in I[k]
  <2>1. \A k \in 1 .. n : \A c \in I[k - 1] : step[k][c] \in I[k]
    BY <1>4
  <2> HIDE DEF step, n
  <2> QED
    BY <1>1, <1>2, <2>1, Recursion
<1>6. Eq(f)
  <2>1. ASSUME NEW k \in 1 .. n PROVE step[k][f[k - 1]] = Visit(f[k - 1], k)
    <3>1. k - 1 \in 0 .. n
      BY <1>1
    <3> QED
      BY <1>5, <3>1
  <2>2. \A k \in 0 .. n : k # 0 => k \in 1 .. n
    BY <1>1
  <2> HIDE DEF step
  <2> QED
    BY <1>5, <2>1, <2>2 DEF Declares, Visit
<1>7. Eq(upTo)
  <2> HIDE DEF Eq
  <2> QED
    BY <1>6
<1>8. /\ matching' = leaves /\ tree' = tree
       /\ shown' = upTo[n].shown /\ hidden' = upTo[n].hidden /\ filtered' = upTo[n].filtered
  BY DEF Filter, base
<1>9. PICK g : Eq(g) /\ g = upTo
  <2> HIDE DEF Eq, upTo
  <2> QED
    BY <1>7
<1> HIDE DEF upTo
<1>10. g[0] = base /\ \A k \in 1 .. n : g[k] = Visit(g[k - 1], k)
  <2>1. 0 \in 0 .. n /\ \A k \in 1 .. n : k \in 0 .. n /\ k # 0
    BY <1>1
  <2> QED
    BY <1>9, <2>1 DEF Visit
<1>11. g[n] \in Classed /\ Exact(g[n], leaves, n)
  <2> HIDE DEF n
  <2>1. \A k \in 0 .. n : g[k] \in I[k]
    BY <1>1, <1>2, <1>4, <1>10, Stays, ZenonT(40)
  <2>2. n \in 0 .. n
    BY <1>1
  <2> QED
    BY <2>1, <2>2 DEF I
<1>12. /\ shown' \in SUBSET Entries /\ hidden' \in SUBSET Entries /\ filtered' \in SUBSET Entries
       /\ Exact(g[n], leaves, n) /\ hidden' = g[n].hidden
  BY <1>8, <1>9, <1>11 DEF Classed
<1>13. Entries' = Entries /\ Leaves' = Leaves /\ \A i : Below(i)' = Below(i)
  BY <1>8 DEF Entries, Leaves, Below
<1>14. TocType'
  BY <1>1, <1>8, <1>12, <1>13 DEF TocType
<1>15. FilterIsExact'
  <2>1. matching' = Leaves \ hidden'
    BY <1>8, <1>12 DEF Exact
  <2>2. \A i \in DOMAIN tree \ Leaves :
          /\ Below(i) \cap leaves # {} => i \notin hidden'
          /\ Below(i) \subseteq Leaves \ leaves => i \in hidden'
    <3>1. DOMAIN tree = 1 .. n
      BY <1>1, TreeFacts
    <3> QED
      BY <1>12, <3>1 DEF Exact
  <2> QED
    BY <1>8, <1>13, <2>1, <2>2 DEF FilterIsExact
<1> QED
  BY <1>14, <1>15 DEF TocInv

LEMMA InitTocInv == TreesAssumption /\ InitToc => TocInv
<1> SUFFICES ASSUME TreesAssumption, InitToc PROVE TocInv
  OBVIOUS
<1>1. tree \in Trees
  BY DEF InitToc
<1>2. DOMAIN tree = Entries
  BY <1>1, TreeFacts
<1>3. \A i \in Entries \ Leaves : Below(i) # {}
  BY <1>1, ParentsHaveSome
<1>4. shown = {} /\ hidden = {} /\ filtered = {} /\ matching = Leaves
  BY DEF InitToc
<1> QED
  BY <1>1, <1>2, <1>3, <1>4 DEF TocInv, TocType, FilterIsExact

LEMMA TocSteps ==
  ASSUME TreesAssumption, TocInv, [TocStep]_tocVars
  PROVE  TocInv'
<1>1. ASSUME NEW leaves \in SUBSET Leaves, Filter(leaves) PROVE TocInv'
  BY <1>1, FilterStep
<1>2. CASE ClearFilter
  <2>1. /\ tree \in Trees /\ tree' = tree /\ shown' = shown /\ shown \in SUBSET Entries
        /\ hidden' = {} /\ filtered' = {} /\ matching' = Leaves
    BY <1>2 DEF ClearFilter, TocInv, TocType
  <2>2. DOMAIN tree = Entries
    BY <2>1, TreeFacts
  <2>3. \A i \in Entries \ Leaves : Below(i) # {}
    BY <2>1, ParentsHaveSome
  <2>4. Entries' = Entries /\ Leaves' = Leaves /\ \A i : Below(i)' = Below(i)
    BY <2>1 DEF Entries, Leaves, Below
  <2>5. TocType'
    BY <2>1, <2>4 DEF TocType
  <2>6. FilterIsExact'
    BY <2>1, <2>2, <2>3, <2>4 DEF FilterIsExact
  <2> QED
    BY <2>5, <2>6 DEF TocInv
<1>3. CASE UNCHANGED tocVars
  <2>1. /\ tree' = tree /\ shown' = shown /\ hidden' = hidden
        /\ filtered' = filtered /\ matching' = matching
    BY <1>3 DEF tocVars
  <2>2. Entries' = Entries /\ Leaves' = Leaves /\ \A i : Below(i)' = Below(i)
    BY <2>1 DEF Entries, Leaves, Below
  <2> QED
    BY <2>1, <2>2 DEF TocInv, TocType, FilterIsExact
<1> QED
  BY <1>1, <1>2, <1>3 DEF TocStep

(***************************************************************************)
(* Whatever was typed before, the filter of the table of contents shows    *)
(* the leaves that match and all that is above them, and hides the other   *)
(* leaves and what has only such leaves below: the classes that an earlier *)
(* input left on the entries do not matter.                                *)
(***************************************************************************)
THEOREM FilterExact == Spec => []FilterIsExact
<1>1. Init => TocInv
  BY TreesAssumption, InitTocInv DEF Init
<1>2. TocInv /\ [Next]_vars => TocInv'
  <2>1. [Next]_vars => [TocStep]_tocVars
    BY DEF Next, vars, RenderOutline, RenderTabs, Click, FilterToc
  <2> QED
    BY <2>1, TreesAssumption, TocSteps
<1>3. TocInv => FilterIsExact
  BY DEF TocInv
<1> QED
  BY <1>1, <1>2, <1>3, PTL DEF Spec

-----------------------------------------------------------------------------
(* The search                                                              *)

SearchType ==
  /\ handlers \in Nat
  /\ toWorker \in Seq(Long)
  /\ items \in [of : Queries \cup {None}, marked : Queries \cup {None}]
  /\ query \in Queries \cup {None}

Answers == [e : {"query-ready"}, q : Long]

\* The worker announces its index once; until the page has heard of it nothing is
\* asked, and afterwards it hears of nothing but answers.
AnnouncedOnce ==
  /\ ~bound => /\ toWorker = <<>>
               /\ toPage = <<>> \/ (data # "asked" /\ toPage = <<[e |-> "index-ready"]>>)
  /\ bound => /\ data # "asked"
              /\ toPage \in Seq(Answers)

\* What the box holds is the last thing that was asked; when that was answered, the
\* answer is the last one on its way to the page, or is shown.
LastIsLast ==
  /\ query \in Long => label = query
  /\ bound /\ query \in Long =>
       /\ toWorker # <<>> => toWorker[Len(toWorker)] = query
       /\ toWorker = <<>> /\ ~dropped =>
            IF toPage = <<>> THEN items.of = query /\ items.marked = query
                             ELSE toPage[Len(toPage)].q = query

SearchInv == SearchType /\ AnnouncedOnce /\ LastIsLast

LEMMA Shorter ==
  ASSUME NEW S, NEW s \in Seq(S), s # <<>>
  PROVE  /\ Head(s) = s[1] /\ s[1] \in S
         /\ Tail(s) \in Seq(S)
         /\ Tail(s) = <<>> => s[Len(s)] = s[1]
         /\ Tail(s) # <<>> => Tail(s)[Len(Tail(s))] = s[Len(s)]
<1>1. Len(s) \in Nat \ {0} /\ Len(Tail(s)) = Len(s) - 1
  OBVIOUS
<1>2. \A p \in 1 .. Len(s) - 1 : Tail(s)[p] = s[p + 1]
  OBVIOUS
<1>3. Head(s) = s[1] /\ s[1] \in S /\ Tail(s) \in Seq(S)
  OBVIOUS
<1>4. CASE Tail(s) = <<>>
  <2>1. Len(s) = 1
    BY <1>1, <1>3, <1>4, EmptySeq
  <2> QED
    BY <1>3, <1>4, <2>1
<1>5. CASE Tail(s) # <<>>
  <2>1. Len(s) # 1
    BY <1>1, <1>3, <1>5
  <2>2. Tail(s)[Len(s) - 1] = s[Len(s)]
    BY <1>1, <1>2, <2>1
  <2> QED
    BY <1>1, <1>3, <1>5, <2>2
<1> QED
  BY <1>4, <1>5

LEMMA Longer ==
  ASSUME NEW S, NEW s \in Seq(S), NEW e \in S
  PROVE  /\ Append(s, e) \in Seq(S) /\ Append(s, e) # <<>>
         /\ Append(s, e)[Len(Append(s, e))] = e
  OBVIOUS

LEMMA InitSearchInv == InitSearch => SearchInv
  BY DEF InitSearch, SearchInv, SearchType, AnnouncedOnce, LastIsLast

LEMMA SearchSteps == SearchInv /\ [SearchNext]_searchVars => SearchInv'
<1> SUFFICES ASSUME SearchInv, [SearchNext]_searchVars PROVE SearchInv'
  OBVIOUS
<1> USE DEF SearchInv, SearchType, AnnouncedOnce, LastIsLast, workerVars, pageVars,
            boxVars
<1>1. CASE NavbarLoaded
  BY <1>1 DEF NavbarLoaded
<1>2. ASSUME NEW q \in Queries, Keyup(q) PROVE SearchInv'
  <2>1. CASE q \in Long /\ bound
    <3>1. toWorker' = toWorker \o Copies(handlers, q) /\ handlers > 0
      BY <1>2, <2>1 DEF Keyup
    <3>2. /\ Copies(handlers, q) \in Seq(Long)
          /\ Len(Copies(handlers, q)) = handlers
          /\ Copies(handlers, q)[handlers] = q
      BY <2>1, <3>1 DEF Copies
    <3>3. toWorker' \in Seq(Long) /\ toWorker' # <<>> /\ toWorker'[Len(toWorker')] = q
      BY <3>1, <3>2
    <3> QED
      BY <1>2, <2>1, <3>3 DEF Keyup
  <2>2. CASE ~(q \in Long /\ bound)
    BY <1>2, <2>2 DEF Keyup
  <2> QED
    BY <2>1, <2>2
<1>3. CASE IndexReady
  <2>1. ~bound
    <3> SUFFICES ASSUME bound PROVE FALSE
      OBVIOUS
    <3>1. toPage \in Seq(Answers) /\ toPage # <<>> /\ Head(toPage).e = "index-ready"
      BY <1>3 DEF IndexReady
    <3>2. Head(toPage) \in Answers
      BY <3>1, Shorter
    <3> QED
      BY <3>1, <3>2 DEF Answers
  <2>2. toPage' = <<>> /\ data # "asked" /\ bound' = TRUE
    <3>1. toPage = <<[e |-> "index-ready"]>> /\ toPage' = Tail(toPage)
      BY <1>3, <2>1 DEF IndexReady
    <3>2. Tail(<<[e |-> "index-ready"]>>) = <<>>
      OBVIOUS
    <3> QED
      BY <1>3, <2>1, <3>1, <3>2, Zenon DEF IndexReady
  <2>3. toWorker' = IF query \in Long THEN <<query>> ELSE <<>>
    BY <1>3, <2>1 DEF IndexReady
  <2>4. UNCHANGED <<handlers, items, query, label, data, dropped>>
    BY <1>3 DEF IndexReady
  <2> QED
    BY <2>2, <2>3, <2>4
<1>4. CASE QueryReady
  <2>1. bound
    BY <1>4 DEF QueryReady
  <2>2. toPage \in Seq(Answers) /\ toPage # <<>> /\ toPage' = Tail(toPage)
    BY <1>4, <2>1 DEF QueryReady
  <2>3. /\ items' = [of |-> Head(toPage).q, marked |-> query]
        /\ UNCHANGED <<handlers, toWorker, query, label, bound, data, dropped>>
    BY <1>4 DEF QueryReady
  <2>4. Head(toPage) = toPage[1] /\ toPage[1].q \in Queries /\ toPage' \in Seq(Answers)
    <3>1. Head(toPage) = toPage[1] /\ toPage[1] \in Answers /\ toPage' \in Seq(Answers)
      BY <2>2, Shorter
    <3> QED
      BY <3>1 DEF Answers, Queries
  <2>5. CASE toPage' = <<>>
    <3>1. toPage[Len(toPage)] = toPage[1]
      BY <2>2, <2>5, Shorter
    <3> QED
      BY <2>1, <2>2, <2>3, <2>4, <2>5, <3>1
  <2>6. CASE toPage' # <<>>
    <3>1. toPage'[Len(toPage')] = toPage[Len(toPage)]
      BY <2>2, <2>6, Shorter
    <3> QED
      BY <2>1, <2>2, <2>3, <2>4, <2>6, <3>1
  <2> QED
    BY <2>5, <2>6
<1>5. CASE TurnPage
  BY <1>5 DEF TurnPage
<1>6. ASSUME NEW status, StopWordsAnswered(status) PROVE SearchInv'
  BY <1>6 DEF StopWordsAnswered
<1>7. ASSUME NEW status \in {"failed", "empty", "loaded"}, DataAnswered(status) PROVE SearchInv'
  <2>1. ~bound /\ toPage = <<>>
    BY <1>7 DEF DataAnswered
  <2>2. toPage' = <<>> \/ toPage' = <<[e |-> "index-ready"]>>
    BY <1>7, <2>1 DEF DataAnswered
  <2>3. data' # "asked" /\ UNCHANGED <<handlers, items, query, label, bound, dropped, toWorker>>
    BY <1>7 DEF DataAnswered
  <2> QED
    BY <2>1, <2>2, <2>3
<1>8. CASE Query
  <2>1. bound /\ toWorker # <<>> /\ toWorker' = Tail(toWorker)
    BY <1>8 DEF Query
  <2> DEFINE ready == [e |-> "query-ready", q |-> toWorker[1]]
  <2>2. /\ Head(toWorker) = toWorker[1] /\ toWorker[1] \in Long
        /\ toWorker' \in Seq(Long)
        /\ toWorker' = <<>> => toWorker[Len(toWorker)] = toWorker[1]
        /\ toWorker' # <<>> => toWorker'[Len(toWorker')] = toWorker[Len(toWorker)]
    BY <2>1, Shorter
  <2>3. /\ toPage' = IF dropped' THEN toPage ELSE Append(toPage, ready)
        /\ UNCHANGED <<handlers, items, query, label, bound, data>>
    BY <1>8, <2>2 DEF Query
  <2>4. ready \in Answers /\ toPage \in Seq(Answers)
    BY <2>1, <2>2 DEF Answers
  <2> HIDE DEF ready
  <2>5. /\ toPage' \in Seq(Answers)
        /\ ~dropped' => toPage' # <<>> /\ toPage'[Len(toPage')] = ready
    BY <2>3, <2>4, Longer
  <2>6. ready.q = toWorker[1]
    BY DEF ready
  <2> QED
    BY <2>1, <2>2, <2>3, <2>5, <2>6
<1>9. CASE UNCHANGED searchVars
  BY <1>9 DEF searchVars
<1> QED
  BY <1>1, <1>2, <1>3, <1>4, <1>5, <1>6, <1>7, <1>8, <1>9 DEF SearchNext, PageStep

(***************************************************************************)
(* However many handlers the search box has and however late the answers   *)
(* of the worker are, what ends up under the title of a query are its      *)
(* results with its words marked, or the last request threw.               *)
(***************************************************************************)
THEOREM LastQueryShown == SearchSpec => []LastQueryIsShown
<1>1. SearchInv => LastQueryIsShown
  BY DEF SearchInv, AnnouncedOnce, LastIsLast, LastQueryIsShown, Quiet, Answered
<1> QED
  BY <1>1, InitSearchInv, SearchSteps, PTL DEF SearchSpec

-----------------------------------------------------------------------------
(* Recursion and induction by rank                                         *)

\* Induction over any set by rank.
LEMMA RankInduction ==
  ASSUME NEW D, NEW rank \in [D -> Nat], NEW S,
         \A x \in D : (\A y \in D : rank[y] < rank[x] => y \in S) => x \in S
  PROVE  D \subseteq S
<1> DEFINE T == {rank[x] : x \in D \ S}
<1> SUFFICES ASSUME T # {} PROVE FALSE
  OBVIOUS
<1>1. T \in SUBSET Nat
  OBVIOUS
<1>2. PICK r \in T : \A s \in T : r <= s
  <2> HIDE DEF T
  <2> QED
    BY <1>1, Least
<1>3. PICK x \in D \ S : rank[x] = r
  BY <1>2
<1>4. ASSUME NEW y \in D, rank[y] < rank[x] PROVE y \in S
  <2> SUFFICES ASSUME y \notin S PROVE FALSE
    OBVIOUS
  <2>1. rank[y] \in T /\ rank[y] \in Nat /\ rank[x] \in Nat
    OBVIOUS
  <2>2. r <= rank[y]
    <3> HIDE DEF T
    <3> QED
      BY <1>2, <2>1
  <2> QED
    BY <1>3, <1>4, <2>1, <2>2
<1> QED
  BY <1>3, <1>4

\* What has a lower rank than x.
Lower(D, rank, x) == {y \in D : rank[y] < rank[x]}

\* The steps lead from values of a lower rank to a value.
Leads(D, V, rank, step) ==
  \A x \in D : \A h \in [Lower(D, rank, x) -> V] : step[x][h] \in V

\* What f[x \in D] == step[x][f below x] declares.
Ranked(f, D, V, rank, step) ==
  f \in [D -> V] /\ \A x \in D : f[x] = step[x][Restrict(f, Lower(D, rank, x))]

\* A recursive function over any set, as long as each value rests on values of a
\* lower rank.
LEMMA RankedRecursion ==
  ASSUME NEW D, NEW V, NEW rank \in [D -> Nat], NEW step, Leads(D, V, rank, step)
  PROVE  \E f : Ranked(f, D, V, rank, step)
<1>0. \A x \in D : \A h \in [Lower(D, rank, x) -> V] : step[x][h] \in V
  BY DEF Leads
<1> DEFINE RankBelow(n) == {y \in D : rank[y] < n}
           Rule(p, x) == p[x] = step[x][[y \in RankBelow(rank[x]) |-> p[y]]]
           P(p, n) == p \in [RankBelow(n) -> V] /\ \A x \in RankBelow(n) : Rule(p, x)
<1>1. ASSUME NEW n \in Nat, NEW p, P(p, n), NEW m \in Nat, NEW q, P(q, m)
      PROVE  \A x \in RankBelow(n) \cap RankBelow(m) : p[x] = q[x]
  <2> DEFINE T == {rank[x] : x \in {x \in RankBelow(n) \cap RankBelow(m) : p[x] # q[x]}}
  <2> SUFFICES ASSUME T # {} PROVE FALSE
    OBVIOUS
  <2>1. T \in SUBSET Nat
    OBVIOUS
  <2>2. PICK r \in T : \A s \in T : r <= s
    <3> HIDE DEF T
    <3> QED
      BY <2>1, Least
  <2>3. PICK x \in RankBelow(n) \cap RankBelow(m) : p[x] # q[x] /\ rank[x] = r
    BY <2>2
  <2>4. \A y \in RankBelow(rank[x]) : p[y] = q[y]
    <3> SUFFICES ASSUME NEW y \in RankBelow(rank[x]), p[y] # q[y] PROVE FALSE
      OBVIOUS
    <3>1. y \in RankBelow(n) \cap RankBelow(m) /\ rank[y] < r /\ rank[y] \in Nat /\ r \in Nat
      BY <2>3
    <3>2. rank[y] \in T
      BY <3>1
    <3>3. r <= rank[y]
      <4> HIDE DEF T
      <4> QED
        BY <2>2, <3>2
    <3> QED
      BY <3>1, <3>3
  <2>5. [y \in RankBelow(rank[x]) |-> p[y]] = [y \in RankBelow(rank[x]) |-> q[y]]
    <3> HIDE DEF RankBelow
    <3> QED
      BY <2>4
  <2>6. Rule(p, x) /\ Rule(q, x)
    BY <1>1, <2>3
  <2>7. p[x] = q[x]
    <3> HIDE DEF RankBelow
    <3> QED
      BY <2>5, <2>6
  <2> QED
    BY <2>3, <2>7
<1> DEFINE G == {n \in Nat : \E p : P(p, n)}
<1>2. 0 \in G
  <2> DEFINE p == [x \in {} |-> 0]
  <2>1. RankBelow(0) = {}
    OBVIOUS
  <2>2. p \in [{} -> V]
    OBVIOUS
  <2> HIDE DEF RankBelow, p
  <2> QED
    BY <2>1, <2>2
<1>3. ASSUME NEW n \in Nat, n \in G PROVE n + 1 \in G
  <2>1. PICK p : P(p, n)
    BY <1>3
  <2> DEFINE q == [x \in RankBelow(n + 1) |-> step[x][[y \in RankBelow(rank[x]) |-> p[y]]]]
  <2>2. ASSUME NEW x \in RankBelow(n + 1)
        PROVE  RankBelow(rank[x]) \subseteq RankBelow(n) /\ x \in D /\ rank[x] \in Nat
    OBVIOUS
  <2>3. ASSUME NEW x \in RankBelow(n + 1) PROVE [y \in RankBelow(rank[x]) |-> p[y]] \in [RankBelow(rank[x]) -> V]
    <3>1. RankBelow(rank[x]) \subseteq RankBelow(n)
      BY <2>2
    <3> HIDE DEF RankBelow
    <3> QED
      BY <2>1, <3>1
  <2>4. ASSUME NEW x \in RankBelow(n + 1) PROVE q[x] \in V
    <3>1. step[x][[y \in RankBelow(rank[x]) |-> p[y]]] \in V
      <4>1. x \in D /\ RankBelow(rank[x]) = Lower(D, rank, x)
        BY DEF Lower
      <4> HIDE DEF RankBelow
      <4> QED
        BY <1>0, <2>3, <4>1
    <3> HIDE DEF RankBelow
    <3> QED
      BY <3>1
  <2>5. ASSUME NEW x \in RankBelow(n) PROVE q[x] = p[x]
    <3>1. x \in RankBelow(n + 1)
      OBVIOUS
    <3>2. Rule(p, x)
      BY <2>1
    <3> HIDE DEF RankBelow
    <3> QED
      BY <3>1, <3>2
  <2>6. ASSUME NEW x \in RankBelow(n + 1) PROVE Rule(q, x)
    <3>1. \A y \in RankBelow(rank[x]) : q[y] = p[y]
      <4>1. RankBelow(rank[x]) \subseteq RankBelow(n)
        BY <2>2
      <4> HIDE DEF RankBelow, q
      <4> QED
        BY <2>5, <4>1
    <3>2. [y \in RankBelow(rank[x]) |-> q[y]] = [y \in RankBelow(rank[x]) |-> p[y]]
      <4> HIDE DEF RankBelow, q
      <4> QED
        BY <3>1
    <3>3. q[x] = step[x][[y \in RankBelow(rank[x]) |-> p[y]]]
      <4> HIDE DEF RankBelow
      <4> QED
        OBVIOUS
    <3> HIDE DEF RankBelow, q
    <3> QED
      BY <3>2, <3>3
  <2>7. P(q, n + 1)
    <3>1. q \in [RankBelow(n + 1) -> V]
      <4> HIDE DEF RankBelow
      <4> QED
        BY <2>4
    <3> HIDE DEF RankBelow, q
    <3> QED
      BY <2>6, <3>1
  <2> HIDE DEF P
  <2> QED
    BY <2>7
<1>4. \A n \in Nat : \E p : P(p, n)
  <2>1. Nat \subseteq G
    <3> HIDE DEF G
    <3> QED
      BY <1>2, <1>3, Induction
  <2> HIDE DEF P
  <2> QED
    BY <2>1
<1> DEFINE upTo == [n \in Nat |-> CHOOSE p : P(p, n)]
           f == [x \in D |-> upTo[rank[x] + 1][x]]
<1>5. \A n \in Nat : P(upTo[n], n)
  <2> HIDE DEF P
  <2> QED
    BY <1>4
<1>6. ASSUME NEW x \in D PROVE x \in RankBelow(rank[x] + 1) /\ rank[x] \in Nat /\ rank[x] + 1 \in Nat
  OBVIOUS
<1>7. ASSUME NEW n \in Nat, NEW x \in RankBelow(n) PROVE f[x] = upTo[n][x]
  <2>1. x \in D /\ x \in RankBelow(rank[x] + 1) /\ rank[x] + 1 \in Nat
    OBVIOUS
  <2>2. P(upTo[n], n) /\ P(upTo[rank[x] + 1], rank[x] + 1)
    <3> HIDE DEF P, upTo
    <3> QED
      BY <1>5, <2>1
  <2>3. upTo[n][x] = upTo[rank[x] + 1][x]
    <3> HIDE DEF P, upTo, RankBelow
    <3> QED
      BY <1>1, <2>1, <2>2
  <2> HIDE DEF upTo
  <2> QED
    BY <2>1, <2>3
<1>8. ASSUME NEW x \in D PROVE f[x] \in V /\ Rule(f, x)
  <2> DEFINE n == rank[x] + 1
  <2>1. x \in RankBelow(n) /\ n \in Nat /\ RankBelow(rank[x]) \subseteq RankBelow(n)
    OBVIOUS
  <2>2. upTo[n] \in [RankBelow(n) -> V] /\ Rule(upTo[n], x)
    <3>1. P(upTo[n], n)
      <4> HIDE DEF P, upTo, n
      <4> QED
        BY <1>5, <2>1
    <3> HIDE DEF upTo, n, RankBelow
    <3> QED
      BY <2>1, <3>1
  <2>3. f[x] = upTo[n][x] /\ \A y \in RankBelow(rank[x]) : f[y] = upTo[n][y]
    <3> HIDE DEF upTo, n, RankBelow, f
    <3> QED
      BY <1>7, <2>1
  <2>4. [y \in RankBelow(rank[x]) |-> f[y]] = [y \in RankBelow(rank[x]) |-> upTo[n][y]]
    <3> HIDE DEF upTo, n, RankBelow, f
    <3> QED
      BY <2>3
  <2> HIDE DEF upTo, n, RankBelow, f
  <2> QED
    BY <2>1, <2>2, <2>3, <2>4
<1>9. f \in [D -> V]
  <2> HIDE DEF upTo
  <2>1. \A x \in D : f[x] \in V
    BY <1>8
  <2> QED
    BY <2>1
<1> QED
  <2> HIDE DEF f
  <2>1. ASSUME NEW x \in D PROVE f[x] = step[x][Restrict(f, Lower(D, rank, x))]
    <3>1. Restrict(f, Lower(D, rank, x)) = [y \in RankBelow(rank[x]) |-> f[y]]
      BY DEF Restrict, Lower
    <3> HIDE DEF RankBelow
    <3> QED
      BY <1>8, <3>1
  <2> QED
    BY <1>9, <2>1 DEF Ranked

\* What f[k \in Nat] == IF k = 0 THEN base ELSE step[k][f[k - 1]] declares.
DeclaresOn(f, base, step) ==
  f = [k \in Nat |-> IF k = 0 THEN base ELSE step[k][f[k - 1]]]

\* There is such a function if the steps stay in one set.
LEMMA NatRecursion ==
  ASSUME NEW V, NEW base \in V, NEW step, \A k \in Nat \ {0} : \A s \in V : step[k][s] \in V
  PROVE  \E f : DeclaresOn(f, base, step)
<1> DEFINE rank == [k \in Nat |-> k]
           RankBelow(k) == Lower(Nat, rank, k)
           Value(k, h) == IF k = 0 THEN base ELSE step[k][h[k - 1]]
           steps == [k \in Nat |-> [h \in [RankBelow(k) -> V] |-> Value(k, h)]]
<1>1. rank \in [Nat -> Nat] /\ \A k \in Nat : rank[k] = k
  OBVIOUS
<1>2. ASSUME NEW k \in Nat, k # 0 PROVE k - 1 \in RankBelow(k) /\ k - 1 \in Nat
  BY <1>2 DEF Lower
<1>3. ASSUME NEW k \in Nat, NEW h \in [RankBelow(k) -> V] PROVE steps[k][h] \in V /\ steps[k][h] = Value(k, h)
  <2>1. steps[k][h] = Value(k, h)
    <3> HIDE DEF RankBelow, Value
    <3> QED
      OBVIOUS
  <2>2. Value(k, h) \in V
    <3>1. CASE k = 0
      BY <3>1
    <3>2. CASE k # 0
      <4>1. h[k - 1] \in V
        <5> HIDE DEF RankBelow
        <5> QED
          BY <1>2, <3>2
      <4> QED
        BY <3>2, <4>1
    <3> QED
      BY <3>1, <3>2
  <2> HIDE DEF steps, Value
  <2> QED
    BY <2>1, <2>2
<1>4. PICK f : Ranked(f, Nat, V, rank, steps)
  <2>1. Leads(Nat, V, rank, steps)
    <3> HIDE DEF steps, rank
    <3> QED
      BY <1>3 DEF Leads
  <2> HIDE DEF steps, rank
  <2> QED
    BY <1>1, <2>1, RankedRecursion
<1>5. f \in [Nat -> V]
  <2> HIDE DEF steps, rank
  <2> QED
    BY <1>4 DEF Ranked
<1>6. ASSUME NEW k \in Nat PROVE f[k] = IF k = 0 THEN base ELSE step[k][f[k - 1]]
  <2> DEFINE h == [y \in RankBelow(k) |-> f[y]]
  <2>1. h \in [RankBelow(k) -> V] /\ (k # 0 => h[k - 1] = f[k - 1])
    <3>1. RankBelow(k) \subseteq Nat
      BY DEF Lower
    <3> HIDE DEF RankBelow
    <3> QED
      BY <1>2, <1>5, <3>1
  <2>2. f[k] = steps[k][h]
    <3> HIDE DEF steps, rank
    <3> QED
      BY <1>4 DEF Ranked, Restrict
  <2> HIDE DEF h, RankBelow, steps
  <2>3. f[k] = IF k = 0 THEN base ELSE step[k][h[k - 1]]
    BY <1>3, <2>1, <2>2
  <2>4. CASE k = 0
    BY <2>3, <2>4
  <2>5. CASE k # 0
    BY <2>1, <2>3, <2>5
  <2> QED
    BY <2>4, <2>5
<1>7. DeclaresOn(f, base, step)
  <2> HIDE DEF steps, rank
  <2> QED
    BY <1>5, <1>6 DEF DeclaresOn
<1> QED
  BY <1>7

\* One sequence after the other, by a name of its own.
Joined(s, t) == s \o t

\* The length and the elements of two sequences joined.
LEMMA JoinedProperties ==
  ASSUME NEW S, NEW s \in Seq(S), NEW t \in Seq(S)
  PROVE  /\ Joined(s, t) \in Seq(S)
         /\ Len(Joined(s, t)) = Len(s) + Len(t)
         /\ \A i \in 1 .. Len(s) + Len(t) : Joined(s, t)[i] = IF i <= Len(s) THEN s[i] ELSE t[i - Len(s)]
BY ConcatProperties DEF Joined

-----------------------------------------------------------------------------
(* The vectors of the search index                                         *)

\* A sparse vector: the indexes of its pairs go up.
Vector(v) ==
  /\ v \in Seq(Nat \X Nat)
  /\ \A i, j \in DOMAIN v : i < j => v[i][1] < v[j][1]

\* The pivot of a slice, and whether the search goes on.
Pivot(s, e) == s + (e - s) \div 2
GoesOn(v, index, s, e) == e - s > 1 /\ v[Pivot(s, e) + 1][1] # index

\* What the search makes of a slice, from what it makes of smaller ones.
Searched(v, index, h, s, e) ==
  IF GoesOn(v, index, s, e)
    THEN IF v[Pivot(s, e) + 1][1] < index THEN h[<<Pivot(s, e), e>>] ELSE h[<<s, Pivot(s, e)>>]
    ELSE IF v[Pivot(s, e) + 1][1] < index THEN Pivot(s, e) + 1 ELSE Pivot(s, e)

\* The pivot of a slice of two or more is within it.
LEMMA PivotWithin ==
  ASSUME NEW s \in Nat, NEW e \in Nat
  PROVE  /\ Pivot(s, e) \in Int
         /\ e - s > 1 => Pivot(s, e) \in Nat /\ s < Pivot(s, e) /\ Pivot(s, e) < e
         /\ e - s = 1 => Pivot(s, e) = s
<1>1. PICK d \in Int : d = e - s
  OBVIOUS
<1>2. d \div 2 \in Int /\ (d > 1 => 0 < d \div 2 /\ d \div 2 < d) /\ (d = 1 => d \div 2 = 0)
  OBVIOUS
<1>3. Pivot(s, e) = s + d \div 2
  BY <1>1 DEF Pivot
<1> HIDE DEF Pivot
<1> QED
  BY <1>1, <1>2, <1>3

\* PositionForIndex has these values.
LEMMA SearchRule ==
  ASSUME NEW v, Vector(v), v # <<>>, NEW index \in Nat, NEW n \in Nat, n = Len(v)
  PROVE  \E f : /\ f[<<0, n>>] = PositionForIndex(v, index)
                /\ \A s, e \in 0 .. n : f[<<s, e>>] = Searched(v, index, f, s, e)
<1> DEFINE D == (0 .. n) \X (0 .. n)
           V == Int
           rank == [x \in D |-> IF x[2] > x[1] THEN x[2] - x[1] ELSE 0]
           RankBelow(x) == Lower(D, rank, x)
           Value(x, h) == Searched(v, index, h, x[1], x[2])
           step == [x \in D |-> [h \in [RankBelow(x) -> V] |-> Value(x, h)]]
           Eq(f) == f = [x \in D |-> Value(x, f)]
           search == CHOOSE f : Eq(f)
<1>1. PositionForIndex(v, index) = search[<<0, n>>]
  BY DEF PositionForIndex, Searched, GoesOn, Pivot
<1>2. rank \in [D -> Nat] /\ \A s, e \in 0 .. n : rank[<<s, e>>] = IF e > s THEN e - s ELSE 0
  OBVIOUS
<1>3. \A x \in D : \E s, e \in 0 .. n : x = <<s, e>>
  OBVIOUS
<1> HIDE DEF rank
<1>4. ASSUME NEW s \in 0 .. n, NEW e \in 0 .. n, e - s > 1
      PROVE  <<s, Pivot(s, e)>> \in RankBelow(<<s, e>>) /\ <<Pivot(s, e), e>> \in RankBelow(<<s, e>>)
  <2>0. s \in Nat /\ e \in Nat
    OBVIOUS
  <2>1. PICK p \in Nat : p = Pivot(s, e) /\ s < p /\ p < e
    BY <1>4, <2>0, PivotWithin
  <2>2. <<s, p>> \in D /\ <<p, e>> \in D /\ rank[<<s, e>>] = e - s /\ rank[<<s, p>>] = p - s /\ rank[<<p, e>>] = e - p
    BY <1>2, <1>4, <2>1
  <2>3. p - s < e - s /\ e - p < e - s
    BY <2>1
  <2> QED
    BY <2>1, <2>2, <2>3 DEF Lower
<1>5. ASSUME NEW x \in D, NEW h \in [RankBelow(x) -> V] PROVE step[x][h] = Value(x, h) /\ Value(x, h) \in V
  <2>1. step[x][h] = Value(x, h)
    <3> HIDE DEF Value, RankBelow, V, D
    <3> QED
      OBVIOUS
  <2>2. PICK s \in 0 .. n, e \in 0 .. n : x = <<s, e>>
    BY <1>3
  <2>3. PICK p \in Int : p = Pivot(s, e)
    BY PivotWithin
  <2>4. Value(x, h) = Searched(v, index, h, s, e)
    BY <2>2
  <2>5. CASE GoesOn(v, index, s, e)
    <3>1. <<s, p>> \in RankBelow(x) /\ <<p, e>> \in RankBelow(x)
      BY <1>4, <2>2, <2>3, <2>5 DEF GoesOn
    <3>2. h[<<s, p>>] \in V /\ h[<<p, e>>] \in V
      <4> HIDE DEF RankBelow, V
      <4> QED
        BY <3>1
    <3>3. Value(x, h) \in {h[<<s, p>>], h[<<p, e>>]}
      BY <2>3, <2>4, <2>5 DEF Searched
    <3> QED
      BY <2>1, <3>2, <3>3
  <2>6. CASE ~GoesOn(v, index, s, e)
    <3>1. Value(x, h) \in {p, p + 1}
      BY <2>3, <2>4, <2>6 DEF Searched
    <3> QED
      BY <2>1, <2>3, <3>1
  <2> QED
    BY <2>5, <2>6
<1>6. PICK f : Ranked(f, D, V, rank, step)
  <2>1. Leads(D, V, rank, step)
    <3> HIDE DEF V, step, Value, D
    <3> QED
      BY <1>5 DEF Leads
  <2> HIDE DEF V, step, D
  <2> QED
    BY <1>2, <2>1, RankedRecursion
<1>7. f \in [D -> V]
  <2> HIDE DEF V, step, D
  <2> QED
    BY <1>6 DEF Ranked
<1>8. ASSUME NEW x \in D PROVE f[x] = Value(x, f)
  <2> DEFINE h == [y \in RankBelow(x) |-> f[y]]
  <2>1. f[x] = step[x][h]
    <3>1. f[x] = step[x][Restrict(f, RankBelow(x))]
      <4> HIDE DEF V, step, D
      <4> QED
        BY <1>6 DEF Ranked
    <3>2. Restrict(f, RankBelow(x)) = h
      BY DEF Restrict
    <3> HIDE DEF V, step, h, D
    <3> QED
      BY <3>1, <3>2
  <2>2. h \in [RankBelow(x) -> V]
    <3>1. RankBelow(x) \subseteq D
      BY DEF Lower
    <3> HIDE DEF V, RankBelow, D
    <3> QED
      BY <1>7, <3>1
  <2>3. Value(x, h) = Value(x, f)
    <3>1. PICK s \in 0 .. n, e \in 0 .. n : x = <<s, e>>
      BY <1>3
    <3>2. PICK p \in Int : p = Pivot(s, e)
      BY PivotWithin
    <3>3. Value(x, h) = Searched(v, index, h, s, e) /\ Value(x, f) = Searched(v, index, f, s, e)
      BY <3>1
    <3>4. GoesOn(v, index, s, e) => h[<<s, p>>] = f[<<s, p>>] /\ h[<<p, e>>] = f[<<p, e>>]
      <4>1. GoesOn(v, index, s, e) => <<s, p>> \in RankBelow(x) /\ <<p, e>> \in RankBelow(x)
        BY <1>4, <3>1, <3>2 DEF GoesOn
      <4> HIDE DEF RankBelow
      <4> QED
        BY <4>1
    <3> HIDE DEF h, Value
    <3> QED
      BY <3>2, <3>3, <3>4 DEF Searched
  <2> HIDE DEF V, step, h, Value, D
  <2> QED
    BY <1>5, <2>1, <2>2, <2>3
<1>9. Eq(search)
  <2>1. Eq(f)
    <3>1. f = [x \in D |-> f[x]]
      <4> HIDE DEF V, D
      <4> QED
        BY <1>7
    <3> HIDE DEF Value, D
    <3> QED
      BY <1>8, <3>1
  <2> HIDE DEF Eq
  <2> QED
    BY <2>1
<1>10. ASSUME NEW s \in 0 .. n, NEW e \in 0 .. n PROVE search[<<s, e>>] = Searched(v, index, search, s, e)
  <2>1. <<s, e>> \in D
    OBVIOUS
  <2>2. search[<<s, e>>] = Value(<<s, e>>, search)
    <3> HIDE DEF search, Value, D
    <3> QED
      BY <1>9, <2>1
  <2> HIDE DEF search
  <2> QED
    BY <2>2
<1> HIDE DEF search
<1> QED
  BY <1>1, <1>10

\* The search ends between the pairs that come before index and the others.
LEMMA PositionProperties ==
  ASSUME NEW v, Vector(v), NEW index \in Nat
  PROVE  \E p \in 0 .. Len(v) : /\ p = PositionForIndex(v, index)
                                /\ \A i \in 1 .. p : v[i][1] < index
                                /\ \A i \in p + 1 .. Len(v) : v[i][1] >= index
<1>1. PICK n \in Nat : n = Len(v) /\ DOMAIN v = 1 .. n
  BY LenProperties DEF Vector
<1>2. /\ \A i \in 1 .. n : v[i] \in Nat \X Nat /\ v[i][1] \in Nat
      /\ \A i, j \in 1 .. n : i < j => v[i][1] < v[j][1]
  <2>1. \A i \in 1 .. n : v[i] \in Nat \X Nat
    BY <1>1, ElementOfSeq DEF Vector
  <2> QED
    BY <1>1, <2>1 DEF Vector
<1>3. CASE v = <<>>
  <2>1. PositionForIndex(v, index) = 0 /\ n = 0
    BY <1>1, <1>3 DEF PositionForIndex
  <2> QED
    BY <1>1, <2>1
<1>4. CASE v # <<>>
  <2>1. PICK f : /\ f[<<0, n>>] = PositionForIndex(v, index)
                 /\ \A s, e \in 0 .. n : f[<<s, e>>] = Searched(v, index, f, s, e)
    BY <1>1, <1>4, SearchRule
  <2>2. n # 0
    BY <1>1, <1>4, EmptySeq DEF Vector
  <2> DEFINE Good(p) == /\ p \in 0 .. n
                        /\ \A i \in 1 .. p : v[i][1] < index
                        /\ \A i \in p + 1 .. n : v[i][1] >= index
             Unsearched(s, e) == /\ s < e
                                 /\ s # 0 => v[s + 1][1] < index
                                 /\ \A i \in e + 1 .. n : v[i][1] > index
             D == (0 .. n) \X (0 .. n)
             rank == [x \in D |-> IF x[2] > x[1] THEN x[2] - x[1] ELSE 0]
             G == {x \in D : Unsearched(x[1], x[2]) => Good(f[x])}
  <2>3. rank \in [D -> Nat] /\ \A s, e \in 0 .. n : rank[<<s, e>>] = IF e > s THEN e - s ELSE 0
    OBVIOUS
  <2> HIDE DEF rank
  <2>4. ASSUME NEW x \in D, \A y \in D : rank[y] < rank[x] => y \in G PROVE x \in G
    <3>1. PICK s \in 0 .. n, e \in 0 .. n : x = <<s, e>>
      OBVIOUS
    <3> SUFFICES ASSUME Unsearched(s, e) PROVE Good(f[<<s, e>>])
      BY <3>1
    <3>2. PICK p \in Int : p = Pivot(s, e)
      BY PivotWithin
    <3>3. /\ e - s > 1 => p \in Nat /\ s < p /\ p < e
          /\ e - s = 1 => p = s
      BY <3>2, PivotWithin
    <3>4. p + 1 \in 1 .. n /\ p >= s /\ p < e
      BY <3>3
    <3>5. PICK at \in Nat : at = v[p + 1][1]
      BY <1>2, <3>4
    <3>6. f[<<s, e>>] = Searched(v, index, f, s, e)
      BY <2>1
    <3>7. CASE GoesOn(v, index, s, e) /\ at < index
      <4>1. f[<<s, e>>] = f[<<p, e>>]
        BY <3>2, <3>5, <3>6, <3>7 DEF Searched
      <4>2. e - s > 1
        BY <3>7 DEF GoesOn
      <4>3. <<p, e>> \in D /\ rank[<<p, e>>] < rank[<<s, e>>]
        BY <2>3, <3>3, <4>2
      <4>4. <<p, e>> \in G
        BY <2>4, <3>1, <4>3
      <4>5. Unsearched(p, e)
        BY <3>4, <3>5, <3>7
      <4> HIDE DEF Unsearched, Good
      <4> QED
        BY <4>1, <4>4, <4>5
    <3>8. CASE GoesOn(v, index, s, e) /\ ~(at < index)
      <4>1. f[<<s, e>>] = f[<<s, p>>]
        BY <3>2, <3>5, <3>6, <3>8 DEF Searched
      <4>2. e - s > 1 /\ at # index
        BY <3>2, <3>5, <3>8 DEF GoesOn
      <4>3. <<s, p>> \in D /\ rank[<<s, p>>] < rank[<<s, e>>]
        BY <2>3, <3>3, <4>2
      <4>4. <<s, p>> \in G
        BY <2>4, <3>1, <4>3
      <4>5. Unsearched(s, p)
        <5>1. s < p /\ at > index
          BY <3>3, <3>8, <4>2
        <5>2. ASSUME NEW i \in p + 1 .. n PROVE v[i][1] > index
          BY <1>2, <3>4, <3>5, <5>1
        <5> QED
          BY <5>1, <5>2
      <4> HIDE DEF Unsearched, Good
      <4> QED
        BY <4>1, <4>4, <4>5
    <3>9. CASE ~GoesOn(v, index, s, e) /\ at < index
      <4>1. f[<<s, e>>] = p + 1
        BY <3>2, <3>5, <3>6, <3>9 DEF Searched
      <4>2. e - s = 1
        BY <3>2, <3>5, <3>9 DEF GoesOn
      <4>3. ASSUME NEW i \in 1 .. p + 1 PROVE v[i][1] < index
        BY <1>2, <3>4, <3>5, <3>9
      <4>4. ASSUME NEW i \in p + 2 .. n PROVE v[i][1] >= index
        <5>1. i \in e + 1 .. n
          BY <3>3, <4>2
        <5>2. v[i][1] > index /\ v[i][1] \in Nat
          BY <1>2, <5>1
        <5> QED
          BY <5>2
      <4> QED
        BY <3>4, <4>1, <4>3, <4>4
    <3>10. CASE ~GoesOn(v, index, s, e) /\ ~(at < index)
      <4>1. f[<<s, e>>] = p
        BY <3>2, <3>5, <3>6, <3>10 DEF Searched
      <4>2. e - s = 1 \/ at = index
        BY <3>2, <3>5, <3>10 DEF GoesOn
      <4>3. ASSUME NEW i \in 1 .. p PROVE v[i][1] < index
        <5>1. CASE at = index
          <6>1. i \in 1 .. n /\ i < p + 1
            BY <3>4
          <6>2. v[i][1] < v[p + 1][1]
            BY <1>2, <3>4, <6>1
          <6> QED
            BY <3>5, <5>1, <6>2
        <5>2. CASE e - s = 1
          <6>1. p = s /\ i <= s /\ s # 0
            BY <3>3, <5>2
          <6>2. v[s + 1][1] < index
            BY <6>1
          <6> QED
            BY <3>5, <3>10, <6>1, <6>2
        <5> QED
          BY <4>2, <5>1, <5>2
      <4>4. ASSUME NEW i \in p + 1 .. n PROVE v[i][1] >= index
        BY <1>2, <3>4, <3>5, <3>10
      <4> QED
        BY <3>3, <3>4, <4>1, <4>3, <4>4
    <3> QED
      BY <3>7, <3>8, <3>9, <3>10
  <2>5. D \subseteq G
    <3> HIDE DEF D, G
    <3> QED
      BY <2>3, <2>4, RankInduction
  <2>6. <<0, n>> \in D /\ Unsearched(0, n)
    BY <2>2
  <2>7. Good(f[<<0, n>>])
    <3> HIDE DEF Unsearched, Good
    <3> QED
      BY <2>5, <2>6
  <2> QED
    BY <1>1, <2>1, <2>7
<1> QED
  BY <1>3, <1>4

\* u is a sequence s of n elements, and e before its element p.
WithInserted(u, S, s, p, e, n) ==
  /\ u \in Seq(S) /\ Len(u) = n + 1 /\ u[p] = e
  /\ \A i \in 1 .. p - 1 : u[i] = s[i]
  /\ \A i \in p .. n : u[i + 1] = s[i]

\* That is what InsertAt makes.
LEMMA InsertAtProperties ==
  ASSUME NEW S, NEW s \in Seq(S), NEW e \in S, NEW n \in Nat, n = Len(s), NEW p \in 1 .. n + 1
  PROVE  WithInserted(InsertAt(s, p, e), S, s, p, e, n)
<1> DEFINE l == SubSeq(s, 1, p - 1)
           r == SubSeq(s, p, n)
           one == <<e>>
           le == Joined(l, one)
           u == Joined(le, r)
<1>1. l \in Seq(S) /\ Len(l) = p - 1 /\ \A i \in 1 .. p - 1 : l[i] = s[i]
  <2>1. l \in Seq(S)
    BY SubSeqProperties
  <2>2. Len(l) = p - 1
    BY SubSeqProperties
  <2>3. \A i \in 1 .. p - 1 : l[i] = s[i]
    BY SubSeqProperties
  <2> QED
    BY <2>1, <2>2, <2>3
<1>2. r \in Seq(S) /\ Len(r) = n + 1 - p /\ \A i \in 1 .. n + 1 - p : r[i] = s[p + i - 1]
  <2>1. r \in Seq(S)
    BY SubSeqProperties
  <2>2. Len(r) = n + 1 - p
    BY SubSeqProperties
  <2>3. \A i \in 1 .. n + 1 - p : r[i] = s[p + i - 1]
    BY SubSeqProperties
  <2> QED
    BY <2>1, <2>2, <2>3
<1>3. one \in Seq(S) /\ Len(one) = 1 /\ one[1] = e
  OBVIOUS
<1>4. InsertAt(s, p, e) = u
  BY Zenon DEF InsertAt, Joined
<1> HIDE DEF l, r, one
<1>5. le \in Seq(S) /\ Len(le) = p /\ le[p] = e /\ \A i \in 1 .. p - 1 : le[i] = s[i]
  <2>1. le \in Seq(S) /\ Len(le) = Len(l) + Len(one)
        /\ \A i \in 1 .. Len(l) + Len(one) : le[i] = IF i <= Len(l) THEN l[i] ELSE one[i - Len(l)]
    BY <1>1, <1>3, JoinedProperties
  <2> HIDE DEF le
  <2>2. le \in Seq(S) /\ Len(le) = p /\ \A i \in 1 .. p : le[i] = IF i <= p - 1 THEN l[i] ELSE one[i - (p - 1)]
    BY <1>1, <1>3, <2>1
  <2>3. p \in 1 .. p /\ ~(p <= p - 1) /\ p - (p - 1) = 1 /\ \A i \in 1 .. p - 1 : i \in 1 .. p /\ i <= p - 1
    OBVIOUS
  <2> QED
    BY <1>1, <1>3, <2>2, <2>3
<1> HIDE DEF le
<1>6. u \in Seq(S) /\ Len(u) = Len(le) + Len(r)
      /\ \A i \in 1 .. Len(le) + Len(r) : u[i] = IF i <= Len(le) THEN le[i] ELSE r[i - Len(le)]
  BY <1>2, <1>5, JoinedProperties
<1> HIDE DEF u
<1>7. u \in Seq(S) /\ Len(u) = n + 1 /\ \A i \in 1 .. n + 1 : u[i] = IF i <= p THEN le[i] ELSE r[i - p]
  <2>1. Len(le) = p /\ Len(r) = n + 1 - p /\ p + (n + 1 - p) = n + 1
    BY <1>2, <1>5
  <2> QED
    BY <1>6, <2>1
<1>8. ASSUME NEW i \in p .. n PROVE u[i + 1] = s[i]
  <2>1. i + 1 \in 1 .. n + 1 /\ ~(i + 1 <= p) /\ (i + 1) - p \in 1 .. n + 1 - p /\ p + ((i + 1) - p) - 1 = i
    OBVIOUS
  <2> QED
    BY <1>2, <1>7, <2>1
<1> QED
  BY <1>4, <1>5, <1>7, <1>8 DEF WithInserted

\* The indexes and the values of a sequence of pairs.
Columns(v, n, K, X) ==
  /\ n \in Nat /\ v \in Seq(Nat \X Nat) /\ Len(v) = n
  /\ K \in [1 .. n -> Nat] /\ X \in [1 .. n -> Nat]
  /\ \A i \in 1 .. n : v[i] = <<K[i], X[i]>>

\* What a vector holds: its values at the indexes of its pairs, 0 at the others.
StandsFor(v, h) ==
  /\ Vector(v) /\ h \in [Nat -> Nat]
  /\ \A i \in DOMAIN v : h[v[i][1]] = v[i][2]
  /\ \A m \in Nat : h[m] # 0 => \E i \in DOMAIN v : v[i][1] = m

\* The same of the indexes and the values.
ColumnsStandFor(n, K, X, h) ==
  /\ \A i, j \in 1 .. n : i < j => K[i] < K[j]
  /\ h \in [Nat -> Nat]
  /\ \A i \in 1 .. n : h[K[i]] = X[i]
  /\ \A m \in Nat : h[m] # 0 => \E i \in 1 .. n : K[i] = m

\* A sequence of pairs has these columns.
LEMMA HasColumns == ASSUME NEW v \in Seq(Nat \X Nat) PROVE \E n, K, X : Columns(v, n, K, X)
<1>1. PICK n \in Nat : n = Len(v) /\ DOMAIN v = 1 .. n
  BY LenProperties
<1>2. \A i \in 1 .. n : v[i] \in Nat \X Nat
  BY <1>1, ElementOfSeq
<1>3. PICK K : K = [i \in 1 .. n |-> v[i][1]]
  OBVIOUS
<1>4. PICK X : X = [i \in 1 .. n |-> v[i][2]]
  OBVIOUS
<1>5. K \in [1 .. n -> Nat] /\ X \in [1 .. n -> Nat] /\ \A i \in 1 .. n : v[i] = <<K[i], X[i]>>
  BY <1>2, <1>3, <1>4
<1>6. Columns(v, n, K, X)
  BY <1>1, <1>5 DEF Columns
<1> QED
  BY <1>6

\* What a vector holds is what its columns do.
LEMMA StandsForColumns ==
  ASSUME NEW v, NEW n, NEW K, NEW X, Columns(v, n, K, X), NEW h
  PROVE  StandsFor(v, h) <=> ColumnsStandFor(n, K, X, h)
<1>1. n \in Nat /\ v \in Seq(Nat \X Nat) /\ DOMAIN v = 1 .. n
  BY LenProperties DEF Columns
<1>2. \A i \in 1 .. n : v[i][1] = K[i] /\ v[i][2] = X[i]
  BY DEF Columns
<1>3. Vector(v) <=> \A i, j \in 1 .. n : i < j => K[i] < K[j]
  <2>1. Vector(v) <=> \A i, j \in 1 .. n : i < j => v[i][1] < v[j][1]
    BY <1>1 DEF Vector
  <2>2. \A i, j \in 1 .. n : v[i][1] < v[j][1] <=> K[i] < K[j]
    BY <1>2
  <2> QED
    BY <2>1, <2>2
<1>4. (\A i \in DOMAIN v : h[v[i][1]] = v[i][2]) <=> (\A i \in 1 .. n : h[K[i]] = X[i])
  BY <1>1, <1>2
<1>5. (\A m \in Nat : h[m] # 0 => \E i \in DOMAIN v : v[i][1] = m)
        <=> (\A m \in Nat : h[m] # 0 => \E i \in 1 .. n : K[i] = m)
  <2>1. ASSUME NEW m PROVE (\E i \in DOMAIN v : v[i][1] = m) <=> (\E i \in 1 .. n : K[i] = m)
    BY <1>1, <1>2
  <2> QED
    BY <2>1
<1> QED
  BY <1>3, <1>4, <1>5 DEF StandsFor, ColumnsStandFor

(***************************************************************************)
(* In whatever order they come, upsert keeps the pairs of a vector sorted, *)
(* one for each index, and adds to the value that is there.                *)
(***************************************************************************)
THEOREM UpsertAdds ==
  ASSUME NEW v, NEW h, StandsFor(v, h), NEW index \in Nat, NEW value \in Nat
  PROVE  StandsFor(Upsert(v, index, value), [h EXCEPT ![index] = @ + value])
<1> DEFINE u == Upsert(v, index, value)
           g == [h EXCEPT ![index] = @ + value]
<1>0. Vector(v) /\ v \in Seq(Nat \X Nat)
  BY DEF StandsFor, Vector
<1>1. PICK n, K, X : Columns(v, n, K, X)
  BY <1>0, HasColumns
<1>2. n \in Nat /\ Len(v) = n /\ DOMAIN v = 1 .. n /\ K \in [1 .. n -> Nat] /\ X \in [1 .. n -> Nat]
      /\ \A i \in 1 .. n : v[i] = <<K[i], X[i]>> /\ v[i][1] = K[i] /\ v[i][2] = X[i]
  BY <1>0, <1>1, LenProperties DEF Columns
<1>3. /\ \A i, j \in 1 .. n : i < j => K[i] < K[j]
      /\ h \in [Nat -> Nat]
      /\ \A i \in 1 .. n : h[K[i]] = X[i]
      /\ \A m \in Nat : h[m] # 0 => \E i \in 1 .. n : K[i] = m
  BY <1>1, StandsForColumns DEF ColumnsStandFor
<1>4. g \in [Nat -> Nat] /\ g[index] = h[index] + value /\ \A m \in Nat : m # index => g[m] = h[m]
  BY <1>3
<1> HIDE DEF g
<1>5. PICK q \in 0 .. n : /\ q = PositionForIndex(v, index)
                          /\ \A i \in 1 .. q : K[i] < index
                          /\ \A i \in q + 1 .. n : K[i] >= index
  <2>1. PICK q \in 0 .. Len(v) : /\ q = PositionForIndex(v, index)
                                 /\ \A i \in 1 .. q : v[i][1] < index
                                 /\ \A i \in q + 1 .. Len(v) : v[i][1] >= index
    BY <1>0, PositionProperties
  <2>2. q \in 0 .. n /\ (\A i \in 1 .. q : i \in 1 .. n) /\ (\A i \in q + 1 .. n : i \in 1 .. n)
    BY <1>2, <2>1
  <2> QED
    BY <1>2, <2>1, <2>2
<1>6. PICK p \in 1 .. n + 1 : p = q + 1
  BY <1>2
<1>7. CASE p \in 1 .. n /\ K[p] = index
  <2> DEFINE Y == [X EXCEPT ![p] = X[p] + value]
  <2>1. u = [v EXCEPT ![p] = [v[p] EXCEPT ![2] = v[p][2] + value]]
    BY <1>2, <1>5, <1>6, <1>7 DEF Upsert
  <2>2. [v[p] EXCEPT ![2] = v[p][2] + value] = <<index, X[p] + value>>
    BY <1>2, <1>7
  <2>3. u = [v EXCEPT ![p] = <<index, X[p] + value>>]
    BY <2>1, <2>2
  <2> HIDE DEF u
  <2>4. Y \in [1 .. n -> Nat] /\ Y[p] = X[p] + value /\ \A i \in 1 .. n : i # p => Y[i] = X[i]
    BY <1>2, <1>7
  <2>5. /\ u \in Seq(Nat \X Nat) /\ Len(u) = n /\ u[p] = <<index, X[p] + value>>
        /\ \A i \in 1 .. n : i # p => u[i] = v[i]
    <3>1. <<index, X[p] + value>> \in Nat \X Nat
      BY <1>2, <1>7
    <3> QED
      BY <1>0, <1>2, <1>7, <2>3, <3>1
  <2> HIDE DEF Y
  <2>6. \A i \in 1 .. n : u[i] = <<K[i], Y[i]>>
    BY <1>2, <1>7, <2>4, <2>5
  <2>7. Columns(u, n, K, Y)
    BY <1>2, <2>4, <2>5, <2>6 DEF Columns
  <2>8. ASSUME NEW i \in 1 .. n, i # p PROVE K[i] # index
    <3>1. i < p \/ p < i
      BY <1>2, <1>7, <2>8
    <3>2. K[i] < K[p] \/ K[p] < K[i]
      BY <1>3, <1>7, <3>1
    <3>3. K[i] \in Nat /\ K[p] \in Nat
      BY <1>2, <1>7
    <3> QED
      BY <1>7, <3>2, <3>3
  <2>9. \A i \in 1 .. n : g[K[i]] = Y[i]
    BY <1>2, <1>3, <1>4, <1>7, <2>4, <2>8
  <2>10. \A m \in Nat : g[m] # 0 => \E i \in 1 .. n : K[i] = m
    BY <1>3, <1>4, <1>7
  <2>11. ColumnsStandFor(n, K, Y, g)
    BY <1>3, <1>4, <2>9, <2>10 DEF ColumnsStandFor
  <2> QED
    BY <2>7, <2>11, StandsForColumns DEF u, g
<1>8. CASE ~(p \in 1 .. n /\ K[p] = index)
  <2> DEFINE L == [j \in 1 .. n + 1 |-> IF j < p THEN K[j] ELSE IF j = p THEN index ELSE K[j - 1]]
             Y == [j \in 1 .. n + 1 |-> IF j < p THEN X[j] ELSE IF j = p THEN value ELSE X[j - 1]]
  <2>1. u = InsertAt(v, p, <<index, value>>)
    BY <1>2, <1>5, <1>6, <1>8 DEF Upsert
  <2> HIDE DEF u
  <2>2. /\ u \in Seq(Nat \X Nat) /\ Len(u) = n + 1 /\ u[p] = <<index, value>>
        /\ \A i \in 1 .. p - 1 : u[i] = v[i]
        /\ \A i \in p .. n : u[i + 1] = v[i]
    <3>1. PICK S : S = Nat \X Nat
      OBVIOUS
    <3>2. PICK e \in S : e = <<index, value>>
      BY <3>1
    <3>4. v \in Seq(S)
      BY <1>0, <3>1
    <3>5. WithInserted(InsertAt(v, p, e), S, v, p, e, n)
      BY <1>2, <3>4, InsertAtProperties
    <3>6. u = InsertAt(v, p, e)
      BY <2>1, <3>2
    <3> QED
      BY <3>1, <3>2, <3>5, <3>6 DEF WithInserted
  <2>3. ASSUME NEW j \in 1 .. n + 1
        PROVE  /\ j < p => j \in 1 .. n /\ L[j] = K[j] /\ Y[j] = X[j]
               /\ j = p => L[j] = index /\ Y[j] = value
               /\ j > p => j - 1 \in 1 .. n /\ L[j] = K[j - 1] /\ Y[j] = X[j - 1]
    BY <1>2
  <2> HIDE DEF L, Y
  <2>4. L \in [1 .. n + 1 -> Nat] /\ Y \in [1 .. n + 1 -> Nat]
    <3>1. \A j \in 1 .. n + 1 : L[j] \in Nat /\ Y[j] \in Nat
      <4> SUFFICES ASSUME NEW j \in 1 .. n + 1 PROVE L[j] \in Nat /\ Y[j] \in Nat
        OBVIOUS
      <4>1. CASE j < p
        BY <1>2, <2>3, <4>1
      <4>2. CASE j = p
        BY <2>3, <4>2
      <4>3. CASE j > p
        BY <1>2, <2>3, <4>3
      <4> QED
        BY <1>2, <4>1, <4>2, <4>3
    <3> QED
      BY <3>1 DEF L, Y
  <2>5. \A j \in 1 .. n + 1 : u[j] = <<L[j], Y[j]>>
    <3> SUFFICES ASSUME NEW j \in 1 .. n + 1 PROVE u[j] = <<L[j], Y[j]>>
      OBVIOUS
    <3>1. CASE j < p
      <4>1. j \in 1 .. p - 1 /\ j \in 1 .. n
        BY <1>2, <3>1
      <4>2. u[j] = v[j] /\ L[j] = K[j] /\ Y[j] = X[j] /\ v[j] = <<K[j], X[j]>>
        BY <1>2, <2>2, <2>3, <3>1, <4>1
      <4> QED
        BY <4>2
    <3>2. CASE j = p
      BY <2>2, <2>3, <3>2
    <3>3. CASE j > p
      <4>1. j - 1 \in p .. n /\ (j - 1) + 1 = j
        BY <1>2, <3>3
      <4>2. u[j] = v[j - 1]
        BY <2>2, <4>1
      <4> QED
        BY <1>2, <2>3, <3>3, <4>2
    <3> QED
      BY <1>2, <3>1, <3>2, <3>3
  <2>6. Columns(u, n + 1, L, Y)
    BY <1>2, <2>2, <2>4, <2>5 DEF Columns
  <2>7. ASSUME NEW i \in 1 .. n PROVE (i < p => K[i] < index) /\ (i >= p => K[i] > index)
    <3>1. CASE i < p
      <4>1. i \in 1 .. q
        BY <1>2, <1>6, <3>1
      <4> QED
        BY <1>5, <3>1, <4>1
    <3>2. CASE i >= p
      <4>1. p \in 1 .. n /\ p \in q + 1 .. n /\ i \in q + 1 .. n
        BY <1>2, <1>6, <3>2
      <4>2. K[p] > index
        BY <1>2, <1>5, <1>8, <4>1
      <4>3. i = p \/ K[p] < K[i]
        BY <1>2, <1>3, <3>2, <4>1
      <4>4. K[i] \in Nat /\ K[p] \in Nat
        BY <1>2, <4>1
      <4> QED
        BY <3>2, <4>2, <4>3, <4>4
    <3> QED
      BY <1>2, <3>1, <3>2
  <2>8. ASSUME NEW i \in 1 .. n + 1, NEW j \in 1 .. n + 1, i < j PROVE L[i] < L[j]
    <3>1. CASE j < p
      BY <1>2, <1>3, <2>3, <2>8, <3>1
    <3>2. CASE j = p
      <4>1. i < p
        BY <2>8, <3>2
      <4> QED
        BY <1>2, <2>3, <2>7, <3>2, <4>1
    <3>3. CASE j > p
      <4>0. j - 1 \in 1 .. n /\ L[j] = K[j - 1] /\ j - 1 >= p /\ K[j - 1] \in Nat
        BY <1>2, <2>3, <3>3
      <4>1. K[j - 1] > index
        BY <2>7, <4>0
      <4>2. CASE i < p
        <5>1. i \in 1 .. n /\ L[i] = K[i] /\ K[i] < index /\ K[i] \in Nat
          BY <1>2, <2>3, <2>7, <4>2
        <5> QED
          BY <4>0, <4>1, <5>1
      <4>3. CASE i = p
        BY <2>3, <4>0, <4>1, <4>3
      <4>4. CASE i > p
        <5>1. i - 1 \in 1 .. n /\ L[i] = K[i - 1] /\ i - 1 < j - 1
          BY <1>2, <2>3, <2>8, <4>4
        <5> QED
          BY <1>3, <4>0, <5>1
      <4> QED
        BY <1>2, <4>2, <4>3, <4>4
    <3> QED
      BY <1>2, <3>1, <3>2, <3>3
  <2>9. h[index] = 0
    <3>1. \A i \in 1 .. n : K[i] # index
      <4> SUFFICES ASSUME NEW i \in 1 .. n PROVE K[i] # index
        OBVIOUS
      <4>1. (i < p => K[i] < index) /\ (i >= p => K[i] > index) /\ K[i] \in Nat /\ (i < p \/ i >= p)
        BY <1>2, <2>7
      <4> QED
        BY <4>1
    <3> QED
      BY <1>3, <3>1
  <2>10. ASSUME NEW j \in 1 .. n + 1 PROVE g[L[j]] = Y[j]
    <3>1. CASE j = p
      BY <1>4, <2>3, <2>9, <3>1
    <3>2. CASE j < p
      <4>1. j \in 1 .. n /\ L[j] = K[j] /\ Y[j] = X[j] /\ K[j] < index /\ K[j] \in Nat
        BY <1>2, <2>3, <2>7, <3>2
      <4> QED
        BY <1>3, <1>4, <4>1
    <3>3. CASE j > p
      <4>1. j - 1 \in 1 .. n /\ L[j] = K[j - 1] /\ Y[j] = X[j - 1] /\ j - 1 >= p
        BY <1>2, <2>3, <3>3
      <4>2. K[j - 1] > index /\ K[j - 1] \in Nat
        BY <1>2, <2>7, <4>1
      <4> QED
        BY <1>3, <1>4, <4>1, <4>2
    <3> QED
      BY <1>2, <3>1, <3>2, <3>3
  <2>11. ASSUME NEW m \in Nat, g[m] # 0 PROVE \E j \in 1 .. n + 1 : L[j] = m
    <3>1. CASE m = index
      BY <2>3, <3>1
    <3>2. CASE m # index
      <4>1. PICK i \in 1 .. n : K[i] = m
        BY <1>3, <1>4, <2>11, <3>2
      <4>2. CASE i < p
        <5>1. i \in 1 .. n + 1
          BY <1>2
        <5> QED
          BY <2>3, <4>1, <4>2, <5>1
      <4>3. CASE i >= p
        <5>1. i + 1 \in 1 .. n + 1 /\ i + 1 > p /\ (i + 1) - 1 = i
          BY <1>2, <4>3
        <5> QED
          BY <2>3, <4>1, <5>1
      <4> QED
        BY <1>2, <4>2, <4>3
    <3> QED
      BY <3>1, <3>2
  <2>12. ColumnsStandFor(n + 1, L, Y, g)
    BY <1>4, <2>8, <2>10, <2>11 DEF ColumnsStandFor
  <2> QED
    BY <2>6, <2>12, StandsForColumns DEF u, g
<1> QED
  BY <1>7, <1>8

-----------------------------------------------------------------------------
(* Sums                                                                    *)

\* The sum of the first n values of g.
Total(g, n) ==
  LET sum[k \in Nat] == IF k = 0 THEN 0 ELSE sum[k - 1] + g[k - 1]
  IN  sum[n]

\* It goes up by one value after the other.
LEMMA TotalRule ==
  ASSUME NEW g \in [Nat -> Nat]
  PROVE  /\ Total(g, 0) = 0
         /\ \A k \in Nat : Total(g, k) \in Nat /\ Total(g, k + 1) = Total(g, k) + g[k]
<1> DEFINE step == [k \in Nat |-> [s \in Nat |-> IF k = 0 THEN 0 ELSE s + g[k - 1]]]
           Eq(f) == f = [k \in Nat |-> IF k = 0 THEN 0 ELSE f[k - 1] + g[k - 1]]
           sum == CHOOSE f : Eq(f)
<1>0. \A k \in Nat : Total(g, k) = sum[k]
  BY DEF Total
<1>1. ASSUME NEW k \in Nat, k # 0, NEW s \in Nat PROVE step[k][s] = s + g[k - 1] /\ step[k][s] \in Nat
  <2>1. g[k - 1] \in Nat
    BY <1>1
  <2> QED
    BY <1>1, <2>1
<1>2. PICK f : DeclaresOn(f, 0, step)
  <2>1. \A k \in Nat \ {0} : \A s \in Nat : step[k][s] \in Nat
    <3> HIDE DEF step
    <3> QED
      BY <1>1
  <2> HIDE DEF step
  <2> QED
    BY <2>1, NatRecursion
<1> HIDE DEF step
<1>3. f[0] = 0 /\ \A k \in Nat : f[k + 1] = step[k + 1][f[k]]
  <2>1. f = [k \in Nat |-> IF k = 0 THEN 0 ELSE step[k][f[k - 1]]]
    BY <1>2 DEF DeclaresOn
  <2> QED
    BY <2>1
<1>4. \A k \in Nat : f[k] \in Nat
  <2> DEFINE S == {k \in Nat : f[k] \in Nat}
  <2>1. 0 \in S
    BY <1>3
  <2>2. ASSUME NEW k \in Nat, k \in S PROVE k + 1 \in S
    <3>1. step[k + 1][f[k]] \in Nat
      BY <1>1, <2>2
    <3> QED
      BY <1>3, <3>1
  <2>3. Nat \subseteq S
    <3> HIDE DEF S
    <3> QED
      BY <2>1, <2>2, Induction
  <2> QED
    BY <2>3
<1>5. Eq(f)
  <2>1. f = [k \in Nat |-> IF k = 0 THEN 0 ELSE step[k][f[k - 1]]]
    BY <1>2 DEF DeclaresOn
  <2>2. ASSUME NEW k \in Nat, k # 0 PROVE step[k][f[k - 1]] = f[k - 1] + g[k - 1]
    <3>1. k - 1 \in Nat
      BY <2>2
    <3> QED
      BY <1>1, <1>4, <2>2, <3>1
  <2> QED
    BY <2>1, <2>2
<1>6. Eq(sum)
  <2> HIDE DEF Eq
  <2> QED
    BY <1>5
<1> HIDE DEF sum
<1>7. sum[0] = 0 /\ \A k \in Nat : sum[k + 1] = sum[k] + g[k]
  BY <1>6
<1>8. \A k \in Nat : sum[k] \in Nat
  <2> DEFINE S == {k \in Nat : sum[k] \in Nat}
  <2>1. 0 \in S
    BY <1>7
  <2>2. ASSUME NEW k \in Nat, k \in S PROVE k + 1 \in S
    <3>1. g[k] \in Nat
      OBVIOUS
    <3> QED
      BY <1>7, <2>2, <3>1
  <2>3. Nat \subseteq S
    <3> HIDE DEF S
    <3> QED
      BY <2>1, <2>2, Induction
  <2> QED
    BY <2>3
<1>9. ASSUME NEW k \in Nat PROVE Total(g, k) \in Nat /\ Total(g, k + 1) = Total(g, k) + g[k]
  <2>1. k + 1 \in Nat
    OBVIOUS
  <2>2. Total(g, k) = sum[k] /\ Total(g, k + 1) = sum[k + 1]
    BY <1>0, <2>1
  <2> QED
    BY <1>7, <1>8, <2>2
<1>10. Total(g, 0) = 0
  BY <1>0, <1>7
<1> QED
  BY <1>9, <1>10

\* The sum of nothing.
LEMMA TotalZero ==
  ASSUME NEW g \in [Nat -> Nat], NEW n \in Nat, \A k \in Nat : k < n => g[k] = 0
  PROVE  Total(g, n) = 0
<1> DEFINE S == {k \in Nat : k <= n => Total(g, k) = 0}
<1>1. 0 \in S
  BY TotalRule
<1>2. ASSUME NEW k \in Nat, k \in S PROVE k + 1 \in S
  <2> SUFFICES ASSUME k + 1 <= n PROVE Total(g, k + 1) = 0
    OBVIOUS
  <2>1. Total(g, k) = 0 /\ g[k] = 0
    BY <1>2
  <2>2. Total(g, k + 1) = Total(g, k) + g[k]
    BY TotalRule
  <2> QED
    BY <2>1, <2>2
<1>3. Nat \subseteq S
  <2> HIDE DEF S
  <2> QED
    BY <1>1, <1>2, Induction
<1> QED
  BY <1>3

\* One more value adds itself.
LEMMA TotalOne ==
  ASSUME NEW g \in [Nat -> Nat], NEW h \in [Nat -> Nat], NEW c \in Nat, h[c] = 0,
         \A k \in Nat : k # c => g[k] = h[k], NEW n \in Nat
  PROVE  Total(g, n) = Total(h, n) + IF c < n THEN g[c] ELSE 0
<1> DEFINE S == {k \in Nat : Total(g, k) = Total(h, k) + IF c < k THEN g[c] ELSE 0}
<1>1. 0 \in S
  BY TotalRule
<1>2. ASSUME NEW k \in Nat, k \in S PROVE k + 1 \in S
  <2>1. /\ Total(g, k + 1) = Total(g, k) + g[k] /\ Total(h, k + 1) = Total(h, k) + h[k]
        /\ Total(g, k) \in Nat /\ Total(h, k) \in Nat /\ g[k] \in Nat /\ h[k] \in Nat /\ g[c] \in Nat
    BY TotalRule
  <2>2. Total(g, k) = Total(h, k) + IF c < k THEN g[c] ELSE 0
    BY <1>2
  <2>3. CASE k < c
    <3>1. g[k] = h[k] /\ ~(c < k) /\ ~(c < k + 1)
      BY <2>3
    <3> QED
      BY <2>1, <2>2, <3>1
  <2>4. CASE k = c
    <3>1. h[k] = 0 /\ ~(c < k) /\ c < k + 1 /\ g[k] = g[c]
      BY <2>4
    <3> QED
      BY <2>1, <2>2, <3>1
  <2>5. CASE k > c
    <3>1. g[k] = h[k] /\ c < k /\ c < k + 1
      BY <2>5
    <3> QED
      BY <2>1, <2>2, <3>1
  <2> QED
    BY <2>3, <2>4, <2>5
<1>3. Nat \subseteq S
  <2> HIDE DEF S
  <2> QED
    BY <1>1, <1>2, Induction
<1> QED
  BY <1>3

-----------------------------------------------------------------------------
(* Products of vectors                                                     *)

\* What the merge makes of what is left from i and j on.
Merged(f, m, K, X, l, L, Y, i, j) ==
  IF i > m \/ j > l THEN 0
  ELSE IF K[i] < L[j] THEN f[<<i + 1, j>>]
  ELSE IF K[i] > L[j] THEN f[<<i, j + 1>>]
  ELSE X[i] * Y[j] + f[<<i + 1, j + 1>>]

\* For the prover: products of naturals are naturals.
LEMMA Products == ASSUME NEW x \in Nat, NEW y \in Nat PROVE x * y \in Nat
OBVIOUS

\* Dot has these values.
LEMMA DotRule ==
  ASSUME NEW a, NEW m, NEW K, NEW X, Columns(a, m, K, X), NEW b, NEW l, NEW L, NEW Y, Columns(b, l, L, Y)
  PROVE  \E f : /\ f[<<1, 1>>] = Dot(a, b)
                /\ \A i \in 1 .. m + 1 : \A j \in 1 .. l + 1 :
                     f[<<i, j>>] = Merged(f, m, K, X, l, L, Y, i, j)
<1> DEFINE D == (1 .. m + 1) \X (1 .. l + 1)
           V == Nat
           rank == [x \in D |-> (m + 1 - x[1]) + (l + 1 - x[2])]
           RankBelow(x) == Lower(D, rank, x)
           Value(x, h) == Merged(h, m, K, X, l, L, Y, x[1], x[2])
           step == [x \in D |-> [h \in [RankBelow(x) -> V] |-> Value(x, h)]]
           Eq(f) == f = [x \in D |-> Value(x, f)]
           Raw(f, i, j) == IF i > Len(a) \/ j > Len(b) THEN 0
                           ELSE IF a[i][1] < b[j][1] THEN f[<<i + 1, j>>]
                           ELSE IF a[i][1] > b[j][1] THEN f[<<i, j + 1>>]
                           ELSE a[i][2] * b[j][2] + f[<<i + 1, j + 1>>]
           RawEq(f) == f = [x \in (1 .. Len(a) + 1) \X (1 .. Len(b) + 1) |-> Raw(f, x[1], x[2])]
           dot == CHOOSE f : RawEq(f)
<1>1. Dot(a, b) = dot[<<1, 1>>]
  BY DEF Dot
<1>2. /\ m \in Nat /\ l \in Nat /\ Len(a) = m /\ Len(b) = l
      /\ K \in [1 .. m -> Nat] /\ X \in [1 .. m -> Nat] /\ L \in [1 .. l -> Nat] /\ Y \in [1 .. l -> Nat]
      /\ \A i \in 1 .. m : a[i][1] = K[i] /\ a[i][2] = X[i]
      /\ \A j \in 1 .. l : b[j][1] = L[j] /\ b[j][2] = Y[j]
  <2>1. (\A i \in 1 .. m : a[i] = <<K[i], X[i]>>) /\ \A j \in 1 .. l : b[j] = <<L[j], Y[j]>>
    BY DEF Columns
  <2> QED
    BY <2>1 DEF Columns
<1>3. \A f : RawEq(f) <=> Eq(f)
  <2> SUFFICES ASSUME NEW f PROVE RawEq(f) <=> Eq(f)
    OBVIOUS
  <2>1. ASSUME NEW x \in D PROVE Raw(f, x[1], x[2]) = Value(x, f)
    <3>1. PICK i \in 1 .. m + 1, j \in 1 .. l + 1 : x = <<i, j>>
      OBVIOUS
    <3>2. CASE i > m \/ j > l
      <4>1. Raw(f, i, j) = 0 /\ Merged(f, m, K, X, l, L, Y, i, j) = 0
        BY <1>2, <3>2 DEF Merged
      <4> QED
        BY <3>1, <4>1
    <3>3. CASE ~(i > m \/ j > l)
      <4>1. i \in 1 .. m /\ j \in 1 .. l
        BY <1>2, <3>3
      <4>2. a[i][1] = K[i] /\ a[i][2] = X[i] /\ b[j][1] = L[j] /\ b[j][2] = Y[j]
        BY <1>2, <4>1
      <4>3. Raw(f, i, j) = Merged(f, m, K, X, l, L, Y, i, j)
        BY <1>2, <3>3, <4>2 DEF Merged
      <4> QED
        BY <3>1, <4>3
    <3> QED
      BY <3>2, <3>3
  <2>2. (1 .. Len(a) + 1) \X (1 .. Len(b) + 1) = D
    BY <1>2
  <2> HIDE DEF Raw, Value, D
  <2>3. [x \in (1 .. Len(a) + 1) \X (1 .. Len(b) + 1) |-> Raw(f, x[1], x[2])] = [x \in D |-> Value(x, f)]
    BY <2>1, <2>2
  <2> QED
    BY <2>3
<1>4. rank \in [D -> Nat] /\ \A i \in 1 .. m + 1 : \A j \in 1 .. l + 1 : rank[<<i, j>>] = (m + 1 - i) + (l + 1 - j)
  <2>1. ASSUME NEW x \in D PROVE (m + 1 - x[1]) + (l + 1 - x[2]) \in Nat
    <3>1. PICK i \in 1 .. m + 1, j \in 1 .. l + 1 : x = <<i, j>>
      OBVIOUS
    <3>2. (m + 1 - i) + (l + 1 - j) \in Nat
      BY <1>2
    <3> QED
      BY <3>1, <3>2
  <2>2. rank \in [D -> Nat]
    <3> HIDE DEF D
    <3> QED
      BY <2>1
  <2>3. ASSUME NEW i \in 1 .. m + 1, NEW j \in 1 .. l + 1 PROVE rank[<<i, j>>] = (m + 1 - i) + (l + 1 - j)
    OBVIOUS
  <2> QED
    BY <2>2, <2>3
<1>5. \A x \in D : \E i \in 1 .. m + 1, j \in 1 .. l + 1 : x = <<i, j>>
  OBVIOUS
<1> HIDE DEF rank, RawEq
<1>6. ASSUME NEW i \in 1 .. m, NEW j \in 1 .. l
      PROVE  <<i + 1, j>> \in RankBelow(<<i, j>>) /\ <<i, j + 1>> \in RankBelow(<<i, j>>) /\ <<i + 1, j + 1>> \in RankBelow(<<i, j>>)
  <2>1. i \in 1 .. m + 1 /\ i + 1 \in 1 .. m + 1 /\ j \in 1 .. l + 1 /\ j + 1 \in 1 .. l + 1
    BY <1>2
  <2>2. /\ rank[<<i + 1, j>>] < rank[<<i, j>>] /\ rank[<<i, j + 1>>] < rank[<<i, j>>]
        /\ rank[<<i + 1, j + 1>>] < rank[<<i, j>>]
    <3>1. /\ rank[<<i, j>>] = (m + 1 - i) + (l + 1 - j)
          /\ rank[<<i + 1, j>>] = (m + 1 - (i + 1)) + (l + 1 - j)
          /\ rank[<<i, j + 1>>] = (m + 1 - i) + (l + 1 - (j + 1))
          /\ rank[<<i + 1, j + 1>>] = (m + 1 - (i + 1)) + (l + 1 - (j + 1))
      BY <1>4, <2>1
    <3> QED
      BY <1>2, <3>1
  <2>3. <<i + 1, j>> \in D /\ <<i, j + 1>> \in D /\ <<i + 1, j + 1>> \in D
    BY <2>1
  <2> QED
    BY <2>2, <2>3 DEF Lower
<1>7. ASSUME NEW x \in D, NEW h \in [RankBelow(x) -> V] PROVE step[x][h] = Value(x, h) /\ Value(x, h) \in V
  <2>1. step[x][h] = Value(x, h)
    <3> HIDE DEF Value, RankBelow, V, D
    <3> QED
      OBVIOUS
  <2>2. PICK i \in 1 .. m + 1, j \in 1 .. l + 1 : x = <<i, j>>
    BY <1>5
  <2>3. Value(x, h) = Merged(h, m, K, X, l, L, Y, i, j)
    BY <2>2
  <2>4. CASE i > m \/ j > l
    BY <2>1, <2>3, <2>4 DEF Merged
  <2>5. CASE ~(i > m \/ j > l)
    <3>1. i \in 1 .. m /\ j \in 1 .. l
      BY <1>2, <2>5
    <3>2. <<i + 1, j>> \in RankBelow(x) /\ <<i, j + 1>> \in RankBelow(x) /\ <<i + 1, j + 1>> \in RankBelow(x)
      BY <1>6, <2>2, <3>1
    <3>3. h[<<i + 1, j>>] \in Nat /\ h[<<i, j + 1>>] \in Nat /\ h[<<i + 1, j + 1>>] \in Nat
      <4> HIDE DEF RankBelow
      <4> QED
        BY <3>2
    <3>4. X[i] * Y[j] \in Nat
      BY <1>2, <3>1, Products
    <3>5. X[i] * Y[j] + h[<<i + 1, j + 1>>] \in Nat
      BY <3>3, <3>4
    <3>6. Value(x, h) \in {h[<<i + 1, j>>], h[<<i, j + 1>>], X[i] * Y[j] + h[<<i + 1, j + 1>>]}
      BY <2>3, <2>5 DEF Merged
    <3> QED
      BY <2>1, <3>3, <3>5, <3>6
  <2> QED
    BY <2>4, <2>5
<1>8. PICK f : Ranked(f, D, V, rank, step)
  <2>1. Leads(D, V, rank, step)
    <3> HIDE DEF V, step, Value, D
    <3> QED
      BY <1>7 DEF Leads
  <2> HIDE DEF V, step, D
  <2> QED
    BY <1>4, <2>1, RankedRecursion
<1>9. f \in [D -> V]
  <2> HIDE DEF V, step, D
  <2> QED
    BY <1>8 DEF Ranked
<1>10. ASSUME NEW x \in D PROVE f[x] = Value(x, f)
  <2> DEFINE h == [y \in RankBelow(x) |-> f[y]]
  <2>1. f[x] = step[x][h]
    <3>1. f[x] = step[x][Restrict(f, RankBelow(x))]
      <4> HIDE DEF V, step, D
      <4> QED
        BY <1>8 DEF Ranked
    <3>2. Restrict(f, RankBelow(x)) = h
      BY DEF Restrict
    <3> HIDE DEF V, step, h, D
    <3> QED
      BY <3>1, <3>2
  <2>2. h \in [RankBelow(x) -> V]
    <3>1. RankBelow(x) \subseteq D
      BY DEF Lower
    <3> HIDE DEF V, RankBelow, D
    <3> QED
      BY <1>9, <3>1
  <2>3. Value(x, h) = Value(x, f)
    <3>1. PICK i \in 1 .. m + 1, j \in 1 .. l + 1 : x = <<i, j>>
      BY <1>5
    <3>2. Value(x, h) = Merged(h, m, K, X, l, L, Y, i, j) /\ Value(x, f) = Merged(f, m, K, X, l, L, Y, i, j)
      BY <3>1
    <3>3. CASE i > m \/ j > l
      BY <3>2, <3>3 DEF Merged
    <3>4. CASE ~(i > m \/ j > l)
      <4>1. i \in 1 .. m /\ j \in 1 .. l
        BY <1>2, <3>4
      <4>2. <<i + 1, j>> \in RankBelow(x) /\ <<i, j + 1>> \in RankBelow(x) /\ <<i + 1, j + 1>> \in RankBelow(x)
        BY <1>6, <3>1, <4>1
      <4>3. h[<<i + 1, j>>] = f[<<i + 1, j>>] /\ h[<<i, j + 1>>] = f[<<i, j + 1>>]
            /\ h[<<i + 1, j + 1>>] = f[<<i + 1, j + 1>>]
        <5> HIDE DEF RankBelow
        <5> QED
          BY <4>2
      <4> HIDE DEF h, Value
      <4> QED
        BY <3>2, <3>4, <4>3 DEF Merged
    <3> QED
      BY <3>3, <3>4
  <2> HIDE DEF V, step, h, Value, D
  <2> QED
    BY <1>7, <2>1, <2>2, <2>3
<1>11. Eq(dot)
  <2>1. Eq(f)
    <3>1. f = [x \in D |-> f[x]]
      <4> HIDE DEF V, D
      <4> QED
        BY <1>9
    <3> HIDE DEF Value, D
    <3> QED
      BY <1>10, <3>1
  <2>2. RawEq(f)
    <3> HIDE DEF Eq
    <3> QED
      BY <1>3, <2>1
  <2>3. RawEq(dot)
    <3> HIDE DEF Eq
    <3> QED
      BY <2>2
  <2> HIDE DEF Eq, dot
  <2> QED
    BY <1>3, <2>3
<1>12. ASSUME NEW i \in 1 .. m + 1, NEW j \in 1 .. l + 1 PROVE dot[<<i, j>>] = Merged(dot, m, K, X, l, L, Y, i, j)
  <2>1. <<i, j>> \in D
    OBVIOUS
  <2>2. dot[<<i, j>>] = Value(<<i, j>>, dot)
    <3> HIDE DEF dot, Value, D
    <3> QED
      BY <1>11, <2>1
  <2> HIDE DEF dot
  <2> QED
    BY <2>2
<1> HIDE DEF dot
<1> QED
  BY <1>1, <1>12

\* The products of the pairs from i and from j on.
Rest(m, K, l, L, g, h, i, j) ==
  [k \in Nat |-> IF (\E p \in i .. m : K[p] = k) /\ (\E q \in j .. l : L[q] = k) THEN g[k] * h[k] ELSE 0]

(***************************************************************************)
(* dot adds up the products of all the values at one index: the merge      *)
(* passes over no index that both vectors have.                            *)
(***************************************************************************)
THEOREM DotAddsUp ==
  ASSUME NEW a, NEW g, StandsFor(a, g), NEW b, NEW h, StandsFor(b, h),
         NEW n \in Nat, \A i \in DOMAIN a : a[i][1] < n
  PROVE  Dot(a, b) = Total([k \in Nat |-> g[k] * h[k]], n)
<1>1. PICK m, K, X : Columns(a, m, K, X)
  BY HasColumns DEF StandsFor, Vector
<1>2. PICK l, L, Y : Columns(b, l, L, Y)
  BY HasColumns DEF StandsFor, Vector
<1>3. ColumnsStandFor(m, K, X, g) /\ ColumnsStandFor(l, L, Y, h)
  BY <1>1, <1>2, StandsForColumns
<1>4. /\ m \in Nat /\ l \in Nat
      /\ K \in [1 .. m -> Nat] /\ X \in [1 .. m -> Nat] /\ L \in [1 .. l -> Nat] /\ Y \in [1 .. l -> Nat]
  BY <1>1, <1>2 DEF Columns
<1>5. /\ \A i, j \in 1 .. m : i < j => K[i] < K[j]
      /\ \A i, j \in 1 .. l : i < j => L[i] < L[j]
      /\ g \in [Nat -> Nat] /\ h \in [Nat -> Nat]
      /\ \A i \in 1 .. m : g[K[i]] = X[i]
      /\ \A j \in 1 .. l : h[L[j]] = Y[j]
      /\ \A k \in Nat : g[k] # 0 => \E i \in 1 .. m : K[i] = k
      /\ \A k \in Nat : h[k] # 0 => \E j \in 1 .. l : L[j] = k
  BY <1>3 DEF ColumnsStandFor
<1>6. \A i \in 1 .. m : K[i] < n
  <2>1. DOMAIN a = 1 .. m /\ \A i \in 1 .. m : a[i] = <<K[i], X[i]>>
    BY <1>1, LenProperties DEF Columns
  <2> QED
    BY <2>1
<1>7. PICK f : /\ f[<<1, 1>>] = Dot(a, b)
               /\ \A i \in 1 .. m + 1 : \A j \in 1 .. l + 1 : f[<<i, j>>] = Merged(f, m, K, X, l, L, Y, i, j)
  BY <1>1, <1>2, DotRule
<1> DEFINE R(i, j) == Rest(m, K, l, L, g, h, i, j)
           In(i, k) == \E p \in i .. m : K[p] = k
           Jn(j, k) == \E q \in j .. l : L[q] = k
<1>8. ASSUME NEW i \in 1 .. m + 1, NEW j \in 1 .. l + 1
      PROVE  R(i, j) \in [Nat -> Nat] /\ \A k \in Nat : R(i, j)[k] = IF In(i, k) /\ Jn(j, k) THEN g[k] * h[k] ELSE 0
  <2>1. \A k \in Nat : g[k] * h[k] \in Nat
    BY <1>5, Products
  <2> QED
    BY <2>1 DEF Rest
<1>9. ASSUME NEW i \in 1 .. m PROVE \A k \in Nat : In(i, k) <=> (k = K[i] \/ In(i + 1, k))
  <2>1. ASSUME NEW k \in Nat, In(i, k) PROVE k = K[i] \/ In(i + 1, k)
    <3>1. PICK p \in i .. m : K[p] = k
      BY <2>1
    <3>2. p = i \/ p \in i + 1 .. m
      BY <1>4
    <3> QED
      BY <3>1, <3>2
  <2>2. i \in i .. m /\ \A p \in i + 1 .. m : p \in i .. m
    BY <1>4
  <2> QED
    BY <2>1, <2>2
<1>10. ASSUME NEW j \in 1 .. l PROVE \A k \in Nat : Jn(j, k) <=> (k = L[j] \/ Jn(j + 1, k))
  <2>1. ASSUME NEW k \in Nat, Jn(j, k) PROVE k = L[j] \/ Jn(j + 1, k)
    <3>1. PICK q \in j .. l : L[q] = k
      BY <2>1
    <3>2. q = j \/ q \in j + 1 .. l
      BY <1>4
    <3> QED
      BY <3>1, <3>2
  <2>2. j \in j .. l /\ \A q \in j + 1 .. l : q \in j .. l
    BY <1>4
  <2> QED
    BY <2>1, <2>2
<1>11. ASSUME NEW i \in 1 .. m, NEW k \in Nat, k < K[i] PROVE ~In(i, k)
  <2> SUFFICES ASSUME NEW p \in i .. m, K[p] = k PROVE FALSE
    OBVIOUS
  <2>1. p = i \/ K[i] < K[p]
    BY <1>4, <1>5
  <2>2. K[i] \in Nat /\ K[p] \in Nat
    BY <1>4
  <2> QED
    BY <1>11, <2>1, <2>2
<1>12. ASSUME NEW j \in 1 .. l, NEW k \in Nat, k < L[j] PROVE ~Jn(j, k)
  <2> SUFFICES ASSUME NEW q \in j .. l, L[q] = k PROVE FALSE
    OBVIOUS
  <2>1. q = j \/ L[j] < L[q]
    BY <1>4, <1>5
  <2>2. L[j] \in Nat /\ L[q] \in Nat
    BY <1>4
  <2> QED
    BY <1>12, <2>1, <2>2
<1>13. ASSUME NEW i \in 1 .. m PROVE ~In(i + 1, K[i])
  <2> SUFFICES ASSUME NEW p \in i + 1 .. m, K[p] = K[i] PROVE FALSE
    OBVIOUS
  <2>1. K[i] < K[p] /\ K[i] \in Nat
    BY <1>4, <1>5
  <2> QED
    BY <2>1
<1> DEFINE D == (1 .. m + 1) \X (1 .. l + 1)
           rank == [x \in D |-> (m + 1 - x[1]) + (l + 1 - x[2])]
           G == {x \in D : f[x] = Total(R(x[1], x[2]), n)}
<1>14. rank \in [D -> Nat] /\ \A i \in 1 .. m + 1 : \A j \in 1 .. l + 1 : rank[<<i, j>>] = (m + 1 - i) + (l + 1 - j)
  <2>1. ASSUME NEW x \in D PROVE (m + 1 - x[1]) + (l + 1 - x[2]) \in Nat
    <3>1. PICK i \in 1 .. m + 1, j \in 1 .. l + 1 : x = <<i, j>>
      OBVIOUS
    <3>2. (m + 1 - i) + (l + 1 - j) \in Nat
      BY <1>4
    <3> QED
      BY <3>1, <3>2
  <2>2. rank \in [D -> Nat]
    <3> HIDE DEF D
    <3> QED
      BY <2>1
  <2>3. ASSUME NEW i \in 1 .. m + 1, NEW j \in 1 .. l + 1 PROVE rank[<<i, j>>] = (m + 1 - i) + (l + 1 - j)
    OBVIOUS
  <2> QED
    BY <2>2, <2>3
<1> HIDE DEF rank, In, Jn, R
<1>15. ASSUME NEW i \in 1 .. m + 1, NEW j \in 1 .. l + 1,
              \A i2 \in 1 .. m + 1 : \A j2 \in 1 .. l + 1 :
                (m + 1 - i2) + (l + 1 - j2) < (m + 1 - i) + (l + 1 - j) => f[<<i2, j2>>] = Total(R(i2, j2), n)
       PROVE  f[<<i, j>>] = Total(R(i, j), n)
  <2>1. f[<<i, j>>] = Merged(f, m, K, X, l, L, Y, i, j)
    BY <1>7
  <2>2. CASE i > m \/ j > l
    <3>1. \A k \in Nat : R(i, j)[k] = 0
      <4>1. \A k \in Nat : ~(In(i, k) /\ Jn(j, k))
        BY <1>4, <2>2 DEF In, Jn
      <4> QED
        BY <1>8, <4>1
    <3>2. Total(R(i, j), n) = 0
      BY <1>8, <3>1, TotalZero
    <3>3. f[<<i, j>>] = 0
      BY <2>1, <2>2 DEF Merged
    <3> QED
      BY <3>2, <3>3
  <2>3. CASE ~(i > m \/ j > l)
    <3>1. /\ i \in 1 .. m /\ i + 1 \in 1 .. m + 1 /\ j \in 1 .. l /\ j + 1 \in 1 .. l + 1
          /\ K[i] \in Nat /\ L[j] \in Nat
      BY <1>4, <2>3
    <3>2. CASE K[i] < L[j]
      <4>1. f[<<i, j>>] = f[<<i + 1, j>>]
        BY <2>1, <2>3, <3>2 DEF Merged
      <4>2. f[<<i + 1, j>>] = Total(R(i + 1, j), n)
        <5>1. (m + 1 - (i + 1)) + (l + 1 - j) < (m + 1 - i) + (l + 1 - j)
          BY <1>4, <3>1
        <5> QED
          BY <1>15, <3>1, <5>1
      <4>3. \A k \in Nat : R(i, j)[k] = R(i + 1, j)[k]
        <5> SUFFICES ASSUME NEW k \in Nat PROVE R(i, j)[k] = R(i + 1, j)[k]
          OBVIOUS
        <5>1. In(i, k) /\ Jn(j, k) <=> In(i + 1, k) /\ Jn(j, k)
          <6>1. In(i, k) <=> (k = K[i] \/ In(i + 1, k))
            BY <1>9, <3>1
          <6>2. k = K[i] => ~Jn(j, k)
            BY <1>12, <3>1, <3>2
          <6> QED
            BY <6>1, <6>2
        <5> QED
          BY <1>8, <3>1, <5>1
      <4>4. R(i, j) = R(i + 1, j)
        <5>1. R(i, j) \in [Nat -> Nat] /\ R(i + 1, j) \in [Nat -> Nat]
          BY <1>8, <3>1
        <5> QED
          BY <4>3, <5>1
      <4> QED
        BY <4>1, <4>2, <4>4
    <3>3. CASE K[i] > L[j]
      <4>1. f[<<i, j>>] = f[<<i, j + 1>>]
        BY <2>1, <2>3, <3>1, <3>3 DEF Merged
      <4>2. f[<<i, j + 1>>] = Total(R(i, j + 1), n)
        <5>1. (m + 1 - i) + (l + 1 - (j + 1)) < (m + 1 - i) + (l + 1 - j)
          BY <1>4, <3>1
        <5> QED
          BY <1>15, <3>1, <5>1
      <4>3. \A k \in Nat : R(i, j)[k] = R(i, j + 1)[k]
        <5> SUFFICES ASSUME NEW k \in Nat PROVE R(i, j)[k] = R(i, j + 1)[k]
          OBVIOUS
        <5>1. In(i, k) /\ Jn(j, k) <=> In(i, k) /\ Jn(j + 1, k)
          <6>1. Jn(j, k) <=> (k = L[j] \/ Jn(j + 1, k))
            BY <1>10, <3>1
          <6>2. k = L[j] => ~In(i, k)
            BY <1>11, <3>1, <3>3
          <6> QED
            BY <6>1, <6>2
        <5> QED
          BY <1>8, <3>1, <5>1
      <4>4. R(i, j) = R(i, j + 1)
        <5>1. R(i, j) \in [Nat -> Nat] /\ R(i, j + 1) \in [Nat -> Nat]
          BY <1>8, <3>1
        <5> QED
          BY <4>3, <5>1
      <4> QED
        BY <4>1, <4>2, <4>4
    <3>4. CASE K[i] = L[j]
      <4>1. f[<<i, j>>] = X[i] * Y[j] + f[<<i + 1, j + 1>>]
        BY <2>1, <2>3, <3>1, <3>4 DEF Merged
      <4>2. f[<<i + 1, j + 1>>] = Total(R(i + 1, j + 1), n)
        <5>1. (m + 1 - (i + 1)) + (l + 1 - (j + 1)) < (m + 1 - i) + (l + 1 - j)
          BY <1>4, <3>1
        <5> QED
          BY <1>15, <3>1, <5>1
      <4>3. PICK c \in Nat : c = K[i] /\ c = L[j] /\ c < n
        BY <1>6, <3>1, <3>4
      <4>4. R(i, j)[c] = X[i] * Y[j] /\ R(i + 1, j + 1)[c] = 0
        <5>1. In(i, c) /\ Jn(j, c) /\ ~In(i + 1, c)
          BY <1>9, <1>10, <1>13, <3>1, <4>3
        <5>2. g[c] = X[i] /\ h[c] = Y[j]
          BY <1>5, <3>1, <4>3
        <5> QED
          BY <1>8, <3>1, <5>1, <5>2
      <4>5. \A k \in Nat : k # c => R(i, j)[k] = R(i + 1, j + 1)[k]
        <5> SUFFICES ASSUME NEW k \in Nat, k # c PROVE R(i, j)[k] = R(i + 1, j + 1)[k]
          OBVIOUS
        <5>1. In(i, k) /\ Jn(j, k) <=> In(i + 1, k) /\ Jn(j + 1, k)
          BY <1>9, <1>10, <3>1, <4>3
        <5> QED
          BY <1>8, <3>1, <5>1
      <4>6. R(i, j) \in [Nat -> Nat] /\ R(i + 1, j + 1) \in [Nat -> Nat]
        BY <1>8, <3>1
      <4>7. Total(R(i, j), n) = Total(R(i + 1, j + 1), n) + IF c < n THEN R(i, j)[c] ELSE 0
        <5>1. PICK u \in [Nat -> Nat], w \in [Nat -> Nat] : u = R(i, j) /\ w = R(i + 1, j + 1)
          BY <4>6
        <5>2. w[c] = 0 /\ \A k \in Nat : k # c => u[k] = w[k]
          BY <4>4, <4>5, <5>1
        <5>3. Total(u, n) = Total(w, n) + IF c < n THEN u[c] ELSE 0
          BY <4>3, <5>2, TotalOne
        <5> QED
          BY <5>1, <5>3
      <4>8. Total(R(i + 1, j + 1), n) \in Nat /\ X[i] * Y[j] \in Nat
        BY <1>4, <3>1, <4>6, TotalRule, Products
      <4> QED
        BY <4>1, <4>2, <4>3, <4>4, <4>7, <4>8
    <3> QED
      BY <3>1, <3>2, <3>3, <3>4
  <2> QED
    BY <2>2, <2>3
<1>16. D \subseteq G
  <2>1. ASSUME NEW x \in D, \A y \in D : rank[y] < rank[x] => y \in G PROVE x \in G
    <3>1. PICK i \in 1 .. m + 1, j \in 1 .. l + 1 : x = <<i, j>>
      OBVIOUS
    <3>2. ASSUME NEW i2 \in 1 .. m + 1, NEW j2 \in 1 .. l + 1,
                 (m + 1 - i2) + (l + 1 - j2) < (m + 1 - i) + (l + 1 - j)
          PROVE  f[<<i2, j2>>] = Total(R(i2, j2), n)
      <4>1. <<i2, j2>> \in D /\ rank[<<i2, j2>>] < rank[x]
        BY <1>14, <3>1, <3>2
      <4>2. <<i2, j2>> \in G
        BY <2>1, <4>1
      <4> QED
        BY <4>2
    <3>3. f[<<i, j>>] = Total(R(i, j), n)
      BY <1>15, <3>2
    <3> QED
      BY <3>1, <3>3
  <2> HIDE DEF D, G
  <2> QED
    BY <1>14, <2>1, RankInduction
<1>17. f[<<1, 1>>] = Total(R(1, 1), n)
  <2>1. <<1, 1>> \in D
    BY <1>4
  <2> QED
    BY <1>16, <2>1
<1>18. R(1, 1) = [k \in Nat |-> g[k] * h[k]]
  <2>1. ASSUME NEW k \in Nat PROVE R(1, 1)[k] = g[k] * h[k]
    <3>1. R(1, 1)[k] = IF In(1, k) /\ Jn(1, k) THEN g[k] * h[k] ELSE 0
      BY <1>4, <1>8
    <3>2. g[k] \in Nat /\ h[k] \in Nat
      BY <1>5
    <3>3. ~In(1, k) => g[k] = 0
      BY <1>5 DEF In
    <3>4. ~Jn(1, k) => h[k] = 0
      BY <1>5 DEF Jn
    <3> QED
      BY <3>1, <3>2, <3>3, <3>4
  <2>2. R(1, 1) \in [Nat -> Nat]
    BY <1>4, <1>8
  <2> QED
    BY <2>1, <2>2
<1> QED
  BY <1>7, <1>17, <1>18
=============================================================================
