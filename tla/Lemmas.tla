-------------------------------- MODULE Lemmas --------------------------------
(***************************************************************************)
(* What the proofs about several modules need.  Induction over an interval  *)
(* of numbers, and functions defined by recursion on one: the theorems of   *)
(* NaturalsInduction take operators; these take sets and functions, and     *)
(* rest on the order of the numbers being well-founded.  And sequences with *)
(* an element more.                                                        *)
(***************************************************************************)
EXTENDS Integers, Sequences, WellFoundedInduction, TLAPS

-----------------------------------------------------------------------------
(* Induction and recursion *)

\* Every set of numbers that is not empty has a least one.
LEMMA LeastNumber ==
    ASSUME NEW S, S \subseteq Nat, S # {}
    PROVE  \E m \in S : \A y \in S : m <= y
  <1> DEFINE R == {ss \in Nat \X Nat : ss[1] < ss[2]}
  <1>1. IsWellFoundedOn(R, Nat)
    BY NatLessThanWellFounded DEF OpToRel
  <1>2. \A x, y \in Nat : x < y => <<x, y>> \in R
    OBVIOUS
  <1> HIDE DEF R
  <1>3. PICK m \in S : \A y \in S : ~(<<y, m>> \in R)
    BY <1>1, WFMin
  <1>4. \A y \in S : m <= y
    <2> TAKE y \in S
    <2>1. m \in Nat /\ y \in Nat
      OBVIOUS
    <2>2. ~(y < m)
      BY <1>2, <1>3, <2>1
    <2> QED BY <2>1, <2>2
  <1> QED BY <1>4

\* A set that has 0 and, with every number below N, the next one has them all.
LEMMA IntervalInduction ==
    ASSUME NEW N \in Nat, NEW T, 0 \in T,
           \A i \in 0 .. N - 1 : i \in T => i + 1 \in T
    PROVE  0 .. N \subseteq T
  <1> DEFINE S == (0 .. N) \ T
  <1> SUFFICES ASSUME S # {} PROVE FALSE
    OBVIOUS
  <1>1. PICK m \in S : \A y \in S : m <= y
    BY LeastNumber, S \subseteq Nat
  <1>2. m \in 1 .. N /\ m \notin T
    BY <1>1
  <1>3. m - 1 \in 0 .. N - 1 /\ m - 1 \notin S
    BY <1>1, <1>2
  <1>4. m - 1 \in T
    BY <1>3
  <1>5. (m - 1) + 1 \in T
    BY <1>3, <1>4
  <1> QED BY <1>2, <1>5

\* f starts with start, and each value follows from the one before.
Computes(f, N, S, start, step) ==
    /\ f \in [0 .. N -> S]
    /\ f[0] = start
    /\ \A i \in 1 .. N : f[i] = step[<<i, f[i - 1]>>]

\* There is such a function for every start and every step.
LEMMA Recursion ==
    ASSUME NEW N \in Nat, NEW S, NEW start \in S,
           NEW step \in [(1 .. N) \X S -> S]
    PROVE  \E f : Computes(f, N, S, start, step)
  <1> DEFINE Upto(n, f) == /\ f[0] = start
                           /\ \A i \in 1 .. n : f[i] = step[<<i, f[i - 1]>>]
             T == {n \in 0 .. N : \E f \in [0 .. n -> S] : Upto(n, f)}
  <1>1. 0 \in T
    <2> DEFINE f == [i \in 0 .. 0 |-> start]
    <2>1. f \in [0 .. 0 -> S]
      OBVIOUS
    <2>2. f[0] = start
      OBVIOUS
    <2>3. 1 .. 0 = {}
      OBVIOUS
    <2> HIDE DEF f
    <2>4. Upto(0, f)
      BY <2>2, <2>3
    <2> HIDE DEF Upto
    <2> QED BY <2>1, <2>4
  <1>2. ASSUME NEW n \in 0 .. N - 1, n \in T
        PROVE  n + 1 \in T
    <2>1. PICK f \in [0 .. n -> S] : Upto(n, f)
      BY <1>2
    <2> DEFINE g == [i \in 0 .. n + 1 |->
                       IF i = n + 1 THEN step[<<n + 1, f[n]>>] ELSE f[i]]
    <2>2. step[<<n + 1, f[n]>>] \in S
      <3>1. <<n + 1, f[n]>> \in (1 .. N) \X S
        OBVIOUS
      <3> QED BY <3>1
    <2>3. g \in [0 .. n + 1 -> S]
      BY <2>2
    <2>4. \A i \in 0 .. n : g[i] = f[i]
      OBVIOUS
    <2>5. g[n + 1] = step[<<n + 1, g[n]>>]
      <3>1. n \in 0 .. n /\ n + 1 \in 0 .. n + 1
        OBVIOUS
      <3>2. g[n] = f[n]
        BY <2>4, <3>1
      <3>3. g[n + 1] = step[<<n + 1, f[n]>>]
        BY <3>1
      <3> HIDE DEF g
      <3> QED BY <3>2, <3>3
    <2>6. g[0] = start
      BY <2>1, <2>4
    <2> HIDE DEF g
    <2>7. ASSUME NEW i \in 1 .. n + 1
          PROVE  g[i] = step[<<i, g[i - 1]>>]
      <3>1. CASE i = n + 1
        BY <2>5, <3>1
      <3>2. CASE i \in 1 .. n
        BY <2>1, <2>4, <3>2
      <3> QED BY <3>1, <3>2
    <2> QED BY <2>3, <2>6, <2>7
  <1> HIDE DEF T
  <1>3. 0 .. N \subseteq T
    BY <1>1, <1>2, IntervalInduction
  <1>4. N \in T
    BY <1>3
  <1> QED BY <1>4 DEF T, Computes

\* f starts with start, and each value follows from an element of list and the
\* value before.
Runs(f, list, S, start, step) ==
    /\ f \in [0 .. Len(list) -> S]
    /\ f[0] = start
    /\ \A i \in 1 .. Len(list) : f[i] = step[<<list[i], f[i - 1]>>]

LEMMA RunExists ==
    ASSUME NEW A, NEW S, NEW list \in Seq(A), NEW start \in S,
           NEW step \in [A \X S -> S]
    PROVE  \E f : Runs(f, list, S, start, step)
  <1> DEFINE n == Len(list)
             byPlace == [a \in (1 .. n) \X S |-> step[<<list[a[1]], a[2]>>]]
  <1>1. n \in Nat /\ \A i \in 1 .. n : list[i] \in A
    OBVIOUS
  <1> HIDE DEF n
  <1>2. byPlace \in [(1 .. n) \X S -> S]
    BY <1>1
  <1>3. \A i \in 1 .. n : \A s \in S : byPlace[<<i, s>>] = step[<<list[i], s>>]
    OBVIOUS
  <1> HIDE DEF byPlace
  <1>4. PICK f : Computes(f, n, S, start, byPlace)
    BY <1>1, <1>2, Recursion
  <1>5. /\ f \in [0 .. n -> S] /\ f[0] = start
        /\ \A i \in 1 .. n : f[i] = byPlace[<<i, f[i - 1]>>]
    BY <1>4 DEF Computes
  <1>6. \A i \in 1 .. n : f[i - 1] \in S
    BY <1>1, <1>5
  <1>7. \A i \in 1 .. n : f[i] = step[<<list[i], f[i - 1]>>]
    BY <1>3, <1>5, <1>6
  <1> QED BY <1>5, <1>7 DEF Runs, n

\* A function on the interval with the start and the steps of a run is one.
LEMMA IsRun ==
    ASSUME NEW A, NEW S, NEW list \in Seq(A), NEW start \in S,
           NEW step \in [A \X S -> S], NEW f,
           f = [i \in 0 .. Len(list) |-> f[i]],
           f[0] = start,
           \A i \in 1 .. Len(list) : f[i - 1] \in S => f[i] = step[<<list[i], f[i - 1]>>]
    PROVE  Runs(f, list, S, start, step)
  <1> DEFINE n == Len(list)
             T == {i \in 0 .. n : f[i] \in S}
  <1>1. n \in Nat /\ \A i \in 1 .. n : list[i] \in A
    OBVIOUS
  <1> HIDE DEF n
  <1>2. 0 \in T
    BY <1>1
  <1>3. ASSUME NEW i \in 0 .. n - 1, i \in T PROVE i + 1 \in T
    <2>1. i + 1 \in 0 .. n /\ i + 1 \in 1 .. n /\ (i + 1) - 1 = i /\ f[i] \in S
      BY <1>1, <1>3
    <2>2. f[i + 1] = step[<<list[i + 1], f[i]>>]
      BY <2>1 DEF n
    <2>3. <<list[i + 1], f[i]>> \in A \X S
      BY <1>1, <2>1
    <2> QED BY <2>1, <2>2, <2>3
  <1> HIDE DEF T
  <1>4. 0 .. n \subseteq T
    BY <1>1, <1>2, <1>3, IntervalInduction
  <1>5. \A i \in 0 .. n : f[i] \in S
    BY <1>4 DEF T
  <1>6. f \in [0 .. n -> S]
    BY <1>5 DEF n
  <1>7. \A i \in 1 .. n : f[i] = step[<<list[i], f[i - 1]>>]
    <2>1. \A i \in 1 .. n : i - 1 \in 0 .. n
      BY <1>1
    <2> QED BY <1>5, <2>1 DEF n
  <1> QED BY <1>6, <1>7 DEF Runs, n

\* One element more is one step more.
LEMMA RunGrows ==
    ASSUME NEW A, NEW S, NEW list \in Seq(A), NEW x \in A, NEW start, NEW step, NEW f, NEW g,
           Runs(f, list, S, start, step), Runs(g, Append(list, x), S, start, step)
    PROVE  g[Len(list) + 1] = step[<<x, f[Len(list)]>>]
  <1> DEFINE n == Len(list)
             T == {i \in 0 .. n : g[i] = f[i]}
  <1>1. /\ n \in Nat /\ Len(Append(list, x)) = n + 1
        /\ \A i \in 1 .. n : Append(list, x)[i] = list[i]
        /\ Append(list, x)[n + 1] = x
    OBVIOUS
  <1>2. f[0] = start /\ \A i \in 1 .. n : f[i] = step[<<list[i], f[i - 1]>>]
    BY DEF Runs
  <1> HIDE DEF n
  <1>3. /\ g[0] = start
        /\ \A i \in 1 .. n + 1 : g[i] = step[<<Append(list, x)[i], g[i - 1]>>]
    BY <1>1 DEF Runs
  <1>4. 0 \in T
    BY <1>1, <1>2, <1>3
  <1>5. ASSUME NEW i \in 0 .. n - 1, i \in T PROVE i + 1 \in T
    <2>1. /\ i + 1 \in 0 .. n /\ i + 1 \in 1 .. n /\ i + 1 \in 1 .. n + 1
          /\ (i + 1) - 1 = i /\ g[i] = f[i]
      BY <1>1, <1>5
    <2>2. g[i + 1] = step[<<list[i + 1], g[i]>>]
      BY <1>1, <1>3, <2>1
    <2>3. f[i + 1] = step[<<list[i + 1], f[i]>>]
      BY <1>2, <2>1
    <2> QED BY <2>1, <2>2, <2>3
  <1> HIDE DEF T
  <1>6. 0 .. n \subseteq T
    BY <1>1, <1>4, <1>5, IntervalInduction
  <1>7. g[n] = f[n]
    BY <1>1, <1>6 DEF T
  <1>8. n + 1 \in 1 .. n + 1 /\ (n + 1) - 1 = n
    BY <1>1
  <1>9. g[n + 1] = step[<<x, g[n]>>]
    BY <1>1, <1>3, <1>8
  <1> QED BY <1>7, <1>9 DEF n

\* There is a largest among finitely many numbers.
LEMMA LargestNumber ==
    ASSUME NEW n \in Nat \ {0}, NEW f, \A k \in 1 .. n : f[k] \in Int
    PROVE  \E k \in 1 .. n : \A j \in 1 .. n : f[j] <= f[k]
  <1> DEFINE T == {m \in 0 .. n : m = 0 \/ \E k \in 1 .. m : \A j \in 1 .. m : f[j] <= f[k]}
  <1>1. 0 \in T
    OBVIOUS
  <1>2. ASSUME NEW m \in 0 .. n - 1, m \in T
        PROVE  m + 1 \in T
    <2> DEFINE Largest(k, l) == \A j \in 1 .. l : f[j] <= f[k]
    <2>1. m + 1 \in 0 .. n /\ m + 1 \in 1 .. n /\ f[m + 1] \in Int
      OBVIOUS
    <2>2. CASE m = 0
      <3>1. Largest(1, m + 1)
        BY <2>1, <2>2
      <3>2. 1 \in 1 .. m + 1
        BY <2>2
      <3> QED BY <2>1, <3>1, <3>2
    <2>3. CASE m # 0
      <3>1. PICK k \in 1 .. m : Largest(k, m)
        BY <1>2, <2>3
      <3>2. k \in 1 .. n /\ f[k] \in Int
        OBVIOUS
      <3>3. CASE f[m + 1] <= f[k]
        <4>1. Largest(k, m + 1)
          BY <3>1, <3>3
        <4> QED BY <4>1, <2>1
      <3>4. CASE ~(f[m + 1] <= f[k])
        <4>1. \A j \in 1 .. m : f[j] \in Int /\ f[j] <= f[k]
          BY <3>1
        <4>2. Largest(m + 1, m + 1)
          BY <4>1, <3>2, <3>4, <2>1
        <4> QED BY <4>2, <2>1
      <3> QED BY <3>3, <3>4
    <2> QED BY <2>2, <2>3
  <1> HIDE DEF T
  <1>3. 0 .. n \subseteq T
    BY <1>1, <1>2, IntervalInduction
  <1>4. n \in T
    BY <1>3
  <1> QED BY <1>4 DEF T

-----------------------------------------------------------------------------
(* Sequences *)

\* t is s with one more element, at i.
Inserted(s, t, i) ==
    /\ Len(s) \in Nat /\ Len(t) = Len(s) + 1
    /\ DOMAIN s = 1 .. Len(s) /\ DOMAIN t = 1 .. Len(t)
    /\ i \in 1 .. Len(t)
    /\ \A k \in 1 .. i - 1 : t[k] = s[k]
    /\ \A k \in i .. Len(s) : t[k + 1] = s[k]

\* The place in t of what is at k in s, and the other way round.
Up(k, i) == IF k < i THEN k ELSE k + 1
Down(k, i) == IF k < i THEN k ELSE k - 1

LEMMA InsertedPlaces ==
    ASSUME NEW s, NEW t, NEW i, Inserted(s, t, i)
    PROVE  /\ \A k \in 1 .. Len(s) :
                 Up(k, i) \in 1 .. Len(t) /\ Up(k, i) # i /\ t[Up(k, i)] = s[k]
           /\ \A k \in 1 .. Len(t) : k # i =>
                 Down(k, i) \in 1 .. Len(s) /\ Up(Down(k, i), i) = k /\ t[k] = s[Down(k, i)]
  <1>1. Len(s) \in Nat /\ Len(t) = Len(s) + 1 /\ i \in 1 .. Len(t)
    BY DEF Inserted
  <1>2. ASSUME NEW k \in 1 .. Len(s)
        PROVE  Up(k, i) \in 1 .. Len(t) /\ Up(k, i) # i /\ t[Up(k, i)] = s[k]
    <2>1. CASE k < i
      <3>1. Up(k, i) = k /\ k \in 1 .. i - 1
        BY <2>1, <1>1 DEF Up
      <3> QED BY <3>1, <1>1, <2>1 DEF Inserted
    <2>2. CASE ~(k < i)
      <3>1. Up(k, i) = k + 1 /\ k \in i .. Len(s)
        BY <2>2, <1>1 DEF Up
      <3> QED BY <3>1, <1>1, <2>2 DEF Inserted
    <2> QED BY <2>1, <2>2
  <1>3. ASSUME NEW k \in 1 .. Len(t), k # i
        PROVE  Down(k, i) \in 1 .. Len(s) /\ Up(Down(k, i), i) = k
    BY <1>1, <1>3 DEF Up, Down
  <1>4. ASSUME NEW k \in 1 .. Len(t), k # i
        PROVE  t[k] = s[Down(k, i)]
    <2>1. Down(k, i) \in 1 .. Len(s) /\ Up(Down(k, i), i) = k
      BY <1>3, <1>4
    <2> QED BY <2>1, <1>2
  <1> QED BY <1>2, <1>3, <1>4

LEMMA ConcatenationAssociates ==
    ASSUME NEW T, NEW a \in Seq(T), NEW b \in Seq(T), NEW c \in Seq(T)
    PROVE  a \o (b \o c) = (a \o b) \o c
  <1> DEFINE l == a \o (b \o c)
             r == (a \o b) \o c
  <1>1. /\ l \in Seq(T) /\ Len(l) = Len(a) + Len(b) + Len(c)
        /\ r \in Seq(T) /\ Len(r) = Len(a) + Len(b) + Len(c)
    OBVIOUS
  <1>2. \A i \in 1 .. Len(a) + Len(b) + Len(c) : l[i] = r[i]
    OBVIOUS
  <1> HIDE DEF l, r
  <1>3. l = r
    BY <1>1, <1>2
  <1> QED BY <1>3 DEF l, r

LEMMA Concatenation ==
    ASSUME NEW S, NEW a \in Seq(S), NEW b \in Seq(S),
           NEW m \in Nat, NEW l \in Nat, Len(a) = m, Len(b) = l - m
    PROVE  /\ a \o b \in Seq(S)
           /\ Len(a \o b) = l /\ DOMAIN (a \o b) = 1 .. l
           /\ \A k \in 1 .. l : (a \o b)[k] = IF k <= m THEN a[k] ELSE b[k - m]
  <1>1. a \o b \in Seq(S)
    OBVIOUS
  <1>2. Len(a \o b) = l
    OBVIOUS
  <1>3. DOMAIN (a \o b) = 1 .. l
    BY <1>1, <1>2
  <1>4. \A k \in 1 .. l : (a \o b)[k] = IF k <= m THEN a[k] ELSE b[k - m]
    OBVIOUS
  <1> QED BY <1>1, <1>2, <1>3, <1>4

LEMMA OneElement ==
    ASSUME NEW S, NEW s \in Seq(S), NEW i \in 1 .. Len(s), NEW e \in S
    PROVE  /\ [s EXCEPT ![i] = e] \in Seq(S)
           /\ Len([s EXCEPT ![i] = e]) = Len(s)
  <1> DEFINE t == [k \in 1 .. Len(s) |-> IF k = i THEN e ELSE s[k]]
  <1>1. [s EXCEPT ![i] = e] = t
    OBVIOUS
  <1>2. t \in [1 .. Len(s) -> S] /\ Len(s) \in Nat
    OBVIOUS
  <1> HIDE DEF t
  <1>3. t \in Seq(S) /\ Len(t) = Len(s)
    BY <1>2
  <1> QED BY <1>1, <1>3

\* InsertAt of SequencesExt.
LEMMA OneMore ==
    ASSUME NEW S, NEW s \in Seq(S), NEW i \in 1 .. Len(s) + 1, NEW e \in S
    PROVE  LET new == SubSeq(s, 1, i - 1) \o <<e>> \o SubSeq(s, i, Len(s))
           IN  new \in Seq(S) /\ new[i] = e /\ Inserted(s, new, i)
  <1> DEFINE a == SubSeq(s, 1, i - 1)
             b == SubSeq(s, i, Len(s))
             t == (a \o <<e>>) \o b
  <1>1. /\ a \in Seq(S) /\ Len(a) = i - 1 /\ \A k \in 1 .. i - 1 : a[k] = s[k]
    OBVIOUS
  <1>2. /\ b \in Seq(S) /\ Len(b) = Len(s) + 1 - i
        /\ \A k \in 1 .. Len(b) : b[k] = s[k + i - 1]
    OBVIOUS
  <1>3. Len(s) \in Nat /\ DOMAIN s = 1 .. Len(s)
    OBVIOUS
  <1> DEFINE new == SubSeq(s, 1, i - 1) \o <<e>> \o SubSeq(s, i, Len(s))
  <1>4. new = t
    OBVIOUS
  <1> HIDE DEF a, b, new
  <1>5. /\ a \o <<e>> \in Seq(S) /\ Len(a \o <<e>>) = i
        /\ (a \o <<e>>)[i] = e /\ \A k \in 1 .. i - 1 : (a \o <<e>>)[k] = s[k]
    BY <1>1
  <1> DEFINE c == a \o <<e>>
  <1> HIDE DEF c
  <1>6. /\ c \o b \in Seq(S) /\ Len(c \o b) = Len(s) + 1
        /\ \A k \in 1 .. i : (c \o b)[k] = c[k]
        /\ \A k \in i + 1 .. Len(s) + 1 : (c \o b)[k] = b[k - i]
    <2>1. c \in Seq(S) /\ Len(c) = i /\ i \in Nat /\ Len(s) + 1 \in Nat
      BY <1>3, <1>5 DEF c
    <2>2. /\ c \o b \in Seq(S) /\ Len(c \o b) = Len(s) + 1
          /\ \A k \in 1 .. Len(s) + 1 : (c \o b)[k] = IF k <= i THEN c[k] ELSE b[k - i]
      BY <2>1, <1>2, Concatenation
    <2>3. \A k \in 1 .. i : k \in 1 .. Len(s) + 1 /\ k <= i
      BY <1>3
    <2>4. \A k \in i + 1 .. Len(s) + 1 : k \in 1 .. Len(s) + 1 /\ ~(k <= i)
      BY <1>3
    <2> QED BY <2>2, <2>3, <2>4
  <1>7. t = c \o b
    BY DEF c
  <1>8. ASSUME NEW k \in i .. Len(s)
        PROVE  (c \o b)[k + 1] = s[k]
    <2>1. k + 1 \in i + 1 .. Len(s) + 1 /\ k + 1 - i \in 1 .. Len(b)
      BY <1>2, <1>3
    <2>2. (c \o b)[k + 1] = b[k + 1 - i]
      BY SMTT(60), <2>1, <1>6
    <2>3. b[k + 1 - i] = s[(k + 1 - i) + i - 1]
      BY <2>1, <1>2
    <2>4. (k + 1 - i) + i - 1 = k
      OBVIOUS
    <2> QED BY <2>2, <2>3, <2>4
  <1>9. (c \o b)[i] = e /\ \A k \in 1 .. i - 1 : (c \o b)[k] = s[k]
    BY <1>5, <1>6, <1>3 DEF c
  <1> HIDE DEF t
  <1>10. DOMAIN (c \o b) = 1 .. Len(s) + 1
    BY <1>6
  <1>11. new \in Seq(S) /\ new[i] = e /\ Inserted(s, new, i)
    BY <1>3, <1>4, <1>6, <1>7, <1>8, <1>9, <1>10 DEF Inserted
  <1> QED BY <1>11 DEF new

\* RemoveAt of SequencesExt.
LEMMA OneLess ==
    ASSUME NEW S, NEW s \in Seq(S), NEW i \in 1 .. Len(s)
    PROVE  LET new == SubSeq(s, 1, i - 1) \o SubSeq(s, i + 1, Len(s))
           IN  new \in Seq(S) /\ Inserted(new, s, i)
  <1> DEFINE a == SubSeq(s, 1, i - 1)
             b == SubSeq(s, i + 1, Len(s))
  <1>1. /\ a \in Seq(S) /\ Len(a) = i - 1 /\ \A k \in 1 .. i - 1 : a[k] = s[k]
    OBVIOUS
  <1>2. /\ b \in Seq(S) /\ Len(b) = Len(s) - i
        /\ \A k \in 1 .. Len(b) : b[k] = s[k + i]
    OBVIOUS
  <1>3. Len(s) \in Nat /\ DOMAIN s = 1 .. Len(s)
    OBVIOUS
  <1> DEFINE new == SubSeq(s, 1, i - 1) \o SubSeq(s, i + 1, Len(s))
  <1>4. new = a \o b
    OBVIOUS
  <1> HIDE DEF a, b, new
  <1>5. /\ a \o b \in Seq(S) /\ Len(a \o b) = Len(s) - 1
        /\ \A k \in 1 .. i - 1 : (a \o b)[k] = a[k]
        /\ \A k \in i .. Len(s) - 1 : (a \o b)[k] = b[k - (i - 1)]
    <2>1. i - 1 \in Nat /\ Len(s) - 1 \in Nat /\ Len(s) - i = (Len(s) - 1) - (i - 1)
      BY <1>3
    <2>2. /\ a \o b \in Seq(S) /\ Len(a \o b) = Len(s) - 1
          /\ \A k \in 1 .. Len(s) - 1 :
                (a \o b)[k] = IF k <= i - 1 THEN a[k] ELSE b[k - (i - 1)]
      <3> DEFINE m == i - 1
                 l == Len(s) - 1
      <3>1. /\ a \in Seq(S) /\ m \in Nat /\ Len(a) = m
            /\ b \in Seq(S) /\ l \in Nat /\ Len(b) = l - m
        BY <2>1, <1>1, <1>2
      <3> HIDE DEF m, l
      <3>2. /\ a \o b \in Seq(S) /\ Len(a \o b) = l
            /\ \A k \in 1 .. l : (a \o b)[k] = IF k <= m THEN a[k] ELSE b[k - m]
        BY <3>1, Concatenation
      <3> QED BY <3>2 DEF m, l
    <2>3. \A k \in 1 .. i - 1 : k \in 1 .. Len(s) - 1 /\ k <= i - 1
      BY <1>3
    <2>4. \A k \in i .. Len(s) - 1 : k \in 1 .. Len(s) - 1 /\ ~(k <= i - 1)
      BY <1>3
    <2> QED BY <2>2, <2>3, <2>4
  <1>6. ASSUME NEW k \in i .. Len(s) - 1
        PROVE  (a \o b)[k] = s[k + 1]
    <2>1. k - (i - 1) \in 1 .. Len(b)
      BY <1>2, <1>3
    <2>2. b[k - (i - 1)] = s[k - (i - 1) + i]
      BY <2>1, <1>2
    <2>3. k - (i - 1) + i = k + 1
      OBVIOUS
    <2> QED BY <2>2, <2>3, <1>5
  <1>7. \A k \in 1 .. i - 1 : (a \o b)[k] = s[k]
    BY <1>1, <1>5
  <1>8. DOMAIN (a \o b) = 1 .. Len(s) - 1
    BY <1>5
  <1> DEFINE r == a \o b
  <1>9. /\ r \in Seq(S) /\ Len(r) = Len(s) - 1 /\ DOMAIN r = 1 .. Len(s) - 1
        /\ new = r
        /\ \A k \in 1 .. i - 1 : s[k] = r[k]
        /\ \A k \in i .. Len(s) - 1 : s[k + 1] = r[k]
    BY <1>4, <1>5, <1>6, <1>7, <1>8
  <1> HIDE DEF r
  <1>10. Len(r) \in Nat /\ Len(s) = Len(r) + 1
    BY <1>3, <1>9
  <1>11. Inserted(r, s, i)
    BY <1>3, <1>9, <1>10 DEF Inserted
  <1>12. new \in Seq(S) /\ Inserted(new, s, i)
    BY <1>9, <1>11
  <1> QED BY <1>12 DEF new
=============================================================================
