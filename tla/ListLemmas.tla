------------------------------ MODULE ListLemmas ------------------------------
(***************************************************************************)
(* Induction over the natural numbers and over lists, and what it says of  *)
(* the operators of Lists.  A property to be proved by induction is given  *)
(* as the set of the numbers, or lists, that have it.                      *)
(***************************************************************************)
EXTENDS Lists, WellFoundedInduction, SequenceTheorems, TLAPS

(* Every set of natural numbers has a least element.                       *)
LEMMA Least ==
  ASSUME NEW T \in SUBSET Nat, T # {}
  PROVE  \E m \in T : \A k \in T : m <= k
<1> DEFINE R == OpToRel(<, Nat)
<1>1. \A x, y \in Nat : x < y => <<x, y>> \in R
  BY DEF OpToRel
<1>2. IsWellFoundedOn(R, Nat)
  BY NatLessThanWellFounded
<1> HIDE DEF R
<1>3. PICK m \in T : \A k \in T : <<k, m>> \notin R
  BY <1>2, WFMin
<1>4. \A k \in T : ~(k < m)
  BY <1>1, <1>3
<1> QED
  BY <1>4

LEMMA Induction ==
  ASSUME NEW T \in SUBSET Nat, 0 \in T, \A n \in T : n + 1 \in T
  PROVE  T = Nat
<1> SUFFICES ASSUME Nat \ T # {} PROVE FALSE
  OBVIOUS
<1>1. PICK m \in Nat \ T : \A k \in Nat \ T : m <= k
  BY Least
<1>2. m # 0 /\ m - 1 \in Nat
  OBVIOUS
<1>3. m - 1 \in T
  BY <1>1, <1>2
<1> QED
  BY <1>2, <1>3

(* A value for every n up to N can be had by recursion.                    *)
Recurs(g, A, base, N, step) ==
  /\ g \in [0 .. N -> A]
  /\ g[0] = base
  /\ \A n \in 1 .. N : g[n] = step[n][g[n - 1]]

LEMMA Recursion ==
  ASSUME NEW A, NEW base \in A, NEW N \in Nat, NEW step \in [1 .. N -> [A -> A]]
  PROVE  \E g : Recurs(g, A, base, N, step)
<1> DEFINE Upto(m, g) ==
             /\ g \in [0 .. m -> A]
             /\ g[0] = base
             /\ \A n \in 1 .. m : g[n] = step[n][g[n - 1]]
           T == {m \in Nat : m <= N => \E g : Upto(m, g)}
<1>1. 0 \in T
  <2>1. Upto(0, [n \in 0 .. 0 |-> base])
    OBVIOUS
  <2> QED
    BY <2>1
<1>2. ASSUME NEW m \in T PROVE m + 1 \in T
  <2> SUFFICES ASSUME m + 1 <= N PROVE \E g : Upto(m + 1, g)
    OBVIOUS
  <2>1. PICK g : Upto(m, g)
    OBVIOUS
  <2> DEFINE h == [n \in 0 .. m + 1 |->
                     IF n = m + 1 THEN step[m + 1][g[m]] ELSE g[n]]
  <2>2. step[m + 1][g[m]] \in A
    BY <2>1
  <2>3. h \in [0 .. m + 1 -> A] /\ h[0] = base
    BY <2>1, <2>2
  <2>4. ASSUME NEW n \in 1 .. m + 1 PROVE h[n] = step[n][h[n - 1]]
    <3>1. CASE n = m + 1
      <4>1. m \in 0 .. m /\ m # m + 1 /\ m + 1 \in 0 .. m + 1 /\ n - 1 = m
        BY <3>1
      <4>2. h[n] = step[m + 1][g[m]] /\ h[m] = g[m]
        BY <3>1, <4>1
      <4> QED
        BY <3>1, <4>1, <4>2
    <3>2. CASE n \in 1 .. m
      <4>1. n \in 0 .. m /\ n - 1 \in 0 .. m /\ n # m + 1 /\ n - 1 # m + 1
        BY <3>2
      <4>2. h[n] = g[n] /\ h[n - 1] = g[n - 1]
        BY <4>1
      <4> QED
        BY <2>1, <3>2, <4>2
    <3> QED
      BY <3>1, <3>2
  <2> QED
    BY <2>3, <2>4
<1>3. T \in SUBSET Nat
  OBVIOUS
<1> HIDE DEF T
<1>4. T = Nat
  BY <1>1, <1>2, <1>3, Induction
<1>5. N \in T
  BY <1>4
<1>6. PICK g : Upto(N, g)
  BY <1>5 DEF T
<1> QED
  BY <1>6 DEF Recurs

(* Every list comes about by appending.                                    *)
LEMMA ListInduction ==
  ASSUME NEW E, NEW T \in SUBSET Seq(E), <<>> \in T,
         \A s \in T, e \in E : Append(s, e) \in T
  PROVE  T = Seq(E)
<1> DEFINE L == {n \in Nat : \A s \in Seq(E) : Len(s) = n => s \in T}
<1>1. 0 \in L
  OBVIOUS
<1>2. ASSUME NEW n \in L PROVE n + 1 \in L
  <2> SUFFICES ASSUME NEW s \in Seq(E), Len(s) = n + 1 PROVE s \in T
    OBVIOUS
  <2> DEFINE front == SubSeq(s, 1, n)
  <2>1. front \in Seq(E) /\ Len(front) = n /\ s[n + 1] \in E
    OBVIOUS
  <2>2. s = Append(front, s[n + 1])
    <3> DEFINE t == Append(front, s[n + 1])
    <3>1. t \in Seq(E) /\ Len(t) = n + 1
      BY <2>1
    <3>2. ASSUME NEW i \in 1 .. n + 1 PROVE s[i] = t[i]
      <4>1. CASE i = n + 1
        BY <2>1, <4>1
      <4>2. CASE i \in 1 .. n
        BY <2>1, <4>2
      <4> QED
        BY <4>1, <4>2
    <3>3. s = t
      <4> HIDE DEF t
      <4> QED
        BY <3>1, <3>2, SeqEqual
    <3> QED
      BY <3>3
  <2> QED
    BY <2>1, <2>2
<1>3. L \in SUBSET Nat
  OBVIOUS
<1> HIDE DEF L
<1>4. L = Nat
  BY <1>1, <1>2, <1>3, Induction
<1>5. ASSUME NEW s \in Seq(E) PROVE s \in T
  <2>1. Len(s) \in L
    BY <1>4
  <2> QED
    BY <2>1 DEF L
<1> QED
  BY <1>5

-----------------------------------------------------------------------------
(* Filter, element by element: kept[n] is what is kept of the first n.     *)
Kept(s, S, kept) ==
  kept = [n \in 0 .. Len(s) |->
            IF n = 0 THEN <<>>
            ELSE IF s[n] \in S THEN Append(kept[n - 1], s[n]) ELSE kept[n - 1]]

LEMMA FilterUnfolds ==
  ASSUME NEW E, NEW s \in Seq(E), NEW S
  PROVE  \E kept : Kept(s, S, kept) /\ Filter(s, S) = kept[Len(s)]
<1> DEFINE N == Len(s)
           A == Seq(E)
           base == <<>>
           step == [n \in 1 .. N |-> [t \in A |-> IF s[n] \in S THEN Append(t, s[n]) ELSE t]]
<1>1. N \in Nat /\ \A n \in 1 .. N : s[n] \in E
  OBVIOUS
<1>2. base \in A /\ step \in [1 .. N -> [A -> A]]
  BY <1>1
<1>3. \A t \in A, n \in 1 .. N :
        step[n][t] = IF s[n] \in S THEN Append(t, s[n]) ELSE t
  OBVIOUS
<1>4. \E g : Recurs(g, A, base, N, step)
  <2> HIDE DEF step, N, A, base
  <2> QED
    BY <1>1, <1>2, Recursion
<1>5. PICK g \in [0 .. N -> A] :
        g[0] = <<>> /\ \A n \in 1 .. N : g[n] = step[n][g[n - 1]]
  BY <1>4 DEF Recurs
<1>6. ASSUME NEW n \in 1 .. N
      PROVE  g[n] = IF s[n] \in S THEN Append(g[n - 1], s[n]) ELSE g[n - 1]
  <2>1. n - 1 \in 0 .. N
    BY <1>1
  <2> QED
    BY <2>1, <1>3, <1>5
<1> HIDE DEF step
<1>7. Kept(s, S, g)
  <2> DEFINE body(n) == IF n = 0 THEN <<>>
                        ELSE IF s[n] \in S THEN Append(g[n - 1], s[n]) ELSE g[n - 1]
  <2>1. \A n \in 0 .. N : g[n] = body(n)
    <3>1. ASSUME NEW n \in 0 .. N PROVE n = 0 \/ (n # 0 /\ n \in 1 .. N)
      BY <1>1
    <3> QED
      BY <3>1, <1>5, <1>6
  <2>2. g = [n \in 0 .. N |-> g[n]]
    BY <1>5
  <2> HIDE DEF body
  <2>3. g = [n \in 0 .. N |-> body(n)]
    BY <2>1, <2>2
  <2> QED
    BY <2>3 DEF Kept, body
<1>8. Filter(s, S) = (CHOOSE kept : Kept(s, S, kept))[Len(s)]
  BY DEF Filter, Kept
<1> QED
  BY <1>7, <1>8

LEMMA FilterOfNone ==
  ASSUME NEW S
  PROVE  Filter(<<>>, S) = <<>>
<1>1. <<>> \in Seq({}) /\ Len(<<>>) = 0
  OBVIOUS
<1>2. PICK kept : Kept(<<>>, S, kept) /\ Filter(<<>>, S) = kept[0]
  BY <1>1, FilterUnfolds
<1> QED
  BY <1>1, <1>2 DEF Kept

LEMMA FilterAppends ==
  ASSUME NEW E, NEW s \in Seq(E), NEW e \in E, NEW S
  PROVE  Filter(Append(s, e), S) =
           IF e \in S THEN Append(Filter(s, S), e) ELSE Filter(s, S)
<1> DEFINE N == Len(s)
           t == Append(s, e)
<1>1. N \in Nat /\ t \in Seq(E) /\ Len(t) = N + 1 /\ t[N + 1] = e
      /\ \A n \in 1 .. N : t[n] = s[n]
  OBVIOUS
<1>2. PICK f : Kept(s, S, f) /\ Filter(s, S) = f[N]
  BY FilterUnfolds
<1>3. PICK h : Kept(t, S, h) /\ Filter(t, S) = h[N + 1]
  BY <1>1, FilterUnfolds
<1> HIDE DEF t, N
<1> DEFINE T == {n \in Nat : n <= N => h[n] = f[n]}
<1>4. f = [n \in 0 .. N |->
             IF n = 0 THEN <<>>
             ELSE IF s[n] \in S THEN Append(f[n - 1], s[n]) ELSE f[n - 1]]
  BY <1>2 DEF Kept, N
<1>5. h = [n \in 0 .. N + 1 |->
             IF n = 0 THEN <<>>
             ELSE IF t[n] \in S THEN Append(h[n - 1], t[n]) ELSE h[n - 1]]
  BY <1>1, <1>3 DEF Kept
<1>6. 0 \in T
  BY <1>1, <1>4, <1>5
<1>7. ASSUME NEW n \in T PROVE n + 1 \in T
  <2> SUFFICES ASSUME n + 1 <= N PROVE h[n + 1] = f[n + 1]
    OBVIOUS
  <2>1. n + 1 \in 0 .. N + 1 /\ n + 1 \in 1 .. N /\ n + 1 \in 0 .. N /\ n + 1 # 0 /\ (n + 1) - 1 = n
    BY <1>1
  <2>2. h[n] = f[n] /\ t[n + 1] = s[n + 1]
    BY <1>1, <2>1
  <2>3. h[n + 1] = IF t[n + 1] \in S THEN Append(h[n], t[n + 1]) ELSE h[n]
    BY <1>5, <2>1
  <2>4. f[n + 1] = IF s[n + 1] \in S THEN Append(f[n], s[n + 1]) ELSE f[n]
    BY <1>4, <2>1
  <2> QED
    BY <2>2, <2>3, <2>4
<1>8. T \in SUBSET Nat
  OBVIOUS
<1> HIDE DEF T
<1>9. N \in T
  BY <1>1, <1>6, <1>7, <1>8, Induction
<1>10. h[N] = f[N]
  BY <1>1, <1>9 DEF T
<1>11. h[N + 1] = IF e \in S THEN Append(h[N], e) ELSE h[N]
  <2>1. N + 1 \in 0 .. N + 1 /\ N + 1 # 0 /\ (N + 1) - 1 = N
    BY <1>1
  <2> QED
    BY <1>1, <1>5, <2>1
<1> QED
  BY <1>2, <1>3, <1>10, <1>11 DEF t

LEMMA FilterType ==
  ASSUME NEW E, NEW s \in Seq(E), NEW S
  PROVE  Filter(s, S) \in Seq(E \cap S)
<1> DEFINE T == {u \in Seq(E) : Filter(u, S) \in Seq(E \cap S)}
<1>1. <<>> \in T
  <2>1. <<>> \in Seq(E) /\ <<>> \in Seq(E \cap S)
    OBVIOUS
  <2> QED
    BY <2>1, FilterOfNone
<1>2. ASSUME NEW u \in T, NEW e \in E PROVE Append(u, e) \in T
  <2>1. Filter(Append(u, e), S) =
          IF e \in S THEN Append(Filter(u, S), e) ELSE Filter(u, S)
    BY FilterAppends
  <2>2. \A v \in Seq(E \cap S) : e \in S => Append(v, e) \in Seq(E \cap S)
    OBVIOUS
  <2>3. Append(u, e) \in Seq(E) /\ Filter(u, S) \in Seq(E \cap S)
    OBVIOUS
  <2> QED
    BY <2>1, <2>2, <2>3
<1>3. T \in SUBSET Seq(E)
  OBVIOUS
<1> HIDE DEF T
<1>4. s \in T
  BY <1>1, <1>2, <1>3, ListInduction
<1> QED
  BY <1>4 DEF T

(* Filtering for R and then for S is filtering for both.                   *)
LEMMA FilterTwice ==
  ASSUME NEW E, NEW s \in Seq(E), NEW R, NEW S
  PROVE  Filter(Filter(s, R), S) = Filter(s, R \cap S)
<1> DEFINE T == {u \in Seq(E) : Filter(Filter(u, R), S) = Filter(u, R \cap S)}
<1>1. <<>> \in T
  BY FilterOfNone
<1>2. ASSUME NEW u \in T, NEW e \in E PROVE Append(u, e) \in T
  <2>1. Filter(Append(u, e), R) = IF e \in R THEN Append(Filter(u, R), e) ELSE Filter(u, R)
    BY FilterAppends
  <2>2. Filter(Append(u, e), R \cap S) =
          IF e \in R \cap S THEN Append(Filter(u, R \cap S), e) ELSE Filter(u, R \cap S)
    BY FilterAppends
  <2>3. Filter(u, R) \in Seq(E \cap R)
    BY FilterType
  <2>4. CASE e \in R
    <3> DEFINE D == E \cap R
               v == Filter(u, R)
    <3>1. v \in Seq(D) /\ e \in D
      BY <2>3, <2>4
    <3>2. Filter(Append(v, e), S) =
            IF e \in S THEN Append(Filter(v, S), e) ELSE Filter(v, S)
      <4> HIDE DEF D, v
      <4> QED
        BY <3>1, FilterAppends
    <3>3. Filter(v, S) = Filter(u, R \cap S) /\ Append(u, e) \in Seq(E)
      OBVIOUS
    <3>4. Filter(Filter(Append(u, e), R), S) = Filter(Append(u, e), R \cap S)
      <4>1. Filter(Append(u, e), R) = Append(v, e)
        BY <2>1, <2>4
      <4>2. e \in R \cap S <=> e \in S
        BY <2>4
      <4>3. Filter(Append(v, e), S) = Filter(Append(u, e), R \cap S)
        BY <2>2, <3>2, <3>3, <4>2
      <4> HIDE DEF v
      <4> QED
        BY <4>1, <4>3
    <3> QED
      BY <3>3, <3>4
  <2>5. CASE e \notin R
    BY <2>1, <2>2, <2>5
  <2> QED
    BY <2>4, <2>5
<1>3. T \in SUBSET Seq(E)
  OBVIOUS
<1> HIDE DEF T
<1>4. s \in T
  BY <1>1, <1>2, <1>3, ListInduction
<1> QED
  BY <1>4 DEF T

-----------------------------------------------------------------------------
(* The sum, element by element.                                            *)
Summed(s, sum) ==
  sum = [n \in 0 .. Len(s) |-> IF n = 0 THEN 0 ELSE sum[n - 1] + s[n]]

LEMMA SumUnfolds ==
  ASSUME NEW s \in Seq(Int)
  PROVE  \E sum \in [0 .. Len(s) -> Int] :
           Summed(s, sum) /\ SumOf(s) = (CHOOSE f : Summed(s, f))[Len(s)]
<1> DEFINE N == Len(s)
           A == Int
           base == 0
           step == [n \in 1 .. N |-> [t \in A |-> t + s[n]]]
<1>1. N \in Nat /\ \A n \in 1 .. N : s[n] \in Int
  OBVIOUS
<1>2. base \in A /\ step \in [1 .. N -> [A -> A]]
  BY <1>1
<1>3. \A t \in Int, n \in 1 .. N : step[n][t] = t + s[n]
  OBVIOUS
<1>4. \E g : Recurs(g, A, base, N, step)
  <2> HIDE DEF step, N, A, base
  <2> QED
    BY <1>1, <1>2, Recursion
<1>5. PICK g \in [0 .. N -> Int] :
        g[0] = 0 /\ \A n \in 1 .. N : g[n] = step[n][g[n - 1]]
  BY <1>4 DEF Recurs
<1>6. ASSUME NEW n \in 1 .. N PROVE g[n] = g[n - 1] + s[n]
  <2>1. n - 1 \in 0 .. N
    BY <1>1
  <2> QED
    BY <2>1, <1>3, <1>5
<1> HIDE DEF step
<1>7. Summed(s, g)
  <2> DEFINE body(n) == IF n = 0 THEN 0 ELSE g[n - 1] + s[n]
  <2>1. \A n \in 0 .. N : g[n] = body(n)
    <3>1. ASSUME NEW n \in 0 .. N PROVE n = 0 \/ (n # 0 /\ n \in 1 .. N)
      BY <1>1
    <3> QED
      BY <3>1, <1>5, <1>6
  <2>2. g = [n \in 0 .. N |-> g[n]]
    BY <1>5
  <2> HIDE DEF body
  <2>3. g = [n \in 0 .. N |-> body(n)]
    BY <2>1, <2>2
  <2> QED
    BY <2>3 DEF Summed, body
<1>8. SumOf(s) = (CHOOSE f : Summed(s, f))[Len(s)]
  BY DEF SumOf, Summed
<1> QED
  BY <1>5, <1>7, <1>8

(* No other function satisfies it, so that the sum is a value of any such. *)
LEMMA SumIsUnique ==
  ASSUME NEW s \in Seq(Int), NEW m \in Nat, m <= Len(s),
         NEW t \in Seq(Int), m <= Len(t), \A n \in 1 .. m : t[n] = s[n],
         NEW f, Summed(s, f), NEW h, Summed(t, h)
  PROVE  h[m] = f[m]
<1> DEFINE T == {n \in Nat : n <= m => h[n] = f[n]}
<1>1. Len(s) \in Nat /\ Len(t) \in Nat
  OBVIOUS
<1>2. f = [n \in 0 .. Len(s) |-> IF n = 0 THEN 0 ELSE f[n - 1] + s[n]]
  BY DEF Summed
<1>3. h = [n \in 0 .. Len(t) |-> IF n = 0 THEN 0 ELSE h[n - 1] + t[n]]
  BY DEF Summed
<1>4. 0 \in T
  BY <1>1, <1>2, <1>3
<1>5. ASSUME NEW n \in T PROVE n + 1 \in T
  <2> SUFFICES ASSUME n + 1 <= m PROVE h[n + 1] = f[n + 1]
    OBVIOUS
  <2>1. /\ n + 1 \in 0 .. Len(s) /\ n + 1 \in 0 .. Len(t)
        /\ n + 1 \in 1 .. m /\ n + 1 # 0 /\ (n + 1) - 1 = n
    BY <1>1
  <2>2. h[n] = f[n] /\ t[n + 1] = s[n + 1]
    BY <1>1, <2>1
  <2>3. h[n + 1] = h[n] + t[n + 1] /\ f[n + 1] = f[n] + s[n + 1]
    BY <1>2, <1>3, <2>1
  <2> QED
    BY <2>2, <2>3
<1>6. T \in SUBSET Nat
  OBVIOUS
<1> HIDE DEF T
<1>7. m \in T
  BY <1>4, <1>5, <1>6, Induction
<1> QED
  BY <1>7 DEF T

(* The sum of a list: of none, of one more, and its type.                  *)
LEMMA SumOfNone == SumOf(<<>>) = 0
<1>1. <<>> \in Seq(Int) /\ Len(<<>>) = 0
  OBVIOUS
<1>2. PICK sum : Summed(<<>>, sum) /\ SumOf(<<>>) = (CHOOSE f : Summed(<<>>, f))[0]
  BY <1>1, SumUnfolds
<1>3. Summed(<<>>, CHOOSE f : Summed(<<>>, f))
  BY <1>2
<1> QED
  BY <1>1, <1>2, <1>3 DEF Summed

LEMMA SumType ==
  ASSUME NEW s \in Seq(Int)
  PROVE  SumOf(s) \in Int
<1>1. PICK sum \in [0 .. Len(s) -> Int] :
        Summed(s, sum) /\ SumOf(s) = (CHOOSE f : Summed(s, f))[Len(s)]
  BY SumUnfolds
<1> DEFINE g == CHOOSE f : Summed(s, f)
<1>2. Summed(s, g)
  BY <1>1
<1>3. Len(s) \in Nat /\ Len(s) <= Len(s) /\ \A n \in 1 .. Len(s) : s[n] = s[n]
  OBVIOUS
<1> HIDE DEF g
<1>4. g[Len(s)] = sum[Len(s)]
  BY <1>1, <1>2, <1>3, SumIsUnique
<1>5. sum[Len(s)] \in Int
  BY <1>1, <1>3
<1> QED
  BY <1>1, <1>4, <1>5 DEF g

LEMMA SumAppends ==
  ASSUME NEW s \in Seq(Int), NEW x \in Int
  PROVE  SumOf(Append(s, x)) = SumOf(s) + x
<1> DEFINE N == Len(s)
           t == Append(s, x)
           f == CHOOSE k : Summed(s, k)
           h == CHOOSE k : Summed(t, k)
<1>1. N \in Nat /\ t \in Seq(Int) /\ Len(t) = N + 1 /\ t[N + 1] = x
      /\ \A n \in 1 .. N : t[n] = s[n]
  OBVIOUS
<1> HIDE DEF t
<1>2. Summed(s, f) /\ SumOf(s) = f[N]
  <2>1. PICK sum : Summed(s, sum) /\ SumOf(s) = (CHOOSE k : Summed(s, k))[N]
    BY SumUnfolds
  <2> QED
    BY <2>1
<1>3. Summed(t, h) /\ SumOf(t) = h[N + 1]
  <2>1. PICK sum : Summed(t, sum) /\ SumOf(t) = (CHOOSE k : Summed(t, k))[N + 1]
    BY <1>1, SumUnfolds
  <2> QED
    BY <2>1
<1> HIDE DEF f, h
<1>4. h[N] = f[N]
  <2>1. N <= Len(s) /\ N <= Len(t)
    BY <1>1
  <2> HIDE DEF N
  <2> QED
    BY <1>1, <1>2, <1>3, <2>1, SumIsUnique
<1>5. h[N + 1] = h[N] + x
  <2>1. N + 1 \in 0 .. N + 1 /\ N + 1 # 0 /\ (N + 1) - 1 = N
    BY <1>1
  <2>2. h = [n \in 0 .. N + 1 |-> IF n = 0 THEN 0 ELSE h[n - 1] + t[n]]
    BY <1>1, <1>3 DEF Summed
  <2> QED
    BY <1>1, <2>1, <2>2
<1> QED
  BY <1>2, <1>3, <1>4, <1>5 DEF t

-----------------------------------------------------------------------------
(* What two disjoint conditions keep adds up.                              *)
LEMMA FilterSplits ==
  ASSUME NEW E, NEW s \in Seq(E), NEW R, NEW S, R \cap S = {}
  PROVE  Len(Filter(s, R \cup S)) = Len(Filter(s, R)) + Len(Filter(s, S))
<1> DEFINE T == {u \in Seq(E) : Len(Filter(u, R \cup S)) = Len(Filter(u, R)) + Len(Filter(u, S))}
<1>1. <<>> \in T
  <2>1. <<>> \in Seq(E) /\ Len(<<>>) = 0
    OBVIOUS
  <2> QED
    BY <2>1, FilterOfNone
<1>2. ASSUME NEW u \in T, NEW e \in E PROVE Append(u, e) \in T
  <2>1. /\ Filter(Append(u, e), R \cup S)
             = IF e \in R \cup S THEN Append(Filter(u, R \cup S), e) ELSE Filter(u, R \cup S)
        /\ Filter(Append(u, e), R) = IF e \in R THEN Append(Filter(u, R), e) ELSE Filter(u, R)
        /\ Filter(Append(u, e), S) = IF e \in S THEN Append(Filter(u, S), e) ELSE Filter(u, S)
    BY FilterAppends
  <2>2. \A t \in Seq(E) : Len(Append(t, e)) = Len(t) + 1 /\ Len(t) \in Nat
    OBVIOUS
  <2>3. /\ Filter(u, R \cup S) \in Seq(E \cap (R \cup S))
        /\ Filter(u, R) \in Seq(E \cap R) /\ Filter(u, S) \in Seq(E \cap S)
    BY FilterType
  <2>4. Filter(u, R \cup S) \in Seq(E) /\ Filter(u, R) \in Seq(E) /\ Filter(u, S) \in Seq(E)
    BY <2>3
  <2>5. Append(u, e) \in Seq(E)
    OBVIOUS
  <2>6. Len(Filter(u, R \cup S)) = Len(Filter(u, R)) + Len(Filter(u, S))
    OBVIOUS
  <2>7. Len(Filter(Append(u, e), R \cup S))
          = Len(Filter(Append(u, e), R)) + Len(Filter(Append(u, e), S))
    <3> DEFINE a == Filter(u, R \cup S)
               b == Filter(u, R)
               c == Filter(u, S)
    <3>1. /\ Len(a) \in Nat /\ Len(Append(a, e)) = Len(a) + 1
          /\ Len(b) \in Nat /\ Len(Append(b, e)) = Len(b) + 1
          /\ Len(c) \in Nat /\ Len(Append(c, e)) = Len(c) + 1
      BY <2>2, <2>4
    <3>2. e \in R \cup S <=> e \in R \/ e \in S
      OBVIOUS
    <3>3. ~(e \in R /\ e \in S)
      OBVIOUS
    <3>4. Len(a) = Len(b) + Len(c)
      BY <2>6
    <3>5. /\ Filter(Append(u, e), R \cup S) = IF e \in R \cup S THEN Append(a, e) ELSE a
          /\ Filter(Append(u, e), R) = IF e \in R THEN Append(b, e) ELSE b
          /\ Filter(Append(u, e), S) = IF e \in S THEN Append(c, e) ELSE c
      BY <2>1
    <3> HIDE DEF a, b, c, T
    <3>6. CASE e \in R
      <4>1. /\ Filter(Append(u, e), R \cup S) = Append(a, e)
            /\ Filter(Append(u, e), R) = Append(b, e)
            /\ Filter(Append(u, e), S) = c
        BY <3>2, <3>3, <3>5, <3>6
      <4> QED
        BY <3>1, <3>4, <4>1
    <3>7. CASE e \in S
      <4>1. /\ Filter(Append(u, e), R \cup S) = Append(a, e)
            /\ Filter(Append(u, e), R) = b
            /\ Filter(Append(u, e), S) = Append(c, e)
        BY <3>2, <3>3, <3>5, <3>7
      <4> QED
        BY <3>1, <3>4, <4>1
    <3>8. CASE e \notin R /\ e \notin S
      <4>1. /\ Filter(Append(u, e), R \cup S) = a
            /\ Filter(Append(u, e), R) = b
            /\ Filter(Append(u, e), S) = c
        BY <3>2, <3>5, <3>8
      <4> QED
        BY <3>4, <4>1
    <3> QED
      BY <3>6, <3>7, <3>8
  <2> QED
    BY <2>5, <2>7
<1>3. T \in SUBSET Seq(E)
  OBVIOUS
<1> HIDE DEF T
<1>4. T = Seq(E)
  BY <1>1, <1>2, <1>3, ListInduction
<1> QED
  BY <1>4 DEF T

(* Conditions that agree on a list keep the same of it.                    *)
LEMMA FilterAgrees ==
  ASSUME NEW E, NEW s \in Seq(E), NEW R, NEW S,
         \A i \in 1 .. Len(s) : s[i] \in R <=> s[i] \in S
  PROVE  Filter(s, R) = Filter(s, S)
<1> DEFINE T == {u \in Seq(E) :
                   (\A i \in 1 .. Len(u) : u[i] \in R <=> u[i] \in S)
                     => Filter(u, R) = Filter(u, S)}
<1>1. <<>> \in T
  <2>1. <<>> \in Seq(E)
    OBVIOUS
  <2> QED
    BY <2>1, FilterOfNone
<1>2. ASSUME NEW u \in T, NEW e \in E PROVE Append(u, e) \in T
  <2>1. Append(u, e) \in Seq(E)
    OBVIOUS
  <2>2. ASSUME \A i \in 1 .. Len(Append(u, e)) : Append(u, e)[i] \in R <=> Append(u, e)[i] \in S
        PROVE  Filter(Append(u, e), R) = Filter(Append(u, e), S)
    <3>1. Len(Append(u, e)) = Len(u) + 1 /\ Len(u) \in Nat /\ Append(u, e)[Len(u) + 1] = e
          /\ \A i \in 1 .. Len(u) : Append(u, e)[i] = u[i]
      OBVIOUS
    <3>2. (e \in R <=> e \in S) /\ \A i \in 1 .. Len(u) : u[i] \in R <=> u[i] \in S
      BY <2>2, <3>1
    <3>3. Filter(u, R) = Filter(u, S)
      BY <3>2
    <3>4. /\ Filter(Append(u, e), R) = IF e \in R THEN Append(Filter(u, R), e) ELSE Filter(u, R)
          /\ Filter(Append(u, e), S) = IF e \in S THEN Append(Filter(u, S), e) ELSE Filter(u, S)
      BY FilterAppends
    <3> QED
      BY <3>2, <3>3, <3>4
  <2> QED
    BY <2>1, <2>2
<1>3. T \in SUBSET Seq(E)
  OBVIOUS
<1> HIDE DEF T
<1>4. T = Seq(E)
  BY <1>1, <1>2, <1>3, ListInduction
<1> QED
  BY <1>4 DEF T

(* An element that is not in a list leaves nothing of it.                  *)
LEMMA FilterMisses ==
  ASSUME NEW E, NEW s \in Seq(E), NEW x, \A i \in 1 .. Len(s) : s[i] # x
  PROVE  Filter(s, {x}) = <<>>
<1>1. Filter(s, {x}) = Filter(s, {})
  BY FilterAgrees
<1>2. Filter(s, {}) \in Seq(E \cap {})
  BY FilterType
<1>3. \A t \in Seq({}) : t = <<>>
  OBVIOUS
<1> QED
  BY <1>1, <1>2, <1>3

(* The last f elements of a list.                                          *)
Newest(s, f) == {s[i] : i \in {k \in 1 .. Len(s) : k > Len(s) - f}}

LEMMA NewestAppends ==
  ASSUME NEW E, NEW s \in Seq(E), NEW e, NEW f \in Int
  PROVE  Newest(Append(s, e), f) = Newest(s, f - 1) \cup (IF f > 0 THEN {e} ELSE {})
<1> DEFINE n == Len(s)
           t == Append(s, e)
<1>1. n \in Nat /\ Len(t) = n + 1 /\ t[n + 1] = e /\ \A i \in 1 .. n : t[i] = s[i]
  OBVIOUS
<1> HIDE DEF t
<1>2. ASSUME NEW x \in Newest(t, f)
      PROVE  x \in Newest(s, f - 1) \cup (IF f > 0 THEN {e} ELSE {})
  <2>1. PICK i \in 1 .. n + 1 : i > n + 1 - f /\ x = t[i]
    BY <1>1 DEF Newest
  <2>2. CASE i = n + 1
    BY <1>1, <2>1, <2>2
  <2>3. CASE i # n + 1
    <3>1. i \in 1 .. n /\ i > n - (f - 1) /\ x = s[i]
      BY <1>1, <2>1, <2>3
    <3> QED
      BY <3>1 DEF Newest
  <2> QED
    BY <2>2, <2>3
<1>3. ASSUME NEW x \in Newest(s, f - 1)
      PROVE  x \in Newest(t, f)
  <2>1. PICK i \in 1 .. n : i > n - (f - 1) /\ x = s[i]
    BY DEF Newest
  <2>2. i \in 1 .. n + 1 /\ i > n + 1 - f /\ x = t[i]
    BY <1>1, <2>1
  <2> QED
    BY <1>1, <2>2 DEF Newest
<1>4. f > 0 => e \in Newest(t, f)
  <2>1. f > 0 => n + 1 \in 1 .. n + 1 /\ n + 1 > n + 1 - f
    BY <1>1
  <2> QED
    BY <1>1, <2>1 DEF Newest
<1> QED
  BY <1>2, <1>3, <1>4 DEF t

LEMMA NewestGrows ==
  ASSUME NEW E, NEW s \in Seq(E), NEW f \in Int, NEW g \in Int, f <= g
  PROVE  Newest(s, f) \subseteq Newest(s, g)
<1> SUFFICES ASSUME NEW x \in Newest(s, f) PROVE x \in Newest(s, g)
  OBVIOUS
<1>1. PICK i \in 1 .. Len(s) : i > Len(s) - f /\ x = s[i]
  BY DEF Newest
<1>2. i > Len(s) - g
  BY <1>1
<1> QED
  BY <1>1, <1>2 DEF Newest

(* One place more holds one element more.                                  *)
LEMMA NewestOneMore ==
  ASSUME NEW E, NEW s \in Seq(E), NEW f \in Int
  PROVE  Newest(s, f + 1) \subseteq Newest(s, f) \cup {s[Len(s) - f]}
<1> SUFFICES ASSUME NEW x \in Newest(s, f + 1), x # s[Len(s) - f] PROVE x \in Newest(s, f)
  OBVIOUS
<1>1. PICK i \in 1 .. Len(s) : i > Len(s) - (f + 1) /\ x = s[i]
  BY DEF Newest
<1>2. i > Len(s) - f
  BY <1>1
<1> QED
  BY <1>1, <1>2 DEF Newest

(* The last elements that a filter keeps are among the last of all, as     *)
(* many further back as it has left out.                                   *)
LEMMA NewestOfFilter ==
  ASSUME NEW E, NEW s \in Seq(E), NEW S, NEW f \in Int
  PROVE  /\ Len(Filter(s, S)) <= Len(s)
         /\ Newest(Filter(s, S), f) \subseteq Newest(s, f + Len(s) - Len(Filter(s, S)))
<1> DEFINE T == {u \in Seq(E) :
                   /\ Len(Filter(u, S)) <= Len(u)
                   /\ \A g \in Int :
                        Newest(Filter(u, S), g)
                          \subseteq Newest(u, g + Len(u) - Len(Filter(u, S)))}
<1>1. <<>> \in T
  <2>1. <<>> \in Seq(E) /\ Len(<<>>) = 0 /\ \A g : Newest(<<>>, g) = {}
    BY DEF Newest
  <2> QED
    BY <2>1, FilterOfNone
<1>2. ASSUME NEW u \in T, NEW e \in E PROVE Append(u, e) \in T
  <2> DEFINE n == Len(u)
             v == Filter(u, S)
             m == Len(v)
  <2>1. Append(u, e) \in Seq(E) /\ Len(Append(u, e)) = n + 1 /\ n \in Nat /\ u \in Seq(E)
    OBVIOUS
  <2>2. v \in Seq(E)
    <3>1. v \in Seq(E \cap S)
      BY FilterType
    <3> QED
      BY <3>1
  <2>3. m \in Nat /\ Len(Append(v, e)) = m + 1
    BY <2>2
  <2>4. m <= n /\ \A g \in Int : Newest(v, g) \subseteq Newest(u, g + n - m)
    OBVIOUS
  <2>5. Filter(Append(u, e), S) = IF e \in S THEN Append(v, e) ELSE v
    BY FilterAppends
  <2> HIDE DEF n, v, m
  <2>6. ASSUME NEW g \in Int, e \in S
        PROVE  Newest(Append(v, e), g) \subseteq Newest(Append(u, e), g + (n + 1) - (m + 1))
    <3>1. Newest(Append(v, e), g) = Newest(v, g - 1) \cup (IF g > 0 THEN {e} ELSE {})
      BY <2>2, NewestAppends
    <3>2. g + n - m \in Int /\ g + (n + 1) - (m + 1) = g + n - m
          /\ (g - 1) + n - m = (g + n - m) - 1 /\ (g > 0 => g + n - m > 0)
      BY <2>1, <2>3, <2>4
    <3>3. Newest(Append(u, e), g + n - m)
            = Newest(u, (g + n - m) - 1) \cup (IF g + n - m > 0 THEN {e} ELSE {})
      BY <2>1, <3>2, NewestAppends
    <3>4. Newest(v, g - 1) \subseteq Newest(u, (g + n - m) - 1)
      BY <2>4, <3>2
    <3> QED
      BY <3>1, <3>2, <3>3, <3>4
  <2>7. ASSUME NEW g \in Int
        PROVE  Newest(v, g) \subseteq Newest(Append(u, e), g + (n + 1) - m)
    <3>1. g + (n + 1) - m \in Int /\ (g + (n + 1) - m) - 1 = g + n - m
      BY <2>1, <2>3
    <3>2. Newest(u, g + n - m) \subseteq Newest(Append(u, e), g + (n + 1) - m)
      BY <2>1, <3>1, NewestAppends
    <3> QED
      BY <2>4, <3>2
  <2>8. CASE e \in S
    <3>1. Filter(Append(u, e), S) = Append(v, e) /\ m + 1 <= n + 1
      BY <2>1, <2>3, <2>4, <2>5, <2>8
    <3> QED
      BY <2>1, <2>3, <2>6, <2>8, <3>1
  <2>9. CASE e \notin S
    <3>1. Filter(Append(u, e), S) = v /\ m <= n + 1
      BY <2>1, <2>3, <2>4, <2>5, <2>9
    <3> QED
      BY <2>1, <2>7, <3>1 DEF m
  <2> QED
    BY <2>8, <2>9
<1>3. T \in SUBSET Seq(E)
  OBVIOUS
<1> HIDE DEF T
<1>4. T = Seq(E)
  BY <1>1, <1>2, <1>3, ListInduction
<1> QED
  BY <1>4 DEF T
=============================================================================
