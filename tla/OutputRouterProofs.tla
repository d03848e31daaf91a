-------------------------- MODULE OutputRouterProofs --------------------------
(* Theorems about OutputRouter, for every value of its constants: what is    *)
(* printed reaches the front end whole and in its place.                     *)
EXTENDS OutputRouter, SequenceTheorems, WellFoundedInduction, TLAPS

-----------------------------------------------------------------------------
(* Induction over numbers and over sequences, as facts about sets.           *)

LEMMA LeastElement ==
  ASSUME NEW T \in SUBSET Nat, T # {}
  PROVE  Least(T) \in T /\ \A n \in T : Least(T) <= n
<1> DEFINE R == {ss \in Nat \X Nat : ss[1] < ss[2]}
<1>1. IsWellFoundedOn(R, Nat)
  BY NatLessThanWellFounded DEF OpToRel
<1>2. \A x, y \in Nat : x < y => <<x, y>> \in R
  OBVIOUS
<1> HIDE DEF R
<1>3. PICK x \in T : \A y \in T : <<y, x>> \notin R
  BY <1>1, WFMin
<1>4. ASSUME NEW n \in T PROVE x <= n
  <2>1. x \in Nat /\ n \in Nat /\ ~(n < x)
    BY <1>2, <1>3
  <2> QED BY <2>1
<1>5. \E m \in T : \A n \in T : m <= n
  BY <1>4
<1> QED BY <1>5 DEF Least

LEMMA InductionOnNat ==
  ASSUME NEW S, 0 \in S, \A n \in Nat : n \in S => n + 1 \in S
  PROVE  Nat \subseteq S
<1>1. SUFFICES ASSUME Nat \ S # {} PROVE FALSE
  OBVIOUS
<1>2. PICK m \in Nat \ S : \A n \in Nat \ S : m <= n
  BY <1>1, LeastElement
<1>3. m # 0 /\ m - 1 \in Nat /\ m - 1 \in S
  BY <1>2
<1> QED BY <1>2, <1>3

(* A sequence that is not empty is a shorter one and its last element.       *)
LEMMA ShorterAndLast ==
  ASSUME NEW T, NEW s \in Seq(T), NEW n \in Nat, Len(s) = n + 1
  PROVE  /\ SubSeq(s, 1, n) \in Seq(T) /\ Len(SubSeq(s, 1, n)) = n
         /\ s[n + 1] \in T /\ s = Append(SubSeq(s, 1, n), s[n + 1])
<1> DEFINE t == SubSeq(s, 1, n)
<1>1. \A i \in 1 .. n + 1 : s[i] \in T
  OBVIOUS
<1>2. t \in Seq(T) /\ Len(t) = n /\ \A i \in 1 .. n : t[i] = s[i]
  BY <1>1
<1> HIDE DEF t
<1>3. s = Append(t, s[n + 1])
  BY <1>1, <1>2
<1> QED BY <1>1, <1>2, <1>3 DEF t

LEMMA InductionOnSeq ==
  ASSUME NEW T, NEW P, <<>> \in P, \A s \in Seq(T) : \A x \in T : s \in P => Append(s, x) \in P
  PROVE  Seq(T) \subseteq P
<1> DEFINE S == {n \in Nat : \A s \in Seq(T) : Len(s) = n => s \in P}
<1>1. 0 \in S
  <2>1. \A s \in Seq(T) : Len(s) = 0 => s = <<>>
    BY EmptySeq
  <2> QED BY <2>1
<1>2. ASSUME NEW n \in Nat, n \in S PROVE n + 1 \in S
  <2>1. ASSUME NEW s \in Seq(T), Len(s) = n + 1 PROVE s \in P
    <3>1. /\ SubSeq(s, 1, n) \in Seq(T) /\ Len(SubSeq(s, 1, n)) = n
          /\ s[n + 1] \in T /\ s = Append(SubSeq(s, 1, n), s[n + 1])
      BY <2>1, ShorterAndLast
    <3>2. SubSeq(s, 1, n) \in P
      BY <1>2, <3>1
    <3> QED BY <3>1, <3>2
  <2> QED BY <2>1
<1>3. Nat \subseteq S
  BY <1>1, <1>2, InductionOnNat
<1>4. ASSUME NEW s \in Seq(T) PROVE s \in P
  <2>1. Len(s) \in Nat
    BY LenProperties
  <2> QED BY <1>3, <2>1
<1> QED BY <1>4

-----------------------------------------------------------------------------
(* FlattenSeq is the recursive function it is written as.                    *)

LEMMA FlattenIsFunction ==
  ASSUME NEW s, NEW n \in Nat, Len(s) = n, n # 0
  PROVE  \E f : /\ \A i \in 1 .. n : f[i] = IF i = 1 THEN s[i] ELSE f[i - 1] \o s[i]
                /\ FlattenSeq(s) = f[n]
<1> DEFINE Is(f) == f = [i \in 1 .. n |-> IF i = 1 THEN s[i] ELSE f[i - 1] \o s[i]]
           F == CHOOSE f : Is(f)
           Upto(g, m) == \A i \in 1 .. m : g[i] = IF i = 1 THEN s[i] ELSE g[i - 1] \o s[i]
           S == {m \in Nat : \E g : Upto(g, m)}
<1>1. 0 \in S
  OBVIOUS
<1>2. ASSUME NEW m \in Nat, m \in S PROVE m + 1 \in S
  <2>1. PICK g : Upto(g, m)
    BY <1>2
  <2> DEFINE next == IF m + 1 = 1 THEN s[m + 1] ELSE g[m] \o s[m + 1]
             h == [i \in 1 .. m + 1 |-> IF i = m + 1 THEN next ELSE g[i]]
  <2>2. \A i \in 1 .. m + 1 : h[i] = IF i = m + 1 THEN next ELSE g[i]
    OBVIOUS
  <2> HIDE DEF h
  <2>3. ASSUME NEW i \in 1 .. m + 1 PROVE h[i] = IF i = 1 THEN s[i] ELSE h[i - 1] \o s[i]
    <3>1. CASE i = m + 1
      <4>1. m + 1 # 1 => m \in 1 .. m + 1 /\ m # m + 1 /\ (m + 1) - 1 = m
        OBVIOUS
      <4>2. m + 1 # 1 => h[m] = g[m]
        BY <2>2, <4>1
      <4>3. h[m + 1] = next
        BY <2>2
      <4> QED BY <3>1, <4>1, <4>2, <4>3
    <3>2. CASE i # m + 1
      <4>1. i \in 1 .. m /\ (i # 1 => i - 1 \in 1 .. m + 1 /\ i - 1 # m + 1)
        BY <3>2
      <4>2. h[i] = g[i] /\ (i # 1 => h[i - 1] = g[i - 1])
        BY <2>2, <3>2, <4>1
      <4> QED BY <2>1, <4>1, <4>2
    <3> QED BY <3>1, <3>2
  <2>4. Upto(h, m + 1)
    BY <2>3
  <2> QED BY <2>4
<1>3. n \in S
  BY <1>1, <1>2, InductionOnNat
<1>4. PICK g : Upto(g, n)
  BY <1>3
<1> DEFINE f == [i \in 1 .. n |-> g[i]]
<1>5. Is(f)
  <2>1. \A i \in 1 .. n : f[i] = IF i = 1 THEN s[i] ELSE f[i - 1] \o s[i]
    <3> TAKE i \in 1 .. n
    <3>1. i # 1 => i - 1 \in 1 .. n
      OBVIOUS
    <3> QED BY <1>4, <3>1
  <2>2. f = [i \in 1 .. n |-> f[i]]
    OBVIOUS
  <2> HIDE DEF f
  <2> QED BY <2>1, <2>2
<1>6. FlattenSeq(s) = F[n]
  BY DEF FlattenSeq
<1> HIDE DEF Is, f
<1>7. Is(F)
  BY <1>5
<1> HIDE DEF F
<1>8. \A i \in 1 .. n : F[i] = IF i = 1 THEN s[i] ELSE F[i - 1] \o s[i]
  BY <1>7 DEF Is
<1> QED BY <1>6, <1>8

LEMMA FlattenNothing == FlattenSeq(<<>>) = <<>>
BY DEF FlattenSeq

LEMMA FlattenAppend ==
  ASSUME NEW T, NEW s \in Seq(Seq(T)), NEW x \in Seq(T)
  PROVE  FlattenSeq(Append(s, x)) = FlattenSeq(s) \o x
<1> DEFINE t == Append(s, x)
           n == Len(s)
<1>1. /\ n \in Nat /\ t \in Seq(Seq(T)) /\ Len(t) = n + 1
      /\ t[n + 1] = x /\ \A i \in 1 .. n : t[i] = s[i]
  BY AppendProperties, LenProperties
<1> HIDE DEF t
<1>2. PICK g : /\ \A i \in 1 .. n + 1 : g[i] = IF i = 1 THEN t[i] ELSE g[i - 1] \o t[i]
               /\ FlattenSeq(t) = g[n + 1]
  <2> DEFINE N == n + 1
  <2>1. N \in Nat /\ N # 0 /\ Len(t) = N
    BY <1>1
  <2> HIDE DEF N
  <2>2. \E g : /\ \A i \in 1 .. N : g[i] = IF i = 1 THEN t[i] ELSE g[i - 1] \o t[i]
               /\ FlattenSeq(t) = g[N]
    BY <2>1, FlattenIsFunction
  <2> QED BY <2>2 DEF N
<1>3. CASE n = 0
  <2>1. s = <<>> /\ FlattenSeq(s) = <<>>
    BY <1>3, EmptySeq, FlattenNothing
  <2>2. FlattenSeq(t) = x
    BY <1>1, <1>2, <1>3
  <2>3. <<>> \o x = x
    OBVIOUS
  <2> QED BY <2>1, <2>2, <2>3 DEF t
<1>4. CASE n # 0
  <2>1. PICK f : /\ \A i \in 1 .. n : f[i] = IF i = 1 THEN s[i] ELSE f[i - 1] \o s[i]
                 /\ FlattenSeq(s) = f[n]
    BY <1>1, <1>4, FlattenIsFunction
  <2> DEFINE S == {m \in Nat : m \in 1 .. n => f[m] = g[m]}
  <2> HIDE DEF n
  <2>2. 0 \in S
    OBVIOUS
  <2>3. ASSUME NEW m \in Nat, m \in S PROVE m + 1 \in S
    <3>1. SUFFICES ASSUME m + 1 \in 1 .. n PROVE f[m + 1] = g[m + 1]
      OBVIOUS
    <3>2. /\ m + 1 \in 1 .. n + 1 /\ (m + 1) - 1 = m /\ t[m + 1] = s[m + 1]
          /\ m = 0 \/ m \in 1 .. n
      BY <1>1, <3>1
    <3>3. CASE m = 0
      BY <1>2, <2>1, <3>1, <3>2, <3>3
    <3>4. CASE m # 0
      <4>1. f[m] = g[m] /\ m + 1 # 1
        BY <2>3, <3>2, <3>4
      <4>2. f[m + 1] = f[m] \o s[m + 1]
        BY <2>1, <3>1, <3>2, <4>1
      <4>3. g[m + 1] = g[m] \o t[m + 1]
        BY <1>2, <3>2, <4>1
      <4> QED BY <3>2, <4>1, <4>2, <4>3
    <3> QED BY <3>3, <3>4
  <2>4. n \in S
    BY <1>1, <2>2, <2>3, InductionOnNat
  <2>5. f[n] = g[n]
    BY <1>1, <1>4, <2>4
  <2>6. /\ n + 1 \in 1 .. n + 1 /\ n + 1 # 1 /\ (n + 1) - 1 = n
    BY <1>1, <1>4
  <2>7. g[n + 1] = g[n] \o t[n + 1]
    BY <1>2, <2>6
  <2> QED BY <1>1, <1>2, <2>1, <2>5, <2>7 DEF t
<1> QED BY <1>3, <1>4

-----------------------------------------------------------------------------
(* The sequences that m gives for the elements of s, one after the other.    *)
Spread(m, s) == FlattenSeq([k \in DOMAIN s |-> m[s[k]]])

LEMMA SpreadNothing == \A m : Spread(m, <<>>) = <<>>
<1> TAKE m
<1>1. [k \in DOMAIN <<>> |-> m[<<>>[k]]] = <<>>
  OBVIOUS
<1> QED BY <1>1, FlattenNothing DEF Spread

LEMMA SpreadAppend ==
  ASSUME NEW A, NEW T, NEW m \in [A -> Seq(T)], NEW s \in Seq(A), NEW x \in A
  PROVE  Spread(m, Append(s, x)) = Spread(m, s) \o m[x]
<1> DEFINE p == [k \in DOMAIN s |-> m[s[k]]]
           t == Append(s, x)
           q == [k \in DOMAIN t |-> m[t[k]]]
<1>1. /\ t \in Seq(A) /\ Len(t) = Len(s) + 1 /\ t[Len(s) + 1] = x
      /\ \A i \in 1 .. Len(s) : t[i] = s[i]
      /\ Len(s) \in Nat /\ DOMAIN s = 1 .. Len(s) /\ DOMAIN t = 1 .. Len(s) + 1
  BY AppendProperties, LenProperties
<1> HIDE DEF t
<1>2. \A i \in 1 .. Len(s) : s[i] \in A /\ m[s[i]] \in Seq(T)
  OBVIOUS
<1>3. p \in Seq(Seq(T)) /\ Len(p) = Len(s) /\ \A i \in 1 .. Len(s) : p[i] = m[s[i]]
  BY <1>1, <1>2
<1>4. m[x] \in Seq(T)
  OBVIOUS
<1> DEFINE r == Append(p, m[x])
<1>5. r \in Seq(Seq(T)) /\ Len(r) = Len(s) + 1 /\ r[Len(s) + 1] = m[x]
      /\ \A i \in 1 .. Len(s) : r[i] = p[i]
  <2> HIDE DEF p
  <2> QED BY <1>3, <1>4, AppendProperties
<1>6. q = r
  <2>1. \A i \in 1 .. Len(s) + 1 : q[i] = m[t[i]]
    BY <1>1
  <2>2. q \in Seq(Seq(T)) /\ Len(q) = Len(s) + 1
    <3>1. \A i \in 1 .. Len(s) + 1 : t[i] \in A
      BY <1>1
    <3> QED BY <1>1, <3>1
  <2> HIDE DEF p, q, r
  <2>3. \A i \in 1 .. Len(s) + 1 : q[i] = r[i]
    <3> TAKE i \in 1 .. Len(s) + 1
    <3>1. CASE i = Len(s) + 1
      BY <1>1, <1>5, <2>1, <3>1
    <3>2. CASE i \in 1 .. Len(s)
      <4>1. q[i] = m[t[i]]
        BY <2>1
      <4>2. t[i] = s[i]
        BY <1>1, <3>2
      <4>3. r[i] = p[i]
        BY <1>5, <3>2
      <4>4. p[i] = m[s[i]]
        BY <1>3, <3>2
      <4> QED BY <4>1, <4>2, <4>3, <4>4
    <3> QED BY <1>1, <3>1, <3>2
  <2> QED BY <1>5, <2>2, <2>3, SeqEqual
<1> HIDE DEF p, q, r
<1>7. FlattenSeq(r) = FlattenSeq(p) \o m[x]
  BY <1>3, <1>4, FlattenAppend DEF r
<1> QED BY <1>6, <1>7 DEF Spread, p, q, t

LEMMA SpreadType ==
  ASSUME NEW A, NEW T, NEW m \in [A -> Seq(T)], NEW s \in Seq(A)
  PROVE  Spread(m, s) \in Seq(T)
<1> DEFINE P == {u \in Seq(A) : Spread(m, u) \in Seq(T)}
<1>1. <<>> \in P
  <2>1. <<>> \in Seq(A) /\ <<>> \in Seq(T)
    BY EmptySeq
  <2> QED BY <2>1, SpreadNothing
<1>2. ASSUME NEW u \in Seq(A), NEW x \in A, u \in P PROVE Append(u, x) \in P
  <2>1. Append(u, x) \in Seq(A) /\ m[x] \in Seq(T) /\ Spread(m, u) \in Seq(T)
    BY <1>2, AppendProperties
  <2>2. Spread(m, Append(u, x)) = Spread(m, u) \o m[x]
    BY SpreadAppend
  <2>3. Spread(m, u) \o m[x] \in Seq(T)
    BY <2>1, ConcatProperties
  <2> QED BY <2>1, <2>2, <2>3
<1> HIDE DEF P
<1>3. s \in P
  BY <1>1, <1>2, InductionOnSeq
<1> QED BY <1>3 DEF P

LEMMA SpreadConcat ==
  ASSUME NEW A, NEW T, NEW m \in [A -> Seq(T)], NEW s \in Seq(A), NEW t \in Seq(A)
  PROVE  Spread(m, s \o t) = Spread(m, s) \o Spread(m, t)
<1> DEFINE P == {u \in Seq(A) : Spread(m, s \o u) = Spread(m, s) \o Spread(m, u)}
<1>1. <<>> \in P
  <2>1. <<>> \in Seq(A) /\ s \o <<>> = s
    BY EmptySeq
  <2>2. Spread(m, s) \o <<>> = Spread(m, s)
    BY SpreadType, ConcatEmptySeq
  <2> QED BY <2>1, <2>2, SpreadNothing
<1>2. ASSUME NEW u \in Seq(A), NEW x \in A, u \in P PROVE Append(u, x) \in P
  <2>1. Append(u, x) \in Seq(A) /\ s \o u \in Seq(A) /\ m[x] \in Seq(T)
    BY <1>2, AppendProperties, ConcatProperties
  <2>2. s \o Append(u, x) = Append(s \o u, x)
    BY SMTT(30)
  <2>3. Spread(m, Append(s \o u, x)) = Spread(m, s \o u) \o m[x]
    BY <2>1, SpreadAppend
  <2>4. Spread(m, Append(u, x)) = Spread(m, u) \o m[x]
    BY SpreadAppend
  <2>5. Spread(m, s) \in Seq(T) /\ Spread(m, u) \in Seq(T)
    BY SpreadType
  <2>6. (Spread(m, s) \o Spread(m, u)) \o m[x] = Spread(m, s) \o (Spread(m, u) \o m[x])
    BY SMTT(30), <2>1, <2>5, ConcatAssociative
  <2>7. Spread(m, s \o u) = Spread(m, s) \o Spread(m, u)
    BY <1>2
  <2> QED BY <2>1, <2>2, <2>3, <2>4, <2>6, <2>7
<1> HIDE DEF P
<1>3. t \in P
  BY <1>1, <1>2, InductionOnSeq
<1> QED BY <1>3 DEF P

-----------------------------------------------------------------------------
(* Route is the recursive function it is written as: each of its calls is    *)
(* about fewer bytes.                                                        *)

Token == Byte \cup {"serve", "clear"}
Grid(N) == (1 .. N + 1) \X (0 .. N)
Measure(N, p) == N + 1 + p[2] - p[1]

LEMMA GridMeasure ==
  ASSUME NEW N \in Nat, NEW p \in Grid(N)
  PROVE  Measure(N, p) \in Nat
BY DEF Grid, Measure

LEMMA OccursProps ==
  ASSUME NEW N \in Nat, NEW p \in Grid(N), NEW bytes, NEW item, Occurs(bytes, item, p[1], p[2]) # {}
  PROVE  LET k == Least(Occurs(bytes, item, p[1], p[2]))
         IN  /\ k \in Occurs(bytes, item, p[1], p[2])
             /\ <<p[1], k - 1>> \in Grid(N) /\ Measure(N, <<p[1], k - 1>>) < Measure(N, p)
             /\ <<k + 2, p[2]>> \in Grid(N) /\ Measure(N, <<k + 2, p[2]>>) < Measure(N, p)
<1> DEFINE T == Occurs(bytes, item, p[1], p[2])
           k == Least(T)
<1>1. p[1] \in 1 .. N + 1 /\ p[2] \in 0 .. N
  BY DEF Grid
<1>2. T \in SUBSET Nat /\ T # {} /\ \A x \in T : x \in p[1] .. p[2] - 1
  BY <1>1 DEF Occurs
<1>3. k \in T
  <2> HIDE DEF T
  <2> QED BY <1>2, LeastElement
<1>4. k \in p[1] .. p[2] - 1
  BY <1>2, <1>3
<1> HIDE DEF k
<1>5. k - 1 \in 0 .. N /\ k + 2 \in 1 .. N + 1
  BY <1>1, <1>4
<1>6. <<p[1], k - 1>> \in Grid(N) /\ <<k + 2, p[2]>> \in Grid(N)
  BY <1>1, <1>5 DEF Grid
<1>7. Measure(N, <<p[1], k - 1>>) < Measure(N, p) /\ Measure(N, <<k + 2, p[2]>>) < Measure(N, p)
  BY <1>1, <1>4 DEF Measure
<1> QED BY <1>3, <1>6, <1>7 DEF k

Agree(N, p, f, g) == \A q \in Grid(N) : Measure(N, q) < Measure(N, p) => f[q] = g[q]

LEMMA BetweenSame ==
  ASSUME NEW N \in Nat, NEW p \in Grid(N), NEW bytes, NEW f, NEW g, Agree(N, p, f, g)
  PROVE  Between(bytes, p[1], p[2], f) = Between(bytes, p[1], p[2], g)
<1> DEFINE M == Occurs(bytes, "marker", p[1], p[2])
           C == Occurs(bytes, "clear", p[1], p[2])
<1>1. CASE M # {}
  <2>1. f[<<p[1], Least(M) - 1>>] = g[<<p[1], Least(M) - 1>>]
        /\ f[<<Least(M) + 2, p[2]>>] = g[<<Least(M) + 2, p[2]>>]
    BY <1>1, OccursProps DEF Agree
  <2> QED BY <1>1, <2>1 DEF Between
<1>2. CASE M = {} /\ C # {}
  <2>1. f[<<p[1], Least(C) - 1>>] = g[<<p[1], Least(C) - 1>>]
        /\ f[<<Least(C) + 2, p[2]>>] = g[<<Least(C) + 2, p[2]>>]
    BY <1>2, OccursProps DEF Agree
  <2> QED BY <1>2, <2>1 DEF Between
<1>3. CASE M = {} /\ C = {}
  BY <1>3 DEF Between
<1> QED BY <1>1, <1>2, <1>3

IsRoute(bytes, route) ==
  \A p \in Grid(Len(bytes)) : route[p] = Between(bytes, p[1], p[2], route)

LEMMA RouteIsFunction ==
  ASSUME NEW bytes \in Seq(Byte)
  PROVE  \E route : IsRoute(bytes, route) /\ Route(bytes) = route[<<1, Len(bytes)>>]
<1> DEFINE N == Len(bytes)
           Step(f, p) == Between(bytes, p[1], p[2], f)
           Upto(f, n) == \A p \in Grid(N) : Measure(N, p) < n => f[p] = Step(f, p)
           S == {n \in Nat : \E f : Upto(f, n)}
           Is(f) == f = [p \in Grid(N) |-> Step(f, p)]
           R == CHOOSE f : Is(f)
<1>1. N \in Nat
  OBVIOUS
<1>2. Route(bytes) = R[<<1, N>>]
  BY DEF Route, Grid
<1> HIDE DEF N
<1>3. 0 \in S
  <2>1. \A p \in Grid(N) : ~(Measure(N, p) < 0)
    BY <1>1, GridMeasure
  <2> QED BY <2>1
<1>4. ASSUME NEW n \in Nat, n \in S PROVE n + 1 \in S
  <2>1. PICK g : Upto(g, n)
    BY <1>4
  <2> DEFINE h == [p \in Grid(N) |-> IF Measure(N, p) < n THEN g[p] ELSE Step(g, p)]
  <2>2. \A p \in Grid(N) : h[p] = IF Measure(N, p) < n THEN g[p] ELSE Step(g, p)
    OBVIOUS
  <2> HIDE DEF h
  <2>3. ASSUME NEW p \in Grid(N), Measure(N, p) < n + 1 PROVE h[p] = Step(h, p)
    <3>1. h[p] = Step(g, p)
      BY <2>1, <2>2
    <3>2. Agree(N, p, g, h)
      <4> SUFFICES \A q \in Grid(N) : Measure(N, q) < Measure(N, p) => g[q] = h[q]
        BY DEF Agree
      <4> TAKE q \in Grid(N)
      <4>1. Measure(N, q) \in Nat /\ Measure(N, p) \in Nat
        BY <1>1, GridMeasure
      <4>2. Measure(N, q) < Measure(N, p) => Measure(N, q) < n
        BY <2>3, <4>1
      <4> QED BY <2>2, <4>2
    <3>3. Step(g, p) = Step(h, p)
      BY <1>1, <3>2, BetweenSame
    <3> QED BY <3>1, <3>3
  <2> QED BY <2>3
<1>5. Nat \subseteq S
  <2> HIDE DEF S
  <2> QED BY <1>3, <1>4, InductionOnNat
<1>6. \A p \in Grid(N) : Measure(N, p) < 2 * N + 2
  BY <1>1 DEF Grid, Measure
<1>7. PICK g : Upto(g, 2 * N + 2)
  <2>1. 2 * N + 2 \in Nat
    BY <1>1
  <2> QED BY <1>5, <2>1
<1> DEFINE table == [p \in Grid(N) |-> g[p]]
<1>8. Is(table)
  <2>1. table = [p \in Grid(N) |-> table[p]] /\ \A q \in Grid(N) : table[q] = g[q]
    OBVIOUS
  <2> HIDE DEF table
  <2>2. ASSUME NEW p \in Grid(N) PROVE table[p] = Step(table, p)
    <3>1. table[p] = g[p] /\ g[p] = Step(g, p)
      BY <1>6, <1>7, <2>1
    <3>2. Agree(N, p, g, table)
      BY <2>1 DEF Agree
    <3>3. Step(g, p) = Step(table, p)
      <4> HIDE DEF Upto
      <4> QED BY <1>1, <3>2, BetweenSame
    <3> QED BY <3>1, <3>3
  <2> QED BY <2>1, <2>2
<1> HIDE DEF Is, table
<1>9. Is(R)
  BY <1>8
<1> HIDE DEF R
<1>10. IsRoute(bytes, R)
  BY <1>9 DEF Is, IsRoute, N
<1> QED BY <1>2, <1>10 DEF N

-----------------------------------------------------------------------------
(* The text that sendStdout routes is what it sends, whatever is in it.      *)

raw == [t \in Token |-> Raw(t)]
strip == [b \in Byte |-> IF b \in {"h1", "h2"} THEN <<>> ELSE <<b>>]

LEMMA SingleByte == \A b \in Byte : <<b>> \in Seq(Byte) /\ Len(<<b>>) = 1
OBVIOUS

LEMMA BytesOfMarkers ==
  /\ Bytes("header") = <<"h1", "h2">> /\ Bytes("marker") = <<"m1", "m2">>
  /\ Bytes("clear") = <<"c1", "c2">> /\ Bytes("wide") = <<"u1", "u2">>
  /\ Bytes("plain") = <<"a">>
BY DEF Bytes

LEMMA BytesType == \A item \in Item : Bytes(item) \in Seq(Byte)
<1> TAKE item \in Item
<1>1. {"h1", "h2", "m1", "m2", "c1", "c2", "u1", "u2", "a"} \subseteq Byte
  BY DEF Byte
<1>2. \A x, y \in Byte : <<x, y>> \in Seq(Byte)
  OBVIOUS
<1>3. item = "header" \/ item = "marker" \/ item = "clear" \/ item = "wide" \/ item = "plain"
  BY DEF Item
<1>4. CASE item = "header"
  BY <1>1, <1>2, <1>4, BytesOfMarkers
<1>5. CASE item = "marker"
  BY <1>1, <1>2, <1>5, BytesOfMarkers
<1>6. CASE item = "clear"
  BY <1>1, <1>2, <1>6, BytesOfMarkers
<1>7. CASE item = "wide"
  BY <1>1, <1>2, <1>7, BytesOfMarkers
<1>8. CASE item = "plain"
  BY <1>1, <1>8, BytesOfMarkers, SingleByte
<1> QED BY <1>3, <1>4, <1>5, <1>6, <1>7, <1>8

LEMMA RawType ==
  /\ raw \in [Token -> Seq(Byte)]
  /\ raw["serve"] = Bytes("marker") /\ raw["clear"] = Bytes("clear")
  /\ \A b \in Byte : raw[b] = <<b>>
<1>1. /\ "serve" \in Token /\ "clear" \in Token /\ "serve" \notin Byte /\ "clear" \notin Byte
      /\ Byte \subseteq Token
  BY DEF Token, Byte
<1>2. raw["serve"] = Bytes("marker") /\ raw["clear"] = Bytes("clear")
  BY <1>1 DEF raw, Raw
<1>3. \A b \in Byte : raw[b] = <<b>>
  BY <1>1 DEF raw, Raw
<1>4. Bytes("marker") \in Seq(Byte) /\ Bytes("clear") \in Seq(Byte)
  BY BytesType DEF Item
<1>5. \A t \in Token : t \in Byte \/ t = "serve" \/ t = "clear"
  BY DEF Token
<1>6. \A t \in Token : raw[t] \in Seq(Byte)
  BY <1>2, <1>3, <1>4, <1>5, SingleByte
<1>7. raw = [t \in Token |-> raw[t]]
  BY DEF raw
<1> HIDE DEF raw
<1>8. raw \in [Token -> Seq(Byte)]
  BY <1>6, <1>7
<1> QED BY <1>2, <1>3, <1>8

LEMMA StripType ==
  /\ strip \in [Byte -> Seq(Byte)]
  /\ strip["h1"] = <<>> /\ strip["h2"] = <<>>
<1>1. "h1" \in Byte /\ "h2" \in Byte
  BY DEF Byte
<1>2. strip["h1"] = <<>> /\ strip["h2"] = <<>>
  BY <1>1 DEF strip
<1>3. <<>> \in Seq(Byte)
  BY EmptySeq
<1>4. strip \in [Byte -> Seq(Byte)]
  BY <1>3, SingleByte DEF strip
<1> QED BY <1>2, <1>4

LEMMA RawBytesIsSpread == \A s \in Seq(Token) : RawBytes(s) = Spread(raw, s)
<1> TAKE s \in Seq(Token)
<1>1. \A k \in DOMAIN s : raw[s[k]] = Raw(s[k])
  BY DEF raw
<1>2. [k \in DOMAIN s |-> raw[s[k]]] = [k \in DOMAIN s |-> Raw(s[k])]
  BY <1>1
<1> QED BY <1>2 DEF RawBytes, Spread

LEMMA WithoutHeadersIsSpread == \A s \in Seq(Byte) : WithoutHeaders(s) = Spread(strip, s)
<1> TAKE s \in Seq(Byte)
<1> DEFINE one(b) == IF b \in {"h1", "h2"} THEN <<>> ELSE <<b>>
<1>1. \A k \in DOMAIN s : strip[s[k]] = one(s[k])
  BY DEF strip
<1>2. WithoutHeaders(s) = FlattenSeq([k \in DOMAIN s |-> one(s[k])])
  BY DEF WithoutHeaders
<1> HIDE DEF one
<1>3. [k \in DOMAIN s |-> strip[s[k]]] = [k \in DOMAIN s |-> one(s[k])]
  BY <1>1
<1> QED BY <1>2, <1>3 DEF Spread

(* An element that a sequence ends in.                                       *)
LEMMA AppendOne ==
  ASSUME NEW T, NEW s \in Seq(T), NEW x \in T
  PROVE  Append(s, x) = s \o <<x>>
OBVIOUS

LEMMA SpreadOne ==
  ASSUME NEW A, NEW T, NEW m \in [A -> Seq(T)], NEW x \in A
  PROVE  Spread(m, <<x>>) = m[x]
<1>1. <<>> \in Seq(A) /\ Append(<<>>, x) = <<x>> /\ m[x] \in Seq(T)
  BY EmptySeq
<1>2. Spread(m, Append(<<>>, x)) = Spread(m, <<>>) \o m[x]
  BY <1>1, SpreadAppend
<1>3. <<>> \o m[x] = m[x]
  BY <1>1, ConcatEmptySeq
<1> QED BY <1>1, <1>2, <1>3, SpreadNothing

LEMMA RawOfBytes == \A s \in Seq(Byte) : s \in Seq(Token) /\ Spread(raw, s) = s
<1> DEFINE P == {s \in Seq(Byte) : s \in Seq(Token) /\ Spread(raw, s) = s}
<1>1. <<>> \in P
  BY EmptySeq, SpreadNothing
<1>2. ASSUME NEW s \in Seq(Byte), NEW x \in Byte, s \in P PROVE Append(s, x) \in P
  <2>1. x \in Token /\ raw[x] = <<x>>
    BY RawType DEF Token
  <2>2. Append(s, x) \in Seq(Byte) /\ Append(s, x) \in Seq(Token)
    BY <1>2, <2>1, AppendProperties
  <2>3. Spread(raw, Append(s, x)) = Spread(raw, s) \o raw[x]
    BY <1>2, <2>1, RawType, SpreadAppend
  <2> QED BY <1>2, <2>1, <2>2, <2>3, AppendOne
<1> HIDE DEF P
<1>3. Seq(Byte) \subseteq P
  BY <1>1, <1>2, InductionOnSeq
<1> QED BY <1>3 DEF P

LEMMA RawConcat ==
  \A s, t \in Seq(Token) : Spread(raw, s \o t) = Spread(raw, s) \o Spread(raw, t)
<1> TAKE s \in Seq(Token), t \in Seq(Token)
<1>1. raw \in [Token -> Seq(Byte)]
  BY RawType
<1> HIDE DEF raw
<1> QED BY <1>1, SpreadConcat

LEMMA PartOfBytes ==
  ASSUME NEW T, NEW s \in Seq(T), NEW i \in 1 .. Len(s) + 1, NEW j \in 0 .. Len(s)
  PROVE  SubSeq(s, i, j) \in Seq(T)
<1>1. i \in Int /\ j \in Int /\ \A k \in i .. j : s[k] \in T
  OBVIOUS
<1> QED BY <1>1, SubSeqProperties

LEMMA CutAround ==
  ASSUME NEW T, NEW s \in Seq(T), NEW i \in 1 .. Len(s) + 1, NEW j \in 0 .. Len(s),
         NEW k \in i .. j - 1
  PROVE  SubSeq(s, i, j) = (SubSeq(s, i, k - 1) \o SubSeq(s, k, k + 1)) \o SubSeq(s, k + 2, j)
<1> DEFINE n == Len(s)
           l == k - 1
           m == k + 1
<1>1. n \in Nat /\ i \in 1 .. n + 1 /\ l \in i - 1 .. n /\ m \in l .. n
  OBVIOUS
<1>2. m \in i - 1 .. n /\ j \in m .. n /\ l + 1 = k /\ m + 1 = k + 2
  BY <1>1
<1> HIDE DEF l, m
<1>3. SubSeq(s, i, l) \o SubSeq(s, l + 1, m) = SubSeq(s, i, m)
  BY <1>1, ConcatAdjacentSubSeq
<1>4. SubSeq(s, i, m) \o SubSeq(s, m + 1, j) = SubSeq(s, i, j)
  BY <1>1, <1>2, ConcatAdjacentSubSeq
<1> QED BY <1>2, <1>3, <1>4 DEF l, m

(* One step of the recursion, around the place that it finds.                *)
RoutedAround(bytes, i, j, item, token, k, a, b) ==
  /\ bytes \in Seq(Byte) /\ i \in 1 .. Len(bytes) + 1 /\ j \in 0 .. Len(bytes)
  /\ token \in {"serve", "clear"} /\ raw[token] = Bytes(item)
  /\ k \in Occurs(bytes, item, i, j)
  /\ a \in Seq(Token) /\ Spread(raw, a) = SubSeq(bytes, i, k - 1)
  /\ b \in Seq(Token) /\ Spread(raw, b) = SubSeq(bytes, k + 2, j)

LEMMA RawAround ==
  ASSUME NEW bytes, NEW i, NEW j, NEW item, NEW token, NEW k, NEW a, NEW b,
         RoutedAround(bytes, i, j, item, token, k, a, b)
  PROVE  /\ (a \o <<token>>) \o b \in Seq(Token)
         /\ Spread(raw, (a \o <<token>>) \o b) = SubSeq(bytes, i, j)
<1>1. /\ bytes \in Seq(Byte) /\ i \in 1 .. Len(bytes) + 1 /\ j \in 0 .. Len(bytes)
      /\ token \in {"serve", "clear"} /\ raw[token] = Bytes(item)
      /\ k \in Occurs(bytes, item, i, j)
      /\ a \in Seq(Token) /\ Spread(raw, a) = SubSeq(bytes, i, k - 1)
      /\ b \in Seq(Token) /\ Spread(raw, b) = SubSeq(bytes, k + 2, j)
  BY DEF RoutedAround
<1>2. k \in i .. j - 1 /\ SubSeq(bytes, k, k + 1) = Bytes(item)
  BY <1>1 DEF Occurs
<1>3. token \in Token
  BY <1>1 DEF Token
<1>4. a \o <<token>> = Append(a, token) /\ Append(a, token) \in Seq(Token)
  BY <1>1, <1>3, AppendOne, AppendProperties
<1>5. Spread(raw, Append(a, token)) = Spread(raw, a) \o raw[token]
  BY <1>1, <1>3, RawType, SpreadAppend
<1>6. Append(a, token) \o b \in Seq(Token)
  BY <1>1, <1>4, ConcatProperties
<1>7. Spread(raw, Append(a, token) \o b) = Spread(raw, Append(a, token)) \o Spread(raw, b)
  BY <1>1, <1>4, RawConcat
<1>8. SubSeq(bytes, i, j)
        = (SubSeq(bytes, i, k - 1) \o SubSeq(bytes, k, k + 1)) \o SubSeq(bytes, k + 2, j)
  BY <1>1, <1>2, CutAround
<1> QED BY <1>1, <1>2, <1>4, <1>5, <1>6, <1>7, <1>8

LEMMA RouteKeepsBytes ==
  ASSUME NEW bytes \in Seq(Byte)
  PROVE  Route(bytes) \in Seq(Token) /\ Spread(raw, Route(bytes)) = bytes
<1> DEFINE N == Len(bytes)
<1>1. N \in Nat
  OBVIOUS
<1>2. PICK route : IsRoute(bytes, route) /\ Route(bytes) = route[<<1, N>>]
  BY RouteIsFunction
<1> DEFINE Kept(p) == /\ route[p] \in Seq(Token)
                      /\ Spread(raw, route[p]) = SubSeq(bytes, p[1], p[2])
           S == {n \in Nat : \A p \in Grid(N) : Measure(N, p) < n => Kept(p)}
<1> HIDE DEF N
<1>3. 0 \in S
  <2>1. \A p \in Grid(N) : ~(Measure(N, p) < 0)
    BY <1>1, GridMeasure
  <2> QED BY <2>1
<1>4. ASSUME NEW n \in Nat, n \in S PROVE n + 1 \in S
  <2>1. ASSUME NEW p \in Grid(N), Measure(N, p) < n + 1 PROVE Kept(p)
    <3> DEFINE i == p[1]
               j == p[2]
               M == Occurs(bytes, "marker", i, j)
               C == Occurs(bytes, "clear", i, j)
    <3>1. i \in 1 .. N + 1 /\ j \in 0 .. N /\ p = <<i, j>>
      BY DEF Grid
    <3>2. route[p] = Between(bytes, i, j, route)
      BY <1>2 DEF IsRoute, N
    <3>3. \A q \in Grid(N) : Measure(N, q) < Measure(N, p) => Kept(q)
      <4> TAKE q \in Grid(N)
      <4>1. Measure(N, q) \in Nat /\ Measure(N, p) \in Nat
        BY <1>1, GridMeasure
      <4>2. Measure(N, q) < Measure(N, p) => Measure(N, q) < n
        BY <2>1, <4>1
      <4> HIDE DEF Kept
      <4> QED BY <1>4, <4>2
    <3>4. ASSUME NEW item, NEW token, token \in {"serve", "clear"},
                 raw[token] = Bytes(item), Occurs(bytes, item, i, j) # {},
                 route[p] = (route[<<i, Least(Occurs(bytes, item, i, j)) - 1>>] \o <<token>>)
                              \o route[<<Least(Occurs(bytes, item, i, j)) + 2, j>>]
          PROVE  Kept(p)
      <4> DEFINE k == Least(Occurs(bytes, item, i, j))
                 a == route[<<i, k - 1>>]
                 b == route[<<k + 2, j>>]
      <4>1. /\ k \in Occurs(bytes, item, i, j)
            /\ <<i, k - 1>> \in Grid(N) /\ Measure(N, <<i, k - 1>>) < Measure(N, p)
            /\ <<k + 2, j>> \in Grid(N) /\ Measure(N, <<k + 2, j>>) < Measure(N, p)
        BY <1>1, <3>4, OccursProps
      <4> HIDE DEF k
      <4>2. Kept(<<i, k - 1>>) /\ Kept(<<k + 2, j>>)
        <5> HIDE DEF Kept
        <5> QED BY <3>3, <4>1
      <4>3. /\ a \in Seq(Token) /\ Spread(raw, a) = SubSeq(bytes, i, k - 1)
            /\ b \in Seq(Token) /\ Spread(raw, b) = SubSeq(bytes, k + 2, j)
        BY <4>2
      <4> HIDE DEF a, b
      <4>4. /\ (a \o <<token>>) \o b \in Seq(Token)
            /\ Spread(raw, (a \o <<token>>) \o b) = SubSeq(bytes, i, j)
        <5>1. /\ i \in 1 .. Len(bytes) + 1 /\ j \in 0 .. Len(bytes)
              /\ raw[token] = Bytes(item) /\ k \in Occurs(bytes, item, i, j)
          BY <3>1, <3>4, <4>1 DEF N
        <5>2. RoutedAround(bytes, i, j, item, token, k, a, b)
          BY <3>4, <4>3, <5>1 DEF RoutedAround
        <5> HIDE DEF i, j, M, C, S, Kept
        <5> QED BY <5>2, RawAround
      <4>5. route[p] = (a \o <<token>>) \o b
        BY <3>4 DEF a, b, k
      <4> QED BY <4>4, <4>5
    <3>5. CASE M # {}
      <4>1. route[p] = (route[<<i, Least(M) - 1>>] \o <<"serve">>) \o route[<<Least(M) + 2, j>>]
        BY <3>2, <3>5 DEF Between
      <4> HIDE DEF i, j, Kept
      <4> QED BY <3>4, <3>5, <4>1, RawType
    <3>6. CASE M = {} /\ C # {}
      <4>1. route[p] = (route[<<i, Least(C) - 1>>] \o <<"clear">>) \o route[<<Least(C) + 2, j>>]
        BY <3>2, <3>6 DEF Between
      <4> HIDE DEF i, j, Kept
      <4> QED BY <3>4, <3>6, <4>1, RawType
    <3>7. CASE M = {} /\ C = {}
      <4>1. route[p] = SubSeq(bytes, i, j)
        BY <3>2, <3>7 DEF Between
      <4>2. SubSeq(bytes, i, j) \in Seq(Byte)
        BY <3>1, PartOfBytes DEF N
      <4> QED BY <4>1, <4>2, RawOfBytes
    <3> QED BY <3>5, <3>6, <3>7
  <2> HIDE DEF Kept
  <2> QED BY <2>1
<1>5. Nat \subseteq S
  <2> HIDE DEF S
  <2> QED BY <1>3, <1>4, InductionOnNat
<1>6. Kept(<<1, N>>)
  <2>1. <<1, N>> \in Grid(N) /\ Measure(N, <<1, N>>) \in Nat
    BY <1>1, GridMeasure DEF Grid
  <2>2. Measure(N, <<1, N>>) + 1 \in Nat /\ Measure(N, <<1, N>>) < Measure(N, <<1, N>>) + 1
    BY <2>1
  <2> HIDE DEF Kept
  <2> QED BY <1>5, <2>1, <2>2
<1>7. SubSeq(bytes, 1, N) = bytes
  BY SubSeqFull DEF N
<1> QED BY <1>2, <1>6, <1>7

-----------------------------------------------------------------------------
(* What was printed is what was drained, and then what the kernel, LLDB and  *)
(* the pseudo-terminal hold, in this order.                                  *)

Writing == (1 .. MaxCells) \X Item
Sending == (1 .. MaxCells) \X Token
code == [x \in Writing |-> Bytes(x[2])]
rawOf == [x \in Sending |-> Raw(x[2])]

Held == (IF reading THEN buffer ELSE <<>>) \o (available \o pty)

(* The first bytes printed were drained, and were sent with nothing lost but *)
(* headers.                                                                  *)
Drained(before) ==
  /\ before \in Seq(Byte) /\ Len(before) = drained
  /\ Printed = before \o Held
  /\ ~failed => Spread(strip, Spread(rawOf, sent)) = Spread(strip, before)

(* The inductive invariant behind ShownWhole.                                *)
IInv ==
  /\ TypeOK
  /\ phase # "idle" => cell \in 1 .. MaxCells
  /\ reading => phase # "idle"
  /\ \E before : Drained(before)

LEMMA CodeType ==
  /\ code \in [Writing -> Seq(Byte)]
  /\ \A c \in 1 .. MaxCells : \A item \in Item :
       <<c, item>> \in Writing /\ code[<<c, item>>] = Bytes(item)
<1>1. \A x \in Writing : x[2] \in Item
  BY DEF Writing
<1>2. code \in [Writing -> Seq(Byte)]
  BY <1>1, BytesType DEF code
<1>3. \A c \in 1 .. MaxCells : \A item \in Item : <<c, item>> \in Writing
  BY DEF Writing
<1> QED BY <1>2, <1>3 DEF code

LEMMA RawOfType ==
  /\ rawOf \in [Sending -> Seq(Byte)]
  /\ \A c \in 1 .. MaxCells : \A t \in Token :
       <<c, t>> \in Sending /\ rawOf[<<c, t>>] = raw[t]
<1>1. \A t \in Token : raw[t] = Raw(t) /\ raw[t] \in Seq(Byte)
  <2>1. \A t \in Token : raw[t] = Raw(t)
    BY DEF raw
  <2> HIDE DEF raw
  <2> QED BY <2>1, RawType
<1>2. \A x \in Sending : x[2] \in Token
  BY DEF Sending
<1>3. rawOf \in [Sending -> Seq(Byte)]
  BY <1>1, <1>2 DEF rawOf
<1>4. \A c \in 1 .. MaxCells : \A t \in Token : <<c, t>> \in Sending
  BY DEF Sending
<1>5. \A c \in 1 .. MaxCells : \A t \in Token : rawOf[<<c, t>>] = raw[t]
  BY <1>1, <1>4 DEF rawOf
<1> QED BY <1>3, <1>4, <1>5

LEMMA WritingIsSpread ==
  \A w \in Seq(Writing) : FlattenSeq([k \in 1 .. Len(w) |-> Bytes(w[k][2])]) = Spread(code, w)
<1> TAKE w \in Seq(Writing)
<1>1. DOMAIN w = 1 .. Len(w) /\ \A k \in 1 .. Len(w) : w[k] \in Writing
  OBVIOUS
<1>2. \A k \in 1 .. Len(w) : code[w[k]] = Bytes(w[k][2])
  BY <1>1 DEF code
<1>3. [k \in DOMAIN w |-> code[w[k]]] = [k \in 1 .. Len(w) |-> Bytes(w[k][2])]
  BY <1>1, <1>2
<1> QED BY <1>3 DEF Spread

LEMMA PrintedIsSpread ==
  ASSUME written \in Seq(Writing)
  PROVE  Printed = Spread(code, written)
<1>1. Printed = FlattenSeq([k \in 1 .. Len(written) |-> Bytes(written[k][2])])
  BY DEF Printed, Pieces
<1> QED BY <1>1, WritingIsSpread

LEMMA PrintsMore ==
  ASSUME NEW w \in Seq(Writing), NEW c \in 1 .. MaxCells, NEW item \in Item
  PROVE  /\ Append(w, <<c, item>>) \in Seq(Writing)
         /\ Spread(code, Append(w, <<c, item>>)) = Spread(code, w) \o Bytes(item)
<1>1. <<c, item>> \in Writing /\ code[<<c, item>>] = Bytes(item)
  BY CodeType
<1>2. code \in [Writing -> Seq(Byte)]
  BY CodeType
<1> DEFINE x == <<c, item>>
<1> HIDE DEF x
<1>3. x \in Writing /\ code[x] = Bytes(item)
  BY <1>1 DEF x
<1>4. Append(w, x) \in Seq(Writing)
  BY <1>3, AppendProperties
<1>5. Spread(code, Append(w, x)) = Spread(code, w) \o code[x]
  BY <1>2, <1>3, SpreadAppend
<1> QED BY <1>3, <1>4, <1>5 DEF x

LEMMA RawBytesSent ==
  ASSUME NEW s \in Seq(Sending)
  PROVE  RawBytes([k \in DOMAIN s |-> s[k][2]]) = Spread(rawOf, s)
<1> DEFINE t == [k \in DOMAIN s |-> s[k][2]]
<1>1. DOMAIN t = DOMAIN s /\ \A k \in DOMAIN s : t[k] = s[k][2] /\ s[k] \in Sending
  OBVIOUS
<1> HIDE DEF t
<1>2. \A k \in DOMAIN s : rawOf[s[k]] = Raw(t[k])
  BY <1>1 DEF rawOf
<1>3. [k \in DOMAIN t |-> Raw(t[k])] = [k \in DOMAIN s |-> rawOf[s[k]]]
  BY <1>1, <1>2
<1> QED BY <1>3 DEF RawBytes, Spread, t

(* What is sent for a text in a cell.                                        *)
SentIn(c, routed) == [k \in DOMAIN routed |-> <<c, routed[k]>>]

LEMMA SentInType ==
  ASSUME NEW c \in 1 .. MaxCells, NEW r \in Seq(Token)
  PROVE  SentIn(c, r) \in Seq(Sending) /\ Spread(rawOf, SentIn(c, r)) = Spread(raw, r)
<1>1. DOMAIN r = 1 .. Len(r) /\ Len(r) \in Nat /\ \A k \in 1 .. Len(r) : r[k] \in Token
  OBVIOUS
<1>2. \A k \in 1 .. Len(r) : <<c, r[k]>> \in Sending /\ rawOf[<<c, r[k]>>] = raw[r[k]]
  BY <1>1, RawOfType
<1> DEFINE q == SentIn(c, r)
<1>3. /\ q = [k \in 1 .. Len(r) |-> <<c, r[k]>>] /\ DOMAIN q = 1 .. Len(r)
      /\ \A k \in 1 .. Len(r) : q[k] = <<c, r[k]>>
  BY <1>1 DEF SentIn
<1>4. q \in Seq(Sending)
  <2>1. \A k \in 1 .. Len(r) : <<c, r[k]>> \in Sending
    BY <1>2
  <2> QED BY <1>1, <1>3, <2>1
<1> HIDE DEF q
<1>5. \A k \in 1 .. Len(r) : rawOf[q[k]] = raw[r[k]]
  BY <1>2, <1>3
<1>6. [k \in DOMAIN q |-> rawOf[q[k]]] = [k \in DOMAIN r |-> raw[r[k]]]
  BY <1>1, <1>3, <1>5
<1> QED BY <1>4, <1>6 DEF Spread, q

-----------------------------------------------------------------------------
(* The steps keep the invariant.                                             *)

Three(T, a, b, c) == a \in Seq(T) /\ b \in Seq(T) /\ c \in Seq(T)

LEMMA Associative ==
  ASSUME NEW T, NEW a, NEW b, NEW c, Three(T, a, b, c)
  PROVE  (a \o b) \o c = a \o (b \o c) /\ a \o b \in Seq(T)
<1>1. a \in Seq(T) /\ b \in Seq(T) /\ c \in Seq(T)
  BY DEF Three
<1>2. (a \o b) \o c = a \o (b \o c)
  BY <1>1, ConcatAssociative
<1>3. a \o b \in Seq(T)
  BY <1>1, ConcatProperties
<1> QED BY <1>2, <1>3

Five(T, a, b, c, d, e) ==
  a \in Seq(T) /\ b \in Seq(T) /\ c \in Seq(T) /\ d \in Seq(T) /\ e \in Seq(T)

LEMMA Regroup ==
  ASSUME NEW T, NEW b, NEW d, NEW a, NEW p, NEW m, Five(T, b, d, a, p, m)
  PROVE  (b \o (d \o (a \o p))) \o m = b \o (d \o (a \o (p \o m)))
<1>1. Three(T, a, p, m)
  BY DEF Five, Three
<1>2. (a \o p) \o m = a \o (p \o m) /\ a \o p \in Seq(T)
  BY <1>1, Associative
<1> DEFINE u == a \o p
<1> HIDE DEF u
<1>3. Three(T, d, u, m)
  BY <1>2 DEF Five, Three, u
<1>4. (d \o u) \o m = d \o (u \o m) /\ d \o u \in Seq(T)
  BY <1>3, Associative
<1> DEFINE v == d \o u
<1> HIDE DEF v
<1>5. Three(T, b, v, m)
  BY <1>4 DEF Five, Three, v
<1>6. (b \o v) \o m = b \o (v \o m)
  BY <1>5, Associative
<1> QED BY <1>2, <1>4, <1>6 DEF u, v

Prints(c, item) ==
  /\ c \in 1 .. MaxCells /\ item \in Item
  /\ written' = Append(written, <<c, item>>) /\ pty' = pty \o Bytes(item)
  /\ UNCHANGED <<available, reading, buffer, sent, drained, failed>>

LEMMA PrintingKeepsDrained ==
  ASSUME TypeOK, NEW before, Drained(before), NEW c, NEW item, Prints(c, item)
  PROVE  Drained(before)'
<1>1. written \in Seq(Writing) /\ available \in Seq(Byte) /\ pty \in Seq(Byte) /\ buffer \in Seq(Byte)
  BY DEF TypeOK, Writing
<1> DEFINE d == IF reading THEN buffer ELSE <<>>
<1>2. d \in Seq(Byte)
  BY <1>1, EmptySeq
<1>3. before \in Seq(Byte) /\ Printed = before \o (d \o (available \o pty))
  BY DEF Drained, Held
<1>4. Held' = d \o (available \o (pty \o Bytes(item)))
  BY DEF Held, Prints
<1>5. Printed' = Printed \o Bytes(item)
  <2>1. Printed = Spread(code, written)
    BY <1>1, PrintedIsSpread
  <2>2. written' \in Seq(Writing) /\ Spread(code, written') = Spread(code, written) \o Bytes(item)
    BY <1>1, PrintsMore DEF Prints
  <2>3. Printed' = FlattenSeq([k \in 1 .. Len(written') |-> Bytes(written'[k][2])])
    BY DEF Printed, Pieces
  <2> QED BY <2>1, <2>2, <2>3, WritingIsSpread
<1>6. Bytes(item) \in Seq(Byte)
  BY BytesType DEF Prints
<1> HIDE DEF d
<1>7. (before \o (d \o (available \o pty))) \o Bytes(item)
        = before \o (d \o (available \o (pty \o Bytes(item))))
  <2> DEFINE m == Bytes(item)
  <2>1. m \in Seq(Byte)
    BY <1>6
  <2> HIDE DEF m
  <2>2. Five(Byte, before, d, available, pty, m)
    BY <1>1, <1>2, <1>3, <2>1 DEF Five
  <2>3. (before \o (d \o (available \o pty))) \o m = before \o (d \o (available \o (pty \o m)))
    BY SMTT(30), <2>2, Regroup
  <2> QED BY <2>3 DEF m
<1>8. Printed' = before \o Held'
  BY <1>3, <1>4, <1>5, <1>7
<1> QED BY <1>8 DEF Drained, Prints

LEMMA HoldingKeepsDrained ==
  ASSUME NEW before, Drained(before), Held' = Held, UNCHANGED <<written, sent, drained, failed>>
  PROVE  Drained(before)'
<1>1. Printed' = Printed
  BY DEF Printed, Pieces
<1> QED BY <1>1 DEF Drained

LEMMA InitIInv ==
  ASSUME Init
  PROVE  IInv
<1>1. <<>> \in Seq(Byte) /\ <<>> \in Seq((1 .. MaxCells) \X Item)
      /\ <<>> \in Seq((1 .. MaxCells) \X (Byte \cup {"serve", "clear"}))
  BY EmptySeq
<1>2. TypeOK
  <2>1. 0 \in 0 .. MaxCells
    BY BoundsAssumption
  <2> QED BY <1>1, <2>1 DEF Init, TypeOK
<1>3. Drained(<<>>)
  <2>1. Printed = Spread(code, written)
    BY <1>2, PrintedIsSpread DEF TypeOK, Writing
  <2>2. Printed = <<>> /\ Spread(rawOf, sent) = <<>> /\ Spread(strip, <<>>) = <<>>
    BY <2>1, SpreadNothing DEF Init
  <2>3. Held = <<>> \o (<<>> \o <<>>) /\ Len(<<>>) = drained
    BY DEF Init, Held
  <2>4. <<>> \o <<>> = <<>>
    OBVIOUS
  <2> QED BY <1>1, <2>2, <2>3, <2>4 DEF Drained
<1> QED BY <1>2, <1>3 DEF IInv, Init

LEMMA BeginCellKeeps ==
  ASSUME IInv, BeginCell
  PROVE  IInv'
<1> USE DEF BeginCell
<1>1. TypeOK /\ cell' \in 0 .. MaxCells /\ cell' \in 1 .. MaxCells /\ "header" \in Item
  BY BoundsAssumption DEF IInv, TypeOK, Item
<1>2. /\ phase' = "running" /\ hadStdout' = FALSE
      /\ UNCHANGED <<waiting, available, reading, buffer, sent, drained, torn, late, failed>>
  OBVIOUS
<1> HIDE DEF BeginCell
<1>3. PICK before : Drained(before)
  BY DEF IInv
<1>4. CASE UNCHANGED <<written, pty>>
  <2>1. TypeOK'
    BY <1>1, <1>4, <1>2 DEF TypeOK
  <2>2. Held' = Held
    BY <1>4, <1>2 DEF Held
  <2>3. Drained(before)'
    BY <1>3, <1>4, <1>2, <2>2, HoldingKeepsDrained
  <2> QED BY <1>1, <1>2, <2>1, <2>3 DEF IInv
<1>5. CASE written' = Append(written, <<cell', "header">>) /\ pty' = pty \o Bytes("header")
  <2>1. Bytes("header") \in Seq(Byte) /\ pty \in Seq(Byte) /\ written \in Seq(Writing)
    BY <1>1, BytesType DEF TypeOK, Writing
  <2>2. pty' \in Seq(Byte)
    BY <1>5, <2>1, ConcatProperties
  <2>3. written' \in Seq((1 .. MaxCells) \X Item)
    BY <1>1, <1>5, <2>1, PrintsMore DEF Writing
  <2>4. TypeOK'
    BY <1>1, <1>2, <2>2, <2>3 DEF TypeOK
  <2>5. Drained(before)'
    <3>1. Prints(cell', "header")
      BY <1>1, <1>5, <1>2 DEF Prints
    <3> QED BY <1>1, <1>3, <3>1, PrintingKeepsDrained
  <2> QED BY <1>1, <1>2, <2>4, <2>5 DEF IInv
<1> QED BY <1>4, <1>5 DEF BeginCell

LEMMA PrintItemKeeps ==
  ASSUME IInv, PrintItem
  PROVE  IInv'
<1> USE DEF PrintItem
<1>1. TypeOK /\ cell \in 1 .. MaxCells
  BY DEF IInv
<1>2. PICK before : Drained(before)
  BY DEF IInv
<1>3. PICK item \in Item \ {"header"} :
        /\ written' = Append(written, <<cell, item>>)
        /\ pty' = pty \o Bytes(item)
        /\ waiting' = (item = "marker")
  OBVIOUS
<1>4. Bytes(item) \in Seq(Byte) /\ pty \in Seq(Byte) /\ written \in Seq(Writing)
  BY <1>1, BytesType DEF TypeOK, Writing
<1>5. pty' \in Seq(Byte)
  BY <1>3, <1>4, ConcatProperties
<1>6. written' \in Seq((1 .. MaxCells) \X Item)
  BY <1>1, <1>3, <1>4, PrintsMore DEF Writing
<1>7. waiting' \in BOOLEAN
  BY <1>3
<1>8. TypeOK'
  BY <1>1, <1>5, <1>6, <1>7 DEF TypeOK, drainVars
<1>9. Drained(before)'
  <2>1. Prints(cell, item)
    BY <1>1, <1>3 DEF Prints, drainVars
  <2> QED BY <1>1, <1>2, <2>1, PrintingKeepsDrained
<1> QED BY <1>1, <1>8, <1>9 DEF IInv, drainVars

(* What is taken from the front of one queue is put at the end of another.   *)
LEMMA Passing ==
  ASSUME NEW T, NEW a \in Seq(T), NEW p \in Seq(T), NEW n \in 0 .. Len(p)
  PROVE  /\ a \o SubSeq(p, 1, n) \in Seq(T) /\ SubSeq(p, n + 1, Len(p)) \in Seq(T)
         /\ (a \o SubSeq(p, 1, n)) \o SubSeq(p, n + 1, Len(p)) = a \o p
<1>1. 1 \in 1 .. Len(p) + 1 /\ n \in 1 - 1 .. Len(p) /\ Len(p) \in n .. Len(p)
      /\ n + 1 \in 1 .. Len(p) + 1 /\ Len(p) \in 0 .. Len(p)
  OBVIOUS
<1> DEFINE x == SubSeq(p, 1, n)
           y == SubSeq(p, n + 1, Len(p))
<1>2. x \in Seq(T) /\ y \in Seq(T)
  BY <1>1, PartOfBytes
<1>3. x \o y = p
  <2>1. x \o y = SubSeq(p, 1, Len(p))
    BY <1>1, ConcatAdjacentSubSeq
  <2> QED BY <2>1, SubSeqFull
<1> HIDE DEF x, y
<1>4. a \o x \in Seq(T)
  BY <1>2, ConcatProperties
<1>5. (a \o x) \o y = a \o (x \o y)
  BY SMTT(30), <1>2, ConcatAssociative
<1> QED BY <1>2, <1>3, <1>4, <1>5 DEF x, y

LEMMA ArriveKeeps ==
  ASSUME IInv, Arrive
  PROVE  IInv'
<1> USE DEF Arrive
<1>1. TypeOK /\ pty \in Seq(Byte) /\ available \in Seq(Byte)
  BY DEF IInv, TypeOK
<1>2. PICK before : Drained(before)
  BY DEF IInv
<1>3. PICK n \in 1 .. Len(pty) :
        /\ available' = available \o SubSeq(pty, 1, n)
        /\ pty' = SubSeq(pty, n + 1, Len(pty))
  OBVIOUS
<1>4. n \in 0 .. Len(pty)
  OBVIOUS
<1>5. available' \in Seq(Byte) /\ pty' \in Seq(Byte) /\ available' \o pty' = available \o pty
  BY <1>1, <1>3, <1>4, Passing
<1>6. TypeOK'
  BY <1>1, <1>5 DEF TypeOK, drainVars
<1>7. Held' = Held
  BY <1>5 DEF Held, drainVars
<1>8. Drained(before)'
  BY <1>2, <1>7, HoldingKeepsDrained DEF drainVars
<1> QED BY <1>6, <1>8 DEF IInv, drainVars

LEMMA EndProgramKeeps ==
  ASSUME IInv, EndProgram
  PROVE  IInv'
<1> USE DEF EndProgram
<1>1. TypeOK /\ cell \in 1 .. MaxCells
  BY DEF IInv
<1>2. PICK before : Drained(before)
  BY DEF IInv
<1>3. TypeOK'
  BY <1>1 DEF TypeOK, processVars, drainVars
<1>4. Held' = Held
  BY DEF Held, processVars, drainVars
<1>5. Drained(before)'
  BY <1>2, <1>4, HoldingKeepsDrained DEF processVars, drainVars
<1> QED BY <1>1, <1>3, <1>5 DEF IInv, drainVars

LEMMA BeginDrainKeeps ==
  ASSUME IInv, BeginDrain
  PROVE  IInv'
<1> USE DEF BeginDrain
<1>1. TypeOK /\ <<>> \in Seq(Byte)
  BY EmptySeq DEF IInv
<1>2. PICK before : Drained(before)
  BY DEF IInv
<1>3. TypeOK'
  BY <1>1 DEF TypeOK, processVars
<1>4. Held' = Held
  BY DEF Held, processVars
<1>5. Drained(before)'
  BY <1>2, <1>4, HoldingKeepsDrained DEF processVars
<1> QED BY <1>3, <1>5 DEF IInv

LEMMA ReadKeeps ==
  ASSUME IInv, Read
  PROVE  IInv'
<1> USE DEF Read
<1>1. TypeOK /\ available \in Seq(Byte) /\ buffer \in Seq(Byte) /\ pty \in Seq(Byte)
  BY DEF IInv, TypeOK
<1>2. PICK before : Drained(before)
  BY DEF IInv
<1> DEFINE n == get_stdout
<1>3. n \in 0 .. Len(available)
  <2>1. Len(available) \in Nat /\ BufferSize \in Nat
    BY <1>1, BoundsAssumption
  <2> QED BY <2>1 DEF get_stdout, Smaller
<1>4. /\ buffer' = buffer \o SubSeq(available, 1, n)
      /\ available' = SubSeq(available, n + 1, Len(available))
      /\ reading /\ UNCHANGED <<cell, phase, waiting, written, pty, reading, hadStdout, sent,
                                drained, torn, late, failed>>
  OBVIOUS
<1> HIDE DEF n, Read
<1>5. buffer' \in Seq(Byte) /\ available' \in Seq(Byte) /\ buffer' \o available' = buffer \o available
  BY ZenonT(60), <1>1, <1>3, <1>4, Passing
<1>6. TypeOK'
  BY <1>1, <1>4, <1>5 DEF TypeOK
<1>7. Held' = Held
  <2> DEFINE b2 == buffer'
             a2 == available'
  <2>1. b2 \in Seq(Byte) /\ a2 \in Seq(Byte)
    BY <1>5
  <2> HIDE DEF b2, a2
  <2>2. (b2 \o a2) \o pty = b2 \o (a2 \o pty)
    <3>1. Three(Byte, b2, a2, pty)
      BY <1>1, <2>1 DEF Three
    <3> QED BY <3>1, Associative
  <2>3. (buffer \o available) \o pty = buffer \o (available \o pty)
    <3>1. Three(Byte, buffer, available, pty)
      BY <1>1 DEF Three
    <3> QED BY <3>1, Associative
  <2>4. pty' = pty /\ reading' /\ reading
    BY <1>4
  <2>5. Held' = b2 \o (a2 \o pty) /\ Held = buffer \o (available \o pty)
    BY <2>4 DEF Held, b2, a2
  <2>6. b2 \o a2 = buffer \o available
    BY <1>5 DEF b2, a2
  <2> QED BY <2>2, <2>3, <2>5, <2>6
<1>8. Drained(before)'
  BY <1>2, <1>4, <1>7, HoldingKeepsDrained
<1> QED BY <1>4, <1>6, <1>8 DEF IInv

(* The text that a drain sends is its buffer without the header.             *)
Headed(b) == SubSeq(b, 1, Smaller(2, Len(b))) = Bytes("header")
TextOf(b, had) == IF had THEN b ELSE SubSeq(b, 3, Len(b))

LEMMA AfterHeader ==
  ASSUME NEW b \in Seq(Byte), Headed(b)
  PROVE  /\ Len(b) >= 2 /\ SubSeq(b, 3, Len(b)) \in Seq(Byte)
         /\ b = Bytes("header") \o SubSeq(b, 3, Len(b))
<1> DEFINE n == Len(b)
           m == Smaller(2, n)
<1>1. n \in Nat /\ m \in 0 .. n /\ (m = 2 => n >= 2) /\ m \in Int /\ 1 \in Int
  BY DEF Smaller
<1>2. Bytes("header") = <<"h1", "h2">> /\ Len(<<"h1", "h2">>) = 2
  BY BytesOfMarkers
<1>3. SubSeq(b, 1, m) = <<"h1", "h2">>
  BY <1>2 DEF Headed
<1> HIDE DEF n, m
<1>4. Len(SubSeq(b, 1, m)) = IF 1 <= m THEN m - 1 + 1 ELSE 0
  <2>1. \A i \in 1 .. m : b[i] \in Byte
    BY <1>1 DEF n
  <2> QED BY <1>1, <2>1, SubSeqProperties
<1>5. m = 2 /\ n >= 2
  <2>1. Len(SubSeq(b, 1, m)) = 2
    BY <1>2, <1>3
  <2>2. (IF 1 <= m THEN m - 1 + 1 ELSE 0) = 2
    BY <1>4, <2>1
  <2> QED BY <1>1, <2>2
<1>6. SubSeq(b, 1, 2) \o SubSeq(b, 2 + 1, n) = SubSeq(b, 1, n)
  <2>1. 1 \in 1 .. n + 1 /\ 2 \in 1 - 1 .. n /\ n \in 2 .. n
    BY <1>1, <1>5
  <2> QED BY <2>1, ConcatAdjacentSubSeq DEF n
<1>7. SubSeq(b, 1, n) = b
  BY SubSeqFull DEF n
<1>8. 2 + 1 = 3 /\ 3 \in 1 .. n + 1 /\ n \in 0 .. n
  BY <1>1, <1>5
<1>9. SubSeq(b, 3, n) \in Seq(Byte)
  BY <1>8, PartOfBytes DEF n
<1> QED BY <1>2, <1>3, <1>5, <1>6, <1>7, <1>8, <1>9 DEF n

LEMMA HeaderIsStripped == Spread(strip, Bytes("header")) = <<>>
<1>1. /\ Bytes("header") = Append(<<"h1">>, "h2") /\ <<"h1">> = Append(<<>>, "h1")
      /\ "h1" \in Byte /\ "h2" \in Byte
  BY BytesOfMarkers DEF Byte
<1>2. <<>> \in Seq(Byte) /\ <<"h1">> \in Seq(Byte) /\ <<>> \o <<>> = <<>>
  BY <1>1, EmptySeq, SingleByte
<1>3. Spread(strip, Append(<<>>, "h1")) = Spread(strip, <<>>) \o strip["h1"]
  BY <1>1, <1>2, StripType, SpreadAppend
<1>4. Spread(strip, Append(<<"h1">>, "h2")) = Spread(strip, <<"h1">>) \o strip["h2"]
  BY <1>1, <1>2, StripType, SpreadAppend
<1> QED BY <1>1, <1>2, <1>3, <1>4, SpreadNothing, StripType

LEMMA StripConcat ==
  \A s, t \in Seq(Byte) : Spread(strip, s \o t) = Spread(strip, s) \o Spread(strip, t)
<1> TAKE s \in Seq(Byte), t \in Seq(Byte)
<1>1. strip \in [Byte -> Seq(Byte)]
  BY StripType
<1> HIDE DEF strip
<1> QED BY <1>1, SpreadConcat

LEMMA RawOfConcat ==
  \A s, t \in Seq(Sending) : Spread(rawOf, s \o t) = Spread(rawOf, s) \o Spread(rawOf, t)
<1> TAKE s \in Seq(Sending), t \in Seq(Sending)
<1>1. rawOf \in [Sending -> Seq(Byte)]
  BY RawOfType
<1> HIDE DEF rawOf
<1> QED BY <1>1, SpreadConcat

LEMMA TextKeepsBytes ==
  ASSUME NEW b \in Seq(Byte), NEW had \in BOOLEAN, b = <<>> \/ had \/ Headed(b)
  PROVE  /\ TextOf(b, had) \in Seq(Byte)
         /\ Spread(strip, TextOf(b, had)) = Spread(strip, b)
<1>1. CASE had
  BY <1>1 DEF TextOf
<1>2. CASE ~had /\ b = <<>>
  <2>1. TextOf(b, had) = <<>>
    <3>1. 0 \in Int /\ 3 \in Int /\ 0 < 3 /\ Len(b) = 0
      BY <1>2
    <3>2. SubSeq(b, 3, 0) = <<>>
      BY <3>1, SubSeqEmpty
    <3> QED BY <1>2, <3>1, <3>2 DEF TextOf
  <2> QED BY <1>2, <2>1
<1>3. CASE ~had /\ Headed(b)
  <2> DEFINE t == SubSeq(b, 3, Len(b))
             h == Bytes("header")
  <2>1. t \in Seq(Byte) /\ b = h \o t /\ TextOf(b, had) = t
    BY <1>3, AfterHeader DEF TextOf
  <2>2. h \in Seq(Byte) /\ Spread(strip, h) = <<>>
    BY BytesType, HeaderIsStripped DEF Item
  <2> HIDE DEF t, h
  <2>3. Spread(strip, h \o t) = Spread(strip, h) \o Spread(strip, t)
    BY <2>1, <2>2, StripConcat
  <2>4. Spread(strip, t) \in Seq(Byte)
    BY <2>1, StripType, SpreadType
  <2>5. <<>> \o Spread(strip, t) = Spread(strip, t)
    BY <2>4, ConcatEmptySeq
  <2> QED BY <2>1, <2>2, <2>3, <2>5
<1> QED BY <1>1, <1>2, <1>3

(* One drain more.                                                           *)
LEMMA SendsWhole ==
  ASSUME NEW s \in Seq(Sending), NEW before \in Seq(Byte), NEW b \in Seq(Byte), NEW text \in Seq(Byte),
         NEW c \in 1 .. MaxCells,
         Spread(strip, Spread(rawOf, s)) = Spread(strip, before),
         Spread(strip, text) = Spread(strip, b)
  PROVE  LET more == s \o SentIn(c, Route(text))
         IN  /\ more \in Seq(Sending)
             /\ Spread(strip, Spread(rawOf, more)) = Spread(strip, before \o b)
<1> DEFINE q == SentIn(c, Route(text))
<1>1. Route(text) \in Seq(Token) /\ Spread(raw, Route(text)) = text
  BY RouteKeepsBytes
<1>2. q \in Seq(Sending) /\ Spread(rawOf, q) = text
  BY <1>1, SentInType
<1> HIDE DEF q
<1>3. s \o q \in Seq(Sending)
  BY <1>2, ConcatProperties
<1>4. Spread(rawOf, s \o q) = Spread(rawOf, s) \o Spread(rawOf, q)
  BY <1>2, RawOfConcat
<1>5. Spread(rawOf, s) \in Seq(Byte)
  BY RawOfType, SpreadType
<1> DEFINE r == Spread(rawOf, s)
<1> HIDE DEF r
<1>6. r \in Seq(Byte)
  BY <1>5 DEF r
<1>7. Spread(strip, r \o text) = Spread(strip, r) \o Spread(strip, text)
  BY <1>6, StripConcat
<1>8. Spread(strip, before \o b) = Spread(strip, before) \o Spread(strip, b)
  BY StripConcat
<1> QED BY <1>2, <1>3, <1>4, <1>7, <1>8 DEF q, r

Refused == ~IsUTF8(buffer) \/ (buffer # <<>> /\ ~hadStdout /\ ~Headed(buffer))

(* What a drain does, in the terms of these proofs.                          *)
LEMMA EndDrainSteps ==
  ASSUME EndDrain
  PROVE  /\ reading /\ available = <<>> /\ reading' = FALSE
         /\ drained' = drained + Len(buffer)
         /\ torn' = (torn \/ drained' \notin Boundaries)
         /\ IF Refused
              THEN failed' = TRUE /\ UNCHANGED <<sent, hadStdout, waiting>>
              ELSE /\ sent' = sent \o SentIn(cell, Route(TextOf(buffer, hadStdout)))
                   /\ hadStdout' = (hadStdout \/ buffer # <<>>)
                   /\ waiting' = (waiting /\ \A k \in DOMAIN Route(TextOf(buffer, hadStdout)) :
                                               Route(TextOf(buffer, hadStdout))[k] # "serve")
                   /\ UNCHANGED failed
         /\ IF phase = "ended"
              THEN phase' = "idle" /\ late' = (late \/ pty # <<>>)
              ELSE UNCHANGED <<phase, late>>
         /\ UNCHANGED <<cell, written, pty, available, buffer>>
BY DEF EndDrain, Refused, Headed, TextOf, SentIn

LEMMA EndDrainKeeps ==
  ASSUME IInv, EndDrain
  PROVE  IInv'
<1>1. /\ TypeOK /\ cell \in 1 .. MaxCells /\ reading /\ available = <<>>
      /\ buffer \in Seq(Byte) /\ pty \in Seq(Byte) /\ sent \in Seq(Sending)
      /\ hadStdout \in BOOLEAN /\ written \in Seq(Writing)
  BY EndDrainSteps DEF IInv, TypeOK, Sending, Token, Writing
<1>2. PICK before : Drained(before)
  BY DEF IInv
<1>3. before \in Seq(Byte) /\ Len(before) = drained
  BY <1>2 DEF Drained
<1>4. PICK after : after = before \o buffer
  OBVIOUS
<1>5. after \in Seq(Byte) /\ Len(after) = Len(before) + Len(buffer)
  BY <1>1, <1>3, <1>4, ConcatProperties
<1>6. ~Refused => buffer = <<>> \/ hadStdout \/ Headed(buffer)
  BY DEF Refused
<1>7. ~Refused =>
        /\ TextOf(buffer, hadStdout) \in Seq(Byte)
        /\ Spread(strip, TextOf(buffer, hadStdout)) = Spread(strip, buffer)
  BY <1>1, <1>6, TextKeepsBytes
<1>8. /\ sent' \in Seq(Sending)
      /\ ~failed' => Spread(strip, Spread(rawOf, sent')) = Spread(strip, after)
  <2>1. CASE Refused
    BY <1>1, <2>1, EndDrainSteps
  <2>2. CASE ~Refused
    <3> DEFINE text == TextOf(buffer, hadStdout)
               more == sent \o SentIn(cell, Route(text))
    <3>1. sent' = more /\ failed' = failed
      BY <2>2, EndDrainSteps
    <3>2. text \in Seq(Byte) /\ Spread(strip, text) = Spread(strip, buffer)
      BY <1>7, <2>2
    <3> HIDE DEF text
    <3>3. CASE ~failed
      <4>1. Spread(strip, Spread(rawOf, sent)) = Spread(strip, before)
        BY <1>2, <3>3 DEF Drained
      <4> QED BY <1>1, <1>3, <3>1, <1>4, <3>2, <4>1, SendsWhole
    <3>4. CASE failed
      <4>1. Route(text) \in Seq(Token)
        BY <3>2, RouteKeepsBytes
      <4>2. SentIn(cell, Route(text)) \in Seq(Sending)
        BY <1>1, <4>1, SentInType
      <4>3. more \in Seq(Sending)
        BY <1>1, <4>2, ConcatProperties
      <4> QED BY <3>1, <3>4, <4>3
    <3> QED BY <3>3, <3>4
  <2> QED BY <2>1, <2>2
<1>9. Printed' = after \o Held'
  <2>1. Printed' = Printed /\ Held' = <<>> \o (<<>> \o pty) /\ Held = buffer \o (<<>> \o pty)
    BY <1>1, EndDrainSteps DEF Printed, Pieces, Held
  <2>2. <<>> \o pty = pty
    BY <1>1, ConcatEmptySeq
  <2>3. Three(Byte, before, buffer, pty)
    BY <1>1, <1>3 DEF Three
  <2>4. (before \o buffer) \o pty = before \o (buffer \o pty)
    BY <2>3, Associative
  <2>5. Printed = before \o Held
    BY <1>2 DEF Drained
  <2> QED BY <1>4, <2>1, <2>2, <2>4, <2>5
<1>10. Drained(after)'
  <2>1. Len(after) = drained'
    BY <1>3, <1>5, EndDrainSteps
  <2>2. ~failed' => Spread(strip, Spread(rawOf, sent')) = Spread(strip, after)
    BY <1>8
  <2>3. after \in Seq(Byte)
    BY <1>5
  <2> QED BY <1>9, <2>1, <2>2, <2>3 DEF Drained
<1>11. TypeOK'
  <2>1. phase \in {"idle", "running", "ended"} /\ failed \in BOOLEAN /\ late \in BOOLEAN
        /\ cell \in 0 .. MaxCells /\ written \in Seq((1 .. MaxCells) \X Item)
        /\ available \in Seq(Byte)
    BY <1>1 DEF TypeOK
  <2>2. phase' \in {"idle", "running", "ended"} /\ late' \in BOOLEAN
    BY <2>1, EndDrainSteps
  <2>3. waiting' \in BOOLEAN /\ hadStdout' \in BOOLEAN /\ failed' \in BOOLEAN
    BY <1>1, <2>1, EndDrainSteps DEF TypeOK
  <2>4. torn' \in BOOLEAN /\ reading' \in BOOLEAN
    BY EndDrainSteps
  <2>5. sent' \in Seq((1 .. MaxCells) \X (Byte \cup {"serve", "clear"}))
    BY <1>8 DEF Sending, Token
  <2>6. UNCHANGED <<cell, written, pty, available, buffer>>
    BY EndDrainSteps
  <2> QED BY <1>1, <2>1, <2>2, <2>3, <2>4, <2>5, <2>6 DEF TypeOK
<1>12. (phase' # "idle" => cell' \in 1 .. MaxCells) /\ ~reading'
  BY <1>1, EndDrainSteps
<1> QED BY <1>10, <1>11, <1>12 DEF IInv

LEMMA StepsKeep ==
  ASSUME IInv, [Next]_vars
  PROVE  IInv'
<1>1. CASE UNCHANGED vars
  <2>1. PICK before : Drained(before)
    BY DEF IInv
  <2>2. Held' = Held
    BY <1>1 DEF vars, Held
  <2>3. Drained(before)'
    BY <1>1, <2>1, <2>2, HoldingKeepsDrained DEF vars
  <2> QED BY <1>1, <2>3 DEF vars, IInv, TypeOK
<1> QED BY <1>1, BeginCellKeeps, PrintItemKeeps, ArriveKeeps, EndProgramKeeps, BeginDrainKeeps,
           ReadKeeps, EndDrainKeeps DEF Next

LEMMA PrefixOfConcat ==
  ASSUME NEW T, NEW s \in Seq(T), NEW t \in Seq(T)
  PROVE  SubSeq(s \o t, 1, Len(s)) = s
<1> DEFINE u == s \o t
           n == Len(s)
           v == SubSeq(u, 1, n)
<1>1. u \in Seq(T) /\ Len(u) = n + Len(t) /\ \A i \in 1 .. n : u[i] = s[i]
  BY ConcatProperties
<1>2. n \in Nat /\ Len(t) \in Nat /\ \A i \in 1 .. n : s[i] \in T
  OBVIOUS
<1> HIDE DEF u, n
<1>3. 1 \in Int /\ n \in Int /\ \A i \in 1 .. n : u[i] \in T
  BY <1>1, <1>2
<1>4. /\ v \in Seq(T) /\ Len(v) = (IF 1 <= n THEN n - 1 + 1 ELSE 0)
      /\ \A i \in 1 .. n - 1 + 1 : v[i] = u[1 + i - 1]
  BY <1>3, SubSeqProperties
<1> HIDE DEF v
<1>5. Len(v) = n /\ \A i \in 1 .. n : v[i] = s[i]
  <2>1. \A i \in 1 .. n : i \in 1 .. n - 1 + 1 /\ 1 + i - 1 = i
    BY <1>2
  <2> QED BY <1>1, <1>2, <1>4, <2>1
<1>6. v = s
  BY <1>4, <1>5, SeqEqual DEF n
<1> QED BY <1>6 DEF u, n, v

LEMMA IInvIsShown ==
  ASSUME IInv
  PROVE  RouterInv
<1>1. TypeOK
  BY DEF IInv
<1>2. /\ sent \in Seq(Sending) /\ available \in Seq(Byte) /\ pty \in Seq(Byte)
      /\ buffer \in Seq(Byte) /\ <<>> \in Seq(Byte)
  BY <1>1, EmptySeq DEF TypeOK, Sending, Token
<1>3. PICK before : Drained(before)
  BY DEF IInv
<1>4. before \in Seq(Byte) /\ Len(before) = drained /\ Printed = before \o Held
  BY <1>3 DEF Drained
<1>5. Held \in Seq(Byte)
  <2>1. available \o pty \in Seq(Byte)
    BY <1>2, ConcatProperties
  <2> DEFINE d == IF reading THEN buffer ELSE <<>>
  <2>2. d \in Seq(Byte)
    BY <1>2
  <2> HIDE DEF d
  <2>3. d \o (available \o pty) \in Seq(Byte)
    BY <2>1, <2>2, ConcatProperties
  <2> QED BY <2>3 DEF Held, d
<1>6. SubSeq(Printed, 1, drained) = before
  <2> DEFINE h == Held
  <2>1. h \in Seq(Byte)
    BY <1>5
  <2> HIDE DEF h
  <2>2. SubSeq(before \o h, 1, Len(before)) = before
    BY <1>4, <2>1, PrefixOfConcat
  <2> QED BY <1>4, <2>2 DEF h
<1>7. RawBytes([k \in DOMAIN sent |-> sent[k][2]]) = Spread(rawOf, sent)
  BY <1>2, RawBytesSent
<1>8. Spread(rawOf, sent) \in Seq(Byte)
  BY <1>2, RawOfType, SpreadType
<1>9. NothingVanishes
  <2> DEFINE r == Spread(rawOf, sent)
  <2>1. r \in Seq(Byte)
    BY <1>8
  <2>2. ~failed => Spread(strip, r) = Spread(strip, before)
    BY <1>3 DEF Drained
  <2> HIDE DEF r
  <2>3. WithoutHeaders(r) = Spread(strip, r) /\ WithoutHeaders(before) = Spread(strip, before)
    BY <1>4, <2>1, WithoutHeadersIsSpread
  <2> QED BY <1>6, <1>7, <2>2, <2>3 DEF NothingVanishes, r
<1> QED BY <1>1, <1>9 DEF RouterInv

(* However the output is cut into drains, what was drained before the kernel *)
(* failed was sent whole and in order, and the variables have their types    *)
(* (getStdout, getAndSendStdout and sendStdout).                             *)
THEOREM ShownWhole == Spec => []RouterInv
<1>1. Init => IInv
  BY InitIInv
<1>2. IInv /\ [Next]_vars => IInv'
  BY StepsKeep
<1>3. IInv => RouterInv
  BY IInvIsShown
<1> QED BY <1>1, <1>2, <1>3, PTL DEF Spec

-----------------------------------------------------------------------------
(* Where the items that were printed stand in the bytes.                     *)

At(u, n) == Len(Spread(code, SubSeq(u, 1, n)))
Part(u, m, n) == Spread(code, SubSeq(u, m + 1, n))

LEMMA CodeOf ==
  \A x \in Writing : x[2] \in Item /\ code[x] = Bytes(x[2]) /\ code[x] \in Seq(Byte)
<1> TAKE x \in Writing
<1>1. x[2] \in Item
  BY DEF Writing
<1> QED BY <1>1, BytesType DEF code

LEMMA ItemLengths ==
  \A item \in Item : Len(Bytes(item)) = IF item = "plain" THEN 1 ELSE 2
<1> TAKE item \in Item
<1>1. item = "header" \/ item = "marker" \/ item = "clear" \/ item = "wide" \/ item = "plain"
  BY DEF Item
<1>2. Len(<<"h1", "h2">>) = 2 /\ Len(<<"m1", "m2">>) = 2 /\ Len(<<"c1", "c2">>) = 2
      /\ Len(<<"u1", "u2">>) = 2 /\ Len(<<"a">>) = 1
  OBVIOUS
<1>3. CASE item = "header"
  BY <1>2, <1>3, BytesOfMarkers
<1>4. CASE item = "marker"
  BY <1>2, <1>4, BytesOfMarkers
<1>5. CASE item = "clear"
  BY <1>2, <1>5, BytesOfMarkers
<1>6. CASE item = "wide"
  BY <1>2, <1>6, BytesOfMarkers
<1>7. CASE item = "plain"
  BY <1>2, <1>7, BytesOfMarkers
<1> QED BY <1>1, <1>3, <1>4, <1>5, <1>6, <1>7

LEMMA CodeConcat ==
  \A s, t \in Seq(Writing) : Spread(code, s \o t) = Spread(code, s) \o Spread(code, t)
<1> TAKE s \in Seq(Writing), t \in Seq(Writing)
<1>1. code \in [Writing -> Seq(Byte)]
  BY CodeType
<1> HIDE DEF code
<1> QED BY <1>1, SpreadConcat

LEMMA CodeSpread == \A s \in Seq(Writing) : Spread(code, s) \in Seq(Byte)
<1> TAKE s \in Seq(Writing)
<1>1. code \in [Writing -> Seq(Byte)]
  BY CodeType
<1> HIDE DEF code
<1> QED BY <1>1, SpreadType

(* The middle of three sequences.                                            *)
LEMMA MiddlePart ==
  ASSUME NEW T, NEW a, NEW b, NEW c, Three(T, a, b, c)
  PROVE  SubSeq((a \o b) \o c, Len(a) + 1, Len(a) + Len(b)) = b
<1> DEFINE la == Len(a)
           lb == Len(b)
           ab == a \o b
           s == ab \o c
           p == la + 1
           q == la + lb
           v == SubSeq(s, p, q)
<1>1. a \in Seq(T) /\ b \in Seq(T) /\ c \in Seq(T)
  BY DEF Three
<1>2. la \in Nat /\ lb \in Nat /\ Len(c) \in Nat /\ \A i \in 1 .. lb : b[i] \in T
  BY <1>1
<1>3. /\ ab \in Seq(T) /\ Len(ab) = la + lb
      /\ \A i \in 1 .. la + lb : ab[i] = IF i <= la THEN a[i] ELSE b[i - la]
  BY <1>1, ConcatProperties
<1> HIDE DEF ab
<1> HIDE DEF la, lb
<1>4. \A i \in 1 .. la + lb : s[i] = ab[i]
  <2>1. \A i \in 1 .. Len(ab) + Len(c) : s[i] = IF i <= Len(ab) THEN ab[i] ELSE c[i - Len(ab)]
    <3>1. ab \in Seq(T) /\ c \in Seq(T)
      BY <1>1, <1>3
    <3> QED BY <3>1, ConcatProperties
  <2>2. \A i \in 1 .. la + lb : i \in 1 .. Len(ab) + Len(c) /\ i <= Len(ab)
    BY <1>2, <1>3
  <2> HIDE DEF s
  <2> QED BY <2>1, <2>2
<1> HIDE DEF s, p, q
<1>5. \A i \in 1 .. lb : s[la + i] = b[i] /\ la + i \in la + 1 .. la + lb
  <2> TAKE i \in 1 .. lb
  <2>1. la + i \in 1 .. la + lb /\ ~(la + i <= la) /\ (la + i) - la = i
    BY <1>2
  <2> QED BY <1>2, <1>3, <1>4, <2>1
<1>6. \A i \in la + 1 .. la + lb : s[i] \in T
  <2> TAKE i \in la + 1 .. la + lb
  <2>1. i - la \in 1 .. lb /\ la + (i - la) = i
    BY <1>2
  <2> QED BY <1>2, <1>5, <2>1
<1>7. p \in Int /\ q \in Int /\ p = la + 1 /\ q = la + lb
  BY <1>2 DEF p, q
<1>8. /\ v \in Seq(T) /\ Len(v) = (IF p <= q THEN q - p + 1 ELSE 0)
      /\ \A i \in 1 .. q - p + 1 : v[i] = s[p + i - 1]
  <2>1. \A i \in p .. q : s[i] \in T
    BY <1>6, <1>7
  <2> QED BY <1>7, <2>1, SubSeqProperties
<1> HIDE DEF v
<1>9. Len(v) = lb /\ \A i \in 1 .. lb : v[i] = b[i]
  <2>1. Len(v) = lb
    BY <1>2, <1>7, <1>8
  <2>2. ASSUME NEW i \in 1 .. lb PROVE v[i] = b[i]
    <3>1. i \in 1 .. q - p + 1 /\ p + i - 1 = la + i
      BY <1>2, <1>7
    <3>2. v[i] = s[p + i - 1]
      BY <1>8, <3>1
    <3>3. s[la + i] = b[i]
      BY <1>5
    <3> QED BY <3>1, <3>2, <3>3
  <2> QED BY <2>1, <2>2
<1>10. v = b
  <2>1. v \in Seq(T) /\ b \in Seq(T) /\ Len(v) = Len(b) /\ \A i \in 1 .. Len(v) : v[i] = b[i]
    BY <1>1, <1>8, <1>9 DEF lb
  <2> QED BY <2>1, SeqEqual
<1> QED BY <1>10 DEF v, p, q, s, ab, la, lb

LEMMA Cut ==
  ASSUME NEW T, NEW s \in Seq(T), NEW m \in 0 .. Len(s), NEW n \in m .. Len(s)
  PROVE  /\ SubSeq(s, 1, m) \in Seq(T) /\ SubSeq(s, m + 1, n) \in Seq(T)
         /\ SubSeq(s, 1, n) = SubSeq(s, 1, m) \o SubSeq(s, m + 1, n)
         /\ Len(SubSeq(s, 1, m)) = m /\ Len(SubSeq(s, m + 1, n)) = n - m
         /\ \A i \in 1 .. n - m : SubSeq(s, m + 1, n)[i] = s[m + i]
<1> DEFINE N == Len(s)
<1>1. N \in Nat /\ m \in 0 .. N /\ n \in m .. N
  OBVIOUS
<1> HIDE DEF N
<1>2. /\ 1 \in 1 .. N + 1 /\ m \in 1 - 1 .. N /\ m + 1 \in 1 .. N + 1 /\ n \in 0 .. N
      /\ m \in 0 .. N /\ m \in Int /\ n \in Int /\ 1 \in Int /\ m + 1 \in Int
  BY <1>1
<1>3. SubSeq(s, 1, m) \in Seq(T) /\ SubSeq(s, m + 1, n) \in Seq(T)
  BY <1>2, PartOfBytes DEF N
<1>4. SubSeq(s, 1, m) \o SubSeq(s, m + 1, n) = SubSeq(s, 1, n)
  BY <1>1, <1>2, ConcatAdjacentSubSeq DEF N
<1>5. \A i \in 1 .. m : s[i] \in T
  BY <1>1 DEF N
<1>6. Len(SubSeq(s, 1, m)) = IF 1 <= m THEN m - 1 + 1 ELSE 0
  BY <1>2, <1>5, SubSeqProperties
<1>7. \A i \in m + 1 .. n : s[i] \in T
  BY <1>1 DEF N
<1> DEFINE p == m + 1
<1> HIDE DEF p
<1>8. /\ Len(SubSeq(s, p, n)) = (IF p <= n THEN n - p + 1 ELSE 0)
      /\ \A i \in 1 .. n - p + 1 : SubSeq(s, p, n)[i] = s[p + i - 1]
  BY <1>2, <1>7, SubSeqProperties DEF p
<1>9. Len(SubSeq(s, 1, m)) = m
  BY <1>1, <1>6
<1>10. Len(SubSeq(s, p, n)) = n - m
  BY <1>1, <1>8 DEF p
<1>11. ASSUME NEW i \in 1 .. n - m PROVE SubSeq(s, p, n)[i] = s[m + i]
  <2>1. i \in 1 .. n - p + 1 /\ p + i - 1 = m + i
    BY <1>1 DEF p
  <2> QED BY <1>8, <2>1
<1> QED BY <1>3, <1>4, <1>9, <1>10, <1>11 DEF p

LEMMA PartType ==
  ASSUME NEW u \in Seq(Writing), NEW m \in 0 .. Len(u), NEW n \in m .. Len(u)
  PROVE  /\ Part(u, m, n) \in Seq(Byte) /\ At(u, m) \in Nat
         /\ Spread(code, SubSeq(u, 1, n)) = Spread(code, SubSeq(u, 1, m)) \o Part(u, m, n)
         /\ At(u, n) = At(u, m) + Len(Part(u, m, n))
<1> DEFINE a == SubSeq(u, 1, m)
           b == SubSeq(u, m + 1, n)
<1>1. a \in Seq(Writing) /\ b \in Seq(Writing) /\ SubSeq(u, 1, n) = a \o b
  BY Cut
<1> HIDE DEF a, b
<1>2. Spread(code, a \o b) = Spread(code, a) \o Spread(code, b)
  BY <1>1, CodeConcat
<1>3. Spread(code, a) \in Seq(Byte) /\ Spread(code, b) \in Seq(Byte)
  BY <1>1, CodeSpread
<1>4. Len(Spread(code, a) \o Spread(code, b)) = Len(Spread(code, a)) + Len(Spread(code, b))
  BY <1>3, ConcatProperties
<1>5. Len(Spread(code, a)) \in Nat
  BY <1>3
<1> QED BY <1>1, <1>2, <1>3, <1>4, <1>5 DEF Part, At, a, b

LEMMA PartOfItems ==
  ASSUME NEW u \in Seq(Writing), NEW m \in 0 .. Len(u), NEW n \in m .. Len(u)
  PROVE  SubSeq(Spread(code, u), At(u, m) + 1, At(u, n)) = Part(u, m, n)
<1> DEFINE L == Len(u)
           a == Spread(code, SubSeq(u, 1, m))
           b == Part(u, m, n)
           c == Part(u, n, L)
<1>1. n \in 0 .. L /\ L \in n .. L /\ L \in Nat
  OBVIOUS
<1>2. /\ b \in Seq(Byte) /\ At(u, n) = At(u, m) + Len(b)
      /\ Spread(code, SubSeq(u, 1, n)) = a \o b
  BY PartType
<1>3. c \in Seq(Byte) /\ Spread(code, SubSeq(u, 1, L)) = Spread(code, SubSeq(u, 1, n)) \o c
  BY <1>1, PartType
<1>4. a \in Seq(Byte)
  <2>1. SubSeq(u, 1, m) \in Seq(Writing)
    BY Cut
  <2> QED BY <2>1, CodeSpread
<1>5. SubSeq(u, 1, L) = u
  BY SubSeqFull
<1>6. At(u, m) = Len(a)
  BY DEF At
<1> HIDE DEF a, b, c, L
<1>7. Three(Byte, a, b, c)
  BY <1>2, <1>3, <1>4 DEF Three
<1>8. SubSeq((a \o b) \o c, Len(a) + 1, Len(a) + Len(b)) = b
  BY <1>7, MiddlePart
<1> QED BY <1>2, <1>3, <1>5, <1>6, <1>8 DEF b

LEMMA PartOne ==
  ASSUME NEW u \in Seq(Writing), NEW q \in 0 .. Len(u) - 1
  PROVE  /\ u[q + 1] \in Writing /\ u[q + 1][2] \in Item
         /\ Part(u, q, q + 1) = Bytes(u[q + 1][2])
         /\ At(u, q) \in Nat /\ At(u, q + 1) = At(u, q) + Len(Bytes(u[q + 1][2]))
<1>1. Len(u) \in Nat /\ q \in 0 .. Len(u) /\ q + 1 \in q .. Len(u) /\ q + 1 \in 1 .. Len(u)
  OBVIOUS
<1>2. u[q + 1] \in Writing
  BY <1>1
<1>3. u[q + 1][2] \in Item /\ code[u[q + 1]] = Bytes(u[q + 1][2])
  BY <1>2, CodeOf
<1>4. SubSeq(u, q + 1, q + 1) = <<u[q + 1]>>
  <2> DEFINE p == q + 1
  <2>1. p \in 1 .. Len(u) /\ p \in p .. Len(u) /\ p \in Int /\ p + 1 \in Int /\ p < p + 1
    BY <1>1
  <2> HIDE DEF p
  <2>2. SubSeq(u, p, p) = <<u[p]>> \o SubSeq(u, p + 1, p)
    BY <2>1, SubSeqRecursiveFirst
  <2>3. SubSeq(u, p + 1, p) = <<>>
    BY <2>1, SubSeqEmpty
  <2>4. <<u[p]>> \o <<>> = <<u[p]>>
    OBVIOUS
  <2> QED BY <2>2, <2>3, <2>4 DEF p
<1>5. Spread(code, <<u[q + 1]>>) = code[u[q + 1]]
  <2> DEFINE x == u[q + 1]
  <2>1. x \in Writing /\ code \in [Writing -> Seq(Byte)]
    BY <1>2, CodeType
  <2> HIDE DEF x, code
  <2>2. Spread(code, <<x>>) = code[x]
    BY <2>1, SpreadOne
  <2> QED BY <2>2 DEF x
<1>6. Part(u, q, q + 1) = Bytes(u[q + 1][2])
  BY <1>3, <1>4, <1>5 DEF Part
<1>7. At(u, q) \in Nat /\ At(u, q + 1) = At(u, q) + Len(Part(u, q, q + 1))
  BY <1>1, PartType
<1> QED BY <1>2, <1>3, <1>6, <1>7

LEMMA AtEnds ==
  ASSUME NEW u \in Seq(Writing)
  PROVE  At(u, 0) = 0 /\ At(u, Len(u)) = Len(Spread(code, u)) /\ Spread(code, u) \in Seq(Byte)
<1>1. SubSeq(u, 1, 0) = <<>>
  <2>1. 1 \in Int /\ 0 \in Int /\ 0 < 1
    OBVIOUS
  <2> QED BY <2>1, SubSeqEmpty
<1>2. SubSeq(u, 1, Len(u)) = u
  BY SubSeqFull
<1>3. Spread(code, <<>>) = <<>> /\ Len(<<>>) = 0
  BY SpreadNothing
<1> QED BY <1>1, <1>2, <1>3, CodeSpread DEF At

LEMMA AtGrows ==
  ASSUME NEW u \in Seq(Writing), NEW m \in 0 .. Len(u), NEW n \in 0 .. Len(u)
  PROVE  At(u, m) \in Nat /\ At(u, n) \in Nat /\ (m < n <=> At(u, m) < At(u, n))
<1>1. ASSUME NEW i \in 0 .. Len(u), NEW j \in 0 .. Len(u), i < j
      PROVE  At(u, i) < At(u, j)
  <2> DEFINE h == i + 1
             L == Len(u)
  <2>1. L \in Nat /\ i \in 0 .. L - 1 /\ h \in 0 .. L /\ j \in h .. L
    BY <1>1
  <2> HIDE DEF L
  <2>2. /\ u[h][2] \in Item /\ At(u, i) \in Nat
        /\ At(u, h) = At(u, i) + Len(Bytes(u[h][2]))
    BY <2>1, PartOne DEF L
  <2>3. Len(Bytes(u[h][2])) \in {1, 2}
    BY <2>2, ItemLengths
  <2> HIDE DEF h
  <2>4. At(u, h) \in Nat /\ Part(u, h, j) \in Seq(Byte) /\ At(u, j) = At(u, h) + Len(Part(u, h, j))
    BY <2>1, PartType DEF L
  <2> DEFINE x == At(u, i)
             y == At(u, h)
             z == At(u, j)
             d == Len(Bytes(u[h][2]))
             e == Len(Part(u, h, j))
  <2>5. x \in Nat /\ d \in {1, 2} /\ y = x + d /\ e \in Nat /\ z = y + e
    BY <2>2, <2>3, <2>4
  <2> HIDE DEF x, y, z, d, e
  <2>6. x < z
    BY <2>5
  <2> QED BY <2>6 DEF x, z
<1>2. \A i \in 0 .. Len(u) : At(u, i) \in Nat
  <2> TAKE i \in 0 .. Len(u)
  <2>1. i \in i .. Len(u)
    OBVIOUS
  <2> QED BY <2>1, PartType
<1>3. At(u, m) \in Nat /\ At(u, n) \in Nat
  BY <1>2
<1>4. m < n \/ m = n \/ n < m
  OBVIOUS
<1>5. m < n => At(u, m) < At(u, n)
  BY <1>1
<1>6. n < m => At(u, n) < At(u, m)
  BY <1>1
<1> DEFINE x == At(u, m)
           y == At(u, n)
<1>7. x \in Nat /\ y \in Nat /\ (m < n => x < y) /\ (n < m => y < x) /\ (m = n => x = y)
  BY <1>3, <1>5, <1>6
<1> HIDE DEF x, y
<1>8. m < n <=> x < y
  BY <1>4, <1>7
<1> QED BY <1>3, <1>8 DEF x, y

(* The bytes of an item.                                                     *)
LEMMA ByteOfItem ==
  ASSUME NEW u \in Seq(Writing), NEW q \in 0 .. Len(u) - 1,
         NEW r \in 1 .. Len(Bytes(u[q + 1][2]))
  PROVE  /\ At(u, q) + r \in 1 .. Len(Spread(code, u))
         /\ Spread(code, u)[At(u, q) + r] = Bytes(u[q + 1][2])[r]
<1> DEFINE B == Spread(code, u)
           x == At(u, q)
           y == At(u, q + 1)
           z == At(u, Len(u))
           b == Bytes(u[q + 1][2])
<1>1. /\ Len(u) \in Nat /\ q \in 0 .. Len(u) /\ q + 1 \in 0 .. Len(u) /\ q + 1 \in q .. Len(u)
      /\ Len(u) \in 0 .. Len(u) /\ ~(Len(u) < q + 1)
  OBVIOUS
<1>2. /\ u[q + 1][2] \in Item /\ Part(u, q, q + 1) = b /\ x \in Nat /\ y = x + Len(b)
  BY PartOne
<1>3. z = Len(B) /\ B \in Seq(Byte)
  BY AtEnds
<1>4. z \in Nat /\ ~(z < y)
  BY <1>1, AtGrows
<1>5. SubSeq(B, x + 1, y) = b
  BY <1>1, <1>2, PartOfItems
<1>6. Len(b) \in Nat /\ r \in 1 .. Len(b)
  BY <1>2, ItemLengths
<1> HIDE DEF B, x, y, z, b
<1>7. x \in 0 .. Len(B) /\ y \in x .. Len(B) /\ r \in 1 .. y - x
  BY <1>2, <1>3, <1>4, <1>6
<1>8. SubSeq(B, x + 1, y)[r] = B[x + r]
  BY <1>3, <1>7, Cut
<1>9. x + r \in 1 .. Len(B)
  BY <1>3, <1>4, <1>7
<1> QED BY <1>5, <1>8, <1>9 DEF B, x, b

(* Each byte is one of an item.                                              *)
LEMMA ItemOfByte ==
  ASSUME NEW u \in Seq(Writing), NEW k \in 1 .. Len(Spread(code, u))
  PROVE  \E q \in 0 .. Len(u) - 1 : \E r \in 1 .. Len(Bytes(u[q + 1][2])) :
           k = At(u, q) + r /\ Spread(code, u)[k] = Bytes(u[q + 1][2])[r]
<1> DEFINE L == Len(u)
           S == {i \in 0 .. L : k <= At(u, i)}
           n == Least(S)
<1>1. L \in Nat /\ L \in 0 .. L /\ 0 \in 0 .. L /\ k \in Nat /\ k >= 1
  OBVIOUS
<1>2. At(u, 0) = 0 /\ At(u, L) = Len(Spread(code, u))
  BY AtEnds
<1>3. L \in S /\ S \in SUBSET Nat
  BY <1>1, <1>2
<1> HIDE DEF L
<1>4. n \in S /\ \A i \in S : n <= i
  <2> HIDE DEF S
  <2> QED BY <1>3, LeastElement
<1>5. n \in 0 .. L /\ k <= At(u, n) /\ n # 0
  BY <1>1, <1>2, <1>4
<1> HIDE DEF n
<1> DEFINE q == n - 1
<1>6. q \in 0 .. L - 1 /\ q \in 0 .. L /\ q + 1 = n
  BY <1>1, <1>5
<1> HIDE DEF q
<1>7. q \notin S
  <2>1. q < n /\ q \in Nat /\ n \in Nat
    BY <1>5, <1>6
  <2> HIDE DEF S
  <2> QED BY <1>4, <2>1
<1>8. /\ At(u, q) \in Nat /\ u[q + 1][2] \in Item
      /\ At(u, n) = At(u, q) + Len(Bytes(u[q + 1][2]))
  BY <1>6, PartOne DEF L
<1>9. Len(Bytes(u[q + 1][2])) \in Nat
  BY <1>8, ItemLengths
<1> DEFINE x == At(u, q)
           d == Len(Bytes(u[q + 1][2]))
           y == At(u, n)
<1>10. x \in Nat /\ d \in Nat /\ y = x + d /\ k <= y /\ ~(k <= x)
  BY <1>5, <1>6, <1>7, <1>8, <1>9
<1> HIDE DEF x, d, y
<1>11. k - x \in 1 .. d /\ k = x + (k - x)
  BY <1>1, <1>10
<1>12. PICK r \in 1 .. d : k = x + r
  BY <1>11
<1>13. Spread(code, u)[At(u, q) + r] = Bytes(u[q + 1][2])[r]
  BY <1>6, <1>12, ByteOfItem DEF L, d
<1> QED BY <1>6, <1>12, <1>13 DEF L, d, x

LEMMA TellingBytes ==
  ASSUME NEW item \in Item, NEW r \in 1 .. Len(Bytes(item))
  PROVE  /\ Bytes(item)[r] = "m1" => item = "marker" /\ r = 1
         /\ Bytes(item)[r] = "c1" => item = "clear" /\ r = 1
         /\ Bytes(item)[r] = "u1" => item = "wide" /\ r = 1
         /\ Bytes(item)[r] = "u2" => item = "wide" /\ r = 2
<1>1. item = "header" \/ item = "marker" \/ item = "clear" \/ item = "wide" \/ item = "plain"
  BY DEF Item
<1>2. r \in 1 .. (IF item = "plain" THEN 1 ELSE 2)
  BY ItemLengths
<1>3. r = 1 \/ (r = 2 /\ item # "plain")
  BY <1>2
<1>4. CASE item = "header"
  <2>1. Bytes(item)[1] = "h1" /\ Bytes(item)[2] = "h2"
    BY <1>4, BytesOfMarkers
  <2> QED BY <1>3, <1>4, <2>1
<1>5. CASE item = "marker"
  <2>1. Bytes(item)[1] = "m1" /\ Bytes(item)[2] = "m2"
    BY <1>5, BytesOfMarkers
  <2> QED BY <1>3, <1>5, <2>1
<1>6. CASE item = "clear"
  <2>1. Bytes(item)[1] = "c1" /\ Bytes(item)[2] = "c2"
    BY <1>6, BytesOfMarkers
  <2> QED BY <1>3, <1>6, <2>1
<1>7. CASE item = "wide"
  <2>1. Bytes(item)[1] = "u1" /\ Bytes(item)[2] = "u2"
    BY <1>7, BytesOfMarkers
  <2> QED BY <1>3, <1>7, <2>1
<1>8. CASE item = "plain"
  <2>1. Bytes(item)[1] = "a"
    BY <1>8, BytesOfMarkers
  <2> QED BY <1>3, <1>8, <2>1
<1> QED BY <1>1, <1>4, <1>5, <1>6, <1>7, <1>8

(* What is whole is UTF-8.                                                   *)
LEMMA ItemsAreUTF8 ==
  ASSUME NEW u \in Seq(Writing)
  PROVE  IsUTF8(Spread(code, u))
<1> DEFINE B == Spread(code, u)
<1>1. B \in Seq(Byte) /\ DOMAIN B = 1 .. Len(B) /\ Len(B) \in Nat
  BY AtEnds
<1>2. ASSUME NEW k \in 1 .. Len(B), B[k] \in {"u1", "u2"}
      PROVE  \E x \in Nat : /\ x + 1 \in 1 .. Len(B) /\ x + 2 \in 1 .. Len(B)
                            /\ B[x + 1] = "u1" /\ B[x + 2] = "u2"
                            /\ (B[k] = "u1" => k = x + 1) /\ (B[k] = "u2" => k = x + 2)
  <2>1. PICK q \in 0 .. Len(u) - 1 : \E r \in 1 .. Len(Bytes(u[q + 1][2])) :
               k = At(u, q) + r /\ B[k] = Bytes(u[q + 1][2])[r]
    BY ItemOfByte
  <2>2. PICK r \in 1 .. Len(Bytes(u[q + 1][2])) :
               k = At(u, q) + r /\ B[k] = Bytes(u[q + 1][2])[r]
    BY <2>1
  <2>3. u[q + 1][2] \in Item /\ At(u, q) \in Nat
    BY PartOne
  <2> DEFINE item == u[q + 1][2]
             x == At(u, q)
  <2>4. item = "wide" /\ (B[k] = "u1" => r = 1) /\ (B[k] = "u2" => r = 2)
    BY <1>2, <2>2, <2>3, TellingBytes
  <2>5. Bytes(item) = <<"u1", "u2">> /\ 1 \in 1 .. Len(Bytes(item)) /\ 2 \in 1 .. Len(Bytes(item))
    <3> HIDE DEF item
    <3>1. Bytes(item) = <<"u1", "u2">> /\ item # "plain" /\ item \in Item
      BY <2>3, <2>4, BytesOfMarkers DEF item
    <3>2. Len(Bytes(item)) = 2
      BY <3>1, ItemLengths
    <3> QED BY <3>1, <3>2
  <2>6. /\ x + 1 \in 1 .. Len(B) /\ B[x + 1] = Bytes(item)[1]
        /\ x + 2 \in 1 .. Len(B) /\ B[x + 2] = Bytes(item)[2]
    BY <2>5, ByteOfItem
  <2>7. Bytes(item)[1] = "u1" /\ Bytes(item)[2] = "u2"
    BY <2>5
  <2>8. (B[k] = "u1" => k = x + 1) /\ (B[k] = "u2" => k = x + 2)
    BY <2>2, <2>4
  <2> HIDE DEF x, item, B
  <2>9. x \in Nat
    BY <2>3 DEF x
  <2> QED BY <2>6, <2>7, <2>8, <2>9
<1> HIDE DEF B
<1>3. ASSUME NEW k \in 1 .. Len(B), B[k] = "u1" PROVE k < Len(B) /\ B[k + 1] = "u2"
  <2>1. PICK x \in Nat : /\ x + 1 \in 1 .. Len(B) /\ x + 2 \in 1 .. Len(B)
                         /\ B[x + 1] = "u1" /\ B[x + 2] = "u2" /\ k = x + 1
    BY <1>2, <1>3
  <2>2. k + 1 = x + 2 /\ k < Len(B)
    BY <1>1, <2>1
  <2> QED BY <2>1, <2>2
<1>4. ASSUME NEW k \in 1 .. Len(B), B[k] = "u2" PROVE k > 1 /\ B[k - 1] = "u1"
  <2>1. PICK x \in Nat : /\ x + 1 \in 1 .. Len(B) /\ x + 2 \in 1 .. Len(B)
                         /\ B[x + 1] = "u1" /\ B[x + 2] = "u2" /\ k = x + 2
    BY <1>2, <1>4
  <2>2. k - 1 = x + 1 /\ k > 1
    BY <1>1, <2>1
  <2> QED BY <2>1, <2>2
<1>5. IsUTF8(B)
  BY <1>1, <1>3, <1>4 DEF IsUTF8
<1> QED BY <1>5 DEF B

-----------------------------------------------------------------------------
(* The text that is routed where the items are whole: what becomes of each.  *)

show == [x \in Writing |-> Shown(x[2])]
Special(item) == item = "marker" \/ item = "clear"

LEMMA ShownType ==
  /\ Shown("header") = <<>> /\ Shown("marker") = <<"serve">> /\ Shown("clear") = <<"clear">>
  /\ Shown("wide") = Bytes("wide") /\ Shown("plain") = Bytes("plain")
  /\ \A item \in Item : Shown(item) \in Seq(Token)
<1>1. /\ Shown("header") = <<>> /\ Shown("marker") = <<"serve">> /\ Shown("clear") = <<"clear">>
      /\ Shown("wide") = Bytes("wide") /\ Shown("plain") = Bytes("plain")
  BY DEF Shown
<1>2. <<>> \in Seq(Token) /\ <<"serve">> \in Seq(Token) /\ <<"clear">> \in Seq(Token)
  <2>1. "serve" \in Token /\ "clear" \in Token
    BY DEF Token
  <2>2. \A t \in Token : <<t>> \in Seq(Token)
    OBVIOUS
  <2> QED BY <2>1, <2>2, EmptySeq
<1>3. Bytes("wide") \in Seq(Token) /\ Bytes("plain") \in Seq(Token)
  <2>1. Bytes("wide") \in Seq(Byte) /\ Bytes("plain") \in Seq(Byte)
    BY BytesType DEF Item
  <2> QED BY <2>1, RawOfBytes
<1>4. \A item \in Item : Shown(item) \in Seq(Token)
  <2> TAKE item \in Item
  <2>1. item = "header" \/ item = "marker" \/ item = "clear" \/ item = "wide" \/ item = "plain"
    BY DEF Item
  <2> QED BY <1>1, <1>2, <1>3, <2>1
<1> QED BY <1>1, <1>4

LEMMA ShowType ==
  /\ show \in [Writing -> Seq(Token)]
  /\ \A x \in Writing : show[x] = Shown(x[2])
  /\ \A s, t \in Seq(Writing) : Spread(show, s \o t) = Spread(show, s) \o Spread(show, t)
  /\ \A s \in Seq(Writing) : Spread(show, s) \in Seq(Token)
<1>1. \A x \in Writing : Shown(x[2]) \in Seq(Token)
  BY CodeOf, ShownType
<1>2. show \in [Writing -> Seq(Token)]
  BY <1>1 DEF show
<1>3. \A x \in Writing : show[x] = Shown(x[2])
  BY DEF show
<1> HIDE DEF show
<1>4. \A s, t \in Seq(Writing) : Spread(show, s \o t) = Spread(show, s) \o Spread(show, t)
  BY <1>2, SpreadConcat
<1>5. \A s \in Seq(Writing) : Spread(show, s) \in Seq(Token)
  BY <1>2, SpreadType
<1> QED BY <1>2, <1>3, <1>4, <1>5

LEMMA SpecialBytes ==
  ASSUME NEW item, Special(item)
  PROVE  /\ item \in Item /\ Len(Bytes(item)) = 2
         /\ Bytes(item)[1] = IF item = "marker" THEN "m1" ELSE "c1"
<1>1. item \in Item /\ item # "plain"
  BY DEF Special, Item
<1>2. Len(Bytes(item)) = 2
  BY <1>1, ItemLengths
<1>3. CASE item = "marker"
  BY <1>1, <1>2, <1>3, BytesOfMarkers
<1>4. CASE item = "clear"
  BY <1>1, <1>2, <1>4, BytesOfMarkers
<1> QED BY <1>3, <1>4 DEF Special

LEMMA OccurrenceIsItem ==
  ASSUME NEW u \in Seq(Writing), NEW m \in 0 .. Len(u), NEW n \in m .. Len(u),
         NEW item, Special(item),
         NEW k \in Occurs(Spread(code, u), item, At(u, m) + 1, At(u, n))
  PROVE  \E q \in m .. n - 1 :
           u[q + 1][2] = item /\ k = At(u, q) + 1 /\ At(u, q + 1) = At(u, q) + 2
<1> DEFINE B == Spread(code, u)
           lo == At(u, m)
           hi == At(u, n)
<1>1. B \in Seq(Byte) /\ Len(B) \in Nat /\ lo \in Nat /\ hi \in Nat /\ hi <= Len(B)
  <2>1. n \in 0 .. Len(u) /\ Len(u) \in 0 .. Len(u) /\ ~(Len(u) < n)
    OBVIOUS
  <2>2. lo \in Nat /\ hi \in Nat /\ At(u, Len(u)) \in Nat /\ ~(At(u, Len(u)) < hi)
    BY <2>1, AtGrows
  <2>3. B \in Seq(Byte) /\ At(u, Len(u)) = Len(B)
    BY AtEnds
  <2> HIDE DEF B, lo, hi
  <2> QED BY <2>2, <2>3
<1>2. k \in lo + 1 .. hi - 1 /\ SubSeq(B, k, k + 1) = Bytes(item)
  BY DEF Occurs
<1> HIDE DEF B, lo, hi
<1>3. k \in 1 .. Len(B) /\ k + 1 \in 1 .. Len(B) /\ k \in Int /\ k + 1 \in Int
  BY <1>1, <1>2
<1>4. B[k] = Bytes(item)[1]
  <2>1. \A i \in k .. k + 1 : B[i] \in Byte
    BY <1>1, <1>3
  <2> DEFINE e == k + 1
  <2>2. e \in Int /\ 1 \in 1 .. e - k + 1 /\ k + 1 - 1 = k
    BY <1>3
  <2> HIDE DEF e
  <2>3. SubSeq(B, k, e)[1] = B[k + 1 - 1]
    BY <1>3, <2>1, <2>2, SubSeqProperties DEF e
  <2> QED BY <1>2, <2>2, <2>3 DEF e
<1>5. PICK q \in 0 .. Len(u) - 1 : \E r \in 1 .. Len(Bytes(u[q + 1][2])) :
             k = At(u, q) + r /\ B[k] = Bytes(u[q + 1][2])[r]
  BY <1>3, ItemOfByte DEF B
<1>6. PICK r \in 1 .. Len(Bytes(u[q + 1][2])) :
             k = At(u, q) + r /\ B[k] = Bytes(u[q + 1][2])[r]
  BY <1>5
<1>7. /\ u[q + 1][2] \in Item /\ At(u, q) \in Nat
      /\ At(u, q + 1) = At(u, q) + Len(Bytes(u[q + 1][2]))
  BY PartOne
<1>8. u[q + 1][2] = item /\ r = 1
  <2>1. B[k] = IF item = "marker" THEN "m1" ELSE "c1"
    BY <1>4, SpecialBytes
  <2> QED BY <1>6, <1>7, <2>1, TellingBytes DEF Special
<1>9. k = At(u, q) + 1 /\ At(u, q + 1) = At(u, q) + 2
  BY <1>6, <1>7, <1>8, SpecialBytes
<1>10. q \in m .. n - 1
  <2>1. q \in 0 .. Len(u) /\ q + 1 \in 0 .. Len(u) /\ n \in 0 .. Len(u)
    OBVIOUS
  <2>2. (q < m <=> At(u, q) < lo) /\ (n < q + 1 <=> hi < At(u, q + 1)) /\ At(u, q + 1) \in Nat
    BY <2>1, AtGrows DEF lo, hi
  <2> DEFINE x == At(u, q)
             y == At(u, q + 1)
  <2>3. x \in Nat /\ y = x + 2 /\ k = x + 1
    BY <1>7, <1>9
  <2>4. (q < m <=> x < lo) /\ (n < q + 1 <=> hi < y)
    BY <2>2
  <2> HIDE DEF x, y
  <2>5. ~(x < lo) /\ ~(hi < y)
    BY <1>1, <1>2, <2>3
  <2> QED BY <2>4, <2>5
<1> QED BY <1>8, <1>9, <1>10

LEMMA ItemOccurs ==
  ASSUME NEW u \in Seq(Writing), NEW m \in 0 .. Len(u), NEW n \in m .. Len(u),
         NEW q \in m .. n - 1, Special(u[q + 1][2])
  PROVE  At(u, q) + 1 \in Occurs(Spread(code, u), u[q + 1][2], At(u, m) + 1, At(u, n))
<1> DEFINE B == Spread(code, u)
           lo == At(u, m)
           hi == At(u, n)
           item == u[q + 1][2]
           x == At(u, q)
           y == At(u, q + 1)
<1>1. /\ q \in 0 .. Len(u) - 1 /\ q \in 0 .. Len(u) /\ q + 1 \in 0 .. Len(u) /\ q + 1 \in q .. Len(u)
      /\ n \in 0 .. Len(u) /\ ~(q < m) /\ ~(n < q + 1)
  OBVIOUS
<1>2. Len(Bytes(item)) = 2
  BY SpecialBytes
<1>3. x \in Nat /\ y = x + Len(Bytes(item)) /\ Part(u, q, q + 1) = Bytes(item)
  BY <1>1, PartOne
<1>4. lo \in Nat /\ hi \in Nat /\ ~(x < lo) /\ ~(hi < y)
  BY <1>1, AtGrows
<1>5. SubSeq(B, x + 1, y) = Part(u, q, q + 1)
  BY <1>1, PartOfItems
<1> HIDE DEF B, lo, hi, item, x, y
<1>6. x + 1 \in lo + 1 .. hi - 1 /\ y = (x + 1) + 1
  BY <1>2, <1>3, <1>4
<1>7. SubSeq(B, x + 1, (x + 1) + 1) = Bytes(item)
  BY <1>3, <1>5, <1>6
<1>8. x + 1 \in Occurs(B, item, lo + 1, hi)
  BY <1>6, <1>7 DEF Occurs
<1> QED BY <1>8 DEF B, lo, hi, item, x

LEMMA SpreadSame ==
  ASSUME NEW s, NEW f, NEW g, \A k \in DOMAIN s : f[s[k]] = g[s[k]]
  PROVE  Spread(f, s) = Spread(g, s)
<1>1. [k \in DOMAIN s |-> f[s[k]]] = [k \in DOMAIN s |-> g[s[k]]]
  OBVIOUS
<1> QED BY <1>1 DEF Spread

(* Around an item.                                                           *)
LEMMA ShowAround ==
  ASSUME NEW u \in Seq(Writing), NEW m \in 0 .. Len(u), NEW n \in m .. Len(u), NEW q \in m .. n - 1
  PROVE  Spread(show, SubSeq(u, m + 1, n))
           = (Spread(show, SubSeq(u, m + 1, q)) \o Shown(u[q + 1][2]))
               \o Spread(show, SubSeq(u, q + 1 + 1, n))
<1> DEFINE L == Len(u)
           p == q + 1
           a == SubSeq(u, m + 1, q)
           b == SubSeq(u, q + 1, p)
           c == SubSeq(u, p + 1, n)
<1>1. /\ m + 1 \in 1 .. L + 1 /\ q \in (m + 1) - 1 .. L /\ p \in q .. L
      /\ p \in (m + 1) - 1 .. L /\ n \in p .. L /\ q \in 1 - 1 .. L /\ q \in 0 .. L
      /\ m \in 0 .. L /\ q \in m .. L /\ p \in 0 .. L /\ p \in 1 .. L /\ p \in p .. L
      /\ p \in Int /\ p + 1 \in Int /\ p < p + 1
  OBVIOUS
<1>2. SubSeq(u, m + 1, q) \o SubSeq(u, q + 1, p) = SubSeq(u, m + 1, p)
  BY <1>1, ConcatAdjacentSubSeq
<1>3. SubSeq(u, m + 1, p) \o SubSeq(u, p + 1, n) = SubSeq(u, m + 1, n)
  BY <1>1, ConcatAdjacentSubSeq
<1>4. a \in Seq(Writing) /\ c \in Seq(Writing)
  BY <1>1, Cut
<1>5. b = <<u[p]>> /\ u[p] \in Writing
  <2> HIDE DEF p
  <2>1. SubSeq(u, p, p) = <<u[p]>> \o SubSeq(u, p + 1, p)
    BY <1>1, SubSeqRecursiveFirst
  <2>2. SubSeq(u, p + 1, p) = <<>>
    BY <1>1, SubSeqEmpty
  <2>3. <<u[p]>> \o <<>> = <<u[p]>>
    OBVIOUS
  <2>4. u[p] \in Writing
    BY <1>1
  <2> QED BY <2>1, <2>2, <2>3, <2>4 DEF p
<1>6. b \in Seq(Writing) /\ Spread(show, b) = Shown(u[p][2])
  <2> DEFINE x == u[p]
  <2>1. x \in Writing
    BY <1>5
  <2>2. b = <<x>>
    BY <1>5
  <2> HIDE DEF x, b
  <2>3. <<x>> \in Seq(Writing)
    BY <2>1
  <2>4. show \in [Writing -> Seq(Token)]
    BY ShowType
  <2>5. Spread(show, <<x>>) = show[x]
    BY ZenonT(60), <2>1, <2>4, SpreadOne
  <2>6. show[x] = Shown(x[2])
    BY <2>1, ShowType
  <2> QED BY <2>2, <2>3, <2>5, <2>6 DEF x
<1>7. SubSeq(u, m + 1, n) = (a \o b) \o c
  BY <1>2, <1>3
<1> HIDE DEF a, b, c, L
<1>8. a \o b \in Seq(Writing)
  BY <1>4, <1>6, ConcatProperties
<1>9. Spread(show, a \o b) = Spread(show, a) \o Spread(show, b)
  BY <1>4, <1>6, ShowType
<1>10. Spread(show, (a \o b) \o c) = Spread(show, a \o b) \o Spread(show, c)
  <2> DEFINE ab == a \o b
  <2>1. ab \in Seq(Writing)
    BY <1>8
  <2> HIDE DEF ab
  <2>2. Spread(show, ab \o c) = Spread(show, ab) \o Spread(show, c)
    BY <1>4, <2>1, ShowType
  <2> QED BY <2>2 DEF ab
<1> QED BY <1>6, <1>7, <1>9, <1>10 DEF a, c, p

LEMMA RouteOfItems ==
  ASSUME NEW u \in Seq(Writing), \A k \in 1 .. Len(u) : u[k][2] # "header"
  PROVE  Route(Spread(code, u)) = Spread(show, u)
<1> DEFINE B == Spread(code, u)
           N == Len(B)
           L == Len(u)
<1>1. B \in Seq(Byte) /\ N \in Nat /\ L \in Nat /\ At(u, 0) = 0 /\ At(u, L) = N
  BY AtEnds
<1>2. PICK route : IsRoute(B, route) /\ Route(B) = route[<<1, N>>]
  BY <1>1, RouteIsFunction
<1> DEFINE Routed(m, n) == route[<<At(u, m) + 1, At(u, n)>>] = Spread(show, SubSeq(u, m + 1, n))
           S == {d \in Nat : \A m \in 0 .. L : \A n \in m .. L : n - m < d => Routed(m, n)}
<1> HIDE DEF B, N
<1>3. 0 \in S
  <2>1. \A m \in 0 .. L : \A n \in m .. L : ~(n - m < 0)
    BY <1>1
  <2> QED BY <2>1
<1>4. ASSUME NEW d \in Nat, d \in S PROVE d + 1 \in S
  <2>1. ASSUME NEW m \in 0 .. L, NEW n \in m .. L, n - m < d + 1 PROVE Routed(m, n)
    <3> DEFINE i == At(u, m) + 1
               j == At(u, n)
    <3>1. i \in 1 .. N + 1 /\ j \in 0 .. N /\ n \in 0 .. L
      <4>1. n \in 0 .. L /\ L \in 0 .. L /\ ~(L < n) /\ ~(L < m)
        BY <1>1
      <4>2. At(u, m) \in Nat /\ At(u, n) \in Nat /\ ~(At(u, L) < At(u, n)) /\ ~(At(u, L) < At(u, m))
        BY <4>1, AtGrows
      <4> QED BY <1>1, <4>1, <4>2
    <3>2. route[<<i, j>>] = Between(B, i, j, route)
      <4> HIDE DEF i, j
      <4>1. <<i, j>> \in Grid(N)
        BY <3>1 DEF Grid
      <4> QED BY <1>2, <4>1 DEF IsRoute, N
    <3>3. ASSUME NEW item, Special(item), Occurs(B, item, i, j) # {},
                 route[<<i, j>>] =
                   (route[<<i, Least(Occurs(B, item, i, j)) - 1>>] \o Shown(item))
                     \o route[<<Least(Occurs(B, item, i, j)) + 2, j>>]
          PROVE  Routed(m, n)
      <4> DEFINE T == Occurs(B, item, i, j)
                 k == Least(T)
      <4>1. k \in T
        <5>1. T \in SUBSET Nat /\ T # {}
          BY <3>1, <3>3 DEF Occurs
        <5> HIDE DEF T
        <5> QED BY <5>1, LeastElement
      <4> HIDE DEF k
      <4>2. PICK q \in m .. n - 1 :
                   u[q + 1][2] = item /\ k = At(u, q) + 1 /\ At(u, q + 1) = At(u, q) + 2
        BY <3>3, <4>1, OccurrenceIsItem DEF B
      <4>3. /\ q \in 0 .. L /\ q \in m .. L /\ q + 1 \in 0 .. L /\ n \in q + 1 .. L
            /\ q - m < d /\ n - (q + 1) < d /\ q \in 0 .. Len(u) - 1
        BY <1>1, <2>1
      <4>4. Routed(m, q) /\ Routed(q + 1, n)
        <5> HIDE DEF Routed
        <5> QED BY <1>4, <4>3
      <4>5. k - 1 = At(u, q) /\ k + 2 = At(u, q + 1) + 1
        <5>1. At(u, q) \in Nat
          BY <4>3, AtGrows
        <5> DEFINE x == At(u, q)
                   y == At(u, q + 1)
        <5>2. x \in Nat /\ k = x + 1 /\ y = x + 2
          BY <4>2, <5>1
        <5> HIDE DEF x, y
        <5>3. k - 1 = x /\ k + 2 = y + 1
          BY <5>2
        <5> QED BY <5>3 DEF x, y
      <4>6. /\ route[<<i, k - 1>>] = Spread(show, SubSeq(u, m + 1, q))
            /\ route[<<k + 2, j>>] = Spread(show, SubSeq(u, q + 1 + 1, n))
        BY <4>4, <4>5
      <4>7. Spread(show, SubSeq(u, m + 1, n))
              = (Spread(show, SubSeq(u, m + 1, q)) \o Shown(u[q + 1][2]))
                  \o Spread(show, SubSeq(u, q + 1 + 1, n))
        BY ShowAround
      <4>8. route[<<i, j>>] = (route[<<i, k - 1>>] \o Shown(item)) \o route[<<k + 2, j>>]
        BY <3>3 DEF k
      <4> QED BY <4>2, <4>6, <4>7, <4>8
    <3> DEFINE M == Occurs(B, "marker", i, j)
               C == Occurs(B, "clear", i, j)
    <3>4. CASE M # {}
      <4>1. route[<<i, j>>] =
              (route[<<i, Least(M) - 1>>] \o <<"serve">>) \o route[<<Least(M) + 2, j>>]
        BY <3>2, <3>4 DEF Between
      <4>2. Shown("marker") = <<"serve">> /\ Special("marker")
        BY ShownType DEF Special
      <4> HIDE DEF i, j, Routed
      <4> QED BY <3>3, <3>4, <4>1, <4>2
    <3>5. CASE M = {} /\ C # {}
      <4>1. route[<<i, j>>] =
              (route[<<i, Least(C) - 1>>] \o <<"clear">>) \o route[<<Least(C) + 2, j>>]
        BY <3>2, <3>5 DEF Between
      <4>2. Shown("clear") = <<"clear">> /\ Special("clear")
        BY ShownType DEF Special
      <4> HIDE DEF i, j, Routed
      <4> QED BY <3>3, <3>5, <4>1, <4>2
    <3>6. CASE M = {} /\ C = {}
      <4>1. route[<<i, j>>] = SubSeq(B, i, j)
        BY <3>2, <3>6 DEF Between
      <4>2. SubSeq(B, i, j) = Spread(code, SubSeq(u, m + 1, n))
        BY PartOfItems DEF B, Part
      <4> DEFINE v == SubSeq(u, m + 1, n)
      <4>3. v \in Seq(Writing) /\ Len(v) = n - m /\ \A x \in 1 .. n - m : v[x] = u[m + x]
        BY Cut
      <4> HIDE DEF v
      <4>4. ASSUME NEW x \in 1 .. n - m PROVE code[v[x]] = show[v[x]]
        <5> DEFINE q == m + x - 1
        <5>1. q \in m .. n - 1 /\ q + 1 = m + x /\ q \in 0 .. Len(u) - 1 /\ q + 1 \in 1 .. Len(u)
          BY <1>1
        <5> HIDE DEF q
        <5>2. u[q + 1] \in Writing /\ u[q + 1][2] \in Item /\ u[q + 1][2] # "header"
          BY <5>1, PartOne
        <5>3. ~Special(u[q + 1][2])
          <6>1. SUFFICES ASSUME Special(u[q + 1][2]) PROVE FALSE
            OBVIOUS
          <6>2. At(u, q) + 1 \in Occurs(B, u[q + 1][2], i, j)
            BY <5>1, <6>1, ItemOccurs DEF B
          <6> QED BY <3>6, <6>1, <6>2 DEF Special
        <5>4. u[q + 1][2] = "wide" \/ u[q + 1][2] = "plain"
          BY <5>2, <5>3 DEF Item, Special
        <5>5. Shown(u[q + 1][2]) = Bytes(u[q + 1][2])
          BY <5>4, ShownType
        <5>6. code[u[q + 1]] = Bytes(u[q + 1][2]) /\ show[u[q + 1]] = Shown(u[q + 1][2])
          BY <5>2, CodeOf, ShowType
        <5>7. v[x] = u[q + 1]
          BY <4>3, <5>1
        <5> QED BY <5>5, <5>6, <5>7
      <4>5. \A x \in DOMAIN v : code[v[x]] = show[v[x]]
        BY <4>3, <4>4
      <4>6. Spread(code, v) = Spread(show, v)
        BY <4>5, SpreadSame
      <4> QED BY <4>1, <4>2, <4>6 DEF v
    <3> QED BY <3>4, <3>5, <3>6
  <2> HIDE DEF Routed
  <2> QED BY <2>1
<1>5. Nat \subseteq S
  <2> HIDE DEF S
  <2> QED BY <1>3, <1>4, InductionOnNat
<1>6. Routed(0, L)
  <2>1. 0 \in 0 .. L /\ L \in 0 .. L /\ L + 1 \in S /\ L - 0 < L + 1
    <3> HIDE DEF S
    <3> QED BY <1>1, <1>5
  <2> HIDE DEF Routed
  <2> QED BY <2>1
<1>7. SubSeq(u, 0 + 1, L) = u /\ At(u, 0) + 1 = 1
  <2>1. SubSeq(u, 1, L) = u
    BY SubSeqFull
  <2> QED BY <1>1, <2>1
<1> QED BY <1>1, <1>2, <1>6, <1>7 DEF B

-----------------------------------------------------------------------------
(* What a cell sends for its items.                                          *)

showOf == [x \in Writing |-> ShownIn(x[1], x[2])]

LEMMA SentConcat ==
  ASSUME NEW c, NEW s \in Seq(Token), NEW t \in Seq(Token)
  PROVE  SentIn(c, s \o t) = SentIn(c, s) \o SentIn(c, t)
<1> DEFINE st == s \o t
           a == SentIn(c, s)
           b == SentIn(c, t)
           d == SentIn(c, st)
           P == {c} \X Token
<1>1. /\ Len(s) \in Nat /\ Len(t) \in Nat /\ st \in Seq(Token) /\ Len(st) = Len(s) + Len(t)
      /\ \A i \in 1 .. Len(s) + Len(t) : st[i] = IF i <= Len(s) THEN s[i] ELSE t[i - Len(s)]
  BY ConcatProperties
<1> HIDE DEF st
<1>2. ASSUME NEW r \in Seq(Token)
      PROVE  /\ SentIn(c, r) \in Seq(P) /\ Len(SentIn(c, r)) = Len(r)
             /\ \A k \in 1 .. Len(r) : SentIn(c, r)[k] = <<c, r[k]>>
  <2>1. DOMAIN r = 1 .. Len(r) /\ Len(r) \in Nat /\ \A k \in 1 .. Len(r) : <<c, r[k]>> \in P
    OBVIOUS
  <2>2. SentIn(c, r) = [k \in 1 .. Len(r) |-> <<c, r[k]>>]
    BY <2>1 DEF SentIn
  <2> HIDE DEF P
  <2> QED BY <2>1, <2>2
<1>3. /\ a \in Seq(P) /\ Len(a) = Len(s) /\ \A k \in 1 .. Len(s) : a[k] = <<c, s[k]>>
      /\ b \in Seq(P) /\ Len(b) = Len(t) /\ \A k \in 1 .. Len(t) : b[k] = <<c, t[k]>>
      /\ d \in Seq(P) /\ Len(d) = Len(s) + Len(t)
      /\ \A k \in 1 .. Len(s) + Len(t) : d[k] = <<c, st[k]>>
  BY <1>1, <1>2
<1> HIDE DEF a, b, d, P
<1>4. /\ a \o b \in Seq(P) /\ Len(a \o b) = Len(s) + Len(t)
      /\ \A i \in 1 .. Len(s) + Len(t) : (a \o b)[i] = IF i <= Len(s) THEN a[i] ELSE b[i - Len(s)]
  <2>1. a \in Seq(P) /\ b \in Seq(P)
    BY <1>3
  <2>2. /\ a \o b \in Seq(P) /\ Len(a \o b) = Len(a) + Len(b)
        /\ \A i \in 1 .. Len(a) + Len(b) : (a \o b)[i] = IF i <= Len(a) THEN a[i] ELSE b[i - Len(a)]
    BY <2>1, ConcatProperties
  <2> QED BY <1>3, <2>2
<1> DEFINE e == a \o b
<1> HIDE DEF e
<1>5. ASSUME NEW i \in 1 .. Len(s) + Len(t) PROVE d[i] = e[i]
  <2>1. e[i] = IF i <= Len(s) THEN a[i] ELSE b[i - Len(s)]
    BY <1>4 DEF e
  <2>2. CASE i <= Len(s)
    <3>1. i \in 1 .. Len(s)
      BY <1>1, <2>2
    <3> QED BY <1>1, <1>3, <2>1, <2>2, <3>1
  <2>3. CASE ~(i <= Len(s))
    <3>1. i - Len(s) \in 1 .. Len(t)
      BY <1>1, <2>3
    <3> QED BY <1>1, <1>3, <2>1, <2>3, <3>1
  <2> QED BY <2>2, <2>3
<1>6. d = e
  <2>1. d \in Seq(P) /\ e \in Seq(P) /\ Len(d) = Len(e) /\ \A i \in 1 .. Len(d) : d[i] = e[i]
    BY <1>3, <1>4, <1>5 DEF e
  <2> QED BY <2>1, SeqEqual
<1> QED BY <1>6 DEF st, a, b, d, e

LEMMA ShowOfType ==
  /\ showOf \in [Writing -> Seq(Sending)]
  /\ \A x \in Writing : showOf[x] = SentIn(x[1], Shown(x[2]))
  /\ \A s, t \in Seq(Writing) : Spread(showOf, s \o t) = Spread(showOf, s) \o Spread(showOf, t)
  /\ \A s \in Seq(Writing) : Spread(showOf, s) \in Seq(Sending)
<1>1. \A x \in Writing : ShownIn(x[1], x[2]) = SentIn(x[1], Shown(x[2]))
  BY DEF ShownIn, SentIn
<1>2. \A x \in Writing : x[1] \in 1 .. MaxCells /\ Shown(x[2]) \in Seq(Token)
  BY CodeOf, ShownType DEF Writing
<1>3. \A x \in Writing : SentIn(x[1], Shown(x[2])) \in Seq(Sending)
  BY <1>2, SentInType
<1>4. \A x \in Writing : showOf[x] = SentIn(x[1], Shown(x[2]))
  BY <1>1 DEF showOf
<1>5. showOf \in [Writing -> Seq(Sending)]
  <2>1. showOf = [x \in Writing |-> showOf[x]]
    BY DEF showOf
  <2> HIDE DEF showOf
  <2> QED BY <1>3, <1>4, <2>1
<1> HIDE DEF showOf
<1>6. \A s, t \in Seq(Writing) : Spread(showOf, s \o t) = Spread(showOf, s) \o Spread(showOf, t)
  BY <1>5, SpreadConcat
<1>7. \A s \in Seq(Writing) : Spread(showOf, s) \in Seq(Sending)
  BY <1>5, SpreadType
<1> QED BY <1>4, <1>5, <1>6, <1>7

InCell(c, u) == \A k \in 1 .. Len(u) : u[k][1] = c

LEMMA SentOfItems ==
  ASSUME NEW c \in 1 .. MaxCells, NEW u \in Seq(Writing), InCell(c, u)
  PROVE  SentIn(c, Spread(show, u)) = Spread(showOf, u)
<1> DEFINE P == {s \in Seq(Writing) :
                   InCell(c, s) => SentIn(c, Spread(show, s)) = Spread(showOf, s)}
<1>1. <<>> \in P
  <2>1. SentIn(c, <<>>) = <<>>
    BY DEF SentIn
  <2>2. <<>> \in Seq(Writing)
    BY EmptySeq
  <2> QED BY <2>1, <2>2, SpreadNothing
<1>2. ASSUME NEW s \in Seq(Writing), NEW x \in Writing, s \in P PROVE Append(s, x) \in P
  <2> DEFINE t == Append(s, x)
  <2>1. /\ t \in Seq(Writing) /\ Len(t) = Len(s) + 1 /\ t[Len(s) + 1] = x
        /\ \A k \in 1 .. Len(s) : t[k] = s[k]
    BY AppendProperties
  <2>2. show \in [Writing -> Seq(Token)]
    BY ShowType
  <2>3. showOf \in [Writing -> Seq(Sending)]
    BY ShowOfType
  <2>4. Spread(show, t) = Spread(show, s) \o show[x]
    BY ZenonT(60), <2>2, SpreadAppend
  <2>5. Spread(showOf, t) = Spread(showOf, s) \o showOf[x]
    BY ZenonT(60), <2>3, SpreadAppend
  <2> HIDE DEF t
  <2>6. SUFFICES ASSUME InCell(c, t) PROVE SentIn(c, Spread(show, t)) = Spread(showOf, t)
    BY <2>1 DEF t
  <2>7. InCell(c, s) /\ x[1] = c
    <3>1. Len(s) \in Nat
      OBVIOUS
    <3>2. Len(s) + 1 \in 1 .. Len(t) /\ \A k \in 1 .. Len(s) : k \in 1 .. Len(t)
      BY <2>1, <3>1
    <3> QED BY <2>1, <2>6, <3>2 DEF InCell
  <2>8. SentIn(c, Spread(show, s)) = Spread(showOf, s)
    BY <1>2, <2>7
  <2>9. Spread(show, s) \in Seq(Token) /\ show[x] \in Seq(Token) /\ show[x] = Shown(x[2])
    BY ShowType
  <2>10. SentIn(c, Spread(show, s) \o show[x]) = SentIn(c, Spread(show, s)) \o SentIn(c, show[x])
    BY <2>9, SentConcat
  <2>11. showOf[x] = SentIn(c, show[x])
    BY <2>7, <2>9, ShowOfType
  <2> QED BY <2>4, <2>5, <2>8, <2>10, <2>11
<1> HIDE DEF P
<1>3. u \in P
  BY <1>1, <1>2, InductionOnSeq
<1> QED BY <1>3 DEF P

(* The text of whole items is taken, the header off it, and each is shown.   *)
Bare(u) == \A k \in 1 .. Len(u) : u[k][2] # "header"
HeadedItems(u) == \A k \in 1 .. Len(u) : u[k][2] = "header" <=> k = 1

LEMMA BareSent ==
  ASSUME NEW c \in 1 .. MaxCells, NEW u \in Seq(Writing), InCell(c, u), Bare(u)
  PROVE  SentIn(c, Route(Spread(code, u))) = Spread(showOf, u)
<1>1. Route(Spread(code, u)) = Spread(show, u)
  BY RouteOfItems DEF Bare
<1> QED BY <1>1, SentOfItems

LEMMA HeadedSent ==
  ASSUME NEW c \in 1 .. MaxCells, NEW u \in Seq(Writing), InCell(c, u), HeadedItems(u), u # <<>>
  PROVE  /\ Headed(Spread(code, u))
         /\ SentIn(c, Route(SubSeq(Spread(code, u), 3, Len(Spread(code, u))))) = Spread(showOf, u)
<1> DEFINE L == Len(u)
           t == SubSeq(u, 2, L)
           x == u[1]
           h == Bytes("header")
           y == Spread(code, t)
<1>1. L \in Nat /\ L # 0 /\ 1 \in 1 .. L /\ L \in 1 .. L /\ 1 \in 0 .. L /\ 1 + 1 = 2
  BY EmptySeq
<1>2. x \in Writing /\ x[1] = c /\ x[2] = "header"
  BY <1>1 DEF InCell, HeadedItems
<1>3. u = <<x>> \o t
  <2>1. SubSeq(u, 1, L) = <<u[1]>> \o SubSeq(u, 1 + 1, L)
    BY <1>1, SubSeqRecursiveFirst
  <2>2. SubSeq(u, 1, L) = u
    BY SubSeqFull
  <2> QED BY <1>1, <2>1, <2>2
<1>4. /\ t \in Seq(Writing) /\ Len(t) = L - 1 /\ \A i \in 1 .. L - 1 : t[i] = u[1 + i]
  <2>1. /\ SubSeq(u, 1 + 1, L) \in Seq(Writing) /\ Len(SubSeq(u, 1 + 1, L)) = L - 1
        /\ \A i \in 1 .. L - 1 : SubSeq(u, 1 + 1, L)[i] = u[1 + i]
    <3> DEFINE m == 1
               n == L
    <3>1. u \in Seq(Writing) /\ m \in 0 .. Len(u) /\ n \in m .. Len(u)
      BY <1>1
    <3> HIDE DEF m, n
    <3>2. /\ SubSeq(u, m + 1, n) \in Seq(Writing) /\ Len(SubSeq(u, m + 1, n)) = n - m
          /\ \A i \in 1 .. n - m : SubSeq(u, m + 1, n)[i] = u[m + i]
      BY <3>1, Cut
    <3> QED BY <3>2 DEF m, n
  <2> QED BY <1>1, <2>1
<1>5. <<x>> \in Seq(Writing) /\ x \in Writing
  <2> HIDE DEF x
  <2> QED BY <1>2
<1> HIDE DEF t
<1>6. InCell(c, t) /\ Bare(t)
  <2>1. \A i \in 1 .. L - 1 : 1 + i \in 1 .. L /\ 1 + i # 1
    BY <1>1
  <2> QED BY SMTT(30), <1>4, <2>1 DEF InCell, Bare, HeadedItems
<1>7. SentIn(c, Route(y)) = Spread(showOf, t)
  BY <1>4, <1>6, BareSent
<1>8. Spread(showOf, u) = Spread(showOf, t)
  <2> HIDE DEF x
  <2>1. Spread(showOf, <<x>> \o t) = Spread(showOf, <<x>>) \o Spread(showOf, t)
    BY <1>4, <1>5, ShowOfType
  <2>2. Spread(showOf, <<x>>) = showOf[x]
    BY <1>5, ShowOfType, SpreadOne
  <2>3. showOf[x] = SentIn(c, Shown("header")) /\ Shown("header") = <<>>
    BY <1>2, <1>5, ShowOfType, ShownType
  <2>4. SentIn(c, <<>>) = <<>>
    BY DEF SentIn
  <2>5. Spread(showOf, t) \in Seq(Sending)
    BY <1>4, ShowOfType
  <2>6. <<>> \o Spread(showOf, t) = Spread(showOf, t)
    BY <2>5, ConcatEmptySeq
  <2> QED BY <1>3, <2>1, <2>2, <2>3, <2>4, <2>6
<1>9. Spread(code, u) = h \o y
  <2> HIDE DEF x
  <2>1. Spread(code, <<x>> \o t) = Spread(code, <<x>>) \o Spread(code, t)
    BY <1>4, <1>5, CodeConcat
  <2>2. Spread(code, <<x>>) = code[x]
    BY <1>5, CodeType, SpreadOne
  <2>3. code[x] = h
    BY <1>2, <1>5, CodeOf
  <2> QED BY <1>3, <2>1, <2>2, <2>3
<1>10. h \in Seq(Byte) /\ Len(h) = 2 /\ y \in Seq(Byte)
  BY <1>4, BytesType, ItemLengths, CodeSpread DEF Item
<1> HIDE DEF h, y, x, L
<1> DEFINE b == h \o y
<1>11. b \in Seq(Byte) /\ Len(b) = 2 + Len(y) /\ Len(y) \in Nat
  <2>1. h \in Seq(Byte) /\ y \in Seq(Byte)
    BY <1>10
  <2>2. h \o y \in Seq(Byte) /\ Len(h \o y) = Len(h) + Len(y)
    BY <2>1, ConcatProperties
  <2>3. Len(y) \in Nat
    BY <2>1
  <2> QED BY <1>10, <2>2, <2>3
<1>12. Smaller(2, Len(b)) = 2
  BY <1>11 DEF Smaller
<1>13. SubSeq(b, 1, 2) = h
  BY <1>10, PrefixOfConcat
<1>14. Headed(b)
  BY <1>12, <1>13 DEF Headed, h
<1>15. SubSeq(b, 3, Len(b)) = y
  <2>1. Three(Byte, h, y, <<>>)
    BY <1>10, EmptySeq DEF Three
  <2>2. SubSeq((h \o y) \o <<>>, Len(h) + 1, Len(h) + Len(y)) = y
    BY <2>1, MiddlePart
  <2>3. (h \o y) \o <<>> = b
    BY <1>11, ConcatEmptySeq
  <2>4. Len(h) + 1 = 3 /\ Len(h) + Len(y) = Len(b)
    BY <1>10, <1>11
  <2> QED BY <2>2, <2>3, <2>4
<1> QED BY <1>7, <1>8, <1>9, <1>14, <1>15

LEMMA TextOfItems ==
  ASSUME NEW c \in 1 .. MaxCells, NEW u \in Seq(Writing), NEW had \in BOOLEAN, InCell(c, u),
         had => Bare(u), ~had => HeadedItems(u)
  PROVE  /\ Spread(code, u) = <<>> \/ had \/ Headed(Spread(code, u))
         /\ SentIn(c, Route(TextOf(Spread(code, u), had))) = Spread(showOf, u)
<1>1. CASE had
  BY <1>1, BareSent DEF TextOf
<1>2. CASE ~had /\ u # <<>>
  BY <1>2, HeadedSent DEF TextOf
<1>3. CASE ~had /\ u = <<>>
  <2>1. Spread(code, u) = <<>> /\ InCell(c, <<>>) /\ Bare(<<>>) /\ <<>> \in Seq(Writing)
    BY <1>3, SpreadNothing DEF InCell, Bare
  <2>2. SentIn(c, Route(Spread(code, <<>>))) = Spread(showOf, <<>>)
    BY <2>1, BareSent
  <2>3. SubSeq(<<>>, 3, Len(<<>>)) = <<>>
    <3>1. 0 \in Int /\ 3 \in Int /\ 0 < 3 /\ Len(<<>>) = 0
      OBVIOUS
    <3>2. SubSeq(<<>>, 3, 0) = <<>>
      BY <3>1, SubSeqEmpty
    <3> QED BY <3>1, <3>2
  <2> QED BY <1>3, <2>1, <2>2, <2>3 DEF TextOf
<1> QED BY <1>1, <1>2, <1>3

-----------------------------------------------------------------------------
(* As long as no item was cut and no cell left output behind, the first n    *)
(* items are drained and shown, and the rest is of the cell that runs.       *)

Whole(n) ==
  /\ n \in 0 .. Len(written) /\ ~failed
  /\ drained = At(written, n)
  /\ sent = Spread(showOf, SubSeq(written, 1, n))
  /\ phase = "idle" => n = Len(written)
  /\ \A k \in 1 .. Len(written) : written[k][1] <= cell
  /\ \A k \in n + 1 .. Len(written) : written[k][1] = cell
  /\ hadStdout => \A k \in n + 1 .. Len(written) : written[k][2] # "header"
  /\ ~hadStdout => /\ \A k \in 1 .. n : written[k][1] # cell
                   /\ \A k \in n + 1 .. Len(written) : written[k][2] = "header" <=> k = n + 1

(* The inductive invariant behind InItsPlace.                                *)
WInv == ~torn /\ ~late => \E n : Whole(n)

LEMMA AppendKeepsBeginning ==
  ASSUME NEW T, NEW s \in Seq(T), NEW x \in T, NEW n \in 0 .. Len(s)
  PROVE  /\ SubSeq(Append(s, x), 1, n) = SubSeq(s, 1, n)
         /\ Len(Append(s, x)) = Len(s) + 1 /\ Append(s, x)[Len(s) + 1] = x
         /\ \A k \in 1 .. Len(s) : Append(s, x)[k] = s[k]
<1> DEFINE t == Append(s, x)
           N == Len(s)
           a == SubSeq(s, 1, n)
           b == SubSeq(t, 1, n)
<1>1. /\ t \in Seq(T) /\ Len(t) = N + 1 /\ t[N + 1] = x /\ \A k \in 1 .. N : t[k] = s[k]
      /\ N \in Nat
  BY AppendProperties, LenProperties
<1> HIDE DEF t, N
<1>2. n \in 0 .. N /\ n \in 0 .. N + 1 /\ n \in Nat
  BY <1>1 DEF N
<1>3. 1 \in Int /\ n \in Int /\ (\A k \in 1 .. n : s[k] \in T) /\ (\A k \in 1 .. n : t[k] \in T)
  BY <1>1, <1>2 DEF N
<1>4. /\ a \in Seq(T) /\ Len(a) = (IF 1 <= n THEN n - 1 + 1 ELSE 0)
      /\ \A k \in 1 .. n - 1 + 1 : a[k] = s[1 + k - 1]
  BY <1>3, SubSeqProperties
<1>5. /\ b \in Seq(T) /\ Len(b) = (IF 1 <= n THEN n - 1 + 1 ELSE 0)
      /\ \A k \in 1 .. n - 1 + 1 : b[k] = t[1 + k - 1]
  BY <1>3, SubSeqProperties
<1> HIDE DEF a, b
<1>6. Len(a) = n /\ Len(b) = n /\ \A k \in 1 .. n : k \in 1 .. n - 1 + 1 /\ 1 + k - 1 = k /\ k \in 1 .. N
  <2>1. Len(a) = n /\ Len(b) = n
    BY <1>2, <1>4, <1>5
  <2>2. \A k \in 1 .. n : k \in 1 .. n - 1 + 1 /\ 1 + k - 1 = k /\ k \in 1 .. N
    BY <1>1, <1>2
  <2> QED BY <2>1, <2>2
<1>7. \A k \in 1 .. n : a[k] = s[k] /\ b[k] = t[k] /\ t[k] = s[k]
  BY <1>1, <1>4, <1>5, <1>6
<1>8. b = a
  <2>1. b \in Seq(T) /\ a \in Seq(T) /\ Len(b) = Len(a) /\ \A k \in 1 .. Len(b) : b[k] = a[k]
    BY <1>4, <1>5, <1>6, <1>7
  <2> QED BY <2>1, SeqEqual
<1> QED BY <1>1, <1>8 DEF t, N, a, b

LEMMA InitWInv ==
  ASSUME Init
  PROVE  WInv
<1>1. Len(written) = 0 /\ SubSeq(written, 1, 0) = <<>>
  <2>1. 1 \in Int /\ 0 \in Int /\ 0 < 1
    OBVIOUS
  <2>2. SubSeq(written, 1, 0) = <<>>
    BY <2>1, SubSeqEmpty
  <2> QED BY <2>2 DEF Init
<1>2. At(written, 0) = 0 /\ Spread(showOf, SubSeq(written, 1, 0)) = <<>>
  <2>1. Spread(code, <<>>) = <<>> /\ Spread(showOf, <<>>) = <<>> /\ Len(<<>>) = 0
    BY SpreadNothing
  <2> QED BY <1>1, <2>1 DEF At
<1>3. Whole(0)
  BY <1>1, <1>2 DEF Whole, Init
<1> QED BY <1>3 DEF WInv

(* Nothing is printed, and nothing is sent.                                  *)
LEMMA WholeStays ==
  ASSUME NEW n, Whole(n), UNCHANGED <<cell, written, failed, drained, sent, hadStdout>>,
         phase' = "idle" => phase = "idle"
  PROVE  Whole(n)'
BY DEF Whole

LEMMA BeginCellWhole ==
  ASSUME IInv, NEW n, Whole(n), BeginCell
  PROVE  Whole(n)'
<1>1. /\ phase = "idle" /\ cell' = cell + 1 /\ phase' = "running" /\ hadStdout' = FALSE
      /\ UNCHANGED <<failed, drained, sent>>
      /\ \/ written' = written
         \/ written' = Append(written, <<cell', "header">>)
  BY DEF BeginCell
<1>2. /\ cell \in Nat /\ cell' \in 1 .. MaxCells /\ written \in Seq(Writing)
      /\ <<cell', "header">> \in Writing
  BY BoundsAssumption DEF IInv, TypeOK, BeginCell, Writing, Item
<1> DEFINE N == Len(written)
<1>3. N \in Nat /\ \A k \in 1 .. N : written[k][1] \in Nat
  BY <1>2 DEF Writing
<1>4. n = N /\ n \in 0 .. N
  BY <1>1, <1>3 DEF Whole
<1>5. \A k \in 1 .. N : written[k][1] <= cell' /\ written[k][1] # cell'
  <2>1. \A k \in 1 .. N : written[k][1] <= cell
    BY DEF Whole
  <2> QED BY <1>1, <1>2, <1>3, <2>1
<1>6. CASE written' = written
  <2>1. \A k \in n + 1 .. Len(written') : FALSE
    BY <1>3, <1>4, <1>6
  <2>2. Len(written') = N /\ n \in 0 .. Len(written')
    BY <1>4, <1>6
  <2>3. drained' = At(written', n) /\ sent' = Spread(showOf, SubSeq(written', 1, n)) /\ ~failed'
    BY <1>1, <1>6 DEF Whole
  <2>4. \A k \in 1 .. n : written'[k][1] # cell'
    BY <1>4, <1>5, <1>6
  <2>5. \A k \in 1 .. Len(written') : written'[k][1] <= cell'
    BY <1>5, <1>6
  <2> HIDE DEF N
  <2> QED BY <1>1, <2>1, <2>2, <2>3, <2>4, <2>5 DEF Whole
<1>7. CASE written' = Append(written, <<cell', "header">>)
  <2> DEFINE x == <<cell', "header">>
             w == Append(written, x)
  <2>1. x[1] = cell' /\ x[2] = "header" /\ x \in Writing
    BY <1>2
  <2> HIDE DEF x
  <2>2. /\ SubSeq(w, 1, n) = SubSeq(written, 1, n)
        /\ Len(w) = N + 1 /\ w[N + 1] = x
        /\ \A k \in 1 .. N : w[k] = written[k]
    BY <1>2, <1>4, <2>1, AppendKeepsBeginning
  <2> HIDE DEF w
  <2>3. written' = w
    BY <1>7 DEF w, x
  <2>4. n \in 0 .. Len(w) /\ (\A k \in n + 1 .. Len(w) : k = N + 1)
        /\ (\A k \in 1 .. Len(w) : k = N + 1 \/ k \in 1 .. N) /\ Len(w) \in Nat
    BY <1>3, <1>4, <2>2
  <2>5. At(w, n) = At(written, n)
    BY <2>2 DEF At
  <2>6. drained' = At(w, n) /\ sent' = Spread(showOf, SubSeq(w, 1, n)) /\ ~failed'
    BY <1>1, <2>2, <2>5 DEF Whole
  <2>7. \A k \in 1 .. Len(w) : w[k][1] <= cell'
    <3>1. cell' <= cell'
      BY <1>2
    <3> QED BY <1>5, <2>1, <2>2, <2>4, <3>1
  <2>8. \A k \in n + 1 .. Len(w) : w[k][1] = cell' /\ w[k][2] = "header" /\ k = n + 1
    BY <1>4, <2>1, <2>2, <2>4
  <2>9. \A k \in 1 .. n : w[k][1] # cell'
    BY <1>4, <1>5, <2>2
  <2> HIDE DEF N
  <2>10. phase' # "idle" /\ ~hadStdout'
    BY <1>1
  <2> QED BY <2>3, <2>4, <2>6, <2>7, <2>8, <2>9, <2>10 DEF Whole
<1> QED BY <1>1, <1>6, <1>7

LEMMA PrintItemWhole ==
  ASSUME IInv, NEW n, Whole(n), PrintItem
  PROVE  Whole(n)'
<1>1. /\ phase = "running" /\ Compiled
      /\ UNCHANGED <<cell, phase, failed, drained, sent, hadStdout>>
  BY DEF PrintItem, drainVars
<1>2. PICK item \in Item \ {"header"} : written' = Append(written, <<cell, item>>)
  BY DEF PrintItem
<1> DEFINE N == Len(written)
           x == <<cell, item>>
           w == Append(written, x)
<1>3. /\ cell \in Nat /\ cell \in 1 .. MaxCells /\ written \in Seq(Writing) /\ N \in Nat
      /\ x \in Writing /\ x[1] = cell /\ x[2] # "header"
  BY <1>1 DEF IInv, TypeOK, Writing
<1>4. n \in 0 .. N
  BY DEF Whole
<1> HIDE DEF x
<1>5. /\ SubSeq(w, 1, n) = SubSeq(written, 1, n)
      /\ Len(w) = N + 1 /\ w[N + 1] = x
      /\ \A k \in 1 .. N : w[k] = written[k]
  BY <1>3, <1>4, AppendKeepsBeginning
<1> HIDE DEF w
<1>6. written' = w
  BY <1>2 DEF w, x
<1>7. n \in 0 .. Len(w) /\ (\A k \in n + 1 .. Len(w) : k = N + 1 \/ k \in n + 1 .. N)
      /\ (\A k \in 1 .. Len(w) : k = N + 1 \/ k \in 1 .. N) /\ n \in Nat
      /\ \A k \in 1 .. n : k \in 1 .. N
  BY <1>3, <1>4, <1>5
<1>8. At(w, n) = At(written, n)
  BY <1>5 DEF At
<1>9. drained' = At(w, n) /\ sent' = Spread(showOf, SubSeq(w, 1, n)) /\ ~failed'
  BY <1>1, <1>5, <1>8 DEF Whole
<1>10. \A k \in 1 .. Len(w) : w[k][1] <= cell'
  <2>1. cell <= cell
    BY <1>3
  <2>2. \A k \in 1 .. N : written[k][1] <= cell
    BY DEF Whole
  <2> QED BY <1>1, <1>3, <1>5, <1>7, <2>1, <2>2
<1>11. \A k \in n + 1 .. Len(w) : w[k][1] = cell'
  <2>1. \A k \in n + 1 .. N : written[k][1] = cell /\ k \in 1 .. N
    BY <1>4 DEF Whole
  <2> QED BY <1>1, <1>3, <1>5, <1>7, <2>1
<1>12. CASE hadStdout
  <2>1. \A k \in n + 1 .. Len(w) : w[k][2] # "header"
    <3>1. \A k \in n + 1 .. N : written[k][2] # "header" /\ k \in 1 .. N
      BY <1>4, <1>12 DEF Whole
    <3> QED BY <1>3, <1>5, <1>7, <3>1
  <2> HIDE DEF N
  <2> QED BY <1>1, <1>6, <1>7, <1>9, <1>10, <1>11, <1>12, <2>1 DEF Whole
<1>13. CASE ~hadStdout
  <2>1. /\ \A k \in 1 .. n : written[k][1] # cell
        /\ \A k \in n + 1 .. N : written[k][2] = "header" <=> k = n + 1
    BY <1>13 DEF Whole
  <2>2. n + 1 \in 1 .. N
    <3>1. PICK k \in DOMAIN written : written[k] = <<cell, "header">>
      BY <1>1 DEF Compiled
    <3>2. k \in 1 .. N /\ written[k][1] = cell
      BY <1>3, <3>1
    <3> QED BY <1>3, <1>4, <2>1, <3>2
  <2>3. \A k \in n + 1 .. Len(w) : w[k][2] = "header" <=> k = n + 1
    <3> TAKE k \in n + 1 .. Len(w)
    <3>1. CASE k = N + 1
      <4>1. k # n + 1
        BY <1>3, <2>2, <3>1
      <4> QED BY <1>3, <1>5, <3>1, <4>1
    <3>2. CASE k \in n + 1 .. N
      <4>1. w[k] = written[k]
        BY <1>4, <1>5, <3>2
      <4> QED BY <2>1, <3>2, <4>1
    <3> QED BY <1>7, <3>1, <3>2
  <2>4. \A k \in 1 .. n : w[k][1] # cell'
    BY <1>1, <1>5, <1>7, <2>1
  <2> HIDE DEF N
  <2> QED BY <1>1, <1>6, <1>7, <1>9, <1>10, <1>11, <1>13, <2>3, <2>4 DEF Whole
<1> QED BY <1>12, <1>13

LEMMA BoundariesAre ==
  ASSUME written \in Seq(Writing)
  PROVE  /\ \A n \in 0 .. Len(written) :
              FlattenSeq(Pieces(n)) = Spread(code, SubSeq(written, 1, n))
         /\ Boundaries = {At(written, n) : n \in 0 .. Len(written)}
<1>1. ASSUME NEW n \in 0 .. Len(written)
      PROVE  FlattenSeq(Pieces(n)) = Spread(code, SubSeq(written, 1, n))
  <2> DEFINE v == SubSeq(written, 1, n)
  <2>1. 0 \in 0 .. Len(written) /\ n \in 0 .. Len(written) /\ 0 + 1 = 1 /\ n - 0 = n
    OBVIOUS
  <2>2. v \in Seq(Writing) /\ Len(v) = n /\ \A i \in 1 .. n : v[i] = written[i]
    <3>1. /\ SubSeq(written, 0 + 1, n) \in Seq(Writing) /\ Len(SubSeq(written, 0 + 1, n)) = n - 0
          /\ \A i \in 1 .. n - 0 : SubSeq(written, 0 + 1, n)[i] = written[0 + i]
      BY <2>1, Cut
    <3>2. \A i \in 1 .. n : 0 + i = i
      OBVIOUS
    <3> QED BY <2>1, <3>1, <3>2
  <2> HIDE DEF v
  <2>3. [k \in 1 .. Len(v) |-> Bytes(v[k][2])] = Pieces(n)
    BY <2>2 DEF Pieces
  <2> QED BY <2>2, <2>3, WritingIsSpread DEF v
<1>2. \A n \in 0 .. Len(written) : Len(FlattenSeq(Pieces(n))) = At(written, n)
  BY <1>1 DEF At
<1>3. Boundaries = {At(written, n) : n \in 0 .. Len(written)}
  BY <1>2 DEF Boundaries
<1> QED BY <1>1, <1>3

(* The last step of a drain.                                                 *)
LEMMA DrainIsOfItems ==
  ASSUME IInv, NEW n, Whole(n), EndDrain, ~torn'
  PROVE  \E n2 \in n .. Len(written) :
           /\ drained' = At(written, n2)
           /\ buffer = Spread(code, SubSeq(written, n + 1, n2))
           /\ pty = <<>> => n2 = Len(written)
<1>1. /\ reading /\ available = <<>> /\ drained' = drained + Len(buffer)
      /\ drained' \in Boundaries
  BY EndDrainSteps
<1>2. /\ TypeOK /\ written \in Seq(Writing) /\ buffer \in Seq(Byte) /\ pty \in Seq(Byte)
  BY DEF IInv, TypeOK, Writing
<1> DEFINE L == Len(written)
<1>3. L \in Nat /\ n \in 0 .. L /\ drained = At(written, n)
  BY <1>2 DEF Whole
<1>4. PICK n2 \in 0 .. L : drained' = At(written, n2)
  BY <1>1, <1>2, BoundariesAre
<1>5. Len(buffer) \in Nat /\ At(written, n) \in Nat /\ At(written, n2) \in Nat
      /\ (n2 < n <=> At(written, n2) < At(written, n))
  <2>1. Len(buffer) \in Nat
    BY <1>2
  <2> QED BY <1>2, <1>3, <1>4, <2>1, AtGrows
<1>6. ~(At(written, n2) < At(written, n))
  <2> DEFINE x == At(written, n)
             y == At(written, n2)
             d == Len(buffer)
  <2>1. x \in Nat /\ d \in Nat /\ y = x + d
    BY <1>1, <1>3, <1>4, <1>5
  <2> HIDE DEF x, y, d
  <2>2. ~(y < x)
    BY <2>1
  <2> QED BY <2>2 DEF x, y
<1>7. n2 \in n .. L
  BY <1>3, <1>4, <1>5, <1>6
<1>8. PICK before : Drained(before)
  BY DEF IInv
<1>9. /\ before \in Seq(Byte) /\ Len(before) = At(written, n)
      /\ Printed = before \o (buffer \o pty)
  <2>1. <<>> \o pty = pty
    BY <1>2, ConcatEmptySeq
  <2>2. Held = buffer \o (<<>> \o pty)
    BY <1>1 DEF Held
  <2> QED BY <1>3, <1>8, <2>1, <2>2 DEF Drained
<1>10. Printed = (before \o buffer) \o pty /\ before \o buffer \in Seq(Byte)
       /\ Three(Byte, before, buffer, pty)
  <2>1. Three(Byte, before, buffer, pty)
    BY <1>2, <1>9 DEF Three
  <2>2. (before \o buffer) \o pty = before \o (buffer \o pty) /\ before \o buffer \in Seq(Byte)
    BY <2>1, Associative
  <2> QED BY <1>9, <2>1, <2>2
<1>11. SubSeq(Printed, Len(before) + 1, Len(before) + Len(buffer)) = buffer
  <2>1. SubSeq((before \o buffer) \o pty, Len(before) + 1, Len(before) + Len(buffer)) = buffer
    BY <1>10, MiddlePart
  <2> QED BY <1>10, <2>1
<1>12. Printed = Spread(code, written)
  BY <1>2, PrintedIsSpread
<1>13. Len(before) + Len(buffer) = At(written, n2)
  BY <1>1, <1>3, <1>4, <1>9
<1>14. buffer = Spread(code, SubSeq(written, n + 1, n2))
  <2>1. SubSeq(Spread(code, written), At(written, n) + 1, At(written, n2)) = Part(written, n, n2)
    <3>1. n \in 0 .. Len(written) /\ n2 \in n .. Len(written)
      BY <1>3, <1>7
    <3> QED BY <1>2, <3>1, PartOfItems
  <2> QED BY <1>9, <1>11, <1>12, <1>13, <2>1 DEF Part
<1>15. ASSUME pty = <<>> PROVE n2 = L
  <2>1. Printed = before \o buffer
    BY <1>10, <1>15, ConcatEmptySeq
  <2>2. Len(before \o buffer) = Len(before) + Len(buffer)
    BY <1>2, <1>9, ConcatProperties
  <2>3. At(written, L) = At(written, n2)
    BY <1>2, <1>12, <1>13, <2>1, <2>2, AtEnds
  <2>4. At(written, n2) \in Nat /\ (n2 < L <=> At(written, n2) < At(written, L)) /\ L \in 0 .. L
    <3>1. L \in 0 .. L
      BY <1>3
    <3> QED BY <1>2, <1>4, <3>1, AtGrows
  <2>5. ~(n2 < L)
    BY <2>3, <2>4
  <2> QED BY <1>3, <1>4, <2>5
<1> QED BY <1>4, <1>7, <1>14, <1>15

LEMMA EndDrainWhole ==
  ASSUME IInv, NEW n, Whole(n), EndDrain, ~torn', ~late'
  PROVE  \E n2 : Whole(n2)'
<1> DEFINE L == Len(written)
<1>1. /\ TypeOK /\ cell \in 1 .. MaxCells /\ written \in Seq(Writing) /\ hadStdout \in BOOLEAN
      /\ sent \in Seq(Sending) /\ buffer \in Seq(Byte)
  BY EndDrainSteps DEF IInv, TypeOK, Writing, Sending, Token
<1>2. L \in Nat /\ n \in 0 .. L
  BY <1>1 DEF Whole
<1>3. PICK n2 \in n .. L :
        /\ drained' = At(written, n2)
        /\ buffer = Spread(code, SubSeq(written, n + 1, n2))
        /\ pty = <<>> => n2 = L
  BY DrainIsOfItems
<1> DEFINE v == SubSeq(written, n + 1, n2)
<1>4. /\ v \in Seq(Writing) /\ Len(v) = n2 - n /\ \A i \in 1 .. n2 - n : v[i] = written[n + i]
      /\ SubSeq(written, 1, n) \in Seq(Writing)
      /\ SubSeq(written, 1, n2) = SubSeq(written, 1, n) \o v
  BY <1>1, <1>2, Cut
<1> HIDE DEF v
<1>5. \A i \in 1 .. n2 - n : n + i \in n + 1 .. L /\ (n + i = n + 1 <=> i = 1)
  BY <1>2
<1>6. /\ InCell(cell, v) /\ (hadStdout => Bare(v)) /\ (~hadStdout => HeadedItems(v))
  <2>1. \A k \in n + 1 .. L : written[k][1] = cell
    BY DEF Whole
  <2>2. InCell(cell, v)
    <3>1. ASSUME NEW k \in 1 .. Len(v) PROVE v[k][1] = cell
      <4>1. k \in 1 .. n2 - n /\ n + k \in n + 1 .. L
        BY <1>4, <1>5
      <4>2. v[k] = written[n + k] /\ written[n + k][1] = cell
        BY <1>4, <2>1, <4>1
      <4> QED BY <4>2
    <3> QED BY <3>1 DEF InCell
  <2>3. ASSUME hadStdout PROVE Bare(v)
    <3>1. \A k \in n + 1 .. L : written[k][2] # "header"
      BY <2>3 DEF Whole
    <3> QED BY <1>4, <1>5, <3>1 DEF Bare
  <2>4. ASSUME ~hadStdout PROVE HeadedItems(v)
    <3>1. \A k \in n + 1 .. L : written[k][2] = "header" <=> k = n + 1
      BY <2>4 DEF Whole
    <3> QED BY <1>4, <1>5, <3>1 DEF HeadedItems
  <2> QED BY <2>2, <2>3, <2>4
<1>7. buffer = Spread(code, v)
  BY <1>3 DEF v
<1>8. /\ buffer = <<>> \/ hadStdout \/ Headed(buffer)
      /\ SentIn(cell, Route(TextOf(buffer, hadStdout))) = Spread(showOf, v)
  BY <1>1, <1>4, <1>6, <1>7, TextOfItems
<1>9. ~Refused
  <2>1. IsUTF8(buffer)
    BY <1>4, <1>7, ItemsAreUTF8
  <2> QED BY <1>8, <2>1 DEF Refused
<1>10. sent' = sent \o Spread(showOf, v) /\ failed' = failed
       /\ hadStdout' = (hadStdout \/ buffer # <<>>)
  BY <1>8, <1>9, EndDrainSteps
<1>11. sent' = Spread(showOf, SubSeq(written, 1, n2))
  <2>1. sent = Spread(showOf, SubSeq(written, 1, n))
    BY DEF Whole
  <2> DEFINE a == SubSeq(written, 1, n)
  <2>2. a \in Seq(Writing)
    BY <1>4
  <2>3. SubSeq(written, 1, n2) = a \o v /\ sent = Spread(showOf, a)
    BY <1>4, <2>1
  <2> HIDE DEF a
  <2>4. Spread(showOf, a \o v) = Spread(showOf, a) \o Spread(showOf, v)
    BY <1>4, <2>2, ShowOfType
  <2> QED BY <1>10, <2>3, <2>4
<1>12. /\ UNCHANGED <<cell, written>> /\ n2 \in 0 .. L /\ n2 \in Nat
       /\ \A k \in n2 + 1 .. L : k \in n + 1 .. L
       /\ ~failed
  <2>1. UNCHANGED <<cell, written>>
    BY EndDrainSteps
  <2>2. ~failed
    BY DEF Whole
  <2> QED BY <1>2, <2>1, <2>2
<1>13. phase' = "idle" => n2 = L
  <2>1. SUFFICES ASSUME phase' = "idle" PROVE n2 = L
    OBVIOUS
  <2>2. CASE phase = "ended"
    <3>1. pty = <<>>
      BY <2>2, EndDrainSteps
    <3> QED BY <1>3, <3>1
  <2>3. CASE phase # "ended"
    <3>1. phase = "idle" /\ phase # "idle"
      BY <2>1, <2>3, EndDrainSteps DEF IInv
    <3> QED BY <3>1
  <2> QED BY <2>2, <2>3
<1>14. (\A k \in 1 .. L : written[k][1] <= cell) /\ (\A k \in n2 + 1 .. L : written[k][1] = cell)
  <2>1. (\A k \in 1 .. L : written[k][1] <= cell) /\ (\A k \in n + 1 .. L : written[k][1] = cell)
    BY DEF Whole
  <2> QED BY <1>12, <2>1
<1>15. hadStdout' => \A k \in n2 + 1 .. L : written[k][2] # "header"
  <2>1. CASE hadStdout
    <3>1. \A k \in n + 1 .. L : written[k][2] # "header"
      BY <2>1 DEF Whole
    <3> QED BY <1>12, <3>1
  <2>2. CASE ~hadStdout /\ buffer # <<>>
    <3>1. \A k \in n + 1 .. L : written[k][2] = "header" <=> k = n + 1
      BY <2>2 DEF Whole
    <3>2. v # <<>>
      BY <1>7, <2>2, SpreadNothing
    <3>3. Len(v) # 0
      BY <1>4, <3>2, EmptySeq
    <3>4. \A k \in n2 + 1 .. L : k # n + 1
      BY <1>2, <1>4, <3>3
    <3> QED BY <1>12, <3>1, <3>4
  <2> QED BY <1>10, <2>1, <2>2
<1>16. ~hadStdout' => /\ \A k \in 1 .. n2 : written[k][1] # cell
                      /\ \A k \in n2 + 1 .. L : written[k][2] = "header" <=> k = n2 + 1
  <2>1. SUFFICES ASSUME ~hadStdout' PROVE n2 = n /\ ~hadStdout
    BY DEF Whole
  <2>2. ~hadStdout /\ buffer = <<>>
    BY <1>10, <2>1
  <2>3. At(written, n2) = At(written, n)
    <3>1. drained' = drained + 0 /\ drained = At(written, n)
      BY <2>2, EndDrainSteps DEF Whole
    <3>2. At(written, n) \in Nat
      BY <1>1, <1>2, AtGrows
    <3> QED BY <1>3, <3>1, <3>2
  <2>4. At(written, n) \in Nat /\ (n < n2 <=> At(written, n) < At(written, n2))
    BY <1>1, <1>2, <1>12, AtGrows
  <2>5. ~(n < n2)
    BY <2>3, <2>4
  <2> QED BY <1>2, <2>2, <2>5
<1>17. drained' = At(written, n2)
  BY <1>3
<1>18. /\ L = Len(written') /\ At(written, n2) = At(written', n2) /\ written' = written
       /\ SubSeq(written, 1, n2) = SubSeq(written', 1, n2) /\ cell' = cell /\ ~failed'
  BY <1>10, <1>12
<1> HIDE DEF L
<1>19. Whole(n2)'
  <2>1. n2 \in 0 .. Len(written') /\ drained' = At(written', n2)
        /\ sent' = Spread(showOf, SubSeq(written', 1, n2)) /\ ~failed'
    BY <1>11, <1>12, <1>17, <1>18
  <2>2. /\ phase' = "idle" => n2 = Len(written')
        /\ \A k \in 1 .. Len(written') : written'[k][1] <= cell'
        /\ \A k \in n2 + 1 .. Len(written') : written'[k][1] = cell'
    BY <1>13, <1>14, <1>18
  <2>3. hadStdout' => \A k \in n2 + 1 .. Len(written') : written'[k][2] # "header"
    BY <1>15, <1>18
  <2>4. ~hadStdout' => /\ \A k \in 1 .. n2 : written'[k][1] # cell'
                       /\ \A k \in n2 + 1 .. Len(written') : written'[k][2] = "header" <=> k = n2 + 1
    BY <1>16, <1>18
  <2> QED BY <2>1, <2>2, <2>3, <2>4 DEF Whole
<1> QED BY <1>19

LEMMA StepsKeepWhole ==
  ASSUME IInv, WInv, [Next]_vars
  PROVE  WInv'
<1>1. SUFFICES ASSUME ~torn', ~late' PROVE \E n : Whole(n)'
  BY DEF WInv
<1>2. ~torn /\ ~late
  <2>1. CASE EndDrain
    <3>1. torn' = (torn \/ drained' \notin Boundaries)
      BY <2>1, EndDrainSteps
    <3>2. late' = (late \/ pty # <<>>) \/ late' = late
      BY <2>1, EndDrainSteps
    <3>3. torn \in BOOLEAN /\ late \in BOOLEAN
      BY DEF IInv, TypeOK
    <3> QED BY <1>1, <3>1, <3>2, <3>3
  <2>2. CASE ~EndDrain
    <3>1. UNCHANGED <<torn, late>>
      BY <2>2 DEF Next, vars, drainVars, BeginCell, PrintItem, Arrive, EndProgram,
         BeginDrain, Read
    <3> QED BY <1>1, <3>1
  <2> QED BY <2>1, <2>2
<1>3. PICK n : Whole(n)
  BY <1>2 DEF WInv
<1>4. CASE BeginCell
  BY <1>3, <1>4, BeginCellWhole
<1>5. CASE PrintItem
  BY <1>3, <1>5, PrintItemWhole
<1>6. CASE Arrive
  <2>1. Whole(n)'
    BY <1>3, <1>6, WholeStays DEF Arrive, drainVars
  <2> QED BY <2>1
<1>7. CASE EndProgram
  <2>1. Whole(n)'
    BY <1>3, <1>7, WholeStays DEF EndProgram, drainVars, processVars
  <2> QED BY <2>1
<1>8. CASE BeginDrain
  <2>1. Whole(n)'
    BY <1>3, <1>8, WholeStays DEF BeginDrain, processVars
  <2> QED BY <2>1
<1>9. CASE Read
  <2>1. UNCHANGED <<cell, phase, written, failed, drained, sent, hadStdout>>
    BY <1>9 DEF Read
  <2>2. Whole(n)'
    BY <1>3, <2>1, WholeStays
  <2> QED BY <2>2
<1>10. CASE EndDrain
  BY <1>1, <1>3, <1>10, EndDrainWhole
<1>11. CASE UNCHANGED vars
  <2>1. Whole(n)'
    BY <1>3, <1>11, WholeStays DEF vars
  <2> QED BY <2>1
<1> QED BY <1>4, <1>5, <1>6, <1>7, <1>8, <1>9, <1>10, <1>11 DEF Next

(* What is expected is what the first items become.                          *)
MapsFirst(A, T, f, w, n, g) ==
  /\ f \in [A -> Seq(T)] /\ w \in Seq(A) /\ n \in 0 .. Len(w)
  /\ g \in Seq(Seq(T)) /\ Len(g) = Len(w)
  /\ \A k \in 1 .. Len(w) : g[k] = IF k <= n THEN f[w[k]] ELSE <<>>

LEMMA FlattenPrefix ==
  ASSUME NEW A, NEW T, NEW f, NEW w, NEW n, NEW g, MapsFirst(A, T, f, w, n, g)
  PROVE  FlattenSeq(g) = Spread(f, SubSeq(w, 1, n))
<1>1. /\ f \in [A -> Seq(T)] /\ w \in Seq(A) /\ n \in 0 .. Len(w)
      /\ g \in Seq(Seq(T)) /\ Len(g) = Len(w)
      /\ \A k \in 1 .. Len(w) : g[k] = IF k <= n THEN f[w[k]] ELSE <<>>
  BY DEF MapsFirst
<1> DEFINE L == Len(w)
           piece(k) == IF k <= n THEN f[w[k]] ELSE <<>>
           F(m) == [k \in 1 .. m |-> piece(k)]
           v == SubSeq(w, 1, n)
           S == {d \in Nat : n + d <= L => FlattenSeq(F(n + d)) = Spread(f, v)}
<1>2. L \in Nat /\ n \in Nat /\ n <= L
  BY <1>1
<1>3. \A k \in 1 .. L : w[k] \in A
  BY <1>1
<1>4. ASSUME NEW k \in 1 .. L PROVE piece(k) \in Seq(T)
  <2>1. <<>> \in Seq(T) /\ f[w[k]] \in Seq(T)
    BY <1>1, <1>3, EmptySeq
  <2> QED BY <2>1
<1>5. ASSUME NEW m \in 0 .. L
      PROVE  F(m) \in Seq(Seq(T)) /\ Len(F(m)) = m /\ \A k \in 1 .. m : F(m)[k] = piece(k)
  <2>1. m \in Nat /\ \A k \in 1 .. m : piece(k) \in Seq(T)
    <3>1. m \in Nat /\ \A k \in 1 .. m : k \in 1 .. L
      BY <1>2
    <3> HIDE DEF piece
    <3> QED BY <1>4, <3>1
  <2> HIDE DEF piece
  <2> QED BY <2>1
<1>6. 0 \in S
  <2>1. /\ v \in Seq(A) /\ Len(v) = n /\ \A i \in 1 .. n : v[i] = w[i]
    <3>1. 0 \in 0 .. Len(w) /\ n \in 0 .. Len(w) /\ 0 + 1 = 1 /\ n - 0 = n
      BY <1>1, <1>2
    <3>2. /\ SubSeq(w, 0 + 1, n) \in Seq(A) /\ Len(SubSeq(w, 0 + 1, n)) = n - 0
          /\ \A i \in 1 .. n - 0 : SubSeq(w, 0 + 1, n)[i] = w[0 + i]
      BY <1>1, <3>1, Cut
    <3>3. \A i \in 1 .. n : 0 + i = i
      OBVIOUS
    <3> QED BY <3>1, <3>2, <3>3
  <2> HIDE DEF v
  <2>2. [k \in DOMAIN v |-> f[v[k]]] = F(n)
    <3>1. DOMAIN v = 1 .. n
      BY <2>1
    <3>2. \A k \in 1 .. n : piece(k) = f[v[k]]
      BY <1>2, <2>1
    <3> HIDE DEF piece
    <3> QED BY <3>1, <3>2
  <2>3. n + 0 = n
    BY <1>2
  <2>4. FlattenSeq(F(n + 0)) = Spread(f, v)
    BY <2>2, <2>3 DEF Spread
  <2> QED BY <2>4
<1>7. ASSUME NEW d \in Nat, d \in S PROVE d + 1 \in S
  <2>1. SUFFICES ASSUME n + (d + 1) <= L PROVE FlattenSeq(F(n + (d + 1))) = Spread(f, v)
    OBVIOUS
  <2> DEFINE m == n + d
             a == F(m)
             b == F(m + 1)
  <2>2. m \in 0 .. L /\ m + 1 \in 0 .. L /\ m + 1 = n + (d + 1) /\ m \in Nat /\ ~(m + 1 <= n)
        /\ m <= L
    BY <1>2, <2>1
  <2>3. FlattenSeq(a) = Spread(f, v)
    BY <1>7, <2>2
  <2> HIDE DEF m
  <2>4. /\ a \in Seq(Seq(T)) /\ Len(a) = m /\ \A k \in 1 .. m : a[k] = piece(k)
        /\ b \in Seq(Seq(T)) /\ Len(b) = m + 1 /\ \A k \in 1 .. m + 1 : b[k] = piece(k)
    <3> HIDE DEF F
    <3> QED BY <1>5, <2>2
  <2>5. piece(m + 1) = <<>> /\ <<>> \in Seq(T)
    BY <2>2, EmptySeq
  <2> HIDE DEF F, piece, a, b
  <2>6. b = Append(a, <<>>)
    <3> DEFINE c == Append(a, <<>>)
    <3>1. /\ c \in Seq(Seq(T)) /\ Len(c) = m + 1 /\ c[m + 1] = <<>>
          /\ \A k \in 1 .. m : c[k] = a[k]
      BY <2>4, <2>5, AppendProperties
    <3> HIDE DEF c
    <3>2. \A k \in 1 .. m + 1 : b[k] = c[k]
      <4> TAKE k \in 1 .. m + 1
      <4>1. k = m + 1 \/ k \in 1 .. m
        BY <2>2
      <4> QED BY <2>4, <2>5, <3>1, <4>1
    <3>3. b = c
      BY <2>4, <3>1, <3>2, SeqEqual
    <3> QED BY <3>3 DEF c
  <2>7. FlattenSeq(b) = FlattenSeq(a) \o <<>>
    BY <2>4, <2>5, <2>6, FlattenAppend
  <2>8. Spread(f, v) \in Seq(T)
    <3>1. 1 \in 1 .. Len(w) + 1 /\ n \in 0 .. Len(w)
      BY <1>1, <1>2
    <3>2. v \in Seq(A)
      BY <1>1, <3>1, PartOfBytes
    <3> HIDE DEF v
    <3> QED BY <1>1, <3>2, SpreadType
  <2>9. Spread(f, v) \o <<>> = Spread(f, v)
    BY <2>8, ConcatEmptySeq
  <2>10. FlattenSeq(b) = Spread(f, v)
    BY <2>3, <2>7, <2>9
  <2> QED BY <2>2, <2>10 DEF b
<1>8. Nat \subseteq S
  <2> HIDE DEF S
  <2> QED BY <1>6, <1>7, InductionOnNat
<1>9. FlattenSeq(F(L)) = Spread(f, v)
  <2>1. L - n \in Nat /\ n + (L - n) = L /\ n + (L - n) <= L
    BY <1>2
  <2>2. L - n \in S
    BY <1>8, <2>1
  <2> HIDE DEF F
  <2> QED BY <2>1, <2>2
<1>10. g = F(L)
  <2>1. L \in 0 .. L
    BY <1>2
  <2> HIDE DEF F
  <2>2. F(L) \in Seq(Seq(T)) /\ Len(F(L)) = L /\ \A k \in 1 .. L : F(L)[k] = piece(k)
    BY <1>5, <2>1
  <2> DEFINE h == F(L)
  <2>3. h \in Seq(Seq(T)) /\ Len(g) = Len(h) /\ \A k \in 1 .. Len(g) : g[k] = h[k]
    BY <1>1, <1>2, <2>2
  <2> HIDE DEF h
  <2>4. g = h
    BY <1>1, <2>3, SeqEqual
  <2> QED BY <2>4 DEF h
<1> HIDE DEF F
<1> QED BY <1>9, <1>10

LEMMA WholeIsInOrder ==
  ASSUME IInv, WInv
  PROVE  RoutedInOrder
<1>1. SUFFICES ASSUME ~torn, ~late PROVE ~failed /\ sent = Expected
  BY DEF RoutedInOrder
<1>2. PICK n \in 0 .. Len(written) : Whole(n)
  <2>1. PICK i : Whole(i)
    BY <1>1 DEF WInv
  <2>2. i \in 0 .. Len(written)
    BY <2>1 DEF Whole
  <2> QED BY <2>1, <2>2
<1> DEFINE L == Len(written)
<1>3. /\ written \in Seq(Writing) /\ L \in Nat /\ DOMAIN written = 1 .. L
      /\ n \in 0 .. L /\ drained = At(written, n) /\ ~failed
      /\ sent = Spread(showOf, SubSeq(written, 1, n))
  <2>1. written \in Seq(Writing)
    BY DEF IInv, TypeOK, Writing
  <2> QED BY <1>2, <2>1 DEF Whole
<1> DEFINE g == [k \in 1 .. L |-> IF Len(FlattenSeq(Pieces(k - 1))) < drained
                                   THEN ShownIn(written[k][1], written[k][2]) ELSE <<>>]
<1>4. Expected = FlattenSeq(g)
  BY <1>3 DEF Expected
<1>5. ASSUME NEW k \in 1 .. L PROVE g[k] = IF k <= n THEN showOf[written[k]] ELSE <<>>
  <2> DEFINE q == k - 1
  <2>1. q \in 0 .. L /\ (q < n <=> k <= n) /\ written[k] \in Writing
    BY <1>3
  <2>2. g[k] = IF Len(FlattenSeq(Pieces(q))) < drained
                 THEN ShownIn(written[k][1], written[k][2]) ELSE <<>>
    OBVIOUS
  <2> HIDE DEF q, g
  <2>3. FlattenSeq(Pieces(q)) = Spread(code, SubSeq(written, 1, q))
    BY <1>3, <2>1, BoundariesAre
  <2>4. q < n <=> At(written, q) < At(written, n)
    BY <1>3, <2>1, AtGrows
  <2>5. Len(FlattenSeq(Pieces(q))) < drained <=> k <= n
    BY <1>3, <2>1, <2>3, <2>4 DEF At
  <2>6. showOf[written[k]] = ShownIn(written[k][1], written[k][2])
    BY <2>1 DEF showOf
  <2> QED BY <2>2, <2>5, <2>6
<1>6. g \in Seq(Seq(Sending)) /\ Len(g) = L
  <2>1. g = [k \in 1 .. L |-> g[k]]
    OBVIOUS
  <2> HIDE DEF g
  <2>2. showOf \in [Writing -> Seq(Sending)] /\ <<>> \in Seq(Sending)
    BY ShowOfType, EmptySeq
  <2>3. \A k \in 1 .. L : written[k] \in Writing
    BY <1>3
  <2> HIDE DEF showOf
  <2>4. \A k \in 1 .. L : g[k] \in Seq(Sending)
    BY <1>5, <2>2, <2>3
  <2> QED BY <1>3, <2>1, <2>4
<1>7. FlattenSeq(g) = Spread(showOf, SubSeq(written, 1, n))
  <2> DEFINE f == showOf
             w == written
  <2>1. f \in [Writing -> Seq(Sending)]
    BY ShowOfType
  <2>2. w \in Seq(Writing) /\ n \in 0 .. Len(w) /\ g \in Seq(Seq(Sending)) /\ Len(g) = Len(w)
    BY <1>3, <1>6
  <2>3. \A k \in 1 .. Len(w) : g[k] = IF k <= n THEN f[w[k]] ELSE <<>>
    BY <1>5
  <2> HIDE DEF f, w, g
  <2>4. MapsFirst(Writing, Sending, f, w, n, g)
    BY <2>1, <2>2, <2>3 DEF MapsFirst
  <2>5. FlattenSeq(g) = Spread(f, SubSeq(w, 1, n))
    BY <2>4, FlattenPrefix
  <2> QED BY <2>5 DEF f, w
<1> HIDE DEF g
<1> QED BY <1>3, <1>4, <1>7

(* As long as no item is cut and no cell ends with its output on its way,    *)
(* output does not end the kernel, and what was drained reached the front    *)
(* end item by item, in its place and in the cell that printed it            *)
(* (getAndSendStdout and sendStdout).                                        *)
THEOREM InItsPlace == Spec => []RoutedInOrder
<1>1. Init => IInv /\ WInv
  BY InitIInv, InitWInv
<1>2. IInv /\ WInv /\ [Next]_vars => IInv' /\ WInv'
  BY StepsKeep, StepsKeepWhole
<1>3. IInv /\ WInv => RoutedInOrder
  BY WholeIsInOrder
<1> QED BY <1>1, <1>2, <1>3, PTL DEF Spec
=============================================================================
