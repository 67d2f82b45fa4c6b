------------------------------ MODULE Induction -------------------------------
(***************************************************************************)
(* Induction over the naturals and definition by recursion, as facts about *)
(* sets and functions: a set of counterexamples has a least one, and a     *)
(* function given by its value at 0 and by its steps exists.               *)
(***************************************************************************)
EXTENDS Naturals, Sequences, SequencesExt, WellFoundedInduction, SequenceTheorems, TLAPS

\* A set of naturals has a least element.
LEMMA NatMin ==
  ASSUME NEW T, T \subseteq Nat, T # {}
  PROVE  \E m \in T : \A k \in T : m <= k
<1> DEFINE Less == {pair \in Nat \X Nat : pair[1] < pair[2]}
<1>1. IsWellFoundedOn(Less, Nat)
  BY NatLessThanWellFounded DEF OpToRel
<1> HIDE DEF Less
<1>2. PICK m \in T : \A k \in T : ~ (<<k, m>> \in Less)
  BY <1>1, WFMin
<1>3. \A k \in T : ~(k < m)
  BY <1>2 DEF Less
<1>4. QED
  BY <1>3

\* One with a bound has a greatest.
LEMMA NatMax ==
  ASSUME NEW T, T \subseteq Nat, T # {}, NEW b \in Nat, \A k \in T : k <= b
  PROVE  \E m \in T : \A k \in T : k <= m
<1> DEFINE bounds == {c \in Nat : \A k \in T : k <= c}
<1>1. PICK m \in bounds : \A c \in bounds : m <= c
  <2>1. b \in bounds /\ bounds \subseteq Nat
    OBVIOUS
  <2> HIDE DEF bounds
  <2>2. QED
    BY <2>1, NatMin
<1>2. CASE m \in T
  BY <1>2
<1>3. CASE m \notin T
  <2>1. PICK k \in T : TRUE
    OBVIOUS
  <2>2. m \in Nat /\ k \in Nat /\ \A j \in T : j \in Nat /\ j <= m /\ j # m
    BY <1>3
  <2>3. m - 1 \in Nat /\ \A j \in T : j <= m - 1
    BY <2>1, <2>2
  <2>4. m - 1 \in bounds /\ ~(m <= m - 1)
    BY <2>2, <2>3
  <2>5. QED
    BY <1>1, <2>4
<1>4. QED
  BY <1>2, <1>3

\* What holds of 0 and passes from n to n + 1 holds of every natural.
LEMMA NatAll ==
  ASSUME NEW T, 0 \in T, \A n \in Nat : n \in T => n + 1 \in T
  PROVE  Nat \subseteq T
<1>1. SUFFICES ASSUME Nat \ T # {} PROVE FALSE
  OBVIOUS
<1>2. PICK m \in Nat \ T : \A k \in Nat \ T : m <= k
  BY <1>1, NatMin
<1>3. m # 0 /\ m - 1 \in Nat /\ ~(m <= m - 1)
  BY <1>2
<1>4. m - 1 \in T
  BY <1>2, <1>3
<1>5. QED
  BY <1>2, <1>3, <1>4

\* The beginnings of a function defined by recursion: values s, step[0, s], ...
Begins(g, n, s, step) ==
  /\ g[0] = s
  /\ \A i \in 0..(n - 1) : g[i + 1] = step[<<i, g[i]>>]

LEMMA BeginningsAgree ==
  ASSUME NEW n \in Nat, NEW s, NEW step, NEW g, NEW h,
         Begins(g, n, s, step), Begins(h, n, s, step)
  PROVE  \A i \in 0..n : g[i] = h[i]
<1> DEFINE T == {i \in Nat : i <= n => g[i] = h[i]}
<1>1. 0 \in T
  BY DEF Begins
<1>2. ASSUME NEW i \in Nat, i \in T PROVE i + 1 \in T
  <2>1. CASE i + 1 <= n
    <3>1. i \in 0..(n - 1) /\ g[i] = h[i]
      BY <1>2, <2>1
    <3>2. g[i + 1] = step[<<i, g[i]>>] /\ h[i + 1] = step[<<i, h[i]>>]
      BY <3>1 DEF Begins
    <3>3. QED
      BY <3>1, <3>2
  <2>2. QED
    BY <2>1
<1> HIDE DEF T
<1>3. Nat \subseteq T
  BY <1>1, <1>2, NatAll
<1>4. QED
  BY <1>3 DEF T

\* Recursion defines a function.
Recurs(g, s, step) == g[0] = s /\ \A n \in Nat : g[n + 1] = step[<<n, g[n]>>]

LEMMA Recursion ==
  ASSUME NEW S, NEW s \in S, NEW step \in [Nat \X S -> S]
  PROVE  \E g \in [Nat -> S] : Recurs(g, s, step)
<1> DEFINE Good(n) == {g \in [Nat -> S] : Begins(g, n, s, step)}
           T == {n \in Nat : Good(n) # {}}
<1>1. 0 \in T
  <2>1. [i \in Nat |-> s] \in Good(0)
    BY DEF Begins
  <2>2. QED
    BY <2>1
<1>2. ASSUME NEW n \in Nat, n \in T PROVE n + 1 \in T
  <2>1. PICK g \in [Nat -> S] : Begins(g, n, s, step)
    BY <1>2
  <2> DEFINE h == [i \in Nat |-> IF i = n + 1 THEN step[<<n, g[n]>>] ELSE g[i]]
  <2>2. h \in [Nat -> S]
    BY <2>1
  <2>3. h[0] = s
    BY <2>1 DEF Begins
  <2>4. ASSUME NEW i \in 0..n PROVE h[i + 1] = step[<<i, h[i]>>]
    <3>1. h[i] = g[i] /\ i \in Nat /\ i + 1 \in Nat
      OBVIOUS
    <3>2. CASE i = n
      BY <3>1, <3>2
    <3>3. CASE i # n
      <4>1. i \in 0..(n - 1) /\ i + 1 # n + 1
        BY <3>3
      <4>2. g[i + 1] = step[<<i, g[i]>>]
        BY <4>1, <2>1 DEF Begins
      <4>3. QED
        BY <4>1, <4>2, <3>1
    <3>4. QED
      BY <3>2, <3>3
  <2> HIDE DEF h
  <2>5. Begins(h, n + 1, s, step)
    <3>1. 0..(n + 1 - 1) = 0..n
      OBVIOUS
    <3>2. QED
      BY <2>3, <2>4, <3>1 DEF Begins
  <2>6. QED
    BY <2>2, <2>5
<1> HIDE DEF T
<1>3. Nat \subseteq T
  BY <1>1, <1>2, NatAll
<1> USE DEF T
<1> DEFINE part(n) == CHOOSE g \in Good(n) : TRUE
           f == [n \in Nat |-> part(n)[n]]
<1>4. \A n \in Nat : part(n) \in [Nat -> S] /\ Begins(part(n), n, s, step)
  BY <1>3
<1> HIDE DEF part, T, Good
<1>5. f \in [Nat -> S]
  BY <1>4
<1>6. f[0] = s
  BY <1>4 DEF Begins
<1>7. ASSUME NEW n \in Nat PROVE f[n + 1] = step[<<n, f[n]>>]
  <2>1. Begins(part(n + 1), n, s, step)
    BY <1>4 DEF Begins
  <2>2. part(n + 1)[n] = part(n)[n]
    BY <1>4, <2>1, BeginningsAgree
  <2>3. part(n + 1)[n + 1] = step[<<n, part(n + 1)[n]>>]
    BY <1>4 DEF Begins
  <2>4. QED
    BY <2>2, <2>3
<1>8. QED
  BY <1>5, <1>6, <1>7 DEF Recurs

\* The same for a function on 1..N that begins at 1.
RecursTo(g, N, s, step) ==
  /\ 1 <= N => g[1] = s
  /\ \A n \in 2..N : g[n] = step[<<n, g[n - 1]>>]

LEMMA RecursionTo ==
  ASSUME NEW N \in Nat, NEW S, NEW s \in S, NEW step \in [Nat \X S -> S]
  PROVE  \E g \in [1..N -> S] : RecursTo(g, N, s, step)
<1> DEFINE later == [q \in Nat \X S |-> step[<<q[1] + 2, q[2]>>]]
<1>1. later \in [Nat \X S -> S]
  OBVIOUS
<1>2. \A n \in Nat, v \in S : later[<<n, v>>] = step[<<n + 2, v>>]
  OBVIOUS
<1> HIDE DEF later
<1>3. PICK h \in [Nat -> S] : Recurs(h, s, later)
  BY <1>1, Recursion
<1> DEFINE g == [n \in 1..N |-> h[n - 1]]
<1>4. g \in [1..N -> S]
  OBVIOUS
<1>5. 1 <= N => g[1] = s
  BY <1>3 DEF Recurs
<1>6. ASSUME NEW n \in 2..N PROVE g[n] = step[<<n, g[n - 1]>>]
  <2>1. n - 2 \in Nat /\ (n - 2) + 1 = n - 1 /\ n - 1 \in 1..N /\ n \in 1..N /\ (n - 1) - 1 = n - 2
        /\ (n - 2) + 2 = n
    OBVIOUS
  <2>2. h[n - 1] = later[<<n - 2, h[n - 2]>>]
    BY <1>3, <2>1 DEF Recurs
  <2>3. later[<<n - 2, h[n - 2]>>] = step[<<n, h[n - 2]>>]
    BY <1>2, <1>3, <2>1
  <2>4. QED
    BY <2>1, <2>2, <2>3
<1>7. QED
  BY <1>4, <1>5, <1>6 DEF RecursTo

\* What holds of n if it holds of what is above n, up to N, holds of all of 1..N.
LEMMA DownInduction ==
  ASSUME NEW N \in Nat, NEW T,
         \A n \in 1..N : (\A m \in (n + 1)..N : m \in T) => n \in T
  PROVE  1..N \subseteq T
<1> DEFINE U == {k \in Nat : \A n \in 1..N : n + k > N => n \in T}
<1>1. 0 \in U
  OBVIOUS
<1>2. ASSUME NEW k \in Nat, k \in U PROVE k + 1 \in U
  <2>1. ASSUME NEW n \in 1..N, n + (k + 1) > N PROVE n \in T
    <3>1. \A m \in (n + 1)..N : m \in 1..N /\ m + k > N
      BY <2>1
    <3>2. \A m \in (n + 1)..N : m \in T
      BY <1>2, <3>1
    <3>3. QED
      BY <3>2
  <2>2. QED
    BY <2>1
<1> HIDE DEF U
<1>3. N + 1 \in U
  BY <1>1, <1>2, NatAll
<1>4. \A n \in 1..N : n + (N + 1) > N
  OBVIOUS
<1>5. QED
  BY <1>3, <1>4 DEF U

\* A value that depends on those above it only is defined from N down.
FromAbove(N, S, step) ==
  \A n \in 1..N : \A u, v \in [1..N -> S] :
    (\A m \in (n + 1)..N : u[m] = v[m]) => step[<<n, u>>] = step[<<n, v>>]

RecursDown(u, N, step) == \A n \in 1..N : u[n] = step[<<n, u>>]

LEMMA DownRecursion ==
  ASSUME NEW N \in Nat, NEW S, NEW s \in S, NEW step \in [(1..N) \X [1..N -> S] -> S],
         FromAbove(N, S, step)
  PROVE  \E u \in [1..N -> S] : RecursDown(u, N, step)
<1> USE DEF FromAbove, RecursDown
<1> DEFINE Solves(u, k) == \A n \in 1..N : n + k > N => u[n] = step[<<n, u>>]
           T == {k \in Nat : \E u \in [1..N -> S] : Solves(u, k)}
<1>1. 0 \in T
  <2>1. [n \in 1..N |-> s] \in [1..N -> S]
    OBVIOUS
  <2>2. \A n \in 1..N : ~(n + 0 > N)
    OBVIOUS
  <2>3. QED
    BY <2>1, <2>2
<1>2. ASSUME NEW k \in Nat, k \in T PROVE k + 1 \in T
  <2>1. PICK u \in [1..N -> S] : Solves(u, k)
    BY <1>2
  <2>2. CASE N - k \notin 1..N
    <3>1. \A n \in 1..N : n + (k + 1) > N => n + k > N
      BY <2>2
    <3>2. Solves(u, k + 1)
      BY <2>1, <3>1
    <3>3. QED
      BY <3>2
  <2>3. CASE N - k \in 1..N
    <3> DEFINE c == N - k
               v == [u EXCEPT ![c] = step[<<c, u>>]]
    <3>1. c \in 1..N /\ c + k = N
      BY <2>3
    <3>2. \A n \in 1..N : n + (k + 1) > N => n = c \/ (n > c /\ n + k > N)
      BY <3>1
    <3>3. \A n \in 1..N : n >= c => \A m \in (n + 1)..N : m \in 1..N /\ m # c
      BY <3>1
    <3> HIDE DEF c
    <3>4. step[<<c, u>>] \in S
      BY <3>1
    <3>5. v \in [1..N -> S] /\ v[c] = step[<<c, u>>] /\ \A m \in 1..N : m # c => v[m] = u[m]
      BY <3>1, <3>4
    <3> HIDE DEF v
    <3>6. \A n \in 1..N : n >= c => step[<<n, u>>] = step[<<n, v>>]
      BY <3>3, <3>5
    <3>7. ASSUME NEW n \in 1..N, n + (k + 1) > N PROVE v[n] = step[<<n, v>>]
      <4>1. CASE n = c
        <5>1. c >= c
          BY <3>1
        <5>2. step[<<c, u>>] = step[<<c, v>>]
          BY <3>1, <3>6, <5>1, Zenon
        <5>3. QED
          BY <3>5, <4>1, <5>2
      <4>2. CASE n > c /\ n + k > N
        <5>1. n >= c /\ n # c
          BY <3>1, <4>2
        <5>2. QED
          BY <2>1, <3>5, <3>6, <4>2, <5>1
      <4>3. QED
        BY <3>2, <3>7, <4>1, <4>2
    <3>8. Solves(v, k + 1)
      BY <3>7
    <3> HIDE DEF Solves
    <3>9. QED
      BY <3>5, <3>8
  <2>4. QED
    BY <2>2, <2>3
<1> HIDE DEF T
<1>3. N \in T
  BY <1>1, <1>2, NatAll
<1>4. PICK u \in [1..N -> S] : Solves(u, N)
  BY <1>3 DEF T
<1>5. \A n \in 1..N : n + N > N
  OBVIOUS
<1>6. QED
  BY <1>4, <1>5

\* The function on 0..N that begins with s and takes a step from k - 1 to k.
RecursUpTo(g, N, s, step) ==
  /\ g[0] = s
  /\ \A k \in 1..N : g[k] = step[<<k, g[k - 1]>>]

LEMMA RecursionUpTo ==
  ASSUME NEW N \in Nat, NEW S, NEW s \in S, NEW step \in [Nat \X S -> S]
  PROVE  \E g \in [0..N -> S] : RecursUpTo(g, N, s, step)
<1> DEFINE later == [q \in Nat \X S |-> step[<<q[1] + 1, q[2]>>]]
<1>1. later \in [Nat \X S -> S]
  OBVIOUS
<1>2. \A n \in Nat, v \in S : later[<<n, v>>] = step[<<n + 1, v>>]
  OBVIOUS
<1> HIDE DEF later
<1>3. PICK h \in [Nat -> S] : Recurs(h, s, later)
  BY <1>1, Recursion
<1> DEFINE g == [n \in 0..N |-> h[n]]
<1>4. g \in [0..N -> S] /\ g[0] = s
  BY <1>3 DEF Recurs
<1>5. ASSUME NEW k \in 1..N PROVE g[k] = step[<<k, g[k - 1]>>]
  <2>1. k - 1 \in Nat /\ (k - 1) + 1 = k /\ k - 1 \in 0..N /\ k \in 0..N
    OBVIOUS
  <2>2. h[(k - 1) + 1] = later[<<k - 1, h[k - 1]>>]
    BY <1>3, <2>1 DEF Recurs
  <2>3. later[<<k - 1, h[k - 1]>>] = step[<<(k - 1) + 1, h[k - 1]>>]
    BY <1>2, <1>3, <2>1
  <2>4. QED
    BY <2>1, <2>2, <2>3
<1>6. QED
  BY <1>4, <1>5 DEF RecursUpTo

-----------------------------------------------------------------------------
(* FlattenSeq *)

Flattens(g, ss) ==
  /\ g[1] = ss[1]
  /\ \A n \in 2..Len(ss) : g[n] = g[n - 1] \o ss[n]
  /\ FlattenSeq(ss) = g[Len(ss)]

LEMMA Flattening ==
  ASSUME NEW S, NEW ss \in Seq(Seq(S)), Len(ss) # 0
  PROVE  \E g \in [1..Len(ss) -> Seq(S)] : Flattens(g, ss)
<1> DEFINE N == Len(ss)
           Body(u) == [i \in 1..N |-> IF i = 1 THEN ss[i] ELSE u[i - 1] \o ss[i]]
           f == CHOOSE u : u = Body(u)
           step == [q \in Nat \X Seq(S) |-> IF q[1] \in 1..N THEN q[2] \o ss[q[1]] ELSE q[2]]
<1>1. FlattenSeq(ss) = f[N]
  BY DEF FlattenSeq
<1>2. N \in Nat /\ N > 0 /\ \A n \in 1..N : ss[n] \in Seq(S)
  BY ElementOfSeq
<1> HIDE DEF N
<1>3. step \in [Nat \X Seq(S) -> Seq(S)]
  BY <1>2
<1>4. ASSUME NEW n \in 1..N, NEW v \in Seq(S) PROVE step[<<n, v>>] = v \o ss[n]
  <2> DEFINE q == <<n, v>>
  <2>1. q \in Nat \X Seq(S) /\ q[1] = n /\ q[2] = v
    BY <1>2
  <2> HIDE DEF q
  <2>2. step[q] = v \o ss[n]
    BY <2>1
  <2>3. QED
    BY <2>2 DEF q
<1> HIDE DEF step
<1>5. PICK g \in [1..N -> Seq(S)] : RecursTo(g, N, ss[1], step)
  <2>1. ss[1] \in Seq(S)
    BY <1>2
  <2>2. QED
    BY <1>2, <1>3, <2>1, RecursionTo
<1>6. g[1] = ss[1] /\ \A n \in 2..N : g[n] = g[n - 1] \o ss[n]
  <2>1. ASSUME NEW n \in 2..N PROVE g[n] = g[n - 1] \o ss[n]
    <3>1. n \in 1..N /\ n - 1 \in 1..N /\ g[n - 1] \in Seq(S)
      BY <1>2
    <3>2. g[n] = step[<<n, g[n - 1]>>]
      BY <1>5 DEF RecursTo
    <3>3. QED
      BY <1>4, <3>1, <3>2
  <2>2. g[1] = ss[1]
    BY <1>2, <1>5 DEF RecursTo
  <2>3. QED
    BY <2>1, <2>2
<1>7. g = Body(g)
  <2>1. \A n \in 1..N : n = 1 \/ n \in 2..N
    BY <1>2
  <2>2. \A n \in 1..N : g[n] = Body(g)[n]
    BY <1>6, <2>1
  <2>3. QED
    BY <2>2
<1>8. f = Body(f)
  <2> HIDE DEF Body
  <2>1. QED
    BY <1>7
<1> HIDE DEF f
<1>9. \A n \in 1..N : n \in 1..N => f[n] = g[n]
  <2> DEFINE T == {n \in Nat : n \in 1..N => f[n] = g[n]}
  <2>1. 0 \in T
    OBVIOUS
  <2>2. ASSUME NEW n \in Nat, n \in T PROVE n + 1 \in T
    <3>1. CASE n = 0
      BY <1>2, <1>6, <1>8, <3>1
    <3>2. CASE n # 0 /\ n + 1 <= N
      <4>1. n + 1 \in 2..N /\ n + 1 \in 1..N /\ n + 1 # 1 /\ n \in 1..N /\ (n + 1) - 1 = n
        BY <1>2, <3>2
      <4>2. f[n + 1] = f[n] \o ss[n + 1] /\ g[n + 1] = g[n] \o ss[n + 1]
        BY <1>6, <1>8, <4>1
      <4>3. f[n] = g[n]
        BY <2>2, <4>1
      <4>4. f[n + 1] = g[n + 1]
        BY <4>2, <4>3
      <4>5. QED
        BY <4>1, <4>4
    <3>3. CASE ~(n + 1 <= N)
      BY <1>2, <3>3
    <3>4. QED
      BY <3>1, <3>2, <3>3
  <2> HIDE DEF T
  <2>3. Nat \subseteq T
    BY <2>1, <2>2, NatAll
  <2>4. QED
    BY <1>2, <2>3 DEF T
<1>10. FlattenSeq(ss) = g[N]
  BY <1>1, <1>2, <1>9
<1>11. QED
  BY <1>6, <1>10 DEF Flattens, N

LEMMA FlattenEmpty == FlattenSeq(<<>>) = <<>>
BY DEF FlattenSeq

\* A sequence is flattened part by part.
LEMMA FlattenAppend ==
  ASSUME NEW S, NEW ss \in Seq(Seq(S)), NEW s \in Seq(S)
  PROVE  /\ FlattenSeq(ss) \in Seq(S)
         /\ FlattenSeq(Append(ss, s)) = FlattenSeq(ss) \o s
<1> DEFINE tt == Append(ss, s)
           N == Len(ss)
<1>1. /\ tt \in Seq(Seq(S)) /\ Len(tt) = N + 1 /\ N \in Nat
      /\ \A i \in 1..N : tt[i] = ss[i]
      /\ tt[N + 1] = s
  BY AppendProperties
<1> HIDE DEF tt
<1>2. PICK h \in [1..Len(tt) -> Seq(S)] : Flattens(h, tt)
  <2>1. Len(tt) # 0
    BY <1>1
  <2>2. QED
    BY <1>1, <2>1, Flattening
<1>3. CASE N = 0
  <2>1. ss = <<>>
    BY <1>3, EmptySeq
  <2>2. FlattenSeq(tt) = s
    BY <1>1, <1>2, <1>3 DEF Flattens
  <2>3. FlattenSeq(ss) = <<>> /\ <<>> \in Seq(S)
    BY <2>1, FlattenEmpty
  <2>4. <<>> \o s = s
    BY ConcatEmptySeq
  <2>5. QED
    BY <2>2, <2>3, <2>4 DEF tt
<1>4. CASE N # 0
  <2>1. PICK g \in [1..N -> Seq(S)] : Flattens(g, ss)
    BY <1>4, Flattening
  <2> DEFINE T == {n \in Nat : n \in 1..N => h[n] = g[n]}
  <2>2. 0 \in T
    OBVIOUS
  <2>3. ASSUME NEW n \in Nat, n \in T PROVE n + 1 \in T
    <3>1. CASE n = 0
      BY <1>1, <1>2, <1>4, <2>1, <3>1 DEF Flattens
    <3>2. CASE n # 0 /\ n + 1 <= N
      <4>1. n + 1 \in 2..N /\ n + 1 \in 2..Len(tt) /\ n \in 1..N /\ (n + 1) - 1 = n /\ n + 1 \in 1..N
        BY <1>1, <3>2
      <4>2. g[n + 1] = g[n] \o ss[n + 1] /\ h[n + 1] = h[n] \o tt[n + 1]
        BY <1>2, <2>1, <4>1 DEF Flattens
      <4>3. h[n] = g[n] /\ tt[n + 1] = ss[n + 1]
        BY <1>1, <2>3, <4>1
      <4>4. h[n + 1] = g[n + 1]
        BY <4>2, <4>3
      <4>5. QED
        BY <4>1, <4>4
    <3>3. CASE ~(n + 1 <= N)
      BY <1>1, <3>3
    <3>4. QED
      BY <3>1, <3>2, <3>3
  <2> HIDE DEF T
  <2>4. N \in T
    BY <1>1, <2>2, <2>3, NatAll
  <2>5. h[N] = g[N] /\ g[N] \in Seq(S) /\ FlattenSeq(ss) = g[N]
    BY <1>1, <1>4, <2>1, <2>4 DEF T, Flattens
  <2>6. N + 1 \in 2..Len(tt) /\ (N + 1) - 1 = N
    BY <1>1, <1>4
  <2>7. FlattenSeq(tt) = h[N] \o s
    BY <1>1, <1>2, <2>6 DEF Flattens
  <2>8. QED
    BY <2>5, <2>7 DEF tt
<1>5. QED
  BY <1>3, <1>4

-----------------------------------------------------------------------------
(* Order in a sequence: R holds of what stands before what *)

Elems(s) == {s[i] : i \in 1..Len(s)}

Ordered(s, R) == \A i, j \in 1..Len(s) : i < j => <<s[i], s[j]>> \in R

Between(A, B, R) == \A a \in A, b \in B : <<a, b>> \in R

LEMMA ConcatOrdered ==
  ASSUME NEW S, NEW s \in Seq(S), NEW t \in Seq(S)
  PROVE  /\ s \o t \in Seq(S) /\ Elems(s \o t) = Elems(s) \cup Elems(t)
         /\ \A R : Ordered(s, R) /\ Ordered(t, R) /\ Between(Elems(s), Elems(t), R)
                   => Ordered(s \o t, R)
<1> DEFINE k == Len(s)
           l == Len(t)
           r == s \o t
<1>1. k \in Nat /\ l \in Nat
  BY LenProperties
<1>2. /\ r \in Seq(S) /\ Len(r) = k + l
      /\ \A i \in 1..(k + l) : r[i] = IF i <= k THEN s[i] ELSE t[i - k]
  BY ConcatProperties
<1>3. /\ Elems(s) = {s[i] : i \in 1..k} /\ Elems(t) = {t[i] : i \in 1..l}
      /\ Elems(r) = {r[i] : i \in 1..(k + l)}
  BY <1>2 DEF Elems
<1> HIDE DEF k, l, r
<1>4. \A i \in 1..k : i \in 1..(k + l) /\ r[i] = s[i]
  BY <1>1, <1>2
<1>5. \A i \in 1..l : i + k \in 1..(k + l) /\ ~(i + k <= k) /\ (i + k) - k = i /\ r[i + k] = t[i]
  BY <1>1, <1>2
<1>6. \A i \in 1..(k + l) : i \in 1..k \/ (i - k \in 1..l /\ ~(i <= k) /\ r[i] = t[i - k])
  BY <1>1, <1>2
<1>7. Elems(r) = Elems(s) \cup Elems(t)
  <2>1. ASSUME NEW x \in Elems(r) PROVE x \in Elems(s) \cup Elems(t)
    BY <1>3, <1>4, <1>6
  <2>2. ASSUME NEW x \in Elems(s) PROVE x \in Elems(r)
    BY <1>3, <1>4
  <2>3. ASSUME NEW x \in Elems(t) PROVE x \in Elems(r)
    BY <1>3, <1>5
  <2>4. QED
    BY <2>1, <2>2, <2>3
<1>8. ASSUME NEW R, Ordered(s, R), Ordered(t, R), Between(Elems(s), Elems(t), R)
      PROVE Ordered(r, R)
  <2>1. ASSUME NEW i \in 1..(k + l), NEW j \in 1..(k + l), i < j
        PROVE <<r[i], r[j]>> \in R
    <3>1. CASE i \in 1..k /\ j \in 1..k
      BY <1>4, <1>8, <2>1, <3>1 DEF Ordered, k
    <3>2. CASE i \in 1..k /\ ~(j \in 1..k)
      <4>1. j - k \in 1..l /\ r[j] = t[j - k] /\ r[i] = s[i]
        BY <1>4, <1>6, <3>2
      <4>2. r[i] \in Elems(s) /\ r[j] \in Elems(t)
        BY <1>3, <3>2, <4>1
      <4>3. QED
        BY <1>8, <4>2 DEF Between
    <3>3. CASE ~(i \in 1..k)
      <4>1. /\ i - k \in 1..l /\ r[i] = t[i - k] /\ j - k \in 1..l /\ r[j] = t[j - k]
            /\ i - k < j - k
        BY <1>1, <1>6, <2>1, <3>3
      <4>2. <<t[i - k], t[j - k]>> \in R
        BY <1>8, <4>1 DEF Ordered, l
      <4>3. QED
        BY <4>1, <4>2
    <3>4. QED
      BY <3>1, <3>2, <3>3
  <2>2. QED
    BY <1>2, <2>1 DEF Ordered
<1>9. QED
  BY <1>2, <1>7, <1>8 DEF r

LEMMA AppendOrdered ==
  ASSUME NEW S, NEW s \in Seq(S), NEW x \in S
  PROVE  /\ Append(s, x) \in Seq(S) /\ Elems(Append(s, x)) = Elems(s) \cup {x}
         /\ \A R : Ordered(s, R) /\ Between(Elems(s), {x}, R) => Ordered(Append(s, x), R)
<1>1. /\ Append(s, x) = s \o <<x>> /\ <<x>> \in Seq(S) /\ Len(<<x>>) = 1 /\ <<x>>[1] = x
  OBVIOUS
<1>2. Elems(<<x>>) = {x} /\ \A R : Ordered(<<x>>, R)
  <2>1. \A i \in 1..1 : i = 1
    OBVIOUS
  <2>2. 1 \in 1..1
    OBVIOUS
  <2>3. QED
    BY <1>1, <2>1, <2>2 DEF Elems, Ordered
<1> DEFINE t == <<x>>
<1>3. t \in Seq(S) /\ Append(s, x) = s \o t /\ Elems(t) = {x} /\ \A R : Ordered(t, R)
  BY <1>1, <1>2
<1> HIDE DEF t
<1>4. /\ s \o t \in Seq(S) /\ Elems(s \o t) = Elems(s) \cup Elems(t)
      /\ \A R : Ordered(s, R) /\ Ordered(t, R) /\ Between(Elems(s), Elems(t), R)
                => Ordered(s \o t, R)
  BY <1>3, ConcatOrdered
<1>5. QED
  BY <1>3, <1>4

\* A sequence of sequences, flattened.
LEMMA FlattenOrdered ==
  ASSUME NEW S, NEW ss \in Seq(Seq(S))
  PROVE  /\ FlattenSeq(ss) \in Seq(S)
         /\ Elems(FlattenSeq(ss)) = UNION {Elems(ss[k]) : k \in 1..Len(ss)}
         /\ \A R : (/\ \A k \in 1..Len(ss) : Ordered(ss[k], R)
                    /\ \A k, l \in 1..Len(ss) : k < l => Between(Elems(ss[k]), Elems(ss[l]), R))
                   => Ordered(FlattenSeq(ss), R)
<1> DEFINE N == Len(ss)
<1>1. N \in Nat /\ \A k \in 1..N : ss[k] \in Seq(S)
  BY LenProperties, ElementOfSeq
<1>2. CASE N = 0
  <2>1. ss = <<>> /\ FlattenSeq(ss) = <<>> /\ <<>> \in Seq(S) /\ Len(<<>>) = 0
    BY <1>2, EmptySeq, FlattenEmpty
  <2>2. Elems(<<>>) = {} /\ \A R : Ordered(<<>>, R)
    BY <2>1 DEF Elems, Ordered
  <2>3. UNION {Elems(ss[k]) : k \in 1..N} = {}
    BY <1>2
  <2>4. QED
    BY <2>1, <2>2, <2>3
<1>3. CASE N # 0
  <2>1. PICK g \in [1..N -> Seq(S)] : Flattens(g, ss)
    BY <1>3, Flattening
  <2>2. /\ g[1] = ss[1] /\ FlattenSeq(ss) = g[N]
        /\ \A n \in 2..N : g[n] = g[n - 1] \o ss[n]
    BY <2>1 DEF Flattens
  <2> DEFINE Parted(R) == /\ \A k \in 1..N : Ordered(ss[k], R)
                          /\ \A k, l \in 1..N : k < l => Between(Elems(ss[k]), Elems(ss[l]), R)
             all(n) == UNION {Elems(ss[k]) : k \in 1..n}
             T == {n \in Nat : n \in 1..N => /\ Elems(g[n]) = all(n)
                                             /\ \A R : Parted(R) => Ordered(g[n], R)}
  <2> HIDE DEF N
  <2>3. 0 \in T
    OBVIOUS
  <2>4. ASSUME NEW n \in Nat, n \in T PROVE n + 1 \in T
    <3>1. CASE n = 0
      <4>1. 1 \in 1..N
        BY <1>1, <1>3
      <4>2. \A R : Parted(R) => Ordered(g[1], R)
        BY <2>2, <4>1
      <4>3. 1..1 = {1}
        OBVIOUS
      <4>4. all(1) = Elems(ss[1])
        BY <4>3
      <4>5. QED
        BY <2>2, <3>1, <4>2, <4>4
    <3>2. CASE n # 0 /\ n + 1 <= N
      <4>1. n + 1 \in 2..N /\ n \in 1..N /\ (n + 1) - 1 = n /\ n + 1 \in 1..N
            /\ 1..(n + 1) = 1..n \cup {n + 1} /\ \A k \in 1..n : k \in 1..N /\ k < n + 1
        BY <1>1, <3>2
      <4>2. /\ g[n + 1] = g[n] \o ss[n + 1] /\ g[n] \in Seq(S) /\ ss[n + 1] \in Seq(S)
            /\ Elems(g[n]) = all(n) /\ \A R : Parted(R) => Ordered(g[n], R)
        BY <1>1, <2>1, <2>2, <2>4, <4>1
      <4>3. /\ Elems(g[n + 1]) = Elems(g[n]) \cup Elems(ss[n + 1])
            /\ \A R : Ordered(g[n], R) /\ Ordered(ss[n + 1], R)
                        /\ Between(Elems(g[n]), Elems(ss[n + 1]), R)
                      => Ordered(g[n + 1], R)
        <5> DEFINE a == g[n]
                   b == ss[n + 1]
                   c == g[n + 1]
        <5>1. a \in Seq(S) /\ b \in Seq(S) /\ c = a \o b
          BY <4>2
        <5> HIDE DEF a, b, c
        <5>2. /\ Elems(a \o b) = Elems(a) \cup Elems(b)
              /\ \A R : Ordered(a, R) /\ Ordered(b, R) /\ Between(Elems(a), Elems(b), R)
                        => Ordered(a \o b, R)
          BY <5>1, ConcatOrdered
        <5>3. /\ Elems(c) = Elems(a) \cup Elems(b)
              /\ \A R : Ordered(a, R) /\ Ordered(b, R) /\ Between(Elems(a), Elems(b), R)
                        => Ordered(c, R)
          BY <5>1, <5>2, Zenon
        <5>4. QED
          BY <5>3 DEF a, b, c
      <4>4. all(n + 1) = all(n) \cup Elems(ss[n + 1])
        BY <4>1
      <4>5. ASSUME NEW R, Parted(R) PROVE Ordered(g[n + 1], R)
        <5>1. Ordered(g[n], R) /\ Ordered(ss[n + 1], R)
          BY <4>1, <4>2, <4>5
        <5>2. ASSUME NEW x \in all(n), NEW y \in Elems(ss[n + 1]) PROVE <<x, y>> \in R
          <6>1. PICK k \in 1..n : x \in Elems(ss[k])
            OBVIOUS
          <6>2. Between(Elems(ss[k]), Elems(ss[n + 1]), R)
            BY <4>1, <4>5
          <6>3. QED
            BY <6>1, <6>2 DEF Between
        <5>3. Between(Elems(g[n]), Elems(ss[n + 1]), R)
          BY <4>2, <5>2 DEF Between
        <5>4. QED
          BY <4>3, <5>1, <5>3
      <4>6. Elems(g[n + 1]) = all(n + 1)
        BY <4>2, <4>3, <4>4
      <4> HIDE DEF all, Parted
      <4>7. QED
        BY <4>5, <4>6
    <3>3. CASE ~(n + 1 <= N)
      BY <1>1, <3>3
    <3>4. QED
      BY <3>1, <3>2, <3>3
  <2> HIDE DEF T
  <2>5. Nat \subseteq T
    BY <2>3, <2>4, NatAll
  <2>n. N \in T /\ N \in 1..N
    BY <1>1, <1>3, <2>5
  <2>6. Elems(g[N]) = all(N) /\ \A R : Parted(R) => Ordered(g[N], R)
    BY <2>n DEF T
  <2>7. g[N] \in Seq(S)
    BY <2>1, <2>n
  <2>8. QED
    BY <2>2, <2>6, <2>7 DEF N
<1>4. QED
  BY <1>2, <1>3
=============================================================================
