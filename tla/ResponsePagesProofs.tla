------------------------- MODULE ResponsePagesProofs -------------------------
(***************************************************************************)
(* Paged answers, for any clients, tools, responses, limits and cache      *)
(* size: a client that follows the hints holds the whole text, and nothing *)
(* of another client's.                                                    *)
(***************************************************************************)
EXTENDS ResponsePages, FiniteSetTheorems, SequenceTheorems, TLAPS

-----------------------------------------------------------------------------
(***************************************************************************)
(* Recursive tables.                                                       *)
(***************************************************************************)

\* Induction over the numbers up to N, on a set of them.
LEMMA UpTo ==
  ASSUME NEW N \in Nat, NEW G \in SUBSET (0..N), 0 \in G, \A n \in 1..N : n - 1 \in G => n \in G
  PROVE  G = 0..N
<1> DEFINE S == 1..N
           T == (0..N) \ G
           U == {1..n : n \in T}
<1>0. SUFFICES ASSUME T # {} PROVE FALSE
  OBVIOUS
<1>1. IsWellFoundedOn(StrictSubsetOrdering(S), FiniteSubsetsOf(S))
  BY FS_StrictSubsetOrderingWellFounded
<1>2. U \subseteq FiniteSubsetsOf(S) /\ U # {}
  <2>1. ASSUME NEW n \in T PROVE 1..n \in FiniteSubsetsOf(S)
    BY FS_Interval DEF FiniteSubsetsOf
  <2>2. QED
    BY <1>0, <2>1
<1> HIDE DEF S, U
<1>3. PICK x \in U : \A y \in U : ~(<<y, x>> \in StrictSubsetOrdering(S))
  BY <1>1, <1>2, WFMin
<1>4. PICK n \in T : x = 1..n
  BY DEF U
<1>5. n \in 1..N /\ n - 1 \in T
  OBVIOUS
<1>6. 1..(n - 1) \in U
  BY <1>5 DEF U
<1>7. <<1..(n - 1), x>> \in StrictSubsetOrdering(S)
  BY <1>4, <1>5 DEF StrictSubsetOrdering, S
<1>8. QED
  BY <1>3, <1>6, <1>7

\* A table of N steps in D that starts with x; step n is g[n].
Table(f, N, D, x, g) ==
  f \in [0..N -> D] /\ f[0] = x /\ \A n \in 1..N : f[n] = g[n][f[n - 1]]

\* There is such a table.
LEMMA Recursion ==
  ASSUME NEW N \in Nat, NEW D, NEW x \in D, NEW g \in [1..N -> [D -> D]]
  PROVE  \E f : Table(f, N, D, x, g)
<1> DEFINE Good(k) == \E f \in [0..k -> D] : f[0] = x /\ \A n \in 1..k : f[n] = g[n][f[n - 1]]
           G == {k \in 0..N : Good(k)}
<1>1. Good(0)
  <2> DEFINE f == [n \in 0..0 |-> x]
  <2>1. f \in [0..0 -> D] /\ f[0] = x /\ 1..0 = {}
    OBVIOUS
  <2> HIDE DEF f
  <2>2. QED
    BY <2>1
<1>2. ASSUME NEW n \in 1..N, Good(n - 1) PROVE Good(n)
  <2>1. PICK f \in [0..(n - 1) -> D] : f[0] = x /\ \A m \in 1..(n - 1) : f[m] = g[m][f[m - 1]]
    BY <1>2
  <2> DEFINE h == [m \in 0..n |-> IF m = n THEN g[n][f[n - 1]] ELSE f[m]]
  <2>2. h \in [0..n -> D]
    OBVIOUS
  <2>3. h[0] = x /\ h[n] = g[n][f[n - 1]] /\ \A m \in 0..(n - 1) : h[m] = f[m]
    BY <2>1
  <2> HIDE DEF h
  <2>4. ASSUME NEW m \in 1..n PROVE h[m] = g[m][h[m - 1]]
    <3>1. h[m - 1] = f[m - 1]
      BY <2>3
    <3>2. CASE m = n
      BY <2>3, <3>1, <3>2
    <3>3. CASE m # n
      BY <2>1, <2>3, <3>1, <3>3
    <3>4. QED
      BY <3>2, <3>3
  <2>5. QED
    BY <2>2, <2>3, <2>4
<1> HIDE DEF Good
<1>3. 0 \in G /\ (\A n \in 1..N : n - 1 \in G => n \in G) /\ G \in SUBSET (0..N)
  BY <1>1, <1>2
<1>4. Good(N)
  <2> HIDE DEF G
  <2>1. G = 0..N
    BY <1>3, UpTo
  <2>2. N \in G
    BY <2>1
  <2>3. QED
    BY <2>2 DEF G
<1>5. QED
  BY <1>4 DEF Good, Table

\* The characters of the joined blocks of response v bear its number.
LEMMA Joined ==
  ASSUME NEW v \in Nat, NEW b \in Seq(Nat)
  PROVE  JoinTextBlocks(v, b) \in Seq({v} \X Nat \X Nat)
<1> DEFINE C == {v} \X Nat \X Nat
           D == Seq(C)
           N == Len(b)
           Next1(n, s) == IF n = 1 THEN Block(v, 1, b[1]) ELSE s \o <<NewLine(v)>> \o Block(v, n, b[n])
           g == [n \in 1..N |-> [s \in D |-> Next1(n, s)]]
           to[n \in 0..N] ==
        IF n = 0 THEN <<>>
        ELSE IF n = 1 THEN Block(v, 1, b[1])
        ELSE to[n - 1] \o <<NewLine(v)>> \o Block(v, n, b[n])
           body(h, n) == IF n = 0 THEN <<>>
                         ELSE IF n = 1 THEN Block(v, 1, b[1])
                         ELSE h[n - 1] \o <<NewLine(v)>> \o Block(v, n, b[n])
<1>1. N \in Nat /\ \A n \in 1..N : b[n] \in Nat
  OBVIOUS
<1>2. ASSUME NEW n \in 1..N PROVE Block(v, n, b[n]) \in Seq(C)
  <2>1. b[n] \in Nat /\ \A i \in 1..b[n] : <<v, n, i>> \in C
    BY <1>1
  <2>2. QED
    BY <2>1 DEF Block
<1>3. <<NewLine(v)>> \in Seq(C)
  BY DEF NewLine
<1> HIDE DEF C
<1>4. \A n \in 1..N : \A s \in D : Next1(n, s) \in D
  BY <1>2, <1>3, ConcatProperties
<1>6. <<>> \in D
  OBVIOUS
<1>7. \A h : \A n : body(h, n) = IF n = 0 THEN <<>> ELSE Next1(n, h[n - 1])
  OBVIOUS
<1> HIDE DEF Next1, N, D
<1>5. g \in [1..N -> [D -> D]] /\ \A n \in 1..N : \A s \in D : g[n][s] = Next1(n, s)
  BY <1>4
<1> HIDE DEF g
<1>8. PICK f \in [0..N -> D] : f[0] = <<>> /\ \A n \in 1..N : f[n] = g[n][f[n - 1]]
  <2>1. N \in Nat
    BY <1>1
  <2>2. g \in [1..N -> [D -> D]]
    BY <1>5
  <2> HIDE DEF to, body
  <2>3. QED
    <3>1. \E f : Table(f, N, D, <<>>, g)
      BY <2>1, <2>2, <1>6, Recursion, Zenon
    <3>2. QED
      BY <3>1, Zenon DEF Table
<1>9. ASSUME NEW n \in 1..N PROVE f[n] = Next1(n, f[n - 1])
  <2>1. f[n - 1] \in D /\ f[n] = g[n][f[n - 1]]
    BY <1>1, <1>8
  <2>2. QED
    BY <1>5, <2>1
<1>10. f = [n \in 0..N |-> body(f, n)]
  <2> HIDE DEF body
  <2>0. \A n : body(f, n) = IF n = 0 THEN <<>> ELSE Next1(n, f[n - 1])
    BY <1>7, Zenon
  <2>1. ASSUME NEW n \in 0..N PROVE f[n] = body(f, n)
    <3>1. CASE n = 0
      BY <1>8, <2>0, <3>1
    <3>2. CASE n # 0
      BY <1>1, <1>9, <2>0, <3>2
    <3>3. QED
      BY <3>1, <3>2
  <2>2. QED
    BY <1>8, <2>1
<1>11. to = [n \in 0..N |-> body(to, n)]
  BY <1>10, Zenon
<1>15. JoinTextBlocks(v, b) = to[N]
  BY Zenon DEF JoinTextBlocks, N
<1> HIDE DEF to, body
<1>12. /\ to[0] = <<>> /\ \A n \in 1..N : to[n] = Next1(n, to[n - 1])
  <2>1. \A n \in 0..N : to[n] = body(to, n)
    BY <1>11, Zenon
  <2>2. \A n : body(to, n) = IF n = 0 THEN <<>> ELSE Next1(n, to[n - 1])
    BY <1>7, Zenon
  <2>3. to[0] = <<>>
    BY <1>1, <2>1, <2>2
  <2>4. ASSUME NEW n \in 1..N PROVE to[n] = Next1(n, to[n - 1])
    BY <1>1, <2>1, <2>2
  <2>5. QED
    BY <2>3, <2>4
<1> DEFINE G == {n \in 0..N : to[n] \in D}
<1>13. 0 \in G /\ (\A n \in 1..N : n - 1 \in G => n \in G) /\ G \in SUBSET (0..N)
  BY <1>1, <1>4, <1>6, <1>12
<1> HIDE DEF G
<1>14. N \in G
  <2>1. G = 0..N
    BY <1>1, <1>13, UpTo
  <2>2. QED
    BY <1>1, <2>1
<1>16. QED
  BY <1>14, <1>15 DEF C, D, G

-----------------------------------------------------------------------------
(***************************************************************************)
(* The entries at some positions of the cache.                             *)
(***************************************************************************)

\* Selected(s, at) is the last entry of a table of sequences.
Selection(f, D, s, at) ==
  /\ f \in [0..Len(s) -> Seq(D)]
  /\ f[0] = <<>>
  /\ \A n \in 1..Len(s) : f[n] = IF n \in at THEN Append(f[n - 1], s[n]) ELSE f[n - 1]
  /\ Selected(s, at) = f[Len(s)]

LEMMA SelectedTable ==
  ASSUME NEW D, NEW s \in Seq(D), NEW at
  PROVE  \E f : Selection(f, D, s, at)
<1> DEFINE Q == Seq(D)
           N == Len(s)
           Step(n, t) == IF n \in at THEN Append(t, s[n]) ELSE t
           g == [n \in 1..N |-> [t \in Q |-> Step(n, t)]]
           to[n \in 0..N] ==
             IF n = 0 THEN <<>>
             ELSE IF n \in at THEN Append(to[n - 1], s[n])
             ELSE to[n - 1]
           body(h, n) == IF n = 0 THEN <<>>
                         ELSE IF n \in at THEN Append(h[n - 1], s[n])
                         ELSE h[n - 1]
<1>1. N \in Nat /\ <<>> \in Q
  OBVIOUS
<1>2. \A n \in 1..N : \A t \in Q : Step(n, t) \in Q
  OBVIOUS
<1>3. \A h : \A n : body(h, n) = IF n = 0 THEN <<>> ELSE Step(n, h[n - 1])
  OBVIOUS
<1>4. Selected(s, at) = to[N]
  BY Zenon DEF Selected
<1>5. \A n : \A t : Step(n, t) = IF n \in at THEN Append(t, s[n]) ELSE t
  OBVIOUS
<1> HIDE DEF Step, N, Q
<1>6. g \in [1..N -> [Q -> Q]] /\ \A n \in 1..N : \A t \in Q : g[n][t] = Step(n, t)
  BY <1>2
<1> HIDE DEF g
<1>7. PICK f \in [0..N -> Q] : f[0] = <<>> /\ \A n \in 1..N : f[n] = g[n][f[n - 1]]
  <2> HIDE DEF to, body
  <2>1. \E f : Table(f, N, Q, <<>>, g)
    BY <1>1, <1>6, Recursion, Zenon
  <2>2. QED
    BY <2>1, Zenon DEF Table
<1>8. ASSUME NEW n \in 1..N PROVE f[n] = Step(n, f[n - 1])
  <2>1. f[n - 1] \in Q /\ f[n] = g[n][f[n - 1]]
    BY <1>1, <1>7
  <2>2. QED
    BY <1>6, <2>1
<1>9. f = [n \in 0..N |-> body(f, n)]
  <2> HIDE DEF body
  <2>1. ASSUME NEW n \in 0..N PROVE f[n] = body(f, n)
    <3>1. body(f, n) = IF n = 0 THEN <<>> ELSE Step(n, f[n - 1])
      BY <1>3, Zenon
    <3>2. CASE n = 0
      BY <1>7, <3>1, <3>2
    <3>3. CASE n # 0
      BY <1>1, <1>8, <3>1, <3>3
    <3>4. QED
      BY <3>2, <3>3
  <2>2. QED
    BY <1>7, <2>1
<1>10. to = [n \in 0..N |-> body(to, n)]
  BY <1>9, Zenon
<1> HIDE DEF to, body
<1>11. to[0] = <<>> /\ \A n \in 1..N : to[n] = Step(n, to[n - 1])
  <2>1. \A n \in 0..N : to[n] = body(to, n)
    BY <1>10, Zenon
  <2>2. \A n : body(to, n) = IF n = 0 THEN <<>> ELSE Step(n, to[n - 1])
    BY <1>3, Zenon
  <2>3. 0 \in 0..N /\ \A n \in 1..N : n \in 0..N /\ n # 0
    BY <1>1
  <2>4. QED
    BY <2>1, <2>2, <2>3
<1> DEFINE G == {n \in 0..N : to[n] \in Q}
<1>12. 0 \in G /\ (\A n \in 1..N : n - 1 \in G => n \in G) /\ G \in SUBSET (0..N)
  BY <1>1, <1>2, <1>11
<1> HIDE DEF G
<1>13. \A n \in 0..N : to[n] \in Q
  <2>1. G = 0..N
    BY <1>1, <1>12, UpTo
  <2>2. QED
    BY <2>1 DEF G
<1>14. to \in [0..N -> Q]
  BY <1>10, <1>13
<1>15. \A n \in 1..N : to[n] = IF n \in at THEN Append(to[n - 1], s[n]) ELSE to[n - 1]
  BY <1>5, <1>11
<1>16. QED
  BY <1>4, <1>11, <1>14, <1>15, Zenon DEF N, Q, Selection

\* What is selected stands at increasing positions, which are those asked for.
Positions(p, s, at) ==
  /\ p \in [1..Len(Selected(s, at)) -> 1..Len(s)]
  /\ \A i \in 1..Len(Selected(s, at)) : p[i] \in at /\ Selected(s, at)[i] = s[p[i]]
  /\ \A i, j \in 1..Len(Selected(s, at)) : i < j => p[i] < p[j]
  /\ \A k \in 1..Len(s) : k \in at => \E i \in 1..Len(Selected(s, at)) : p[i] = k

LEMMA SelectedFacts ==
  ASSUME NEW D, NEW s \in Seq(D), NEW at
  PROVE  /\ Selected(s, at) \in Seq(D)
         /\ Len(Selected(s, at)) <= Len(s)
         /\ (\E k \in 1..Len(s) : k \notin at) => Len(Selected(s, at)) < Len(s)
         /\ \E p : Positions(p, s, at)
<1> DEFINE N == Len(s)
<1>1. PICK f \in [0..N -> Seq(D)] :
        /\ f[0] = <<>>
        /\ \A n \in 1..N : f[n] = IF n \in at THEN Append(f[n - 1], s[n]) ELSE f[n - 1]
        /\ Selected(s, at) = f[N]
  <2>1. \E f : Selection(f, D, s, at)
    BY SelectedTable, Zenon
  <2>2. QED
    BY <2>1, Zenon DEF Selection
<1>2. N \in Nat /\ \A n \in 1..N : s[n] \in D
  OBVIOUS
<1> HIDE DEF N
<1> DEFINE Places2(n, p) ==
             /\ \A i \in 1..Len(f[n]) : p[i] \in at /\ f[n][i] = s[p[i]]
             /\ \A i, j \in 1..Len(f[n]) : i < j => p[i] < p[j]
             /\ \A k \in 1..n : k \in at => \E i \in 1..Len(f[n]) : p[i] = k
           Good(n) == /\ Len(f[n]) <= n
                      /\ (\E k \in 1..n : k \notin at) => Len(f[n]) < n
                      /\ \E p \in [1..Len(f[n]) -> 1..n] : Places2(n, p)
           G == {n \in 0..N : Good(n)}
<1>3. Good(0)
  <2>1. Len(f[0]) = 0 /\ 1..0 = {}
    BY <1>1
  <2> DEFINE p == [i \in {} |-> i]
  <2>2. p \in [1..Len(f[0]) -> 1..0] /\ Places2(0, p)
    BY <2>1
  <2> HIDE DEF p, Places2
  <2>3. \E q \in [1..Len(f[0]) -> 1..0] : Places2(0, q)
    BY <2>2, Zenon
  <2>4. Len(f[0]) <= 0 /\ ~\E k \in 1..0 : k \notin at
    BY <2>1
  <2>5. QED
    BY <2>3, <2>4, Zenon
<1>4. ASSUME NEW n \in 1..N, Good(n - 1) PROVE Good(n)
  <2>0. n \in Nat /\ n - 1 \in Nat /\ n - 1 \in 0..N /\ f[n - 1] \in Seq(D) /\ s[n] \in D
    BY <1>1, <1>2
  <2>1. PICK p \in [1..Len(f[n - 1]) -> 1..(n - 1)] : Places2(n - 1, p)
    BY <1>4
  <2>2. CASE n \notin at
    <3>1. f[n] = f[n - 1]
      BY <1>1, <2>2
    <3>2. p \in [1..Len(f[n]) -> 1..n]
      BY <2>0, <3>1
    <3>3. Places2(n, p)
      BY <2>0, <2>1, <2>2, <3>1
    <3>4. Len(f[n]) < n
      BY <1>4, <2>0, <3>1
    <3> HIDE DEF Places2
    <3>5. QED
      BY <2>0, <3>1, <3>2, <3>3, <3>4
  <2>3. CASE n \in at
    <3> DEFINE L == Len(f[n - 1])
               q == [i \in 1..(L + 1) |-> IF i = L + 1 THEN n ELSE p[i]]
    <3>1. f[n] = Append(f[n - 1], s[n])
      BY <1>1, <2>3
    <3>2. /\ L \in Nat /\ Len(f[n]) = L + 1 /\ f[n][L + 1] = s[n]
          /\ \A i \in 1..L : f[n][i] = f[n - 1][i]
      BY <2>0, <3>1
    <3>3. \A i \in 1..L : p[i] \in at /\ f[n - 1][i] = s[p[i]] /\ p[i] \in 1..(n - 1)
      BY <2>1
    <3>4. \A i, j \in 1..L : i < j => p[i] < p[j]
      BY <2>1
    <3>5. \A k \in 1..(n - 1) : k \in at => \E i \in 1..L : p[i] = k
      BY <2>1
    <3>6. Len(f[n]) <= n /\ ((\E k \in 1..n : k \notin at) => Len(f[n]) < n)
      BY <1>4, <2>0, <2>3, <3>2
    <3> HIDE DEF L
    <3>7. q \in [1..(L + 1) -> 1..n]
      BY <2>0, <3>2, <3>3
    <3>8. q[L + 1] = n /\ \A i \in 1..L : q[i] = p[i]
      BY <3>2
    <3> HIDE DEF q
    <3>9. \A i \in 1..(L + 1) : q[i] \in at /\ f[n][i] = s[q[i]]
      <4> SUFFICES ASSUME NEW i \in 1..(L + 1) PROVE q[i] \in at /\ f[n][i] = s[q[i]]
        OBVIOUS
      <4>1. CASE i = L + 1
        BY <2>3, <3>2, <3>8, <4>1
      <4>2. CASE i \in 1..L
        BY <3>2, <3>3, <3>8, <4>2
      <4>3. QED
        BY <3>2, <4>1, <4>2
    <3>10. \A i, j \in 1..(L + 1) : i < j => q[i] < q[j]
      <4> SUFFICES ASSUME NEW i \in 1..(L + 1), NEW j \in 1..(L + 1), i < j PROVE q[i] < q[j]
        OBVIOUS
      <4>1. i \in 1..L /\ q[i] = p[i]
        BY <3>2, <3>8
      <4>2. CASE j = L + 1
        BY <2>0, <3>3, <3>8, <4>1, <4>2
      <4>3. CASE j \in 1..L
        BY <3>4, <3>8, <4>1, <4>3
      <4>4. QED
        BY <3>2, <4>2, <4>3
    <3>11. \A k \in 1..n : k \in at => \E i \in 1..(L + 1) : q[i] = k
      <4> SUFFICES ASSUME NEW k \in 1..n, k \in at PROVE \E i \in 1..(L + 1) : q[i] = k
        OBVIOUS
      <4>1. CASE k = n
        BY <3>2, <3>8, <4>1
      <4>2. CASE k \in 1..(n - 1)
        <5>1. PICK i \in 1..L : p[i] = k
          BY <3>5, <4>2
        <5>2. i \in 1..(L + 1) /\ q[i] = k
          BY <3>2, <3>8, <5>1
        <5>3. QED
          BY <5>2
      <4>3. QED
        BY <2>0, <4>1, <4>2
    <3>12. Places2(n, q)
      BY <3>2, <3>9, <3>10, <3>11
    <3> HIDE DEF Places2
    <3>13. QED
      BY <3>2, <3>6, <3>7, <3>12
  <2>4. QED
    BY <2>2, <2>3
<1> HIDE DEF Good
<1>5. 0 \in G /\ (\A n \in 1..N : n - 1 \in G => n \in G) /\ G \in SUBSET (0..N)
  BY <1>2, <1>3, <1>4
<1>6. Good(N)
  <2> HIDE DEF G
  <2>1. G = 0..N
    BY <1>2, <1>5, UpTo
  <2>2. N \in G
    BY <1>2, <2>1
  <2>3. QED
    BY <2>2 DEF G
<1>7. Selected(s, at) \in Seq(D)
  BY <1>1, <1>2
<1>8. f[N] = Selected(s, at)
  BY <1>1
<1> HIDE DEF Places2
<1>9. /\ Len(f[N]) <= N
      /\ (\E k \in 1..N : k \notin at) => Len(f[N]) < N
      /\ \E p \in [1..Len(f[N]) -> 1..N] : Places2(N, p)
  BY <1>6 DEF Good
<1>10. QED
  <2>1. Len(Selected(s, at)) <= N /\ ((\E k \in 1..N : k \notin at) => Len(Selected(s, at)) < N)
    BY <1>8, <1>9, Zenon
  <2>2. PICK p \in [1..Len(Selected(s, at)) -> 1..N] : Places2(N, p)
    BY <1>8, <1>9, Zenon
  <2>3. /\ \A i \in 1..Len(Selected(s, at)) : p[i] \in at /\ Selected(s, at)[i] = s[p[i]]
        /\ \A i, j \in 1..Len(Selected(s, at)) : i < j => p[i] < p[j]
        /\ \A k \in 1..N : k \in at => \E i \in 1..Len(Selected(s, at)) : p[i] = k
    BY <1>8, <2>2, Zenon DEF Places2
  <2>4. Positions(p, s, at)
    BY <2>2, <2>3, Zenon DEF N, Positions
  <2>5. QED
    BY <1>7, <2>1, <2>4, Zenon DEF N

\* No two entries have one id.
Distinct(es) == \A a, b \in 1..Len(es) : es[a].id = es[b].id => a = b

\* Every entry of fs is one of es.
From(fs, es) == \A i \in 1..Len(fs) : \E k \in 1..Len(es) : fs[i] = es[k]

\* A selection of entries is entries, as different as they were.
LEMMA SelectedEntries ==
  ASSUME NEW es \in Seq(Entry), Distinct(es), NEW at
  PROVE  /\ Selected(es, at) \in Seq(Entry)
         /\ Len(Selected(es, at)) <= Len(es)
         /\ Distinct(Selected(es, at)) /\ From(Selected(es, at), es)
         /\ \A i \in 1..Len(Selected(es, at)) : \E k \in 1..Len(es) : k \in at /\ Selected(es, at)[i] = es[k]
<1> DEFINE sel == Selected(es, at)
<1>1. sel \in Seq(Entry) /\ Len(sel) <= Len(es) /\ \E p : Positions(p, es, at)
  BY SelectedFacts, Zenon
<1>2. PICK p : Positions(p, es, at)
  BY <1>1
<1>3. /\ p \in [1..Len(sel) -> 1..Len(es)]
      /\ \A i \in 1..Len(sel) : p[i] \in at /\ sel[i] = es[p[i]]
      /\ \A i, j \in 1..Len(sel) : i < j => p[i] < p[j]
  BY <1>2, Zenon DEF Positions
<1>4. Len(sel) \in Nat /\ Len(es) \in Nat
  BY <1>1
<1> HIDE DEF sel
<1>5. Distinct(sel)
  <2> SUFFICES ASSUME NEW a \in 1..Len(sel), NEW b \in 1..Len(sel), sel[a].id = sel[b].id
               PROVE  a = b
    BY DEF Distinct
  <2>1. p[a] = p[b]
    BY <1>3 DEF Distinct
  <2>2. p[a] \in Int /\ p[b] \in Int /\ a \in Int /\ b \in Int
    BY <1>3, <1>4
  <2>3. QED
    BY <1>3, <2>1, <2>2
<1>6. From(sel, es) /\ \A i \in 1..Len(sel) : \E k \in 1..Len(es) : k \in at /\ sel[i] = es[k]
  BY <1>3 DEF From
<1>7. QED
  BY <1>1, <1>5, <1>6 DEF sel

\* What is left after the purge.
LEMMA PurgedEntries ==
  ASSUME entries \in Seq(Entry), Distinct(entries)
  PROVE  /\ Purged(entries) \in Seq(Entry)
         /\ Len(Purged(entries)) <= Len(entries)
         /\ Distinct(Purged(entries)) /\ From(Purged(entries), entries)
BY SelectedEntries, Zenon DEF Purged

\* Moving an entry to the end.
LEMMA TouchedEntries ==
  ASSUME NEW es \in Seq(Entry), Distinct(es), NEW id, NEW e \in 1..Len(es), es[e].id = id
  PROVE  /\ Touched(es, id) \in Seq(Entry)
         /\ Len(Touched(es, id)) <= Len(es)
         /\ Distinct(Touched(es, id)) /\ From(Touched(es, id), es)
<1> DEFINE at == {k \in 1..Len(es) : es[k].id # id}
           sel == Selected(es, at)
           m == CHOOSE k \in 1..Len(es) : es[k].id = id
<1>1. m \in 1..Len(es) /\ es[m].id = id
  OBVIOUS
<1>2. Touched(es, id) = Append(sel, es[m])
  BY DEF Touched
<1>3. m \notin at
  BY <1>1
<1> HIDE DEF m
<1>4. /\ sel \in Seq(Entry) /\ Len(sel) < Len(es) /\ Distinct(sel)
      /\ From(sel, es)
      /\ \A i \in 1..Len(sel) : \E k \in 1..Len(es) : k \in at /\ sel[i] = es[k]
  <2> HIDE DEF at
  <2>1. Len(sel) < Len(es)
    BY <1>1, <1>3, SelectedFacts, Zenon
  <2>2. sel \in Seq(Entry) /\ Distinct(sel) /\ From(sel, es)
    BY SelectedEntries, Zenon
  <2>3. \A i \in 1..Len(sel) : \E k \in 1..Len(es) : k \in at /\ sel[i] = es[k]
    BY SelectedEntries
  <2>4. QED
    BY <2>1, <2>2, <2>3, Zenon
<1>5. \A i \in 1..Len(sel) : sel[i].id # id
  BY <1>4
<1> HIDE DEF sel
<1>6. /\ Touched(es, id) \in Seq(Entry)
      /\ Len(Touched(es, id)) = Len(sel) + 1
      /\ Touched(es, id)[Len(sel) + 1] = es[m]
      /\ \A i \in 1..Len(sel) : Touched(es, id)[i] = sel[i]
  BY <1>1, <1>2, <1>4
<1>7. Len(sel) \in Nat /\ Len(es) \in Nat
  BY <1>4
<1>8. Distinct(Touched(es, id))
  <2> SUFFICES ASSUME NEW a \in 1..(Len(sel) + 1), NEW b \in 1..(Len(sel) + 1),
                      Touched(es, id)[a].id = Touched(es, id)[b].id
               PROVE  a = b
    BY <1>6 DEF Distinct
  <2>1. CASE a \in 1..Len(sel) /\ b \in 1..Len(sel)
    BY <1>4, <1>6, <2>1 DEF Distinct
  <2>2. CASE a = Len(sel) + 1 /\ b \in 1..Len(sel)
    BY <1>1, <1>5, <1>6, <2>2
  <2>3. CASE b = Len(sel) + 1 /\ a \in 1..Len(sel)
    BY <1>1, <1>5, <1>6, <2>3
  <2>4. QED
    BY <1>7, <2>1, <2>2, <2>3
<1>9. From(Touched(es, id), es)
  <2> SUFFICES ASSUME NEW i \in 1..(Len(sel) + 1)
               PROVE  \E k \in 1..Len(es) : Touched(es, id)[i] = es[k]
    BY <1>6 DEF From
  <2>1. CASE i \in 1..Len(sel)
    BY <1>4, <1>6, <2>1 DEF From
  <2>2. CASE i = Len(sel) + 1
    BY <1>1, <1>6, <2>2
  <2>3. QED
    BY <1>7, <2>1, <2>2
<1>10. QED
  BY <1>4, <1>6, <1>7, <1>8, <1>9

\* Putting an entry under a new id: the cache stays within its size.
LEMMA PutEntries ==
  ASSUME entries \in Seq(Entry), Distinct(entries), NEW x \in Entry,
         \A k \in 1..Len(entries) : entries[k].id # x.id
  PROVE  /\ Put(x) \in Seq(Entry)
         /\ Len(Put(x)) <= MaxEntries
         /\ Distinct(Put(x))
         /\ \A i \in 1..Len(Put(x)) : Put(x)[i] = x \/ \E k \in 1..Len(entries) : Put(x)[i] = entries[k]
<1> DEFINE kept == Purged(entries)
           all == Append(kept, x)
           low == Most(0, Len(all) - MaxEntries)
<1>1. kept \in Seq(Entry) /\ Distinct(kept) /\ From(kept, entries)
  BY PurgedEntries, Zenon
<1>2. Put(x) = SubSeq(all, low + 1, Len(all))
  BY DEF Put
<1> HIDE DEF kept
<1>3. /\ all \in Seq(Entry) /\ Len(all) = Len(kept) + 1 /\ Len(kept) \in Nat
      /\ all[Len(kept) + 1] = x
      /\ \A i \in 1..Len(kept) : all[i] = kept[i]
  BY <1>1
<1> HIDE DEF all
<1>4. /\ low \in Nat /\ low <= Len(all) /\ Len(all) - low <= MaxEntries
      /\ Len(all) \in Nat
  BY <1>3, PagesAssumption DEF Most
<1> HIDE DEF low
<1>5. /\ Put(x) \in Seq(Entry) /\ Len(Put(x)) = Len(all) - low
      /\ \A i \in 1..(Len(all) - low) : Put(x)[i] = all[low + i]
  BY <1>2, <1>3, <1>4
<1>6. \A i \in 1..Len(all) : all[i] = x \/ \E k \in 1..Len(entries) : all[i] = entries[k]
  <2> SUFFICES ASSUME NEW i \in 1..Len(all)
               PROVE  all[i] = x \/ \E k \in 1..Len(entries) : all[i] = entries[k]
    OBVIOUS
  <2>1. CASE i \in 1..Len(kept)
    BY <1>1, <1>3, <2>1 DEF From
  <2>2. CASE i = Len(kept) + 1
    BY <1>3, <2>2
  <2>3. QED
    BY <1>3, <2>1, <2>2
<1>7. Distinct(all)
  <2> SUFFICES ASSUME NEW a \in 1..Len(all), NEW b \in 1..Len(all), all[a].id = all[b].id
               PROVE  a = b
    BY DEF Distinct
  <2>0. \A i \in 1..Len(kept) : all[i].id # x.id
    BY <1>1, <1>3 DEF From
  <2>1. CASE a \in 1..Len(kept) /\ b \in 1..Len(kept)
    BY <1>1, <1>3, <2>1 DEF Distinct
  <2>2. CASE a = Len(kept) + 1 /\ b \in 1..Len(kept)
    BY <1>3, <2>0, <2>2
  <2>3. CASE b = Len(kept) + 1 /\ a \in 1..Len(kept)
    BY <1>3, <2>0, <2>3
  <2>4. QED
    BY <1>3, <2>1, <2>2, <2>3
<1>8. Distinct(Put(x))
  <2> SUFFICES ASSUME NEW a \in 1..Len(Put(x)), NEW b \in 1..Len(Put(x)), Put(x)[a].id = Put(x)[b].id
               PROVE  a = b
    BY DEF Distinct
  <2>1. low + a \in 1..Len(all) /\ low + b \in 1..Len(all)
    BY <1>4, <1>5
  <2>2. low + a = low + b
    BY <1>5, <1>7, <2>1 DEF Distinct
  <2>3. QED
    BY <1>4, <1>5, <2>2
<1>9. ASSUME NEW i \in 1..Len(Put(x))
      PROVE  low + i \in 1..Len(all) /\ Put(x)[i] = all[low + i]
  BY <1>4, <1>5
<1>10. \A i \in 1..Len(Put(x)) : Put(x)[i] = x \/ \E k \in 1..Len(entries) : Put(x)[i] = entries[k]
  <2> SUFFICES ASSUME NEW i \in 1..Len(Put(x))
               PROVE  Put(x)[i] = x \/ \E k \in 1..Len(entries) : Put(x)[i] = entries[k]
    OBVIOUS
  <2>1. low + i \in 1..Len(all) /\ Put(x)[i] = all[low + i]
    BY <1>9
  <2>2. QED
    BY <1>6, <2>1
<1>11. QED
  BY <1>4, <1>5, <1>8, <1>10

-----------------------------------------------------------------------------
(***************************************************************************)
(* Reading the fields of a request.                                        *)
(***************************************************************************)

LEMMA PlaceNames ==
  /\ Places[1] = "top_ns" /\ Places[2] = "top_bare"
  /\ Places[3] = "arg_ns" /\ Places[4] = "arg_bare"
  /\ {Places[i] : i \in 1..4} = {"top_ns", "top_bare", "arg_ns", "arg_bare"}
<1>1. /\ Places[1] = "top_ns" /\ Places[2] = "top_bare"
      /\ Places[3] = "arg_ns" /\ Places[4] = "arg_bare"
  BY DEF Places
<1>2. 1..4 = {1, 2, 3, 4}
  OBVIOUS
<1> QED
  BY <1>1, <1>2

\* Carried, place by place.
LEMMA CarriedCases ==
  ASSUME NEW args, NEW k, NEW declared
  PROVE  Carried(args, k, declared) =
           IF args["top_ns"][k] # None THEN args["top_ns"][k]
           ELSE IF args["top_bare"][k] # None THEN args["top_bare"][k]
           ELSE IF args["arg_ns"][k] # None THEN args["arg_ns"][k]
           ELSE IF args["arg_bare"][k] # None /\ k \notin declared THEN args["arg_bare"][k]
           ELSE None
<1> DEFINE at == {i \in 1..4 : args[Places[i]][k] # None /\ ~(i = 4 /\ k \in declared)}
           m == CHOOSE i \in at : \A j \in at : i <= j
<1>1. Carried(args, k, declared) = IF at = {} THEN None ELSE args[Places[m]][k]
  BY DEF Carried
<1>2. /\ 1 \in at <=> args["top_ns"][k] # None
      /\ 2 \in at <=> args["top_bare"][k] # None
      /\ 3 \in at <=> args["arg_ns"][k] # None
      /\ 4 \in at <=> args["arg_bare"][k] # None /\ k \notin declared
  BY PlaceNames
<1>3. at \subseteq {1, 2, 3, 4}
  OBVIOUS
<1> HIDE DEF at
<1>4. \A i \in at : (\A j \in at : i <= j) => m = i
  <2> SUFFICES ASSUME NEW i \in at, \A j \in at : i <= j PROVE m = i
    OBVIOUS
  <2>1. m \in at /\ \A j \in at : m <= j
    OBVIOUS
  <2> HIDE DEF m
  <2>2. m <= i /\ i <= m
    BY <2>1
  <2>3. m \in Int /\ i \in Int
    BY <1>3, <2>1
  <2>4. QED
    BY <2>2, <2>3
<1> HIDE DEF m
<1>5. CASE 1 \in at
  <2>1. m = 1
    BY <1>3, <1>4, <1>5
  <2>2. QED
    BY <1>1, <1>2, <1>5, <2>1, PlaceNames
<1>6. CASE 1 \notin at /\ 2 \in at
  <2>1. m = 2
    BY <1>3, <1>4, <1>6
  <2>2. QED
    BY <1>1, <1>2, <1>6, <2>1, PlaceNames
<1>7. CASE 1 \notin at /\ 2 \notin at /\ 3 \in at
  <2>1. m = 3
    BY <1>3, <1>4, <1>7
  <2>2. QED
    BY <1>1, <1>2, <1>7, <2>1, PlaceNames
<1>8. CASE 1 \notin at /\ 2 \notin at /\ 3 \notin at /\ 4 \in at
  <2>1. m = 4
    BY <1>3, <1>4, <1>8
  <2>2. QED
    BY <1>1, <1>2, <1>8, <2>1, PlaceNames
<1>9. CASE at = {}
  BY <1>1, <1>2, <1>9
<1>10. QED
  BY <1>3, <1>5, <1>6, <1>7, <1>8, <1>9

\* A request's arguments, field by field.
LEMMA ArgumentsByPlace ==
  ASSUME NEW args \in Arguments, NEW k \in ArgKeys
  PROVE  /\ args["top_ns"][k] \in Nat \cup {None} /\ args["top_bare"][k] \in Nat \cup {None}
         /\ args["arg_ns"][k] \in Nat \cup {None} /\ args["arg_bare"][k] \in Nat \cup {None}
<1>1. args \in [{"top_ns", "top_bare", "arg_ns", "arg_bare"} -> [ArgKeys -> Nat \cup {None}]]
  BY PlaceNames DEF Arguments
<1>2. QED
  BY <1>1

LEMMA CarriedType ==
  ASSUME NEW args \in Arguments, NEW k \in ArgKeys, NEW declared
  PROVE  Carried(args, k, declared) \in Nat \cup {None}
<1>1. /\ args["top_ns"][k] \in Nat \cup {None} /\ args["top_bare"][k] \in Nat \cup {None}
      /\ args["arg_ns"][k] \in Nat \cup {None} /\ args["arg_bare"][k] \in Nat \cup {None}
  BY ArgumentsByPlace
<1>2. QED
  BY <1>1, CarriedCases

\* A shortcut's fields read as they were given.
LEMMA WrappedReadsTheSame ==
  ASSUME NEW args, NEW k \in ArgKeys, NEW declared
  PROVE  Carried(WrapHotTool(args, declared), k, declared) = Carried(args, k, declared)
<1> DEFINE w == WrapHotTool(args, declared)
<1>1. /\ w["top_ns"][k] = None /\ w["top_bare"][k] = Carried(args, k, declared)
      /\ w["arg_ns"][k] = None
      /\ w["arg_bare"][k] = IF k \in declared THEN args["arg_bare"][k] ELSE None
  BY PlaceNames DEF WrapHotTool, NoArgs, NoFields
<1> HIDE DEF w
<1>2. Carried(w, k, declared) = Carried(args, k, declared)
  BY <1>1, CarriedCases
<1>3. QED
  BY <1>2 DEF w

\* callTool reads a field as the client gave it, on either route.
LEMMA ArgsReadTheSame ==
  ASSUME NEW call, NEW k \in ArgKeys, NEW declared
  PROVE  Carried(Args(call, declared), k, declared) = Carried(call.args, k, declared)
BY WrappedReadsTheSame DEF Args

\* What callTool takes for the tool's own parameters.
LEMMA DeclaredParams ==
  ASSUME NEW call, NEW declared \in Declared(call)
  PROVE  declared = OwnParams[call.tool] \/ declared = {}
BY DEF Declared

LEMMA HintArgsByPlace ==
  ASSUME NEW r, NEW s \in Shapes
  PROVE  /\ HintArgs(r, s)["top_ns"] = IF s.place = 1 THEN PageFields(r.id, r.off, s.limit) ELSE NoFields
         /\ HintArgs(r, s)["top_bare"] = IF s.place = 2 THEN PageFields(r.id, r.off, s.limit) ELSE NoFields
         /\ HintArgs(r, s)["arg_ns"] =
              IF s.place = 3 THEN PageFields(r.id, r.off, s.limit)
              ELSE IF s.old /\ s.place < 3 THEN [NoFields EXCEPT !["responseOffset"] = 0] ELSE NoFields
         /\ HintArgs(r, s)["arg_bare"] = IF s.place = 4 THEN PageFields(r.id, r.off, s.limit) ELSE NoFields
<1>1. s.place \in 1..4
  BY PagesAssumption
<1>2. /\ Places[s.place] = "top_ns" <=> s.place = 1
      /\ Places[s.place] = "top_bare" <=> s.place = 2
      /\ Places[s.place] = "arg_ns" <=> s.place = 3
      /\ Places[s.place] = "arg_bare" <=> s.place = 4
  <2>1. CASE s.place = 1
    BY <2>1, PlaceNames
  <2>2. CASE s.place = 2
    BY <2>2, PlaceNames
  <2>3. CASE s.place = 3
    BY <2>3, PlaceNames
  <2>4. CASE s.place = 4
    BY <2>4, PlaceNames
  <2>5. QED
    BY <1>1, <2>1, <2>2, <2>3, <2>4
<1>3. QED
  BY <1>2, PlaceNames DEF HintArgs

\* A request made as the hint says is understood as it was meant, in whichever
\* place and under whichever name the fields stand, and whether or not the tool's
\* schema could be fetched.
LEMMA HintIsUnderstood ==
  ASSUME NEW call, NEW r, NEW s \in Shapes, NEW declared \in Declared(call),
         NEW k \in ArgKeys, r.id # None, r.off # None,
         s.place \in HintPlaces(call.tool), call.args = HintArgs(r, s)
  PROVE  Carried(Args(call, declared), k, declared) = PageFields(r.id, r.off, s.limit)[k]
<1> DEFINE f == PageFields(r.id, r.off, s.limit)
           h == HintArgs(r, s)
           wrong == [NoFields EXCEPT !["responseOffset"] = 0]
<1>0. s.place \in 1..4 /\ s.limit \in Nat \cup {None}
  BY PagesAssumption
<1>1. s.place = 4 => k \notin declared
  BY DeclaredParams DEF HintPlaces
<1>2. NoFields[k] = None
  BY DEF NoFields
<1>3. f[k] # None \/ k = "responseLimit"
  BY DEF f, PageFields, ArgKeys
<1>4. k = "responseLimit" => wrong[k] = None
  BY DEF NoFields
<1>h. /\ h["top_ns"] = IF s.place = 1 THEN f ELSE NoFields
      /\ h["top_bare"] = IF s.place = 2 THEN f ELSE NoFields
      /\ h["arg_ns"] = IF s.place = 3 THEN f ELSE IF s.old /\ s.place < 3 THEN wrong ELSE NoFields
      /\ h["arg_bare"] = IF s.place = 4 THEN f ELSE NoFields
  BY HintArgsByPlace, Zenon
<1> HIDE DEF f, h, wrong
<1>5. /\ h["top_ns"][k] = IF s.place = 1 THEN f[k] ELSE None
      /\ h["top_bare"][k] = IF s.place = 2 THEN f[k] ELSE None
      /\ s.place = 3 => h["arg_ns"][k] = f[k]
      /\ s.place = 4 => h["arg_ns"][k] = None
      /\ k = "responseLimit" /\ s.place # 3 => h["arg_ns"][k] = None
      /\ h["arg_bare"][k] = IF s.place = 4 THEN f[k] ELSE None
  <2>1. CASE s.place = 1
    BY <1>2, <1>4, <1>h, <2>1
  <2>2. CASE s.place = 2
    BY <1>2, <1>4, <1>h, <2>2
  <2>3. CASE s.place = 3
    BY <1>2, <1>h, <2>3
  <2>4. CASE s.place = 4
    BY <1>2, <1>h, <2>4
  <2>5. QED
    BY <1>0, <2>1, <2>2, <2>3, <2>4
<1>6. Carried(h, k, declared) = f[k]
  <2> DEFINE top == h["top_ns"][k]
             bare == h["top_bare"][k]
             ns == h["arg_ns"][k]
             arg == h["arg_bare"][k]
  <2>1. Carried(h, k, declared) =
          IF top # None THEN top ELSE IF bare # None THEN bare ELSE IF ns # None THEN ns
          ELSE IF arg # None /\ k \notin declared THEN arg ELSE None
    BY CarriedCases, Zenon
  <2> HIDE DEF top, bare, ns, arg
  <2>2. QED
    BY <1>0, <1>1, <1>3, <1>5, <2>1 DEF top, bare, ns, arg
<1>7. QED
  BY <1>6, ArgsReadTheSame DEF f, h

-----------------------------------------------------------------------------
(***************************************************************************)
(* Taking a page.                                                          *)
(***************************************************************************)

Chars == Nat \X Nat \X Nat

\* The characters of t are characters of T.
Of(t, T) == \A i \in 1..Len(t) : \E j \in 1..Len(T) : t[i] = T[j]

LEMMA SubSeqOf ==
  ASSUME NEW T \in Seq(Chars), NEW a \in Nat \ {0}, NEW b \in 0..Len(T)
  PROVE  /\ SubSeq(T, a, b) \in Seq(Chars)
         /\ Of(SubSeq(T, a, b), T)
<1>1. \A i \in a..b : T[i] \in Chars
  OBVIOUS
<1>2. /\ SubSeq(T, a, b) \in Seq(Chars)
      /\ Len(SubSeq(T, a, b)) = IF a <= b THEN b - a + 1 ELSE 0
      /\ \A i \in 1..(b - a + 1) : SubSeq(T, a, b)[i] = T[a + i - 1]
  BY <1>1, SubSeqProperties
<1>3. ASSUME NEW i \in 1..Len(SubSeq(T, a, b))
      PROVE  \E j \in 1..Len(T) : SubSeq(T, a, b)[i] = T[j]
  <2>1. i \in 1..(b - a + 1) /\ a + i - 1 \in 1..Len(T)
    BY <1>2
  <2>2. QED
    BY <1>2, <2>1
<1>4. QED
  BY <1>2, <1>3 DEF Of

\* A reader that has taken a page of T, at off and at most limit long: it goes on
\* from where its text ends, and ends only where T does.
Continues(q, T, off, limit, id) ==
  /\ q \in Reader /\ q.id = id /\ q.mode \in {"reading", "done"}
  /\ q.mode = "reading" => q.off < Len(T) /\ q.text = SubSeq(T, 1, q.off)
  /\ q.mode = "done" => q.text = T
  /\ limit > 0 => q.off > off
  /\ Of(q.text, T)

LEMMA PageTaken ==
  ASSUME NEW T \in Seq(Chars), NEW off \in Nat, off < Len(T), NEW limit \in Nat,
         NEW r \in Reader, r.text = SubSeq(T, 1, off), NEW id \in Nat,
         NEW q, q = TakePage(r, id, Slice(T, off, limit), off, Len(T))
  PROVE  Continues(q, T, off, limit, id)
<1> DEFINE L == Len(T)
           up == Least(off + limit, L)
           page == Slice(T, off, limit)
<1>1. L \in Nat /\ up \in Nat /\ off <= up /\ up <= L /\ (limit > 0 => up > off)
  BY DEF Least
<1>2. page = SubSeq(T, off + 1, up)
  BY DEF Slice
<1> HIDE DEF up
<1>3. page \in Seq(Chars) /\ Len(page) = up - off
  <2>1. \A i \in (off + 1)..up : T[i] \in Chars
    BY <1>1
  <2>2. QED
    BY <1>1, <1>2, <2>1, SubSeqProperties
<1>4. r.text \o page = SubSeq(T, 1, up)
  <2>1. 1 \in 1..(L + 1) /\ off \in (1 - 1)..L /\ up \in off..L
    BY <1>1
  <2> HIDE DEF page
  <2>2. SubSeq(T, 1, off) \o SubSeq(T, off + 1, up) = SubSeq(T, 1, up)
    BY <2>1, ConcatAdjacentSubSeq
  <2>3. QED
    BY <1>2, <2>2
<1>5. off + Len(page) = up /\ (HasMore(off, Len(page), L) <=> up < L)
  BY <1>1, <1>3 DEF HasMore
<1>p. q = TakePage(r, id, page, off, L)
  OBVIOUS
<1> HIDE DEF page, L
<1> DEFINE m == IF up < L THEN "reading" ELSE "done"
           t == SubSeq(T, 1, up)
<1>6. q = [mode |-> m, id |-> id, off |-> up, text |-> t]
  BY <1>p, <1>4, <1>5 DEF TakePage, Reader
<1> HIDE DEF m, t
<1>f. q.mode = m /\ q.id = id /\ q.off = up /\ q.text = t
  BY <1>6
<1>7. t \in Seq(Chars) /\ Of(t, T)
  BY <1>1, SubSeqOf DEF L, t
<1>8. /\ m = IF up < L THEN "reading" ELSE "done"
      /\ t = SubSeq(T, 1, up)
  BY DEF m, t
<1>9. q \in Reader
  BY <1>1, <1>6, <1>7, <1>8 DEF Reader, Modes, Chars
<1>10. up = L => q.text = T
  BY <1>f, <1>8, SubSeqFull DEF L
<1>11. QED
  BY <1>1, <1>f, <1>7, <1>8, <1>9, <1>10 DEF L, Continues

-----------------------------------------------------------------------------
(***************************************************************************)
(* What the steps have in common.                                          *)
(***************************************************************************)

\* ts2 continues the list of responses ts.
Extends(ts2, ts) ==
  Len(ts) <= Len(ts2) /\ \A v \in 1..Len(ts) : v \in 1..Len(ts2) /\ ts2[v] = ts[v]

\* More responses disturb nobody.
LEMMA MoreResponses ==
  ASSUME NEW ts, NEW ts2, Extends(ts2, ts)
  PROVE  /\ \A e, t : Matches(e, ts, t) => Matches(e, ts2, t)
         /\ \A c, r : Reads(c, r, ts) => Reads(c, r, ts2)
         /\ \A c, k, r : Reads(c, r, ts) /\ Asks(k, r, ts) => Asks(k, r, ts2)
<1>1. \A v \in 1..Len(ts) : v \in 1..Len(ts2) /\ ts2[v] = ts[v]
  BY DEF Extends
<1>2. ASSUME NEW e, NEW t, Matches(e, ts, t) PROVE Matches(e, ts2, t)
  BY <1>1, <1>2, Zenon DEF Matches
<1>3. ASSUME NEW c, NEW r, Reads(c, r, ts) PROVE Reads(c, r, ts2)
  <2>1. /\ r.mode # "rejected"
        /\ r.mode = "reading" =>
             /\ r.id \in 1..Len(ts2)
             /\ ts2[r.id].owner = c
             /\ r.off < Len(ts2[r.id].text)
             /\ r.text = SubSeq(ts2[r.id].text, 1, r.off)
    BY <1>1, <1>3, Zenon DEF Reads
  <2>2. r.mode = "done" => r.id \in 1..Len(ts2) /\ r.text = ts2[r.id].text
    BY <1>1, <1>3, Zenon DEF Reads
  <2>3. ASSUME NEW i \in 1..Len(r.text)
        PROVE  r.text[i][1] \in 1..Len(ts2) /\ ts2[r.text[i][1]].owner = c
    <3>1. r.text[i][1] \in 1..Len(ts) /\ ts[r.text[i][1]].owner = c
      BY <1>3, Zenon DEF Reads
    <3>2. QED
      BY <1>1, <3>1, Zenon
  <2>4. QED
    BY <2>1, <2>2, <2>3, Zenon DEF Reads
<1>4. ASSUME NEW c, NEW k, NEW r, Reads(c, r, ts), Asks(k, r, ts) PROVE Asks(k, r, ts2)
  <2>1. r.mode = "reading" => ts2[r.id] = ts[r.id]
    BY <1>1, <1>4, Zenon DEF Reads
  <2>2. QED
    BY <1>4, <2>1, Zenon DEF Asks
<1>5. QED
  BY <1>2, <1>3, <1>4, Zenon

\* A step of client c keeps the invariant when it keeps the shared state in order
\* and leaves c itself in order.
LEMMA StepInv ==
  ASSUME PagesInv, NEW c \in Clients,
         now' = now, limits' = limits, events' \in 0..MaxEvents, used' \in Seq(Nat),
         texts' \in Seq(Response), Extends(texts', texts), TextInv',
         entries' \in Seq(Entry), Distinct(entries'), Len(entries') <= MaxEntries, EntryInv',
         calls' \in [Clients -> Call \cup {NoCall}], reader' \in [Clients -> Reader],
         \A d \in Clients : d # c => calls'[d] = calls[d] /\ reader'[d] = reader[d],
         Reads(c, reader'[c], texts'),
         calls'[c] # NoCall => Asks(calls'[c], reader'[c], texts')
  PROVE  PagesInv'
<1>1. TypeOK'
  <2>1. now \in 0..MaxTime /\ limits \in [Clients -> Limits]
    BY DEF PagesInv, TypeOK
  <2>2. \A a, b \in 1..Len(entries') : entries'[a].id = entries'[b].id => a = b
    BY Zenon DEF Distinct
  <2>3. QED
    BY <2>1, <2>2 DEF TypeOK
<1>2. ASSUME NEW d \in Clients
      PROVE  /\ Reads(d, reader'[d], texts')
             /\ calls'[d] # NoCall => Asks(calls'[d], reader'[d], texts')
  <2>1. CASE d = c
    BY <2>1, Zenon
  <2>2. CASE d # c
    <3>1. calls'[d] = calls[d] /\ reader'[d] = reader[d]
      BY <2>2
    <3>2. Reads(d, reader[d], texts) /\ (calls[d] # NoCall => Asks(calls[d], reader[d], texts))
      BY Zenon DEF PagesInv, ReadInv, CallInv
    <3>3. Reads(d, reader[d], texts') /\ (calls[d] # NoCall => Asks(calls[d], reader[d], texts'))
      BY <3>2, MoreResponses, Zenon
    <3>4. QED
      BY <3>1, <3>3, Zenon
  <2>3. QED
    BY <2>1, <2>2
<1>3. ReadInv' /\ CallInv'
  BY <1>2, Zenon DEF ReadInv, CallInv
<1>4. QED
  BY <1>1, <1>3, Zenon DEF PagesInv

\* The same when neither cache nor responses change.
LEMMA ClientStepInv ==
  ASSUME PagesInv, NEW c \in Clients,
         UNCHANGED <<now, limits, entries, texts, used>>, events' \in 0..MaxEvents,
         calls' \in [Clients -> Call \cup {NoCall}], reader' \in [Clients -> Reader],
         \A d \in Clients : d # c => calls'[d] = calls[d] /\ reader'[d] = reader[d],
         Reads(c, reader'[c], texts),
         calls'[c] # NoCall => Asks(calls'[c], reader'[c], texts)
  PROVE  PagesInv'
<1>1. /\ used' \in Seq(Nat) /\ texts' \in Seq(Response)
      /\ entries' \in Seq(Entry) /\ Len(entries') <= MaxEntries
  BY DEF PagesInv, TypeOK
<1>2. Distinct(entries')
  BY DEF PagesInv, TypeOK, Distinct
<1>3. Extends(texts', texts)
  BY <1>1 DEF Extends
<1>4. TextInv' /\ EntryInv'
  BY DEF PagesInv, TextInv, EntryInv
<1>5. now' = now /\ limits' = limits /\ texts' = texts
  OBVIOUS
<1>6. QED
  BY <1>1, <1>2, <1>3, <1>4, <1>5, StepInv

-----------------------------------------------------------------------------
(***************************************************************************)
(* Init and the actions.                                                   *)
(***************************************************************************)

\* A client that holds nothing is in order.
LEMMA NoReaderReads ==
  ASSUME NEW c, NEW ts
  PROVE  NoReader \in Reader /\ Reads(c, NoReader, ts)
BY DEF NoReader, Reader, Modes, Reads

LEMMA InitInv == Init => PagesInv
<1> SUFFICES ASSUME Init PROVE PagesInv
  OBVIOUS
<1> USE PagesAssumption
<1>1. TypeOK
  BY NoReaderReads DEF Init, TypeOK
<1>2. EntryInv /\ TextInv
  BY DEF Init, EntryInv, TextInv
<1>3. ReadInv
  BY NoReaderReads DEF Init, ReadInv
<1>4. CallInv
  BY DEF Init, CallInv
<1>5. QED
  BY <1>1, <1>2, <1>3, <1>4 DEF PagesInv

\* The types of the shared state.
LEMMA SharedTypes ==
  ASSUME PagesInv
  PROVE  /\ now \in Nat /\ texts \in Seq(Response) /\ used \in Seq(Nat)
         /\ entries \in Seq(Entry) /\ Distinct(entries) /\ Len(entries) <= MaxEntries
         /\ \A v \in 1..Len(texts) :
              texts[v].tool \in Tools /\ texts[v].owner \in Clients /\ texts[v].text \in Seq(Chars)
         /\ \A e \in 1..Len(entries) :
              entries[e] \in Entry /\ entries[e].created \in Nat /\ entries[e].id \in Nat
<1>1. TypeOK
  BY DEF PagesInv
<1>2. now \in Nat
  BY <1>1, PagesAssumption DEF TypeOK
<1>3. texts \in Seq(Response) /\ used \in Seq(Nat) /\ entries \in Seq(Entry) /\ Len(entries) <= MaxEntries
  BY <1>1 DEF TypeOK
<1>4. Distinct(entries)
  BY <1>1, Zenon DEF TypeOK, Distinct
<1>5. \A v \in 1..Len(texts) : texts[v] \in Response
  BY <1>3
<1>6. \A e \in 1..Len(entries) : entries[e] \in Entry
  BY <1>3
<1>7. \A x \in Response : x.tool \in Tools /\ x.owner \in Clients /\ x.text \in Seq(Chars)
  BY DEF Response, Chars
<1>8. \A x \in Entry : x.created \in Nat /\ x.id \in Nat
  BY DEF Entry
<1>9. QED
  BY <1>2, <1>3, <1>4, <1>5, <1>6, <1>7, <1>8

LEMMA TickInv == PagesInv /\ Tick => PagesInv'
<1> SUFFICES ASSUME PagesInv, Tick PROVE PagesInv'
  OBVIOUS
<1>1. /\ now < MaxTime /\ now' = now + 1
      /\ UNCHANGED <<limits, entries, calls, reader, events, texts, used>>
  BY DEF Tick
<1>2. TypeOK'
  BY <1>1, PagesAssumption DEF PagesInv, TypeOK
<1>3. EntryInv'
  <2>0. entries' = entries /\ texts' = texts /\ now' = now + 1
    BY <1>1
  <2> SUFFICES ASSUME NEW e \in 1..Len(entries) PROVE Matches(entries[e], texts, now + 1)
    <3>1. (\A e \in 1..Len(entries) : Matches(entries[e], texts, now + 1))
          => \A e \in 1..Len(entries') : Matches(entries'[e], texts', now')
      BY <2>0
    <3>2. QED
      BY <3>1, Zenon DEF EntryInv
  <2>1. Matches(entries[e], texts, now)
    BY DEF PagesInv, EntryInv
  <2>2. entries[e].created \in Nat /\ now \in Nat
    BY SharedTypes
  <2>3. QED
    BY <2>1, <2>2 DEF Matches
<1>4. TextInv' /\ ReadInv' /\ CallInv'
  BY <1>1 DEF PagesInv, TextInv, ReadInv, CallInv
<1>5. QED
  BY <1>2, <1>3, <1>4 DEF PagesInv

\* The types of one client's state.
LEMMA ClientTypes ==
  ASSUME PagesInv, NEW c \in Clients
  PROVE  /\ calls \in [Clients -> Call \cup {NoCall}] /\ reader \in [Clients -> Reader]
         /\ reader[c] \in Reader /\ Reads(c, reader[c], texts)
         /\ calls[c] # NoCall => calls[c] \in Call /\ Asks(calls[c], reader[c], texts)
         /\ limits[c] \in Limits
         /\ events \in 0..MaxEvents
BY DEF PagesInv, TypeOK, ReadInv, CallInv

LEMMA EditLimitsInv ==
  ASSUME PagesInv, NEW c \in Clients, EditLimits(c)
  PROVE  PagesInv'
<1>1. /\ events' \in 0..MaxEvents /\ limits' \in [Clients -> Limits]
      /\ UNCHANGED <<now, entries, calls, reader, texts, used>>
  BY PagesAssumption DEF EditLimits, PagesInv, TypeOK
<1>2. TypeOK'
  BY <1>1 DEF PagesInv, TypeOK
<1>3. EntryInv' /\ TextInv' /\ ReadInv' /\ CallInv'
  BY <1>1 DEF PagesInv, EntryInv, TextInv, ReadInv, CallInv
<1>4. QED
  BY <1>2, <1>3 DEF PagesInv

LEMMA NoArgsType == NoFields \in [ArgKeys -> Nat \cup {None}] /\ NoArgs \in Arguments
BY DEF NoFields, NoArgs, Arguments

\* A call enters.
LEMMA ReceiveInv ==
  ASSUME PagesInv, NEW c \in Clients, NEW tool \in Tools, NEW name \in Spellings,
         NEW via \in Routes, NEW args \in Arguments, NEW meant \in Nat \cup {None},
         NEW follows, follows = TRUE \/ follows = FALSE,
         Receive(c, tool, name, via, args, meant, follows),
         events' \in 0..MaxEvents, reader' \in [Clients -> Reader],
         \A d \in Clients : d # c => reader'[d] = reader[d],
         Reads(c, reader'[c], texts),
         follows =>
           /\ reader'[c].mode = "reading"
           /\ tool = texts[reader'[c].id].tool
           /\ \E s \in Shapes :
                s.place \in HintPlaces(tool) /\ via = s.via /\ args = HintArgs(reader'[c], s),
         ~follows => reader'[c] = NoReader
  PROVE  PagesInv'
<1> DEFINE k == [tool |-> tool, name |-> name, args |-> args, via |-> via, at |-> "schema",
                 eff |-> limits[c], limit |-> None, meant |-> meant, follows |-> follows]
<1>1. calls' = [calls EXCEPT ![c] = k] /\ UNCHANGED <<now, limits, entries, texts, used>>
  BY DEF Receive
<1>2. limits[c] \in Limits /\ calls \in [Clients -> Call \cup {NoCall}]
  BY ClientTypes
<1>3. k \in Call
  <2>1. follows \in BOOLEAN
    OBVIOUS
  <2>2. QED
    BY <1>2, <2>1, Zenon DEF Call
<1>4. /\ k.follows = follows /\ k.at = "schema" /\ k.tool = tool /\ k.via = via /\ k.args = args
  BY Zenon
<1> HIDE DEF k
<1>5. Asks(k, reader'[c], texts)
  <2>1. CASE follows = TRUE
    <3>1. k.follows = TRUE
      BY <1>4, <2>1, Zenon
    <3>2. QED
      BY <1>4, <2>1, <3>1, Zenon DEF Asks
  <2>2. CASE follows = FALSE
    <3>1. k.follows = FALSE
      BY <1>4, <2>2, Zenon
    <3>2. QED
      BY <2>2, <3>1, Zenon DEF Asks
  <2>3. QED
    BY <2>1, <2>2
<1>6. /\ calls' \in [Clients -> Call \cup {NoCall}] /\ calls'[c] = k
      /\ \A d \in Clients : d # c => calls'[d] = calls[d]
  BY <1>1, <1>2, <1>3
<1>7. QED
  BY <1>1, <1>5, <1>6, ClientStepInv

LEMMA AskFreshInv ==
  ASSUME PagesInv, NEW c \in Clients, AskFresh(c)
  PROVE  PagesInv'
<1>1. PICK f \in Fresh :
        Receive(c, f.tool, f.name, f.via, FreshArgs(f), None, FALSE)
  BY DEF AskFresh
<1> DEFINE a == [NoFields EXCEPT !["responseLimit"] = f.limit]
           b == [k \in ArgKeys |-> IF k \in OwnParams[f.tool] THEN 0 ELSE None]
           args == [NoArgs EXCEPT !["arg_ns"] = a, !["arg_bare"] = b]
<1>2. /\ f.tool \in Tools /\ f.name \in Spellings /\ f.via \in Routes
      /\ f.limit \in Nat \cup {None}
  BY PagesAssumption
<1>3. a \in [ArgKeys -> Nat \cup {None}]
  BY <1>2, NoArgsType
<1>4. b \in [ArgKeys -> Nat \cup {None}]
  OBVIOUS
<1>5. args \in Arguments
  <2> HIDE DEF a, b
  <2>1. QED
    BY <1>3, <1>4, NoArgsType DEF Arguments
<1>6. /\ events' \in 0..MaxEvents /\ reader' \in [Clients -> Reader]
      /\ reader'[c] = NoReader /\ \A d \in Clients : d # c => reader'[d] = reader[d]
  <2>1. events < MaxEvents /\ events' = events + 1 /\ reader' = [reader EXCEPT ![c] = NoReader]
    BY DEF AskFresh
  <2>2. events \in Int /\ 0 <= events /\ reader \in [Clients -> Reader] /\ NoReader \in Reader
    BY ClientTypes, NoReaderReads
  <2>3. QED
    BY <2>1, <2>2, PagesAssumption
<1>7. Receive(c, f.tool, f.name, f.via, args, None, FALSE)
  BY <1>1 DEF FreshArgs
<1> HIDE DEF args
<1>8. Reads(c, reader'[c], texts)
  BY <1>6, NoReaderReads
<1>9. QED
  BY <1>2, <1>5, <1>6, <1>7, <1>8, ReceiveInv

LEMMA AskStrayInv ==
  ASSUME PagesInv, NEW c \in Clients, AskStray(c)
  PROVE  PagesInv'
<1>1. PICK id \in 1..Len(texts), s \in Strays :
        Receive(c, s.tool, s.name, "callTool", StrayArgs(id, s), id, FALSE)
  BY DEF AskStray
<1> DEFINE f == PageFields(id, s.offset, None)
           args == [NoArgs EXCEPT !["top_ns"] = f]
<1>2. s.tool \in Tools /\ s.name \in Spellings /\ s.offset \in Nat /\ id \in Nat
  BY PagesAssumption DEF PagesInv, TypeOK
<1>3. f \in [ArgKeys -> Nat \cup {None}]
  BY <1>2 DEF PageFields, ArgKeys
<1>4. args \in Arguments
  <2> HIDE DEF f
  <2>1. QED
    BY <1>3, NoArgsType DEF Arguments
<1>6. /\ events' \in 0..MaxEvents /\ reader' \in [Clients -> Reader]
      /\ reader'[c] = NoReader /\ \A d \in Clients : d # c => reader'[d] = reader[d]
  <2>1. events < MaxEvents /\ events' = events + 1 /\ reader' = [reader EXCEPT ![c] = NoReader]
    BY DEF AskStray
  <2>2. events \in Int /\ 0 <= events /\ reader \in [Clients -> Reader] /\ NoReader \in Reader
    BY ClientTypes, NoReaderReads
  <2>3. QED
    BY <2>1, <2>2, PagesAssumption
<1>7. Receive(c, s.tool, s.name, "callTool", args, id, FALSE)
  BY <1>1 DEF StrayArgs
<1> HIDE DEF args
<1>8. Reads(c, reader'[c], texts) /\ "callTool" \in Routes
  BY <1>6, NoReaderReads DEF Routes
<1>9. QED
  BY <1>2, <1>4, <1>6, <1>7, <1>8, ReceiveInv

LEMMA HintArgsType ==
  ASSUME NEW r \in Reader, NEW s \in Shapes
  PROVE  HintArgs(r, s) \in Arguments
<1> DEFINE f == PageFields(r.id, r.off, s.limit)
           wrong == [NoFields EXCEPT !["responseOffset"] = 0]
<1>1. f \in [ArgKeys -> Nat \cup {None}]
  BY PagesAssumption DEF PageFields, ArgKeys, Reader
<1>2. wrong \in [ArgKeys -> Nat \cup {None}]
  BY NoArgsType
<1>3. HintArgs(r, s) = [q \in {Places[i] : i \in 1..4} |->
        IF q = Places[s.place] THEN f
        ELSE IF s.old /\ s.place < 3 /\ q = "arg_ns" THEN wrong
        ELSE NoFields]
  BY Zenon DEF HintArgs
<1> HIDE DEF f, wrong
<1>4. QED
  BY <1>1, <1>2, <1>3, NoArgsType, Zenon DEF Arguments

LEMMA FollowInv ==
  ASSUME PagesInv, NEW c \in Clients, Follow(c)
  PROVE  PagesInv'
<1> DEFINE r == reader[c]
<1>1. PICK s \in Shapes :
        /\ s.place \in HintPlaces(texts[r.id].tool)
        /\ Receive(c, texts[r.id].tool, s.name, s.via, HintArgs(r, s), r.id, TRUE)
  BY DEF Follow
<1>2. r.mode = "reading" /\ reader' = reader /\ events' = events
  BY DEF Follow
<1>3. r \in Reader /\ Reads(c, r, texts) /\ reader \in [Clients -> Reader] /\ events' \in 0..MaxEvents
  BY <1>2, ClientTypes
<1>4. r.id \in 1..Len(texts) /\ r.id \in Nat
  <2>1. r.id \in 1..Len(texts)
    BY <1>2, <1>3, Zenon DEF Reads
  <2>2. QED
    BY <1>3, <2>1 DEF Reader
<1>5. texts[r.id].tool \in Tools
  BY <1>4, SharedTypes
<1>6. s.name \in Spellings /\ s.via \in Routes
  BY PagesAssumption
<1>7. HintArgs(r, s) \in Arguments
  BY <1>3, HintArgsType
<1>8. reader'[c] = r
  BY <1>2
<1> HIDE DEF r
<1>9. /\ \E z \in Shapes : z.place \in HintPlaces(texts[r.id].tool)
             /\ s.via = z.via /\ HintArgs(r, s) = HintArgs(r, z)
  BY <1>1
<1>10. QED
  BY <1>1, <1>2, <1>3, <1>4, <1>5, <1>6, <1>7, <1>8, <1>9, ReceiveInv

LEMMA FailInv ==
  ASSUME PagesInv, NEW c \in Clients, Fail(c)
  PROVE  PagesInv'
<1>1. /\ reader' = [reader EXCEPT ![c].mode = "failed"]
      /\ calls' = [calls EXCEPT ![c] = NoCall]
      /\ UNCHANGED <<now, limits, entries, events, texts, used>>
  BY DEF Fail, End
<1>2. reader[c] \in Reader /\ Reads(c, reader[c], texts)
  BY ClientTypes
<1> DEFINE q == [reader[c] EXCEPT !.mode = "failed"]
<1>3. q \in Reader /\ q.mode = "failed" /\ q.text = reader[c].text
  BY <1>2 DEF Reader, Modes
<1>4. Reads(c, q, texts)
  BY <1>2, <1>3 DEF Reads
<1>5. reader' = [reader EXCEPT ![c] = q]
  BY <1>1, ClientTypes
<1> HIDE DEF q
<1>6. /\ reader' \in [Clients -> Reader] /\ reader'[c] = q
      /\ calls' \in [Clients -> Call \cup {NoCall}] /\ calls'[c] = NoCall
      /\ \A d \in Clients : d # c => calls'[d] = calls[d] /\ reader'[d] = reader[d]
      /\ events' \in 0..MaxEvents
  BY <1>1, <1>3, <1>5, ClientTypes
<1>7. QED
  BY <1>1, <1>4, <1>6, ClientStepInv

-----------------------------------------------------------------------------
(***************************************************************************)
(* callTool.                                                               *)
(***************************************************************************)

\* A call for the next page is read as the client meant it.
LEMMA FollowUpIsUnderstood ==
  ASSUME PagesInv, NEW c \in Clients, calls[c] # NoCall, calls[c].follows,
         NEW declared \in Declared(calls[c])
  PROVE  /\ reader[c].mode = "reading" /\ reader[c].id \in 1..Len(texts)
         /\ texts[reader[c].id].owner = c /\ calls[c].tool = texts[reader[c].id].tool
         /\ Carried(Args(calls[c], declared), "responseCacheId", declared) = reader[c].id
         /\ Carried(Args(calls[c], declared), "responseOffset", declared) = reader[c].off
         /\ Carried(Args(calls[c], declared), "responseLimit", declared) \in (Nat \ {0}) \cup {None}
<1> DEFINE r == reader[c]
           k == calls[c]
<1>1. r \in Reader /\ Reads(c, r, texts) /\ Asks(k, r, texts)
  BY ClientTypes, Zenon
<1>2. r.id \in Nat /\ r.off \in Nat
  BY <1>1 DEF Reader
<1>3. r.id # None /\ r.off # None
  BY <1>2, PagesAssumption
<1>4. r.mode = "reading" /\ k.tool = texts[r.id].tool
  BY <1>1, Zenon DEF Asks
<1>5. PICK s \in Shapes : s.place \in HintPlaces(k.tool) /\ k.args = HintArgs(r, s)
  BY <1>1, Zenon DEF Asks
<1>6. r.id \in 1..Len(texts) /\ texts[r.id].owner = c
  BY <1>1, <1>4, Zenon DEF Reads
<1>7. s.limit \in (Nat \ {0}) \cup {None}
  BY PagesAssumption
<1>8. \A f \in ArgKeys : Carried(Args(k, declared), f, declared) = PageFields(r.id, r.off, s.limit)[f]
  BY <1>3, <1>5, HintIsUnderstood, Zenon
<1>9. /\ PageFields(r.id, r.off, s.limit)["responseCacheId"] = r.id
      /\ PageFields(r.id, r.off, s.limit)["responseOffset"] = r.off
      /\ PageFields(r.id, r.off, s.limit)["responseLimit"] = s.limit
  BY DEF PageFields
<1> HIDE DEF r, k
<1>10. /\ Carried(Args(k, declared), "responseCacheId", declared) = r.id
       /\ Carried(Args(k, declared), "responseOffset", declared) = r.off
       /\ Carried(Args(k, declared), "responseLimit", declared) = s.limit
  BY <1>8, <1>9 DEF ArgKeys
<1>11. QED
  BY <1>4, <1>6, <1>7, <1>10, Zenon DEF r, k

\* The fields of any call are numbers or absent.
LEMMA FieldTypes ==
  ASSUME PagesInv, NEW c \in Clients, calls[c] # NoCall, NEW declared, NEW f \in ArgKeys
  PROVE  Carried(Args(calls[c], declared), f, declared) \in Nat \cup {None}
<1>1. calls[c].args \in Arguments
  BY ClientTypes DEF Call
<1>2. QED
  BY <1>1, CarriedType, ArgsReadTheSame

\* A call for the next page never reaches the upstream.
LEMMA OnlyFirstCallsGoUpstream ==
  ASSUME PagesInv, NEW c \in Clients, calls[c] # NoCall, NEW declared \in Declared(calls[c]),
         Forward(c, declared)
  PROVE  ~calls[c].follows
<1> SUFFICES ASSUME calls[c].follows PROVE FALSE
  OBVIOUS
<1>1. Carried(Args(calls[c], declared), "responseCacheId", declared) = None
  BY DEF Forward
<1>2. reader[c].id = None
  BY <1>1, FollowUpIsUnderstood
<1>3. reader[c].id \in Nat
  BY ClientTypes DEF Reader
<1>4. QED
  BY <1>2, <1>3, PagesAssumption

LEMMA ForwardInv ==
  ASSUME PagesInv, NEW c \in Clients, calls[c] # NoCall, NEW declared \in Declared(calls[c]),
         Forward(c, declared), UNCHANGED <<now, limits, events, texts>>
  PROVE  PagesInv'
<1> DEFINE lim == Carried(Args(calls[c], declared), "responseLimit", declared)
           k == [calls[c] EXCEPT !.at = "upstream", !.limit = lim]
<1>1. /\ Carried(Args(calls[c], declared), "responseCacheId", declared) = None
      /\ calls' = [calls EXCEPT ![c] = k]
      /\ UNCHANGED <<reader, entries, used>>
  BY DEF Forward
<1>2. ~calls[c].follows
  BY OnlyFirstCallsGoUpstream
<1>3. calls[c] \in Call /\ Asks(calls[c], reader[c], texts)
  BY ClientTypes
<1>4. lim \in Nat \cup {None}
  BY FieldTypes DEF ArgKeys
<1> HIDE DEF lim
<1>5. k \in Call
  BY <1>3, <1>4 DEF Call
<1>6. k.follows = calls[c].follows
  BY <1>3 DEF Call
<1>7. Asks(k, reader[c], texts)
  BY <1>2, <1>3, <1>6, Zenon DEF Asks
<1> HIDE DEF k
<1>8. /\ calls \in [Clients -> Call \cup {NoCall}] /\ reader \in [Clients -> Reader]
      /\ Reads(c, reader[c], texts) /\ events \in 0..MaxEvents
  BY ClientTypes
<1>9. /\ calls' \in [Clients -> Call \cup {NoCall}] /\ calls'[c] = k
      /\ \A d \in Clients : d # c => calls'[d] = calls[d]
  BY <1>1, <1>5, <1>8
<1>10. QED
  BY <1>1, <1>7, <1>8, <1>9, ClientStepInv

\* The call ends, and what is in the cache was there before.
LEMMA AnswerInv ==
  ASSUME PagesInv, NEW c \in Clients, End(c), UNCHANGED <<now, limits, events, texts>>,
         entries' \in Seq(Entry), Distinct(entries'), Len(entries') <= MaxEntries,
         From(entries', entries), used' \in Seq(Nat),
         NEW q \in Reader, reader' = [reader EXCEPT ![c] = q], Reads(c, q, texts)
  PROVE  PagesInv'
<1>1. /\ calls \in [Clients -> Call \cup {NoCall}] /\ reader \in [Clients -> Reader]
      /\ events \in 0..MaxEvents
  BY ClientTypes
<1>2. /\ calls' \in [Clients -> Call \cup {NoCall}] /\ calls'[c] = NoCall
      /\ reader' \in [Clients -> Reader] /\ reader'[c] = q
      /\ \A d \in Clients : d # c => calls'[d] = calls[d] /\ reader'[d] = reader[d]
  BY <1>1 DEF End
<1>3. texts' \in Seq(Response) /\ Extends(texts', texts)
  BY SharedTypes DEF Extends
<1>4. TextInv'
  BY DEF PagesInv, TextInv
<1>5. EntryInv'
  <2>1. texts' = texts /\ now' = now
    OBVIOUS
  <2>2. \A e \in 1..Len(entries) : Matches(entries[e], texts, now)
    BY DEF PagesInv, EntryInv
  <2>3. ASSUME NEW e \in 1..Len(entries') PROVE Matches(entries'[e], texts', now')
    <3>1. PICK m \in 1..Len(entries) : entries'[e] = entries[m]
      BY Zenon DEF From
    <3>2. QED
      BY <2>1, <2>2, <3>1
  <2>4. QED
    BY <2>3, Zenon DEF EntryInv
<1>6. /\ now' = now /\ limits' = limits /\ events' \in 0..MaxEvents
      /\ Reads(c, reader'[c], texts')
      /\ calls'[c] # NoCall => Asks(calls'[c], reader'[c], texts')
  BY <1>1, <1>2
<1>7. QED
  BY <1>2, <1>3, <1>4, <1>5, <1>6, StepInv

LEMMA MissInv ==
  ASSUME PagesInv, NEW c \in Clients, NEW declared, Miss(c, declared),
         UNCHANGED <<now, limits, events, texts>>
  PROVE  PagesInv'
<1>1. /\ entries' = Purged(entries) /\ used' = used /\ End(c)
      /\ reader' = [reader EXCEPT ![c].mode = "lost"]
  BY DEF Miss
<1>2. reader[c] \in Reader /\ Reads(c, reader[c], texts)
  BY ClientTypes
<1> DEFINE q == [reader[c] EXCEPT !.mode = "lost"]
<1>3. q \in Reader /\ q.mode = "lost" /\ q.text = reader[c].text
  BY <1>2 DEF Reader, Modes
<1>4. Reads(c, q, texts)
  BY <1>2, <1>3 DEF Reads
<1>5. reader' = [reader EXCEPT ![c] = q]
  BY <1>1, ClientTypes
<1> HIDE DEF q
<1>6. /\ entries' \in Seq(Entry) /\ Distinct(entries') /\ From(entries', entries)
      /\ Len(entries') <= MaxEntries /\ used' \in Seq(Nat)
  <2>1. /\ entries \in Seq(Entry) /\ Distinct(entries) /\ Len(entries) <= MaxEntries
        /\ used \in Seq(Nat)
    BY SharedTypes
  <2>2. /\ Purged(entries) \in Seq(Entry) /\ Len(Purged(entries)) <= Len(entries)
        /\ Distinct(Purged(entries)) /\ From(Purged(entries), entries)
    BY <2>1, PurgedEntries
  <2>3. Len(Purged(entries)) \in Nat /\ Len(entries) \in Nat
    BY <2>1, <2>2
  <2> QED
    BY <1>1, <2>1, <2>2, <2>3, PagesAssumption
<1>7. QED
  BY <1>1, <1>3, <1>4, <1>5, <1>6, AnswerInv

\* What get returns is the caller's own response, as it was produced.
LEMMA FoundIsOwn ==
  ASSUME PagesInv, NEW c \in Clients, NEW id \in Nat, Found(id, c)
  PROVE  /\ id \in 1..Len(texts) /\ texts[id].owner = c
         /\ EntryOf(id).tool = texts[id].tool
         /\ \E e \in 1..Len(Purged(entries)) : Purged(entries)[e].id = id
<1>1. PICK e \in 1..Len(Purged(entries)) :
        Purged(entries)[e].id = id /\ Purged(entries)[e].owner = c
  BY Zenon DEF Found
<1>2. From(Purged(entries), entries)
  BY SharedTypes, PurgedEntries
<1>3. PICK m \in 1..Len(entries) : Purged(entries)[e] = entries[m]
  BY <1>2, Zenon DEF From
<1>4. entries[m].id = id /\ entries[m].owner = c /\ Matches(entries[m], texts, now)
  BY <1>1, <1>3 DEF PagesInv, EntryInv
<1>5. id \in 1..Len(texts) /\ texts[id].owner = c
  BY <1>4, Zenon DEF Matches
<1> DEFINE z == CHOOSE x \in 1..Len(entries) : entries[x].id = id
<1>6. z \in 1..Len(entries) /\ entries[z].id = id
  BY <1>4
<1>7. EntryOf(id) = entries[z]
  BY Zenon DEF EntryOf
<1> HIDE DEF z
<1>8. Matches(entries[z], texts, now)
  BY <1>6 DEF PagesInv, EntryInv
<1>9. EntryOf(id).tool = texts[id].tool
  BY <1>6, <1>7, <1>8, Zenon DEF Matches
<1>10. QED
  BY <1>1, <1>5, <1>9

\* Text of one's own response is one's own, character by character.
LEMMA OwnText ==
  ASSUME PagesInv, NEW c, NEW id \in 1..Len(texts), texts[id].owner = c,
         NEW t, Of(t, texts[id].text)
  PROVE  \A i \in 1..Len(t) : t[i][1] \in 1..Len(texts) /\ texts[t[i][1]].owner = c
<1> SUFFICES ASSUME NEW i \in 1..Len(t)
             PROVE  t[i][1] \in 1..Len(texts) /\ texts[t[i][1]].owner = c
  OBVIOUS
<1>1. PICK j \in 1..Len(texts[id].text) : t[i] = texts[id].text[j]
  BY Zenon DEF Of
<1>2. texts[id].text[j][1] = id
  BY Zenon DEF PagesInv, TextInv
<1>3. QED
  BY <1>1, <1>2

LEMMA PageSizes ==
  ASSUME NEW l \in Limits
  PROVE  PageSize(l) \in Nat /\ l.hard \in Nat
BY PagesAssumption DEF PageSize

\* A page served from the cache.
LEMMA ServedReads ==
  ASSUME PagesInv, NEW c \in Clients, calls[c] # NoCall, NEW declared \in Declared(calls[c]),
         ServePage(c, declared)
  PROVE  \E q \in Reader :
           /\ reader' = [reader EXCEPT ![c] = q]
           /\ q.mode # "lost" /\ Reads(c, q, texts)
           /\ (calls[c].follows /\ q.mode = "reading") =>
                (q.id = reader[c].id /\ q.off > reader[c].off)
<1> DEFINE k == calls[c]
           args == Args(k, declared)
           id == Carried(args, "responseCacheId", declared)
           off == Carried(args, "responseOffset", declared)
           offset == IF off = None THEN 0 ELSE off
           lim == Carried(args, "responseLimit", declared)
           page == PageSize(k.eff)
           T == TextOf(id)
           limit == IF lim = None THEN page ELSE Least(lim, page)
           taken == IF k.follows THEN reader[c] ELSE NoReader
           own == SameToolName(k, EntryOf(id))
           q == IF page <= 0 THEN [taken EXCEPT !.mode = "done", !.id = id, !.text = T]
                ELSE IF ~own \/ offset >= Len(T)
                  THEN [taken EXCEPT !.mode = IF k.follows THEN "rejected" ELSE "failed"]
                ELSE IF k.follows THEN TakePage(taken, id, Slice(T, offset, limit), offset, Len(T))
                ELSE [taken EXCEPT !.mode = "part", !.id = id, !.text = Slice(T, offset, limit)]
<1>1. id # None /\ Found(id, c) /\ reader' = [reader EXCEPT ![c] = q]
  BY Zenon DEF ServePage
<1>2. k \in Call /\ reader[c] \in Reader /\ Reads(c, reader[c], texts) /\ Asks(k, reader[c], texts)
  BY ClientTypes
<1>3. {id, off, lim} \subseteq Nat \cup {None}
  BY FieldTypes DEF ArgKeys
<1>4. own <=> k.tool = EntryOf(id).tool
  BY Zenon DEF SameToolName
<1>5. k.follows => /\ reader[c].mode = "reading" /\ id = reader[c].id /\ off = reader[c].off
                   /\ k.tool = texts[id].tool /\ lim \in (Nat \ {0}) \cup {None}
  <2> SUFFICES ASSUME k.follows
               PROVE  /\ reader[c].mode = "reading" /\ id = reader[c].id /\ off = reader[c].off
                      /\ k.tool = texts[id].tool /\ lim \in (Nat \ {0}) \cup {None}
    OBVIOUS
  <2>1. /\ reader[c].mode = "reading" /\ k.tool = texts[reader[c].id].tool
        /\ id = reader[c].id /\ off = reader[c].off /\ lim \in (Nat \ {0}) \cup {None}
    BY FollowUpIsUnderstood
  <2> HIDE DEF id, off, lim
  <2>2. QED
    BY <2>1
<1>6. page \in Nat
  BY <1>2, PageSizes DEF Call
<1> HIDE DEF k, args, id, off, lim, page, own
<1>7. id \in Nat /\ id \in 1..Len(texts) /\ texts[id].owner = c /\ EntryOf(id).tool = texts[id].tool
  BY <1>1, <1>3, FoundIsOwn
<1>8. T = texts[id].text /\ T \in Seq(Chars) /\ Len(T) \in Nat
  BY <1>7, SharedTypes DEF TextOf
<1>9. offset \in Nat /\ limit \in Nat
  BY <1>3, <1>6 DEF Least
<1>10. taken \in Reader /\ (k.follows => taken = reader[c]) /\ (~k.follows => taken = NoReader)
  BY <1>2, NoReaderReads
<1>11. q = IF page <= 0 THEN [taken EXCEPT !.mode = "done", !.id = id, !.text = T]
           ELSE IF ~own \/ offset >= Len(T)
             THEN [taken EXCEPT !.mode = IF k.follows THEN "rejected" ELSE "failed"]
           ELSE IF k.follows THEN TakePage(taken, id, Slice(T, offset, limit), offset, Len(T))
           ELSE [taken EXCEPT !.mode = "part", !.id = id, !.text = Slice(T, offset, limit)]
  OBVIOUS
<1>12. k.follows /\ page > 0 =>
         own /\ offset < Len(T) /\ taken.text = SubSeq(T, 1, offset) /\ limit > 0
  <2> SUFFICES ASSUME k.follows, page > 0
               PROVE  own /\ offset < Len(T) /\ taken.text = SubSeq(T, 1, offset) /\ limit > 0
    OBVIOUS
  <2>1. offset = reader[c].off /\ taken = reader[c] /\ id = reader[c].id
    BY <1>2, <1>5, PagesAssumption DEF Reader
  <2>2. reader[c].off < Len(texts[reader[c].id].text) /\ reader[c].text = SubSeq(texts[reader[c].id].text, 1, reader[c].off)
    BY <1>2, <1>5, Zenon DEF Reads
  <2>3. own
    BY <1>4, <1>5, <1>7
  <2>4. limit > 0
    BY <1>5, <1>6 DEF Least
  <2>5. QED
    BY <1>8, <2>1, <2>2, <2>3, <2>4, Zenon
<1> HIDE DEF T, offset, limit, taken, q
<1>own. \A t : Of(t, T) => \A i \in 1..Len(t) : t[i][1] \in 1..Len(texts) /\ texts[t[i][1]].owner = c
  BY <1>7, <1>8, OwnText
<1>13. /\ q \in Reader /\ q.mode # "lost" /\ Reads(c, q, texts)
       /\ (k.follows /\ q.mode = "reading") => (q.id = reader[c].id /\ q.off > reader[c].off)
  <2>1. CASE page <= 0
    <3>1. q = [taken EXCEPT !.mode = "done", !.id = id, !.text = T]
      BY <1>11, <2>1
    <3>2. q \in Reader /\ q.mode = "done" /\ q.id = id /\ q.text = T
      BY <1>7, <1>8, <1>10, <3>1 DEF Reader, Modes, Chars
    <3>3. Of(T, T)
      BY DEF Of
    <3>4. Reads(c, q, texts)
      BY <1>7, <1>8, <1>own, <3>2, <3>3 DEF Reads
    <3>5. QED
      BY <3>2, <3>4
  <2>2. CASE page > 0 /\ (~own \/ offset >= Len(T))
    <3>1. ~k.follows
      BY <1>6, <1>8, <1>9, <1>12, <2>2
    <3>2. q = [NoReader EXCEPT !.mode = "failed"]
      <4>1. q = [taken EXCEPT !.mode = IF k.follows THEN "rejected" ELSE "failed"]
        BY <1>6, <1>11, <2>2
      <4>2. QED
        BY <1>10, <3>1, <4>1, Zenon
    <3>3. q \in Reader /\ q.mode = "failed" /\ q.text = <<>>
      <4>1. NoReader \in Reader /\ NoReader.text = <<>>
        BY NoReaderReads DEF NoReader
      <4>2. QED
        BY <3>2, <4>1 DEF Reader, Modes
    <3>4. Reads(c, q, texts)
      BY <3>3 DEF Reads
    <3>5. QED
      BY <3>1, <3>3, <3>4
  <2>3. CASE page > 0 /\ own /\ offset < Len(T) /\ k.follows
    <3>1. q = TakePage(taken, id, Slice(T, offset, limit), offset, Len(T))
      BY <1>6, <1>8, <1>9, <1>11, <2>3
    <3>2. taken.text = SubSeq(T, 1, offset) /\ limit > 0
      BY <1>6, <1>12, <2>3
    <3>3. /\ q \in Reader /\ q.id = id /\ q.mode \in {"reading", "done"}
          /\ q.mode = "reading" => q.off < Len(T) /\ q.text = SubSeq(T, 1, q.off)
          /\ q.mode = "done" => q.text = T
          /\ q.off > offset /\ Of(q.text, T)
      <4>1. /\ T \in Seq(Chars) /\ offset \in Nat /\ offset < Len(T) /\ limit \in Nat
            /\ taken \in Reader /\ id \in Nat
        BY <1>7, <1>8, <1>9, <1>10, <2>3
      <4>2. Continues(q, T, offset, limit, id)
        BY <3>1, <3>2, <4>1, PageTaken
      <4>3. QED
        BY <3>2, <4>2, Zenon DEF Continues
    <3>4. Reads(c, q, texts)
      <4>1. \A i \in 1..Len(q.text) : q.text[i][1] \in 1..Len(texts) /\ texts[q.text[i][1]].owner = c
        BY <1>own, <3>3
      <4>2. q.mode # "rejected"
        BY <3>3
      <4>3. QED
        BY <1>7, <1>8, <3>3, <4>1, <4>2, Zenon DEF Reads
    <3>5. offset = reader[c].off /\ id = reader[c].id
      BY <1>2, <1>5, <2>3, PagesAssumption DEF offset, Reader
    <3>6. QED
      BY <3>3, <3>4, <3>5
  <2>4. CASE page > 0 /\ own /\ offset < Len(T) /\ ~k.follows
    <3> DEFINE t == Slice(T, offset, limit)
    <3>1. q = [taken EXCEPT !.mode = "part", !.id = id, !.text = t]
      BY <1>6, <1>8, <1>9, <1>11, <2>4
    <3>2. t \in Seq(Chars) /\ Of(t, T)
      <4>1. offset + 1 \in Nat \ {0} /\ Least(offset + limit, Len(T)) \in 0..Len(T)
        BY <1>8, <1>9 DEF Least
      <4>2. QED
        BY <1>8, <4>1, SubSeqOf DEF Slice
    <3> HIDE DEF t
    <3>3. q \in Reader /\ q.mode = "part" /\ q.text = t
      BY <1>7, <1>10, <3>1, <3>2 DEF Reader, Modes, Chars
    <3>4. Reads(c, q, texts)
      BY <1>own, <3>2, <3>3 DEF Reads
    <3>5. QED
      BY <2>4, <3>3, <3>4
  <2>5. QED
    BY <1>6, <1>8, <1>9, <2>1, <2>2, <2>3, <2>4
<1>14. QED
  BY <1>1, <1>13 DEF k

\* Using an entry again keeps the history a sequence of ids.
LEMMA UsedLastType ==
  ASSUME NEW us \in Seq(Nat), NEW id \in Nat
  PROVE  UsedLast(us, id) \in Seq(Nat) /\ Len(UsedLast(us, id)) = Len(us)
<1> DEFINE at == CHOOSE u \in 1..Len(us) : us[u] = id
           f == [u \in 1..Len(us) |-> IF u < at THEN us[u] ELSE IF u < Len(us) THEN us[u + 1] ELSE id]
<1>1. UsedLast(us, id) = f
  BY Zenon DEF UsedLast
<1>2. Len(us) \in Nat /\ \A u \in 1..Len(us) : us[u] \in Nat
  OBVIOUS
<1> HIDE DEF at
<1>3. f \in [1..Len(us) -> Nat]
  <2> SUFFICES ASSUME NEW u \in 1..Len(us)
               PROVE  (IF u < at THEN us[u] ELSE IF u < Len(us) THEN us[u + 1] ELSE id) \in Nat
    BY Zenon
  <2>1. u < Len(us) => u + 1 \in 1..Len(us)
    BY <1>2
  <2>2. QED
    BY <1>2, <2>1
<1> HIDE DEF f
<1>4. f \in Seq(Nat) /\ Len(f) = Len(us)
  BY <1>2, <1>3
<1>5. QED
  BY <1>1, <1>4, Zenon

\* A page from the cache.
LEMMA ServePageInv ==
  ASSUME PagesInv, NEW c \in Clients, calls[c] # NoCall, NEW declared \in Declared(calls[c]),
         ServePage(c, declared), UNCHANGED <<now, limits, events, texts>>
  PROVE  PagesInv'
<1> DEFINE id == Carried(Args(calls[c], declared), "responseCacheId", declared)
<1>1. /\ id # None /\ Found(id, c) /\ End(c)
      /\ entries' = Touched(Purged(entries), id) /\ used' = UsedLast(used, id)
  BY Zenon DEF ServePage
<1>2. id \in Nat
  BY <1>1, FieldTypes DEF ArgKeys
<1>3. PICK q \in Reader : reader' = [reader EXCEPT ![c] = q] /\ Reads(c, q, texts)
  BY ServedReads
<1> HIDE DEF id
<1>4. /\ entries \in Seq(Entry) /\ Distinct(entries) /\ Len(entries) <= MaxEntries
      /\ used \in Seq(Nat)
  BY SharedTypes
<1>5. /\ Purged(entries) \in Seq(Entry) /\ Len(Purged(entries)) <= Len(entries)
      /\ Distinct(Purged(entries)) /\ From(Purged(entries), entries)
  BY <1>4, PurgedEntries
<1>6. PICK e \in 1..Len(Purged(entries)) : Purged(entries)[e].id = id
  BY <1>1, <1>2, FoundIsOwn
<1> DEFINE es == Purged(entries)
<1>7. /\ Touched(es, id) \in Seq(Entry) /\ Len(Touched(es, id)) <= Len(es)
      /\ Distinct(Touched(es, id)) /\ From(Touched(es, id), es)
  BY <1>5, <1>6, TouchedEntries
<1> HIDE DEF es
<1>8. From(entries', entries)
  <2> SUFFICES ASSUME NEW i \in 1..Len(entries')
               PROVE  \E m \in 1..Len(entries) : entries'[i] = entries[m]
    BY DEF From
  <2>1. PICK j \in 1..Len(es) : entries'[i] = es[j]
    BY <1>1, <1>7 DEF From, es
  <2>2. QED
    BY <1>5, <2>1, Zenon DEF From, es
<1>9. entries' \in Seq(Entry) /\ Distinct(entries') /\ Len(entries') <= MaxEntries
  <2>1. entries' = Touched(es, id)
    BY <1>1 DEF es
  <2>2. Len(Touched(es, id)) \in Nat /\ Len(es) \in Nat /\ Len(entries) \in Nat
    BY <1>4, <1>5, <1>7 DEF es
  <2>3. Len(es) <= Len(entries)
    BY <1>5 DEF es
  <2>4. QED
    BY <1>4, <1>7, <2>1, <2>2, <2>3, PagesAssumption
<1>10. used' \in Seq(Nat)
  BY <1>1, <1>2, <1>4, UsedLastType
<1>11. QED
  BY <1>1, <1>3, <1>8, <1>9, <1>10, AnswerInv

\* The upstream's answer: cut into pages, served whole, or truncated.
LEMMA RespondInv ==
  ASSUME PagesInv, NEW c \in Clients, Respond(c)
  PROVE  PagesInv'
<1> DEFINE k == calls[c]
           v == Len(texts) + 1
           page == PageSize(k.eff)
           limit == IF k.limit = None THEN page ELSE Least(k.limit, page)
<1>1. PICK r \in Responses :
        LET hard == k.eff.hard
            text == JoinTextBlocks(v, r.blocks)
            cut == [NoReader EXCEPT !.mode = "cut", !.id = v]
            whole == [NoReader EXCEPT !.mode = "done", !.id = v, !.text = text]
            Kept(max) == TruncateBlocks(v, r.blocks, max) = TruncateBlocks(v, r.blocks, 0)
            large == page > 0 /\ ~r.mixed /\ Len(text) > page
            max == IF page <= 0 THEN hard
                   ELSE IF r.mixed THEN (IF hard > 0 THEN hard ELSE page)
                   ELSE hard
        IN /\ texts' = Append(texts, [owner |-> c, tool |-> k.tool,
                                      text |-> text, created |-> now])
           /\ entries' = IF large
                THEN Put([id |-> v, owner |-> c, tool |-> k.tool, name |-> k.name,
                          created |-> now])
                ELSE entries
           /\ used' = IF large THEN Append(used, v) ELSE used
           /\ reader' = [reader EXCEPT ![c] =
                IF large THEN TakePage(NoReader, v, Slice(text, 0, limit), 0, Len(text))
                ELSE IF Kept(max) THEN whole ELSE cut]
  BY Zenon DEF Respond
<1> DEFINE T == JoinTextBlocks(v, r.blocks)
           x == [owner |-> c, tool |-> k.tool, text |-> T, created |-> now]
           e == [id |-> v, owner |-> c, tool |-> k.tool, name |-> k.name, created |-> now]
           cut == [NoReader EXCEPT !.mode = "cut", !.id = v]
           whole == [NoReader EXCEPT !.mode = "done", !.id = v, !.text = T]
           paged == TakePage(NoReader, v, Slice(T, 0, limit), 0, Len(T))
<1>2. PICK q : /\ reader' = [reader EXCEPT ![c] = q]
               /\ q = cut \/ q = whole \/ (q = paged /\ page > 0 /\ Len(T) > page)
  BY <1>1, Zenon
<1>3. /\ texts' = Append(texts, x)
      /\ entries' = Put(e) \/ entries' = entries
      /\ used' = Append(used, v) \/ used' = used
  BY <1>1, Zenon
<1>4. k # NoCall /\ k.at = "upstream" /\ calls' = [calls EXCEPT ![c] = NoCall]
      /\ UNCHANGED <<now, limits, events>>
  BY DEF Respond, End
<1>5. k \in Call /\ Asks(k, reader[c], texts)
  BY <1>4, ClientTypes
<1>6. k.tool \in Tools /\ k.name \in Spellings /\ k.eff \in Limits /\ k.limit \in Nat \cup {None}
  BY <1>5 DEF Call
<1>7. page \in Nat /\ limit \in Nat
  BY <1>6, PageSizes DEF Least
<1>8. v \in Nat /\ v \notin 1..Len(texts) /\ Len(texts) \in Nat
  BY SharedTypes
<1>9. T \in Seq({v} \X Nat \X Nat)
  <2>1. r.blocks \in Seq(Nat)
    BY PagesAssumption
  <2> HIDE DEF v
  <2>2. QED
    BY <1>8, <2>1, Joined
<1> HIDE DEF T, page, limit, k
<1>10. /\ T \in Seq(Chars) /\ Len(T) \in Nat
       /\ \A i \in 1..Len(T) : T[i][1] = v
  <2> HIDE DEF v
  <2>1. {v} \X Nat \X Nat \subseteq Chars
    BY <1>8 DEF Chars
  <2>2. T \in Seq(Chars)
    BY <1>9, <2>1, SeqMonotonic
  <2>3. ASSUME NEW i \in 1..Len(T) PROVE T[i][1] = v
    <3>1. T[i] \in {v} \X Nat \X Nat
      BY <1>9, ElementOfSeq
    <3>2. QED
      BY <3>1
  <2>4. QED
    BY <2>2, <2>3
<1>11. x \in Response /\ x.owner = c /\ x.tool = k.tool /\ x.text = T /\ x.created = now
  BY <1>6, <1>10, SharedTypes DEF Response, Chars
<1>12. e \in Entry /\ e.id = v /\ e.owner = c /\ e.tool = k.tool /\ e.created = now
  BY <1>6, <1>8, SharedTypes DEF Entry
<1> HIDE DEF x, e
<1>13. /\ texts' \in Seq(Response) /\ Extends(texts', texts) /\ Len(texts') = v
       /\ texts'[v] = x /\ v \in 1..Len(texts')
       /\ \A u \in 1..Len(texts') : u = v \/ (u \in 1..Len(texts) /\ texts'[u] = texts[u])
  <2>1. texts \in Seq(Response) /\ texts' = Append(texts, x) /\ x \in Response
    BY <1>3, <1>11, SharedTypes
  <2>2. /\ texts' \in Seq(Response) /\ Len(texts') = Len(texts) + 1
        /\ texts'[Len(texts) + 1] = x
        /\ \A u \in 1..Len(texts) : texts'[u] = texts[u]
    BY <2>1
  <2>3. QED
    BY <1>8, <2>2 DEF Extends
<1>14. TextInv'
  <2> SUFFICES ASSUME NEW u \in 1..Len(texts'), NEW i \in 1..Len(texts'[u].text)
               PROVE  texts'[u].text[i][1] = u
    BY Zenon DEF TextInv
  <2>1. CASE u = v
    BY <1>10, <1>11, <1>13, <2>1
  <2>2. CASE u # v
    BY <1>13, <2>2, Zenon DEF PagesInv, TextInv
  <2>3. QED
    BY <2>1, <2>2
<1> HIDE DEF v
<1>15. Matches(e, texts', now)
  BY <1>11, <1>12, <1>13, SharedTypes DEF Matches
<1>16. \A m \in 1..Len(entries) : Matches(entries[m], texts, now) /\ entries[m].id # v
  BY <1>8, Zenon DEF PagesInv, EntryInv, Matches
<1>17. /\ entries \in Seq(Entry) /\ Distinct(entries) /\ Len(entries) <= MaxEntries /\ used \in Seq(Nat)
  BY SharedTypes
<1>18. /\ entries' \in Seq(Entry) /\ Distinct(entries') /\ Len(entries') <= MaxEntries
       /\ \A i \in 1..Len(entries') : entries'[i] = e \/ \E m \in 1..Len(entries) : entries'[i] = entries[m]
  <2>1. CASE entries' = Put(e)
    <3>1. \A m \in 1..Len(entries) : entries[m].id # e.id
      BY <1>12, <1>16
    <3>2. /\ Put(e) \in Seq(Entry) /\ Len(Put(e)) <= MaxEntries /\ Distinct(Put(e))
          /\ \A i \in 1..Len(Put(e)) : Put(e)[i] = e \/ \E m \in 1..Len(entries) : Put(e)[i] = entries[m]
      BY <1>12, <1>17, <3>1, PutEntries
    <3>3. QED
      BY <2>1, <3>2, Zenon
  <2>2. CASE entries' = entries
    BY <1>17, <2>2
  <2>3. QED
    BY <1>3, <2>1, <2>2
<1>19. EntryInv'
  <2>1. ASSUME NEW i \in 1..Len(entries') PROVE Matches(entries'[i], texts', now)
    <3>1. \A m \in 1..Len(entries) : Matches(entries[m], texts', now)
      BY <1>13, <1>16, MoreResponses, Zenon
    <3>2. QED
      BY <1>15, <1>18, <3>1, Zenon
  <2>2. now' = now
    BY <1>4
  <2>3. QED
    BY <2>1, <2>2 DEF EntryInv
<1>20. used' \in Seq(Nat)
  <2>1. Append(used, v) \in Seq(Nat)
    BY <1>8, <1>17
  <2>2. QED
    BY <1>3, <1>17, <2>1, Zenon
<1>21. q \in Reader /\ Reads(c, q, texts')
  <2>0. \A t : Of(t, T) => \A i \in 1..Len(t) : t[i][1] \in 1..Len(texts') /\ texts'[t[i][1]].owner = c
    <3> SUFFICES ASSUME NEW t, Of(t, T), NEW i \in 1..Len(t)
                 PROVE  t[i][1] \in 1..Len(texts') /\ texts'[t[i][1]].owner = c
      OBVIOUS
    <3>1. PICK j \in 1..Len(T) : t[i] = T[j]
      BY Zenon DEF Of
    <3>2. QED
      BY <1>10, <1>11, <1>13, <3>1
  <2>t. NoReader \in Reader /\ NoReader.text = <<>>
    BY NoReaderReads DEF NoReader
  <2>1. CASE q = cut
    <3>1. q \in Reader /\ q.mode = "cut" /\ q.text = <<>>
      BY <1>8, <2>1, <2>t DEF Reader, Modes
    <3>2. QED
      BY <3>1 DEF Reads
  <2>2. CASE q = whole
    <3>1. q \in Reader /\ q.mode = "done" /\ q.id = v /\ q.text = T
      BY <1>8, <1>10, <2>2, <2>t DEF Reader, Modes, Chars
    <3>2. Of(T, T)
      BY DEF Of
    <3>3. QED
      BY <1>11, <1>13, <2>0, <3>1, <3>2 DEF Reads
  <2>3. CASE q = paged /\ page > 0 /\ Len(T) > page
    <3>1. 0 < Len(T)
      BY <1>7, <1>10, <2>3
    <3>2. NoReader.text = SubSeq(T, 1, 0)
      BY <2>t
    <3>3. Continues(q, T, 0, limit, v)
      BY <1>7, <1>8, <1>10, <2>3, <2>t, <3>1, <3>2, PageTaken
    <3>4. /\ q \in Reader /\ q.id = v /\ q.mode \in {"reading", "done"}
          /\ q.mode = "reading" => q.off < Len(T) /\ q.text = SubSeq(T, 1, q.off)
          /\ q.mode = "done" => q.text = T
          /\ Of(q.text, T)
      BY <3>3, Zenon DEF Continues
    <3>5. \A i \in 1..Len(q.text) : q.text[i][1] \in 1..Len(texts') /\ texts'[q.text[i][1]].owner = c
      BY <2>0, <3>4
    <3>6. texts'[v].text = T /\ texts'[v].owner = c /\ v \in 1..Len(texts')
      BY <1>11, <1>13
    <3>7. q.mode # "rejected"
      BY <3>4
    <3>8. QED
      BY <3>4, <3>5, <3>6, <3>7, Zenon DEF Reads
  <2>4. QED
    BY <1>2, <2>1, <2>2, <2>3, Zenon
<1>22. /\ calls' \in [Clients -> Call \cup {NoCall}] /\ calls'[c] = NoCall
       /\ reader' \in [Clients -> Reader] /\ reader'[c] = q
       /\ \A d \in Clients : d # c => calls'[d] = calls[d] /\ reader'[d] = reader[d]
       /\ events' \in 0..MaxEvents /\ now' = now /\ limits' = limits
  <2>1. /\ calls \in [Clients -> Call \cup {NoCall}] /\ reader \in [Clients -> Reader]
        /\ events \in 0..MaxEvents /\ reader' = [reader EXCEPT ![c] = q]
        /\ calls' = [calls EXCEPT ![c] = NoCall] /\ q \in Reader
    BY <1>2, <1>4, <1>21, ClientTypes, Zenon
  <2>2. QED
    BY <1>4, <2>1
<1>23. Reads(c, reader'[c], texts') /\ (calls'[c] # NoCall => Asks(calls'[c], reader'[c], texts'))
  BY <1>21, <1>22
<1>24. QED
  BY <1>13, <1>14, <1>18, <1>19, <1>20, <1>22, <1>23, StepInv

\* Every step preserves the invariant.
LEMMA NextInv == PagesInv /\ [Next]_vars => PagesInv'
<1> SUFFICES ASSUME PagesInv, [Next]_vars PROVE PagesInv'
  OBVIOUS
<1>1. ASSUME NEW c \in Clients, Parse(c) PROVE PagesInv'
  <2>1. PICK declared \in Declared(calls[c]) :
          Forward(c, declared) \/ Miss(c, declared) \/ ServePage(c, declared)
    BY <1>1 DEF Parse
  <2>2. calls[c] # NoCall /\ UNCHANGED <<now, limits, events, texts>>
    BY <1>1 DEF Parse
  <2>3. CASE Forward(c, declared)
    BY <2>2, <2>3, ForwardInv
  <2>4. CASE Miss(c, declared)
    BY <2>2, <2>4, MissInv
  <2>5. CASE ServePage(c, declared)
    BY <2>2, <2>5, ServePageInv
  <2>6. QED
    BY <2>1, <2>3, <2>4, <2>5
<1>2. CASE UNCHANGED vars
  <2>1. UNCHANGED <<now, limits, entries, calls, reader, events, texts, used>>
    BY <1>2 DEF vars
  <2>2. TypeOK'
    BY <2>1 DEF PagesInv, TypeOK
  <2>3. EntryInv' /\ TextInv' /\ ReadInv' /\ CallInv'
    BY <2>1 DEF PagesInv, EntryInv, TextInv, ReadInv, CallInv
  <2>4. QED
    BY <2>2, <2>3 DEF PagesInv
<1>3. QED
  BY <1>1, <1>2, TickInv, AskFreshInv, FollowInv, AskStrayInv, RespondInv, FailInv,
     EditLimitsInv DEF Next

\* Every variable keeps its type, and the cache its size and different ids.
THEOREM TypeCorrect == Spec => []TypeOK
<1>1. PagesInv => TypeOK
  BY DEF PagesInv
<1>2. QED
  BY InitInv, NextInv, <1>1, PTL DEF Spec

\* No client ever holds a character of another client's response, whichever ids,
\* tools and offsets the clients try, whatever is evicted, expired or re-limited.
THEOREM PagesAreTheOwners == Spec => []PagesStayWithOwner
<1>1. PagesInv => PagesStayWithOwner
  BY Zenon DEF PagesInv, ReadInv, Reads, PagesStayWithOwner
<1>2. QED
  BY InitInv, NextInv, <1>1, PTL DEF Spec

\* A client that follows the hints to the end holds the upstream's text, the whole
\* of it and once, and is never told that its tool or its offset is wrong.
THEOREM HintsLeadToWholeText == Spec => []HintLeadsToWholeText
<1>1. PagesInv => HintLeadsToWholeText
  BY Zenon DEF PagesInv, ReadInv, Reads, HintLeadsToWholeText, TextOf
<1>2. QED
  BY InitInv, NextInv, <1>1, PTL DEF Spec

\* Each answer to a client that reads ends the reading or brings it further.
LEMMA NextAdvances ==
  ASSUME PagesInv, Next, NEW c \in Clients,
         reader[c].mode = "reading", calls[c] # NoCall, calls'[c] = NoCall
  PROVE  \/ reader'[c].mode # "reading"
         \/ reader'[c].id = reader[c].id /\ reader'[c].off > reader[c].off
<1>1. /\ calls \in [Clients -> Call \cup {NoCall}] /\ reader \in [Clients -> Reader]
      /\ calls[c] \in Call /\ Asks(calls[c], reader[c], texts)
  BY ClientTypes
<1>2. calls[c].follows /\ calls[c].at = "schema"
  <2>1. ASSUME ~calls[c].follows PROVE FALSE
    <3>1. reader[c] = NoReader
      BY <1>1, <2>1, Zenon DEF Asks
    <3>2. QED
      BY <3>1 DEF NoReader
  <2>2. QED
    BY <1>1, <2>1, Zenon DEF Asks
<1>3. calls' # calls
  OBVIOUS
<1>4. \A d \in Clients : ~EditLimits(d) /\ ~Tick
  BY <1>3 DEF EditLimits, Tick
<1>5. ASSUME NEW d \in Clients, NEW x, calls' = [calls EXCEPT ![d] = x] PROVE d = c
  BY <1>1, <1>5
<1>6. ASSUME NEW d \in Clients, AskFresh(d) \/ Follow(d) \/ AskStray(d) PROVE FALSE
  <2>1. calls[d] = NoCall /\ \E x : calls' = [calls EXCEPT ![d] = x]
    BY <1>6, Zenon DEF AskFresh, Follow, AskStray, Receive
  <2>2. QED
    BY <1>5, <2>1
<1>7. ASSUME NEW d \in Clients, Respond(d) PROVE FALSE
  <2>1. calls[d].at = "upstream" /\ calls' = [calls EXCEPT ![d] = NoCall]
    BY <1>7 DEF Respond, End
  <2>2. d = c
    BY <1>5, <2>1
  <2>3. QED
    BY <1>2, <2>1, <2>2
<1>8. ASSUME NEW d \in Clients, Fail(d) PROVE reader'[c].mode # "reading"
  <2>1. calls' = [calls EXCEPT ![d] = NoCall] /\ reader' = [reader EXCEPT ![d].mode = "failed"]
    BY <1>8 DEF Fail, End
  <2>2. d = c
    BY <1>5, <2>1
  <2>3. reader'[c].mode = "failed"
    BY <1>1, <2>1, <2>2 DEF Reader
  <2>4. QED
    BY <2>3
<1>9. ASSUME NEW d \in Clients, Parse(d)
      PROVE  \/ reader'[c].mode # "reading"
             \/ reader'[c].id = reader[c].id /\ reader'[c].off > reader[c].off
  <2>1. PICK declared \in Declared(calls[d]) :
          Forward(d, declared) \/ Miss(d, declared) \/ ServePage(d, declared)
    BY <1>9 DEF Parse
  <2>2. d = c
    <3>1. \E x : calls' = [calls EXCEPT ![d] = x]
      BY <2>1, Zenon DEF Forward, Miss, ServePage, End
    <3>2. QED
      BY <1>5, <3>1
  <2>3. CASE Forward(d, declared)
    BY <1>2, <2>2, <2>3, OnlyFirstCallsGoUpstream
  <2>4. CASE Miss(d, declared)
    <3>1. reader' = [reader EXCEPT ![c].mode = "lost"]
      BY <2>2, <2>4 DEF Miss
    <3>2. reader'[c].mode = "lost"
      BY <1>1, <3>1 DEF Reader
    <3>3. QED
      BY <3>2
  <2>5. CASE ServePage(d, declared)
    <3>1. PICK q \in Reader :
            /\ reader' = [reader EXCEPT ![c] = q]
            /\ (calls[c].follows /\ q.mode = "reading") =>
                 (q.id = reader[c].id /\ q.off > reader[c].off)
      BY <2>2, <2>5, ServedReads
    <3>2. reader'[c] = q
      BY <1>1, <3>1
    <3>3. QED
      BY <1>2, <3>1, <3>2, Zenon
  <2>6. QED
    BY <2>1, <2>3, <2>4, <2>5
<1>10. QED
  BY <1>4, <1>6, <1>7, <1>8, <1>9 DEF Next

\* A reading is over after at most as many answers as the response has characters.
THEOREM ReadingMovesOn == Spec => ReadingAdvances
<1>1. PagesInv /\ [Next]_vars =>
        [\A c \in Clients :
           (reader[c].mode = "reading" /\ calls[c] # NoCall /\ calls'[c] = NoCall) =>
             \/ reader'[c].mode # "reading"
             \/ reader'[c].id = reader[c].id /\ reader'[c].off > reader[c].off]_vars
  BY NextAdvances
<1>2. QED
  BY InitInv, NextInv, <1>1, PTL DEF Spec, ReadingAdvances

-----------------------------------------------------------------------------
(***************************************************************************)
(* The order of use.                                                       *)
(***************************************************************************)

\* Time and further responses only add to what excuses a missing entry.
LEMMA RecentLater ==
  ASSUME NEW es, NEW us, NEW ts \in Seq(Response), NEW ts2, Extends(ts2, ts),
         NEW t \in Nat, NEW t2 \in Nat, t <= t2, Recent(es, us, ts, t)
  PROVE  Recent(es, us, ts2, t2)
<1>1. /\ \A u, w \in 1..Len(us) : us[u] = us[w] => u = w
      /\ \A u \in 1..Len(us) : us[u] \in 1..Len(ts)
      /\ \A e \in 1..Len(es) : \E u \in 1..Len(us) : us[u] = es[e].id
      /\ \A a, b \in 1..Len(es) : \A u, w \in 1..Len(us) :
           a < b /\ us[u] = es[a].id /\ us[w] = es[b].id => u < w
  BY Zenon DEF Recent
<1>2. \A v \in 1..Len(ts) : v \in 1..Len(ts2) /\ ts2[v] = ts[v]
  BY DEF Extends
<1>3. \A u \in 1..Len(us) : us[u] \in 1..Len(ts2)
  BY <1>1, <1>2
<1>4. ASSUME NEW u \in 1..Len(us)
      PROVE  \/ \E e \in 1..Len(es) : es[e].id = us[u]
             \/ t2 - ts2[us[u]].created > TTL
             \/ Len(us) - u >= MaxEntries
  <2>1. \/ \E e \in 1..Len(es) : es[e].id = us[u]
        \/ t - ts[us[u]].created > TTL
        \/ Len(us) - u >= MaxEntries
    BY Zenon DEF Recent
  <2>2. us[u] \in 1..Len(ts) /\ ts2[us[u]] = ts[us[u]]
    BY <1>1, <1>2
  <2>3. ts[us[u]].created \in Nat /\ TTL \in Nat
    <3>1. \A x \in Response : x.created \in Nat
      BY DEF Response
    <3>2. ts[us[u]] \in Response
      BY <2>2, ElementOfSeq
    <3>3. QED
      BY <3>1, <3>2, PagesAssumption
  <2>4. t - ts[us[u]].created > TTL => t2 - ts2[us[u]].created > TTL
    BY <2>2, <2>3
  <2>5. QED
    BY <2>1, <2>4, Zenon
<1>5. QED
  BY <1>1, <1>3, <1>4, Zenon DEF Recent

\* A purge drops what has expired.
LEMMA RecentPurged ==
  ASSUME NEW es \in Seq(Entry), NEW us, NEW ts, NEW t, Recent(es, us, ts, t), NEW at,
         \A k \in 1..Len(es) : k \notin at => t - ts[es[k].id].created > TTL
  PROVE  Recent(Selected(es, at), us, ts, t)
<1> DEFINE sel == Selected(es, at)
<1>1. PICK p : Positions(p, es, at)
  BY SelectedFacts, Zenon
<1>2. /\ p \in [1..Len(sel) -> 1..Len(es)]
      /\ \A i \in 1..Len(sel) : p[i] \in at /\ sel[i] = es[p[i]]
      /\ \A i, j \in 1..Len(sel) : i < j => p[i] < p[j]
      /\ \A k \in 1..Len(es) : k \in at => \E i \in 1..Len(sel) : p[i] = k
  BY <1>1, Zenon DEF Positions
<1> HIDE DEF sel
<1>3. /\ \A u, w \in 1..Len(us) : us[u] = us[w] => u = w
      /\ \A u \in 1..Len(us) : us[u] \in 1..Len(ts)
  BY Zenon DEF Recent
<1>4. \A e \in 1..Len(sel) : \E u \in 1..Len(us) : us[u] = sel[e].id
  <2> SUFFICES ASSUME NEW e \in 1..Len(sel) PROVE \E u \in 1..Len(us) : us[u] = sel[e].id
    OBVIOUS
  <2>1. p[e] \in 1..Len(es) /\ sel[e] = es[p[e]]
    BY <1>2
  <2>2. \A k \in 1..Len(es) : \E u \in 1..Len(us) : us[u] = es[k].id
    BY Zenon DEF Recent
  <2>3. QED
    BY <2>1, <2>2, Zenon
<1>5. ASSUME NEW a \in 1..Len(sel), NEW b \in 1..Len(sel), NEW u \in 1..Len(us), NEW w \in 1..Len(us),
             a < b, us[u] = sel[a].id, us[w] = sel[b].id
      PROVE  u < w
  <2>1. p[a] \in 1..Len(es) /\ sel[a] = es[p[a]] /\ p[b] \in 1..Len(es) /\ sel[b] = es[p[b]] /\ p[a] < p[b]
    BY <1>2, <1>5
  <2>2. us[u] = es[p[a]].id /\ us[w] = es[p[b]].id
    BY <1>5, <2>1
  <2>3. \A i, j \in 1..Len(es) : \A x, y \in 1..Len(us) :
          i < j /\ us[x] = es[i].id /\ us[y] = es[j].id => x < y
    BY Zenon DEF Recent
  <2>4. QED
    BY <2>1, <2>2, <2>3, Zenon
<1>6. ASSUME NEW u \in 1..Len(us)
      PROVE  \/ \E e \in 1..Len(sel) : sel[e].id = us[u]
             \/ t - ts[us[u]].created > TTL
             \/ Len(us) - u >= MaxEntries
  <2>1. \/ \E e \in 1..Len(es) : es[e].id = us[u]
        \/ t - ts[us[u]].created > TTL
        \/ Len(us) - u >= MaxEntries
    BY Zenon DEF Recent
  <2>2. ASSUME NEW e \in 1..Len(es), es[e].id = us[u]
        PROVE  \/ \E z \in 1..Len(sel) : sel[z].id = us[u]
               \/ t - ts[us[u]].created > TTL
    <3>1. CASE e \in at
      <4>1. PICK i \in 1..Len(sel) : p[i] = e
        BY <1>2, <3>1
      <4>2. sel[i].id = us[u]
        BY <1>2, <2>2, <4>1
      <4>3. QED
        BY <4>2
    <3>2. CASE e \notin at
      <4>1. t - ts[es[e].id].created > TTL
        BY <3>2, Zenon
      <4>2. QED
        BY <2>2, <4>1, Zenon
    <3>3. QED
      BY <3>1, <3>2
  <2>3. QED
    BY <2>1, <2>2, Zenon
<1>7. Recent(sel, us, ts, t)
  BY <1>3, <1>4, <1>5, <1>6, Zenon DEF Recent
<1>8. QED
  BY <1>7 DEF sel

\* What UsedLast moves where.
LEMMA UsedLastFacts ==
  ASSUME NEW us \in Seq(Nat), NEW id \in Nat, NEW at \in 1..Len(us), us[at] = id,
         \A u, w \in 1..Len(us) : us[u] = us[w] => u = w
  PROVE  /\ UsedLast(us, id) \in Seq(Nat)
         /\ Len(UsedLast(us, id)) = Len(us)
         /\ \A u \in 1..Len(us) :
              UsedLast(us, id)[u] = IF u < at THEN us[u] ELSE IF u < Len(us) THEN us[u + 1] ELSE id
<1> DEFINE m == CHOOSE u \in 1..Len(us) : us[u] = id
<1>1. m = at
  OBVIOUS
<1>2. UsedLast(us, id) =
        [u \in 1..Len(us) |-> IF u < m THEN us[u] ELSE IF u < Len(us) THEN us[u + 1] ELSE id]
  BY Zenon DEF UsedLast
<1> HIDE DEF m
<1>3. Len(us) \in Nat /\ \A u \in 1..Len(us) : us[u] \in Nat
  OBVIOUS
<1> DEFINE f == [u \in 1..Len(us) |-> IF u < at THEN us[u] ELSE IF u < Len(us) THEN us[u + 1] ELSE id]
<1>4. f \in [1..Len(us) -> Nat]
  <2> SUFFICES ASSUME NEW u \in 1..Len(us)
               PROVE  (IF u < at THEN us[u] ELSE IF u < Len(us) THEN us[u + 1] ELSE id) \in Nat
    BY Zenon
  <2>1. u < Len(us) => u + 1 \in 1..Len(us)
    BY <1>3
  <2>2. QED
    BY <1>3, <2>1
<1>5. \A u \in 1..Len(us) : f[u] = IF u < at THEN us[u] ELSE IF u < Len(us) THEN us[u + 1] ELSE id
  BY Zenon
<1>6. UsedLast(us, id) = f
  BY <1>1, <1>2
<1> HIDE DEF f
<1>7. f \in Seq(Nat) /\ Len(f) = Len(us)
  BY <1>3, <1>4
<1>8. QED
  BY <1>5, <1>6, <1>7, Zenon

\* An entry that stands n places before the end of the cache has at least n entries
\* used after it.
LEMMA UsedAfter ==
  ASSUME NEW es \in Seq(Entry), NEW us \in Seq(Nat), NEW ts, NEW t, Recent(es, us, ts, t),
         NEW i \in 1..Len(es), NEW u \in 1..Len(us), us[u] = es[i].id
  PROVE  Len(us) - u >= Len(es) - i
<1> DEFINE N == Len(es) - 1
           G == {n \in 0..N : \A w \in 1..Len(us) : us[w] = es[Len(es) - n].id => Len(us) - w >= n}
<1>1. Len(es) \in Nat /\ Len(us) \in Nat /\ N \in Nat
  OBVIOUS
<1>2. 0 \in G
  BY <1>1
<1>3. ASSUME NEW n \in 1..N, n - 1 \in G PROVE n \in G
  <2> SUFFICES ASSUME NEW w \in 1..Len(us), us[w] = es[Len(es) - n].id
               PROVE  Len(us) - w >= n
    BY <1>1
  <2> DEFINE a == Len(es) - n
             b == Len(es) - (n - 1)
  <2>1. a \in 1..Len(es) /\ b \in 1..Len(es) /\ a < b /\ us[w] = es[a].id
    BY <1>1
  <2>2. \A y \in 1..Len(us) : us[y] = es[b].id => Len(us) - y >= n - 1
    BY <1>3
  <2> HIDE DEF a, b
  <2>3. PICK y \in 1..Len(us) : us[y] = es[b].id
    BY <2>1, Zenon DEF Recent
  <2>4. w < y
    BY <2>1, <2>3, Zenon DEF Recent
  <2>5. Len(us) - y >= n - 1
    BY <2>2, <2>3
  <2>6. QED
    BY <1>1, <2>4, <2>5
<1>4. G \in SUBSET (0..N)
  OBVIOUS
<1>5. G = 0..N
  <2> HIDE DEF G, N
  <2>1. QED
    BY <1>1, <1>2, <1>3, <1>4, UpTo
<1>6. Len(es) - i \in 0..N
  BY <1>1
<1>7. Len(es) - i \in G
  BY <1>5, <1>6
<1>8. Len(es) - (Len(es) - i) = i
  BY <1>1
<1>9. QED
  BY <1>7, <1>8

\* Dropping from the front of a full cache.
LEMMA RecentDropped ==
  ASSUME NEW es \in Seq(Entry), NEW us \in Seq(Nat), NEW ts, NEW t, Recent(es, us, ts, t),
         NEW low \in Nat, low <= Len(es), low = 0 \/ Len(es) - low >= MaxEntries
  PROVE  Recent(SubSeq(es, low + 1, Len(es)), us, ts, t)
<1> DEFINE fs == SubSeq(es, low + 1, Len(es))
<1>1. /\ Len(es) \in Nat /\ Len(fs) = Len(es) - low
      /\ \A i \in 1..Len(fs) : low + i \in 1..Len(es) /\ fs[i] = es[low + i]
  OBVIOUS
<1>2. /\ \A u, w \in 1..Len(us) : us[u] = us[w] => u = w
      /\ \A u \in 1..Len(us) : us[u] \in 1..Len(ts)
  BY Zenon DEF Recent
<1> HIDE DEF fs
<1>3. \A e \in 1..Len(fs) : \E u \in 1..Len(us) : us[u] = fs[e].id
  <2> SUFFICES ASSUME NEW e \in 1..Len(fs) PROVE \E u \in 1..Len(us) : us[u] = fs[e].id
    OBVIOUS
  <2>1. low + e \in 1..Len(es) /\ fs[e] = es[low + e]
    BY <1>1
  <2>2. \A k \in 1..Len(es) : \E u \in 1..Len(us) : us[u] = es[k].id
    BY Zenon DEF Recent
  <2>3. QED
    BY <2>1, <2>2, Zenon
<1>4. ASSUME NEW a \in 1..Len(fs), NEW b \in 1..Len(fs), NEW u \in 1..Len(us), NEW w \in 1..Len(us),
             a < b, us[u] = fs[a].id, us[w] = fs[b].id
      PROVE  u < w
  <2>1. /\ low + a \in 1..Len(es) /\ fs[a] = es[low + a]
        /\ low + b \in 1..Len(es) /\ fs[b] = es[low + b]
    BY <1>1
  <2>0. low + a < low + b
    BY <1>1, <1>4
  <2>2. us[u] = es[low + a].id /\ us[w] = es[low + b].id
    BY <1>4, <2>1
  <2>3. \A i, j \in 1..Len(es) : \A x, y \in 1..Len(us) :
          i < j /\ us[x] = es[i].id /\ us[y] = es[j].id => x < y
    BY Zenon DEF Recent
  <2>4. QED
    BY <1>4, <2>0, <2>1, <2>2, <2>3, Zenon
<1>5. ASSUME NEW u \in 1..Len(us)
      PROVE  \/ \E e \in 1..Len(fs) : fs[e].id = us[u]
             \/ t - ts[us[u]].created > TTL
             \/ Len(us) - u >= MaxEntries
  <2>1. \/ \E e \in 1..Len(es) : es[e].id = us[u]
        \/ t - ts[us[u]].created > TTL
        \/ Len(us) - u >= MaxEntries
    BY Zenon DEF Recent
  <2>2. ASSUME NEW e \in 1..Len(es), es[e].id = us[u]
        PROVE  \/ \E z \in 1..Len(fs) : fs[z].id = us[u]
               \/ Len(us) - u >= MaxEntries
    <3>1. CASE e > low
      <4>1. e - low \in 1..Len(fs) /\ low + (e - low) = e
        BY <1>1, <3>1
      <4>2. fs[e - low] = es[e]
        BY <1>1, <4>1
      <4>3. QED
        BY <2>2, <4>1, <4>2
    <3>2. CASE e <= low
      <4>1. Len(us) - u >= Len(es) - e
        BY <2>2, UsedAfter
      <4>2. low # 0
        BY <3>2
      <4>3. QED
        BY <1>1, <3>2, <4>1, <4>2, PagesAssumption
    <3>3. QED
      BY <1>1, <3>1, <3>2
  <2>3. QED
    BY <2>1, <2>2, Zenon
<1>6. Recent(fs, us, ts, t)
  BY <1>2, <1>3, <1>4, <1>5, Zenon DEF Recent
<1>7. QED
  BY <1>6 DEF fs

\* A new entry is the last one used.
LEMMA RecentAppended ==
  ASSUME NEW es \in Seq(Entry), NEW us \in Seq(Nat), NEW ts, NEW t, Recent(es, us, ts, t),
         NEW x \in Entry, x.id \in 1..Len(ts), x.id \in Nat, \A u \in 1..Len(us) : us[u] # x.id
  PROVE  Recent(Append(es, x), Append(us, x.id), ts, t)
<1> DEFINE fs == Append(es, x)
           vs == Append(us, x.id)
<1>1. /\ Len(es) \in Nat /\ Len(us) \in Nat
      /\ Len(fs) = Len(es) + 1 /\ fs[Len(es) + 1] = x
      /\ \A i \in 1..Len(es) : fs[i] = es[i]
  OBVIOUS
<1>2. /\ Len(vs) = Len(us) + 1 /\ vs[Len(us) + 1] = x.id
      /\ \A i \in 1..Len(us) : vs[i] = us[i]
  OBVIOUS
<1> HIDE DEF fs, vs
<1>3. \A i \in 1..Len(fs) : i \in 1..Len(es) \/ i = Len(es) + 1
  BY <1>1
<1>4. \A u \in 1..Len(vs) : u \in 1..Len(us) \/ u = Len(us) + 1
  BY <1>1, <1>2
<1>5. /\ \A u, w \in 1..Len(us) : us[u] = us[w] => u = w
      /\ \A u \in 1..Len(us) : us[u] \in 1..Len(ts)
  BY Zenon DEF Recent
<1>6. \A u, w \in 1..Len(vs) : vs[u] = vs[w] => u = w
  BY <1>2, <1>4, <1>5
<1>7. \A u \in 1..Len(vs) : vs[u] \in 1..Len(ts)
  BY <1>2, <1>4, <1>5
<1>8. \A e \in 1..Len(es) : \E u \in 1..Len(us) : us[u] = es[e].id
  BY Zenon DEF Recent
<1>9. ASSUME NEW e \in 1..Len(fs) PROVE \E u \in 1..Len(vs) : vs[u] = fs[e].id
  <2>1. CASE e \in 1..Len(es)
    <3>1. PICK u \in 1..Len(us) : us[u] = es[e].id
      BY <1>8, <2>1
    <3>2. u \in 1..Len(vs) /\ vs[u] = fs[e].id
      BY <1>1, <1>2, <2>1, <3>1
    <3>3. QED
      BY <3>2
  <2>2. CASE e = Len(es) + 1
    <3>1. Len(us) + 1 \in 1..Len(vs) /\ vs[Len(us) + 1] = fs[e].id
      BY <1>1, <1>2, <2>2
    <3>2. QED
      BY <3>1
  <2>3. QED
    BY <1>3, <2>1, <2>2
<1>10. ASSUME NEW a \in 1..Len(fs), NEW b \in 1..Len(fs), NEW u \in 1..Len(vs), NEW w \in 1..Len(vs),
              a < b, vs[u] = fs[a].id, vs[w] = fs[b].id
       PROVE  u < w
  <2>1. a \in 1..Len(es) /\ fs[a] = es[a]
    BY <1>1, <1>10
  <2>2. u \in 1..Len(us) /\ us[u] = es[a].id
    <3>1. PICK y \in 1..Len(us) : us[y] = es[a].id
      BY <1>8, <2>1
    <3>2. y \in 1..Len(vs) /\ vs[y] = vs[u]
      BY <1>2, <1>10, <2>1, <3>1
    <3>3. QED
      BY <1>6, <3>1, <3>2
  <2>3. CASE b \in 1..Len(es)
    <3>1. PICK y \in 1..Len(us) : us[y] = es[b].id
      BY <1>8, <2>3
    <3>2. y \in 1..Len(vs) /\ vs[y] = vs[w]
      BY <1>1, <1>2, <1>10, <2>3, <3>1
    <3>3. y = w
      BY <1>6, <3>2
    <3>4. QED
      BY <1>10, <2>1, <2>2, <2>3, <3>1, <3>3, Zenon DEF Recent
  <2>4. CASE b = Len(es) + 1
    <3>1. vs[w] = vs[Len(us) + 1] /\ Len(us) + 1 \in 1..Len(vs)
      BY <1>1, <1>2, <1>10, <2>4
    <3>2. w = Len(us) + 1
      BY <1>6, <3>1
    <3>3. QED
      BY <1>1, <2>2, <3>2
  <2>5. QED
    BY <1>3, <2>3, <2>4
<1>11. ASSUME NEW u \in 1..Len(vs)
       PROVE  \/ \E e \in 1..Len(fs) : fs[e].id = vs[u]
              \/ t - ts[vs[u]].created > TTL
              \/ Len(vs) - u >= MaxEntries
  <2>1. CASE u = Len(us) + 1
    <3>1. Len(es) + 1 \in 1..Len(fs) /\ fs[Len(es) + 1].id = vs[u]
      BY <1>1, <1>2, <2>1
    <3>2. QED
      BY <3>1
  <2>2. CASE u \in 1..Len(us)
    <3>1. \/ \E e \in 1..Len(es) : es[e].id = us[u]
          \/ t - ts[us[u]].created > TTL
          \/ Len(us) - u >= MaxEntries
      BY <2>2, Zenon DEF Recent
    <3>2. vs[u] = us[u]
      BY <1>2, <2>2
    <3>3. ASSUME NEW e \in 1..Len(es), es[e].id = us[u] PROVE \E z \in 1..Len(fs) : fs[z].id = vs[u]
      <4>1. e \in 1..Len(fs) /\ fs[e].id = vs[u]
        BY <1>1, <3>2, <3>3
      <4>2. QED
        BY <4>1
    <3>4. Len(us) - u >= MaxEntries => Len(vs) - u >= MaxEntries
      BY <1>1, <1>2, <2>2, PagesAssumption
    <3>5. QED
      BY <3>1, <3>2, <3>3, <3>4
  <2>3. QED
    BY <1>4, <2>1, <2>2
<1>12. Recent(fs, vs, ts, t)
  BY <1>6, <1>7, <1>9, <1>10, <1>11, Zenon DEF Recent
<1>13. QED
  BY <1>12 DEF fs, vs

\* Using an entry again moves it to the end of both orders.
LEMMA RecentTouched ==
  ASSUME NEW es \in Seq(Entry), NEW us \in Seq(Nat), NEW ts, NEW t, Recent(es, us, ts, t),
         NEW id \in Nat, NEW e \in 1..Len(es), es[e].id = id
  PROVE  Recent(Touched(es, id), UsedLast(us, id), ts, t)
<1> DEFINE N == Len(us)
           vs == UsedLast(us, id)
           fs == Touched(es, id)
           rest == {k \in 1..Len(es) : es[k].id # id}
           sel == Selected(es, rest)
           m == CHOOSE k \in 1..Len(es) : es[k].id = id
<1>1. PICK at \in 1..N : us[at] = id
  BY Zenon DEF Recent
<1>2. /\ \A u, w \in 1..N : us[u] = us[w] => u = w
      /\ \A u \in 1..N : us[u] \in 1..Len(ts)
      /\ \A k \in 1..Len(es) : \E u \in 1..N : us[u] = es[k].id
  BY Zenon DEF Recent
<1>3. /\ Len(vs) = N
      /\ \A u \in 1..N : vs[u] = IF u < at THEN us[u] ELSE IF u < N THEN us[u + 1] ELSE id
  <2>1. \A u, w \in 1..Len(us) : us[u] = us[w] => u = w
    BY <1>2
  <2>2. at \in 1..Len(us) /\ us[at] = id
    BY <1>1
  <2> HIDE DEF vs, N
  <2>3. /\ Len(UsedLast(us, id)) = Len(us)
        /\ \A u \in 1..Len(us) :
             UsedLast(us, id)[u] = IF u < at THEN us[u] ELSE IF u < Len(us) THEN us[u + 1] ELSE id
    BY <2>1, <2>2, UsedLastFacts
  <2>4. QED
    BY <2>3 DEF vs, N
<1> DEFINE Old(u) == IF u < at THEN u ELSE IF u < N THEN u + 1 ELSE at
<1>4. N \in Nat /\ \A u \in 1..N : Old(u) \in 1..N
  OBVIOUS
<1>5. \A u \in 1..N : vs[u] = us[Old(u)]
  BY <1>1, <1>3, <1>4
<1>6. /\ \A u, w \in 1..N : Old(u) = Old(w) => u = w
      /\ \A u, w \in 1..N : u < w /\ w < N => Old(u) < Old(w)
      /\ \A u \in 1..N : u < N => Old(u) # at /\ Old(u) >= u
      /\ Old(N) = at
  <2>0. N \in Nat /\ at \in 1..N
    BY <1>4
  <2> HIDE DEF N
  <2>1. ASSUME NEW u \in 1..N, NEW w \in 1..N, Old(u) = Old(w) PROVE u = w
    <3>1. CASE u < at
      BY <2>0, <2>1, <3>1
    <3>2. CASE u >= at
      BY <2>0, <2>1, <3>2
    <3>3. QED
      BY <2>0, <3>1, <3>2
  <2>2. \A u, w \in 1..N : u < w /\ w < N => Old(u) < Old(w)
    BY <2>0
  <2>3. (\A u \in 1..N : u < N => Old(u) # at /\ Old(u) >= u) /\ Old(N) = at
    BY <2>0
  <2>4. QED
    BY <2>1, <2>2, <2>3, Zenon
<1>7. \A x \in 1..N : \E u \in 1..N : Old(u) = x
  <2> SUFFICES ASSUME NEW x \in 1..N PROVE \E u \in 1..N : Old(u) = x
    OBVIOUS
  <2>1. CASE x < at
    <3>1. x \in 1..N /\ Old(x) = x
      BY <2>1
    <3>2. QED
      BY <3>1
  <2>2. CASE x > at
    <3>1. x - 1 \in 1..N /\ Old(x - 1) = x
      BY <1>4, <2>2
    <3>2. QED
      BY <3>1
  <2>3. CASE x = at
    <3>1. N \in 1..N /\ Old(N) = x
      BY <1>4, <1>6, <2>3
    <3>2. QED
      BY <3>1
  <2>4. QED
    BY <1>4, <2>1, <2>2, <2>3
<1> HIDE DEF Old
<1>8. PICK p : Positions(p, es, rest)
  BY SelectedFacts, Zenon
<1>9. /\ p \in [1..Len(sel) -> 1..Len(es)]
      /\ \A i \in 1..Len(sel) : p[i] \in rest /\ sel[i] = es[p[i]]
      /\ \A i, j \in 1..Len(sel) : i < j => p[i] < p[j]
      /\ \A k \in 1..Len(es) : k \in rest => \E i \in 1..Len(sel) : p[i] = k
  BY <1>8, Zenon DEF Positions
<1>10. m \in 1..Len(es) /\ es[m].id = id
  OBVIOUS
<1>11. fs = Append(sel, es[m])
  BY DEF Touched
<1>12. sel \in Seq(Entry)
  <2> HIDE DEF rest
  <2>1. QED
    BY SelectedFacts, Zenon
<1> HIDE DEF m, sel
<1>13. /\ Len(sel) \in Nat /\ Len(fs) = Len(sel) + 1 /\ fs[Len(sel) + 1].id = id
       /\ \A i \in 1..Len(sel) : fs[i] = sel[i]
  BY <1>10, <1>11, <1>12
<1>14. \A i \in 1..Len(sel) : p[i] \in 1..Len(es) /\ fs[i].id = es[p[i]].id /\ es[p[i]].id # id
  BY <1>9, <1>13
<1> HIDE DEF fs, vs, rest, N
<1>15. \A i \in 1..Len(fs) : i \in 1..Len(sel) \/ i = Len(sel) + 1
  BY <1>13
<1>16. vs[N] = id /\ N \in 1..N /\ \A u \in 1..N : vs[u] = id => u = N
  <2>1. N \in 1..N
    BY <1>1, <1>4
  <2>2. vs[N] = id
    BY <1>1, <1>5, <1>6, <2>1
  <2>3. ASSUME NEW u \in 1..N, vs[u] = id PROVE u = N
    <3>1. us[Old(u)] = us[at] /\ Old(u) \in 1..N
      BY <1>1, <1>4, <1>5, <2>3
    <3>2. Old(u) = at
      BY <1>2, <3>1
    <3>3. ~(u < N)
      BY <1>6, <3>2
    <3>4. QED
      BY <1>4, <3>3
  <2>4. QED
    BY <2>1, <2>2, <2>3
<1>17. \A u, w \in 1..Len(vs) : vs[u] = vs[w] => u = w
  <2> SUFFICES ASSUME NEW u \in 1..N, NEW w \in 1..N, vs[u] = vs[w] PROVE u = w
    BY <1>3
  <2>1. us[Old(u)] = us[Old(w)] /\ Old(u) \in 1..N /\ Old(w) \in 1..N
    BY <1>4, <1>5
  <2>2. Old(u) = Old(w)
    BY <1>2, <2>1
  <2>3. QED
    BY <1>6, <2>2
<1>18. \A u \in 1..Len(vs) : vs[u] \in 1..Len(ts)
  BY <1>2, <1>3, <1>4, <1>5
<1>19. \A k \in 1..Len(es) : \E u \in 1..N : vs[u] = es[k].id
  <2> SUFFICES ASSUME NEW k \in 1..Len(es) PROVE \E u \in 1..N : vs[u] = es[k].id
    OBVIOUS
  <2>1. PICK x \in 1..N : us[x] = es[k].id
    BY <1>2
  <2>2. PICK u \in 1..N : Old(u) = x
    BY <1>7
  <2>3. vs[u] = es[k].id
    BY <1>5, <2>1, <2>2
  <2>4. QED
    BY <2>3
<1>20. ASSUME NEW i \in 1..Len(fs) PROVE \E u \in 1..Len(vs) : vs[u] = fs[i].id
  <2>1. CASE i \in 1..Len(sel)
    <3>1. PICK u \in 1..N : vs[u] = es[p[i]].id
      BY <1>14, <1>19, <2>1
    <3>2. QED
      BY <1>3, <1>14, <2>1, <3>1
  <2>2. CASE i = Len(sel) + 1
    BY <1>3, <1>13, <1>16, <2>2
  <2>3. QED
    BY <1>15, <2>1, <2>2
<1>21. ASSUME NEW a \in 1..Len(fs), NEW b \in 1..Len(fs), NEW u \in 1..Len(vs), NEW w \in 1..Len(vs),
              a < b, vs[u] = fs[a].id, vs[w] = fs[b].id
       PROVE  u < w
  <2>1. a \in 1..Len(sel) /\ u \in 1..N /\ w \in 1..N
    BY <1>3, <1>13, <1>21
  <2>2. u # N /\ u < N
    <3>1. vs[u] # id
      BY <1>14, <1>21, <2>1
    <3>2. u # N
      BY <1>16, <3>1
    <3>3. QED
      BY <1>4, <2>1, <3>2
  <2>3. CASE b = Len(sel) + 1
    <3>1. w = N
      <4>1. vs[w] = id
        BY <1>13, <1>21, <2>3
      <4>2. QED
        BY <1>16, <2>1, <4>1
    <3>2. QED
      BY <2>2, <3>1
  <2>4. CASE b \in 1..Len(sel)
    <3>1. w # N
      BY <1>14, <1>16, <1>21, <2>1, <2>4
    <3>2. p[a] < p[b] /\ p[a] \in 1..Len(es) /\ p[b] \in 1..Len(es)
      BY <1>9, <1>21, <2>1, <2>4
    <3>3. us[Old(u)] = es[p[a]].id /\ us[Old(w)] = es[p[b]].id
      BY <1>5, <1>14, <1>21, <2>1, <2>4
    <3>4. Old(u) \in 1..N /\ Old(w) \in 1..N
      BY <1>4, <2>1
    <3>5. Old(u) < Old(w)
      BY <3>2, <3>3, <3>4, Zenon DEF Recent, N
    <3>6. ~(w < u)
      <4>1. ASSUME w < u PROVE FALSE
        <5>1. Old(w) < Old(u)
          BY <1>6, <2>1, <2>2, <4>1
        <5>2. QED
          BY <1>4, <3>4, <3>5, <5>1
      <4>2. QED
        BY <4>1
    <3>7. u # w
      BY <1>4, <3>4, <3>5
    <3>8. QED
      BY <1>4, <2>1, <3>6, <3>7
  <2>5. QED
    BY <1>15, <2>3, <2>4
<1>22. ASSUME NEW u \in 1..Len(vs)
       PROVE  \/ \E i \in 1..Len(fs) : fs[i].id = vs[u]
              \/ t - ts[vs[u]].created > TTL
              \/ Len(vs) - u >= MaxEntries
  <2>1. CASE u = N
    <3>1. Len(sel) + 1 \in 1..Len(fs) /\ fs[Len(sel) + 1].id = vs[u]
      BY <1>13, <1>16, <2>1
    <3>2. QED
      BY <3>1
  <2>2. CASE u < N
    <3>1. Old(u) \in 1..N /\ Old(u) # at /\ Old(u) >= u /\ vs[u] = us[Old(u)]
      BY <1>3, <1>4, <1>5, <1>6, <2>2
    <3>2. \/ \E k \in 1..Len(es) : es[k].id = us[Old(u)]
          \/ t - ts[us[Old(u)]].created > TTL
          \/ N - Old(u) >= MaxEntries
      BY <3>1, Zenon DEF Recent, N
    <3>3. ASSUME NEW k \in 1..Len(es), es[k].id = us[Old(u)]
          PROVE  \E i \in 1..Len(fs) : fs[i].id = vs[u]
      <4>1. es[k].id # id
        BY <1>1, <1>2, <3>1, <3>3
      <4>2. k \in rest
        BY <4>1 DEF rest
      <4>3. PICK i \in 1..Len(sel) : p[i] = k
        BY <1>9, <4>2
      <4>4. i \in 1..Len(fs) /\ fs[i].id = vs[u]
        BY <1>13, <1>14, <3>1, <3>3, <4>3
      <4>5. QED
        BY <4>4
    <3>4. N - Old(u) >= MaxEntries => Len(vs) - u >= MaxEntries
      BY <1>3, <1>4, <3>1, PagesAssumption
    <3>5. QED
      BY <3>1, <3>2, <3>3, <3>4
  <2>3. QED
    BY <1>3, <1>4, <2>1, <2>2
<1>23. Recent(fs, vs, ts, t)
  BY <1>17, <1>18, <1>20, <1>21, <1>22, Zenon DEF Recent
<1>24. QED
  BY <1>23 DEF fs, vs

-----------------------------------------------------------------------------
(***************************************************************************)
(* What a call means, and what a miss says.                                *)
(***************************************************************************)

\* The three kinds of calls.
Says(follows, meant, tool, via, args, r) ==
  \/ follows = TRUE /\ meant = r.id
  \/ /\ follows = FALSE
     /\ \/ \E s \in Strays : meant \in Nat /\ args = StrayArgs(meant, s)
        \/ \E f \in Fresh : meant = None /\ tool = f.tool /\ via = f.via /\ args = FreshArgs(f)

\* A call that enters says what its client means.
LEMMA ReceivedMeans ==
  ASSUME PagesInv, MeantInv, NEW c \in Clients, NEW tool, NEW name, NEW via, NEW args,
         NEW meant, NEW follows, Receive(c, tool, name, via, args, meant, follows),
         NEW r, reader'[c] = r, \A d \in Clients : d # c => reader'[d] = reader[d],
         Says(follows, meant, tool, via, args, r)
  PROVE  MeantInv'
<1> DEFINE k == [tool |-> tool, name |-> name, args |-> args, via |-> via, at |-> "schema",
                 eff |-> limits[c], limit |-> None, meant |-> meant, follows |-> follows]
<1>1. calls' = [calls EXCEPT ![c] = k]
  BY DEF Receive
<1>2. k.follows = follows /\ k.meant = meant /\ k.tool = tool /\ k.via = via /\ k.args = args
  BY Zenon
<1> HIDE DEF k
<1>3. Means(k, r)
  <2>1. CASE follows = TRUE /\ meant = r.id
    <3>1. k.follows = TRUE /\ k.meant = r.id
      BY <1>2, <2>1, Zenon
    <3>2. QED
      BY <3>1, Zenon DEF Means
  <2>2. CASE /\ follows = FALSE
             /\ \/ \E s \in Strays : meant \in Nat /\ args = StrayArgs(meant, s)
                \/ \E f \in Fresh : meant = None /\ tool = f.tool /\ via = f.via /\ args = FreshArgs(f)
    <3>1. k.follows = FALSE
      BY <1>2, <2>2, Zenon
    <3>2. QED
      BY <1>2, <2>2, <3>1, Zenon DEF Means
  <2>3. QED
    BY <2>1, <2>2, Zenon DEF Says
<1>4. calls \in [Clients -> Call \cup {NoCall}]
  BY ClientTypes
<1>5. calls'[c] = k /\ \A d \in Clients : d # c => calls'[d] = calls[d]
  BY <1>1, <1>4
<1>6. ASSUME NEW d \in Clients, calls'[d] # NoCall PROVE Means(calls'[d], reader'[d])
  <2>1. CASE d = c
    BY <1>3, <1>5, <2>1
  <2>2. CASE d # c
    BY <1>5, <1>6, <2>2 DEF MeantInv
  <2>3. QED
    BY <2>1, <2>2
<1>7. QED
  BY <1>6, Zenon DEF MeantInv

\* A call that ends leaves the other calls as they are.
LEMMA EndedMeans ==
  ASSUME PagesInv, MeantInv, NEW c \in Clients, End(c),
         NEW q, reader' = [reader EXCEPT ![c] = q]
  PROVE  MeantInv'
<1>1. calls \in [Clients -> Call \cup {NoCall}] /\ reader \in [Clients -> Reader]
  BY ClientTypes
<1>2. /\ calls'[c] = NoCall
      /\ \A d \in Clients : d # c => calls'[d] = calls[d] /\ reader'[d] = reader[d]
  BY <1>1 DEF End
<1>3. ASSUME NEW d \in Clients, calls'[d] # NoCall PROVE Means(calls'[d], reader'[d])
  BY <1>2, <1>3 DEF MeantInv
<1>4. QED
  BY <1>3, Zenon DEF MeantInv

\* Every step keeps what calls mean.
LEMMA MeantStep == PagesInv /\ MeantInv /\ [Next]_vars => MeantInv'
<1> SUFFICES ASSUME PagesInv, MeantInv, [Next]_vars PROVE MeantInv'
  OBVIOUS
<1>r. reader \in [Clients -> Reader] /\ calls \in [Clients -> Call \cup {NoCall}]
  BY DEF PagesInv, TypeOK
<1>1. CASE UNCHANGED vars \/ Tick
  <2>1. calls' = calls /\ reader' = reader
    BY <1>1 DEF vars, Tick
  <2>2. QED
    BY <2>1 DEF MeantInv
<1>2. ASSUME NEW c \in Clients, EditLimits(c) PROVE MeantInv'
  <2>1. calls' = calls /\ reader' = reader
    BY <1>2 DEF EditLimits
  <2>2. QED
    BY <2>1 DEF MeantInv
<1>3. ASSUME NEW c \in Clients, AskFresh(c) PROVE MeantInv'
  <2>1. PICK f \in Fresh : Receive(c, f.tool, f.name, f.via, FreshArgs(f), None, FALSE)
    BY <1>3 DEF AskFresh
  <2>2. reader'[c] = NoReader /\ \A d \in Clients : d # c => reader'[d] = reader[d]
    BY <1>3, <1>r DEF AskFresh
  <2>3. Says(FALSE, None, f.tool, f.via, FreshArgs(f), NoReader)
    BY Zenon DEF Says
  <2>4. QED
    BY <2>1, <2>2, <2>3, ReceivedMeans
<1>4. ASSUME NEW c \in Clients, AskStray(c) PROVE MeantInv'
  <2>1. PICK id \in 1..Len(texts), s \in Strays :
          Receive(c, s.tool, s.name, "callTool", StrayArgs(id, s), id, FALSE)
    BY <1>4 DEF AskStray
  <2>2. reader'[c] = NoReader /\ \A d \in Clients : d # c => reader'[d] = reader[d]
    BY <1>4, <1>r DEF AskStray
  <2>3. id \in Nat
    BY SharedTypes
  <2>4. Says(FALSE, id, s.tool, "callTool", StrayArgs(id, s), NoReader)
    BY <2>3, Zenon DEF Says
  <2>5. QED
    BY <2>1, <2>2, <2>4, ReceivedMeans
<1>5. ASSUME NEW c \in Clients, Follow(c) PROVE MeantInv'
  <2>1. PICK s \in Shapes :
          Receive(c, texts[reader[c].id].tool, s.name, s.via, HintArgs(reader[c], s), reader[c].id, TRUE)
    BY <1>5 DEF Follow
  <2>2. reader' = reader
    BY <1>5 DEF Follow
  <2>3. reader'[c] = reader[c] /\ \A d \in Clients : d # c => reader'[d] = reader[d]
    BY <2>2
  <2>4. Says(TRUE, reader[c].id, texts[reader[c].id].tool, s.via, HintArgs(reader[c], s), reader[c])
    BY Zenon DEF Says
  <2>5. QED
    BY <2>1, <2>3, <2>4, ReceivedMeans
<1>6. ASSUME NEW c \in Clients, Fail(c) PROVE MeantInv'
  <2>1. End(c) /\ \E q : reader' = [reader EXCEPT ![c] = q]
    BY <1>6, Zenon DEF Fail
  <2>2. QED
    BY <2>1, EndedMeans, Zenon
<1>7. ASSUME NEW c \in Clients, Respond(c) PROVE MeantInv'
  <2>1. End(c) /\ \E q : reader' = [reader EXCEPT ![c] = q]
    BY <1>7, Zenon DEF Respond
  <2>2. QED
    BY <2>1, EndedMeans, Zenon
<1>8. ASSUME NEW c \in Clients, Parse(c) PROVE MeantInv'
  <2>1. PICK declared \in Declared(calls[c]) :
          Forward(c, declared) \/ Miss(c, declared) \/ ServePage(c, declared)
    BY <1>8 DEF Parse
  <2>2. CASE Miss(c, declared)
    <3>1. End(c) /\ \E q : reader' = [reader EXCEPT ![c] = q]
      BY <2>2, Zenon DEF Miss
    <3>2. QED
      BY <3>1, EndedMeans, Zenon
  <2>3. CASE ServePage(c, declared)
    <3>1. End(c) /\ \E q : reader' = [reader EXCEPT ![c] = q]
      BY <2>3, Zenon DEF ServePage
    <3>2. QED
      BY <3>1, EndedMeans, Zenon
  <2>4. CASE Forward(c, declared)
    <3> DEFINE lim == Carried(Args(calls[c], declared), "responseLimit", declared)
               k == [calls[c] EXCEPT !.at = "upstream", !.limit = lim]
    <3>1. calls' = [calls EXCEPT ![c] = k] /\ reader' = reader
      BY <2>4 DEF Forward
    <3>2. calls[c] # NoCall /\ calls[c] \in Call /\ Means(calls[c], reader[c])
      BY <1>8, <1>r DEF Parse, MeantInv
    <3> HIDE DEF lim
    <3>3. /\ k.follows = calls[c].follows /\ k.meant = calls[c].meant /\ k.tool = calls[c].tool
          /\ k.via = calls[c].via /\ k.args = calls[c].args
      BY <3>2 DEF Call
    <3> HIDE DEF k
    <3>4. Means(k, reader[c])
      BY <3>2, <3>3, Zenon DEF Means
    <3>5. calls'[c] = k /\ \A d \in Clients : d # c => calls'[d] = calls[d]
      BY <1>r, <3>1
    <3>6. ASSUME NEW d \in Clients, calls'[d] # NoCall PROVE Means(calls'[d], reader'[d])
      <4>1. CASE d = c
        BY <3>1, <3>4, <3>5, <4>1
      <4>2. CASE d # c
        BY <3>1, <3>5, <3>6, <4>2 DEF MeantInv
      <4>3. QED
        BY <4>1, <4>2
    <3>7. QED
      BY <3>6, Zenon DEF MeantInv
  <2>5. QED
    BY <2>1, <2>2, <2>3, <2>4
<1>9. QED
  BY <1>1, <1>2, <1>3, <1>4, <1>5, <1>6, <1>7, <1>8 DEF Next

\* What a purge takes has expired.
LEMMA PurgedUse ==
  ASSUME PagesInv, UseInv
  PROVE  Recent(Purged(entries), used, texts, now)
<1> DEFINE at == {e \in 1..Len(entries) : Unexpired(entries[e])}
<1>1. Purged(entries) = Selected(entries, at)
  BY Zenon DEF Purged
<1>2. entries \in Seq(Entry) /\ now \in Nat /\ TTL \in Nat
  BY SharedTypes, PagesAssumption
<1>3. ASSUME NEW k \in 1..Len(entries), k \notin at
      PROVE  now - texts[entries[k].id].created > TTL
  <2>1. ~Unexpired(entries[k])
    BY <1>3
  <2>2. entries[k].created = texts[entries[k].id].created /\ entries[k].created \in Nat
    BY SharedTypes DEF PagesInv, EntryInv, Matches
  <2>3. QED
    BY <1>2, <2>1, <2>2 DEF Unexpired
<1> HIDE DEF at
<1>4. Recent(Selected(entries, at), used, texts, now)
  BY <1>2, <1>3, RecentPurged DEF UseInv
<1>5. QED
  BY <1>1, <1>4

\* A response put into the cache.
LEMMA PutUse ==
  ASSUME PagesInv, UseInv, NEW x \in Entry, x.id \in Nat, x.id \notin 1..Len(texts),
         NEW ts, Extends(ts, texts), x.id \in 1..Len(ts)
  PROVE  Recent(Put(x), Append(used, x.id), ts, now)
<1> DEFINE kept == Purged(entries)
           all == Append(kept, x)
           low == Most(0, Len(all) - MaxEntries)
           us == Append(used, x.id)
<1>1. /\ kept \in Seq(Entry) /\ used \in Seq(Nat) /\ now \in Nat /\ texts \in Seq(Response)
  BY SharedTypes, PurgedEntries, Zenon
<1>2. Recent(kept, used, texts, now)
  BY PurgedUse
<1>3. Put(x) = SubSeq(all, low + 1, Len(all))
  BY DEF Put
<1> HIDE DEF kept
<1>4. Recent(kept, used, ts, now)
  <2>1. now <= now
    BY <1>1
  <2>2. QED
    BY <1>1, <1>2, <2>1, RecentLater
<1>5. \A u \in 1..Len(used) : used[u] # x.id
  <2>1. \A u \in 1..Len(used) : used[u] \in 1..Len(texts)
    BY <1>2, Zenon DEF Recent
  <2>2. QED
    BY <2>1
<1>6. Recent(all, us, ts, now)
  BY <1>1, <1>4, <1>5, RecentAppended
<1>7. all \in Seq(Entry) /\ us \in Seq(Nat) /\ Len(all) \in Nat
  BY <1>1
<1> HIDE DEF all, us
<1>8. /\ low \in Nat /\ low <= Len(all)
      /\ low = 0 \/ Len(all) - low >= MaxEntries
  BY <1>7, PagesAssumption DEF Most
<1> HIDE DEF low
<1>9. Recent(SubSeq(all, low + 1, Len(all)), us, ts, now)
  BY <1>6, <1>7, <1>8, RecentDropped
<1>10. QED
  BY <1>3, <1>9 DEF us

LEMMA RespondUse ==
  ASSUME PagesInv, UseInv, NEW c \in Clients, Respond(c)
  PROVE  UseInv'
<1> DEFINE v == Len(texts) + 1
           e == [id |-> v, owner |-> c, tool |-> calls[c].tool, name |-> calls[c].name,
                 created |-> now]
<1>1. PICK T : /\ texts' = Append(texts, T)
               /\ \/ entries' = Put(e) /\ used' = Append(used, v)
                  \/ entries' = entries /\ used' = used
  BY Zenon DEF Respond
<1>2. /\ calls[c] # NoCall /\ now' = now
  BY DEF Respond
<1>3. texts \in Seq(Response) /\ now \in Nat
  BY SharedTypes
<1>4. v \in Nat /\ v \notin 1..Len(texts)
  BY <1>3
<1>5. Extends(texts', texts) /\ v \in 1..Len(texts')
  <2>1. /\ Len(texts') = Len(texts) + 1 /\ Len(texts) \in Nat
        /\ \A u \in 1..Len(texts) : texts'[u] = texts[u]
    BY <1>1, <1>3
  <2>2. QED
    BY <2>1 DEF Extends
<1> HIDE DEF v
<1>6. e \in Entry /\ e.id = v
  <2>1. calls[c].tool \in Tools /\ calls[c].name \in Spellings
    BY <1>2, ClientTypes DEF Call
  <2>2. QED
    BY <1>3, <1>4, <2>1 DEF Entry
<1> HIDE DEF e
<1>7. CASE entries' = Put(e) /\ used' = Append(used, v)
  <2>1. Recent(Put(e), Append(used, e.id), texts', now)
    BY <1>4, <1>5, <1>6, PutUse
  <2>2. QED
    BY <1>2, <1>6, <1>7, <2>1 DEF UseInv
<1>8. CASE entries' = entries /\ used' = used
  <2>1. now <= now
    BY <1>3
  <2>2. Recent(entries, used, texts', now)
    BY <1>3, <1>5, <2>1, RecentLater DEF UseInv
  <2>3. QED
    BY <1>2, <1>8, <2>2 DEF UseInv
<1>9. QED
  BY <1>1, <1>7, <1>8

\* Every step keeps the order of use.
LEMMA UseStep == PagesInv /\ UseInv /\ [Next]_vars => UseInv'
<1> SUFFICES ASSUME PagesInv, UseInv, [Next]_vars PROVE UseInv'
  OBVIOUS
<1>1. CASE Tick
  <2>1. now' = now + 1 /\ entries' = entries /\ used' = used /\ texts' = texts
    BY <1>1 DEF Tick
  <2>2. now \in Nat /\ texts \in Seq(Response)
    BY SharedTypes
  <2>3. Extends(texts, texts) /\ now + 1 \in Nat /\ now <= now + 1
    BY <2>2 DEF Extends
  <2>4. Recent(entries, used, texts, now + 1)
    BY <2>2, <2>3, RecentLater DEF UseInv
  <2>5. QED
    BY <2>1, <2>4 DEF UseInv
<1>2. ASSUME entries' = entries, used' = used, texts' = texts, now' = now PROVE UseInv'
  BY <1>2 DEF UseInv
<1>3. ASSUME NEW c \in Clients, AskFresh(c) \/ AskStray(c) \/ Follow(c) PROVE UseInv'
  BY <1>2, <1>3 DEF AskFresh, AskStray, Follow, Receive
<1>4. ASSUME NEW c \in Clients, EditLimits(c) \/ Fail(c) PROVE UseInv'
  BY <1>2, <1>4 DEF EditLimits, Fail
<1>5. ASSUME NEW c \in Clients, Parse(c) PROVE UseInv'
  <2>1. PICK declared \in Declared(calls[c]) :
          Forward(c, declared) \/ Miss(c, declared) \/ ServePage(c, declared)
    BY <1>5 DEF Parse
  <2>2. calls[c] # NoCall /\ texts' = texts /\ now' = now
    BY <1>5 DEF Parse
  <2>3. CASE Forward(c, declared)
    BY <1>2, <2>2, <2>3 DEF Forward
  <2>4. CASE Miss(c, declared)
    <3>1. entries' = Purged(entries) /\ used' = used
      BY <2>4 DEF Miss
    <3>2. QED
      BY <2>2, <3>1, PurgedUse DEF UseInv
  <2>5. CASE ServePage(c, declared)
    <3> DEFINE id == Carried(Args(calls[c], declared), "responseCacheId", declared)
    <3>1. /\ id # None /\ Found(id, c)
          /\ entries' = Touched(Purged(entries), id) /\ used' = UsedLast(used, id)
      BY <2>5, Zenon DEF ServePage
    <3>2. id \in Nat
      BY <2>2, <3>1, FieldTypes DEF ArgKeys
    <3> HIDE DEF id
    <3>3. PICK e \in 1..Len(Purged(entries)) : Purged(entries)[e].id = id
      BY <3>1, <3>2, FoundIsOwn
    <3>4. Purged(entries) \in Seq(Entry) /\ used \in Seq(Nat)
      BY SharedTypes, PurgedEntries
    <3>5. Recent(Purged(entries), used, texts, now)
      BY PurgedUse
    <3>6. Recent(Touched(Purged(entries), id), UsedLast(used, id), texts, now)
      BY <3>2, <3>3, <3>4, <3>5, RecentTouched
    <3>7. QED
      BY <2>2, <3>1, <3>6 DEF UseInv
  <2>6. QED
    BY <2>1, <2>3, <2>4, <2>5
<1>6. CASE UNCHANGED vars
  BY <1>2, <1>6 DEF vars
<1>7. QED
  BY <1>1, <1>3, <1>4, <1>5, <1>6, RespondUse DEF Next

\* The cache answers a lookup if the entry is there, is the caller's and has not expired.
LEMMA FoundIfKept ==
  ASSUME PagesInv, NEW c \in Clients, NEW id \in Nat,
         NEW e \in 1..Len(entries), entries[e].id = id,
         texts[id].owner = c, ~(now - texts[id].created > TTL)
  PROVE  Found(id, c)
<1> DEFINE at == {k \in 1..Len(entries) : Unexpired(entries[k])}
<1>1. Purged(entries) = Selected(entries, at)
  BY Zenon DEF Purged
<1>2. entries \in Seq(Entry) /\ now \in Nat /\ TTL \in Nat
  BY SharedTypes, PagesAssumption
<1>3. /\ entries[e].owner = c /\ entries[e].created = texts[id].created
      /\ entries[e].created \in Nat
  BY SharedTypes DEF PagesInv, EntryInv, Matches
<1>4. e \in at
  BY <1>2, <1>3 DEF Unexpired
<1> HIDE DEF at
<1>5. PICK p : Positions(p, entries, at)
  BY <1>2, SelectedFacts, Zenon
<1>6. PICK i \in 1..Len(Purged(entries)) : p[i] = e
  BY <1>1, <1>4, <1>5, Zenon DEF Positions
<1>7. Purged(entries)[i] = entries[e]
  BY <1>1, <1>5, <1>6, Zenon DEF Positions
<1>8. QED
  BY <1>3, <1>6, <1>7, Zenon DEF Found

LEMMA FreshArgsByPlace ==
  ASSUME NEW f
  PROVE  /\ FreshArgs(f)["top_ns"]["responseCacheId"] = None
         /\ FreshArgs(f)["top_bare"]["responseCacheId"] = None
         /\ FreshArgs(f)["arg_ns"]["responseCacheId"] = None
         /\ FreshArgs(f)["arg_bare"]["responseCacheId"] =
              IF "responseCacheId" \in OwnParams[f.tool] THEN 0 ELSE None
<1> DEFINE own == [x \in ArgKeys |-> IF x \in OwnParams[f.tool] THEN 0 ELSE None]
           lim == [NoFields EXCEPT !["responseLimit"] = f.limit]
<1>1. own["responseCacheId"] = IF "responseCacheId" \in OwnParams[f.tool] THEN 0 ELSE None
  BY DEF ArgKeys
<1>2. lim["responseCacheId"] = None /\ NoFields["responseCacheId"] = None
  BY DEF NoFields, ArgKeys
<1>3. FreshArgs(f) = [NoArgs EXCEPT !["arg_ns"] = lim, !["arg_bare"] = own]
  BY Zenon DEF FreshArgs
<1> HIDE DEF own, lim
<1>4. /\ FreshArgs(f)["top_ns"] = NoFields /\ FreshArgs(f)["top_bare"] = NoFields
      /\ FreshArgs(f)["arg_ns"] = lim /\ FreshArgs(f)["arg_bare"] = own
  BY <1>3, PlaceNames DEF NoArgs
<1>5. QED
  BY <1>1, <1>2, <1>4

\* The id a call carries is the one its client means; a call that means none carries
\* a value of the tool's own only if callTool could not learn that it is the tool's.
LEMMA IdIsMeant ==
  ASSUME PagesInv, MeantInv, NEW c \in Clients, calls[c] # NoCall,
         NEW declared \in Declared(calls[c]),
         Carried(Args(calls[c], declared), "responseCacheId", declared) # None
  PROVE  \/ /\ calls[c].meant = None
            /\ OwnParams[calls[c].tool] # {} /\ calls[c].via = "callTool"
         \/ /\ calls[c].meant \in Nat
            /\ Carried(Args(calls[c], declared), "responseCacheId", declared) = calls[c].meant
<1> DEFINE k == calls[c]
           id == Carried(Args(k, declared), "responseCacheId", declared)
<1>1. k \in Call /\ Means(k, reader[c])
  BY ClientTypes DEF MeantInv
<1>2. "responseCacheId" \in ArgKeys
  BY DEF ArgKeys
<1>3. id = Carried(k.args, "responseCacheId", declared)
  BY <1>2, ArgsReadTheSame
<1>4. ASSUME k.follows PROVE k.meant = id /\ id \in Nat
  <2>1. id = reader[c].id
    BY <1>4, FollowUpIsUnderstood
  <2>2. k.meant = reader[c].id
    BY <1>1, <1>4, Zenon DEF Means
  <2>3. reader[c].id \in Nat
    BY ClientTypes DEF Reader
  <2>4. QED
    BY <2>1, <2>2, <2>3
<1>5. ASSUME NEW s \in Strays, k.meant \in Nat, k.args = StrayArgs(k.meant, s)
      PROVE  id = k.meant
  <2>1. k.args["top_ns"]["responseCacheId"] = k.meant
    BY <1>5, PlaceNames DEF StrayArgs, NoArgs, PageFields
  <2>2. k.meant # None
    BY <1>5, PagesAssumption
  <2> HIDE DEF k
  <2>3. Carried(k.args, "responseCacheId", declared) = k.meant
    BY <2>1, <2>2, CarriedCases
  <2>4. QED
    BY <1>3, <2>3
<1>6. ASSUME NEW f \in Fresh, k.meant = None, k.tool = f.tool, k.via = f.via, k.args = FreshArgs(f)
      PROVE  OwnParams[k.tool] # {} /\ k.via = "callTool"
  <2>1. /\ k.args["top_ns"]["responseCacheId"] = None
        /\ k.args["top_bare"]["responseCacheId"] = None
        /\ k.args["arg_ns"]["responseCacheId"] = None
        /\ k.args["arg_bare"]["responseCacheId"] =
             IF "responseCacheId" \in OwnParams[f.tool] THEN 0 ELSE None
    BY <1>6, FreshArgsByPlace
  <2>2. declared = OwnParams[k.tool] \/ (declared = {} /\ k.via # "shortcut")
    BY DEF Declared
  <2>3. k.via \in Routes
    BY <1>1 DEF Call
  <2>4. id # None
    OBVIOUS
  <2> HIDE DEF k, id
  <2>5. Carried(k.args, "responseCacheId", declared) =
          IF k.args["arg_bare"]["responseCacheId"] # None /\ "responseCacheId" \notin declared
            THEN k.args["arg_bare"]["responseCacheId"] ELSE None
    BY <2>1, CarriedCases
  <2>6. "responseCacheId" \in OwnParams[k.tool] /\ "responseCacheId" \notin declared
    BY <1>3, <1>6, <2>1, <2>4, <2>5
  <2>7. QED
    BY <2>2, <2>3, <2>6 DEF Routes
<1> HIDE DEF k, id
<1>7. QED
  <2>1. CASE k.follows
    <3>1. k.meant = id /\ id \in Nat
      BY <1>4, <2>1
    <3>2. QED
      BY <3>1 DEF k, id
  <2>2. CASE ~k.follows
    <3>1. \/ \E s \in Strays : k.meant \in Nat /\ k.args = StrayArgs(k.meant, s)
          \/ \E f \in Fresh : k.meant = None /\ k.tool = f.tool /\ k.via = f.via /\ k.args = FreshArgs(f)
      BY <1>1, <2>2, Zenon DEF Means
    <3>2. \/ k.meant \in Nat /\ id = k.meant
          \/ k.meant = None /\ OwnParams[k.tool] # {} /\ k.via = "callTool"
      BY <1>5, <1>6, <3>1, Zenon
    <3>3. QED
      BY <3>2 DEF k, id
  <2>3. QED
    BY <2>1, <2>2

\* The upstream's answer is no miss.
LEMMA AnswerNotLost ==
  ASSUME PagesInv, NEW c \in Clients, Respond(c)
  PROVE  \E q : reader' = [reader EXCEPT ![c] = q] /\ q.mode # "lost"
<1> DEFINE v == Len(texts) + 1
           page == PageSize(calls[c].eff)
           limit == IF calls[c].limit = None THEN page ELSE Least(calls[c].limit, page)
<1>1. PICK r \in Responses :
        LET hard == calls[c].eff.hard
            text == JoinTextBlocks(v, r.blocks)
            cut == [NoReader EXCEPT !.mode = "cut", !.id = v]
            whole == [NoReader EXCEPT !.mode = "done", !.id = v, !.text = text]
            Kept(max) == TruncateBlocks(v, r.blocks, max) = TruncateBlocks(v, r.blocks, 0)
            large == page > 0 /\ ~r.mixed /\ Len(text) > page
            max == IF page <= 0 THEN hard
                   ELSE IF r.mixed THEN (IF hard > 0 THEN hard ELSE page)
                   ELSE hard
        IN reader' = [reader EXCEPT ![c] =
             IF large THEN TakePage(NoReader, v, Slice(text, 0, limit), 0, Len(text))
             ELSE IF Kept(max) THEN whole ELSE cut]
  BY Zenon DEF Respond
<1> DEFINE T == JoinTextBlocks(v, r.blocks)
           p == Slice(T, 0, limit)
           cut == [NoReader EXCEPT !.mode = "cut", !.id = v]
           whole == [NoReader EXCEPT !.mode = "done", !.id = v, !.text = T]
<1>2. PICK q : /\ reader' = [reader EXCEPT ![c] = q]
               /\ q = cut \/ q = whole \/ q = TakePage(NoReader, v, p, 0, Len(T))
  BY <1>1, Zenon
<1> HIDE DEF T, p
<1>3. q.mode # "lost"
  <2>1. cut.mode = "cut" /\ whole.mode = "done"
    BY DEF NoReader
  <2>2. TakePage(NoReader, v, p, 0, Len(T)).mode \in {"reading", "done"}
    BY DEF TakePage, NoReader
  <2>3. QED
    BY <1>2, <2>1, <2>2
<1>4. QED
  BY <1>2, <1>3

\* A call is answered with a miss by Miss only.
LEMMA LostByMiss ==
  ASSUME PagesInv, Next, NEW c \in Clients,
         calls[c] # NoCall, calls'[c] = NoCall, reader'[c].mode = "lost"
  PROVE  \E declared \in Declared(calls[c]) : Miss(c, declared)
<1>1. /\ calls \in [Clients -> Call \cup {NoCall}] /\ reader \in [Clients -> Reader]
      /\ calls[c] \in Call
  BY ClientTypes
<1>2. calls' # calls
  OBVIOUS
<1>3. \A d \in Clients : ~EditLimits(d) /\ ~Tick
  BY <1>2 DEF EditLimits, Tick
<1>4. ASSUME NEW d \in Clients, NEW x, calls' = [calls EXCEPT ![d] = x] PROVE d = c
  BY <1>1, <1>4
<1>5. ASSUME NEW d \in Clients, AskFresh(d) \/ Follow(d) \/ AskStray(d) PROVE FALSE
  <2>1. calls[d] = NoCall /\ \E x : calls' = [calls EXCEPT ![d] = x]
    BY <1>5, Zenon DEF AskFresh, Follow, AskStray, Receive
  <2>2. QED
    BY <1>4, <2>1
<1>6. ASSUME NEW d \in Clients, Respond(d) PROVE FALSE
  <2>1. d = c
    BY <1>4, <1>6 DEF Respond, End
  <2>2. PICK q : reader' = [reader EXCEPT ![c] = q] /\ q.mode # "lost"
    BY <1>6, <2>1, AnswerNotLost
  <2>3. QED
    BY <1>1, <2>2
<1>7. ASSUME NEW d \in Clients, Fail(d) PROVE FALSE
  <2>1. d = c
    BY <1>4, <1>7 DEF Fail, End
  <2>2. reader'[c].mode = "failed"
    BY <1>1, <1>7, <2>1 DEF Fail, Reader
  <2>3. QED
    BY <2>2
<1>8. ASSUME NEW d \in Clients, Parse(d) PROVE \E declared \in Declared(calls[c]) : Miss(c, declared)
  <2>1. PICK declared \in Declared(calls[d]) :
          Forward(d, declared) \/ Miss(d, declared) \/ ServePage(d, declared)
    BY <1>8 DEF Parse
  <2>2. d = c
    <3>1. \E x : calls' = [calls EXCEPT ![d] = x]
      BY <2>1, Zenon DEF Forward, Miss, ServePage, End
    <3>2. QED
      BY <1>4, <3>1
  <2>3. CASE Forward(d, declared)
    <3> DEFINE lim == Carried(Args(calls[c], declared), "responseLimit", declared)
    <3>1. calls' = [calls EXCEPT ![c] = [calls[c] EXCEPT !.at = "upstream", !.limit = lim]]
          /\ reader' = reader
      BY <2>2, <2>3 DEF Forward
    <3>2. calls[c].at = "schema" /\ calls[c] \in Call
      BY <1>1, <1>8, <2>2 DEF Parse
    <3>3. reader[c].mode = "lost"
      BY <3>1
    <3>4. Asks(calls[c], reader[c], texts)
      BY ClientTypes
    <3>5. QED
      <4>1. CASE calls[c].follows
        BY <3>3, <3>4, <4>1, Zenon DEF Asks
      <4>2. CASE ~calls[c].follows
        <5>1. reader[c] = NoReader
          BY <3>4, <4>2, Zenon DEF Asks
        <5>2. QED
          BY <3>3, <5>1 DEF NoReader
      <4>3. QED
        BY <4>1, <4>2
  <2>4. CASE Miss(d, declared)
    BY <2>1, <2>2, <2>4
  <2>5. CASE ServePage(d, declared)
    <3>1. PICK q \in Reader : reader' = [reader EXCEPT ![c] = q] /\ q.mode # "lost"
      BY <2>1, <2>2, <2>5, ServedReads
    <3>2. QED
      BY <1>1, <3>1
  <2>6. QED
    BY <2>1, <2>3, <2>4, <2>5
<1>9. QED
  BY <1>3, <1>5, <1>6, <1>7, <1>8 DEF Next

\* What is missed is not there to be served.
LEMMA MissHasReason ==
  ASSUME PagesInv, MeantInv, UseInv, NEW c \in Clients, calls[c] # NoCall,
         NEW declared \in Declared(calls[c]), Miss(c, declared)
  PROVE  LET id == calls[c].meant
         IN IF id = None
              THEN OwnParams[calls[c].tool] # {} /\ calls[c].via = "callTool"
              ELSE \/ ~WasCached(id)
                   \/ texts[id].owner # c
                   \/ now - texts[id].created > TTL
                   \/ UsedSince(id) >= MaxEntries
<1> DEFINE id == calls[c].meant
<1>1. /\ Carried(Args(calls[c], declared), "responseCacheId", declared) # None
      /\ ~Found(Carried(Args(calls[c], declared), "responseCacheId", declared), c)
  BY Zenon DEF Miss
<1>2. CASE id = None
  <2>1. id \notin Nat
    BY <1>2, PagesAssumption
  <2>2. QED
    BY <1>1, <1>2, <2>1, IdIsMeant
<1>3. CASE id # None
  <2>1. id \in Nat /\ ~Found(id, c)
    BY <1>1, <1>3, IdIsMeant
  <2> HIDE DEF id
  <2>2. SUFFICES ASSUME WasCached(id), texts[id].owner = c, ~(now - texts[id].created > TTL)
                 PROVE  UsedSince(id) >= MaxEntries
    BY <1>3 DEF id
  <2> DEFINE u == CHOOSE x \in 1..Len(used) : used[x] = id
  <2>3. u \in 1..Len(used) /\ used[u] = id
    BY <2>2 DEF WasCached
  <2>4. UsedSince(id) = Len(used) - u
    BY Zenon DEF UsedSince
  <2> HIDE DEF u
  <2>5. \A e \in 1..Len(entries) : entries[e].id # id
    BY <2>1, <2>2, FoundIfKept
  <2>6. \/ \E e \in 1..Len(entries) : entries[e].id = used[u]
        \/ now - texts[used[u]].created > TTL
        \/ Len(used) - u >= MaxEntries
    BY <2>3, Zenon DEF UseInv, Recent
  <2>7. QED
    BY <2>2, <2>3, <2>4, <2>5, <2>6
<1>4. QED
  BY <1>2, <1>3

\* The invariant of the three parts.
LEMMA CacheInvariant == Spec => []CacheInv
<1>1. Init => CacheInv
  <2> SUFFICES ASSUME Init PROVE CacheInv
    OBVIOUS
  <2>1. PagesInv
    BY InitInv
  <2>2. MeantInv
    BY DEF Init, MeantInv
  <2>3. entries = <<>> /\ used = <<>>
    BY DEF Init
  <2>4. UseInv
    BY <2>3 DEF UseInv, Recent
  <2>5. QED
    BY <2>1, <2>2, <2>4 DEF CacheInv
<1>2. CacheInv /\ [Next]_vars => CacheInv'
  BY NextInv, MeantStep, UseStep DEF CacheInv
<1>3. QED
  BY <1>1, <1>2, PTL DEF Spec

\* "missing or expired" is said only of a page that cannot be had, or for want of the
\* schema of a tool that has a parameter of the name.
THEOREM MissesAreHonest == Spec => MissIsHonest
<1>1. CacheInv /\ [Next]_vars =>
        [\A c \in Clients :
           (calls[c] # NoCall /\ calls'[c] = NoCall /\ reader'[c].mode = "lost") =>
             LET id == calls[c].meant IN
             IF id = None
               THEN OwnParams[calls[c].tool] # {} /\ calls[c].via = "callTool"
               ELSE \/ ~WasCached(id)
                    \/ texts[id].owner # c
                    \/ now - texts[id].created > TTL
                    \/ UsedSince(id) >= MaxEntries]_vars
  BY LostByMiss, MissHasReason DEF CacheInv
<1>2. QED
  BY CacheInvariant, <1>1, PTL DEF Spec, MissIsHonest
=============================================================================
