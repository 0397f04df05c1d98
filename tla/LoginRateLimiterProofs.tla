------------------------ MODULE LoginRateLimiterProofs ------------------------
(***************************************************************************)
(* Proofs about LoginRateLimiter, for any number of addresses and all      *)
(* durations and limits: the window, the lockouts, their escalation and    *)
(* the promise of Retry-After.  hit rewrites the record it counts from at  *)
(* every attempt; the lemmas about TrimmedAt say that this changes nothing *)
(* of what is counted, now or later.                                       *)
(***************************************************************************)
EXTENDS LoginRateLimiter, FiniteSetTheorems, SequenceTheorems, TLAPS

-----------------------------------------------------------------------------
(***************************************************************************)
(* Induction on the numbers up to a bound, for a set of them: the library  *)
(* states induction for an operator only.                                  *)
(***************************************************************************)

\* A set of numbers up to N that holds 0 and every successor holds them all.
LEMMA UpTo ==
  ASSUME NEW N \in Nat, NEW G \in SUBSET (0..N), 0 \in G, \A n \in 1..N : n - 1 \in G => n \in G
  PROVE  G = 0..N
<1> DEFINE S == 1..N
           T == (0..N) \ G
           U == {1..n : n \in T}
<1>1. SUFFICES ASSUME T # {} PROVE FALSE
  OBVIOUS
<1>2. IsWellFoundedOn(StrictSubsetOrdering(S), FiniteSubsetsOf(S))
  BY FS_StrictSubsetOrderingWellFounded
<1>3. U \subseteq FiniteSubsetsOf(S) /\ U # {}
  <2>1. ASSUME NEW n \in T PROVE 1..n \in FiniteSubsetsOf(S)
    BY FS_Interval DEF FiniteSubsetsOf
  <2>2. QED
    BY <1>1, <2>1
<1> HIDE DEF S, U
<1>4. PICK x \in U : \A y \in U : ~(<<y, x>> \in StrictSubsetOrdering(S))
  BY <1>2, <1>3, WFMin
<1>5. PICK n \in T : x = 1..n
  BY DEF U
<1>6. n \in 1..N /\ n - 1 \in T
  OBVIOUS
<1>7. 1..(n - 1) \in U
  BY <1>6 DEF U
<1>8. <<1..(n - 1), x>> \in StrictSubsetOrdering(S)
  BY <1>5, <1>6 DEF StrictSubsetOrdering, S
<1>9. QED
  BY <1>4, <1>7, <1>8

-----------------------------------------------------------------------------
(***************************************************************************)
(* The record of attempts                                                  *)
(***************************************************************************)

\* popleft stops somewhere, and there is only one place where it does.
LEMMA GoneFacts ==
  ASSUME NEW s \in Seq(Nat), NEW t \in Nat
  PROVE  /\ Gone(s, t) \in 0..Len(s)
         /\ \A i \in 1..Gone(s, t) : s[i] <= t - Window
         /\ Gone(s, t) < Len(s) => s[Gone(s, t) + 1] > t - Window
         /\ \A n \in 0..Len(s) :
              (\A i \in 1..n : s[i] <= t - Window) /\ (n < Len(s) => s[n + 1] > t - Window)
              => Gone(s, t) = n
<1> DEFINE Stops(n) == /\ \A i \in 1..n : s[i] <= t - Window
                       /\ n < Len(s) => s[n + 1] > t - Window
           G == {n \in 0..Len(s) : \A i \in 1..n : s[i] <= t - Window}
<1>1. Window \in Nat /\ Len(s) \in Nat /\ \A i \in 1..Len(s) : s[i] \in Nat
  BY LimiterAssumption
<1>2. \E n \in 0..Len(s) : Stops(n)
  <2>1. SUFFICES ASSUME \A n \in 0..Len(s) : ~Stops(n) PROVE FALSE
    OBVIOUS
  <2>2. 0 \in G
    BY <1>1
  <2>3. ASSUME NEW n \in 1..Len(s), n - 1 \in G PROVE n \in G
    <3>1. n - 1 \in 0..Len(s) /\ (n - 1) + 1 = n
      BY <1>1
    <3> HIDE DEF Stops
    <3>2. ~Stops(n - 1)
      BY <2>1, <3>1
    <3> USE DEF Stops
    <3>3. s[n] <= t - Window
      BY <1>1, <2>3, <3>1, <3>2
    <3>4. QED
      BY <1>1, <2>3, <3>3
  <2>4. G = 0..Len(s)
    <3>1. G \in SUBSET (0..Len(s))
      OBVIOUS
    <3> HIDE DEF G
    <3>2. QED
      BY <1>1, <2>2, <2>3, <3>1, UpTo
  <2>5. Stops(Len(s))
    BY <1>1, <2>4
  <2>6. QED
    BY <1>1, <2>1, <2>5
<1>3. \A m, n \in 0..Len(s) : Stops(m) /\ Stops(n) => m = n
  <2>1. SUFFICES ASSUME NEW m \in 0..Len(s), NEW n \in 0..Len(s), Stops(m), Stops(n), m < n
                 PROVE FALSE
    BY <1>1
  <2>2. m + 1 \in 1..n
    BY <1>1, <2>1
  <2>3. QED
    BY <1>1, <2>1, <2>2
<1>4. Gone(s, t) = CHOOSE n \in 0..Len(s) : Stops(n)
  BY DEF Gone
<1>5. Gone(s, t) \in 0..Len(s) /\ Stops(Gone(s, t))
  <2> HIDE DEF Stops
  <2>1. QED
    BY <1>2, <1>4
<1>6. QED
  BY <1>3, <1>5

\* The part of a sequence behind its first n elements.
LEMMA RestFacts ==
  ASSUME NEW S, NEW s \in Seq(S), NEW n \in 0..Len(s)
  PROVE  /\ SubSeq(s, n + 1, Len(s)) \in Seq(S)
         /\ Len(SubSeq(s, n + 1, Len(s))) = Len(s) - n
         /\ \A i \in 1..(Len(s) - n) : SubSeq(s, n + 1, Len(s))[i] = s[n + i]
<1>1. Len(s) \in Nat /\ n + 1 \in 1..(Len(s) + 1)
  OBVIOUS
<1>2. SubSeq(s, n + 1, Len(s)) \in Seq(S)
  BY <1>1, SubSeqProperties
<1>3. Len(SubSeq(s, n + 1, Len(s))) = Len(s) - n
  BY <1>1, SubSeqProperties
<1>4. QED
  BY <1>1, <1>2, <1>3, SubSeqProperties

\* A trimmed record is a record of the same attempts, those at its end.
LEMMA TrimmedFacts ==
  ASSUME NEW s \in Seq(Nat), NEW t \in Nat
  PROVE  /\ TrimmedAt(s, t) \in Seq(Nat)
         /\ Len(TrimmedAt(s, t)) = Len(s) - Gone(s, t)
         /\ \A i \in 1..(Len(s) - Gone(s, t)) : TrimmedAt(s, t)[i] = s[Gone(s, t) + i]
<1>1. Gone(s, t) \in 0..Len(s)
  BY GoneFacts
<1> DEFINE n == Gone(s, t)
<1> HIDE DEF n
<1>2. QED
  BY <1>1, RestFacts DEF TrimmedAt, n

\* Trimming again later gives what trimming only then would have given.
LEMMA TrimTwice ==
  ASSUME NEW s \in Seq(Nat), NEW t \in Nat, NEW u \in Nat, t <= u
  PROVE  TrimmedAt(TrimmedAt(s, t), u) = TrimmedAt(s, u)
<1> DEFINE r == TrimmedAt(s, t)
           n == Gone(s, t)
           m == Gone(s, u)
<1>1. /\ Window \in Nat /\ Len(s) \in Nat
      /\ \A i \in 1..Len(s) : s[i] \in Nat
  BY LimiterAssumption
<1>2. /\ n \in 0..Len(s) /\ \A i \in 1..n : s[i] <= t - Window
      /\ m \in 0..Len(s) /\ \A i \in 1..m : s[i] <= u - Window
      /\ m < Len(s) => s[m + 1] > u - Window
  BY GoneFacts
<1>3. r \in Seq(Nat) /\ Len(r) = Len(s) - n /\ \A i \in 1..(Len(s) - n) : r[i] = s[n + i]
  BY TrimmedFacts
<1> HIDE DEF r, n, m
<1>4. n <= m
  BY <1>1, <1>2
<1>5. Gone(r, u) = m - n
  <2>1. m - n \in 0..Len(r)
    BY <1>1, <1>2, <1>3, <1>4
  <2>2. ASSUME NEW i \in 1..(m - n) PROVE r[i] <= u - Window
    <3>1. n + i \in 1..m /\ i \in 1..(Len(s) - n)
      BY <1>1, <1>2, <1>4
    <3>2. QED
      BY <1>2, <1>3, <3>1
  <2>3. m - n < Len(r) => r[m - n + 1] > u - Window
    <3>1. SUFFICES ASSUME m - n < Len(r) PROVE r[m - n + 1] > u - Window
      OBVIOUS
    <3>2. m < Len(s) /\ m - n + 1 \in 1..(Len(s) - n) /\ n + (m - n + 1) = m + 1
      BY <1>1, <1>2, <1>3, <1>4, <3>1
    <3>3. r[m - n + 1] = s[m + 1]
      BY <1>3, <3>2
    <3>4. QED
      BY <1>2, <3>2, <3>3
  <2>4. QED
    BY <1>3, <2>1, <2>2, <2>3, GoneFacts
<1>6. /\ TrimmedAt(r, u) \in Seq(Nat) /\ Len(TrimmedAt(r, u)) = Len(s) - m
      /\ \A i \in 1..(Len(s) - m) : TrimmedAt(r, u)[i] = s[m + i]
  <2> DEFINE g == Gone(r, u)
  <2>1. /\ TrimmedAt(r, u) \in Seq(Nat) /\ Len(TrimmedAt(r, u)) = Len(r) - (m - n)
        /\ \A i \in 1..(Len(r) - (m - n)) : TrimmedAt(r, u)[i] = r[(m - n) + i]
    <3>1. /\ TrimmedAt(r, u) \in Seq(Nat) /\ Len(TrimmedAt(r, u)) = Len(r) - g
          /\ \A i \in 1..(Len(r) - g) : TrimmedAt(r, u)[i] = r[g + i]
      BY <1>3, TrimmedFacts
    <3>2. g = m - n
      BY <1>5
    <3> HIDE DEF g
    <3>3. QED
      BY <3>1, <3>2
  <2>2. Len(r) - (m - n) = Len(s) - m
    BY <1>1, <1>2, <1>3
  <2>3. ASSUME NEW i \in 1..(Len(s) - m) PROVE r[(m - n) + i] = s[m + i]
    <3>1. (m - n) + i \in 1..(Len(s) - n) /\ n + ((m - n) + i) = m + i
      BY <1>1, <1>2, <1>4
    <3>2. QED
      BY <1>3, <3>1
  <2>4. QED
    BY <2>1, <2>2, <2>3
<1>7. /\ TrimmedAt(s, u) \in Seq(Nat) /\ Len(TrimmedAt(s, u)) = Len(s) - m
      /\ \A i \in 1..(Len(s) - m) : TrimmedAt(s, u)[i] = s[m + i]
  BY TrimmedFacts DEF m
<1>8. TrimmedAt(r, u) = TrimmedAt(s, u)
  BY <1>6, <1>7, SeqEqual
<1>9. QED
  BY <1>8 DEF r

\* What is left of a trimmed record is in the window.
LEMMA TrimmedIsRecent ==
  ASSUME NEW s \in Seq(Nat), NEW t \in Nat, TrimmedAt(s, t) # <<>>
  PROVE  TrimmedAt(s, t)[1] > t - Window
<1>1. Gone(s, t) \in 0..Len(s) /\ (Gone(s, t) < Len(s) => s[Gone(s, t) + 1] > t - Window)
  BY GoneFacts
<1>2. TrimmedAt(s, t) \in Seq(Nat) /\ Len(TrimmedAt(s, t)) = Len(s) - Gone(s, t)
  BY TrimmedFacts
<1>3. Len(TrimmedAt(s, t)) # 0
  BY <1>2, EmptySeq
<1>4. Gone(s, t) < Len(s) /\ 1 \in 1..(Len(s) - Gone(s, t))
  BY <1>1, <1>2, <1>3
<1>5. TrimmedAt(s, t)[1] = s[Gone(s, t) + 1]
  BY <1>4, TrimmedFacts
<1>6. QED
  BY <1>1, <1>4, <1>5

\* A record that starts in the window is not trimmed.
LEMMA NothingGone ==
  ASSUME NEW s \in Seq(Nat), NEW t \in Nat, s # <<>> => s[1] > t - Window
  PROVE  TrimmedAt(s, t) = s
<1>1. Len(s) \in Nat /\ (Len(s) # 0 => s # <<>>)
  BY EmptySeq
<1>2. Gone(s, t) = 0
  <2>1. 0 \in 0..Len(s) /\ (\A i \in 1..0 : s[i] <= t - Window)
        /\ (0 < Len(s) => s[0 + 1] > t - Window)
    BY <1>1
  <2>2. QED
    BY <2>1, GoneFacts
<1>3. QED
  <2>1. /\ TrimmedAt(s, t) \in Seq(Nat) /\ Len(TrimmedAt(s, t)) = Len(s)
        /\ \A i \in 1..Len(s) : TrimmedAt(s, t)[i] = s[i]
    <3> DEFINE n == Gone(s, t)
    <3>1. /\ TrimmedAt(s, t) \in Seq(Nat) /\ Len(TrimmedAt(s, t)) = Len(s) - n
          /\ \A i \in 1..(Len(s) - n) : TrimmedAt(s, t)[i] = s[n + i]
      BY TrimmedFacts
    <3>2. n = 0
      BY <1>2
    <3> HIDE DEF n
    <3>3. QED
      BY <1>1, <3>1, <3>2
  <2>2. QED
    BY <2>1, SeqEqual

\* An attempt that is recorded now is not trimmed now.
LEMMA TrimAppended ==
  ASSUME NEW s \in Seq(Nat), NEW t \in Nat
  PROVE  /\ Append(TrimmedAt(s, t), t) \in Seq(Nat)
         /\ Len(Append(TrimmedAt(s, t), t)) = Len(TrimmedAt(s, t)) + 1
         /\ TrimmedAt(Append(TrimmedAt(s, t), t), t) = Append(TrimmedAt(s, t), t)
<1> DEFINE r == TrimmedAt(s, t)
<1>1. r \in Seq(Nat) /\ (r # <<>> => r[1] > t - Window)
  BY TrimmedFacts, TrimmedIsRecent
<1> HIDE DEF r
<1>2. Append(r, t) \in Seq(Nat) /\ Len(Append(r, t)) = Len(r) + 1
  BY <1>1
<1>3. Append(r, t)[1] > t - Window
  <2>1. CASE r = <<>>
    BY <2>1, LimiterAssumption
  <2>2. CASE r # <<>>
    BY <1>1, <2>2
  <2>3. QED
    BY <2>1, <2>2
<1>4. QED
  BY <1>2, <1>3, NothingGone DEF r

\* A record in order whose last attempt has left the window counts for nothing.
LEMMA AllGone ==
  ASSUME NEW s \in Seq(Nat), NEW t \in Nat, s # <<>>, Ordered(s), s[Len(s)] <= t - Window
  PROVE  TrimmedAt(s, t) = <<>>
<1>1. Len(s) \in Nat \ {0} /\ Window \in Nat /\ \A i \in 1..Len(s) : s[i] \in Nat
  BY EmptySeq, LimiterAssumption
<1>2. \A i \in 1..Len(s) : s[i] <= t - Window
  BY <1>1 DEF Ordered
<1>3. Gone(s, t) = Len(s)
  <2>1. Len(s) \in 0..Len(s) /\ ~(Len(s) < Len(s))
    BY <1>1
  <2>2. QED
    BY <1>2, <2>1, GoneFacts
<1>4. TrimmedAt(s, t) \in Seq(Nat) /\ Len(TrimmedAt(s, t)) = 0
  BY <1>1, <1>3, TrimmedFacts
<1>5. QED
  BY <1>4, EmptySeq

\* A trimmed record stays in order and before the times it was before, and so
\* does one with an attempt of now at its end.
LEMMA TrimmedInOrder ==
  ASSUME NEW s \in Seq(Nat), NEW t \in Nat, Ordered(s)
  PROVE  /\ Ordered(TrimmedAt(s, t))
         /\ \A u \in Nat : NoneAfter(s, u) => NoneAfter(TrimmedAt(s, t), u)
         /\ NoneAfter(s, t) => /\ Ordered(Append(TrimmedAt(s, t), t))
                               /\ NoneAfter(Append(TrimmedAt(s, t), t), t)
<1> DEFINE r == TrimmedAt(s, t)
           n == Gone(s, t)
<1>0. n \in 0..Len(s)
  BY GoneFacts
<1>1. /\ Len(s) \in Nat /\ n \in 0..Len(s)
      /\ \A i \in 1..Len(s) : s[i] \in Nat
  BY <1>0
<1>2. r \in Seq(Nat) /\ Len(r) = Len(s) - n /\ \A i \in 1..(Len(s) - n) : r[i] = s[n + i]
  BY TrimmedFacts
<1> HIDE DEF r, n
<1>3. \A i \in 1..(Len(s) - n) : n + i \in 1..Len(s)
  BY <1>1
<1>4. Ordered(r)
  <2>1. ASSUME NEW i \in 1..Len(r), NEW j \in 1..Len(r), i <= j
        PROVE  r[i] <= r[j]
    <3>1. n + i \in 1..Len(s) /\ n + j \in 1..Len(s) /\ n + i <= n + j
      BY <1>1, <1>2, <2>1
    <3>2. s[n + i] <= s[n + j]
      BY <3>1 DEF Ordered
    <3>3. QED
      BY <1>2, <2>1, <3>2
  <2>2. QED
    BY <2>1 DEF Ordered
<1>5. \A u \in Nat : NoneAfter(s, u) => NoneAfter(r, u)
  BY <1>1, <1>2, <1>3 DEF NoneAfter
<1>6. ASSUME NoneAfter(s, t)
      PROVE  Ordered(Append(r, t)) /\ NoneAfter(Append(r, t), t)
  <2>1. NoneAfter(r, t)
    BY <1>5, <1>6
  <2>2. /\ Append(r, t) \in Seq(Nat) /\ Len(Append(r, t)) = Len(r) + 1
        /\ Append(r, t)[Len(r) + 1] = t
        /\ \A i \in 1..Len(r) : Append(r, t)[i] = r[i] /\ r[i] \in Nat
    BY <1>2
  <2>3. Len(r) \in Nat
    BY <1>2
  <2>4. QED
    BY <1>4, <2>1, <2>2, <2>3 DEF Ordered, NoneAfter
<1>7. QED
  BY <1>4, <1>5, <1>6 DEF r

-----------------------------------------------------------------------------
(***************************************************************************)
(* The escalation                                                          *)
(***************************************************************************)

\* There is a table of the doublings of b up to n.
LEMMA DoublingsExist ==
  ASSUME NEW b \in Nat, NEW n \in Nat
  PROVE  \E f \in [0..n -> Nat] : f[0] = b /\ \A i \in 1..n : f[i] = 2 * f[i - 1]
<1> DEFINE Good(k) == \E f \in [0..k -> Nat] : f[0] = b /\ \A i \in 1..k : f[i] = 2 * f[i - 1]
           G == {k \in 0..n : Good(k)}
<1>1. Good(0)
  <2> DEFINE f == [i \in 0..0 |-> b]
  <2>1. f \in [0..0 -> Nat] /\ f[0] = b /\ 1..0 = {}
    OBVIOUS
  <2> HIDE DEF f
  <2>2. QED
    BY <2>1
<1>2. ASSUME NEW k \in 1..n, Good(k - 1) PROVE Good(k)
  <2>1. PICK f \in [0..(k - 1) -> Nat] : f[0] = b /\ \A i \in 1..(k - 1) : f[i] = 2 * f[i - 1]
    BY <1>2
  <2> DEFINE h == [i \in 0..k |-> IF i = k THEN 2 * f[k - 1] ELSE f[i]]
  <2>2. h \in [0..k -> Nat]
    OBVIOUS
  <2>3. h[0] = b /\ h[k] = 2 * f[k - 1] /\ \A i \in 0..(k - 1) : h[i] = f[i]
    BY <2>1
  <2> HIDE DEF h
  <2>4. ASSUME NEW i \in 1..k PROVE h[i] = 2 * h[i - 1]
    <3>1. h[i - 1] = f[i - 1]
      BY <2>3
    <3>2. CASE i = k
      BY <2>3, <3>1, <3>2
    <3>3. CASE i # k
      BY <2>1, <2>3, <3>1, <3>3
    <3>4. QED
      BY <3>2, <3>3
  <2>5. QED
    BY <2>2, <2>3, <2>4
<1> HIDE DEF Good
<1>3. 0 \in G /\ (\A k \in 1..n : k - 1 \in G => k \in G) /\ G \in SUBSET (0..n)
  BY <1>1, <1>2
<1>4. Good(n)
  <2> HIDE DEF G
  <2>1. G = 0..n
    BY <1>3, UpTo
  <2>2. n \in G
    BY <2>1
  <2>3. QED
    BY <2>2 DEF G
<1>5. QED
  BY <1>4 DEF Good

\* Doubled(b, n) is the last entry of such a table.
LEMMA DoubledIsLast ==
  ASSUME NEW b \in Nat, NEW n \in Nat
  PROVE  \E f : /\ f[0] = b /\ \A i \in 1..n : f[i] = 2 * f[i - 1]
                /\ Doubled(b, n) = f[n]
<1> DEFINE twice[i \in 0..n] == IF i = 0 THEN b ELSE 2 * twice[i - 1]
<1>1. PICK f \in [0..n -> Nat] : f[0] = b /\ \A i \in 1..n : f[i] = 2 * f[i - 1]
  BY DoublingsExist
<1>2. f = [i \in 0..n |-> IF i = 0 THEN b ELSE 2 * f[i - 1]]
  BY <1>1
<1>3. twice = [i \in 0..n |-> IF i = 0 THEN b ELSE 2 * twice[i - 1]]
  BY <1>2, Zenon
<1>4. Doubled(b, n) = twice[n]
  BY Zenon DEF Doubled
<1> HIDE DEF twice
<1>5. twice[0] = b /\ \A i \in 1..n : twice[i] = 2 * twice[i - 1]
  <2>1. \A i \in 0..n : twice[i] = IF i = 0 THEN b ELSE 2 * twice[i - 1]
    BY <1>3, Zenon
  <2>2. 0 \in 0..n /\ \A i \in 1..n : i \in 0..n /\ i # 0
    OBVIOUS
  <2>3. QED
    BY <2>1, <2>2
<1>6. QED
  BY <1>4, <1>5

\* Doubling starts at b, never shrinks, and does what its name says.
LEMMA DoubledFacts ==
  ASSUME NEW b \in Nat, NEW n \in Nat
  PROVE  /\ Doubled(b, n) \in Nat
         /\ b <= Doubled(b, n)
         /\ Doubled(b, n + 1) = 2 * Doubled(b, n)
<1>1. PICK f : /\ f[0] = b /\ \A i \in 1..n : f[i] = 2 * f[i - 1]
               /\ Doubled(b, n) = f[n]
  BY DoubledIsLast
<1>2. n + 1 \in Nat
  OBVIOUS
<1>3. PICK h : /\ h[0] = b /\ \A i \in 1..(n + 1) : h[i] = 2 * h[i - 1]
               /\ Doubled(b, n + 1) = h[n + 1]
  <2> DEFINE m == n + 1
  <2>1. m \in Nat
    OBVIOUS
  <2> HIDE DEF m
  <2>2. \E h : /\ h[0] = b /\ \A i \in 1..m : h[i] = 2 * h[i - 1]
               /\ Doubled(b, m) = h[m]
    BY <2>1, DoubledIsLast
  <2>3. QED
    BY <2>2 DEF m
<1> DEFINE G == {i \in 0..n : f[i] \in Nat /\ b <= f[i] /\ h[i] = f[i]}
<1>4. G = 0..n
  <2>1. 0 \in G
    BY <1>1, <1>3
  <2>2. ASSUME NEW i \in 1..n, i - 1 \in G PROVE i \in G
    <3>1. f[i] = 2 * f[i - 1] /\ h[i] = 2 * h[i - 1]
      BY <1>1, <1>3
    <3>2. QED
      BY <2>2, <3>1
  <2>3. G \in SUBSET (0..n)
    OBVIOUS
  <2> HIDE DEF G
  <2>4. QED
    BY <2>1, <2>2, <2>3, UpTo
<1>5. n \in G
  <2> HIDE DEF G
  <2>1. QED
    BY <1>4
<1>6. h[n + 1] = 2 * h[n]
  BY <1>3
<1>7. QED
  BY <1>1, <1>3, <1>5, <1>6

\* A penalty is a time, at least lockout_base_s or lockout_max_s, and no smaller
\* than the one for a streak that was shorter by one.
LEMMA PenaltyFacts ==
  ASSUME base \in Nat, NEW streak \in Nat, streak >= MaxAttempts
  PROVE  /\ Penalty(streak) \in Nat
         /\ LeastOf(base, LockoutMax) <= Penalty(streak)
         /\ Penalty(streak) <= Penalty(streak + 1)
<1> DEFINE n == streak - MaxAttempts
<1>1. n \in Nat /\ LockoutMax \in Nat /\ (streak + 1) - MaxAttempts = n + 1
  BY LimiterAssumption
<1> HIDE DEF n
<1>2. Doubled(base, n) \in Nat /\ base <= Doubled(base, n) /\ Doubled(base, n + 1) = 2 * Doubled(base, n)
  BY <1>1, DoubledFacts
<1>3. Penalty(streak) = LeastOf(Doubled(base, n), LockoutMax)
      /\ Penalty(streak + 1) = LeastOf(Doubled(base, n + 1), LockoutMax)
  BY <1>1 DEF Penalty, n
<1>4. QED
  BY <1>1, <1>2, <1>3 DEF LeastOf

-----------------------------------------------------------------------------
(***************************************************************************)
(* What hit and the prunings may do to the tables                          *)
(***************************************************************************)

\* A record of nothing but attempts that do not count may be forgotten, a lockout
\* when it is over and a streak when it has expired.
Forgets(j) ==
  /\ attempts'[j] = attempts[j] \/ (attempts'[j] = <<>> /\ Recent(attempts[j]) = <<>>)
  /\ lockouts'[j] = lockouts[j] \/ (lockouts'[j] = 0 /\ lockouts[j] <= now)
  /\ streaks'[j] = streaks[j] \/ streaks[j].last <= now - StreakReset

\* hit adds an attempt to the trimmed record, and forgets of the others at most
\* what does not count.
LEMMA HitRecords ==
  ASSUME TypeOK, NEW k \in Keys, \A j \in Keys : RecordInv(j), ~BucketFull(k)
  PROVE  /\ HitAttempts(k) \in [Keys -> Seq(Nat)]
         /\ HitAttempts(k)[k] = Append(Recent(attempts[k]), now)
         /\ Len(HitAttempts(k)[k]) <= MaxAttempts
         /\ \A j \in Keys \ {k} :
              \/ HitAttempts(k)[j] = attempts[j]
              \/ HitAttempts(k)[j] = <<>> /\ Recent(attempts[j]) = <<>>
<1>1. /\ now \in Nat /\ attempts \in [Keys -> Seq(Nat)]
      /\ \A j \in Keys : attempts[j] \in Seq(Nat)
  BY DEF TypeOK
<1>2. \A j \in Keys : Recent(attempts[j]) \in Seq(Nat)
  BY <1>1, TrimmedFacts DEF Recent
<1>3. /\ Append(Recent(attempts[k]), now) \in Seq(Nat)
      /\ Len(Append(Recent(attempts[k]), now)) <= MaxAttempts
  <2>1. Len(Recent(attempts[k])) \in Nat /\ MaxAttempts \in Nat
        /\ ~(Len(Recent(attempts[k])) >= MaxAttempts)
    BY <1>2, LimiterAssumption DEF BucketFull
  <2>2. QED
    BY <1>1, <2>1, TrimAppended DEF Recent
<1>4. CASE MustPrune(k)
  <2>1. attempts[k] = <<>>
    BY <1>4 DEF MustPrune
  <2>2. Recent(attempts[k]) = <<>>
    BY <1>1, <2>1, NothingGone DEF Recent
  <2>3. Append(Recent(attempts[k]), now) = <<now>>
    BY <2>2
  <2>4. ASSUME NEW j \in Keys, attempts[j] # <<>>, ~InWindow(attempts[j][Len(attempts[j])])
        PROVE  Recent(attempts[j]) = <<>>
    <3>1. Ordered(attempts[j])
      BY DEF RecordInv
    <3>2. Len(attempts[j]) \in 1..Len(attempts[j])
      BY <1>1, <2>4, EmptySeq
    <3>3. attempts[j][Len(attempts[j])] <= now - Window
      BY <1>1, <2>4, <3>2, LimiterAssumption DEF InWindow
    <3>4. QED
      BY <1>1, <2>4, <3>1, <3>3, AllGone DEF Recent
  <2>5. HitAttempts(k) = [PrunedAttempts EXCEPT ![k] = <<now>>]
    BY <1>4 DEF HitAttempts
  <2>6. PrunedAttempts \in [Keys -> Seq(Nat)]
    BY <1>1 DEF PrunedAttempts
  <2>7. \A j \in Keys : \/ PrunedAttempts[j] = attempts[j]
                        \/ PrunedAttempts[j] = <<>> /\ Recent(attempts[j]) = <<>>
    BY <2>4 DEF PrunedAttempts
  <2>8. HitAttempts(k)[k] = <<now>> /\ HitAttempts(k) \in [Keys -> Seq(Nat)]
        /\ \A j \in Keys \ {k} : HitAttempts(k)[j] = PrunedAttempts[j]
    BY <1>1, <2>5, <2>6
  <2>9. QED
    BY <1>3, <2>3, <2>7, <2>8
<1>5. CASE ~MustPrune(k)
  BY <1>1, <1>3, <1>5 DEF HitAttempts
<1>6. QED
  BY <1>4, <1>5

LEMMA HitTables ==
  ASSUME TypeOK, NEW k \in Keys, ~LockedOut(k)
  PROVE  /\ HitLockouts(k) \in [Keys -> Nat] /\ HitLockouts(k)[k] = 0
         /\ \A j \in Keys \ {k} : \/ HitLockouts(k)[j] = lockouts[j]
                                  \/ HitLockouts(k)[j] = 0 /\ lockouts[j] <= now
<1>1. now \in Nat /\ lockouts \in [Keys -> Nat] /\ lockouts[k] <= now
  BY DEF TypeOK, LockedOut
<1>2. QED
  BY <1>1 DEF HitLockouts, PrunedLockouts

\* Pruning the streaks, once or twice, forgets those that have expired.
LEMMA StreaksPruned ==
  ASSUME TypeOK, NEW table \in {streaks, PrunedStreaks}
  PROVE  /\ table \in [Keys -> [count : Nat, last : 0..MaxTime]]
         /\ \A j \in Keys : table[j] = streaks[j] \/ streaks[j].last <= now - StreakReset
<1>1. streaks \in [Keys -> [count : Nat, last : 0..MaxTime]]
  BY DEF TypeOK
<1>2. NoStreak \in [count : Nat, last : 0..MaxTime]
  BY LimiterAssumption DEF NoStreak
<1>3. PrunedStreaks \in [Keys -> [count : Nat, last : 0..MaxTime]]
  BY <1>1, <1>2 DEF PrunedStreaks
<1>4. \A j \in Keys : PrunedStreaks[j] = streaks[j] \/ streaks[j].last <= now - StreakReset
  BY DEF PrunedStreaks
<1>5. QED
  BY <1>1, <1>3, <1>4

\* An address of which a step forgets no more than that keeps its invariants.
LEMMA ForgettingKeeps ==
  ASSUME TypeOK, NEW j \in Keys, RecordInv(j), SentenceInv(j), PromiseInv(j),
         now' = now, base' = base, Forgets(j),
         tried'[j] = tried[j], sentence'[j] = sentence[j], promise'[j] = promise[j]
  PROVE  RecordInv(j)' /\ SentenceInv(j)' /\ PromiseInv(j)'
<1>1. /\ now \in Nat /\ attempts[j] \in Seq(Nat) /\ lockouts[j] \in Nat
      /\ MaxAttempts \in Nat \ {0} /\ StreakReset \in Nat
      /\ sentence[j].until \in Nat /\ sentence[j].length \in Nat
  BY LimiterAssumption DEF TypeOK
<1>2. Len(<<>>) = 0 /\ <<>> \in Seq(Nat)
  OBVIOUS
<1>3. RecordInv(j)'
  <2>1. Recent(<<>>) = <<>>
    BY <1>1, <1>2, NothingGone DEF Recent
  <2>3. CASE attempts'[j] = attempts[j]
    BY <2>3 DEF RecordInv, Recent, Forgets
  <2>4. CASE attempts'[j] = <<>> /\ Recent(attempts[j]) = <<>>
    <3>1. TrimmedAt(attempts'[j], now) = TrimmedAt(tried[j], now)
      BY <2>1, <2>4 DEF RecordInv, Recent
    <3>2. Ordered(attempts'[j]) /\ NoneAfter(attempts'[j], now)
      BY <1>2, <2>4 DEF Ordered, NoneAfter
    <3>3. QED
      BY <3>1, <3>2 DEF RecordInv, Recent
  <2>5. QED
    BY <2>3, <2>4 DEF Forgets
<1>4. \A t : NoneAfter(attempts[j], t) => NoneAfter(attempts'[j], t)
  BY <1>2 DEF Forgets, NoneAfter
<1>5. SentenceInv(j)'
  <2> DEFINE s == sentence[j]
  <2>1. lockouts'[j] \in {0, s.until} /\ (now < s.until => lockouts'[j] = s.until)
    BY <1>1 DEF SentenceInv, Forgets
  <2>2. now < s.until => NoneAfter(attempts'[j], s.until - s.length)
    BY <1>4 DEF SentenceInv
  <2>3. now <= s.until /\ s.length \in 1..(StreakReset - 1) => streaks'[j] = streaks[j]
    BY <1>1 DEF SentenceInv, Forgets
  <2>4. Penalty(streaks[j].count)' = LeastOf(Doubled(base, streaks'[j].count - MaxAttempts), LockoutMax)
    BY DEF Penalty
  <2>5. now <= s.until /\ s.length \in 1..(StreakReset - 1) =>
         /\ streaks'[j].count >= MaxAttempts
         /\ streaks'[j].last = s.until - s.length
         /\ s.length = Penalty(streaks[j].count)'
    BY <2>3, <2>4 DEF SentenceInv, Penalty
  <2>6. QED
    BY <2>1, <2>2, <2>5 DEF SentenceInv
<1>6. PromiseInv(j)'
  BY <1>1, <1>2, <1>4 DEF PromiseInv, Forgets
<1>7. QED
  BY <1>3, <1>5, <1>6

-----------------------------------------------------------------------------
(***************************************************************************)
(* Types                                                                   *)
(***************************************************************************)

\* Seconds are counted up.
LEMMA CeilSecondsUp ==
  ASSUME NEW n \in Nat
  PROVE  CeilSeconds(n) \in Nat /\ n <= CeilSeconds(n)
<1>1. Second \in Nat \ {0}
  BY LimiterAssumption
<1> DEFINE q == (n + Second - 1) \div Second
<1>2. q \in Nat /\ q * Second <= n + Second - 1 /\ n + Second - 1 < (q + 1) * Second
  BY <1>1, SMTT(60)
<1> HIDE DEF q
<1>3. q * Second \in Nat /\ (q + 1) * Second = q * Second + Second
  BY <1>1, <1>2, SMTT(60)
<1>4. n <= q * Second
  BY <1>1, <1>2, <1>3
<1>5. QED
  BY <1>3, <1>4 DEF CeilSeconds, q

\* The head of a trimmed record that is not empty counts still.
LEMMA HeadOfRecent ==
  ASSUME TypeOK, NEW k \in Keys, BucketFull(k)
  PROVE  /\ Recent(attempts[k]) \in Seq(Nat) /\ Recent(attempts[k]) # <<>>
         /\ Head(Recent(attempts[k])) = Recent(attempts[k])[1]
         /\ Recent(attempts[k])[1] \in Nat
         /\ Recent(attempts[k])[1] + Window - now \in Nat
<1>1. now \in Nat /\ attempts[k] \in Seq(Nat) /\ MaxAttempts \in Nat \ {0} /\ Window \in Nat
  BY LimiterAssumption DEF TypeOK
<1> DEFINE r == Recent(attempts[k])
<1>2. r \in Seq(Nat)
  BY <1>1, TrimmedFacts DEF Recent
<1>3. r # <<>> => r[1] > now - Window
  BY <1>1, TrimmedIsRecent DEF Recent
<1>4. Len(r) >= MaxAttempts
  BY DEF BucketFull
<1> HIDE DEF r
<1>5. Len(r) \in Nat /\ Len(r) # 0
  BY <1>1, <1>2, <1>4
<1>6. r # <<>> /\ 1 \in 1..Len(r)
  BY <1>2, <1>5, EmptySeq
<1>7. r[1] \in Nat /\ Head(r) = r[1]
  BY <1>2, <1>6
<1>8. QED
  BY <1>1, <1>2, <1>3, <1>6, <1>7 DEF r

\* Retry-After covers the rest of a lockout, or the time until the oldest attempt
\* in the bucket leaves the window.
LEMMA RetryAfterCovers ==
  ASSUME TypeOK, NEW k \in Keys, LockedOut(k) \/ BucketFull(k)
  PROVE  /\ RetryAfter(k) \in Nat
         /\ LockedOut(k) => lockouts[k] <= now + RetryAfter(k)
         /\ ~LockedOut(k) => Recent(attempts[k])[1] + Window <= now + RetryAfter(k)
<1>1. now \in Nat /\ lockouts[k] \in Nat /\ Window \in Nat
  BY LimiterAssumption DEF TypeOK
<1>2. CASE LockedOut(k)
  <2>1. lockouts[k] - now \in Nat
    BY <1>1, <1>2 DEF LockedOut
  <2>2. RetryAfter(k) = CeilSeconds(lockouts[k] - now)
    BY <1>2 DEF RetryAfter
  <2>3. RetryAfter(k) \in Nat /\ lockouts[k] - now <= RetryAfter(k)
    BY <2>1, <2>2, CeilSecondsUp
  <2>4. QED
    BY <1>1, <1>2, <2>3
<1>3. CASE ~LockedOut(k)
  <2> DEFINE d == Recent(attempts[k])[1] + Window - now
  <2>1. d \in Nat /\ Recent(attempts[k])[1] \in Nat
        /\ Head(Recent(attempts[k])) = Recent(attempts[k])[1]
    BY <1>3, HeadOfRecent
  <2>2. RetryAfter(k) = CeilSeconds(d)
    BY <1>3, <2>1 DEF RetryAfter
  <2>3. RetryAfter(k) \in Nat /\ d <= RetryAfter(k)
    <3> HIDE DEF d
    <3>1. QED
      BY <2>1, <2>2, CeilSecondsUp
  <2>4. QED
    BY <1>1, <1>3, <2>1, <2>3
<1>4. QED
  BY <1>2, <1>3

LEMMA InitHolds == Init => LimiterInv
<1> SUFFICES ASSUME Init PROVE LimiterInv
  OBVIOUS
<1>1. <<>> \in Seq(Nat) /\ Len(<<>>) = 0 /\ MaxAttempts \in Nat /\ 1 \in 1..MaxTime
  BY LimiterAssumption
<1>2. TypeOK
  <2>1. NoStreak \in [count : Nat, last : 0..MaxTime]
    BY LimiterAssumption DEF NoStreak
  <2>2. NoSentence \in [until : Nat, length : Nat]
    BY DEF NoSentence
  <2>3. NoPromise \in [until : Nat, by : {"nothing", "lockout", "bucket"}]
    BY DEF NoPromise
  <2>4. QED
    BY <1>1, <2>1, <2>2, <2>3 DEF Init, TypeOK
<1>3. ASSUME NEW k \in Keys PROVE RecordInv(k) /\ SentenceInv(k) /\ PromiseInv(k)
  <2>1. RecordInv(k)
    BY <1>1 DEF Init, RecordInv, Ordered, NoneAfter
  <2>2. SentenceInv(k)
    BY <1>1, LimiterAssumption DEF Init, SentenceInv, NoSentence
  <2>3. PromiseInv(k)
    BY DEF Init, PromiseInv, NoPromise
  <2>4. QED
    BY <2>1, <2>2, <2>3
<1>4. QED
  BY <1>2, <1>3 DEF LimiterInv

-----------------------------------------------------------------------------
(***************************************************************************)
(* The steps                                                               *)
(***************************************************************************)

LEMMA TickKeeps == LimiterInv /\ Tick => LimiterInv'
<1> SUFFICES ASSUME LimiterInv, Tick PROVE LimiterInv'
  OBVIOUS
<1>1. /\ now \in 1..MaxTime /\ MaxTime \in Nat /\ StreakReset \in Nat
      /\ now' \in 1..MaxTime /\ now' = now + 1
  BY LimiterAssumption DEF LimiterInv, TypeOK, Tick
<1>2. TypeOK'
  BY <1>1 DEF LimiterInv, TypeOK, Tick
<1>3. ASSUME NEW k \in Keys PROVE (RecordInv(k) /\ SentenceInv(k) /\ PromiseInv(k))'
  <2>1. /\ attempts[k] \in Seq(Nat) /\ tried[k] \in Seq(Nat)
        /\ RecordInv(k) /\ SentenceInv(k) /\ PromiseInv(k)
        /\ sentence[k].until \in Nat /\ sentence[k].length \in Nat /\ promise[k].until \in Nat
        /\ \A i \in 1..Len(attempts[k]) : attempts[k][i] \in Nat
        /\ \A i \in 1..Len(tried[k]) : tried[k][i] \in Nat
    <3>1. TypeOK /\ RecordInv(k) /\ SentenceInv(k) /\ PromiseInv(k)
      BY DEF LimiterInv
    <3>2. attempts[k] \in Seq(Nat) /\ tried[k] \in Seq(Nat)
      BY <3>1 DEF TypeOK
    <3>3. sentence[k].until \in Nat /\ sentence[k].length \in Nat /\ promise[k].until \in Nat
      BY <3>1 DEF TypeOK
    <3>4. QED
      BY <3>1, <3>2, <3>3
  <2>2. RecordInv(k)'
    <3>1. NoneAfter(attempts[k], now + 1) /\ NoneAfter(tried[k], now + 1)
      <4>1. NoneAfter(attempts[k], now) /\ NoneAfter(tried[k], now)
        BY <2>1 DEF RecordInv
      <4>2. NoneAfter(attempts[k], now + 1)
        BY <1>1, <2>1, <4>1 DEF NoneAfter
      <4>3. NoneAfter(tried[k], now + 1)
        BY <1>1, <2>1, <4>1 DEF NoneAfter
      <4>4. QED
        BY <4>2, <4>3
    <3>2. TrimmedAt(attempts[k], now + 1) = TrimmedAt(tried[k], now + 1)
      <4>1. now \in Nat /\ now + 1 \in Nat /\ now <= now + 1
        BY <1>1
      <4>2. TrimmedAt(TrimmedAt(attempts[k], now), now + 1) = TrimmedAt(attempts[k], now + 1)
        BY <2>1, <4>1, TrimTwice
      <4>3. TrimmedAt(TrimmedAt(tried[k], now), now + 1) = TrimmedAt(tried[k], now + 1)
        BY <2>1, <4>1, TrimTwice
      <4>4. QED
        BY <2>1, <4>2, <4>3 DEF RecordInv, Recent
    <3>3. QED
      BY <2>1, <3>1, <3>2 DEF RecordInv, Recent, Tick
  <2>3. SentenceInv(k)'
    <3>1. Penalty(streaks[k].count)' = Penalty(streaks[k].count)
      BY DEF Penalty, Tick
    <3>2. QED
      BY <1>1, <2>1, <3>1 DEF SentenceInv, Tick
  <2>4. PromiseInv(k)'
    BY <2>1 DEF PromiseInv, Tick
  <2>5. QED
    BY <2>2, <2>3, <2>4
<1>4. QED
  BY <1>2, <1>3 DEF LimiterInv

LEMMA RejectKeeps ==
  ASSUME LimiterInv, NEW k \in Keys, Reject(k)
  PROVE  LimiterInv'
<1>1. TypeOK /\ \A j \in Keys : RecordInv(j) /\ SentenceInv(j) /\ PromiseInv(j)
  BY DEF LimiterInv
<1>2. /\ now \in Nat /\ MaxAttempts \in Nat \ {0} /\ Window \in Nat
      /\ attempts \in [Keys -> Seq(Nat)] /\ lockouts \in [Keys -> Nat]
      /\ \A j \in Keys : Len(attempts[j]) <= MaxAttempts
      /\ promise \in [Keys -> [until : Nat, by : {"nothing", "lockout", "bucket"}]]
      /\ sentence[k].until \in Nat /\ sentence[k].length \in Nat
  <2>1. MaxAttempts \in Nat \ {0} /\ Window \in Nat
    BY LimiterAssumption
  <2>2. now \in Nat /\ sentence[k].until \in Nat /\ sentence[k].length \in Nat
    BY <1>1 DEF TypeOK
  <2>3. /\ attempts \in [Keys -> Seq(Nat)] /\ lockouts \in [Keys -> Nat]
        /\ \A j \in Keys : Len(attempts[j]) <= MaxAttempts
        /\ promise \in [Keys -> [until : Nat, by : {"nothing", "lockout", "bucket"}]]
    BY <1>1 DEF TypeOK
  <2>4. QED
    BY <2>1, <2>2, <2>3
<1>3. /\ LockedOut(k) \/ BucketFull(k)
      /\ UNCHANGED <<now, streaks, base, tried, sentence>>
  BY DEF Reject
<1> DEFINE r == Recent(attempts[k])
           until == now + RetryAfter(k)
           p == [until |-> until, by |-> IF LockedOut(k) THEN "lockout" ELSE "bucket"]
<1>4. /\ until \in Nat
      /\ LockedOut(k) => lockouts[k] <= until
      /\ ~LockedOut(k) => r[1] + Window <= until
  BY <1>1, <1>2, <1>3, RetryAfterCovers
<1>5. /\ attempts' = [attempts EXCEPT ![k] = IF LockedOut(k) THEN attempts[k] ELSE r]
      /\ lockouts' = [lockouts EXCEPT ![k] = IF LockedOut(k) THEN lockouts[k] ELSE 0]
      /\ promise' = [promise EXCEPT ![k] = p]
  BY DEF Reject
<1>6. /\ r \in Seq(Nat) /\ Len(r) <= Len(attempts[k]) /\ Len(r) \in Nat
      /\ TrimmedAt(r, now) = r
      /\ Ordered(r) /\ \A u \in Nat : NoneAfter(attempts[k], u) => NoneAfter(r, u)
  <2>1. r \in Seq(Nat) /\ Len(r) = Len(attempts[k]) - Gone(attempts[k], now)
        /\ Gone(attempts[k], now) \in 0..Len(attempts[k])
    BY <1>2, TrimmedFacts, GoneFacts DEF Recent
  <2>2. TrimmedAt(r, now) = r
    <3>1. now <= now
      BY <1>2
    <3>2. QED
      BY <1>2, <3>1, TrimTwice DEF Recent
  <2>3. Ordered(attempts[k])
    BY <1>1 DEF RecordInv
  <2>4. Ordered(r) /\ \A u \in Nat : NoneAfter(attempts[k], u) => NoneAfter(r, u)
    BY <1>2, <2>3, TrimmedInOrder DEF Recent
  <2>5. Len(r) \in Nat /\ Len(r) <= Len(attempts[k])
    BY <1>2, <2>1
  <2>6. QED
    BY <2>1, <2>2, <2>4, <2>5
<1>7. p.until = until /\ p.by = (IF LockedOut(k) THEN "lockout" ELSE "bucket")
      /\ p \in [until : Nat, by : {"nothing", "lockout", "bucket"}]
  BY <1>4
<1> HIDE DEF r, until, p
<1>8. TypeOK'
  <2>1. attempts' \in [Keys -> Seq(Nat)] /\ lockouts' \in [Keys -> Nat]
    BY <1>2, <1>5, <1>6
  <2>2. promise' \in [Keys -> [until : Nat, by : {"nothing", "lockout", "bucket"}]]
    BY <1>2, <1>5, <1>7
  <2>3. \A j \in Keys : Len(attempts'[j]) <= MaxAttempts
    BY <1>2, <1>5, <1>6
  <2>4. QED
    BY <1>1, <1>3, <2>1, <2>2, <2>3 DEF TypeOK
<1>9. ASSUME NEW j \in Keys, j # k PROVE (RecordInv(j) /\ SentenceInv(j) /\ PromiseInv(j))'
  <2>1. Forgets(j) /\ promise'[j] = promise[j]
    BY <1>2, <1>3, <1>5, <1>9 DEF Forgets
  <2>2. QED
    BY <1>1, <1>3, <2>1, ForgettingKeeps
<1>10. /\ attempts'[k] = (IF LockedOut(k) THEN attempts[k] ELSE r)
       /\ lockouts'[k] = (IF LockedOut(k) THEN lockouts[k] ELSE 0)
       /\ promise'[k] = p
  BY <1>2, <1>5
<1>11. (RecordInv(k) /\ SentenceInv(k) /\ PromiseInv(k))'
  <2>1. RecordInv(k)'
    <3>1. Ordered(attempts'[k]) /\ NoneAfter(attempts'[k], now)
      BY <1>1, <1>2, <1>6, <1>10 DEF RecordInv
    <3>2. TrimmedAt(attempts'[k], now) = TrimmedAt(attempts[k], now)
      BY <1>6, <1>10 DEF r, Recent
    <3>3. QED
      BY <1>1, <1>3, <3>1, <3>2 DEF RecordInv, Recent
  <2>2. SentenceInv(k)'
    <3>1. \A u \in Nat : NoneAfter(attempts[k], u) => NoneAfter(attempts'[k], u)
      BY <1>6, <1>10
    <3>2. Penalty(streaks[k].count)' = Penalty(streaks[k].count)
      BY <1>3 DEF Penalty
    <3>3. lockouts[k] \in Nat
      BY <1>2
    <3>4. lockouts'[k] \in {0, sentence[k].until}
          /\ (now < sentence[k].until => lockouts'[k] = sentence[k].until)
      BY <1>1, <1>2, <1>10, <3>3 DEF SentenceInv, LockedOut
    <3>5. now < sentence[k].until
            => NoneAfter(attempts'[k], sentence[k].until - sentence[k].length)
      <4>1. sentence[k].length <= sentence[k].until
        BY <1>1 DEF SentenceInv
      <4>2. sentence[k].until - sentence[k].length \in Nat
        BY <1>2, <4>1
      <4>3. QED
        BY <1>1, <3>1, <4>2 DEF SentenceInv
    <3>6. QED
      BY <1>1, <1>3, <3>2, <3>4, <3>5 DEF SentenceInv
  <2>3. PromiseInv(k)'
    <3>1. CASE LockedOut(k)
      <4>1. lockouts[k] = sentence[k].until /\ now < sentence[k].until
        BY <1>1, <1>2, <3>1 DEF SentenceInv, LockedOut
      <4>2. sentence[k] # NoSentence
        BY <1>2, <4>1 DEF NoSentence
      <4>3. NoneAfter(attempts[k], sentence[k].until - sentence[k].length)
        BY <1>1, <4>1 DEF SentenceInv
      <4>4. QED
        BY <1>3, <1>4, <1>7, <1>10, <3>1, <4>1, <4>2, <4>3 DEF PromiseInv
    <3>2. CASE ~LockedOut(k)
      BY <1>4, <1>7, <1>10, <3>2 DEF PromiseInv
    <3>3. QED
      BY <3>1, <3>2
  <2>4. QED
    BY <2>1, <2>2, <2>3
<1>12. QED
  BY <1>8, <1>9, <1>11 DEF LimiterInv

\* A wrong or a right password: what both do to the record of the address and to
\* the tables of the others.
LEMMA VerifiedAttempt ==
  ASSUME LimiterInv, NEW k \in Keys, ~LockedOut(k), ~BucketFull(k)
  PROVE  /\ TypeOK /\ now \in Nat /\ lockouts[k] \in Nat /\ lockouts[k] <= now
         /\ sentence[k].until <= now
         /\ HitAttempts(k) \in [Keys -> Seq(Nat)]
         /\ HitLockouts(k) \in [Keys -> Nat] /\ HitLockouts(k)[k] = 0
         /\ Len(HitAttempts(k)[k]) <= MaxAttempts
         /\ Ordered(HitAttempts(k)[k]) /\ NoneAfter(HitAttempts(k)[k], now)
         /\ HitAttempts(k)[k] = Append(Recent(tried[k]), now)
         /\ \A j \in Keys \ {k} :
              /\ \/ HitAttempts(k)[j] = attempts[j]
                 \/ HitAttempts(k)[j] = <<>> /\ Recent(attempts[j]) = <<>>
              /\ \/ HitLockouts(k)[j] = lockouts[j]
                 \/ HitLockouts(k)[j] = 0 /\ lockouts[j] <= now
              /\ Len(HitAttempts(k)[j]) <= MaxAttempts
<1>1. TypeOK /\ \A j \in Keys : RecordInv(j) /\ SentenceInv(j)
  BY DEF LimiterInv
<1>2. /\ now \in Nat /\ lockouts[k] \in Nat /\ attempts[k] \in Seq(Nat)
      /\ MaxAttempts \in Nat /\ \A j \in Keys : Len(attempts[j]) <= MaxAttempts
      /\ sentence[k].until \in Nat
  BY <1>1, LimiterAssumption DEF TypeOK
<1>3. lockouts[k] <= now
  BY <1>2 DEF LockedOut
<1>4. sentence[k].until <= now
  BY <1>1, <1>2, <1>3 DEF SentenceInv
<1>5. /\ HitAttempts(k) \in [Keys -> Seq(Nat)]
      /\ HitAttempts(k)[k] = Append(Recent(attempts[k]), now)
      /\ Len(HitAttempts(k)[k]) <= MaxAttempts
      /\ \A j \in Keys \ {k} :
           \/ HitAttempts(k)[j] = attempts[j]
           \/ HitAttempts(k)[j] = <<>> /\ Recent(attempts[j]) = <<>>
  BY <1>1, HitRecords
<1>6. Ordered(HitAttempts(k)[k]) /\ NoneAfter(HitAttempts(k)[k], now)
  BY <1>1, <1>2, <1>5, TrimmedInOrder DEF RecordInv, Recent
<1>7. HitAttempts(k)[k] = Append(Recent(tried[k]), now)
  BY <1>1, <1>5 DEF RecordInv
<1>8. ASSUME NEW j \in Keys \ {k} PROVE Len(HitAttempts(k)[j]) <= MaxAttempts
  <2>1. Len(<<>>) <= MaxAttempts /\ Len(attempts[j]) <= MaxAttempts
    BY <1>2
  <2>2. HitAttempts(k)[j] = attempts[j] \/ HitAttempts(k)[j] = <<>>
    BY <1>5
  <2>3. QED
    BY <2>1, <2>2
<1>9. QED
  BY <1>1, <1>2, <1>3, <1>4, <1>5, <1>6, <1>7, <1>8, HitTables

LEMMA WrongPasswordKeeps ==
  ASSUME LimiterInv, NEW k \in Keys, WrongPassword(k)
  PROVE  LimiterInv'
<1>1. ~LockedOut(k) /\ ~BucketFull(k) /\ UNCHANGED <<now, base>>
  BY DEF WrongPassword
<1>2. /\ TypeOK /\ now \in Nat /\ lockouts[k] \in Nat /\ lockouts[k] <= now
      /\ sentence[k].until <= now
      /\ HitAttempts(k) \in [Keys -> Seq(Nat)]
      /\ HitLockouts(k) \in [Keys -> Nat] /\ HitLockouts(k)[k] = 0
      /\ Len(HitAttempts(k)[k]) <= MaxAttempts
      /\ Ordered(HitAttempts(k)[k]) /\ NoneAfter(HitAttempts(k)[k], now)
      /\ HitAttempts(k)[k] = Append(Recent(tried[k]), now)
  BY <1>1, VerifiedAttempt
<1>3. \A j \in Keys \ {k} :
        /\ \/ HitAttempts(k)[j] = attempts[j]
           \/ HitAttempts(k)[j] = <<>> /\ Recent(attempts[j]) = <<>>
        /\ \/ HitLockouts(k)[j] = lockouts[j]
           \/ HitLockouts(k)[j] = 0 /\ lockouts[j] <= now
        /\ Len(HitAttempts(k)[j]) <= MaxAttempts
  BY <1>1, VerifiedAttempt
<1>4. /\ MaxAttempts \in Nat \ {0} /\ StreakReset \in Nat \ {0} /\ LockoutMax \in Nat \ {0}
      /\ MaxTime \in Nat /\ base \in Nat \ {0} /\ now \in 1..MaxTime
      /\ streaks \in [Keys -> [count : Nat, last : 0..MaxTime]]
      /\ sentence \in [Keys -> [until : Nat, length : Nat]]
      /\ tried \in [Keys -> Seq(Nat)]
      /\ promise \in [Keys -> [until : Nat, by : {"nothing", "lockout", "bucket"}]]
  BY <1>2, LimiterAssumption DEF TypeOK
<1>5. PICK table \in {streaks, PrunedStreaks} :
        LET streak == NextStreak(table[k])
            until == now + Penalty(streak)
        IN /\ streaks' = [table EXCEPT ![k] = [count |-> streak, last |-> now]]
           /\ IF streak >= MaxAttempts
                THEN /\ lockouts' = [HitLockouts(k) EXCEPT ![k] = until]
                     /\ sentence' = [sentence EXCEPT ![k] =
                                       [until |-> until, length |-> Penalty(streak)]]
                ELSE lockouts' = HitLockouts(k) /\ UNCHANGED sentence
  <2>1. HitStreaks(k) \in {streaks, PrunedStreaks}
    BY DEF HitStreaks
  <2>2. QED
    BY <2>1, Zenon DEF WrongPassword
<1>6. /\ attempts' = HitAttempts(k)
      /\ tried' = [tried EXCEPT ![k] = Append(Recent(tried[k]), now)]
      /\ promise' = [promise EXCEPT ![k] = NoPromise]
  BY DEF WrongPassword
<1>7. /\ table \in [Keys -> [count : Nat, last : 0..MaxTime]]
      /\ \A j \in Keys : table[j] = streaks[j] \/ streaks[j].last <= now - StreakReset
  BY <1>2, <1>5, StreaksPruned
<1> DEFINE streak == NextStreak(table[k])
           until == now + Penalty(streak)
           r == [count |-> streak, last |-> now]
           q == [until |-> until, length |-> Penalty(streak)]
<1>8. /\ streaks' = [table EXCEPT ![k] = r]
      /\ streak >= MaxAttempts => /\ lockouts' = [HitLockouts(k) EXCEPT ![k] = until]
                                  /\ sentence' = [sentence EXCEPT ![k] = q]
      /\ ~(streak >= MaxAttempts) => lockouts' = HitLockouts(k) /\ UNCHANGED sentence
  BY <1>5, Zenon
<1>9. streak \in Nat
  BY <1>4, <1>7 DEF NextStreak
<1>10. streak >= MaxAttempts => /\ Penalty(streak) \in Nat /\ until \in Nat
                                /\ LeastOf(base, LockoutMax) <= Penalty(streak)
  <2> HIDE DEF streak
  <2>1. streak >= MaxAttempts => /\ Penalty(streak) \in Nat
                                 /\ LeastOf(base, LockoutMax) <= Penalty(streak)
    BY <1>4, <1>9, PenaltyFacts
  <2>2. QED
    BY <1>2, <2>1
<1>11. r.count = streak /\ r.last = now /\ r \in [count : Nat, last : 0..MaxTime]
  BY <1>4, <1>9
<1>12. q.until = until /\ q.length = Penalty(streak)
  OBVIOUS
<1>13. streak >= MaxAttempts => q \in [until : Nat, length : Nat]
  BY <1>10
<1>14. NoPromise \in [until : Nat, by : {"nothing", "lockout", "bucket"}] /\ NoPromise.by = "nothing"
  BY DEF NoPromise
<1>15. Append(Recent(tried[k]), now) \in Seq(Nat)
  BY <1>2
<1> HIDE DEF r, q
<1>16. TypeOK'
  <2>1. streaks' \in [Keys -> [count : Nat, last : 0..MaxTime]]
    BY <1>7, <1>8, <1>11
  <2>2. lockouts' \in [Keys -> Nat]
    BY <1>2, <1>8, <1>10
  <2>3. sentence' \in [Keys -> [until : Nat, length : Nat]]
    BY <1>4, <1>8, <1>13
  <2>4. tried' \in [Keys -> Seq(Nat)]
    BY <1>4, <1>6, <1>15
  <2>5. promise' \in [Keys -> [until : Nat, by : {"nothing", "lockout", "bucket"}]]
    BY <1>4, <1>6, <1>14
  <2>6. attempts' \in [Keys -> Seq(Nat)] /\ \A j \in Keys : Len(attempts'[j]) <= MaxAttempts
    BY <1>2, <1>3, <1>6
  <2>7. QED
    BY <1>1, <1>2, <2>1, <2>2, <2>3, <2>4, <2>5, <2>6 DEF TypeOK
<1>17. ASSUME NEW j \in Keys, j # k PROVE (RecordInv(j) /\ SentenceInv(j) /\ PromiseInv(j))'
  <2>1. /\ tried'[j] = tried[j] /\ promise'[j] = promise[j] /\ sentence'[j] = sentence[j]
        /\ lockouts'[j] = HitLockouts(k)[j] /\ streaks'[j] = table[j]
    BY <1>2, <1>4, <1>6, <1>7, <1>8, <1>17
  <2>2. Forgets(j)
    BY <1>3, <1>6, <1>7, <1>17, <2>1 DEF Forgets
  <2>3. QED
    BY <1>1, <1>2, <2>1, <2>2, ForgettingKeeps DEF LimiterInv
<1>18. /\ attempts'[k] = HitAttempts(k)[k] /\ tried'[k] = attempts'[k]
       /\ promise'[k] = NoPromise /\ streaks'[k] = r
       /\ streak >= MaxAttempts => lockouts'[k] = until /\ sentence'[k] = q
       /\ ~(streak >= MaxAttempts) => lockouts'[k] = 0 /\ sentence'[k] = sentence[k]
  BY <1>2, <1>4, <1>6, <1>7, <1>8
<1>19. RecordInv(k)'
  BY <1>1, <1>2, <1>18 DEF RecordInv, Recent
<1>20. SentenceInv(k)'
  <2>1. \A n : Penalty(n)' = Penalty(n)
    BY <1>1 DEF Penalty
  <2>2. CASE streak >= MaxAttempts
    <3> DEFINE n == Penalty(streak)
    <3>1. n \in Nat /\ until = now + n /\ until - n = now
          /\ q.until = until /\ q.length = n /\ LeastOf(base, LockoutMax) <= n
      BY <1>2, <1>10, <1>12, <2>2
    <3>2. Penalty(streaks[k].count)' = n /\ streaks'[k].count = streak /\ streaks'[k].last = now
      <4>1. streaks'[k].count = streak /\ streaks'[k].last = now
        BY <1>11, <1>18
      <4>2. Penalty(streaks[k].count)' = Penalty(streaks'[k].count)
        BY <1>1 DEF Penalty
      <4>3. QED
        BY <4>1, <4>2
    <3>3. lockouts'[k] = until /\ sentence'[k] = q
      BY <1>18, <2>2
    <3>4. NoneAfter(attempts'[k], now)
      BY <1>2, <1>18
    <3> HIDE DEF n, until, streak
    <3>5. QED
      BY <1>1, <1>2, <2>2, <3>1, <3>2, <3>3, <3>4 DEF SentenceInv
  <2>3. CASE ~(streak >= MaxAttempts)
    <3>1. SentenceInv(k) /\ sentence[k].until \in Nat /\ sentence[k].length \in Nat
          /\ streaks[k] \in [count : Nat, last : 0..MaxTime]
      BY <1>4 DEF LimiterInv
    <3>2. ~(now <= sentence[k].until /\ sentence[k].length \in 1..(StreakReset - 1))
      <4>1. SUFFICES ASSUME now <= sentence[k].until, sentence[k].length \in 1..(StreakReset - 1)
                     PROVE  streak >= MaxAttempts
        BY <2>3
      <4>2. now = sentence[k].until
        BY <1>2, <3>1, <4>1
      <4>3. /\ streaks[k].count >= MaxAttempts
            /\ streaks[k].last = now - sentence[k].length
        BY <3>1, <4>1, <4>2 DEF SentenceInv
      <4>4. ~(streaks[k].last <= now - StreakReset) /\ now - streaks[k].last <= StreakReset
        <5> DEFINE l == sentence[k].length
        <5>1. l \in Nat /\ l <= StreakReset - 1 /\ streaks[k].last = now - l
          BY <3>1, <4>1, <4>3
        <5> HIDE DEF l
        <5>2. now \in Nat /\ StreakReset \in Nat
          BY <1>2, <1>4
        <5>3. QED
          BY <5>1, <5>2
      <4>5. table[k] = streaks[k]
        BY <1>7, <4>4
      <4>6. streak = streaks[k].count + 1
        BY <4>4, <4>5 DEF NextStreak
      <4>7. QED
        BY <1>4, <3>1, <4>3, <4>6
    <3>3. ~(now < sentence[k].until)
      BY <1>2, <3>1
    <3>4. lockouts'[k] = 0 /\ sentence'[k] = sentence[k] /\ now' = now /\ base' = base
      BY <1>1, <1>18, <2>3
    <3> HIDE DEF streak, until
    <3>5. QED
      BY <3>1, <3>2, <3>3, <3>4 DEF SentenceInv
  <2>4. QED
    BY <2>2, <2>3
<1>21. PromiseInv(k)'
  BY <1>14, <1>18 DEF PromiseInv
<1>22. QED
  BY <1>16, <1>17, <1>19, <1>20, <1>21 DEF LimiterInv

LEMMA RightPasswordKeeps ==
  ASSUME LimiterInv, NEW k \in Keys, RightPassword(k)
  PROVE  LimiterInv'
<1>1. ~LockedOut(k) /\ ~BucketFull(k) /\ UNCHANGED <<now, base>>
  BY DEF RightPassword
<1>2. /\ TypeOK /\ now \in Nat
      /\ HitAttempts(k) \in [Keys -> Seq(Nat)]
      /\ HitLockouts(k) \in [Keys -> Nat]
      /\ \A j \in Keys \ {k} :
           /\ \/ HitAttempts(k)[j] = attempts[j]
              \/ HitAttempts(k)[j] = <<>> /\ Recent(attempts[j]) = <<>>
           /\ \/ HitLockouts(k)[j] = lockouts[j]
              \/ HitLockouts(k)[j] = 0 /\ lockouts[j] <= now
           /\ Len(HitAttempts(k)[j]) <= MaxAttempts
  BY <1>1, VerifiedAttempt
<1>3. /\ attempts' = [HitAttempts(k) EXCEPT ![k] = <<>>]
      /\ lockouts' = [HitLockouts(k) EXCEPT ![k] = 0]
      /\ streaks' = [HitStreaks(k) EXCEPT ![k] = NoStreak]
      /\ tried' = [tried EXCEPT ![k] = <<>>]
      /\ sentence' = [sentence EXCEPT ![k] = NoSentence]
      /\ promise' = [promise EXCEPT ![k] = NoPromise]
  BY DEF RightPassword
<1>4. /\ HitStreaks(k) \in [Keys -> [count : Nat, last : 0..MaxTime]]
      /\ \A j \in Keys : HitStreaks(k)[j] = streaks[j] \/ streaks[j].last <= now - StreakReset
  <2>1. HitStreaks(k) \in {streaks, PrunedStreaks}
    BY DEF HitStreaks
  <2>2. QED
    BY <1>2, <2>1, StreaksPruned
<1>5. /\ NoStreak \in [count : Nat, last : 0..MaxTime]
      /\ NoSentence \in [until : Nat, length : Nat]
      /\ NoSentence.until = 0 /\ NoSentence.length = 0
      /\ NoPromise \in [until : Nat, by : {"nothing", "lockout", "bucket"}]
      /\ NoPromise.by = "nothing"
      /\ <<>> \in Seq(Nat) /\ Len(<<>>) = 0 /\ MaxAttempts \in Nat
  BY LimiterAssumption DEF NoStreak, NoSentence, NoPromise
<1>6. /\ sentence \in [Keys -> [until : Nat, length : Nat]]
      /\ tried \in [Keys -> Seq(Nat)]
      /\ promise \in [Keys -> [until : Nat, by : {"nothing", "lockout", "bucket"}]]
  BY <1>2 DEF TypeOK
<1>7. TypeOK'
  <2>1. attempts' \in [Keys -> Seq(Nat)] /\ \A j \in Keys : Len(attempts'[j]) <= MaxAttempts
    BY <1>2, <1>3, <1>5
  <2>2. streaks' \in [Keys -> [count : Nat, last : 0..MaxTime]] /\ lockouts' \in [Keys -> Nat]
    BY <1>2, <1>3, <1>4, <1>5
  <2>3. /\ sentence' \in [Keys -> [until : Nat, length : Nat]]
        /\ tried' \in [Keys -> Seq(Nat)]
        /\ promise' \in [Keys -> [until : Nat, by : {"nothing", "lockout", "bucket"}]]
    BY <1>3, <1>5, <1>6
  <2>4. QED
    BY <1>1, <1>2, <2>1, <2>2, <2>3 DEF TypeOK
<1>8. ASSUME NEW j \in Keys, j # k PROVE (RecordInv(j) /\ SentenceInv(j) /\ PromiseInv(j))'
  <2>1. /\ tried'[j] = tried[j] /\ promise'[j] = promise[j] /\ sentence'[j] = sentence[j]
        /\ attempts'[j] = HitAttempts(k)[j]
        /\ lockouts'[j] = HitLockouts(k)[j] /\ streaks'[j] = HitStreaks(k)[j]
    BY <1>2, <1>3, <1>4, <1>6, <1>8
  <2>2. Forgets(j)
    BY <1>2, <1>4, <1>8, <2>1 DEF Forgets
  <2>3. QED
    BY <1>1, <1>2, <2>1, <2>2, ForgettingKeeps DEF LimiterInv
<1>9. /\ attempts'[k] = <<>> /\ tried'[k] = <<>> /\ lockouts'[k] = 0
      /\ sentence'[k] = NoSentence /\ promise'[k] = NoPromise
  BY <1>2, <1>3, <1>6
<1>10. RecordInv(k)'
  BY <1>5, <1>9 DEF RecordInv, Recent, Ordered, NoneAfter
<1>11. SentenceInv(k)'
  <2>1. now' \in 1..MaxTime /\ MaxTime \in Nat /\ StreakReset \in Nat
    BY <1>1, <1>2, LimiterAssumption DEF TypeOK
  <2>2. ~(now' < 0) /\ 0 \notin 1..(StreakReset - 1)
    BY <2>1
  <2>3. QED
    BY <1>5, <1>9, <2>2 DEF SentenceInv
<1>12. PromiseInv(k)'
  BY <1>5, <1>9 DEF PromiseInv
<1>13. QED
  BY <1>7, <1>8, <1>10, <1>11, <1>12 DEF LimiterInv

LEMMA Inductive == LimiterInv /\ [Next]_vars => LimiterInv'
<1> SUFFICES ASSUME LimiterInv, [Next]_vars PROVE LimiterInv'
  OBVIOUS
<1>1. CASE Next
  BY <1>1, TickKeeps, RejectKeeps, WrongPasswordKeeps, RightPasswordKeeps DEF Next
<1>2. CASE UNCHANGED vars
  <2>1. /\ now' = now /\ attempts' = attempts /\ streaks' = streaks /\ lockouts' = lockouts
        /\ base' = base /\ tried' = tried /\ sentence' = sentence /\ promise' = promise
    BY <1>2 DEF vars
  <2>2. TypeOK'
    BY <2>1 DEF LimiterInv, TypeOK
  <2>3. ASSUME NEW j \in Keys PROVE (RecordInv(j) /\ SentenceInv(j) /\ PromiseInv(j))'
    BY <2>1, ForgettingKeeps DEF LimiterInv, Forgets
  <2>4. QED
    BY <2>2, <2>3 DEF LimiterInv
<1>3. QED
  BY <1>1, <1>2

-----------------------------------------------------------------------------
(***************************************************************************)
(* The properties                                                          *)
(***************************************************************************)

\* The inductive invariant: what the tables hold against what really happened.
THEOREM LimiterInvariant == Spec => []LimiterInv
BY InitHolds, Inductive, PTL DEF Spec

\* However hit and the prunings rewrite the record that is counted, at most
\* max_attempts passwords of an address are verified in a window without a
\* success between them.
THEOREM BucketHolds == Spec => []WindowHolds
<1>1. LimiterInv => WindowHolds
  <2> SUFFICES ASSUME LimiterInv, NEW k \in Keys PROVE Len(Recent(tried[k])) <= MaxAttempts
    BY DEF WindowHolds
  <2>1. Recent(tried[k]) = Recent(attempts[k]) /\ Len(attempts[k]) <= MaxAttempts
    BY DEF LimiterInv, RecordInv, TypeOK
  <2>2. now \in Nat /\ attempts[k] \in Seq(Nat) /\ MaxAttempts \in Nat
    BY LimiterAssumption DEF LimiterInv, TypeOK
  <2>3. Len(Recent(attempts[k])) = Len(attempts[k]) - Gone(attempts[k], now)
        /\ Gone(attempts[k], now) \in 0..Len(attempts[k])
    BY <2>2, TrimmedFacts, GoneFacts DEF Recent
  <2>4. QED
    BY <2>1, <2>2, <2>3
<1>2. QED
  BY <1>1, LimiterInvariant, PTL

\* A client that waits as long as Retry-After told it finds neither a lockout nor
\* a full bucket in its way, provided lockouts are no shorter than the window.
THEOREM WaitingIsEnough == Spec => []RetryAfterIsHonest
<1>1. LimiterInv => RetryAfterIsHonest
  <2> SUFFICES ASSUME LimiterInv, NEW k \in Keys, promise[k] # NoPromise, now >= promise[k].until
               PROVE  /\ ~LockedOut(k)
                      /\ promise[k].by = "bucket" \/ LeastOf(base, LockoutMax) >= Window
                           => ~BucketFull(k)
    BY DEF RetryAfterIsHonest
  <2>1. TypeOK /\ RecordInv(k) /\ SentenceInv(k) /\ PromiseInv(k)
    BY DEF LimiterInv
  <2>2. /\ now \in Nat /\ attempts[k] \in Seq(Nat) /\ Len(attempts[k]) \in Nat
        /\ Len(attempts[k]) <= MaxAttempts /\ MaxAttempts \in Nat \ {0} /\ Window \in Nat
        /\ sentence[k].until \in Nat /\ sentence[k].length \in Nat /\ promise[k].until \in Nat
        /\ promise[k].by \in {"nothing", "lockout", "bucket"}
        /\ base \in Nat /\ LockoutMax \in Nat
    BY <2>1, LimiterAssumption DEF TypeOK
  <2>3. Len(Recent(attempts[k])) = Len(attempts[k]) - Gone(attempts[k], now)
    BY <2>2, TrimmedFacts DEF Recent
  <2>4. /\ Gone(attempts[k], now) \in 0..Len(attempts[k])
        /\ Gone(attempts[k], now) < Len(attempts[k])
             => attempts[k][Gone(attempts[k], now) + 1] > now - Window
    BY <2>2, GoneFacts
  <2> DEFINE n == Gone(attempts[k], now)
  <2> HIDE DEF n
  <2>5. CASE promise[k].by = "lockout"
    <3>1. /\ sentence[k] # NoSentence /\ sentence[k].until <= now
          /\ NoneAfter(attempts[k], sentence[k].until - sentence[k].length)
      BY <2>1, <2>2, <2>5 DEF PromiseInv
    <3>2. ~LockedOut(k)
      BY <2>1, <2>2, <3>1 DEF SentenceInv, LockedOut
    <3>3. ASSUME LeastOf(base, LockoutMax) >= Window
          PROVE  ~BucketFull(k)
      <4>1. LeastOf(base, LockoutMax) \in Nat
        BY <2>2 DEF LeastOf
      <4>2. sentence[k].until - sentence[k].length <= now - Window
        BY <2>1, <2>2, <3>1, <3>3, <4>1 DEF SentenceInv
      <4>3. n < Len(attempts[k]) => n + 1 \in 1..Len(attempts[k])
        BY <2>2, <2>4 DEF n
      <4>4. ~(n < Len(attempts[k]))
        <5>1. SUFFICES ASSUME n < Len(attempts[k]) PROVE FALSE
          OBVIOUS
        <5>2. attempts[k][n + 1] \in Nat /\ attempts[k][n + 1] > now - Window
          BY <2>2, <2>4, <4>3, <5>1 DEF n
        <5>3. attempts[k][n + 1] <= sentence[k].until - sentence[k].length
          BY <3>1, <4>3, <5>1 DEF NoneAfter
        <5>4. QED
          BY <2>2, <4>2, <5>2, <5>3
      <4>5. QED
        BY <2>2, <2>3, <2>4, <4>4 DEF BucketFull, n
    <3>4. QED
      BY <2>5, <3>2, <3>3
  <2>6. CASE promise[k].by = "bucket"
    <3>1. /\ lockouts[k] = 0
          /\ Len(attempts[k]) >= MaxAttempts => attempts[k][1] + Window <= promise[k].until
      BY <2>1, <2>6 DEF PromiseInv
    <3>2. ~LockedOut(k)
      BY <2>2, <3>1 DEF LockedOut
    <3>3. Len(attempts[k]) >= MaxAttempts => n # 0
      <4>1. SUFFICES ASSUME Len(attempts[k]) >= MaxAttempts, n = 0 PROVE FALSE
        OBVIOUS
      <4>2. n < Len(attempts[k]) /\ 1 \in 1..Len(attempts[k])
        BY <2>2, <4>1
      <4>3. attempts[k][n + 1] > now - Window
        BY <2>4, <4>2 DEF n
      <4>4. n + 1 = 1 /\ attempts[k][1] \in Nat
        BY <2>2, <4>1, <4>2
      <4>5. QED
        BY <2>2, <3>1, <4>1, <4>3, <4>4
    <3>4. ~BucketFull(k)
      <4>1. /\ n \in 0..Len(attempts[k])
            /\ Len(Recent(attempts[k])) = Len(attempts[k]) - n
        BY <2>3, <2>4 DEF n
      <4>2. ~(Len(attempts[k]) - n >= MaxAttempts)
        BY <2>2, <3>3, <4>1
      <4>3. QED
        BY <4>1, <4>2 DEF BucketFull
    <3>5. QED
      BY <3>2, <3>4
  <2>7. promise[k].by # "nothing"
    BY <2>1 DEF PromiseInv
  <2>8. QED
    BY <2>2, <2>5, <2>6, <2>7
<1>2. QED
  BY <1>1, LimiterInvariant, PTL

\* No password is verified before the unlock time, however many other addresses
\* make hit prune its dictionaries meanwhile.
THEOREM LockoutsAreServed == Spec => LockoutHolds
<1>1. LimiterInv /\ [Next]_vars =>
        [\A k \in Keys : WrongPassword(k) \/ RightPassword(k) => now >= sentence[k].until]_vars
  <2> SUFFICES ASSUME LimiterInv, NEW k \in Keys, WrongPassword(k) \/ RightPassword(k)
               PROVE  now >= sentence[k].until
    OBVIOUS
  <2>1. ~LockedOut(k) /\ ~BucketFull(k)
    BY DEF WrongPassword, RightPassword
  <2>2. sentence[k].until <= now /\ now \in Nat /\ sentence[k].until \in Nat
    BY <2>1, VerifiedAttempt DEF TypeOK
  <2>3. QED
    BY <2>2
<1>2. QED
  BY <1>1, LimiterInvariant, PTL DEF Spec, LockoutHolds

\* A wrong password the moment a lockout ends brings one that is no shorter,
\* provided the lockout left the streak alone.
THEOREM LockoutsEscalate == Spec => LockoutEscalates
<1> DEFINE Again(k) == /\ WrongPassword(k) /\ now = sentence[k].until
                       /\ sentence[k].length \in 1..(StreakReset - 1)
           Escalates(k) == /\ lockouts'[k] > now
                           /\ sentence'[k].length >= sentence[k].length
<1>1. LimiterInv /\ [Next]_vars => [\A k \in Keys : Again(k) => Escalates(k)]_vars
  <2> SUFFICES ASSUME LimiterInv, NEW k \in Keys, Again(k) PROVE Escalates(k)
    OBVIOUS
  <2>1. /\ TypeOK /\ SentenceInv(k) /\ now \in Nat /\ StreakReset \in Nat /\ MaxAttempts \in Nat
        /\ base \in Nat /\ streaks[k].count \in Nat /\ streaks[k].last \in Nat
        /\ sentence \in [Keys -> [until : Nat, length : Nat]]
    <3>1. TypeOK /\ SentenceInv(k)
      BY DEF LimiterInv
    <3>2. streaks[k] \in [count : Nat, last : 0..MaxTime] /\ now \in 1..MaxTime /\ base \in LockoutBases
      BY <3>1 DEF TypeOK
    <3>3. streaks[k].count \in Nat /\ streaks[k].last \in Nat /\ now \in Nat
      BY <3>2
    <3>4. StreakReset \in Nat /\ MaxAttempts \in Nat /\ base \in Nat
      BY <3>2, LimiterAssumption
    <3>5. QED
      BY <3>1, <3>3, <3>4 DEF TypeOK
  <2>2. sentence[k].length \in Nat
    BY <2>1
  <2>3. /\ streaks[k].count >= MaxAttempts
        /\ streaks[k].last = now - sentence[k].length
        /\ sentence[k].length = Penalty(streaks[k].count)
    BY <2>1 DEF SentenceInv
  <2>4. ~(streaks[k].last <= now - StreakReset) /\ now - streaks[k].last <= StreakReset
    BY <2>1, <2>2, <2>3
  <2>5. PICK table \in {streaks, PrunedStreaks} :
          LET streak == NextStreak(table[k])
              until == now + Penalty(streak)
          IN streak >= MaxAttempts =>
               /\ lockouts' = [HitLockouts(k) EXCEPT ![k] = until]
               /\ sentence' = [sentence EXCEPT ![k] =
                                 [until |-> until, length |-> Penalty(streak)]]
    <3>1. HitStreaks(k) \in {streaks, PrunedStreaks}
      BY DEF HitStreaks
    <3>2. QED
      BY <3>1, Zenon DEF WrongPassword
  <2> DEFINE n == streaks[k].count + 1
  <2>6. NextStreak(table[k]) = n
    <3>1. table[k] = streaks[k]
      BY <2>1, <2>4, <2>5, StreaksPruned
    <3>2. QED
      BY <2>4, <3>1 DEF NextStreak
  <2>7. n >= MaxAttempts /\ Penalty(streaks[k].count) <= Penalty(n) /\ Penalty(n) \in Nat
    <3>1. n \in Nat /\ n >= MaxAttempts
      BY <2>1, <2>3
    <3>2. Penalty(streaks[k].count) <= Penalty(n)
      BY <2>1, <2>3, PenaltyFacts
    <3> HIDE DEF n
    <3>3. Penalty(n) \in Nat
      BY <2>1, <3>1, PenaltyFacts
    <3>4. QED
      BY <3>1, <3>2, <3>3
  <2>8. HitLockouts(k) \in [Keys -> Nat]
    BY <2>1, VerifiedAttempt DEF WrongPassword
  <2> HIDE DEF n
  <2>9. /\ lockouts' = [HitLockouts(k) EXCEPT ![k] = now + Penalty(n)]
        /\ sentence' = [sentence EXCEPT ![k] = [until |-> now + Penalty(n), length |-> Penalty(n)]]
    BY <2>5, <2>6, <2>7, Zenon
  <2>10. lockouts'[k] = now + Penalty(n) /\ sentence'[k].length = Penalty(n)
    BY <2>1, <2>8, <2>9
  <2>11. QED
    BY <2>1, <2>2, <2>3, <2>7, <2>10
<1>2. QED
  BY <1>1, LimiterInvariant, PTL DEF Spec, LockoutEscalates

=============================================================================
