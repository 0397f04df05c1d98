-------------------------- MODULE LoginRateLimiter --------------------------
(***************************************************************************)
(* The limiter of the admin login (rate_limit.py) as POST /auth/login      *)
(* drives it (api/auth.py): a rolling window of attempts and an escalating *)
(* lockout per source address, in dictionaries that are pruned when they   *)
(* have grown large.  The route has no await between hit and the verdict   *)
(* on the password, so an attempt is one step.                             *)
(***************************************************************************)
EXTENDS Integers, Sequences, FiniteSets

CONSTANTS
  Keys,         \* source addresses
  MaxAttempts,  \* attempts per window, and the streak that locks out
  Window,       \* window_s, in ticks like every duration below
  LockoutBases, \* the values of lockout_base_s a limiter may be built with
  LockoutMax,   \* lockout_max_s
  StreakReset,  \* streak_reset_s
  Second,       \* ticks in a second
  PruneLimit,   \* the 4096 entries past which the dictionaries are pruned
  MaxTime       \* bound: ticks of the clock

ASSUME LimiterAssumption ==
  /\ {MaxAttempts, Window, LockoutMax, StreakReset, Second, MaxTime} \subseteq Nat \ {0}
  /\ LockoutBases \subseteq Nat \ {0}
  /\ PruneLimit \in Nat

VARIABLES
  now,       \* the monotonic clock
  attempts,  \* _attempts: times of the recorded attempts; <<>> is no entry
  streaks,   \* _streaks: consecutive failures and the last one's time
  lockouts,  \* _lockouts: unlock time; 0 is no entry
  base,      \* lockout_base_s
  tried,     \* history: passwords verified within the window since a success
  sentence,  \* history: the unlock time and length last imposed since a success
  promise    \* history: the end of the last Retry-After and what it was given for

vars == <<now, attempts, streaks, lockouts, base, tried, sentence, promise>>

NoStreak == [count |-> 0, last |-> 0]
NoSentence == [until |-> 0, length |-> 0]
NoPromise == [until |-> 0, by |-> "nothing"]

TypeOK ==
  /\ now \in 1..MaxTime
  /\ attempts \in [Keys -> Seq(Nat)]
  /\ \A k \in Keys : Len(attempts[k]) <= MaxAttempts
  /\ streaks \in [Keys -> [count : Nat, last : 0..MaxTime]]
  /\ lockouts \in [Keys -> Nat]
  /\ tried \in [Keys -> Seq(Nat)]
  /\ sentence \in [Keys -> [until : Nat, length : Nat]]
  /\ base \in LockoutBases
  /\ promise \in [Keys -> [until : Nat, by : {"nothing", "lockout", "bucket"}]]

Init ==
  /\ now = 1
  /\ attempts = [k \in Keys |-> <<>>]
  /\ streaks = [k \in Keys |-> NoStreak]
  /\ lockouts = [k \in Keys |-> 0]
  /\ tried = [k \in Keys |-> <<>>]
  /\ sentence = [k \in Keys |-> NoSentence]
  /\ base \in LockoutBases
  /\ promise = [k \in Keys |-> NoPromise]

InWindow(a) == a > now - Window

\* How many attempts popleft takes from a deque at time t: those before the first
\* one that is in the window.
Gone(times, t) ==
  CHOOSE n \in 0..Len(times) :
    /\ \A i \in 1..n : times[i] <= t - Window
    /\ n < Len(times) => times[n + 1] > t - Window

TrimmedAt(times, t) == SubSeq(times, Gone(times, t) + 1, Len(times))

Recent(times) == TrimmedAt(times, now)

-----------------------------------------------------------------------------
(***************************************************************************)
(* _prune_locked and _prune_streaks_locked                                 *)
(***************************************************************************)

\* Mutant of PrunedAttempts: a key goes with its first attempt, not its last.
MutPrunedAttempts ==
  [k \in Keys |-> IF attempts[k] # <<>> /\ ~InWindow(Head(attempts[k]))
                    THEN <<>> ELSE attempts[k]]

\* A key whose last attempt has left the window is forgotten.
PrunedAttempts ==
  [k \in Keys |-> IF attempts[k] # <<>> /\ ~InWindow(attempts[k][Len(attempts[k])])
                    THEN <<>> ELSE attempts[k]]

\* Mutant of PrunedLockouts: the comparison is the wrong way round.
MutPrunedLockouts == [k \in Keys |-> IF lockouts[k] >= now THEN 0 ELSE lockouts[k]]

PrunedLockouts == [k \in Keys |-> IF lockouts[k] <= now THEN 0 ELSE lockouts[k]]

PrunedStreaks ==
  [k \in Keys |-> IF streaks[k].last <= now - StreakReset THEN NoStreak ELSE streaks[k]]

\* A new key arrives while a dictionary is over its limit.
MustPrune(k) ==
  /\ attempts[k] = <<>>
  /\ \/ Cardinality({i \in Keys : attempts[i] # <<>>}) > PruneLimit
     \/ Cardinality({i \in Keys : streaks[i] # NoStreak}) > PruneLimit

-----------------------------------------------------------------------------
(***************************************************************************)
(* POST /auth/login                                                        *)
(***************************************************************************)

LockedOut(k) == lockouts[k] > now

BucketFull(k) == Len(Recent(attempts[k])) >= MaxAttempts

\* Mutant of CeilSeconds: int() instead of math.ceil.
MutCeilSeconds(ticks) == (ticks \div Second) * Second

\* Retry-After: math.ceil to whole seconds.
CeilSeconds(ticks) == ((ticks + Second - 1) \div Second) * Second

RetryAfter(k) ==
  CeilSeconds(IF LockedOut(k) THEN lockouts[k] - now
                              ELSE Head(Recent(attempts[k])) + Window - now)

\* hit refuses: 429.  A refused attempt is not recorded; a full bucket has
\* been trimmed and an expired lockout dropped on the way.
Reject(k) ==
  /\ LockedOut(k) \/ BucketFull(k)
  /\ attempts' = [attempts EXCEPT ![k] = IF LockedOut(k) THEN @ ELSE Recent(@)]
  /\ lockouts' = [lockouts EXCEPT ![k] = IF LockedOut(k) THEN @ ELSE 0]
  /\ promise' = [promise EXCEPT ![k] = [until |-> now + RetryAfter(k),
                                        by |-> IF LockedOut(k) THEN "lockout" ELSE "bucket"]]
  /\ UNCHANGED <<now, streaks, base, tried, sentence>>

\* What hit leaves behind when it lets the attempt through.
HitAttempts(k) ==
  IF MustPrune(k) THEN [PrunedAttempts EXCEPT ![k] = <<now>>]
                  ELSE [attempts EXCEPT ![k] = Append(Recent(@), now)]
HitLockouts(k) ==
  IF MustPrune(k) THEN PrunedLockouts ELSE [lockouts EXCEPT ![k] = 0]
HitStreaks(k) == IF MustPrune(k) THEN PrunedStreaks ELSE streaks

LeastOf(a, b) == IF a <= b THEN a ELSE b

\* b * 2 ** n
Doubled(b, n) == LET twice[i \in 0..n] == IF i = 0 THEN b ELSE 2 * twice[i - 1] IN twice[n]

\* Mutant of Penalty: the exponent counts the streak in rounds of max_attempts.
MutPenalty(streak) == LeastOf(Doubled(base, streak % MaxAttempts), LockoutMax)

\* The lockout doubles with every failure past the limit, up to LockoutMax.
Penalty(streak) == LeastOf(Doubled(base, streak - MaxAttempts), LockoutMax)

\* The streak a failure brings a key to.
NextStreak(s) == IF now - s.last <= StreakReset THEN s.count + 1 ELSE 1

\* hit, then a wrong password and record_failure: 401.
WrongPassword(k) ==
  /\ ~LockedOut(k) /\ ~BucketFull(k)
  /\ LET over   == Cardinality({i \in Keys : HitStreaks(k)[i] # NoStreak}) > PruneLimit
         table  == IF over THEN PrunedStreaks ELSE HitStreaks(k)
         streak == NextStreak(table[k])
         until  == now + Penalty(streak)
     IN /\ streaks' = [table EXCEPT ![k] = [count |-> streak, last |-> now]]
        /\ IF streak >= MaxAttempts
             THEN /\ lockouts' = [HitLockouts(k) EXCEPT ![k] = until]
                  /\ sentence' = [sentence EXCEPT ![k] =
                                    [until |-> until, length |-> Penalty(streak)]]
             ELSE lockouts' = HitLockouts(k) /\ UNCHANGED sentence
  /\ attempts' = HitAttempts(k)
  /\ tried' = [tried EXCEPT ![k] = Append(Recent(@), now)]
  /\ promise' = [promise EXCEPT ![k] = NoPromise]
  /\ UNCHANGED <<now, base>>

\* hit, then the right password and record_success: the key starts afresh.
RightPassword(k) ==
  /\ ~LockedOut(k) /\ ~BucketFull(k)
  /\ attempts' = [HitAttempts(k) EXCEPT ![k] = <<>>]
  /\ streaks' = [HitStreaks(k) EXCEPT ![k] = NoStreak]
  /\ lockouts' = [HitLockouts(k) EXCEPT ![k] = 0]
  /\ tried' = [tried EXCEPT ![k] = <<>>]
  /\ sentence' = [sentence EXCEPT ![k] = NoSentence]
  /\ promise' = [promise EXCEPT ![k] = NoPromise]
  /\ UNCHANGED <<now, base>>

Tick ==
  /\ now < MaxTime
  /\ now' = now + 1
  /\ UNCHANGED <<attempts, streaks, lockouts, base, tried, sentence, promise>>

Next ==
  \/ \E k \in Keys : Reject(k) \/ WrongPassword(k) \/ RightPassword(k)
  \/ Tick

Spec == Init /\ [][Next]_vars

-----------------------------------------------------------------------------
(***************************************************************************)
(* Properties.                                                             *)
(***************************************************************************)

\* No more than max_attempts passwords of one address are verified in a window
\* without a success between them, although hit trims and prunes the record it
\* counts from.
WindowHolds == \A k \in Keys : Len(Recent(tried[k])) <= MaxAttempts

\* A lockout is served in full: however many other addresses make hit prune its
\* dictionaries, no password of the address is verified before the unlock time.
LockoutHolds ==
  [][\A k \in Keys : WrongPassword(k) \/ RightPassword(k) => now >= sentence[k].until]_vars

\* Retry-After is honest: a client that waits as long as the 429 told it, while
\* nobody else logs in from its address, is let through: neither a lockout nor
\* the bucket stands in its way.  The exception is a lockout shorter than the
\* window, which may end while the bucket is full; the defaults are equal.
RetryAfterIsHonest ==
  \A k \in Keys : promise[k] # NoPromise /\ now >= promise[k].until =>
    /\ ~LockedOut(k)
    /\ promise[k].by = "bucket" \/ LeastOf(base, LockoutMax) >= Window => ~BucketFull(k)

\* "escalating lockout per IP on consecutive wrong passwords": a client that goes
\* on with wrong passwords the moment it is unlocked is locked out for at least
\* as long as before, provided the lockout was shorter than streak_reset_s (a
\* longer one outlives the streak that record_failure counts from, and after an
\* equal one the streak counts unless it has just been pruned).
LockoutEscalates ==
  [][\A k \in Keys :
       /\ WrongPassword(k) /\ now = sentence[k].until
       /\ sentence[k].length \in 1..(StreakReset - 1)
       => /\ lockouts'[k] > now
          /\ sentence'[k].length >= sentence[k].length]_vars

-----------------------------------------------------------------------------
(***************************************************************************)
(* The inductive invariant behind the properties.                          *)
(***************************************************************************)

Ordered(times) == \A i, j \in 1..Len(times) : i <= j => times[i] <= times[j]

NoneAfter(times, t) == \A i \in 1..Len(times) : times[i] <= t

\* Trimming and pruning leave of the record what the window still counts, and
\* that is what was verified since the last success.
RecordInv(k) ==
  /\ Ordered(attempts[k]) /\ NoneAfter(attempts[k], now)
  /\ Ordered(tried[k]) /\ NoneAfter(tried[k], now)
  /\ Recent(attempts[k]) = Recent(tried[k])

\* A sentence stands in the table until it is served, and nothing is verified
\* meanwhile; the streak it was given for is remembered until then, unless it
\* expires first.
SentenceInv(k) ==
  LET s == sentence[k] IN
    /\ lockouts[k] \in {0, s.until}
    /\ s # NoSentence => LeastOf(base, LockoutMax) <= s.length
    /\ s.length <= s.until
    /\ now < s.until =>
         /\ lockouts[k] = s.until
         /\ NoneAfter(attempts[k], s.until - s.length)
    /\ now <= s.until /\ s.length \in 1..(StreakReset - 1) =>
         /\ streaks[k].count >= MaxAttempts
         /\ streaks[k].last = s.until - s.length
         /\ s.length = Penalty(streaks[k].count)

\* A promise covers whatever made hit refuse, as long as the client waits.
PromiseInv(k) ==
  /\ promise[k].by = "nothing" => promise[k] = NoPromise
  /\ promise[k].by = "lockout" =>
       /\ sentence[k] # NoSentence
       /\ sentence[k].until <= promise[k].until
       /\ NoneAfter(attempts[k], sentence[k].until - sentence[k].length)
  /\ promise[k].by = "bucket" =>
       /\ lockouts[k] = 0
       /\ Len(attempts[k]) >= MaxAttempts => attempts[k][1] + Window <= promise[k].until

LimiterInv == TypeOK /\ \A k \in Keys : RecordInv(k) /\ SentenceInv(k) /\ PromiseInv(k)
=============================================================================
