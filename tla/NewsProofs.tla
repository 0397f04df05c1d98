----------------------------- MODULE NewsProofs -----------------------------
(***************************************************************************)
(* Proofs about News.  First its digests: the lock of a DigestCache is     *)
(* never stranded, and no digest gets worse, in memory while a process     *)
(* lives or on disk while the processes take turns.  All three follow from *)
(* DigestInv.  The lock is a queue that one task joins and leaves at a     *)
(* time (AppendQueue, RemoveQueue), so a step is good for the lock when it *)
(* is good for the one task it changes (LockKept).  A digest is compared   *)
(* with the one in memory when it is fetched and reaches the memory two    *)
(* steps later; MemoryInv holds in between because only the holder of the  *)
(* lock writes the memory, and DiskInv carries it to the file because a    *)
(* process that is alone has on disk what it has in memory, but for the    *)
(* digests it could not read.                                              *)
(*                                                                         *)
(* Then its feed list: what the user did to a feed stays, by IntentInv.    *)
(* The recursive functions of Migrated and Without are tables              *)
(* (MigrationSteps, WithoutKeeps), over which UpTo is the induction.  Each *)
(* turn of the migrations keeps to the user's wish (TurnIsFaithful), so    *)
(* the migrated document respects it (MigratedMoves, MovedRespects), so do *)
(* the saves of an operation (SavesOfRespect), and so does the file when   *)
(* they are made (StoreSavesKeepsIntent).  A wish that the user expresses  *)
(* by hand is one that no later migration undoes, because the document has *)
(* nothing left to migrate (FixedIsCalm).                                  *)
(***************************************************************************)
EXTENDS News, SequenceTheorems, FiniteSetTheorems, TLAPS

\* A task that is not in the queue goes to its end.
LEMMA AppendQueue ==
  ASSUME NEW S, NEW q \in Queues(S), NEW j \in S, j \notin ToSet(q)
  PROVE  /\ Append(q, j) \in Queues(S)
         /\ ToSet(Append(q, j)) = ToSet(q) \cup {j}
         /\ Append(q, j) # <<>>
         /\ q # <<>> => Head(Append(q, j)) = Head(q)
<1>1. q \in Seq(S) /\ \A i, k \in 1..Len(q) : q[i] = q[k] => i = k
  BY DEF Queues
<1>2. \A i \in 1..Len(q) : q[i] # j
  BY <1>1 DEF ToSet
<1>3. Append(q, j) \in Seq(S) /\ Len(Append(q, j)) = Len(q) + 1
  BY <1>1
<1>4. Append(q, j)[Len(q) + 1] = j /\ \A i \in 1..Len(q) : Append(q, j)[i] = q[i]
  BY <1>1
<1>5. \A i, k \in 1..(Len(q) + 1) : Append(q, j)[i] = Append(q, j)[k] => i = k
  BY <1>1, <1>2, <1>4
<1>6. ToSet(Append(q, j)) = ToSet(q) \cup {j}
  <2> DEFINE r == Append(q, j)
  <2>1. /\ DOMAIN q = 1..Len(q) /\ DOMAIN r = 1..(Len(q) + 1) /\ Len(q) \in Nat
        /\ r[Len(q) + 1] = j /\ \A i \in 1..Len(q) : r[i] = q[i]
    BY <1>1, <1>3, <1>4
  <2> HIDE DEF r
  <2>2. \A x \in ToSet(r) : x \in ToSet(q) \cup {j}
    BY <2>1 DEF ToSet
  <2>3. \A x \in ToSet(q) \cup {j} : x \in ToSet(r)
    BY <2>1 DEF ToSet
  <2>4. QED
    BY <2>2, <2>3 DEF r
<1>7. Append(q, j) # <<>> /\ (q # <<>> => Head(Append(q, j)) = Head(q))
  <2>1. Append(q, j) # <<>>
    <3>1. Len(Append(q, j)) # 0 /\ Len(<<>>) = 0
      BY <1>1, <1>3
    <3>2. QED
      BY <3>1, Zenon
  <2>2. ASSUME q # <<>> PROVE Head(Append(q, j)) = Head(q)
    <3>1. 1 \in 1..Len(q) /\ Head(q) = q[1]
      BY <1>1, <2>2
    <3>2. Head(Append(q, j)) = Append(q, j)[1]
      BY <1>3
    <3>3. QED
      BY <1>4, <3>1, <3>2
  <2>3. QED
    BY <2>1, <2>2
<1>8. QED
  BY <1>3, <1>5, <1>6, <1>7 DEF Queues

\* A sequence without the element at n.
LEMMA RemoveAtIs ==
  ASSUME NEW S, NEW q \in Seq(S), NEW n \in 1..Len(q)
  PROVE  /\ RemoveAt(q, n) \in Seq(S) /\ Len(RemoveAt(q, n)) = Len(q) - 1
         /\ \A i \in 1..Len(RemoveAt(q, n)) : RemoveAt(q, n)[i] = IF i < n THEN q[i] ELSE q[i + 1]
<1> DEFINE a == SubSeq(q, 1, n - 1)
           b == SubSeq(q, n + 1, Len(q))
           r == RemoveAt(q, n)
<1>0. Len(q) \in Nat
  OBVIOUS
<1>1. a \in Seq(S) /\ Len(a) = n - 1 /\ \A i \in 1..(n - 1) : a[i] = q[i]
  BY <1>0, SubSeqProperties
<1>2. b \in Seq(S) /\ Len(b) = Len(q) - n /\ \A i \in 1..(Len(q) - n) : b[i] = q[n + i]
  BY <1>0, SubSeqProperties
<1>3. r = a \o b
  BY DEF RemoveAt
<1> HIDE DEF a, b, r
<1>4. /\ r \in Seq(S) /\ Len(r) = Len(a) + Len(b)
      /\ \A i \in 1..(Len(a) + Len(b)) : r[i] = IF i <= Len(a) THEN a[i] ELSE b[i - Len(a)]
  BY <1>1, <1>2, <1>3, ConcatProperties
<1>5. Len(r) = Len(q) - 1
  BY <1>0, <1>1, <1>2, <1>4
<1>6. ASSUME NEW i \in 1..Len(r) PROVE r[i] = IF i < n THEN q[i] ELSE q[i + 1]
  <2>1. CASE i < n
    BY <1>0, <1>1, <1>2, <1>4, <1>5, <2>1
  <2>2. CASE ~(i < n)
    <3>1. i - (n - 1) \in 1..(Len(q) - n) /\ n + (i - (n - 1)) = i + 1 /\ ~(i <= Len(a)) /\ Len(a) = n - 1
      BY <1>0, <1>1, <1>5, <2>2
    <3>2. r[i] = b[i - (n - 1)]
      BY <1>1, <1>2, <1>4, <3>1
    <3>3. b[i - (n - 1)] = q[n + (i - (n - 1))]
      BY <1>2, <3>1
    <3>4. QED
      BY <2>2, <3>1, <3>2, <3>3
  <2>3. QED
    BY <2>1, <2>2
<1>7. QED
  BY <1>4, <1>5, <1>6 DEF r

\* A task that leaves takes nobody along, and does not pass the first one.
LEMMA RemoveQueue ==
  ASSUME NEW S, NEW q \in Queues(S), NEW j
  PROVE  /\ RemoveFirst(q, j) \in Queues(S)
         /\ ToSet(RemoveFirst(q, j)) \subseteq ToSet(q) \ {j}
         /\ q # <<>> /\ Head(q) # j => RemoveFirst(q, j) # <<>> /\ Head(RemoveFirst(q, j)) = Head(q)
<1>1. q \in Seq(S) /\ Len(q) \in Nat /\ \A i, k \in 1..Len(q) : q[i] = q[k] => i = k
  BY DEF Queues
<1>2. CASE ~\E i \in 1..Len(q) : q[i] = j
  <2>1. RemoveFirst(q, j) = q
    BY <1>2 DEF RemoveFirst
  <2>2. j \notin ToSet(q)
    BY <1>1, <1>2 DEF ToSet
  <2>3. QED
    BY <2>1, <2>2
<1>3. CASE \E i \in 1..Len(q) : q[i] = j
  <2>1. PICK n \in 1..Len(q) : q[n] = j
    BY <1>3
  <2>2. {i \in 1..Len(q) : q[i] = j} = {n}
    BY <1>1, <2>1
  <2>3. Min({n}) = n
    BY <1>1, <2>1 DEF Min
  <2>4. SelectInSeq(q, LAMBDA v : v = j) = n
    BY <2>2, <2>3 DEF SelectInSeq
  <2>5. RemoveFirst(q, j) = RemoveAt(q, n)
    BY <1>3, <2>4 DEF RemoveFirst
  <2> DEFINE r == RemoveAt(q, n)
  <2>6. /\ r \in Seq(S) /\ Len(r) = Len(q) - 1
        /\ \A i \in 1..Len(r) : r[i] = IF i < n THEN q[i] ELSE q[i + 1]
    BY <1>1, <2>1, RemoveAtIs
  <2> HIDE DEF r
  <2>7. \A i, k \in 1..Len(r) : r[i] = r[k] => i = k
    <3> DEFINE at(i) == IF i < n THEN i ELSE i + 1
    <3>1. \A i \in 1..Len(r) : at(i) \in 1..Len(q) /\ r[i] = q[at(i)]
      BY <1>1, <2>1, <2>6
    <3>2. \A i, k \in 1..Len(r) : at(i) = at(k) => i = k
      BY <1>1, <2>1, <2>6
    <3> HIDE DEF at
    <3>3. QED
      BY <1>1, <3>1, <3>2
  <2>8. ToSet(r) \subseteq ToSet(q) \ {j}
    <3>1. \A i \in 1..Len(r) : \E k \in 1..Len(q) : k # n /\ r[i] = q[k]
      BY <1>1, <2>1, <2>6
    <3>2. \A i \in 1..Len(r) : r[i] # j /\ \E k \in 1..Len(q) : r[i] = q[k]
      BY <1>1, <2>1, <3>1
    <3>3. DOMAIN r = 1..Len(r) /\ DOMAIN q = 1..Len(q)
      BY <1>1, <2>6
    <3>4. QED
      BY <3>2, <3>3 DEF ToSet
  <2>9. q # <<>> /\ Head(q) # j => r # <<>> /\ Head(r) = Head(q)
    BY <1>1, <2>1, <2>6
  <2>10. QED
    BY <2>5, <2>6, <2>7, <2>8, <2>9 DEF Queues, r
<1>4. QED
  BY <1>2, <1>3

-----------------------------------------------------------------------------
\* The tasks of a process, by name.
LEMMA ProcessFacts ==
  /\ \A j \in Job : ProcessOf(j) \in Process
  /\ \A p \in Process : \A j : j \in JobsOf(p) <=> j \in Job /\ ProcessOf(j) = p
  /\ \A p \in Process : TimerOf(p) \in JobsOf(p) /\ JobsOf(p) \subseteq Job
  /\ "call" \in JobsOf("server") /\ "nobody" \notin Job
  BY DEF Job, Process, ProcessOf, JobsOf, TimerOf

\* A task that has just begun, or ended.
LEMMA FreshTasks ==
  ASSUME DigestTypes, NEW todo \in Seq(Todo)
  PROVE  /\ EmptyPayload \in Past
         /\ Idle \in Task /\ Idle.pc = "idle"
         /\ [Idle EXCEPT !.pc = "load", !.todo = todo] \in Task
         /\ [Idle EXCEPT !.pc = "load", !.todo = todo].pc = "load"
         /\ [Idle EXCEPT !.pc = "load", !.todo = todo].todo = todo
         /\ [Idle EXCEPT !.pc = "tool", !.todo = todo] \in Task
         /\ [Idle EXCEPT !.pc = "tool", !.todo = todo].pc = "tool"
<1>1. EmptyPayload \in Past
  BY DEF EmptyPayload, Past, DigestTypes
<1>2. <<>> \in Seq(Todo)
  OBVIOUS
<1>3. Idle \in Task /\ Idle.pc = "idle"
  BY <1>1, <1>2 DEF Idle, Task
<1>4. /\ [Idle EXCEPT !.pc = "load", !.todo = todo] \in Task
      /\ [Idle EXCEPT !.pc = "tool", !.todo = todo] \in Task
  BY <1>1 DEF Idle, Task
<1>5. /\ [Idle EXCEPT !.pc = "load", !.todo = todo].pc = "load"
      /\ [Idle EXCEPT !.pc = "load", !.todo = todo].todo = todo
      /\ [Idle EXCEPT !.pc = "tool", !.todo = todo].pc = "tool"
  BY DEF Idle
<1>6. QED
  BY <1>1, <1>3, <1>4, <1>5

\* What Ends does: the task is idle and out of the queue.
LEMMA EndsEffect ==
  ASSUME DigestTypes, NEW j \in Job, Ends(j)
  PROVE  /\ job' \in [Job -> Task]
         /\ job'[j] = Idle /\ \A k \in Job \ {j} : job'[k] = job[k]
         /\ LockTypes'
         /\ \A p \in Process : ToSet(lock'[p]) \subseteq ToSet(lock[p]) \ {j}
         /\ \A p \in Process : lock[p] # <<>> /\ Head(lock[p]) # j
                                 => lock'[p] # <<>> /\ Head(lock'[p]) = Head(lock[p])
<1>1. Idle \in Task
  BY FreshTasks, EmptySeq
<1>2. job' \in [Job -> Task] /\ job'[j] = Idle /\ \A k \in Job \ {j} : job'[k] = job[k]
  BY <1>1 DEF Ends, DigestTypes
<1> DEFINE o == ProcessOf(j)
<1>3. o \in Process /\ lock' = [lock EXCEPT ![o] = RemoveFirst(@, j)]
  BY ProcessFacts DEF Ends, Released
<1>4. /\ lock \in [Process -> Seq(Job)] /\ \A p \in Process : lock[p] \in Queues(JobsOf(p))
  BY DEF DigestTypes, LockTypes
<1>5. ASSUME NEW p \in Process
      PROVE  /\ lock'[p] \in Queues(JobsOf(p))
             /\ ToSet(lock'[p]) \subseteq ToSet(lock[p]) \ {j}
             /\ lock[p] # <<>> /\ Head(lock[p]) # j
                  => lock'[p] # <<>> /\ Head(lock'[p]) = Head(lock[p])
  <2>1. CASE p = o
    BY <1>3, <1>4, <2>1, RemoveQueue
  <2>2. CASE p # o
    <3>1. lock'[p] = lock[p]
      BY <1>3, <1>4, <2>2
    <3>2. j \notin JobsOf(p)
      BY <2>2, ProcessFacts
    <3>3. ToSet(lock[p]) \subseteq JobsOf(p)
      BY <1>4 DEF Queues, ToSet
    <3>4. QED
      BY <1>4, <3>1, <3>2, <3>3
  <2>3. QED
    BY <2>1, <2>2
<1>6. lock' \in [Process -> Seq(Job)]
  <2>1. \A p \in Process : lock'[p] \in Seq(Job)
    BY <1>5, ProcessFacts DEF Queues
  <2>2. QED
    BY <1>3, <1>4, <2>1
<1>7. QED
  BY <1>2, <1>5, <1>6 DEF LockTypes

\* What Queue does: the task loads and is the last of its queue.
LEMMA QueueEffect ==
  ASSUME DigestTypes, NEW j \in Job, NEW todo \in Seq(Digest), todo # <<>>, Queue(j, todo),
         j \notin ToSet(lock[ProcessOf(j)])
  PROVE  /\ job' \in [Job -> Task]
         /\ job'[j].pc = "load" /\ job'[j].todo = todo /\ \A k \in Job \ {j} : job'[k] = job[k]
         /\ LockTypes'
         /\ \A p \in Process : ToSet(lock'[p]) \subseteq ToSet(lock[p]) \cup {j}
         /\ \A p \in Process : lock[p] # <<>> => lock'[p] # <<>> /\ Head(lock'[p]) = Head(lock[p])
<1>1. todo \in Seq(Todo)
  BY DEF Todo
<1>2. job' \in [Job -> Task] /\ job'[j].pc = "load" /\ job'[j].todo = todo /\ \A k \in Job \ {j} : job'[k] = job[k]
  <2> DEFINE r == [Idle EXCEPT !.pc = "load", !.todo = todo]
  <2>1. r \in Task /\ r.pc = "load" /\ r.todo = todo
    BY <1>1, FreshTasks
  <2>2. job' = [job EXCEPT ![j] = r]
    BY DEF Queue
  <2> HIDE DEF r
  <2>3. QED
    BY <2>1, <2>2 DEF DigestTypes
<1> DEFINE o == ProcessOf(j)
<1>3. o \in Process /\ j \in JobsOf(o) /\ lock' = [lock EXCEPT ![o] = Append(@, j)]
  BY ProcessFacts DEF Queue
<1>4. /\ lock \in [Process -> Seq(Job)] /\ \A p \in Process : lock[p] \in Queues(JobsOf(p))
  BY DEF DigestTypes, LockTypes
<1>5. ASSUME NEW p \in Process
      PROVE  /\ lock'[p] \in Queues(JobsOf(p))
             /\ ToSet(lock'[p]) \subseteq ToSet(lock[p]) \cup {j}
             /\ lock[p] # <<>> => lock'[p] # <<>> /\ Head(lock'[p]) = Head(lock[p])
  <2>1. CASE p = o
    BY <1>3, <1>4, <2>1, AppendQueue
  <2>2. CASE p # o
    BY <1>3, <1>4, <2>2
  <2>3. QED
    BY <2>1, <2>2
<1>6. lock' \in [Process -> Seq(Job)]
  <2>1. \A p \in Process : lock'[p] \in Seq(Job)
    BY <1>5, ProcessFacts DEF Queues
  <2>2. QED
    BY <1>3, <1>4, <2>1
<1>7. QED
  BY <1>2, <1>5, <1>6 DEF LockTypes

\* What StoreReads does: the task has the store's operation.
LEMMA StoreReadsEffect ==
  ASSUME DigestTypes, NEW j \in Job, NEW kind, NEW url, StoreReads(j, kind, url)
  PROVE  /\ count' \in [fetches : Nat, refreshes : Nat, events : Nat] /\ count'.fetches = count.fetches
         /\ StoreTypes'
         /\ store'[ProcessOf(j)].by = j
         /\ \A p \in Process \ {ProcessOf(j)} : store'[p] = store[p]
         /\ UNCHANGED <<disk, live, mem, lock, job, threads, alone, unread>>
<1> DEFINE o == ProcessOf(j)
<1>1. \E saves, on : store' = [store EXCEPT ![o] = [by |-> j, kind |-> kind, url |-> url, saves |-> saves, on |-> on]]
  BY Zenon DEF StoreReads
<1>2. PICK saves, on : store' = [store EXCEPT ![o] = [by |-> j, kind |-> kind, url |-> url, saves |-> saves, on |-> on]]
  BY <1>1
<1>3. o \in Process /\ j \in JobsOf(o)
  BY ProcessFacts
<1>4. DOMAIN store = Process /\ \A p \in Process : IsOperation(store[p]) /\ store[p].by \in JobsOf(p) \cup {"nobody"}
  BY DEF DigestTypes, StoreTypes
<1> DEFINE r == [by |-> j, kind |-> kind, url |-> url, saves |-> saves, on |-> on]
<1>5. IsOperation(r) /\ r.by = j
  BY DEF IsOperation
<1>6. store' = [store EXCEPT ![o] = r]
  BY <1>2
<1> HIDE DEF r
<1>7. DOMAIN store' = Process /\ store'[o] = r /\ \A p \in Process \ {o} : store'[p] = store[p]
  BY <1>3, <1>4, <1>6
<1>8. StoreTypes'
  BY <1>3, <1>4, <1>5, <1>7 DEF StoreTypes
<1>9. \E n \in {0, 1} : count' = [count EXCEPT !.events = @ + n]
  BY DEF StoreReads
<1>10. count' \in [fetches : Nat, refreshes : Nat, events : Nat] /\ count'.fetches = count.fetches
  BY <1>9 DEF DigestTypes
<1>11. UNCHANGED <<disk, live, mem, lock, job, threads, alone, unread>>
  BY DEF StoreReads
<1>12. QED
  BY <1>5, <1>7, <1>8, <1>10, <1>11

\* An operation of nobody, as after its last save.
LEMMA NoOperationEffect ==
  ASSUME DigestTypes, NEW p \in Process, store' = [store EXCEPT ![p] = NoOperation]
  PROVE  StoreTypes' /\ store'[p].by = "nobody" /\ \A q \in Process \ {p} : store'[q] = store[q]
<1>1. DOMAIN store = Process /\ \A q \in Process : IsOperation(store[q]) /\ store[q].by \in JobsOf(q) \cup {"nobody"}
  BY DEF DigestTypes, StoreTypes
<1>2. IsOperation(NoOperation) /\ NoOperation.by = "nobody"
  BY DEF IsOperation, NoOperation
<1>3. DOMAIN store' = Process /\ store'[p] = NoOperation /\ \A q \in Process \ {p} : store'[q] = store[q]
  BY <1>1
<1>4. QED
  BY <1>1, <1>2, <1>3 DEF StoreTypes

\* Cancelled tasks leave their operation to nobody.
LEMMA DisownedEffect ==
  ASSUME DigestTypes, NEW p \in Process, NEW js, store' = Disowned(p, js)
  PROVE  /\ StoreTypes'
         /\ store'[p].by = IF store[p].by \in js THEN "nobody" ELSE store[p].by
         /\ \A q \in Process \ {p} : store'[q] = store[q]
<1>1. DOMAIN store = Process /\ \A q \in Process : IsOperation(store[q]) /\ store[q].by \in JobsOf(q) \cup {"nobody"}
  BY DEF DigestTypes, StoreTypes
<1> DEFINE s == store[p]
           b == IF s.by \in js THEN "nobody" ELSE s.by
           r == [s EXCEPT !.by = b]
<1>2. store' = [store EXCEPT ![p] = r]
  BY <1>1 DEF Disowned
<1>3. s = [by |-> s.by, kind |-> s.kind, url |-> s.url, saves |-> s.saves, on |-> s.on]
  BY <1>1 DEF IsOperation
<1>4. r = [by |-> b, kind |-> s.kind, url |-> s.url, saves |-> s.saves, on |-> s.on]
  <2> HIDE DEF s, b
  <2>1. QED
    BY <1>3
<1>5. IsOperation(r) /\ r.by = b
  <2> HIDE DEF s, b, r
  <2>1. QED
    BY <1>4 DEF IsOperation
<1> HIDE DEF r
<1>6. DOMAIN store' = Process /\ store'[p] = r /\ \A q \in Process \ {p} : store'[q] = store[q]
  BY <1>1, <1>2
<1>7. b \in JobsOf(p) \cup {"nobody"}
  BY <1>1
<1> HIDE DEF b
<1>8. QED
  BY <1>1, <1>5, <1>6, <1>7 DEF StoreTypes, b

\* A save changes what is left to save only.
LEMMA SavesEffect ==
  ASSUME DigestTypes, NEW p \in Process, store' = [store EXCEPT ![p].saves = Tail(@)]
  PROVE  StoreTypes' /\ \A q \in Process : store'[q].by = store[q].by
<1>1. DOMAIN store = Process /\ \A q \in Process : IsOperation(store[q]) /\ store[q].by \in JobsOf(q) \cup {"nobody"}
  BY DEF DigestTypes, StoreTypes
<1> DEFINE s == store[p]
           t == Tail(s.saves)
           r == [s EXCEPT !.saves = t]
<1>2. store' = [store EXCEPT ![p] = r]
  BY <1>1
<1>3. s = [by |-> s.by, kind |-> s.kind, url |-> s.url, saves |-> s.saves, on |-> s.on]
  BY <1>1 DEF IsOperation
<1>4. r = [by |-> s.by, kind |-> s.kind, url |-> s.url, saves |-> t, on |-> s.on]
  <2> HIDE DEF s, t
  <2>1. QED
    BY <1>3
<1>5. IsOperation(r) /\ r.by = s.by
  <2> HIDE DEF s, t, r
  <2>1. QED
    BY <1>4 DEF IsOperation
<1> HIDE DEF r, t
<1>6. DOMAIN store' = Process /\ store'[p] = r /\ \A q \in Process \ {p} : store'[q] = store[q]
  BY <1>1, <1>2
<1>7. QED
  BY <1>1, <1>5, <1>6 DEF StoreTypes

\* The end of a process.
LEMMA EndedEffect ==
  ASSUME DigestTypes, NEW p \in Process, Ended(p)
  PROVE  /\ live' = live \ {p}
         /\ job' \in [Job -> Task]
         /\ \A j \in JobsOf(p) : job'[j] = Idle
         /\ \A j \in Job \ JobsOf(p) : job'[j] = job[j]
         /\ LockTypes' /\ lock'[p] = <<>> /\ \A q \in Process \ {p} : lock'[q] = lock[q]
         /\ mem' \in [Process -> [Digest -> Past]]
         /\ \A q \in Process \ {p} : mem'[q] = mem[q]
<1>1. Idle \in Task /\ EmptyPayload \in Past
  BY FreshTasks, EmptySeq
<1>2. /\ job' \in [Job -> Task]
      /\ \A j \in JobsOf(p) : job'[j] = Idle
      /\ \A j \in Job \ JobsOf(p) : job'[j] = job[j]
  BY <1>1, ProcessFacts DEF Ended, DigestTypes
<1>3. <<>> \in Queues(JobsOf(p)) /\ <<>> \in Seq(Job)
  BY DEF Queues
<1>4. LockTypes' /\ lock'[p] = <<>> /\ \A q \in Process \ {p} : lock'[q] = lock[q]
  BY <1>3 DEF Ended, DigestTypes, LockTypes
<1>5. mem' \in [Process -> [Digest -> Past]] /\ \A q \in Process \ {p} : mem'[q] = mem[q]
  BY <1>1 DEF Ended, DigestTypes
<1>6. QED
  BY <1>2, <1>4, <1>5 DEF Ended

\* StoreReturns: a refresh goes on to the fetch, a tool to its next operation.
LEMMA StoreReturnsEffect ==
  ASSUME DigestTypes, NEW j \in Job, StoreReturns(j), job[j].todo # <<>>
  PROVE  /\ job' \in [Job -> Task]
         /\ job[j].pc = "load" => job'[j].pc = "fetch" /\ job'[j].todo = job[j].todo
         /\ job[j].pc # "load" =>
              \/ job'[j] = Idle
              \/ /\ job'[j].pc = job[j].pc /\ job'[j].todo # <<>>
                 /\ ToSet(job'[j].todo) \subseteq ToSet(job[j].todo)
         /\ \A k \in Job \ {j} : job'[k] = job[k]
         /\ StoreTypes' /\ store[ProcessOf(j)].by = j /\ store'[ProcessOf(j)].by = "nobody"
         /\ \A p \in Process \ {ProcessOf(j)} : store'[p] = store[p]
<1> DEFINE o == ProcessOf(j)
<1>1. o \in Process
  BY ProcessFacts
<1>2. StoreTypes' /\ store[o].by = j /\ store'[o].by = "nobody" /\ \A p \in Process \ {o} : store'[p] = store[p]
  BY <1>1, NoOperationEffect DEF StoreReturns
<1>3. job \in [Job -> Task] /\ job[j] \in Task
  BY DEF DigestTypes
<1>4. CASE job[j].pc = "load"
  <2> DEFINE h == HasFeeds(Head(job[j].todo), store[o].on)
             r == [job[j] EXCEPT !.pc = "fetch", !.feeds = h]
  <2>1. h \in BOOLEAN
    BY DEF HasFeeds
  <2>2. job' = [job EXCEPT ![j] = r]
    BY <1>3, <1>4 DEF StoreReturns
  <2> HIDE DEF h
  <2>3. r \in Task
    BY <1>3, <2>1 DEF Task
  <2>4. r.pc = "fetch" /\ r.todo = job[j].todo
    BY <1>3 DEF Task
  <2> HIDE DEF r
  <2>5. QED
    BY <1>2, <1>3, <1>4, <2>2, <2>3, <2>4
<1>5. CASE job[j].pc # "load"
  <2>1. CASE Len(job[j].todo) = 1
    <3>1. job' = [job EXCEPT ![j] = Idle]
      BY <1>5, <2>1, Zenon DEF StoreReturns
    <3>2. Idle \in Task
      BY FreshTasks, EmptySeq
    <3>3. job' \in [Job -> Task] /\ job'[j] = Idle /\ \A k \in Job \ {j} : job'[k] = job[k]
      BY <1>3, <3>1, <3>2
    <3>4. QED
      BY <1>2, <1>5, <3>3, Zenon
  <2>2. CASE Len(job[j].todo) # 1
    <3> DEFINE t == Tail(job[j].todo)
               r == [job[j] EXCEPT !.todo = t]
    <3>1. job' = [job EXCEPT ![j] = r]
      BY <1>3, <1>5, <2>2 DEF StoreReturns
    <3>2. job[j].todo \in Seq(Todo)
      BY <1>3 DEF Task
    <3>3. t \in Seq(Todo) /\ t # <<>> /\ ToSet(t) \subseteq ToSet(job[j].todo)
      <4> DEFINE q == job[j].todo
      <4>1. q \in Seq(Todo) /\ q # <<>> /\ Len(q) # 1
        BY <2>2, <3>2
      <4> HIDE DEF q
      <4>2. Tail(q) \in Seq(Todo) /\ Len(Tail(q)) = Len(q) - 1
        BY <4>1, HeadTailProperties
      <4>3. Len(q) \in Nat \ {0}
        BY <4>1, EmptySeq
      <4>4. Tail(q) # <<>>
        <5>1. Len(Tail(q)) # 0
          BY <4>1, <4>2, <4>3
        <5>2. Len(<<>>) = 0
          OBVIOUS
        <5>3. QED
          BY <5>1, <5>2, Zenon
      <4>5. ToSet(Tail(q)) \subseteq ToSet(q)
        <5>1. \A i \in 1..Len(Tail(q)) : i + 1 \in 1..Len(q) /\ Tail(q)[i] = q[i + 1]
          BY <4>1, <4>2, <4>3, HeadTailProperties
        <5>2. DOMAIN Tail(q) = 1..Len(Tail(q)) /\ DOMAIN q = 1..Len(q)
          BY <4>1, <4>2
        <5>3. QED
          BY <5>1, <5>2 DEF ToSet
      <4>6. QED
        BY <4>2, <4>4, <4>5 DEF q
    <3> HIDE DEF t
    <3>4. r \in Task
      BY <1>3, <3>3 DEF Task
    <3>5. r.pc = job[j].pc /\ r.todo = t
      BY <1>3 DEF Task
    <3> HIDE DEF r
    <3>6. QED
      BY <1>2, <1>3, <1>5, <3>1, <3>3, <3>4, <3>5
  <2>3. QED
    BY <2>1, <2>2
<1>6. QED
  BY <1>4, <1>5

\* Fetch: the digest to write is the new one, or the old one when that is empty.
LEMMA FetchEffect ==
  ASSUME DigestTypes, NEW j \in Job, Fetch(j), Head(job[j].todo) \in Digest
  PROVE  /\ count' \in [fetches : Nat, refreshes : Nat, events : Nat] /\ count'.fetches >= count.fetches
         /\ job' \in [Job -> Task']
         /\ job'[j].pc = "write" /\ job'[j].todo = job[j].todo
         /\ NoWorse(mem[ProcessOf(j)][Head(job[j].todo)], job'[j].payload)
         /\ \A k \in Job \ {j} : job'[k] = job[k]
<1> DEFINE o == ProcessOf(j)
           d == Head(job[j].todo)
           old == mem[o][d]
<1>0. /\ count \in [fetches : Nat, refreshes : Nat, events : Nat]
      /\ job \in [Job -> Task] /\ job[j] \in Task /\ old \in Past
  BY ProcessFacts DEF DigestTypes
<1>1. PICK n \in Fetched(job[j].feeds) : \E c \in Curated(n) :
        LET at == IF c > 0 THEN count.fetches + 1 ELSE 0
        IN  /\ job' = [job EXCEPT ![j].pc = "write", ![j].feeds = FALSE,
                         ![j].payload = Kept(old, [at |-> at, items |-> c])]
            /\ count' = [count EXCEPT !.fetches = IF c > 0 THEN at ELSE @]
  BY Zenon DEF Fetch
<1>2. PICK c \in Curated(n) :
        LET at == IF c > 0 THEN count.fetches + 1 ELSE 0
        IN  /\ job' = [job EXCEPT ![j].pc = "write", ![j].feeds = FALSE,
                         ![j].payload = Kept(old, [at |-> at, items |-> c])]
            /\ count' = [count EXCEPT !.fetches = IF c > 0 THEN at ELSE @]
  BY <1>1, Zenon
<1>3. c \in Nat
  BY DEF Fetched, Curated, Selected
<1> DEFINE at == IF c > 0 THEN count.fetches + 1 ELSE 0
           new == [at |-> at, items |-> c]
           pay == Kept(old, new)
           r == [job[j] EXCEPT !.pc = "write", !.feeds = FALSE, !.payload = pay]
<1>4. count' = [count EXCEPT !.fetches = IF c > 0 THEN at ELSE @] /\ job' = [job EXCEPT ![j] = r]
  BY <1>0, <1>2
<1>5. /\ count' \in [fetches : Nat, refreshes : Nat, events : Nat]
      /\ count'.fetches = IF c > 0 THEN count.fetches + 1 ELSE count.fetches
  BY <1>0, <1>3, <1>4
<1>6. /\ count.fetches \in Nat /\ old.at \in Nat /\ old.items \in Nat /\ old.at <= count.fetches
      /\ old \in [at : Nat, items : Nat]
  BY <1>0 DEF Past
<1>7. new \in [at : Nat, items : Nat] /\ new.at = at /\ new.items = c
  BY <1>3, <1>6
<1> HIDE DEF new, old
<1>8. pay \in [at : Nat, items : Nat] /\ pay.at <= count'.fetches /\ NoWorse(old, pay)
  BY <1>3, <1>5, <1>6, <1>7 DEF Kept, NoWorse
<1> HIDE DEF pay
<1>9. Past \subseteq Past' /\ pay \in Past'
  BY <1>5, <1>6, <1>8 DEF Past
<1>10. Task \subseteq Task'
  BY <1>9 DEF Task
<1>11. r \in Task' /\ r.pc = "write" /\ r.todo = job[j].todo /\ r.payload = pay
  BY <1>0, <1>9 DEF Task
<1> HIDE DEF r
<1>12. job' \in [Job -> Task'] /\ job'[j] = r /\ \A k \in Job \ {j} : job'[k] = job[k]
  BY <1>0, <1>4, <1>10, <1>11
<1>13. count'.fetches >= count.fetches
  BY <1>5, <1>6
<1>14. QED
  BY <1>5, <1>8, <1>11, <1>12, <1>13 DEF old

\* Who refreshes has a digest before it.
LEMMA HeadIsDigest ==
  ASSUME LockInv, NEW j \in Job, Refreshing(j)
  PROVE  Head(job[j].todo) \in Digest
<1>1. job[j].todo \in Seq(Digest) /\ job[j].todo # <<>>
  BY DEF LockInv, Refreshing
<1>2. QED
  BY <1>1, HeadTailProperties

\* Write: the digest is on disk.
LEMMA WriteEffect ==
  ASSUME DigestTypes, LockInv, NEW j \in Job, Write(j)
  PROVE  /\ job' \in [Job -> Task]
         /\ job'[j].pc = "assign" /\ job'[j].todo = job[j].todo /\ job'[j].payload = job[j].payload
         /\ \A k \in Job \ {j} : job'[k] = job[k]
         /\ disk' \in [Digest -> Past] /\ disk'[Head(job[j].todo)] = job[j].payload
         /\ \A d \in Digest \ {Head(job[j].todo)} : disk'[d] = disk[d]
<1>1. job \in [Job -> Task] /\ job[j] \in Task /\ disk \in [Digest -> Past]
  BY DEF DigestTypes
<1> DEFINE r == [job[j] EXCEPT !.pc = "assign"]
<1>2. r \in Task /\ r.pc = "assign" /\ r.todo = job[j].todo /\ r.payload = job[j].payload
  BY <1>1 DEF Task
<1>3. job' = [job EXCEPT ![j] = r]
  BY <1>1 DEF Write
<1> HIDE DEF r
<1>4. /\ job' \in [Job -> Task] /\ job'[j] = r /\ \A k \in Job \ {j} : job'[k] = job[k]
  BY <1>1, <1>2, <1>3
<1>5. Head(job[j].todo) \in Digest
  BY HeadIsDigest DEF Write, Refreshing
<1>6. job[j].payload \in Past
  BY <1>1 DEF Task
<1>7. /\ disk' \in [Digest -> Past] /\ disk'[Head(job[j].todo)] = job[j].payload
      /\ \A d \in Digest \ {Head(job[j].todo)} : disk'[d] = disk[d]
  BY <1>1, <1>5, <1>6 DEF Write
<1>8. QED
  BY <1>2, <1>4, <1>7

\* Assign: the digest is in memory, and the refresh goes on or ends.
LEMMA AssignEffect ==
  ASSUME DigestTypes, LockInv, NEW j \in Job, Assign(j)
  PROVE  /\ mem' \in [Process -> [Digest -> Past]]
         /\ mem'[ProcessOf(j)][Head(job[j].todo)] = job[j].payload
         /\ \A d \in Digest \ {Head(job[j].todo)} : mem'[ProcessOf(j)][d] = mem[ProcessOf(j)][d]
         /\ \A p \in Process \ {ProcessOf(j)} : mem'[p] = mem[p]
         /\ \/ Ends(j)
            \/ /\ job' \in [Job -> Task] /\ lock' = lock
               /\ job'[j].pc = "load" /\ job'[j].todo \in Seq(Digest) /\ job'[j].todo # <<>>
               /\ \A k \in Job \ {j} : job'[k] = job[k]
<1> DEFINE o == ProcessOf(j)
           q == job[j].todo
           d == Head(q)
<1>1. /\ job \in [Job -> Task] /\ job[j] \in Task /\ mem \in [Process -> [Digest -> Past]]
      /\ o \in Process /\ d \in Digest /\ job[j].payload \in Past
  BY ProcessFacts, HeadIsDigest DEF DigestTypes, Task, Assign, Refreshing
<1>2. mem' = [mem EXCEPT ![o] = [mem[o] EXCEPT ![d] = job[j].payload]]
  BY <1>1 DEF Assign, Returned
<1>3. /\ mem' \in [Process -> [Digest -> Past]]
      /\ mem'[o][d] = job[j].payload
      /\ \A e \in Digest \ {d} : mem'[o][e] = mem[o][e]
      /\ \A p \in Process \ {o} : mem'[p] = mem[p]
  BY <1>1, <1>2
<1>4. CASE Len(q) = 1
  BY <1>3, <1>4 DEF Assign
<1>5. CASE Len(q) # 1
  <2>1. q \in Seq(Digest) /\ q # <<>> /\ job[j].pc = "assign"
    BY DEF LockInv, Refreshing, Assign
  <2>2. Tail(q) \in Seq(Digest) /\ Len(Tail(q)) = Len(q) - 1 /\ Len(q) \in Nat \ {0}
    BY <2>1, HeadTailProperties, EmptySeq
  <2>3. Tail(q) # <<>>
    <3>1. Len(Tail(q)) # 0
      BY <1>5, <2>2
    <3>2. Len(<<>>) = 0
      OBVIOUS
    <3>3. QED
      BY <3>1, <3>2, Zenon
  <2>4. Tail(q) \in Seq(Todo)
    BY <2>2 DEF Todo
  <2> DEFINE r == [Idle EXCEPT !.pc = "load", !.todo = Tail(q)]
  <2>5. r \in Task /\ r.pc = "load" /\ r.todo = Tail(q)
    BY <2>4, FreshTasks
  <2>6. job' = [job EXCEPT ![j] = r] /\ lock' = lock
    BY <1>5 DEF Assign
  <2> HIDE DEF r
  <2>7. job' \in [Job -> Task] /\ job'[j] = r /\ \A k \in Job \ {j} : job'[k] = job[k]
    BY <1>1, <2>5, <2>6
  <2>8. QED
    BY <1>3, <2>2, <2>3, <2>5, <2>6, <2>7
<1>6. QED
  BY <1>4, <1>5

\* CallFeeds: a tool call with at least one operation before it.
LEMMA CallFeedsEffect ==
  ASSUME DigestTypes, NEW tool \in {"list", "add", "remove"}, NEW url \in Url \cup {"none"},
         CallFeeds(tool, url)
  PROVE  /\ job' \in [Job -> Task]
         /\ job'["call"].pc = "tool" /\ job'["call"].todo # <<>>
         /\ (tool = "list" \/ url \in Url) => ToSet(job'["call"].todo) \subseteq ToolStep
         /\ \A k \in Job \ {"call"} : job'[k] = job[k]
<1> DEFINE t == [i \in DOMAIN ToolSteps(tool) |-> <<ToolSteps(tool)[i], url>>]
<1>1. /\ ToolSteps(tool) \in Seq({"load", "add", "remove"}) /\ Len(ToolSteps(tool)) >= 1
      /\ tool = "list" => ToolSteps(tool) = <<"load">>
  <2>1. CASE tool = "list"
    BY <2>1 DEF ToolSteps
  <2>2. CASE tool = "add"
    BY <2>2 DEF ToolSteps
  <2>3. CASE tool = "remove"
    BY <2>3 DEF ToolSteps
  <2>4. QED
    BY <2>1, <2>2, <2>3
<1>2. t \in Seq(Todo) /\ t # <<>> /\ ((tool = "list" \/ url \in Url) => ToSet(t) \subseteq ToolStep)
  <2> DEFINE n == Len(ToolSteps(tool))
  <2>1. n \in Nat /\ n >= 1 /\ DOMAIN ToolSteps(tool) = 1..n
    BY <1>1
  <2>2. \A i \in 1..n : <<ToolSteps(tool)[i], url>> \in Todo
    BY <1>1, <2>1 DEF Todo
  <2>3. ASSUME tool = "list" \/ url \in Url PROVE \A i \in 1..n : <<ToolSteps(tool)[i], url>> \in ToolStep
    <3>1. CASE tool = "list"
      <4>1. \A i \in 1..n : ToolSteps(tool)[i] = "load"
        BY <1>1, <3>1
      <4>2. QED
        BY <4>1 DEF ToolStep
    <3>2. CASE url \in Url
      BY <1>1, <3>2 DEF ToolStep
    <3>3. QED
      BY <2>3, <3>1, <3>2
  <2> HIDE DEF n
  <2>4. t \in [1..n -> Todo] /\ \A i \in 1..n : t[i] = <<ToolSteps(tool)[i], url>>
    BY <2>1, <2>2
  <2> HIDE DEF t
  <2>5. ASSUME tool = "list" \/ url \in Url PROVE ToSet(t) \subseteq ToolStep
    BY <2>3, <2>4, <2>5 DEF ToSet
  <2>6. t \in Seq(Todo) /\ t # <<>>
    BY <2>1, <2>4
  <2>7. QED
    BY <2>5, <2>6
<1>3. job' = [job EXCEPT !["call"] = [Idle EXCEPT !.pc = "tool", !.todo = t]]
  BY DEF CallFeeds
<1> HIDE DEF t
<1>4. [Idle EXCEPT !.pc = "tool", !.todo = t].todo = t
  BY DEF Idle
<1> DEFINE r == [Idle EXCEPT !.pc = "tool", !.todo = t]
<1>5. r \in Task /\ r.pc = "tool" /\ r.todo = t
  BY <1>2, <1>4, FreshTasks
<1> HIDE DEF r
<1>6. "call" \in Job /\ job \in [Job -> Task]
  BY DEF Job, DigestTypes
<1>7. QED
  BY <1>2, <1>3, <1>5, <1>6 DEF r

-----------------------------------------------------------------------------
\* Without a fetch there are no new digests.
LEMMA TypesKept ==
  ASSUME DigestTypes,
         count' \in [fetches : Nat, refreshes : Nat, events : Nat], count'.fetches = count.fetches,
         live' \subseteq Process,
         disk' \in [Digest -> Past], mem' \in [Process -> [Digest -> Past]],
         job' \in [Job -> Task], threads' \in [Process -> SUBSET [in : Digest, payload : Past]],
         LockTypes', StoreTypes'
  PROVE  DigestTypes'
<1>1. Past' = Past
  BY DEF Past
<1>2. Task' = Task
  BY <1>1 DEF Task
<1>3. QED
  BY <1>1, <1>2 DEF DigestTypes

\* Counting an event or a refresh is not a fetch.
LEMMA Counted ==
  ASSUME DigestTypes,
         \/ count' = [count EXCEPT !.events = @ + 1]
         \/ count' = [count EXCEPT !.refreshes = @ + 1]
         \/ count' = [count EXCEPT !.events = @ + 1, !.refreshes = @ + 1]
         \/ count' = count
  PROVE  count' \in [fetches : Nat, refreshes : Nat, events : Nat] /\ count'.fetches = count.fetches
<1>1. count \in [fetches : Nat, refreshes : Nat, events : Nat]
  BY DEF DigestTypes
<1>2. CASE count' = [count EXCEPT !.events = @ + 1]
  BY <1>1, <1>2
<1>3. CASE count' = [count EXCEPT !.refreshes = @ + 1]
  BY <1>1, <1>3
<1>4. CASE count' = [count EXCEPT !.events = @ + 1, !.refreshes = @ + 1]
  <2> DEFINE e == count.events + 1
             r == count.refreshes + 1
  <2>1. e \in Nat /\ r \in Nat
    BY <1>1
  <2>2. count' = [count EXCEPT !.events = e, !.refreshes = r]
    BY <1>1, <1>4
  <2> HIDE DEF e, r
  <2>3. QED
    BY <1>1, <2>1, <2>2
<1>5. CASE count' = count
  BY <1>1, <1>5
<1>6. QED
  BY <1>2, <1>3, <1>4, <1>5

\* At most one task of a process holds its lock.
LEMMA OneHolder ==
  ASSUME NEW j \in Job, NEW k \in Job, ProcessOf(j) = ProcessOf(k), HoldsLock(j), HoldsLock(k)
  PROVE  j = k
  BY DEF HoldsLock

\* Who holds the lock is in its queue.
LEMMA HolderIsQueued ==
  ASSUME DigestTypes, NEW j \in Job, HoldsLock(j)
  PROVE  j \in ToSet(lock[ProcessOf(j)])
<1>1. lock[ProcessOf(j)] \in Seq(Job)
  BY ProcessFacts DEF DigestTypes, LockTypes
<1>2. QED
  BY <1>1 DEF HoldsLock, ToSet

\* An idle task waits for no lock.
LEMMA IdleIsNotQueued ==
  ASSUME LockInv, NEW j \in Job, job[j].pc = "idle"
  PROVE  \A p \in Process : j \notin ToSet(lock[p])
  BY DEF LockInv, Refreshing

\* What is to be seen to where a step changes one task: what it does itself.
LEMMA LockKept ==
  ASSUME DigestTypes, LockInv, NEW j \in Job, live \subseteq live',
         \A k \in Job \ {j} : job'[k] = job[k] /\ (HoldsLock(k) => HoldsLock(k)'),
         \A p \in Process : ToSet(lock'[p]) \subseteq ToSet(lock[p]) \cup {j},
         \A p \in Process : store'[p].by \in {"nobody", store[p].by, j},
         job'[j].pc # "idle" => ProcessOf(j) \in live' /\ job'[j].todo # <<>>,
         Refreshing(j)' => job'[j].todo \in Seq(Digest),
         job'[j].pc \in {"fetch", "write", "assign"} => HoldsLock(j)',
         \A p \in Process : j \in ToSet(lock'[p]) => Refreshing(j)',
         \A p \in Process : store'[p].by = j =>
            job'[j].pc \in {"load", "tool"} /\ (job'[j].pc = "load" => HoldsLock(j)')
  PROVE  LockInv'
<1>1. ASSUME NEW k \in Job
      PROVE  /\ job'[k].pc # "idle" => ProcessOf(k) \in live' /\ job'[k].todo # <<>>
             /\ Refreshing(k)' => job'[k].todo \in Seq(Digest)
             /\ job'[k].pc \in {"fetch", "write", "assign"} => HoldsLock(k)'
  <2>1. CASE k = j
    BY <2>1
  <2>2. CASE k # j
    BY <2>2 DEF LockInv, Refreshing
  <2>3. QED
    BY <2>1, <2>2
<1>2. ASSUME NEW p \in Process, NEW k \in ToSet(lock'[p])
      PROVE  Refreshing(k)'
  <2>1. CASE k = j
    BY <2>1
  <2>2. CASE k # j
    <3>1. k \in ToSet(lock[p])
      BY <2>2
    <3>2. Refreshing(k)
      BY <3>1 DEF LockInv
    <3>3. k \in Job
      BY <3>1 DEF DigestTypes, LockTypes, Queues, ToSet
    <3>4. QED
      BY <2>2, <3>2, <3>3 DEF Refreshing
  <2>3. QED
    BY <2>1, <2>2
<1>3. ASSUME NEW p \in Process, store'[p].by # "nobody"
      PROVE  /\ job'[store'[p].by].pc \in {"load", "tool"}
             /\ job'[store'[p].by].pc = "load" => HoldsLock(store[p].by)'
  <2>1. CASE store'[p].by = j
    BY <2>1
  <2>2. CASE store'[p].by # j
    <3>1. store[p].by \in Job \cup {"nobody"}
      BY ProcessFacts DEF DigestTypes, StoreTypes
    <3>2. PICK k \in Job \ {j} : store[p].by = k /\ store'[p].by = k
      BY <1>3, <2>2, <3>1
    <3>3. job[k].pc \in {"load", "tool"} /\ (job[k].pc = "load" => HoldsLock(k))
      BY <1>3, <3>2 DEF LockInv
    <3>4. job'[k] = job[k] /\ (HoldsLock(k) => HoldsLock(k)')
      OBVIOUS
    <3>5. HoldsLock(store[p].by)' <=> HoldsLock(k)'
      BY <3>2 DEF HoldsLock
    <3>6. QED
      BY <3>2, <3>3, <3>4, <3>5
  <2>3. QED
    BY <2>1, <2>2
<1>4. QED
  BY <1>1, <1>2, <1>3 DEF LockInv

-----------------------------------------------------------------------------
\* A step keeps the invariant and makes no digest worse, in memory or on disk.
MemoryStep == \A p \in live \cap live' : \A d \in Digest : NoWorse(mem[p][d], mem'[p][d])
DiskStep == alone' => \A d \in Digest \ unread : NoWorse(disk[d], disk'[d])
GoodStep == DigestInv' /\ MemoryStep /\ DiskStep

LEMMA SameIsNoWorse ==
  ASSUME DigestTypes
  PROVE  /\ \A d \in Digest : NoWorse(disk[d], disk[d])
         /\ \A p \in Process : \A d \in Digest : NoWorse(mem[p][d], mem[p][d])
<1>1. \A x \in Past : NoWorse(x, x)
  BY DEF Past, NoWorse
<1>2. QED
  BY <1>1 DEF DigestTypes

\* No digest file and no process begins or ends, and no write is cut off.
LEMMA DiskKept ==
  ASSUME DigestTypes, DiskInv, UNCHANGED <<disk, live, mem, unread>>, alone' => alone /\ threads' = threads,
         alone' => \A k \in Job : job'[k].pc = "assign" \/ job[k].pc = "assign" => job'[k] = job[k]
  PROVE  DiskInv' /\ MemoryStep /\ DiskStep
<1>1. MemoryStep /\ DiskStep
  <2>1. live \subseteq Process
    BY DEF DigestTypes
  <2>2. QED
    BY <2>1, SameIsNoWorse DEF MemoryStep, DiskStep
<1>2. ASSUME alone'
      PROVE  \A p \in live' :
               /\ \A j \in JobsOf(p) : job'[j].pc = "assign" => disk'[Head(job'[j].todo)] = job'[j].payload
               /\ \A d \in Digest : \/ disk'[d] = mem'[p][d] \/ d \in unread'
                                    \/ \E j \in JobsOf(p) : job'[j].pc = "assign" /\ Head(job'[j].todo) = d
  <2>1. SUFFICES ASSUME NEW p \in live
        PROVE  /\ \A j \in JobsOf(p) : job'[j].pc = "assign" => disk[Head(job'[j].todo)] = job'[j].payload
               /\ \A d \in Digest : \/ disk[d] = mem[p][d] \/ d \in unread
                                    \/ \E j \in JobsOf(p) : job'[j].pc = "assign" /\ Head(job'[j].todo) = d
    OBVIOUS
  <2>2. JobsOf(p) \subseteq Job
    BY ProcessFacts DEF DigestTypes
  <2>3. /\ \A j \in JobsOf(p) : job[j].pc = "assign" => disk[Head(job[j].todo)] = job[j].payload
        /\ \A d \in Digest : \/ disk[d] = mem[p][d] \/ d \in unread
                             \/ \E j \in JobsOf(p) : job[j].pc = "assign" /\ Head(job[j].todo) = d
    BY <1>2 DEF DiskInv
  <2>4. \A k \in JobsOf(p) : job'[k].pc = "assign" \/ job[k].pc = "assign" => job'[k] = job[k]
    BY <1>2, <2>2
  <2>5. QED
    BY <2>3, <2>4
<1>3. DiskInv'
  BY <1>2 DEF DiskInv
<1>4. QED
  BY <1>1, <1>3

\* A step of a store, of the user or none: no task goes on.
LEMMA StoreStep ==
  ASSUME DigestInv, NEW j \in Job, UNCHANGED <<disk, live, mem, lock, job, threads, alone, unread>>,
         count' \in [fetches : Nat, refreshes : Nat, events : Nat], count'.fetches = count.fetches,
         StoreTypes', \A p \in Process : store'[p].by \in {"nobody", store[p].by, j},
         \A p \in Process : store'[p].by = j =>
            job[j].pc \in {"load", "tool"} /\ (job[j].pc = "load" => HoldsLock(j))
  PROVE  GoodStep
<1>1. DigestTypes /\ LockInv /\ MemoryInv /\ DiskInv
  BY DEF DigestInv
<1>2. DigestTypes'
  <2>1. LockTypes'
    BY <1>1 DEF DigestTypes, LockTypes
  <2>2. QED
    BY <1>1, <2>1, TypesKept DEF DigestTypes
<1>3. LockInv'
  <2>1. \A k \in Job : HoldsLock(k)' <=> HoldsLock(k)
    BY DEF HoldsLock
  <2>2. /\ job[j].pc # "idle" => ProcessOf(j) \in live /\ job[j].todo # <<>>
        /\ Refreshing(j) => job[j].todo \in Seq(Digest)
        /\ job[j].pc \in {"fetch", "write", "assign"} => HoldsLock(j)
        /\ \A p \in Process : j \in ToSet(lock[p]) => Refreshing(j)
    BY <1>1 DEF LockInv
  <2>3. Refreshing(j)' <=> Refreshing(j)
    BY DEF Refreshing
  <2>4. QED
    BY <1>1, <2>1, <2>2, <2>3, LockKept
<1>4. MemoryInv'
  BY <1>1 DEF MemoryInv
<1>5. DiskInv' /\ MemoryStep /\ DiskStep
  BY <1>1, DiskKept
<1>6. QED
  BY <1>2, <1>3, <1>4, <1>5 DEF GoodStep, DigestInv

LEMMA RefreshLoadsIsGood == ASSUME DigestInv, NEW j \in Job, RefreshLoads(j) PROVE GoodStep
<1>1. StoreReads(j, "load", "none") /\ job[j].pc = "load" /\ HoldsLock(j)
  BY DEF RefreshLoads
<1>2. \A p \in Process : store'[p].by \in {"nobody", store[p].by, j}
  BY <1>1, StoreReadsEffect DEF DigestInv
<1>3. QED
  BY <1>1, <1>2, StoreReadsEffect, StoreStep DEF DigestInv

LEMMA ToolStoresIsGood == ASSUME DigestInv, ToolStores PROVE GoodStep
<1> DEFINE kind == Head(job["call"].todo)[1]
           url == Head(job["call"].todo)[2]
<1>1. StoreReads("call", kind, url) /\ job["call"].pc = "tool" /\ "call" \in Job
  BY Zenon DEF ToolStores, Job
<1> HIDE DEF kind, url
<1>2. \A p \in Process : store'[p].by \in {"nobody", store[p].by, "call"}
  BY <1>1, StoreReadsEffect DEF DigestInv
<1>3. QED
  BY <1>1, <1>2, StoreReadsEffect, StoreStep DEF DigestInv

\* The stores go on for the same tasks as before, or for nobody.
LEMMA SameTasks ==
  ASSUME DigestInv, UNCHANGED <<disk, live, mem, lock, job, threads, alone, unread>>,
         count' \in [fetches : Nat, refreshes : Nat, events : Nat], count'.fetches = count.fetches,
         StoreTypes', \A p \in Process : store'[p].by \in {"nobody", store[p].by}
  PROVE  GoodStep
<1>1. "call" \in Job /\ "nobody" \notin Job
  BY DEF Job
<1>2. ASSUME NEW p \in Process, store'[p].by = "call"
      PROVE  job["call"].pc \in {"load", "tool"} /\ (job["call"].pc = "load" => HoldsLock("call"))
  <2>1. store[p].by = "call" /\ "call" # "nobody"
    BY <1>1, <1>2
  <2>2. QED
    BY <2>1 DEF DigestInv, LockInv
<1>3. QED
  BY <1>1, <1>2, StoreStep

LEMMA StoreSavesIsGood == ASSUME DigestInv, NEW p \in Process, StoreSaves(p) PROVE GoodStep
<1>1. /\ store' = [store EXCEPT ![p].saves = Tail(@)]
      /\ UNCHANGED <<disk, live, mem, lock, job, threads, count, alone, unread>>
  BY DEF StoreSaves
<1>2. QED
  BY <1>1, SavesEffect, SameTasks, Counted DEF DigestInv

LEMMA OrphanReturnsIsGood == ASSUME DigestInv, NEW p \in Process, OrphanReturns(p) PROVE GoodStep
<1>1. /\ store' = [store EXCEPT ![p] = NoOperation]
      /\ UNCHANGED <<disk, live, mem, lock, job, threads, count, alone, unread>>
  BY DEF OrphanReturns
<1>2. \A q \in Process : store'[q].by \in {"nobody", store[q].by}
  BY <1>1, NoOperationEffect DEF DigestInv
<1>3. QED
  BY <1>1, <1>2, NoOperationEffect, SameTasks, Counted DEF DigestInv

LEMMA UserEditsIsGood == ASSUME DigestInv, UserEdits PROVE GoodStep
<1>1. /\ count' = [count EXCEPT !.events = @ + 1]
      /\ UNCHANGED <<disk, live, mem, lock, store, job, threads, alone, unread>>
  BY DEF UserEdits
<1>2. StoreTypes'
  BY <1>1 DEF DigestInv, DigestTypes, StoreTypes
<1>3. QED
  BY <1>1, <1>2, SameTasks, Counted DEF DigestInv

LEMMA StutterIsGood == ASSUME DigestInv, UNCHANGED vars PROVE GoodStep
<1>1. UNCHANGED <<disk, live, mem, lock, store, job, threads, count, alone, unread>>
  BY DEF vars
<1>2. StoreTypes'
  BY <1>1 DEF DigestInv, DigestTypes, StoreTypes
<1>3. QED
  BY <1>1, <1>2, SameTasks, Counted DEF DigestInv

-----------------------------------------------------------------------------
\* A task that begins a refresh, and one that ends, keep the locks in order.
LEMMA QueueKeepsLock ==
  ASSUME DigestTypes, LockInv, NEW j \in Job, NEW todo \in Seq(Digest), todo # <<>>, Queue(j, todo),
         job[j].pc = "idle", live \subseteq live', ProcessOf(j) \in live', store' = store
  PROVE  /\ LockInv' /\ LockTypes' /\ job' \in [Job -> Task]
         /\ job'[j].pc = "load" /\ \A k \in Job \ {j} : job'[k] = job[k]
<1>1. j \notin ToSet(lock[ProcessOf(j)])
  BY IdleIsNotQueued, ProcessFacts
<1>2. /\ job' \in [Job -> Task]
      /\ job'[j].pc = "load" /\ job'[j].todo = todo /\ \A k \in Job \ {j} : job'[k] = job[k]
      /\ LockTypes'
      /\ \A p \in Process : ToSet(lock'[p]) \subseteq ToSet(lock[p]) \cup {j}
      /\ \A p \in Process : lock[p] # <<>> => lock'[p] # <<>> /\ Head(lock'[p]) = Head(lock[p])
  BY <1>1, QueueEffect
<1>3. \A k \in Job : HoldsLock(k) => HoldsLock(k)'
  BY <1>2, ProcessFacts DEF HoldsLock
<1>4. \A p \in Process : store'[p].by # j
  <2>1. j # "nobody"
    BY DEF Job
  <2>2. QED
    BY <2>1 DEF LockInv
<1>5. Refreshing(j)'
  BY <1>2 DEF Refreshing
<1>6. LockInv'
  BY <1>2, <1>3, <1>4, <1>5, LockKept
<1>7. QED
  BY <1>2, <1>6

LEMMA EndsKeepsLock ==
  ASSUME DigestTypes, LockInv, NEW j \in Job, Ends(j), live' = live,
         \A p \in Process : store'[p].by \in {"nobody", store[p].by} \ {j}
  PROVE  /\ LockInv' /\ LockTypes' /\ job' \in [Job -> Task]
         /\ job'[j].pc = "idle" /\ \A k \in Job \ {j} : job'[k] = job[k]
<1>1. /\ job' \in [Job -> Task]
      /\ job'[j].pc = "idle" /\ \A k \in Job \ {j} : job'[k] = job[k]
      /\ LockTypes'
      /\ \A p \in Process : ToSet(lock'[p]) \subseteq ToSet(lock[p]) \ {j}
      /\ \A p \in Process : lock[p] # <<>> /\ Head(lock[p]) # j
                              => lock'[p] # <<>> /\ Head(lock'[p]) = Head(lock[p])
  BY EndsEffect DEF Idle
<1>2. \A k \in Job \ {j} : HoldsLock(k) => HoldsLock(k)'
  BY <1>1, ProcessFacts DEF HoldsLock
<1>3. ~Refreshing(j)'
  BY <1>1 DEF Refreshing
<1>4. \A p \in Process : j \notin ToSet(lock'[p])
  BY <1>1
<1>5. LockInv'
  BY <1>1, <1>2, <1>3, <1>4, LockKept
<1>6. QED
  BY <1>1, <1>5

\* The digest files, the memory and the left-over writes are not touched, and
\* the task of the step is not in front of the memory's assignment.
LEMMA TaskStep ==
  ASSUME DigestInv, NEW j \in Job, UNCHANGED <<disk, live, mem, threads, alone, unread>>,
         job[j].pc # "assign", job'[j].pc \notin {"write", "assign"},
         \A k \in Job \ {j} : job'[k] = job[k],
         count' \in [fetches : Nat, refreshes : Nat, events : Nat], count'.fetches = count.fetches,
         job' \in [Job -> Task], LockTypes', StoreTypes', LockInv'
  PROVE  GoodStep
<1>1. DigestTypes /\ LockInv /\ MemoryInv /\ DiskInv
  BY DEF DigestInv
<1>2. DigestTypes'
  BY <1>1, TypesKept DEF DigestTypes
<1>3. MemoryInv'
  BY <1>1 DEF MemoryInv
<1>4. \A k \in Job : job'[k].pc = "assign" \/ job[k].pc = "assign" => job'[k] = job[k]
  OBVIOUS
<1>5. DiskInv' /\ MemoryStep /\ DiskStep
  BY <1>1, <1>4, DiskKept
<1>6. QED
  BY <1>2, <1>3, <1>5 DEF GoodStep, DigestInv

\* All digests in turn, of which there is at least one.
LEMMA AllDigests == Digests \in Seq(Digest) /\ Digests # <<>>
  BY NewsAssumption DEF NewsAssumption

LEMMA WakeIsGood == ASSUME DigestInv, NEW j \in Job, Wake(j) PROVE GoodStep
<1>1. DigestTypes /\ LockInv /\ StoreTypes
  BY DEF DigestInv, DigestTypes
<1>2. /\ ProcessOf(j) \in live /\ job[j].pc = "idle" /\ Queue(j, Digests)
      /\ count' = [count EXCEPT !.refreshes = @ + 1]
      /\ UNCHANGED <<disk, live, mem, store, threads, alone, unread>>
  BY DEF Wake
<1>3. /\ LockInv' /\ LockTypes' /\ job' \in [Job -> Task]
      /\ job'[j].pc = "load" /\ \A k \in Job \ {j} : job'[k] = job[k]
  BY <1>1, <1>2, QueueKeepsLock, AllDigests
<1>4. StoreTypes'
  BY <1>1, <1>2 DEF StoreTypes
<1>5. QED
  BY <1>1, <1>2, <1>3, <1>4, TaskStep, Counted

LEMMA CallForceRefreshIsGood == ASSUME DigestInv, NEW d \in Digest, CallForceRefresh(d) PROVE GoodStep
<1>1. DigestTypes /\ LockInv /\ StoreTypes
  BY DEF DigestInv, DigestTypes
<1>2. /\ "server" \in live /\ job["call"].pc = "idle" /\ Queue("call", <<d>>)
      /\ count' = [count EXCEPT !.events = @ + 1, !.refreshes = @ + 1]
      /\ UNCHANGED <<disk, live, mem, store, threads, alone, unread>>
  BY DEF CallForceRefresh
<1>3. "call" \in Job /\ ProcessOf("call") = "server" /\ <<d>> \in Seq(Digest) /\ <<d>> # <<>>
  BY DEF Job, ProcessOf
<1>4. /\ LockInv' /\ LockTypes' /\ job' \in [Job -> Task]
      /\ job'["call"].pc = "load" /\ \A k \in Job \ {"call"} : job'[k] = job[k]
  BY <1>1, <1>2, <1>3, QueueKeepsLock
<1>5. StoreTypes'
  BY <1>1, <1>2 DEF StoreTypes
<1>6. QED
  BY <1>1, <1>2, <1>3, <1>4, <1>5, TaskStep, Counted

LEMMA CallFeedsIsGood ==
  ASSUME DigestInv, NEW tool \in {"list", "add", "remove"}, NEW url \in Url \cup {"none"},
         CallFeeds(tool, url)
  PROVE  GoodStep
<1>1. DigestTypes /\ LockInv /\ StoreTypes /\ LockTypes
  BY DEF DigestInv, DigestTypes
<1>2. /\ "server" \in live /\ job["call"].pc = "idle"
      /\ count' = [count EXCEPT !.events = @ + 1]
      /\ UNCHANGED <<disk, live, mem, lock, store, threads, alone, unread>>
  BY DEF CallFeeds
<1>3. "call" \in Job /\ "call" # "nobody" /\ ProcessOf("call") = "server"
  BY DEF Job, ProcessOf
<1>4. /\ job' \in [Job -> Task]
      /\ job'["call"].pc = "tool" /\ job'["call"].todo # <<>>
      /\ \A k \in Job \ {"call"} : job'[k] = job[k]
  BY <1>1, CallFeedsEffect
<1>5. StoreTypes' /\ LockTypes'
  BY <1>1, <1>2 DEF StoreTypes, LockTypes
<1>6. LockInv'
  <2>1. \A k \in Job : HoldsLock(k) => HoldsLock(k)'
    BY <1>2 DEF HoldsLock
  <2>2. \A p \in Process : store'[p].by # "call"
    BY <1>1, <1>2, <1>3 DEF LockInv
  <2>3. \A p \in Process : "call" \notin ToSet(lock'[p])
    BY <1>1, <1>2, <1>3, IdleIsNotQueued
  <2>4. ~Refreshing("call")'
    BY <1>4 DEF Refreshing
  <2>5. QED
    BY <1>1, <1>2, <1>3, <1>4, <2>1, <2>2, <2>3, <2>4, LockKept
<1>7. QED
  BY <1>1, <1>2, <1>3, <1>4, <1>5, <1>6, TaskStep, Counted

LEMMA StoreReturnsIsGood == ASSUME DigestInv, NEW j \in Job, StoreReturns(j) PROVE GoodStep
<1>1. DigestTypes /\ LockInv /\ LockTypes
  BY DEF DigestInv, DigestTypes
<1>2. /\ store[ProcessOf(j)].by = j /\ j # "nobody" /\ ProcessOf(j) \in Process
      /\ UNCHANGED <<disk, live, mem, lock, threads, count, alone, unread>>
  BY ProcessFacts DEF StoreReturns, Job
<1>3. /\ job[j].pc \in {"load", "tool"} /\ (job[j].pc = "load" => HoldsLock(j))
      /\ job[j].todo # <<>> /\ ProcessOf(j) \in live
  BY <1>1, <1>2 DEF LockInv
<1>4. /\ job' \in [Job -> Task]
      /\ job[j].pc = "load" => job'[j].pc = "fetch" /\ job'[j].todo = job[j].todo
      /\ job[j].pc # "load" => (job'[j] = Idle \/ (job'[j].pc = job[j].pc /\ job'[j].todo # <<>>))
      /\ \A k \in Job \ {j} : job'[k] = job[k]
      /\ StoreTypes' /\ store'[ProcessOf(j)].by = "nobody"
      /\ \A p \in Process \ {ProcessOf(j)} : store'[p] = store[p]
  BY <1>1, <1>3, StoreReturnsEffect
<1>5. Idle.pc = "idle"
  BY DEF Idle
<1>6. LockTypes'
  BY <1>1, <1>2 DEF LockTypes
<1>7. LockInv'
  <2>1. \A k \in Job : HoldsLock(k) => HoldsLock(k)'
    BY <1>2 DEF HoldsLock
  <2>2. \A p \in Process : store'[p].by \in {"nobody", store[p].by}
    BY <1>4
  <2>3. \A p \in Process : store'[p].by # j
    <3>1. ASSUME NEW p \in Process, p # ProcessOf(j)
          PROVE  store[p].by # j
      BY <1>1, <1>2, <3>1, ProcessFacts DEF DigestTypes, StoreTypes
    <3>2. QED
      BY <1>2, <1>4, <3>1
  <2>4. CASE job[j].pc = "load"
    <3>1. job'[j].pc = "fetch" /\ job'[j].todo = job[j].todo /\ Refreshing(j) /\ Refreshing(j)'
      BY <1>4, <2>4 DEF Refreshing
    <3>2. job[j].todo \in Seq(Digest)
      BY <1>1, <3>1 DEF LockInv
    <3>3. HoldsLock(j)'
      BY <1>3, <2>1, <2>4
    <3>4. QED
      BY <1>1, <1>2, <1>3, <1>4, <2>1, <2>2, <2>3, <3>1, <3>2, <3>3, LockKept
  <2>5. CASE job[j].pc # "load"
    <3>1. job'[j].pc \in {"idle", "tool"} /\ (job'[j].pc = "tool" => job'[j].todo # <<>>)
      BY <1>3, <1>4, <1>5, <2>5
    <3>2. ~Refreshing(j) /\ ~Refreshing(j)'
      BY <1>3, <2>5, <3>1 DEF Refreshing
    <3>3. \A p \in Process : j \notin ToSet(lock'[p])
      BY <1>1, <1>2, <3>2 DEF LockInv
    <3>4. QED
      BY <1>1, <1>2, <1>3, <1>4, <2>1, <2>2, <2>3, <3>1, <3>2, <3>3, LockKept
  <2>6. QED
    BY <2>4, <2>5
<1>8. job[j].pc # "assign" /\ job'[j].pc \notin {"write", "assign"}
  BY <1>3, <1>4, <1>5
<1>9. QED
  BY <1>1, <1>2, <1>4, <1>6, <1>7, <1>8, TaskStep, Counted

LEMMA StoreFailsIsGood == ASSUME DigestInv, NEW p \in Process, StoreFails(p) PROVE GoodStep
<1>1. DigestTypes /\ LockInv /\ StoreTypes
  BY DEF DigestInv, DigestTypes
<1>2. /\ store' = [store EXCEPT ![p] = NoOperation]
      /\ count' = [count EXCEPT !.events = @ + 1]
      /\ UNCHANGED <<disk, live, mem, threads, alone, unread>>
  BY DEF StoreFails
<1>3. StoreTypes' /\ store'[p].by = "nobody" /\ \A q \in Process \ {p} : store'[q] = store[q]
  BY <1>1, <1>2, NoOperationEffect
<1>4. CASE store[p].by = "nobody"
  <2>1. lock' = lock /\ job' = job
    BY <1>4, Zenon DEF StoreFails
  <2>2. \A q \in Process : store'[q].by \in {"nobody", store[q].by}
    BY <1>3
  <2>3. QED
    BY <1>1, <1>2, <1>3, <2>1, <2>2, SameTasks, Counted
<1>5. CASE store[p].by # "nobody"
  <2>1. PICK j \in JobsOf(p) : store[p].by = j
    BY <1>1, <1>5 DEF StoreTypes
  <2>2. j \in Job /\ j # "nobody" /\ Ends(j)
    BY <1>5, <2>1, ProcessFacts DEF StoreFails
  <2>3. ASSUME NEW q \in Process \ {p}
        PROVE  store[q].by # j
    BY <1>1, <2>1, <2>2, ProcessFacts DEF StoreTypes
  <2>4. \A q \in Process : store'[q].by \in {"nobody", store[q].by} \ {j}
    BY <1>3, <2>2, <2>3
  <2>5. /\ LockInv' /\ LockTypes' /\ job' \in [Job -> Task]
        /\ job'[j].pc = "idle" /\ \A k \in Job \ {j} : job'[k] = job[k]
    BY <1>1, <1>2, <2>2, <2>4, EndsKeepsLock
  <2>6. job[j].pc # "assign"
    BY <1>1, <1>5, <2>1 DEF LockInv
  <2>7. QED
    BY <1>1, <1>2, <1>3, <2>2, <2>5, <2>6, TaskStep, Counted
<1>6. QED
  BY <1>4, <1>5

\* The store works for nobody who is past the load of his feeds.
LEMMA StoreIsNotFor ==
  ASSUME LockInv, NEW j \in Job, job[j].pc \notin {"load", "tool"}
  PROVE  \A p \in Process : store[p].by # j
<1>1. j # "nobody"
  BY DEF Job
<1>2. QED
  BY <1>1 DEF LockInv

LEMMA WriteFailsIsGood == ASSUME DigestInv, NEW j \in Job, WriteFails(j) PROVE GoodStep
<1>1. DigestTypes /\ LockInv /\ StoreTypes
  BY DEF DigestInv, DigestTypes
<1>2. /\ job[j].pc = "write" /\ Ends(j)
      /\ count' = [count EXCEPT !.events = @ + 1]
      /\ UNCHANGED <<disk, live, mem, store, threads, alone, unread>>
  BY DEF WriteFails
<1>3. \A p \in Process : store'[p].by \in {"nobody", store[p].by} \ {j}
  BY <1>1, <1>2, StoreIsNotFor
<1>4. /\ LockInv' /\ LockTypes' /\ job' \in [Job -> Task]
      /\ job'[j].pc = "idle" /\ \A k \in Job \ {j} : job'[k] = job[k]
  BY <1>1, <1>2, <1>3, EndsKeepsLock
<1>5. StoreTypes'
  BY <1>1, <1>2 DEF StoreTypes
<1>6. QED
  BY <1>1, <1>2, <1>4, <1>5, TaskStep, Counted

\* A task of a refresh that stays in it, with the same digests before it.
LEMMA HolderKeepsLock ==
  ASSUME DigestTypes, LockInv, NEW j \in Job, HoldsLock(j), job[j].pc \in {"fetch", "write"},
         job'[j].pc \in {"write", "assign"}, job'[j].todo = job[j].todo,
         \A k \in Job \ {j} : job'[k] = job[k], UNCHANGED <<live, lock, store>>
  PROVE  LockInv'
<1>1. \A k \in Job : HoldsLock(k) => HoldsLock(k)'
  BY DEF HoldsLock
<1>2. Refreshing(j) /\ Refreshing(j)'
  BY DEF Refreshing
<1>3. job[j].todo \in Seq(Digest) /\ job[j].todo # <<>> /\ ProcessOf(j) \in live
  BY <1>2 DEF LockInv
<1>4. \A p \in Process : store'[p].by # j
  BY StoreIsNotFor
<1>5. QED
  BY <1>1, <1>2, <1>3, <1>4, LockKept

LEMMA FetchIsGood == ASSUME DigestInv, NEW j \in Job, Fetch(j) PROVE GoodStep
<1>1. DigestTypes /\ LockInv /\ MemoryInv /\ DiskInv /\ StoreTypes /\ LockTypes
  BY DEF DigestInv, DigestTypes
<1>2. /\ job[j].pc = "fetch"
      /\ UNCHANGED <<disk, live, mem, lock, store, threads, alone, unread>>
  BY DEF Fetch
<1>3. Refreshing(j) /\ HoldsLock(j)
  BY <1>1, <1>2 DEF LockInv, Refreshing
<1>4. Head(job[j].todo) \in Digest
  BY <1>1, <1>3, HeadIsDigest
<1>5. /\ count' \in [fetches : Nat, refreshes : Nat, events : Nat] /\ count'.fetches >= count.fetches
      /\ job' \in [Job -> Task']
      /\ job'[j].pc = "write" /\ job'[j].todo = job[j].todo
      /\ NoWorse(mem[ProcessOf(j)][Head(job[j].todo)], job'[j].payload)
      /\ \A k \in Job \ {j} : job'[k] = job[k]
  BY <1>1, <1>4, FetchEffect
<1>6. DigestTypes'
  <2>1. Past \subseteq Past'
    <3>1. count.fetches \in Nat /\ count'.fetches \in Nat
      BY <1>1, <1>5 DEF DigestTypes
    <3>2. QED
      BY <1>5, <3>1 DEF Past
  <2>2. StoreTypes' /\ LockTypes'
    BY <1>1, <1>2 DEF StoreTypes, LockTypes
  <2>3. disk \in [Digest -> Past'] /\ mem \in [Process -> [Digest -> Past']]
    <3>1. \A d \in Digest : disk[d] \in Past'
      BY <1>1, <2>1 DEF DigestTypes
    <3>2. \A p \in Process : mem[p] \in [Digest -> Past']
      BY <1>1, <2>1 DEF DigestTypes
    <3>3. QED
      BY <1>1, <3>1, <3>2 DEF DigestTypes
  <2>4. threads \in [Process -> SUBSET [in : Digest, payload : Past']]
    <3>1. [in : Digest, payload : Past] \subseteq [in : Digest, payload : Past']
      BY <2>1
    <3>2. QED
      BY <1>1, <3>1 DEF DigestTypes
  <2>5. QED
    BY <1>1, <1>2, <1>5, <2>2, <2>3, <2>4 DEF DigestTypes
<1>7. LockInv'
  BY <1>1, <1>2, <1>3, <1>5, HolderKeepsLock
<1>8. MemoryInv'
  BY <1>1, <1>2, <1>5 DEF MemoryInv
<1>9. DiskInv' /\ MemoryStep /\ DiskStep
  <2>1. \A k \in Job : job'[k].pc = "assign" \/ job[k].pc = "assign" => job'[k] = job[k]
    BY <1>2, <1>5
  <2>2. QED
    BY <1>1, <1>2, <2>1, DiskKept
<1>10. QED
  BY <1>6, <1>7, <1>8, <1>9 DEF GoodStep, DigestInv

LEMMA WriteIsGood == ASSUME DigestInv, NEW j \in Job, Write(j) PROVE GoodStep
<1> DEFINE d == Head(job[j].todo)
           o == ProcessOf(j)
<1>1. DigestTypes /\ LockInv /\ MemoryInv /\ DiskInv /\ StoreTypes /\ LockTypes
  BY DEF DigestInv, DigestTypes
<1>2. /\ job[j].pc = "write"
      /\ UNCHANGED <<live, mem, lock, store, threads, count, alone>>
      /\ unread' = unread \ {d}
  BY DEF Write
<1>3. Refreshing(j) /\ HoldsLock(j) /\ o \in live /\ d \in Digest
  <2>1. Refreshing(j)
    BY <1>2 DEF Refreshing
  <2>2. QED
    BY <1>1, <1>2, <2>1, HeadIsDigest DEF LockInv
<1>4. /\ job' \in [Job -> Task]
      /\ job'[j].pc = "assign" /\ job'[j].todo = job[j].todo /\ job'[j].payload = job[j].payload
      /\ \A k \in Job \ {j} : job'[k] = job[k]
      /\ disk' \in [Digest -> Past] /\ disk'[d] = job[j].payload
      /\ \A e \in Digest \ {d} : disk'[e] = disk[e]
  BY <1>1, WriteEffect
<1>5. DigestTypes'
  <2>1. StoreTypes' /\ LockTypes'
    BY <1>1, <1>2 DEF StoreTypes, LockTypes
  <2>2. QED
    BY <1>1, <1>2, <1>4, <2>1, TypesKept, Counted DEF DigestTypes
<1>6. LockInv'
  BY <1>1, <1>2, <1>3, <1>4, HolderKeepsLock
<1>7. NoWorse(mem[o][d], job[j].payload)
  BY <1>1, <1>2 DEF MemoryInv
<1>8. MemoryInv'
  BY <1>1, <1>2, <1>4, <1>7 DEF MemoryInv
<1>9. MemoryStep
  BY <1>1, <1>2, SameIsNoWorse DEF MemoryStep, DigestTypes
<1>10. \A k \in JobsOf(o) : job[k].pc # "assign"
  BY <1>1, <1>2, <1>3, OneHolder, ProcessFacts DEF LockInv
<1>11. ASSUME alone
       PROVE  /\ live = {o} /\ \A p \in Process : threads[p] = {}
              /\ \A e \in Digest \ unread : disk[e] = mem[o][e]
  BY <1>1, <1>3, <1>10, <1>11 DEF DiskInv
<1>12. DiskStep
  <2>1. ASSUME alone, NEW e \in Digest \ unread
        PROVE  NoWorse(disk[e], disk'[e])
    <3>1. CASE e = d
      BY <1>4, <1>7, <1>11, <2>1, <3>1
    <3>2. CASE e # d
      BY <1>1, <1>4, <3>2, SameIsNoWorse
    <3>3. QED
      BY <3>1, <3>2
  <2>2. QED
    BY <1>2, <2>1 DEF DiskStep
<1>13. DiskInv'
  <2>1. SUFFICES ASSUME alone' PROVE DiskInv'
    BY DEF DiskInv
  <2>2. live' = {o} /\ (\A p \in Process : threads'[p] = {}) /\ mem' = mem
    BY <1>2, <1>11, <2>1
  <2>3. \A e \in Digest \ {d} : disk'[e] = mem[o][e] \/ e \in unread'
    BY <1>2, <1>4, <1>11, <2>1
  <2>4. \A k \in JobsOf(o) : job'[k].pc = "assign" => k = j
    BY <1>4, <1>10, ProcessFacts
  <2>5. j \in JobsOf(o)
    BY ProcessFacts
  <2>6. /\ \A k \in JobsOf(o) : job'[k].pc = "assign" => disk'[Head(job'[k].todo)] = job'[k].payload
        /\ \A e \in Digest : \/ disk'[e] = mem[o][e] \/ e \in unread'
                             \/ \E k \in JobsOf(o) : job'[k].pc = "assign" /\ Head(job'[k].todo) = e
    BY <1>4, <2>3, <2>4, <2>5
  <2>7. QED
    BY <2>2, <2>6 DEF DiskInv
<1>14. QED
  BY <1>5, <1>6, <1>8, <1>9, <1>12, <1>13 DEF GoodStep, DigestInv

LEMMA AssignIsGood == ASSUME DigestInv, NEW j \in Job, Assign(j) PROVE GoodStep
<1> DEFINE d == Head(job[j].todo)
           o == ProcessOf(j)
<1>1. DigestTypes /\ LockInv /\ MemoryInv /\ DiskInv /\ StoreTypes /\ LockTypes
  BY DEF DigestInv, DigestTypes
<1>2. /\ job[j].pc = "assign"
      /\ UNCHANGED <<disk, live, store, threads, count, alone, unread>>
  BY DEF Assign
<1>3. HoldsLock(j) /\ o \in live /\ o \in Process /\ d \in Digest
  <2>1. Refreshing(j)
    BY <1>2 DEF Refreshing
  <2>2. QED
    BY <1>1, <1>2, <2>1, HeadIsDigest, ProcessFacts DEF LockInv
<1>4. /\ mem' \in [Process -> [Digest -> Past]]
      /\ mem'[o][d] = job[j].payload
      /\ \A e \in Digest \ {d} : mem'[o][e] = mem[o][e]
      /\ \A p \in Process \ {o} : mem'[p] = mem[p]
      /\ \/ Ends(j)
         \/ /\ job' \in [Job -> Task] /\ lock' = lock
            /\ job'[j].pc = "load" /\ job'[j].todo \in Seq(Digest) /\ job'[j].todo # <<>>
            /\ \A k \in Job \ {j} : job'[k] = job[k]
  BY <1>1, AssignEffect
<1>5. \A p \in Process : store'[p].by \in {"nobody", store[p].by} \ {j}
  BY <1>1, <1>2, StoreIsNotFor
<1>6. /\ LockInv' /\ LockTypes' /\ job' \in [Job -> Task]
      /\ job'[j].pc \in {"idle", "load"} /\ \A k \in Job \ {j} : job'[k] = job[k]
  <2>1. CASE Ends(j)
    BY <1>1, <1>2, <1>5, <2>1, EndsKeepsLock
  <2>2. CASE ~Ends(j)
    <3>1. /\ job' \in [Job -> Task] /\ lock' = lock
          /\ job'[j].pc = "load" /\ job'[j].todo \in Seq(Digest) /\ job'[j].todo # <<>>
          /\ \A k \in Job \ {j} : job'[k] = job[k]
      BY <1>4, <2>2
    <3>2. \A k \in Job : HoldsLock(k) => HoldsLock(k)'
      BY <3>1 DEF HoldsLock
    <3>3. Refreshing(j)'
      BY <3>1 DEF Refreshing
    <3>4. LockTypes'
      BY <1>1, <3>1 DEF LockTypes
    <3>5. LockInv'
      BY <1>1, <1>2, <1>3, <1>5, <3>1, <3>2, <3>3, LockKept
    <3>6. QED
      BY <3>1, <3>4, <3>5
  <2>3. QED
    BY <2>1, <2>2
<1>7. DigestTypes'
  <2>1. StoreTypes'
    BY <1>1, <1>2 DEF StoreTypes
  <2>2. QED
    BY <1>1, <1>2, <1>4, <1>6, <2>1, TypesKept, Counted DEF DigestTypes
<1>8. \A k \in Job \ {j} : job[k].pc \in {"write", "assign"} => ProcessOf(k) # o
  BY <1>1, <1>2, <1>3, OneHolder DEF LockInv
<1>9. MemoryInv'
  <2>1. SUFFICES ASSUME NEW k \in Job, job'[k].pc \in {"write", "assign"}
        PROVE  NoWorse(mem'[ProcessOf(k)][Head(job'[k].todo)], job'[k].payload)
    BY DEF MemoryInv
  <2>2. k # j /\ job'[k] = job[k] /\ mem'[ProcessOf(k)] = mem[ProcessOf(k)]
    BY <1>4, <1>6, <1>8, <2>1, ProcessFacts
  <2>3. QED
    BY <1>1, <2>1, <2>2 DEF MemoryInv
<1>10. MemoryStep
  <2>1. SUFFICES ASSUME NEW p \in live, NEW e \in Digest PROVE NoWorse(mem[p][e], mem'[p][e])
    BY DEF MemoryStep
  <2>2. p \in Process /\ NoWorse(mem[p][e], mem[p][e])
    BY <1>1, SameIsNoWorse DEF DigestTypes
  <2>3. CASE p = o /\ e = d
    BY <1>1, <1>2, <1>4, <2>3 DEF MemoryInv
  <2>4. CASE ~(p = o /\ e = d)
    BY <1>4, <2>2, <2>4
  <2>5. QED
    BY <2>3, <2>4
<1>11. DiskStep
  BY <1>1, <1>2, SameIsNoWorse DEF DiskStep
<1>12. DiskInv'
  <2>1. SUFFICES ASSUME alone' PROVE DiskInv'
    BY DEF DiskInv
  <2>2. live' = {o} /\ disk' = disk /\ unread' = unread /\ \A p \in Process : threads'[p] = {}
    BY <1>1, <1>2, <1>3, <2>1 DEF DiskInv
  <2>3. j \in JobsOf(o) /\ JobsOf(o) \subseteq Job /\ \A k \in JobsOf(o) : ProcessOf(k) = o
    BY <1>3, ProcessFacts
  <2>4. /\ disk[d] = job[j].payload
        /\ \A e \in Digest : \/ disk[e] = mem[o][e] \/ e \in unread
                             \/ \E k \in JobsOf(o) : job[k].pc = "assign" /\ Head(job[k].todo) = e
    BY <1>1, <1>2, <1>3, <2>1, <2>3 DEF DiskInv
  <2>5. \A k \in JobsOf(o) : job[k].pc = "assign" => k = j
    BY <1>8, <2>3
  <2>6. \A e \in Digest : disk[e] = mem'[o][e] \/ e \in unread
    BY <1>4, <2>4, <2>5
  <2>7. \A k \in JobsOf(o) : job'[k].pc # "assign"
    BY <1>6, <2>3, <2>5
  <2>8. QED
    BY <2>2, <2>6, <2>7 DEF DiskInv
<1>13. QED
  BY <1>6, <1>7, <1>9, <1>10, <1>11, <1>12 DEF GoodStep, DigestInv

\* A write that a cancelled task leaves behind is one of its digest.
LEMMA OrphanedTypes ==
  ASSUME DigestTypes, LockInv, NEW js \in SUBSET Job
  PROVE  Orphaned(js) \subseteq [in : Digest, payload : Past]
<1>1. SUFFICES ASSUME NEW j \in js, job[j].pc = "write"
      PROVE  Head(job[j].todo) \in Digest /\ job[j].payload \in Past
  BY DEF Orphaned
<1>2. job[j] \in Task
  BY DEF DigestTypes
<1>3. Refreshing(j)
  BY <1>1 DEF Refreshing
<1>4. QED
  BY <1>2, <1>3, HeadIsDigest DEF Task

LEMMA CancelCallIsGood == ASSUME DigestInv, CancelCall PROVE GoodStep
<1>1. DigestTypes /\ LockInv /\ MemoryInv /\ DiskInv
  BY DEF DigestInv
<1>2. /\ Ends("call") /\ store' = Disowned("server", {"call"})
      /\ threads' = [threads EXCEPT !["server"] = @ \cup Orphaned({"call"})]
      /\ alone' => alone /\ job["call"].pc \notin {"write", "assign"}
      /\ UNCHANGED <<disk, live, mem, count, unread>>
  BY DEF CancelCall
<1>3. "call" \in Job /\ "server" \in Process /\ ProcessOf("call") = "server" /\ "call" # "nobody"
  BY DEF Job, Process, ProcessOf
<1>4. /\ StoreTypes'
      /\ store'["server"].by = IF store["server"].by \in {"call"} THEN "nobody" ELSE store["server"].by
      /\ \A q \in Process \ {"server"} : store'[q] = store[q]
  BY <1>1, <1>2, <1>3, DisownedEffect
<1>5. \A p \in Process : store'[p].by \in {"nobody", store[p].by} \ {"call"}
  <2>1. \A p \in Process \ {"server"} : store[p].by # "call"
    BY <1>1, <1>3, ProcessFacts DEF DigestTypes, StoreTypes
  <2>2. QED
    BY <1>3, <1>4, <2>1
<1>6. /\ LockInv' /\ LockTypes' /\ job' \in [Job -> Task]
      /\ job'["call"].pc = "idle" /\ \A k \in Job \ {"call"} : job'[k] = job[k]
  BY <1>1, <1>2, <1>3, <1>5, EndsKeepsLock
<1>7. DigestTypes'
  <2>1. threads' \in [Process -> SUBSET [in : Digest, payload : Past]]
    BY <1>1, <1>2, <1>3, OrphanedTypes DEF DigestTypes
  <2>2. QED
    BY <1>1, <1>2, <1>4, <1>6, <2>1, TypesKept, Counted DEF DigestTypes
<1>8. MemoryInv'
  BY <1>1, <1>2, <1>6 DEF MemoryInv
<1>9. DiskInv' /\ MemoryStep /\ DiskStep
  <2>1. ASSUME alone' PROVE threads' = threads
    <3>1. Orphaned({"call"}) = {}
      BY <1>2, <2>1 DEF Orphaned
    <3>2. QED
      BY <1>1, <1>2, <3>1 DEF DigestTypes
  <2>2. alone' => \A k \in Job : job'[k].pc = "assign" \/ job[k].pc = "assign" => job'[k] = job[k]
    BY <1>2, <1>6
  <2>3. QED
    BY <1>1, <1>2, <2>1, <2>2, DiskKept
<1>10. QED
  BY <1>6, <1>7, <1>8, <1>9 DEF GoodStep, DigestInv

LEMMA OrphanWritesIsGood == ASSUME DigestInv, NEW p \in Process, OrphanWrites(p) PROVE GoodStep
<1>1. DigestTypes /\ LockInv /\ MemoryInv /\ DiskInv /\ StoreTypes /\ LockTypes
  BY DEF DigestInv, DigestTypes
<1>2. PICK w \in threads[p] : /\ disk' = [disk EXCEPT ![w.in] = w.payload]
                              /\ threads' = [threads EXCEPT ![p] = @ \ {w}]
  BY DEF OrphanWrites
<1>3. UNCHANGED <<live, mem, lock, store, job, count, alone, unread>>
  BY DEF OrphanWrites
<1>4. w.in \in Digest /\ w.payload \in Past
  BY <1>1 DEF DigestTypes
<1>5. /\ disk' \in [Digest -> Past] /\ disk'[w.in] = w.payload
      /\ \A d \in Digest \ {w.in} : disk'[d] = disk[d]
  BY <1>1, <1>2, <1>4 DEF DigestTypes
<1>6. DigestTypes'
  <2>1. StoreTypes' /\ LockTypes'
    BY <1>1, <1>3 DEF StoreTypes, LockTypes
  <2>2. threads' \in [Process -> SUBSET [in : Digest, payload : Past]]
    BY <1>1, <1>2 DEF DigestTypes
  <2>3. QED
    BY <1>1, <1>3, <1>5, <2>1, <2>2, TypesKept, Counted DEF DigestTypes
<1>7. LockInv'
  <2>1. \A k \in Job : HoldsLock(k)' <=> HoldsLock(k)
    BY <1>3 DEF HoldsLock
  <2>2. \A p1 \in Process : HoldsLock(store[p1].by)' <=> HoldsLock(store[p1].by)
    BY <1>3 DEF HoldsLock
  <2>3. QED
    BY <1>1, <1>3, <2>1, <2>2 DEF LockInv, Refreshing
<1>8. MemoryInv' /\ MemoryStep
  BY <1>1, <1>3, SameIsNoWorse DEF MemoryInv, MemoryStep, DigestTypes
<1>9. DiskStep
  <2>1. ASSUME alone, NEW d \in Digest \ unread PROVE NoWorse(disk[d], disk'[d])
    <3>1. CASE d = w.in
      BY <1>1, <1>5, <2>1, <3>1 DEF DiskInv
    <3>2. CASE d # w.in
      BY <1>1, <1>5, <3>2, SameIsNoWorse
    <3>3. QED
      BY <3>1, <3>2
  <2>2. QED
    BY <1>3, <2>1 DEF DiskStep
<1>10. DiskInv'
  <2>1. SUFFICES ASSUME alone' PROVE DiskInv'
    BY DEF DiskInv
  <2>2. live' = {} /\ \A q \in Process : \A v \in threads[q] : q = p /\ v = w
    BY <1>1, <1>2, <1>3, <2>1 DEF DiskInv
  <2>3. \A q \in Process : threads'[q] = {}
    BY <1>1, <1>2, <2>2 DEF DigestTypes
  <2>4. QED
    BY <2>2, <2>3 DEF DiskInv
<1>11. QED
  BY <1>6, <1>7, <1>8, <1>9, <1>10 DEF GoodStep, DigestInv

LEMMA StartIsGood == ASSUME DigestInv, NEW p \in Process, Start(p) PROVE GoodStep
<1> DEFINE t == TimerOf(p)
<1>1. DigestTypes /\ LockInv /\ MemoryInv /\ DiskInv /\ StoreTypes
  BY DEF DigestInv, DigestTypes
<1>2. /\ p \notin live /\ live' = live \cup {p}
      /\ alone' => alone /\ live = {} /\ \A q \in Process : threads[q] = {}
      /\ Queue(t, Digests)
      /\ UNCHANGED <<disk, store, threads>>
  BY DEF Start
<1>read. PICK failed \in SUBSET Unreadable :
        /\ count' = [count EXCEPT !.events = @ + (IF failed = {} THEN 0 ELSE 1), !.refreshes = @ + 1]
        /\ mem' = [mem EXCEPT ![p] = Loaded(failed)]
        /\ unread' = failed
  BY DEF Start
<1>loaded. Loaded(failed) \in [Digest -> Past] /\ \A d \in Digest \ failed : Loaded(failed)[d] = disk[d]
  <2>1. EmptyPayload \in Past
    BY <1>1 DEF DigestTypes, EmptyPayload, Past
  <2>2. QED
    BY <1>1, <2>1 DEF DigestTypes, Loaded
<1>counted. count' \in [fetches : Nat, refreshes : Nat, events : Nat] /\ count'.fetches = count.fetches
  <2> DEFINE e == count.events + (IF failed = {} THEN 0 ELSE 1)
             r == count.refreshes + 1
  <2>1. count \in [fetches : Nat, refreshes : Nat, events : Nat]
    BY <1>1 DEF DigestTypes
  <2>2. e \in Nat /\ r \in Nat
    BY <2>1
  <2>3. count' = [count EXCEPT !.events = e, !.refreshes = r]
    BY <1>read, <2>1
  <2> HIDE DEF e, r
  <2>4. QED
    BY <2>1, <2>2, <2>3
<1>3. t \in JobsOf(p) /\ t \in Job /\ ProcessOf(t) = p
  BY ProcessFacts
<1>4. \A k \in JobsOf(p) : job[k].pc = "idle"
  BY <1>1, <1>2, ProcessFacts DEF LockInv
<1>5. /\ LockInv' /\ LockTypes' /\ job' \in [Job -> Task]
      /\ job'[t].pc = "load" /\ \A k \in Job \ {t} : job'[k] = job[k]
  <2>1. job[t].pc = "idle" /\ live \subseteq live' /\ ProcessOf(t) \in live'
    BY <1>2, <1>3, <1>4
  <2>2. QED
    BY <1>1, <1>2, <1>3, <2>1, QueueKeepsLock, AllDigests
<1>6. mem' \in [Process -> [Digest -> Past]] /\ mem'[p] = Loaded(failed) /\ \A q \in Process \ {p} : mem'[q] = mem[q]
  BY <1>1, <1>read, <1>loaded DEF DigestTypes
<1>7. DigestTypes'
  <2>1. StoreTypes'
    BY <1>1, <1>2 DEF StoreTypes
  <2>2. live' \subseteq Process
    BY <1>1, <1>2 DEF DigestTypes
  <2>3. QED
    BY <1>1, <1>2, <1>counted, <1>5, <1>6, <2>1, <2>2, TypesKept DEF DigestTypes
<1>8. \A k \in JobsOf(p) : job'[k].pc \in {"idle", "load"}
  BY <1>4, <1>5, ProcessFacts
<1>9. MemoryInv'
  <2>1. SUFFICES ASSUME NEW k \in Job, job'[k].pc \in {"write", "assign"}
        PROVE  NoWorse(mem'[ProcessOf(k)][Head(job'[k].todo)], job'[k].payload)
    BY DEF MemoryInv
  <2>2. k # t /\ job'[k] = job[k] /\ mem'[ProcessOf(k)] = mem[ProcessOf(k)]
    BY <1>3, <1>5, <1>6, <1>8, <2>1, ProcessFacts
  <2>3. QED
    BY <1>1, <2>1, <2>2 DEF MemoryInv
<1>10. MemoryStep /\ DiskStep
  BY <1>1, <1>2, <1>6, SameIsNoWorse DEF MemoryStep, DiskStep, DigestTypes
<1>11. DiskInv'
  <2>1. SUFFICES ASSUME alone' PROVE DiskInv'
    BY DEF DiskInv
  <2>2. live' = {p} /\ disk' = disk /\ \A q \in Process : threads'[q] = {}
    BY <1>2, <2>1
  <2>3. \A k \in JobsOf(p) : job'[k].pc # "assign"
    BY <1>8
  <2>4. \A d \in Digest : disk'[d] = mem'[p][d] \/ d \in unread'
    BY <1>read, <1>loaded, <1>6, <2>2
  <2>5. QED
    BY <2>2, <2>3, <2>4 DEF DiskInv
<1>12. QED
  BY <1>5, <1>7, <1>9, <1>10, <1>11 DEF GoodStep, DigestInv

\* The end of a process leaves the other one alone.
LEMMA EndedKeeps ==
  ASSUME DigestInv, NEW p \in Process, Ended(p),
         \A q \in Process \ {p} : store'[q] = store[q], store'[p].by \notin JobsOf(p), StoreTypes'
  PROVE  /\ LockInv' /\ MemoryInv' /\ MemoryStep
<1>1. DigestTypes /\ LockInv /\ MemoryInv /\ StoreTypes /\ LockTypes
  BY DEF DigestInv, DigestTypes
<1>2. /\ live' = live \ {p}
      /\ \A j \in JobsOf(p) : job'[j] = Idle
      /\ \A j \in Job \ JobsOf(p) : job'[j] = job[j]
      /\ lock'[p] = <<>> /\ \A q \in Process \ {p} : lock'[q] = lock[q]
      /\ \A q \in Process \ {p} : mem'[q] = mem[q]
  BY <1>1, EndedEffect
<1>3. Idle.pc = "idle"
  BY DEF Idle
<1>4. \A k \in Job \ JobsOf(p) : ProcessOf(k) \in Process \ {p} /\ (HoldsLock(k)' <=> HoldsLock(k))
  BY <1>2, ProcessFacts DEF HoldsLock
<1>5. ASSUME NEW k \in Job
      PROVE  /\ job'[k].pc # "idle" => ProcessOf(k) \in live' /\ job'[k].todo # <<>>
             /\ Refreshing(k)' => job'[k].todo \in Seq(Digest)
             /\ job'[k].pc \in {"fetch", "write", "assign"} => HoldsLock(k)'
  <2>1. CASE k \in JobsOf(p)
    BY <1>2, <1>3, <2>1 DEF Refreshing
  <2>2. CASE k \notin JobsOf(p)
    BY <1>1, <1>2, <1>4, <2>2 DEF LockInv, Refreshing
  <2>3. QED
    BY <2>1, <2>2
<1>6. ASSUME NEW q \in Process, NEW k \in ToSet(lock'[q])
      PROVE  Refreshing(k)'
  <2>1. q # p
    BY <1>2 DEF ToSet
  <2>2. k \in ToSet(lock[q]) /\ k \in JobsOf(q)
    BY <1>1, <1>2, <2>1 DEF LockTypes, Queues, ToSet
  <2>3. Refreshing(k) /\ k \in Job \ JobsOf(p)
    BY <1>1, <2>1, <2>2, ProcessFacts DEF LockInv
  <2>4. QED
    BY <1>2, <2>3 DEF Refreshing
<1>7. ASSUME NEW q \in Process, store'[q].by # "nobody"
      PROVE  /\ job'[store'[q].by].pc \in {"load", "tool"}
             /\ job'[store'[q].by].pc = "load" => HoldsLock(store[q].by)'
  <2>1. store'[q].by \in JobsOf(q)
    BY <1>7 DEF StoreTypes
  <2>2. q # p
    BY <2>1
  <2>3. PICK k \in Job \ JobsOf(p) : store[q].by = k /\ store'[q].by = k
    BY <2>1, <2>2, ProcessFacts
  <2>4. job[k].pc \in {"load", "tool"} /\ (job[k].pc = "load" => HoldsLock(k))
    BY <1>1, <1>7, <2>3 DEF LockInv
  <2>5. HoldsLock(store[q].by)' <=> HoldsLock(k)'
    BY <2>3 DEF HoldsLock
  <2>6. job'[k] = job[k] /\ (HoldsLock(k)' <=> HoldsLock(k))
    BY <1>2, <1>4
  <2>7. QED
    BY <2>3, <2>4, <2>5, <2>6
<1>8. LockInv'
  BY <1>5, <1>6, <1>7 DEF LockInv
<1>9. MemoryInv'
  <2>1. SUFFICES ASSUME NEW k \in Job, job'[k].pc \in {"write", "assign"}
        PROVE  NoWorse(mem'[ProcessOf(k)][Head(job'[k].todo)], job'[k].payload)
    BY DEF MemoryInv
  <2>2. k \notin JobsOf(p)
    BY <1>2, <1>3, <2>1
  <2>3. job'[k] = job[k] /\ mem'[ProcessOf(k)] = mem[ProcessOf(k)]
    BY <1>2, <1>4, <2>2
  <2>4. QED
    BY <1>1, <2>1, <2>3 DEF MemoryInv
<1>10. MemoryStep
  <2>1. ASSUME NEW q \in live \cap live'
        PROVE  q \in Process /\ mem'[q] = mem[q]
    BY <1>1, <1>2 DEF DigestTypes
  <2>2. QED
    BY <1>1, <2>1, SameIsNoWorse DEF MemoryStep
<1>11. QED
  BY <1>8, <1>9, <1>10

LEMMA StopIsGood == ASSUME DigestInv, NEW p \in Process, Stop(p) PROVE GoodStep
<1>1. DigestTypes /\ LockInv /\ MemoryInv /\ DiskInv
  BY DEF DigestInv
<1>2. /\ p \in live /\ Ended(p) /\ store' = Disowned(p, JobsOf(p))
      /\ threads' = [threads EXCEPT ![p] = @ \cup Orphaned(JobsOf(p))]
      /\ UNCHANGED <<disk, count, alone, unread>>
  BY DEF Stop
<1>3. /\ StoreTypes' /\ store'[p].by \notin JobsOf(p)
      /\ \A q \in Process \ {p} : store'[q] = store[q]
  BY <1>1, <1>2, DisownedEffect, ProcessFacts
<1>4. /\ live' = live \ {p} /\ job' \in [Job -> Task] /\ LockTypes'
      /\ mem' \in [Process -> [Digest -> Past]]
  BY <1>1, <1>2, EndedEffect
<1>5. DigestTypes'
  <2>1. Orphaned(JobsOf(p)) \subseteq [in : Digest, payload : Past]
    BY <1>1, OrphanedTypes, ProcessFacts
  <2>2. threads' \in [Process -> SUBSET [in : Digest, payload : Past]]
    BY <1>1, <1>2, <2>1 DEF DigestTypes
  <2>3. QED
    BY <1>1, <1>2, <1>3, <1>4, <2>2, TypesKept, Counted DEF DigestTypes
<1>6. LockInv' /\ MemoryInv' /\ MemoryStep
  BY <1>2, <1>3, EndedKeeps
<1>7. DiskStep
  BY <1>1, <1>2, SameIsNoWorse DEF DiskStep
<1>8. DiskInv'
  <2>1. SUFFICES ASSUME alone' PROVE DiskInv'
    BY DEF DiskInv
  <2>2. alone /\ live' = {} /\ disk' = disk /\ \A q \in Process : threads[q] = {}
    BY <1>1, <1>2, <1>4, <2>1 DEF DiskInv
  <2>3. \A q \in Process \ {p} : threads'[q] = {}
    BY <1>1, <1>2, <2>2 DEF DigestTypes
  <2>4. threads'[p] = Orphaned(JobsOf(p))
    BY <1>1, <1>2, <2>2 DEF DigestTypes
  <2>5. ASSUME NEW j \in JobsOf(p), job[j].pc = "write"
        PROVE  /\ \A k \in JobsOf(p) : job[k].pc \in {"write", "assign"} => k = j
               /\ Head(job[j].todo) \in unread \/ NoWorse(disk[Head(job[j].todo)], job[j].payload)
    <3>1. j \in Job /\ ProcessOf(j) = p /\ JobsOf(p) \subseteq Job /\ \A k \in JobsOf(p) : ProcessOf(k) = p
      BY ProcessFacts
    <3>2. \A k \in JobsOf(p) : job[k].pc \in {"write", "assign"} => k = j
      BY <1>1, <2>5, <3>1, OneHolder DEF LockInv
    <3>3. Head(job[j].todo) \in Digest
      BY <1>1, <2>5, <3>1, HeadIsDigest DEF Refreshing
    <3>4. disk[Head(job[j].todo)] = mem[p][Head(job[j].todo)] \/ Head(job[j].todo) \in unread
      BY <1>1, <1>2, <2>2, <2>5, <3>2, <3>3 DEF DiskInv
    <3>5. NoWorse(mem[p][Head(job[j].todo)], job[j].payload)
      BY <1>1, <2>5, <3>1 DEF MemoryInv
    <3>6. QED
      BY <3>2, <3>4, <3>5
  <2>6. \A w \in threads'[p] : \E j \in JobsOf(p) :
           job[j].pc = "write" /\ w = [in |-> Head(job[j].todo), payload |-> job[j].payload]
    BY <2>4 DEF Orphaned
  <2>7. \A w, v \in threads'[p] : w = v
    BY <2>5, <2>6
  <2>8. \A w \in threads'[p] : w.in \in unread' \/ NoWorse(disk[w.in], w.payload)
    BY <1>2, <2>5, <2>6
  <2>9. QED
    BY <2>2, <2>3, <2>7, <2>8 DEF DiskInv
<1>9. QED
  BY <1>5, <1>6, <1>7, <1>8 DEF GoodStep, DigestInv

LEMMA CrashIsGood == ASSUME DigestInv, NEW p \in Process, Crash(p) PROVE GoodStep
<1>1. DigestTypes /\ LockInv /\ MemoryInv /\ DiskInv
  BY DEF DigestInv
<1>2. /\ p \in live /\ Ended(p) /\ store' = [store EXCEPT ![p] = NoOperation]
      /\ threads' = [threads EXCEPT ![p] = {}]
      /\ UNCHANGED <<disk, count, alone, unread>>
  BY DEF Crash
<1>3. /\ StoreTypes' /\ store'[p].by \notin JobsOf(p)
      /\ \A q \in Process \ {p} : store'[q] = store[q]
  <2>1. StoreTypes' /\ store'[p].by = "nobody" /\ \A q \in Process \ {p} : store'[q] = store[q]
    BY <1>1, <1>2, NoOperationEffect
  <2>2. "nobody" \notin JobsOf(p)
    BY DEF JobsOf, Job
  <2>3. QED
    BY <2>1, <2>2
<1>4. /\ live' = live \ {p} /\ job' \in [Job -> Task] /\ LockTypes'
      /\ mem' \in [Process -> [Digest -> Past]]
  BY <1>1, <1>2, EndedEffect
<1>5. DigestTypes'
  <2>1. threads' \in [Process -> SUBSET [in : Digest, payload : Past]]
    BY <1>1, <1>2 DEF DigestTypes
  <2>2. QED
    BY <1>1, <1>2, <1>3, <1>4, <2>1, TypesKept, Counted DEF DigestTypes
<1>6. LockInv' /\ MemoryInv' /\ MemoryStep
  BY <1>2, <1>3, EndedKeeps
<1>7. DiskStep
  BY <1>1, <1>2, SameIsNoWorse DEF DiskStep
<1>8. DiskInv'
  <2>1. SUFFICES ASSUME alone' PROVE DiskInv'
    BY DEF DiskInv
  <2>2. live' = {} /\ \A q \in Process : threads[q] = {}
    BY <1>1, <1>2, <1>4, <2>1 DEF DiskInv
  <2>3. \A q \in Process : threads'[q] = {}
    BY <1>1, <1>2, <2>2 DEF DigestTypes
  <2>4. QED
    BY <2>2, <2>3 DEF DiskInv
<1>9. QED
  BY <1>5, <1>6, <1>7, <1>8 DEF GoodStep, DigestInv

-----------------------------------------------------------------------------
LEMMA InitIsGood == Init => DigestInv
<1> SUFFICES ASSUME Init PROVE DigestInv
  OBVIOUS
<1>1. /\ disk = [d \in Digest |-> EmptyPayload] /\ live = {} /\ mem = [p \in Process |-> disk]
      /\ lock = [p \in Process |-> <<>>] /\ store = [p \in Process |-> NoOperation]
      /\ job = [j \in Job |-> Idle] /\ threads = [p \in Process |-> {}]
      /\ count = [fetches |-> 0, refreshes |-> 0, events |-> 0]
  BY DEF Init
<1>2. EmptyPayload \in Past
  BY <1>1 DEF EmptyPayload, Past
<1>3. Idle \in Task /\ Idle.pc = "idle"
  BY <1>2 DEF Idle, Task
<1>4. StoreTypes
  <2>1. IsOperation(NoOperation) /\ NoOperation.by = "nobody"
    BY DEF IsOperation, NoOperation
  <2>2. QED
    BY <1>1, <2>1 DEF StoreTypes
<1>5. LockTypes
  <2>1. <<>> \in Seq(Job) /\ \A p \in Process : <<>> \in Queues(JobsOf(p))
    BY DEF Queues
  <2>2. QED
    BY <1>1, <2>1 DEF LockTypes
<1>6. DigestTypes
  BY <1>1, <1>2, <1>3, <1>4, <1>5 DEF DigestTypes
<1>7. LockInv
  <2>1. \A p \in Process : store[p].by = "nobody" /\ ToSet(lock[p]) = {}
    BY <1>1 DEF NoOperation, ToSet
  <2>2. QED
    BY <1>1, <1>3, <2>1 DEF LockInv, Refreshing
<1>8. MemoryInv /\ DiskInv
  BY <1>1, <1>3 DEF MemoryInv, DiskInv
<1>9. QED
  BY <1>6, <1>7, <1>8 DEF DigestInv

LEMMA EveryStepIsGood == DigestInv /\ [Next]_vars => GoodStep
<1> SUFFICES ASSUME DigestInv, [Next]_vars PROVE GoodStep
  OBVIOUS
<1>1. ASSUME NEW j \in Job,
             Wake(j) \/ RefreshLoads(j) \/ StoreReturns(j)
               \/ Fetch(j) \/ Write(j) \/ WriteFails(j) \/ Assign(j)
      PROVE  GoodStep
  BY <1>1, WakeIsGood, RefreshLoadsIsGood, StoreReturnsIsGood, FetchIsGood, WriteIsGood,
     WriteFailsIsGood, AssignIsGood
<1>2. CASE ToolStores
  BY <1>2, ToolStoresIsGood
<1>3. ASSUME NEW p \in Process,
             StoreSaves(p) \/ StoreFails(p) \/ OrphanWrites(p) \/ OrphanReturns(p)
               \/ Start(p) \/ Stop(p) \/ Crash(p)
      PROVE  GoodStep
  BY <1>3, StoreSavesIsGood, StoreFailsIsGood, OrphanWritesIsGood, OrphanReturnsIsGood,
     StartIsGood, StopIsGood, CrashIsGood
<1>4. CASE CallFeeds("list", "none") \/ \E url \in Url : CallFeeds("add", url) \/ CallFeeds("remove", url)
  BY <1>4, CallFeedsIsGood
<1>5. CASE \E d \in Digest : CallForceRefresh(d)
  BY <1>5, CallForceRefreshIsGood
<1>6. CASE CancelCall
  BY <1>6, CancelCallIsGood
<1>7. CASE UserEdits
  BY <1>7, UserEditsIsGood
<1>8. CASE UNCHANGED vars
  BY <1>8, StutterIsGood
<1>9. QED
  BY <1>1, <1>2, <1>3, <1>4, <1>5, <1>6, <1>7, <1>8 DEF Next

\* DigestInv holds in every state of the two processes.
THEOREM DigestInvariant == Spec => []DigestInv
<1>1. Init => DigestInv
  BY InitIsGood
<1>2. DigestInv /\ [Next]_vars => DigestInv'
  BY EveryStepIsGood DEF GoodStep
<1>3. QED
  BY <1>1, <1>2, PTL DEF Spec

-----------------------------------------------------------------------------
\* DigestCache._lock: whoever waits for it or holds it is a task of a running
\* process in the middle of a refresh, and who is past the load of the feeds holds
\* it, whatever exceptions, cancellations, stops and crashes came before.
THEOREM LockIsNeverStranded == Spec => []LockNeverStranded
<1>1. DigestInv => LockNeverStranded
  <2> SUFFICES ASSUME DigestInv PROVE LockNeverStranded
    OBVIOUS
  <2>1. LockTypes /\ LockInv
    BY DEF DigestInv, DigestTypes
  <2>2. ASSUME NEW p \in Process, NEW j \in ToSet(lock[p])
        PROVE  p \in live /\ job[j].pc \in {"load", "fetch", "write", "assign"}
    <3>1. j \in JobsOf(p)
      BY <2>1 DEF LockTypes, Queues, ToSet
    <3>2. j \in Job /\ ProcessOf(j) = p
      BY <3>1, ProcessFacts
    <3>3. Refreshing(j)
      BY <2>1 DEF LockInv
    <3>4. QED
      BY <2>1, <3>2, <3>3 DEF LockInv, Refreshing
  <2>3. ASSUME NEW p \in Process
        PROVE  /\ store[p].by # "nobody" => job[store[p].by].pc \in {"load", "tool"}
               /\ \A j \in JobsOf(p) : job[j].pc \in {"fetch", "write", "assign"} => HoldsLock(j)
    BY <2>1, ProcessFacts DEF LockInv
  <2>4. QED
    BY <2>2, <2>3 DEF LockNeverStranded
<1>2. QED
  BY <1>1, DigestInvariant, PTL

\* _store_payload: as long as a process lives, the digest it serves is never
\* replaced by an emptied or an older one.
THEOREM ServedDigestNeverGoesBack == Spec => DigestNeverGoesBack
<1>1. DigestInv /\ [Next]_vars =>
        [\A p \in live \cap live' : \A d \in Digest : NoWorse(mem[p][d], mem'[p][d])]_vars
  BY EveryStepIsGood DEF GoodStep, MemoryStep
<1>2. QED
  BY <1>1, DigestInvariant, PTL DEF Spec, DigestNeverGoesBack

\* While the processes take turns and no write is cut off, a digest file is never
\* replaced by an emptied or an older one, over stops, crashes and restarts, but for
\* one that the process could not read when it started and has not written since.
THEOREM DigestFileNeverGoesBack == Spec => DiskNeverGoesBack
<1>1. DigestInv /\ [Next]_vars =>
        [alone' => \A d \in Digest \ unread : NoWorse(disk[d], disk'[d])]_vars
  BY EveryStepIsGood DEF GoodStep, DiskStep
<1>2. QED
  BY <1>1, DigestInvariant, PTL DEF Spec, DiskNeverGoesBack

-----------------------------------------------------------------------------
(***************************************************************************)
(* Recursive tables.                                                       *)
(***************************************************************************)

\* Induction over the numbers up to N, on a set of them.
LEMMA UpTo ==
  ASSUME NEW N \in Nat, NEW G \in SUBSET (0..N), 0 \in G, \A n \in 1..N : n - 1 \in G => n \in G
  PROVE  G = 0..N
<1> DEFINE S == 1..N
           T == (0..N) \ G
           U == {1..n : n \in T}
<1>0. SUFFICES ASSUME T # {} PROVE FALSE
  OBVIOUS
<1>1. IsWellFoundedOn(StrictSubsetOrdering(S), FiniteSubsetsOf(S))
  BY FS_StrictSubsetOrderingWellFounded
<1>2. U \subseteq FiniteSubsetsOf(S) /\ U # {}
  <2>1. ASSUME NEW n \in T PROVE 1..n \in FiniteSubsetsOf(S)
    BY FS_Interval DEF FiniteSubsetsOf
  <2>2. QED
    BY <1>0, <2>1
<1> HIDE DEF S, U
<1>3. PICK x \in U : \A y \in U : ~(<<y, x>> \in StrictSubsetOrdering(S))
  BY <1>1, <1>2, WFMin
<1>4. PICK n \in T : x = 1..n
  BY DEF U
<1>5. n \in 1..N /\ n - 1 \in T
  OBVIOUS
<1>6. 1..(n - 1) \in U
  BY <1>5 DEF U
<1>7. <<1..(n - 1), x>> \in StrictSubsetOrdering(S)
  BY <1>4, <1>5 DEF StrictSubsetOrdering, S
<1>8. QED
  BY <1>3, <1>6, <1>7

\* A table of N steps in D that starts with x; step n is g[n].
Table(f, N, D, x, g) ==
  f \in [0..N -> D] /\ f[0] = x /\ \A n \in 1..N : f[n] = g[n][f[n - 1]]

\* There is such a table.
LEMMA Recursion ==
  ASSUME NEW N \in Nat, NEW D, NEW x \in D, NEW g \in [1..N -> [D -> D]]
  PROVE  \E f : Table(f, N, D, x, g)
<1> DEFINE Good(k) == \E f \in [0..k -> D] : f[0] = x /\ \A n \in 1..k : f[n] = g[n][f[n - 1]]
           G == {k \in 0..N : Good(k)}
<1>1. Good(0)
  <2> DEFINE f == [n \in 0..0 |-> x]
  <2>1. f \in [0..0 -> D] /\ f[0] = x /\ 1..0 = {}
    OBVIOUS
  <2> HIDE DEF f
  <2>2. QED
    BY <2>1
<1>2. ASSUME NEW n \in 1..N, Good(n - 1) PROVE Good(n)
  <2>1. PICK f \in [0..(n - 1) -> D] : f[0] = x /\ \A m \in 1..(n - 1) : f[m] = g[m][f[m - 1]]
    BY <1>2
  <2> DEFINE h == [m \in 0..n |-> IF m = n THEN g[n][f[n - 1]] ELSE f[m]]
  <2>2. h \in [0..n -> D]
    OBVIOUS
  <2>3. h[0] = x /\ h[n] = g[n][f[n - 1]] /\ \A m \in 0..(n - 1) : h[m] = f[m]
    BY <2>1
  <2> HIDE DEF h
  <2>4. ASSUME NEW m \in 1..n PROVE h[m] = g[m][h[m - 1]]
    <3>1. h[m - 1] = f[m - 1]
      BY <2>3
    <3>2. CASE m = n
      BY <2>3, <3>1, <3>2
    <3>3. CASE m # n
      BY <2>1, <2>3, <3>1, <3>3
    <3>4. QED
      BY <3>2, <3>3
  <2>5. QED
    BY <2>2, <2>3, <2>4
<1> HIDE DEF Good
<1>3. 0 \in G /\ (\A n \in 1..N : n - 1 \in G => n \in G) /\ G \in SUBSET (0..N)
  BY <1>1, <1>2
<1>4. Good(N)
  <2> HIDE DEF G
  <2>1. G = 0..N
    BY <1>3, UpTo
  <2>2. N \in G
    BY <2>1
  <2>3. QED
    BY <2>2 DEF G
<1>5. QED
  BY <1>4 DEF Good, Table

-----------------------------------------------------------------------------
(***************************************************************************)
(* The migrations of a document.                                           *)
(***************************************************************************)

\* What a migration works on.
Progress == [handled : SUBSET Migration, feeds : Seq(Feed)]

ReplaceId(url) == <<"url-replacement", url>>
DisableId(url) == <<"disable-dead-feed", url>>
SupplementalId(url) == <<"supplemental-feed", url>>

\* The feeds are as the user wishes.
Fits(feeds, wish) ==
  \A u \in Url :
    /\ wish[u] = "deleted" => u \notin UrlsOf(feeds)
    /\ wish[u] = "enabled" => \A i \in 1..Len(feeds) : feeds[i].url = u => feeds[i].on

OneEach(feeds) == \A i, k \in 1..Len(feeds) : feeds[i].url = feeds[k].url => i = k

\* Retired urls are still there only if their replacement is recorded.
Recorded(feeds, handled) ==
  \A r \in UrlsOf(feeds) \cap DOMAIN UrlReplacements : ReplaceId(r) \in handled

\* The ids are those of migrations.
LEMMA IdsAreMigrations ==
  \A u \in Url : ReplaceId(u) \in Migration /\ DisableId(u) \in Migration /\ SupplementalId(u) \in Migration
  BY DEF Migration, ReplaceId, DisableId, SupplementalId

\* A replacement is a url that is not itself retired.
LEMMA Replacements ==
  /\ DOMAIN UrlReplacements \subseteq Url
  /\ \A u \in DOMAIN UrlReplacements : UrlReplacements[u] \in Url /\ UrlReplacements[u] \notin DOMAIN UrlReplacements
  BY NewsAssumption DEF NewsAssumption

\* The urls of a list, by their places.
LEMMA UrlsAt ==
  ASSUME NEW feeds \in Seq(Feed)
  PROVE  \A u : u \in UrlsOf(feeds) <=> \E i \in 1..Len(feeds) : feeds[i].url = u
<1>1. DOMAIN feeds = 1..Len(feeds)
  OBVIOUS
<1>2. QED
  BY <1>1 DEF UrlsOf

\* One feed more.
LEMMA OneMore ==
  ASSUME NEW feeds \in Seq(Feed), NEW x \in Feed
  PROVE  /\ Append(feeds, x) \in Seq(Feed)
         /\ Len(Append(feeds, x)) = Len(feeds) + 1 /\ Len(feeds) \in Nat
         /\ Append(feeds, x)[Len(feeds) + 1] = x
         /\ \A i \in 1..Len(feeds) : Append(feeds, x)[i] = feeds[i]
         /\ UrlsOf(Append(feeds, x)) = UrlsOf(feeds) \cup {x.url}
<1> DEFINE r == Append(feeds, x)
<1>1. /\ r \in Seq(Feed) /\ Len(r) = Len(feeds) + 1 /\ Len(feeds) \in Nat
      /\ r[Len(feeds) + 1] = x /\ \A i \in 1..Len(feeds) : r[i] = feeds[i]
  OBVIOUS
<1> HIDE DEF r
<1>2. ASSUME NEW u PROVE u \in UrlsOf(r) <=> u \in UrlsOf(feeds) \cup {x.url}
  BY <1>1, UrlsAt
<1>3. UrlsOf(r) = UrlsOf(feeds) \cup {x.url}
  BY <1>2
<1>4. QED
  BY <1>1, <1>3 DEF r

\* A feed more that fits the wish, and one whose url is new.
LEMMA FitsOneMore ==
  ASSUME NEW feeds \in Seq(Feed), NEW x \in Feed, NEW wish, Fits(feeds, wish),
         wish[x.url] # "deleted", wish[x.url] = "enabled" => x.on
  PROVE  Fits(Append(feeds, x), wish)
<1> DEFINE r == Append(feeds, x)
<1>1. /\ Len(r) = Len(feeds) + 1 /\ Len(feeds) \in Nat
      /\ r[Len(feeds) + 1] = x /\ \A i \in 1..Len(feeds) : r[i] = feeds[i]
      /\ UrlsOf(r) = UrlsOf(feeds) \cup {x.url}
  BY OneMore
<1> HIDE DEF r
<1>2. ASSUME NEW u \in Url, wish[u] = "deleted" PROVE u \notin UrlsOf(r)
  BY <1>1, <1>2 DEF Fits
<1>3. ASSUME NEW u \in Url, wish[u] = "enabled", NEW i \in 1..Len(r), r[i].url = u PROVE r[i].on
  <2>1. CASE i \in 1..Len(feeds)
    BY <1>1, <1>3, <2>1 DEF Fits
  <2>2. CASE i = Len(feeds) + 1
    BY <1>1, <1>3, <2>2
  <2>3. QED
    BY <1>1, <2>1, <2>2
<1>4. QED
  BY <1>2, <1>3 DEF Fits, r

LEMMA OneEachOneMore ==
  ASSUME NEW feeds \in Seq(Feed), NEW x \in Feed, OneEach(feeds), x.url \notin UrlsOf(feeds)
  PROVE  OneEach(Append(feeds, x))
<1> DEFINE r == Append(feeds, x)
<1>1. /\ Len(r) = Len(feeds) + 1 /\ Len(feeds) \in Nat
      /\ r[Len(feeds) + 1] = x /\ \A i \in 1..Len(feeds) : r[i] = feeds[i]
  BY OneMore
<1>2. \A i \in 1..Len(feeds) : feeds[i].url # x.url
  BY UrlsAt
<1> HIDE DEF r
<1>3. ASSUME NEW i \in 1..Len(r), NEW k \in 1..Len(r), r[i].url = r[k].url PROVE i = k
  <2>1. CASE i \in 1..Len(feeds) /\ k \in 1..Len(feeds)
    BY <1>1, <1>3, <2>1 DEF OneEach
  <2>2. CASE i \in 1..Len(feeds) /\ k = Len(feeds) + 1
    BY <1>1, <1>2, <1>3, <2>2
  <2>3. CASE i = Len(feeds) + 1 /\ k \in 1..Len(feeds)
    BY <1>1, <1>2, <1>3, <2>3
  <2>4. CASE i = Len(feeds) + 1 /\ k = Len(feeds) + 1
    BY <2>4
  <2>5. QED
    BY <1>1, <2>1, <2>2, <2>3, <2>4
<1>4. QED
  BY <1>3 DEF OneEach, r

-----------------------------------------------------------------------------
\* One turn of the loop, which takes the feed f to url and on.
Turn(before, after, f, url, on) ==
  /\ url \in Url /\ on \in BOOLEAN
  /\ after \in Progress
  /\ before.handled \subseteq after.handled
  /\ f.url \in DOMAIN UrlReplacements => ReplaceId(f.url) \in after.handled
  /\ \/ url = f.url /\ (f.url \in DOMAIN UrlReplacements => ReplaceId(f.url) \in before.handled)
     \/ /\ f.url \in DOMAIN UrlReplacements /\ ReplaceId(f.url) \notin before.handled
        /\ url = UrlReplacements[f.url]
  /\ url \in DisableUrls => DisableId(url) \in after.handled
  /\ on <=> f.on /\ ~(url \in DisableUrls /\ DisableId(url) \notin before.handled)
  /\ after.feeds = IF url \in UrlsOf(before.feeds) THEN before.feeds
                   ELSE Append(before.feeds, [url |-> url, on |-> on])

\* MigrateFeed is such a turn.
LEMMA MigrateFeedTurn ==
  ASSUME NEW acc \in Progress, NEW f \in Feed
  PROVE  \E url, on : Turn(acc, MigrateFeed(acc, f), f, url, on)
<1> DEFINE replace == <<"url-replacement", f.url>>
           url == IF f.url \in DOMAIN UrlReplacements /\ replace \notin acc.handled
                    THEN UrlReplacements[f.url] ELSE f.url
           disable == <<"disable-dead-feed", url>>
           off == url \in DisableUrls /\ disable \notin acc.handled
           on == f.on /\ ~off
           h == acc.handled \cup (IF f.url \in DOMAIN UrlReplacements THEN {replace} ELSE {})
                            \cup (IF url \in DisableUrls THEN {disable} ELSE {})
           fs == IF url \in UrlsOf(acc.feeds) THEN acc.feeds
                 ELSE Append(acc.feeds, [url |-> url, on |-> on])
           r == [handled |-> h, feeds |-> fs]
<1>1. MigrateFeed(acc, f) = r
  BY Zenon DEF MigrateFeed
<1>2. f.url \in Url /\ f.on \in BOOLEAN
  BY DEF Feed
<1>3. url \in Url
  BY <1>2, Replacements
<1>4. acc.handled \in SUBSET Migration /\ acc.feeds \in Seq(Feed)
  BY DEF Progress
<1>5. replace = ReplaceId(f.url) /\ disable = DisableId(url)
  BY DEF ReplaceId, DisableId
<1>6. \/ url = f.url /\ (f.url \in DOMAIN UrlReplacements => ReplaceId(f.url) \in acc.handled)
      \/ /\ f.url \in DOMAIN UrlReplacements /\ ReplaceId(f.url) \notin acc.handled
         /\ url = UrlReplacements[f.url]
  BY <1>5
<1>7. replace \in Migration /\ disable \in Migration
  BY <1>2, <1>3, <1>5, IdsAreMigrations
<1> HIDE DEF replace, url, disable
<1>8. h \in SUBSET Migration /\ acc.handled \subseteq h
  BY <1>4, <1>7
<1>9. /\ f.url \in DOMAIN UrlReplacements => replace \in h
      /\ url \in DisableUrls => disable \in h
  OBVIOUS
<1>10. on \in BOOLEAN /\ (on <=> f.on /\ ~(url \in DisableUrls /\ disable \notin acc.handled))
  BY <1>2
<1> HIDE DEF h, on
<1>11. fs \in Seq(Feed)
  <2>1. [url |-> url, on |-> on] \in Feed
    BY <1>3, <1>10 DEF Feed
  <2>2. QED
    BY <1>4, <2>1, OneMore
<1>12. fs = IF url \in UrlsOf(acc.feeds) THEN acc.feeds ELSE Append(acc.feeds, [url |-> url, on |-> on])
  OBVIOUS
<1> HIDE DEF fs
<1>13. r \in Progress /\ r.handled = h /\ r.feeds = fs
  BY <1>8, <1>11 DEF Progress
<1> HIDE DEF r
<1>14. Turn(acc, r, f, url, on)
  BY <1>3, <1>5, <1>6, <1>8, <1>9, <1>10, <1>12, <1>13, Zenon DEF Turn
<1>15. QED
  BY <1>1, <1>14, Zenon

\* AddSupplemental adds a feed that is on, once.
LEMMA AddSupplementalEffect ==
  ASSUME NEW acc \in Progress, NEW url \in Url
  PROVE  /\ AddSupplemental(acc, url) \in Progress
         /\ AddSupplemental(acc, url).handled = acc.handled \cup {SupplementalId(url)}
         /\ AddSupplemental(acc, url).feeds =
              IF SupplementalId(url) \in acc.handled \/ url \in UrlsOf(acc.feeds) THEN acc.feeds
              ELSE Append(acc.feeds, [url |-> url, on |-> TRUE])
<1> DEFINE id == SupplementalId(url)
           h == acc.handled \cup {id}
           fs == IF id \in acc.handled \/ url \in UrlsOf(acc.feeds) THEN acc.feeds
                 ELSE Append(acc.feeds, [url |-> url, on |-> TRUE])
           r == [handled |-> h, feeds |-> fs]
<1>1. AddSupplemental(acc, url) = r
  BY Zenon DEF AddSupplemental, SupplementalId
<1>2. acc.handled \in SUBSET Migration /\ acc.feeds \in Seq(Feed)
  BY DEF Progress
<1>3. id \in Migration /\ [url |-> url, on |-> TRUE] \in Feed
  BY IdsAreMigrations DEF Feed
<1>4. h \in SUBSET Migration
  BY <1>2, <1>3
<1>5. fs \in Seq(Feed)
  BY <1>2, <1>3, OneMore
<1> HIDE DEF h, fs
<1>6. r \in Progress /\ r.handled = h /\ r.feeds = fs
  BY <1>4, <1>5 DEF Progress
<1> HIDE DEF r
<1>7. QED
  BY <1>1, <1>6 DEF h, fs

-----------------------------------------------------------------------------
\* The state of the migrations of doc respects the user's wish.
Faithful(doc, acc, wish) ==
  /\ acc \in Progress
  /\ doc.applied \subseteq acc.handled
  /\ Fits(acc.feeds, wish)
  /\ OneEach(acc.feeds)
  /\ Recorded(acc.feeds, acc.handled)

\* A feed more whose url is not retired, or is recorded.
LEMMA RecordedOneMore ==
  ASSUME NEW feeds \in Seq(Feed), NEW x \in Feed, NEW handled, NEW more, Recorded(feeds, handled),
         handled \subseteq more, x.url \in DOMAIN UrlReplacements => ReplaceId(x.url) \in more
  PROVE  Recorded(Append(feeds, x), more)
  BY OneMore DEF Recorded

\* A turn of the loop keeps to the wish, and so does an addition.
LEMMA TurnIsFaithful ==
  ASSUME NEW doc \in Document, NEW wish, Respects(doc, wish), NEW acc, Faithful(doc, acc, wish),
         NEW i \in 1..Len(doc.feeds)
  PROVE  Faithful(doc, MigrateFeed(acc, doc.feeds[i]), wish)
<1> DEFINE f == doc.feeds[i]
           after == MigrateFeed(acc, f)
<1>1. doc.feeds \in Seq(Feed) /\ doc.applied \in SUBSET Migration /\ f \in Feed
  BY DEF Document
<1>2. f.url \in UrlsOf(doc.feeds) /\ f.url \in Url
  BY <1>1, UrlsAt DEF Feed
<1>3. acc \in Progress /\ acc.feeds \in Seq(Feed) /\ doc.applied \subseteq acc.handled
  BY DEF Faithful, Progress
<1>4. PICK url, on : Turn(acc, after, f, url, on)
  BY <1>1, <1>3, MigrateFeedTurn
<1> HIDE DEF after
<1> DEFINE x == [url |-> url, on |-> on]
<1>5. url \in Url /\ x \in Feed /\ x.url = url /\ x.on = on
  BY <1>4 DEF Turn, Feed
<1>6. wish[url] # "deleted" /\ (wish[url] = "enabled" => on)
  <2>1. ASSUME wish[url] \in {"deleted", "enabled"} PROVE url = f.url
    <3>1. ASSUME f.url \in DOMAIN UrlReplacements, ReplaceId(f.url) \notin acc.handled, url = UrlReplacements[f.url]
          PROVE  FALSE
      <4>1. wish[url] # "nothing"
        BY <2>1
      <4>2. <<"url-replacement", f.url>> \in doc.applied
        BY <1>2, <1>5, <3>1, <4>1 DEF Respects
      <4>3. QED
        BY <1>3, <3>1, <4>2 DEF ReplaceId
    <3>2. QED
      BY <1>4, <3>1 DEF Turn
  <2>2. ASSUME wish[url] = "deleted" PROVE FALSE
    <3>1. url \notin UrlsOf(doc.feeds)
      BY <1>5, <2>2 DEF Respects
    <3>2. QED
      BY <1>2, <2>1, <2>2, <3>1
  <2>3. ASSUME wish[url] = "enabled" PROVE on
    <3>1. url = f.url
      BY <2>1, <2>3
    <3>2. i \in DOMAIN doc.feeds /\ wish[url] # "nothing"
      BY <1>1, <2>3
    <3>3. f.on
      BY <1>5, <2>3, <3>1, <3>2 DEF Respects
    <3>4. url \in DisableUrls => DisableId(url) \in acc.handled
      BY <1>3, <1>5, <2>3, <3>2 DEF Respects, DisableId
    <3>5. on <=> f.on /\ ~(url \in DisableUrls /\ DisableId(url) \notin acc.handled)
      BY <1>4, Zenon DEF Turn
    <3>6. QED
      BY <3>3, <3>4, <3>5
  <2>4. QED
    BY <2>2, <2>3
<1>7. after \in Progress /\ acc.handled \subseteq after.handled
  BY <1>4 DEF Turn
<1>8. CASE url \in UrlsOf(acc.feeds)
  <2>1. after.feeds = acc.feeds
    BY <1>4, <1>8 DEF Turn
  <2>2. Recorded(acc.feeds, after.handled)
    BY <1>7 DEF Faithful, Recorded
  <2>3. QED
    BY <1>3, <1>7, <2>1, <2>2 DEF Faithful, after
<1>9. CASE url \notin UrlsOf(acc.feeds)
  <2>1. after.feeds = Append(acc.feeds, x)
    BY <1>4, <1>9 DEF Turn
  <2>2. url \in DOMAIN UrlReplacements => ReplaceId(url) \in after.handled
    BY <1>4, Replacements DEF Turn
  <2> HIDE DEF x, f
  <2>3. Fits(acc.feeds, wish) /\ OneEach(acc.feeds) /\ Recorded(acc.feeds, acc.handled)
    BY DEF Faithful
  <2>4. Fits(Append(acc.feeds, x), wish)
    BY <1>3, <1>5, <1>6, <2>3, FitsOneMore
  <2>5. OneEach(Append(acc.feeds, x))
    BY <1>3, <1>5, <1>9, <2>3, OneEachOneMore
  <2>6. Recorded(Append(acc.feeds, x), after.handled)
    BY <1>3, <1>5, <1>7, <2>2, <2>3, RecordedOneMore
  <2>7. Faithful(doc, after, wish)
    BY <1>3, <1>7, <2>1, <2>4, <2>5, <2>6 DEF Faithful
  <2>8. QED
    BY <2>7 DEF after, f
<1>10. QED
  BY <1>8, <1>9

LEMMA SupplementIsFaithful ==
  ASSUME NEW doc \in Document, NEW wish, Respects(doc, wish), NEW acc, Faithful(doc, acc, wish),
         NEW url \in ToSet(SupplementalFeeds)
  PROVE  Faithful(doc, AddSupplemental(acc, url), wish)
<1> DEFINE after == AddSupplemental(acc, url)
           x == [url |-> url, on |-> TRUE]
<1>1. url \in Url /\ url \notin DOMAIN UrlReplacements /\ x \in Feed /\ x.url = url /\ x.on
  <2>1. url \in Url /\ url \notin DOMAIN UrlReplacements
    BY NewsAssumption DEF NewsAssumption, ToSet
  <2>2. QED
    BY <2>1 DEF Feed
<1>2. /\ acc \in Progress /\ acc.feeds \in Seq(Feed) /\ doc.applied \subseteq acc.handled
      /\ Fits(acc.feeds, wish) /\ OneEach(acc.feeds) /\ Recorded(acc.feeds, acc.handled)
  BY DEF Faithful, Progress
<1>3. /\ after \in Progress
      /\ after.handled = acc.handled \cup {SupplementalId(url)}
      /\ after.feeds = IF SupplementalId(url) \in acc.handled \/ url \in UrlsOf(acc.feeds) THEN acc.feeds
                       ELSE Append(acc.feeds, x)
  BY <1>1, <1>2, AddSupplementalEffect
<1> HIDE DEF after, x
<1>4. acc.handled \subseteq after.handled
  BY <1>3
<1>5. CASE SupplementalId(url) \in acc.handled \/ url \in UrlsOf(acc.feeds)
  <2>1. Recorded(acc.feeds, after.handled)
    BY <1>2, <1>4 DEF Recorded
  <2>2. QED
    BY <1>2, <1>3, <1>4, <1>5, <2>1 DEF Faithful, after
<1>6. CASE ~(SupplementalId(url) \in acc.handled \/ url \in UrlsOf(acc.feeds))
  <2>1. wish[url] = "nothing" \/ wish[url] \notin {"deleted", "enabled"}
    <3>1. ASSUME wish[url] # "nothing" PROVE FALSE
      <4>1. SupplementalId(url) \in doc.applied
        BY <1>1, <3>1 DEF Respects, SupplementalId
      <4>2. QED
        BY <1>2, <1>6, <4>1
    <3>2. QED
      BY <3>1
  <2>2. Fits(Append(acc.feeds, x), wish)
    BY <1>1, <1>2, <2>1, FitsOneMore
  <2>3. OneEach(Append(acc.feeds, x))
    BY <1>1, <1>2, <1>6, OneEachOneMore
  <2>4. Recorded(Append(acc.feeds, x), after.handled)
    BY <1>1, <1>2, <1>4, RecordedOneMore
  <2>5. QED
    BY <1>2, <1>3, <1>4, <1>6, <2>2, <2>3, <2>4 DEF Faithful, after
<1>7. QED
  BY <1>5, <1>6

-----------------------------------------------------------------------------
\* The loop and the additions of migrate_feeds, step by step.
Loop(f, doc) ==
  /\ f \in [0..Len(doc.feeds) -> Progress]
  /\ f[0] = [handled |-> doc.applied, feeds |-> <<>>]
  /\ \A n \in 1..Len(doc.feeds) : f[n] = MigrateFeed(f[n - 1], doc.feeds[n])

Additions(e, start) ==
  /\ e \in [0..Len(SupplementalFeeds) -> Progress]
  /\ e[0] = start
  /\ \A n \in 1..Len(SupplementalFeeds) : e[n] = AddSupplemental(e[n - 1], SupplementalFeeds[n])

MigratesBy(f, e, doc) ==
  /\ Loop(f, doc)
  /\ Additions(e, f[Len(doc.feeds)])
  /\ Migrated(doc) = [feeds |-> e[Len(SupplementalFeeds)].feeds, applied |-> e[Len(SupplementalFeeds)].handled]

\* Migrated takes these steps: its recursive functions are tables.
LEMMA MigrationSteps ==
  ASSUME NEW doc \in Document
  PROVE  \E f, e : MigratesBy(f, e, doc)
<1> DEFINE N == Len(doc.feeds)
           K == Len(SupplementalFeeds)
           P == Progress
           x == [handled |-> doc.applied, feeds |-> <<>>]
           Step(n, t) == MigrateFeed(t, doc.feeds[n])
           More(n, t) == AddSupplemental(t, SupplementalFeeds[n])
           loop[i \in 0..Len(doc.feeds)] ==
             IF i = 0 THEN [handled |-> doc.applied, feeds |-> <<>>]
             ELSE MigrateFeed(loop[i - 1], doc.feeds[i])
           extras[i \in 0..Len(SupplementalFeeds)] ==
             IF i = 0 THEN loop[Len(doc.feeds)]
             ELSE AddSupplemental(extras[i - 1], SupplementalFeeds[i])
           all == extras[Len(SupplementalFeeds)]
           turn(h, n) == IF n = 0 THEN [handled |-> doc.applied, feeds |-> <<>>]
                         ELSE MigrateFeed(h[n - 1], doc.feeds[n])
           add(h, n) == IF n = 0 THEN loop[Len(doc.feeds)]
                        ELSE AddSupplemental(h[n - 1], SupplementalFeeds[n])
           g == [n \in 1..N |-> [t \in P |-> Step(n, t)]]
           m == [n \in 1..K |-> [t \in P |-> More(n, t)]]
<1>1. N \in Nat /\ x \in P /\ \A n \in 1..N : doc.feeds[n] \in Feed
  BY DEF Document, Progress
<1>2. K \in Nat /\ \A n \in 1..K : SupplementalFeeds[n] \in Url
  BY NewsAssumption DEF NewsAssumption
<1>3. \A n \in 1..N : \A t \in P : Step(n, t) \in P
  <2>1. ASSUME NEW n \in 1..N, NEW t \in P PROVE Step(n, t) \in P
    <3>1. \E url, on : Turn(t, MigrateFeed(t, doc.feeds[n]), doc.feeds[n], url, on)
      BY <1>1, MigrateFeedTurn
    <3>2. QED
      BY <3>1, Zenon DEF Turn
  <2>2. QED
    BY <2>1
<1>4. \A n \in 1..K : \A t \in P : More(n, t) \in P
  BY <1>2, AddSupplementalEffect
<1>5. Migrated(doc) = [feeds |-> all.feeds, applied |-> all.handled]
  BY Zenon DEF Migrated
<1>6. \A h : \A n : turn(h, n) = IF n = 0 THEN x ELSE Step(n, h[n - 1])
  OBVIOUS
<1>7. \A h : \A n : add(h, n) = IF n = 0 THEN loop[N] ELSE More(n, h[n - 1])
  BY Zenon
<1>8. \A n : \A t : Step(n, t) = MigrateFeed(t, doc.feeds[n]) /\ More(n, t) = AddSupplemental(t, SupplementalFeeds[n])
  OBVIOUS
<1> HIDE DEF Step, More, N, K, P, x
<1>9. g \in [1..N -> [P -> P]] /\ \A n \in 1..N : \A t \in P : g[n][t] = Step(n, t)
  BY <1>3
<1>10. m \in [1..K -> [P -> P]] /\ \A n \in 1..K : \A t \in P : m[n][t] = More(n, t)
  BY <1>4
<1> HIDE DEF g, m
<1>11. PICK f \in [0..N -> P] : f[0] = x /\ \A n \in 1..N : f[n] = g[n][f[n - 1]]
  <2> HIDE DEF loop, turn, extras, add
  <2>1. \E h : Table(h, N, P, x, g)
    BY <1>1, <1>9, Recursion, Zenon
  <2>2. QED
    BY <2>1, Zenon DEF Table
<1>12. ASSUME NEW n \in 1..N PROVE f[n] = Step(n, f[n - 1])
  <2>1. f[n - 1] \in P /\ f[n] = g[n][f[n - 1]]
    BY <1>1, <1>11
  <2>2. QED
    BY <1>9, <2>1
<1>13. f = [n \in 0..N |-> turn(f, n)]
  <2> HIDE DEF turn
  <2>1. ASSUME NEW n \in 0..N PROVE f[n] = turn(f, n)
    <3>1. turn(f, n) = IF n = 0 THEN x ELSE Step(n, f[n - 1])
      BY <1>6, Zenon
    <3>2. CASE n = 0
      BY <1>11, <3>1, <3>2
    <3>3. CASE n # 0
      BY <1>1, <1>12, <3>1, <3>3
    <3>4. QED
      BY <3>2, <3>3
  <2>2. QED
    BY <1>11, <2>1
<1>14. loop = [n \in 0..N |-> turn(loop, n)]
  BY <1>13, Zenon DEF N
<1>15. \A n \in 0..N : loop[n] = (IF n = 0 THEN x ELSE Step(n, loop[n - 1])) /\ loop[n] \in P
  <2> HIDE DEF loop, turn, extras, add
  <2> DEFINE G == {n \in 0..N : loop[n] \in P}
  <2>1. \A n \in 0..N : loop[n] = IF n = 0 THEN x ELSE Step(n, loop[n - 1])
    BY <1>6, <1>14, Zenon
  <2>2. 0 \in G /\ (\A n \in 1..N : n - 1 \in G => n \in G) /\ G \in SUBSET (0..N)
    BY <1>1, <1>3, <2>1
  <2> HIDE DEF G
  <2>3. G = 0..N
    BY <1>1, <2>2, UpTo
  <2>4. \A n \in 0..N : loop[n] \in P
    BY <2>3 DEF G
  <2>5. QED
    BY <2>1, <2>4
<1>16. PICK e \in [0..K -> P] : e[0] = loop[N] /\ \A n \in 1..K : e[n] = m[n][e[n - 1]]
  <2> HIDE DEF loop, turn, extras, add
  <2>1. loop[N] \in P
    BY <1>1, <1>15
  <2> HIDE DEF loop, turn, extras, add
  <2>2. \E h : Table(h, K, P, loop[N], m)
    BY <1>2, <1>10, <2>1, Recursion, Zenon
  <2>3. QED
    BY <2>2, Zenon DEF Table
<1>17. ASSUME NEW n \in 1..K PROVE e[n] = More(n, e[n - 1])
  <2>1. e[n - 1] \in P /\ e[n] = m[n][e[n - 1]]
    BY <1>2, <1>16
  <2>2. QED
    BY <1>10, <2>1
<1>18. e = [n \in 0..K |-> add(e, n)]
  <2> HIDE DEF add, loop
  <2>1. ASSUME NEW n \in 0..K PROVE e[n] = add(e, n)
    <3>1. add(e, n) = IF n = 0 THEN loop[N] ELSE More(n, e[n - 1])
      BY <1>7, Zenon
    <3>2. CASE n = 0
      BY <1>16, <3>1, <3>2
    <3>3. CASE n # 0
      BY <1>2, <1>17, <3>1, <3>3
    <3>4. QED
      BY <3>2, <3>3
  <2>2. QED
    BY <1>16, <2>1
<1>19. extras = [n \in 0..K |-> add(extras, n)]
  <2> HIDE DEF loop
  <2>1. QED
    BY <1>18, Zenon DEF K
<1> HIDE DEF loop, turn, extras, add
<1>20. \A n \in 0..K : extras[n] = IF n = 0 THEN loop[N] ELSE More(n, extras[n - 1])
  BY <1>7, <1>19, Zenon
<1>21. \A n \in 0..K : extras[n] \in P
  <2> DEFINE G == {n \in 0..K : extras[n] \in P}
  <2>1. N \in 0..N
    BY <1>1
  <2>2. 0 \in G /\ (\A n \in 1..K : n - 1 \in G => n \in G) /\ G \in SUBSET (0..K)
    BY <1>2, <1>4, <1>20, <1>15, <2>1
  <2> HIDE DEF G
  <2>3. G = 0..K
    BY <1>2, <2>2, UpTo
  <2>4. QED
    BY <2>3 DEF G
<1>22. loop \in [0..N -> P] /\ extras \in [0..K -> P]
  BY <1>14, <1>19, <1>15, <1>21
<1>23. Loop(loop, doc)
  <2>1. loop[0] = x
    BY <1>1, <1>15
  <2>2. ASSUME NEW n \in 1..N PROVE loop[n] = MigrateFeed(loop[n - 1], doc.feeds[n])
    <3>1. n \in 0..N /\ n # 0
      BY <1>1
    <3>2. loop[n] = Step(n, loop[n - 1])
      BY <1>15, <3>1, Zenon
    <3>3. QED
      BY <1>8, <3>2, Zenon
  <2>3. QED
    BY <1>22, <2>1, <2>2, Zenon DEF Loop, N, P, x
<1>24. Additions(extras, loop[Len(doc.feeds)])
  <2>1. extras[0] = loop[N]
    BY <1>2, <1>20
  <2>2. ASSUME NEW n \in 1..K PROVE extras[n] = AddSupplemental(extras[n - 1], SupplementalFeeds[n])
    <3>1. n \in 0..K /\ n # 0
      BY <1>2
    <3>2. extras[n] = More(n, extras[n - 1])
      BY <1>20, <3>1, Zenon
    <3>3. QED
      BY <1>8, <3>2, Zenon
  <2>3. QED
    BY <1>22, <2>1, <2>2, Zenon DEF Additions, N, K, P
<1>25. QED
  BY <1>5, <1>23, <1>24, Zenon DEF MigratesBy

-----------------------------------------------------------------------------
\* A feed on the list of dead ones that is not renamed is recorded.
SwitchedOff(doc, handled, i) ==
  /\ doc.feeds[i].url \in DisableUrls
  /\ doc.feeds[i].url \in DOMAIN UrlReplacements => ReplaceId(doc.feeds[i].url) \in doc.applied
  => DisableId(doc.feeds[i].url) \in handled

\* What the migrations make of a document.
Moved(doc, m, wish) ==
  /\ m \in Document
  /\ doc.applied \subseteq m.applied
  /\ Fits(m.feeds, wish) /\ OneEach(m.feeds) /\ Recorded(m.feeds, m.applied)
  /\ \A s \in ToSet(SupplementalFeeds) : SupplementalId(s) \in m.applied
  /\ \A i \in 1..Len(doc.feeds) : SwitchedOff(doc, m.applied, i)

\* A turn records the dead feed it meets.
LEMMA TurnSwitchesOff ==
  ASSUME NEW doc \in Document, NEW acc \in Progress, doc.applied \subseteq acc.handled,
         NEW i \in 1..Len(doc.feeds)
  PROVE  /\ acc.handled \subseteq MigrateFeed(acc, doc.feeds[i]).handled
         /\ SwitchedOff(doc, MigrateFeed(acc, doc.feeds[i]).handled, i)
<1> DEFINE f == doc.feeds[i]
           after == MigrateFeed(acc, f)
<1>1. f \in Feed
  BY DEF Document
<1>2. PICK url, on : Turn(acc, after, f, url, on)
  BY <1>1, MigrateFeedTurn
<1> HIDE DEF after
<1>3. acc.handled \subseteq after.handled
  BY <1>2 DEF Turn
<1>4. ASSUME f.url \in DisableUrls, f.url \in DOMAIN UrlReplacements => ReplaceId(f.url) \in doc.applied
      PROVE  DisableId(f.url) \in after.handled
  BY <1>2, <1>4 DEF Turn
<1>5. QED
  BY <1>3, <1>4 DEF SwitchedOff, after

\* The migrations keep to the wish: Faithful holds after each of their steps.
LEMMA MigratedMoves ==
  ASSUME NEW doc \in Document, NEW wish, Respects(doc, wish)
  PROVE  Moved(doc, Migrated(doc), wish)
<1> DEFINE N == Len(doc.feeds)
           K == Len(SupplementalFeeds)
<1>1. PICK f, e : MigratesBy(f, e, doc)
  BY MigrationSteps
<1>2. /\ f \in [0..N -> Progress]
      /\ f[0] = [handled |-> doc.applied, feeds |-> <<>>]
      /\ \A n \in 1..N : f[n] = MigrateFeed(f[n - 1], doc.feeds[n])
  BY <1>1, Zenon DEF MigratesBy, Loop
<1>3. /\ e \in [0..K -> Progress]
      /\ e[0] = f[N]
      /\ \A n \in 1..K : e[n] = AddSupplemental(e[n - 1], SupplementalFeeds[n])
  BY <1>1, Zenon DEF MigratesBy, Additions
<1>4. N \in Nat /\ K \in Nat /\ SupplementalFeeds \in Seq(Url) /\ DOMAIN SupplementalFeeds = 1..K
  BY NewsAssumption DEF NewsAssumption, Document
<1> HIDE DEF N, K
<1>5. Faithful(doc, f[N], wish) /\ \A i \in 1..N : SwitchedOff(doc, f[N].handled, i)
  <2> DEFINE Good(n) == Faithful(doc, f[n], wish) /\ \A i \in 1..n : SwitchedOff(doc, f[n].handled, i)
             G == {n \in 0..N : Good(n)}
  <2>1. Good(0)
    <3>1. f[0].handled = doc.applied /\ f[0].feeds = <<>> /\ f[0] \in Progress
      BY <1>2, <1>4
    <3>2. UrlsOf(<<>>) = {} /\ Len(<<>>) = 0
      BY DEF UrlsOf
    <3>3. Fits(<<>>, wish) /\ OneEach(<<>>) /\ Recorded(<<>>, doc.applied)
      BY <3>2 DEF Fits, OneEach, Recorded
    <3>4. QED
      BY <3>1, <3>3 DEF Faithful
  <2>2. ASSUME NEW n \in 1..N, Good(n - 1) PROVE Good(n)
    <3>1. f[n] = MigrateFeed(f[n - 1], doc.feeds[n]) /\ n \in 1..Len(doc.feeds) /\ Faithful(doc, f[n - 1], wish)
      BY <1>2, <2>2 DEF N
    <3>2. Faithful(doc, f[n], wish)
      BY <3>1, TurnIsFaithful
    <3>3. f[n - 1].handled \subseteq f[n].handled /\ SwitchedOff(doc, f[n].handled, n)
      BY <3>1, TurnSwitchesOff DEF Faithful
    <3>4. \A i \in 1..n : i = n \/ i \in 1..(n - 1)
      BY <1>4
    <3>5. ASSUME NEW i \in 1..(n - 1) PROVE SwitchedOff(doc, f[n].handled, i)
      BY <2>2, <3>3 DEF SwitchedOff
    <3>6. QED
      BY <3>2, <3>3, <3>4, <3>5
  <2> HIDE DEF Good
  <2>3. 0 \in G /\ (\A n \in 1..N : n - 1 \in G => n \in G) /\ G \in SUBSET (0..N)
    BY <1>4, <2>1, <2>2
  <2> HIDE DEF G
  <2>4. G = 0..N
    BY <1>4, <2>3, UpTo
  <2>5. N \in G
    BY <1>4, <2>4
  <2>6. QED
    BY <2>5 DEF G, Good
<1>6. /\ Faithful(doc, e[K], wish) /\ f[N].handled \subseteq e[K].handled
      /\ \A i \in 1..K : SupplementalId(SupplementalFeeds[i]) \in e[K].handled
  <2> DEFINE Good(n) == /\ Faithful(doc, e[n], wish) /\ f[N].handled \subseteq e[n].handled
                        /\ \A i \in 1..n : SupplementalId(SupplementalFeeds[i]) \in e[n].handled
             G == {n \in 0..K : Good(n)}
  <2>1. Good(0)
    BY <1>3, <1>5
  <2>2. ASSUME NEW n \in 1..K, Good(n - 1) PROVE Good(n)
    <3>1. /\ e[n] = AddSupplemental(e[n - 1], SupplementalFeeds[n]) /\ e[n - 1] \in Progress
          /\ SupplementalFeeds[n] \in ToSet(SupplementalFeeds) /\ SupplementalFeeds[n] \in Url
      BY <1>3, <1>4 DEF ToSet
    <3>2. Faithful(doc, e[n], wish)
      BY <2>2, <3>1, SupplementIsFaithful
    <3>3. e[n].handled = e[n - 1].handled \cup {SupplementalId(SupplementalFeeds[n])}
      BY <3>1, AddSupplementalEffect
    <3>4. \A i \in 1..n : i = n \/ i \in 1..(n - 1)
      BY <1>4
    <3>5. QED
      BY <2>2, <3>2, <3>3, <3>4
  <2> HIDE DEF Good
  <2>3. 0 \in G /\ (\A n \in 1..K : n - 1 \in G => n \in G) /\ G \in SUBSET (0..K)
    BY <1>4, <2>1, <2>2
  <2> HIDE DEF G
  <2>4. G = 0..K
    BY <1>4, <2>3, UpTo
  <2>5. K \in G
    BY <1>4, <2>4
  <2>6. QED
    BY <2>5 DEF G, Good
<1> DEFINE a == e[K]
           m == [feeds |-> a.feeds, applied |-> a.handled]
<1>7. Migrated(doc) = m
  BY <1>1, Zenon DEF MigratesBy, K
<1>8. /\ a \in Progress /\ doc.applied \subseteq a.handled
      /\ Fits(a.feeds, wish) /\ OneEach(a.feeds) /\ Recorded(a.feeds, a.handled)
  BY <1>6, Zenon DEF Faithful
<1>9. m \in Document /\ m.feeds = a.feeds /\ m.applied = a.handled
  BY <1>8 DEF Document, Progress
<1>10. \A s \in ToSet(SupplementalFeeds) : SupplementalId(s) \in a.handled
  BY <1>4, <1>6 DEF ToSet
<1>11. \A i \in 1..Len(doc.feeds) : SwitchedOff(doc, a.handled, i)
  <2> HIDE DEF a
  <2>1. ASSUME NEW i \in 1..N PROVE SwitchedOff(doc, a.handled, i)
    BY <1>5, <1>6 DEF SwitchedOff, a
  <2>2. QED
    BY <2>1 DEF N
<1> HIDE DEF a, m
<1>12. Moved(doc, m, wish)
  BY <1>8, <1>9, <1>10, <1>11, Zenon DEF Moved
<1>13. QED
  BY <1>7, <1>12, Zenon

\* So the migrated document respects it.
LEMMA MovedRespects ==
  ASSUME NEW doc \in Document, NEW m, NEW wish, Respects(doc, wish), Moved(doc, m, wish)
  PROVE  Respects(m, wish)
<1>1. /\ m \in Document /\ doc.applied \subseteq m.applied
      /\ Fits(m.feeds, wish) /\ Recorded(m.feeds, m.applied)
      /\ \A s \in ToSet(SupplementalFeeds) : SupplementalId(s) \in m.applied
  BY Zenon DEF Moved
<1>2. DOMAIN m.feeds = 1..Len(m.feeds)
  BY <1>1 DEF Document
<1>3. SUFFICES ASSUME NEW u \in Url, wish[u] # "nothing"
      PROVE  /\ \A s \in ToSet(SupplementalFeeds) : SupplementalId(s) \in m.applied
             /\ \A r \in UrlsOf(m.feeds) \cap DOMAIN UrlReplacements :
                  UrlReplacements[r] = u => ReplaceId(r) \in m.applied
             /\ wish[u] = "deleted" => u \notin UrlsOf(m.feeds)
             /\ wish[u] = "enabled" =>
                  /\ \A i \in DOMAIN m.feeds : m.feeds[i].url = u => m.feeds[i].on
                  /\ u \in DisableUrls => DisableId(u) \in m.applied
  BY Zenon DEF Respects, SupplementalId, ReplaceId, DisableId
<1>4. wish[u] = "enabled" /\ u \in DisableUrls => DisableId(u) \in doc.applied
  BY <1>3 DEF Respects, DisableId
<1>5. \A r \in UrlsOf(m.feeds) \cap DOMAIN UrlReplacements : ReplaceId(r) \in m.applied
  BY <1>1 DEF Recorded
<1>6. /\ wish[u] = "deleted" => u \notin UrlsOf(m.feeds)
      /\ wish[u] = "enabled" => \A i \in 1..Len(m.feeds) : m.feeds[i].url = u => m.feeds[i].on
  BY <1>1 DEF Fits
<1>7. QED
  BY <1>1, <1>2, <1>4, <1>5, <1>6

\* A document that its migrations leave alone has nothing left to migrate.
Calm(doc) ==
  /\ OneEach(doc.feeds) /\ Recorded(doc.feeds, doc.applied)
  /\ \A s \in ToSet(SupplementalFeeds) : SupplementalId(s) \in doc.applied
  /\ \A i \in 1..Len(doc.feeds) : doc.feeds[i].url \in DisableUrls => DisableId(doc.feeds[i].url) \in doc.applied

LEMMA FixedIsCalm == ASSUME NEW doc \in Document, Migrated(doc) = doc PROVE Calm(doc)
<1>1. Respects(doc, NothingAsked)
  BY DEF Respects, NothingAsked
<1>2. Moved(doc, doc, NothingAsked)
  BY <1>1, MigratedMoves
<1>3. /\ OneEach(doc.feeds) /\ Recorded(doc.feeds, doc.applied)
      /\ \A s \in ToSet(SupplementalFeeds) : SupplementalId(s) \in doc.applied
      /\ \A i \in 1..Len(doc.feeds) : SwitchedOff(doc, doc.applied, i)
  BY <1>2, Zenon DEF Moved
<1>4. doc.feeds \in Seq(Feed)
  BY DEF Document
<1>5. ASSUME NEW i \in 1..Len(doc.feeds), doc.feeds[i].url \in DisableUrls
      PROVE  DisableId(doc.feeds[i].url) \in doc.applied
  <2>1. doc.feeds[i].url \in UrlsOf(doc.feeds)
    BY <1>4, UrlsAt
  <2>2. doc.feeds[i].url \in DOMAIN UrlReplacements => ReplaceId(doc.feeds[i].url) \in doc.applied
    BY <1>3, <2>1 DEF Recorded
  <2>3. QED
    BY <1>3, <1>5, <2>2 DEF SwitchedOff
<1>6. QED
  BY <1>3, <1>5, Zenon DEF Calm

-----------------------------------------------------------------------------
\* What remove keeps: feeds of the list, none of them with the url.
Keeps(w, feeds, url) ==
  /\ w \in Seq(Feed)
  /\ \A i \in 1..Len(w) : w[i].url # url /\ \E k \in 1..Len(feeds) : w[i] = feeds[k]

\* By induction over the list.
LEMMA WithoutKeeps ==
  ASSUME NEW feeds \in Seq(Feed), NEW url
  PROVE  Keeps(Without(feeds, url), feeds, url)
<1> DEFINE N == Len(feeds)
           P == Seq(Feed)
           Step(n, t) == IF feeds[n].url = url THEN t ELSE Append(t, feeds[n])
           kept[i \in 0..Len(feeds)] ==
             IF i = 0 THEN <<>>
             ELSE IF feeds[i].url = url THEN kept[i - 1] ELSE Append(kept[i - 1], feeds[i])
           body(h, i) == IF i = 0 THEN <<>>
                         ELSE IF feeds[i].url = url THEN h[i - 1] ELSE Append(h[i - 1], feeds[i])
           g == [n \in 1..N |-> [t \in P |-> Step(n, t)]]
<1>1. N \in Nat /\ <<>> \in P /\ \A n \in 1..N : feeds[n] \in Feed
  OBVIOUS
<1>2. \A n \in 1..N : \A t \in P : Step(n, t) \in P
  OBVIOUS
<1>3. \A h : \A n : body(h, n) = IF n = 0 THEN <<>> ELSE Step(n, h[n - 1])
  OBVIOUS
<1>4. Without(feeds, url) = kept[N]
  BY Zenon DEF Without
<1>5. \A n : \A t : Step(n, t) = IF feeds[n].url = url THEN t ELSE Append(t, feeds[n])
  OBVIOUS
<1> HIDE DEF Step, N, P
<1>6. g \in [1..N -> [P -> P]] /\ \A n \in 1..N : \A t \in P : g[n][t] = Step(n, t)
  BY <1>2
<1> HIDE DEF g
<1>7. PICK f \in [0..N -> P] : f[0] = <<>> /\ \A n \in 1..N : f[n] = g[n][f[n - 1]]
  <2> HIDE DEF kept, body
  <2>1. \E f : Table(f, N, P, <<>>, g)
    BY <1>1, <1>6, Recursion, Zenon
  <2>2. QED
    BY <2>1, Zenon DEF Table
<1>8. ASSUME NEW n \in 1..N PROVE f[n] = Step(n, f[n - 1])
  <2>1. f[n - 1] \in P /\ f[n] = g[n][f[n - 1]]
    BY <1>1, <1>7
  <2>2. QED
    BY <1>6, <2>1
<1>9. f = [n \in 0..N |-> body(f, n)]
  <2> HIDE DEF body
  <2>1. ASSUME NEW n \in 0..N PROVE f[n] = body(f, n)
    <3>1. body(f, n) = IF n = 0 THEN <<>> ELSE Step(n, f[n - 1])
      BY <1>3, Zenon
    <3>2. CASE n = 0
      BY <1>7, <3>1, <3>2
    <3>3. CASE n # 0
      BY <1>1, <1>8, <3>1, <3>3
    <3>4. QED
      BY <3>2, <3>3
  <2>2. QED
    BY <1>7, <2>1
<1>10. kept = [n \in 0..N |-> body(kept, n)]
  BY <1>9, Zenon DEF N
<1> HIDE DEF kept, body
<1>11. \A n \in 0..N : kept[n] = IF n = 0 THEN <<>> ELSE Step(n, kept[n - 1])
  BY <1>3, <1>10, Zenon
<1> DEFINE Good(n) == /\ kept[n] \in Seq(Feed)
                      /\ \A i \in 1..Len(kept[n]) : kept[n][i].url # url
                      /\ \A i \in 1..Len(kept[n]) : \E k \in 1..N : kept[n][i] = feeds[k]
           G == {n \in 0..N : Good(n)}
<1>12. Good(0)
  <2>1. kept[0] = <<>>
    BY <1>1, <1>11
  <2>2. <<>> \in Seq(Feed) /\ Len(<<>>) = 0
    OBVIOUS
  <2>3. QED
    BY <2>1, <2>2
<1>13. ASSUME NEW n \in 1..N, Good(n - 1) PROVE Good(n)
  <2> DEFINE t == kept[n - 1]
  <2>1. kept[n] = IF feeds[n].url = url THEN t ELSE Append(t, feeds[n])
    <3>1. n \in 0..N /\ n # 0
      BY <1>1
    <3>2. kept[n] = Step(n, t)
      BY <1>11, <3>1, Zenon
    <3>3. QED
      BY <1>5, <3>2, Zenon
  <2>2. /\ t \in Seq(Feed) /\ feeds[n] \in Feed
        /\ \A i \in 1..Len(t) : t[i].url # url
        /\ \A i \in 1..Len(t) : \E k \in 1..N : t[i] = feeds[k]
    BY <1>1, <1>13
  <2> HIDE DEF t
  <2>3. CASE feeds[n].url = url
    BY <2>1, <2>2, <2>3
  <2>4. CASE feeds[n].url # url
    <3> DEFINE r == Append(t, feeds[n])
    <3>1. /\ r \in Seq(Feed) /\ Len(r) = Len(t) + 1 /\ Len(t) \in Nat
          /\ r[Len(t) + 1] = feeds[n] /\ \A i \in 1..Len(t) : r[i] = t[i]
      BY <2>2, OneMore
    <3>2. kept[n] = r
      BY <2>1, <2>4
    <3> HIDE DEF r
    <3>3. ASSUME NEW i \in 1..Len(r)
          PROVE  r[i].url # url /\ \E k \in 1..N : r[i] = feeds[k]
      <4>1. CASE i = Len(t) + 1
        BY <2>4, <3>1, <4>1
      <4>2. CASE i \in 1..Len(t)
        BY <2>2, <3>1, <4>2
      <4>3. QED
        BY <3>1, <4>1, <4>2
    <3>4. QED
      BY <3>1, <3>2, <3>3
  <2>5. QED
    BY <2>3, <2>4
<1> HIDE DEF Good
<1>14. 0 \in G /\ (\A n \in 1..N : n - 1 \in G => n \in G) /\ G \in SUBSET (0..N)
  BY <1>1, <1>12, <1>13
<1> HIDE DEF G
<1>15. G = 0..N
  BY <1>1, <1>14, UpTo
<1>16. Good(N)
  BY <1>1, <1>15 DEF G
<1>17. QED
  BY <1>4, <1>16 DEF Good, Keeps, N

-----------------------------------------------------------------------------
Wishes == [Url -> {"nothing", "deleted", "enabled"}]

\* One who asks for less.
Weaker(a, b) == \A u \in Url : a[u] = "nothing" \/ a[u] = b[u]

\* A document that respects a wish respects a weaker one.
LEMMA WeakerRespects ==
  ASSUME NEW doc, NEW a, NEW b, Weaker(a, b), Respects(doc, b)
  PROVE  Respects(doc, a)
  BY DEF Weaker, Respects

\* To wish nothing is the weakest of all.
LEMMA NothingRespects == \A doc : Respects(doc, NothingAsked)
  BY DEF Respects, NothingAsked

LEMMA NothingIsWeaker == NothingAsked \in Wishes /\ \A b : Weaker(NothingAsked, b)
  BY DEF Weaker, NothingAsked, Wishes

\* The wish behind a save.
LEMMA WishCases ==
  ASSUME NEW wish, NEW s, NEW i
  PROVE  /\ i # Len(s.saves) \/ s.kind \notin {"add", "remove"} => Wish(wish, s, i) = wish
         /\ i = Len(s.saves) /\ s.kind = "add" => Wish(wish, s, i) = WithAdded(wish, s.url)
         /\ i = Len(s.saves) /\ s.kind = "remove" => Wish(wish, s, i) = [wish EXCEPT ![s.url] = "deleted"]
  BY DEF Wish

\* It is a wish, and weaker for one who wishes less.
LEMMA WishIsTyped ==
  ASSUME NEW wish \in Wishes, NEW s, NEW i
  PROVE  Wish(wish, s, i) \in Wishes
<1>1. WithAdded(wish, s.url) \in Wishes
  BY DEF Wishes, WithAdded
<1>2. [wish EXCEPT ![s.url] = "deleted"] \in Wishes
  BY DEF Wishes
<1>3. QED
  BY <1>1, <1>2, WishCases

LEMMA WeakerWish ==
  ASSUME NEW a \in Wishes, NEW b \in Wishes, Weaker(a, b), NEW s, NEW i
  PROVE  Weaker(Wish(a, s, i), Wish(b, s, i))
<1>1. CASE i # Len(s.saves) \/ s.kind \notin {"add", "remove"}
  BY <1>1, WishCases
<1>2. CASE i = Len(s.saves) /\ s.kind = "add"
  <2>1. Weaker(WithAdded(a, s.url), WithAdded(b, s.url))
    BY DEF Weaker, WithAdded
  <2>2. QED
    BY <1>2, <2>1, WishCases
<1>3. CASE i = Len(s.saves) /\ s.kind = "remove"
  <2> DEFINE x == [a EXCEPT ![s.url] = "deleted"]
             y == [b EXCEPT ![s.url] = "deleted"]
  <2>0. \A u \in Url : x[u] = IF u = s.url THEN "deleted" ELSE a[u]
    BY DEF Wishes
  <2>1. \A u \in Url : y[u] = IF u = s.url THEN "deleted" ELSE b[u]
    BY DEF Wishes
  <2> HIDE DEF x, y
  <2>2. Weaker(x, y)
    BY <2>0, <2>1 DEF Weaker
  <2>3. QED
    BY <1>3, <2>2, WishCases DEF x, y
<1>4. QED
  BY <1>1, <1>2, <1>3

-----------------------------------------------------------------------------
\* The user adds a feed to a migrated document, and removes one from it.
LEMMA AddRespects ==
  ASSUME NEW m \in Document, NEW wish \in Wishes, Respects(m, wish), NEW url \in Url
  PROVE  /\ [m EXCEPT !.feeds = Append(@, [url |-> url, on |-> TRUE])] \in Document
         /\ Respects([m EXCEPT !.feeds = Append(@, [url |-> url, on |-> TRUE])], WithAdded(wish, url))
<1> DEFINE x == [url |-> url, on |-> TRUE]
           fs == Append(m.feeds, x)
           d == [m EXCEPT !.feeds = fs]
           w == WithAdded(wish, url)
<1>1. m.feeds \in Seq(Feed) /\ m.applied \in SUBSET Migration
  BY DEF Document
<1>2. x \in Feed /\ x.url = url /\ x.on
  BY DEF Feed
<1>3. /\ fs \in Seq(Feed) /\ Len(fs) = Len(m.feeds) + 1 /\ Len(m.feeds) \in Nat
      /\ fs[Len(m.feeds) + 1] = x /\ \A i \in 1..Len(m.feeds) : fs[i] = m.feeds[i]
      /\ UrlsOf(fs) = UrlsOf(m.feeds) \cup {url}
  BY <1>1, <1>2, OneMore
<1> HIDE DEF fs, x
<1>4. d \in Document /\ d.feeds = fs /\ d.applied = m.applied
  BY <1>1, <1>3 DEF Document
<1>5. ASSUME NEW u \in Url, w[u] # "nothing"
      PROVE  u # url /\ (url \in DOMAIN UrlReplacements => UrlReplacements[url] # u) /\ w[u] = wish[u]
  BY <1>5 DEF WithAdded
<1>6. DOMAIN m.feeds = 1..Len(m.feeds) /\ DOMAIN fs = 1..Len(fs)
  BY <1>1, <1>3
<1> HIDE DEF d, w
<1>7. ASSUME NEW u \in Url, w[u] # "nothing"
      PROVE  /\ \A s \in ToSet(SupplementalFeeds) : <<"supplemental-feed", s>> \in d.applied
             /\ \A r \in UrlsOf(d.feeds) \cap DOMAIN UrlReplacements :
                  UrlReplacements[r] = u => <<"url-replacement", r>> \in d.applied
             /\ w[u] = "deleted" => u \notin UrlsOf(d.feeds)
             /\ w[u] = "enabled" =>
                  /\ \A i \in DOMAIN d.feeds : d.feeds[i].url = u => d.feeds[i].on
                  /\ u \in DisableUrls => <<"disable-dead-feed", u>> \in d.applied
  <2>1. /\ wish[u] # "nothing" /\ u # url /\ w[u] = wish[u]
        /\ url \in DOMAIN UrlReplacements => UrlReplacements[url] # u
    BY <1>5, <1>7
  <2>2. /\ \A s \in ToSet(SupplementalFeeds) : <<"supplemental-feed", s>> \in m.applied
        /\ \A r \in UrlsOf(m.feeds) \cap DOMAIN UrlReplacements :
             UrlReplacements[r] = u => <<"url-replacement", r>> \in m.applied
        /\ wish[u] = "deleted" => u \notin UrlsOf(m.feeds)
        /\ wish[u] = "enabled" =>
             /\ \A i \in DOMAIN m.feeds : m.feeds[i].url = u => m.feeds[i].on
             /\ u \in DisableUrls => <<"disable-dead-feed", u>> \in m.applied
    BY <2>1, Zenon DEF Respects
  <2>3. \A r \in UrlsOf(fs) \cap DOMAIN UrlReplacements :
             UrlReplacements[r] = u => <<"url-replacement", r>> \in m.applied
    BY <1>3, <2>1, <2>2
  <2>4. wish[u] = "deleted" => u \notin UrlsOf(fs)
    BY <1>3, <2>1, <2>2
  <2>5. ASSUME wish[u] = "enabled", NEW i \in 1..Len(fs), fs[i].url = u PROVE fs[i].on
    <3>1. i \in 1..Len(m.feeds)
      BY <1>2, <1>3, <2>1, <2>5
    <3>2. QED
      BY <1>3, <1>6, <2>2, <2>5, <3>1
  <2>6. QED
    BY <1>4, <1>6, <2>1, <2>2, <2>3, <2>4, <2>5
<1>8. Respects(d, w)
  BY <1>7 DEF Respects
<1>9. QED
  BY <1>4, <1>8 DEF d, w, fs, x

LEMMA RemoveRespects ==
  ASSUME NEW m \in Document, NEW wish \in Wishes, Respects(m, wish), NEW url \in Url,
         Recorded(m.feeds, m.applied), \A s \in ToSet(SupplementalFeeds) : SupplementalId(s) \in m.applied
  PROVE  /\ [m EXCEPT !.feeds = Without(@, url)] \in Document
         /\ Respects([m EXCEPT !.feeds = Without(@, url)], [wish EXCEPT ![url] = "deleted"])
<1> DEFINE fs == Without(m.feeds, url)
           d == [m EXCEPT !.feeds = fs]
           w == [wish EXCEPT ![url] = "deleted"]
<1>1. m.feeds \in Seq(Feed) /\ m.applied \in SUBSET Migration
  BY DEF Document
<1>2. /\ fs \in Seq(Feed)
      /\ \A i \in 1..Len(fs) : fs[i].url # url /\ \E k \in 1..Len(m.feeds) : fs[i] = m.feeds[k]
  <2>1. Keeps(Without(m.feeds, url), m.feeds, url)
    BY <1>1, WithoutKeeps
  <2>2. QED
    BY <2>1, Zenon DEF Keeps
<1> HIDE DEF fs
<1>3. d \in Document /\ d.feeds = fs /\ d.applied = m.applied
  BY <1>1, <1>2 DEF Document
<1>4. UrlsOf(fs) \subseteq UrlsOf(m.feeds) \ {url}
  <2>1. ASSUME NEW u \in UrlsOf(fs) PROVE u # url /\ u \in UrlsOf(m.feeds)
    <3>1. PICK i \in 1..Len(fs) : fs[i].url = u
      BY <1>2, UrlsAt
    <3>2. PICK k \in 1..Len(m.feeds) : fs[i] = m.feeds[k]
      BY <1>2
    <3>3. QED
      BY <1>1, <1>2, <3>1, <3>2, UrlsAt
  <2>2. QED
    BY <2>1
<1>5. \A u \in Url : w[u] = IF u = url THEN "deleted" ELSE wish[u]
  BY DEF Wishes
<1>6. DOMAIN m.feeds = 1..Len(m.feeds) /\ DOMAIN fs = 1..Len(fs)
  BY <1>1, <1>2
<1> HIDE DEF d, w
<1>7. ASSUME NEW u \in Url, w[u] # "nothing"
      PROVE  /\ \A s \in ToSet(SupplementalFeeds) : <<"supplemental-feed", s>> \in d.applied
             /\ \A r \in UrlsOf(d.feeds) \cap DOMAIN UrlReplacements :
                  UrlReplacements[r] = u => <<"url-replacement", r>> \in d.applied
             /\ w[u] = "deleted" => u \notin UrlsOf(d.feeds)
             /\ w[u] = "enabled" =>
                  /\ \A i \in DOMAIN d.feeds : d.feeds[i].url = u => d.feeds[i].on
                  /\ u \in DisableUrls => <<"disable-dead-feed", u>> \in d.applied
  <2>1. \A s \in ToSet(SupplementalFeeds) : <<"supplemental-feed", s>> \in d.applied
    BY <1>3 DEF SupplementalId
  <2>2. \A r \in UrlsOf(d.feeds) \cap DOMAIN UrlReplacements : <<"url-replacement", r>> \in d.applied
    BY <1>3, <1>4 DEF Recorded, ReplaceId
  <2>3. CASE u = url
    <3>1. w[u] = "deleted" /\ u \notin UrlsOf(d.feeds)
      BY <1>3, <1>4, <1>5, <2>3
    <3>2. QED
      BY <2>1, <2>2, <3>1
  <2>4. CASE u # url
    <3>1. w[u] = wish[u] /\ wish[u] # "nothing"
      BY <1>5, <1>7, <2>4
    <3>2. /\ wish[u] = "deleted" => u \notin UrlsOf(m.feeds)
          /\ wish[u] = "enabled" =>
               /\ \A i \in DOMAIN m.feeds : m.feeds[i].url = u => m.feeds[i].on
               /\ u \in DisableUrls => <<"disable-dead-feed", u>> \in m.applied
      BY <3>1, Zenon DEF Respects
    <3>3. wish[u] = "enabled" => \A i \in DOMAIN fs : fs[i].url = u => fs[i].on
      BY <1>2, <1>6, <3>2
    <3>4. QED
      BY <1>3, <1>4, <2>1, <2>2, <3>1, <3>2, <3>3
  <2>5. QED
    BY <2>3, <2>4
<1>8. Respects(d, w)
  BY <1>7 DEF Respects
<1>9. QED
  BY <1>3, <1>8 DEF d, w, fs

\* The user switches a feed by hand, and deletes one.
LEMMA SwitchRespects ==
  ASSUME NEW doc \in Document, NEW wish \in Wishes, Respects(doc, wish), NEW i \in 1..Len(doc.feeds),
         NEW g \in Feed, g.url = doc.feeds[i].url,
         NEW new \in {"nothing", "enabled"}, new = "enabled" => Calm(doc) /\ g.on
  PROVE  /\ [doc EXCEPT !.feeds = [doc.feeds EXCEPT ![i] = g]] \in Document
         /\ Respects([doc EXCEPT !.feeds = [doc.feeds EXCEPT ![i] = g]], [wish EXCEPT ![g.url] = new])
<1> DEFINE fs == [doc.feeds EXCEPT ![i] = g]
           d == [doc EXCEPT !.feeds = fs]
           w == [wish EXCEPT ![g.url] = new]
<1>1. doc.feeds \in Seq(Feed) /\ doc.applied \in SUBSET Migration
  BY DEF Document
<1>2. /\ fs \in Seq(Feed) /\ Len(fs) = Len(doc.feeds) /\ DOMAIN fs = 1..Len(fs) /\ Len(fs) \in Nat
      /\ DOMAIN doc.feeds = 1..Len(fs)
      /\ fs[i] = g /\ \A k \in 1..Len(fs) : k # i => fs[k] = doc.feeds[k]
  BY <1>1
<1> HIDE DEF fs
<1>3. d \in Document /\ d.feeds = fs /\ d.applied = doc.applied
  BY <1>1, <1>2 DEF Document
<1>4. \A k \in 1..Len(fs) : fs[k].url = doc.feeds[k].url
  BY <1>2
<1>5. UrlsOf(fs) = UrlsOf(doc.feeds)
  BY <1>2, <1>4 DEF UrlsOf
<1>6. \A u \in Url : w[u] = IF u = g.url THEN new ELSE wish[u]
  BY DEF Wishes
<1> HIDE DEF d, w
<1>7. ASSUME NEW u \in Url, w[u] # "nothing"
      PROVE  /\ \A s \in ToSet(SupplementalFeeds) : <<"supplemental-feed", s>> \in d.applied
             /\ \A r \in UrlsOf(d.feeds) \cap DOMAIN UrlReplacements :
                  UrlReplacements[r] = u => <<"url-replacement", r>> \in d.applied
             /\ w[u] = "deleted" => u \notin UrlsOf(d.feeds)
             /\ w[u] = "enabled" =>
                  /\ \A k \in DOMAIN d.feeds : d.feeds[k].url = u => d.feeds[k].on
                  /\ u \in DisableUrls => <<"disable-dead-feed", u>> \in d.applied
  <2>1. CASE u = g.url
    <3>1. w[u] = "enabled" /\ g.on
      BY <1>6, <1>7, <2>1
    <3>2. /\ OneEach(doc.feeds) /\ Recorded(doc.feeds, doc.applied)
          /\ \A s \in ToSet(SupplementalFeeds) : <<"supplemental-feed", s>> \in doc.applied
          /\ \A k \in 1..Len(fs) : doc.feeds[k].url \in DisableUrls => <<"disable-dead-feed", doc.feeds[k].url>> \in doc.applied
      BY <1>2, <1>6, <1>7, <2>1 DEF Calm, SupplementalId, DisableId
    <3>3. \A r \in UrlsOf(fs) \cap DOMAIN UrlReplacements : <<"url-replacement", r>> \in doc.applied
      BY <1>5, <3>2 DEF Recorded, ReplaceId
    <3>4. ASSUME NEW k \in 1..Len(fs), fs[k].url = u PROVE fs[k].on
      <4>1. k = i
        BY <1>2, <1>4, <2>1, <3>2, <3>4 DEF OneEach
      <4>2. QED
        BY <1>2, <3>1, <4>1
    <3>5. u \in DisableUrls => <<"disable-dead-feed", u>> \in doc.applied
      BY <1>2, <2>1, <3>2
    <3>6. QED
      BY <1>2, <1>3, <3>1, <3>2, <3>3, <3>4, <3>5
  <2>2. CASE u # g.url
    <3>1. w[u] = wish[u] /\ wish[u] # "nothing"
      BY <1>6, <1>7, <2>2
    <3>2. /\ \A s \in ToSet(SupplementalFeeds) : <<"supplemental-feed", s>> \in doc.applied
          /\ \A r \in UrlsOf(doc.feeds) \cap DOMAIN UrlReplacements :
               UrlReplacements[r] = u => <<"url-replacement", r>> \in doc.applied
          /\ wish[u] = "deleted" => u \notin UrlsOf(doc.feeds)
          /\ wish[u] = "enabled" =>
               /\ \A k \in DOMAIN doc.feeds : doc.feeds[k].url = u => doc.feeds[k].on
               /\ u \in DisableUrls => <<"disable-dead-feed", u>> \in doc.applied
      BY <3>1, Zenon DEF Respects
    <3>3. ASSUME wish[u] = "enabled", NEW k \in 1..Len(fs), fs[k].url = u PROVE fs[k].on
      <4>1. k # i
        BY <1>2, <2>2, <3>3
      <4>2. QED
        BY <1>2, <3>2, <3>3, <4>1
    <3>4. QED
      BY <1>2, <1>3, <1>5, <3>1, <3>2, <3>3
  <2>3. QED
    BY <2>1, <2>2
<1>8. Respects(d, w)
  BY <1>7 DEF Respects
<1>9. QED
  BY <1>3, <1>8 DEF d, w, fs

LEMMA DeleteRespects ==
  ASSUME NEW doc \in Document, NEW wish \in Wishes, Respects(doc, wish), NEW i \in 1..Len(doc.feeds),
         NEW new \in {"nothing", "deleted"}, new = "deleted" => Calm(doc)
  PROVE  /\ [doc EXCEPT !.feeds = RemoveAt(doc.feeds, i)] \in Document
         /\ Respects([doc EXCEPT !.feeds = RemoveAt(doc.feeds, i)], [wish EXCEPT ![doc.feeds[i].url] = new])
<1> DEFINE url == doc.feeds[i].url
           fs == RemoveAt(doc.feeds, i)
           d == [doc EXCEPT !.feeds = fs]
           w == [wish EXCEPT ![url] = new]
<1>1. doc.feeds \in Seq(Feed) /\ doc.applied \in SUBSET Migration /\ Len(doc.feeds) \in Nat
  BY DEF Document
<1>2. /\ fs \in Seq(Feed) /\ Len(fs) = Len(doc.feeds) - 1 /\ DOMAIN fs = 1..Len(fs)
      /\ \A k \in 1..Len(fs) : fs[k] = IF k < i THEN doc.feeds[k] ELSE doc.feeds[k + 1]
  BY <1>1, RemoveAtIs
<1> HIDE DEF fs
<1>3. ASSUME NEW k \in 1..Len(fs) PROVE \E n \in 1..Len(doc.feeds) : n # i /\ fs[k] = doc.feeds[n]
  <2> DEFINE n == IF k < i THEN k ELSE k + 1
  <2>1. n \in 1..Len(doc.feeds) /\ n # i /\ fs[k] = doc.feeds[n]
    BY <1>1, <1>2
  <2> HIDE DEF n
  <2>2. QED
    BY <2>1
<1>4. d \in Document /\ d.feeds = fs /\ d.applied = doc.applied
  BY <1>1, <1>2 DEF Document
<1>5. ASSUME NEW u \in UrlsOf(fs) PROVE u \in UrlsOf(doc.feeds)
  <2>1. PICK k \in 1..Len(fs) : fs[k].url = u
    BY <1>2, UrlsAt
  <2>2. PICK n \in 1..Len(doc.feeds) : fs[k] = doc.feeds[n]
    BY <1>3
  <2>3. QED
    BY <1>1, <2>1, <2>2, UrlsAt
<1>6. \A u \in Url : w[u] = IF u = url THEN new ELSE wish[u]
  BY DEF Wishes
<1> HIDE DEF d, w, url
<1>7. ASSUME NEW u \in Url, w[u] # "nothing"
      PROVE  /\ \A s \in ToSet(SupplementalFeeds) : <<"supplemental-feed", s>> \in d.applied
             /\ \A r \in UrlsOf(d.feeds) \cap DOMAIN UrlReplacements :
                  UrlReplacements[r] = u => <<"url-replacement", r>> \in d.applied
             /\ w[u] = "deleted" => u \notin UrlsOf(d.feeds)
             /\ w[u] = "enabled" =>
                  /\ \A k \in DOMAIN d.feeds : d.feeds[k].url = u => d.feeds[k].on
                  /\ u \in DisableUrls => <<"disable-dead-feed", u>> \in d.applied
  <2>1. CASE u = url
    <3>1. w[u] = "deleted"
      BY <1>6, <1>7, <2>1
    <3>2. /\ OneEach(doc.feeds) /\ Recorded(doc.feeds, doc.applied)
          /\ \A s \in ToSet(SupplementalFeeds) : <<"supplemental-feed", s>> \in doc.applied
      BY <1>6, <2>1, <3>1 DEF Calm, SupplementalId
    <3>3. \A r \in UrlsOf(fs) \cap DOMAIN UrlReplacements : <<"url-replacement", r>> \in doc.applied
      BY <1>5, <3>2 DEF Recorded, ReplaceId
    <3>4. url \notin UrlsOf(fs)
      <4>1. ASSUME NEW k \in 1..Len(fs), fs[k].url = url PROVE FALSE
        <5>1. PICK n \in 1..Len(doc.feeds) : n # i /\ fs[k] = doc.feeds[n]
          BY <1>3
        <5>2. QED
          BY <3>2, <4>1, <5>1 DEF OneEach, url
      <4>2. QED
        BY <1>2, <4>1, UrlsAt
    <3>5. QED
      BY <1>4, <2>1, <3>1, <3>2, <3>3, <3>4
  <2>2. CASE u # url
    <3>1. w[u] = wish[u] /\ wish[u] # "nothing"
      BY <1>6, <1>7, <2>2
    <3>2. /\ \A s \in ToSet(SupplementalFeeds) : <<"supplemental-feed", s>> \in doc.applied
          /\ \A r \in UrlsOf(doc.feeds) \cap DOMAIN UrlReplacements :
               UrlReplacements[r] = u => <<"url-replacement", r>> \in doc.applied
          /\ wish[u] = "deleted" => u \notin UrlsOf(doc.feeds)
          /\ wish[u] = "enabled" =>
               /\ \A k \in DOMAIN doc.feeds : doc.feeds[k].url = u => doc.feeds[k].on
               /\ u \in DisableUrls => <<"disable-dead-feed", u>> \in doc.applied
      BY <3>1, Zenon DEF Respects
    <3>3. ASSUME wish[u] = "enabled", NEW k \in 1..Len(fs), fs[k].url = u PROVE fs[k].on
      <4>1. PICK n \in 1..Len(doc.feeds) : n # i /\ fs[k] = doc.feeds[n]
        BY <1>3
      <4>2. n \in DOMAIN doc.feeds
        BY <1>1
      <4>3. QED
        BY <3>2, <3>3, <4>1, <4>2
    <3>4. QED
      BY <1>2, <1>4, <1>5, <3>1, <3>2, <3>3
  <2>3. QED
    BY <2>1, <2>2
<1>8. Respects(d, w)
  BY <1>7 DEF Respects
<1>9. QED
  BY <1>4, <1>8 DEF d, w, fs, url

-----------------------------------------------------------------------------
\* A sequence that holds one element once or not at all, and copies of it at most.
Once(l, m) == l = <<>> \/ l = <<m>>
Copies(l, S, m) == l \in Seq(S) /\ DOMAIN l = 1..Len(l) /\ Len(l) \in Nat /\ \A i \in 1..Len(l) : l[i] = m

LEMMA OnceCopies ==
  ASSUME NEW S, NEW m \in S, NEW l, Once(l, m)
  PROVE  Copies(l, S, m)
<1>1. CASE l = <<>>
  <2>1. <<>> \in Seq(S) /\ DOMAIN <<>> = 1..0 /\ Len(<<>>) = 0
    OBVIOUS
  <2>2. QED
    BY <1>1, <2>1 DEF Copies
<1>2. CASE l = <<m>>
  <2>1. <<m>> \in Seq(S) /\ DOMAIN <<m>> = 1..1 /\ Len(<<m>>) = 1 /\ <<m>>[1] = m
    OBVIOUS
  <2>2. QED
    BY <1>2, <2>1 DEF Copies
<1>3. QED
  BY <1>1, <1>2 DEF Once

LEMMA Single ==
  ASSUME NEW S, NEW d \in S
  PROVE  <<d>> \in Seq(S) /\ Len(<<d>>) = 1 /\ <<d>>[1] = d
  OBVIOUS

\* An operation with its document saved once or not at all, and one with a change
\* saved after that.
LEMMA OneSave ==
  ASSUME NEW m \in Document, NEW wish \in Wishes, Respects(m, wish), NEW s,
         Once(s.saves, m), s.kind # "remove"
  PROVE  SavesRespect(s, wish)
<1> DEFINE q == s.saves
<1>1. q \in Seq(Document) /\ DOMAIN q = 1..Len(q) /\ \A i \in 1..Len(q) : q[i] = m
  <2>1. Copies(q, Document, m)
    BY OnceCopies
  <2>2. QED
    BY <2>1, Zenon DEF Copies
<1> HIDE DEF q
<1>2. ASSUME NEW i PROVE Respects(m, Wish(wish, s, i))
  <2>1. Weaker(WithAdded(wish, s.url), wish)
    BY DEF Weaker, WithAdded
  <2>2. Respects(m, WithAdded(wish, s.url))
    BY <2>1, WeakerRespects
  <2>3. Wish(wish, s, i) = wish \/ Wish(wish, s, i) = WithAdded(wish, s.url)
    BY WishCases
  <2>4. QED
    BY <2>2, <2>3
<1>3. QED
  BY <1>1, <1>2 DEF SavesRespect, q

LEMMA SaveAndChange ==
  ASSUME NEW m \in Document, NEW d \in Document, NEW wish, Respects(m, wish), NEW l, Once(l, m),
         NEW s, s.saves = l \o <<d>>, Respects(d, Wish(wish, s, Len(s.saves)))
  PROVE  SavesRespect(s, wish)
<1> DEFINE q == l \o <<d>>
<1>1. l \in Seq(Document) /\ Len(l) \in Nat /\ \A i \in 1..Len(l) : l[i] = m
  <2>1. Copies(l, Document, m)
    BY OnceCopies
  <2>2. QED
    BY <2>1, Zenon DEF Copies
<1>2. /\ <<d>> \in Seq(Document) /\ Len(<<d>>) = 1 /\ <<d>>[1] = d
  BY Single
<1>3. /\ q \in Seq(Document) /\ Len(q) = Len(l) + 1
      /\ \A i \in 1..(Len(l) + 1) : q[i] = IF i <= Len(l) THEN l[i] ELSE <<d>>[i - Len(l)]
  BY <1>1, <1>2, ConcatProperties
<1> HIDE DEF q
<1>4. DOMAIN q = 1..(Len(l) + 1)
  BY <1>1, <1>3
<1>5. s.saves = q
  BY DEF q
<1>6. ASSUME NEW i \in 1..(Len(l) + 1) PROVE Respects(q[i], Wish(wish, s, i))
  <2>1. CASE i <= Len(l)
    <3>1. q[i] = m /\ i # Len(s.saves)
      BY <1>1, <1>3, <1>5, <2>1
    <3>2. Wish(wish, s, i) = wish
      BY <3>1, WishCases
    <3>3. QED
      BY <3>1, <3>2
  <2>2. CASE i = Len(l) + 1
    <3>1. q[i] = d /\ i = Len(s.saves)
      BY <1>1, <1>2, <1>3, <1>5, <2>2
    <3>2. QED
      BY <3>1
  <2>3. QED
    BY <1>1, <2>1, <2>2
<1>7. QED
  BY <1>3, <1>4, <1>5, <1>6 DEF SavesRespect

\* The saves of every operation respect the wish the user will have had.
LEMMA SavesOfRespect ==
  ASSUME NEW doc \in Document, NEW wish \in Wishes, Respects(doc, wish), NEW kind, NEW url,
         kind = "load" \/ (kind \in {"add", "remove"} /\ url \in Url),
         NEW s, s.saves = SavesOf(kind, url, doc, Migrated(doc)), s.kind = kind, s.url = url
  PROVE  SavesRespect(s, wish)
<1> DEFINE m == Migrated(doc)
           loaded == IF m.applied # doc.applied THEN <<m>> ELSE <<>>
           added == [m EXCEPT !.feeds = Append(@, [url |-> url, on |-> TRUE])]
           kept == [m EXCEPT !.feeds = Without(@, url)]
<1>1. Moved(doc, m, wish)
  BY MigratedMoves
<1>2. Respects(m, wish)
  BY <1>1, MovedRespects
<1>3. /\ m \in Document /\ Recorded(m.feeds, m.applied)
      /\ \A u \in ToSet(SupplementalFeeds) : SupplementalId(u) \in m.applied
  BY <1>1, Zenon DEF Moved
<1>4. /\ kind = "load" => s.saves = loaded
      /\ kind = "add" => s.saves = IF url \in UrlsOf(m.feeds) THEN loaded ELSE loaded \o <<added>>
      /\ kind = "remove" => s.saves = loaded \o <<kept>>
  BY DEF SavesOf
<1> HIDE DEF m
<1>5. Once(loaded, m)
  BY DEF Once
<1> HIDE DEF loaded
<1>6. CASE kind = "load" \/ (kind = "add" /\ url \in UrlsOf(m.feeds))
  <2>1. s.kind # "remove" /\ Once(s.saves, m)
    BY <1>4, <1>5, <1>6
  <2>2. QED
    BY <1>2, <1>3, <2>1, OneSave
<1>7. CASE kind = "add" /\ url \notin UrlsOf(m.feeds)
  <2>1. added \in Document /\ Respects(added, WithAdded(wish, url))
    BY <1>2, <1>3, <1>7, AddRespects
  <2>2. s.saves = loaded \o <<added>>
    BY <1>4, <1>7
  <2>3. Wish(wish, s, Len(s.saves)) = WithAdded(wish, url)
    BY <1>7, WishCases
  <2> HIDE DEF added
  <2>4. QED
    BY <1>2, <1>3, <1>5, <2>1, <2>2, <2>3, SaveAndChange
<1>8. CASE kind = "remove"
  <2>1. kept \in Document /\ Respects(kept, [wish EXCEPT ![url] = "deleted"])
    BY <1>2, <1>3, <1>8, RemoveRespects
  <2>2. s.saves = loaded \o <<kept>>
    BY <1>4, <1>8
  <2>3. Wish(wish, s, Len(s.saves)) = [wish EXCEPT ![url] = "deleted"]
    BY <1>8, WishCases
  <2> HIDE DEF kept
  <2>4. Respects(kept, Wish(wish, s, Len(s.saves)))
    BY <2>1, <2>3, Zenon
  <2>5. QED
    BY <1>2, <1>3, <1>5, <2>1, <2>2, <2>4, SaveAndChange
<1> HIDE DEF added, kept
<1>9. kind \in {"load", "add", "remove"}
  OBVIOUS
<1>10. QED
  BY <1>6, <1>7, <1>8, <1>9

-----------------------------------------------------------------------------
\* An operation without saves, one with the same saves for one who wishes less,
\* and one that has made its first save.
LEMMA NoSaves ==
  ASSUME NEW s, s.saves = <<>>, NEW wish
  PROVE  SavesRespect(s, wish)
<1>1. <<>> \in Seq(Document) /\ DOMAIN <<>> = {}
  OBVIOUS
<1>2. QED
  BY <1>1 DEF SavesRespect

LEMMA SameSaves ==
  ASSUME NEW s, NEW t, t.saves = s.saves, t.kind = s.kind, t.url = s.url,
         NEW a \in Wishes, NEW b \in Wishes, Weaker(a, b), SavesRespect(s, b)
  PROVE  SavesRespect(t, a)
<1>1. ASSUME NEW i \in DOMAIN t.saves PROVE Respects(t.saves[i], Wish(a, t, i))
  <2>1. Wish(a, t, i) = Wish(a, s, i)
    BY DEF Wish
  <2>2. Respects(s.saves[i], Wish(b, s, i))
    BY DEF SavesRespect
  <2>3. Weaker(Wish(a, s, i), Wish(b, s, i))
    BY WeakerWish
  <2>4. Respects(s.saves[i], Wish(a, s, i))
    BY <2>2, <2>3, WeakerRespects
  <2>5. QED
    BY <2>1, <2>4
<1>2. QED
  BY <1>1 DEF SavesRespect

LEMMA NextSave ==
  ASSUME NEW s, NEW t, NEW wish, s.saves # <<>>, SavesRespect(s, wish),
         t.saves = Tail(s.saves), t.kind = s.kind, t.url = s.url
  PROVE  /\ Head(s.saves) \in Document /\ Respects(Head(s.saves), Wish(wish, s, 1))
         /\ SavesRespect(t, Wish(wish, s, 1))
<1> DEFINE q == s.saves
           w == Wish(wish, s, 1)
<1>1. q \in Seq(Document) /\ q # <<>> /\ \A i \in 1..Len(q) : Respects(q[i], Wish(wish, s, i))
  BY DEF SavesRespect
<1> HIDE DEF q
<1>2. /\ Head(q) = q[1] /\ Head(q) \in Document /\ Len(q) \in Nat \ {0}
      /\ Tail(q) \in Seq(Document) /\ Len(Tail(q)) = Len(q) - 1 /\ DOMAIN Tail(q) = 1..Len(Tail(q))
      /\ \A i \in 1..Len(Tail(q)) : Tail(q)[i] = q[i + 1]
  BY <1>1, EmptySeq, HeadTailProperties
<1>3. Respects(q[1], w)
  BY <1>1, <1>2
<1>4. ASSUME NEW i \in 1..Len(Tail(q)) PROVE Respects(Tail(q)[i], Wish(w, t, i))
  <2>1. i + 1 \in 1..Len(q) /\ 1 # Len(q) /\ (i = Len(Tail(q)) <=> i + 1 = Len(q))
    BY <1>2
  <2>2. w = wish
    BY <2>1, WishCases DEF q
  <2>3. Wish(w, t, i) = Wish(wish, s, i + 1)
    BY <2>1, <2>2 DEF Wish, q
  <2>4. QED
    BY <1>1, <1>2, <2>1, <2>3
<1> HIDE DEF w
<1>5. SavesRespect(t, w)
  BY <1>2, <1>4 DEF SavesRespect, q
<1>6. QED
  BY <1>2, <1>3, <1>5 DEF q, w

-----------------------------------------------------------------------------
\* A step that begins no operation of the store, and one that gives the tools
\* nothing new to do.
SameOrNone(s, t) == t.saves = <<>> \/ (t.saves = s.saves /\ t.kind = s.kind /\ t.url = s.url)
NoneBegins == \A p \in Process : SameOrNone(store[p], store'[p])
LessToDo(j) == job'[j].pc = "tool" =>
  \/ ToSet(job'[j].todo) \subseteq ToolStep
  \/ job[j].pc = "tool" /\ ToSet(job'[j].todo) \subseteq ToSet(job[j].todo)

LEMMA ToolsKept ==
  ASSUME IntentInv, \A j \in Job : LessToDo(j)
  PROVE  \A j \in Job : job'[j].pc = "tool" => ToSet(job'[j].todo) \subseteq ToolStep
  BY DEF IntentInv, LessToDo

\* Such a step, with the file and the wishes left alone, keeps IntentInv.
LEMMA IntentKept ==
  ASSUME IntentInv, UNCHANGED <<file, asked>>, NoneBegins, \A j \in Job : LessToDo(j)
  PROVE  IntentInv'
<1>1. /\ asked \in Wishes
      /\ IF file \in Document THEN Respects(file, asked) ELSE asked = NothingAsked
      /\ file \in Document \cup {Missing, Corrupt}
      /\ \A p \in Process : SavesRespect(store[p], asked)
  BY DEF IntentInv, Wishes
<1>2. ASSUME NEW p \in Process PROVE SavesRespect(store'[p], asked)
  <2>1. CASE store'[p].saves = <<>>
    BY <2>1, NoSaves
  <2>2. CASE store'[p].saves = store[p].saves /\ store'[p].kind = store[p].kind /\ store'[p].url = store[p].url
    <3>1. Weaker(asked, asked)
      BY DEF Weaker
    <3>2. QED
      BY <1>1, <2>2, <3>1, SameSaves
  <2>3. QED
    BY <2>1, <2>2 DEF NoneBegins, SameOrNone
<1>3. QED
  BY <1>1, <1>2, ToolsKept DEF IntentInv, Wishes

LEMMA NobodyBegins ==
  ASSUME DigestTypes, NEW p \in Process,
         store' = [store EXCEPT ![p] = NoOperation] \/ UNCHANGED store \/ \E js : store' = Disowned(p, js)
  PROVE  NoneBegins
<1>1. DOMAIN store = Process /\ \A q \in Process : IsOperation(store[q])
  BY DEF DigestTypes, StoreTypes
<1>2. CASE store' = [store EXCEPT ![p] = NoOperation]
  <2>1. NoOperation.saves = <<>>
    BY DEF NoOperation
  <2>2. QED
    BY <1>1, <1>2, <2>1 DEF NoneBegins, SameOrNone
<1>3. CASE UNCHANGED store
  BY <1>3 DEF NoneBegins, SameOrNone
<1>4. CASE \E js : store' = Disowned(p, js)
  <2>1. PICK js : store' = Disowned(p, js)
    BY <1>4
  <2> DEFINE s == store[p]
             b == IF s.by \in js THEN "nobody" ELSE s.by
             r == [s EXCEPT !.by = b]
  <2>2. store' = [store EXCEPT ![p] = r]
    BY <1>1, <2>1 DEF Disowned
  <2>3. s = [by |-> s.by, kind |-> s.kind, url |-> s.url, saves |-> s.saves, on |-> s.on]
    BY <1>1 DEF IsOperation
  <2>4. r.saves = s.saves /\ r.kind = s.kind /\ r.url = s.url
    <3> HIDE DEF s, b
    <3>1. QED
      BY <2>3
  <2> HIDE DEF r
  <2>5. store'[p] = r /\ \A q \in Process \ {p} : store'[q] = store[q]
    BY <1>1, <2>2
  <2>6. QED
    BY <2>4, <2>5 DEF NoneBegins, SameOrNone
<1>5. QED
  BY <1>2, <1>3, <1>4

\* A task that is no tool call, or that goes on with its own operations.
LEMMA NothingNewToDo ==
  ASSUME NEW j \in Job, job'[j].pc # "tool", \A k \in Job \ {j} : job'[k] = job[k]
  PROVE  \A k \in Job : LessToDo(k)
  BY DEF LessToDo

LEMMA EndsWithNothing ==
  ASSUME DigestTypes, NEW j \in Job, Ends(j)
  PROVE  \A k \in Job : LessToDo(k)
<1>1. job \in [Job -> Task] /\ Idle.pc = "idle"
  BY DEF DigestTypes, Idle
<1>2. job'[j].pc = "idle" /\ \A k \in Job \ {j} : job'[k] = job[k]
  BY <1>1 DEF Ends
<1>3. QED
  BY <1>2, NothingNewToDo

\* Tasks outside the store leave the wishes alone.
LEMMA TaskKeepsIntent ==
  ASSUME DigestInv, IntentInv, NEW j \in Job,
         \/ Wake(j) \/ Fetch(j) \/ Write(j) \/ WriteFails(j) \/ Assign(j)
         \/ \E d \in Digest : CallForceRefresh(d)
  PROVE  IntentInv'
<1>1. DigestTypes /\ job \in [Job -> Task]
  BY DEF DigestInv, DigestTypes
<1>2. UNCHANGED <<file, asked, store>>
  BY DEF Wake, Fetch, Write, WriteFails, Assign, CallForceRefresh
<1>3. Idle.pc = "idle" /\ \A todo : [Idle EXCEPT !.pc = "load", !.todo = todo].pc = "load"
  BY DEF Idle
<1>4. ASSUME NEW k \in Job, NEW todo, Queue(k, todo) PROVE \A i \in Job : LessToDo(i)
  <2> DEFINE r == [Idle EXCEPT !.pc = "load", !.todo = todo]
  <2>1. r.pc = "load" /\ job' = [job EXCEPT ![k] = r]
    BY <1>3, <1>4 DEF Queue
  <2> HIDE DEF r
  <2>2. job'[k].pc = "load" /\ \A i \in Job \ {k} : job'[i] = job[i]
    BY <1>1, <2>1
  <2>3. QED
    BY <2>2, NothingNewToDo
<1>5. Ends(j) => \A i \in Job : LessToDo(i)
  BY <1>1, EndsWithNothing
<1>6. \A i \in Job : LessToDo(i)
  <2>1. CASE Wake(j)
    BY <1>4, <2>1 DEF Wake
  <2>2. CASE Fetch(j)
    <3>1. Head(job[j].todo) \in Digest
      BY <2>2, HeadIsDigest DEF DigestInv, Fetch, Refreshing
    <3>2. job'[j].pc = "write" /\ \A i \in Job \ {j} : job'[i] = job[i]
      BY <1>1, <2>2, <3>1, FetchEffect
    <3>3. QED
      BY <3>2, NothingNewToDo
  <2>3. CASE Write(j)
    <3>1. job'[j].pc = "assign" /\ \A i \in Job \ {j} : job'[i] = job[i]
      BY <2>3, WriteEffect DEF DigestInv
    <3>2. QED
      BY <3>1, NothingNewToDo
  <2>4. CASE WriteFails(j)
    BY <1>5, <2>4 DEF WriteFails
  <2>5. CASE Assign(j)
    <3>1. Ends(j) \/ (job'[j].pc = "load" /\ \A i \in Job \ {j} : job'[i] = job[i])
      BY <2>5, AssignEffect DEF DigestInv
    <3>2. QED
      BY <1>5, <3>1, NothingNewToDo
  <2>6. CASE \E d \in Digest : CallForceRefresh(d)
    BY <1>4, <2>6 DEF CallForceRefresh, Job
  <2>7. QED
    BY <2>1, <2>2, <2>3, <2>4, <2>5, <2>6
<1>7. NoneBegins
  <2>1. "proxy" \in Process
    BY DEF Process
  <2>2. QED
    BY <1>1, <1>2, <2>1, NobodyBegins
<1>8. QED
  BY <1>2, <1>6, <1>7, IntentKept

\* What a tool has left to do, and its end, in the store or with it.
LEMMA StoreReturnsKeepsIntent ==
  ASSUME DigestInv, IntentInv, NEW j \in Job, StoreReturns(j)
  PROVE  IntentInv'
<1>1. DigestTypes /\ LockInv
  BY DEF DigestInv
<1>2. /\ UNCHANGED <<file, asked>> /\ store' = [store EXCEPT ![ProcessOf(j)] = NoOperation]
      /\ store[ProcessOf(j)].by = j /\ j # "nobody" /\ ProcessOf(j) \in Process
  BY ProcessFacts DEF StoreReturns, Job
<1>3. job[j].pc \in {"load", "tool"} /\ job[j].todo # <<>>
  BY <1>1, <1>2 DEF LockInv
<1>4. /\ job[j].pc = "load" => job'[j].pc = "fetch"
      /\ job[j].pc # "load" =>
           job'[j] = Idle \/ (job'[j].pc = job[j].pc /\ ToSet(job'[j].todo) \subseteq ToSet(job[j].todo))
      /\ \A k \in Job \ {j} : job'[k] = job[k]
  BY <1>1, <1>3, StoreReturnsEffect
<1>5. Idle.pc = "idle"
  BY DEF Idle
<1>6. \A k \in Job : LessToDo(k)
  BY <1>3, <1>4, <1>5 DEF LessToDo
<1>7. NoneBegins
  BY <1>1, <1>2, NobodyBegins
<1>8. QED
  BY <1>2, <1>6, <1>7, IntentKept

LEMMA CallFeedsKeepsIntent ==
  ASSUME DigestInv, IntentInv, NEW tool \in {"list", "add", "remove"}, NEW url \in Url \cup {"none"},
         tool = "list" \/ url \in Url, CallFeeds(tool, url)
  PROVE  IntentInv'
<1>1. DigestTypes
  BY DEF DigestInv
<1>2. UNCHANGED <<file, asked, store>> /\ "server" \in Process
  BY DEF CallFeeds, Process
<1>3. ToSet(job'["call"].todo) \subseteq ToolStep /\ \A k \in Job \ {"call"} : job'[k] = job[k]
  BY <1>1, CallFeedsEffect
<1>4. \A k \in Job : LessToDo(k)
  BY <1>3 DEF LessToDo
<1>5. NoneBegins
  BY <1>1, <1>2, NobodyBegins
<1>6. QED
  BY <1>2, <1>4, <1>5, IntentKept

LEMMA CancelCallKeepsIntent == ASSUME DigestInv, IntentInv, CancelCall PROVE IntentInv'
<1>1. DigestTypes /\ "call" \in Job /\ "server" \in Process
  BY DEF DigestInv, Job, Process
<1>2. UNCHANGED <<file, asked>> /\ store' = Disowned("server", {"call"}) /\ Ends("call")
  BY DEF CancelCall
<1>3. \A k \in Job : LessToDo(k)
  BY <1>1, <1>2, EndsWithNothing
<1>4. NoneBegins
  BY <1>1, <1>2, NobodyBegins
<1>5. QED
  BY <1>2, <1>3, <1>4, IntentKept

LEMMA ProcessKeepsIntent ==
  ASSUME DigestInv, IntentInv, NEW p \in Process,
         StoreFails(p) \/ OrphanWrites(p) \/ OrphanReturns(p) \/ Start(p) \/ Stop(p) \/ Crash(p)
  PROVE  IntentInv'
<1>1. DigestTypes /\ job \in [Job -> Task] /\ StoreTypes
  BY DEF DigestInv, DigestTypes
<1>2. UNCHANGED <<file, asked>>
  BY DEF StoreFails, OrphanWrites, OrphanReturns, Start, Stop, Crash
<1>3. NoneBegins
  <2>1. store' = [store EXCEPT ![p] = NoOperation] \/ UNCHANGED store \/ \E js : store' = Disowned(p, js)
    BY Zenon DEF StoreFails, OrphanWrites, OrphanReturns, Start, Stop, Crash
  <2>2. QED
    BY <1>1, <2>1, NobodyBegins
<1>4. \A k \in Job : LessToDo(k)
  <2>1. CASE UNCHANGED job
    BY <2>1 DEF LessToDo
  <2>2. CASE \E j \in Job : Ends(j)
    BY <1>1, <2>2, EndsWithNothing
  <2>3. CASE Ended(p)
    <3>1. /\ \A j \in JobsOf(p) : job'[j] = Idle
          /\ \A j \in Job \ JobsOf(p) : job'[j] = job[j]
      BY <1>1, <2>3, EndedEffect
    <3>2. Idle.pc = "idle"
      BY DEF Idle
    <3>3. QED
      BY <3>1, <3>2 DEF LessToDo
  <2>4. CASE Start(p)
    <3> DEFINE r == [Idle EXCEPT !.pc = "load", !.todo = Digests]
    <3>1. TimerOf(p) \in Job /\ job' = [job EXCEPT ![TimerOf(p)] = r] /\ r.pc = "load"
      BY <2>4, ProcessFacts DEF Start, Queue, Idle
    <3> HIDE DEF r
    <3>2. job'[TimerOf(p)].pc = "load" /\ \A k \in Job \ {TimerOf(p)} : job'[k] = job[k]
      BY <1>1, <3>1
    <3>3. QED
      BY <3>1, <3>2, NothingNewToDo
  <2>5. CASE StoreFails(p)
    <3>1. CASE store[p].by = "nobody"
      BY <2>1, <2>5, <3>1, Zenon DEF StoreFails
    <3>2. CASE store[p].by # "nobody"
      <4>1. store[p].by \in Job
        BY <1>1, <3>2 DEF StoreTypes, JobsOf
      <4>2. Ends(store[p].by)
        BY <2>5, <3>2, Zenon DEF StoreFails
      <4>3. QED
        BY <2>2, <4>1, <4>2
    <3>3. QED
      BY <3>1, <3>2
  <2>6. QED
    BY <2>1, <2>3, <2>4, <2>5 DEF OrphanWrites, OrphanReturns, Stop, Crash
<1>5. QED
  BY <1>2, <1>3, <1>4, IntentKept

-----------------------------------------------------------------------------
\* What a read finds, and for whom.
Finds(r, a) ==
  /\ r.doc \in Document /\ Respects(r.doc, a)
  /\ r.file \in Document \cup {Missing, Corrupt}
  /\ IF r.file \in Document THEN Respects(r.file, a) ELSE a = NothingAsked
  /\ a \in Wishes /\ Weaker(a, asked)

LEMMA ReadFinds ==
  ASSUME IntentInv, NEW r \in ReadOutcomes
  PROVE  Finds(r, IF r.failed \/ file = Corrupt THEN NothingAsked ELSE asked)
<1> DEFINE a == IF r.failed \/ file = Corrupt THEN NothingAsked ELSE asked
<1>1. /\ asked \in Wishes /\ file \in Document \cup {Missing, Corrupt}
      /\ IF file \in Document THEN Respects(file, asked) ELSE asked = NothingAsked
  BY DEF IntentInv, Wishes
<1>2. Missing \notin Document /\ Corrupt \notin Document /\ Missing # Corrupt
  BY NewsAssumption
<1>3. EmptyDocument \in Document /\ Respects(EmptyDocument, NothingAsked)
  <2>1. <<>> \in Seq(Feed) /\ {} \in SUBSET Migration
    OBVIOUS
  <2>2. EmptyDocument \in Document
    BY <2>1 DEF EmptyDocument, Document
  <2>3. QED
    BY <2>2, NothingRespects
<1>4. Weaker(asked, asked) /\ NothingAsked \in Wishes /\ Weaker(NothingAsked, asked)
  BY NothingIsWeaker DEF Weaker
<1>5. CASE file = Missing
  <2>1. r.doc = EmptyDocument /\ r.file = EmptyDocument /\ r.failed = FALSE
    BY <1>2, <1>5 DEF ReadOutcomes
  <2>2. a = NothingAsked
    BY <1>1, <1>2, <1>5, <2>1
  <2> HIDE DEF a
  <2>3. Finds(r, a)
    BY <1>3, <1>4, <2>1, <2>2 DEF Finds
  <2>4. QED
    BY <2>3 DEF a
<1>6. CASE file = Corrupt
  <2>1. r.doc = EmptyDocument /\ r.file = Missing
    BY <1>2, <1>6 DEF ReadOutcomes
  <2>2. a = NothingAsked
    BY <1>6
  <2> HIDE DEF a
  <2>3. Finds(r, a)
    BY <1>2, <1>3, <1>4, <2>1, <2>2 DEF Finds
  <2>4. QED
    BY <2>3 DEF a
<1>7. CASE file \in Document
  <2>1. \/ r.doc = file /\ r.file = file /\ r.failed = FALSE
        \/ r.doc = EmptyDocument /\ r.file = file /\ r.failed = TRUE
    BY <1>2, <1>7 DEF ReadOutcomes
  <2>2. a = IF r.failed THEN NothingAsked ELSE asked
    BY <1>2, <1>7
  <2>3. Respects(file, NothingAsked)
    BY NothingRespects
  <2> HIDE DEF a
  <2>4. Finds(r, a)
    BY <1>1, <1>3, <1>4, <1>7, <2>1, <2>2, <2>3 DEF Finds
  <2>5. QED
    BY <2>4 DEF a
<1>8. QED
  BY <1>1, <1>5, <1>6, <1>7

\* A store operation that begins: it will save what the user has asked for.
LEMMA StoreReadsKeepsIntent ==
  ASSUME DigestInv, IntentInv, NEW j \in Job, NEW kind, NEW url,
         kind = "load" \/ (kind \in {"add", "remove"} /\ url \in Url), StoreReads(j, kind, url)
  PROVE  IntentInv'
<1> DEFINE o == ProcessOf(j)
<1>1. PICK r \in ReadOutcomes :
        LET m == Migrated(r.doc)
            saves == SavesOf(kind, url, r.doc, m)
        IN /\ file' = r.file
           /\ store' = [store EXCEPT ![o] =
                 [by |-> j, kind |-> kind, url |-> url, saves |-> saves,
                  on |-> Enabled(IF saves = <<>> THEN m.feeds ELSE Last(saves).feeds)]]
           /\ count' = [count EXCEPT !.events = @ + (IF r.failed THEN 1 ELSE 0)]
           /\ asked' = IF r.failed \/ file = Corrupt THEN NothingAsked ELSE asked
  BY Zenon DEF StoreReads
<1> DEFINE l == SavesOf(kind, url, r.doc, Migrated(r.doc))
           on == Enabled(IF l = <<>> THEN Migrated(r.doc).feeds ELSE Last(l).feeds)
           s == [by |-> j, kind |-> kind, url |-> url, saves |-> l, on |-> on]
<1>2. file' = r.file /\ store' = [store EXCEPT ![o] = s]
  BY <1>1, Zenon
<1>3. Finds(r, asked')
  BY <1>1, ReadFinds, Zenon
<1>4. /\ r.doc \in Document /\ Respects(r.doc, asked')
      /\ r.file \in Document \cup {Missing, Corrupt}
      /\ IF r.file \in Document THEN Respects(r.file, asked') ELSE asked' = NothingAsked
      /\ asked' \in Wishes /\ Weaker(asked', asked)
  BY <1>3, Zenon DEF Finds
<1>5. s.saves = l /\ s.kind = kind /\ s.url = url
  OBVIOUS
<1> HIDE DEF s, on
<1>6. SavesRespect(s, asked')
  BY <1>4, <1>5, SavesOfRespect DEF l
<1>7. /\ DOMAIN store = Process /\ o \in Process /\ asked \in Wishes
      /\ \A p \in Process : SavesRespect(store[p], asked)
  BY ProcessFacts DEF DigestInv, DigestTypes, StoreTypes, IntentInv, Wishes
<1>8. store'[o] = s /\ \A p \in Process \ {o} : store'[p] = store[p]
  BY <1>2, <1>7
<1>9. ASSUME NEW p \in Process PROVE SavesRespect(store'[p], asked')
  <2>1. CASE p = o
    BY <1>6, <1>8, <2>1
  <2>2. CASE p # o
    <3>1. SavesRespect(store[p], asked')
      BY <1>4, <1>7, SameSaves
    <3>2. QED
      BY <1>8, <2>2, <3>1
  <2>3. QED
    BY <2>1, <2>2
<1>10. \A k \in Job : job'[k].pc = "tool" => ToSet(job'[k].todo) \subseteq ToolStep
  BY DEF StoreReads, IntentInv
<1>11. asked' \in [Url -> {"nothing", "deleted", "enabled"}]
  BY <1>4 DEF Wishes
<1>12. /\ file' \in Document \cup {Missing, Corrupt}
       /\ IF file' \in Document THEN Respects(file', asked') ELSE asked' = NothingAsked
  BY <1>2, <1>4
<1>13. QED
  BY <1>9, <1>10, <1>11, <1>12 DEF IntentInv

LEMMA RefreshLoadsKeepsIntent == ASSUME DigestInv, IntentInv, NEW j \in Job, RefreshLoads(j) PROVE IntentInv'
  BY StoreReadsKeepsIntent DEF RefreshLoads

LEMMA ToolStoresKeepsIntent == ASSUME DigestInv, IntentInv, ToolStores PROVE IntentInv'
<1> DEFINE q == job["call"].todo
           x == Head(q)
<1>1. "call" \in Job /\ job["call"].pc = "tool" /\ StoreReads("call", x[1], x[2])
  BY DEF ToolStores, Job
<1>2. q \in Seq(Todo) /\ q # <<>> /\ ToSet(q) \subseteq ToolStep
  BY <1>1 DEF DigestInv, DigestTypes, LockInv, Task, IntentInv
<1>3. x \in ToolStep
  <2> HIDE DEF q
  <2>1. 1 \in DOMAIN q /\ Head(q) = q[1]
    <3>1. Len(q) \in Nat \ {0} /\ DOMAIN q = 1..Len(q)
      BY <1>2, EmptySeq
    <3>2. Head(q) = q[1]
      BY <1>2, HeadTailProperties
    <3>3. QED
      BY <3>1, <3>2
  <2>2. QED
    BY <1>2, <2>1 DEF ToSet
<1> HIDE DEF x
<1>4. x[1] = "load" \/ (x[1] \in {"add", "remove"} /\ x[2] \in Url)
  BY <1>3 DEF ToolStep
<1>5. QED
  BY <1>1, <1>4, StoreReadsKeepsIntent

\* The file is what the save has promised.
LEMMA StoreSavesKeepsIntent == ASSUME DigestInv, IntentInv, NEW p \in Process, StoreSaves(p) PROVE IntentInv'
<1> DEFINE s == store[p]
           w == Wish(asked, s, 1)
           t == [s EXCEPT !.saves = Tail(s.saves)]
<1>1. /\ s.saves # <<>> /\ file' = Head(s.saves) /\ store' = [store EXCEPT ![p] = t]
      /\ asked' = (IF Overlapped(p) THEN NothingAsked ELSE w)
      /\ job' = job
  BY DEF StoreSaves
<1>2. /\ DOMAIN store = Process /\ asked \in Wishes /\ IsOperation(s)
      /\ \A q \in Process : SavesRespect(store[q], asked)
  BY DEF DigestInv, DigestTypes, StoreTypes, IntentInv, Wishes
<1>3. s = [by |-> s.by, kind |-> s.kind, url |-> s.url, saves |-> s.saves, on |-> s.on]
  BY <1>2 DEF IsOperation
<1>4. t.saves = Tail(s.saves) /\ t.kind = s.kind /\ t.url = s.url
  <2> HIDE DEF s
  <2>1. QED
    BY <1>3
<1> HIDE DEF t
<1>5. SavesRespect(s, asked)
  BY <1>2
<1>6. Head(s.saves) \in Document /\ Respects(Head(s.saves), w) /\ SavesRespect(t, w)
  BY <1>1, <1>4, <1>5, NextSave
<1>7. w \in Wishes
  BY <1>2, WishIsTyped
<1>8. store'[p] = t /\ \A q \in Process \ {p} : store'[q] = store[q]
  BY <1>1, <1>2
<1> HIDE DEF w
<1>9. asked' \in Wishes /\ Weaker(asked', w)
  BY <1>1, <1>7, NothingIsWeaker DEF Weaker
<1>10. Respects(file', asked')
  BY <1>1, <1>6, <1>9, WeakerRespects
<1>11. SavesRespect(store'[p], asked')
  <2>1. SavesRespect(t, asked')
    BY <1>6, <1>7, <1>9, SameSaves
  <2>2. QED
    BY <1>8, <2>1
<1>12. ASSUME NEW q \in Process \ {p} PROVE SavesRespect(store'[q], asked')
  <2>1. CASE Overlapped(p)
    <3>1. asked' = NothingAsked /\ SavesRespect(store[q], asked)
      BY <1>1, <1>2, <2>1
    <3>2. NothingAsked \in Wishes /\ Weaker(NothingAsked, asked)
      BY NothingIsWeaker
    <3>3. SavesRespect(store[q], NothingAsked)
      BY <1>2, <3>1, <3>2, SameSaves
    <3>4. QED
      BY <1>8, <3>1, <3>3
  <2>2. CASE ~Overlapped(p)
    <3>1. store[q].saves = <<>>
      BY <2>2 DEF Overlapped
    <3>2. SavesRespect(store[q], asked')
      BY <3>1, NoSaves
    <3>3. QED
      BY <1>8, <3>2
  <2>3. QED
    BY <2>1, <2>2
<1>13. \A q \in Process : SavesRespect(store'[q], asked')
  BY <1>11, <1>12
<1>14. file' \in Document
  BY <1>1, <1>6
<1>15. \A k \in Job : job'[k].pc = "tool" => ToSet(job'[k].todo) \subseteq ToolStep
  BY <1>1 DEF IntentInv
<1>16. QED
  BY <1>9, <1>10, <1>13, <1>14, <1>15 DEF IntentInv, Wishes

\* The user edits one feed, and wishes something of it when no operation of the
\* store and no migration will follow.
LEMMA EditKeepsIntent ==
  ASSUME IntentInv, UNCHANGED <<store, job>>, file' \in Document, Respects(file', asked'),
         NEW url, NEW new \in {"nothing", "deleted", "enabled"}, new # "nothing" => Settled,
         asked' = [asked EXCEPT ![url] = new]
  PROVE  IntentInv'
<1>1. asked \in Wishes /\ \A p \in Process : SavesRespect(store[p], asked)
  BY DEF IntentInv, Wishes
<1>2. asked' \in Wishes
  BY <1>1 DEF Wishes
<1>3. ASSUME NEW p \in Process PROVE SavesRespect(store[p], asked')
  <2>1. CASE new = "nothing"
    <3>1. Weaker(asked', asked)
      BY <1>1, <2>1 DEF Weaker, Wishes
    <3>2. QED
      BY <1>1, <1>2, <3>1, SameSaves
  <2>2. CASE Settled
    <3>1. store[p].saves = <<>>
      BY <2>2 DEF Settled
    <3>2. QED
      BY <3>1, NoSaves
  <2>3. QED
    BY <2>1, <2>2
<1>4. \A p \in Process : SavesRespect(store'[p], asked')
  BY <1>3
<1>5. \A k \in Job : job'[k].pc = "tool" => ToSet(job'[k].todo) \subseteq ToolStep
  BY DEF IntentInv
<1>6. QED
  BY <1>2, <1>4, <1>5 DEF IntentInv, Wishes

LEMMA UserEditsKeepsIntent == ASSUME IntentInv, UserEdits PROVE IntentInv'
<1>1. file \in Document /\ UNCHANGED <<store, job>>
  BY DEF UserEdits
<1>2. asked \in Wishes /\ Respects(file, asked) /\ \A p \in Process : SavesRespect(store[p], asked)
  BY <1>1 DEF IntentInv, Wishes
<1>3. file.feeds \in Seq(Feed) /\ DOMAIN file.feeds = 1..Len(file.feeds)
  BY <1>1 DEF Document
<1>4. Settled => Calm(file)
  BY <1>1, FixedIsCalm DEF Settled
<1>5. ASSUME NEW i \in DOMAIN file.feeds,
             file' = [file EXCEPT !.feeds[i].on = ~@],
             asked' = [asked EXCEPT ![file.feeds[i].url] = IF ~file.feeds[i].on /\ Settled THEN "enabled" ELSE "nothing"]
      PROVE  IntentInv'
  <2> DEFINE f == file.feeds[i]
             g == [f EXCEPT !.on = ~f.on]
             new == IF ~f.on /\ Settled THEN "enabled" ELSE "nothing"
  <2>1. f \in Feed /\ i \in 1..Len(file.feeds)
    BY <1>3, <1>5
  <2>2. g \in Feed /\ g.url = f.url /\ g.on = ~f.on
    BY <2>1 DEF Feed
  <2>3. file' = [file EXCEPT !.feeds = [file.feeds EXCEPT ![i] = g]]
    BY <1>5
  <2>4. asked' = [asked EXCEPT ![f.url] = new]
    BY <1>5
  <2>5. new \in {"nothing", "enabled"} /\ (new = "enabled" => Settled /\ ~f.on)
    OBVIOUS
  <2>6. asked' = [asked EXCEPT ![g.url] = new]
    BY <2>2, <2>4
  <2> HIDE DEF new, g
  <2>7. new = "enabled" => Calm(file) /\ g.on
    BY <1>4, <2>2, <2>5
  <2>8. file' \in Document /\ Respects(file', asked')
    BY <1>1, <1>2, <2>1, <2>2, <2>3, <2>5, <2>6, <2>7, SwitchRespects
  <2>9. QED
    BY <1>1, <2>4, <2>5, <2>8, EditKeepsIntent
<1>6. ASSUME NEW i \in DOMAIN file.feeds,
             file' = [file EXCEPT !.feeds = RemoveAt(@, i)],
             asked' = [asked EXCEPT ![file.feeds[i].url] = IF Settled THEN "deleted" ELSE "nothing"]
      PROVE  IntentInv'
  <2> DEFINE new == IF Settled THEN "deleted" ELSE "nothing"
             url == file.feeds[i].url
  <2>1. /\ i \in 1..Len(file.feeds) /\ file' = [file EXCEPT !.feeds = RemoveAt(file.feeds, i)]
        /\ asked' = [asked EXCEPT ![url] = new]
    BY <1>3, <1>6
  <2>2. new \in {"nothing", "deleted"} /\ (new = "deleted" => Settled)
    OBVIOUS
  <2> HIDE DEF new
  <2>3. new = "deleted" => Calm(file)
    BY <1>4, <2>2
  <2>4. file' \in Document /\ Respects(file', asked')
    BY <1>1, <1>2, <2>1, <2>2, <2>3, DeleteRespects
  <2>5. QED
    BY <1>1, <2>1, <2>2, <2>4, EditKeepsIntent
<1>7. ASSUME file' = Corrupt, asked' = NothingAsked PROVE IntentInv'
  <2>1. NothingAsked \in Wishes /\ Weaker(NothingAsked, asked)
    BY NothingIsWeaker
  <2>2. ASSUME NEW p \in Process PROVE SavesRespect(store[p], NothingAsked)
    BY <1>2, <2>1, SameSaves
  <2>3. \A k \in Job : job'[k].pc = "tool" => ToSet(job'[k].todo) \subseteq ToolStep
    BY <1>1 DEF IntentInv
  <2>4. Corrupt \notin Document
    BY NewsAssumption
  <2>5. \A p \in Process : SavesRespect(store'[p], asked')
    BY <1>1, <1>7, <2>2
  <2>6. QED
    BY <1>7, <2>1, <2>3, <2>4, <2>5 DEF IntentInv, Wishes
<1>8. QED
  BY <1>5, <1>6, <1>7 DEF UserEdits

-----------------------------------------------------------------------------
\* IntentInv holds at first and every step keeps it.
LEMMA InitIntent == Init => IntentInv
<1> SUFFICES ASSUME Init PROVE IntentInv
  OBVIOUS
<1>1. /\ file \in Document \cup {Missing} /\ store = [p \in Process |-> NoOperation]
      /\ job = [j \in Job |-> Idle] /\ asked = NothingAsked
  BY NewsAssumption DEF Init
<1>2. Idle.pc = "idle" /\ NoOperation.saves = <<>>
  BY DEF Idle, NoOperation
<1>3. \A p \in Process : SavesRespect(store[p], asked)
  BY <1>1, <1>2, NoSaves
<1>4. Respects(file, asked) /\ asked \in Wishes
  BY <1>1, NothingRespects, NothingIsWeaker
<1>5. QED
  BY <1>1, <1>2, <1>3, <1>4 DEF IntentInv, Wishes

LEMMA EveryStepKeepsIntent == DigestInv /\ IntentInv /\ [Next]_vars => IntentInv'
<1> SUFFICES ASSUME DigestInv, IntentInv, [Next]_vars PROVE IntentInv'
  OBVIOUS
<1>1. ASSUME NEW j \in Job,
             Wake(j) \/ RefreshLoads(j) \/ StoreReturns(j)
               \/ Fetch(j) \/ Write(j) \/ WriteFails(j) \/ Assign(j)
      PROVE  IntentInv'
  BY <1>1, TaskKeepsIntent, RefreshLoadsKeepsIntent, StoreReturnsKeepsIntent
<1>2. CASE ToolStores
  BY <1>2, ToolStoresKeepsIntent
<1>3. ASSUME NEW p \in Process,
             StoreSaves(p) \/ StoreFails(p) \/ OrphanWrites(p) \/ OrphanReturns(p)
               \/ Start(p) \/ Stop(p) \/ Crash(p)
      PROVE  IntentInv'
  BY <1>3, StoreSavesKeepsIntent, ProcessKeepsIntent
<1>4. CASE CallFeeds("list", "none") \/ \E url \in Url : CallFeeds("add", url) \/ CallFeeds("remove", url)
  BY <1>4, CallFeedsKeepsIntent
<1>5. CASE \E d \in Digest : CallForceRefresh(d)
  <2>1. "call" \in Job
    BY DEF Job
  <2>2. QED
    BY <1>5, <2>1, TaskKeepsIntent
<1>6. CASE CancelCall
  BY <1>6, CancelCallKeepsIntent
<1>7. CASE UserEdits
  BY <1>7, UserEditsKeepsIntent
<1>8. CASE UNCHANGED vars
  BY <1>8 DEF vars, IntentInv
<1>9. QED
  BY <1>1, <1>2, <1>3, <1>4, <1>5, <1>6, <1>7, <1>8 DEF Next

\* Decision D1 of feed_migrations.py: what the user did to the feed list stays,
\* through every later migration, crash, failed write and restart.
THEOREM UserIntentIsKept == Spec => []UserIntentKept
<1>1. IntentInv => UserIntentKept
  <2> SUFFICES ASSUME IntentInv, file \in Document, NEW u \in Url
      PROVE  /\ asked[u] = "deleted" => u \notin UrlsOf(file.feeds)
             /\ asked[u] = "enabled" => \A i \in DOMAIN file.feeds : file.feeds[i].url = u => file.feeds[i].on
    BY Zenon DEF UserIntentKept
  <2>1. Respects(file, asked)
    BY DEF IntentInv
  <2>2. QED
    BY <2>1 DEF Respects
<1>2. QED
  BY <1>1, InitIntent, EveryStepKeepsIntent, DigestInvariant, PTL DEF Spec
=============================================================================
