-------------------------- MODULE UpstreamToolProofs --------------------------
(***************************************************************************)
(* What clients are told of upstream tools.  First the tool-list cache,    *)
(* for any number of servers, configs and discoveries and any TTL, timeout *)
(* and capacity.  Then the shortcuts that tools/list draws from the        *)
(* counts, for any number of tools and slots.                              *)
(***************************************************************************)
EXTENDS ToolListCache, HotTools, FiniteSetTheorems, TLAPS

\* The lists in the cache and in the discoveries carry the config and the times
\* that ToolListInv says, initially.
LEMMA InitInv == Init => ToolListInv
<1> SUFFICES ASSUME Init PROVE ToolListInv
  OBVIOUS
<1>1. Cached = {} /\ Orders(order, Cached)
  BY DEF Init, Cached, Orders
<1> QED
  BY <1>1, ToolListAssumption, SentinelAssumption
     DEF Init, ToolListInv, TypeOK, EntriesInv, TasksInv, InFlight

\* A task that holds a list is an Answer, one that does not yet is a Task.
LEMMA TaskKinds ==
  ASSUME TypeOK, NEW t \in Tasks, InFlight(t)
  PROVE  /\ task[t].phase \in {"queued", "fetching"} => task[t] \in Task
         /\ task[t].phase = "read" => task[t] \in Answer
         /\ task[t].server \in Servers
         /\ task[t].fp \in Configs
         /\ task[t].started \in Nat
         /\ task[t].phase \in {"queued", "fetching", "read"}
BY DEF TypeOK, InFlight, Task, Answer

\* A key that leaves takes its pairs along; the others stay in order.
LEMMA OrderWithout ==
  ASSUME NEW keys, NEW ord, Orders(ord, keys), NEW s
  PROVE  Orders(Without(ord, s), keys \ {s})
BY DEF Orders, Without

\* An assigned key is in order: at the end, or where it was.
LEMMA OrderPlaced ==
  ASSUME Orders(order, Cached), NEW s
  PROVE  Orders(Placed(s), Cached \union {s})
<1>1. CASE s \in Cached
  <2>1. Cached \union {s} = Cached /\ Placed(s) = order
    BY <1>1 DEF Placed
  <2> QED
    BY <2>1
<1>2. CASE s \notin Cached
  BY <1>2 DEF Orders, Placed
<1> QED
  BY <1>1, <1>2

\* What put comes to: nothing, a stored list, or a stored list and a drop.
LEMMA PutCases ==
  ASSUME NEW s \in Servers, NEW e \in Entry, Put(s, e)
  PROVE  \/ UNCHANGED <<entries, order>>
         \/ entries' = [entries EXCEPT ![s] = e] /\ order' = Placed(s)
         \/ \E old \in Cached \union {s} :
              /\ entries' = [[entries EXCEPT ![s] = e] EXCEPT ![old] = NoEntry]
              /\ order' = Without(Placed(s), old)
BY DEF Put

\* put keeps the entries typed and in order, and what it adds is the one entry it
\* is given.
LEMMA PutEffect ==
  ASSUME TypeOK, NEW s \in Servers, NEW e \in Entry, Put(s, e)
  PROVE  /\ entries' \in [Servers -> Entry \union {NoEntry}]
         /\ Orders(order', Cached')
         /\ \A i \in Servers :
              entries'[i] \in {entries[i], NoEntry} \/ (i = s /\ entries'[i] = e)
<1>0. /\ entries \in [Servers -> Entry \union {NoEntry}] /\ Orders(order, Cached)
      /\ e # NoEntry /\ Orders(Placed(s), Cached \union {s})
  BY OrderPlaced, SentinelAssumption DEF TypeOK
<1>1. CASE UNCHANGED <<entries, order>>
  <2>1. Cached' = Cached /\ order' = order
    BY <1>1 DEF Cached
  <2> QED
    BY <1>0, <1>1, <2>1
<1>2. CASE entries' = [entries EXCEPT ![s] = e] /\ order' = Placed(s)
  <2>1. Cached' = Cached \union {s}
    BY <1>0, <1>2 DEF Cached
  <2> QED
    BY <1>0, <1>2, <2>1
<1>3. ASSUME NEW old \in Cached \union {s},
             entries' = [[entries EXCEPT ![s] = e] EXCEPT ![old] = NoEntry],
             order' = Without(Placed(s), old)
      PROVE  /\ entries' \in [Servers -> Entry \union {NoEntry}]
             /\ Orders(order', Cached')
             /\ \A i \in Servers :
                  entries'[i] \in {entries[i], NoEntry} \/ (i = s /\ entries'[i] = e)
  <2>1. Cached' = (Cached \union {s}) \ {old}
    BY <1>0, <1>3 DEF Cached
  <2>2. Orders(Without(Placed(s), old), (Cached \union {s}) \ {old})
    BY <1>0, OrderWithout
  <2>3. old \in Servers
    BY DEF Cached
  <2> QED
    BY <1>0, <1>3, <2>1, <2>2, <2>3
<1> QED
  BY <1>1, <1>2, <1>3, PutCases

\* Invalidation only removes.
LEMMA InvalidateEffect ==
  ASSUME TypeOK, NEW s \in Servers, Invalidate(s)
  PROVE  /\ entries' \in [Servers -> Entry \union {NoEntry}]
         /\ Orders(order', Cached')
         /\ \A i \in Servers : entries'[i] \in {entries[i], NoEntry}
<1>1. Cached' = Cached \ {s} /\ order' = Without(order, s)
  BY DEF TypeOK, Invalidate, Cached
<1>2. Orders(Without(order, s), Cached \ {s})
  BY OrderWithout DEF TypeOK
<1> QED
  BY <1>1, <1>2 DEF TypeOK, Invalidate

\* An unchanged cache keeps its order.
LEMMA SameOrder == TypeOK /\ UNCHANGED <<entries, order>> => Orders(order', Cached')
<1> SUFFICES ASSUME TypeOK, UNCHANGED <<entries, order>> PROVE Orders(order', Cached')
  OBVIOUS
<1>1. Cached' = Cached
  BY DEF Cached
<1> QED
  BY <1>1 DEF TypeOK

\* Entries that were there before, or are gone, keep their invariant while time
\* and packages stand still.
LEMMA OldEntries ==
  ASSUME EntriesInv, UNCHANGED <<now, version, installed>>,
         \A i \in Servers : entries'[i] \in {entries[i], NoEntry}
  PROVE  EntriesInv'
BY DEF EntriesInv, ListInv

\* Tasks that did not move keep theirs.
LEMMA OldTasks ==
  ASSUME TasksInv, UNCHANGED <<now, version, installed>>, NEW u \in Tasks,
         \A t \in Tasks \ {u} : task'[t] = task[t],
         InFlight(u)' => /\ task'[u].started <= now
                         /\ now <= task'[u].started + Timeout
                         /\ task'[u].phase # "read"
  PROVE  TasksInv'
BY DEF TasksInv, ListInv, InFlight

\* Every step preserves the invariant.
LEMMA NextInv == ToolListInv /\ [Next]_vars => ToolListInv'
<1> SUFFICES ASSUME ToolListInv, [Next]_vars PROVE ToolListInv'
  OBVIOUS
<1> USE ToolListAssumption, SentinelAssumption
<1>ty. TypeOK /\ EntriesInv /\ TasksInv
  BY DEF ToolListInv
<1>1. ASSUME NEW t \in Tasks, NEW s \in Servers, Begin(t, s) PROVE ToolListInv'
  <2>1. TypeOK'
    BY <1>1, <1>ty, SameOrder DEF Begin, TypeOK, Task
  <2>2. EntriesInv'
    BY <1>1, <1>ty, OldEntries DEF Begin
  <2>3. TasksInv'
    <3>1. task'[t].started = now /\ task'[t].phase = "queued"
      BY <1>1, <1>ty DEF Begin, TypeOK
    <3> QED
      BY <1>1, <1>ty, <3>1, OldTasks DEF Begin, TypeOK
  <2> QED
    BY <2>1, <2>2, <2>3 DEF ToolListInv
<1>2. ASSUME NEW t \in Tasks, Hit(t) PROVE ToolListInv'
  <2>0. PICK e \in Entry : e = entries[task[t].server]
    BY <1>2, <1>ty, TaskKinds DEF Hit, Live, TypeOK
  <2>1. task'[t] = WithTools(task[t], "done", e.tools, e.readAt, TRUE)
    BY <1>2, <1>ty, <2>0 DEF Hit, TypeOK
  <2>2. task'[t] \in Answer
    <3>1. /\ task[t].server \in Servers /\ task[t].fp \in Configs
          /\ task[t].started \in Nat
      BY <1>2, <1>ty, TaskKinds DEF Hit
    <3>2. QED
      BY <2>0, <2>1, <3>1 DEF WithTools, Answer, Entry
  <2>3. TypeOK'
    BY <1>2, <1>ty, <2>2, SameOrder DEF Hit, TypeOK
  <2>4. EntriesInv'
    BY <1>2, <1>ty, OldEntries DEF Hit
  <2>5. TasksInv'
    BY <1>2, <1>ty, <2>1, OldTasks DEF Hit, TypeOK, InFlight, WithTools
  <2> QED
    BY <2>3, <2>4, <2>5 DEF ToolListInv
<1>3. ASSUME NEW t \in Tasks, Miss(t) PROVE ToolListInv'
  <2>0. task[t] \in Task /\ task[t].server \in Servers
    BY <1>3, <1>ty, TaskKinds DEF Miss
  <2>1. task'[t] = [task[t] EXCEPT !.phase = "fetching"] /\ task'[t] \in Task
    BY <1>3, <1>ty, <2>0 DEF Miss, TypeOK, Task
  <2>2. /\ entries' \in [Servers -> Entry \union {NoEntry}] /\ Orders(order', Cached')
        /\ \A i \in Servers : entries'[i] \in {entries[i], NoEntry}
    BY <1>3, <1>ty, <2>0, InvalidateEffect, SameOrder DEF Miss, TypeOK
  <2>3. TypeOK'
    BY <1>3, <1>ty, <2>1, <2>2 DEF Miss, TypeOK
  <2>4. EntriesInv'
    BY <1>3, <1>ty, <2>2, OldEntries DEF Miss
  <2>5. TasksInv'
    BY <1>3, <1>ty, <2>0, <2>1, OldTasks DEF Miss, TypeOK, TasksInv, Task
  <2> QED
    BY <2>3, <2>4, <2>5 DEF ToolListInv
<1>4. ASSUME NEW t \in Tasks, ReadUpstream(t) PROVE ToolListInv'
  <2> DEFINE k == task[t]
             tools == [config |-> k.fp, version |-> version[k.server]]
  <2>0. k \in Task /\ k.server \in Servers /\ tools \in Tools
    BY <1>4, <1>ty, TaskKinds DEF ReadUpstream, Tools, TypeOK
  <2>1. task'[t] = WithTools(k, "read", tools, now, FALSE)
    BY <1>4, <1>ty DEF ReadUpstream, TypeOK
  <2>2. task'[t] \in Answer
    BY <1>ty, <2>0, <2>1 DEF WithTools, Answer, Task, TypeOK
  <2>3. TypeOK'
    BY <1>4, <1>ty, <2>2, SameOrder DEF ReadUpstream, TypeOK
  <2>4. EntriesInv'
    BY <1>4, <1>ty, OldEntries DEF ReadUpstream
  <2>5. TasksInv'
    <3>1. k.started <= now /\ now <= k.started + Timeout
      BY <1>4, <1>ty DEF ReadUpstream, TasksInv
    <3>2. /\ task'[t].server = k.server /\ task'[t].fp = k.fp
          /\ task'[t].tools = tools /\ task'[t].readAt = now
          /\ task'[t].hit = FALSE /\ task'[t].started = k.started
      BY <2>1 DEF WithTools
    <3>3. ListInv(task[t].server, task[t].fp, task[t].tools, task[t].readAt)'
      <4>1. tools.config = k.fp /\ tools.version = version[k.server] /\ now <= now
        BY <1>ty DEF TypeOK
      <4>2. now' = now /\ version' = version /\ installed' = installed
        BY <1>4 DEF ReadUpstream
      <4> HIDE DEF k, tools
      <4> QED
        BY <3>2, <4>1, <4>2 DEF ListInv
    <3>4. \A u \in Tasks \ {t} : task'[u] = task[u]
      BY <1>4, <1>ty DEF ReadUpstream, TypeOK
    <3>5. k.started <= now' /\ now' <= k.started + Timeout
      BY <1>4, <3>1 DEF ReadUpstream
    <3>6. task'[t].started <= task'[t].readAt
      BY <3>1, <3>2
    <3>7. ASSUME NEW u \in Tasks \ {t}, InFlight(u)'
          PROVE  /\ task'[u].started <= now' /\ now' <= task'[u].started + Timeout
                 /\ task'[u].phase = "read" =>
                      /\ ListInv(task[u].server, task[u].fp, task[u].tools, task[u].readAt)'
                      /\ task'[u].started <= task'[u].readAt
                      /\ task'[u].hit = FALSE
      BY <1>4, <1>ty, <3>4, <3>7 DEF ReadUpstream, TasksInv, InFlight, ListInv
    <3> HIDE DEF k, tools
    <3> QED
      BY <3>2, <3>3, <3>5, <3>6, <3>7 DEF TasksInv
  <2> QED
    BY <2>3, <2>4, <2>5 DEF ToolListInv
<1>5. ASSUME NEW t \in Tasks, PutTools(t) PROVE ToolListInv'
  <2> DEFINE k == task[t]
             e == [fp |-> k.fp, at |-> now, tools |-> k.tools, readAt |-> k.readAt]
  <2>0. k \in Answer /\ k.server \in Servers /\ e \in Entry
    BY <1>5, <1>ty, TaskKinds DEF PutTools, Entry, Answer, TypeOK
  <2>1. task'[t] = [k EXCEPT !.phase = "done"] /\ task'[t] \in Answer
    BY <1>5, <1>ty, <2>0 DEF PutTools, TypeOK, Answer
  <2>2. /\ entries' \in [Servers -> Entry \union {NoEntry}] /\ Orders(order', Cached')
        /\ \A i \in Servers : entries'[i] \in {entries[i], NoEntry}
                              \/ (i = k.server /\ entries'[i] = e)
    BY <1>5, <1>ty, <2>0, PutEffect DEF PutTools
  <2>3. TypeOK'
    BY <1>5, <1>ty, <2>1, <2>2 DEF PutTools, TypeOK
  <2>4. EntriesInv'
    <3>1. /\ ListInv(k.server, k.fp, k.tools, k.readAt)
          /\ now <= k.readAt + Timeout
      BY <1>5, <1>ty, <2>0 DEF PutTools, TasksInv, Answer, TypeOK
    <3>2. e.fp = k.fp /\ e.at = now /\ e.tools = k.tools /\ e.readAt = k.readAt
      OBVIOUS
    <3>3. now <= now
      BY <1>ty DEF TypeOK
    <3> HIDE DEF k, e
    <3> QED
      BY <1>5, <1>ty, <2>2, <3>1, <3>2, <3>3 DEF PutTools, EntriesInv, ListInv
  <2>5. TasksInv'
    BY <1>5, <1>ty, <2>0, <2>1, OldTasks DEF PutTools, TypeOK, InFlight, Answer
  <2> QED
    BY <2>3, <2>4, <2>5 DEF ToolListInv
<1>6. ASSUME NEW t \in Tasks, FetchError(t) PROVE ToolListInv'
  <2>0. task[t].server \in Servers
    BY <1>6, <1>ty, TaskKinds DEF FetchError
  <2>1. /\ entries' \in [Servers -> Entry \union {NoEntry}] /\ Orders(order', Cached')
        /\ \A i \in Servers : entries'[i] \in {entries[i], NoEntry}
    BY <1>6, <1>ty, <2>0, InvalidateEffect DEF FetchError
  <2>2. TypeOK'
    BY <1>6, <1>ty, <2>1 DEF FetchError, TypeOK
  <2>3. EntriesInv'
    BY <1>6, <1>ty, <2>1, OldEntries DEF FetchError
  <2>4. TasksInv'
    BY <1>6, <1>ty, OldTasks DEF FetchError, TypeOK, InFlight
  <2> QED
    BY <2>2, <2>3, <2>4 DEF ToolListInv
<1>7. ASSUME NEW t \in Tasks, Cancelled(t) PROVE ToolListInv'
  <2>1. TypeOK'
    BY <1>7, <1>ty, SameOrder DEF Cancelled, TypeOK
  <2>2. EntriesInv'
    BY <1>7, <1>ty, OldEntries DEF Cancelled
  <2>3. TasksInv'
    BY <1>7, <1>ty, OldTasks DEF Cancelled, TypeOK, InFlight
  <2> QED
    BY <2>1, <2>2, <2>3 DEF ToolListInv
<1>8. ASSUME NEW s \in Servers, RemoveServer(s) PROVE ToolListInv'
  <2>1. /\ entries' \in [Servers -> Entry \union {NoEntry}] /\ Orders(order', Cached')
        /\ \A i \in Servers : entries'[i] \in {entries[i], NoEntry}
    BY <1>8, <1>ty, InvalidateEffect DEF RemoveServer
  <2>2. TypeOK' /\ EntriesInv'
    BY <1>8, <1>ty, <2>1, OldEntries DEF RemoveServer, TypeOK
  <2>3. TasksInv'
    BY <1>8, <1>ty DEF RemoveServer, TasksInv, InFlight, ListInv
  <2> QED
    BY <2>2, <2>3 DEF ToolListInv
<1>9. ASSUME NEW s \in Servers, InstallPackage(s) PROVE ToolListInv'
  <2>1. TypeOK'
    BY <1>9, <1>ty, SameOrder DEF InstallPackage, TypeOK
  <2>2. EntriesInv'
    <3> SUFFICES ASSUME NEW i \in Servers, entries[i] # NoEntry
                 PROVE  /\ ListInv(i, entries[i].fp, entries[i].tools, entries[i].readAt)'
                        /\ entries[i].at <= entries[i].readAt + Timeout
                        /\ entries[i].at <= now
      BY <1>9 DEF InstallPackage, EntriesInv, ListInv
    <3> QED
      BY <1>9, <1>ty DEF InstallPackage, EntriesInv, ListInv, TypeOK
  <2>3. TasksInv'
    BY <1>9, <1>ty, TaskKinds DEF InstallPackage, TasksInv, ListInv, InFlight, TypeOK
  <2> QED
    BY <2>1, <2>2, <2>3 DEF ToolListInv
<1>10. ASSUME NEW s \in Servers, NEW c \in Configs, EditConfig(s, c) PROVE ToolListInv'
  <2>1. TypeOK'
    BY <1>10, <1>ty, SameOrder DEF EditConfig, TypeOK
  <2>2. EntriesInv' /\ TasksInv'
    BY <1>10, <1>ty DEF EditConfig, EntriesInv, TasksInv, InFlight, ListInv
  <2> QED
    BY <2>1, <2>2 DEF ToolListInv
<1>11. ASSUME NEW s \in Servers, NEW c \in Configs, CommitInstall(s, c) PROVE ToolListInv'
  <2>1. /\ entries' \in [Servers -> Entry \union {NoEntry}] /\ Orders(order', Cached')
        /\ \A i \in Servers : entries'[i] \in {entries[i], NoEntry}
    BY <1>11, <1>ty, InvalidateEffect DEF CommitInstall
  <2>2. TypeOK' /\ EntriesInv'
    BY <1>11, <1>ty, <2>1, OldEntries DEF CommitInstall, TypeOK
  <2>3. TasksInv'
    BY <1>11, <1>ty DEF CommitInstall, TasksInv, InFlight, ListInv
  <2> QED
    BY <2>2, <2>3 DEF ToolListInv
<1>12. CASE Tick
  <2>1. TypeOK'
    BY <1>12, <1>ty, SameOrder DEF Tick, TypeOK
  <2>2. EntriesInv'
    BY <1>12, <1>ty DEF Tick, EntriesInv, ListInv, TypeOK, Entry
  <2>3. TasksInv'
    BY <1>12, <1>ty, TaskKinds DEF Tick, TasksInv, ListInv, InFlight, TypeOK, Answer
  <2> QED
    BY <2>1, <2>2, <2>3 DEF ToolListInv
<1>13. CASE UNCHANGED vars
  <2>1. TypeOK'
    BY <1>13, <1>ty, SameOrder DEF vars, TypeOK
  <2> QED
    BY <1>13, <1>ty, <2>1 DEF vars, ToolListInv, EntriesInv, TasksInv, InFlight, ListInv
<1> HIDE DEF ToolListInv
<1> QED
  BY <1>1, <1>2, <1>3, <1>4, <1>5, <1>6, <1>7, <1>8, <1>9, <1>10, <1>11, <1>12,
     <1>13 DEF Next

\* The state of the cache and of every discovery keeps its type.
THEOREM TypeCorrect == Spec => []TypeOK
<1>1. ToolListInv => TypeOK
  BY DEF ToolListInv
<1> QED
  BY InitInv, NextInv, <1>1, PTL DEF Spec

\* Only Hit and PutTools answer a discovery, with these lists.
LEMMA AnswerSteps ==
  ASSUME ToolListInv, Next, NEW t \in Tasks, Answers(t)
  PROVE  Hit(t) \/ PutTools(t)
<1> USE ToolListAssumption, SentinelAssumption
<1> DEFINE Other == task'[t] = task[t] \/ task'[t] = NoTask
                    \/ task'[t].phase \in {"queued", "fetching", "read"}
<1>0. TypeOK
  BY DEF ToolListInv
<1>1. Hit(t) \/ PutTools(t) \/ Other
  <2>1. ASSUME NEW u \in Tasks, NEW s \in Servers, Begin(u, s) PROVE Other
    BY <1>0, <2>1 DEF Begin, TypeOK
  <2>2. ASSUME NEW u \in Tasks, Hit(u) PROVE Other \/ Hit(t)
    BY <1>0, <2>2 DEF Hit, TypeOK
  <2>3. ASSUME NEW u \in Tasks, Miss(u) PROVE Other
    BY <1>0, <2>3, TaskKinds DEF Miss, TypeOK, Task
  <2>4. ASSUME NEW u \in Tasks, ReadUpstream(u) PROVE Other
    BY <1>0, <2>4 DEF ReadUpstream, TypeOK, WithTools
  <2>5. ASSUME NEW u \in Tasks, PutTools(u) PROVE Other \/ PutTools(t)
    BY <1>0, <2>5 DEF PutTools, TypeOK
  <2>6. ASSUME NEW u \in Tasks, FetchError(u) \/ Cancelled(u) PROVE Other
    BY <1>0, <2>6 DEF FetchError, Cancelled, TypeOK
  <2>7. ASSUME NEW s \in Servers, RemoveServer(s) \/ InstallPackage(s) PROVE Other
    BY <2>7 DEF RemoveServer, InstallPackage
  <2>8. ASSUME NEW s \in Servers, NEW c \in Configs,
               EditConfig(s, c) \/ CommitInstall(s, c)
        PROVE  Other
    BY <2>8 DEF EditConfig, CommitInstall
  <2>9. ASSUME Tick PROVE Other
    BY <2>9 DEF Tick
  <2> HIDE DEF Other
  <2> QED
    BY <2>1, <2>2, <2>3, <2>4, <2>5, <2>6, <2>7, <2>8, <2>9 DEF Next
<1> QED
  BY <1>1 DEF Answers, InFlight

\* Discoveries are answered with lists of the config record they read.
THEOREM AnswersMatchConfig == Spec => AnswerMatchesConfig
<1>1. ToolListInv /\ [Next]_vars
        => [\A t \in Tasks : Answers(t) => task'[t].tools.config = task[t].fp]_vars
  <2> SUFFICES ASSUME ToolListInv, Next, NEW t \in Tasks, Answers(t)
               PROVE  task'[t].tools.config = task[t].fp
    OBVIOUS
  <2>0. TypeOK /\ EntriesInv /\ TasksInv
    BY DEF ToolListInv
  <2>1. CASE Hit(t)
    BY <2>0, <2>1, TaskKinds DEF Hit, Live, TypeOK, WithTools, EntriesInv, ListInv
  <2>2. CASE PutTools(t)
    BY <2>0, <2>2, TaskKinds DEF PutTools, TypeOK, TasksInv, ListInv, Answer
  <2> QED
    BY <2>1, <2>2, AnswerSteps
<1> QED
  BY InitInv, NextInv, <1>1, PTL DEF Spec, AnswerMatchesConfig

\* The tools of an outdated package are listed for less than TTL + Timeout after
\* the install, and for at most Timeout by a discovery that fetched them.
THEOREM StaleListsExpire == Spec => StaleIsBounded
<1> USE ToolListAssumption, SentinelAssumption
<1> DEFINE Bounded(t) ==
      LET k == task'[t] IN
       /\ Answers(t)
       /\ k.tools.version # version[k.server]
       => IF k.hit THEN now < installed[k.server] + TTL + Timeout
                   ELSE now <= installed[k.server] + Timeout
<1>1. ToolListInv /\ [Next]_vars => [\A t \in Tasks : Bounded(t)]_vars
  <2> SUFFICES ASSUME ToolListInv, Next, NEW t \in Tasks, Answers(t),
                      task'[t].tools.version # version[task'[t].server]
               PROVE  IF task'[t].hit
                        THEN now < installed[task'[t].server] + TTL + Timeout
                        ELSE now <= installed[task'[t].server] + Timeout
    OBVIOUS
  <2>0. TypeOK /\ EntriesInv /\ TasksInv
    BY DEF ToolListInv
  <2>1. CASE Hit(t)
    <3>1. PICK s \in Servers : s = task[t].server
      BY <2>0, <2>1, TaskKinds DEF Hit
    <3>2. PICK e \in Entry : e = entries[s]
      BY <2>0, <2>1, <3>1 DEF Hit, Live, TypeOK
    <3>3. task'[t].server = s /\ task'[t].tools = e.tools /\ task'[t].hit = TRUE
      BY <2>0, <2>1, <3>1, <3>2 DEF Hit, TypeOK, WithTools
    <3>4. now < e.at + TTL /\ entries[s] # NoEntry
      BY <2>1, <3>1, <3>2 DEF Hit, Live
    <3>5. e.at <= e.readAt + Timeout /\ e.readAt <= installed[s]
      <4>1. ListInv(s, e.fp, e.tools, e.readAt) /\ e.at <= e.readAt + Timeout
        BY <2>0, <3>2, <3>4 DEF EntriesInv
      <4>2. e.tools.version # version[s]
        BY <3>3
      <4> QED
        BY <4>1, <4>2 DEF ListInv
    <3>6. e.at \in Nat /\ e.readAt \in Nat /\ installed[s] \in Nat /\ now \in Nat
      BY <2>0 DEF TypeOK, Entry
    <3> QED
      BY <3>3, <3>4, <3>5, <3>6
  <2>2. CASE PutTools(t)
    <3>1. PICK k \in Answer : k = task[t]
      BY <2>0, <2>2, TaskKinds DEF PutTools
    <3>2. /\ task'[t].server = k.server /\ task'[t].tools = k.tools
          /\ task'[t].hit = k.hit
      BY <2>0, <2>2, <3>1 DEF PutTools, TypeOK, Answer
    <3>3. /\ now <= k.started + Timeout /\ k.started <= k.readAt
          /\ k.readAt <= installed[k.server] /\ k.hit = FALSE
      BY <2>0, <2>2, <3>1, <3>2 DEF PutTools, TasksInv, ListInv
    <3>4. /\ k.started \in Nat /\ k.readAt \in Nat /\ now \in Nat
          /\ installed[k.server] \in Nat
      BY <2>0 DEF TypeOK, Answer
    <3> QED
      BY <3>2, <3>3, <3>4
  <2> QED
    BY <2>1, <2>2, AnswerSteps
<1> QED
  BY InitInv, NextInv, <1>1, PTL DEF Spec, StaleIsBounded

\* The cached ids are finitely many, which Cardinality needs.
CapacityInv == CacheBounded /\ IsFiniteSet(Cached)

\* Steps that only remove entries keep the bound.
LEMMA RemovalKeepsBound ==
  ASSUME CapacityInv, \A i \in Servers : entries'[i] \in {entries[i], NoEntry}
  PROVE  CapacityInv'
<1>1. Cached' \subseteq Cached
  BY DEF Cached
<1>2. /\ IsFiniteSet(Cached') /\ Cardinality(Cached') <= Cardinality(Cached)
      /\ Cardinality(Cached') \in Nat /\ Cardinality(Cached) \in Nat
  BY <1>1, FS_Subset, FS_CardinalityType DEF CapacityInv
<1> QED
  BY <1>1, <1>2, ToolListAssumption DEF CapacityInv, CacheBounded, Enabled

\* put adds one entry and, past the capacity, drops one.
LEMMA PutKeepsBound ==
  ASSUME TypeOK, CapacityInv, NEW s \in Servers, NEW e \in Entry, Put(s, e)
  PROVE  CapacityInv'
<1> USE ToolListAssumption, SentinelAssumption
<1> DEFINE Wide == Cached \union {s}
<1>1. /\ IsFiniteSet(Wide) /\ Cardinality(Wide) \in Nat /\ Cardinality(Cached) \in Nat
      /\ Cardinality(Wide) <= Cardinality(Cached) + 1
  <2>1. IsFiniteSet(Cached) /\ Cardinality(Cached) \in Nat
    BY FS_CardinalityType DEF CapacityInv
  <2>2. /\ IsFiniteSet(Wide)
        /\ Cardinality(Wide) = IF s \in Cached THEN Cardinality(Cached)
                                               ELSE Cardinality(Cached) + 1
    BY <2>1, FS_AddElement
  <2> HIDE DEF Wide
  <2> QED
    BY <2>1, <2>2
<1>2. CASE ~Enabled
  <2>1. UNCHANGED entries
    BY <1>2 DEF Put
  <2> QED
    BY <2>1 DEF CapacityInv, CacheBounded, Cached
<1>3. CASE Enabled /\ Cardinality(Wide) <= MaxEntries
  <2>1. entries' = [entries EXCEPT ![s] = e]
    BY <1>1, <1>3 DEF Put
  <2>2. Cached' = Wide
    BY <2>1 DEF Cached, TypeOK
  <2> QED
    BY <1>1, <1>3, <2>2 DEF CapacityInv, CacheBounded
<1>4. CASE Enabled /\ Cardinality(Wide) > MaxEntries
  <2>1. PICK old \in Wide :
               entries' = [[entries EXCEPT ![s] = e] EXCEPT ![old] = NoEntry]
    BY <1>1, <1>4 DEF Put
  <2>2. Cached' = Wide \ {old}
    BY <2>1 DEF Cached, TypeOK
  <2>3. /\ IsFiniteSet(Wide \ {old})
        /\ Cardinality(Wide \ {old}) = Cardinality(Wide) - 1
    BY <1>1, <2>1, FS_RemoveElement
  <2> QED
    BY <1>1, <1>4, <2>2, <2>3 DEF CapacityInv, CacheBounded
<1> QED
  BY <1>1, <1>2, <1>3, <1>4

\* The bound goes with the invariant of the lists.
LEMMA CapacityInvariant == Spec => [](ToolListInv /\ CapacityInv)
<1> USE ToolListAssumption, SentinelAssumption
<1>1. Init => CapacityInv
  <2> SUFFICES ASSUME Init PROVE CapacityInv
    OBVIOUS
  <2>1. Cached = {}
    BY DEF Init, Cached
  <2> QED
    BY <2>1, FS_EmptySet DEF CapacityInv, CacheBounded
<1>2. ToolListInv /\ CapacityInv /\ [Next]_vars => CapacityInv'
  <2> SUFFICES ASSUME ToolListInv, CapacityInv, [Next]_vars PROVE CapacityInv'
    OBVIOUS
  <2>0. TypeOK
    BY DEF ToolListInv
  <2> DEFINE Removes == \A i \in Servers : entries'[i] \in {entries[i], NoEntry}
  <2>1. ASSUME NEW t \in Tasks, PutTools(t) PROVE CapacityInv'
    <3> DEFINE e == [fp |-> task[t].fp, at |-> now, tools |-> task[t].tools,
                     readAt |-> task[t].readAt]
    <3>1. e \in Entry /\ task[t].server \in Servers
      BY <2>0, <2>1, TaskKinds DEF PutTools, Entry, Answer, TypeOK
    <3> QED
      BY <2>0, <2>1, <3>1, PutKeepsBound DEF PutTools
  <2>2. ASSUME NEW t \in Tasks, Hit(t) \/ ReadUpstream(t) \/ Cancelled(t) PROVE Removes
    BY <2>2 DEF Hit, ReadUpstream, Cancelled
  <2>3. ASSUME NEW t \in Tasks, NEW s \in Servers, Begin(t, s) PROVE Removes
    BY <2>3 DEF Begin
  <2>4. ASSUME NEW t \in Tasks, Miss(t) \/ FetchError(t) PROVE Removes
    <3>1. task[t].server \in Servers
      BY <2>0, <2>4, TaskKinds DEF Miss, FetchError
    <3> QED
      BY <2>0, <2>4, <3>1, InvalidateEffect DEF Miss, FetchError
  <2>5. ASSUME NEW s \in Servers, RemoveServer(s) PROVE Removes
    BY <2>0, <2>5, InvalidateEffect DEF RemoveServer
  <2>6. ASSUME NEW s \in Servers, InstallPackage(s) PROVE Removes
    BY <2>6 DEF InstallPackage
  <2>7. ASSUME NEW s \in Servers, NEW c \in Configs,
               EditConfig(s, c) \/ CommitInstall(s, c)
        PROVE  Removes
    BY <2>0, <2>7, InvalidateEffect DEF EditConfig, CommitInstall
  <2>8. ASSUME Tick \/ UNCHANGED vars PROVE Removes
    BY <2>8 DEF Tick, vars
  <2>9. Removes => CapacityInv'
    BY RemovalKeepsBound
  <2> HIDE DEF Removes
  <2> QED
    BY <2>1, <2>2, <2>3, <2>4, <2>5, <2>6, <2>7, <2>8, <2>9 DEF Next
<1> QED
  BY InitInv, NextInv, <1>1, <1>2, PTL DEF Spec

\* The cache never holds more than max_entries lists, and none when disabled.
THEOREM CacheStaysBounded == Spec => []CacheBounded
<1>1. CapacityInv => CacheBounded
  BY DEF CapacityInv
<1> QED
  BY CapacityInvariant, <1>1, PTL

\* The oldest of more entries than the cache may hold is never the one just
\* stored: its key is new, hence the last, and no other entry is newer.
LEMMA OldestIsAnother ==
  ASSUME ToolListInv, CapacityInv, NEW s \in Servers, NEW e \in Entry, e.at = now,
         Cardinality(Cached \union {s}) > MaxEntries,
         NEW old \in Cached \union {s},
         \A k \in (Cached \union {s}) \ {old} :
           Precedes([entries EXCEPT ![s] = e], Placed(s), old, k)
  PROVE  old # s
<1>1. /\ Cardinality(Cached) \in Nat /\ Cardinality(Cached) <= MaxEntries
      /\ MaxEntries \in Nat \ {0}
  BY FS_CardinalityType, ToolListAssumption DEF CapacityInv, CacheBounded
<1>2. s \notin Cached
  <2>1. s \in Cached => Cached \union {s} = Cached
    OBVIOUS
  <2> QED
    BY <1>1, <2>1
<1>3. PICK other \in Cached : TRUE
  <2>1. Cached = {} => Cardinality(Cached \union {s}) = 1
    BY FS_Singleton
  <2> QED
    BY <1>1, <2>1
<1>4. /\ other \in Servers /\ entries[other] \in Entry /\ entries[other].at <= now
      /\ now \in Nat /\ entries[other].at \in Nat
  BY <1>3 DEF ToolListInv, TypeOK, EntriesInv, Cached, Entry
<1>5. <<s, other>> \notin Placed(s)
  BY <1>2, <1>3 DEF Placed, ToolListInv, TypeOK, Orders
<1>6. [entries EXCEPT ![s] = e][s] = e /\ [entries EXCEPT ![s] = e][other] = entries[other]
  BY <1>2, <1>3, <1>4 DEF ToolListInv, TypeOK
<1>7. ~Precedes([entries EXCEPT ![s] = e], Placed(s), s, other)
  BY <1>4, <1>5, <1>6 DEF Precedes
<1> QED
  BY <1>2, <1>3, <1>7

\* Of all entries the eviction of put falls on an older one than the list that
\* was just stored.
THEOREM StoredListsAreKept == Spec => PutIsKept
<1>1. ToolListInv /\ CapacityInv /\ [Next]_vars =>
        [\A t \in Tasks : Enabled /\ PutTools(t) => entries'[task[t].server] # NoEntry]_vars
  <2> SUFFICES ASSUME ToolListInv, CapacityInv, NEW t \in Tasks, Enabled, PutTools(t)
               PROVE  entries'[task[t].server] # NoEntry
    OBVIOUS
  <2> DEFINE s == task[t].server
             e == [fp |-> task[t].fp, at |-> now, tools |-> task[t].tools, readAt |-> task[t].readAt]
  <2>1. TypeOK
    BY DEF ToolListInv
  <2>2. /\ e \in Entry /\ e.at = now /\ s \in Servers
        /\ entries \in [Servers -> Entry \union {NoEntry}]
    BY <2>1, TaskKinds DEF PutTools, Entry, Answer, TypeOK
  <2>3. Put(s, e)
    BY DEF PutTools
  <2>4. e # NoEntry
    BY <2>2, SentinelAssumption
  <2> HIDE DEF s, e
  <2>c. Cardinality(Cached \union {s}) \in Nat /\ MaxEntries \in Nat
    BY FS_AddElement, FS_CardinalityType, ToolListAssumption DEF CapacityInv
  <2>5. CASE entries' = [entries EXCEPT ![s] = e]
    BY <2>2, <2>4, <2>5 DEF s
  <2>6. CASE Cardinality(Cached \union {s}) > MaxEntries
    <3>0. ~(Cardinality(Cached \union {s}) <= MaxEntries)
      BY <2>c, <2>6
    <3>1. PICK old \in Cached \union {s} :
            /\ \A k \in (Cached \union {s}) \ {old} :
                 Precedes([entries EXCEPT ![s] = e], Placed(s), old, k)
            /\ entries' = [[entries EXCEPT ![s] = e] EXCEPT ![old] = NoEntry]
      BY <2>3, <3>0, Zenon DEF Put
    <3>2. old # s
      BY <2>2, <2>6, <3>1, OldestIsAnother
    <3> QED
      BY <2>2, <2>4, <3>1, <3>2 DEF s
  <2>7. QED
    BY <2>3, <2>c, <2>5, <2>6 DEF Put
<1>2. QED
  BY CapacityInvariant, <1>1, PTL DEF Spec, PutIsKept

-----------------------------------------------------------------------------
(***************************************************************************)
(* The shortcuts drawn from the counts.                                    *)
(***************************************************************************)

\* The ranking is a list of tools, and every tool that was called is in it: a
\* tool has as many others before it as tells it from all of them.
LEMMA RankingIsComplete ==
  ASSUME counts \in [Composites -> Nat]
  PROVE  /\ RankedKeys \in Seq(Composites)
         /\ \A t \in Called : \E i \in 1..Len(RankedKeys) : RankedKeys[i] = t
<1> DEFINE n == Cardinality(Called)
           place == [t \in Called |-> Cardinality(Before(t)) + 1]
<1>0. \A t \in Called : t \in Nat /\ counts[t] \in Nat
  BY HotAssumption DEF Called
<1>1. IsFiniteSet(Called) /\ n \in Nat
  <2>1. Called \subseteq Composites /\ IsFiniteSet(Composites)
    BY HotAssumption DEF Called
  <2>2. IsFiniteSet(Called)
    BY <2>1, FS_Subset
  <2>3. QED
    BY <2>2, FS_CardinalityType
<1>2. ASSUME NEW t \in Called PROVE IsFiniteSet(Before(t)) /\ Cardinality(Before(t)) \in Nat
  <2>1. Before(t) \in SUBSET Called
    BY DEF Before
  <2>2. IsFiniteSet(Before(t))
    BY <1>1, <2>1, FS_Subset
  <2>3. QED
    BY <2>2, FS_CardinalityType
<1>3. ASSUME NEW t \in Called PROVE Cardinality(Before(t)) < n
  <2>1. Before(t) \in SUBSET Called /\ t \notin Before(t)
    BY <1>0 DEF Before
  <2>2. Cardinality(Before(t)) <= n /\ Cardinality(Before(t)) # n
    BY <1>1, <2>1, FS_Subset
  <2>3. QED
    BY <1>1, <1>2, <2>2
<1>4. ASSUME NEW s \in Called, NEW t \in Called, s \in Before(t)
      PROVE  Cardinality(Before(s)) < Cardinality(Before(t))
  <2>1. ASSUME NEW o \in Before(s) PROVE o \in Before(t)
    <3>1. /\ o \in Called /\ (counts[o] > counts[s] \/ (counts[o] = counts[s] /\ o < s))
          /\ counts[s] > counts[t] \/ (counts[s] = counts[t] /\ s < t)
      BY <1>4 DEF Before
    <3>2. counts[o] > counts[t] \/ (counts[o] = counts[t] /\ o < t)
      BY <1>0, <3>1
    <3>3. QED
      BY <3>1, <3>2 DEF Before
  <2>2. s \notin Before(s)
    BY <1>0 DEF Before
  <2>3. Before(s) \in SUBSET Before(t) /\ Before(s) # Before(t)
    BY <1>4, <2>1, <2>2
  <2>f. IsFiniteSet(Before(t))
    BY <1>2
  <2>4. Cardinality(Before(s)) <= Cardinality(Before(t)) /\ Cardinality(Before(s)) # Cardinality(Before(t))
    BY <2>3, <2>f, FS_Subset
  <2>5. QED
    BY <1>2, <2>4
<1>5. ASSUME NEW s \in Called, NEW t \in Called, Cardinality(Before(s)) = Cardinality(Before(t))
      PROVE  s = t
  <2>1. s = t \/ s \in Before(t) \/ t \in Before(s)
    BY <1>0 DEF Before
  <2>2. QED
    BY <1>2, <1>4, <1>5, <2>1
<1>6. place \in Injection(Called, 1..n)
  <2>1. place \in [Called -> 1..n]
    BY <1>1, <1>2, <1>3
  <2>2. \A s, t \in Called : place[s] = place[t] => s = t
    BY <1>2, <1>5
  <2>3. QED
    BY <2>1, <2>2 DEF Injection, IsInjective
<1>7. place \in Surjection(Called, 1..n)
  <2>1. IsFiniteSet(1..n) /\ Cardinality(1..n) = n
    BY <1>1, FS_Interval
  <2>2. QED
    BY <1>6, <2>1, FS_Injection
<1>8. \A i \in 1..n : \E t \in Called : Cardinality(Before(t)) = i - 1
  <2> SUFFICES ASSUME NEW i \in 1..n PROVE \E t \in Called : Cardinality(Before(t)) = i - 1
    OBVIOUS
  <2>1. PICK t \in Called : place[t] = i
    BY <1>7 DEF Surjection
  <2>2. QED
    BY <1>2, <2>1
<1> DEFINE nth(i) == CHOOSE t \in Called : Cardinality(Before(t)) = i - 1
<1>9. \A i \in 1..n : nth(i) \in Called /\ Cardinality(Before(nth(i))) = i - 1
  BY <1>8
<1>10. RankedKeys = [i \in 1..n |-> nth(i)]
  BY DEF RankedKeys
<1> HIDE DEF n, nth
<1>11. RankedKeys \in Seq(Called) /\ Len(RankedKeys) = n /\ \A i \in 1..n : RankedKeys[i] = nth(i)
  BY <1>1, <1>9, <1>10
<1>12. Called \subseteq Composites
  BY DEF Called
<1>13. ASSUME NEW t \in Called PROVE \E i \in 1..Len(RankedKeys) : RankedKeys[i] = t
  <2> DEFINE i == Cardinality(Before(t)) + 1
  <2>1. i \in 1..n /\ i - 1 = Cardinality(Before(t))
    BY <1>1, <1>2, <1>3
  <2>2. nth(i) = t
    BY <1>5, <1>9, <2>1
  <2>3. QED
    BY <1>11, <2>1, <2>2
<1>14. QED
  BY <1>11, <1>12, <1>13

\* A list or a call in progress.
LEMMA InProgress ==
  ASSUME HotTypeOK
  PROVE  /\ list # NoList =>
              /\ list \in List /\ list.ranked \in Seq(Composites) /\ list.out \in Seq(Composites)
              /\ list.next \in Nat \ {0} /\ Len(list.ranked) \in Nat /\ Len(list.out) \in Nat
              /\ MoreToList => /\ list.next \in 1..Len(list.ranked)
                               /\ list.ranked[list.next] \in Composites
         /\ call # NoCall => call \in Call /\ call.tool \in Composites
<1>1. ASSUME list # NoList
      PROVE  /\ list \in List /\ list.ranked \in Seq(Composites) /\ list.out \in Seq(Composites)
             /\ list.next \in Nat \ {0} /\ Len(list.ranked) \in Nat /\ Len(list.out) \in Nat
  BY <1>1 DEF HotTypeOK, List
<1>2. ASSUME list # NoList, MoreToList
      PROVE  /\ list.next \in 1..Len(list.ranked)
             /\ list.ranked[list.next] \in Composites
  <2>1. list.next \in 1..Len(list.ranked)
    BY <1>1, <1>2 DEF MoreToList
  <2>2. QED
    BY <1>1, <1>2, <2>1
<1>3. call # NoCall => call \in Call /\ call.tool \in Composites
  BY DEF HotTypeOK, Call
<1>4. QED
  BY <1>1, <1>2, <1>3

\* What the answer to a lookup does to the list.
LEMMA AnswerTaken ==
  ASSUME HotTypeOK, TakeAnswer
  PROVE  LET t == list.ranked[list.next]
         IN /\ list # NoList /\ t \in Composites
            /\ list' \in List /\ list'.next = list.next + 1 /\ list'.answer = "none"
            /\ list'.ranked = list.ranked /\ list'.disabled = list.disabled
            /\ list'.out = IF list.answer = "found" THEN Append(list.out, t) ELSE list.out
            /\ Len(list'.out) <= Slots
            /\ counts' = IF list.answer = "missing" THEN [counts EXCEPT ![t] = 0] ELSE counts
<1> DEFINE t == list.ranked[list.next]
           out == IF list.answer = "found" THEN Append(list.out, t) ELSE list.out
<1>1. /\ list # NoList /\ MoreToList /\ Len(list.out) < Slots
      /\ list' = [list EXCEPT !.next = @ + 1, !.answer = "none",
                              !.out = IF list.answer = "found" THEN Append(@, t) ELSE @]
      /\ counts' = IF list.answer = "missing" THEN [counts EXCEPT ![t] = 0] ELSE counts
  BY DEF TakeAnswer, MoreToList, Pruned
<1>2. /\ list \in List /\ t \in Composites /\ list.next \in Nat \ {0}
      /\ list.out \in Seq(Composites) /\ Len(list.out) \in Nat
  BY <1>1, InProgress
<1> HIDE DEF t
<1>3. out \in Seq(Composites) /\ Len(out) <= Slots
  BY <1>1, <1>2, HotAssumption
<1>4. list' = [list EXCEPT !.next = @ + 1, !.answer = "none", !.out = out]
  BY <1>1, <1>2 DEF List
<1> HIDE DEF out
<1>5. /\ list' \in List /\ list'.next = list.next + 1 /\ list'.answer = "none"
      /\ list'.ranked = list.ranked /\ list'.disabled = list.disabled /\ list'.out = out
  <2>1. list.next + 1 \in Nat \ {0} /\ "none" \in Outcomes \union {"none"}
    BY <1>2
  <2>2. list' = [list EXCEPT !.next = list.next + 1, !.answer = "none", !.out = out]
    BY <1>4
  <2>3. QED
    BY <1>2, <1>3, <2>1, <2>2 DEF List
<1>6. QED
  BY <1>1, <1>2, <1>3, <1>5 DEF t, out

\* The answer that a lookup of the next tool brings.
LEMMA LookedUp ==
  ASSUME HotTypeOK, LookUp
  PROVE  LET t == list.ranked[list.next]
         IN /\ list # NoList /\ t \in Composites /\ list.answer = "none"
            /\ list' \in List /\ list'.out = list.out
            /\ list'.ranked = list.ranked /\ list'.disabled = list.disabled
            /\ \/ t \in list.disabled /\ list'.next = list.next + 1 /\ list'.answer = "none"
               \/ t \notin list.disabled /\ list'.next = list.next /\ list'.answer = upstream[t]
<1> DEFINE t == list.ranked[list.next]
<1>1. /\ list # NoList /\ MoreToList /\ list.answer = "none"
      /\ list' = IF t \in list.disabled THEN [list EXCEPT !.next = @ + 1]
                                        ELSE [list EXCEPT !.answer = upstream[t]]
  BY DEF LookUp, MoreToList
<1>2. list \in List /\ t \in Composites /\ list.next \in Nat \ {0}
  BY <1>1, InProgress
<1>3. upstream[t] \in Outcomes
  BY <1>2 DEF HotTypeOK
<1> HIDE DEF t
<1>4. CASE t \in list.disabled
  <2>1. /\ list' \in List /\ list'.out = list.out /\ list'.ranked = list.ranked
        /\ list'.disabled = list.disabled /\ list'.next = list.next + 1 /\ list'.answer = "none"
    BY <1>1, <1>2, <1>4 DEF List
  <2>2. QED
    BY <1>1, <1>2, <1>4, <2>1 DEF t
<1>5. CASE t \notin list.disabled
  <2>1. /\ list' \in List /\ list'.out = list.out /\ list'.ranked = list.ranked
        /\ list'.disabled = list.disabled /\ list'.next = list.next /\ list'.answer = upstream[t]
    BY <1>1, <1>2, <1>3, <1>5 DEF List
  <2>2. QED
    BY <1>1, <1>2, <1>5, <2>1 DEF t
<1>6. QED
  BY <1>4, <1>5

LEMMA Started ==
  ASSUME HotTypeOK, StartList
  PROVE  /\ list' \in List /\ list'.out = <<>> /\ list'.ranked = RankedKeys
         /\ list'.disabled = disabled /\ list'.next = 1 /\ list'.answer = "none"
<1>1. list' = [ranked |-> RankedKeys, next |-> 1, out |-> <<>>,
               disabled |-> disabled, answer |-> "none"]
  BY DEF StartList
<1>2. RankedKeys \in Seq(Composites)
  <2>1. counts \in [Composites -> Nat]
    BY HotAssumption DEF HotTypeOK
  <2>2. QED
    BY <2>1, RankingIsComplete
<1>3. disabled \in SUBSET Composites
  BY DEF HotTypeOK
<1>4. QED
  BY <1>1, <1>2, <1>3 DEF List

\* What the steps of a call do to the counts.
LEMMA CallSteps ==
  ASSUME HotTypeOK, LookUpCall \/ TakeCallAnswer \/ FinishCall \/ \E t \in Composites : CallShortcut(t) \/ CallTool(t)
  PROVE  /\ call' \in Call \union {NoCall} /\ counts' \in [Composites -> 0..MaxCount]
         /\ UNCHANGED <<upstream, disabled, list, offered, steady, gone>>
<1>1. MaxCount \in Nat /\ counts \in [Composites -> 0..MaxCount]
  BY HotAssumption DEF HotTypeOK
<1>2. ASSUME NEW t \in Composites PROVE Pruned(t) \in [Composites -> 0..MaxCount]
  BY <1>1 DEF Pruned
<1>3. ASSUME NEW t \in Composites PROVE Counted(t) \in [Composites -> 0..MaxCount]
  BY <1>1 DEF Counted
<1>4. CASE LookUpCall
  <2>1. call \in Call /\ call.tool \in Composites
    BY <1>4, InProgress DEF LookUpCall
  <2>2. upstream[call.tool] \in Outcomes
    BY <2>1 DEF HotTypeOK
  <2>3. call' = [call EXCEPT !.answer = upstream[call.tool]]
    BY <1>4 DEF LookUpCall
  <2>4. call' \in Call
    BY <2>1, <2>2, <2>3 DEF Call
  <2>5. QED
    BY <1>1, <1>4, <2>4 DEF LookUpCall
<1>5. CASE TakeCallAnswer
  <2>1. call \in Call /\ call.tool \in Composites
    BY <1>5, InProgress DEF TakeCallAnswer
  <2>2. [call EXCEPT !.answer = "allowed"] \in Call
    BY <2>1 DEF Call
  <2>3. QED
    BY <1>1, <1>2, <1>5, <2>1, <2>2 DEF TakeCallAnswer
<1>6. CASE FinishCall
  <2>1. call.tool \in Composites
    BY <1>6, InProgress DEF FinishCall
  <2>2. QED
    BY <1>1, <1>2, <1>3, <1>6, <2>1 DEF FinishCall
<1>7. ASSUME NEW t \in Composites, CallShortcut(t)
      PROVE  /\ call' \in Call \union {NoCall} /\ counts' \in [Composites -> 0..MaxCount]
             /\ UNCHANGED <<upstream, disabled, list, offered, steady, gone>>
  BY <1>1, <1>7 DEF CallShortcut, Call
<1>8. ASSUME NEW t \in Composites, CallTool(t)
      PROVE  /\ call' \in Call \union {NoCall} /\ counts' \in [Composites -> 0..MaxCount]
             /\ UNCHANGED <<upstream, disabled, list, offered, steady, gone>>
  BY <1>1, <1>8 DEF CallTool, Call
<1>9. QED
  BY <1>4, <1>5, <1>6, <1>7, <1>8

LEMMA HotTypeStep == HotTypeOK /\ [HotNext]_hotVars => HotTypeOK'
<1> SUFFICES ASSUME HotTypeOK, [HotNext]_hotVars PROVE HotTypeOK'
  OBVIOUS
<1>0. MaxCount \in Nat /\ counts \in [Composites -> 0..MaxCount] /\ Slots \in Nat
  BY HotAssumption DEF HotTypeOK
<1>1. CASE UNCHANGED hotVars
  BY <1>1 DEF HotTypeOK, hotVars
<1>2. CASE StartList
  <2>1. list' \in List /\ Len(list'.out) = 0
    BY <1>2, Started
  <2>2. steady' \in SUBSET Composites
    BY <1>2 DEF StartList
  <2>3. QED
    BY <1>0, <1>2, <2>1, <2>2 DEF HotTypeOK, StartList
<1>3. CASE LookUp
  <2>1. list # NoList /\ list' \in List /\ list'.out = list.out
    BY <1>3, LookedUp
  <2>2. QED
    BY <1>3, <2>1 DEF HotTypeOK, LookUp
<1>4. CASE TakeAnswer
  <2>1. list' \in List /\ Len(list'.out) <= Slots
    BY <1>4, AnswerTaken
  <2>2. counts' \in [Composites -> 0..MaxCount]
    BY <1>0, <1>4, AnswerTaken
  <2>3. QED
    BY <1>4, <2>1, <2>2 DEF HotTypeOK, TakeAnswer
<1>5. CASE FinishList
  <2>1. list.out \in Seq(Composites)
    BY <1>5, InProgress DEF FinishList
  <2>2. ToSet(list.out) \in SUBSET Composites
    BY <2>1 DEF ToSet
  <2>3. QED
    BY <1>5, <2>2 DEF HotTypeOK, FinishList
<1>6. CASE LookUpCall \/ TakeCallAnswer \/ FinishCall \/ \E t \in Composites : CallShortcut(t) \/ CallTool(t)
  <2>1. /\ call' \in Call \union {NoCall} /\ counts' \in [Composites -> 0..MaxCount]
        /\ UNCHANGED <<upstream, disabled, list, offered, steady, gone>>
    BY <1>6, CallSteps
  <2>2. QED
    BY <2>1 DEF HotTypeOK
<1>7. ASSUME NEW t \in Composites, EditPolicy(t) PROVE HotTypeOK'
  BY <1>7 DEF HotTypeOK, EditPolicy
<1>8. ASSUME NEW t \in Composites, NEW o \in Outcomes, UpstreamChanges(t, o) PROVE HotTypeOK'
  <2>1. upstream' \in [Composites -> Outcomes] /\ steady' \in SUBSET Composites /\ gone' \in SUBSET Composites
    BY <1>8 DEF HotTypeOK, UpstreamChanges
  <2>2. QED
    BY <1>8, <2>1 DEF HotTypeOK, UpstreamChanges
<1>9. QED
  BY <1>1, <1>2, <1>3, <1>4, <1>5, <1>6, <1>7, <1>8 DEF HotNext

\* Every step keeps what is known of missing tools.
LEMMA GoneStep == HotTypeOK /\ GoneInv /\ [HotNext]_hotVars => GoneInv'
<1> SUFFICES ASSUME HotTypeOK, GoneInv, [HotNext]_hotVars PROVE GoneInv'
  OBVIOUS
<1>1. CASE UNCHANGED <<list, call, upstream, gone>>
  BY <1>1 DEF GoneInv
<1>2. CASE StartList
  <2>1. list'.answer = "none" /\ UNCHANGED <<call, upstream, gone>>
    BY <1>2, Started DEF StartList
  <2>2. QED
    BY <2>1 DEF GoneInv
<1>3. CASE LookUp
  <2> DEFINE t == list.ranked[list.next]
  <2>1. UNCHANGED <<call, upstream, gone>>
    BY <1>3 DEF LookUp
  <2>2. /\ t \in Composites /\ list'.ranked = list.ranked
        /\ \/ list'.answer = "none"
           \/ list'.next = list.next /\ list'.answer = upstream[t]
    BY <1>3, LookedUp
  <2>3. list'.answer = "missing" => list'.ranked[list'.next] \in gone
    BY <2>2 DEF GoneInv
  <2>4. QED
    BY <2>1, <2>3 DEF GoneInv
<1>4. CASE TakeAnswer
  <2>1. list'.answer = "none" /\ UNCHANGED <<call, upstream, gone>>
    BY <1>4, AnswerTaken DEF TakeAnswer
  <2>2. QED
    BY <2>1 DEF GoneInv
<1>5. CASE FinishList
  BY <1>5 DEF FinishList, GoneInv
<1>6. CASE LookUpCall
  <2>1. call' = [call EXCEPT !.answer = upstream[call.tool]] /\ UNCHANGED <<list, upstream, gone>>
    BY <1>6 DEF LookUpCall
  <2>2. call \in Call /\ call.tool \in Composites
    BY <1>6, InProgress DEF LookUpCall
  <2>3. call'.tool = call.tool /\ call'.answer = upstream[call.tool]
    BY <2>1, <2>2 DEF Call
  <2>4. QED
    BY <2>1, <2>2, <2>3 DEF GoneInv
<1>7. CASE TakeCallAnswer
  <2>1. UNCHANGED <<list, upstream, gone>> /\ (call' = NoCall \/ call' = [call EXCEPT !.answer = "allowed"])
    BY <1>7 DEF TakeCallAnswer
  <2>2. call \in Call
    BY <1>7, InProgress DEF TakeCallAnswer
  <2>3. call' # NoCall => call'.answer = "allowed"
    BY <2>1, <2>2 DEF Call
  <2>4. QED
    BY <2>1, <2>3 DEF GoneInv
<1>8. CASE FinishCall
  BY <1>8 DEF FinishCall, GoneInv
<1>9. ASSUME NEW t \in Composites, CallShortcut(t) \/ CallTool(t) PROVE GoneInv'
  <2>1. call'.answer # "missing" /\ UNCHANGED <<list, upstream, gone>>
    BY <1>9 DEF CallShortcut, CallTool
  <2>2. QED
    BY <2>1 DEF GoneInv
<1>10. ASSUME NEW t \in Composites, EditPolicy(t) PROVE GoneInv'
  BY <1>10 DEF EditPolicy, GoneInv
<1>11. ASSUME NEW t \in Composites, NEW o \in Outcomes, UpstreamChanges(t, o) PROVE GoneInv'
  <2>1. /\ UNCHANGED <<list, call>> /\ upstream' = [upstream EXCEPT ![t] = o]
        /\ gone' = IF o = "missing" THEN gone \union {t} ELSE gone
        /\ upstream \in [Composites -> Outcomes]
    BY <1>11 DEF UpstreamChanges, HotTypeOK
  <2>2. ASSUME NEW s \in Composites, upstream'[s] = "missing" PROVE s \in gone'
    BY <2>1, <2>2 DEF GoneInv
  <2>3. gone \subseteq gone'
    BY <2>1
  <2>4. QED
    BY <2>1, <2>2, <2>3 DEF GoneInv
<1>12. CASE UNCHANGED hotVars
  BY <1>1, <1>12 DEF hotVars
<1>13. QED
  BY <1>2, <1>3, <1>4, <1>5, <1>6, <1>7, <1>8, <1>9, <1>10, <1>11, <1>12 DEF HotNext

\* A list that is not touched stays in order as steady tools become fewer.
LEMMA FewerSteady ==
  ASSUME OfferInv, list' = list, steady' \subseteq steady,
         \A t \in steady' : upstream'[t] = "found"
  PROVE  OfferInv'
BY DEF OfferInv

LEMMA AppendedSet ==
  ASSUME NEW S, NEW q \in Seq(S), NEW x \in S
  PROVE  ToSet(Append(q, x)) = ToSet(q) \union {x}
<1>1. /\ DOMAIN Append(q, x) = 1..(Len(q) + 1) /\ DOMAIN q = 1..Len(q) /\ Len(q) \in Nat
      /\ \A i \in 1..Len(q) : Append(q, x)[i] = q[i]
      /\ Append(q, x)[Len(q) + 1] = x
  OBVIOUS
<1>2. QED
  BY <1>1 DEF ToSet

\* Every step keeps the list in order.
LEMMA OfferStep == HotTypeOK /\ OfferInv /\ [HotNext]_hotVars => OfferInv'
<1> SUFFICES ASSUME HotTypeOK, OfferInv, [HotNext]_hotVars PROVE OfferInv'
  OBVIOUS
<1>1. CASE UNCHANGED <<list, steady, upstream>>
  <2>1. \A t \in steady' : upstream'[t] = "found"
    BY <1>1 DEF OfferInv
  <2>2. QED
    BY <1>1, <2>1, FewerSteady
<1>2. CASE StartList
  <2>1. /\ steady' = {t \in Composites : counts[t] > 0 /\ upstream[t] = "found"} \ disabled
        /\ upstream' = upstream
    BY <1>2 DEF StartList
  <2>2. /\ list'.out = <<>> /\ list'.ranked = RankedKeys /\ list'.next = 1
        /\ list'.disabled = disabled /\ list'.answer = "none"
    BY <1>2, Started
  <2>3. counts \in [Composites -> Nat]
    BY HotAssumption DEF HotTypeOK
  <2>4. /\ RankedKeys \in Seq(Composites)
        /\ \A t \in Called : \E i \in 1..Len(RankedKeys) : RankedKeys[i] = t
    BY <2>3, RankingIsComplete
  <2>5. steady' \subseteq Called \ disabled
    BY <2>1 DEF Called
  <2>6. steady' \subseteq ToSet(list'.ranked) \ list'.disabled
    BY <2>2, <2>4, <2>5 DEF ToSet
  <2>7. \A i \in 1..Len(list'.ranked) : ~(i < list'.next)
    BY <2>2
  <2>8. ToSet(list'.out) = {}
    BY <2>2 DEF ToSet
  <2>9. QED
    BY <2>1, <2>2, <2>6, <2>7, <2>8 DEF OfferInv
<1>3. CASE LookUp
  <2> DEFINE t == list.ranked[list.next]
  <2>1. /\ list # NoList /\ t \in Composites /\ list.answer = "none" /\ list'.out = list.out
        /\ list'.ranked = list.ranked /\ list'.disabled = list.disabled
        /\ \/ t \in list.disabled /\ list'.next = list.next + 1 /\ list'.answer = "none"
           \/ t \notin list.disabled /\ list'.next = list.next /\ list'.answer = upstream[t]
    BY <1>3, LookedUp
  <2>2. steady' = steady /\ upstream' = upstream
    BY <1>3 DEF LookUp
  <2>3. list.next \in Nat /\ Len(list.ranked) \in Nat
    BY <2>1, InProgress
  <2>4. /\ steady' \subseteq ToSet(list'.ranked) \ list'.disabled
        /\ \A s \in steady' : upstream'[s] = "found"
    BY <2>1, <2>2 DEF OfferInv
  <2>5. list'.answer \in {"missing", "error"} => list'.ranked[list'.next] \notin steady'
    BY <2>1, <2>2 DEF OfferInv
  <2>6. ASSUME NEW i \in 1..Len(list'.ranked), i < list'.next, list'.ranked[i] \in steady'
        PROVE  list'.ranked[i] \in ToSet(list'.out)
    <3>1. list.ranked[i] \in steady /\ list.ranked[i] \notin list.disabled
      BY <2>1, <2>2, <2>6 DEF OfferInv
    <3>2. i # list.next \/ list'.next = list.next
      BY <2>1, <3>1
    <3>3. i < list.next
      BY <2>1, <2>3, <2>6, <3>2
    <3>4. QED
      BY <2>1, <3>1, <3>3 DEF OfferInv
  <2>7. ASSUME NEW s \in ToSet(list'.out)
        PROVE  \E i \in 1..Len(list'.ranked) : i < list'.next /\ list'.ranked[i] = s
    <3>1. PICK i \in 1..Len(list.ranked) : i < list.next /\ list.ranked[i] = s
      BY <2>1 DEF OfferInv
    <3>2. QED
      BY <2>1, <2>3, <3>1
  <2>8. QED
    BY <2>4, <2>5, <2>6, <2>7 DEF OfferInv
<1>4. CASE TakeAnswer
  <2> DEFINE t == list.ranked[list.next]
  <2>1. /\ list # NoList /\ t \in Composites
        /\ list'.next = list.next + 1 /\ list'.answer = "none"
        /\ list'.ranked = list.ranked /\ list'.disabled = list.disabled
        /\ list'.out = IF list.answer = "found" THEN Append(list.out, t) ELSE list.out
    BY <1>4, AnswerTaken
  <2>2. /\ steady' = steady /\ upstream' = upstream
        /\ list.answer \in Outcomes \union {"none"} /\ list.answer # "none"
    BY <1>4, <2>1, InProgress DEF TakeAnswer, List
  <2>3. /\ list.next \in 1..Len(list.ranked) /\ Len(list.ranked) \in Nat
        /\ list.out \in Seq(Composites)
    BY <1>4, <2>1, InProgress DEF TakeAnswer
  <2>4. ToSet(list'.out) = IF list.answer = "found" THEN ToSet(list.out) \union {t} ELSE ToSet(list.out)
    <3>1. ToSet(Append(list.out, t)) = ToSet(list.out) \union {t}
      BY <2>1, <2>3, AppendedSet
    <3>2. QED
      BY <2>1, <3>1
  <2>5. /\ steady' \subseteq ToSet(list'.ranked) \ list'.disabled
        /\ \A s \in steady' : upstream'[s] = "found"
    BY <2>1, <2>2 DEF OfferInv
  <2>6. ASSUME NEW i \in 1..Len(list'.ranked), i < list'.next, list'.ranked[i] \in steady'
        PROVE  list'.ranked[i] \in ToSet(list'.out)
    <3>1. CASE i < list.next
      BY <2>1, <2>2, <2>4, <2>6, <3>1 DEF OfferInv
    <3>2. CASE i = list.next
      <4>1. list.answer = "found"
        BY <2>1, <2>2, <2>6, <3>2 DEF OfferInv, Outcomes
      <4>2. QED
        BY <2>1, <2>4, <3>2, <4>1
    <3>3. QED
      BY <2>1, <2>3, <2>6, <3>1, <3>2
  <2>7. ASSUME NEW s \in ToSet(list'.out)
        PROVE  \E i \in 1..Len(list'.ranked) : i < list'.next /\ list'.ranked[i] = s
    <3>1. CASE s \in ToSet(list.out)
      <4>1. PICK i \in 1..Len(list.ranked) : i < list.next /\ list.ranked[i] = s
        BY <2>1, <3>1 DEF OfferInv
      <4>2. QED
        BY <2>1, <2>3, <4>1
    <3>2. CASE s = t
      BY <2>1, <2>3, <3>2
    <3>3. QED
      BY <2>4, <3>1, <3>2
  <2>8. QED
    BY <2>1, <2>5, <2>6, <2>7 DEF OfferInv
<1>5. CASE FinishList
  <2>1. list' = NoList /\ steady' = steady /\ upstream' = upstream
    BY <1>5 DEF FinishList
  <2>2. QED
    BY <2>1 DEF OfferInv
<1>6. CASE LookUpCall \/ TakeCallAnswer \/ FinishCall \/ \E t \in Composites : CallShortcut(t) \/ CallTool(t)
  BY <1>1, <1>6, CallSteps
<1>7. ASSUME NEW t \in Composites, EditPolicy(t) PROVE OfferInv'
  BY <1>1, <1>7 DEF EditPolicy
<1>8. ASSUME NEW t \in Composites, NEW o \in Outcomes, UpstreamChanges(t, o) PROVE OfferInv'
  <2>1. list' = list /\ steady' = steady \ {t} /\ upstream' = [upstream EXCEPT ![t] = o]
        /\ upstream \in [Composites -> Outcomes] /\ steady \in SUBSET Composites
    BY <1>8 DEF UpstreamChanges, HotTypeOK
  <2>2. \A s \in steady' : upstream'[s] = "found"
    BY <2>1 DEF OfferInv
  <2>3. QED
    BY <2>1, <2>2, FewerSteady
<1>9. CASE UNCHANGED hotVars
  BY <1>1, <1>9 DEF hotVars
<1>10. QED
  BY <1>2, <1>3, <1>4, <1>5, <1>6, <1>7, <1>8, <1>9 DEF HotNext

LEMMA HotInvariant == HotSpec => []HotInv
<1>1. HotInit => HotInv
  <2> SUFFICES ASSUME HotInit PROVE HotInv
    OBVIOUS
  <2>1. HotTypeOK
    BY HotAssumption DEF HotInit, HotTypeOK, Outcomes
  <2>2. GoneInv
    BY DEF HotInit, GoneInv
  <2>3. OfferInv
    BY DEF HotInit, OfferInv
  <2>4. QED
    BY <2>1, <2>2, <2>3 DEF HotInv
<1>2. HotInv /\ [HotNext]_hotVars => HotInv'
  BY HotTypeStep, GoneStep, OfferStep DEF HotInv
<1>3. QED
  BY <1>1, <1>2, PTL DEF HotSpec

\* Types of the shortcuts' state; a list keeps to its slots.
THEOREM ShortcutsTypeCorrect == HotSpec => []HotTypeOK
<1>1. HotInv => HotTypeOK
  BY DEF HotInv
<1>2. QED
  BY HotInvariant, <1>1, PTL

\* _verified_hot_tools and _as_hot_call_tool_args prune a tool only when it was
\* missing: a flaky upstream never costs it its count.
THEOREM OutagesCostNoCount == HotSpec => OutageKeepsCount
<1>1. ASSUME HotInv, HotNext, NEW t \in Composites, t \notin gone PROVE counts'[t] >= counts[t]
  <2>0. HotTypeOK /\ GoneInv /\ MaxCount \in Nat /\ counts \in [Composites -> 0..MaxCount]
    BY <1>1, HotAssumption DEF HotInv, HotTypeOK
  <2>1. CASE UNCHANGED counts
    BY <2>0, <2>1
  <2>2. ASSUME NEW s \in gone, counts' = [counts EXCEPT ![s] = 0] PROVE counts'[t] >= counts[t]
    BY <1>1, <2>0, <2>2
  <2>3. CASE StartList \/ LookUp \/ FinishList \/ LookUpCall
    BY <2>1, <2>3 DEF StartList, LookUp, FinishList, LookUpCall
  <2>4. ASSUME NEW s \in Composites, CallShortcut(s) \/ CallTool(s) \/ EditPolicy(s)
        PROVE  counts'[t] >= counts[t]
    BY <2>1, <2>4 DEF CallShortcut, CallTool, EditPolicy
  <2>5. ASSUME NEW s \in Composites, NEW o \in Outcomes, UpstreamChanges(s, o)
        PROVE  counts'[t] >= counts[t]
    BY <2>1, <2>5 DEF UpstreamChanges
  <2>6. CASE TakeAnswer
    <3>1. /\ list # NoList
          /\ counts' = IF list.answer = "missing" THEN [counts EXCEPT ![list.ranked[list.next]] = 0]
                       ELSE counts
      BY <2>0, <2>6, AnswerTaken
    <3>2. QED
      BY <2>0, <2>1, <2>2, <3>1 DEF GoneInv
  <2>7. CASE TakeCallAnswer
    <3>1. call # NoCall /\ counts' = IF call.answer = "missing" THEN [counts EXCEPT ![call.tool] = 0]
                                     ELSE counts
      BY <2>7 DEF TakeCallAnswer, Pruned
    <3>2. QED
      BY <2>0, <2>1, <2>2, <3>1 DEF GoneInv
  <2>8. CASE FinishCall
    <3>1. call.tool \in Composites
      BY <2>0, <2>8, InProgress DEF FinishCall
    <3>2. \/ counts' = Counted(call.tool)
          \/ upstream[call.tool] = "missing" /\ counts' = [counts EXCEPT ![call.tool] = 0]
          \/ UNCHANGED counts
      BY <2>8 DEF FinishCall, Pruned
    <3>3. ASSUME counts' = Counted(call.tool) PROVE counts'[t] >= counts[t]
      BY <2>0, <3>1, <3>3 DEF Counted
    <3>4. QED
      BY <2>0, <2>1, <2>2, <3>1, <3>2, <3>3 DEF GoneInv
  <2>9. QED
    BY <1>1, <2>3, <2>4, <2>5, <2>6, <2>7, <2>8 DEF HotNext
<1>2. ASSUME HotInv, UNCHANGED hotVars, NEW t \in Composites PROVE counts'[t] >= counts[t]
  <2>1. counts'[t] = counts[t] /\ counts[t] \in Int
    BY <1>2, HotAssumption DEF HotInv, HotTypeOK, hotVars
  <2>2. QED
    BY <2>1
<1>3. HotInv /\ [HotNext]_hotVars =>
        [\A t \in Composites : t \notin gone => counts'[t] >= counts[t]]_hotVars
  BY <1>1, <1>2
<1>4. QED
  BY HotInvariant, <1>3, PTL DEF HotSpec, OutageKeepsCount

\* _verified_hot_tools fills its slots from the top of the ranking.
THEOREM ListsOfferMostPopular == HotSpec => OffersMostPopular
<1>1. ASSUME HotInv, FinishList, NEW t \in steady \ offered'
      PROVE  /\ Len(list.out) = Slots
             /\ \A other \in offered' : \E i, j \in 1..Len(list.ranked) :
                  i < j /\ list.ranked[i] = other /\ list.ranked[j] = t
  <2>1. list # NoList /\ ~MoreToList /\ offered' = ToSet(list.out)
    BY <1>1 DEF FinishList
  <2>2. /\ list.next \in Nat /\ Len(list.ranked) \in Nat /\ Len(list.out) \in Nat
        /\ Slots \in Nat /\ Len(list.out) <= Slots /\ list.ranked \in Seq(Composites)
    BY <1>1, <2>1, InProgress, HotAssumption DEF HotInv, HotTypeOK
  <2>3. PICK j \in 1..Len(list.ranked) : list.ranked[j] = t
    BY <1>1, <2>1, <2>2 DEF HotInv, OfferInv, ToSet
  <2>4. ~(j < list.next)
    BY <1>1, <2>1, <2>3 DEF HotInv, OfferInv
  <2>5. Len(list.out) = Slots
    BY <2>1, <2>2, <2>3, <2>4 DEF MoreToList
  <2>6. ASSUME NEW other \in offered'
        PROVE  \E i \in 1..Len(list.ranked) : i < j /\ list.ranked[i] = other
    <3>1. PICK i \in 1..Len(list.ranked) : i < list.next /\ list.ranked[i] = other
      BY <1>1, <2>1, <2>6 DEF HotInv, OfferInv
    <3>2. QED
      BY <2>2, <2>4, <3>1
  <2>7. QED
    BY <2>3, <2>5, <2>6
<1>2. HotInv /\ [HotNext]_hotVars =>
        [FinishList =>
           \A t \in steady \ offered' :
             /\ Len(list.out) = Slots
             /\ \A other \in offered' : \E i, j \in 1..Len(list.ranked) :
                  i < j /\ list.ranked[i] = other /\ list.ranked[j] = t]_hotVars
  BY <1>1, Zenon
<1>3. QED
  BY HotInvariant, <1>2, PTL DEF HotSpec, OffersMostPopular
=============================================================================
