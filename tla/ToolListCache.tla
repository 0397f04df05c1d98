---------------------------- MODULE ToolListCache ----------------------------
(***************************************************************************)
(* The TTL cache of upstream tool lists (upstream_tool_cache.py) with the  *)
(* discovery flow that fills it (_list_upstream_tools_cached in            *)
(* proxy_mcp.py) and the handlers that change what it caches: config       *)
(* edits, package installs and removals.                                   *)
(*                                                                         *)
(* A discovery reads the server's record, looks in the cache and, on a     *)
(* miss, opens a session to the upstream.  It is suspended between these   *)
(* steps and between the upstream's answer and put (the session is closed  *)
(* in between), so every other handler may run there.                      *)
(***************************************************************************)
EXTENDS Naturals, FiniteSets

CONSTANTS
  Servers,      \* server ids
  Configs,      \* config records, told apart by server_fingerprint
  Tasks,        \* discoveries that may be in flight at once
  TTL,          \* tool_list_cache_ttl_s; 0 disables the cache
  Timeout,      \* upstream_timeout_s
  MaxEntries,   \* capacity of the cache
  NoConfig,     \* the server is not in servers.json
  NoEntry,      \* nothing cached under an id
  NoTask,       \* the task is free
  MaxTime,      \* bound: ticks of the clock
  MaxInstalls   \* bound: installs end once a server has had this many

ASSUME ToolListAssumption ==
  /\ TTL \in Nat /\ Timeout \in Nat /\ MaxTime \in Nat /\ MaxInstalls \in Nat
  /\ MaxEntries \in Nat \ {0}
  /\ NoConfig \notin Configs

\* The tools an upstream lists follow from its config and the installed package.
Tools == [config : Configs, version : Nat]

Entry == [fp : Configs, at : Nat, tools : Tools, readAt : Nat]

Task == [server : Servers, fp : Configs, started : Nat, phase : {"queued", "fetching"}]

Answer == [server : Servers, fp : Configs, started : Nat,
           phase : {"read", "done"}, tools : Tools, readAt : Nat, hit : BOOLEAN]

ASSUME SentinelAssumption == NoEntry \notin Entry /\ NoTask \notin Task \union Answer

VARIABLES
  now,        \* time.monotonic
  config,     \* servers.json
  version,    \* the package on disk: installs finished so far
  installed,  \* history: when the package last changed
  committed,  \* the version whose install handler has stored its result
  entries,    \* UpstreamToolListCache._entries
  order,      \* its keys as the dict iterates over them: pairs, the earlier one first
  task        \* discoveries in flight, and answered ones

vars == <<now, config, version, installed, committed, entries, order, task>>

Cached == {s \in Servers : entries[s] # NoEntry}

\* ord is a strict total order of the keys.
Orders(ord, keys) ==
  /\ ord \subseteq keys \X keys
  /\ \A a \in keys : <<a, a>> \notin ord
  /\ \A a, b \in keys : a = b \/ <<a, b>> \in ord \/ <<b, a>> \in ord
  /\ \A a, b, c \in keys : <<a, b>> \in ord /\ <<b, c>> \in ord => <<a, c>> \in ord

TypeOK ==
  /\ now \in Nat
  /\ config \in [Servers -> Configs \union {NoConfig}]
  /\ version \in [Servers -> Nat]
  /\ installed \in [Servers -> Nat]
  /\ committed \in [Servers -> Nat]
  /\ entries \in [Servers -> Entry \union {NoEntry}]
  /\ Orders(order, Cached)
  /\ task \in [Tasks -> Task \union Answer \union {NoTask}]

Init ==
  /\ now = 0
  /\ config \in [Servers -> Configs]
  /\ version = [s \in Servers |-> 0]
  /\ installed = [s \in Servers |-> 0]
  /\ committed = [s \in Servers |-> 0]
  /\ entries = [s \in Servers |-> NoEntry]
  /\ order = {}
  /\ task = [t \in Tasks |-> NoTask]

Enabled == TTL > 0

\* A discovery is under way: it holds a deadline.
InFlight(t) == task[t] # NoTask /\ task[t].phase # "done"

\* Key s leaves a dict's order, and its place is gone.
Without(ord, s) == {pair \in ord : pair[1] # s /\ pair[2] # s}

Invalidate(s) ==
  /\ entries' = [entries EXCEPT ![s] = NoEntry]
  /\ order' = Without(order, s)

\* Task k with a tool list in hand.
WithTools(k, phase, tools, readAt, hit) ==
  [server |-> k.server, fp |-> k.fp, started |-> k.started,
   phase |-> phase, tools |-> tools, readAt |-> readAt, hit |-> hit]

-----------------------------------------------------------------------------
(***************************************************************************)
(* One discovery of one server.                                            *)
(***************************************************************************)

\* store.list_servers() or store.get(): the task keeps this record to the end.
Begin(t, s) ==
  /\ ~InFlight(t)
  /\ config[s] # NoConfig
  /\ task' = [task EXCEPT ![t] = [server |-> s, fp |-> config[s], started |-> now,
                                  phase |-> "queued"]]
  /\ UNCHANGED <<now, config, version, installed, committed, entries, order>>

\* Mutant of Live: an entry is served up to and including its TTL.
MutLive(k) ==
  /\ Enabled
  /\ entries[k.server] # NoEntry
  /\ entries[k.server].fp = k.fp
  /\ now <= entries[k.server].at + TTL

\* The entry matches the record and has not reached its TTL.
Live(k) ==
  /\ Enabled
  /\ entries[k.server] # NoEntry
  /\ entries[k.server].fp = k.fp
  /\ now < entries[k.server].at + TTL

\* UpstreamToolListCache.get finds the list.
Hit(t) ==
  /\ InFlight(t) /\ task[t].phase = "queued"
  /\ Live(task[t])
  /\ LET e == entries[task[t].server]
     IN task' = [task EXCEPT ![t] = WithTools(@, "done", e.tools, e.readAt, TRUE)]
  /\ UNCHANGED <<now, config, version, installed, committed, entries, order>>

\* get finds nothing, another config's entry, or an expired one it deletes.
Miss(t) ==
  /\ InFlight(t) /\ task[t].phase = "queued"
  /\ ~Live(task[t])
  /\ task' = [task EXCEPT ![t].phase = "fetching"]
  /\ LET s == task[t].server
     IN IF Enabled /\ entries[s] # NoEntry /\ entries[s].fp = task[t].fp
          THEN Invalidate(s)
          ELSE UNCHANGED <<entries, order>>
  /\ UNCHANGED <<now, config, version, installed, committed>>

\* Mutant of ReadUpstream: the session is opened with the record as it is now.
MutReadUpstream(t) ==
  /\ InFlight(t) /\ task[t].phase = "fetching"
  /\ LET s == task[t].server
         tools == [config |-> config[s], version |-> version[s]]
     IN task' = [task EXCEPT ![t] = WithTools(@, "read", tools, now, FALSE)]
  /\ UNCHANGED <<now, config, version, installed, committed, entries, order>>

\* The upstream answers tools/list; the session is still to be closed.
ReadUpstream(t) ==
  /\ InFlight(t) /\ task[t].phase = "fetching"
  /\ LET tools == [config |-> task[t].fp, version |-> version[task[t].server]]
     IN task' = [task EXCEPT ![t] = WithTools(@, "read", tools, now, FALSE)]
  /\ UNCHANGED <<now, config, version, installed, committed, entries, order>>

\* Assignment to a key of a dict: a new key becomes the last one, a key that is
\* there already keeps its place.
Placed(s) == IF s \in Cached THEN order ELSE order \union (Cached \X {s})

\* Mutant of Precedes: of two entries of one time the last one is taken.
MutPrecedes(es, ord, a, b) ==
  es[a].at < es[b].at \/ (es[a].at = es[b].at /\ <<b, a>> \in ord)

\* min() takes the entry stored longest ago, of several the first of the dict.
Precedes(es, ord, a, b) ==
  es[a].at < es[b].at \/ (es[a].at = es[b].at /\ <<a, b>> \in ord)

\* put stores the list, then drops the oldest of all entries past the capacity.
\* One turn of its loop is enough: CacheBounded.
Put(s, e) ==
  LET stored == [entries EXCEPT ![s] = e]
      keys   == Cached \union {s}
  IN IF ~Enabled THEN UNCHANGED <<entries, order>>
     ELSE IF Cardinality(keys) <= MaxEntries THEN entries' = stored /\ order' = Placed(s)
     ELSE \E oldest \in keys :
            /\ \A k \in keys \ {oldest} : Precedes(stored, Placed(s), oldest, k)
            /\ entries' = [stored EXCEPT ![oldest] = NoEntry]
            /\ order' = Without(Placed(s), oldest)

\* Mutant of PutTools: the fingerprint is taken from the record as it is now.
MutPutTools(t) ==
  /\ InFlight(t) /\ task[t].phase = "read"
  /\ config[task[t].server] # NoConfig
  /\ Put(task[t].server, [fp |-> config[task[t].server], at |-> now,
                          tools |-> task[t].tools, readAt |-> task[t].readAt])
  /\ task' = [task EXCEPT ![t].phase = "done"]
  /\ UNCHANGED <<now, config, version, installed, committed>>

\* The session is closed, the list is stored and returned.
PutTools(t) ==
  /\ InFlight(t) /\ task[t].phase = "read"
  /\ Put(task[t].server, [fp |-> task[t].fp, at |-> now, tools |-> task[t].tools,
                          readAt |-> task[t].readAt])
  /\ task' = [task EXCEPT ![t].phase = "done"]
  /\ UNCHANGED <<now, config, version, installed, committed>>

\* Any exception of the fetch, its own timeout included.
FetchError(t) ==
  /\ InFlight(t) /\ task[t].phase \in {"fetching", "read"}
  /\ Invalidate(task[t].server)
  /\ task' = [task EXCEPT ![t] = NoTask]
  /\ UNCHANGED <<now, config, version, installed, committed>>

\* The shared deadline of a fan-out, or the client, cancels the task: a
\* cancellation is not an Exception and leaves the cache alone.
Cancelled(t) ==
  /\ InFlight(t)
  /\ task' = [task EXCEPT ![t] = NoTask]
  /\ UNCHANGED <<now, config, version, installed, committed, entries, order>>

-----------------------------------------------------------------------------
(***************************************************************************)
(* What changes the lists.                                                 *)
(***************************************************************************)

\* POST and PUT /servers, setServerEnabled: no invalidation, the fingerprint
\* is to do the work.
EditConfig(s, c) ==
  /\ c # config[s]
  /\ config' = [config EXCEPT ![s] = c]
  /\ UNCHANGED <<now, version, installed, committed, entries, order, task>>

\* DELETE /servers/{id}, removeServer.
RemoveServer(s) ==
  /\ config[s] # NoConfig
  /\ config' = [config EXCEPT ![s] = NoConfig]
  /\ Invalidate(s)
  /\ UNCHANGED <<now, version, installed, committed, task>>

\* pip or npm, in a worker thread, has replaced the package on disk.
InstallPackage(s) ==
  /\ \A i \in Servers : version[i] < MaxInstalls
  /\ version' = [version EXCEPT ![s] = @ + 1]
  /\ installed' = [installed EXCEPT ![s] = now]
  /\ UNCHANGED <<now, config, committed, entries, order, task>>

\* The handler that awaited it stores the command, new or the same, and
\* invalidates.  A failed install never gets here.
CommitInstall(s, c) ==
  /\ committed[s] < version[s]
  /\ config' = [config EXCEPT ![s] = c]
  /\ committed' = [committed EXCEPT ![s] = version[s]]
  /\ Invalidate(s)
  /\ UNCHANGED <<now, version, installed, task>>

\* No discovery outlives its deadline: fail_after and move_on_after.
Tick ==
  /\ now < MaxTime
  /\ \A t \in Tasks : InFlight(t) => now < task[t].started + Timeout
  /\ now' = now + 1
  /\ UNCHANGED <<config, version, installed, committed, entries, order, task>>

Next ==
  \/ \E t \in Tasks, s \in Servers : Begin(t, s)
  \/ \E t \in Tasks : \/ Hit(t) \/ Miss(t) \/ ReadUpstream(t) \/ PutTools(t)
                      \/ FetchError(t) \/ Cancelled(t)
  \/ \E s \in Servers : RemoveServer(s) \/ InstallPackage(s)
  \/ \E s \in Servers, c \in Configs : EditConfig(s, c) \/ CommitInstall(s, c)
  \/ Tick

Spec == Init /\ [][Next]_vars

-----------------------------------------------------------------------------
(***************************************************************************)
(* Properties.                                                             *)
(***************************************************************************)

\* This step answers the discovery of task t.
Answers(t) == InFlight(t) /\ task'[t] # NoTask /\ task'[t].phase = "done"

\* A discovery is answered with tools listed under the very config record it
\* read, however config edits interleave with fetches that fill the cache late
\* (upstream_tool_cache.get and put compare and store fingerprints).
AnswerMatchesConfig ==
  [][\A t \in Tasks : Answers(t) => task'[t].tools.config = task[t].fp]_vars

\* An outdated package's tools disappear in bounded time: an answer that lists
\* them is given within TTL + Timeout of the install when it comes from the cache
\* and within Timeout when it was fetched.
StaleIsBounded ==
  [][\A t \in Tasks : LET k == task'[t] IN
       /\ Answers(t)
       /\ k.tools.version # version[k.server]
       => IF k.hit THEN now < installed[k.server] + TTL + Timeout
                   ELSE now <= installed[k.server] + Timeout]_vars

\* The cache stays within max_entries, whatever mix of stores, errors and
\* invalidations filled it, and a disabled cache stays empty.
CacheBounded ==
  /\ Cardinality(Cached) <= MaxEntries
  /\ Enabled \/ Cached = {}

\* The list just stored is kept, although put chooses among all entries: the
\* eviction falls on an older one even when the clock has not moved between two
\* stores, so a full cache still serves the servers that are asked for.
PutIsKept ==
  [][\A t \in Tasks : Enabled /\ PutTools(t) => entries'[task[t].server] # NoEntry]_vars

-----------------------------------------------------------------------------
(***************************************************************************)
(* The inductive invariant behind the bounds.                              *)
(***************************************************************************)

\* What is known of a list read at time 'readAt' for server s with record fp.
ListInv(s, fp, tools, readAt) ==
  /\ tools.config = fp
  /\ readAt <= now
  /\ tools.version # version[s] => readAt <= installed[s]

\* Lists are stored within the deadline of the fetch that read them, and no
\* entry is newer than the clock.
EntriesInv ==
  \A s \in Servers : entries[s] # NoEntry =>
    /\ ListInv(s, entries[s].fp, entries[s].tools, entries[s].readAt)
    /\ entries[s].at <= entries[s].readAt + Timeout
    /\ entries[s].at <= now

\* A discovery is within its deadline; what it has read it read since it started.
TasksInv ==
  \A t \in Tasks : InFlight(t) =>
    /\ task[t].started <= now
    /\ now <= task[t].started + Timeout
    /\ task[t].phase = "read" =>
         /\ ListInv(task[t].server, task[t].fp, task[t].tools, task[t].readAt)
         /\ task[t].started <= task[t].readAt
         /\ task[t].hit = FALSE

ToolListInv == TypeOK /\ EntriesInv /\ TasksInv
=============================================================================
