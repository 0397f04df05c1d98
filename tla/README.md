# A TLA+ model of mcp-proxy-server

mcp-proxy-server is a Python process that stands between MCP clients (LLM agents)
and any number of upstream MCP servers. Clients speak MCP over HTTP at `/mcp`;
administrators use a REST API under `/api` or, with the right to do so, admin tools
on `/mcp` itself. All request handling shares one asyncio event loop; package
installs and the debounced write of statistics run in threads. State lives in a few
JSON files under the data directory and in dictionaries in memory.

Beside it, as a package of its own, lives a news MCP server, which the proxy starts as
a stdio upstream and whose digests it also refreshes itself.

Source paths below are relative to `src/src/mcp_proxy/`; `news:` stands for
`src/servers/mcp-news-server/src/mcp_news_server/`.

## 1. Inventory

| Component | State | Operations | What is hard | What makes it correct |
|---|---|---|---|---|
| JSON stores (`json_file_cache.py`, `config_store.py`, `client_store.py`, `domain_store.py`) | a file, its parsed document cached under a stat signature, a lock | get, add, update, update_fields, remove | edits between stat and parse, OSErrors in a write, crashes between tmp file and replace | a reader sees a document the file held during the call; a write is all or nothing |
| MCP sessions (`live_streamable_http_session_manager.py`, `mcp_live_tracker_middleware.py`, `security.py`, identity slot in `live_mcp_tracker.py`, admin gate in `proxy_mcp.py`) | registered transports, one identity slot per session, the creation lock, request ContextVars | open, call, DELETE; bind, authorize, route; read the slot, pass the gate | the tool handler does not run in the request's task; requests of a session share the slot; sessions end while requests are in them | handlers act on current rights; admin tools run only by grant; dead sessions disappear; nobody waits for ever |
| Administration (`api/servers.py`, `api/domains.py`, `stdio_package_meta.py`, admin tools) | servers.json, domains.json, stdio-packages.json | add, update, remove, enable, register, upgrade; create and delete a domain | an install is awaited for minutes between checks and writes | no edit is lost; references between the documents hold |
| Tool-list cache (`upstream_tool_cache.py`, discovery in `proxy_mcp.py`) | list, fingerprint and time per server | get, put, invalidate | fetches overtaken by edits, removals and installs | an answer fits the record it was asked for; outdated lists go away; bounded size |
| Login limiter (`rate_limit.py`, `api/auth.py`) | attempts, streaks and lockouts per address | hit, record_failure, record_success, prune | time boundaries, pruning inside another address's attempt | the window and every lockout hold; Retry-After suffices; lockouts grow |
| Tool-call statistics (`tool_call_stats.py`) | counters, dirty flag, timer, file | record, remove, rank, flush, load | a timer thread, refused writes, crashes | clean means saved; a write is pending or was refused; the cap drops the least called |
| Popular shortcuts (`proxy_mcp.py`) | none of its own | tools/list, tools/call on a shortcut | counts, policies and upstreams change between the lookups of one list | outages cost no count; the most popular are offered |
| Response pagination (`tool_response_cache.py`, `tool_response_pagination.py`, callTool in `proxy_mcp.py`) | cached responses with owner and time, in LRU order | split, store, serve a page, expire, evict | eviction, expiry and edited limits between pages; fields in four places; upstream parameters of the same name; foreign ids | whoever follows the hints gets the whole text or an honest miss, and only its own |
| Live call tracking (`live_mcp_tracker.py`) | open and recent calls | begin, end, snapshot | none: one lock, read by a status page | not modelled |
| Installers (`cancellable_proc.py`, `npm_install.py`, `pypi_venv.py`, `_install_in_thread`) | a child with its process group, a watcher thread, a cancel event, a venv | run, cancel, time out, next stage | exit, timeout and cancel at once; helpers that outlive the child; a stage of several failing | success means every stage; killed groups are gone; a cancel ends the install |
| Tool names, discovery search | none | pure functions | round trips of three spellings | not modelled, but that spellings of one tool exist |
| News server and refresher (`news:store.py`, `news:feed_migrations.py`, `news:digest_cache.py`, `news:server.py`, `news_digest_refresher.py`) | feeds.yaml with the ids of applied migrations; digest files and their copies in memory; a thread lock and a task lock per process | load, add, remove, migrate; refresh one digest or all; start, stop | two processes over one directory, threads that outlive their cancelled task, I/O errors, hand edits | one-shot migrations leave the user's edits alone; an outage never empties a digest; the lock is always left |

Interactions. A `/mcp` request passes, from the outside in, the client audit, CORS,
session cookie, live tracker, auth enforcement and path normalisation middlewares and
reaches the session manager, which hands the message to the session's loop. The
handler there reads the client store's record through the identity slot, reads
servers.json through its store, lists upstream tools through the tool-list cache and
counts calls in the statistics, from which the shortcuts of the next `tools/list` are
drawn. Administration writes the documents and invalidates the tool-list cache after
installs and removals; `PUT /servers/{id}` does not invalidate it, the fingerprint in
the cache is to tell records apart. `app.py` wires the session manager in stateful
mode and without an idle timeout. An upstream's answer to `callTool` passes the
pagination with the limits of the client's record; its later pages come from the
response cache without the upstream. Installs run in worker threads: those asked for
on `/mcp` can be cancelled with their request, those of the REST API cannot. The
refresher is a task of the proxy that uses the news package's store and digest cache
on the same directory as the news server process.

`PROJECT.json` lists all components with the reason for every one left out, and
every hazard at the line where it bites.

## 2. Modules

| Module | Models | A step is |
|---|---|---|
| `AtomicStore` | what a JSON store promises: one legal operation at a time on a map | an operation |
| `JsonStore` | one of the three stores with its `MtimeJsonCache` | stat; parse or hit; mutate; write the tmp file; replace; invalidate; an OSError; a hand edit; a crash |
| `McpSession` | the path of a `/mcp` request and the stateful session | the code between two awaits of a request task, a handler or a session loop |
| `ServerRegistry` | the handlers over the three administrative documents | a handler without await, either of whose writes may fail; the start or the end of an install; a restart |
| `ToolListCache` | the cache and the discovery that fills it | begin, hit or miss, the upstream's answer, put, error, cancellation; edits, removals, installs; a tick |
| `LoginRateLimiter` | `POST /auth/login` over the limiter | an attempt; a tick |
| `ToolCallStats` | the write-behind counters | an operation under the store's lock, whose write may fail; crash, exit, a start that may fail to read |
| `HotTools` | shortcuts in tools/list and tools/call | a lookup, its answer, the start and the end of a list or call |
| `ResponsePages` | callTool from its arguments to its page, and the response cache | a call comes in; its schema is known and it is parsed, missed or served from the cache; the upstream answers; an edit of limits; a tick |
| `Installer` | `run_process` and the two installers over it | a step of the worker, the watcher, the child, a helper or the caller |
| `News` | the feed store, the digest cache, the news server's tools and the refresher | the read, a save and the return of a store operation; load, fetch, write and assignment of a digest; a call, its cancellation; start, whose reads may fail, stop and crash of a process |

`MC<Module>` gives the finite constants for TLC, `<Module>Proofs` holds theorems;
those of JsonStore and ToolCallStats share `StoreProofs`, those of ToolListCache and
HotTools `UpstreamToolProofs` (so the names the two have in common carry the prefix
`Stats` or `Hot`).
Definitions named `Mut...` are variants of the definition after them, each with one
plausible bug; they show that each property can fail and are used by no specification.

How state corresponds to code:

* **JsonStore**: `file` is what stat and read_text see; `cache` is `_sig` with
  `_value`, one document *shared* with whoever called get(), so `Mutate` changes
  `cache.doc`; `pc` is where the method that holds the store's lock is. The lock lets
  one method run at a time, so there is a single `pc`. `window` and `failedIds` are
  history. A document is a map from ids to records: the validators are idempotent, so
  writing and reading a validated record gives it back.
* **McpSession**: `pc`, `kind`, `cred`, `target`, `ctx` describe the HTTP task of a
  request (ContextVars are `ctx`); `running`, `seen`, `adminRun` its handler in the
  session's loop; `instances`, `terminated`, `slot`, `creationLock` the session
  manager. `epoch`, `grants` and `users` are history. `Bind` is one step because the
  middleware resolves the bearer and writes the slot without an await.
* **ServerRegistry**: a record keeps its domain, type, enabled flag and who determined
  its command. `servers` and `domains` are the documents the stores share with the
  handlers, `serversFile` and `domainsFile` the files: a write that raises (`Unwritten`)
  has changed the document only, the next write of that file stores the change, and
  `Restart`, at any time, goes back to the files. The metadata has no cached document.
  `job` is what a suspended handler remembers. `asked` (what administrators last
  requested, `askedSaved` when servers.json was last written), `late` (ids an install
  wrote to after their domain or server was gone), `torn` (ids whose metadata is not what
  the handler would have made it) and `undone` (ids whose removal, creation or move, or
  whose domain's creation, a restart lost) are history. The servers and the metadata are
  written one after the other: `MetaKept` is a second write that raises or is never
  reached, `RegisterManualFails` the same for the one handler that removes the metadata
  first, and the second disjunct of `SetMeta` a stdio-packages.json that cannot be read,
  whose other entries are lost.
* **ToolListCache**: the tools an upstream lists follow from its config and the
  version of the package on disk. `Tick` waits for the deadline of every discovery:
  that is what `fail_after` and `move_on_after` guarantee. `order` is the order in which
  the dict iterates over its keys: a new key comes last, a key stored again keeps its
  place, a removed one loses it. The eviction of `put` takes the minimum over all
  entries, the new one among them: the oldest, of equally old ones the first of the dict
  (`Precedes`).
* **LoginRateLimiter**: time in ticks, with `Second` ticks in a second so that the
  rounding of Retry-After matters. `tried`, `sentence`, `promise` are history.
* **ToolCallStats**, **HotTools**: tools are numbers in the order of their names,
  because ties are broken by name. A start that cannot read the file begins with no counts
  and clean; `misread` is history: it was so, and nothing has been written since. HotTools keeps counters below the cap; the place of a
  tool in the ranking is the number of tools before it.
* **ResponsePages**: `entries` is the cache's OrderedDict, `calls` the call in flight
  of each client with the limits it read on arrival (`eff`), `reader` what the client
  has put together. A character is known by response, block and place, so two texts
  are equal only if nothing was lost, repeated or mixed up. The pagination fields may
  stand beside `arguments` or inside, namespaced or bare; `Carried` is the precedence
  of `parse_call_tool_pagination`. `texts` and `used` are history. A response id stands
  for the random token.
* **Installer**: `group` is the child and one helper in its process group, `watch` the
  `_watch` thread, `job` the worker, `caller` the awaiting coroutine with the cancel
  event. Of a result only whether it is good is kept. Time is left out; the join of the
  watcher waits longer than the watcher's grace period, so it is modelled as waiting for
  it. `passed` is history.
* **News**: `file` is feeds.yaml, `disk` the digest files, `mem` DigestCache's payloads,
  `store` the operation that holds `_STORE_LOCK` with the saves still to come, `lock`
  the queue of DigestCache._lock, `threads` and `store.by = "nobody"` what
  `asyncio.to_thread` goes on doing for a cancelled task. A digest is the number of
  its fetch and its number of items; the curator's choice is never empty. A digest file that cannot
  be read at start counts as empty (`Loaded`). `asked`, `alone` and `unread` (digests the
  last process could not read and has not written since) are history.

The mcp library (transport, message loop), the HTTP client, somebody editing files
and the process dying are external and modelled from how the code uses or meets them.

## 3. Runs

| Run | Bounds | Shows |
|---|---|---|
| `JsonStore_atomic` | 2 ids, 2 records, 4 file versions, no hand edits, no OSErrors | every version of the file is the previous one with one legal operation applied, across crashes at every step of a write (`ImplementsAtomicStore`) |
| `JsonStore_confined` | the same with 3 versions, hand edits (two documents or a broken file) and OSErrors | a method works on a document the file held since it began, except under ids whose own write failed (`DivergenceConfined`) |
| `McpSession_identity` | 1 client with bearer or bearer and cookie, 1 session, 3 requests, 1 edit of the client, failing store | `PolicyIsFresh`, `OwnerSeesItself`, `AdminByGrant`, `RegisteredWhileAlive` with authentication on |
| `McpSession_auth_off` | 1 client or no bearer, 2 sessions, 2 requests, authentication off, fair | `AdminByGrant` without authentication; `RequestsAnswered`, `DeletedSessionsEnd` |
| `ServerRegistry_edits` | 1 server, 2 domains, 2 installs from REST or `/mcp`; restarts and failed writes of any file at every step | `EditsSurviveUpgrades`, `DanglingHasCause`. What the loss of other servers' metadata does is left to the theorems, which hold for any number of servers |
| `ToolListCache_discovery` | 2 servers, 2 configs, 2 discoveries, room for 1 list, TTL 2, timeout 1, clock to 3, 1 install | `AnswerMatchesConfig`, `StaleIsBounded`, `PutIsKept` |
| `LoginRateLimiter_window` | 2 addresses, 2 attempts in 4 ticks, lockouts of 1, 2, 4, 6 or of 4, 6, reset after 5, 2 ticks a second, clock to 15 | `WindowHolds`, `LockoutHolds`, `RetryAfterIsHonest`, `LockoutEscalates` |
| `ToolCallStats_write_behind` | 3 tools, cap 2, 3 calls each, refused writes, failed reads at start, fair | `CleanMeansSaved`, `WritePending`, `CapDropsLeastPopular`, `CountsReachFile` |
| `HotTools_ranking` | 2 tools, 1 slot, 2 calls each | `OutageKeepsCount`, `OffersMostPopular` |
| `ResponsePages_hint` | 2 clients, 2 tools (one declares two of the field names), room for 2 responses of 5 characters, 4 settings of the limits, TTL 1, clock to 2, 3 new calls, stray calls or edits | `HintLeadsToWholeText`, `PagesStayWithOwner`, `MissIsHonest`, `ReadingAdvances` |
| `Installer_cancel` | each kind of install from each caller, and two PyPI installs into one venv; 1 helper per child; fair threads | `OkMeansEveryStage`, `KilledGroupsAreDead`, `CancelEndsInstall` |
| `News_digests` | 2 processes, 2 digests, 3 urls (one replaced by one that is switched off, one supplemental), 2 refreshes, 2 events (tool calls, hand edits, I/O errors, a start with unreadable digest files) | `UserIntentKept`, `LockNeverStranded`, `DigestNeverGoesBack`, `DiskNeverGoesBack` |

The type invariant is a property of the runs of JsonStore, McpSession, ServerRegistry,
ToolCallStats and ToolListCache. In the other modules it is a part of the inductive
invariant, which TLC confirmed on the same instances before it was proved; the theorems
below state it for every instance.

Why the bounds are enough. The races need two actors (a fetch and an install, a
request and a revocation, two installs, a handler and a later request), one more
value than a decision can tell apart, and counters that pass each boundary once.
Three requests are one that opens a session, one in it and one that overtakes or
deletes. Four file versions are a first write, an overwrite and a change in between;
the run with OSErrors and hand edits needs three. In the limiter the clock passes an
escalation 4-6 whose last lockout is longer than the streak reset, and one of 1, 2, 4 in
which lockouts end inside the window, so that the bucket has to hold on its own. The
pruning limit of 4096 entries is 0 there, so that every new address prunes. In
ToolListCache the clock reaches TTL + Timeout after an install at 0, the instant the
bound is about; servers, configs and discoveries are interchangeable (symmetry), and
one install is enough for "old" and "new". With room for one list every second put evicts, also
at the instant at which the first list was stored. Requests and the client store's edits are
finite in `McpSession`, so its runs do not check for deadlock: the system rests when
the last request is answered. In ResponsePages a text of 5 characters takes pages of 2,
2 and 1 or 3 and 2, room for two responses and three calls make one eviction, and a
`Tick` past the TTL an expiry; the clients are interchangeable. In Installer two installs
matter only where they share a venv; other kinds are run alone. In News two refreshes
are one that is overtaken by another, in the same or in the other process, and two
events a change and a fault in its middle. These three rest when their budget of
events is used up or the installs are over, so they do not check for deadlock either.

## 4. Fairness

* `McpSession`: weak fairness of every request task's next step, of every handler's
  end and of a terminated session's loop. asyncio runs every ready task; a handler
  ends because every upstream call has a timeout. Clients, administrators and crashes
  are not fair: nobody has to connect, revoke or disconnect. Acquiring the creation
  lock needs no strong fairness in the instance: with two requests, once the holder is
  done nobody else competes.
* `ToolCallStats`: the timer thread runs (weak fairness of `TimerFlush`), tools are
  listed again and again (weak fairness of `RankedKeys`; needed, because after a
  refused write only the next reader, count or exit schedules another), and a disk
  that is tried again and again does not refuse for ever (strong fairness of a
  successful flush). `CountsReachFile` allows for a process that dies first.

* `Installer`: weak fairness of the watcher's and the worker's next step: threads are
  scheduled. Nothing is assumed of children, which may hang, nor of timeouts, which are
  minutes long; `CancelEndsInstall` holds without them, except where a helper holds the
  pipes of a child that is gone (`HeldByHelper`).

`LockNeverStranded` and `ReadingAdvances` say as safety properties what progress needs,
and assume no fairness.

## 5. Proofs

The theorems hold for all constants that satisfy the named assumptions: any number of
ids, clients, sessions, requests, servers, installs and discoveries, any TTL,
timeout and cap. The bounds on counters are parameters as well.

* **StoreProofs.** Of JsonStore: `TypeCorrect`. `DivergenceIsConfined` (nobody deletes the file)
  rests on `ConfinedInv`: a signature names one version of the file, and a cache whose
  signature is the file's holds the file's document except under ids not saved.
  `DivergenceConfined` alone is not inductive: it speaks of a method that holds a
  document, and nothing would say why a hit finds a right one. `ReadsAreFresh` follows
  when writes do not fail. `StoreIsAtomic`: without edits and failures the store
  implements `AtomicStore`; `CopyInv` says that between lock and replace the
  operation's document is the file's with the operation applied, so `Replace` is an
  abstract operation and every other step, crashes included, a stutter. Of ToolCallStats:
  `CleanStoresAreSaved`, `UnsavedCountsAreScheduled`, `CapDropsTheLeastPopular`,
  `CountersStayCapped`. `StatsInv` says that a clean store is what its file holds, capped,
  unless the file could not be read at the last start and has not been written since.
  The lemmas `CapOfFewer` and `CapTwice` say that capping a
  capped table changes nothing, which is what load after save needs, and
  `CapLeavesMorePopular` that whatever the cap drops ranks below all that stay.
* **McpSessionProofs.** `HandlersSeeFreshPolicy`, `SessionsAreCleanedUp`,
  `OwnersSeeThemselves`, `AdminNeedsGrant`, from `SessionInv`: the slot of a session is at
  least as recent as the binding of every request naming it, and a request in a session
  names one that was opened. Ids are never reused, so a slot is seeded once and then only
  gets newer. For the last two, `IdentitiesOwned` says that an identity in a request, in a slot
  or in a handler was bound for a credential among the users of its session, with a grant
  of that moment, and `GatePassed` that whoever is past the gate was let through on behalf
  of one of those users; where there is one user, that is the caller.
* **ServerRegistryProofs.** `UpgradesKeepEdits`, `DanglingReferencesHaveCauses`, from
  `RegistryInv`; `RestKeepsMetaConsistent`: with installs from the REST routes only,
  metadata outlives its server only where a removal did not get through its second write
  or a restart lost a creation (the routes read the server again after the install).
  The causes have to be told apart per server: `Untouched` carries them over steps that
  leave a server alone, `AnewKept` over those that store it, and `OtherEntries` says what
  storing the metadata of one server may do to the entries of the others.
* **UpstreamToolProofs.** Of ToolListCache: `AnswersMatchConfig`, `StaleListsExpire`,
  `CacheStaysBounded`. `ToolListInv` carries with each list the time it was read: an
  outdated list was read no later than the install, and stored within one timeout of
  being read, from which the bound TTL + Timeout follows. `StoredListsAreKept` follows from
  the order of the dict (`OldestIsAnother`): no entry is newer than the clock and a new key
  is placed last, so some other entry precedes the new one; that a full cache holds another
  entry at all is `CapacityInv`. Of HotTools: `ShortcutsTypeCorrect`,
  `OutagesCostNoCount`, `ListsOfferMostPopular`. `RankingIsComplete` is the lemma on the
  ranking: places are distinct numbers below the number of tools, so every place is taken.
  `GoneInv` says that a tool which is missing, or whose "missing" is on its way to
  `remove`, is among those once missing; `OfferInv` that a list in progress has offered
  every ranked tool it has passed that could be offered all along, and nothing it has
  not passed.
* **InstallerProofs.** `GoodResultIsEarned`, `KilledMeansDead`, from `InstallerInv`.
  `StagesInv` ties the stages passed to the job's place in the program (`PassedUpTo`): a
  result alone does not remember which child it came from. `KillsInv` says what the
  watcher and the worker know of the process group at each of their steps, so that the
  worker's join leaves nothing alive, whichever of the two killed.
* **NewsProofs.** `LockIsNeverStranded`, `ServedDigestNeverGoesBack`,
  `DigestFileNeverGoesBack`, from `DigestInv`. `LockInv` is the first of them with the queue's
  shape; `MemoryInv` says that what a refresh is about to write or to assign is no worse
  than what is served; `DiskInv` that, while the processes take turns, the one that lives
  has on disk what it has in memory but for a digest it has just written or could not
  read, and a stopped
  one leaves at most one write, which makes nothing worse. `DigestFileNeverGoesBack` excepts
  the first write of a digest that could not be read. The action properties alone are not inductive:
  a refresh carries its digest over several steps, in which others write.
  `UserIntentIsKept`, for any tables of replacements, dead and supplemental feeds (in which,
  as in the code's, no replacement and no supplemental feed is itself retired) and any
  feed list, from `IntentInv`: what the user wishes of a feed holds in the file, every
  migration that could undo it is recorded there (`Respects`), and each save that an
  operation still has to make respects what the user will have asked for by then
  (`SavesRespect`). `UserIntentKept` alone is not inductive: nothing in it keeps the next
  load from bringing a deleted feed back. The loops of `migrate_feeds` and `remove` are
  recursive tables (`MigrationSteps`, `WithoutKeeps`) with the lemma of one turn
  (`TurnIsFaithful`); `FixedIsCalm` says that a document its migrations leave alone has
  nothing left to migrate, which is when an edit by hand counts as the user's word.
* **LoginRateLimiterProofs.** All four properties of its run. `RecordInv`: the record hit
  counts from, trimmed and pruned, shows the window the same attempts as the passwords
  verified since the last success (`TrimTwice`: trimming now and later is trimming later).
  `SentenceInv`: until a lockout is served it stands in the table, nothing is verified, and
  the streak it was given for is remembered unless it expires first; without the last part
  escalation could not be proved. `PromiseInv` says what a promise was made against. The
  penalty is a recursive function; `UpTo`, induction for sets of numbers, which the library
  states for operators only, shows that it exists and never shrinks.
* **ResponsePagesProofs.** `TypeCorrect`, `HintsLeadToWholeText`, `PagesAreTheOwners`,
  `ReadingMovesOn`, `MissesAreHonest`, from `PagesInv`: a cached entry is the whole answer
  of its id and owner (`EntryInv`); a client holds a prefix of its own response up to the
  next offset of its hint (`ReadInv`); a follow-up carries the id, block and offset the
  hint said (`CallInv`), for an upstream without, with some, or with all of the pagination
  names among its own parameters (`MeantInv`); and the cache is in the order of its last
  uses, so that what is gone has expired or had as many others used after it as the cache
  has room for (`UseInv`). The arguments are consumed by a recursive table; `Recursion`,
  `UpTo` and `Selected` say what such a table holds at each place, `CarriedCases` where a
  field can have come from.

Only model-checked: the liveness properties (`RequestsAnswered`, `DeletedSessionsEnd`,
`CountsReachFile`, `CancelEndsInstall`), since the prover has no rules for fairness here.
`CacheBounded` and `ReadIsFresh` are proved and need no run.

## 6. What is not modelled

Stateless mode and idle timeouts of the session manager (not configured), the
warn-only mode of the admin gate, browser redirects; two spellings of one tool in the
statistics; a hand edit of one of the three administrative documents between the requests of
ServerRegistry (JsonStore has them, one document at a time); the command an install
suggests, and what a pip that exits 0 has done: it is taken to exit so only in a venv that
is ready; a request task that its ASGI server cancels inside a DELETE; two files with
equal (mtime_ns, size, inode) signatures, which the signature cannot tell apart and a
test could not either; error flags and structured content of
upstream results; the grace period in seconds; a feeds.yaml whose `feeds` is not a list, a
quarantine that fails, releases that add migrations, temporary files of two news
processes under one name; live searches and deduplication of news items; the transports,
pure I/O, formatting, the admin UI; the components with status `not_modelled` in `PROJECT.json`.

## 7. Limits of the code met while modelling

Behaviours found in passing; no property above claims otherwise.

* Mutators of the JSON stores change the document the cache holds before they write it
  (`config_store.py:55`), and only a successful write invalidates. After an OSError later
  reads return the change that was reported as failed, and the next write persists it.
  The comment at `client_store.py:117` asks callers not to mutate that document.
  `DivergenceConfined` says how far this goes; `ReadsAreFresh` is proved for writes that
  succeed.
* The identity slot belongs to the session and every request that names the session
  overwrites it (`live_mcp_tracker.py:96`), while the docstring at line 108 speaks of
  "the client of the HTTP request currently being served": with two clients' requests
  in one session, the first one's handler may read the second one's client.
* tools/list walks the whole ranking past disabled and unreachable tools, tools/call
  looks among `top_keys()` only (`proxy_mcp.py:537`): a shortcut listed from below the
  top is not known when it is called. An answer that a tool is missing may also prune a
  count the tool earned after the answer was given (`proxy_mcp.py:642`).

* A file that is deleted, restored and deleted again around one `get()` is served from
  the document parsed in between, because every missing file has the signature `()`
  (`json_file_cache.py:51`). The JsonStore runs and theorems exclude deletions.
* `upgradeStdioServer` reads the server again only when the installer suggested a
  command (`proxy_mcp.py:2205`); otherwise it writes metadata for a server that may
  have been removed. A domain deleted during an install receives the installed server
  (`api/servers.py:321` checks before, nothing checks after).
* What a failed write left in the shared document is believed by the other handlers. A
  `POST /domains` whose write fails lets a `POST /servers` into that domain through; after
  a restart the server is in a domain that does not exist (`domain_store.py:117`). A
  `DELETE /servers/{id}` whose write fails hides the server, a write of another server
  makes the removal permanent, and the metadata stays (`config_store.py:62`,
  `api/servers.py:565`); without that write a restart brings the server back.
  `DanglingHasCause` names these causes, the installs above and the next as the only ones.
* A removal whose second write fails leaves the metadata of a server that is gone
  (`api/servers.py:565`). Nothing removes it afterwards, since DELETE answers 404; a
  server added later under the id inherits it and can be upgraded to the old package.
  A stdio-packages.json that cannot be read counts as empty
  (`stdio_package_meta.py:20`), and the next registration or upgrade drops the entries
  of all other servers, which then cannot be upgraded.
* A tool_call_stats.json that cannot be read at start counts as empty
  (`tool_call_stats.py:51`), and the next write replaces the counts that were not read.
* A fetch that read the old package's tools can store them after an upgrade's
  invalidation, under the same fingerprint; discoveries begun after the upgrade then
  list the old tools. `StaleIsBounded` says for how long.
* With the default durations the 16-minute lockout of a streak of nine is longer than
  streak_reset_s (15 minutes), so the next wrong password starts a new streak and
  lockout_max_s is not reached through the login route. `LockoutEscalates` is stated
  for lockouts shorter than the reset.
* A limiter built with a lockout_base_s below its window_s tells a client to come back
  when the lockout ends, and may then refuse it for the full bucket.
  `RetryAfterIsHonest` excludes that case and a lockout_max_s below the window; with the
  defaults the first two are 60 s and the last is an hour.

* Once a child has exited, its watcher leaves (`cancellable_proc.py:116`); while a
  helper still holds the pipes, a cancel is not seen before the timeout of 3 to 15
  minutes. Without the timeout nothing ends that wait.
* A venv whose creation was killed after bin/python appeared is "existing"
  (`pypi_venv.py:92`): pip is missing in it and every later install for that id fails.
* A cancelled or timed-out npm install leaves `install_npm_prefix` as an exception, a
  PyPI one as a failed result. Two installs for one id share the directory and see each
  other's new files under bin.
* The two news processes order nothing between them: one with an older memory overwrites
  a newer digest file, one that started before there was a digest writes an empty one
  after a failed refresh, and overlapping operations on feeds.yaml lose edits. In one
  process the write of a cancelled refresh may land after a later one
  (`news:digest_cache.py:158`).
* A digest file that cannot be read at start counts as empty (`news:digest_cache.py:115`);
  when the next refresh fetches nothing, an empty digest is written over the good file.
  `DiskNeverGoesBack` excepts that write.
* A read error on feeds.yaml counts as an empty list (`news:store.py:86`); the load that
  met it then saves the supplemental feeds over the user's list.
* A feed whose url is on the list of dead feeds is switched off at the first load after
  the user has added it, because its migration was not recorded before; a digest that
  loses its last feed keeps its old items for ever.

## 8. Plan

1. Done: the eleven modules above, twelve runs, eight proof modules, which state every
   invariant, action property and refinement of the runs.
2. Left for the models: HotTools composed with ToolCallStats and ServerRegistry with
   ToolListCache; two spellings of one tool in the statistics.
