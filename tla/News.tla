-------------------------------- MODULE News --------------------------------
(***************************************************************************)
(* The news server's files and the two processes that write them: the      *)
(* digest refresher inside the proxy (news_digest_refresher.py) and a      *)
(* stdio news server started for an upstream call (server.py).  Each has   *)
(* its own FeedStore over feeds.yaml (store.py, feed_migrations.py) and    *)
(* its own DigestCache over cache/*.json (digest_cache.py).  In a process  *)
(* _STORE_LOCK orders the store's operations and DigestCache._lock the     *)
(* refreshes; between processes nothing does.                              *)
(*                                                                         *)
(* A digest is the number of the fetch it came from and of its items; all  *)
(* digests without items are one.  A temporary file and the replace that   *)
(* follows are one step, as is a read of the whole file.  At most one      *)
(* news server runs at a time, with one tool call beside its timer.        *)
(***************************************************************************)
EXTENDS Naturals, SequencesExt

CONSTANTS
  Url,
  UrlReplacements,   \* function from retired urls to their replacements
  DisableUrls,       \* feeds that are switched off once
  SupplementalFeeds, \* sequence of urls that are added once
  Digests,           \* sequence of digests in the order of refresh_all
  FeedsIn,           \* [digest -> urls of its region], see feed_regions.py
  InitialFiles,      \* what feeds.yaml may hold at first
  Missing, Corrupt,  \* feeds.yaml does not exist, or is not YAML
  MaxItems, MaxRefreshes,
  MaxEvents          \* tool calls, hand edits and I/O errors together

Digest == ToSet(Digests)
Process == {"proxy", "server"}
Job == {"refresher", "timer", "call"}
ProcessOf(j) == IF j = "refresher" THEN "proxy" ELSE "server"
JobsOf(p) == {j \in Job : ProcessOf(j) = p}
TimerOf(p) == IF p = "proxy" THEN "refresher" ELSE "timer"

Feed == [url : Url, on : BOOLEAN]
Migration == {"url-replacement", "disable-dead-feed", "supplemental-feed"} \X Url
Document == [feeds : Seq(Feed), applied : SUBSET Migration]
EmptyDocument == [feeds |-> <<>>, applied |-> {}]

ASSUME NewsAssumption ==
  /\ DOMAIN UrlReplacements \subseteq Url /\ DisableUrls \subseteq Url
  /\ \A u \in DOMAIN UrlReplacements : UrlReplacements[u] \in Url \ DOMAIN UrlReplacements
  /\ Digests \in Seq(Digest) /\ Digests # <<>> /\ FeedsIn \in [Digest -> SUBSET Url]
  /\ SupplementalFeeds \in Seq(Url) /\ ToSet(SupplementalFeeds) \cap DOMAIN UrlReplacements = {}
  /\ InitialFiles \subseteq Document \cup {Missing}
  /\ Missing \notin Document /\ Corrupt \notin Document /\ Missing # Corrupt

VARIABLES
  file,    \* feeds.yaml
  disk,    \* the digest files; a missing one reads as an empty digest
  live,    \* running processes
  mem,     \* DigestCache's payloads in each process
  lock,    \* DigestCache._lock in each process: its holder and the waiters in order
  store,   \* the FeedStore operation in progress in each process
  job,     \* the timers and the tool call
  threads, \* disk writes whose awaiting task was cancelled
  count,   \* of fetches, refreshes and events
  asked,   \* history: what the user last did to a feed
  alone,   \* history: no two processes have overlapped and no write was cancelled
  unread   \* history: digests the last process could not read and has not written yet

vars == <<file, disk, live, mem, lock, store, job, threads, count, asked, alone, unread>>

Payload == [at : 0..MaxRefreshes * Len(Digests), items : 0..MaxItems]
EmptyPayload == [at |-> 0, items |-> 0]

NoOperation == [by |-> "nobody", kind |-> "none", url |-> "none", saves |-> <<>>, on |-> {}]

Idle == [pc |-> "idle", todo |-> <<>>, feeds |-> FALSE, payload |-> EmptyPayload]

NothingAsked == [u \in Url |-> "nothing"]

TypeOK ==
  /\ file \in Document \cup {Missing, Corrupt}
  /\ disk \in [Digest -> Payload] /\ mem \in [Process -> [Digest -> Payload]]
  /\ live \subseteq Process
  /\ \A p \in Process : ToSet(lock[p]) \subseteq JobsOf(p) /\ IsInjective(lock[p])
  /\ \A p \in Process : ToSet(store[p].saves) \subseteq Document
  /\ \A j \in Job : job[j].pc \in {"idle", "load", "fetch", "write", "assign", "tool"}
  /\ asked \in [Url -> {"nothing", "deleted", "enabled"}]
  /\ unread \subseteq Digest

-----------------------------------------------------------------------------
(* feed_migrations.py and store.py                                         *)

UrlsOf(feeds) == {feeds[i].url : i \in DOMAIN feeds}
Enabled(feeds) == UrlsOf(SelectSeq(feeds, LAMBDA f : f.on))

\* Mutant of MigrateFeed: switching a feed off is not recorded.
MutMigrateFeed(acc, f) ==
  LET replace == <<"url-replacement", f.url>>
      url == IF f.url \in DOMAIN UrlReplacements /\ replace \notin acc.handled
               THEN UrlReplacements[f.url] ELSE f.url
  IN [handled |-> acc.handled \cup (IF f.url \in DOMAIN UrlReplacements THEN {replace} ELSE {}),
      feeds |-> IF url \in UrlsOf(acc.feeds) THEN acc.feeds
                ELSE Append(acc.feeds, [url |-> url, on |-> f.on /\ url \notin DisableUrls])]

\* One turn of the loop of migrate_feeds: replace, switch off, drop a repetition.
MigrateFeed(acc, f) ==
  LET replace == <<"url-replacement", f.url>>
      url == IF f.url \in DOMAIN UrlReplacements /\ replace \notin acc.handled
               THEN UrlReplacements[f.url] ELSE f.url
      disable == <<"disable-dead-feed", url>>
      off == url \in DisableUrls /\ disable \notin acc.handled
  IN [handled |-> acc.handled \cup (IF f.url \in DOMAIN UrlReplacements THEN {replace} ELSE {})
                              \cup (IF url \in DisableUrls THEN {disable} ELSE {}),
      feeds |-> IF url \in UrlsOf(acc.feeds) THEN acc.feeds
                ELSE Append(acc.feeds, [url |-> url, on |-> f.on /\ ~off])]

AddSupplemental(acc, url) ==
  LET id == <<"supplemental-feed", url>>
  IN [handled |-> acc.handled \cup {id},
      feeds |-> IF id \in acc.handled \/ url \in UrlsOf(acc.feeds) THEN acc.feeds
                ELSE Append(acc.feeds, [url |-> url, on |-> TRUE])]

\* migrate_feeds, with the ids to persist: those on disk and the new ones.
Migrated(doc) ==
  LET loop[i \in 0..Len(doc.feeds)] ==
        IF i = 0 THEN [handled |-> doc.applied, feeds |-> <<>>]
        ELSE MigrateFeed(loop[i - 1], doc.feeds[i])
      extras[i \in 0..Len(SupplementalFeeds)] ==
        IF i = 0 THEN loop[Len(doc.feeds)]
        ELSE AddSupplemental(extras[i - 1], SupplementalFeeds[i])
      all == extras[Len(SupplementalFeeds)]
  IN [feeds |-> all.feeds, applied |-> all.handled]

\* The feeds that remove keeps.
Without(feeds, url) ==
  LET kept[i \in 0..Len(feeds)] ==
        IF i = 0 THEN <<>>
        ELSE IF feeds[i].url = url THEN kept[i - 1] ELSE Append(kept[i - 1], feeds[i])
  IN kept[Len(feeds)]

\* The saves of one operation: the one of load, which happens when a migration
\* was recorded, and the one of add or remove.
SavesOf(kind, url, doc, m) ==
  LET loaded == IF m.applied # doc.applied THEN <<m>> ELSE <<>>
  IN CASE kind = "load" -> loaded
       [] kind = "add" -> IF url \in UrlsOf(m.feeds) THEN loaded
                          ELSE loaded \o <<[m EXCEPT !.feeds = Append(@, [url |-> url, on |-> TRUE])]>>
       [] kind = "remove" -> loaded \o <<[m EXCEPT !.feeds = Without(@, url)]>>

\* What load finds: _ensure creates a missing file, _read_yaml_tolerant moves a
\* corrupt one aside, and a read that raises OSError looks like an empty file.
ReadOutcomes ==
  CASE file = Missing -> {[doc |-> EmptyDocument, file |-> EmptyDocument, failed |-> FALSE]}
    [] file = Corrupt -> {[doc |-> EmptyDocument, file |-> Missing, failed |-> FALSE]}
    [] OTHER -> {[doc |-> file, file |-> file, failed |-> FALSE]}
                  \cup (IF count.events < MaxEvents
                          THEN {[doc |-> EmptyDocument, file |-> file, failed |-> TRUE]} ELSE {})

\* A store method gets _STORE_LOCK and reads the file.
StoreReads(j, kind, url) ==
  LET p == ProcessOf(j)
  IN /\ store[p] = NoOperation
     /\ \E r \in ReadOutcomes :
          LET m == Migrated(r.doc)
              saves == SavesOf(kind, url, r.doc, m)
          IN /\ file' = r.file
             /\ store' = [store EXCEPT ![p] =
                   [by |-> j, kind |-> kind, url |-> url, saves |-> saves,
                    on |-> Enabled(IF saves = <<>> THEN m.feeds ELSE Last(saves).feeds)]]
             /\ count' = [count EXCEPT !.events = @ + (IF r.failed THEN 1 ELSE 0)]
             /\ asked' = IF r.failed \/ file = Corrupt THEN NothingAsked ELSE asked
     /\ UNCHANGED <<disk, live, mem, lock, job, threads, alone, unread>>

\* Some operation of another process has read the file and will write it.
Overlapped(p) == \E q \in Process \ {p} : store[q].saves # <<>>

\* Adding a retired url is a way to ask for its replacement.
WithAdded(wish, url) ==
  [u \in Url |-> IF u = url \/ (url \in DOMAIN UrlReplacements /\ u = UrlReplacements[url])
                   THEN "nothing" ELSE wish[u]]

\* What the user, who had a wish, has asked for once save i of the operation s is made.
Wish(wish, s, i) ==
  CASE i = Len(s.saves) /\ s.kind = "add" -> WithAdded(wish, s.url)
    [] i = Len(s.saves) /\ s.kind = "remove" -> [wish EXCEPT ![s.url] = "deleted"]
    [] OTHER -> wish

\* save() replaces the file.
StoreSaves(p) ==
  LET s == store[p]
  IN /\ s.saves # <<>>
     /\ file' = Head(s.saves)
     /\ store' = [store EXCEPT ![p].saves = Tail(@)]
     /\ asked' = IF Overlapped(p) THEN NothingAsked ELSE Wish(asked, s, 1)
     /\ UNCHANGED <<disk, live, mem, lock, job, threads, count, alone, unread>>

\* The next load will leave the document as it is and no operation will overwrite it.
Settled == Migrated(file) = file /\ \A p \in Process : store[p].saves = <<>>

\* The user edits feeds.yaml: switches a feed, deletes one or breaks the syntax.
UserEdits ==
  /\ count.events < MaxEvents
  /\ file \in Document
  /\ count' = [count EXCEPT !.events = @ + 1]
  /\ \/ \E i \in DOMAIN file.feeds :
          LET f == file.feeds[i]
          IN /\ file' = [file EXCEPT !.feeds[i].on = ~@]
             /\ asked' = [asked EXCEPT ![f.url] = IF ~f.on /\ Settled THEN "enabled" ELSE "nothing"]
     \/ \E i \in DOMAIN file.feeds :
          /\ file' = [file EXCEPT !.feeds = RemoveAt(@, i)]
          /\ asked' = [asked EXCEPT ![file.feeds[i].url] = IF Settled THEN "deleted" ELSE "nothing"]
     \/ /\ file' = Corrupt
        /\ asked' = NothingAsked
  /\ UNCHANGED <<disk, live, mem, lock, store, job, threads, alone, unread>>

-----------------------------------------------------------------------------
(* digest_cache.py                                                         *)

\* Mutant of Loaded: the cache starts empty.
MutLoaded(failed) == [d \in Digest |-> EmptyPayload]

\* DigestCache() reads the digest files. One that raises OSError or holds no JSON
\* object counts as an empty digest.
Loaded(failed) == [d \in Digest |-> IF d \in failed THEN EmptyPayload ELSE disk[d]]

\* The digests that a start may fail to read and that are not empty anyway.
Unreadable == IF count.events < MaxEvents THEN {d \in Digest : disk[d] # EmptyPayload} ELSE {}

\* refresh_today, _germany, _local or _all takes its place in the lock's queue.
Queue(j, todo) ==
  /\ count.refreshes < MaxRefreshes
  /\ lock' = [lock EXCEPT ![ProcessOf(j)] = Append(@, j)]
  /\ job' = [job EXCEPT ![j] = [Idle EXCEPT !.pc = "load", !.todo = todo]]

\* The task holds the lock; asyncio.Lock serves its waiters in order.
HoldsLock(j) == LET q == lock[ProcessOf(j)] IN q # <<>> /\ Head(q) = j

\* Mutant of Released: an exception leaves the lock taken.
MutReleased(j) == IF job[j].pc = "assign" THEN [lock EXCEPT ![ProcessOf(j)] = RemoveFirst(@, j)] ELSE lock

\* Leaving `async with self._lock`, at the end or by an exception.
Released(j) == [lock EXCEPT ![ProcessOf(j)] = RemoveFirst(@, j)]

\* run_periodic_refresh and the refresher's loop: the sleep is over.
Wake(j) ==
  /\ j \in {"refresher", "timer"} /\ ProcessOf(j) \in live
  /\ job[j].pc = "idle"
  /\ Queue(j, Digests)
  /\ count' = [count EXCEPT !.refreshes = @ + 1]
  /\ UNCHANGED <<file, disk, live, mem, store, threads, asked, alone, unread>>

\* _refresh_*_unlocked loads the feed list in a thread.
RefreshLoads(j) ==
  /\ job[j].pc = "load" /\ HoldsLock(j)
  /\ StoreReads(j, "load", "none")

\* feeds_today_world, feeds_germany or feeds_bay_area.
HasFeeds(d, on) == on \cap FeedsIn[d] # {}

\* The list is loaded: on to the fetch, or to the tool's next store operation.
StoreReturns(j) ==
  LET p == ProcessOf(j)
  IN /\ store[p].by = j /\ store[p].saves = <<>>
     /\ store' = [store EXCEPT ![p] = NoOperation]
     /\ IF job[j].pc = "load"
          THEN job' = [job EXCEPT ![j].pc = "fetch", ![j].feeds = HasFeeds(Head(job[j].todo), store[p].on)]
          ELSE IF Len(job[j].todo) = 1 THEN job' = [job EXCEPT ![j] = Idle]
          ELSE job' = [job EXCEPT ![j].todo = Tail(@)]
     /\ UNCHANGED <<file, disk, live, mem, lock, threads, count, asked, alone, unread>>

\* The refresh or the tool call is over, normally or by an exception.
Ends(j) == lock' = Released(j) /\ job' = [job EXCEPT ![j] = Idle]

\* A save raises OSError and takes its caller along.
StoreFails(p) ==
  /\ store[p].saves # <<>> /\ count.events < MaxEvents
  /\ store' = [store EXCEPT ![p] = NoOperation]
  /\ count' = [count EXCEPT !.events = @ + 1]
  /\ IF store[p].by = "nobody" THEN UNCHANGED <<lock, job>> ELSE Ends(store[p].by)
  /\ UNCHANGED <<file, disk, live, mem, threads, asked, alone, unread>>

\* The items gather_rss_for_feeds, the searches and _finalize_payload come to:
\* feeds that fail or exceed their deadline contribute none.
Fetched(feeds) == IF feeds THEN 0..MaxItems ELSE {0}

\* _apply_selection: at least one of n items and none of them twice.
Selected(n) == 1..n

\* maybe_curate_digest_payload: the model's choice of items, or all of them when
\* it is not configured or fails; there is no choice among none.
Curated(n) == IF n = 0 THEN {0} ELSE Selected(n) \cup {n}

\* _store_payload: an empty digest does not replace one with items.
Kept(old, new) == IF new.items = 0 /\ old.items > 0 THEN old ELSE new

\* _build_payload up to the write, which runs in a thread.
Fetch(j) ==
  LET d == Head(job[j].todo)
  IN /\ job[j].pc = "fetch"
     /\ \E n \in Fetched(job[j].feeds) : \E c \in Curated(n) :
          LET at == IF c > 0 THEN count.fetches + 1 ELSE 0
          IN /\ job' = [job EXCEPT ![j].pc = "write", ![j].feeds = FALSE,
                           ![j].payload = Kept(mem[ProcessOf(j)][d], [at |-> at, items |-> c])]
             /\ count' = [count EXCEPT !.fetches = IF c > 0 THEN at ELSE @]
     /\ UNCHANGED <<file, disk, live, mem, lock, store, threads, asked, alone, unread>>

\* _write_disk.
Write(j) ==
  /\ job[j].pc = "write"
  /\ disk' = [disk EXCEPT ![Head(job[j].todo)] = job[j].payload]
  /\ unread' = unread \ {Head(job[j].todo)}
  /\ job' = [job EXCEPT ![j].pc = "assign"]
  /\ UNCHANGED <<file, live, mem, lock, store, threads, count, asked, alone>>

WriteFails(j) ==
  /\ job[j].pc = "write" /\ count.events < MaxEvents
  /\ count' = [count EXCEPT !.events = @ + 1]
  /\ Ends(j)
  /\ UNCHANGED <<file, disk, live, mem, store, threads, asked, alone, unread>>

\* Mutant of Returned: _store_payload returns the new digest where it has kept the old one.
MutReturned(j) ==
  IF job[j].payload = mem[ProcessOf(j)][Head(job[j].todo)] THEN EmptyPayload ELSE job[j].payload

\* What _store_payload returns: the digest it has written.
Returned(j) == job[j].payload

\* The digest is served from memory; the next one follows, or the lock is left.
Assign(j) ==
  /\ job[j].pc = "assign"
  /\ mem' = [mem EXCEPT ![ProcessOf(j)][Head(job[j].todo)] = Returned(j)]
  /\ IF Len(job[j].todo) = 1 THEN Ends(j)
     ELSE /\ job' = [job EXCEPT ![j] = [Idle EXCEPT !.pc = "load", !.todo = Tail(job[j].todo)]]
          /\ UNCHANGED lock
  /\ UNCHANGED <<file, disk, live, store, threads, count, asked, alone, unread>>

-----------------------------------------------------------------------------
(* server.py and news_digest_refresher.py                                  *)

\* The store operations of news_list_feeds (and a live news_curate),
\* news_add_rss_feed and news_remove_rss_feed.
ToolSteps(tool) ==
  CASE tool = "list" -> <<"load">>
    [] tool = "add" -> <<"add", "load">>
    [] tool = "remove" -> <<"load", "remove">>

\* A tool call on the feed list begins; its url stays with the job.
CallFeeds(tool, url) ==
  /\ "server" \in live /\ job["call"].pc = "idle" /\ count.events < MaxEvents
  /\ count' = [count EXCEPT !.events = @ + 1]
  /\ job' = [job EXCEPT !["call"] = [Idle EXCEPT !.pc = "tool",
               !.todo = [i \in DOMAIN ToolSteps(tool) |-> <<ToolSteps(tool)[i], url>>]]]
  /\ UNCHANGED <<file, disk, live, mem, lock, store, threads, asked, alone, unread>>

\* The tool's next store operation runs in a thread.
ToolStores ==
  /\ job["call"].pc = "tool"
  /\ StoreReads("call", Head(job["call"].todo)[1], Head(job["call"].todo)[2])

\* news_today, news_germany, news_local or news_briefing with force_refresh;
\* without it they only copy the digest in memory, as a cached news_curate does.
CallForceRefresh(d) ==
  /\ "server" \in live /\ job["call"].pc = "idle" /\ count.events < MaxEvents
  /\ count' = [count EXCEPT !.events = @ + 1, !.refreshes = @ + 1]
  /\ Queue("call", <<d>>)
  /\ UNCHANGED <<file, disk, live, mem, store, threads, asked, alone, unread>>

\* The threads of cancelled tasks run on: a disk write is left over, and a
\* store operation goes on for nobody.
Orphaned(js) == {[in |-> Head(job[j].todo), payload |-> job[j].payload] : j \in {k \in js : job[k].pc = "write"}}
Disowned(p, js) == [store EXCEPT ![p].by = IF @ \in js THEN "nobody" ELSE @]

\* The client cancels its call.
CancelCall ==
  /\ job["call"].pc # "idle"
  /\ threads' = [threads EXCEPT !["server"] = @ \cup Orphaned({"call"})]
  /\ store' = Disowned("server", {"call"})
  /\ alone' = (alone /\ job["call"].pc \notin {"write", "assign"})
  /\ Ends("call")
  /\ UNCHANGED <<file, disk, live, mem, count, asked, unread>>

\* A left-over write reaches the disk.
OrphanWrites(p) ==
  /\ \E w \in threads[p] :
       /\ disk' = [disk EXCEPT ![w.in] = w.payload]
       /\ threads' = [threads EXCEPT ![p] = @ \ {w}]
  /\ UNCHANGED <<file, live, mem, lock, store, job, count, asked, alone, unread>>

\* A left-over store operation has made its last save.
OrphanReturns(p) ==
  /\ store[p] # NoOperation /\ store[p].by = "nobody" /\ store[p].saves = <<>>
  /\ store' = [store EXCEPT ![p] = NoOperation]
  /\ UNCHANGED <<file, disk, live, mem, lock, job, threads, count, asked, alone, unread>>

\* try_start, where the settings allow the refresher, or the server's lifespan:
\* the digest files are read and the first refresh starts at once.
Start(p) ==
  /\ p \notin live /\ store[p] = NoOperation /\ threads[p] = {}
  /\ live' = live \cup {p}
  /\ \E failed \in SUBSET Unreadable :
       /\ count' = [count EXCEPT !.events = @ + (IF failed = {} THEN 0 ELSE 1), !.refreshes = @ + 1]
       /\ mem' = [mem EXCEPT ![p] = Loaded(failed)]
       /\ unread' = failed
  /\ alone' = (alone /\ live = {} /\ \A q \in Process : threads[q] = {})
  /\ Queue(TimerOf(p), Digests)
  /\ UNCHANGED <<file, disk, store, threads, asked>>

\* The process ends: its tasks and its memory are gone.
Ended(p) ==
  /\ live' = live \ {p}
  /\ mem' = [mem EXCEPT ![p] = [d \in Digest |-> EmptyPayload]]
  /\ lock' = [lock EXCEPT ![p] = <<>>]
  /\ job' = [j \in Job |-> IF j \in JobsOf(p) THEN Idle ELSE job[j]]

\* stop() or the end of lifespan cancels the tasks; the executor's threads
\* finish before the process exits.
Stop(p) ==
  /\ p \in live
  /\ Ended(p)
  /\ threads' = [threads EXCEPT ![p] = @ \cup Orphaned(JobsOf(p))]
  /\ store' = Disowned(p, JobsOf(p))
  /\ UNCHANGED <<file, disk, count, asked, alone, unread>>

Crash(p) ==
  /\ p \in live
  /\ Ended(p)
  /\ threads' = [threads EXCEPT ![p] = {}]
  /\ store' = [store EXCEPT ![p] = NoOperation]
  /\ UNCHANGED <<file, disk, count, asked, alone, unread>>

-----------------------------------------------------------------------------
Init ==
  /\ file \in InitialFiles
  /\ disk = [d \in Digest |-> EmptyPayload]
  /\ live = {}
  /\ mem = [p \in Process |-> disk]
  /\ lock = [p \in Process |-> <<>>]
  /\ store = [p \in Process |-> NoOperation]
  /\ job = [j \in Job |-> Idle]
  /\ threads = [p \in Process |-> {}]
  /\ count = [fetches |-> 0, refreshes |-> 0, events |-> 0]
  /\ asked = NothingAsked
  /\ alone = TRUE
  /\ unread = {}

Next ==
  \/ \E j \in Job : \/ Wake(j) \/ RefreshLoads(j) \/ StoreReturns(j)
                    \/ Fetch(j) \/ Write(j) \/ WriteFails(j) \/ Assign(j)
  \/ ToolStores
  \/ \E p \in Process : \/ StoreSaves(p) \/ StoreFails(p) \/ OrphanWrites(p) \/ OrphanReturns(p)
                        \/ Start(p) \/ Stop(p) \/ Crash(p)
  \/ CallFeeds("list", "none") \/ \E url \in Url : CallFeeds("add", url) \/ CallFeeds("remove", url)
  \/ \E d \in Digest : CallForceRefresh(d)
  \/ CancelCall
  \/ UserEdits

Spec == Init /\ [][Next]_vars

-----------------------------------------------------------------------------
\* Decision D1 of feed_migrations.py: what the user did to the feed list stays.
\* A feed that was deleted, by the tool or by hand, does not come back and a feed
\* that was switched on again stays on, through every later migration, crash,
\* failed write and restart, unless the file became unreadable or the operation
\* of another process overlapped the change.
UserIntentKept ==
  file \in Document =>
    \A u \in Url :
      /\ asked[u] = "deleted" => u \notin UrlsOf(file.feeds)
      /\ asked[u] = "enabled" => \A i \in DOMAIN file.feeds : file.feeds[i].url = u => file.feeds[i].on

NoWorse(old, new) == old.items > 0 => new.items > 0 /\ new.at >= old.at

\* _store_payload's promise in one process: timers, forced refreshes, outages and
\* cancelled calls never put an older or an emptied digest in the place of the one
\* that is served, as long as the process lives.
DigestNeverGoesBack ==
  [][\A p \in live \cap live' : \A d \in Digest : NoWorse(mem[p][d], mem'[p][d])]_vars

\* The same for the digest files across crashes and restarts, as long as the
\* processes take turns: a restarted process continues from the file, so an outage
\* right after the restart does not blank it. The exception is a file that the
\* restarted process failed to read: it counts as empty, and the first refresh
\* replaces it with whatever it came to, nothing at all if there is an outage.
DiskNeverGoesBack ==
  [][alone' => \A d \in Digest \ unread : NoWorse(disk[d], disk'[d])]_vars

\* No refresh waits for a lock that nobody will leave: whoever is in the queue is
\* a task of a running process in the middle of a refresh, however others ended
\* (an exception of the store, of the disk, a cancelled call), and the first of
\* them can go on as soon as the store's operation in progress has returned.
LockNeverStranded ==
  \A p \in Process :
    /\ \A j \in ToSet(lock[p]) : p \in live /\ job[j].pc \in {"load", "fetch", "write", "assign"}
    /\ store[p].by # "nobody" => job[store[p].by].pc \in {"load", "tool"}
    /\ \A j \in JobsOf(p) : job[j].pc \in {"fetch", "write", "assign"} => HoldsLock(j)

-----------------------------------------------------------------------------
(* What makes the lock's invariant and the two action properties inductive. *)

\* The queue of a lock: tasks, each of them once.
Queues(S) == {q \in Seq(S) : \A i, k \in 1..Len(q) : q[i] = q[k] => i = k}

\* The digests of the fetches so far.
Past == {x \in [at : Nat, items : Nat] : x.at <= count.fetches}

\* What a refresh or a tool call has before it.
Todo == Digest \cup ({"load", "add", "remove"} \X (Url \cup {"none"}))

Task == [pc : {"idle", "load", "fetch", "write", "assign", "tool"}, todo : Seq(Todo),
         feeds : BOOLEAN, payload : Past]

IsOperation(s) == s = [by |-> s.by, kind |-> s.kind, url |-> s.url, saves |-> s.saves, on |-> s.on]

StoreTypes ==
  /\ DOMAIN store = Process
  /\ \A p \in Process : IsOperation(store[p]) /\ store[p].by \in JobsOf(p) \cup {"nobody"}

LockTypes ==
  /\ lock \in [Process -> Seq(Job)]
  /\ \A p \in Process : lock[p] \in Queues(JobsOf(p))

DigestTypes ==
  /\ live \subseteq Process
  /\ count \in [fetches : Nat, refreshes : Nat, events : Nat]
  /\ disk \in [Digest -> Past] /\ mem \in [Process -> [Digest -> Past]]
  /\ job \in [Job -> Task]
  /\ threads \in [Process -> SUBSET [in : Digest, payload : Past]]
  /\ LockTypes /\ StoreTypes

Refreshing(j) == job[j].pc \in {"load", "fetch", "write", "assign"}

\* Who is in a queue refreshes, who is busy has something to do, and only the
\* first of the queue is past the load of the feeds or in it.
LockInv ==
  /\ \A j \in Job :
       /\ job[j].pc # "idle" => ProcessOf(j) \in live /\ job[j].todo # <<>>
       /\ Refreshing(j) => job[j].todo \in Seq(Digest)
       /\ job[j].pc \in {"fetch", "write", "assign"} => HoldsLock(j)
  /\ \A p \in Process :
       /\ \A j \in ToSet(lock[p]) : Refreshing(j)
       /\ store[p].by # "nobody" =>
            /\ job[store[p].by].pc \in {"load", "tool"}
            /\ job[store[p].by].pc = "load" => HoldsLock(store[p].by)

\* The digest on its way to the disk is no worse than the one in memory.
MemoryInv ==
  \A j \in Job : job[j].pc \in {"write", "assign"} =>
    NoWorse(mem[ProcessOf(j)][Head(job[j].todo)], job[j].payload)

\* As long as the processes take turns, the one that lives has on disk what it has
\* in memory, but for the digest it has just written and those it could not read;
\* and the one that was stopped has left at most one write, which makes no digest
\* worse that was read.
DiskInv ==
  alone =>
    /\ \A p, q \in live : p = q
    /\ \A p \in Process : threads[p] # {} => live = {}
    /\ \A p, q \in Process : \A w \in threads[p], v \in threads[q] : p = q /\ w = v
    /\ \A p \in Process : \A w \in threads[p] : w.in \in unread \/ NoWorse(disk[w.in], w.payload)
    /\ \A p \in live :
         /\ \A j \in JobsOf(p) : job[j].pc = "assign" => disk[Head(job[j].todo)] = job[j].payload
         /\ \A d \in Digest : \/ disk[d] = mem[p][d] \/ d \in unread
                              \/ \E j \in JobsOf(p) : job[j].pc = "assign" /\ Head(job[j].todo) = d

DigestInv == DigestTypes /\ LockInv /\ MemoryInv /\ DiskInv

-----------------------------------------------------------------------------
(* What makes UserIntentKept inductive.                                    *)

\* What the user wishes of a url holds in the document and will hold after its
\* migrations: those that could bring a feed back or switch it off are recorded.
Respects(doc, wish) ==
  \A u \in Url : wish[u] # "nothing" =>
    /\ \A s \in ToSet(SupplementalFeeds) : <<"supplemental-feed", s>> \in doc.applied
    /\ \A r \in UrlsOf(doc.feeds) \cap DOMAIN UrlReplacements :
         UrlReplacements[r] = u => <<"url-replacement", r>> \in doc.applied
    /\ wish[u] = "deleted" => u \notin UrlsOf(doc.feeds)
    /\ wish[u] = "enabled" =>
         /\ \A i \in DOMAIN doc.feeds : doc.feeds[i].url = u => doc.feeds[i].on
         /\ u \in DisableUrls => <<"disable-dead-feed", u>> \in doc.applied

\* The saves of an operation in progress respect what the user will have asked
\* for by then.
SavesRespect(s, wish) ==
  /\ s.saves \in Seq(Document)
  /\ \A i \in DOMAIN s.saves : Respects(s.saves[i], Wish(wish, s, i))

\* The store operations of a tool call.
ToolStep == ({"load"} \X (Url \cup {"none"})) \cup ({"add", "remove"} \X Url)

IntentInv ==
  /\ asked \in [Url -> {"nothing", "deleted", "enabled"}]
  /\ file \in Document \cup {Missing, Corrupt}
  /\ IF file \in Document THEN Respects(file, asked) ELSE asked = NothingAsked
  /\ \A p \in Process : SavesRespect(store[p], asked)
  /\ \A j \in Job : job[j].pc = "tool" => ToSet(job[j].todo) \subseteq ToolStep
=============================================================================
