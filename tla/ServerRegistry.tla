--------------------------- MODULE ServerRegistry ---------------------------
(***************************************************************************)
(* The administration of upstream servers: the REST routes of              *)
(* api/servers.py and api/domains.py and the admin tools of the /mcp       *)
(* endpoint, over three documents that no common lock protects:            *)
(* servers.json, domains.json and stdio-packages.json.                     *)
(*                                                                         *)
(* Handlers are coroutines on one event loop.  Most run without an await,  *)
(* so they are single steps.  Registering and upgrading a package await a  *)
(* pip or npm install of up to fifteen minutes, during which every other   *)
(* handler may run: such a handler is a job with a start and an end.       *)
(*                                                                         *)
(* Handlers read the servers and the domains in documents that their       *)
(* stores share and change BEFORE writing them.  A write that raises ends  *)
(* the handler and leaves the change in the document, for every later read *)
(* and for the next write of that file, until a restart reads the file     *)
(* again.  The metadata is read from its file every time.  Each file is    *)
(* replaced as a whole (JsonStore); the process may die, or a write may    *)
(* raise, between two of them.                                             *)
(***************************************************************************)
EXTENDS Naturals

CONSTANTS
  Ids,         \* server ids
  Domains,     \* domain ids
  DefaultDom,  \* the domain that cannot be removed
  Jobs,        \* installs that may be in flight at once
  NoServer,    \* no record under an id
  NoMeta,      \* no package metadata under an id
  NoJob,       \* the job is not running
  Vias         \* where jobs come from: "rest" (api/servers.py), "mcp" (admin tools)

Ecosystems == {"pypi", "npm"}

\* A command is told apart by who determined it: an installer or a person; an
\* http server has none.
Server == [domain : Domains, type : {"stdio", "http"}, enabled : BOOLEAN,
           command : Ecosystems \union {"manual", "none"}]

\* What an administrator decides about a server.
Wish == [domain : Domains, type : {"stdio", "http"}, enabled : BOOLEAN]

\* Registrations do the same over REST and /mcp; upgrades do not.
Job == [kind : {"register"}, via : {"either"}, id : Ids, domain : Domains, eco : Ecosystems]
         \union
       [kind : {"upgrade"}, via : Vias, id : Ids, domain : Domains, eco : Ecosystems]

ASSUME RegistryAssumption ==
  /\ DefaultDom \in Domains
  /\ NoServer \notin Server \union Wish
  /\ NoMeta \notin Ecosystems
  /\ Vias \subseteq {"rest", "mcp"}
  /\ NoJob \notin Job

VARIABLES
  domains,      \* DomainStore: the ids handlers see, the shared document
  domainsFile,  \* domains.json
  servers,      \* ServerConfigStore: the records handlers see, the shared document
  serversFile,  \* servers.json
  meta,         \* stdio-packages.json: the ecosystem of a managed server
  job,          \* what a handler awaiting an install remembers
  asked,        \* history: what administrators last asked for, per server
  askedSaved,   \* history: 'asked' when servers.json was last written
  late,         \* history: ids an install wrote to after their domain or server was removed
  torn,         \* history: ids whose metadata is not what it should have become
  undone        \* history: ids a restart took back to an older state

docs == <<domains, domainsFile, servers, serversFile, meta>>
history == <<asked, askedSaved, late, torn, undone>>
vars == <<docs, job, history>>

TypeOK ==
  /\ domains \in SUBSET Domains
  /\ domainsFile \in SUBSET Domains
  /\ servers \in [Ids -> Server \union {NoServer}]
  /\ serversFile \in [Ids -> Server \union {NoServer}]
  /\ meta \in [Ids -> Ecosystems \union {NoMeta}]
  /\ job \in [Jobs -> Job \union {NoJob}]
  /\ asked \in [Ids -> Wish \union {NoServer}]
  /\ askedSaved \in [Ids -> Wish \union {NoServer}]
  /\ late \in SUBSET Ids
  /\ torn \in SUBSET Ids
  /\ undone \in SUBSET Ids

Init ==
  /\ domains = {DefaultDom}
  /\ domainsFile = {DefaultDom}
  /\ servers = [i \in Ids |-> NoServer]
  /\ serversFile = [i \in Ids |-> NoServer]
  /\ meta = [i \in Ids |-> NoMeta]
  /\ job = [j \in Jobs |-> NoJob]
  /\ asked = [i \in Ids |-> NoServer]
  /\ askedSaved = [i \in Ids |-> NoServer]
  /\ late = {}
  /\ torn = {}
  /\ undone = {}

\* UpstreamServer.type_consistency, applied when a record is built and again
\* when servers.json is parsed: an http server has no command.
Normal(srv) ==
  IF srv # NoServer /\ srv.type = "http" THEN [srv EXCEPT !.command = "none"] ELSE srv

\* A record without its command.
WishOf(srv) ==
  IF srv = NoServer THEN NoServer
  ELSE [domain |-> srv.domain, type |-> srv.type, enabled |-> srv.enabled]

\* _write_unlocked of the domains: the document has changed; the write may raise.
StoreDomains(doc) ==
  /\ domains' = doc
  /\ domainsFile' = doc \/ UNCHANGED domainsFile

\* _write_unlocked of the servers: the file is replaced and parsed at the next
\* read.  'wanted' is what administrators have asked for by now.
Written(doc, wanted) ==
  /\ servers' = [i \in Ids |-> Normal(doc[i])]
  /\ serversFile' = servers'
  /\ asked' = wanted
  /\ askedSaved' = wanted

\* _write_unlocked raises: the document is neither stored nor dropped.
Unwritten(doc, wanted) ==
  /\ servers' = doc
  /\ asked' = wanted
  /\ UNCHANGED <<serversFile, askedSaved>>

Stored(doc, wanted) == Written(doc, wanted) \/ Unwritten(doc, wanted)

\* The document when i has the record srv, and what is then asked for.
With(i, srv) == [servers EXCEPT ![i] = srv]
Asking(i, srv) == [asked EXCEPT ![i] = WishOf(srv)]

\* What is known of i's references no longer depends on its former record.
Settled(i) ==
  /\ late' = late \ {i}
  /\ undone' = undone \ {i}

\* add, update: store one record.
Put(i, srv) ==
  /\ Stored(With(i, srv), Asking(i, srv))
  /\ Settled(i)

\* set_stdio_meta: the entry is added to what _load_unlocked returns, which is
\* nothing when the file cannot be read.
SetMeta(i, eco) ==
  /\ \/ meta' = [meta EXCEPT ![i] = eco]
     \/ meta' = [k \in Ids |-> IF k = i THEN eco ELSE NoMeta]
  /\ torn' = torn \ {i}

\* remove_stdio_meta
RemoveMeta(i) ==
  /\ meta' = [meta EXCEPT ![i] = NoMeta]
  /\ torn' = torn \ {i}

\* The write of the metadata raises, the process dies before it, a failed write
\* of the servers ends the handler first, or remove_stdio_meta cannot read the
\* file and finds nothing to remove.
MetaKept(i, wanted) ==
  /\ meta' = meta
  /\ torn' = IF meta[i] = wanted THEN torn \ {i} ELSE torn \union {i}

-----------------------------------------------------------------------------
(***************************************************************************)
(* Handlers without an await.                                              *)
(***************************************************************************)

\* POST /domains
CreateDomain(d) ==
  /\ d \notin domains
  /\ StoreDomains(domains \union {d})
  /\ UNCHANGED <<servers, serversFile, meta, job, history>>

ServersIn(d) == {i \in Ids : servers[i] # NoServer /\ servers[i].domain = d}

\* Mutant of DeleteDomain: the servers of the domain are not looked at.
MutDeleteDomain(d) ==
  /\ d \in domains
  /\ d # DefaultDom
  /\ StoreDomains(domains \ {d})
  /\ UNCHANGED <<servers, serversFile, meta, job, history>>

\* DELETE /domains/{id}: 409 while servers use it, 400 for the default domain.
DeleteDomain(d) ==
  /\ d \in domains
  /\ d # DefaultDom
  /\ ServersIn(d) = {}
  /\ StoreDomains(domains \ {d})
  /\ UNCHANGED <<servers, serversFile, meta, job, history>>

\* POST /servers: 400 unknown domain, 409 known id.  What is stored has no
\* effect on package metadata.
AddServer(i, d, type, enabled) ==
  /\ d \in domains
  /\ servers[i] = NoServer
  /\ Put(i, Normal([domain |-> d, type |-> type, enabled |-> enabled,
                    command |-> "manual"]))
  /\ UNCHANGED <<domains, domainsFile, meta, job, torn>>

\* PUT /servers/{id}: the whole record is replaced, by one that may go back to
\* a command read earlier; metadata stays.
UpdateServer(i, d, type, enabled, command) ==
  /\ d \in domains
  /\ servers[i] # NoServer
  /\ Put(i, Normal([domain |-> d, type |-> type, enabled |-> enabled,
                    command |-> command]))
  /\ UNCHANGED <<domains, domainsFile, meta, job, torn>>

\* DELETE /servers/{id}, removeServer: the metadata is reached only when the
\* servers were written.
DeleteServer(i) ==
  /\ servers[i] # NoServer
  /\ \/ /\ Written(With(i, NoServer), Asking(i, NoServer))
        /\ RemoveMeta(i) \/ MetaKept(i, NoMeta)
     \/ /\ Unwritten(With(i, NoServer), Asking(i, NoServer))
        /\ MetaKept(i, NoMeta)
  /\ Settled(i)
  /\ UNCHANGED <<domains, domainsFile, job>>

\* setServerEnabled: update_fields on the current record.
SetServerEnabled(i, enabled) ==
  /\ servers[i] # NoServer
  /\ Stored([servers EXCEPT ![i].enabled = enabled],
            [asked EXCEPT ![i].enabled = enabled])
  /\ UNCHANGED <<domains, domainsFile, meta, job, late, torn, undone>>

\* registerManualStdioServer: upsert without an install; the server is no
\* longer managed: its metadata is removed first.  'enabled' may be given or kept.
RegisterManual(i, d, enabled) ==
  /\ d \in domains
  /\ servers[i] # NoServer => servers[i].type = "stdio"
  /\ RemoveMeta(i) \/ MetaKept(i, NoMeta)
  /\ Put(i, [domain |-> d, type |-> "stdio", enabled |-> enabled,
             command |-> "manual"])
  /\ UNCHANGED <<domains, domainsFile, job>>

\* The servers cannot be read any more, or the process dies, after the metadata
\* was removed.
RegisterManualFails(i) ==
  /\ servers[i] # NoServer => servers[i].type = "stdio"
  /\ RemoveMeta(i)
  /\ UNCHANGED <<domains, domainsFile, servers, serversFile, job,
                 asked, askedSaved, late, undone>>

-----------------------------------------------------------------------------
(***************************************************************************)
(* Handlers that await an install.                                         *)
(***************************************************************************)

\* register-stdio-package, registerStdioServer: the domain is checked before
\* the install starts.
StartRegister(j, i, d, eco) ==
  /\ job[j] = NoJob
  /\ d \in domains
  /\ job' = [job EXCEPT ![j] = [kind |-> "register", via |-> "either", id |-> i,
                                domain |-> d, eco |-> eco]]
  /\ UNCHANGED <<docs, history>>

\* upgrade-stdio-package, upgradeStdioServer: server and metadata are read
\* before the install starts.
StartUpgrade(j, via, i) ==
  /\ job[j] = NoJob
  /\ servers[i] # NoServer /\ servers[i].type = "stdio"
  /\ meta[i] # NoMeta
  /\ job' = [job EXCEPT ![j] = [kind |-> "upgrade", via |-> via, id |-> i,
                                domain |-> servers[i].domain, eco |-> meta[i]]]
  /\ UNCHANGED <<docs, history>>

\* The install fails, finds no runnable CLI for a new server, raises, or the
\* handler finds the id taken by an http server; or an /mcp call is cancelled
\* and _install_in_thread tears the installer down.  Nothing is stored.
Abandon(j) ==
  /\ job[j] # NoJob
  /\ job' = [job EXCEPT ![j] = NoJob]
  /\ UNCHANGED <<docs, history>>

\* A restart loses i's removal, its creation, its move, or the creation of the
\* domain its stored record is in.
Loses(i) ==
  \/ servers[i] = NoServer /\ serversFile[i] # NoServer
  \/ servers[i] # NoServer /\ serversFile[i] = NoServer
  \/ /\ servers[i] # NoServer /\ serversFile[i] # NoServer
     /\ \/ servers[i].domain # serversFile[i].domain
        \/ serversFile[i].domain \in domains \ domainsFile

\* The process dies and starts again: the files are what is left.  Installs are
\* gone with their handlers.
Restart ==
  /\ domains' = domainsFile
  /\ servers' = serversFile
  /\ asked' = askedSaved
  /\ job' = [j \in Jobs |-> NoJob]
  /\ undone' = undone \union {i \in Ids : Loses(i)}
  /\ UNCHANGED <<domainsFile, serversFile, meta, askedSaved, late, torn>>

\* Mutant of FinishRegister: set_stdio_meta gets the wrong argument.
MutFinishRegister(j) ==
  /\ job[j] # NoJob /\ job[j].kind = "register"
  /\ meta' = [meta EXCEPT ![job[j].id] = job[j].domain]
  /\ job' = [job EXCEPT ![j] = NoJob]
  /\ UNCHANGED <<domains, domainsFile, servers, serversFile, history>>

\* A new package is installed: add the server, or replace the record that is
\* there now.  The domain is not checked again.
FinishRegister(j) ==
  /\ job[j] # NoJob /\ job[j].kind = "register"
  /\ LET i == job[j].id
         srv == [domain |-> job[j].domain, type |-> "stdio", enabled |-> TRUE,
                 command |-> job[j].eco]
     IN  /\ servers[i] # NoServer => servers[i].type = "stdio"
         /\ \/ /\ Written(With(i, srv), Asking(i, srv))
               /\ SetMeta(i, job[j].eco) \/ MetaKept(i, job[j].eco)
            \/ /\ Unwritten(With(i, srv), Asking(i, srv))
               /\ UNCHANGED <<meta, torn>>
         /\ late' = IF job[j].domain \in domains THEN late \ {i} ELSE late \union {i}
         /\ undone' = undone \ {i}
  /\ job' = [job EXCEPT ![j] = NoJob]
  /\ UNCHANGED <<domains, domainsFile>>

\* Mutant of FinishUpgrade: what was read before the install is written back.
MutFinishUpgrade(j) ==
  /\ job[j] # NoJob /\ job[j].kind = "upgrade"
  /\ servers[job[j].id] # NoServer
  /\ Written(With(job[j].id, [servers[job[j].id] EXCEPT !.command = job[j].eco,
                                                        !.domain = job[j].domain]),
             asked)
  /\ SetMeta(job[j].id, job[j].eco)
  /\ job' = [job EXCEPT ![j] = NoJob]
  /\ UNCHANGED <<domains, domainsFile, late, undone>>

\* An upgrade found a CLI: update_fields replaces 'command' on the CURRENT
\* record, and fails if there is none.
FinishUpgrade(j) ==
  /\ job[j] # NoJob /\ job[j].kind = "upgrade"
  /\ servers[job[j].id] # NoServer
  /\ LET i == job[j].id
         doc == With(i, [servers[i] EXCEPT !.command = job[j].eco])
     IN  \/ /\ Written(doc, asked)
            /\ SetMeta(i, job[j].eco) \/ MetaKept(i, job[j].eco)
         \/ /\ Unwritten(doc, asked)
            /\ UNCHANGED <<meta, torn>>
  /\ job' = [job EXCEPT ![j] = NoJob]
  /\ UNCHANGED <<domains, domainsFile, late, undone>>

\* The installer suggests no CLI: the command is kept.  The REST route reads
\* the server again, and gives up when it is gone or has no command; the admin
\* tool goes straight on to the metadata.
FinishUpgradeNoArgv(j) ==
  /\ job[j] # NoJob /\ job[j].kind = "upgrade"
  /\ job[j].via = "rest" =>
       servers[job[j].id] # NoServer /\ servers[job[j].id].command # "none"
  /\ SetMeta(job[j].id, job[j].eco)
  /\ late' = IF servers[job[j].id] = NoServer THEN late \union {job[j].id} ELSE late
  /\ job' = [job EXCEPT ![j] = NoJob]
  /\ UNCHANGED <<domains, domainsFile, servers, serversFile, asked, askedSaved, undone>>

-----------------------------------------------------------------------------
Synchronous ==
  \/ \E d \in Domains : CreateDomain(d) \/ DeleteDomain(d)
  \/ \E i \in Ids, d \in Domains, enabled \in BOOLEAN :
       \/ \E type \in {"stdio", "http"} :
            \/ AddServer(i, d, type, enabled)
            \/ \E command \in Ecosystems \union {"manual"} :
                 UpdateServer(i, d, type, enabled, command)
       \/ RegisterManual(i, d, enabled)
  \/ \E i \in Ids : DeleteServer(i) \/ RegisterManualFails(i)
  \/ \E i \in Ids, enabled \in BOOLEAN : SetServerEnabled(i, enabled)

Install ==
  \/ \E j \in Jobs, i \in Ids, d \in Domains, eco \in Ecosystems :
       StartRegister(j, i, d, eco)
  \/ \E j \in Jobs, via \in Vias, i \in Ids : StartUpgrade(j, via, i)
  \/ \E j \in Jobs : \/ Abandon(j)
                     \/ FinishRegister(j)
                     \/ FinishUpgrade(j)
                     \/ FinishUpgradeNoArgv(j)

Next == Synchronous \/ Install \/ Restart

Spec == Init /\ [][Next]_vars
-----------------------------------------------------------------------------
(***************************************************************************)
(* Properties.                                                             *)
(***************************************************************************)

\* The configuration of a server is what administrators last asked for, in
\* everything but the command: an upgrade that ran for minutes neither rolls
\* back an edit, an enable/disable or a move made meanwhile, nor brings back a
\* server removed meanwhile ("must not be rolled back by writing a pre-upgrade
\* snapshot", upgradeStdioServer; audit M-3 for the REST route).  An edit whose
\* write failed counts as asked for: it is in the shared document, and the next
\* write of servers.json stores it, an upgrade's too.  The file, which a restart
\* goes back to, holds what had been asked for when it was last written.
EditsSurviveUpgrades ==
  \A i \in Ids : /\ WishOf(servers[i]) = asked[i]
                 /\ WishOf(serversFile[i]) = askedSaved[i]

\* A reference to something removed has one of three causes: an install that
\* outlived its domain or server (late); a removal that ended before or during
\* its second write (torn, metadata only); a restart that lost a removal, a
\* creation or a move whose write had failed (undone).  Every other handler keeps
\* both references (_validate_domain, the 409 of delete_domain, and
\* remove_stdio_meta wherever a server is removed), and they hold again once the
\* server is stored anew.
DanglingHasCause ==
  \A i \in Ids \ (late \union undone) :
    /\ servers[i] # NoServer => servers[i].domain \in domains
    /\ meta[i] # NoMeta => servers[i] # NoServer \/ i \in torn

\* Package metadata exists only for a server that exists, unless the server's
\* removal never reached its second write or a restart lost its creation: what
\* delete_server and removeServer establish, and what an upgrade must not undo
\* ("Server was removed during upgrade" is an error of upgradeStdioServer).
MetaHasServer ==
  \A i \in Ids \ (torn \union undone) : meta[i] # NoMeta => servers[i] # NoServer
=============================================================================
