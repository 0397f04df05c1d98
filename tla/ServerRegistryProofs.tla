------------------------- MODULE ServerRegistryProofs -------------------------
(***************************************************************************)
(* Proofs about ServerRegistry, for any number of servers, domains and     *)
(* concurrent installs.                                                    *)
(***************************************************************************)
EXTENDS ServerRegistry, TLAPS

\* Normalising what is stored under an id changes the command at most.
LEMMA NormalType ==
  ASSUME NEW srv \in Server \union {NoServer}
  PROVE  /\ Normal(srv) \in Server \union {NoServer}
         /\ Normal(srv) = NoServer <=> srv = NoServer
         /\ srv # NoServer => Normal(srv).domain = srv.domain
         /\ WishOf(Normal(srv)) = WishOf(srv)
<1>1. CASE srv = NoServer
  BY <1>1 DEF Normal
<1>2. CASE srv # NoServer
  <2>1. srv \in Server
    BY <1>2
  <2>2. [srv EXCEPT !.command = "none"] \in Server
    BY <2>1 DEF Server
  <2>3. Normal(srv) \in Server
    BY <2>1, <2>2 DEF Normal
  <2>4. Normal(srv) # NoServer
    BY <2>3, RegistryAssumption
  <2>5. /\ Normal(srv).domain = srv.domain
        /\ Normal(srv).type = srv.type
        /\ Normal(srv).enabled = srv.enabled
    BY <2>1 DEF Normal, Server
  <2>6. QED
    BY <1>2, <2>3, <2>4, <2>5 DEF WishOf
<1>3. QED
  BY <1>1, <1>2

\* The wish behind a record.
LEMMA WishType ==
  ASSUME NEW srv \in Server \union {NoServer}
  PROVE  WishOf(srv) \in Wish \union {NoServer}
BY DEF WishOf, Server, Wish

\* The server document, its file and what was asked for have their types.
DocsTyped ==
  /\ servers \in [Ids -> Server \union {NoServer}]
  /\ serversFile \in [Ids -> Server \union {NoServer}]
  /\ asked \in [Ids -> Wish \union {NoServer}]
  /\ askedSaved \in [Ids -> Wish \union {NoServer}]

\* Readers see the same ids as in doc, in the same domains.
SeenAs(doc) ==
  \A k \in Ids :
    /\ servers'[k] = NoServer <=> doc[k] = NoServer
    /\ doc[k] # NoServer => servers'[k].domain = doc[k].domain

\* doc is what wanted asks for.
Fits(doc, wanted) == \A k \in Ids : WishOf(doc[k]) = wanted[k]

\* Storing a document, whether its write succeeds or raises.
LEMMA StoredKeeps ==
  ASSUME TypeOK, EditsSurviveUpgrades,
         NEW doc \in [Ids -> Server \union {NoServer}],
         NEW wanted \in [Ids -> Wish \union {NoServer}],
         Fits(doc, wanted),
         Stored(doc, wanted)
  PROVE  DocsTyped' /\ EditsSurviveUpgrades' /\ SeenAs(doc)
<1>1. CASE Written(doc, wanted)
  <2>1. \A k \in Ids : /\ servers'[k] = Normal(doc[k])
                       /\ Normal(doc[k]) \in Server \union {NoServer}
    BY <1>1, NormalType DEF Written
  <2>2. DocsTyped'
    BY <1>1, <2>1 DEF Written, DocsTyped
  <2>3. \A k \in Ids : WishOf(servers'[k]) = WishOf(doc[k])
    BY <2>1, NormalType
  <2>4. \A k \in Ids : WishOf(servers'[k]) = wanted[k]
    BY <2>3 DEF Fits
  <2>5. serversFile' = servers' /\ asked' = wanted /\ askedSaved' = wanted
    BY <1>1 DEF Written
  <2>6. EditsSurviveUpgrades'
    BY <2>4, <2>5 DEF EditsSurviveUpgrades
  <2>7. SeenAs(doc)
    BY <2>1, NormalType DEF SeenAs
  <2>8. QED
    BY <2>2, <2>6, <2>7
<1>2. CASE Unwritten(doc, wanted)
  <2>1. DocsTyped'
    BY <1>2 DEF Unwritten, DocsTyped, TypeOK
  <2>2. EditsSurviveUpgrades'
    BY <1>2 DEF Unwritten, EditsSurviveUpgrades, Fits
  <2>3. SeenAs(doc)
    BY <1>2 DEF Unwritten, SeenAs
  <2>4. QED
    BY <2>1, <2>2, <2>3
<1>3. QED
  BY <1>1, <1>2 DEF Stored

\* Replacing one record.
LEMMA PutKeeps ==
  ASSUME TypeOK, EditsSurviveUpgrades, NEW i \in Ids,
         NEW srv \in Server \union {NoServer},
         Stored(With(i, srv), Asking(i, srv))
  PROVE  DocsTyped' /\ EditsSurviveUpgrades' /\ SeenAs(With(i, srv))
<1>1. With(i, srv) \in [Ids -> Server \union {NoServer}]
  BY DEF With, TypeOK
<1>2. Asking(i, srv) \in [Ids -> Wish \union {NoServer}]
  BY WishType DEF Asking, TypeOK
<1>3. \A k \in Ids : WishOf(With(i, srv)[k]) = Asking(i, srv)[k]
  BY DEF With, Asking, TypeOK, EditsSurviveUpgrades
<1>4. Fits(With(i, srv), Asking(i, srv))
  BY <1>3 DEF Fits
<1>5. QED
  BY <1>1, <1>2, <1>4, StoredKeeps

\* An upgrade's update_fields: the command of the current record.
LEMMA CommandKeeps ==
  ASSUME TypeOK, EditsSurviveUpgrades, NEW i \in Ids, NEW eco \in Ecosystems,
         servers[i] # NoServer,
         Stored(With(i, [servers[i] EXCEPT !.command = eco]), asked)
  PROVE  /\ DocsTyped' /\ EditsSurviveUpgrades'
         /\ SeenAs(servers)
<1> DEFINE srv == [servers[i] EXCEPT !.command = eco]
<1>1. servers[i] \in Server
  BY DEF TypeOK
<1>2. srv \in Server
  BY <1>1 DEF Server, Ecosystems
<1>3. /\ srv.domain = servers[i].domain /\ srv.type = servers[i].type
      /\ srv.enabled = servers[i].enabled
  BY <1>1 DEF Server
<1>4. srv # NoServer
  BY <1>2, RegistryAssumption
<1> HIDE DEF srv
<1>5. WishOf(srv) = asked[i]
  BY <1>3, <1>4 DEF WishOf, EditsSurviveUpgrades
<1>6. With(i, srv) \in [Ids -> Server \union {NoServer}]
  BY <1>2 DEF With, TypeOK
<1>7. Fits(With(i, srv), asked)
  BY <1>5 DEF With, TypeOK, EditsSurviveUpgrades, Fits
<1>8. Stored(With(i, srv), asked) /\ asked \in [Ids -> Wish \union {NoServer}]
  BY DEF srv, TypeOK
<1>9. DocsTyped' /\ EditsSurviveUpgrades' /\ SeenAs(With(i, srv))
  BY <1>6, <1>7, <1>8, StoredKeeps
<1>10. \A k \in Ids : /\ With(i, srv)[k] = NoServer <=> servers[k] = NoServer
                      /\ servers[k] # NoServer => With(i, srv)[k].domain = servers[k].domain
  BY <1>3, <1>4 DEF With, TypeOK
<1>11. SeenAs(servers)
  BY <1>9, <1>10 DEF SeenAs
<1>12. QED
  BY <1>9, <1>11

\* setServerEnabled's update_fields.
LEMMA EnabledKeeps ==
  ASSUME TypeOK, EditsSurviveUpgrades, NEW i \in Ids, NEW enabled \in BOOLEAN,
         servers[i] # NoServer,
         Stored([servers EXCEPT ![i].enabled = enabled], [asked EXCEPT ![i].enabled = enabled])
  PROVE  /\ DocsTyped' /\ EditsSurviveUpgrades'
         /\ SeenAs(servers)
<1> DEFINE doc == [servers EXCEPT ![i].enabled = enabled]
           wanted == [asked EXCEPT ![i].enabled = enabled]
<1>1. servers[i] \in Server
  BY DEF TypeOK
<1>2. asked[i] = [domain |-> servers[i].domain, type |-> servers[i].type,
                  enabled |-> servers[i].enabled]
  BY DEF EditsSurviveUpgrades, WishOf
<1>3. doc[i] \in Server /\ doc[i] # NoServer
  BY <1>1, RegistryAssumption DEF TypeOK, Server
<1>4. /\ doc[i].domain = servers[i].domain /\ doc[i].type = servers[i].type
      /\ doc[i].enabled = enabled
  BY <1>1 DEF Server, TypeOK
<1>5. wanted[i] = [domain |-> servers[i].domain, type |-> servers[i].type, enabled |-> enabled]
  BY <1>2 DEF TypeOK
<1>6. wanted[i] \in Wish
  BY <1>1, <1>5 DEF Server, Wish
<1>7. WishOf(doc[i]) = wanted[i]
  BY <1>3, <1>4, <1>5 DEF WishOf
<1>8. \A k \in Ids \ {i} : doc[k] = servers[k] /\ wanted[k] = asked[k]
  BY DEF TypeOK
<1>9. doc \in [Ids -> Server \union {NoServer}]
  BY <1>3 DEF TypeOK
<1>10. wanted \in [Ids -> Wish \union {NoServer}]
  BY <1>6 DEF TypeOK
<1>11. Stored(doc, wanted)
  OBVIOUS
<1> HIDE DEF doc, wanted
<1>12. Fits(doc, wanted)
  BY <1>7, <1>8 DEF Fits, EditsSurviveUpgrades
<1>13. DocsTyped' /\ EditsSurviveUpgrades' /\ SeenAs(doc)
  BY <1>9, <1>10, <1>11, <1>12, StoredKeeps
<1>14. SeenAs(servers)
  BY <1>3, <1>4, <1>8, <1>13 DEF SeenAs
<1>15. QED
  BY <1>13, <1>14

\* The rest of the state has its types.
OthersTyped ==
  /\ domains \in SUBSET Domains /\ domainsFile \in SUBSET Domains
  /\ meta \in [Ids -> Ecosystems \union {NoMeta}]
  /\ job \in [Jobs -> Job \union {NoJob}]
  /\ late \in SUBSET Ids /\ torn \in SUBSET Ids /\ undone \in SUBSET Ids

\* Every handler keeps the types of the three documents and of the jobs, and the
\* records equal to what was asked for.
LEMMA TypeAndEditsStep ==
  ASSUME TypeOK, EditsSurviveUpgrades, [Next]_vars
  PROVE  TypeOK' /\ EditsSurviveUpgrades'
<1> DEFINE Goal == OthersTyped' /\ DocsTyped' /\ EditsSurviveUpgrades'
<1> SUFFICES Goal
  BY DEF TypeOK, DocsTyped, OthersTyped
<1>a. DocsTyped /\ OthersTyped
  BY DEF TypeOK, DocsTyped, OthersTyped
<1>b. ASSUME UNCHANGED <<servers, serversFile, asked, askedSaved>>
      PROVE  DocsTyped' /\ EditsSurviveUpgrades'
  BY <1>b, <1>a DEF DocsTyped, EditsSurviveUpgrades
<1>1. ASSUME NEW d \in Domains, CreateDomain(d) \/ DeleteDomain(d) PROVE Goal
  <2>1. OthersTyped'
    BY <1>1, <1>a DEF CreateDomain, DeleteDomain, StoreDomains, OthersTyped, history
  <2>2. QED
    BY <1>1, <1>b, <2>1 DEF CreateDomain, DeleteDomain, history
<1>2. ASSUME NEW i \in Ids, NEW d \in Domains, NEW enabled \in BOOLEAN,
             NEW type \in {"stdio", "http"},
             AddServer(i, d, type, enabled)
      PROVE  Goal
  <2> DEFINE srv == [domain |-> d, type |-> type, enabled |-> enabled, command |-> "manual"]
  <2>1. srv \in Server
    BY DEF Server
  <2>2. Normal(srv) \in Server \union {NoServer}
    BY <2>1, NormalType
  <2>3. Stored(With(i, Normal(srv)), Asking(i, Normal(srv))) /\ Settled(i)
    BY <1>2 DEF AddServer, Put
  <2>4. OthersTyped'
    BY <1>2, <1>a, <2>3 DEF AddServer, Settled, OthersTyped
  <2> HIDE DEF srv
  <2>5. QED
    BY <2>2, <2>3, <2>4, PutKeeps
<1>3. ASSUME NEW i \in Ids, NEW d \in Domains, NEW enabled \in BOOLEAN,
             NEW type \in {"stdio", "http"},
             NEW command \in Ecosystems \union {"manual"},
             UpdateServer(i, d, type, enabled, command)
      PROVE  Goal
  <2> DEFINE srv == [domain |-> d, type |-> type, enabled |-> enabled, command |-> command]
  <2>1. srv \in Server
    BY DEF Server
  <2>2. Normal(srv) \in Server \union {NoServer}
    BY <2>1, NormalType
  <2>3. Stored(With(i, Normal(srv)), Asking(i, Normal(srv))) /\ Settled(i)
    BY <1>3 DEF UpdateServer, Put
  <2>4. OthersTyped'
    BY <1>3, <1>a, <2>3 DEF UpdateServer, Settled, OthersTyped
  <2> HIDE DEF srv
  <2>5. QED
    BY <2>2, <2>3, <2>4, PutKeeps
<1>4. ASSUME NEW i \in Ids, NEW d \in Domains, NEW enabled \in BOOLEAN,
             RegisterManual(i, d, enabled)
      PROVE  Goal
  <2> DEFINE srv == [domain |-> d, type |-> "stdio", enabled |-> enabled,
                     command |-> "manual"]
  <2>1. srv \in Server
    BY DEF Server
  <2>2. Stored(With(i, srv), Asking(i, srv)) /\ Settled(i)
    BY <1>4 DEF RegisterManual, Put
  <2>3. OthersTyped'
    BY <1>4, <1>a, <2>2 DEF RegisterManual, Settled, OthersTyped, RemoveMeta, MetaKept
  <2> HIDE DEF srv
  <2>4. QED
    BY <2>1, <2>2, <2>3, PutKeeps
<1>5. ASSUME NEW i \in Ids, RegisterManualFails(i) PROVE Goal
  <2>1. OthersTyped'
    BY <1>5, <1>a DEF RegisterManualFails, RemoveMeta, OthersTyped
  <2>2. QED
    BY <1>5, <1>b, <2>1 DEF RegisterManualFails
<1>6. ASSUME NEW i \in Ids, DeleteServer(i) PROVE Goal
  <2>1. Stored(With(i, NoServer), Asking(i, NoServer))
    BY <1>6 DEF DeleteServer, Stored
  <2>2. OthersTyped'
    BY <1>6, <1>a DEF DeleteServer, Settled, OthersTyped, RemoveMeta, MetaKept
  <2>3. QED
    BY <2>1, <2>2, PutKeeps
<1>7. ASSUME NEW i \in Ids, NEW enabled \in BOOLEAN, SetServerEnabled(i, enabled)
      PROVE  Goal
  <2>1. OthersTyped'
    BY <1>7, <1>a DEF SetServerEnabled, OthersTyped
  <2>2. QED
    BY <1>7, <2>1, EnabledKeeps DEF SetServerEnabled
<1>8. ASSUME NEW j \in Jobs, NEW i \in Ids, NEW d \in Domains, NEW eco \in Ecosystems,
             StartRegister(j, i, d, eco)
      PROVE  Goal
  <2>1. [kind |-> "register", via |-> "either", id |-> i, domain |-> d, eco |-> eco] \in Job
    BY DEF Job
  <2>2. OthersTyped'
    BY <1>8, <1>a, <2>1 DEF StartRegister, OthersTyped, docs, history
  <2>3. QED
    BY <1>8, <1>b, <2>2 DEF StartRegister, docs, history
<1>9. ASSUME NEW j \in Jobs, NEW via \in Vias, NEW i \in Ids, StartUpgrade(j, via, i)
      PROVE  Goal
  <2>1. servers[i] \in Server /\ meta[i] \in Ecosystems
    BY <1>9, <1>a DEF StartUpgrade, DocsTyped, OthersTyped
  <2>2. [kind |-> "upgrade", via |-> via, id |-> i, domain |-> servers[i].domain,
         eco |-> meta[i]] \in Job
    BY <2>1 DEF Job, Server
  <2>3. OthersTyped'
    BY <1>9, <1>a, <2>2 DEF StartUpgrade, OthersTyped, docs, history
  <2>4. QED
    BY <1>9, <1>b, <2>3 DEF StartUpgrade, docs, history
<1>10. ASSUME NEW j \in Jobs, Abandon(j) PROVE Goal
  <2>1. OthersTyped'
    BY <1>10, <1>a DEF Abandon, OthersTyped, docs, history
  <2>2. QED
    BY <1>10, <1>b, <2>1 DEF Abandon, docs, history
<1>11. ASSUME NEW j \in Jobs, FinishRegister(j) PROVE Goal
  <2> DEFINE srv == [domain |-> job[j].domain, type |-> "stdio", enabled |-> TRUE,
                     command |-> job[j].eco]
  <2>1. job[j] \in Job
    BY <1>11, <1>a DEF FinishRegister, OthersTyped
  <2>2. job[j].id \in Ids /\ job[j].eco \in Ecosystems /\ srv \in Server
    BY <2>1 DEF Job, Server
  <2>3. Stored(With(job[j].id, srv), Asking(job[j].id, srv))
    BY <1>11 DEF FinishRegister, Stored
  <2>4. OthersTyped'
    BY <1>11, <1>a, <2>2 DEF FinishRegister, SetMeta, MetaKept, OthersTyped
  <2> HIDE DEF srv
  <2>5. QED
    BY <2>2, <2>3, <2>4, PutKeeps
<1>12. ASSUME NEW j \in Jobs, FinishUpgrade(j) PROVE Goal
  <2>1. job[j] \in Job
    BY <1>12, <1>a DEF FinishUpgrade, OthersTyped
  <2>2. job[j].id \in Ids /\ job[j].eco \in Ecosystems
    BY <2>1 DEF Job
  <2>3. Stored(With(job[j].id, [servers[job[j].id] EXCEPT !.command = job[j].eco]), asked)
    BY <1>12 DEF FinishUpgrade, Stored
  <2>4. OthersTyped'
    BY <1>12, <1>a, <2>2 DEF FinishUpgrade, SetMeta, MetaKept, OthersTyped
  <2>5. servers[job[j].id] # NoServer
    BY <1>12 DEF FinishUpgrade
  <2>6. QED
    BY <2>2, <2>3, <2>4, <2>5, CommandKeeps
<1>13. ASSUME NEW j \in Jobs, FinishUpgradeNoArgv(j) PROVE Goal
  <2>1. job[j].id \in Ids /\ job[j].eco \in Ecosystems
    BY <1>13, <1>a DEF FinishUpgradeNoArgv, OthersTyped, Job
  <2>2. OthersTyped'
    BY <1>13, <1>a, <2>1 DEF FinishUpgradeNoArgv, SetMeta, OthersTyped
  <2>3. QED
    BY <1>13, <1>b, <2>2 DEF FinishUpgradeNoArgv
<1>14. CASE Restart
  <2>1. OthersTyped'
    BY <1>14, <1>a DEF Restart, OthersTyped
  <2>2. DocsTyped'
    BY <1>14, <1>a DEF Restart, DocsTyped
  <2>3. EditsSurviveUpgrades'
    BY <1>14 DEF Restart, EditsSurviveUpgrades
  <2>4. QED
    BY <2>1, <2>2, <2>3
<1>15. CASE UNCHANGED vars
  <2>1. OthersTyped'
    BY <1>15, <1>a DEF vars, docs, history, OthersTyped
  <2>2. QED
    BY <1>15, <1>b, <2>1 DEF vars, docs, history
<1> HIDE DEF Goal
<1>16. QED
  BY <1>1, <1>2, <1>3, <1>4, <1>5, <1>6, <1>7, <1>8, <1>9, <1>10, <1>11,
     <1>12, <1>13, <1>14, <1>15
     DEF Next, Synchronous, Install

\* Storing metadata under an id, or failing to, leaves every other entry as it
\* was or loses it, and says nothing else of what other removals left behind.
LEMMA OtherEntries ==
  ASSUME TypeOK, NEW i \in Ids, NEW eco \in Ecosystems,
         SetMeta(i, eco) \/ MetaKept(i, eco),
         NEW k \in Ids, k # i
  PROVE  /\ meta'[k] \in {meta[k], NoMeta}
         /\ k \in torn' <=> k \in torn
<1>1. CASE SetMeta(i, eco)
  BY <1>1 DEF SetMeta, TypeOK
<1>2. CASE MetaKept(i, eco)
  BY <1>2 DEF MetaKept, TypeOK
<1>3. QED
  BY <1>1, <1>2

\* Where the two references of k point.
DomainThere(k) == servers[k] # NoServer => servers[k].domain \in domains
MetaThere(k) == meta[k] # NoMeta => servers[k] # NoServer \/ k \in torn

\* What one handler does to the references of one server.
SameServer(k) ==
  /\ servers'[k] = NoServer <=> servers[k] = NoServer
  /\ servers[k] # NoServer => servers'[k].domain = servers[k].domain
SameMeta(k) == /\ meta'[k] \in {meta[k], NoMeta}
               /\ k \in torn' <=> k \in torn

\* A server whose record and metadata a handler leaves alone keeps both references.
LEMMA Untouched ==
  ASSUME NEW k \in Ids, SameServer(k), SameMeta(k), domains \subseteq domains'
  PROVE  /\ DomainThere(k) => DomainThere(k)'
         /\ MetaThere(k) => MetaThere(k)'
BY DEF SameServer, SameMeta, DomainThere, MetaThere

\* Storing one record leaves the others alone, and readers see it.
LEMMA PutSeen ==
  ASSUME TypeOK, NEW i \in Ids, NEW srv \in Server \union {NoServer},
         SeenAs(With(i, srv))
  PROVE  /\ \A k \in Ids \ {i} : SameServer(k)
         /\ servers'[i] = NoServer <=> srv = NoServer
         /\ srv # NoServer => servers'[i].domain = srv.domain
BY DEF SeenAs, With, SameServer, TypeOK

\* The two references of k are in order, or one of the causes is recorded.
DomainCaused(k) == k \in late \union undone \/ DomainThere(k)
MetaCaused(k) == k \in late \union undone \/ MetaThere(k)
RestCaused(k) == k \in undone \/ MetaThere(k)

\* One step keeps them so.
Kept(k) ==
  /\ DomainCaused(k) => DomainCaused(k)'
  /\ MetaCaused(k) => MetaCaused(k)'
  /\ Vias = {"rest"} => (RestCaused(k) => RestCaused(k)')

\* A server a step leaves alone, its marks too.
LEMMA UntouchedKept ==
  ASSUME NEW k \in Ids, SameServer(k), SameMeta(k), domains \subseteq domains',
         k \in late' <=> k \in late, k \in undone' <=> k \in undone
  PROVE  Kept(k)
BY Untouched DEF Kept, DomainCaused, MetaCaused, RestCaused

\* A server stored anew, in a domain that is there or marked as late.
LEMMA AnewKept ==
  ASSUME NEW k \in Ids, servers'[k] # NoServer,
         servers'[k].domain \in domains' \/ k \in late'
  PROVE  Kept(k)
BY DEF Kept, DomainCaused, MetaCaused, RestCaused, DomainThere, MetaThere

\* Every step keeps every reference in order, or records why it is not.
LEMMA RefsStep ==
  ASSUME TypeOK, EditsSurviveUpgrades, [Next]_vars
  PROVE  \A k \in Ids : Kept(k)
<1> DEFINE Goal == \A k \in Ids : Kept(k)
<1> SUFFICES Goal
  OBVIOUS
<1>a. ASSUME UNCHANGED servers PROVE \A k \in Ids : SameServer(k)
  BY <1>a DEF SameServer
<1>b. ASSUME UNCHANGED <<meta, torn>> PROVE \A k \in Ids : SameMeta(k)
  BY <1>b DEF SameMeta
<1>c. ASSUME UNCHANGED <<docs, history>> PROVE Goal
  BY <1>c, <1>a, <1>b, UntouchedKept DEF docs, history
<1>d. ASSUME NEW i \in Ids, RemoveMeta(i) \/ MetaKept(i, NoMeta)
      PROVE  /\ \A k \in Ids \ {i} : SameMeta(k)
             /\ MetaThere(i)'
  BY <1>d DEF RemoveMeta, MetaKept, SameMeta, MetaThere, TypeOK
<1>e. ASSUME NEW i \in Ids, Settled(i)
      PROVE  \A k \in Ids \ {i} : (k \in late' <=> k \in late) /\ (k \in undone' <=> k \in undone)
  BY <1>e DEF Settled
<1>1. ASSUME NEW d \in Domains, CreateDomain(d) PROVE Goal
  BY <1>1, <1>a, <1>b, UntouchedKept DEF CreateDomain, StoreDomains, history
<1>2. ASSUME NEW d \in Domains, DeleteDomain(d) PROVE Goal
  <2> SUFFICES ASSUME NEW k \in Ids PROVE Kept(k)
    OBVIOUS
  <2>1. DomainThere(k) => DomainThere(k)'
    BY <1>2 DEF DeleteDomain, StoreDomains, ServersIn, DomainThere
  <2>2. MetaThere(k) => MetaThere(k)'
    BY <1>2 DEF DeleteDomain, history, MetaThere
  <2>3. QED
    BY <1>2, <2>1, <2>2 DEF DeleteDomain, history, Kept, DomainCaused, MetaCaused, RestCaused
<1>3. ASSUME NEW i \in Ids, NEW srv \in Server, srv.domain \in domains,
             Stored(With(i, srv), Asking(i, srv)), Settled(i), domains' = domains,
             UNCHANGED <<meta, torn>> \/ RemoveMeta(i) \/ MetaKept(i, NoMeta)
      PROVE  Goal
  <2>1. srv \in Server \union {NoServer} /\ srv # NoServer
    BY RegistryAssumption
  <2>2. SeenAs(With(i, srv))
    BY <1>3, <2>1, PutKeeps
  <2>3. /\ \A k \in Ids \ {i} : SameServer(k)
        /\ servers'[i] # NoServer /\ servers'[i].domain = srv.domain
    BY <2>1, <2>2, PutSeen
  <2>4. \A k \in Ids \ {i} : SameMeta(k)
    BY <1>3, <1>b, <1>d
  <2>5. \A k \in Ids \ {i} : Kept(k)
    BY <1>3, <1>e, <2>3, <2>4, UntouchedKept
  <2>6. Kept(i)
    BY <1>3, <2>3, AnewKept
  <2>7. QED
    BY <2>5, <2>6
<1>4. ASSUME NEW i \in Ids, NEW d \in Domains, NEW enabled \in BOOLEAN,
             NEW type \in {"stdio", "http"},
             NEW command \in Ecosystems \union {"manual"},
             AddServer(i, d, type, enabled) \/ UpdateServer(i, d, type, enabled, command)
      PROVE  Goal
  <2> DEFINE rec(c) == [domain |-> d, type |-> type, enabled |-> enabled, command |-> c]
  <2>1. PICK c \in Ecosystems \union {"manual"} : Put(i, Normal(rec(c)))
    BY <1>4 DEF AddServer, UpdateServer
  <2>2. rec(c) \in Server /\ rec(c).domain = d
    BY DEF Server
  <2>3. rec(c) # NoServer
    BY <2>2, RegistryAssumption
  <2>4. Normal(rec(c)) \in Server /\ Normal(rec(c)).domain = d
    BY <2>2, <2>3, NormalType
  <2>5. d \in domains /\ domains' = domains /\ UNCHANGED <<meta, torn>>
    BY <1>4 DEF AddServer, UpdateServer
  <2> HIDE DEF rec
  <2>6. Stored(With(i, Normal(rec(c))), Asking(i, Normal(rec(c)))) /\ Settled(i)
    BY <2>1 DEF Put
  <2>7. QED
    BY <1>3, <2>4, <2>5, <2>6
<1>5. ASSUME NEW i \in Ids, NEW d \in Domains, NEW enabled \in BOOLEAN,
             RegisterManual(i, d, enabled)
      PROVE  Goal
  <2> DEFINE srv == [domain |-> d, type |-> "stdio", enabled |-> enabled,
                     command |-> "manual"]
  <2>1. srv \in Server /\ srv.domain = d
    BY DEF Server
  <2>2. Stored(With(i, srv), Asking(i, srv)) /\ Settled(i)
    BY <1>5 DEF RegisterManual, Put
  <2>3. d \in domains /\ domains' = domains /\ (RemoveMeta(i) \/ MetaKept(i, NoMeta))
    BY <1>5 DEF RegisterManual
  <2> HIDE DEF srv
  <2>4. QED
    BY <1>3, <2>1, <2>2, <2>3
<1>6. ASSUME NEW i \in Ids, RegisterManualFails(i) PROVE Goal
  <2>1. \A k \in Ids \ {i} : Kept(k)
    BY <1>6, <1>a, <1>d, UntouchedKept DEF RegisterManualFails
  <2>2. DomainThere(i) => DomainThere(i)'
    BY <1>6 DEF RegisterManualFails, DomainThere
  <2>3. Kept(i)
    BY <1>6, <1>d, <2>2 DEF RegisterManualFails, Kept, DomainCaused, MetaCaused, RestCaused
  <2>4. QED
    BY <2>1, <2>3
<1>7. ASSUME NEW i \in Ids, DeleteServer(i) PROVE Goal
  <2>1. Stored(With(i, NoServer), Asking(i, NoServer))
    BY <1>7 DEF DeleteServer, Stored
  <2>2. SeenAs(With(i, NoServer))
    BY <2>1, PutKeeps
  <2>3. (\A k \in Ids \ {i} : SameServer(k)) /\ servers'[i] = NoServer
    BY <2>2, PutSeen
  <2>4. Settled(i) /\ domains' = domains /\ (RemoveMeta(i) \/ MetaKept(i, NoMeta))
    BY <1>7 DEF DeleteServer
  <2>5. \A k \in Ids \ {i} : Kept(k)
    BY <1>d, <1>e, <2>3, <2>4, UntouchedKept
  <2>6. DomainThere(i)' /\ MetaThere(i)'
    BY <1>d, <2>3, <2>4 DEF DomainThere
  <2>7. Kept(i)
    BY <2>6 DEF Kept, DomainCaused, MetaCaused, RestCaused
  <2>8. QED
    BY <2>5, <2>7
<1>8. ASSUME NEW i \in Ids, NEW enabled \in BOOLEAN, SetServerEnabled(i, enabled)
      PROVE  Goal
  <2>1. SeenAs(servers)
    BY <1>8, EnabledKeeps DEF SetServerEnabled
  <2>2. \A k \in Ids : SameServer(k)
    BY <2>1 DEF SeenAs, SameServer
  <2>3. QED
    BY <1>8, <1>b, <2>2, UntouchedKept DEF SetServerEnabled
<1>9. ASSUME NEW j \in Jobs, NEW i \in Ids, NEW d \in Domains, NEW eco \in Ecosystems,
             StartRegister(j, i, d, eco)
      PROVE  Goal
  BY <1>9, <1>c DEF StartRegister
<1>10. ASSUME NEW j \in Jobs, NEW via \in Vias, NEW i \in Ids, StartUpgrade(j, via, i)
       PROVE  Goal
  BY <1>10, <1>c DEF StartUpgrade
<1>11. ASSUME NEW j \in Jobs, Abandon(j) PROVE Goal
  BY <1>11, <1>c DEF Abandon
<1>12. ASSUME NEW j \in Jobs, FinishRegister(j) PROVE Goal
  <2> DEFINE srv == [domain |-> job[j].domain, type |-> "stdio", enabled |-> TRUE,
                     command |-> job[j].eco]
  <2>1. job[j] \in Job
    BY <1>12 DEF FinishRegister, TypeOK
  <2>i. PICK i \in Ids : i = job[j].id
    BY <2>1 DEF Job
  <2>2. job[j].eco \in Ecosystems /\ srv \in Server
    BY <2>1 DEF Job, Server
  <2>3. srv \in Server \union {NoServer} /\ srv # NoServer /\ srv.domain = job[j].domain
    BY <2>2, RegistryAssumption
  <2>4. Stored(With(i, srv), Asking(i, srv))
    BY <1>12, <2>i DEF FinishRegister, Stored
  <2>5. UNCHANGED <<meta, torn>> \/ SetMeta(i, job[j].eco) \/ MetaKept(i, job[j].eco)
    BY <1>12, <2>i DEF FinishRegister
  <2>6. /\ late' = IF job[j].domain \in domains THEN late \ {i} ELSE late \union {i}
        /\ undone' = undone \ {i} /\ domains' = domains
    BY <1>12, <2>i DEF FinishRegister
  <2> HIDE DEF srv
  <2>7. SeenAs(With(i, srv))
    BY <2>2, <2>3, <2>4, PutKeeps
  <2>8. /\ \A k \in Ids \ {i} : SameServer(k)
        /\ servers'[i] # NoServer /\ servers'[i].domain = job[j].domain
    BY <2>2, <2>3, <2>7, PutSeen
  <2>9. \A k \in Ids \ {i} : SameMeta(k)
    <3>1. CASE UNCHANGED <<meta, torn>>
      BY <3>1, <1>b
    <3>2. CASE SetMeta(i, job[j].eco) \/ MetaKept(i, job[j].eco)
      BY <3>2, <2>2, OtherEntries DEF SameMeta
    <3>3. QED
      BY <2>5, <3>1, <3>2
  <2>10. \A k \in Ids \ {i} : Kept(k)
    BY <2>6, <2>8, <2>9, UntouchedKept
  <2>11. Kept(i)
    BY <2>2, <2>6, <2>8, AnewKept
  <2>12. QED
    BY <2>10, <2>11
<1>13. ASSUME NEW j \in Jobs, FinishUpgrade(j) PROVE Goal
  <2>1. job[j] \in Job
    BY <1>13 DEF FinishUpgrade, TypeOK
  <2>i. PICK i \in Ids : i = job[j].id
    BY <2>1 DEF Job
  <2>2. job[j].eco \in Ecosystems
    BY <2>1 DEF Job
  <2>3. /\ Stored(With(i, [servers[i] EXCEPT !.command = job[j].eco]), asked)
        /\ servers[i] # NoServer
    BY <1>13, <2>i DEF FinishUpgrade, Stored
  <2>4. UNCHANGED <<meta, torn>> \/ SetMeta(i, job[j].eco) \/ MetaKept(i, job[j].eco)
    BY <1>13, <2>i DEF FinishUpgrade
  <2>5. UNCHANGED <<domains, late, undone>>
    BY <1>13 DEF FinishUpgrade
  <2>6. SeenAs(servers)
    BY <2>2, <2>3, CommandKeeps
  <2>7. \A k \in Ids : SameServer(k)
    BY <2>6 DEF SeenAs, SameServer
  <2>8. \A k \in Ids \ {i} : SameMeta(k)
    <3>1. CASE UNCHANGED <<meta, torn>>
      BY <3>1, <1>b
    <3>2. CASE SetMeta(i, job[j].eco) \/ MetaKept(i, job[j].eco)
      BY <3>2, <2>2, OtherEntries DEF SameMeta
    <3>3. QED
      BY <2>4, <3>1, <3>2
  <2>9. \A k \in Ids \ {i} : Kept(k)
    BY <2>5, <2>7, <2>8, UntouchedKept
  <2>10. servers'[i] # NoServer /\ servers'[i].domain = servers[i].domain
    BY <2>2, <2>3, <2>7 DEF SameServer
  <2>11. Kept(i)
    BY <2>3, <2>5, <2>10 DEF Kept, DomainCaused, MetaCaused, RestCaused, DomainThere, MetaThere
  <2>12. QED
    BY <2>9, <2>11
<1>14. ASSUME NEW j \in Jobs, FinishUpgradeNoArgv(j) PROVE Goal
  <2>1. job[j] \in Job /\ job[j].kind = "upgrade"
    BY <1>14 DEF FinishUpgradeNoArgv, TypeOK
  <2>i. PICK i \in Ids : i = job[j].id
    BY <2>1 DEF Job
  <2>2. job[j].eco \in Ecosystems /\ job[j].via \in Vias
    BY <2>1 DEF Job
  <2>3. /\ job[j].via = "rest" => servers[i] # NoServer
        /\ SetMeta(i, job[j].eco)
        /\ late' = IF servers[i] = NoServer THEN late \union {i} ELSE late
        /\ UNCHANGED <<domains, servers, undone>>
    BY <1>14, <2>i DEF FinishUpgradeNoArgv
  <2>4. \A k \in Ids \ {i} : SameMeta(k)
    BY <2>2, <2>3, OtherEntries DEF SameMeta
  <2>5. \A k \in Ids \ {i} : Kept(k)
    BY <1>a, <2>3, <2>4, UntouchedKept
  <2>6. DomainThere(i) => DomainThere(i)'
    BY <2>3 DEF DomainThere
  <2>7. servers[i] # NoServer => MetaThere(i)'
    BY <2>3 DEF MetaThere
  <2>8. Kept(i)
    BY <2>2, <2>3, <2>6, <2>7 DEF Kept, DomainCaused, MetaCaused, RestCaused
  <2>9. QED
    BY <2>5, <2>8
<1>15. CASE Restart
  <2> SUFFICES ASSUME NEW k \in Ids PROVE Kept(k)
    OBVIOUS
  <2>1. k \in undone' <=> k \in undone \/ Loses(k)
    BY <1>15 DEF Restart
  <2>2. ~Loses(k) /\ DomainThere(k) => DomainThere(k)'
    BY <1>15 DEF Restart, Loses, DomainThere
  <2>3. ~Loses(k) /\ MetaThere(k) => MetaThere(k)'
    BY <1>15 DEF Restart, Loses, MetaThere
  <2>4. QED
    BY <1>15, <2>1, <2>2, <2>3 DEF Restart, Kept, DomainCaused, MetaCaused, RestCaused
<1>16. CASE UNCHANGED vars
  BY <1>16, <1>c DEF vars
<1> HIDE DEF Goal
<1>17. QED
  BY <1>1, <1>2, <1>4, <1>5, <1>6, <1>7, <1>8, <1>9, <1>10, <1>11,
     <1>12, <1>13, <1>14, <1>15, <1>16
     DEF Next, Synchronous, Install

RegistryInv == TypeOK /\ EditsSurviveUpgrades /\ DanglingHasCause

\* The property, one server at a time.
LEMMA DanglingUnfolds ==
  DanglingHasCause <=> \A k \in Ids : DomainCaused(k) /\ MetaCaused(k)
BY DEF DanglingHasCause, DomainCaused, MetaCaused, DomainThere, MetaThere

\* The conjunction of the parts above is invariant.
LEMMA RegistryInvariant == Spec => []RegistryInv
<1>1. Init => RegistryInv
  BY RegistryAssumption
     DEF Init, RegistryInv, TypeOK, EditsSurviveUpgrades, DanglingHasCause, WishOf
<1>2. RegistryInv /\ [Next]_vars => RegistryInv'
  <2> SUFFICES ASSUME RegistryInv, [Next]_vars PROVE RegistryInv'
    OBVIOUS
  <2>1. TypeOK /\ EditsSurviveUpgrades
    BY DEF RegistryInv
  <2>2. TypeOK' /\ EditsSurviveUpgrades'
    BY <2>1, TypeAndEditsStep
  <2>3. \A k \in Ids : Kept(k)
    BY <2>1, RefsStep
  <2>4. \A k \in Ids : DomainCaused(k) /\ MetaCaused(k)
    BY DanglingUnfolds DEF RegistryInv
  <2>5. \A k \in Ids : DomainCaused(k)' /\ MetaCaused(k)'
    BY <2>3, <2>4 DEF Kept
  <2>6. DanglingHasCause'
    BY <2>5 DEF DanglingHasCause, DomainCaused, MetaCaused, DomainThere, MetaThere
  <2>7. QED
    BY <2>2, <2>6 DEF RegistryInv
<1>3. QED
  BY <1>1, <1>2, PTL DEF Spec

\* The three documents and the jobs in flight keep their types: an upgrade that
\* ends after its server was removed or replaced stores a well-formed record.
THEOREM TypeCorrect == Spec => []TypeOK
<1>1. RegistryInv => TypeOK
  BY DEF RegistryInv
<1>2. QED
  BY <1>1, RegistryInvariant, PTL

\* No upgrade, over REST or /mcp, loses an edit made while it ran, in the document
\* or in the file, whatever writes fail and restarts come in between.
THEOREM UpgradesKeepEdits == Spec => []EditsSurviveUpgrades
<1>1. RegistryInv => EditsSurviveUpgrades
  BY DEF RegistryInv
<1>2. QED
  BY <1>1, RegistryInvariant, PTL

\* A server in a domain that does not exist, or metadata of a server that does
\* not exist, comes from an install that outlived it, from a removal that did not
\* get through its second write, or from a restart that lost a failed write.
THEOREM DanglingReferencesHaveCauses == Spec => []DanglingHasCause
<1>1. RegistryInv => DanglingHasCause
  BY DEF RegistryInv
<1>2. QED
  BY <1>1, RegistryInvariant, PTL

\* With the REST routes alone, package metadata outlives its server only where a
\* removal did not get through its second write or a restart lost a failed write.
THEOREM RestKeepsMetaConsistent ==
  ASSUME Vias = {"rest"}
  PROVE  Spec => []MetaHasServer
<1>a. MetaHasServer <=> \A k \in Ids : RestCaused(k)
  BY DEF MetaHasServer, RestCaused, MetaThere
<1>1. Init => MetaHasServer
  BY DEF Init, MetaHasServer
<1>2. RegistryInv /\ MetaHasServer /\ [Next]_vars => MetaHasServer'
  <2> SUFFICES ASSUME RegistryInv, MetaHasServer, [Next]_vars PROVE MetaHasServer'
    OBVIOUS
  <2>1. \A k \in Ids : Kept(k)
    BY RefsStep DEF RegistryInv
  <2>2. \A k \in Ids : RestCaused(k)'
    BY <1>a, <2>1 DEF Kept
  <2>3. QED
    BY <2>2 DEF MetaHasServer, RestCaused, MetaThere
<1>3. QED
  BY <1>1, <1>2, RegistryInvariant, PTL DEF Spec
===============================================================================
