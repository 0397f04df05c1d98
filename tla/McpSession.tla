----------------------------- MODULE McpSession -----------------------------
(***************************************************************************)
(* A /mcp request on its way through the proxy, and the stateful session   *)
(* it opens, uses or deletes.                                              *)
(*                                                                         *)
(* Every HTTP request runs in a task of its own: the tracker middleware    *)
(* resolves the bearer token and writes the session's identity slot, the   *)
(* auth middleware admits or rejects, the session manager routes to a      *)
(* transport.  The tool handler does NOT run in that task: it runs in the  *)
(* session's loop and learns who is calling from the slot, which requests  *)
(* of the same session share.  All tasks share one event loop, so a step   *)
(* of the model is the code between two awaits.                            *)
(***************************************************************************)
EXTENDS Naturals, FiniteSets

CONSTANTS
  Clients,      \* API clients (bearer tokens)
  NoClient,     \* no bearer, or one that resolves to nobody
  MaxRequests,  \* bound on the number of requests
  Sessions,     \* session ids (uuid4, never reused)
  NoSession,    \* the request has no mcp-session-id header
  NoSlot,       \* the session has no identity slot
  Credentials,  \* what a request may carry: [client, cookie]
  AuthEnabled,  \* settings.auth_enabled
  StoreFails,   \* may the client store raise on both attempts?
  MaxEpoch      \* bound on the number of edits of the client store

\* Requests are numbered in the order they arrive.
Requests == 1..MaxRequests
NoRequest == 0

ASSUME McpSessionAssumption ==
  /\ NoClient \notin Clients
  /\ MaxRequests \in Nat
  /\ NoSession \notin Sessions
  /\ Credentials \subseteq [client : Clients \union {NoClient}, cookie : BOOLEAN]
  /\ AuthEnabled \in BOOLEAN /\ StoreFails \in BOOLEAN
  /\ MaxEpoch \in Nat
  /\ NoSlot \notin [client : Clients \union {NoClient}, canAdmin : BOOLEAN,
                    adminSession : BOOLEAN, asof : Nat]

VARIABLES
  clients,      \* ClientTokenStore: [known, canAdmin] of every client
  epoch,        \* history: edits of the client store so far
  grants,       \* history: <<c, e>> when c held can_admin at epoch e
  pc,           \* where the HTTP task of a request is
  kind,         \* "open" (no session header), "call" or "delete"
  cred,         \* the request's credential
  target,       \* the session it names, or opened
  ctx,          \* ContextVars of the HTTP task: the identity the middleware bound
  running,      \* requests whose handler is running in the session's loop
  seen,         \* history: the identity a running handler read last
  adminRun,     \* history: running handlers past the admin gate
  instances,    \* _server_instances
  terminated,   \* sessions whose transport.is_terminated
  opened,       \* session ids handed out
  slot,         \* _session_identities
  users,        \* history: credentials that wrote a session's slot
  creationLock  \* holder of _session_creation_lock

storeVars == <<clients, epoch, grants>>
reqVars == <<pc, kind, cred, target, ctx>>
handlerVars == <<running, seen, adminRun>>
sessionVars == <<instances, terminated, opened, slot, users, creationLock>>
vars == <<storeVars, reqVars, handlerVars, sessionVars>>

Identity == [client : Clients \union {NoClient}, canAdmin : BOOLEAN,
             adminSession : BOOLEAN, asof : Nat]
Anyone == [client : Clients \union {NoClient}, cookie : BOOLEAN]
Anonymous == [client |-> NoClient, canAdmin |-> FALSE,
              adminSession |-> FALSE, asof |-> 0]

TypeOK ==
  /\ clients \in [Clients -> [known : BOOLEAN, canAdmin : BOOLEAN]]
  /\ epoch \in Nat
  /\ grants \in SUBSET (Clients \X Nat)
  /\ pc \in [Requests -> {"new", "bound", "authorized", "transport", "handling",
                          "returning", "done"}]
  /\ kind \in [Requests -> {"open", "call", "delete"}]
  /\ cred \in [Requests -> Anyone]
  /\ target \in [Requests -> Sessions \union {NoSession}]
  /\ ctx \in [Requests -> Identity]
  /\ running \in SUBSET Requests
  /\ seen \in [Requests -> Identity \union {NoSlot}]
  /\ adminRun \in SUBSET Requests
  /\ instances \in SUBSET Sessions
  /\ terminated \in SUBSET Sessions
  /\ opened \in SUBSET Sessions
  /\ slot \in [Sessions -> Identity \union {NoSlot}]
  /\ users \in [Sessions -> SUBSET Anyone]
  /\ creationLock \in Requests \union {NoRequest}

Init ==
  /\ clients \in [Clients -> [known : {TRUE}, canAdmin : BOOLEAN]]
  /\ epoch = 0
  /\ grants = {c \in Clients : clients[c].canAdmin} \X {0}
  /\ pc = [r \in Requests |-> "new"]
  /\ kind = [r \in Requests |-> "open"]
  /\ cred = [r \in Requests |-> [client |-> NoClient, cookie |-> FALSE]]
  /\ target = [r \in Requests |-> NoSession]
  /\ ctx = [r \in Requests |-> Anonymous]
  /\ running = {}
  /\ seen = [r \in Requests |-> NoSlot]
  /\ adminRun = {}
  /\ instances = {} /\ terminated = {} /\ opened = {}
  /\ slot = [s \in Sessions |-> NoSlot]
  /\ users = [s \in Sessions |-> {}]
  /\ creationLock = NoRequest

-----------------------------------------------------------------------------
(***************************************************************************)
(* The client store, edited by an administrator at any moment.             *)
(***************************************************************************)

\* PATCH /api/clients/{id} (the can_admin flag stands for the policy), or
\* DELETE /api/clients/{id}.
EditClient(c, record) ==
  /\ epoch < MaxEpoch
  /\ clients[c].known
  /\ record # clients[c]
  /\ clients' = [clients EXCEPT ![c] = record]
  /\ epoch' = epoch + 1
  /\ grants' = grants \union
       ({d \in Clients : clients'[d].known /\ clients'[d].canAdmin} \X {epoch + 1})
  /\ UNCHANGED <<reqVars, handlerVars, sessionVars>>

-----------------------------------------------------------------------------
(***************************************************************************)
(* The HTTP task: McpLiveTrackerMiddleware, AuthEnforcementMiddleware and  *)
(* the session manager.                                                    *)
(***************************************************************************)

Resolves(c) == c # NoClient /\ clients[c].known

\* The identity the tracker middleware binds for a credential.
Bound(cr) ==
  [client |-> IF Resolves(cr.client) THEN cr.client ELSE NoClient,
   canAdmin |-> Resolves(cr.client) /\ clients[cr.client].canAdmin,
   adminSession |-> cr.cookie,
   asof |-> epoch]

\* A request with credential cr and, unless it opens one, a session header.
Arrives(r, k, cr, s) ==
  /\ pc[r] = "new"
  /\ \A q \in 1..(r - 1) : pc[q] # "new"
  /\ IF k = "open"
       THEN /\ s = NoSession
            /\ Cardinality({q \in Requests : pc[q] # "new" /\ kind[q] = "open"})
                 < Cardinality(Sessions)
       ELSE s \in opened
  /\ kind' = [kind EXCEPT ![r] = k]
  /\ cred' = [cred EXCEPT ![r] = cr]
  /\ target' = [target EXCEPT ![r] = s]

\* A bearer that resolves to nobody, or that the store cannot resolve in two
\* attempts, is answered 401 by the tracker middleware (fail closed); an admin
\* cookie beside an unknown bearer lets the request go on.
Reject(r, k, cr, s) ==
  /\ Arrives(r, k, cr, s)
  /\ cr.client # NoClient
  /\ StoreFails \/ (~Resolves(cr.client) /\ ~cr.cookie)
  /\ pc' = [pc EXCEPT ![r] = "done"]
  /\ UNCHANGED <<storeVars, ctx, handlerVars, sessionVars>>

\* Mutant of UpdateSlot: the slot keeps the identity the session was opened with.
MutUpdateSlot(s, cr) ==
  /\ UNCHANGED slot
  /\ users' = IF s = NoSession THEN users ELSE [users EXCEPT ![s] = @ \union {cr}]

\* Mutant of UpdateSlot: the credential is handed on instead of the record.
MutUpdateSlotRaw(s, cr) ==
  /\ slot' = IF s = NoSession THEN slot ELSE [slot EXCEPT ![s] = cr]
  /\ UNCHANGED users

\* update_session_identity: only a session whose loop is running has a slot.
UpdateSlot(s, cr) ==
  IF s # NoSession /\ slot[s] # NoSlot
    THEN /\ slot' = [slot EXCEPT ![s] = Bound(cr)]
         /\ users' = [users EXCEPT ![s] = @ \union {cr}]
    ELSE UNCHANGED <<slot, users>>

\* Mutant of Bind: a bearer that cannot be resolved goes on as nobody.
MutBind(r, k, cr, s) ==
  /\ Arrives(r, k, cr, s)
  /\ pc' = [pc EXCEPT ![r] = "bound"]
  /\ \E id \in {Bound(cr), [Anonymous EXCEPT !.asof = epoch]} :
       /\ ctx' = [ctx EXCEPT ![r] = id]
       /\ slot' = IF s # NoSession /\ slot[s] # NoSlot
                    THEN [slot EXCEPT ![s] = id] ELSE slot
  /\ users' = IF s # NoSession THEN [users EXCEPT ![s] = @ \union {cr}] ELSE users
  /\ UNCHANGED <<storeVars, handlerVars, instances, terminated, opened, creationLock>>

\* The ContextVars and, before authorization and before the await of
\* tracker.touch, the session's slot.
Bind(r, k, cr, s) ==
  /\ Arrives(r, k, cr, s)
  /\ cr.client = NoClient \/ Resolves(cr.client) \/ cr.cookie
  /\ pc' = [pc EXCEPT ![r] = "bound"]
  /\ ctx' = [ctx EXCEPT ![r] = Bound(cr)]
  /\ UpdateSlot(s, cr)
  /\ UNCHANGED <<storeVars, handlerVars, instances, terminated, opened, creationLock>>

Authenticates(cr) == cr.cookie \/ Resolves(cr.client)

\* AuthEnforcementMiddleware.dispatch verifies the bearer again: the client may
\* have been revoked since, or the store may fail.
AuthPass(r) ==
  /\ pc[r] = "bound"
  /\ AuthEnabled => Authenticates(cred[r])
  /\ pc' = [pc EXCEPT ![r] = "authorized"]
  /\ UNCHANGED <<storeVars, kind, cred, target, ctx, handlerVars, sessionVars>>

AuthReject(r) ==
  /\ pc[r] = "bound"
  /\ AuthEnabled
  /\ ~cred[r].cookie
  /\ ~Resolves(cred[r].client) \/ StoreFails
  /\ pc' = [pc EXCEPT ![r] = "done"]
  /\ UNCHANGED <<storeVars, kind, cred, target, ctx, handlerVars, sessionVars>>

\* _handle_stateful_request, a session that is registered.
Route(r) ==
  /\ pc[r] = "authorized"
  /\ target[r] \in instances
  /\ pc' = [pc EXCEPT ![r] = "transport"]
  /\ UNCHANGED <<storeVars, kind, cred, target, ctx, handlerVars, sessionVars>>

\* ... one that is not: 404 "Session not found".
NotFound(r) ==
  /\ pc[r] = "authorized"
  /\ target[r] # NoSession
  /\ target[r] \notin instances
  /\ pc' = [pc EXCEPT ![r] = "done"]
  /\ UNCHANGED <<storeVars, kind, cred, target, ctx, handlerVars, sessionVars>>

\* ... no session header: under the creation lock, register a transport and
\* start the session's loop, whose slot is seeded from this task's ContextVars.
\* The lock is held until this request is answered.
Create(r, s) ==
  /\ pc[r] = "authorized"
  /\ target[r] = NoSession
  /\ creationLock = NoRequest
  /\ s \notin opened
  /\ creationLock' = r
  /\ opened' = opened \union {s}
  /\ instances' = instances \union {s}
  /\ slot' = [slot EXCEPT ![s] = ctx[r]]
  /\ users' = [users EXCEPT ![s] = {cred[r]}]
  /\ target' = [target EXCEPT ![r] = s]
  /\ pc' = [pc EXCEPT ![r] = "transport"]
  /\ UNCHANGED <<storeVars, kind, cred, ctx, handlerVars, terminated>>

\* transport.handle_request puts the message into the session's loop, which
\* starts a handler for it.
Deliver(r) ==
  /\ pc[r] = "transport"
  /\ kind[r] # "delete"
  /\ target[r] \notin terminated
  /\ slot[target[r]] # NoSlot
  /\ pc' = [pc EXCEPT ![r] = "handling"]
  /\ running' = running \union {r}
  /\ UNCHANGED <<storeVars, kind, cred, target, ctx, seen, adminRun, sessionVars>>

\* ... or finds the transport terminated, or its loop gone.
TransportGone(r) ==
  /\ pc[r] = "transport"
  /\ target[r] \in terminated \/ slot[target[r]] = NoSlot
  /\ pc' = [pc EXCEPT ![r] = "returning"]
  /\ UNCHANGED <<storeVars, kind, cred, target, ctx, handlerVars, sessionVars>>

\* DELETE: transport.terminate().
Terminate(r) ==
  /\ pc[r] = "transport"
  /\ kind[r] = "delete"
  /\ target[r] \notin terminated
  /\ terminated' = terminated \union {target[r]}
  /\ pc' = [pc EXCEPT ![r] = "returning"]
  /\ UNCHANGED <<storeVars, kind, cred, target, ctx, handlerVars,
                 instances, opened, slot, users, creationLock>>

\* The HTTP exchange ends before its handler: the client disconnected or the
\* session was terminated.  The handler goes on in the session's loop.
Detach(r) ==
  /\ pc[r] = "handling"
  /\ pc' = [pc EXCEPT ![r] = "returning"]
  /\ UNCHANGED <<storeVars, kind, cred, target, ctx, handlerVars, sessionVars>>

\* Mutant of Return: a terminated transport stays registered.
MutReturn(r) ==
  /\ pc[r] = "returning"
  /\ pc' = [pc EXCEPT ![r] = "done"]
  /\ creationLock' = IF creationLock = r THEN NoRequest ELSE creationLock
  /\ UNCHANGED <<storeVars, kind, cred, target, ctx, handlerVars,
                 instances, terminated, opened, slot, users>>

\* Mutant of Return: the creation lock is not released.
MutReturnLocked(r) ==
  /\ pc[r] = "returning"
  /\ pc' = [pc EXCEPT ![r] = "done"]
  /\ instances' = IF kind[r] # "open" /\ target[r] \in terminated
                    THEN instances \ {target[r]} ELSE instances
  /\ UNCHANGED <<storeVars, kind, cred, target, ctx, handlerVars,
                 terminated, opened, slot, users, creationLock>>

\* handle_request is back: a request that used an existing session unregisters
\* it if it is terminated; the one that opened a session releases the lock.
Return(r) ==
  /\ pc[r] = "returning"
  /\ pc' = [pc EXCEPT ![r] = "done"]
  /\ instances' = IF kind[r] # "open" /\ target[r] \in terminated
                    THEN instances \ {target[r]} ELSE instances
  /\ creationLock' = IF creationLock = r THEN NoRequest ELSE creationLock
  /\ UNCHANGED <<storeVars, kind, cred, target, ctx, handlerVars,
                 terminated, opened, slot, users>>

-----------------------------------------------------------------------------
(***************************************************************************)
(* The session's loop and the handlers in it.                              *)
(***************************************************************************)

\* A handler reads the slot at several points with awaits in between:
\* _effective_settings, _disabled_for_request, _response_cache_owner.
ReadIdentity(r) ==
  /\ r \in running
  /\ seen' = [seen EXCEPT ![r] = slot[target[r]]]
  /\ UNCHANGED <<storeVars, reqVars, running, adminRun, sessionVars>>

\* Mutant of MayAdmin: any bound client may use admin tools.
MutMayAdmin(id) == id.adminSession \/ id.client # NoClient

\* _assert_mcp_admin_allowed with enforce_mcp_admin_tools (the default).
MayAdmin(id) ==
  \/ id.adminSession
  \/ id.client # NoClient /\ id.canAdmin
  \/ id.client = NoClient /\ ~AuthEnabled

\* The call names an admin tool: the gate reads the slot and lets it run, ...
PassGate(r) ==
  /\ r \in running
  /\ MayAdmin(slot[target[r]])
  /\ adminRun' = adminRun \union {r}
  /\ UNCHANGED <<storeVars, reqVars, running, seen, sessionVars>>

\* ... or raises; likewise the handler's normal end.
Finish(r) ==
  /\ r \in running
  /\ running' = running \ {r}
  /\ pc' = IF pc[r] = "handling" THEN [pc EXCEPT ![r] = "returning"] ELSE pc
  /\ seen' = [seen EXCEPT ![r] = NoSlot]
  /\ adminRun' = adminRun \ {r}
  /\ UNCHANGED <<storeVars, kind, cred, target, ctx, sessionVars>>

HandlersOf(s) == {r \in running : target[r] = s}

\* A terminated session's loop ends after its handlers, and the identity scope
\* deletes the slot.
LoopEnds(s) ==
  /\ slot[s] # NoSlot
  /\ s \in terminated
  /\ HandlersOf(s) = {}
  /\ slot' = [slot EXCEPT ![s] = NoSlot]
  /\ UNCHANGED <<storeVars, reqVars, handlerVars, instances, terminated, opened,
                 users, creationLock>>

\* An exception leaves the loop: its handlers are cancelled, the slot is
\* deleted and run_server's finally unregisters the session.
LoopCrashes(s) ==
  /\ slot[s] # NoSlot
  /\ s \notin terminated
  /\ slot' = [slot EXCEPT ![s] = NoSlot]
  /\ instances' = instances \ {s}
  /\ running' = running \ HandlersOf(s)
  /\ pc' = [r \in Requests |->
              IF r \in HandlersOf(s) /\ pc[r] = "handling" THEN "returning" ELSE pc[r]]
  /\ UNCHANGED <<storeVars, kind, cred, target, ctx, seen, adminRun,
                 terminated, opened, users, creationLock>>

-----------------------------------------------------------------------------
\* One step of the HTTP task of a request that has arrived.
HttpStep(r) ==
  \/ AuthPass(r)
  \/ AuthReject(r)
  \/ Route(r)
  \/ NotFound(r)
  \/ \E s \in Sessions : Create(r, s)
  \/ Deliver(r)
  \/ TransportGone(r)
  \/ Terminate(r)
  \/ Return(r)

Next ==
  \/ \E c \in Clients, known \in BOOLEAN, canAdmin \in BOOLEAN :
       EditClient(c, [known |-> known, canAdmin |-> canAdmin])
  \/ \E r \in Requests, k \in {"open", "call", "delete"}, cr \in Credentials,
        s \in Sessions \union {NoSession} : Bind(r, k, cr, s) \/ Reject(r, k, cr, s)
  \/ \E r \in Requests : HttpStep(r) \/ Detach(r)
  \/ \E r \in Requests : ReadIdentity(r) \/ PassGate(r) \/ Finish(r)
  \/ \E s \in Sessions : LoopEnds(s) \/ LoopCrashes(s)

Spec == Init /\ [][Next]_vars

\* The event loop runs every ready task; a handler ends because each of its
\* upstream calls is bounded by a timeout.
Fairness ==
  /\ \A r \in Requests : WF_vars(HttpStep(r)) /\ WF_vars(Finish(r))
  /\ \A s \in Sessions : WF_vars(LoopEnds(s))

FairSpec == Spec /\ Fairness
-----------------------------------------------------------------------------
(***************************************************************************)
(* Properties.                                                             *)
(***************************************************************************)

\* Whatever identity a handler acts on was resolved from the client store no
\* earlier than the handler's own request arrived: a revocation or a policy edit
\* takes effect on the next call, however requests, handlers that outlive their
\* exchange, and store edits interleave (SessionIdentity's docstring, PR 5.8).
PolicyIsFresh ==
  \A r \in Requests : seen[r] # NoSlot => ctx[r].asof <= seen[r].asof

\* While every request of a session carries the same credential, handlers see
\* the caller itself: its client (nobody only if an admin cookie stands beside
\* a bearer that no longer resolves) and its admin session
\* (resolve_current_api_client, resolve_current_mcp_admin_session).
OwnerSeesItself ==
  \A r \in Requests :
    seen[r] # NoSlot /\ users[target[r]] = {cred[r]} =>
      /\ seen[r].adminSession = cred[r].cookie
      /\ \/ seen[r].client = cred[r].client
         \/ seen[r].client = NoClient /\ cred[r].cookie

\* cr may use admin tools on behalf of request r.
Granted(r, cr) ==
  \/ cr.cookie
  \/ \E e \in ctx[r].asof..epoch : <<cr.client, e>> \in grants
  \/ ~AuthEnabled /\ cr.client = NoClient

\* In such a session an admin tool runs only for an admin session, for a client
\* that held can_admin at some moment since the request arrived, or without
\* authentication for a caller that claimed no bearer
\* (_assert_mcp_admin_allowed; re-granting or withdrawing can_admin mid-call
\* may go either way, an earlier grant may not).
AdminByGrant ==
  \A r \in adminRun : users[target[r]] = {cred[r]} => Granted(r, cred[r])

InSession(r, s) == target[r] = s /\ pc[r] \in {"transport", "handling", "returning"}

\* A session is registered exactly while its loop runs, except while a request
\* that may still unregister it is on its way out: no dead session is routed to
\* or counted once its last request has returned (audit L-7), and handlers run
\* only in a session that has its identity slot.
RegisteredWhileAlive ==
  /\ \A s \in Sessions :
       s \in instances =>
         \/ s \notin terminated /\ slot[s] # NoSlot
         \/ s \in terminated /\ \E r \in Requests : InSession(r, s) /\ kind[r] # "open"
  /\ \A r \in running : slot[target[r]] # NoSlot

\* What makes PolicyIsFresh and RegisteredWhileAlive inductive: a request in or
\* past a session names one that was opened (and no id is opened twice), nothing
\* bound is newer than the store, and the slot of a session is at least as recent
\* as the binding of every request that names the session.
TargetsOpened ==
  /\ terminated \subseteq opened
  /\ \A r \in Requests :
       /\ target[r] # NoSession => target[r] \in opened
       /\ pc[r] \in {"transport", "handling", "returning"} \/ r \in running
            => target[r] # NoSession
       /\ pc[r] = "new" => seen[r] = NoSlot /\ r \notin running

SlotsFresh ==
  \A r \in Requests :
    /\ ctx[r].asof <= epoch
    /\ pc[r] = "new" => ctx[r].asof = 0
    /\ target[r] # NoSession /\ slot[target[r]] # NoSlot
         => ctx[r].asof <= slot[target[r]].asof

\* Identity id was bound for a request with credential cr.
OwnedBy(id, cr) ==
  /\ id.adminSession = cr.cookie
  /\ id.client = cr.client \/ (id.client = NoClient /\ cr.cookie)
  /\ id.canAdmin => <<id.client, id.asof>> \in grants

\* What makes OwnerSeesItself and AdminByGrant inductive: every identity in a
\* request's context, in a slot or in a handler was bound for a credential that is
\* among the users of the session, with a grant of that moment, and whoever is
\* past the gate was let through on behalf of one of the users.
IdentitiesOwned ==
  /\ \A c \in Clients : clients[c].known /\ clients[c].canAdmin => <<c, epoch>> \in grants
  /\ \A r \in Requests : pc[r] \notin {"new", "done"} => OwnedBy(ctx[r], cred[r])
  /\ \A s \in Sessions : slot[s] # NoSlot =>
       /\ slot[s].asof <= epoch
       /\ \E cr \in users[s] : OwnedBy(slot[s], cr)
  /\ \A r \in Requests : seen[r] # NoSlot =>
       /\ target[r] # NoSession
       /\ \E cr \in users[target[r]] : OwnedBy(seen[r], cr)

GatePassed ==
  \A r \in adminRun :
    /\ pc[r] # "new" /\ target[r] # NoSession
    /\ \E cr \in users[target[r]] : Granted(r, cr)

SessionInv ==
  /\ TypeOK /\ TargetsOpened /\ SlotsFresh /\ PolicyIsFresh /\ RegisteredWhileAlive
  /\ IdentitiesOwned /\ GatePassed

\* Every request that was bound is answered: nobody waits for the creation lock
\* forever, however sessions end (_handle_stateful_request).
RequestsAnswered == \A r \in Requests : pc[r] = "bound" ~> pc[r] = "done"

\* A deleted session disappears: its loop ends, its slot is deleted and it is
\* unregistered (DELETE handling, session_identity_scope).
DeletedSessionsEnd ==
  \A s \in Sessions : s \in terminated ~> slot[s] = NoSlot /\ s \notin instances
=============================================================================
