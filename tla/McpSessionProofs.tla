--------------------------- MODULE McpSessionProofs ---------------------------
(***************************************************************************)
(* Proofs about McpSession, for any number of clients, requests, sessions  *)
(* and store edits, with and without authentication: types, freshness of   *)
(* the identity a handler acts on, and the life cycle of sessions.         *)
(***************************************************************************)
EXTENDS McpSession, TLAPS

\* What the middleware binds for a request is an identity as of now.
LEMMA BoundType ==
  ASSUME TypeOK, NEW cr \in Anyone
  PROVE  /\ Bound(cr) \in Identity
         /\ Bound(cr).asof = epoch
         /\ Bound(cr) # NoSlot
<1>1. Bound(cr) \in Identity
  BY DEF Bound, Resolves, Identity, Anyone, TypeOK
<1>2. QED
  BY <1>1, McpSessionAssumption DEF Bound, Identity

\* An identity is told apart from a loop without a slot.
LEMMA IdentityIsNoSlot == NoSlot \notin Identity
BY McpSessionAssumption DEF Identity

\* Every credential is somebody or nobody.
LEMMA CredentialType == Credentials \subseteq Anyone
BY McpSessionAssumption DEF Anyone

\* Every step keeps the types, given that requests only aim at opened sessions.
LEMMA TypeStep ==
  ASSUME TypeOK, TargetsOpened, [Next]_vars
  PROVE  TypeOK'
<1> USE DEF TypeOK
<1>1. ASSUME NEW c \in Clients, NEW known \in BOOLEAN, NEW canAdmin \in BOOLEAN,
             EditClient(c, [known |-> known, canAdmin |-> canAdmin])
      PROVE  TypeOK'
  BY <1>1 DEF EditClient, reqVars, handlerVars, sessionVars
<1>2. ASSUME NEW r \in Requests, NEW k \in {"open", "call", "delete"},
             NEW cr \in Credentials, NEW s \in Sessions \union {NoSession},
             Bind(r, k, cr, s)
      PROVE  TypeOK'
  <2>1. cr \in Anyone /\ Bound(cr) \in Identity
    BY CredentialType, BoundType
  <2>2. slot' \in [Sessions -> Identity \union {NoSlot}] /\ users' \in [Sessions -> SUBSET Anyone]
    BY <1>2, <2>1 DEF Bind, UpdateSlot
  <2>3. QED
    BY <1>2, <2>1, <2>2 DEF Bind, Arrives, storeVars, handlerVars
<1>3. ASSUME NEW r \in Requests, NEW k \in {"open", "call", "delete"},
             NEW cr \in Credentials, NEW s \in Sessions \union {NoSession},
             Reject(r, k, cr, s)
      PROVE  TypeOK'
  BY <1>3, CredentialType DEF Reject, Arrives, storeVars, handlerVars, sessionVars
<1>4. ASSUME NEW r \in Requests, NEW s \in Sessions, Create(r, s) PROVE TypeOK'
  BY <1>4 DEF Create, storeVars, handlerVars
<1>5. ASSUME NEW r \in Requests, AuthPass(r) PROVE TypeOK'
  BY <1>5 DEF AuthPass, storeVars, reqVars, handlerVars, sessionVars
<1>6. ASSUME NEW r \in Requests, AuthReject(r) PROVE TypeOK'
  BY <1>6 DEF AuthReject, storeVars, reqVars, handlerVars, sessionVars
<1>7. ASSUME NEW r \in Requests, Route(r) PROVE TypeOK'
  BY <1>7 DEF Route, storeVars, reqVars, handlerVars, sessionVars
<1>8. ASSUME NEW r \in Requests, NotFound(r) PROVE TypeOK'
  BY <1>8 DEF NotFound, storeVars, reqVars, handlerVars, sessionVars
<1>9. ASSUME NEW r \in Requests, Deliver(r) PROVE TypeOK'
  BY <1>9 DEF Deliver, storeVars, reqVars, handlerVars, sessionVars
<1>10. ASSUME NEW r \in Requests, TransportGone(r) PROVE TypeOK'
  BY <1>10 DEF TransportGone, storeVars, reqVars, handlerVars, sessionVars
<1>11. ASSUME NEW r \in Requests, Terminate(r) PROVE TypeOK'
  <2>1. target[r] \in Sessions
    BY <1>11 DEF Terminate, TargetsOpened
  <2>2. QED
    BY <1>11, <2>1 DEF Terminate, storeVars, handlerVars
<1>12. ASSUME NEW r \in Requests, Return(r) PROVE TypeOK'
  BY <1>12 DEF Return, storeVars, reqVars, handlerVars, sessionVars
<1>13. ASSUME NEW r \in Requests, Detach(r) PROVE TypeOK'
  BY <1>13 DEF Detach, storeVars, reqVars, handlerVars, sessionVars
<1>14. ASSUME NEW r \in Requests, ReadIdentity(r) PROVE TypeOK'
  <2>1. target[r] \in Sessions
    BY <1>14 DEF ReadIdentity, TargetsOpened
  <2>2. QED
    BY <1>14, <2>1 DEF ReadIdentity, storeVars, reqVars, sessionVars
<1>15. ASSUME NEW r \in Requests, PassGate(r) PROVE TypeOK'
  BY <1>15 DEF PassGate, storeVars, reqVars, handlerVars, sessionVars
<1>16. ASSUME NEW r \in Requests, Finish(r) PROVE TypeOK'
  BY <1>16 DEF Finish, storeVars, reqVars, handlerVars, sessionVars
<1>17. ASSUME NEW s \in Sessions, LoopEnds(s) PROVE TypeOK'
  BY <1>17 DEF LoopEnds, HandlersOf, storeVars, reqVars, handlerVars
<1>18. ASSUME NEW s \in Sessions, LoopCrashes(s) PROVE TypeOK'
  BY <1>18 DEF LoopCrashes, HandlersOf, storeVars, reqVars, handlerVars
<1>19. CASE UNCHANGED vars
  BY <1>19 DEF vars, storeVars, reqVars, handlerVars, sessionVars
<1> HIDE DEF TypeOK
<1>20. QED
  BY <1>1, <1>2, <1>3, <1>4, <1>5, <1>6, <1>7, <1>8, <1>9, <1>10,
     <1>11, <1>12, <1>13, <1>14, <1>15, <1>16, <1>17, <1>18, <1>19
     DEF Next, HttpStep

\* Every step keeps requests aimed at sessions that were opened.
LEMMA TargetsStep ==
  ASSUME TypeOK, TargetsOpened, [Next]_vars
  PROVE  TargetsOpened'
<1> USE DEF TypeOK, TargetsOpened
<1>1. ASSUME NEW c \in Clients, NEW known \in BOOLEAN, NEW canAdmin \in BOOLEAN,
             EditClient(c, [known |-> known, canAdmin |-> canAdmin])
      PROVE  TargetsOpened'
  BY <1>1 DEF EditClient, reqVars, handlerVars, sessionVars
<1>2. ASSUME NEW r \in Requests, NEW k \in {"open", "call", "delete"},
             NEW cr \in Credentials, NEW s \in Sessions \union {NoSession},
             Bind(r, k, cr, s)
      PROVE  TargetsOpened'
  BY <1>2 DEF Bind, Arrives, storeVars, handlerVars, sessionVars
<1>3. ASSUME NEW r \in Requests, NEW k \in {"open", "call", "delete"},
             NEW cr \in Credentials, NEW s \in Sessions \union {NoSession},
             Reject(r, k, cr, s)
      PROVE  TargetsOpened'
  BY <1>3 DEF Reject, Arrives, storeVars, handlerVars, sessionVars
<1>4. ASSUME NEW r \in Requests, NEW s \in Sessions, Create(r, s) PROVE TargetsOpened'
  BY <1>4, McpSessionAssumption DEF Create, storeVars, handlerVars
<1>5. ASSUME NEW r \in Requests, AuthPass(r) PROVE TargetsOpened'
  BY <1>5 DEF AuthPass, storeVars, reqVars, handlerVars, sessionVars
<1>6. ASSUME NEW r \in Requests, AuthReject(r) PROVE TargetsOpened'
  BY <1>6 DEF AuthReject, storeVars, reqVars, handlerVars, sessionVars
<1>7. ASSUME NEW r \in Requests, Route(r) PROVE TargetsOpened'
  BY <1>7, McpSessionAssumption DEF Route, storeVars, handlerVars, sessionVars
<1>8. ASSUME NEW r \in Requests, NotFound(r) PROVE TargetsOpened'
  BY <1>8 DEF NotFound, storeVars, reqVars, handlerVars, sessionVars
<1>9. ASSUME NEW r \in Requests, Deliver(r) PROVE TargetsOpened'
  BY <1>9 DEF Deliver, storeVars, reqVars, handlerVars, sessionVars
<1>10. ASSUME NEW r \in Requests, TransportGone(r) PROVE TargetsOpened'
  BY <1>10 DEF TransportGone, storeVars, reqVars, handlerVars, sessionVars
<1>11. ASSUME NEW r \in Requests, Terminate(r) PROVE TargetsOpened'
  BY <1>11 DEF Terminate, storeVars, reqVars, handlerVars, sessionVars
<1>12. ASSUME NEW r \in Requests, Return(r) PROVE TargetsOpened'
  BY <1>12 DEF Return, storeVars, reqVars, handlerVars, sessionVars
<1>13. ASSUME NEW r \in Requests, Detach(r) PROVE TargetsOpened'
  BY <1>13 DEF Detach, storeVars, reqVars, handlerVars, sessionVars
<1>14. ASSUME NEW r \in Requests, ReadIdentity(r) PROVE TargetsOpened'
  BY <1>14 DEF ReadIdentity, storeVars, reqVars, handlerVars, sessionVars
<1>15. ASSUME NEW r \in Requests, PassGate(r) PROVE TargetsOpened'
  BY <1>15 DEF PassGate, storeVars, reqVars, handlerVars, sessionVars
<1>16. ASSUME NEW r \in Requests, Finish(r) PROVE TargetsOpened'
  BY <1>16 DEF Finish, storeVars, reqVars, handlerVars, sessionVars
<1>17. ASSUME NEW s \in Sessions, LoopEnds(s) PROVE TargetsOpened'
  BY <1>17 DEF LoopEnds, HandlersOf, storeVars, reqVars, handlerVars
<1>18. ASSUME NEW s \in Sessions, LoopCrashes(s) PROVE TargetsOpened'
  BY <1>18 DEF LoopCrashes, HandlersOf, storeVars, reqVars, handlerVars
<1>19. CASE UNCHANGED vars
  BY <1>19 DEF vars, storeVars, reqVars, handlerVars, sessionVars
<1> HIDE DEF TypeOK, TargetsOpened
<1>20. QED
  BY <1>1, <1>2, <1>3, <1>4, <1>5, <1>6, <1>7, <1>8, <1>9, <1>10,
     <1>11, <1>12, <1>13, <1>14, <1>15, <1>16, <1>17, <1>18, <1>19
     DEF Next, HttpStep

\* Every step keeps what slots and requests hold as fresh as their binding.
LEMMA FreshStep ==
  ASSUME TypeOK, TargetsOpened, SlotsFresh, [Next]_vars
  PROVE  SlotsFresh'
<1> USE DEF TypeOK, SlotsFresh
<1>1. ASSUME NEW c \in Clients, NEW known \in BOOLEAN, NEW canAdmin \in BOOLEAN,
             EditClient(c, [known |-> known, canAdmin |-> canAdmin])
      PROVE  SlotsFresh'
  <2>1. epoch' = epoch + 1 /\ UNCHANGED <<pc, ctx, target, slot>>
    BY <1>1 DEF EditClient, reqVars, sessionVars
  <2>2. \A q \in Requests : ctx[q].asof \in Nat
    BY DEF Identity
  <2>3. QED BY <2>1, <2>2
<1>2. ASSUME NEW r \in Requests, NEW k \in {"open", "call", "delete"},
             NEW cr \in Credentials, NEW s \in Sessions \union {NoSession},
             Bind(r, k, cr, s)
      PROVE  SlotsFresh'
  <2>1. /\ Bound(cr).asof = epoch /\ Bound(cr) # NoSlot
        /\ epoch' = epoch /\ ctx' = [ctx EXCEPT ![r] = Bound(cr)]
        /\ target' = [target EXCEPT ![r] = s]
    BY <1>2, CredentialType, BoundType DEF Bind, Arrives, storeVars
  <2>2. ctx'[r].asof = epoch /\ \A q \in Requests \ {r} : ctx'[q] = ctx[q]
    BY <2>1
  <2>3. \A q \in Requests : ctx'[q].asof <= epoch
    BY <2>2
  <2>4. \A x \in Sessions : slot'[x] = slot[x] \/ (x = s /\ slot'[x].asof = epoch)
    BY <1>2, <2>1 DEF Bind, UpdateSlot
  <2>5. s # NoSession /\ slot[s] # NoSlot => slot'[s].asof = epoch
    BY <1>2, <2>1 DEF Bind, UpdateSlot
  <2>5a. s # NoSession /\ slot[s] = NoSlot => slot'[s] = NoSlot
    BY <1>2, <2>1 DEF Bind, UpdateSlot
  <2>6. ASSUME NEW q \in Requests, target'[q] # NoSession, slot'[target'[q]] # NoSlot
        PROVE  ctx'[q].asof <= slot'[target'[q]].asof
    <3>1. CASE q = r
      BY <3>1, <2>1, <2>2, <2>5, <2>5a, <2>6
    <3>2. CASE q # r
      BY <3>2, <2>1, <2>2, <2>3, <2>4, <2>6 DEF Identity
    <3>3. QED BY <3>1, <3>2
  <2>7. \A q \in Requests : pc'[q] = "new" => ctx'[q].asof = 0
    BY <1>2, <2>2 DEF Bind, Arrives
  <2>8. QED BY <2>1, <2>3, <2>6, <2>7
<1>3. ASSUME NEW r \in Requests, NEW k \in {"open", "call", "delete"},
             NEW cr \in Credentials, NEW s \in Sessions \union {NoSession},
             Reject(r, k, cr, s)
      PROVE  SlotsFresh'
  <2>1. pc[r] = "new" /\ UNCHANGED <<ctx, epoch, slot>>
    BY <1>3 DEF Reject, Arrives, storeVars, sessionVars
  <2>2. ctx[r].asof = 0 /\ target' = [target EXCEPT ![r] = s] /\ pc'[r] # "new"
    BY <1>3, <2>1 DEF Reject, Arrives
  <2>3. \A q \in Requests \ {r} : target'[q] = target[q] /\ pc'[q] = pc[q]
    BY <1>3 DEF Reject, Arrives
  <2>4. ASSUME NEW q \in Requests, target'[q] # NoSession, slot'[target'[q]] # NoSlot
        PROVE  ctx'[q].asof <= slot'[target'[q]].asof
    BY <2>1, <2>2, <2>3, <2>4 DEF Identity
  <2>5. QED BY <2>1, <2>2, <2>3, <2>4
<1>4. ASSUME NEW r \in Requests, NEW s \in Sessions, Create(r, s) PROVE SlotsFresh'
  <2>1. \A q \in Requests \ {r} : target'[q] = target[q] /\ target[q] # s
    BY <1>4, McpSessionAssumption DEF Create, TargetsOpened
  <2>2. slot'[s] = ctx[r] /\ \A x \in Sessions \ {s} : slot'[x] = slot[x]
    BY <1>4 DEF Create
  <2>3. target'[r] = s /\ UNCHANGED <<ctx, epoch>>
    BY <1>4 DEF Create, storeVars
  <2>4. \A q \in Requests : pc'[q] = "new" => pc[q] = "new"
    BY <1>4 DEF Create
  <2>5. ASSUME NEW q \in Requests, target'[q] # NoSession, slot'[target'[q]] # NoSlot
        PROVE  ctx'[q].asof <= slot'[target'[q]].asof
    <3>1. CASE q = r
      BY <3>1, <2>2, <2>3 DEF Identity
    <3>2. CASE q # r
      BY <3>2, <2>1, <2>2, <2>3, <2>5
    <3>3. QED BY <3>1, <3>2
  <2>6. QED BY <2>3, <2>4, <2>5
<1>5. ASSUME NEW r \in Requests, AuthPass(r) PROVE SlotsFresh'
  BY <1>5 DEF AuthPass, storeVars, reqVars, handlerVars, sessionVars
<1>6. ASSUME NEW r \in Requests, AuthReject(r) PROVE SlotsFresh'
  BY <1>6 DEF AuthReject, storeVars, reqVars, handlerVars, sessionVars
<1>7. ASSUME NEW r \in Requests, Route(r) PROVE SlotsFresh'
  BY <1>7 DEF Route, storeVars, reqVars, handlerVars, sessionVars
<1>8. ASSUME NEW r \in Requests, NotFound(r) PROVE SlotsFresh'
  BY <1>8 DEF NotFound, storeVars, reqVars, handlerVars, sessionVars
<1>9. ASSUME NEW r \in Requests, Deliver(r) PROVE SlotsFresh'
  BY <1>9 DEF Deliver, storeVars, reqVars, handlerVars, sessionVars
<1>10. ASSUME NEW r \in Requests, TransportGone(r) PROVE SlotsFresh'
  BY <1>10 DEF TransportGone, storeVars, reqVars, handlerVars, sessionVars
<1>11. ASSUME NEW r \in Requests, Terminate(r) PROVE SlotsFresh'
  BY <1>11 DEF Terminate, storeVars, reqVars, handlerVars, sessionVars
<1>12. ASSUME NEW r \in Requests, Return(r) PROVE SlotsFresh'
  BY <1>12 DEF Return, storeVars, reqVars, handlerVars, sessionVars
<1>13. ASSUME NEW r \in Requests, Detach(r) PROVE SlotsFresh'
  BY <1>13 DEF Detach, storeVars, reqVars, handlerVars, sessionVars
<1>14. ASSUME NEW r \in Requests, ReadIdentity(r) PROVE SlotsFresh'
  BY <1>14 DEF ReadIdentity, storeVars, reqVars, handlerVars, sessionVars
<1>15. ASSUME NEW r \in Requests, PassGate(r) PROVE SlotsFresh'
  BY <1>15 DEF PassGate, storeVars, reqVars, handlerVars, sessionVars
<1>16. ASSUME NEW r \in Requests, Finish(r) PROVE SlotsFresh'
  BY <1>16 DEF Finish, storeVars, reqVars, handlerVars, sessionVars
<1>17. ASSUME NEW s \in Sessions, LoopEnds(s) PROVE SlotsFresh'
  BY <1>17 DEF LoopEnds, HandlersOf, storeVars, reqVars, handlerVars
<1>18. ASSUME NEW s \in Sessions, LoopCrashes(s) PROVE SlotsFresh'
  BY <1>18 DEF LoopCrashes, HandlersOf, storeVars, reqVars, handlerVars
<1>19. CASE UNCHANGED vars
  BY <1>19 DEF vars, storeVars, reqVars, handlerVars, sessionVars
<1> HIDE DEF TypeOK, SlotsFresh
<1>20. QED
  BY <1>1, <1>2, <1>3, <1>4, <1>5, <1>6, <1>7, <1>8, <1>9, <1>10,
     <1>11, <1>12, <1>13, <1>14, <1>15, <1>16, <1>17, <1>18, <1>19
     DEF Next, HttpStep

\* Every step keeps the policy a handler uses at least as new as its request.
LEMMA PolicyStep ==
  ASSUME TypeOK, TargetsOpened, SlotsFresh, PolicyIsFresh, [Next]_vars
  PROVE  PolicyIsFresh'
<1> USE DEF TypeOK, PolicyIsFresh
<1>1. ASSUME NEW c \in Clients, NEW known \in BOOLEAN, NEW canAdmin \in BOOLEAN,
             EditClient(c, [known |-> known, canAdmin |-> canAdmin])
      PROVE  PolicyIsFresh'
  BY <1>1 DEF EditClient, reqVars, handlerVars, sessionVars
<1>2. ASSUME NEW r \in Requests, NEW k \in {"open", "call", "delete"},
             NEW cr \in Credentials, NEW s \in Sessions \union {NoSession},
             Bind(r, k, cr, s)
      PROVE  PolicyIsFresh'
  <2>1. pc[r] = "new" /\ seen[r] = NoSlot /\ UNCHANGED seen
    BY <1>2 DEF Bind, Arrives, handlerVars, TargetsOpened
  <2>2. \A q \in Requests \ {r} : ctx'[q] = ctx[q]
    BY <1>2 DEF Bind
  <2>3. QED BY <2>1, <2>2
<1>3. ASSUME NEW r \in Requests, NEW k \in {"open", "call", "delete"},
             NEW cr \in Credentials, NEW s \in Sessions \union {NoSession},
             Reject(r, k, cr, s)
      PROVE  PolicyIsFresh'
  BY <1>3 DEF Reject, Arrives, storeVars, handlerVars, sessionVars
<1>4. ASSUME NEW r \in Requests, NEW s \in Sessions, Create(r, s) PROVE PolicyIsFresh'
  BY <1>4 DEF Create, storeVars, handlerVars
<1>5. ASSUME NEW r \in Requests, AuthPass(r) PROVE PolicyIsFresh'
  BY <1>5 DEF AuthPass, storeVars, reqVars, handlerVars, sessionVars
<1>6. ASSUME NEW r \in Requests, AuthReject(r) PROVE PolicyIsFresh'
  BY <1>6 DEF AuthReject, storeVars, reqVars, handlerVars, sessionVars
<1>7. ASSUME NEW r \in Requests, Route(r) PROVE PolicyIsFresh'
  BY <1>7 DEF Route, storeVars, reqVars, handlerVars, sessionVars
<1>8. ASSUME NEW r \in Requests, NotFound(r) PROVE PolicyIsFresh'
  BY <1>8 DEF NotFound, storeVars, reqVars, handlerVars, sessionVars
<1>9. ASSUME NEW r \in Requests, Deliver(r) PROVE PolicyIsFresh'
  BY <1>9 DEF Deliver, storeVars, reqVars, handlerVars, sessionVars
<1>10. ASSUME NEW r \in Requests, TransportGone(r) PROVE PolicyIsFresh'
  BY <1>10 DEF TransportGone, storeVars, reqVars, handlerVars, sessionVars
<1>11. ASSUME NEW r \in Requests, Terminate(r) PROVE PolicyIsFresh'
  BY <1>11 DEF Terminate, storeVars, reqVars, handlerVars, sessionVars
<1>12. ASSUME NEW r \in Requests, Return(r) PROVE PolicyIsFresh'
  BY <1>12 DEF Return, storeVars, reqVars, handlerVars, sessionVars
<1>13. ASSUME NEW r \in Requests, Detach(r) PROVE PolicyIsFresh'
  BY <1>13 DEF Detach, storeVars, reqVars, handlerVars, sessionVars
<1>14. ASSUME NEW r \in Requests, ReadIdentity(r) PROVE PolicyIsFresh'
  <2>1. target[r] # NoSession
    BY <1>14 DEF ReadIdentity, TargetsOpened
  <2>2. slot[target[r]] # NoSlot => ctx[r].asof <= slot[target[r]].asof
    BY <2>1 DEF SlotsFresh
  <2>3. QED
    BY <1>14, <2>2 DEF ReadIdentity, reqVars
<1>15. ASSUME NEW r \in Requests, PassGate(r) PROVE PolicyIsFresh'
  BY <1>15 DEF PassGate, storeVars, reqVars, handlerVars, sessionVars
<1>16. ASSUME NEW r \in Requests, Finish(r) PROVE PolicyIsFresh'
  BY <1>16 DEF Finish, storeVars, reqVars, handlerVars, sessionVars
<1>17. ASSUME NEW s \in Sessions, LoopEnds(s) PROVE PolicyIsFresh'
  BY <1>17 DEF LoopEnds, HandlersOf, storeVars, reqVars, handlerVars
<1>18. ASSUME NEW s \in Sessions, LoopCrashes(s) PROVE PolicyIsFresh'
  BY <1>18 DEF LoopCrashes, HandlersOf, storeVars, reqVars, handlerVars
<1>19. CASE UNCHANGED vars
  BY <1>19 DEF vars, storeVars, reqVars, handlerVars, sessionVars
<1> HIDE DEF TypeOK, PolicyIsFresh
<1>20. QED
  BY <1>1, <1>2, <1>3, <1>4, <1>5, <1>6, <1>7, <1>8, <1>9, <1>10,
     <1>11, <1>12, <1>13, <1>14, <1>15, <1>16, <1>17, <1>18, <1>19
     DEF Next, HttpStep

\* Every step keeps live sessions registered.
LEMMA RegisteredStep ==
  ASSUME TypeOK, TargetsOpened, RegisteredWhileAlive, [Next]_vars
  PROVE  RegisteredWhileAlive'
<1> USE DEF TypeOK, RegisteredWhileAlive, InSession
<1>1. ASSUME NEW c \in Clients, NEW known \in BOOLEAN, NEW canAdmin \in BOOLEAN,
             EditClient(c, [known |-> known, canAdmin |-> canAdmin])
      PROVE  RegisteredWhileAlive'
  BY <1>1 DEF EditClient, reqVars, handlerVars, sessionVars
<1>2. ASSUME NEW r \in Requests, NEW k \in {"open", "call", "delete"},
             NEW cr \in Credentials, NEW s \in Sessions \union {NoSession},
             Bind(r, k, cr, s)
      PROVE  RegisteredWhileAlive'
  <2>1. pc[r] = "new" /\ r \notin running /\ Bound(cr) # NoSlot
    BY <1>2, CredentialType, BoundType DEF Bind, Arrives, TargetsOpened
  <2>2. \A x \in Sessions : slot'[x] = NoSlot <=> slot[x] = NoSlot
    BY <1>2, <2>1 DEF Bind, UpdateSlot
  <2>3. \A q \in Requests \ {r} :
          pc'[q] = pc[q] /\ target'[q] = target[q] /\ kind'[q] = kind[q]
    BY <1>2 DEF Bind, Arrives
  <2>4. UNCHANGED <<instances, terminated, running>>
    BY <1>2 DEF Bind, handlerVars
  <2>5. \A q \in running : target[q] \in Sessions
    BY DEF TargetsOpened
  <2>6. QED
    BY <2>1, <2>2, <2>3, <2>4, <2>5
<1>3. ASSUME NEW r \in Requests, NEW k \in {"open", "call", "delete"},
             NEW cr \in Credentials, NEW s \in Sessions \union {NoSession},
             Reject(r, k, cr, s)
      PROVE  RegisteredWhileAlive'
  <2>1. pc[r] = "new" /\ r \notin running
    BY <1>3 DEF Reject, Arrives, TargetsOpened
  <2>2. \A q \in Requests \ {r} :
          pc'[q] = pc[q] /\ target'[q] = target[q] /\ kind'[q] = kind[q]
    BY <1>3 DEF Reject, Arrives
  <2>3. UNCHANGED <<instances, terminated, running, slot>>
    BY <1>3 DEF Reject, handlerVars, sessionVars
  <2>4. QED
    BY <2>1, <2>2, <2>3
<1>4. ASSUME NEW r \in Requests, NEW s \in Sessions, Create(r, s) PROVE RegisteredWhileAlive'
  <2>1. ctx[r] # NoSlot /\ pc[r] = "authorized" /\ s \notin terminated
    BY <1>4, IdentityIsNoSlot DEF Create, TargetsOpened
  <2>2. slot'[s] = ctx[r] /\ \A x \in Sessions \ {s} : slot'[x] = slot[x]
    BY <1>4 DEF Create
  <2>3. instances' = instances \union {s} /\ UNCHANGED <<terminated, running, kind>>
    BY <1>4 DEF Create, handlerVars
  <2>4. target'[r] = s /\ \A q \in Requests \ {r} : pc'[q] = pc[q] /\ target'[q] = target[q]
    BY <1>4 DEF Create
  <2>5. \A q \in running : target[q] \in Sessions
    BY DEF TargetsOpened
  <2>6. \A q \in running' : slot'[target'[q]] # NoSlot
    BY <2>1, <2>2, <2>3, <2>4, <2>5
  <2>7. ASSUME NEW x \in Sessions, x \in instances', x # s
        PROVE  \/ x \notin terminated' /\ slot'[x] # NoSlot
               \/ x \in terminated' /\ \E q \in Requests : InSession(q, x)' /\ kind'[q] # "open"
    BY <2>1, <2>2, <2>3, <2>4, <2>7
  <2>8. QED
    BY <2>1, <2>2, <2>3, <2>6, <2>7
<1>5. ASSUME NEW r \in Requests, AuthPass(r) PROVE RegisteredWhileAlive'
  BY <1>5 DEF AuthPass, storeVars, reqVars, handlerVars, sessionVars
<1>6. ASSUME NEW r \in Requests, AuthReject(r) PROVE RegisteredWhileAlive'
  BY <1>6 DEF AuthReject, storeVars, reqVars, handlerVars, sessionVars
<1>7. ASSUME NEW r \in Requests, Route(r) PROVE RegisteredWhileAlive'
  BY <1>7 DEF Route, storeVars, reqVars, handlerVars, sessionVars
<1>8. ASSUME NEW r \in Requests, NotFound(r) PROVE RegisteredWhileAlive'
  BY <1>8 DEF NotFound, storeVars, reqVars, handlerVars, sessionVars
<1>9. ASSUME NEW r \in Requests, Deliver(r) PROVE RegisteredWhileAlive'
  BY <1>9 DEF Deliver, storeVars, reqVars, handlerVars, sessionVars
<1>10. ASSUME NEW r \in Requests, TransportGone(r) PROVE RegisteredWhileAlive'
  BY <1>10 DEF TransportGone, storeVars, reqVars, handlerVars, sessionVars
<1>11. ASSUME NEW r \in Requests, Terminate(r) PROVE RegisteredWhileAlive'
  BY <1>11 DEF Terminate, storeVars, reqVars, handlerVars, sessionVars
<1>12. ASSUME NEW r \in Requests, Return(r) PROVE RegisteredWhileAlive'
  BY <1>12 DEF Return, storeVars, reqVars, handlerVars, sessionVars
<1>13. ASSUME NEW r \in Requests, Detach(r) PROVE RegisteredWhileAlive'
  BY <1>13 DEF Detach, storeVars, reqVars, handlerVars, sessionVars
<1>14. ASSUME NEW r \in Requests, ReadIdentity(r) PROVE RegisteredWhileAlive'
  BY <1>14 DEF ReadIdentity, storeVars, reqVars, handlerVars, sessionVars
<1>15. ASSUME NEW r \in Requests, PassGate(r) PROVE RegisteredWhileAlive'
  BY <1>15 DEF PassGate, storeVars, reqVars, handlerVars, sessionVars
<1>16. ASSUME NEW r \in Requests, Finish(r) PROVE RegisteredWhileAlive'
  BY <1>16 DEF Finish, storeVars, reqVars, handlerVars, sessionVars
<1>17. ASSUME NEW s \in Sessions, LoopEnds(s) PROVE RegisteredWhileAlive'
  BY <1>17 DEF LoopEnds, HandlersOf, storeVars, reqVars, handlerVars
<1>18. ASSUME NEW s \in Sessions, LoopCrashes(s) PROVE RegisteredWhileAlive'
  BY <1>18 DEF LoopCrashes, HandlersOf, storeVars, reqVars, handlerVars
<1>19. CASE UNCHANGED vars
  BY <1>19 DEF vars, storeVars, reqVars, handlerVars, sessionVars
<1> HIDE DEF TypeOK, RegisteredWhileAlive, InSession
<1>20. QED
  BY <1>1, <1>2, <1>3, <1>4, <1>5, <1>6, <1>7, <1>8, <1>9, <1>10,
     <1>11, <1>12, <1>13, <1>14, <1>15, <1>16, <1>17, <1>18, <1>19
     DEF Next, HttpStep

\* Steps that bind nobody and write no slot keep every identity with its owner:
\* the HTTP tasks on their way through authorization, routing and transport.
LEMMA QuietOwners ==
  ASSUME IdentitiesOwned,
         UNCHANGED <<clients, epoch, grants, cred, target, ctx, seen, slot, users>>,
         \A r \in Requests : pc'[r] \notin {"new", "done"} => pc[r] \notin {"new", "done"}
  PROVE  IdentitiesOwned'
BY DEF IdentitiesOwned, OwnedBy

\* What the middleware binds is owned by the credential it was bound for.
LEMMA BoundOwned ==
  ASSUME TypeOK, IdentitiesOwned, NEW cr \in Anyone,
         cr.client = NoClient \/ Resolves(cr.client) \/ cr.cookie
  PROVE  OwnedBy(Bound(cr), cr)
<1>1. /\ Bound(cr).adminSession = cr.cookie /\ Bound(cr).asof = epoch
      /\ Bound(cr).client = IF Resolves(cr.client) THEN cr.client ELSE NoClient
      /\ Bound(cr).canAdmin = (Resolves(cr.client) /\ clients[cr.client].canAdmin)
  BY DEF Bound
<1>2. Resolves(cr.client) => cr.client \in Clients /\ clients[cr.client].known
  BY DEF Resolves, Anyone
<1>3. Bound(cr).canAdmin => <<Bound(cr).client, Bound(cr).asof>> \in grants
  BY <1>1, <1>2 DEF IdentitiesOwned
<1>4. QED
  BY <1>1, <1>3 DEF OwnedBy

\* Every step keeps identities with their owners.
LEMMA OwnersStep ==
  ASSUME TypeOK, TargetsOpened, SlotsFresh, IdentitiesOwned, [Next]_vars
  PROVE  IdentitiesOwned'
<1> USE DEF TypeOK
<1>1. ASSUME NEW c \in Clients, NEW known \in BOOLEAN, NEW canAdmin \in BOOLEAN,
             EditClient(c, [known |-> known, canAdmin |-> canAdmin])
      PROVE  IdentitiesOwned'
  <2>1. /\ epoch' = epoch + 1 /\ grants \subseteq grants'
        /\ \A d \in Clients : clients'[d].known /\ clients'[d].canAdmin
                                => <<d, epoch'>> \in grants'
    BY <1>1 DEF EditClient
  <2>2. UNCHANGED <<pc, cred, target, ctx, seen, slot, users>>
    BY <1>1 DEF EditClient, reqVars, handlerVars, sessionVars
  <2>3. \A id, cr : OwnedBy(id, cr) => OwnedBy(id, cr)'
    BY <2>1 DEF OwnedBy
  <2>4. \A s \in Sessions : slot[s] # NoSlot => slot[s].asof <= epoch'
    BY <2>1 DEF IdentitiesOwned, Identity
  <2>5. QED
    BY <2>1, <2>2, <2>3, <2>4 DEF IdentitiesOwned, OwnedBy
<1>2. ASSUME NEW r \in Requests, NEW k \in {"open", "call", "delete"},
             NEW cr \in Credentials, NEW s \in Sessions \union {NoSession},
             Bind(r, k, cr, s)
      PROVE  IdentitiesOwned'
  <2>1. OwnedBy(Bound(cr), cr) /\ Bound(cr) # NoSlot /\ Bound(cr).asof = epoch
    BY <1>2, CredentialType, BoundType, BoundOwned DEF Bind
  <2>2. /\ UNCHANGED <<clients, epoch, grants, seen>>
        /\ seen[r] = NoSlot
    BY <1>2 DEF Bind, Arrives, storeVars, handlerVars, TargetsOpened
  <2>3. ctx'[r] = Bound(cr) /\ cred'[r] = cr
    BY <1>2 DEF Bind, Arrives
  <2>4. \A q \in Requests \ {r} : /\ pc'[q] = pc[q] /\ ctx'[q] = ctx[q]
                                  /\ cred'[q] = cred[q] /\ target'[q] = target[q]
    BY <1>2 DEF Bind, Arrives
  <2>5. \A x \in Sessions : \/ slot'[x] = slot[x] /\ users'[x] = users[x]
                            \/ slot'[x] = Bound(cr) /\ users'[x] = users[x] \union {cr}
    BY <1>2 DEF Bind, UpdateSlot
  <2>6. \A id, c : OwnedBy(id, c)' <=> OwnedBy(id, c)
    BY <2>2 DEF OwnedBy
  <2>7. \A q \in Requests : pc'[q] \notin {"new", "done"} => OwnedBy(ctx'[q], cred'[q])
    BY <2>1, <2>3, <2>4 DEF IdentitiesOwned
  <2>8. \A x \in Sessions : slot'[x] # NoSlot =>
          slot'[x].asof <= epoch /\ \E c \in users'[x] : OwnedBy(slot'[x], c)
    BY <2>1, <2>5 DEF IdentitiesOwned
  <2>9. \A q \in Requests : seen'[q] # NoSlot =>
          target'[q] # NoSession /\ \E c \in users'[target'[q]] : OwnedBy(seen'[q], c)
    BY <2>2, <2>4, <2>5 DEF IdentitiesOwned
  <2>10. QED
    BY <2>2, <2>6, <2>7, <2>8, <2>9 DEF IdentitiesOwned, OwnedBy
<1>3. ASSUME NEW r \in Requests, NEW k \in {"open", "call", "delete"},
             NEW cr \in Credentials, NEW s \in Sessions \union {NoSession},
             Reject(r, k, cr, s)
      PROVE  IdentitiesOwned'
  <2>1. seen[r] = NoSlot /\ pc'[r] = "done"
        /\ UNCHANGED <<clients, epoch, grants, ctx, seen, slot, users>>
    BY <1>3 DEF Reject, Arrives, storeVars, handlerVars, sessionVars, TargetsOpened
  <2>2. \A q \in Requests \ {r} :
          pc'[q] = pc[q] /\ cred'[q] = cred[q] /\ target'[q] = target[q]
    BY <1>3 DEF Reject, Arrives
  <2>3. QED
    BY <2>1, <2>2 DEF IdentitiesOwned, OwnedBy
<1>4. ASSUME NEW r \in Requests, NEW s \in Sessions, Create(r, s) PROVE IdentitiesOwned'
  <2>1. /\ OwnedBy(ctx[r], cred[r]) /\ ctx[r].asof <= epoch
        /\ target[r] = NoSession /\ seen[r] = NoSlot
    BY <1>4 DEF Create, IdentitiesOwned, SlotsFresh
  <2>2. \A q \in Requests \ {r} :
          /\ target'[q] = target[q] /\ target[q] # s
          /\ pc'[q] = pc[q]
    BY <1>4, McpSessionAssumption DEF Create, TargetsOpened
  <2>3. /\ slot'[s] = ctx[r] /\ users'[s] = {cred[r]}
        /\ \A x \in Sessions \ {s} : slot'[x] = slot[x] /\ users'[x] = users[x]
    BY <1>4 DEF Create
  <2>4. UNCHANGED <<clients, epoch, grants, cred, ctx, seen>>
    BY <1>4 DEF Create, storeVars, handlerVars
  <2>5. \A x \in Sessions : slot'[x] # NoSlot =>
          slot'[x].asof <= epoch /\ \E c \in users'[x] : OwnedBy(slot'[x], c)
    BY <2>1, <2>3 DEF IdentitiesOwned
  <2>6. \A q \in Requests : seen'[q] # NoSlot =>
          target'[q] # NoSession /\ \E c \in users'[target'[q]] : OwnedBy(seen'[q], c)
    BY <2>1, <2>2, <2>3, <2>4 DEF IdentitiesOwned
  <2>7. \A q \in Requests : pc'[q] \notin {"new", "done"} => OwnedBy(ctx'[q], cred'[q])
    BY <2>1, <2>2, <2>4 DEF IdentitiesOwned
  <2>8. QED
    BY <2>4, <2>5, <2>6, <2>7 DEF IdentitiesOwned, OwnedBy
<1>5. ASSUME NEW r \in Requests, AuthPass(r) PROVE IdentitiesOwned'
  BY <1>5, QuietOwners DEF AuthPass, storeVars, handlerVars, sessionVars
<1>6. ASSUME NEW r \in Requests, AuthReject(r) PROVE IdentitiesOwned'
  BY <1>6, QuietOwners DEF AuthReject, storeVars, handlerVars, sessionVars
<1>7. ASSUME NEW r \in Requests, Route(r) PROVE IdentitiesOwned'
  BY <1>7, QuietOwners DEF Route, storeVars, handlerVars, sessionVars
<1>8. ASSUME NEW r \in Requests, NotFound(r) PROVE IdentitiesOwned'
  BY <1>8, QuietOwners DEF NotFound, storeVars, handlerVars, sessionVars
<1>9. ASSUME NEW r \in Requests, Deliver(r) PROVE IdentitiesOwned'
  BY <1>9, QuietOwners DEF Deliver, storeVars, sessionVars
<1>10. ASSUME NEW r \in Requests, TransportGone(r) PROVE IdentitiesOwned'
  BY <1>10, QuietOwners DEF TransportGone, storeVars, handlerVars, sessionVars
<1>11. ASSUME NEW r \in Requests, Terminate(r) PROVE IdentitiesOwned'
  BY <1>11, QuietOwners DEF Terminate, storeVars, handlerVars
<1>12. ASSUME NEW r \in Requests, Return(r) PROVE IdentitiesOwned'
  BY <1>12, QuietOwners DEF Return, storeVars, handlerVars
<1>13. ASSUME NEW r \in Requests, Detach(r) PROVE IdentitiesOwned'
  BY <1>13, QuietOwners DEF Detach, storeVars, handlerVars, sessionVars
<1>14. ASSUME NEW r \in Requests, ReadIdentity(r) PROVE IdentitiesOwned'
  <2>1. target[r] \in Sessions
    BY <1>14 DEF ReadIdentity, TargetsOpened
  <2>2. /\ UNCHANGED <<clients, epoch, grants, pc, cred, target, ctx, slot, users>>
        /\ seen'[r] = slot[target[r]]
        /\ \A q \in Requests \ {r} : seen'[q] = seen[q]
    BY <1>14 DEF ReadIdentity, storeVars, reqVars, sessionVars
  <2>3. QED
    BY <2>1, <2>2, McpSessionAssumption DEF IdentitiesOwned, OwnedBy
<1>15. ASSUME NEW r \in Requests, PassGate(r) PROVE IdentitiesOwned'
  BY <1>15, QuietOwners DEF PassGate, storeVars, reqVars, sessionVars
<1>16. ASSUME NEW r \in Requests, Finish(r) PROVE IdentitiesOwned'
  <2>1. /\ UNCHANGED <<clients, epoch, grants, cred, target, ctx, slot, users>>
        /\ seen'[r] = NoSlot
        /\ \A q \in Requests \ {r} : seen'[q] = seen[q]
        /\ \A q \in Requests : pc'[q] = pc[q] \/ pc[q] = "handling"
    BY <1>16 DEF Finish, storeVars, sessionVars
  <2>2. QED
    BY <2>1 DEF IdentitiesOwned, OwnedBy
<1>17. ASSUME NEW s \in Sessions, LoopEnds(s) PROVE IdentitiesOwned'
  <2>1. /\ UNCHANGED <<clients, epoch, grants, pc, cred, target, ctx, seen, users>>
        /\ \A x \in Sessions : slot'[x] \in {slot[x], NoSlot}
    BY <1>17 DEF LoopEnds, storeVars, reqVars, handlerVars
  <2>2. QED
    BY <2>1 DEF IdentitiesOwned, OwnedBy
<1>18. ASSUME NEW s \in Sessions, LoopCrashes(s) PROVE IdentitiesOwned'
  <2>1. /\ UNCHANGED <<clients, epoch, grants, cred, target, ctx, seen, users>>
        /\ \A x \in Sessions : slot'[x] \in {slot[x], NoSlot}
        /\ \A q \in Requests : pc'[q] = pc[q] \/ pc[q] = "handling"
    BY <1>18 DEF LoopCrashes, storeVars
  <2>2. QED
    BY <2>1 DEF IdentitiesOwned, OwnedBy
<1>19. CASE UNCHANGED vars
  BY <1>19, QuietOwners DEF vars, storeVars, reqVars, handlerVars, sessionVars
<1> HIDE DEF TypeOK
<1>20. QED
  BY <1>1, <1>2, <1>3, <1>4, <1>5, <1>6, <1>7, <1>8, <1>9, <1>10,
     <1>11, <1>12, <1>13, <1>14, <1>15, <1>16, <1>17, <1>18, <1>19
     DEF Next, HttpStep

\* Steps after which the same handlers are past the gate, or fewer, on behalf of
\* the same or more users and with the same or more grants.
LEMMA QuietGate ==
  ASSUME TypeOK, GatePassed, UNCHANGED ctx,
         grants \subseteq grants', epoch' \in Nat, epoch <= epoch', adminRun' \subseteq adminRun,
         \A r \in adminRun : /\ target'[r] = target[r]
                             /\ users[target[r]] \subseteq users'[target[r]]
                             /\ pc'[r] = "new" => pc[r] = "new"
  PROVE  GatePassed'
<1>1. ASSUME NEW r \in Requests, NEW cr, Granted(r, cr) PROVE Granted(r, cr)'
  <2>1. ctx[r].asof..epoch \subseteq ctx'[r].asof..epoch'
    BY DEF TypeOK, Identity
  <2>2. QED
    BY <1>1, <2>1 DEF Granted
<1>2. adminRun \subseteq Requests
  BY DEF TypeOK
<1>3. ASSUME NEW r \in adminRun'
      PROVE  /\ pc'[r] # "new" /\ target'[r] # NoSession
             /\ \E cr \in users'[target'[r]] : Granted(r, cr)'
  <2>1. PICK cr \in users[target[r]] : Granted(r, cr)
    BY DEF GatePassed
  <2>2. Granted(r, cr)' /\ cr \in users'[target'[r]]
    BY <1>1, <1>2, <2>1
  <2>3. QED
    BY <2>2 DEF GatePassed
<1>4. QED
  BY <1>3 DEF GatePassed

\* Every step keeps the gate: only PassGate lets a handler through, and does so
\* for what the slot holds, which is one of the session's users, no older than the
\* request and no newer than the store.
LEMMA GateStep ==
  ASSUME TypeOK, TargetsOpened, SlotsFresh, IdentitiesOwned, RegisteredWhileAlive,
         GatePassed, [Next]_vars
  PROVE  GatePassed'
<1>0. adminRun \subseteq Requests /\ epoch \in Nat /\ epoch <= epoch
  BY DEF TypeOK
<1>1. ASSUME NEW c \in Clients, NEW known \in BOOLEAN, NEW canAdmin \in BOOLEAN,
             EditClient(c, [known |-> known, canAdmin |-> canAdmin])
      PROVE  GatePassed'
  <2>1. epoch' \in Nat /\ epoch <= epoch' /\ grants \subseteq grants'
    BY <1>0, <1>1 DEF EditClient
  <2>2. UNCHANGED <<pc, target, ctx, adminRun, users>>
    BY <1>1 DEF EditClient, reqVars, handlerVars, sessionVars
  <2>3. QED
    BY <2>1, <2>2, QuietGate
<1>2. ASSUME NEW r \in Requests, NEW k \in {"open", "call", "delete"},
             NEW cr \in Credentials, NEW s \in Sessions \union {NoSession},
             Bind(r, k, cr, s)
      PROVE  GatePassed'
  <2>1. r \notin adminRun /\ UNCHANGED <<epoch, grants, adminRun>>
    BY <1>2 DEF Bind, Arrives, storeVars, handlerVars, GatePassed
  <2>2. \A q \in Requests \ {r} :
          pc'[q] = pc[q] /\ target'[q] = target[q] /\ ctx'[q] = ctx[q]
    BY <1>2 DEF Bind, Arrives, TypeOK
  <2>3. \A x \in Sessions : users[x] \subseteq users'[x]
    BY <1>2 DEF Bind, UpdateSlot, TypeOK
  <2>4. ASSUME NEW q \in adminRun
        PROVE  /\ pc'[q] # "new" /\ target'[q] # NoSession
               /\ \E c \in users'[target'[q]] : Granted(q, c)'
    <3>1. q \in Requests /\ q # r
      BY <1>0, <2>1
    <3>2. PICK c \in users[target[q]] : Granted(q, c)
      BY DEF GatePassed
    <3>3. target[q] \in Sessions
      BY <3>1 DEF GatePassed, TypeOK
    <3>4. Granted(q, c)'
      BY <2>1, <2>2, <3>1, <3>2 DEF Granted
    <3>5. c \in users'[target'[q]]
      BY <2>2, <2>3, <3>1, <3>2, <3>3
    <3>6. QED
      BY <2>2, <3>1, <3>4, <3>5 DEF GatePassed
  <2>5. QED
    BY <2>1, <2>4 DEF GatePassed
<1>3. ASSUME NEW r \in Requests, NEW k \in {"open", "call", "delete"},
             NEW cr \in Credentials, NEW s \in Sessions \union {NoSession},
             Reject(r, k, cr, s)
      PROVE  GatePassed'
  <2>1. r \notin adminRun /\ UNCHANGED <<epoch, grants, ctx, adminRun, users>>
    BY <1>3 DEF Reject, Arrives, storeVars, handlerVars, sessionVars, GatePassed
  <2>2. \A q \in Requests \ {r} : pc'[q] = pc[q] /\ target'[q] = target[q]
    BY <1>3 DEF Reject, Arrives, TypeOK
  <2>3. QED
    BY <1>0, <2>1, <2>2, QuietGate
<1>4. ASSUME NEW r \in Requests, NEW s \in Sessions, Create(r, s) PROVE GatePassed'
  <2>1. r \notin adminRun /\ UNCHANGED <<epoch, grants, ctx, adminRun>>
    BY <1>4 DEF Create, storeVars, handlerVars, GatePassed
  <2>2. \A q \in Requests \ {r} :
          pc'[q] = pc[q] /\ target'[q] = target[q] /\ target[q] # s
    BY <1>4, McpSessionAssumption DEF Create, TypeOK, TargetsOpened
  <2>3. \A x \in Sessions \ {s} : users'[x] = users[x]
    BY <1>4 DEF Create, TypeOK
  <2>4. \A q \in adminRun : target[q] \in Sessions
    BY <1>0 DEF GatePassed, TypeOK
  <2>5. QED
    BY <1>0, <2>1, <2>2, <2>3, <2>4, QuietGate
<1>5. ASSUME NEW r \in Requests, AuthPass(r) PROVE GatePassed'
  BY <1>0, <1>5, QuietGate DEF AuthPass, storeVars, handlerVars, sessionVars, TypeOK
<1>6. ASSUME NEW r \in Requests, AuthReject(r) PROVE GatePassed'
  BY <1>0, <1>6, QuietGate DEF AuthReject, storeVars, handlerVars, sessionVars, TypeOK
<1>7. ASSUME NEW r \in Requests, Route(r) PROVE GatePassed'
  BY <1>0, <1>7, QuietGate DEF Route, storeVars, handlerVars, sessionVars, TypeOK
<1>8. ASSUME NEW r \in Requests, NotFound(r) PROVE GatePassed'
  BY <1>0, <1>8, QuietGate DEF NotFound, storeVars, handlerVars, sessionVars, TypeOK
<1>9. ASSUME NEW r \in Requests, Deliver(r) PROVE GatePassed'
  BY <1>0, <1>9, QuietGate DEF Deliver, storeVars, sessionVars, TypeOK
<1>10. ASSUME NEW r \in Requests, TransportGone(r) PROVE GatePassed'
  BY <1>0, <1>10, QuietGate DEF TransportGone, storeVars, handlerVars, sessionVars, TypeOK
<1>11. ASSUME NEW r \in Requests, Terminate(r) PROVE GatePassed'
  BY <1>0, <1>11, QuietGate DEF Terminate, storeVars, handlerVars, TypeOK
<1>12. ASSUME NEW r \in Requests, Return(r) PROVE GatePassed'
  BY <1>0, <1>12, QuietGate DEF Return, storeVars, handlerVars, TypeOK
<1>13. ASSUME NEW r \in Requests, Detach(r) PROVE GatePassed'
  BY <1>0, <1>13, QuietGate DEF Detach, storeVars, handlerVars, sessionVars, TypeOK
<1>14. ASSUME NEW r \in Requests, ReadIdentity(r) PROVE GatePassed'
  BY <1>0, <1>14, QuietGate DEF ReadIdentity, storeVars, reqVars, sessionVars
<1>15. ASSUME NEW r \in Requests, PassGate(r) PROVE GatePassed'
  <2>1. /\ r \in running /\ MayAdmin(slot[target[r]])
        /\ adminRun' = adminRun \union {r}
        /\ UNCHANGED <<epoch, grants, pc, target, ctx, users>>
    BY <1>15 DEF PassGate, storeVars, reqVars, sessionVars
  <2>2. target[r] \in Sessions /\ target[r] # NoSession /\ pc[r] # "new"
    BY <2>1 DEF TargetsOpened, TypeOK
  <2>3. PICK id \in Identity : id = slot[target[r]]
    BY <2>1, <2>2 DEF RegisteredWhileAlive, TypeOK
  <2>4. ctx[r].asof <= id.asof /\ id.asof <= epoch
    BY <2>1, <2>2, <2>3, IdentityIsNoSlot DEF SlotsFresh, IdentitiesOwned
  <2>5. PICK cr \in users[target[r]] : OwnedBy(id, cr)
    BY <2>2, <2>3, IdentityIsNoSlot DEF IdentitiesOwned
  <2>6. Granted(r, cr)
    <3>1. ctx[r].asof \in Nat /\ id.asof \in Nat /\ epoch \in Nat
      BY DEF TypeOK, Identity
    <3>2. id.asof \in ctx[r].asof..epoch
      BY <2>4, <3>1
    <3>3. CASE id.adminSession
      BY <2>5, <3>3 DEF OwnedBy, Granted
    <3>4. CASE id.client # NoClient /\ id.canAdmin
      BY <2>5, <3>2, <3>4 DEF OwnedBy, Granted
    <3>5. CASE id.client = NoClient /\ ~AuthEnabled
      BY <2>5, <3>5 DEF OwnedBy, Granted
    <3>6. QED
      BY <2>1, <2>3, <3>3, <3>4, <3>5 DEF MayAdmin
  <2>7. QED
    BY <2>1, <2>2, <2>5, <2>6 DEF GatePassed, Granted
<1>16. ASSUME NEW r \in Requests, Finish(r) PROVE GatePassed'
  BY <1>0, <1>16, QuietGate DEF Finish, storeVars, sessionVars, TypeOK
<1>17. ASSUME NEW s \in Sessions, LoopEnds(s) PROVE GatePassed'
  BY <1>0, <1>17, QuietGate DEF LoopEnds, storeVars, reqVars, handlerVars
<1>18. ASSUME NEW s \in Sessions, LoopCrashes(s) PROVE GatePassed'
  BY <1>0, <1>18, QuietGate DEF LoopCrashes, storeVars, TypeOK
<1>19. CASE UNCHANGED vars
  BY <1>0, <1>19, QuietGate DEF vars, storeVars, reqVars, handlerVars, sessionVars
<1>20. QED
  BY <1>1, <1>2, <1>3, <1>4, <1>5, <1>6, <1>7, <1>8, <1>9, <1>10,
     <1>11, <1>12, <1>13, <1>14, <1>15, <1>16, <1>17, <1>18, <1>19
     DEF Next, HttpStep

\* The invariant holds before the first request.
LEMMA InitInv == Init => SessionInv
<1> SUFFICES ASSUME Init PROVE SessionInv
  OBVIOUS
<1>1. Anonymous \in Identity
  BY DEF Anonymous, Identity
<1>2. TypeOK
  <2>1. grants \in SUBSET (Clients \X Nat)
    BY DEF Init
  <2>2. clients \in [Clients -> [known : BOOLEAN, canAdmin : BOOLEAN]]
    BY DEF Init
  <2>3. QED
    BY <1>1, <2>1, <2>2 DEF Init, TypeOK, Anyone
<1>3. TargetsOpened /\ PolicyIsFresh /\ RegisteredWhileAlive
  BY DEF Init, TargetsOpened, PolicyIsFresh, RegisteredWhileAlive
<1>4. SlotsFresh
  BY DEF Init, SlotsFresh, Anonymous
<1>5. IdentitiesOwned
  <2>1. \A c \in Clients : clients[c].canAdmin => <<c, epoch>> \in grants
    BY DEF Init
  <2>2. QED
    BY <2>1 DEF Init, IdentitiesOwned
<1>6. GatePassed
  BY DEF Init, GatePassed
<1>7. QED
  BY <1>2, <1>3, <1>4, <1>5, <1>6 DEF SessionInv

\* The conjunction of the parts above is invariant.
LEMMA SessionInvariant == Spec => []SessionInv
<1>1. SessionInv /\ [Next]_vars => SessionInv'
  BY TypeStep, TargetsStep, FreshStep, PolicyStep, RegisteredStep, OwnersStep, GateStep
     DEF SessionInv
<1>2. QED
  BY <1>1, InitInv, PTL DEF Spec

\* Every variable keeps its type; in particular a slot only ever holds an
\* identity the middleware bound, and only opened sessions are registered.
THEOREM TypeCorrect == Spec => []TypeOK
<1>1. SessionInv => TypeOK
  BY DEF SessionInv
<1>2. QED
  BY <1>1, SessionInvariant, PTL

\* A handler never acts on an identity older than its own request, for any
\* number of requests sharing a session, handlers that outlive their HTTP
\* exchange, edits of the client store, and failures of it.
THEOREM HandlersSeeFreshPolicy == Spec => []PolicyIsFresh
<1>1. SessionInv => PolicyIsFresh
  BY DEF SessionInv
<1>2. QED
  BY <1>1, SessionInvariant, PTL

\* A session is registered exactly while its loop runs, up to the request that
\* is about to unregister it, and handlers run only in a session with a slot.
THEOREM SessionsAreCleanedUp == Spec => []RegisteredWhileAlive
<1>1. SessionInv => RegisteredWhileAlive
  BY DEF SessionInv
<1>2. QED
  BY <1>1, SessionInvariant, PTL

\* While a session is used with one credential only, its handlers see nobody else:
\* for any number of sessions, requests and edits, no identity leaks from one
\* session's slot into the handlers of another.
THEOREM OwnersSeeThemselves == Spec => []OwnerSeesItself
<1>1. SessionInv => OwnerSeesItself
  <2> SUFFICES ASSUME SessionInv, NEW r \in Requests, seen[r] # NoSlot,
                      users[target[r]] = {cred[r]}
               PROVE  /\ seen[r].adminSession = cred[r].cookie
                      /\ \/ seen[r].client = cred[r].client
                         \/ seen[r].client = NoClient /\ cred[r].cookie
    BY DEF OwnerSeesItself
  <2>1. OwnedBy(seen[r], cred[r])
    BY DEF SessionInv, IdentitiesOwned
  <2>2. QED
    BY <2>1 DEF OwnedBy
<1>2. QED
  BY <1>1, SessionInvariant, PTL

\* An admin tool runs only for who may: no withdrawn grant outlives the request
\* that arrives after it, whatever is edited while handlers run.
THEOREM AdminNeedsGrant == Spec => []AdminByGrant
<1>1. SessionInv => AdminByGrant
  BY DEF SessionInv, AdminByGrant, GatePassed
<1>2. QED
  BY <1>1, SessionInvariant, PTL
=============================================================================
