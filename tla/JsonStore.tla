------------------------------ MODULE JsonStore ------------------------------
(***************************************************************************)
(* One JSON document store of the proxy: ServerConfigStore,                *)
(* ClientTokenStore or DomainStore.  The three share one shape: a file     *)
(* under /data/config, an MtimeJsonCache that keys the parsed document on  *)
(* the file's stat signature, and a lock held by every method.             *)
(*                                                                         *)
(* The lock makes store methods exclude each other, so a single operation  *)
(* is in flight.  What may come between the steps of that operation is an  *)
(* administrator editing or deleting the file, an OSError from the         *)
(* filesystem, and a crash of the process.                                 *)
(*                                                                         *)
(* A document is a function from record ids to records.  Writing it and    *)
(* parsing it again gives the same document: what is written has passed    *)
(* the pydantic validators, which are idempotent.                          *)
(***************************************************************************)
EXTENDS Naturals

CONSTANTS
  Ids,            \* record ids (server, client or domain slugs)
  Records,        \* record contents
  NoRecord,       \* marks an id the document does not hold
  Missing,        \* the file does not exist
  Corrupt,        \* the file exists and does not parse
  NoCache,        \* MtimeJsonCache._value is None
  MaxSig,         \* bound on the number of file versions
  WriteMayFail,   \* may tmp.write_text / tmp.replace raise OSError?
  EditContents    \* what somebody editing the file by hand may leave there

Doc == [Ids -> Records \union {NoRecord}]

ASSUME JsonStoreAssumption ==
  /\ NoRecord \notin Records
  /\ Missing \notin Doc /\ Corrupt \notin Doc /\ Missing # Corrupt
  /\ NoCache \notin [sig : Nat, doc : Doc]
  /\ MaxSig \in Nat
  /\ WriteMayFail \in BOOLEAN
  /\ EditContents \subseteq Doc \union {Missing, Corrupt}

VARIABLES
  file,      \* [content, sig]: what path.stat() and path.read_text() would see
  lastSig,   \* the newest signature given to any version of the file
  cache,     \* MtimeJsonCache: NoCache, or [sig, doc] with the SHARED document
  pc,        \* where the operation holding the lock is
  op,        \* that operation
  statSig,   \* get()'s local 'sig'
  tmp,       \* content of the .json.tmp file
  window,    \* history: documents the file held since the operation began
  failedIds  \* history: ids whose write failed since the cache was last filled

vars == <<file, lastSig, cache, pc, op, statSig, tmp, window, failedIds>>

EmptyDoc == [i \in Ids |-> NoRecord]

\* _MISSING_SIG: the signature of a file that is not there.
MissingSig == 0

\* The store's _parse: a missing file is the empty document.  A corrupt one
\* raises, so Parse is applied to the other contents only.
Parse(content) == IF content = Missing THEN EmptyDoc ELSE content

Ops == [kind : {"read"}, id : Ids, rec : Records \union {NoRecord}]
         \union [kind : {"add", "update"}, id : Ids, rec : Records]
         \union [kind : {"remove"}, id : Ids, rec : {NoRecord}]

NoOp(i) == [kind |-> "read", id |-> i, rec |-> NoRecord]

\* add raises on a known id, update / update_fields raise KeyError and remove
\* returns False on an unknown one; then nothing is written.
Accepts(doc, o) ==
  \/ o.kind = "add" /\ doc[o.id] = NoRecord
  \/ o.kind \in {"update", "remove"} /\ doc[o.id] # NoRecord

\* The document after an accepted operation.
Apply(doc, o) == [doc EXCEPT ![o.id] = o.rec]

TypeOK ==
  /\ file \in [content : Doc \union {Missing, Corrupt}, sig : Nat]
  /\ lastSig \in Nat
  /\ cache \in [sig : Nat, doc : Doc] \union {NoCache}
  /\ pc \in {"idle", "stat", "held", "mutated", "written", "replaced"}
  /\ op \in Ops
  /\ statSig \in Nat
  /\ tmp \in Doc
  /\ window \in SUBSET Doc
  /\ failedIds \in SUBSET Ids
  /\ pc \in {"held", "mutated", "written", "replaced"} => cache # NoCache

Init ==
  /\ file = [content |-> Missing, sig |-> MissingSig]
  /\ lastSig = MissingSig
  /\ cache = NoCache
  /\ pc = "idle"
  /\ op \in {NoOp(i) : i \in Ids}
  /\ statSig = MissingSig
  /\ tmp = EmptyDoc
  /\ window = {}
  /\ failedIds = {}

-----------------------------------------------------------------------------
(***************************************************************************)
(* MtimeJsonCache.get(), the first thing every store method does.          *)
(***************************************************************************)

Readable == file.content # Corrupt

\* Take the lock; get() stats the file.
Stat(o) ==
  /\ pc = "idle"
  /\ op' = o
  /\ pc' = "stat"
  /\ statSig' = file.sig
  /\ window' = IF Readable THEN {Parse(file.content)} ELSE {}
  /\ UNCHANGED <<file, lastSig, cache, tmp, failedIds>>

\* Mutant of Hit: the signature is not compared.
MutHit == cache # NoCache

Hit == cache # NoCache /\ cache.sig = statSig

\* The cached document is returned as it is: no parse, no copy.
UseCached ==
  /\ pc = "stat"
  /\ Hit
  /\ pc' = "held"
  /\ UNCHANGED <<file, lastSig, cache, op, statSig, tmp, window, failedIds>>

\* Mutant of ParseFile: a failed parse is cached as well.
MutParseFile ==
  /\ pc = "stat"
  /\ ~Hit
  /\ cache' = [sig |-> statSig, doc |-> Parse(file.content)]
  /\ pc' = "held"
  /\ failedIds' = {}
  /\ UNCHANGED <<file, lastSig, op, statSig, tmp, window>>

\* A miss parses the file and remembers the document under the signature that
\* was read BEFORE the parse.
ParseFile ==
  /\ pc = "stat"
  /\ ~Hit
  /\ Readable
  /\ cache' = [sig |-> statSig, doc |-> Parse(file.content)]
  /\ pc' = "held"
  /\ failedIds' = {}
  /\ UNCHANGED <<file, lastSig, op, statSig, tmp, window>>

\* A failed parse raises to the caller and nothing is cached.
ParseError ==
  /\ pc = "stat"
  /\ ~Hit
  /\ ~Readable
  /\ pc' = "idle"
  /\ UNCHANGED <<file, lastSig, cache, op, statSig, tmp, window, failedIds>>

-----------------------------------------------------------------------------
(***************************************************************************)
(* The body of the method, with the shared document in hand.               *)
(***************************************************************************)

\* Readers copy records out; a refused mutation raises or returns False.
Return ==
  /\ pc = "held"
  /\ ~Accepts(cache.doc, op)
  /\ pc' = "idle"
  /\ UNCHANGED <<file, lastSig, cache, op, statSig, tmp, window, failedIds>>

\* doc.servers.append(...), doc.servers[i] = ..., doc.servers = [...]: the
\* document being changed IS the cached one.
Mutate ==
  /\ pc = "held"
  /\ Accepts(cache.doc, op)
  /\ cache' = [sig |-> cache.sig, doc |-> Apply(cache.doc, op)]
  /\ pc' = "mutated"
  /\ UNCHANGED <<file, lastSig, op, statSig, tmp, window, failedIds>>

\* _write_unlocked, first half: the whole document goes to the .tmp file.
WriteTmp ==
  /\ pc = "mutated"
  /\ tmp' = cache.doc
  /\ pc' = "written"
  /\ UNCHANGED <<file, lastSig, cache, op, statSig, window, failedIds>>

\* Mutant of Replace: only the record of the operation is written back.
MutReplace ==
  /\ pc = "written"
  /\ lastSig < MaxSig
  /\ lastSig' = lastSig + 1
  /\ file' = [content |-> Apply(EmptyDoc, op), sig |-> lastSig + 1]
  /\ window' = window \union {Apply(EmptyDoc, op)}
  /\ pc' = "replaced"
  /\ UNCHANGED <<cache, op, statSig, tmp, failedIds>>

\* _write_unlocked, second half: tmp.replace(path) is atomic.
Replace ==
  /\ pc = "written"
  /\ lastSig < MaxSig
  /\ lastSig' = lastSig + 1
  /\ file' = [content |-> tmp, sig |-> lastSig + 1]
  /\ window' = window \union {tmp}
  /\ pc' = "replaced"
  /\ UNCHANGED <<cache, op, statSig, tmp, failedIds>>

\* self._cache.invalidate(); the method returns and the lock is released.
Invalidate ==
  /\ pc = "replaced"
  /\ cache' = NoCache
  /\ pc' = "idle"
  /\ failedIds' = {}
  /\ UNCHANGED <<file, lastSig, op, statSig, tmp, window>>

\* write_text or replace raises OSError: the exception leaves the method, the
\* lock is released, and the cache is not invalidated.
WriteFails ==
  /\ WriteMayFail
  /\ pc \in {"mutated", "written"}
  /\ pc' = "idle"
  /\ failedIds' = failedIds \union {op.id}
  /\ UNCHANGED <<file, lastSig, cache, op, statSig, tmp, window>>

-----------------------------------------------------------------------------
(***************************************************************************)
(* The environment.                                                        *)
(***************************************************************************)

\* Somebody edits, breaks or deletes the file.
Edit(content) ==
  /\ content # file.content
  /\ lastSig < MaxSig
  /\ file' = [content |-> content,
              sig |-> IF content = Missing THEN MissingSig ELSE lastSig + 1]
  /\ lastSig' = lastSig + 1
  /\ window' = IF content = Corrupt THEN window ELSE window \union {Parse(content)}
  /\ UNCHANGED <<cache, pc, op, statSig, tmp, failedIds>>

\* The process dies and is started again: only the files survive.
Crash ==
  /\ pc # "idle" \/ cache # NoCache
  /\ cache' = NoCache
  /\ pc' = "idle"
  /\ failedIds' = {}
  /\ UNCHANGED <<file, lastSig, op, statSig, tmp, window>>

Next ==
  \/ \E o \in Ops : Stat(o)
  \/ UseCached
  \/ ParseFile
  \/ ParseError
  \/ Return
  \/ Mutate
  \/ WriteTmp
  \/ Replace
  \/ Invalidate
  \/ WriteFails
  \/ \E content \in EditContents : Edit(content)
  \/ Crash

Spec == Init /\ [][Next]_vars
-----------------------------------------------------------------------------
(***************************************************************************)
(* Properties.                                                             *)
(***************************************************************************)

\* The document a store method works on was the content of the file at some
\* moment since the method started, also when it comes from the cache, when the
\* file is edited between stat and parse, and after a crash.  Behaviour of
\* MtimeJsonCache.get(): "external edits are picked up by the signature check
\* on the next read" and a corrupt file is never masked by an older document.
ReadIsFresh == pc = "held" => cache.doc \in window

\* When the filesystem does fail: a failed operation leaves its change in the
\* shared document, but only there and only under its own id.  Every other
\* record a method sees is one the file held since the method started.
\* (_write_unlocked raising between the mutation and invalidate().)
DivergenceConfined ==
  pc = "held" =>
    \E d \in window : \A i \in Ids \ failedIds : cache.doc[i] = d[i]

\* What makes the two inductive: a signature names one version of the file, and
\* when the cache's signature is the file's, the cached document is the file's
\* except under the ids of failed writes and of the operation in flight.
SigsOrdered ==
  /\ file.sig <= lastSig
  /\ file.content = Missing <=> file.sig = MissingSig
  /\ cache # NoCache => cache.sig <= lastSig
  /\ pc = "stat" => statSig <= lastSig

Unsaved == failedIds \union (IF pc \in {"mutated", "written"} THEN {op.id} ELSE {})

CacheCoherent ==
  /\ pc # "replaced" /\ cache # NoCache /\ cache.sig = file.sig
       => /\ Readable
          /\ \A i \in Ids \ Unsaved : cache.doc[i] = Parse(file.content)[i]
  /\ pc \in {"stat", "held"} /\ Readable => Parse(file.content) \in window
  /\ pc = "stat" /\ Hit =>
       \E d \in window : \A i \in Ids \ failedIds : cache.doc[i] = d[i]

ConfinedInv == TypeOK /\ SigsOrdered /\ CacheCoherent /\ DivergenceConfined

\* The abstract store this module implements when the filesystem does not fail
\* and nobody edits the file: every version of the file is the previous one
\* with exactly one legal operation applied, across crashes too.
Abstract == INSTANCE AtomicStore WITH contents <- Parse(file.content)

\* Refinement of AtomicStore, checked as a property and proved.
ImplementsAtomicStore == Abstract!Spec

\* What makes the refinement hold step by step: between taking the lock and
\* replacing the file, the operation's document is the file's, with the
\* operation applied once it has mutated the shared document.
CopyInv ==
  /\ Readable
  /\ pc = "held" => cache.doc = Parse(file.content)
  /\ pc \in {"mutated", "written"} => Accepts(Parse(file.content), op)
  /\ pc = "mutated" => cache.doc = Apply(Parse(file.content), op)
  /\ pc = "written" => tmp = Apply(Parse(file.content), op)
  /\ pc \in {"stat", "held", "mutated", "written"} => statSig = file.sig
=============================================================================
