----------------------------- MODULE StoreProofs -----------------------------
(***************************************************************************)
(* The proxy's two kinds of files.  First the JSON document stores: type   *)
(* correctness, freshness of what a method reads, and the refinement of    *)
(* AtomicStore.  Then the write-behind store of the counters.              *)
(***************************************************************************)
EXTENDS JsonStore, ToolCallStats, FiniteSetTheorems, TLAPS

\* What _parse returns for a readable file is a document.
LEMMA ParseType ==
  ASSUME NEW c \in Doc \union {Missing, Corrupt}, c # Corrupt
  PROVE  Parse(c) \in Doc
BY JsonStoreAssumption DEF Parse, EmptyDoc, Doc

\* A mutation of a document is a document.
LEMMA ApplyType ==
  ASSUME NEW d \in Doc, NEW o \in Ops
  PROVE  Apply(d, o) \in Doc
BY DEF Apply, Ops, Doc

\* Every variable keeps its type: a document of the store is total on Ids, in
\* memory, in the .tmp file and in the file, whatever fails or crashes.
THEOREM TypeCorrect == Spec => []TypeOK
<1>1. Init => TypeOK
  BY JsonStoreAssumption DEF Init, TypeOK, NoOp, Ops, EmptyDoc, Doc, MissingSig
<1>2. TypeOK /\ [Next]_vars => TypeOK'
  <2> SUFFICES ASSUME TypeOK, [Next]_vars PROVE TypeOK'
    OBVIOUS
  <2> USE DEF TypeOK
  <2>1. ASSUME NEW o \in Ops, Stat(o) PROVE TypeOK'
    BY <2>1, ParseType DEF Stat, Readable
  <2>2. CASE UseCached
    BY <2>2 DEF UseCached, Hit
  <2>3. CASE ParseFile
    <3>1. cache' \in [sig : Nat, doc : Doc]
      BY <2>3, ParseType DEF ParseFile, Readable
    <3>2. cache' # NoCache
      BY <3>1, JsonStoreAssumption
    <3>3. QED BY <3>1, <3>2, <2>3 DEF ParseFile
  <2>4. CASE ParseError
    BY <2>4 DEF ParseError
  <2>5. CASE Return
    BY <2>5 DEF Return
  <2>6. CASE Mutate
    <3>1. cache \in [sig : Nat, doc : Doc]
      BY <2>6 DEF Mutate
    <3>2. cache' \in [sig : Nat, doc : Doc]
      BY <3>1, <2>6, ApplyType DEF Mutate
    <3>3. cache' # NoCache
      BY <3>2, JsonStoreAssumption
    <3>4. QED BY <3>2, <3>3, <2>6 DEF Mutate
  <2>7. CASE WriteTmp
    BY <2>7 DEF WriteTmp
  <2>8. CASE Replace
    BY <2>8, JsonStoreAssumption DEF Replace
  <2>9. CASE Invalidate
    BY <2>9 DEF Invalidate
  <2>10. CASE WriteFails
    BY <2>10 DEF WriteFails, Ops
  <2>11. ASSUME NEW c \in EditContents, Edit(c) PROVE TypeOK'
    BY <2>11, ParseType, JsonStoreAssumption DEF Edit, MissingSig
  <2>12. CASE Crash
    BY <2>12 DEF Crash
  <2>13. CASE UNCHANGED vars
    BY <2>13 DEF vars
  <2>14. QED
    BY <2>1, <2>2, <2>3, <2>4, <2>5, <2>6, <2>7, <2>8, <2>9, <2>10, <2>11,
       <2>12, <2>13 DEF Next
<1>3. QED
  BY <1>1, <1>2, PTL DEF Spec

-----------------------------------------------------------------------------
(***************************************************************************)
(* Freshness, for any number of ids, records and file versions, when the   *)
(* file may be edited or broken by hand but not deleted.                   *)
(***************************************************************************)

\* The document agrees with one the file held, outside the failed writes.
LEMMA ConfinedStep ==
  ASSUME Missing \notin EditContents, ConfinedInv, TypeOK', [Next]_vars
  PROVE  (SigsOrdered /\ CacheCoherent /\ DivergenceConfined)'
<1> USE DEF ConfinedInv
<1>1. ASSUME NEW o \in Ops, Stat(o)
      PROVE  (SigsOrdered /\ CacheCoherent /\ DivergenceConfined)'
  <2>1. SigsOrdered'
    BY <1>1 DEF Stat, SigsOrdered, TypeOK
  <2>2. Unsaved = failedIds /\ Unsaved' = failedIds
    BY <1>1 DEF Stat, Unsaved
  <2>3. Hit' => \E d \in window' : \A i \in Ids \ failedIds' : cache'.doc[i] = d[i]
    BY <1>1, <2>2 DEF Stat, Hit, CacheCoherent, Readable
  <2>4. CacheCoherent'
    BY <1>1, <2>2, <2>3 DEF Stat, CacheCoherent, Readable
  <2>5. QED BY <1>1, <2>1, <2>4 DEF Stat, DivergenceConfined
<1>2. CASE UseCached
  <2>1. SigsOrdered'
    BY <1>2 DEF UseCached, SigsOrdered
  <2>2. Unsaved = failedIds /\ Unsaved' = failedIds
    BY <1>2 DEF UseCached, Unsaved
  <2>3. CacheCoherent'
    BY <1>2, <2>2 DEF UseCached, CacheCoherent, Readable
  <2>4. DivergenceConfined'
    BY <1>2 DEF UseCached, CacheCoherent, DivergenceConfined
  <2>5. QED BY <2>1, <2>3, <2>4
<1>3. CASE ParseFile
  <2>1. SigsOrdered'
    BY <1>3 DEF ParseFile, SigsOrdered
  <2>2. CacheCoherent'
    BY <1>3 DEF ParseFile, CacheCoherent, Readable, Hit
  <2>3. DivergenceConfined'
    BY <1>3 DEF ParseFile, CacheCoherent, DivergenceConfined
  <2>4. QED BY <2>1, <2>2, <2>3
<1>4. CASE ParseError \/ Return
  <2>1. SigsOrdered'
    BY <1>4 DEF ParseError, Return, SigsOrdered
  <2>2. Unsaved = failedIds /\ Unsaved' = failedIds
    BY <1>4 DEF ParseError, Return, Unsaved
  <2>3. CacheCoherent' /\ DivergenceConfined'
    BY <1>4, <2>2 DEF ParseError, Return, CacheCoherent, DivergenceConfined, Readable
  <2>4. QED BY <2>1, <2>3
<1>5. CASE Mutate
  <2>1. SigsOrdered'
    BY <1>5 DEF Mutate, SigsOrdered, TypeOK
  <2>2. Unsaved = failedIds /\ Unsaved' = failedIds \union {op.id}
    BY <1>5 DEF Mutate, Unsaved
  <2>3. \A i \in Ids \ {op.id} : cache'.doc[i] = cache.doc[i]
    BY <1>5 DEF Mutate, Apply, TypeOK, Doc
  <2>4. CacheCoherent' /\ DivergenceConfined'
    BY <1>5, <2>2, <2>3 DEF Mutate, CacheCoherent, DivergenceConfined, Readable, TypeOK
  <2>5. QED BY <2>1, <2>4
<1>6. CASE WriteTmp
  <2>1. SigsOrdered'
    BY <1>6 DEF WriteTmp, SigsOrdered
  <2>2. Unsaved' = Unsaved
    BY <1>6 DEF WriteTmp, Unsaved
  <2>3. CacheCoherent' /\ DivergenceConfined'
    BY <1>6, <2>2 DEF WriteTmp, CacheCoherent, DivergenceConfined, Readable
  <2>4. QED BY <2>1, <2>3
<1>7. CASE Replace
  <2>1. tmp # Missing
    BY JsonStoreAssumption DEF TypeOK
  <2>2. SigsOrdered'
    BY <1>7, <2>1 DEF Replace, SigsOrdered, TypeOK, MissingSig
  <2>3. CacheCoherent' /\ DivergenceConfined'
    BY <1>7 DEF Replace, CacheCoherent, DivergenceConfined
  <2>4. QED BY <2>2, <2>3
<1>8. CASE Invalidate \/ Crash
  <2>1. SigsOrdered'
    BY <1>8 DEF Invalidate, Crash, SigsOrdered
  <2>2. CacheCoherent' /\ DivergenceConfined'
    BY <1>8 DEF Invalidate, Crash, CacheCoherent, DivergenceConfined, Hit
  <2>3. QED BY <2>1, <2>2
<1>9. CASE WriteFails
  <2>1. SigsOrdered'
    BY <1>9 DEF WriteFails, SigsOrdered
  <2>2. Unsaved' = Unsaved
    BY <1>9 DEF WriteFails, Unsaved
  <2>3. CacheCoherent' /\ DivergenceConfined'
    BY <1>9, <2>2 DEF WriteFails, CacheCoherent, DivergenceConfined, Readable
  <2>4. QED BY <2>1, <2>3
<1>10. ASSUME NEW c \in EditContents, Edit(c)
       PROVE  (SigsOrdered /\ CacheCoherent /\ DivergenceConfined)'
  <2>1. c # Missing /\ file'.sig = lastSig + 1 /\ file'.content = c
    BY <1>10 DEF Edit
  <2>2. SigsOrdered'
    BY <1>10, <2>1 DEF Edit, SigsOrdered, TypeOK, MissingSig
  <2>3. cache # NoCache => cache.sig # file'.sig
    BY <1>10, <2>1 DEF SigsOrdered, TypeOK
  <2>4. window \subseteq window' /\ (Readable' => Parse(file'.content) \in window')
    BY <1>10, <2>1 DEF Edit, Readable
  <2>5. CacheCoherent' /\ DivergenceConfined'
    BY <1>10, <2>3, <2>4 DEF Edit, CacheCoherent, DivergenceConfined, Hit
  <2>6. QED BY <2>2, <2>5
<1>11. CASE UNCHANGED vars
  <2>1. Unsaved' = Unsaved
    BY <1>11 DEF vars, Unsaved
  <2>2. QED
    BY <1>11, <2>1 DEF vars, SigsOrdered, CacheCoherent, DivergenceConfined,
                       Readable, Hit
<1>12. QED
  BY <1>1, <1>2, <1>3, <1>4, <1>5, <1>6, <1>7, <1>8, <1>9, <1>10, <1>11 DEF Next

\* ConfinedInv holds throughout while nobody deletes the file from outside.
LEMMA ConfinedInvariant ==
  ASSUME Missing \notin EditContents
  PROVE  Spec => []ConfinedInv
<1>1. Init => ConfinedInv
  <2>1. Init => TypeOK
    BY JsonStoreAssumption DEF Init, TypeOK, NoOp, Ops, EmptyDoc, Doc, MissingSig
  <2>2. QED
    BY <2>1 DEF Init, ConfinedInv, SigsOrdered, CacheCoherent, DivergenceConfined,
                MissingSig
<1>2. ConfinedInv /\ TypeOK' /\ [Next]_vars => ConfinedInv'
  BY ConfinedStep DEF ConfinedInv
<1>3. QED
  BY <1>1, <1>2, TypeCorrect, PTL DEF Spec

\* Whatever writes fail and whatever hand edits come in between, a method works
\* on a document the file held since it started, except under the ids whose
\* write failed.
THEOREM DivergenceIsConfined ==
  ASSUME Missing \notin EditContents
  PROVE  Spec => []DivergenceConfined
<1>1. ConfinedInv => DivergenceConfined
  BY DEF ConfinedInv
<1>2. QED
  BY <1>1, ConfinedInvariant, PTL

\* Without failing writes no record is ever marked as half-mutated.
LEMMA NoFailedIds ==
  ASSUME WriteMayFail = FALSE
  PROVE  Spec => [](failedIds = {})
<1>1. Init => failedIds = {}
  BY DEF Init
<1>2. failedIds = {} /\ [Next]_vars => (failedIds = {})'
  BY DEF Next, vars, Stat, UseCached, ParseFile, ParseError, Return, Mutate,
         WriteTmp, Replace, Invalidate, WriteFails, Edit, Crash
<1>3. QED
  BY <1>1, <1>2, PTL DEF Spec

\* On a filesystem that does not fail, the document a method works on, cached
\* or parsed, is exactly one the file held since the method started.
THEOREM ReadsAreFresh ==
  ASSUME Missing \notin EditContents, WriteMayFail = FALSE
  PROVE  Spec => []ReadIsFresh
<1>1. ConfinedInv /\ failedIds = {} => ReadIsFresh
  <2> SUFFICES ASSUME ConfinedInv, failedIds = {}, pc = "held"
               PROVE  cache.doc \in window
    BY DEF ReadIsFresh
  <2>1. PICK d \in window : \A i \in Ids : cache.doc[i] = d[i]
    BY DEF ConfinedInv, DivergenceConfined
  <2>2. cache.doc \in Doc /\ d \in Doc
    BY DEF ConfinedInv, TypeOK
  <2>3. cache.doc = d
    BY <2>1, <2>2 DEF Doc
  <2>4. QED BY <2>3
<1>2. QED
  BY <1>1, ConfinedInvariant, NoFailedIds, PTL

-----------------------------------------------------------------------------
(***************************************************************************)
(* Refinement of AtomicStore.                                              *)
(***************************************************************************)

\* Initially no writer is at work, so there is no copy to keep equal.
LEMMA CopyInit == Init => CopyInv
BY JsonStoreAssumption DEF Init, CopyInv, Readable

\* Every step keeps the writer's copy equal to the document it read, mutated.
LEMMA CopyStep ==
  ASSUME EditContents = {}, WriteMayFail = FALSE,
         ConfinedInv, failedIds = {}, CopyInv, [Next]_vars
  PROVE  CopyInv'
<1> USE DEF CopyInv
<1>1. ASSUME NEW o \in Ops, Stat(o) PROVE CopyInv'
  BY <1>1 DEF Stat, Readable
<1>2. CASE UseCached
  <2>1. \A i \in Ids : cache.doc[i] = Parse(file.content)[i]
    BY <1>2 DEF UseCached, Hit, ConfinedInv, CacheCoherent, Unsaved
  <2>2. cache.doc \in Doc /\ Parse(file.content) \in Doc
    BY <1>2, ParseType DEF UseCached, Hit, ConfinedInv, TypeOK, Readable
  <2>3. cache.doc = Parse(file.content)
    BY <2>1, <2>2 DEF Doc
  <2>4. QED BY <1>2, <2>3 DEF UseCached, Readable
<1>3. CASE ParseFile
  BY <1>3 DEF ParseFile, Readable
<1>4. CASE ParseError \/ Return
  BY <1>4 DEF ParseError, Return, Readable
<1>5. CASE Mutate
  BY <1>5 DEF Mutate, Readable
<1>6. CASE WriteTmp
  BY <1>6 DEF WriteTmp, Readable
<1>7. CASE Replace
  BY <1>7, JsonStoreAssumption DEF Replace, Readable, ConfinedInv, TypeOK
<1>8. CASE Invalidate \/ Crash
  BY <1>8 DEF Invalidate, Crash, Readable
<1>9. CASE UNCHANGED vars
  BY <1>9 DEF vars, Readable
<1>10. QED
  BY <1>1, <1>2, <1>3, <1>4, <1>5, <1>6, <1>7, <1>8, <1>9 DEF Next, WriteFails

\* Replacing the file is one legal operation of the abstract store; no other
\* step changes what the file says.
LEMMA RefinementStep ==
  ASSUME EditContents = {}, WriteMayFail = FALSE,
         TypeOK, CopyInv, [Next]_vars
  PROVE  [Abstract!Next]_(Parse(file.content))
<1>1. CASE Replace
  <2>1. Parse(file'.content) = Apply(Parse(file.content), op)
    BY <1>1, JsonStoreAssumption DEF Replace, CopyInv, Parse, TypeOK
  <2>2. op \in Ops /\ Accepts(Parse(file.content), op)
    BY <1>1 DEF Replace, CopyInv, TypeOK
  <2>3. op.id \in Ids /\ (op.kind \in {"add", "update"} => op.rec \in Records)
                      /\ (op.kind = "remove" => op.rec = NoRecord)
    BY <2>2 DEF Ops
  <2>4. CASE op.kind = "add"
    <3>1. Abstract!Add(op.id, op.rec)
      BY <2>1, <2>2, <2>4 DEF Abstract!Add, Accepts, Apply
    <3>2. QED BY <3>1, <2>3, <2>4 DEF Abstract!Next
  <2>5. CASE op.kind = "update"
    <3>1. Abstract!Update(op.id, op.rec)
      BY <2>1, <2>2, <2>5 DEF Abstract!Update, Accepts, Apply
    <3>2. QED BY <3>1, <2>3, <2>5 DEF Abstract!Next
  <2>6. CASE op.kind = "remove"
    <3>1. Abstract!Remove(op.id)
      BY <2>1, <2>2, <2>3, <2>6 DEF Abstract!Remove, Accepts, Apply
    <3>2. QED BY <3>1, <2>3, <2>6 DEF Abstract!Next
  <2>7. QED BY <2>2, <2>4, <2>5, <2>6 DEF Accepts
<1>2. CASE ~Replace
  <2>1. UNCHANGED file
    BY <1>2 DEF Next, vars, Stat, UseCached, ParseFile, ParseError, Return,
                Mutate, WriteTmp, Invalidate, WriteFails, Crash
  <2>2. QED BY <2>1 DEF Parse
<1>3. QED BY <1>1, <1>2

\* A store whose filesystem does not fail and whose file nobody edits is an
\* atomic map: caching, the shared document, the two-step write and crashes at
\* any point are invisible, and no update of a record is ever lost.
THEOREM StoreIsAtomic ==
  ASSUME EditContents = {}, WriteMayFail = FALSE
  PROVE  Spec => ImplementsAtomicStore
<1>1. Init => Abstract!Init
  BY DEF Init, Abstract!Init, Parse, EmptyDoc
<1>2. Missing \notin EditContents
  OBVIOUS
<1>3. ConfinedInv /\ failedIds = {} /\ CopyInv /\ [Next]_vars => CopyInv'
  BY CopyStep
<1>4. ConfinedInv /\ CopyInv /\ [Next]_vars => [Abstract!Next]_(Parse(file.content))
  BY RefinementStep DEF ConfinedInv
<1>5. Spec => []ConfinedInv
  BY <1>2, ConfinedInvariant
<1>6. QED
  BY <1>1, <1>3, <1>4, <1>5, CopyInit, NoFailedIds, PTL
     DEF Spec, ImplementsAtomicStore, Abstract!Spec
-----------------------------------------------------------------------------
(***************************************************************************)
(* The store of the tool-call counters, for any set of tools and any cap.  *)
(***************************************************************************)

\* Dropping counters never pushes another one over the cap.
LEMMA CapOfFewer ==
  ASSUME NEW c \in [Keys -> Nat], NEW d \in [Keys -> Nat],
         \A k \in Keys : d[k] = 0 \/ (d[k] = c[k] /\ Capped(c)[k] = c[k])
  PROVE  Capped(d) = d
<1> SUFFICES ASSUME NEW k \in Keys, d[k] > 0
             PROVE  Cardinality(Above(d, k)) < MaxKeys
  BY DEF Capped
<1>1. Above(d, k) \subseteq Above(c, k)
  BY DEF Above
<1>2. Cardinality(Above(c, k)) < MaxKeys
  BY DEF Capped
<1>3. Above(c, k) \subseteq Keys
  BY DEF Above
<1>4. IsFiniteSet(Above(c, k))
  BY <1>3, FS_Subset, StatsAssumption
<1>5. IsFiniteSet(Above(d, k)) /\ Cardinality(Above(d, k)) <= Cardinality(Above(c, k))
  BY <1>1, <1>4, FS_Subset
<1>6. Cardinality(Above(d, k)) \in Nat /\ Cardinality(Above(c, k)) \in Nat
  BY <1>4, <1>5, FS_CardinalityType
<1> QED
  BY <1>2, <1>5, <1>6, StatsAssumption

\* The cap types, and applying it twice changes nothing more.
LEMMA CapTwice ==
  ASSUME NEW c \in [Keys -> Nat]
  PROVE  Capped(c) \in [Keys -> Nat] /\ Capped(Capped(c)) = Capped(c)
<1>1. Capped(c) \in [Keys -> Nat]
  BY DEF Capped
<1>2. \A k \in Keys : Capped(c)[k] = 0 \/ Capped(c)[k] = c[k]
  BY DEF Capped
<1> QED
  BY <1>1, <1>2, CapOfFewer

\* What the store promises about its file, as one inductive invariant.
StatsInv == StatsTypeOK /\ CleanMeansSaved /\ WritePending

\* What is loaded, from the file or not, is typed and within the cap.
LEMMA LoadedCapped ==
  ASSUME statsFile \in [Keys -> Nat], NEW read \in BOOLEAN
  PROVE  Loaded(read) \in [Keys -> Nat] /\ Capped(Loaded(read)) = Loaded(read)
<1>1. CASE read
  BY <1>1, CapTwice DEF Loaded
<1>2. CASE ~read
  <2>1. \A k \in Keys : Loaded(read)[k] = 0
    BY <1>2 DEF Loaded
  <2>2. Loaded(read) \in [Keys -> Nat]
    BY <1>2 DEF Loaded
  <2> QED
    BY <2>1, <2>2, CapOfFewer
<1> QED
  BY <1>1, <1>2

\* The invariant holds once the store has loaded its file, or failed to.
LEMMA StatsInitInv == StatsInit => StatsInv
<1> SUFFICES ASSUME StatsInit PROVE StatsInv
  OBVIOUS
<1>1. statsFile \in [Keys -> Nat] /\ (~misread) \in BOOLEAN
  BY StatsAssumption DEF StatsInit
<1>2. counts \in [Keys -> Nat] /\ Capped(counts) = counts
  BY <1>1, LoadedCapped DEF StatsInit
<1>3. ~misread => Capped(statsFile) = counts
  BY DEF StatsInit, Loaded
<1> QED
  BY <1>1, <1>2, <1>3 DEF StatsInit, StatsInv, StatsTypeOK, CleanMeansSaved, WritePending

\* A write, made or refused, keeps the promise.
LEMMA StatsFlushInv ==
  ASSUME StatsInv, up, NEW ok \in BOOLEAN, FlushDirty(ok), UNCHANGED counts
  PROVE  /\ statsFile' \in [Keys -> Nat] /\ dirty' \in BOOLEAN /\ failed' \in BOOLEAN
         /\ misread' \in BOOLEAN
         /\ ~dirty' /\ ~misread' => Capped(statsFile') = counts'
         /\ dirty' => failed'
<1>1. CASE ~dirty
  BY <1>1 DEF StatsInv, StatsTypeOK, CleanMeansSaved, FlushDirty
<1>2. CASE dirty /\ ok
  BY <1>2 DEF StatsInv, StatsTypeOK, FlushDirty
<1>3. CASE dirty /\ ~ok
  BY <1>3 DEF StatsInv, StatsTypeOK, FlushDirty
<1> QED
  BY <1>1, <1>2, <1>3

\* Every operation, timer write, exit, crash and start preserves the invariant.
LEMMA StatsNextInv == StatsInv /\ [StatsNext]_statsVars => StatsInv'
<1> SUFFICES ASSUME StatsInv, [StatsNext]_statsVars PROVE StatsInv'
  OBVIOUS
<1> USE StatsAssumption
<1>ty. StatsTypeOK
  BY DEF StatsInv
<1>1. ASSUME NEW k \in Keys, RecordSuccess(k) PROVE StatsInv'
  <2>1. [counts EXCEPT ![k] = @ + 1] \in [Keys -> Nat]
    BY <1>ty DEF StatsTypeOK
  <2>2. counts' \in [Keys -> Nat] /\ Capped(counts') = counts'
    BY <1>1, <2>1, CapTwice DEF RecordSuccess
  <2>3. StatsTypeOK'
    BY <1>1, <1>ty, <2>2 DEF RecordSuccess, Schedule, StatsTypeOK, Capped, Above
  <2> QED
    BY <1>1, <2>3 DEF RecordSuccess, Schedule, StatsInv, CleanMeansSaved, WritePending
<1>2. ASSUME NEW k \in Keys, Remove(k) PROVE StatsInv'
  <2>1. counts' \in [Keys -> Nat] /\ \A j \in Keys : counts'[j] = 0 \/ counts'[j] = counts[j]
    BY <1>2, <1>ty DEF Remove, StatsTypeOK
  <2>2. Capped(counts') = counts'
    BY <1>ty, <2>1, CapOfFewer DEF StatsTypeOK
  <2>3. StatsTypeOK'
    BY <1>2, <1>ty, <2>1, <2>2 DEF Remove, Schedule, StatsTypeOK, Capped, Above
  <2> QED
    BY <1>2, <2>3 DEF Remove, Schedule, StatsInv, CleanMeansSaved, WritePending
<1>3. CASE RankedKeys
  BY <1>3 DEF RankedKeys, Schedule, StatsInv, StatsTypeOK, CleanMeansSaved, WritePending,
              Capped, Above
<1>4. ASSUME NEW ok \in BOOLEAN, TimerFlush(ok) PROVE StatsInv'
  <2>1. /\ statsFile' \in [Keys -> Nat] /\ dirty' \in BOOLEAN /\ failed' \in BOOLEAN
        /\ misread' \in BOOLEAN
        /\ ~dirty' /\ ~misread' => Capped(statsFile') = counts'
        /\ dirty' => failed'
    BY <1>4, StatsFlushInv DEF TimerFlush
  <2>2. Capped(counts)' = Capped(counts)
    BY <1>4 DEF TimerFlush, Capped, Above
  <2>3. Capped(statsFile)' = Capped(statsFile')
    BY DEF Capped, Above
  <2> QED
    BY <1>4, <1>ty, <2>1, <2>2, <2>3
       DEF TimerFlush, StatsInv, StatsTypeOK, CleanMeansSaved, WritePending
<1>5. ASSUME NEW ok \in BOOLEAN, Shutdown(ok) PROVE StatsInv'
  <2>1. /\ statsFile' \in [Keys -> Nat] /\ dirty' \in BOOLEAN /\ failed' \in BOOLEAN
        /\ misread' \in BOOLEAN
    BY <1>5, StatsFlushInv DEF Shutdown
  <2>2. Capped(counts)' = Capped(counts)
    BY <1>5 DEF Shutdown, Capped, Above
  <2> QED
    BY <1>5, <1>ty, <2>1, <2>2
       DEF Shutdown, StatsInv, StatsTypeOK, CleanMeansSaved, WritePending
<1>6. CASE StatsCrash
  BY <1>6 DEF StatsCrash, StatsInv, StatsTypeOK, CleanMeansSaved, WritePending, Capped, Above
<1>7. ASSUME NEW read \in BOOLEAN, Start(read) PROVE StatsInv'
  <2>1. counts' \in [Keys -> Nat] /\ Capped(counts') = counts'
    BY <1>7, <1>ty, LoadedCapped DEF Start, StatsTypeOK
  <2>2. ~misread' => counts' = Capped(statsFile)
    BY <1>7 DEF Start, Loaded
  <2>3. Capped(counts)' = Capped(counts') /\ Capped(statsFile)' = Capped(statsFile)
    BY <1>7 DEF Start, Capped, Above
  <2> QED
    BY <1>7, <1>ty, <2>1, <2>2, <2>3
       DEF Start, StatsInv, StatsTypeOK, CleanMeansSaved, WritePending
<1>8. CASE UNCHANGED statsVars
  BY <1>8 DEF statsVars, StatsInv, StatsTypeOK, CleanMeansSaved, WritePending, Capped, Above
<1> HIDE DEF StatsInv
<1> QED
  BY <1>1, <1>2, <1>3, <1>4, <1>5, <1>6, <1>7, <1>8 DEF StatsNext

\* The store's state keeps its type and its counters stay within the cap.
THEOREM CountersStayCapped == StatsSpec => []StatsTypeOK
<1>1. StatsInv => StatsTypeOK
  BY DEF StatsInv
<1> QED
  BY StatsInitInv, StatsNextInv, <1>1, PTL DEF StatsSpec

\* A clean store's file holds exactly its counters, for any interleaving of
\* counts, prunings, timer writes, refused writes, exits and crashes, but for a
\* store that could not read its file and has not written it since.
THEOREM CleanStoresAreSaved == StatsSpec => []CleanMeansSaved
<1>1. StatsInv => CleanMeansSaved
  BY DEF StatsInv
<1> QED
  BY StatsInitInv, StatsNextInv, <1>1, PTL DEF StatsSpec

\* Unsaved counters have a write pending unless the last one was refused.
THEOREM UnsavedCountsAreScheduled == StatsSpec => []WritePending
<1>1. StatsInv => WritePending
  BY DEF StatsInv
<1> QED
  BY StatsInitInv, StatsNextInv, <1>1, PTL DEF StatsSpec

\* What the cap drops is no more popular than what it leaves.
LEMMA CapLeavesMorePopular ==
  ASSUME NEW c \in [Keys -> Nat], NEW out \in Keys, NEW in \in Keys,
         c[out] > 0, Capped(c)[out] = 0, Capped(c)[in] > 0
  PROVE  c[out] <= Capped(c)[in]
<1>1. Capped(c)[in] = c[in] /\ Cardinality(Above(c, in)) < MaxKeys
  BY DEF Capped
<1>2. ~(Cardinality(Above(c, out)) < MaxKeys)
  BY DEF Capped
<1>3. ASSUME c[out] > c[in] PROVE FALSE
  <2>1. Above(c, out) \subseteq Above(c, in)
    BY <1>3 DEF Above
  <2>2. IsFiniteSet(Above(c, in))
    <3>1. Above(c, in) \subseteq Keys
      BY DEF Above
    <3>2. QED
      BY <3>1, FS_Subset, StatsAssumption
  <2>3. IsFiniteSet(Above(c, out)) /\ Cardinality(Above(c, out)) <= Cardinality(Above(c, in))
    BY <2>1, <2>2, FS_Subset
  <2>4. Cardinality(Above(c, out)) \in Nat /\ Cardinality(Above(c, in)) \in Nat
    BY <2>2, <2>3, FS_CardinalityType
  <2>5. QED
    BY <1>1, <1>2, <2>3, <2>4, StatsAssumption
<1>4. QED
  BY <1>1, <1>3

\* A new count pushes out a tool only when that was called no more often than
\* each one that stays.
THEOREM CapDropsTheLeastPopular == StatsSpec => CapDropsLeastPopular
<1>1. StatsInv /\ [StatsNext]_statsVars =>
        [\A k \in Keys :
           RecordSuccess(k) =>
             \A out, in \in Keys : counts[out] > 0 /\ counts'[out] = 0 /\ counts'[in] > 0
                                   => counts[out] <= counts'[in]]_statsVars
  <2> SUFFICES ASSUME StatsInv, NEW k \in Keys, RecordSuccess(k), NEW out \in Keys, NEW in \in Keys,
                      counts[out] > 0, counts'[out] = 0, counts'[in] > 0
               PROVE  counts[out] <= counts'[in]
    OBVIOUS
  <2> DEFINE c == [counts EXCEPT ![k] = @ + 1]
  <2>1. counts \in [Keys -> Nat]
    BY DEF StatsInv, StatsTypeOK
  <2>2. c \in [Keys -> Nat] /\ counts[out] <= c[out] /\ counts' = Capped(c)
    BY <2>1 DEF RecordSuccess
  <2> HIDE DEF c
  <2>3. c[out] > 0
    BY <2>1, <2>2
  <2>4. c[out] <= counts'[in]
    BY <2>2, <2>3, CapLeavesMorePopular
  <2>5. counts'[in] \in Nat
    BY <2>2, CapTwice
  <2>6. QED
    BY <2>1, <2>2, <2>4, <2>5
<1>2. QED
  BY StatsInitInv, StatsNextInv, <1>1, PTL DEF StatsSpec, CapDropsLeastPopular
=============================================================================
