---------------------------- MODULE ToolCallStats ----------------------------
(***************************************************************************)
(* The write-behind store of tool-call counters (tool_call_stats.py):      *)
(* counts in memory, a debounce timer that writes them to                  *)
(* tool_call_stats.json, a final write at exit.  Every operation holds the *)
(* store's lock, the timer thread's too, so each is one step; the process  *)
(* may die between any two, any write may fail, and so may the read of the *)
(* file at start.  StoreProofs extends this module and JsonStore; names    *)
(* they would share begin with Stats.                                      *)
(***************************************************************************)
EXTENDS Naturals, FiniteSets

CONSTANTS
  Keys,      \* composite tool names; numbers, in the names' order
  MaxKeys,   \* max_keys
  MaxCount   \* bound: calls counted per tool

ASSUME StatsAssumption ==
  /\ Keys \subseteq Nat /\ IsFiniteSet(Keys)
  /\ MaxKeys \in Nat \ {0} /\ MaxCount \in Nat

VARIABLES
  up,         \* the process runs
  counts,     \* _counts; 0 is no entry
  dirty,      \* _dirty
  timer,      \* _timer is set
  statsFile,  \* tool_call_stats.json; no file is like an empty one
  failed,     \* history: the last write was refused
  misread     \* history: the file was not read at start, nor written since

statsVars == <<up, counts, dirty, timer, statsFile, failed, misread>>

\* More popular than k; of equals, the later name.
Above(c, k) == {j \in Keys : c[j] > 0 /\ (c[j] > c[k] \/ (c[j] = c[k] /\ j > k))}

\* Mutant of Capped: sorted the other way, the most popular go.
MutCapped(c) ==
  [k \in Keys |-> IF Cardinality({j \in Keys : c[j] > 0 /\ k \in Above(c, j)}) < MaxKeys
                    THEN c[k] ELSE 0]

\* _cap_unlocked: the MaxKeys most popular stay.
Capped(c) == [k \in Keys |-> IF Cardinality(Above(c, k)) < MaxKeys THEN c[k] ELSE 0]

\* Types; the counters in memory are within the cap at all times.
StatsTypeOK ==
  /\ up \in BOOLEAN /\ dirty \in BOOLEAN /\ timer \in BOOLEAN
  /\ failed \in BOOLEAN /\ misread \in BOOLEAN
  /\ counts \in [Keys -> Nat] /\ Capped(counts) = counts
  /\ statsFile \in [Keys -> Nat]

\* Mutant of Loaded: the cap is not applied to what is loaded.
MutLoaded(read) == IF read THEN statsFile ELSE [k \in Keys |-> 0]

\* _load: what the file holds, capped; nothing when it cannot be read (an OSError,
\* invalid JSON, not an object), and the store starts clean all the same.
Loaded(read) == IF read THEN Capped(statsFile) ELSE [k \in Keys |-> 0]

\* The store is created over whatever an earlier process left.
StatsInit ==
  /\ up = TRUE
  /\ statsFile \in [Keys -> 0..MaxCount]
  /\ dirty = FALSE /\ timer = FALSE /\ failed = FALSE
  /\ misread \in BOOLEAN
  /\ counts = Loaded(~misread)

\* _schedule_flush_unlocked: one pending timer is enough.
Schedule == timer' = TRUE

RecordSuccess(k) ==
  /\ up /\ counts[k] < MaxCount
  /\ counts' = Capped([counts EXCEPT ![k] = @ + 1])
  /\ dirty' = TRUE
  /\ Schedule
  /\ UNCHANGED <<up, statsFile, failed, misread>>

\* A tool verified to be gone is pruned.
Remove(k) ==
  /\ up /\ counts[k] > 0
  /\ counts' = [counts EXCEPT ![k] = 0]
  /\ dirty' = TRUE
  /\ Schedule
  /\ UNCHANGED <<up, statsFile, failed, misread>>

\* Mutant of RankedKeys: readers do not reschedule a write.
MutRankedKeys ==
  /\ up /\ dirty
  /\ UNCHANGED statsVars

\* ranked_keys and top_keys double as a flush point.
RankedKeys ==
  /\ up /\ dirty
  /\ Schedule
  /\ UNCHANGED <<up, counts, dirty, statsFile, failed, misread>>

\* Mutant of FlushDirty: dirty is cleared although the write failed.
MutFlushDirty(ok) ==
  IF ~dirty THEN UNCHANGED <<statsFile, dirty, failed, misread>>
  ELSE /\ statsFile' = IF ok THEN counts ELSE statsFile
       /\ dirty' = FALSE
       /\ failed' = ~ok
       /\ misread' = (misread /\ ~ok)

\* _flush_dirty_unlocked: the file is replaced as a whole, or stays as it is and
\* the store stays dirty.
FlushDirty(ok) ==
  IF ~dirty THEN UNCHANGED <<statsFile, dirty, failed, misread>>
  ELSE /\ statsFile' = IF ok THEN counts ELSE statsFile
       /\ dirty' = ~ok
       /\ failed' = ~ok
       /\ misread' = (misread /\ ~ok)

\* Mutant of TimerFlush: the timer is cleared and the write forgotten.
MutTimerFlush(ok) ==
  /\ up /\ timer
  /\ timer' = FALSE
  /\ UNCHANGED <<up, counts, dirty, statsFile, failed, misread>>

\* The timer thread gets the lock.
TimerFlush(ok) ==
  /\ up /\ timer
  /\ timer' = FALSE
  /\ FlushDirty(ok)
  /\ UNCHANGED <<up, counts>>

\* An orderly exit: the atexit flush, then the process is gone.
Shutdown(ok) ==
  /\ up
  /\ FlushDirty(ok)
  /\ up' = FALSE /\ timer' = FALSE
  /\ UNCHANGED counts

StatsCrash ==
  /\ up
  /\ up' = FALSE /\ timer' = FALSE
  /\ UNCHANGED <<counts, dirty, statsFile, failed, misread>>

\* The next process creates its store over the file.
Start(read) ==
  /\ ~up
  /\ up' = TRUE
  /\ counts' = Loaded(read)
  /\ dirty' = FALSE /\ failed' = FALSE
  /\ misread' = ~read
  /\ UNCHANGED <<timer, statsFile>>

StatsNext ==
  \/ \E k \in Keys : RecordSuccess(k) \/ Remove(k)
  \/ RankedKeys
  \/ \E ok \in BOOLEAN : TimerFlush(ok) \/ Shutdown(ok)
  \/ StatsCrash
  \/ \E read \in BOOLEAN : Start(read)

StatsSpec == StatsInit /\ [][StatsNext]_statsVars

\* The timer thread runs, tools are listed again and again, and the disk does
\* not refuse every write for ever.
FairSpec ==
  /\ StatsSpec
  /\ WF_statsVars(RankedKeys)
  /\ WF_statsVars(\E ok \in BOOLEAN : TimerFlush(ok))
  /\ SF_statsVars(TimerFlush(TRUE))

-----------------------------------------------------------------------------
(***************************************************************************)
(* Properties.                                                             *)
(***************************************************************************)

\* A store that thinks it is clean is: a restart would bring back exactly the
\* counts in memory, whatever failed writes and prunings came before.  The one
\* exception is a start that could not read the file: until the first write, which
\* replaces the counts that were not read, the file holds more than the store.
CleanMeansSaved == up /\ ~dirty /\ ~misread => Capped(statsFile) = counts

\* Unsaved counts always have a write coming, unless the last one was refused.
WritePending == up /\ dirty => timer \/ failed

\* The cap drops the least popular: a tool that a new count pushes out was called
\* no more often than any tool that stays.
CapDropsLeastPopular ==
  [][\A k \in Keys :
       RecordSuccess(k) =>
         \A out, in \in Keys : counts[out] > 0 /\ counts'[out] = 0 /\ counts'[in] > 0
                               => counts[out] <= counts'[in]]_statsVars

\* Every count reaches the file, a refused write included, unless the process
\* dies first.
CountsReachFile == dirty ~> (~dirty \/ ~up)
=============================================================================
