--------------------------- MODULE InstallerProofs ---------------------------
(***************************************************************************)
(* Package installs, for any number of workers that share a directory and  *)
(* any mix of kinds and callers: types, that a good result means that      *)
(* every stage passed, and that a killed process group is dead.            *)
(***************************************************************************)
EXTENDS Installer, SequenceTheorems, TLAPS

StageNames == {"venv", "pip", "install", "deps", "build"}

\* The stages of a kind are a sequence of up to three names.
LEMMA StagesType ==
  ASSUME NEW k \in AllKinds
  PROVE  /\ Stages(k) \in Seq(StageNames)
         /\ Len(Stages(k)) \in 1..3
         /\ \A n \in 1..Len(Stages(k)) : Stages(k)[n] \in StageNames
<1>1. CASE k = "pypi"
  BY <1>1 DEF Stages, StageNames
<1>2. CASE k = "npm"
  BY <1>2 DEF Stages, StageNames
<1>3. CASE k = "github"
  BY <1>3 DEF Stages, StageNames
<1>4. QED
  BY <1>1, <1>2, <1>3 DEF AllKinds

\* Only the first stage of a PyPI package is a venv, and a second one follows it.
LEMMA VenvStage ==
  ASSUME NEW k \in AllKinds, NEW n \in 1..Len(Stages(k)), Stages(k)[n] = "venv"
  PROVE  k = "pypi" /\ n = 1
<1>1. CASE k = "pypi"
  BY <1>1 DEF Stages
<1>2. CASE k = "npm"
  BY <1>2 DEF Stages
<1>3. CASE k = "github"
  BY <1>3 DEF Stages
<1>4. QED
  BY <1>1, <1>2, <1>3 DEF AllKinds

\* The first n stages are the first n - 1 and the n-th.
LEMMA NextStage ==
  ASSUME NEW k \in AllKinds, NEW n \in 1..Len(Stages(k)), NEW m \in 1..n
  PROVE  Append(SubSeq(Stages(k), m, n - 1), Stages(k)[n]) = SubSeq(Stages(k), m, n)
<1>1. Stages(k) \in Seq(StageNames) /\ Len(Stages(k)) \in Nat
  BY StagesType
<1>2. SubSeq(Stages(k), m, n) = SubSeq(Stages(k), m, n - 1) \o <<Stages(k)[n]>>
  BY <1>1, SubSeqRecursiveSecond
<1>3. SubSeq(Stages(k), m, n - 1) \in Seq(StageNames) /\ Stages(k)[n] \in StageNames
  BY <1>1, SubSeqProperties, StagesType
<1>4. QED
  BY <1>2, <1>3, AppendIsConcat

-----------------------------------------------------------------------------
\* A stopped or killed group is a group, and has no running leader left that it
\* did not have.
LEMMA GroupType ==
  ASSUME NEW g \in Group
  PROVE  /\ Termed(g) \in Group /\ Killed(g) \in Group
         /\ Termed(g).leader = "runs" => g.leader = "runs"
         /\ Termed(g).leader = "zero" <=> g.leader = "zero"
         /\ Killed(g).leader = "zero" <=> g.leader = "zero"
         /\ ~Alive(Killed(g))
         /\ ~Alive(g) => ~Alive(Termed(g))
  BY DEF Group, Termed, Killed, Alive

\* What Returns does to the worker and to its caller.
LEMMA ReturnsType ==
  ASSUME TypeOK, NEW j \in Jobs, NEW ok \in BOOLEAN,
         NEW why \in {"done", "cancelled", "timeout", "oserror"}, Returns(j, ok, why)
  PROVE  /\ Ends(j, why)
         /\ caller' \in [Jobs -> Call]
         /\ caller'[j].result = "ok" => ok
         /\ \A k \in Jobs \ {j} : caller'[k] = caller[k]
<1>1. Ends(j, why)
  BY DEF Returns
<1>2. PICK a \in {"ok", "failed"} :
        (a = "ok" => ok) /\ caller' = [caller EXCEPT ![j].result = a]
  BY Zenon DEF Returns
<1>3. caller \in [Jobs -> Call]
  BY DEF TypeOK
<1>4. [caller[j] EXCEPT !.result = a] \in Call
  BY <1>2, <1>3 DEF Call
<1>5. caller' \in [Jobs -> Call]
  BY <1>2, <1>3, <1>4
<1>6. caller'[j].result = a /\ \A k \in Jobs \ {j} : caller'[k] = caller[k]
  BY <1>2, <1>3 DEF Call
<1>7. QED
  BY <1>1, <1>2, <1>5, <1>6

\* A worker that raises ends too, and never with a good result.
LEMMA RaisesType ==
  ASSUME TypeOK, NEW j \in Jobs, NEW why \in {"done", "cancelled", "timeout", "oserror"},
         Raises(j, why)
  PROVE  /\ Ends(j, why)
         /\ caller' \in [Jobs -> Call]
         /\ caller'[j].result # "ok" \/ caller'[j] = caller[j]
         /\ \A k \in Jobs \ {j} : caller'[k] = caller[k]
<1>1. CASE job[j].kind = "pypi"
  <2>1. PICK ok \in BOOLEAN : ~ok /\ Returns(j, ok, why)
    BY <1>1, Zenon DEF Raises
  <2>2. QED
    BY <2>1, ReturnsType
<1>2. CASE job[j].kind # "pypi"
  <2>1. Ends(j, why) /\ caller' = caller
    BY <1>2 DEF Raises
  <2>2. QED
    BY <2>1 DEF TypeOK
<1>3. QED
  BY <1>1, <1>2

-----------------------------------------------------------------------------
\* What a step of one worker has to keep for the types.
LEMMA TypeUpdate ==
  ASSUME TypeOK, NEW j \in Jobs, NEW r \in Job, job' = [job EXCEPT ![j] = r],
         r.stage \in 1..Len(Stages(r.kind)),
         group' \in [Jobs -> Group], watch' \in [Jobs -> Watch], caller' \in [Jobs -> Call],
         group'[j].leader = "runs" => r.pc \in {"wait", "term"},
         \A k \in Jobs \ {j} : group'[k].leader = "runs" => group[k].leader = "runs",
         UNCHANGED <<venv, passed>>
  PROVE  TypeOK'
<1>1. job' \in [Jobs -> Job] /\ job'[j] = r /\ \A k \in Jobs \ {j} : job'[k] = job[k]
  BY DEF TypeOK
<1>2. ASSUME NEW k \in Jobs
      PROVE  /\ job'[k].stage \in 1..Len(Stages(job'[k].kind))
             /\ group'[k].leader = "runs" => job'[k].pc \in {"wait", "term"}
  BY <1>1 DEF TypeOK
<1>3. QED
  BY <1>1, <1>2 DEF TypeOK

\* Every step keeps the types.
LEMMA TypeStep ==
  ASSUME InstallerInv, [Next]_vars
  PROVE  TypeOK'
<1>0. /\ TypeOK
      /\ job \in [Jobs -> Job] /\ group \in [Jobs -> Group]
      /\ watch \in [Jobs -> Watch] /\ caller \in [Jobs -> Call]
  BY DEF InstallerInv, TypeOK
<1>1. CASE UNCHANGED vars
  BY <1>0, <1>1 DEF TypeOK, vars
<1>2. ASSUME NEW j \in Jobs, Start(j) PROVE TypeOK'
  <2>1. [job[j] EXCEPT !.pc = "next"] \in Job
    BY <1>0 DEF Job
  <2>2. QED
    BY <1>0, <1>2, <2>1 DEF Start, TypeOK, Job
<1>3. ASSUME NEW j \in Jobs, Abandon(j) PROVE TypeOK'
  <2>1. [caller[j] EXCEPT !.state = "gone", !.cancel = job[j].via = "mcp"] \in Call
    BY <1>0 DEF Call
  <2>2. QED
    BY <1>0, <1>3, <2>1 DEF Abandon, TypeOK
<1>4. ASSUME NEW j \in Jobs, Deliver(j) PROVE TypeOK'
  <2>1. [caller[j] EXCEPT !.state = "told"] \in Call
    BY <1>0 DEF Call
  <2>2. QED
    BY <1>0, <1>4, <2>1 DEF Deliver, TypeOK
<1>5. ASSUME NEW j \in Jobs, VenvProgress(j) PROVE TypeOK'
  BY <1>0, <1>5 DEF VenvProgress, TypeOK
<1>6. ASSUME NEW j \in Jobs, ChildExits(j) PROVE TypeOK'
  <2>1. StageOf(j) \in StageNames
    BY <1>0, StagesType DEF TypeOK, StageOf, Job
  <2>3. group' \in [Jobs -> Group] /\ \A k \in Jobs : group'[k].leader = "runs" => group[k].leader = "runs"
    <3>1. PICK x \in {"zero", "nonzero"} : group' = [group EXCEPT ![j].leader = x]
      BY <1>6 DEF ChildExits
    <3>2. [group[j] EXCEPT !.leader = x] \in Group /\ [group[j] EXCEPT !.leader = x].leader # "runs"
      BY <1>0 DEF Group
    <3>3. QED
      BY <1>0, <3>1, <3>2
  <2>4. passed' \in [Jobs -> Seq(StageNames)]
    <3>1. passed \in [Jobs -> Seq(StageNames)]
      BY <1>0 DEF TypeOK, StageNames
    <3>2. Append(passed[j], StageOf(j)) \in Seq(StageNames)
      BY <2>1, <3>1, AppendProperties
    <3>3. QED
      BY <1>6, <3>1, <3>2 DEF ChildExits
  <2>5. venv' \in {"absent", "partial", "ready"}
    BY <1>0, <1>6 DEF ChildExits, TypeOK
  <2>6. QED
    BY <1>0, <1>6, <2>3, <2>4, <2>5 DEF ChildExits, TypeOK, StageNames
<1>7. ASSUME NEW j \in Jobs, HelperStarts(j) \/ HelperExits(j) PROVE TypeOK'
  <2>1. PICK h \in {"none", "holds", "apart"} : group' = [group EXCEPT ![j].helper = h]
    BY <1>7 DEF HelperStarts, HelperExits
  <2>2. [group[j] EXCEPT !.helper = h] \in Group /\ [group[j] EXCEPT !.helper = h].leader = group[j].leader
    BY <1>0 DEF Group
  <2>3. group' \in [Jobs -> Group] /\ \A k \in Jobs : group'[k].leader = group[k].leader
    BY <1>0, <2>1, <2>2
  <2>4. QED
    BY <1>0, <1>7, <2>3 DEF HelperStarts, HelperExits, TypeOK
<1>8. ASSUME NEW j \in Jobs, Watcher(j) PROVE TypeOK'
  <2>1. watch' \in [Jobs -> Watch]
    <3>1. \A a \in {"done", "grace", "kill"}, b \in BOOLEAN :
            /\ [watch[j] EXCEPT !.at = a] \in Watch
            /\ [watch[j] EXCEPT !.at = a, !.killed = TRUE] \in Watch
      BY <1>0 DEF Watch
    <3>2. QED
      BY <1>0, <1>8, <3>1
      DEF Watcher, WatchSeesExit, WatchSeesCancel, WatchTerminates, WatchKills
  <2>2. \/ group' = group \/ group' = [group EXCEPT ![j] = Termed(@)]
        \/ group' = [group EXCEPT ![j] = Killed(@)]
    BY <1>8 DEF Watcher, WatchSeesExit, WatchSeesCancel, WatchTerminates, WatchKills
  <2>3. group' \in [Jobs -> Group] /\ \A k \in Jobs : group'[k].leader = "runs" => group[k].leader = "runs"
    <3>1. PICK g \in {group[j], Termed(group[j]), Killed(group[j])} : group' = [group EXCEPT ![j] = g]
      BY <1>0, <2>2
    <3>2. g \in Group /\ (g.leader = "runs" => group[j].leader = "runs")
      BY <1>0, <3>1, GroupType DEF Alive
    <3>3. QED
      BY <1>0, <3>1, <3>2
  <2>4. UNCHANGED <<venv, job, caller, passed>>
    BY <1>8 DEF Watcher, WatchSeesExit, WatchSeesCancel, WatchTerminates, WatchKills
  <2>5. QED
    BY <1>0, <2>1, <2>3, <2>4 DEF TypeOK
<1>9. ASSUME NEW j \in Jobs, UseVenv(j) PROVE TypeOK'
  <2>1. job[j].kind = "pypi" /\ group[j].leader # "runs"
    BY <1>0, <1>9, VenvStage DEF UseVenv, StageOf, TypeOK, Job
  <2> DEFINE r == [job[j] EXCEPT !.stage = 2]
  <2>2. 2 \in 1..3 /\ job[j] \in Job
    BY <1>0
  <2>3. r \in Job
    BY <2>2 DEF Job
  <2>4. r.kind = job[j].kind /\ r.stage = 2
    BY <2>2 DEF Job
  <2>5. 2 \in 1..Len(Stages("pypi"))
    BY DEF Stages
  <2>6. job' = [job EXCEPT ![j] = r] /\ UNCHANGED <<venv, group, watch, caller, passed>>
    BY <1>0, <1>9 DEF UseVenv
  <2> HIDE DEF r
  <2>7. QED
    BY <1>0, <2>1, <2>3, <2>4, <2>5, <2>6, TypeUpdate
<1>10. ASSUME NEW j \in Jobs, Spawn(j) PROVE TypeOK'
  <2>1. PICK s \in BOOLEAN :
          group' = [group EXCEPT ![j] = [leader |-> "runs", helper |-> "none", stubborn |-> s]]
    BY <1>10 DEF Spawn
  <2>2. [leader |-> "runs", helper |-> "none", stubborn |-> s] \in Group /\ WatcherOf(j) \in Watch
    BY DEF Group, Watch, WatcherOf
  <2>3. /\ group' \in [Jobs -> Group] /\ watch' \in [Jobs -> Watch]
        /\ \A k \in Jobs \ {j} : group'[k] = group[k]
    BY <1>0, <1>10, <2>1, <2>2 DEF Spawn
  <2> DEFINE r == [job[j] EXCEPT !.pc = "wait", !.timedOut = FALSE]
  <2>4. r \in Job /\ r.pc = "wait" /\ r.kind = job[j].kind /\ r.stage = job[j].stage
    BY <1>0 DEF Job
  <2>5. job' = [job EXCEPT ![j] = r] /\ UNCHANGED <<venv, caller, passed>>
    BY <1>0, <1>10 DEF Spawn
  <2> HIDE DEF r
  <2>6. r.stage \in 1..Len(Stages(r.kind))
    BY <1>0, <2>4 DEF TypeOK
  <2>7. QED
    BY <1>0, <2>3, <2>4, <2>5, <2>6, TypeUpdate
<1>11. ASSUME NEW j \in Jobs, Communicated(j) PROVE TypeOK'
  <2> DEFINE r == [job[j] EXCEPT !.pc = "join"]
  <2>1. r \in Job /\ r.kind = job[j].kind /\ r.stage = job[j].stage
    BY <1>0 DEF Job
  <2>2. job' = [job EXCEPT ![j] = r] /\ UNCHANGED <<venv, group, watch, caller, passed>>
    BY <1>0, <1>11 DEF Communicated
  <2>3. group[j].leader # "runs"
    BY <1>11 DEF Communicated
  <2> HIDE DEF r
  <2>4. r.stage \in 1..Len(Stages(r.kind))
    BY <1>0, <2>1 DEF TypeOK
  <2>5. QED
    BY <1>0, <2>1, <2>2, <2>3, <2>4, TypeUpdate
<1>12. ASSUME NEW j \in Jobs, Timeout(j) PROVE TypeOK'
  <2> DEFINE r == [job[j] EXCEPT !.pc = "term", !.timedOut = TRUE]
  <2>1. r \in Job /\ r.pc = "term" /\ r.kind = job[j].kind /\ r.stage = job[j].stage
    BY <1>0 DEF Job
  <2>2. job' = [job EXCEPT ![j] = r] /\ UNCHANGED <<venv, watch, caller, passed>>
    BY <1>0, <1>12 DEF Timeout
  <2>3. group' \in [Jobs -> Group] /\ \A k \in Jobs \ {j} : group'[k] = group[k]
    BY <1>0, <1>12, GroupType DEF Timeout
  <2> HIDE DEF r
  <2>4. r.stage \in 1..Len(Stages(r.kind))
    BY <1>0, <2>1 DEF TypeOK
  <2>5. QED
    BY <1>0, <2>1, <2>2, <2>3, <2>4, TypeUpdate
<1>13. ASSUME NEW j \in Jobs, TimeoutKills(j) PROVE TypeOK'
  <2> DEFINE r == [job[j] EXCEPT !.pc = "join"]
  <2>1. r \in Job /\ r.kind = job[j].kind /\ r.stage = job[j].stage
    BY <1>0 DEF Job
  <2>2. job' = [job EXCEPT ![j] = r] /\ UNCHANGED <<venv, watch, caller, passed>>
    BY <1>0, <1>13 DEF TimeoutKills
  <2>3. group' \in [Jobs -> Group] /\ group'[j] = Killed(group[j]) /\ \A k \in Jobs \ {j} : group'[k] = group[k]
    BY <1>0, <1>13, GroupType DEF TimeoutKills
  <2>4. group'[j].leader # "runs"
    BY <1>0, <2>3, GroupType DEF Alive
  <2> HIDE DEF r
  <2>5. r.stage \in 1..Len(Stages(r.kind))
    BY <1>0, <2>1 DEF TypeOK
  <2>6. QED
    BY <1>0, <2>1, <2>2, <2>3, <2>4, <2>5, TypeUpdate
<1>14. ASSUME NEW j \in Jobs, NEW why \in {"done", "cancelled", "timeout", "oserror"},
              group[j].leader # "runs", caller' \in [Jobs -> Call],
              Ends(j, why),
              UNCHANGED <<venv, group, watch, passed>>
       PROVE  TypeOK'
  <2> DEFINE r == [job[j] EXCEPT !.pc = "end", !.ended = why]
  <2>1. r \in Job /\ r.kind = job[j].kind /\ r.stage = job[j].stage
    BY <1>0 DEF Job
  <2>2. job' = [job EXCEPT ![j] = r]
    BY <1>0, <1>14 DEF Ends
  <2> HIDE DEF r
  <2>3. r.stage \in 1..Len(Stages(r.kind))
    BY <1>0, <2>1 DEF TypeOK
  <2>4. QED
    BY <1>0, <1>14, <2>1, <2>2, <2>3, TypeUpdate
<1>15. ASSUME NEW j \in Jobs, SpawnFails(j) PROVE TypeOK'
  <2>1. group[j].leader # "runs"
    BY <1>0, <1>15 DEF SpawnFails, TypeOK
  <2>2. UNCHANGED <<venv, group, watch, passed>>
    BY <1>15 DEF SpawnFails
  <2>3. CASE Returns(j, FALSE, "done")
    <3>1. Ends(j, "done") /\ caller' \in [Jobs -> Call]
      BY <1>0, <2>3, ReturnsType
    <3>2. QED
      BY <1>14, <2>1, <2>2, <3>1
  <2>4. CASE Raises(j, "oserror")
    <3>1. Ends(j, "oserror") /\ caller' \in [Jobs -> Call]
      BY <1>0, <2>4, RaisesType
    <3>2. QED
      BY <1>14, <2>1, <2>2, <3>1
  <2>5. QED
    BY <1>15, <2>3, <2>4 DEF SpawnFails
<1>16. ASSUME NEW j \in Jobs, Continue(j) \/ NothingToBuild(j) PROVE TypeOK'
  <2>1. group[j].leader # "runs" /\ UNCHANGED <<venv, group, watch, passed>>
    BY <1>0, <1>16 DEF Continue, NothingToBuild, Joined, TypeOK
  <2>2. ASSUME NEW why \in {"done", "cancelled", "timeout"}, Raises(j, why) PROVE TypeOK'
    <3>1. Ends(j, why) /\ caller' \in [Jobs -> Call]
      BY <1>0, <2>2, RaisesType
    <3>2. QED
      BY <1>14, <2>1, <3>1
  <2>3. ASSUME NEW ok \in BOOLEAN, Returns(j, ok, "done")
        PROVE  TypeOK'
    <3>1. Ends(j, "done") /\ caller' \in [Jobs -> Call]
      BY <1>0, <2>3, ReturnsType
    <3>2. QED
      BY <1>14, <2>1, <3>1
  <2>4. ASSUME ~LastStage(j), job' = [job EXCEPT ![j].pc = "next", ![j].stage = @ + 1], UNCHANGED caller
        PROVE  TypeOK'
    <3> DEFINE n == Len(Stages(job[j].kind))
    <3>1. n \in 1..3 /\ job[j].stage \in 1..n /\ job[j].stage # n
      BY <1>0, <2>4, StagesType DEF TypeOK, Job, LastStage
    <3> HIDE DEF n
    <3>2. job[j].stage + 1 \in 1..n /\ job[j].stage + 1 \in 1..3
      BY <3>1
    <3> DEFINE r == [job[j] EXCEPT !.pc = "next", !.stage = job[j].stage + 1]
    <3>3. r \in Job /\ r.kind = job[j].kind /\ r.stage = job[j].stage + 1
      BY <1>0, <3>2 DEF Job
    <3>4. job' = [job EXCEPT ![j] = r]
      BY <1>0, <2>4
    <3> HIDE DEF r
    <3>5. r.stage \in 1..Len(Stages(r.kind))
      BY <3>2, <3>3 DEF n
    <3>6. QED
      BY <1>0, <2>1, <2>4, <3>3, <3>4, <3>5, TypeUpdate
  <2>5. StageOk(j) \in BOOLEAN
    BY Zenon DEF StageOk
  <2>6. CASE Continue(j)
    BY <2>2, <2>3, <2>4, <2>5, <2>6 DEF Continue
  <2>7. CASE NothingToBuild(j)
    BY <2>3, <2>5, <2>7 DEF NothingToBuild
  <2>8. QED
    BY <1>16, <2>6, <2>7
<1>17. QED
  BY <1>1, <1>2, <1>3, <1>4, <1>5, <1>6, <1>7, <1>8, <1>9, <1>10, <1>11, <1>12, <1>13,
     <1>15, <1>16 DEF Next, Worker

-----------------------------------------------------------------------------
\* A step of one worker, its child, watcher or caller leaves the others alone.
LEMMA OthersStay ==
  ASSUME TypeOK, NEW j \in Jobs, NEW k \in Jobs \ {j},
         \/ Start(j) \/ Abandon(j) \/ Deliver(j)
         \/ VenvProgress(j) \/ ChildExits(j) \/ HelperStarts(j) \/ HelperExits(j)
         \/ Watcher(j) \/ Worker(j) \/ Timeout(j)
  PROVE  /\ job'[k] = job[k] /\ group'[k] = group[k] /\ watch'[k] = watch[k]
         /\ caller'[k] = caller[k] /\ passed'[k] = passed[k]
<1>0. /\ job \in [Jobs -> Job] /\ group \in [Jobs -> Group] /\ passed \in [Jobs -> Seq(StageNames)]
      /\ watch \in [Jobs -> Watch] /\ caller \in [Jobs -> Call]
  BY DEF TypeOK, StageNames
<1>1. CASE Start(j) \/ Abandon(j) \/ Deliver(j) \/ VenvProgress(j)
  BY <1>0, <1>1 DEF Start, Abandon, Deliver, VenvProgress
<1>2. CASE ChildExits(j)
  BY <1>0, <1>2 DEF ChildExits
<1>3. CASE HelperStarts(j) \/ HelperExits(j)
  BY <1>0, <1>3 DEF HelperStarts, HelperExits
<1>4. CASE Watcher(j)
  BY <1>0, <1>4 DEF Watcher, WatchSeesExit, WatchSeesCancel, WatchTerminates, WatchKills
<1>5. CASE UseVenv(j) \/ Spawn(j) \/ Communicated(j)
  BY <1>0, <1>5 DEF UseVenv, Spawn, Communicated
<1>6. CASE TimeoutKills(j) \/ Timeout(j)
  BY <1>0, <1>6 DEF TimeoutKills, Timeout
<1>7. ASSUME NEW ok, NEW why, Returns(j, ok, why)
      PROVE  job'[k] = job[k] /\ caller'[k] = caller[k]
  BY <1>0, <1>7 DEF Returns, Ends
<1>8. ASSUME NEW why, Raises(j, why) PROVE job'[k] = job[k] /\ caller'[k] = caller[k]
  <2>1. CASE job[j].kind = "pypi"
    BY <1>7, <1>8, <2>1, Zenon DEF Raises
  <2>2. CASE job[j].kind # "pypi"
    BY <1>0, <1>8, <2>2 DEF Raises, Ends
  <2>3. QED
    BY <2>1, <2>2
<1>9. CASE SpawnFails(j)
  <2>1. job'[k] = job[k] /\ caller'[k] = caller[k]
    BY <1>7, <1>8, <1>9, Zenon DEF SpawnFails
  <2>2. QED
    BY <1>9, <2>1 DEF SpawnFails
<1>10. CASE Continue(j)
  <2>1. ASSUME job' = [job EXCEPT ![j].pc = "next", ![j].stage = @ + 1], UNCHANGED caller
        PROVE  job'[k] = job[k] /\ caller'[k] = caller[k]
    BY <1>0, <2>1
  <2>2. job'[k] = job[k] /\ caller'[k] = caller[k]
    BY <1>7, <1>8, <1>10, <2>1, Zenon DEF Continue
  <2>3. QED
    BY <1>10, <2>2 DEF Continue
<1>11. CASE NothingToBuild(j)
  <2>1. job'[k] = job[k] /\ caller'[k] = caller[k]
    BY <1>7, <1>11, Zenon DEF NothingToBuild
  <2>2. QED
    BY <1>11, <2>1 DEF NothingToBuild
<1>12. QED
  BY <1>1, <1>2, <1>3, <1>4, <1>5, <1>6, <1>9, <1>10, <1>11 DEF Worker

\* What the invariant says of a worker depends on that worker's state only.
LEMMA SameInv ==
  ASSUME NEW k \in Jobs, StagesInv(k), KillsInv(k),
         job'[k] = job[k], group'[k] = group[k], watch'[k] = watch[k],
         caller'[k] = caller[k], passed'[k] = passed[k]
  PROVE  StagesInv(k)' /\ KillsInv(k)'
  BY DEF StagesInv, KillsInv, PassedUpTo

\* A child that exits with 0 adds its stage to the ones that passed.
LEMMA PassedStep ==
  ASSUME TypeOK, NEW j \in Jobs, PassedUpTo(j, job[j].stage - 1),
         job' = job, passed'[j] = Append(passed[j], StageOf(j))
  PROVE  PassedUpTo(j, job[j].stage)'
<1> DEFINE k == job[j].kind
           n == job[j].stage
<1>1. k \in AllKinds /\ n \in 1..Len(Stages(k)) /\ n \in 1..3
  BY DEF TypeOK, Job
<1> HIDE DEF n
<1>2. CASE passed[j] = SubSeq(Stages(k), 1, n - 1)
  <2>1. Append(SubSeq(Stages(k), 1, n - 1), Stages(k)[n]) = SubSeq(Stages(k), 1, n)
    BY <1>1, NextStage
  <2>2. QED
    BY <1>2, <2>1 DEF PassedUpTo, StageOf, n
<1>3. CASE k = "pypi" /\ n - 1 >= 1 /\ passed[j] = SubSeq(Stages("pypi"), 2, n - 1)
  <2>1. Append(SubSeq(Stages(k), 2, n - 1), Stages(k)[n]) = SubSeq(Stages(k), 2, n)
    BY <1>1, <1>3, NextStage
  <2>2. n >= 1
    BY <1>1
  <2>3. QED
    BY <1>3, <2>1, <2>2 DEF PassedUpTo, StageOf, n
<1>4. QED
  BY <1>2, <1>3 DEF PassedUpTo, n

\* Nothing has passed before the venv, and with a venv that is there nothing has
\* to.
LEMMA NoVenvNeeded ==
  ASSUME NEW j \in Jobs, PassedUpTo(j, 0), job[j].kind = "pypi", job'[j].kind = "pypi",
         passed' = passed
  PROVE  PassedUpTo(j, 1)'
<1>1. SubSeq(Stages("pypi"), 1, 0) = <<>> /\ SubSeq(Stages("pypi"), 2, 1) = <<>>
  BY DEF Stages
<1>2. QED
  BY <1>1 DEF PassedUpTo

-----------------------------------------------------------------------------
\* A worker that ends, for whatever reason, keeps what the invariant says of it.
LEMMA EndKeeps ==
  ASSUME TypeOK, NEW j \in Jobs, KillsInv(j), StagesInv(j),
         NEW why \in {"done", "cancelled", "timeout", "oserror"},
         Ends(j, why),
         UNCHANGED <<group, watch, passed>>,
         job[j].pc # "end",
         \/ caller'[j].result # "ok" \/ caller'[j] = caller[j]
         \/ PassedUpTo(j, Len(Stages(job[j].kind))),
         why \in {"cancelled", "timeout"} => ~Alive(group[j])
  PROVE  StagesInv(j)' /\ KillsInv(j)'
<1>1. job[j] \in Job
  BY DEF TypeOK
<1>2. job'[j].pc = "end" /\ job'[j].ended = why /\ job'[j].kind = job[j].kind
  <2> DEFINE r == [job[j] EXCEPT !.pc = "end", !.ended = why]
  <2>1. job'[j] = r
    BY DEF TypeOK, Ends
  <2>2. r.pc = "end"
    BY <1>1 DEF Job
  <2>3. r.ended = why
    BY <1>1 DEF Job
  <2>4. r.kind = job[j].kind
    BY <1>1 DEF Job
  <2> HIDE DEF r
  <2>5. QED
    BY <2>1, <2>2, <2>3, <2>4
<1>3. caller'[j] = caller[j] => caller'[j].result = "none"
  BY DEF StagesInv
<1>4. StagesInv(j)'
  BY <1>2, <1>3 DEF StagesInv, PassedUpTo
<1>5. KillsInv(j)'
  BY <1>2 DEF KillsInv
<1>6. QED
  BY <1>4, <1>5

\* Every step of a worker, its child, its watcher or its caller keeps what the
\* invariant says of that worker.
LEMMA OwnStep ==
  ASSUME InstallerInv, NEW j \in Jobs,
         \/ Start(j) \/ Abandon(j) \/ Deliver(j)
         \/ VenvProgress(j) \/ ChildExits(j) \/ HelperStarts(j) \/ HelperExits(j)
         \/ Watcher(j) \/ Worker(j) \/ Timeout(j)
  PROVE  StagesInv(j)' /\ KillsInv(j)'
<1>0. /\ TypeOK /\ StagesInv(j) /\ KillsInv(j)
      /\ job \in [Jobs -> Job] /\ group \in [Jobs -> Group]
      /\ watch \in [Jobs -> Watch] /\ caller \in [Jobs -> Call]
      /\ group[j].leader = "runs" => job[j].pc \in {"wait", "term"}
  BY DEF InstallerInv, TypeOK
<1>1. CASE Start(j)
  <2>1. job'[j] = [job[j] EXCEPT !.pc = "next"] /\ UNCHANGED <<group, watch, caller, passed>>
    BY <1>0, <1>1 DEF Start
  <2>2. job'[j].pc = "next" /\ \A f \in {"kind", "stage", "ended", "timedOut"} : job'[j][f] = job[j][f]
    <3> DEFINE r == [job[j] EXCEPT !.pc = "next"]
    <3>1. r.pc = "next" /\ \A f \in {"kind", "stage", "ended", "timedOut"} : r[f] = job[j][f]
      BY <1>0 DEF Job
    <3>2. job'[j] = r
      BY <2>1
    <3> HIDE DEF r
    <3>3. QED
      BY <3>1, <3>2
  <2>3. job[j].pc = "idle"
    BY <1>1 DEF Start
  <2>4. QED
    BY <1>0, <2>1, <2>2, <2>3 DEF StagesInv, KillsInv, PassedUpTo
<1>2. CASE Abandon(j) \/ Deliver(j)
  <2>1. UNCHANGED <<job, group, watch, passed>>
    BY <1>2 DEF Abandon, Deliver
  <2>2. caller'[j].result = caller[j].result
    BY <1>0, <1>2 DEF Abandon, Deliver, Call
  <2>3. QED
    BY <1>0, <2>1, <2>2 DEF StagesInv, KillsInv, PassedUpTo
<1>3. CASE VenvProgress(j)
  BY <1>0, <1>3, SameInv DEF VenvProgress
<1>4. CASE ChildExits(j)
  <2>1. /\ group[j].leader = "runs" /\ job[j].pc \in {"wait", "term"} /\ job[j].ended = ""
        /\ UNCHANGED <<job, watch, caller>>
    BY <1>0, <1>4 DEF ChildExits, KillsInv
  <2>2. ~(watch[j].killed /\ watch[j].at = "done")
    BY <1>0, <2>1 DEF KillsInv, Alive
  <2>3. KillsInv(j)'
    BY <1>0, <2>1, <2>2 DEF KillsInv
  <2>4. CASE group' = [group EXCEPT ![j].leader = "zero"] /\ passed' = [passed EXCEPT ![j] = Append(@, StageOf(j))]
    <3>1. group'[j].leader = "zero"
      BY <1>0, <2>4 DEF Group
    <3>2. passed'[j] = Append(passed[j], StageOf(j))
      BY <1>0, <2>4 DEF TypeOK
    <3>3. PassedUpTo(j, job[j].stage - 1)
      BY <1>0, <2>1 DEF StagesInv
    <3>4. PassedUpTo(j, job[j].stage)'
      BY <1>0, <2>1, <3>2, <3>3, PassedStep
    <3>5. StagesInv(j)'
      BY <1>0, <2>1, <3>1, <3>4 DEF StagesInv
    <3>6. QED
      BY <2>3, <3>5
  <2>5. CASE group' = [group EXCEPT ![j].leader = "nonzero"] /\ UNCHANGED <<venv, passed>>
    <3>1. group'[j].leader = "nonzero"
      BY <1>0, <2>5 DEF Group
    <3>2. StagesInv(j)'
      BY <1>0, <2>1, <2>5, <3>1 DEF StagesInv, PassedUpTo
    <3>3. QED
      BY <2>3, <3>2
  <2>6. QED
    BY <1>4, <2>4, <2>5 DEF ChildExits
<1>5. CASE HelperStarts(j)
  <2>1. /\ group[j].leader = "runs" /\ job[j].pc \in {"wait", "term"} /\ job[j].ended = ""
        /\ UNCHANGED <<job, watch, caller, passed>>
    BY <1>0, <1>5 DEF HelperStarts, KillsInv
  <2>2. ~(watch[j].killed /\ watch[j].at = "done")
    BY <1>0, <2>1 DEF KillsInv, Alive
  <2>3. group'[j].leader = group[j].leader
    BY <1>0, <1>5 DEF HelperStarts, Group
  <2>4. QED
    BY <1>0, <2>1, <2>2, <2>3 DEF StagesInv, KillsInv, PassedUpTo
<1>6. CASE HelperExits(j)
  <2>1. UNCHANGED <<job, watch, caller, passed>>
    BY <1>6 DEF HelperExits
  <2>2. group'[j].leader = group[j].leader /\ (~Alive(group[j]) => ~Alive(group'[j]))
    BY <1>0, <1>6 DEF HelperExits, Group, Alive
  <2>3. QED
    BY <1>0, <2>1, <2>2 DEF StagesInv, KillsInv, PassedUpTo
<1>7. CASE Watcher(j)
  <2>0. UNCHANGED <<job, caller, passed>>
    BY <1>7 DEF Watcher, WatchSeesExit, WatchSeesCancel, WatchTerminates, WatchKills
  <2>1. ASSUME NEW g \in Group, group'[j] = g, g.leader = "zero" <=> group[j].leader = "zero"
        PROVE  StagesInv(j)'
    BY <1>0, <2>0, <2>1 DEF StagesInv, PassedUpTo
  <2>2. CASE WatchSeesExit(j)
    <3>1. watch[j].at = "poll" /\ ~watch[j].killed /\ group' = group
      BY <1>0, <2>2 DEF WatchSeesExit, KillsInv
    <3>2. watch'[j].at = "done" /\ watch'[j].killed = watch[j].killed
      BY <1>0, <2>2 DEF WatchSeesExit, Watch
    <3>3. KillsInv(j)'
      BY <1>0, <2>0, <3>1, <3>2 DEF KillsInv
    <3>4. QED
      BY <1>0, <2>1, <3>1, <3>3
  <2>3. CASE WatchSeesCancel(j)
    <3>1. watch'[j].at = "kill" /\ group' = group
      BY <1>0, <2>3 DEF WatchSeesCancel, Watch
    <3>2. KillsInv(j)'
      BY <1>0, <2>0, <3>1 DEF KillsInv
    <3>3. QED
      BY <1>0, <2>1, <3>1, <3>2
  <2>4. CASE WatchTerminates(j)
    <3>1. group'[j] = Termed(group[j])
      BY <1>0, <2>4 DEF WatchTerminates
    <3>2. watch'[j].at = IF Alive(group[j]) THEN "grace" ELSE "done"
      BY <1>0, <2>4 DEF WatchTerminates, Watch
    <3>3. ~Alive(group[j]) => ~Alive(group'[j])
      BY <1>0, <3>1, GroupType
    <3>4. KillsInv(j)'
      BY <1>0, <2>0, <3>2, <3>3 DEF KillsInv
    <3>5. QED
      BY <1>0, <2>1, <3>1, <3>4, GroupType
  <2>5. CASE WatchKills(j)
    <3>1. group'[j] = Killed(group[j])
      BY <1>0, <2>5 DEF WatchKills
    <3>2. watch'[j].at = "done"
      BY <1>0, <2>5 DEF WatchKills, Watch
    <3>3. ~Alive(group'[j])
      BY <1>0, <3>1, GroupType
    <3>4. KillsInv(j)'
      BY <1>0, <2>0, <3>2, <3>3 DEF KillsInv
    <3>5. QED
      BY <1>0, <2>1, <3>1, <3>4, GroupType
  <2>6. QED
    BY <1>7, <2>2, <2>3, <2>4, <2>5 DEF Watcher
<1>8. CASE UseVenv(j)
  <2>1. job[j].kind = "pypi" /\ job[j].stage = 1 /\ job[j].pc = "next"
    BY <1>0, <1>8, VenvStage DEF UseVenv, StageOf, TypeOK, Job
  <2>2. job'[j] = [job[j] EXCEPT !.stage = 2] /\ UNCHANGED <<group, watch, caller, passed>>
    BY <1>0, <1>8 DEF UseVenv
  <2>3. job'[j].stage = 2 /\ \A f \in {"kind", "pc", "ended", "timedOut"} : job'[j][f] = job[j][f]
    <3> DEFINE r == [job[j] EXCEPT !.stage = 2]
    <3>1. r.stage = 2 /\ \A f \in {"kind", "pc", "ended", "timedOut"} : r[f] = job[j][f]
      BY <1>0 DEF Job
    <3>2. job'[j] = r
      BY <2>2
    <3> HIDE DEF r
    <3>3. QED
      BY <3>1, <3>2
  <2>4. PassedUpTo(j, 0)
    BY <1>0, <2>1 DEF StagesInv
  <2>5. PassedUpTo(j, 1)'
    BY <2>1, <2>2, <2>3, <2>4, NoVenvNeeded
  <2>6. job'[j].stage - 1 = 1 /\ job'[j].pc = "next" /\ caller'[j].result = "none"
    BY <1>0, <2>1, <2>2, <2>3 DEF StagesInv
  <2>7. StagesInv(j)'
    BY <2>5, <2>6 DEF StagesInv
  <2>8. KillsInv(j)'
    BY <1>0, <2>1, <2>2, <2>3 DEF KillsInv
  <2>9. QED
    BY <2>7, <2>8
<1>9. CASE Spawn(j)
  <2>1. job[j].pc = "next" /\ UNCHANGED <<caller, passed>>
    BY <1>9 DEF Spawn
  <2>2. job'[j] = [job[j] EXCEPT !.pc = "wait", !.timedOut = FALSE]
    BY <1>0, <1>9 DEF Spawn
  <2>3. /\ job'[j].pc = "wait" /\ ~job'[j].timedOut
        /\ \A f \in {"kind", "stage", "ended"} : job'[j][f] = job[j][f]
    <3> DEFINE r == [job[j] EXCEPT !.pc = "wait", !.timedOut = FALSE]
    <3>1. /\ r.pc = "wait" /\ ~r.timedOut
          /\ \A f \in {"kind", "stage", "ended"} : r[f] = job[j][f]
      BY <1>0 DEF Job
    <3>2. job'[j] = r
      BY <2>2
    <3> HIDE DEF r
    <3>3. QED
      BY <3>1, <3>2
  <2>4. group'[j].leader = "runs"
    BY <1>0, <1>9 DEF Spawn
  <2>5. ~watch'[j].killed
    BY <1>0, <1>9 DEF Spawn, WatcherOf
  <2>6. QED
    BY <1>0, <2>1, <2>3, <2>4, <2>5 DEF StagesInv, KillsInv, PassedUpTo
<1>10. CASE Communicated(j)
  <2>1. job[j].pc = "wait" /\ UNCHANGED <<group, watch, caller, passed>>
    BY <1>10 DEF Communicated
  <2>2. job'[j] = [job[j] EXCEPT !.pc = "join"]
    BY <1>0, <1>10 DEF Communicated
  <2>3. job'[j].pc = "join" /\ \A f \in {"kind", "stage", "ended", "timedOut"} : job'[j][f] = job[j][f]
    <3> DEFINE r == [job[j] EXCEPT !.pc = "join"]
    <3>1. r.pc = "join" /\ \A f \in {"kind", "stage", "ended", "timedOut"} : r[f] = job[j][f]
      BY <1>0 DEF Job
    <3>2. job'[j] = r
      BY <2>2
    <3> HIDE DEF r
    <3>3. QED
      BY <3>1, <3>2
  <2>4. QED
    BY <1>0, <2>1, <2>3 DEF StagesInv, KillsInv, PassedUpTo
<1>11. CASE Timeout(j)
  <2>1. job[j].pc = "wait" /\ UNCHANGED <<watch, caller, passed>>
    BY <1>11 DEF Timeout
  <2>2. job'[j] = [job[j] EXCEPT !.pc = "term", !.timedOut = TRUE] /\ group'[j] = Termed(group[j])
    BY <1>0, <1>11 DEF Timeout
  <2>3. job'[j].pc = "term" /\ \A f \in {"kind", "stage", "ended"} : job'[j][f] = job[j][f]
    <3> DEFINE r == [job[j] EXCEPT !.pc = "term", !.timedOut = TRUE]
    <3>1. r.pc = "term" /\ \A f \in {"kind", "stage", "ended"} : r[f] = job[j][f]
      BY <1>0 DEF Job
    <3>2. job'[j] = r
      BY <2>2
    <3> HIDE DEF r
    <3>3. QED
      BY <3>1, <3>2
  <2>4. /\ group'[j].leader = "zero" <=> group[j].leader = "zero"
        /\ ~Alive(group[j]) => ~Alive(group'[j])
    BY <1>0, <2>2, GroupType
  <2>5. QED
    BY <1>0, <2>1, <2>3, <2>4 DEF StagesInv, KillsInv, PassedUpTo
<1>12. CASE TimeoutKills(j)
  <2>1. job[j].pc = "term" /\ UNCHANGED <<watch, caller, passed>>
    BY <1>12 DEF TimeoutKills
  <2>2. job'[j] = [job[j] EXCEPT !.pc = "join"] /\ group'[j] = Killed(group[j])
    BY <1>0, <1>12 DEF TimeoutKills
  <2>3. job'[j].pc = "join" /\ \A f \in {"kind", "stage", "ended", "timedOut"} : job'[j][f] = job[j][f]
    <3> DEFINE r == [job[j] EXCEPT !.pc = "join"]
    <3>1. r.pc = "join" /\ \A f \in {"kind", "stage", "ended", "timedOut"} : r[f] = job[j][f]
      BY <1>0 DEF Job
    <3>2. job'[j] = r
      BY <2>2
    <3> HIDE DEF r
    <3>3. QED
      BY <3>1, <3>2
  <2>4. /\ group'[j].leader = "zero" <=> group[j].leader = "zero"
        /\ ~Alive(group'[j])
    BY <1>0, <2>2, GroupType
  <2>5. QED
    BY <1>0, <2>1, <2>3, <2>4 DEF StagesInv, KillsInv, PassedUpTo
<1>13. CASE SpawnFails(j)
  <2>1. job[j].pc # "end" /\ UNCHANGED <<group, watch, passed>>
    BY <1>13 DEF SpawnFails
  <2>2. ASSUME NEW ok \in BOOLEAN, ~ok, Returns(j, ok, "done") PROVE StagesInv(j)' /\ KillsInv(j)'
    <3>1. Ends(j, "done") /\ caller'[j].result # "ok"
      BY <1>0, <2>2, ReturnsType
    <3>2. QED
      BY <1>0, <2>1, <3>1, EndKeeps
  <2>3. ASSUME Raises(j, "oserror") PROVE StagesInv(j)' /\ KillsInv(j)'
    BY <1>0, <2>1, <2>3, RaisesType, EndKeeps
  <2>4. QED
    BY <1>13, <2>2, <2>3, Zenon DEF SpawnFails
<1>14. CASE Continue(j)
  <2>1. /\ job[j].pc = "join" /\ watch[j].at \in {"none", "done"}
        /\ UNCHANGED <<group, watch, passed>>
    BY <1>14 DEF Continue, Joined
  <2>2. CASE job[j].timedOut
    <3>1. Raises(j, "timeout") /\ ~Alive(group[j])
      BY <1>0, <1>14, <2>1, <2>2 DEF Continue, KillsInv
    <3>2. QED
      BY <1>0, <2>1, <3>1, RaisesType, EndKeeps
  <2>3. CASE ~job[j].timedOut /\ watch[j].killed
    <3>1. Raises(j, "cancelled") /\ ~Alive(group[j])
      BY <1>0, <1>14, <2>1, <2>3 DEF Continue, KillsInv
    <3>2. QED
      BY <1>0, <2>1, <3>1, RaisesType, EndKeeps
  <2>4. ASSUME Raises(j, "done") PROVE StagesInv(j)' /\ KillsInv(j)'
    BY <1>0, <2>1, <2>4, RaisesType, EndKeeps
  <2>5. ASSUME NEW ok \in BOOLEAN, ok <=> StageOk(j), LastStage(j) \/ ~StageOk(j),
               Returns(j, ok, "done")
        PROVE  StagesInv(j)' /\ KillsInv(j)'
    <3>1. Ends(j, "done") /\ (caller'[j].result = "ok" => ok)
      BY <1>0, <2>5, ReturnsType
    <3>2. ok => PassedUpTo(j, Len(Stages(job[j].kind)))
      BY <1>0, <2>1, <2>5 DEF StagesInv, StageOk, LastStage
    <3>3. QED
      BY <1>0, <2>1, <3>1, <3>2, EndKeeps
  <2>6. ASSUME StageOk(j), job' = [job EXCEPT ![j].pc = "next", ![j].stage = @ + 1], UNCHANGED caller
        PROVE  StagesInv(j)' /\ KillsInv(j)'
    <3>1. PassedUpTo(j, job[j].stage) /\ caller[j].result = "none" /\ job[j].ended = ""
      BY <1>0, <2>1, <2>6 DEF StagesInv, StageOk, KillsInv
    <3>2. job'[j] = [job[j] EXCEPT !.pc = "next", !.stage = @ + 1]
      BY <1>0, <2>6
    <3>3. job'[j].pc = "next" /\ job'[j].stage = job[j].stage + 1 /\ job'[j].kind = job[j].kind /\ job'[j].ended = ""
      BY <1>0, <3>1, <3>2 DEF Job
    <3>4. job'[j].stage - 1 = job[j].stage
      <4>1. job[j].stage \in 1..3
        BY <1>0 DEF Job
      <4>2. \A a \in 1..3 : (a + 1) - 1 = a
        OBVIOUS
      <4>3. QED
        BY <3>3, <4>1, <4>2, Zenon
    <3>5. PassedUpTo(j, job[j].stage - 1)'
      BY <2>1, <3>1, <3>3, <3>4 DEF PassedUpTo
    <3>6. StagesInv(j)'
      BY <2>6, <3>1, <3>3, <3>5 DEF StagesInv
    <3>7. KillsInv(j)'
      BY <1>0, <2>1, <3>3 DEF KillsInv
    <3>8. QED
      BY <3>6, <3>7
  <2>7. CASE ~job[j].timedOut /\ ~watch[j].killed
    <3>1. CASE StageOf(j) = "venv" /\ ~StageOk(j)
      BY <1>14, <2>4, <2>7, <3>1 DEF Continue
    <3>2. CASE ~(StageOf(j) = "venv" /\ ~StageOk(j)) /\ (LastStage(j) \/ ~StageOk(j))
      <4>1. Returns(j, StageOk(j), "done")
        BY <1>14, <2>7, <3>2, Zenon DEF Continue
      <4>2. StageOk(j) \in BOOLEAN
        BY Zenon DEF StageOk
      <4>3. QED
        BY <2>5, <3>2, <4>1, <4>2, Zenon
    <3>3. CASE StageOk(j) /\ ~LastStage(j)
      BY <1>14, <2>6, <2>7, <3>3 DEF Continue
    <3>4. QED
      BY <3>1, <3>2, <3>3
  <2>8. QED
    BY <2>2, <2>3, <2>7
<1>15. CASE NothingToBuild(j)
  <2>1. job[j].pc # "end" /\ UNCHANGED <<group, watch, passed>>
    BY <1>15 DEF NothingToBuild, Joined
  <2>2. PICK ok \in BOOLEAN : ~ok /\ Returns(j, ok, "done")
    BY <1>15, Zenon DEF NothingToBuild
  <2>3. Ends(j, "done") /\ caller'[j].result # "ok"
    BY <1>0, <2>2, ReturnsType
  <2>4. QED
    BY <1>0, <2>1, <2>3, EndKeeps
<1>16. QED
  BY <1>1, <1>2, <1>3, <1>4, <1>5, <1>6, <1>7, <1>8, <1>9, <1>10, <1>11, <1>12, <1>13,
     <1>14, <1>15 DEF Worker

-----------------------------------------------------------------------------
LEMMA InitInv ==
  ASSUME Init
  PROVE  InstallerInv
<1>1. PICK p \in Plans :
        /\ job = [j \in Jobs |-> [kind |-> p[j].kind, via |-> p[j].via,
                                  pc |-> IF p[j].absent THEN "end" ELSE "idle",
                                  stage |-> 1, timedOut |-> FALSE, ended |-> ""]]
        /\ caller = [j \in Jobs |-> [state |-> IF p[j].absent THEN "gone" ELSE "waits",
                                     cancel |-> FALSE, result |-> "none"]]
  BY DEF Init
<1>2. \A j \in Jobs : p[j] \in Plan
  BY InstallerAssumption
<1>3. ASSUME NEW j \in Jobs
      PROVE  /\ job[j] \in Job /\ job[j].stage = 1 /\ job[j].pc \in {"idle", "end"}
             /\ job[j].ended = "" /\ ~job[j].timedOut /\ job[j].kind \in AllKinds
  <2>1. p[j].kind \in AllKinds /\ p[j].via \in {"rest", "mcp"}
    BY <1>2 DEF Plan
  <2>2. job[j] = [kind |-> p[j].kind, via |-> p[j].via, pc |-> IF p[j].absent THEN "end" ELSE "idle",
                  stage |-> 1, timedOut |-> FALSE, ended |-> ""]
    BY <1>1
  <2>3. PICK k \in AllKinds, v \in {"rest", "mcp"}, c \in {"end", "idle"} :
          job[j] = [kind |-> k, via |-> v, pc |-> c, stage |-> 1, timedOut |-> FALSE, ended |-> ""]
    BY <2>1, <2>2, Zenon
  <2> DEFINE r == [kind |-> k, via |-> v, pc |-> c, stage |-> 1, timedOut |-> FALSE, ended |-> ""]
  <2>4. r \in Job
    BY DEF Job
  <2>5. r.stage = 1 /\ r.pc = c /\ r.ended = "" /\ ~r.timedOut /\ r.kind = k
    OBVIOUS
  <2>6. job[j] = r
    BY <2>3
  <2> HIDE DEF r
  <2>7. QED
    BY <2>4, <2>5, <2>6
<1>4. ASSUME NEW j \in Jobs PROVE caller[j] \in Call /\ caller[j].result = "none"
  BY <1>1 DEF Call
<1>5. ASSUME NEW j \in Jobs
      PROVE  /\ group[j] \in Group /\ group[j].leader = "none" /\ watch[j] \in Watch
             /\ ~watch[j].killed /\ passed[j] = <<>> /\ passed[j] \in Seq(StageNames)
  <2>1. /\ group[j] = [leader |-> "none", helper |-> "none", stubborn |-> FALSE]
        /\ watch[j] = [at |-> "none", killed |-> FALSE] /\ passed[j] = <<>>
    BY DEF Init
  <2>2. group[j] \in Group /\ watch[j] \in Watch
    BY <2>1 DEF Group, Watch
  <2>3. QED
    BY <2>1, <2>2
<1>6. TypeOK
  <2>1. ASSUME NEW j \in Jobs PROVE job[j].stage \in 1..Len(Stages(job[j].kind))
    <3>1. Len(Stages(job[j].kind)) \in 1..3
      BY <1>3, StagesType
    <3>2. 1 \in 1..Len(Stages(job[j].kind))
      BY <3>1
    <3>3. QED
      BY <1>3, <3>2, Zenon
  <2>2. QED
    BY <1>1, <1>3, <1>4, <1>5, <2>1 DEF Init, TypeOK, StageNames
<1>7. ASSUME NEW j \in Jobs PROVE StagesInv(j) /\ KillsInv(j)
  <2>1. SubSeq(Stages(job[j].kind), 1, 0) = <<>>
    <3>1. Stages(job[j].kind) \in Seq(StageNames)
      BY <1>3, StagesType
    <3>2. QED
      BY <3>1, SubSeqEmpty
  <2>2. PassedUpTo(j, 0)
    BY <1>5, <2>1 DEF PassedUpTo
  <2>3. job[j].stage - 1 = 0
    <3>1. 1 - 1 = 0
      OBVIOUS
    <3>2. QED
      BY <1>3, <3>1, Zenon
  <2>4. QED
    BY <1>3, <1>4, <1>5, <2>2, <2>3 DEF StagesInv, KillsInv
<1>8. QED
  BY <1>6, <1>7 DEF InstallerInv

LEMMA NextInv ==
  ASSUME InstallerInv, [Next]_vars
  PROVE  InstallerInv'
<1>1. TypeOK'
  BY TypeStep
<1>2. CASE UNCHANGED vars
  BY <1>1, <1>2, SameInv DEF InstallerInv, vars
<1>3. CASE Next
  <2>1. PICK j \in Jobs :
          \/ Start(j) \/ Abandon(j) \/ Deliver(j)
          \/ VenvProgress(j) \/ ChildExits(j) \/ HelperStarts(j) \/ HelperExits(j)
          \/ Watcher(j) \/ Worker(j) \/ Timeout(j)
    BY <1>3 DEF Next
  <2>2. StagesInv(j)' /\ KillsInv(j)'
    BY <2>1, OwnStep
  <2>3. ASSUME NEW k \in Jobs \ {j} PROVE StagesInv(k)' /\ KillsInv(k)'
    BY <2>1, OthersStay, SameInv DEF InstallerInv
  <2>4. QED
    BY <1>1, <2>2, <2>3 DEF InstallerInv
<1>4. QED
  BY <1>2, <1>3

LEMMA InstallerInvariant == Spec => []InstallerInv
<1>1. Init => InstallerInv
  BY InitInv
<1>2. InstallerInv /\ [Next]_vars => InstallerInv'
  BY NextInv
<1>3. QED
  BY <1>1, <1>2, PTL DEF Spec

\* The workers, children, watchers and callers of cancellable_proc.py, pypi_venv.py
\* and npm_install.py stay within their types; in particular a child runs only
\* while its worker is in communicate or kills it.
THEOREM TypeCorrect == Spec => []TypeOK
<1>1. InstallerInv => TypeOK
  BY DEF InstallerInv
<1>2. QED
  BY <1>1, InstallerInvariant, PTL

\* For any number of installs: install_into_venv and install_npm_prefix report a
\* good result only if every child they needed exited with 0, in order.
THEOREM GoodResultIsEarned == Spec => []OkMeansEveryStage
<1>1. InstallerInv => OkMeansEveryStage
  <2> SUFFICES ASSUME InstallerInv, NEW j \in Jobs, caller[j].result = "ok"
               PROVE  \/ passed[j] = Stages(job[j].kind)
                      \/ job[j].kind = "pypi" /\ passed[j] = <<"pip">>
    BY DEF OkMeansEveryStage
  <2>1. job[j].kind \in AllKinds /\ PassedUpTo(j, Len(Stages(job[j].kind)))
    BY DEF InstallerInv, TypeOK, Job, StagesInv
  <2>2. SubSeq(Stages(job[j].kind), 1, Len(Stages(job[j].kind))) = Stages(job[j].kind)
    BY <2>1, StagesType, SubSeqFull
  <2>3. Stages("pypi") = <<"venv", "pip">> /\ Len(Stages("pypi")) = 2
    BY DEF Stages
  <2>4. SubSeq(<<"venv", "pip">>, 2, 2) = <<"pip">>
    <3>1. <<"venv", "pip">> \in Seq(StageNames) /\ Len(<<"venv", "pip">>) = 2
      BY DEF StageNames
    <3>2. Tail(<<"venv", "pip">>) = <<"pip">>
      OBVIOUS
    <3>3. QED
      BY <3>1, <3>2, TailIsSubSeq
  <2>5. QED
    BY <2>1, <2>2, <2>3, <2>4 DEF PassedUpTo
<1>2. QED
  BY <1>1, InstallerInvariant, PTL

\* For any number of installs: when run_process has raised for a cancellation or a
\* timeout, nothing of the child's process group is alive, however the watcher, the
\* worker's own kill and the exits of the children interleaved.
THEOREM KilledMeansDead == Spec => []KilledGroupsAreDead
<1>1. InstallerInv => KilledGroupsAreDead
  BY DEF InstallerInv, KillsInv, KilledGroupsAreDead
<1>2. QED
  BY <1>1, InstallerInvariant, PTL
=============================================================================
