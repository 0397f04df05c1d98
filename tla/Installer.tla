------------------------------ MODULE Installer ------------------------------
(***************************************************************************)
(* Package installs: run_process (cancellable_proc.py) with its worker and *)
(* watcher threads and the process group of its child, the stages that     *)
(* pypi_venv.py and npm_install.py run through it, and the two ways a      *)
(* caller waits for the worker: _install_in_thread (proxy_mcp.py), which   *)
(* can cancel it, and asyncio.to_thread (api/servers.py), which cannot.    *)
(* All jobs install for the same server id, that is into one directory.    *)
(*                                                                         *)
(* Time is left out: a timeout may fire whenever the code waits with one.  *)
(* The join of the watcher waits longer (3 s) than the watcher's own grace *)
(* period (2 s), so it is modelled as waiting for the watcher.  Of a       *)
(* result only whether it is good is kept, not the command it suggests.    *)
(***************************************************************************)
EXTENDS Naturals, Sequences, FiniteSets

CONSTANTS
  Jobs, \* worker threads
  Plans \* which installs are tried: the kind and the caller of each job

AllKinds == {"pypi", "npm", "github"}

\* A job that is absent never starts.
Plan == [kind : AllKinds, via : {"rest", "mcp"}, absent : BOOLEAN]

ASSUME InstallerAssumption == Plans \subseteq [Jobs -> Plan]

VARIABLES
  venv,   \* the server's venv: "absent", "partial" (a python, but no pip) or "ready"
  job,    \* the worker's state, see Job
  group,  \* the process group of the worker's last child
  watch,  \* the watcher thread of that child
  caller, \* the coroutine that waits for the worker
  passed  \* history: the stages whose child exited with 0

vars == <<venv, job, group, watch, caller, passed>>

\* The children an install runs, in order.
Stages(kind) ==
  CASE kind = "pypi" -> <<"venv", "pip">>
    [] kind = "npm" -> <<"install">>
    [] kind = "github" -> <<"install", "deps", "build">>

\* pc: "next" between children, "wait" in communicate, "term" in the
\* _terminate_group of a timeout, "join" waiting for the watcher.
Job == [kind : AllKinds, via : {"rest", "mcp"}, pc : {"idle", "next", "wait", "term", "join", "end"},
        stage : 1..3, timedOut : BOOLEAN, ended : {"", "done", "cancelled", "timeout", "oserror"}]

\* A helper either keeps the child's output pipes open or has closed them.
Group == [leader : {"none", "runs", "zero", "nonzero"}, helper : {"none", "holds", "apart"},
          stubborn : BOOLEAN]

\* The result the worker has returned, if it has.
Call == [state : {"waits", "gone", "told"}, cancel : BOOLEAN, result : {"none", "ok", "failed"}]

Watch == [at : {"none", "poll", "kill", "grace", "done"}, killed : BOOLEAN]

TypeOK ==
  /\ venv \in {"absent", "partial", "ready"}
  /\ job \in [Jobs -> Job]
  /\ \A j \in Jobs : job[j].stage \in 1..Len(Stages(job[j].kind))
  /\ group \in [Jobs -> Group]
  /\ \A j \in Jobs : group[j].leader = "runs" => job[j].pc \in {"wait", "term"}
  /\ watch \in [Jobs -> Watch]
  /\ caller \in [Jobs -> Call]
  /\ passed \in [Jobs -> Seq({"venv", "pip", "install", "deps", "build"})]

Init ==
  /\ venv = "absent"
  /\ \E p \in Plans :
       /\ job = [j \in Jobs |-> [kind |-> p[j].kind, via |-> p[j].via,
                                 pc |-> IF p[j].absent THEN "end" ELSE "idle",
                                 stage |-> 1, timedOut |-> FALSE, ended |-> ""]]
       /\ caller = [j \in Jobs |-> [state |-> IF p[j].absent THEN "gone" ELSE "waits",
                                    cancel |-> FALSE, result |-> "none"]]
  /\ group = [j \in Jobs |-> [leader |-> "none", helper |-> "none", stubborn |-> FALSE]]
  /\ watch = [j \in Jobs |-> [at |-> "none", killed |-> FALSE]]
  /\ passed = [j \in Jobs |-> <<>>]

StageOf(j) == Stages(job[j].kind)[job[j].stage]
LastStage(j) == job[j].stage = Len(Stages(job[j].kind))

-----------------------------------------------------------------------------
(***************************************************************************)
(* The child and its process group                                         *)
(***************************************************************************)

Alive(g) == g.leader = "runs" \/ g.helper # "none"

\* SIGTERM to the group: whoever does not ignore it dies.
Termed(g) ==
  IF g.stubborn THEN g
  ELSE [g EXCEPT !.leader = IF @ = "runs" THEN "nonzero" ELSE @, !.helper = "none"]

\* SIGKILL to the group
Killed(g) == [g EXCEPT !.leader = IF @ = "runs" THEN "nonzero" ELSE @, !.helper = "none"]

\* python -m venv has put the interpreter in place and goes on to install pip.
VenvProgress(j) ==
  /\ group[j].leader = "runs" /\ StageOf(j) = "venv" /\ venv = "absent"
  /\ venv' = "partial"
  /\ UNCHANGED <<job, group, watch, caller, passed>>

\* The child exits.  venv ends well only with a complete environment, and
\* python -m pip only inside one.
ChildExits(j) ==
  /\ group[j].leader = "runs"
  /\ \/ /\ StageOf(j) = "venv" => venv # "absent"
        /\ StageOf(j) = "pip" => venv = "ready"
        /\ group' = [group EXCEPT ![j].leader = "zero"]
        /\ venv' = IF StageOf(j) = "venv" THEN "ready" ELSE venv
        /\ passed' = [passed EXCEPT ![j] = Append(@, StageOf(j))]
     \/ /\ group' = [group EXCEPT ![j].leader = "nonzero"]
        /\ UNCHANGED <<venv, passed>>
  /\ UNCHANGED <<job, watch, caller>>

\* pip and npm start processes of their own in the group.
HelperStarts(j) ==
  /\ group[j].leader = "runs" /\ group[j].helper = "none"
  /\ \E h \in {"holds", "apart"} : group' = [group EXCEPT ![j].helper = h]
  /\ UNCHANGED <<venv, job, watch, caller, passed>>

HelperExits(j) ==
  /\ group[j].helper # "none"
  /\ group' = [group EXCEPT ![j].helper = "none"]
  /\ UNCHANGED <<venv, job, watch, caller, passed>>

-----------------------------------------------------------------------------
(***************************************************************************)
(* The caller                                                              *)
(***************************************************************************)

\* The awaiting task is cancelled.  _install_in_thread abandons the worker and
\* sets its event; asyncio.to_thread leaves the worker running.
Abandon(j) ==
  /\ job[j].pc # "idle" /\ caller[j].state = "waits"
  /\ caller' = [caller EXCEPT ![j].state = "gone", ![j].cancel = job[j].via = "mcp"]
  /\ UNCHANGED <<venv, job, group, watch, passed>>

\* The worker's result reaches a caller that is still there.
Deliver(j) ==
  /\ job[j].pc = "end" /\ caller[j].state = "waits"
  /\ caller' = [caller EXCEPT ![j].state = "told"]
  /\ UNCHANGED <<venv, job, group, watch, passed>>

-----------------------------------------------------------------------------
(***************************************************************************)
(* The watcher (_watch): only a worker with an event has one.              *)
(***************************************************************************)

\* Mutant of WatcherOf: the build of a GitHub package is run without the event.
MutWatcherOf(j) ==
  [at |-> IF job[j].via = "mcp" /\ StageOf(j) # "build" THEN "poll" ELSE "none",
   killed |-> FALSE]

WatcherOf(j) ==
  [at |-> IF job[j].via = "mcp" THEN "poll" ELSE "none", killed |-> FALSE]

\* proc.poll() is not None
WatchSeesExit(j) ==
  /\ watch[j].at = "poll" /\ group[j].leader # "runs"
  /\ watch' = [watch EXCEPT ![j].at = "done"]
  /\ UNCHANGED <<venv, job, group, caller, passed>>

\* The event is set and the child was still running when it was polled.
WatchSeesCancel(j) ==
  /\ watch[j].at = "poll" /\ group[j].leader = "runs" /\ caller[j].cancel
  /\ watch' = [watch EXCEPT ![j].at = "kill", ![j].killed = TRUE]
  /\ UNCHANGED <<venv, job, group, caller, passed>>

\* _terminate_group: SIGTERM, then poll the group until the grace is over.
WatchTerminates(j) ==
  /\ watch[j].at = "kill"
  /\ group' = [group EXCEPT ![j] = Termed(@)]
  /\ watch' = [watch EXCEPT ![j].at = IF Alive(group[j]) THEN "grace" ELSE "done"]
  /\ UNCHANGED <<venv, job, caller, passed>>

\* The group is gone, or the grace period is over and gets SIGKILL.
WatchKills(j) ==
  /\ watch[j].at = "grace"
  /\ group' = [group EXCEPT ![j] = Killed(@)]
  /\ watch' = [watch EXCEPT ![j].at = "done"]
  /\ UNCHANGED <<venv, job, caller, passed>>

-----------------------------------------------------------------------------
(***************************************************************************)
(* The worker: run_process                                                 *)
(***************************************************************************)

Start(j) ==
  /\ job[j].pc = "idle"
  /\ job' = [job EXCEPT ![j].pc = "next"]
  /\ UNCHANGED <<venv, group, watch, caller, passed>>

\* ensure_venv finds bin/python and creates nothing.
UseVenv(j) ==
  /\ job[j].pc = "next" /\ StageOf(j) = "venv" /\ venv # "absent"
  /\ job' = [job EXCEPT ![j].stage = 2]
  /\ UNCHANGED <<venv, group, watch, caller, passed>>

Spawn(j) ==
  /\ job[j].pc = "next"
  /\ StageOf(j) = "venv" => venv = "absent"
  /\ \E s \in BOOLEAN :
       group' = [group EXCEPT ![j] = [leader |-> "runs", helper |-> "none", stubborn |-> s]]
  /\ watch' = [watch EXCEPT ![j] = WatcherOf(j)]
  /\ job' = [job EXCEPT ![j].pc = "wait", ![j].timedOut = FALSE]
  /\ UNCHANGED <<venv, caller, passed>>

\* communicate returns when the child is gone and nobody holds its pipes.
Communicated(j) ==
  /\ job[j].pc = "wait" /\ group[j].leader # "runs" /\ group[j].helper # "holds"
  /\ job' = [job EXCEPT ![j].pc = "join"]
  /\ UNCHANGED <<venv, group, watch, caller, passed>>

\* TimeoutExpired: SIGTERM from the worker itself.
Timeout(j) ==
  /\ job[j].pc = "wait"
  /\ job' = [job EXCEPT ![j].pc = "term", ![j].timedOut = TRUE]
  /\ group' = [group EXCEPT ![j] = Termed(@)]
  /\ UNCHANGED <<venv, watch, caller, passed>>

TimeoutKills(j) ==
  /\ job[j].pc = "term"
  /\ job' = [job EXCEPT ![j].pc = "join"]
  /\ group' = [group EXCEPT ![j] = Killed(@)]
  /\ UNCHANGED <<venv, watch, caller, passed>>

\* Mutant of Joined: the worker does not wait for its watcher.
MutJoined(j) == job[j].pc = "join"

Joined(j) == job[j].pc = "join" /\ watch[j].at \in {"none", "done"}

-----------------------------------------------------------------------------
(***************************************************************************)
(* The worker: install_into_venv and install_npm_prefix                    *)
(***************************************************************************)

Ends(j, why) == job' = [job EXCEPT ![j].pc = "end", ![j].ended = why]

\* The worker returns a result.
Returns(j, ok, why) ==
  /\ caller' = [caller EXCEPT ![j].result = IF ok THEN "ok" ELSE "failed"]
  /\ Ends(j, why)

\* The worker raises: pypi turns it into a failed result, npm lets it out.
Raises(j, why) ==
  IF job[j].kind = "pypi" THEN Returns(j, FALSE, why)
  ELSE Ends(j, why) /\ UNCHANGED caller

\* npm is not installed, or a child cannot be started.
SpawnFails(j) ==
  /\ job[j].pc = "next"
  /\ StageOf(j) = "venv" => venv = "absent"
  /\ \/ StageOf(j) = "install" /\ Returns(j, FALSE, "done")
     \/ Raises(j, "oserror")
  /\ UNCHANGED <<venv, group, watch, passed>>

\* Mutant of StageOk: a failed install of the build dependencies is not seen.
MutStageOk(j) == group[j].leader = "zero" \/ StageOf(j) = "deps"

\* proc.returncode == 0
StageOk(j) == group[j].leader = "zero"

\* run_process is over: it raises, or the install goes on by the return code.
Continue(j) ==
  /\ Joined(j)
  /\ IF job[j].timedOut THEN Raises(j, "timeout")
     ELSE IF watch[j].killed THEN Raises(j, "cancelled")
     ELSE IF StageOf(j) = "venv" /\ ~StageOk(j) THEN Raises(j, "done")
     ELSE IF LastStage(j) \/ ~StageOk(j) THEN Returns(j, StageOk(j), "done")
     ELSE /\ job' = [job EXCEPT ![j].pc = "next", ![j].stage = @ + 1]
          /\ UNCHANGED caller
  /\ UNCHANGED <<venv, group, watch, passed>>

\* A GitHub package without a directory to build in.
NothingToBuild(j) ==
  /\ Joined(j) /\ ~job[j].timedOut /\ ~watch[j].killed
  /\ job[j].kind = "github" /\ StageOf(j) = "install" /\ StageOk(j)
  /\ Returns(j, FALSE, "done")
  /\ UNCHANGED <<venv, group, watch, passed>>

-----------------------------------------------------------------------------
Watcher(j) ==
  WatchSeesExit(j) \/ WatchSeesCancel(j) \/ WatchTerminates(j) \/ WatchKills(j)

Worker(j) ==
  \/ UseVenv(j) \/ Spawn(j) \/ SpawnFails(j) \/ Communicated(j)
  \/ TimeoutKills(j) \/ Continue(j) \/ NothingToBuild(j)

Next ==
  \E j \in Jobs :
    \/ Start(j) \/ Abandon(j) \/ Deliver(j)
    \/ VenvProgress(j) \/ ChildExits(j) \/ HelperStarts(j) \/ HelperExits(j)
    \/ Watcher(j) \/ Worker(j) \/ Timeout(j)

Spec == Init /\ [][Next]_vars

\* Threads are scheduled.  Nothing is assumed of the children, which may hang,
\* and nothing of the timeouts, which are minutes long.
FairSpec == Spec /\ \A j \in Jobs : WF_vars(Watcher(j)) /\ WF_vars(Worker(j))

-----------------------------------------------------------------------------
\* An install is reported as good only if every child it needed exited with 0,
\* in order: no failure is lost between the stages of a GitHub build, no child
\* that was killed counts, and a venv is skipped only when there was one.
OkMeansEveryStage ==
  \A j \in Jobs :
    caller[j].result = "ok" =>
      \/ passed[j] = Stages(job[j].kind)
      \/ job[j].kind = "pypi" /\ passed[j] = <<"pip">>

\* When run_process has raised for a cancellation or a timeout, nothing of the
\* child's process group is left, not even a helper that ignores SIGTERM and has
\* closed the pipes (_terminate_group and the join of the watcher).
KilledGroupsAreDead ==
  \A j \in Jobs : job[j].ended \in {"cancelled", "timeout"} => ~Alive(group[j])

\* The child is gone but a helper keeps its pipes open: communicate still waits
\* and the watcher has left.
HeldByHelper(j) ==
  job[j].pc = "wait" /\ group[j].leader # "runs" /\ group[j].helper = "holds"

\* A cancelled install ends although its children would run forever and no
\* timeout fires, at whichever stage the event was set; the exception is a
\* helper that outlived its parent with the pipes open.
CancelEndsInstall ==
  \A j \in Jobs : caller[j].cancel ~> (job[j].pc = "end" \/ HeldByHelper(j))

-----------------------------------------------------------------------------
(***************************************************************************)
(* What makes the two invariants inductive.                                *)
(***************************************************************************)

\* The children of the first n stages exited with 0, and nobody else's; the venv
\* may have been there already.
PassedUpTo(j, n) ==
  \/ passed[j] = SubSeq(Stages(job[j].kind), 1, n)
  \/ job[j].kind = "pypi" /\ n >= 1 /\ passed[j] = SubSeq(Stages("pypi"), 2, n)

\* Where a worker is says which children have passed; it has a result only at its
\* end, and a good one only with all of them.
StagesInv(j) ==
  /\ job[j].pc \in {"idle", "next"} => PassedUpTo(j, job[j].stage - 1)
  /\ job[j].pc \in {"wait", "term", "join"} =>
       PassedUpTo(j, IF group[j].leader = "zero" THEN job[j].stage ELSE job[j].stage - 1)
  /\ caller[j].result # "none" => job[j].pc = "end"
  /\ caller[j].result = "ok" => PassedUpTo(j, Len(Stages(job[j].kind)))

\* A group that was killed, by its watcher or by the timeout, stays dead until the
\* worker goes on.
KillsInv(j) ==
  /\ job[j].ended # "" => job[j].pc = "end"
  /\ job[j].pc = "wait" => ~job[j].timedOut
  /\ job[j].timedOut /\ job[j].pc = "join" => ~Alive(group[j])
  /\ watch[j].killed => watch[j].at \in {"kill", "grace", "done"}
  /\ watch[j].killed /\ watch[j].at = "done" => ~Alive(group[j])
  /\ job[j].ended \in {"cancelled", "timeout"} => ~Alive(group[j])

InstallerInv == TypeOK /\ \A j \in Jobs : StagesInv(j) /\ KillsInv(j)
=============================================================================
