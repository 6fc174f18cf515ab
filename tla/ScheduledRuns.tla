---------------------------- MODULE ScheduledRuns ----------------------------
(***************************************************************************)
(* Executions of scheduled jobs: the claim of a run key, the asyncio task  *)
(* that executes it, the bookkeeping rows it writes, cancellation by a     *)
(* tenant stop, graceful shutdown, crash and restart.                      *)
(*                                                                         *)
(* Source: services/scheduled_job_manager.py (claims, tasks, stop) and     *)
(* services/scheduled_job_runner.py (one execution).                       *)
(*                                                                         *)
(* A step runs from one suspension point of the event loop to the next.    *)
(* The claim guard is never held across an await, so taking or dropping a  *)
(* claim is part of the step that does it.  Handles the loop queues with   *)
(* call_soon (first step of a task, its done callback, the wake-up of who  *)
(* awaits it) run in FIFO order: "soon".  Steps that resume on I/O or on a *)
(* new request may run between any two of them.                            *)
(***************************************************************************)
EXTENDS Naturals, Sequences

CONSTANTS
  SysKeys,     \* run keys "code:tenant" of system jobs
  TenantKeys,  \* run keys of tenant jobs, the only ones a tenant stop reaches
  Runs,        \* identities of executions: a bound on how many are spawned
  Stops,       \* concurrent tenant stop requests
  NoRun

ASSUME KeysDisjoint == SysKeys \cap TenantKeys = {}
ASSUME SomeSystemJob == SysKeys # {}
ASSUME NoRunIsNoRun == NoRun \notin Runs

VARIABLES
  up,           \* the process: "up", "closing" (lifespan shutdown), "down"
  runningKeys,  \* _running_keys, the claims
  runTasks,     \* _run_tasks: key -> tracked task
  phase,        \* where each execution is suspended
  keyOf,        \* the key an execution was spawned for
  cancelled,    \* task.cancel() was called on these executions
  faulted,      \* history: executions one of whose bookkeeping statements raised
  soon,         \* FIFO of call_soon handles
  row,          \* status column of the execution's t_sys_scheduled_job_run row
  light,        \* last_run_status per key
  tenantOn,     \* t_sys_scheduled_job_tenant.enabled per tenant key
  due,          \* tenant keys a cron dispatch found enabled, spawn still to come
  stop          \* tenant stop requests in progress

vars == <<up, runningKeys, runTasks, phase, keyOf, cancelled, faulted, soon,
          row, light, tenantOn, due, stop>>

Keys == SysKeys \cup TenantKeys
Idle == [pc |-> "idle"]

(* The statement awaited in a phase, what it writes, and where the code   *)
(* goes when it returns or raises.                                        *)
RowWritten == [insert |-> "running", finish |-> "success", fail |-> "failure",
               skip |-> "skipped"]
LightWritten == [mark |-> "running", record |-> "success",
                 recordFail |-> "failure"]
OnReturn == [check |-> "insert", skip |-> "ended", insert |-> "mark",
             mark |-> "handle", handle |-> "finish", finish |-> "record",
             record |-> "ended", fail |-> "recordFail", recordFail |-> "ended"]
\* Faulty variants of OnRaise: the handler's exception is not caught; closing
\* the row as failed is retried by running the handler again.
OnRaiseUncaught ==
  [check |-> "ended", skip |-> "ended", insert |-> "ended", mark |-> "ended",
   handle |-> "ended", finish |-> "fail", record |-> "fail", fail |-> "ended",
   recordFail |-> "ended"]
OnRaiseRetry ==
  [check |-> "ended", skip |-> "ended", insert |-> "ended", mark |-> "ended",
   handle |-> "fail", finish |-> "fail", record |-> "fail", fail |-> "handle",
   recordFail |-> "ended"]
OnRaise == [check |-> "ended", skip |-> "ended", insert |-> "ended",
            mark |-> "ended", handle |-> "fail", finish |-> "fail",
            record |-> "fail", fail |-> "ended", recordFail |-> "ended"]
Awaiting == {"check", "skip", "insert", "mark", "handle", "finish", "record",
             "fail", "recordFail"}

\* task exists and is not done()
Live(r) == phase[r] \in Awaiting \cup {"created"}

AwaitedByStop(r) == \E s \in Stops : stop[s].pc = "await" /\ stop[s].task = r

Init ==
  /\ up = "up"
  /\ runningKeys = {}
  /\ runTasks = [k \in Keys |-> NoRun]
  /\ phase = [r \in Runs |-> "unused"]
  /\ keyOf = [r \in Runs |-> CHOOSE k \in SysKeys : TRUE]
  /\ cancelled = {}
  /\ faulted = {}
  /\ soon = <<>>
  /\ row = [r \in Runs |-> "none"]
  /\ light = [k \in Keys |-> "none"]
  /\ tenantOn = [k \in TenantKeys |-> TRUE]
  /\ due = {}
  /\ stop = [s \in Stops |-> Idle]

------------------------------------------------------------------------------
(* Spawning: _spawn_run, reached by a manual trigger or a cron dispatch.   *)

\* Faulty variant of Claim: the claim is not looked up first.
ClaimUnchecked(k, r) ==
  /\ runningKeys' = runningKeys \cup {k}
  /\ runTasks' = [runTasks EXCEPT ![k] = r]
  /\ phase' = [phase EXCEPT ![r] = "created"]
  /\ soon' = Append(soon, <<"start", r>>)
  /\ UNCHANGED row

\* The key is free: claim it, create and track the task, in one step.
Claim(k, r) ==
  /\ k \notin runningKeys
  /\ runningKeys' = runningKeys \cup {k}
  /\ runTasks' = [runTasks EXCEPT ![k] = r]
  /\ phase' = [phase EXCEPT ![r] = "created"]
  /\ soon' = Append(soon, <<"start", r>>)
  /\ UNCHANGED row

\* The key is taken: only a "skipped" row is inserted, unless that fails.
RecordSkipped(k, r) ==
  /\ k \in runningKeys
  /\ phase' = [phase EXCEPT ![r] = "skipped"]
  /\ row' \in {row, [row EXCEPT ![r] = "skipped"]}
  /\ UNCHANGED <<runningKeys, runTasks, soon>>

Spawn(k, r) ==
  /\ up = "up"
  /\ phase[r] = "unused"
  /\ Claim(k, r) \/ RecordSkipped(k, r)
  /\ keyOf' = [keyOf EXCEPT ![r] = k]
  /\ UNCHANGED <<up, cancelled, faulted, light, tenantOn, stop>>

\* Platform or tenant trigger; a system job's cron dispatch is the same call.
Trigger(k, r) == Spawn(k, r) /\ UNCHANGED due

\* _dispatch_scheduled of a tenant job reads the tenant's switch ...
DispatchCheck(k) ==
  /\ up = "up"
  /\ tenantOn[k]
  /\ k \notin due
  /\ due' = due \cup {k}
  /\ UNCHANGED <<up, runningKeys, runTasks, phase, keyOf, cancelled, faulted,
                 soon, row, light, tenantOn, stop>>

\* ... and spawns when the read has come back.
DispatchSpawn(k, r) ==
  /\ k \in due
  /\ Spawn(k, r)
  /\ due' = due \ {k}

------------------------------------------------------------------------------
(* The event loop's FIFO handles.                                          *)

HandlesOfEnd(r) ==
  <<<<"done", r>>>> \o (IF AwaitedByStop(r) THEN <<<<"wake", r>>>> ELSE <<>>)

\* First step of the task.  A task cancelled before it never enters the
\* coroutine, so _execute_claimed's finally does not release the claim.
Begin(r) ==
  /\ soon # <<>>
  /\ Head(soon) = <<"start", r>>
  /\ phase[r] = "created"
  /\ IF r \in cancelled
     THEN /\ phase' = [phase EXCEPT ![r] = "ended"]
          /\ soon' = Tail(soon) \o HandlesOfEnd(r)
     ELSE /\ phase' = [phase EXCEPT ![r] = "check"]
          /\ soon' = Tail(soon)
  /\ UNCHANGED <<up, runningKeys, runTasks, keyOf, cancelled, faulted, row,
                 light, tenantOn, due, stop>>

\* Faulty variant of DoneCallback: the tracked task is never popped.
DoneCallbackKeeps(r) ==
  /\ soon # <<>>
  /\ Head(soon) = <<"done", r>>
  /\ soon' = Tail(soon)
  /\ UNCHANGED <<up, runningKeys, runTasks, phase, keyOf, cancelled, faulted,
                 row, light, tenantOn, due, stop>>

\* _on_done pops whatever task the key tracks by now.
DoneCallback(r) ==
  /\ soon # <<>>
  /\ Head(soon) = <<"done", r>>
  /\ soon' = Tail(soon)
  /\ runTasks' = [runTasks EXCEPT ![keyOf[r]] = NoRun]
  /\ UNCHANGED <<up, runningKeys, phase, keyOf, cancelled, faulted, row, light,
                 tenantOn, due, stop>>

------------------------------------------------------------------------------
(* One execution: runner.execute_job inside _execute_claimed.              *)

\* Faulty variant of Write: the outcome is stored without as_run_status.
WriteUnmapped(r) ==
  /\ row' = IF phase[r] \in DOMAIN RowWritten
            THEN [row EXCEPT ![r] = phase[r]] ELSE row
  /\ UNCHANGED light

Write(r) ==
  /\ row' = IF phase[r] \in DOMAIN RowWritten
            THEN [row EXCEPT ![r] = RowWritten[phase[r]]] ELSE row
  /\ light' = IF phase[r] \in DOMAIN LightWritten
              THEN [light EXCEPT ![keyOf[r]] = LightWritten[phase[r]]]
              ELSE light

NoWrite == UNCHANGED <<row, light>>

\* Faulty variant of GoTo: no finally, the claim is kept.
GoToKeepsClaim(r, p) ==
  /\ phase' = [phase EXCEPT ![r] = p]
  /\ soon' = IF p = "ended" THEN soon \o HandlesOfEnd(r) ELSE soon
  /\ UNCHANGED <<up, runningKeys, runTasks, keyOf, cancelled, tenantOn, due,
                 stop>>

\* Move on to phase p; leaving the coroutine runs its finally.
GoTo(r, p) ==
  /\ phase' = [phase EXCEPT ![r] = p]
  /\ IF p = "ended"
     THEN /\ runningKeys' = runningKeys \ {keyOf[r]}
          /\ soon' = soon \o HandlesOfEnd(r)
     ELSE UNCHANGED <<runningKeys, soon>>
  /\ UNCHANGED <<up, runTasks, keyOf, cancelled, tenantOn, due, stop>>

Returns(r) ==
  /\ phase[r] \in Awaiting /\ r \notin cancelled
  /\ Write(r)
  /\ GoTo(r, OnReturn[phase[r]])
  /\ UNCHANGED faulted

\* The awaited call raises; a failed statement may still have committed.
Raises(r) ==
  /\ phase[r] \in Awaiting /\ r \notin cancelled
  /\ Write(r) \/ NoWrite
  /\ GoTo(r, OnRaise[phase[r]])
  /\ faulted' = IF phase[r] = "handle" THEN faulted ELSE faulted \cup {r}

\* The tenant may not run now: cron records a skip, a manual run raises
\* before any row exists, as does a job whose definition row is gone.
NotRunnable(r) ==
  /\ phase[r] = "check" /\ r \notin cancelled
  /\ \/ keyOf[r] \in TenantKeys /\ GoTo(r, "skip")
     \/ GoTo(r, "ended")
  /\ UNCHANGED faulted
  /\ NoWrite

\* CancelledError is no Exception: neither arm of execute_job catches it.
Interrupted(r) ==
  /\ phase[r] \in Awaiting /\ r \in cancelled
  /\ Write(r) \/ NoWrite
  /\ GoTo(r, "ended")
  /\ UNCHANGED faulted

------------------------------------------------------------------------------
(* stop_job(code, tenant_id): cancel the run, drop the claim, disable.     *)

StopRequest(s, k) ==
  /\ up = "up"
  /\ stop[s] = Idle
  /\ IF runTasks[k] # NoRun /\ Live(runTasks[k])
     THEN /\ cancelled' = cancelled \cup {runTasks[k]}
          /\ stop' = [stop EXCEPT ![s] =
                       [pc |-> "await", key |-> k, task |-> runTasks[k]]]
          /\ UNCHANGED runningKeys
     ELSE /\ runningKeys' = runningKeys \ {k}
          /\ stop' = [stop EXCEPT ![s] =
                       [pc |-> "disable", key |-> k, task |-> NoRun]]
          /\ UNCHANGED cancelled
  /\ UNCHANGED <<up, runTasks, phase, keyOf, faulted, soon, row, light,
                 tenantOn, due>>

\* Faulty variant of StopWakes: the claim is left to the cancelled task.
StopWakesKeepsClaim(s) ==
  /\ soon # <<>>
  /\ stop[s].pc = "await"
  /\ Head(soon) = <<"wake", stop[s].task>>
  /\ stop' = [stop EXCEPT ![s].pc = "disable"]
  /\ soon' = Tail(soon)
  /\ UNCHANGED <<up, runningKeys, runTasks, phase, keyOf, cancelled, faulted,
                 row, light, tenantOn, due>>

\* The awaited task is over: the claim under its key is discarded.
StopWakes(s) ==
  /\ soon # <<>>
  /\ stop[s].pc = "await"
  /\ Head(soon) = <<"wake", stop[s].task>>
  /\ runningKeys' = runningKeys \ {stop[s].key}
  /\ stop' = [stop EXCEPT ![s].pc = "disable"]
  /\ soon' = IF \E o \in Stops \ {s} :
                  stop[o].pc = "await" /\ stop[o].task = stop[s].task
             THEN soon ELSE Tail(soon)
  /\ UNCHANGED <<up, runTasks, phase, keyOf, cancelled, faulted, row, light,
                 tenantOn, due>>

\* The upsert of the switch may fail; the request is then over as well.
StopDisables(s) ==
  /\ stop[s].pc = "disable"
  /\ \/ tenantOn' = [tenantOn EXCEPT ![stop[s].key] = FALSE]
     \/ UNCHANGED tenantOn
  /\ stop' = [stop EXCEPT ![s] = Idle]
  /\ UNCHANGED <<up, runningKeys, runTasks, phase, keyOf, cancelled, faulted,
                 soon, row, light, due>>

\* start_job ends with enable_all_tenant_schedules.
EnableTenants ==
  /\ up = "up"
  /\ tenantOn' = [k \in TenantKeys |-> TRUE]
  /\ UNCHANGED <<up, runningKeys, runTasks, phase, keyOf, cancelled, faulted,
                 soon, row, light, due, stop>>

------------------------------------------------------------------------------
(* The process: lifespan shutdown (once requests are over), crash, restart.*)

Shutdown ==
  /\ up = "up"
  /\ \A s \in Stops : stop[s] = Idle
  /\ up' = "closing"
  /\ cancelled' = cancelled \cup
       {r \in Runs : Live(r) /\ \E k \in Keys : runTasks[k] = r}
  /\ UNCHANGED <<runningKeys, runTasks, phase, keyOf, faulted, soon, row,
                 light, tenantOn, due, stop>>

\* Whatever still runs dies with the process; only the tables remain.
MemoryLost ==
  /\ up' = "down"
  /\ runningKeys' = {}
  /\ runTasks' = [k \in Keys |-> NoRun]
  /\ phase' = [r \in Runs |-> IF Live(r) THEN "lost" ELSE phase[r]]
  /\ soon' = <<>>
  /\ due' = {}
  /\ stop' = [s \in Stops |-> Idle]
  /\ UNCHANGED <<keyOf, cancelled, faulted, row, light, tenantOn>>

ShutdownEnds ==
  /\ up = "closing"
  /\ \A r \in cancelled : ~Live(r)
  /\ MemoryLost

Crash == up # "down" /\ MemoryLost

\* startup() reads the job table only: rows left "running" stay as they are.
Restart ==
  /\ up = "down"
  /\ up' = "up"
  /\ UNCHANGED <<runningKeys, runTasks, phase, keyOf, cancelled, faulted, soon,
                 row, light, tenantOn, due, stop>>

------------------------------------------------------------------------------
RunStep(r) == Returns(r) \/ Raises(r) \/ NotRunnable(r) \/ Interrupted(r)

LoopStep ==
  \/ \E r \in Runs : Begin(r) \/ DoneCallback(r)
  \/ \E s \in Stops : StopWakes(s)

Next ==
  \/ \E k \in Keys, r \in Runs : Trigger(k, r)
  \/ \E k \in TenantKeys : DispatchCheck(k)
  \/ \E k \in TenantKeys, r \in Runs : DispatchSpawn(k, r)
  \/ \E r \in Runs : RunStep(r)
  \/ LoopStep
  \/ \E s \in Stops, k \in TenantKeys : StopRequest(s, k)
  \/ \E s \in Stops : StopDisables(s)
  \/ EnableTenants
  \/ Shutdown \/ ShutdownEnds \/ Crash \/ Restart

Spec == Init /\ [][Next]_vars

\* The event loop runs its ready handles, and awaited calls return or raise
\* (the driver's timeouts bound them).
Fairness ==
  /\ WF_vars(LoopStep)
  /\ \A r \in Runs : WF_vars(RunStep(r))
  /\ WF_vars(ShutdownEnds)

FairSpec == Spec /\ Fairness

------------------------------------------------------------------------------
Handles == {"start", "done", "wake"} \X Runs

StopStates == [pc : {"await", "disable"}, key : TenantKeys,
               task : Runs \cup {NoRun}]

\* Every variable has its type.
TypeOK ==
  /\ up \in {"up", "closing", "down"}
  /\ runningKeys \subseteq Keys
  /\ runTasks \in [Keys -> Runs \cup {NoRun}]
  /\ phase \in [Runs -> Awaiting \cup
                         {"unused", "created", "skipped", "ended", "lost"}]
  /\ keyOf \in [Runs -> Keys]
  /\ cancelled \subseteq Runs
  /\ faulted \subseteq Runs
  /\ soon \in Seq(Handles)
  /\ row \in [Runs -> {"none", "running", "success", "failure", "skipped"}]
  /\ light \in [Keys -> {"none", "running", "success", "failure"}]
  /\ tenantOn \in [TenantKeys -> BOOLEAN]
  /\ due \subseteq TenantKeys
  /\ stop \in [Stops -> {Idle} \cup StopStates]

\* A key has at most one live execution among the given keys.
SingleFlightOn(keys) ==
  \A r1, r2 \in Runs :
    Live(r1) /\ Live(r2) /\ keyOf[r1] = keyOf[r2] /\ keyOf[r1] \in keys
      => r1 = r2

\* trigger_job's promise, "already running returns False", for system jobs:
\* whatever stops, failures, restarts and stale done callbacks do, no key of
\* a system job ever has two executions in progress.
SystemSingleFlight == SingleFlightOn(SysKeys)

\* The same promise for every job.  A tenant stop breaks it: _cancel_run
\* discards the key although the claim may belong to a newer execution.
SingleFlight == SingleFlightOn(Keys)

\* A claim never outlives its execution unless a stop that will drop it is
\* about to wake (a task cancelled before its first step releases nothing) or
\* the process is closing: otherwise the job could never run again.
ClaimHasOwner ==
  \A k \in runningKeys :
    \/ \E r \in Runs : Live(r) /\ keyOf[r] = k
    \/ \E s \in Stops : stop[s].pc = "await" /\ stop[s].key = k
    \/ up = "closing"

\* What _run_tasks tracks under a key is an execution of that key which is
\* live or whose done callback is still queued: a stop never waits for, or
\* cancels, an execution of another key or of the past.
TrackedIsCurrent ==
  \A k \in Keys, r \in Runs :
    runTasks[k] = r => /\ keyOf[r] = k
                       /\ \/ Live(r)
                          \/ \E i \in DOMAIN soon : soon[i] = <<"done", r>>

\* What the manager has in memory of a key is true of it: the claim has an owner,
\* the task is the current one.
KeysAgree == ClaimHasOwner /\ TrackedIsCurrent

\* A run row is left "running" only by a cancellation, a failed bookkeeping
\* call or the death of the process: an execution that merely failed or
\* succeeded always closes its row.
OpenRowExplained ==
  \A r \in Runs :
    phase[r] = "ended" /\ row[r] = "running" => r \in cancelled \cup faulted

\* docs/scheduled-jobs.md: a claimed run INSERTs running and UPDATEs the
\* terminal status when it ends.  Cancelled executions never do.
EndedRowIsTerminal ==
  \A r \in Runs : phase[r] = "ended" /\ r \notin faulted => row[r] # "running"

\* A closed row is never reopened, nor turned from failure into success, by a
\* later statement of its execution; success may still become failure when
\* recording the result fails.
ClosedRowStays(r) ==
  /\ row[r] \in {"failure", "skipped"} => row'[r] = row[r]
  /\ row[r] = "success" => row'[r] \in {"success", "failure"}
ClosedRowsStay == [][\A r \in Runs : ClosedRowStays(r)]_vars

\* Every claim is eventually dropped, by its execution, by the stop that
\* cancelled it or with the process.
ClaimsAreReleased == \A k \in Keys : (k \in runningKeys) ~> (k \notin runningKeys)

(* The claims of system jobs implement OneAtATime: the owner of a key is its
   live execution.                                                         *)
OwnerOf(k) ==
  IF \E r \in Runs : Live(r) /\ keyOf[r] = k
  THEN CHOOSE r \in Runs : Live(r) /\ keyOf[r] = k ELSE NoRun

OAT == INSTANCE OneAtATime WITH
         Keys <- SysKeys,
         owner <- [k \in SysKeys |-> OwnerOf(k)],
         over <- {r \in Runs : phase[r] \in {"ended", "lost"}
                               /\ keyOf[r] \in SysKeys}

\* Spawning, cancelling, failing and dying, the executions of system jobs
\* behave as OneAtATime: a step starts one under a free key, ends one, or
\* ends all of them.
SystemJobsOneAtATime == OAT!Spec
==============================================================================
