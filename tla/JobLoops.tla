------------------------------ MODULE JobLoops ------------------------------
(***************************************************************************)
(* The cron loop of one scheduled job and the requests that control it:    *)
(* update_job, start_job and stop_job of ScheduledJobManager, with         *)
(* _start_job, _stop_job, _reload_job, _loop, startup and shutdown.        *)
(*                                                                         *)
(* The job row says whether the job is enabled and with which cron; memory *)
(* holds the tracked loop (_tasks) and its cron (_cron_exprs).  A request  *)
(* suspends at the UPDATE, at the re-read of the row, while it awaits the  *)
(* loop it cancelled and while it refreshes next_run_at; others run then.  *)
(***************************************************************************)
EXTENDS Naturals, FiniteSets

CONSTANTS
  Admins,      \* concurrent requests
  Bodies,      \* request bodies: [enabled : BOOLEAN or Unset, cron : Crons or Unset]
  Crons,       \* cron expressions
  Loops,       \* identities of loop tasks, reused once nobody refers to them
  NoLoop, Unset

ASSUME BodyTypes ==
  \A b \in Bodies : /\ b.enabled \in BOOLEAN \cup {Unset}
                    /\ b.cron \in Crons \cup {Unset}
ASSUME LoopsExist == Loops # {}
ASSUME MarkersAreNew == NoLoop \notin Loops /\ Unset \notin Crons \cup BOOLEAN

VARIABLES
  up,        \* the process runs
  enabled,   \* t_sys_scheduled_job.enabled
  cron,      \* t_sys_scheduled_job.cron_expr
  tracked,   \* _tasks[code]
  cronExpr,  \* _cron_exprs[code], the cron the tracked loop was started with
  loop,      \* per loop task: where it is
  req,       \* per admin: the request in progress
  forgotten, \* history: loops whose _tasks entry was overwritten while they ran
  raced      \* history: since the start of the process, requests have overlapped

vars == <<up, enabled, cron, tracked, cronExpr, loop, req,
          forgotten, raced>>

row == <<enabled, cron>>
memory == <<tracked, cronExpr, loop, forgotten>>

Idle == [pc |-> "idle"]

Running(l) == loop[l] \in {"waiting", "dispatching"}
Done(l) == loop[l] \in {"none", "died"}

\* is_active: a task is tracked and not done().
IsActive == tracked # NoLoop /\ ~Done(tracked)

\* A loop identity nobody refers to any more.
Fresh(l) ==
  /\ Done(l) /\ l # tracked
  /\ \A a \in Admins : req[a].pc = "awaitStop" => req[a].target # l
FreshLoop == CHOOSE l \in Loops : Fresh(l)

Init ==
  /\ up = FALSE
  /\ enabled \in BOOLEAN
  /\ cron \in Crons
  /\ tracked = NoLoop
  /\ cronExpr = Unset
  /\ loop = [l \in Loops |-> "none"]
  /\ req = [a \in Admins |-> Idle]
  /\ forgotten = {}
  /\ raced = FALSE

------------------------------------------------------------------------------
(* Building blocks of the requests.                                        *)

\* _start_job past its checks: track a new loop, then refresh next_run_at.
Create(a, c) ==
  /\ \E l \in Loops : Fresh(l)
  /\ tracked' = FreshLoop
  /\ cronExpr' = c
  /\ loop' = [loop EXCEPT ![FreshLoop] = "waiting"]
  /\ req' = [req EXCEPT ![a] = [pc |-> "refresh"]]
  /\ forgotten' = (forgotten \ {FreshLoop}) \cup {l \in Loops : l = tracked /\ IsActive}

\* Faulty variant of CancelTracked: the entry is popped, the task not cancelled.
CancelTrackedLeaks(a, then, c) ==
  /\ IsActive
  /\ tracked' = NoLoop
  /\ cronExpr' = Unset
  /\ req' = [req EXCEPT ![a] = Idle]
  /\ UNCHANGED <<loop, forgotten>>

\* _stop_job of a live tracked loop: forget it, cancel it, await its end.
\* "then" is where the code goes on: "idle", "create" or "start".
CancelTracked(a, then, c) ==
  /\ IsActive
  /\ tracked' = NoLoop
  /\ cronExpr' = Unset
  /\ loop' = [loop EXCEPT ![tracked] = "cancelling"]
  /\ req' = [req EXCEPT ![a] = [pc |-> "awaitStop", target |-> tracked,
                                then |-> then, cron |-> c]]
  /\ UNCHANGED forgotten

\* _stop_job when no loop is live.  Awaiting a loop that died re-raises its
\* exception; either way the request is over.
ForgetTracked(a) ==
  /\ ~IsActive
  /\ tracked' = NoLoop
  /\ cronExpr' = Unset
  /\ req' = [req EXCEPT ![a] = Idle]
  /\ UNCHANGED <<loop, forgotten>>

Finish(a) == req' = [req EXCEPT ![a] = Idle] /\ UNCHANGED memory

\* _start_job
StartJob(a, c) ==
  \/ IsActive /\ cronExpr = c /\ Finish(a)
  \/ IsActive /\ cronExpr # c /\ CancelTracked(a, "create", c)
  \/ ~IsActive /\ Create(a, c)

------------------------------------------------------------------------------
(* One request: PUT /{code}, POST /{code}/start, POST /{code}/stop.        *)

Submit(a, b) ==
  /\ up
  /\ req[a] = Idle
  /\ req' = [req EXCEPT ![a] = [pc |-> "update", body |-> b]]
  /\ raced' = (raced \/ \E o \in Admins : req[o] # Idle)
  /\ UNCHANGED <<up, row, memory>>

\* ScheduledJobRepo.update writes the given fields, or fails and the request
\* ends; no field given means nothing to write.
Update(a) ==
  /\ req[a].pc = "update"
  /\ LET b == req[a].body IN
     \/ /\ enabled' = IF b.enabled = Unset THEN enabled ELSE b.enabled
        /\ cron' = IF b.cron = Unset THEN cron ELSE b.cron
        /\ req' = [req EXCEPT ![a].pc = "reread"]
     \/ req' = [req EXCEPT ![a] = Idle] /\ UNCHANGED row
  /\ UNCHANGED <<up, raced, memory>>

\* Faulty variant of Reread: a new cron is written but the loop not reloaded.
RereadNoReload(a) ==
  /\ req[a].pc = "reread"
  /\ LET b == req[a].body IN
     \/ b.enabled = TRUE /\ StartJob(a, cron)
     \/ b.enabled = FALSE /\ (CancelTracked(a, "idle", cron) \/ ForgetTracked(a))
     \/ b.enabled = Unset /\ Finish(a)
  /\ UNCHANGED <<up, row, raced>>

\* The row is read back and the memory brought in line with the request; the
\* cron comes from the row as it is by then.
Reread(a) ==
  /\ req[a].pc = "reread"
  /\ LET b == req[a].body IN
     \/ b.enabled = TRUE /\ StartJob(a, cron)
     \/ b.enabled = FALSE /\ (CancelTracked(a, "idle", cron) \/ ForgetTracked(a))
     \/ /\ b.enabled = Unset
        /\ \/ b.cron # Unset /\ CancelTracked(a, "start", cron)
           \/ (b.cron = Unset \/ ~IsActive) /\ Finish(a)
  /\ UNCHANGED <<up, row, raced>>

\* The cancelled loop is over: return, create the new loop, or, in a reload,
\* enter _start_job.
StopAwaited(a) ==
  /\ req[a].pc = "awaitStop"
  /\ Done(req[a].target)
  /\ \/ req[a].then = "idle" /\ Finish(a)
     \/ req[a].then = "create" /\ Create(a, req[a].cron)
     \/ req[a].then = "start" /\ StartJob(a, req[a].cron)
  /\ UNCHANGED <<up, row, raced>>

Refresh(a) ==
  /\ req[a].pc = "refresh"
  /\ req' = [req EXCEPT ![a] = Idle]
  /\ UNCHANGED <<up, row, raced, memory>>

------------------------------------------------------------------------------
(* The loop task.                                                          *)

\* The wait for the next cron time runs out.
Fire(l) ==
  /\ loop[l] = "waiting"
  /\ loop' = [loop EXCEPT ![l] = "dispatching"]
  /\ UNCHANGED <<up, row, tracked, cronExpr, req, forgotten, raced>>

\* _dispatch_scheduled returns; a failing query in it is caught nowhere and
\* ends the loop.
Dispatched(l) ==
  /\ loop[l] = "dispatching"
  /\ \/ loop' = [loop EXCEPT ![l] = "waiting"]
     \/ loop' = [loop EXCEPT ![l] = "died"]
  /\ forgotten' = {m \in forgotten : loop'[m] # "died"}
  /\ UNCHANGED <<up, row, tracked, cronExpr, req, raced>>

\* The CancelledError reaches the loop, wherever it was suspended.
CancelDelivered(l) ==
  /\ loop[l] = "cancelling"
  /\ loop' = [loop EXCEPT ![l] = "none"]
  /\ forgotten' = forgotten \ {l}
  /\ UNCHANGED <<up, row, tracked, cronExpr, req, raced>>

------------------------------------------------------------------------------
(* The process.                                                            *)

\* Faulty variant of Startup: loops start on request only.
StartupLazy ==
  /\ ~up
  /\ up' = TRUE
  /\ UNCHANGED <<row, memory, req, raced>>

\* Lifespan startup: requests are served only once the enabled jobs have their
\* loop (next_run_at is refreshed on the way).
Startup ==
  /\ ~up
  /\ up' = TRUE
  /\ IF enabled
     THEN /\ tracked' = FreshLoop
          /\ cronExpr' = cron
          /\ loop' = [loop EXCEPT ![FreshLoop] = "waiting"]
     ELSE UNCHANGED <<tracked, cronExpr, loop>>
  /\ UNCHANGED <<row, req, forgotten, raced>>

\* Lifespan shutdown stops the loops one by one and the process exits, or the
\* process dies: the memory is gone, the row stays.
ProcessEnds ==
  /\ up
  /\ up' = FALSE
  /\ tracked' = NoLoop
  /\ cronExpr' = Unset
  /\ loop' = [l \in Loops |-> "none"]
  /\ req' = [a \in Admins |-> Idle]
  /\ forgotten' = {}
  /\ raced' = FALSE
  /\ UNCHANGED row

------------------------------------------------------------------------------
Request(a) == Update(a) \/ Reread(a) \/ StopAwaited(a) \/ Refresh(a)
LoopStep(l) == Fire(l) \/ Dispatched(l) \/ CancelDelivered(l)

Next ==
  \/ \E a \in Admins, b \in Bodies : Submit(a, b)
  \/ \E a \in Admins : Request(a)
  \/ \E l \in Loops : LoopStep(l)
  \/ Startup
  \/ ProcessEnds

Spec == Init /\ [][Next]_vars

\* Awaited calls return and cron times come; admins and restarts are free.
FairSpec == /\ Spec
            /\ \A a \in Admins : WF_vars(Request(a))
            /\ \A l \in Loops : WF_vars(LoopStep(l))

------------------------------------------------------------------------------
\* Every variable has its type.
TypeOK ==
  /\ up \in BOOLEAN /\ enabled \in BOOLEAN
  /\ cron \in Crons
  /\ tracked \in Loops \cup {NoLoop}
  /\ cronExpr \in Crons \cup {Unset}
  /\ loop \in [Loops -> {"none", "waiting", "dispatching", "cancelling", "died"}]
  /\ req \in [Admins ->
       {Idle}
       \cup [pc : {"update", "reread"}, body : Bodies]
       \cup [pc : {"awaitStop"}, target : Loops, cron : Crons,
             then : {"idle", "create", "start"}]
       \cup [pc : {"refresh"}]]
  /\ forgotten \subseteq Loops /\ raced \in BOOLEAN

Quiet == up /\ \A a \in Admins : req[a] = Idle

\* "Schedules the built-in jobs as the database configures them, with start
\* and stop" (ScheduledJobManager): as long as requests have not overlapped,
\* between them an enabled job has its loop, unless a failing dispatch killed
\* it, running the cron of the row, and a disabled job has none.
LoopMatchesRow ==
  Quiet /\ ~raced =>
    /\ enabled => \/ tracked # NoLoop /\ loop[tracked] = "died"
                  \/ IsActive /\ cronExpr = cron
    /\ ~enabled => \A l \in Loops : ~Running(l)

\* However requests overlap, a loop that dispatches the job is the tracked one,
\* which a stop reaches, except when a request that had awaited the end of an
\* old loop put its new loop over the one another request had just created;
\* requests one at a time never lose a loop.
RunningIsTracked ==
  \A l \in Loops : Running(l) => l = tracked \/ (l \in forgotten /\ raced)

\* Loops, requests and row agree about what runs.
LoopsAgree == LoopMatchesRow /\ RunningIsTracked

\* docs/interfaces.md: a stop without a tenant stops the job's global scheduling.
\* Once requests are over, no loop dispatches a job the row calls disabled.
DisabledHasNoLoop == Quiet /\ ~enabled => \A l \in Loops : ~Running(l)

\* A job that stays enabled, in a process that stays up and with no request
\* meddling, keeps being dispatched, unless requests had overlapped or a
\* failing dispatch has killed its loop.
EnabledKeepsFiring ==
  <>[](Quiet /\ enabled /\ ~raced) =>
    \/ []<>(\E l \in Loops : loop[l] = "dispatching")
    \/ <>[](tracked # NoLoop /\ loop[tracked] = "died")
==============================================================================
