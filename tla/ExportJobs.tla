----------------------------- MODULE ExportJobs -----------------------------
(***************************************************************************)
(* The download center's export jobs of one tenant: the enqueue request,   *)
(* the in-process queue and its workers, the object store the files go to, *)
(* expiry and the cleanup job, failing calls, crash and restart.           *)
(*                                                                         *)
(* Source: services/export_job_service.py, export_job_worker.py,           *)
(* export_job_cleanup.py and data/mysql/export_job_repo.py.                *)
(*                                                                         *)
(* One step per awaited call.  A call that raises may still have taken     *)
(* effect.  An UPDATE of a row that is gone changes nothing.               *)
(***************************************************************************)
EXTENDS Naturals, Sequences, FiniteSets

CONSTANTS
  Jobs,       \* row ids: a bound on how many jobs are ever inserted
  Users,
  Workers,    \* the _MAX_CONCURRENT worker tasks
  Reqs,       \* concurrent enqueue requests
  QueueSize,  \* _MAX_QUEUE_SIZE
  UserLimit,  \* USER_ACTIVE_LIMIT
  CanRaise,   \* whether awaited calls may raise
  CanCrash,   \* whether the process may die
  NoJob

ASSUME Limits == QueueSize \in Nat \ {0} /\ UserLimit \in Nat \ {0}
ASSUME Switches == CanRaise \in BOOLEAN /\ CanCrash \in BOOLEAN
ASSUME NoJobIsNoJob == NoJob \notin Jobs
ASSUME FiniteReqs == IsFiniteSet(Reqs)

VARIABLES
  status,    \* per id: "none" (no row yet), a status, or "gone" (row deleted)
  owner,     \* created_by
  keyed,     \* rows whose object_key is set
  unread,    \* rows with read_at IS NULL
  expired,   \* rows past expires_at
  store,     \* jobs whose object exists in the tenant's object store
  queue,     \* the asyncio queue of work items
  worker,    \* per worker: the call it awaits and for which job
  req,       \* per enqueue request: the call it awaits
  cleaner,   \* the cleanup run: rows it listed, keys still to delete
  raised,    \* history: jobs one of whose calls raised
  stranded,  \* history: jobs in somebody's hands when the process died
  cutShort   \* history: jobs whose row was listed before they had settled

vars == <<status, owner, keyed, unread, expired, store, queue, worker, req,
          cleaner, raised, stranded, cutShort>>

rows == <<status, owner, keyed, unread, expired>>
history == <<raised, stranded, cutShort>>

Idle == [pc |-> "idle", job |-> NoJob]
Resting == [pc |-> "idle", listed |-> {}, keys |-> {}]

HasRow(j) == status[j] \notin {"none", "gone"}
Active(j) == status[j] \in {"queued", "running"}
ActiveOf(u) == {j \in Jobs : Active(j) /\ owner[j] = u}

\* Who has the job in hand and will still write its status.
Queued(j) == \E i \in DOMAIN queue : queue[i] = j
InWorker(j) == \E w \in Workers : worker[w].job = j
InReq(j) == \E e \in Reqs : req[e].pc \in {"submit", "reject"} /\ req[e].job = j
Carried(j) == Queued(j) \/ InWorker(j) \/ InReq(j)

Init ==
  /\ status = [j \in Jobs |-> "none"]
  /\ owner \in [Jobs -> Users]
  /\ keyed = {} /\ unread = {} /\ expired = {} /\ store = {}
  /\ queue = <<>>
  /\ worker = [w \in Workers |-> Idle]
  /\ req = [e \in Reqs |-> Idle]
  /\ cleaner = Resting
  /\ raised = {} /\ stranded = {} /\ cutShort = {}

SetStatus(j, s) ==
  status' = IF HasRow(j) THEN [status EXCEPT ![j] = s] ELSE status

\* The awaited call for job j raises.
Raise(j) == CanRaise /\ raised' = raised \cup {j}

------------------------------------------------------------------------------
(* ExportJobService.enqueue                                                *)

Enqueue(e, u) ==
  /\ req[e] = Idle
  /\ req' = [req EXCEPT ![e] = [pc |-> "count", job |-> NoJob, user |-> u]]
  /\ UNCHANGED <<rows, store, queue, worker, cleaner, history>>

\* _ensure_user_capacity counts the user's active rows, or answers 429.
CheckCapacity(e) ==
  /\ req[e].pc = "count"
  /\ req' = IF Cardinality(ActiveOf(req[e].user)) >= UserLimit
            THEN [req EXCEPT ![e] = Idle]
            ELSE [req EXCEPT ![e].pc = "insert"]
  /\ UNCHANGED <<rows, store, queue, worker, cleaner, history>>

InsertJob(e) ==
  /\ req[e].pc = "insert"
  /\ \E j \in Jobs :
       /\ status[j] = "none"
       /\ owner[j] = req[e].user
       /\ status' = [status EXCEPT ![j] = "queued"]
       /\ unread' = unread \cup {j}
       /\ req' = [req EXCEPT ![e] = [pc |-> "submit", job |-> j]]
  /\ UNCHANGED <<owner, keyed, expired, store, queue, worker, cleaner, history>>

\* Faulty variant of Submit: a full queue is answered without failing the row.
SubmitNoReject(e) ==
  /\ req[e].pc = "submit"
  /\ queue' = IF Len(queue) < QueueSize THEN Append(queue, req[e].job) ELSE queue
  /\ req' = [req EXCEPT ![e] = Idle]
  /\ UNCHANGED <<rows, store, worker, cleaner, history>>

\* Faulty variant of Submit: the queue has no limit.
SubmitUnbounded(e) ==
  /\ req[e].pc = "submit"
  /\ queue' = Append(queue, req[e].job)
  /\ req' = [req EXCEPT ![e] = Idle]
  /\ UNCHANGED <<rows, store, worker, cleaner, history>>

\* The INSERT raises although its row is written; the request ends.  (Raising
\* without a row, like a failing count, leaves nothing behind.)
InsertRaises(e) ==
  /\ req[e].pc = "insert"
  /\ \E j \in Jobs :
       /\ status[j] = "none"
       /\ owner[j] = req[e].user
       /\ Raise(j)
       /\ status' = [status EXCEPT ![j] = "queued"]
       /\ unread' = unread \cup {j}
  /\ req' = [req EXCEPT ![e] = Idle]
  /\ UNCHANGED <<owner, keyed, expired, store, queue, worker, cleaner, stranded,
                 cutShort>>

\* submit: put_nowait; a full queue turns into a 503 after failing the row.
\* (The notification that follows a success writes nothing.)
Submit(e) ==
  /\ req[e].pc = "submit"
  /\ IF Len(queue) < QueueSize
     THEN /\ queue' = Append(queue, req[e].job)
          /\ req' = [req EXCEPT ![e] = Idle]
     ELSE /\ req' = [req EXCEPT ![e].pc = "reject"]
          /\ UNCHANGED queue
  /\ UNCHANGED <<rows, store, worker, cleaner, history>>

Reject(e) ==
  /\ req[e].pc = "reject"
  /\ req' = [req EXCEPT ![e] = Idle]
  /\ \/ SetStatus(req[e].job, "failed") /\ UNCHANGED raised
     \/ Raise(req[e].job) /\ UNCHANGED status
  /\ UNCHANGED <<owner, keyed, unread, expired, store, queue, worker, cleaner,
                 stranded, cutShort>>

------------------------------------------------------------------------------
(* A worker: _loop, _run_work_item, _execute_export.                       *)

At(w, pc) == worker[w].pc = pc
GoOn(w, pc) == worker' = [worker EXCEPT ![w].pc = pc]
Rest(w) == worker' = [worker EXCEPT ![w] = Idle]

\* Faulty variant of TakeItem: the item leaves the queue only when it is done.
TakeItemPeek(w) ==
  /\ At(w, "idle")
  /\ queue # <<>>
  /\ worker' = [worker EXCEPT ![w] = [pc |-> "start", job |-> Head(queue)]]
  /\ UNCHANGED <<rows, store, queue, req, cleaner, history>>

TakeItem(w) ==
  /\ At(w, "idle")
  /\ queue # <<>>
  /\ worker' = [worker EXCEPT ![w] = [pc |-> "start", job |-> Head(queue)]]
  /\ queue' = Tail(queue)
  /\ UNCHANGED <<rows, store, req, cleaner, history>>

\* UPDATE to running.
Start(w) ==
  /\ At(w, "start")
  /\ SetStatus(worker[w].job, "running")
  /\ GoOn(w, "build")
  /\ UNCHANGED <<owner, keyed, unread, expired, store, queue, req, cleaner,
                 history>>

\* Notify, run the builder (each progress report writes running again) and
\* load the store's parameters.
Build(w) ==
  /\ At(w, "build")
  /\ SetStatus(worker[w].job, "running")
  /\ GoOn(w, "upload")
  /\ UNCHANGED <<owner, keyed, unread, expired, store, queue, req, cleaner,
                 history>>

Upload(w) ==
  /\ At(w, "upload")
  /\ store' = store \cup {worker[w].job}
  /\ GoOn(w, "mark")
  /\ UNCHANGED <<rows, queue, req, cleaner, history>>

\* _mark_done's UPDATE: done, object_key, read_at back to NULL.
MarkDone(w) ==
  /\ At(w, "mark")
  /\ SetStatus(worker[w].job, "done")
  /\ LET row == {j \in {worker[w].job} : HasRow(j)} IN
     /\ keyed' = keyed \cup row
     /\ unread' = unread \cup row
  /\ GoOn(w, "notify")
  /\ UNCHANGED <<owner, expired, store, queue, req, cleaner, history>>

Notified(w) ==
  /\ At(w, "notify")
  /\ Rest(w)
  /\ UNCHANGED <<rows, store, queue, req, cleaner, history>>

\* Faulty variant of MarkFailed: the item goes back to the queue as well.
MarkFailedRequeue(w) ==
  /\ At(w, "fail")
  /\ SetStatus(worker[w].job, "failed")
  /\ queue' = IF Len(queue) < QueueSize THEN Append(queue, worker[w].job) ELSE queue
  /\ Rest(w)
  /\ UNCHANGED <<owner, keyed, unread, expired, store, req, cleaner, history>>

\* _mark_failed's UPDATE (its notification writes nothing).
MarkFailed(w) ==
  /\ At(w, "fail")
  /\ SetStatus(worker[w].job, "failed")
  /\ Rest(w)
  /\ UNCHANGED <<owner, keyed, unread, expired, store, queue, req, cleaner,
                 history>>

\* The awaited call raises.  Everything up to the last notification is inside
\* one try, so it leads to _mark_failed; a raise there is only logged.  The
\* upload, and any UPDATE, may have taken effect all the same.
CallRaises(w) ==
  /\ worker[w].pc \in {"start", "build", "upload", "mark", "notify", "fail"}
  /\ Raise(worker[w].job)
  /\ IF At(w, "fail") THEN Rest(w) ELSE GoOn(w, "fail")
  /\ store' \in {store, IF At(w, "upload") THEN store \cup {worker[w].job}
                                           ELSE store}
  /\ UNCHANGED <<rows, queue, req, cleaner, stranded, cutShort>>

WorkerStep(w) ==
  \/ TakeItem(w) \/ Start(w) \/ Build(w) \/ Upload(w) \/ MarkDone(w)
  \/ Notified(w) \/ MarkFailed(w) \/ CallRaises(w)

------------------------------------------------------------------------------
(* Reading: mark_done_read and mark_job_read.                              *)

MarkAllRead(u) ==
  /\ unread' = {j \in unread : ~(/\ status[j] = "done" /\ owner[j] = u
                                 /\ j \notin expired)}
  /\ UNCHANGED <<status, owner, keyed, expired, store, queue, worker, req,
                 cleaner, history>>

\* No status is asked for: the job may still be running.
MarkJobRead(j) ==
  /\ HasRow(j)
  /\ unread' = unread \ {j}
  /\ UNCHANGED <<status, owner, keyed, expired, store, queue, worker, req,
                 cleaner, history>>

------------------------------------------------------------------------------
(* Expiry and cleanup_expired_export_jobs.                                 *)

\* 24 hours after the insert.
Expire(j) ==
  /\ HasRow(j) /\ j \notin expired
  /\ expired' = expired \cup {j}
  /\ UNCHANGED <<status, owner, keyed, unread, store, queue, worker, req,
                 cleaner, history>>

\* Faulty variant of ListExpired: every settled row is taken for expired.
ListSettled ==
  /\ cleaner.pc = "idle"
  /\ LET ids == {j \in Jobs : status[j] \in {"done", "failed"}} IN
     /\ ids # {}
     /\ cleaner' = [pc |-> "purge", listed |-> ids, keys |-> ids \cap keyed]
  /\ UNCHANGED <<rows, store, queue, worker, req, history>>

\* Faulty variant of ListExpired: the object keys are not read.
ListWithoutKeys ==
  /\ cleaner.pc = "idle"
  /\ LET ids == {j \in expired : HasRow(j)} IN
     /\ ids # {}
     /\ cleaner' = [pc |-> "purge", listed |-> ids, keys |-> {}]
     /\ cutShort' = cutShort \cup {j \in ids : Carried(j)}
  /\ UNCHANGED <<rows, store, queue, worker, req, raised, stranded>>

\* Expired rows of any status, with the object key each has at that moment.
ListExpired ==
  /\ cleaner.pc = "idle"
  /\ LET ids == {j \in expired : HasRow(j)} IN
     /\ ids # {}
     /\ cleaner' = [pc |-> "purge", listed |-> ids, keys |-> ids \cap keyed]
     /\ cutShort' = cutShort \cup {j \in ids : Carried(j)}
  /\ UNCHANGED <<rows, store, queue, worker, req, raised, stranded>>

\* One object is deleted, or fails to be, which is counted and passed over.
PurgeObject ==
  /\ cleaner.pc = "purge"
  /\ \E j \in cleaner.keys :
       /\ cleaner' = [cleaner EXCEPT !.keys = @ \ {j}]
       /\ \/ store' = store \ {j} /\ UNCHANGED raised
          \/ Raise(j) /\ UNCHANGED store
  /\ UNCHANGED <<rows, queue, worker, req, stranded, cutShort>>

\* The listed rows go, whatever became of their objects or happened since.
DeleteRows ==
  /\ cleaner.pc = "purge" /\ cleaner.keys = {}
  /\ cleaner' = Resting
  /\ status' = [j \in Jobs |-> IF j \in cleaner.listed THEN "gone" ELSE status[j]]
  /\ keyed' = keyed \ cleaner.listed
  /\ unread' = unread \ cleaner.listed
  /\ UNCHANGED <<owner, expired, store, queue, worker, req, history>>

\* Loading the store's parameters, or the DELETE, raises: the run is over.
CleanupRaises ==
  /\ CanRaise
  /\ cleaner.pc = "purge"
  /\ cleaner' = Resting
  /\ UNCHANGED <<rows, store, queue, worker, req, history>>

------------------------------------------------------------------------------
\* The process dies and comes back: the queue is memory, nothing reads the
\* table at startup.
Crash ==
  /\ CanCrash
  /\ stranded' = stranded \cup {j \in Jobs : Carried(j)}
  /\ queue' = <<>>
  /\ worker' = [w \in Workers |-> Idle]
  /\ req' = [e \in Reqs |-> Idle]
  /\ cleaner' = Resting
  /\ UNCHANGED <<rows, store, raised, cutShort>>

ReqStep(e) ==
  \/ CheckCapacity(e) \/ InsertJob(e) \/ InsertRaises(e) \/ Submit(e) \/ Reject(e)
CleanStep == ListExpired \/ PurgeObject \/ DeleteRows \/ CleanupRaises

Next ==
  \/ \E e \in Reqs, u \in Users : Enqueue(e, u)
  \/ \E e \in Reqs : ReqStep(e)
  \/ \E w \in Workers : WorkerStep(w)
  \/ \E u \in Users : MarkAllRead(u)
  \/ \E j \in Jobs : MarkJobRead(j) \/ Expire(j)
  \/ CleanStep
  \/ Crash

Spec == Init /\ [][Next]_vars

\* Awaited calls return or raise, idle workers take items; users, time and
\* cron are free.
FairSpec == /\ Spec
            /\ \A e \in Reqs : WF_vars(ReqStep(e))
            /\ \A w \in Workers : WF_vars(WorkerStep(w))

------------------------------------------------------------------------------
BusyPcs == {"start", "build", "upload", "mark", "notify", "fail"}

\* Every variable has its type; the queue respects its capacity.
TypeOK ==
  /\ status \in [Jobs -> {"none", "queued", "running", "done", "failed", "gone"}]
  /\ owner \in [Jobs -> Users]
  /\ keyed \subseteq Jobs /\ unread \subseteq Jobs /\ expired \subseteq Jobs
  /\ store \subseteq Jobs
  /\ queue \in Seq(Jobs) /\ Len(queue) <= QueueSize
  /\ worker \in [Workers -> {Idle} \cup [pc : BusyPcs, job : Jobs]]
  /\ req \in [Reqs -> {Idle}
                \cup [pc : {"count", "insert"}, job : {NoJob}, user : Users]
                \cup [pc : {"submit", "reject"}, job : Jobs]]
  /\ cleaner \in [pc : {"idle", "purge"}, listed : SUBSET Jobs,
                  keys : SUBSET Jobs]
  /\ raised \subseteq Jobs /\ stranded \subseteq Jobs /\ cutShort \subseteq Jobs

\* No job is silently forgotten: an active row is in the queue, with a worker
\* or with its request, unless the process died with it or a call about it
\* raised.
ActiveRowIsCarried ==
  \A j \in Jobs : Active(j) => Carried(j) \/ j \in stranded \cup raised

\* A job is in at most one pair of hands, so no two workers write one row.
CarriedOnce ==
  \A j \in Jobs :
    /\ Cardinality({i \in DOMAIN queue : queue[i] = j})
       + Cardinality({w \in Workers : worker[w].job = j})
       + Cardinality({e \in Reqs : req[e].job = j}) <= 1

\* An active job is in exactly one pair of hands, but for failures of the kinds named.
JobsAreCarried == ActiveRowIsCarried /\ CarriedOnce

\* What the download center offers exists: a finished, unexpired job has its
\* object, whatever the cleanup is in the middle of.
DownloadableExists ==
  \A j \in Jobs : status[j] = "done" /\ j \notin expired => j \in store

\* An object outlives its row, for nobody to find or delete, only if a call
\* about the job raised, the process died with it, or the cleanup listed the
\* row while the job was still in somebody's hands.
OrphanExplained ==
  \A j \in store : status[j] = "gone" => j \in raised \cup stranded \cup cutShort

\* docs/export-jobs.md: queued -> running -> done / failed.  Only this order is
\* ever walked, a row may be deleted at any time, and nothing follows the end.
LifecycleOrder ==
  [][\A j \in Jobs : status'[j] # status[j] =>
       <<status[j], status'[j]>> \in
         {<<"none", "queued">>, <<"queued", "running">>, <<"queued", "failed">>,
          <<"running", "done">>, <<"running", "failed">>}
         \cup ({"queued", "running", "done", "failed"} \X {"gone"})]_vars

\* The order that does hold: as above, but a job that is done still turns into
\* failed when announcing it raises.
MovesAsBuilt(j) ==
  status'[j] # status[j] =>
    <<status[j], status'[j]>> \in
      {<<"none", "queued">>, <<"queued", "running">>, <<"queued", "failed">>,
       <<"running", "done">>, <<"running", "failed">>, <<"done", "failed">>}
      \cup ({"queued", "running", "done", "failed"} \X {"gone"})
LifecycleAsBuilt == [][\A j \in Jobs : MovesAsBuilt(j)]_vars

\* Every job that was queued ends as done or failed, or its row is deleted,
\* unless a call about it raised or the process died with it in hand.
JobsSettle ==
  \A j \in Jobs :
    (status[j] = "queued") ~>
      (status[j] \in {"done", "failed", "gone"} \/ j \in raised \cup stranded)
==============================================================================
