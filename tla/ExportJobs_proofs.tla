-------------------------- MODULE ExportJobs_proofs --------------------------
(***************************************************************************)
(* Proofs about ExportJobs, for any number of jobs, users, workers and     *)
(* requests and any limits: type correctness; what the download center     *)
(* offers exists; every active row is carried, once; an object without a   *)
(* row is explained; rows move only as the code moves them.                *)
(***************************************************************************)
EXTENDS ExportJobs, SequenceTheorems, FiniteSetTheorems, TLAPS

Statuses == {"none", "queued", "running", "done", "failed", "gone"}
ReqStates == {Idle} \cup [pc : {"count", "insert"}, job : {NoJob}, user : Users]
             \cup [pc : {"submit", "reject"}, job : Jobs]
WorkerStates == {Idle} \cup [pc : BusyPcs, job : Jobs]
CleanerStates == [pc : {"idle", "purge"}, listed : SUBSET Jobs, keys : SUBSET Jobs]

\* A worker that is at a call has a job.
LEMMA BusyHasJob ==
  ASSUME TypeOK, NEW w \in Workers, ~At(w, "idle")
  PROVE  worker[w] \in [pc : BusyPcs, job : Jobs] /\ worker[w].job \in Jobs
  BY DEF TypeOK, At, Idle

\* Moving a busy worker on, or to rest, keeps the type of the workers.
LEMMA WorkerType ==
  ASSUME TypeOK, NEW w \in Workers, ~At(w, "idle"), NEW pc \in BusyPcs,
         GoOn(w, pc) \/ Rest(w)
  PROVE  worker' \in [Workers -> WorkerStates]
<1>1. worker[w] \in [pc : BusyPcs, job : Jobs]
  BY BusyHasJob
<1>2. [worker[w] EXCEPT !.pc = pc] \in WorkerStates
  BY <1>1 DEF WorkerStates
<1>3. Idle \in WorkerStates
  BY DEF WorkerStates
<1>4. worker \in [Workers -> WorkerStates]
  BY DEF TypeOK, WorkerStates
<1>5. QED
  BY <1>2, <1>3, <1>4 DEF GoOn, Rest

\* An UPDATE keeps the type of the status column.
LEMMA StatusType ==
  ASSUME TypeOK, NEW j \in Jobs, NEW s \in Statuses, SetStatus(j, s)
  PROVE  status' \in [Jobs -> Statuses]
  BY DEF TypeOK, SetStatus, Statuses

\* The initial states are typed.
LEMMA TypeInit == Init => TypeOK
<1> SUFFICES ASSUME Init PROVE TypeOK
  OBVIOUS
<1>1. <<>> \in Seq(Jobs) /\ Len(<<>>) <= QueueSize
  BY Limits
<1>2. Resting \in CleanerStates
  BY DEF Resting, CleanerStates
<1>3. QED
  BY <1>1, <1>2 DEF Init, TypeOK, CleanerStates

LEMMA ReqTyped ==
  ASSUME TypeOK, NEW e \in Reqs, ReqStep(e)
  PROVE  TypeOK'
<1> USE DEF TypeOK, history, rows
<1>1. CASE CheckCapacity(e)
  <2>1. req[e] \in [pc : {"count", "insert"}, job : {NoJob}, user : Users]
    BY <1>1 DEF CheckCapacity, Idle
  <2>2. [req[e] EXCEPT !.pc = "insert"] \in [pc : {"count", "insert"}, job : {NoJob}, user : Users]
    BY <2>1
  <2>3. req' \in [Reqs -> ReqStates]
    BY <1>1, <2>2 DEF CheckCapacity, ReqStates
  <2>4. QED
    BY <1>1, <2>3 DEF CheckCapacity, ReqStates
<1>2. CASE InsertJob(e)
  <2>1. PICK j \in Jobs : /\ status' = [status EXCEPT ![j] = "queued"]
                          /\ unread' = unread \cup {j}
                          /\ req' = [req EXCEPT ![e] = [pc |-> "submit", job |-> j]]
    BY <1>2 DEF InsertJob
  <2>2. req' \in [Reqs -> ReqStates]
    BY <2>1 DEF ReqStates
  <2>3. QED
    BY <1>2, <2>1, <2>2 DEF InsertJob, ReqStates
<1>3. CASE InsertRaises(e)
  <2>1. PICK j \in Jobs : /\ Raise(j)
                          /\ status' = [status EXCEPT ![j] = "queued"]
                          /\ unread' = unread \cup {j}
    BY <1>3 DEF InsertRaises
  <2>2. raised' \subseteq Jobs
    BY <2>1 DEF Raise
  <2>3. QED
    BY <1>3, <2>1, <2>2 DEF InsertRaises
<1>4. CASE Submit(e)
  <2>1. req[e] \in [pc : {"submit", "reject"}, job : Jobs]
    BY <1>4 DEF Submit, Idle
  <2>2. [req[e] EXCEPT !.pc = "reject"] \in ReqStates /\ Idle \in ReqStates
    BY <2>1 DEF ReqStates
  <2>3. req' \in [Reqs -> ReqStates]
    BY <1>4, <2>2 DEF Submit, ReqStates
  <2>4. queue' \in Seq(Jobs) /\ Len(queue') <= QueueSize
    <3>1. CASE Len(queue) < QueueSize
      <4>1. queue' = Append(queue, req[e].job) /\ req[e].job \in Jobs
        BY <1>4, <2>1, <3>1 DEF Submit
      <4>2. queue' \in Seq(Jobs) /\ Len(queue') = Len(queue) + 1
        BY <4>1
      <4>3. Len(queue) \in Nat /\ QueueSize \in Nat
        BY Limits
      <4>4. QED
        BY <3>1, <4>2, <4>3
    <3>2. CASE ~(Len(queue) < QueueSize)
      BY <1>4, <3>2 DEF Submit
    <3>3. QED
      BY <3>1, <3>2
  <2>5. QED
    BY <1>4, <2>3, <2>4 DEF Submit, ReqStates
<1>5. CASE Reject(e)
  <2>1. req[e].job \in Jobs
    BY <1>5 DEF Reject, Idle
  <2>2. status' \in [Jobs -> Statuses]
    BY <1>5, <2>1, StatusType DEF Reject, Statuses
  <2>3. raised' \subseteq Jobs
    BY <1>5, <2>1 DEF Reject, Raise
  <2>4. req' \in [Reqs -> ReqStates]
    BY <1>5 DEF Reject, ReqStates
  <2>5. QED
    BY <1>5, <2>2, <2>3, <2>4 DEF Reject, Statuses, ReqStates
<1>6. QED
  BY <1>1, <1>2, <1>3, <1>4, <1>5 DEF ReqStep

LEMMA WorkerTyped ==
  ASSUME TypeOK, NEW w \in Workers, WorkerStep(w)
  PROVE  TypeOK'
<1> USE DEF TypeOK, history, rows
<1>1. CASE TakeItem(w)
  <2>1. Head(queue) \in Jobs /\ Tail(queue) \in Seq(Jobs)
        /\ Len(Tail(queue)) <= QueueSize
    BY <1>1, Limits DEF TakeItem
  <2>2. worker' \in [Workers -> WorkerStates]
    BY <1>1, <2>1 DEF TakeItem, WorkerStates, BusyPcs
  <2>3. QED
    BY <1>1, <2>1, <2>2 DEF TakeItem, WorkerStates
<1>2. ASSUME ~At(w, "idle"), NEW pc \in BusyPcs, GoOn(w, pc) \/ Rest(w)
      PROVE  /\ worker' \in [Workers -> {Idle} \cup [pc : BusyPcs, job : Jobs]]
             /\ worker[w].job \in Jobs
  BY <1>2, WorkerType, BusyHasJob DEF WorkerStates
<1>3. CASE Start(w)
  <2>1. ~At(w, "idle") /\ GoOn(w, "build") /\ "build" \in BusyPcs
    BY <1>3 DEF Start, At, BusyPcs
  <2>2. status' \in [Jobs -> Statuses]
    BY <1>3, <2>1, <1>2, StatusType DEF Start, Statuses
  <2>3. QED
    BY <1>3, <2>1, <1>2, <2>2 DEF Start, Statuses
<1>4. CASE Build(w)
  <2>1. ~At(w, "idle") /\ GoOn(w, "upload") /\ "upload" \in BusyPcs
    BY <1>4 DEF Build, At, BusyPcs
  <2>2. status' \in [Jobs -> Statuses]
    BY <1>4, <2>1, <1>2, StatusType DEF Build, Statuses
  <2>3. QED
    BY <1>4, <2>1, <1>2, <2>2 DEF Build, Statuses
<1>5. CASE Upload(w)
  <2>1. ~At(w, "idle") /\ GoOn(w, "mark") /\ "mark" \in BusyPcs
    BY <1>5 DEF Upload, At, BusyPcs
  <2>2. QED
    BY <1>5, <2>1, <1>2 DEF Upload
<1>6. CASE MarkDone(w)
  <2>1. ~At(w, "idle") /\ GoOn(w, "notify") /\ "notify" \in BusyPcs
    BY <1>6 DEF MarkDone, At, BusyPcs
  <2>2. status' \in [Jobs -> Statuses]
    BY <1>6, <2>1, <1>2, StatusType DEF MarkDone, Statuses
  <2>3. keyed' \subseteq Jobs /\ unread' \subseteq Jobs
    BY <1>6, <2>1, <1>2 DEF MarkDone
  <2>4. QED
    BY <1>6, <2>1, <1>2, <2>2, <2>3 DEF MarkDone, Statuses
<1>7. CASE Notified(w)
  <2>1. ~At(w, "idle") /\ Rest(w) /\ "mark" \in BusyPcs
    BY <1>7 DEF Notified, At, BusyPcs
  <2>2. QED
    BY <1>7, <2>1, <1>2 DEF Notified
<1>8. CASE MarkFailed(w)
  <2>1. ~At(w, "idle") /\ Rest(w) /\ "mark" \in BusyPcs
    BY <1>8 DEF MarkFailed, At, BusyPcs
  <2>2. status' \in [Jobs -> Statuses]
    BY <1>8, <2>1, <1>2, StatusType DEF MarkFailed, Statuses
  <2>3. QED
    BY <1>8, <2>1, <1>2, <2>2 DEF MarkFailed, Statuses
<1>9. CASE CallRaises(w)
  <2>1. ~At(w, "idle") /\ (GoOn(w, "fail") \/ Rest(w)) /\ "fail" \in BusyPcs
    BY <1>9 DEF CallRaises, At, BusyPcs
  <2>2. worker[w].job \in Jobs
        /\ worker' \in [Workers -> {Idle} \cup [pc : BusyPcs, job : Jobs]]
    BY <2>1, <1>2
  <2>3. raised' \subseteq Jobs /\ store' \subseteq Jobs
    BY <1>9, <2>2 DEF CallRaises, Raise
  <2>4. QED
    BY <1>9, <2>2, <2>3 DEF CallRaises
<1>10. QED
  BY <1>1, <1>3, <1>4, <1>5, <1>6, <1>7, <1>8, <1>9 DEF WorkerStep

LEMMA CleanTyped ==
  ASSUME TypeOK, CleanStep
  PROVE  TypeOK'
<1> USE DEF TypeOK, history, rows
<1>1. CASE ListExpired
  BY <1>1 DEF ListExpired
<1>2. CASE PurgeObject
  <2>1. PICK j \in cleaner.keys :
          /\ cleaner' = [cleaner EXCEPT !.keys = @ \ {j}]
          /\ \/ store' = store \ {j} /\ UNCHANGED raised
             \/ Raise(j) /\ UNCHANGED store
    BY <1>2 DEF PurgeObject
  <2>2. cleaner' \in CleanerStates
    BY <2>1 DEF CleanerStates
  <2>3. raised' \subseteq Jobs /\ store' \subseteq Jobs
    BY <2>1 DEF Raise
  <2>4. QED
    BY <1>2, <2>2, <2>3 DEF PurgeObject, CleanerStates
<1>3. CASE DeleteRows
  <2>1. Resting \in CleanerStates
    BY DEF Resting, CleanerStates
  <2>2. status' \in [Jobs -> Statuses]
    BY <1>3 DEF DeleteRows, Statuses
  <2>3. QED
    BY <1>3, <2>1, <2>2 DEF DeleteRows, CleanerStates, Statuses
<1>4. CASE CleanupRaises
  <2>1. Resting \in CleanerStates
    BY DEF Resting, CleanerStates
  <2>2. QED
    BY <1>4, <2>1 DEF CleanupRaises, CleanerStates
<1>5. QED
  BY <1>1, <1>2, <1>3, <1>4 DEF CleanStep

\* Every step keeps the types.
LEMMA TypeStep == TypeOK /\ [Next]_vars => TypeOK'
<1> SUFFICES ASSUME TypeOK, [Next]_vars PROVE TypeOK'
  OBVIOUS
<1> USE DEF TypeOK, history, rows
<1>1. ASSUME NEW e \in Reqs, NEW u \in Users, Enqueue(e, u) PROVE TypeOK'
  <2>1. req' \in [Reqs -> ReqStates]
    BY <1>1 DEF Enqueue, ReqStates
  <2>2. QED
    BY <1>1, <2>1 DEF Enqueue, ReqStates
<1>2. ASSUME NEW u \in Users, MarkAllRead(u) PROVE TypeOK'
  BY <1>2 DEF MarkAllRead
<1>3. ASSUME NEW j \in Jobs, MarkJobRead(j) PROVE TypeOK'
  BY <1>3 DEF MarkJobRead
<1>4. ASSUME NEW j \in Jobs, Expire(j) PROVE TypeOK'
  BY <1>4 DEF Expire
<1>5. CASE Crash
  <2>1. Resting \in CleanerStates /\ <<>> \in Seq(Jobs) /\ Len(<<>>) <= QueueSize
    BY Limits DEF Resting, CleanerStates
  <2>2. QED
    BY <1>5, <2>1 DEF Crash, CleanerStates
<1>6. CASE UNCHANGED vars
  BY <1>6 DEF vars
<1>7. QED
  BY <1>1, <1>2, <1>3, <1>4, <1>5, <1>6, ReqTyped, WorkerTyped, CleanTyped DEF Next

\* Type correctness of the export jobs; the queue never exceeds its capacity.
THEOREM TypeCorrect == Spec => []TypeOK
<1>1. QED
  BY TypeInit, TypeStep, PTL DEF Spec

------------------------------------------------------------------------------
(* DownloadableExists speaks of the row and the object only.  What makes it   *)
(* inductive is what the worker and the cleaner know in between: a worker that *)
(* is about to write "done" has stored the object, and the cleaner deletes     *)
(* objects of expired rows only.                                               *)
MarkingHasObject ==
  \A w \in Workers : At(w, "mark") => worker[w].job \in store \cup expired
CleansExpired == cleaner.keys \subseteq expired

IInv == DownloadableExists /\ MarkingHasObject /\ CleansExpired

LEMMA IInvInit == Init => IInv
  BY DEF Init, IInv, DownloadableExists, MarkingHasObject, CleansExpired, At,
         Idle, Resting

\* A step that takes no object away, unexpires nothing, moves no worker to the
\* last UPDATE and marks nothing done keeps the invariant.
LEMMA QuietStep ==
  ASSUME IInv,
         store \subseteq store', expired \subseteq expired',
         cleaner'.keys \subseteq cleaner.keys,
         \A w \in Workers : worker'[w].pc = "mark" =>
           At(w, "mark") /\ worker'[w].job = worker[w].job,
         \A j \in Jobs : status'[j] = "done" => status[j] = "done"
  PROVE  IInv'
  BY DEF IInv, DownloadableExists, MarkingHasObject, CleansExpired, At

\* A worker that goes anywhere else is not about to mark anything.
LEMMA NotToMark ==
  ASSUME TypeOK, NEW w \in Workers, NEW pc \in BusyPcs, pc # "mark",
         ~At(w, "idle"), GoOn(w, pc) \/ Rest(w)
  PROVE  \A v \in Workers : worker'[v].pc = "mark" =>
           At(v, "mark") /\ worker'[v].job = worker[v].job
<1>1. \A v \in Workers : v # w => worker'[v] = worker[v]
  BY DEF GoOn, Rest, TypeOK
<1>2. worker[w] \in [pc : BusyPcs, job : Jobs]
  BY BusyHasJob
<1>3. worker'[w].pc # "mark"
  <2>1. CASE GoOn(w, pc)
    BY <1>2, <2>1 DEF GoOn, TypeOK
  <2>2. CASE Rest(w)
    BY <2>2 DEF Rest, Idle, TypeOK
  <2>3. QED
    BY <2>1, <2>2
<1>4. QED
  BY <1>1, <1>3 DEF At

\* A worker's step keeps it: the object is stored before the row says so.
LEMMA WorkerIInv ==
  ASSUME TypeOK, IInv, NEW w \in Workers, WorkerStep(w)
  PROVE  IInv'
<1> DEFINE j == worker[w].job
<1>1. ASSUME NEW pc \in BusyPcs, ~At(w, "idle"), GoOn(w, pc) \/ Rest(w)
      PROVE  /\ \A v \in Workers : v # w => worker'[v] = worker[v]
             /\ worker'[w] = [pc |-> pc, job |-> j] \/ worker'[w] = Idle
  <2>1. worker[w] \in [pc : BusyPcs, job : Jobs]
    BY <1>1, BusyHasJob
  <2>2. [worker[w] EXCEPT !.pc = pc] = [pc |-> pc, job |-> j]
    BY <2>1
  <2>3. QED
    BY <1>1, <2>2 DEF GoOn, Rest, TypeOK
<1>2. CASE TakeItem(w)
  <2>1. \A v \in Workers : worker'[v].pc = "mark" =>
          At(v, "mark") /\ worker'[v].job = worker[v].job
    BY <1>2 DEF TakeItem, At, TypeOK
  <2>2. QED
    BY <1>2, <2>1, QuietStep DEF TakeItem, rows
<1>3. CASE Start(w) \/ Build(w) \/ MarkFailed(w)
  <2>1. PICK pc \in BusyPcs \ {"mark"} : GoOn(w, pc) \/ Rest(w)
    BY <1>3 DEF Start, Build, MarkFailed, BusyPcs
  <2>2. ~At(w, "idle")
    BY <1>3 DEF Start, Build, MarkFailed, At
  <2>3. \A v \in Workers : worker'[v].pc = "mark" =>
          At(v, "mark") /\ worker'[v].job = worker[v].job
    BY <2>1, <2>2, NotToMark
  <2>4. \A i \in Jobs : status'[i] = "done" => status[i] = "done"
    BY <1>3 DEF Start, Build, MarkFailed, SetStatus, TypeOK
  <2>5. QED
    BY <1>3, <2>3, <2>4, QuietStep DEF Start, Build, MarkFailed
<1>4. CASE Upload(w)
  <2>1. ~At(w, "idle") /\ GoOn(w, "mark") /\ "mark" \in BusyPcs
    BY <1>4 DEF Upload, At, BusyPcs
  <2>2. worker'[w] = [pc |-> "mark", job |-> j] \/ worker'[w] = Idle
    BY <1>1, <2>1
  <2>3. \A v \in Workers : v # w => worker'[v] = worker[v]
    BY <1>1, <2>1
  <2>4. j \in store' /\ store \subseteq store'
    BY <1>4 DEF Upload
  <2>5. MarkingHasObject'
    BY <1>4, <2>2, <2>3, <2>4 DEF IInv, MarkingHasObject, At, Upload, rows, Idle
  <2>6. QED
    BY <1>4, <2>4, <2>5 DEF IInv, DownloadableExists, CleansExpired, Upload, rows
<1>5. CASE MarkDone(w)
  <2>1. ~At(w, "idle") /\ GoOn(w, "notify") /\ "notify" \in BusyPcs
    BY <1>5 DEF MarkDone, At, BusyPcs
  <2>2. j \in store \cup expired
    BY <1>5 DEF MarkDone, IInv, MarkingHasObject
  <2>3. \A i \in Jobs : status'[i] = "done" => status[i] = "done" \/ i = j
    BY <1>5 DEF MarkDone, SetStatus, TypeOK
  <2>4. \A v \in Workers : worker'[v].pc = "mark" =>
          At(v, "mark") /\ worker'[v].job = worker[v].job
    BY <2>1, NotToMark
  <2>5. UNCHANGED <<store, expired, cleaner>>
    BY <1>5 DEF MarkDone
  <2>6. QED
    BY <2>2, <2>3, <2>4, <2>5
       DEF IInv, DownloadableExists, MarkingHasObject, CleansExpired, At
<1>6. CASE Notified(w)
  <2>1. ~At(w, "idle") /\ Rest(w) /\ "fail" \in BusyPcs
    BY <1>6 DEF Notified, At, BusyPcs
  <2>2. \A v \in Workers : worker'[v].pc = "mark" =>
          At(v, "mark") /\ worker'[v].job = worker[v].job
    BY <2>1, NotToMark
  <2>3. QED
    BY <1>6, <2>2, QuietStep DEF Notified, rows
<1>7. CASE CallRaises(w)
  <2>1. ~At(w, "idle") /\ (GoOn(w, "fail") \/ Rest(w)) /\ "fail" \in BusyPcs
    BY <1>7 DEF CallRaises, At, BusyPcs
  <2>2. \A v \in Workers : worker'[v].pc = "mark" =>
          At(v, "mark") /\ worker'[v].job = worker[v].job
    BY <2>1, NotToMark
  <2>3. store \subseteq store'
    BY <1>7 DEF CallRaises
  <2>4. QED
    BY <1>7, <2>2, <2>3, QuietStep DEF CallRaises, rows
<1>8. QED
  BY <1>2, <1>3, <1>4, <1>5, <1>6, <1>7 DEF WorkerStep

\* The cleanup keeps it: it lists expired rows, and nothing unexpires.
LEMMA CleanIInv ==
  ASSUME TypeOK, IInv, CleanStep
  PROVE  IInv'
<1> USE DEF rows, history
<1>1. CASE ListExpired
  <2>1. cleaner'.keys \subseteq expired
    BY <1>1 DEF ListExpired
  <2>2. QED
    BY <1>1, <2>1
       DEF ListExpired, IInv, DownloadableExists, MarkingHasObject, CleansExpired, At
<1>2. CASE PurgeObject
  <2>1. PICK j \in cleaner.keys :
          /\ cleaner' = [cleaner EXCEPT !.keys = @ \ {j}]
          /\ store' = store \ {j} \/ UNCHANGED store
    BY <1>2 DEF PurgeObject
  <2>2. j \in expired
    BY DEF IInv, CleansExpired
  <2>3. cleaner'.keys = cleaner.keys \ {j}
    BY <2>1 DEF TypeOK
  <2>4. UNCHANGED <<status, expired, worker>>
    BY <1>2 DEF PurgeObject
  <2>5. QED
    BY <2>1, <2>2, <2>3, <2>4
       DEF IInv, DownloadableExists, MarkingHasObject, CleansExpired, At
<1>3. CASE DeleteRows
  <2>1. cleaner'.keys \subseteq cleaner.keys
    BY <1>3 DEF DeleteRows, Resting
  <2>2. \A j \in Jobs : status'[j] = "done" => status[j] = "done"
    BY <1>3 DEF DeleteRows
  <2>3. QED
    BY <1>3, <2>1, <2>2, QuietStep DEF DeleteRows, At
<1>4. CASE CleanupRaises
  BY <1>4, QuietStep DEF CleanupRaises, Resting, At
<1>5. QED
  BY <1>1, <1>2, <1>3, <1>4 DEF CleanStep

\* No step breaks the strengthened invariant.
LEMMA IInvStep == TypeOK /\ IInv /\ [Next]_vars => IInv'
<1> SUFFICES ASSUME TypeOK, IInv, [Next]_vars PROVE IInv'
  OBVIOUS
<1> USE DEF rows, history
<1>1. ASSUME NEW e \in Reqs, NEW u \in Users, Enqueue(e, u) PROVE IInv'
  BY <1>1, QuietStep DEF Enqueue, At
<1>2. ASSUME NEW e \in Reqs, ReqStep(e) PROVE IInv'
  <2>1. UNCHANGED <<expired, store, worker, cleaner>>
    BY <1>2 DEF ReqStep, CheckCapacity, InsertJob, InsertRaises, Submit, Reject
  <2>2. \A j \in Jobs : status'[j] = "done" => status[j] = "done"
    BY <1>2 DEF ReqStep, CheckCapacity, InsertJob, InsertRaises, Submit, Reject,
                SetStatus, TypeOK
  <2>3. QED
    BY <2>1, <2>2, QuietStep DEF At
<1>3. ASSUME NEW w \in Workers, WorkerStep(w) PROVE IInv'
  BY <1>3, WorkerIInv
<1>4. ASSUME NEW u \in Users, MarkAllRead(u) PROVE IInv'
  BY <1>4, QuietStep DEF MarkAllRead, At
<1>5. ASSUME NEW j \in Jobs, MarkJobRead(j) \/ Expire(j) PROVE IInv'
  BY <1>5, QuietStep DEF MarkJobRead, Expire, At
<1>6. CASE CleanStep
  BY <1>6, CleanIInv
<1>7. CASE Crash
  <2>1. \A w \in Workers : worker'[w].pc # "mark"
    BY <1>7 DEF Crash, Idle
  <2>2. cleaner'.keys \subseteq cleaner.keys
    BY <1>7 DEF Crash, Resting
  <2>3. QED
    BY <1>7, <2>1, <2>2, QuietStep DEF Crash
<1>8. CASE UNCHANGED vars
  BY <1>8, QuietStep DEF vars, At
<1>9. QED
  BY <1>1, <1>2, <1>3, <1>4, <1>5, <1>6, <1>7, <1>8 DEF Next

\* What the download center offers exists, whatever number of workers, requests
\* and cleanups, failing calls and crashes there are.
THEOREM DownloadableExistsHolds == Spec => []DownloadableExists
<1>1. IInv => DownloadableExists
  BY DEF IInv
<1>2. QED
  BY TypeInit, TypeStep, IInvInit, IInvStep, <1>1, PTL DEF Spec

------------------------------------------------------------------------------
(* Whose hands a job is in.  A status never says who will write it next, so the *)
(* invariant relates the two: hands are disjoint, and the status of a held job  *)
(* is one that the call its holder awaits may find.                             *)
Elems(s) == {s[i] : i \in DOMAIN s}

Held(j) == \/ j \in Elems(queue)
           \/ \E w \in Workers : worker[w].job = j
           \/ \E e \in Reqs : req[e].job = j

QueuedOnce == \A a, b \in DOMAIN queue : queue[a] = queue[b] => a = b
HandsDiffer ==
  /\ \A v, w \in Workers : worker[v].job = worker[w].job => v = w \/ worker[v].job = NoJob
  /\ \A e, f \in Reqs : req[e].job = req[f].job => e = f \/ req[e].job = NoJob
  /\ \A w \in Workers, e \in Reqs : worker[w].job = req[e].job => worker[w].job = NoJob
  /\ \A w \in Workers : worker[w].job \notin Elems(queue)
  /\ \A e \in Reqs : req[e].job \notin Elems(queue)

\* What a worker at this call may find in the row of its job.
Fits(pc) ==
  {"gone"} \cup (IF pc = "start" THEN {"queued"}
                 ELSE IF pc \in {"build", "upload", "mark"} THEN {"running"}
                 ELSE IF pc = "notify" THEN {"done"}
                 ELSE {"queued", "running", "done"})
StatusFits ==
  \A j \in Jobs :
    /\ j \in Elems(queue) => status[j] \in {"queued", "gone"}
    /\ \A w \in Workers : worker[w].job = j => status[j] \in Fits(worker[w].pc)
    /\ \A e \in Reqs : req[e].job = j => status[j] \in {"queued", "gone"}

ActiveIsHeld == \A j \in Jobs : Active(j) => Held(j) \/ j \in stranded \cup raised

HandsInv == QueuedOnce /\ HandsDiffer /\ StatusFits /\ ActiveIsHeld

\* A request has a job exactly while it submits or rejects it.
LEMMA CarriedIsHeld == TypeOK => \A j \in Jobs : Carried(j) <=> Held(j)
<1> SUFFICES ASSUME TypeOK, NEW j \in Jobs PROVE Carried(j) <=> Held(j)
  OBVIOUS
<1>1. Queued(j) <=> j \in Elems(queue)
  BY DEF Queued, Elems
<1>2. ASSUME NEW e \in Reqs, req[e].job = j PROVE req[e].pc \in {"submit", "reject"}
  <2>1. j # NoJob
    BY NoJobIsNoJob
  <2>2. \/ req[e] = Idle
        \/ req[e] \in [pc : {"count", "insert"}, job : {NoJob}, user : Users]
        \/ req[e] \in [pc : {"submit", "reject"}, job : Jobs]
    BY DEF TypeOK
  <2>3. QED
    BY <1>2, <2>1, <2>2 DEF Idle
<1>3. InReq(j) <=> \E e \in Reqs : req[e].job = j
  BY <1>2 DEF InReq
<1>4. QED
  BY <1>1, <1>3 DEF Carried, Held, InWorker

\* What a work item at either end of the queue does to the jobs in it.
LEMMA QueueAppend ==
  ASSUME NEW q \in Seq(Jobs), NEW j \in Jobs
  PROVE  /\ Elems(Append(q, j)) = Elems(q) \cup {j}
         /\ j \notin Elems(q) /\ (\A a, b \in DOMAIN q : q[a] = q[b] => a = b)
              => \A a, b \in DOMAIN Append(q, j) :
                   Append(q, j)[a] = Append(q, j)[b] => a = b
<1>1. DOMAIN q = 1..Len(q) /\ DOMAIN Append(q, j) = 1..(Len(q) + 1) /\ Len(q) \in Nat
  OBVIOUS
<1>2. \A i \in 1..Len(q) : Append(q, j)[i] = q[i]
  OBVIOUS
<1>3. Append(q, j)[Len(q) + 1] = j
  OBVIOUS
<1>4. Elems(Append(q, j)) = Elems(q) \cup {j}
  BY <1>1, <1>2, <1>3 DEF Elems
<1>5. j \notin Elems(q) => \A i \in 1..Len(q) : q[i] # j
  BY <1>1 DEF Elems
<1>6. \A i \in 1..(Len(q) + 1) : i \in 1..Len(q) \/ i = Len(q) + 1
  BY <1>1
<1>7. QED
  BY <1>1, <1>2, <1>3, <1>4, <1>5, <1>6

LEMMA QueueTake ==
  ASSUME NEW q \in Seq(Jobs), q # <<>>,
         \A a, b \in DOMAIN q : q[a] = q[b] => a = b
  PROVE  /\ Head(q) \in Jobs
         /\ Elems(q) = {Head(q)} \cup Elems(Tail(q))
         /\ Head(q) \notin Elems(Tail(q))
         /\ \A a, b \in DOMAIN Tail(q) : Tail(q)[a] = Tail(q)[b] => a = b
<1>1. /\ Len(q) \in Nat \ {0} /\ DOMAIN q = 1..Len(q)
      /\ DOMAIN Tail(q) = 1..(Len(q) - 1)
  OBVIOUS
<1>2. Head(q) = q[1] /\ \A i \in 1..(Len(q) - 1) : Tail(q)[i] = q[i + 1]
  OBVIOUS
<1>3. \A i \in 1..Len(q) : i = 1 \/ i - 1 \in 1..(Len(q) - 1)
  BY <1>1
<1>4. \A i \in 1..(Len(q) - 1) : i + 1 \in 1..Len(q) /\ i + 1 # 1
  BY <1>1
<1>5. ASSUME NEW i \in 1..Len(q) PROVE q[i] \in {Head(q)} \cup Elems(Tail(q))
  <2>1. CASE i = 1
    BY <1>2, <2>1
  <2>2. CASE i - 1 \in 1..(Len(q) - 1)
    <3>1. Tail(q)[i - 1] = q[(i - 1) + 1] /\ (i - 1) + 1 = i
      BY <1>1, <1>2, <2>2
    <3>2. QED
      BY <1>1, <2>2, <3>1 DEF Elems
  <2>3. QED
    BY <1>3, <2>1, <2>2
<1>6. 1 \in DOMAIN q
  BY <1>1
<1>7. Head(q) \notin Elems(Tail(q))
  BY <1>1, <1>2, <1>4, <1>6 DEF Elems
<1>8. \A a, b \in 1..(Len(q) - 1) : q[a + 1] = q[b + 1] => a = b
  BY <1>1, <1>4
<1>9. QED
  BY <1>1, <1>2, <1>4, <1>5, <1>6, <1>7, <1>8 DEF Elems

\* A step that leaves every job in the hands it is in, and rows alone unless it
\* deletes them.
LEMMA SameHands ==
  ASSUME HandsInv, queue' = queue, worker' = worker,
         \A e \in Reqs : req'[e].job = req[e].job,
         \A j \in Jobs : status'[j] \in {status[j], "gone"},
         raised \subseteq raised', stranded \subseteq stranded'
  PROVE  HandsInv'
<1>1. QueuedOnce' /\ HandsDiffer'
  BY DEF HandsInv, QueuedOnce, HandsDiffer
<1>2. \A pc : "gone" \in Fits(pc)
  BY DEF Fits
<1>3. StatusFits'
  BY <1>2 DEF HandsInv, StatusFits
<1>4. \A j \in Jobs : Held(j) => Held(j)'
  BY DEF Held
<1>5. ActiveIsHeld'
  BY <1>4 DEF HandsInv, ActiveIsHeld, Active
<1>6. QED
  BY <1>1, <1>3, <1>5 DEF HandsInv

\* A worker goes on to another call about its job, having brought the row to
\* what that call may find.
LEMMA WorkerGoesOn ==
  ASSUME TypeOK, HandsInv, NEW w \in Workers, ~At(w, "idle"), NEW pc \in BusyPcs,
         GoOn(w, pc), queue' = queue, req' = req,
         status'[worker[w].job] \in Fits(pc),
         \A i \in Jobs : i # worker[w].job => status'[i] = status[i],
         raised \subseteq raised', stranded \subseteq stranded'
  PROVE  HandsInv'
<1> DEFINE j == worker[w].job
<1>1. j \in Jobs /\ worker[w] \in [pc : BusyPcs, job : Jobs]
  BY BusyHasJob
<1>2. worker'[w] = [pc |-> pc, job |-> j]
  BY <1>1 DEF GoOn, TypeOK
<1>3. \A v \in Workers : v # w => worker'[v] = worker[v]
  BY DEF GoOn, TypeOK
<1>4. \A v \in Workers : worker'[v].job = worker[v].job
  BY <1>2, <1>3
<1>5. QueuedOnce' /\ HandsDiffer'
  BY <1>4 DEF HandsInv, QueuedOnce, HandsDiffer
<1>6. ASSUME NEW i \in Jobs
      PROVE  /\ i \in Elems(queue) => status'[i] \in {"queued", "gone"}
             /\ \A v \in Workers : worker'[v].job = i => status'[i] \in Fits(worker'[v].pc)
             /\ \A e \in Reqs : req[e].job = i => status'[i] \in {"queued", "gone"}
  <2>1. CASE i = j
    <3>1. i \notin Elems(queue) /\ \A e \in Reqs : req[e].job # i
      BY <1>1, <2>1, NoJobIsNoJob DEF HandsInv, HandsDiffer
    <3>2. \A v \in Workers : worker'[v].job = i => v = w
      BY <1>1, <1>4, <2>1, NoJobIsNoJob DEF HandsInv, HandsDiffer
    <3>3. QED
      BY <1>2, <2>1, <3>1, <3>2
  <2>2. CASE i # j
    <3>1. \A v \in Workers : worker'[v].job = i => worker'[v] = worker[v]
      BY <1>2, <1>3, <2>2
    <3>2. QED
      BY <2>2, <3>1 DEF HandsInv, StatusFits
  <2>3. QED
    BY <2>1, <2>2
<1>7. StatusFits'
  BY <1>6 DEF StatusFits
<1>8. \A i \in Jobs : Held(i) => Held(i)'
  BY <1>4 DEF Held
<1>9. Held(j)
  BY DEF Held
<1>10. ActiveIsHeld'
  BY <1>8, <1>9 DEF HandsInv, ActiveIsHeld, Active
<1>11. QED
  BY <1>5, <1>7, <1>10 DEF HandsInv

\* A worker lays its job down, which is over by then or had a call that raised.
LEMMA WorkerRests ==
  ASSUME TypeOK, HandsInv, NEW w \in Workers, ~At(w, "idle"),
         Rest(w), queue' = queue, req' = req,
         status'[worker[w].job] \notin {"queued", "running"} \/ worker[w].job \in raised',
         \A i \in Jobs : i # worker[w].job => status'[i] = status[i],
         raised \subseteq raised', stranded \subseteq stranded'
  PROVE  HandsInv'
<1> DEFINE j == worker[w].job
<1>1. j \in Jobs
  BY BusyHasJob
<1>2. worker'[w] = Idle /\ Idle.job = NoJob
  BY DEF Rest, TypeOK, Idle
<1>3. \A v \in Workers : v # w => worker'[v] = worker[v]
  BY DEF Rest, TypeOK
<1>4. queue \in Seq(Jobs) /\ NoJob \notin Elems(queue)
  BY NoJobIsNoJob DEF TypeOK, Elems
<1>5. QueuedOnce' /\ HandsDiffer'
  BY <1>2, <1>3, <1>4 DEF HandsInv, QueuedOnce, HandsDiffer
<1>6. ASSUME NEW i \in Jobs
      PROVE  /\ i \in Elems(queue) => status'[i] \in {"queued", "gone"}
             /\ \A v \in Workers : worker'[v].job = i => status'[i] \in Fits(worker'[v].pc)
             /\ \A e \in Reqs : req[e].job = i => status'[i] \in {"queued", "gone"}
  <2>1. CASE i = j
    <3>1. i \notin Elems(queue) /\ \A e \in Reqs : req[e].job # i
      BY <1>1, <2>1, NoJobIsNoJob DEF HandsInv, HandsDiffer
    <3>2. \A v \in Workers : worker'[v].job # i
      BY <1>1, <1>2, <1>3, <2>1, NoJobIsNoJob DEF HandsInv, HandsDiffer
    <3>3. QED
      BY <3>1, <3>2
  <2>2. CASE i # j
    <3>1. \A v \in Workers : worker'[v].job = i => worker'[v] = worker[v]
      BY <1>2, <1>3, <2>2, NoJobIsNoJob
    <3>2. QED
      BY <2>2, <3>1 DEF HandsInv, StatusFits
  <2>3. QED
    BY <2>1, <2>2
<1>7. StatusFits'
  BY <1>6 DEF StatusFits
<1>8. \A i \in Jobs : Held(i) /\ i # j => Held(i)'
  BY <1>3 DEF Held
<1>9. ActiveIsHeld'
  BY <1>8 DEF HandsInv, ActiveIsHeld, Active
<1>10. QED
  BY <1>5, <1>7, <1>9 DEF HandsInv

\* A worker takes the first item of the queue.
LEMMA TakeHands ==
  ASSUME TypeOK, HandsInv, NEW w \in Workers, TakeItem(w)
  PROVE  HandsInv'
<1> DEFINE j == Head(queue)
<1>1. queue \in Seq(Jobs) /\ queue # <<>> /\ queue' = Tail(queue)
  BY DEF TypeOK, TakeItem
<1>2. /\ j \in Jobs /\ Elems(queue) = {j} \cup Elems(queue')
      /\ j \notin Elems(queue') /\ QueuedOnce'
  BY <1>1, QueueTake DEF HandsInv, QueuedOnce
<1>3. worker[w] = Idle
  BY DEF TakeItem, At, TypeOK, BusyPcs
<1>4. /\ worker'[w] = [pc |-> "start", job |-> j]
      /\ \A v \in Workers : v # w => worker'[v] = worker[v]
  BY DEF TakeItem, TypeOK
<1>5. req' = req /\ status' = status /\ raised' = raised /\ stranded' = stranded
  BY DEF TakeItem, rows, history
<1>6. /\ \A v \in Workers : worker[v].job # j
      /\ \A e \in Reqs : req[e].job # j
  BY <1>2 DEF HandsInv, HandsDiffer
<1>7. HandsDiffer'
  BY <1>2, <1>4, <1>5, <1>6 DEF HandsInv, HandsDiffer
<1>8. ASSUME NEW i \in Jobs
      PROVE  /\ i \in Elems(queue') => status'[i] \in {"queued", "gone"}
             /\ \A v \in Workers : worker'[v].job = i => status'[i] \in Fits(worker'[v].pc)
             /\ \A e \in Reqs : req'[e].job = i => status'[i] \in {"queued", "gone"}
  <2>1. i = j => status[i] \in Fits("start")
    BY <1>2 DEF HandsInv, StatusFits, Fits
  <2>2. QED
    BY <1>2, <1>4, <1>5, <2>1 DEF HandsInv, StatusFits
<1>9. StatusFits'
  BY <1>8 DEF StatusFits
<1>10. ASSUME NEW i \in Jobs, Held(i) PROVE Held(i)'
  <2>1. CASE i = j
    BY <1>4, <2>1 DEF Held
  <2>2. CASE i # j
    <3>1. \A v \in Workers : worker[v].job = i => worker'[v].job = i
      BY <1>3, <1>4, NoJobIsNoJob DEF Idle
    <3>2. i \in Elems(queue) => i \in Elems(queue')
      BY <1>2, <2>2
    <3>3. QED
      BY <1>5, <1>10, <3>1, <3>2 DEF Held
  <2>3. QED
    BY <2>1, <2>2
<1>11. ActiveIsHeld'
  BY <1>5, <1>10 DEF HandsInv, ActiveIsHeld, Active
<1>12. QED
  BY <1>2, <1>7, <1>9, <1>11 DEF HandsInv

\* The steps of a request: inserting its row, handing the job to the queue,
\* failing the row when the queue is full.
LEMMA ReqHands ==
  ASSUME TypeOK, HandsInv, NEW e \in Reqs, ReqStep(e)
  PROVE  HandsInv'
<1> USE DEF rows, history
<1>1. CASE CheckCapacity(e)
  <2>1. req[e] \in [pc : {"count", "insert"}, job : {NoJob}, user : Users]
    BY <1>1 DEF CheckCapacity, Idle, TypeOK
  <2>2. req'[e].job = NoJob
    BY <1>1, <2>1 DEF CheckCapacity, TypeOK, Idle
  <2>3. \A f \in Reqs : req'[f].job = req[f].job
    BY <1>1, <2>1, <2>2 DEF CheckCapacity, TypeOK
  <2>4. QED
    BY <1>1, <2>3, SameHands DEF CheckCapacity
<1>2. ASSUME NEW j \in Jobs, status[j] = "none"
      PROVE  /\ j \notin Elems(queue)
             /\ \A w \in Workers : worker[w].job # j
             /\ \A f \in Reqs : req[f].job # j
  BY <1>2 DEF HandsInv, StatusFits, Fits
<1>3. CASE InsertJob(e)
  <2>1. PICK j \in Jobs : /\ status[j] = "none"
                          /\ status' = [status EXCEPT ![j] = "queued"]
                          /\ req' = [req EXCEPT ![e] = [pc |-> "submit", job |-> j]]
    BY <1>3 DEF InsertJob
  <2>2. /\ j \notin Elems(queue)
        /\ \A w \in Workers : worker[w].job # j
        /\ \A f \in Reqs : req[f].job # j
    BY <1>2, <2>1
  <2>3. /\ req'[e] = [pc |-> "submit", job |-> j]
        /\ \A f \in Reqs : f # e => req'[f] = req[f]
        /\ status'[j] = "queued"
        /\ \A i \in Jobs : i # j => status'[i] = status[i]
    BY <2>1 DEF TypeOK
  <2>4. UNCHANGED <<queue, worker, raised, stranded>>
    BY <1>3 DEF InsertJob
  <2>5. req[e].job = NoJob
    BY <1>3 DEF InsertJob, TypeOK, Idle
  <2>6. QueuedOnce' /\ HandsDiffer'
    BY <2>2, <2>3, <2>4 DEF HandsInv, QueuedOnce, HandsDiffer
  <2>7. StatusFits'
    BY <2>2, <2>3, <2>4 DEF HandsInv, StatusFits
  <2>8. \A i \in Jobs : Held(i) => Held(i)'
    BY <2>3, <2>4, <2>5, NoJobIsNoJob DEF Held
  <2>9. Held(j)'
    BY <2>3 DEF Held
  <2>10. ActiveIsHeld'
    BY <2>3, <2>4, <2>8, <2>9 DEF HandsInv, ActiveIsHeld, Active
  <2>11. QED
    BY <2>6, <2>7, <2>10 DEF HandsInv
<1>4. ASSUME req' = [req EXCEPT ![e] = Idle]
      PROVE  /\ req'[e].job = NoJob
             /\ \A f \in Reqs : f # e => req'[f] = req[f]
  BY <1>4 DEF TypeOK, Idle
<1>5. NoJob \notin Elems(queue)
  BY NoJobIsNoJob DEF TypeOK, Elems
<1>6. CASE InsertRaises(e)
  <2>1. PICK j \in Jobs : /\ status[j] = "none" /\ Raise(j)
                          /\ status' = [status EXCEPT ![j] = "queued"]
    BY <1>6 DEF InsertRaises
  <2>2. /\ j \notin Elems(queue)
        /\ \A w \in Workers : worker[w].job # j
        /\ \A f \in Reqs : req[f].job # j
    BY <1>2, <2>1
  <2>3. /\ status'[j] = "queued"
        /\ \A i \in Jobs : i # j => status'[i] = status[i]
        /\ raised' = raised \cup {j}
    BY <2>1 DEF TypeOK, Raise
  <2>4. UNCHANGED <<queue, worker, stranded>>
    BY <1>6 DEF InsertRaises
  <2>5. req[e].job = NoJob
    BY <1>6 DEF InsertRaises, TypeOK, Idle
  <2>6. \A f \in Reqs : req'[f].job = req[f].job
    BY <1>4, <1>6, <2>5 DEF InsertRaises
  <2>7. QueuedOnce' /\ HandsDiffer'
    BY <2>4, <2>6 DEF HandsInv, QueuedOnce, HandsDiffer
  <2>8. StatusFits'
    BY <2>2, <2>3, <2>4, <2>6 DEF HandsInv, StatusFits
  <2>9. \A i \in Jobs : Held(i) => Held(i)'
    BY <2>4, <2>6 DEF Held
  <2>10. ActiveIsHeld'
    BY <2>3, <2>4, <2>9 DEF HandsInv, ActiveIsHeld, Active
  <2>11. QED
    BY <2>7, <2>8, <2>10 DEF HandsInv
<1>7. CASE Submit(e)
  <2>1. req[e] \in [pc : {"submit", "reject"}, job : Jobs]
    BY <1>7 DEF Submit, Idle, TypeOK
  <2>2. PICK j \in Jobs : req[e].job = j
    BY <2>1
  <2>3. UNCHANGED <<status, worker, raised, stranded>>
    BY <1>7 DEF Submit
  <2>4. CASE Len(queue) < QueueSize
    <3>1. queue' = Append(queue, j) /\ req' = [req EXCEPT ![e] = Idle] /\ queue \in Seq(Jobs)
      BY <1>7, <2>2, <2>4 DEF Submit, TypeOK
    <3>2. j \notin Elems(queue) /\ j # NoJob
          /\ (\A w \in Workers : worker[w].job # j)
          /\ \A f \in Reqs : req[f].job = j => f = e
      BY <2>2, NoJobIsNoJob DEF HandsInv, HandsDiffer
    <3>3. Elems(queue') = Elems(queue) \cup {j} /\ QueuedOnce'
      BY <3>1, <3>2, QueueAppend DEF HandsInv, QueuedOnce
    <3>4. HandsDiffer'
      BY <1>4, <1>5, <2>3, <3>1, <3>2, <3>3 DEF HandsInv, HandsDiffer
    <3>5. status[j] \in {"queued", "gone"}
      BY <2>2 DEF HandsInv, StatusFits
    <3>6. StatusFits'
      BY <1>4, <2>3, <3>1, <3>3, <3>5, NoJobIsNoJob DEF HandsInv, StatusFits
    <3>7. \A i \in Jobs : Held(i) => Held(i)'
      BY <1>4, <2>2, <2>3, <3>1, <3>3 DEF Held
    <3>8. ActiveIsHeld'
      BY <2>3, <3>7 DEF HandsInv, ActiveIsHeld, Active
    <3>9. QED
      BY <3>3, <3>4, <3>6, <3>8 DEF HandsInv
  <2>5. CASE ~(Len(queue) < QueueSize)
    <3>1. req' = [req EXCEPT ![e].pc = "reject"] /\ queue' = queue
      BY <1>7, <2>5 DEF Submit
    <3>2. \A f \in Reqs : req'[f].job = req[f].job
      BY <2>1, <3>1 DEF TypeOK
    <3>3. QED
      BY <2>3, <3>1, <3>2, SameHands
  <2>6. QED
    BY <2>4, <2>5
<1>8. CASE Reject(e)
  <2>1. PICK j \in Jobs : req[e].job = j
    BY <1>8 DEF Reject, Idle, TypeOK
  <2>2. UNCHANGED <<queue, worker, stranded>> /\ req' = [req EXCEPT ![e] = Idle]
    BY <1>8 DEF Reject
  <2>3. /\ status'[j] \notin {"queued", "running"} \/ j \in raised'
        /\ \A i \in Jobs : i # j => status'[i] = status[i]
        /\ raised \subseteq raised'
    BY <1>8, <2>1 DEF Reject, SetStatus, HasRow, Raise, TypeOK
  <2>4. j \notin Elems(queue) /\ j # NoJob
        /\ (\A w \in Workers : worker[w].job # j)
        /\ \A f \in Reqs : req[f].job = j => f = e
    BY <2>1, NoJobIsNoJob DEF HandsInv, HandsDiffer
  <2>5. QueuedOnce' /\ HandsDiffer'
    BY <1>4, <1>5, <2>2 DEF HandsInv, QueuedOnce, HandsDiffer
  <2>6. StatusFits'
    BY <1>4, <2>2, <2>3, <2>4, NoJobIsNoJob DEF HandsInv, StatusFits
  <2>7. \A i \in Jobs : Held(i) /\ i # j => Held(i)'
    BY <1>4, <2>1, <2>2 DEF Held
  <2>8. ActiveIsHeld'
    BY <2>2, <2>3, <2>7 DEF HandsInv, ActiveIsHeld, Active
  <2>9. QED
    BY <2>5, <2>6, <2>8 DEF HandsInv
<1>9. QED
  BY <1>1, <1>3, <1>6, <1>7, <1>8 DEF ReqStep

LEMMA WorkerHands ==
  ASSUME TypeOK, HandsInv, NEW w \in Workers, WorkerStep(w)
  PROVE  HandsInv'
<1> DEFINE j == worker[w].job
<1> USE DEF rows, history
<1>1. CASE TakeItem(w)
  BY <1>1, TakeHands
<1>2. ASSUME ~At(w, "idle") PROVE j \in Jobs /\ status[j] \in Fits(worker[w].pc)
  BY <1>2, BusyHasJob DEF HandsInv, StatusFits
<1>3. CASE Start(w)
  <2>1. ~At(w, "idle") /\ GoOn(w, "build") /\ "build" \in BusyPcs
    BY <1>3 DEF Start, At, BusyPcs
  <2>2. status[j] \in Fits("start")
    BY <1>2, <1>3, <2>1 DEF Start, At
  <2>3. /\ status'[j] \in Fits("build")
        /\ \A i \in Jobs : i # j => status'[i] = status[i]
    BY <1>2, <1>3, <2>1, <2>2 DEF Start, SetStatus, HasRow, Fits, TypeOK
  <2>4. QED
    BY <1>3, <2>1, <2>3, WorkerGoesOn DEF Start
<1>4. CASE Build(w)
  <2>1. ~At(w, "idle") /\ GoOn(w, "upload") /\ "upload" \in BusyPcs
    BY <1>4 DEF Build, At, BusyPcs
  <2>2. status[j] \in Fits("build")
    BY <1>2, <1>4, <2>1 DEF Build, At
  <2>3. /\ status'[j] \in Fits("upload")
        /\ \A i \in Jobs : i # j => status'[i] = status[i]
    BY <1>2, <1>4, <2>1, <2>2 DEF Build, SetStatus, HasRow, Fits, TypeOK
  <2>4. QED
    BY <1>4, <2>1, <2>3, WorkerGoesOn DEF Build
<1>5. CASE Upload(w)
  <2>1. ~At(w, "idle") /\ GoOn(w, "mark") /\ "mark" \in BusyPcs
    BY <1>5 DEF Upload, At, BusyPcs
  <2>2. status[j] \in Fits("mark")
    BY <1>2, <1>5, <2>1 DEF Upload, At, Fits
  <2>3. QED
    BY <1>5, <2>1, <2>2, WorkerGoesOn DEF Upload
<1>6. CASE MarkDone(w)
  <2>1. ~At(w, "idle") /\ GoOn(w, "notify") /\ "notify" \in BusyPcs
    BY <1>6 DEF MarkDone, At, BusyPcs
  <2>2. status[j] \in Fits("mark")
    BY <1>2, <1>6, <2>1 DEF MarkDone, At
  <2>3. /\ status'[j] \in Fits("notify")
        /\ \A i \in Jobs : i # j => status'[i] = status[i]
    BY <1>2, <1>6, <2>1, <2>2 DEF MarkDone, SetStatus, HasRow, Fits, TypeOK
  <2>4. QED
    BY <1>6, <2>1, <2>3, WorkerGoesOn DEF MarkDone
<1>7. CASE Notified(w)
  <2>1. ~At(w, "idle") /\ Rest(w)
    BY <1>7 DEF Notified, At
  <2>2. status[j] \notin {"queued", "running"}
    BY <1>2, <1>7, <2>1 DEF Notified, At, Fits
  <2>3. QED
    BY <1>7, <2>1, <2>2, WorkerRests DEF Notified
<1>8. CASE MarkFailed(w)
  <2>1. ~At(w, "idle") /\ Rest(w)
    BY <1>8 DEF MarkFailed, At
  <2>2. /\ status'[j] \notin {"queued", "running"}
        /\ \A i \in Jobs : i # j => status'[i] = status[i]
    BY <1>2, <1>8, <2>1 DEF MarkFailed, SetStatus, HasRow, TypeOK
  <2>3. QED
    BY <1>8, <2>1, <2>2, WorkerRests DEF MarkFailed
<1>9. CASE CallRaises(w)
  <2>1. /\ ~At(w, "idle") /\ "fail" \in BusyPcs /\ status' = status
        /\ raised \subseteq raised' /\ j \in raised'
    BY <1>9 DEF CallRaises, Raise, At, BusyPcs
  <2>2. CASE Rest(w)
    BY <1>9, <2>1, <2>2, WorkerRests DEF CallRaises
  <2>3. CASE GoOn(w, "fail") /\ ~At(w, "fail")
    <3>1. worker[w].pc \in {"start", "build", "upload", "mark", "notify"}
      BY <1>9, <2>3 DEF CallRaises, At
    <3>2. status[j] \in Fits("fail")
      BY <1>2, <2>1, <3>1 DEF Fits
    <3>3. QED
      BY <1>9, <2>1, <2>3, <3>2, WorkerGoesOn DEF CallRaises
  <2>4. QED
    BY <1>9, <2>2, <2>3 DEF CallRaises
<1>10. QED
  BY <1>1, <1>3, <1>4, <1>5, <1>6, <1>7, <1>8, <1>9 DEF WorkerStep

LEMMA HandsInit == Init => HandsInv
<1> SUFFICES ASSUME Init PROVE HandsInv
  OBVIOUS
<1>1. /\ Elems(queue) = {} /\ DOMAIN queue = {}
      /\ \A w \in Workers : worker[w].job = NoJob
      /\ \A e \in Reqs : req[e].job = NoJob
      /\ \A j \in Jobs : status[j] = "none"
  BY DEF Init, Elems, Idle
<1>2. QED
  BY <1>1, NoJobIsNoJob DEF HandsInv, QueuedOnce, HandsDiffer, StatusFits,
                            ActiveIsHeld, Active

LEMMA HandsStep == TypeOK /\ HandsInv /\ [Next]_vars => HandsInv'
<1> SUFFICES ASSUME TypeOK, HandsInv, [Next]_vars PROVE HandsInv'
  OBVIOUS
<1> USE DEF rows, history
<1>1. ASSUME NEW e \in Reqs, NEW u \in Users, Enqueue(e, u) PROVE HandsInv'
  <2>1. \A f \in Reqs : req'[f].job = req[f].job
    BY <1>1 DEF Enqueue, Idle, TypeOK
  <2>2. QED
    BY <1>1, <2>1, SameHands DEF Enqueue
<1>2. ASSUME NEW e \in Reqs, ReqStep(e) PROVE HandsInv'
  BY <1>2, ReqHands
<1>3. ASSUME NEW w \in Workers, WorkerStep(w) PROVE HandsInv'
  BY <1>3, WorkerHands
<1>4. ASSUME NEW u \in Users, MarkAllRead(u) PROVE HandsInv'
  BY <1>4, SameHands DEF MarkAllRead
<1>5. ASSUME NEW j \in Jobs, MarkJobRead(j) \/ Expire(j) PROVE HandsInv'
  BY <1>5, SameHands DEF MarkJobRead, Expire
<1>6. CASE CleanStep
  <2>1. UNCHANGED <<queue, worker, req, stranded>>
    BY <1>6 DEF CleanStep, ListExpired, PurgeObject, DeleteRows, CleanupRaises
  <2>2. raised \subseteq raised'
    BY <1>6 DEF CleanStep, ListExpired, PurgeObject, DeleteRows, CleanupRaises, Raise
  <2>3. \A j \in Jobs : status'[j] \in {status[j], "gone"}
    BY <1>6 DEF CleanStep, ListExpired, PurgeObject, DeleteRows, CleanupRaises
  <2>4. QED
    BY <2>1, <2>2, <2>3, SameHands
<1>7. CASE Crash
  <2>1. /\ Elems(queue') = {} /\ DOMAIN queue' = {}
        /\ \A w \in Workers : worker'[w].job = NoJob
        /\ \A e \in Reqs : req'[e].job = NoJob
    BY <1>7 DEF Crash, Elems, Idle
  <2>2. status' = status /\ raised' = raised
    BY <1>7 DEF Crash
  <2>3. \A j \in Jobs : Held(j) => j \in stranded'
    BY <1>7, CarriedIsHeld DEF Crash
  <2>4. stranded \subseteq stranded'
    BY <1>7 DEF Crash
  <2>5. ActiveIsHeld'
    BY <2>2, <2>3, <2>4 DEF HandsInv, ActiveIsHeld, Active
  <2>6. QED
    BY <2>1, <2>5, NoJobIsNoJob DEF HandsInv, QueuedOnce, HandsDiffer, StatusFits
<1>8. CASE UNCHANGED vars
  BY <1>8, SameHands DEF vars
<1>9. QED
  BY <1>1, <1>2, <1>3, <1>4, <1>5, <1>6, <1>7, <1>8 DEF Next

\* A set with no two members has at most one.
LEMMA AtMostOne ==
  ASSUME NEW S, \A a, b \in S : a = b
  PROVE  Cardinality(S) = 0 \/ Cardinality(S) = 1
<1>1. CASE S = {}
  BY <1>1, FS_EmptySet
<1>2. CASE S # {}
  <2>1. PICK a : a \in S
    BY <1>2
  <2>2. S = {a}
    BY <2>1
  <2>3. QED
    BY <2>2, FS_Singleton
<1>3. QED
  BY <1>1, <1>2

LEMMA HandsAreOne == TypeOK /\ HandsInv => JobsAreCarried
<1> SUFFICES ASSUME TypeOK, HandsInv PROVE JobsAreCarried
  OBVIOUS
<1>1. ActiveRowIsCarried
  BY CarriedIsHeld DEF HandsInv, ActiveIsHeld, ActiveRowIsCarried
<1>2. ASSUME NEW j \in Jobs
      PROVE  Cardinality({i \in DOMAIN queue : queue[i] = j})
             + Cardinality({w \in Workers : worker[w].job = j})
             + Cardinality({e \in Reqs : req[e].job = j}) <= 1
  <2> DEFINE Q == {i \in DOMAIN queue : queue[i] = j}
             W == {w \in Workers : worker[w].job = j}
             E == {e \in Reqs : req[e].job = j}
  <2>1. \A a, b \in Q : a = b
    BY DEF HandsInv, QueuedOnce
  <2>2. (\A a, b \in W : a = b) /\ (\A a, b \in E : a = b)
    BY NoJobIsNoJob DEF HandsInv, HandsDiffer
  <2>3. Q = {} \/ W = {}
    BY DEF HandsInv, HandsDiffer, Elems
  <2>4. Q = {} \/ E = {}
    BY DEF HandsInv, HandsDiffer, Elems
  <2>5. W = {} \/ E = {}
    BY NoJobIsNoJob DEF HandsInv, HandsDiffer
  <2>6. /\ Cardinality(Q) \in {0, 1} /\ Cardinality(W) \in {0, 1}
        /\ Cardinality(E) \in {0, 1}
    BY <2>1, <2>2, AtMostOne
  <2>7. /\ Q = {} => Cardinality(Q) = 0
        /\ W = {} => Cardinality(W) = 0
        /\ E = {} => Cardinality(E) = 0
    BY FS_EmptySet
  <2> HIDE DEF Q, W, E
  <2>8. Cardinality(Q) + Cardinality(W) + Cardinality(E) <= 1
    BY <2>3, <2>4, <2>5, <2>6, <2>7
  <2>9. QED
    BY <2>8 DEF Q, W, E
<1>3. QED
  BY <1>1, <1>2 DEF JobsAreCarried, CarriedOnce

\* Every active job is in somebody's hands, but for the failures named, and in
\* the hands of one only, however many workers and requests there are.
THEOREM JobsAreCarriedHolds == Spec => []JobsAreCarried
<1>1. QED
  BY TypeInit, TypeStep, HandsInit, HandsStep, HandsAreOne, PTL DEF Spec

------------------------------------------------------------------------------
(* An object outlives its row.  The object key the cleanup deletes by is the one *)
(* the row had when it was listed, so what must be known of an object, before    *)
(* its row goes, is that the row knows it (or a worker is about to tell it), or  *)
(* that the cleanup still has its key, or that the loss has a name already.      *)
Explained(j) == j \in raised \cup stranded \cup cutShort

GoneIsExplained ==
  \A j \in Jobs : status[j] = "gone" /\ (Held(j) \/ j \in store) => Explained(j)

StoredHasRow == \A j \in store : status[j] # "none"

RowKnowsObject ==
  \A j \in store : HasRow(j) =>
    \/ Explained(j)
    \/ j \in keyed
    \/ \E w \in Workers : At(w, "mark") /\ worker[w].job = j

ListedIsWatched ==
  cleaner.pc = "purge" =>
    \A j \in cleaner.listed :
      /\ status[j] # "none"
      /\ Held(j) => j \in cutShort
      /\ j \in store => Explained(j) \/ j \in cleaner.keys

OrphanInv == GoneIsExplained /\ StoredHasRow /\ RowKnowsObject /\ ListedIsWatched

\* A held job has had its row inserted.
LEMMA HeldHasBeen ==
  ASSUME TypeOK, HandsInv, NEW j \in Jobs, Held(j)
  PROVE  status[j] # "none"
  BY DEF HandsInv, StatusFits, Held, Fits

\* A step outside the cleanup that puts nothing new into anybody's hands, stores
\* nothing and inserts or deletes no row.
LEMMA OrphanQuiet ==
  ASSUME TypeOK, OrphanInv,
         \A j \in Jobs : Held(j)' => Held(j),
         store' = store, cleaner' = cleaner, keyed \subseteq keyed',
         raised \subseteq raised', stranded \subseteq stranded', cutShort \subseteq cutShort',
         \A j \in Jobs : /\ status'[j] = "none" <=> status[j] = "none"
                         /\ status'[j] = "gone" <=> status[j] = "gone",
         \A w \in Workers : At(w, "mark") =>
           \/ worker'[w] = worker[w]
           \/ worker[w].job \in keyed' \cup raised'
           \/ status[worker[w].job] = "gone"
  PROVE  OrphanInv'
<1>1. \A j \in Jobs : Explained(j) => Explained(j)'
  BY DEF Explained
<1>2. \A j \in store : j \in Jobs
  BY DEF TypeOK
<1>3. GoneIsExplained'
  BY <1>1 DEF OrphanInv, GoneIsExplained
<1>4. StoredHasRow'
  BY <1>2 DEF OrphanInv, StoredHasRow
<1>5. ASSUME NEW j \in store, HasRow(j)'
      PROVE  \/ Explained(j)'
             \/ j \in keyed'
             \/ \E w \in Workers : worker'[w].pc = "mark" /\ worker'[w].job = j
  <2>1. HasRow(j)
    BY <1>2, <1>5 DEF HasRow
  <2>2. CASE Explained(j) \/ j \in keyed
    BY <1>1, <1>2, <2>2
  <2>3. ASSUME NEW w \in Workers, At(w, "mark"), worker[w].job = j
        PROVE  Explained(j)' \/ j \in keyed' \/ worker'[w] = worker[w]
    BY <2>1, <2>3 DEF HasRow, Explained
  <2>4. QED
    BY <2>1, <2>2, <2>3 DEF OrphanInv, RowKnowsObject, At
<1>6. RowKnowsObject'
  BY <1>5 DEF RowKnowsObject, At
<1>7. cleaner.listed \subseteq Jobs
  BY DEF TypeOK
<1>8. ListedIsWatched'
  BY <1>1, <1>7 DEF OrphanInv, ListedIsWatched
<1>9. QED
  BY <1>3, <1>4, <1>6, <1>8 DEF OrphanInv

\* The steps of a request store nothing; a new row was not listed.
LEMMA ReqOrphan ==
  ASSUME TypeOK, HandsInv, OrphanInv, NEW e \in Reqs, ReqStep(e)
  PROVE  OrphanInv'
<1> USE DEF rows, history
<1>1. /\ UNCHANGED <<store, cleaner, keyed, worker, stranded, cutShort>>
      /\ raised \subseteq raised'
  BY DEF ReqStep, CheckCapacity, InsertJob, InsertRaises, Submit, Reject, Raise
<1>2. CASE CheckCapacity(e) \/ Submit(e) \/ Reject(e)
  <2>1. \A j \in Jobs : /\ status'[j] = "none" <=> status[j] = "none"
                        /\ status'[j] = "gone" <=> status[j] = "gone"
    BY <1>2 DEF CheckCapacity, Submit, Reject, SetStatus, HasRow, TypeOK
  <2>3. \A f \in Reqs : req'[f].job \in {req[f].job, NoJob}
    BY <1>2 DEF CheckCapacity, Submit, Reject, TypeOK, Idle
  <2>4. \A j \in Jobs : j \in Elems(queue') => j \in Elems(queue) \/ req[e].job = j
    <3>1. CASE queue' = queue
      BY <3>1
    <3>2. CASE queue' = Append(queue, req[e].job) /\ Submit(e)
      <4>1. req[e].pc = "submit"
        BY <3>2 DEF Submit
      <4>2. req[e].job \in Jobs /\ queue \in Seq(Jobs)
        BY <4>1 DEF Idle, TypeOK
      <4>3. Elems(queue') = Elems(queue) \cup {req[e].job}
        BY <3>2, <4>2, QueueAppend
      <4>4. QED
        BY <4>3
    <3>3. QED
      BY <1>2, <3>1, <3>2 DEF CheckCapacity, Submit, Reject
  <2>5. \A j \in Jobs : Held(j)' => Held(j)
    BY <1>1, <2>3, <2>4, NoJobIsNoJob DEF Held
  <2>6. QED
    BY <1>1, <2>1, <2>5, OrphanQuiet
<1>3. CASE InsertJob(e) \/ InsertRaises(e)
  <2>1. PICK k \in Jobs :
          /\ status[k] = "none"
          /\ status' = [status EXCEPT ![k] = "queued"]
          /\ req' = [req EXCEPT ![e] = [pc |-> "submit", job |-> k]]
             \/ req' = [req EXCEPT ![e] = Idle]
    BY <1>3 DEF InsertJob, InsertRaises
  <2>2. UNCHANGED queue
    BY <1>3 DEF InsertJob, InsertRaises
  <2>3. /\ status'[k] = "queued"
        /\ \A j \in Jobs : j # k => status'[j] = status[j]
    BY <2>1 DEF TypeOK
  <2>4. \A f \in Reqs : req'[f].job \in {req[f].job, NoJob, k}
    BY <2>1 DEF TypeOK, Idle
  <2>5. \A j \in Jobs : Held(j)' => Held(j) \/ j = k
    BY <1>1, <2>2, <2>4, NoJobIsNoJob DEF Held
  <2>6. k \notin store /\ store \subseteq Jobs
    BY <2>1 DEF OrphanInv, StoredHasRow, TypeOK
  <2>7. \A j \in Jobs : Explained(j) => Explained(j)'
    BY <1>1 DEF Explained
  <2>8. GoneIsExplained'
    BY <1>1, <2>3, <2>5, <2>6, <2>7 DEF OrphanInv, GoneIsExplained
  <2>9. StoredHasRow'
    BY <1>1, <2>3, <2>6 DEF OrphanInv, StoredHasRow
  <2>10. RowKnowsObject'
    BY <1>1, <2>3, <2>6, <2>7 DEF OrphanInv, RowKnowsObject, HasRow, At
  <2>11. cleaner.pc = "purge" => k \notin cleaner.listed
    BY <2>1 DEF OrphanInv, ListedIsWatched
  <2>12. cleaner.listed \subseteq Jobs
    BY DEF TypeOK
  <2>13. ListedIsWatched'
    BY <1>1, <2>3, <2>5, <2>7, <2>11, <2>12 DEF OrphanInv, ListedIsWatched
  <2>14. QED
    BY <2>8, <2>9, <2>10, <2>13 DEF OrphanInv
<1>4. QED
  BY <1>2, <1>3 DEF ReqStep

\* A worker's step: it stores the object before the row learns of it, and every
\* way of losing it in between has raised.
LEMMA WorkerOrphan ==
  ASSUME TypeOK, HandsInv, OrphanInv, NEW w \in Workers, WorkerStep(w)
  PROVE  OrphanInv'
<1> DEFINE j == worker[w].job
<1> USE DEF rows, history
<1>1. ASSUME NEW pc \in BusyPcs, ~At(w, "idle"), GoOn(w, pc) \/ Rest(w),
             queue' = queue, req' = req
      PROVE  /\ \A v \in Workers : v # w => worker'[v] = worker[v]
             /\ worker'[w] = [pc |-> pc, job |-> j] \/ worker'[w] = Idle
             /\ GoOn(w, pc) => worker'[w] = [pc |-> pc, job |-> j]
             /\ j \in Jobs /\ Held(j) /\ status[j] # "none"
             /\ \A i \in Jobs : Held(i)' => Held(i)
  <2>1. worker[w] \in [pc : BusyPcs, job : Jobs] /\ j \in Jobs
    BY <1>1, BusyHasJob
  <2>2. [worker[w] EXCEPT !.pc = pc] = [pc |-> pc, job |-> j]
    BY <2>1
  <2>3. \A v \in Workers : v # w => worker'[v] = worker[v]
    BY <1>1 DEF GoOn, Rest, TypeOK
  <2>4. /\ worker'[w] = [pc |-> pc, job |-> j] \/ worker'[w] = Idle
        /\ GoOn(w, pc) => worker'[w] = [pc |-> pc, job |-> j]
    BY <1>1, <2>2 DEF GoOn, Rest, TypeOK
  <2>5. Held(j)
    BY DEF Held
  <2>6. \A v \in Workers : worker'[v].job \in {worker[v].job, NoJob}
    BY <2>3, <2>4 DEF Idle
  <2>7. \A i \in Jobs : Held(i)' => Held(i)
    BY <1>1, <2>6, NoJobIsNoJob DEF Held
  <2>8. QED
    BY <2>1, <2>3, <2>4, <2>5, <2>7, HeldHasBeen
<1>2. CASE TakeItem(w)
  <2>1. queue \in Seq(Jobs) /\ queue # <<>> /\ queue' = Tail(queue)
    BY <1>2 DEF TypeOK, TakeItem
  <2>2. Head(queue) \in Elems(queue) /\ Elems(queue') \subseteq Elems(queue)
    BY <2>1, QueueTake DEF HandsInv, QueuedOnce
  <2>3. /\ \A v \in Workers : v # w => worker'[v] = worker[v]
        /\ worker'[w].job = Head(queue)
    BY <1>2 DEF TakeItem, TypeOK
  <2>4. req' = req
    BY <1>2 DEF TakeItem
  <2>5. \A i \in Jobs : Held(i)' => Held(i)
    BY <2>2, <2>3, <2>4 DEF Held
  <2>6. \A v \in Workers : At(v, "mark") => worker'[v] = worker[v]
    BY <1>2, <2>3 DEF TakeItem, At
  <2>7. QED
    BY <1>2, <2>5, <2>6, OrphanQuiet DEF TakeItem
<1>3. ASSUME NEW s \in {"running", "done", "failed"}, SetStatus(j, s), j \in Jobs
      PROVE  \A i \in Jobs : /\ status'[i] = "none" <=> status[i] = "none"
                             /\ status'[i] = "gone" <=> status[i] = "gone"
  BY <1>3 DEF SetStatus, HasRow, TypeOK
<1>4. CASE Start(w) \/ Build(w) \/ MarkFailed(w)
  <2>1. PICK pc \in BusyPcs : GoOn(w, pc) \/ Rest(w)
    BY <1>4 DEF Start, Build, MarkFailed, BusyPcs
  <2>2. /\ ~At(w, "idle") /\ ~At(w, "mark")
        /\ UNCHANGED <<queue, req, store, cleaner, keyed, history>>
        /\ \E s \in {"running", "done", "failed"} : SetStatus(j, s)
    BY <1>4 DEF Start, Build, MarkFailed, At
  <2>3. /\ \A v \in Workers : v # w => worker'[v] = worker[v]
        /\ j \in Jobs
        /\ \A i \in Jobs : Held(i)' => Held(i)
    BY <1>1, <2>1, <2>2
  <2>4. \A v \in Workers : At(v, "mark") => worker'[v] = worker[v]
    BY <2>2, <2>3
  <2>5. \A i \in Jobs : /\ status'[i] = "none" <=> status[i] = "none"
                        /\ status'[i] = "gone" <=> status[i] = "gone"
    BY <1>3, <2>2, <2>3
  <2>6. QED
    BY <2>2, <2>3, <2>4, <2>5, OrphanQuiet
<1>5. CASE MarkDone(w)
  <2>1. /\ ~At(w, "idle") /\ GoOn(w, "notify") /\ "notify" \in BusyPcs
        /\ UNCHANGED <<queue, req, store, cleaner, history>>
        /\ SetStatus(j, "done")
    BY <1>5 DEF MarkDone, At, BusyPcs
  <2>2. /\ \A v \in Workers : v # w => worker'[v] = worker[v]
        /\ j \in Jobs /\ status[j] # "none"
        /\ \A i \in Jobs : Held(i)' => Held(i)
    BY <1>1, <2>1
  <2>3. /\ keyed \subseteq keyed'
        /\ HasRow(j) => j \in keyed'
    BY <1>5 DEF MarkDone
  <2>4. HasRow(j) \/ status[j] = "gone"
    BY <2>2 DEF HasRow
  <2>5. \A v \in Workers : At(v, "mark") =>
          \/ worker'[v] = worker[v]
          \/ worker[v].job \in keyed' \cup raised'
          \/ status[worker[v].job] = "gone"
    BY <2>2, <2>3, <2>4
  <2>6. \A i \in Jobs : /\ status'[i] = "none" <=> status[i] = "none"
                        /\ status'[i] = "gone" <=> status[i] = "gone"
    BY <1>3, <2>1, <2>2
  <2>7. QED
    BY <2>1, <2>2, <2>3, <2>5, <2>6, OrphanQuiet
<1>6. CASE Notified(w)
  <2>1. /\ ~At(w, "idle") /\ ~At(w, "mark") /\ Rest(w) /\ "fail" \in BusyPcs
        /\ UNCHANGED <<status, keyed, queue, req, store, cleaner, history>>
    BY <1>6 DEF Notified, At, BusyPcs
  <2>2. /\ \A v \in Workers : v # w => worker'[v] = worker[v]
        /\ \A i \in Jobs : Held(i)' => Held(i)
    BY <1>1, <2>1
  <2>3. QED
    BY <2>1, <2>2, OrphanQuiet
<1>7. ASSUME store' \in {store, store \cup {j}}, UNCHANGED <<status, keyed, cleaner>>,
             raised \subseteq raised', stranded' = stranded, cutShort' = cutShort,
             j \in Jobs, Held(j), status[j] # "none",
             \A i \in Jobs : Held(i)' => Held(i),
             \A v \in Workers : v # w => worker'[v] = worker[v],
             j \in raised' \/ (worker'[w] = [pc |-> "mark", job |-> j])
      PROVE  OrphanInv'
  <2>1. \A i \in Jobs : Explained(i) => Explained(i)'
    BY <1>7 DEF Explained
  <2>2. store' \subseteq Jobs /\ store \subseteq store' /\ store' \subseteq store \cup {j}
    BY <1>7 DEF TypeOK
  <2>3. GoneIsExplained'
    BY <1>7, <2>1, <2>2 DEF OrphanInv, GoneIsExplained
  <2>4. StoredHasRow'
    BY <1>7, <2>2 DEF OrphanInv, StoredHasRow
  <2>5. ASSUME NEW i \in store', HasRow(i)
        PROVE  \/ Explained(i)'
               \/ i \in keyed
               \/ \E v \in Workers : worker'[v].pc = "mark" /\ worker'[v].job = i
    <3>1. CASE i = j
      BY <1>7, <3>1 DEF Explained
    <3>2. CASE i # j
      <4>1. i \in store /\ i \in Jobs
        BY <2>2, <3>2
      <4>2. \/ Explained(i)
            \/ i \in keyed
            \/ \E v \in Workers : At(v, "mark") /\ worker[v].job = i
        BY <2>5, <4>1 DEF OrphanInv, RowKnowsObject
      <4>3. \A v \in Workers : At(v, "mark") /\ worker[v].job = i => worker'[v] = worker[v]
        BY <1>7, <3>2
      <4>4. QED
        BY <2>1, <4>1, <4>2, <4>3 DEF At
    <3>3. QED
      BY <3>1, <3>2
  <2>6. RowKnowsObject'
    BY <1>7, <2>5 DEF RowKnowsObject, HasRow, At
  <2>7. ASSUME cleaner.pc = "purge", NEW i \in cleaner.listed
        PROVE  /\ status[i] # "none"
               /\ Held(i)' => i \in cutShort
               /\ i \in store' => Explained(i)' \/ i \in cleaner.keys
    <3>1. i \in Jobs
      BY DEF TypeOK
    <3>2. /\ status[i] # "none"
          /\ Held(i) => i \in cutShort
          /\ i \in store => Explained(i) \/ i \in cleaner.keys
      BY <2>7 DEF OrphanInv, ListedIsWatched
    <3>3. i = j => Explained(i)'
      BY <1>7, <3>2 DEF Explained
    <3>4. QED
      BY <1>7, <2>1, <2>2, <3>1, <3>2, <3>3
  <2>8. ListedIsWatched'
    BY <1>7, <2>7 DEF ListedIsWatched
  <2>9. QED
    BY <2>3, <2>4, <2>6, <2>8 DEF OrphanInv
<1>8. CASE Upload(w)
  <2>1. /\ ~At(w, "idle") /\ GoOn(w, "mark") /\ "mark" \in BusyPcs
        /\ UNCHANGED <<status, keyed, queue, req, cleaner, history>>
        /\ store' = store \cup {j}
    BY <1>8 DEF Upload, At, BusyPcs
  <2>2. QED
    BY <1>1, <1>7, <2>1
<1>9. CASE CallRaises(w)
  <2>1. /\ ~At(w, "idle") /\ (GoOn(w, "fail") \/ Rest(w)) /\ "fail" \in BusyPcs
        /\ UNCHANGED <<status, keyed, queue, req, cleaner, stranded, cutShort>>
        /\ store' \in {store, store \cup {j}}
        /\ raised \subseteq raised' /\ j \in raised'
    BY <1>9 DEF CallRaises, Raise, At, BusyPcs
  <2>2. QED
    BY <1>1, <1>7, <2>1
<1>10. QED
  BY <1>2, <1>4, <1>5, <1>6, <1>8, <1>9 DEF WorkerStep

LEMMA CleanOrphan ==
  ASSUME TypeOK, HandsInv, OrphanInv, CleanStep
  PROVE  OrphanInv'
<1> USE DEF rows, history
<1>1. /\ UNCHANGED <<queue, worker, req, stranded>>
      /\ raised \subseteq raised' /\ cutShort \subseteq cutShort'
  BY DEF CleanStep, ListExpired, PurgeObject, DeleteRows, CleanupRaises, Raise
<1>2. \A j \in Jobs : Explained(j) => Explained(j)'
  BY <1>1 DEF Explained
<1>3. \A j \in Jobs : Held(j)' <=> Held(j)
  BY <1>1 DEF Held
<1>4. store \subseteq Jobs /\ cleaner.listed \subseteq Jobs
  BY DEF TypeOK
<1>5. CASE ListExpired
  <2>1. PICK ids \in SUBSET Jobs :
          /\ ids = {j \in expired : HasRow(j)}
          /\ cleaner' = [pc |-> "purge", listed |-> ids, keys |-> ids \cap keyed]
          /\ cutShort' = cutShort \cup {j \in ids : Carried(j)}
    BY <1>5 DEF ListExpired, TypeOK
  <2>2. UNCHANGED <<status, keyed, store, raised>>
    BY <1>5 DEF ListExpired
  <2>3. GoneIsExplained' /\ StoredHasRow' /\ RowKnowsObject'
    BY <1>1, <1>2, <1>3, <1>4, <2>2
       DEF OrphanInv, GoneIsExplained, StoredHasRow, RowKnowsObject, HasRow, At
  <2>4. ASSUME NEW j \in ids
        PROVE  /\ status[j] # "none"
               /\ Held(j) => j \in cutShort'
               /\ j \in store => Explained(j)' \/ j \in cleaner'.keys
    <3>1. j \in Jobs /\ HasRow(j)
      BY <2>1
    <3>2. Held(j) => j \in cutShort'
      BY <2>1, <3>1, CarriedIsHeld
    <3>3. ASSUME NEW w \in Workers, At(w, "mark"), worker[w].job = j
          PROVE  Held(j)
      BY <3>3 DEF Held
    <3>4. j \in store => Explained(j) \/ j \in keyed \/ Held(j)
      BY <3>1, <3>3 DEF OrphanInv, RowKnowsObject
    <3>5. QED
      BY <1>2, <2>1, <3>1, <3>2, <3>4 DEF HasRow, Explained
  <2>5. ListedIsWatched'
    BY <1>3, <2>1, <2>2, <2>4 DEF ListedIsWatched
  <2>6. QED
    BY <2>3, <2>5 DEF OrphanInv
<1>6. CASE PurgeObject
  <2>1. PICK k \in cleaner.keys :
          /\ cleaner' = [cleaner EXCEPT !.keys = @ \ {k}]
          /\ \/ store' = store \ {k}
             \/ Raise(k) /\ UNCHANGED store
    BY <1>6 DEF PurgeObject
  <2>2. /\ cleaner'.pc = cleaner.pc /\ cleaner'.listed = cleaner.listed
        /\ cleaner'.keys = cleaner.keys \ {k}
    BY <2>1 DEF TypeOK
  <2>3. UNCHANGED <<status, keyed>> /\ store' \subseteq store
    BY <1>6, <2>1 DEF PurgeObject
  <2>4. k \notin store' \/ Explained(k)'
    BY <2>1 DEF Raise, Explained
  <2>5. GoneIsExplained' /\ StoredHasRow' /\ RowKnowsObject'
    BY <1>1, <1>2, <1>3, <1>4, <2>3
       DEF OrphanInv, GoneIsExplained, StoredHasRow, RowKnowsObject, HasRow, At
  <2>6. ListedIsWatched'
    BY <1>1, <1>2, <1>3, <1>4, <2>2, <2>3, <2>4 DEF OrphanInv, ListedIsWatched
  <2>7. QED
    BY <2>5, <2>6 DEF OrphanInv
<1>7. CASE DeleteRows
  <2>1. /\ cleaner.pc = "purge" /\ cleaner.keys = {}
        /\ cleaner'.pc = "idle"
        /\ status' = [j \in Jobs |-> IF j \in cleaner.listed THEN "gone" ELSE status[j]]
        /\ keyed' = keyed \ cleaner.listed
        /\ store' = store
    BY <1>7 DEF DeleteRows, Resting
  <2>2. \A j \in cleaner.listed :
          /\ Held(j) => Explained(j)
          /\ j \in store => Explained(j)
    BY <2>1 DEF OrphanInv, ListedIsWatched, Explained
  <2>3. GoneIsExplained'
    BY <1>2, <1>3, <2>1, <2>2 DEF OrphanInv, GoneIsExplained
  <2>4. StoredHasRow'
    BY <1>4, <2>1 DEF OrphanInv, StoredHasRow
  <2>5. RowKnowsObject'
    BY <1>1, <1>2, <1>4, <2>1 DEF OrphanInv, RowKnowsObject, HasRow, At
  <2>6. ListedIsWatched'
    BY <2>1 DEF ListedIsWatched
  <2>7. QED
    BY <2>3, <2>4, <2>5, <2>6 DEF OrphanInv
<1>8. CASE CleanupRaises
  <2>1. cleaner'.pc = "idle" /\ UNCHANGED <<status, keyed, store>>
    BY <1>8 DEF CleanupRaises, Resting
  <2>2. QED
    BY <1>1, <1>2, <1>3, <1>4, <2>1
       DEF OrphanInv, GoneIsExplained, StoredHasRow, RowKnowsObject,
           ListedIsWatched, HasRow, At
<1>9. QED
  BY <1>5, <1>6, <1>7, <1>8 DEF CleanStep

LEMMA OrphanInit == Init => OrphanInv
  BY DEF Init, OrphanInv, GoneIsExplained, StoredHasRow, RowKnowsObject,
         ListedIsWatched, Resting

LEMMA OrphanStep == TypeOK /\ HandsInv /\ OrphanInv /\ [Next]_vars => OrphanInv'
<1> SUFFICES ASSUME TypeOK, HandsInv, OrphanInv, [Next]_vars PROVE OrphanInv'
  OBVIOUS
<1> USE DEF rows, history
<1>1. ASSUME UNCHANGED <<status, keyed, store, queue, worker, cleaner, history>>,
             \A e \in Reqs : req'[e].job \in {req[e].job, NoJob}
      PROVE  OrphanInv'
  <2>1. \A j \in Jobs : Held(j)' => Held(j)
    BY <1>1, NoJobIsNoJob DEF Held
  <2>2. QED
    BY <1>1, <2>1, OrphanQuiet
<1>2. ASSUME NEW e \in Reqs, NEW u \in Users, Enqueue(e, u) PROVE OrphanInv'
  <2>1. \A f \in Reqs : req'[f].job \in {req[f].job, NoJob}
    BY <1>2 DEF Enqueue, TypeOK
  <2>2. QED
    BY <1>1, <1>2, <2>1 DEF Enqueue
<1>3. ASSUME NEW e \in Reqs, ReqStep(e) PROVE OrphanInv'
  BY <1>3, ReqOrphan
<1>4. ASSUME NEW w \in Workers, WorkerStep(w) PROVE OrphanInv'
  BY <1>4, WorkerOrphan
<1>5. ASSUME NEW u \in Users, MarkAllRead(u) PROVE OrphanInv'
  BY <1>1, <1>5 DEF MarkAllRead
<1>6. ASSUME NEW j \in Jobs, MarkJobRead(j) \/ Expire(j) PROVE OrphanInv'
  BY <1>1, <1>6 DEF MarkJobRead, Expire
<1>7. CASE CleanStep
  BY <1>7, CleanOrphan
<1>8. CASE Crash
  <2>1. /\ Elems(queue') = {}
        /\ \A w \in Workers : worker'[w].job = NoJob
        /\ \A e \in Reqs : req'[e].job = NoJob
        /\ cleaner'.pc = "idle"
        /\ UNCHANGED <<status, keyed, store, raised, cutShort>>
        /\ stranded \subseteq stranded'
    BY <1>8 DEF Crash, Elems, Idle, Resting
  <2>2. \A j \in Jobs : Held(j) => j \in stranded'
    BY <1>8, CarriedIsHeld DEF Crash
  <2>3. \A j \in Jobs : Explained(j) => Explained(j)'
    BY <2>1 DEF Explained
  <2>4. \A w \in Workers : worker[w].job \in Jobs => Held(worker[w].job)
    BY DEF Held
  <2>5. store \subseteq Jobs
    BY DEF TypeOK
  <2>6. \A j \in Jobs : ~Held(j)'
    BY <2>1, NoJobIsNoJob DEF Held
  <2>7. GoneIsExplained'
    BY <2>1, <2>3, <2>6 DEF OrphanInv, GoneIsExplained
  <2>8. StoredHasRow' /\ ListedIsWatched'
    BY <2>1 DEF OrphanInv, StoredHasRow, ListedIsWatched
  <2>9. RowKnowsObject'
    BY <2>1, <2>2, <2>3, <2>4, <2>5 DEF OrphanInv, RowKnowsObject, HasRow, Explained
  <2>10. QED
    BY <2>7, <2>8, <2>9 DEF OrphanInv
<1>9. CASE UNCHANGED vars
  BY <1>1, <1>9 DEF vars
<1>10. QED
  BY <1>2, <1>3, <1>4, <1>5, <1>6, <1>7, <1>8, <1>9 DEF Next

\* An object whose row is gone has lost it for one of the reasons named.
THEOREM OrphanExplainedHolds == Spec => []OrphanExplained
<1>1. TypeOK /\ OrphanInv => OrphanExplained
  BY DEF TypeOK, OrphanInv, GoneIsExplained, OrphanExplained, Explained
<1>2. QED
  BY TypeInit, TypeStep, HandsInit, HandsStep, OrphanInit, OrphanStep, <1>1, PTL DEF Spec

------------------------------------------------------------------------------
(* The life of a row.  That a worker never fails a job another worker finished, *)
(* or runs one that a request has failed, is what the hands being disjoint buys. *)
LEMMA MovesStep == TypeOK /\ HandsInv /\ OrphanInv /\ [Next]_vars
                     => \A j \in Jobs : MovesAsBuilt(j)
<1> SUFFICES ASSUME TypeOK, HandsInv, OrphanInv, [Next]_vars, NEW j \in Jobs
             PROVE  MovesAsBuilt(j)
  OBVIOUS
<1> USE DEF rows, MovesAsBuilt
<1>1. CASE status' = status
  BY <1>1
<1>2. ASSUME NEW e \in Reqs, ReqStep(e) PROVE MovesAsBuilt(j)
  <2>1. CASE InsertJob(e) \/ InsertRaises(e)
    BY <2>1 DEF InsertJob, InsertRaises, TypeOK
  <2>2. CASE Reject(e)
    <3>1. PICK k \in Jobs : req[e].job = k
      BY <2>2 DEF Reject, Idle, TypeOK
    <3>2. status[k] \in {"queued", "gone"}
      BY <3>1 DEF HandsInv, StatusFits
    <3>3. QED
      BY <2>2, <3>1, <3>2 DEF Reject, SetStatus, HasRow, TypeOK
  <2>3. CASE CheckCapacity(e) \/ Submit(e)
    BY <2>3 DEF CheckCapacity, Submit
  <2>4. QED
    BY <1>2, <2>1, <2>2, <2>3 DEF ReqStep
<1>3. ASSUME NEW w \in Workers, WorkerStep(w) PROVE MovesAsBuilt(j)
  <2>1. CASE status' = status
    BY <2>1
  <2>2. CASE Start(w) \/ Build(w) \/ MarkDone(w) \/ MarkFailed(w)
    <3>1. ~At(w, "idle")
      BY <2>2 DEF Start, Build, MarkDone, MarkFailed, At
    <3>2. PICK k \in Jobs : worker[w].job = k
      BY <3>1, BusyHasJob
    <3>3. status[k] \in Fits(worker[w].pc)
      BY <3>2 DEF HandsInv, StatusFits
    <3>4. CASE Start(w) \/ Build(w)
      BY <3>2, <3>3, <3>4 DEF Start, Build, At, SetStatus, HasRow, Fits, TypeOK
    <3>5. CASE MarkDone(w)
      BY <3>2, <3>3, <3>5 DEF MarkDone, At, SetStatus, HasRow, Fits, TypeOK
    <3>6. CASE MarkFailed(w)
      BY <3>2, <3>3, <3>6 DEF MarkFailed, At, SetStatus, HasRow, Fits, TypeOK
    <3>7. QED
      BY <2>2, <3>4, <3>5, <3>6
  <2>3. QED
    BY <1>3, <2>1, <2>2 DEF WorkerStep, TakeItem, Upload, Notified, CallRaises
<1>4. CASE CleanStep
  <2>1. CASE DeleteRows
    BY <2>1 DEF DeleteRows, OrphanInv, ListedIsWatched, TypeOK
  <2>2. QED
    BY <1>1, <1>4, <2>1 DEF CleanStep, ListExpired, PurgeObject, CleanupRaises
<1>5. QED
  BY <1>1, <1>2, <1>3, <1>4
     DEF Next, Enqueue, MarkAllRead, MarkJobRead, Expire, Crash, vars

\* A row's status takes no step but those of the life cycle as built.
THEOREM LifecycleHolds == Spec => LifecycleAsBuilt
<1>1. TypeOK /\ HandsInv /\ OrphanInv /\ [Next]_vars
        => [\A j \in Jobs : MovesAsBuilt(j)]_vars
  BY MovesStep
<1>2. QED
  BY TypeInit, TypeStep, HandsInit, HandsStep, OrphanInit, OrphanStep, <1>1, PTL
     DEF Spec, LifecycleAsBuilt
==============================================================================
