---------------------------- MODULE Promises_proofs ----------------------------
(***************************************************************************)
(* Proofs about the behaviors of PromisesSpec, each of JobLoops, of        *)
(* RealtimeClient or of ExportBadge: the loops, the requests and the row   *)
(* agree, one socket is heard, told what is wanted and kept alive, and the *)
(* badge catches up with the exports, for any number of requests and loop  *)
(* tasks, of sockets, channels and components, of exports and visits, and  *)
(* whatever the fairness.                                                  *)
(***************************************************************************)
EXTENDS MC_Promises, TLAPS

------------------------------------------------------------------------------
(* JobLoops.                                                                  *)


LoopStates == {"none", "waiting", "dispatching", "cancelling", "died"}
Writing == [pc : {"update", "reread"}, body : Bodies]
Stopping == [pc : {"awaitStop"}, target : Loops, cron : Crons,
             then : {"idle", "create", "start"}]
ReqStates == {Idle} \cup Writing \cup Stopping \cup [pc : {"refresh"}]

LEMMA TypeParts ==
  TypeOK <=> /\ up \in BOOLEAN /\ enabled \in BOOLEAN /\ cron \in Crons
             /\ tracked \in Loops \cup {NoLoop} /\ cronExpr \in Crons \cup {Unset}
             /\ loop \in [Loops -> LoopStates] /\ req \in [Admins -> ReqStates]
             /\ forgotten \subseteq Loops /\ raced \in BOOLEAN
  BY DEF TypeOK, LoopStates, ReqStates, Writing, Stopping

\* What a request is, by where it is.
LEMMA ReqAt ==
  ASSUME TypeOK, NEW a \in Admins
  PROVE  /\ req[a].pc \in {"update", "reread"} =>
              /\ req[a] \in Writing /\ req[a].body \in Bodies
              /\ req[a].body.enabled \in BOOLEAN \cup {Unset}
              /\ req[a].body.cron \in Crons \cup {Unset}
         /\ req[a].pc = "awaitStop" =>
              /\ req[a] \in Stopping /\ req[a].target \in Loops
              /\ req[a].cron \in Crons /\ req[a].then \in {"idle", "create", "start"}
         /\ req[a].pc \in {"idle", "update", "reread", "awaitStop", "refresh"}
         /\ req[a].pc = "idle" <=> req[a] = Idle
<1>1. req[a] \in ReqStates
  BY TypeParts
<1>2. \/ req[a] = Idle
      \/ req[a] \in Writing
      \/ req[a] \in Stopping
      \/ req[a] \in [pc : {"refresh"}]
  BY <1>1 DEF ReqStates
<1>3. CASE req[a] = Idle
  BY <1>3 DEF Idle
<1>4. CASE req[a] \in Writing
  <2>1. req[a].pc \in {"update", "reread"} /\ req[a].body \in Bodies
    BY <1>4 DEF Writing
  <2>2. QED
    BY <1>4, <2>1, BodyTypes DEF Idle
<1>5. CASE req[a] \in Stopping
  BY <1>5 DEF Stopping, Idle
<1>6. CASE req[a] \in [pc : {"refresh"}]
  BY <1>6 DEF Idle
<1>7. QED
  BY <1>2, <1>3, <1>4, <1>5, <1>6

\* A new task is a loop nobody refers to, as long as there is one.
LEMMA FreshIsFresh ==
  ASSUME \E l \in Loops : Fresh(l)
  PROVE  FreshLoop \in Loops /\ Fresh(FreshLoop)
  BY DEF FreshLoop

------------------------------------------------------------------------------
(* Types.                                                                     *)

LEMMA CreateTyped ==
  ASSUME TypeOK, NEW a \in Admins, NEW c \in Crons, Create(a, c), UNCHANGED <<up, row, raced>>
  PROVE  TypeOK'
<1>1. FreshLoop \in Loops
  BY FreshIsFresh DEF Create
<1>2. [pc |-> "refresh"] \in ReqStates
  BY DEF ReqStates
<1>3. loop' \in [Loops -> LoopStates] /\ req' \in [Admins -> ReqStates]
  BY <1>1, <1>2, TypeParts DEF Create, LoopStates
<1>4. forgotten' \subseteq Loops
  BY <1>1, TypeParts DEF Create
<1>5. QED
  BY <1>1, <1>3, <1>4 DEF Create, TypeOK, LoopStates, ReqStates, Writing, Stopping, row

LEMMA CancelTyped ==
  ASSUME TypeOK, NEW a \in Admins, NEW c \in Crons, NEW then \in {"idle", "create", "start"},
         CancelTracked(a, then, c), UNCHANGED <<up, row, raced>>
  PROVE  TypeOK'
<1>1. tracked \in Loops
  BY TypeParts DEF CancelTracked, IsActive
<1>2. [pc |-> "awaitStop", target |-> tracked, then |-> then, cron |-> c] \in ReqStates
  BY <1>1 DEF ReqStates, Stopping
<1>3. loop' \in [Loops -> LoopStates] /\ req' \in [Admins -> ReqStates]
  BY <1>1, <1>2, TypeParts DEF CancelTracked, LoopStates
<1>4. QED
  BY <1>3 DEF CancelTracked, TypeOK, LoopStates, ReqStates, Writing, Stopping, row

LEMMA EndTyped ==
  ASSUME TypeOK, NEW a \in Admins, ForgetTracked(a) \/ Finish(a), UNCHANGED <<up, row, raced>>
  PROVE  TypeOK'
<1>1. req' \in [Admins -> ReqStates]
  BY TypeParts DEF ForgetTracked, Finish, ReqStates
<1>2. QED
  BY <1>1 DEF ForgetTracked, Finish, TypeOK, ReqStates, Writing, Stopping, row, memory

LEMMA StartTyped ==
  ASSUME TypeOK, NEW a \in Admins, NEW c \in Crons, StartJob(a, c), UNCHANGED <<up, row, raced>>
  PROVE  TypeOK'
  BY CreateTyped, CancelTyped, EndTyped DEF StartJob

\* A process that is down has no tasks and serves nobody, so the loops the next
\* startup creates are new.
DownIsEmpty ==
  ~up => /\ tracked = NoLoop
         /\ \A l \in Loops : loop[l] = "none"
         /\ \A a \in Admins : req[a] = Idle

LEMMA DownInit == Init => TypeOK /\ DownIsEmpty
  BY DEF Init, TypeOK, DownIsEmpty

LEMMA DownStep == TypeOK /\ DownIsEmpty /\ [Next]_vars => DownIsEmpty'
<1> SUFFICES ASSUME TypeOK, DownIsEmpty, [Next]_vars, ~up' PROVE DownIsEmpty'
  BY DEF DownIsEmpty
<1>1. CASE ProcessEnds
  BY <1>1 DEF ProcessEnds, DownIsEmpty
<1>2. CASE UNCHANGED vars
  BY <1>2 DEF vars, DownIsEmpty, memory
<1>3. ASSUME ~up, NEW a \in Admins, Request(a) PROVE FALSE
  BY <1>3 DEF Request, Update, Reread, StopAwaited, Refresh, DownIsEmpty, Idle
<1>4. ASSUME ~up, NEW l \in Loops, LoopStep(l) PROVE FALSE
  BY <1>4 DEF LoopStep, Fire, Dispatched, CancelDelivered, DownIsEmpty
<1>5. \/ ProcessEnds
      \/ UNCHANGED vars
      \/ ~up /\ \E a \in Admins : Request(a)
      \/ ~up /\ \E l \in Loops : LoopStep(l)
  BY DEF Next, Submit, Request, Update, Reread, StopAwaited, Refresh, LoopStep,
         Fire, Dispatched, CancelDelivered, Startup
<1>6. QED
  BY <1>1, <1>2, <1>3, <1>4, <1>5

LEMMA StartsFresh ==
  ASSUME TypeOK, DownIsEmpty, ~up
  PROVE  FreshLoop \in Loops /\ Fresh(FreshLoop)
<1>1. PICK l \in Loops : TRUE
  BY LoopsExist
<1>2. Fresh(l)
  BY <1>1, MarkersAreNew DEF DownIsEmpty, Fresh, Done, Idle
<1>3. QED
  BY <1>2, FreshIsFresh

LEMMA TypeStep == TypeOK /\ DownIsEmpty /\ [Next]_vars => TypeOK'
<1> SUFFICES ASSUME TypeOK, DownIsEmpty, [Next]_vars PROVE TypeOK'
  OBVIOUS
<1>1. ASSUME NEW a \in Admins, NEW b \in Bodies, Submit(a, b) PROVE TypeOK'
  <2>1. [pc |-> "update", body |-> b] \in ReqStates
    BY DEF ReqStates, Writing
  <2>2. req' \in [Admins -> ReqStates]
    BY <1>1, <2>1, TypeParts DEF Submit
  <2>3. raced' \in BOOLEAN
    BY <1>1 DEF Submit
  <2>4. QED
    BY <1>1, <2>2, <2>3 DEF Submit, TypeOK, ReqStates, Writing, Stopping, row, memory
<1>2. ASSUME NEW a \in Admins, Update(a) PROVE TypeOK'
  <2>1. PICK b \in Bodies : /\ req[a] = [pc |-> "update", body |-> b]
                            /\ b.enabled \in BOOLEAN \cup {Unset}
                            /\ b.cron \in Crons \cup {Unset}
    BY <1>2, ReqAt DEF Update, Writing
  <2>2. [req[a] EXCEPT !.pc = "reread"] \in ReqStates /\ Idle \in ReqStates
    BY <2>1 DEF ReqStates, Writing
  <2>3. req' \in [Admins -> ReqStates]
    BY <1>2, <2>2, TypeParts DEF Update
  <2>4. enabled' \in BOOLEAN /\ cron' \in Crons
    BY <1>2, <2>1, TypeParts DEF Update, row
  <2>5. QED
    BY <1>2, <2>3, <2>4 DEF Update, TypeOK, ReqStates, Writing, Stopping, memory
<1>3. ASSUME NEW a \in Admins, Reread(a) PROVE TypeOK'
  BY <1>3, TypeParts, StartTyped, CancelTyped, EndTyped DEF Reread
<1>4. ASSUME NEW a \in Admins, StopAwaited(a) PROVE TypeOK'
  <2>1. req[a].cron \in Crons
    BY <1>4, ReqAt DEF StopAwaited
  <2>2. QED
    BY <1>4, <2>1, CreateTyped, StartTyped, EndTyped DEF StopAwaited
<1>5. ASSUME NEW a \in Admins, Refresh(a) PROVE TypeOK'
  BY <1>5, EndTyped DEF Refresh, Finish
<1>6. ASSUME NEW l \in Loops, LoopStep(l) PROVE TypeOK'
  <2>1. loop' \in [Loops -> LoopStates]
    BY <1>6, TypeParts DEF LoopStep, Fire, Dispatched, CancelDelivered, LoopStates
  <2>2. forgotten' \subseteq Loops
    BY <1>6, TypeParts DEF LoopStep, Fire, Dispatched, CancelDelivered
  <2>3. UNCHANGED <<up, row, tracked, cronExpr, req, raced>>
    BY <1>6 DEF LoopStep, Fire, Dispatched, CancelDelivered
  <2>4. QED
    BY <2>1, <2>2, <2>3 DEF TypeOK, LoopStates, row
<1>7. CASE Startup
  <2>1. FreshLoop \in Loops
    BY <1>7, StartsFresh DEF Startup
  <2>2. loop' \in [Loops -> LoopStates] /\ tracked' \in Loops \cup {NoLoop}
        /\ cronExpr' \in Crons \cup {Unset} /\ up' \in BOOLEAN
    BY <1>7, <2>1, TypeParts DEF Startup, LoopStates
  <2>3. QED
    BY <1>7, <2>2 DEF Startup, TypeOK, LoopStates, row
<1>8. CASE ProcessEnds
  BY <1>8 DEF ProcessEnds, TypeOK, row
<1>9. CASE UNCHANGED vars
  BY <1>9 DEF vars, TypeOK, row, memory
<1>10. QED
  BY <1>1, <1>2, <1>3, <1>4, <1>5, <1>6, <1>7, <1>8, <1>9 DEF Next, Request

------------------------------------------------------------------------------
(* LoopsAgree speaks of the moments between requests.  Within one, what holds   *)
(* depends on where it is suspended: after the UPDATE the row is ahead of the   *)
(* memory by what the body wrote, and while the end of a loop is awaited no     *)
(* loop runs.  That holds for a request that is alone; once requests have       *)
(* overlapped, all that is left is that a loop that runs is tracked or has      *)
(* been forgotten.                                                              *)
OneRequest ==
  ~raced => \A a, b \in Admins : req[a] # Idle /\ req[b] # Idle => a = b

TrackedIsAlive == tracked # NoLoop => loop[tracked] \in {"waiting", "dispatching", "died"}

Match ==
  /\ enabled => \/ tracked # NoLoop /\ loop[tracked] = "died"
                \/ IsActive /\ cronExpr = cron
  /\ ~enabled => \A l \in Loops : ~Running(l)

Written(b) ==
  /\ b.enabled # Unset => enabled = b.enabled
  /\ b.cron # Unset => cron = b.cron
  /\ b.enabled = Unset => /\ b.cron = Unset => Match
                          /\ enabled => tracked # NoLoop
                          /\ ~enabled => \A l \in Loops : ~Running(l)

OnTheWay(a) ==
  /\ req[a].pc \in {"update", "refresh"} => Match
  /\ req[a].pc = "reread" => Written(req[a].body)
  /\ req[a].pc = "awaitStop" => /\ tracked = NoLoop
                                /\ req[a].then = "idle" <=> ~enabled
                                /\ req[a].then # "idle" => req[a].cron = cron

InStep ==
  up /\ ~raced => /\ (\A a \in Admins : req[a] = Idle) => Match
                  /\ \A a \in Admins : OnTheWay(a)

LoopInv == OneRequest /\ TrackedIsAlive /\ RunningIsTracked /\ InStep

\* A step of a request that is alone has to answer for itself only.
LEMMA OwnStep ==
  ASSUME LoopInv, NEW a \in Admins, req[a] # Idle, up' = up, raced' = raced,
         \A b \in Admins : b # a => req'[b] = req[b],
         TrackedIsAlive', RunningIsTracked',
         ~raced => OnTheWay(a)' /\ (req'[a] = Idle => Match')
  PROVE  LoopInv'
<1>1. OneRequest'
  BY DEF LoopInv, OneRequest
<1>2. ~raced => \A b \in Admins : b # a => req'[b] = Idle
  BY DEF LoopInv, OneRequest
<1>3. \A b \in Admins : req'[b] = Idle => OnTheWay(b)'
  BY DEF OnTheWay, Idle
<1>4. InStep'
  BY <1>2, <1>3 DEF InStep
<1>5. QED
  BY <1>1, <1>4 DEF LoopInv

\* Creating a loop: with a request alone there is none to lose.
LEMMA CreateKeeps ==
  ASSUME TypeOK, LoopInv, NEW a \in Admins, NEW c \in Crons, req[a] # Idle, Create(a, c),
         UNCHANGED <<up, row, raced>>, IsActive => raced,
         ~raced => enabled /\ c = cron
  PROVE  LoopInv'
<1> DEFINE new == FreshLoop
<1>1. new \in Loops /\ Fresh(new)
  BY FreshIsFresh DEF Create
<1>2. /\ tracked' = new /\ cronExpr' = c
      /\ loop'[new] = "waiting"
      /\ \A l \in Loops : l # new => loop'[l] = loop[l]
      /\ req'[a] = [pc |-> "refresh"]
      /\ \A b \in Admins : b # a => req'[b] = req[b]
  BY <1>1, TypeParts DEF Create
<1>3. TrackedIsAlive'
  BY <1>2 DEF TrackedIsAlive
<1>4. ASSUME NEW l \in Loops, Running(l)', l # new
      PROVE  l \in forgotten' /\ raced
  <2>1. Running(l)
    BY <1>2, <1>4 DEF Running
  <2>2. l = tracked \/ (l \in forgotten /\ raced)
    BY <2>1 DEF LoopInv, RunningIsTracked
  <2>3. CASE l = tracked
    <3>1. IsActive
      BY <2>1, <2>3, MarkersAreNew DEF IsActive, Done, Running
    <3>2. QED
      BY <1>4, <2>3, <3>1 DEF Create
  <2>4. CASE l \in forgotten /\ raced
    BY <1>4, <2>4 DEF Create
  <2>5. QED
    BY <2>2, <2>3, <2>4
<1>5. RunningIsTracked'
  BY <1>2, <1>4 DEF RunningIsTracked
<1>6. ~raced => Match'
  BY <1>1, <1>2, MarkersAreNew DEF Match, IsActive, Done, row
<1>7. ~raced => OnTheWay(a)' /\ (req'[a] = Idle => Match')
  BY <1>2, <1>6 DEF OnTheWay
<1>8. QED
  BY <1>2, <1>3, <1>5, <1>7, OwnStep

\* Cancelling the tracked loop: from then on none runs, unless forgotten ones do.
LEMMA CancelKeeps ==
  ASSUME TypeOK, LoopInv, NEW a \in Admins, NEW c \in Crons,
         NEW then \in {"idle", "create", "start"}, req[a] # Idle,
         CancelTracked(a, then, c), UNCHANGED <<up, row, raced>>,
         ~raced => (then = "idle" <=> ~enabled) /\ (then # "idle" => c = cron)
  PROVE  LoopInv'
<1>1. tracked \in Loops
  BY TypeParts DEF CancelTracked, IsActive
<1>2. /\ tracked' = NoLoop /\ forgotten' = forgotten
      /\ loop'[tracked] = "cancelling"
      /\ \A l \in Loops : l # tracked => loop'[l] = loop[l]
      /\ req'[a] = [pc |-> "awaitStop", target |-> tracked, then |-> then, cron |-> c]
      /\ \A b \in Admins : b # a => req'[b] = req[b]
  BY <1>1, TypeParts DEF CancelTracked
<1>3. TrackedIsAlive'
  BY <1>2 DEF TrackedIsAlive
<1>4. RunningIsTracked'
  BY <1>2 DEF LoopInv, RunningIsTracked, Running
<1>5. ~raced => OnTheWay(a)' /\ (req'[a] = Idle => Match')
  BY <1>2 DEF OnTheWay, Idle, row
<1>6. QED
  BY <1>2, <1>3, <1>4, <1>5, OwnStep

\* A request that ends with nothing running, or with nothing to do.
LEMMA EndKeeps ==
  ASSUME TypeOK, LoopInv, NEW a \in Admins, req[a] # Idle,
         UNCHANGED <<up, row, raced>>,
         \/ ForgetTracked(a) /\ (~raced => ~enabled)
         \/ Finish(a) /\ (~raced => Match)
  PROVE  LoopInv'
<1>1. /\ req'[a] = Idle /\ UNCHANGED <<loop, forgotten>>
      /\ \A b \in Admins : b # a => req'[b] = req[b]
  BY TypeParts DEF ForgetTracked, Finish, memory
<1>2. CASE ForgetTracked(a) /\ (~raced => ~enabled)
  <2>1. tracked' = NoLoop /\ ~IsActive
    BY <1>2 DEF ForgetTracked
  <2>2. tracked \in Loops => ~Running(tracked)
    BY <2>1, MarkersAreNew DEF IsActive, Done, Running
  <2>3. RunningIsTracked'
    BY <1>1, <2>1, <2>2 DEF LoopInv, RunningIsTracked, Running
  <2>4. TrackedIsAlive'
    BY <2>1 DEF TrackedIsAlive
  <2>5. \A l \in Loops : Running(l) => raced
    BY <2>2 DEF LoopInv, RunningIsTracked
  <2>6. ~raced => Match'
    BY <1>1, <1>2, <2>5 DEF Match, Running, row
  <2>7. OnTheWay(a)'
    BY <1>1 DEF OnTheWay, Idle
  <2>8. QED
    BY <1>1, <2>3, <2>4, <2>6, <2>7, OwnStep
<1>3. CASE Finish(a) /\ (~raced => Match)
  <2>1. UNCHANGED memory
    BY <1>3 DEF Finish
  <2>2. TrackedIsAlive' /\ RunningIsTracked'
    BY <2>1 DEF LoopInv, TrackedIsAlive, RunningIsTracked, Running, memory
  <2>3. ~raced => Match'
    BY <1>3, <2>1 DEF Match, Running, IsActive, Done, memory, row
  <2>4. OnTheWay(a)'
    BY <1>1 DEF OnTheWay, Idle
  <2>5. QED
    BY <1>1, <2>2, <2>3, <2>4, OwnStep
<1>4. QED
  BY <1>2, <1>3

\* _start_job, entered with the cron of the row.
LEMMA StartKeeps ==
  ASSUME TypeOK, LoopInv, NEW a \in Admins, NEW c \in Crons, req[a] # Idle,
         StartJob(a, c), UNCHANGED <<up, row, raced>>,
         ~raced => enabled /\ c = cron
  PROVE  LoopInv'
<1>1. CASE IsActive /\ cronExpr = c /\ Finish(a)
  <2>1. ~raced => Match
    BY <1>1 DEF Match
  <2>2. QED
    BY <1>1, <2>1, EndKeeps
<1>2. CASE IsActive /\ cronExpr # c /\ CancelTracked(a, "create", c)
  BY <1>2, CancelKeeps
<1>3. CASE ~IsActive /\ Create(a, c)
  BY <1>3, CreateKeeps
<1>4. QED
  BY <1>1, <1>2, <1>3 DEF StartJob

\* A loop moves on, dies or ends: none starts to run, and the tracked one runs
\* on unless it dies.
LEMMA LoopKeeps ==
  ASSUME TypeOK, LoopInv, NEW l \in Loops, LoopStep(l)
  PROVE  LoopInv'
<1>1. UNCHANGED <<up, enabled, cron, tracked, cronExpr, req, raced>>
  BY DEF LoopStep, Fire, Dispatched, CancelDelivered, row
<1>2. /\ \A m \in Loops : m # l => loop'[m] = loop[m]
      /\ \/ Running(l) /\ loop'[l] \in {"waiting", "dispatching", "died"}
         \/ loop[l] = "cancelling" /\ loop'[l] = "none"
  BY TypeParts DEF LoopStep, Fire, Dispatched, CancelDelivered, Running
<1>3. \A m \in Loops : Running(m)' => Running(m) /\ (m \in forgotten => m \in forgotten')
  <2>1. \A m \in Loops : Running(m)' => Running(m)
    BY <1>2 DEF Running
  <2>2. CASE Fire(l)
    BY <2>1, <2>2 DEF Fire
  <2>3. CASE Dispatched(l)
    BY <2>1, <2>3 DEF Dispatched, Running
  <2>4. CASE CancelDelivered(l)
    BY <1>2, <2>1, <2>4 DEF CancelDelivered, Running
  <2>5. QED
    BY <2>2, <2>3, <2>4 DEF LoopStep
<1>4. RunningIsTracked'
  BY <1>1, <1>3 DEF LoopInv, RunningIsTracked
<1>5. tracked # NoLoop =>
        /\ loop'[tracked] \in {"waiting", "dispatching", "died"}
        /\ loop[tracked] = "died" => loop'[tracked] = "died"
  BY <1>2, TypeParts DEF LoopInv, TrackedIsAlive, Running
<1>6. TrackedIsAlive'
  BY <1>1, <1>5 DEF TrackedIsAlive
<1>7. ASSUME Match PROVE Match'
  <2>1. enabled => \/ tracked # NoLoop /\ loop'[tracked] = "died"
                   \/ IsActive' /\ cronExpr = cron
    BY <1>1, <1>5, <1>7 DEF Match, IsActive, Done
  <2>2. ~enabled => \A m \in Loops : ~Running(m)'
    BY <1>3, <1>7 DEF Match
  <2>3. QED
    BY <1>1, <2>1, <2>2 DEF Match
<1>8. ASSUME NEW b, Written(b) PROVE Written(b)'
  BY <1>1, <1>3, <1>7, <1>8 DEF Written
<1>9. \A a \in Admins : OnTheWay(a) => OnTheWay(a)'
  BY <1>1, <1>7, <1>8 DEF OnTheWay
<1>10. InStep'
  BY <1>1, <1>7, <1>9 DEF LoopInv, InStep
<1>11. OneRequest'
  BY <1>1 DEF LoopInv, OneRequest
<1>12. QED
  BY <1>4, <1>6, <1>10, <1>11 DEF LoopInv

\* The steps of a request.
LEMMA RequestKeeps ==
  ASSUME TypeOK, DownIsEmpty, LoopInv, NEW a \in Admins, Request(a)
  PROVE  LoopInv'
<1>1. /\ req[a] # Idle
      /\ UNCHANGED <<up, raced>>
  BY DEF Request, Update, Reread, StopAwaited, Refresh, Idle
<1>2. ~raced => OnTheWay(a)
  BY <1>1 DEF LoopInv, InStep, DownIsEmpty
<1>3. ASSUME ~raced, tracked = NoLoop PROVE \A l \in Loops : ~Running(l)
  BY <1>3, MarkersAreNew DEF LoopInv, RunningIsTracked
<1>4. CASE Update(a)
  <2> DEFINE b == req[a].body
  <2>1. /\ req[a] \in Writing /\ b \in Bodies
        /\ req[a].pc = "update" /\ b.enabled \in BOOLEAN \cup {Unset}
        /\ b.cron \in Crons \cup {Unset}
    BY <1>4, ReqAt DEF Update
  <2>2. /\ UNCHANGED memory
        /\ \A o \in Admins : o # a => req'[o] = req[o]
    BY <1>4, TypeParts DEF Update
  <2>3. TrackedIsAlive' /\ RunningIsTracked'
    BY <1>1, <2>2 DEF LoopInv, TrackedIsAlive, RunningIsTracked, Running, memory
  <2>4. ~raced => Match
    BY <1>2, <2>1 DEF OnTheWay
  <2>5. Match /\ row' = row => Match'
    BY <2>2 DEF Match, Running, IsActive, Done, memory, row
  <2>6. CASE req' = [req EXCEPT ![a] = Idle] /\ UNCHANGED row
    <3>1. req'[a] = Idle
      BY <2>6, TypeParts
    <3>2. OnTheWay(a)'
      BY <3>1 DEF OnTheWay, Idle
    <3>3. QED
      BY <1>1, <2>2, <2>3, <2>4, <2>5, <2>6, <3>2, OwnStep
  <2>7. CASE /\ enabled' = IF b.enabled = Unset THEN enabled ELSE b.enabled
             /\ cron' = IF b.cron = Unset THEN cron ELSE b.cron
             /\ req' = [req EXCEPT ![a].pc = "reread"]
    <3>1. req'[a].pc = "reread" /\ req'[a].body = b
      BY <2>1, <2>7, TypeParts DEF Writing
    <3>2. b.enabled = Unset /\ b.cron = Unset => row' = row
      BY <2>7 DEF row
    <3>3. tracked' = tracked /\ \A l \in Loops : Running(l)' <=> Running(l)
      BY <2>2 DEF memory, Running
    <3>4. Match => (enabled => tracked # NoLoop)
      BY DEF Match, IsActive
    <3>5. Match => (~enabled => \A l \in Loops : ~Running(l))
      BY DEF Match
    <3>6. ASSUME ~raced PROVE Written(b)'
      BY <2>4, <2>5, <2>7, <3>2, <3>3, <3>4, <3>5, <3>6 DEF Written
    <3>7. ~raced => OnTheWay(a)'
      BY <3>1, <3>6 DEF OnTheWay
    <3>8. req'[a] # Idle
      BY <3>1 DEF Idle
    <3>9. QED
      BY <1>1, <2>2, <2>3, <3>7, <3>8, OwnStep
  <2>8. QED
    BY <1>4, <2>6, <2>7 DEF Update
<1>5. CASE Reread(a)
  <2> DEFINE b == req[a].body
  <2>1. UNCHANGED <<up, row, raced>> /\ cron \in Crons
    BY <1>5, TypeParts DEF Reread
  <2>2. ~raced => Written(b)
    BY <1>2, <1>5 DEF Reread, OnTheWay
  <2>3. TRUE # Unset /\ FALSE # Unset
    BY MarkersAreNew
  <2>4. CASE b.enabled = TRUE /\ StartJob(a, cron)
    BY <1>1, <2>1, <2>2, <2>3, <2>4, StartKeeps DEF Written
  <2>5. CASE b.enabled = FALSE /\ (CancelTracked(a, "idle", cron) \/ ForgetTracked(a))
    <3>1. ~raced => ~enabled
      BY <2>2, <2>3, <2>5 DEF Written
    <3>2. CASE CancelTracked(a, "idle", cron)
      BY <1>1, <2>1, <3>1, <3>2, CancelKeeps
    <3>3. CASE ForgetTracked(a)
      BY <1>1, <2>1, <3>1, <3>3, EndKeeps
    <3>4. QED
      BY <2>5, <3>2, <3>3
  <2>6. CASE b.enabled = Unset /\ CancelTracked(a, "start", cron)
    <3>1. tracked \in Loops /\ Running(tracked)
      BY <2>6, TypeParts DEF CancelTracked, IsActive, Done, LoopInv, TrackedIsAlive, Running
    <3>2. ~raced => enabled
      BY <2>2, <2>6, <3>1 DEF Written
    <3>3. QED
      BY <1>1, <2>1, <2>6, <3>2, CancelKeeps
  <2>7. CASE b.enabled = Unset /\ (b.cron = Unset \/ ~IsActive) /\ Finish(a)
    <3>1. ~raced => Match
      BY <2>2, <2>7 DEF Written, Match, IsActive, Done, LoopInv, TrackedIsAlive
    <3>2. QED
      BY <1>1, <2>1, <2>7, <3>1, EndKeeps
  <2>8. QED
    BY <1>5, <2>4, <2>5, <2>6, <2>7 DEF Reread
<1>6. CASE StopAwaited(a)
  <2>1. UNCHANGED <<up, row, raced>> /\ req[a].cron \in Crons
        /\ req[a].then \in {"idle", "create", "start"}
    BY <1>6, ReqAt DEF StopAwaited
  <2>2. ~raced => /\ tracked = NoLoop
                  /\ req[a].then = "idle" <=> ~enabled
                  /\ req[a].then # "idle" => req[a].cron = cron
    BY <1>2, <1>6 DEF StopAwaited, OnTheWay
  <2>3. CASE req[a].then = "idle" /\ Finish(a)
    <3>1. ~raced => Match
      BY <1>3, <2>2, <2>3 DEF Match
    <3>2. QED
      BY <1>1, <2>1, <2>3, <3>1, EndKeeps
  <2>4. CASE req[a].then = "create" /\ Create(a, req[a].cron)
    BY <1>1, <2>1, <2>2, <2>4, CreateKeeps, TypeParts DEF IsActive
  <2>5. CASE req[a].then = "start" /\ StartJob(a, req[a].cron)
    BY <1>1, <2>1, <2>2, <2>5, StartKeeps, TypeParts
  <2>6. QED
    BY <1>6, <2>3, <2>4, <2>5 DEF StopAwaited
<1>7. CASE Refresh(a)
  <2>1. Finish(a) /\ UNCHANGED <<up, row, raced>>
    BY <1>7 DEF Refresh, Finish
  <2>2. ~raced => Match
    BY <1>2, <1>7 DEF Refresh, OnTheWay
  <2>3. QED
    BY <1>1, <2>1, <2>2, EndKeeps
<1>8. QED
  BY <1>4, <1>5, <1>6, <1>7 DEF Request

LEMMA LoopInit == Init => LoopInv
  BY MarkersAreNew
     DEF Init, LoopInv, OneRequest, TrackedIsAlive, RunningIsTracked, Running, InStep

LEMMA LoopInvStep == TypeOK /\ DownIsEmpty /\ LoopInv /\ [Next]_vars => LoopInv'
<1> SUFFICES ASSUME TypeOK, DownIsEmpty, LoopInv, [Next]_vars PROVE LoopInv'
  OBVIOUS
<1>1. ASSUME NEW a \in Admins, NEW b \in Bodies, Submit(a, b) PROVE LoopInv'
  <2>1. UNCHANGED <<up, row, memory>> /\ up /\ req[a] = Idle
    BY <1>1 DEF Submit
  <2>2. TrackedIsAlive' /\ RunningIsTracked'
    BY <1>1, <2>1 DEF Submit, LoopInv, TrackedIsAlive, RunningIsTracked, Running, memory
  <2>3. /\ req'[a].pc = "update"
        /\ \A o \in Admins : o # a => req'[o] = req[o]
    BY <1>1, TypeParts DEF Submit
  <2>4. ~raced' => ~raced /\ \A o \in Admins : req[o] = Idle
    BY <1>1 DEF Submit
  <2>5. OneRequest'
    BY <2>3, <2>4 DEF OneRequest
  <2>6. ~raced' => Match
    BY <2>1, <2>4 DEF LoopInv, InStep
  <2>7. ~raced' => Match'
    BY <2>1, <2>6 DEF Match, Running, IsActive, Done, memory, row
  <2>8. ~raced' => \A o \in Admins : o # a => req'[o].pc = "idle"
    BY <2>3, <2>4 DEF Idle
  <2>9. InStep'
    BY <2>3, <2>7, <2>8 DEF InStep, OnTheWay
  <2>10. QED
    BY <2>2, <2>5, <2>9 DEF LoopInv
<1>2. ASSUME NEW a \in Admins, Request(a) PROVE LoopInv'
  BY <1>2, RequestKeeps
<1>3. ASSUME NEW l \in Loops, LoopStep(l) PROVE LoopInv'
  BY <1>3, LoopKeeps
<1>4. CASE Startup
  <2>1. /\ tracked = NoLoop
        /\ \A l \in Loops : loop[l] = "none"
        /\ \A a \in Admins : req'[a] = Idle
        /\ FreshLoop \in Loops
        /\ UNCHANGED <<enabled, cron>>
    BY <1>4, StartsFresh DEF Startup, DownIsEmpty, row
  <2>2. CASE enabled
    <3>1. /\ tracked' = FreshLoop /\ cronExpr' = cron
          /\ loop'[FreshLoop] = "waiting"
          /\ \A l \in Loops : l # FreshLoop => loop'[l] = "none"
      BY <1>4, <2>1, <2>2, TypeParts DEF Startup
    <3>2. TrackedIsAlive' /\ RunningIsTracked'
      BY <3>1 DEF TrackedIsAlive, RunningIsTracked, Running
    <3>3. Match'
      BY <2>1, <2>2, <3>1, MarkersAreNew DEF Match, IsActive, Done
    <3>4. QED
      BY <2>1, <3>2, <3>3 DEF LoopInv, OneRequest, InStep, OnTheWay, Idle
  <2>3. CASE ~enabled
    <3>1. UNCHANGED <<tracked, loop>>
      BY <1>4, <2>3 DEF Startup
    <3>2. \A l \in Loops : ~Running(l)'
      BY <2>1, <3>1 DEF Running
    <3>3. TrackedIsAlive' /\ RunningIsTracked' /\ Match'
      BY <2>1, <2>3, <3>1, <3>2 DEF TrackedIsAlive, RunningIsTracked, Match
    <3>4. QED
      BY <2>1, <3>3 DEF LoopInv, OneRequest, InStep, OnTheWay, Idle
  <2>4. QED
    BY <2>2, <2>3
<1>5. CASE ProcessEnds
  <2>1. /\ ~up' /\ tracked' = NoLoop
        /\ \A l \in Loops : loop'[l] = "none"
        /\ \A a \in Admins : req'[a] = Idle
    BY <1>5 DEF ProcessEnds
  <2>2. QED
    BY <2>1 DEF LoopInv, OneRequest, TrackedIsAlive, RunningIsTracked, Running, InStep
<1>6. CASE UNCHANGED vars
  BY <1>6 DEF vars, row, memory, LoopInv, OneRequest, TrackedIsAlive, RunningIsTracked,
              Running, InStep, OnTheWay, Written, Match, IsActive, Done
<1>7. QED
  BY <1>1, <1>2, <1>3, <1>4, <1>5, <1>6 DEF Next



------------------------------------------------------------------------------
(* RealtimeClient.                                                            *)

SockValues == [state : Client!States, attached : BOOLEAN, subs : SUBSET Channels]
TimerValues == [pending : Nat, known : BOOLEAN]

------------------------------------------------------------------------------
(* The inductive invariant.  A timer that is known is pending; what the       *)
(* client counts is what the components hold; a socket that connects or is    *)
(* open is the current one and is listened to, and the current one does one   *)
(* of the two, with a token.                                                  *)
TimersAgree == rc_timers.known => rc_timers.pending > 0
CountsAgree == rc_refCounts = rc_mounted
OneCurrent ==
  /\ \A s \in Sockets :
       rc_sock[s].state \in {"connecting", "open"} => s = rc_socket /\ rc_sock[s].attached
  /\ rc_socket # NoSocket => rc_sock[rc_socket].state \in {"connecting", "open"} /\ rc_token

ClientInv == Client!TypeOK /\ TimersAgree /\ CountsAgree /\ OneCurrent
       /\ Client!SubscribedAsWanted /\ Client!SilentIsReplaced


------------------------------------------------------------------------------
LEMMA FreeTyped ==
  /\ Client!Free \in SockValues /\ Client!Free.state = "free"
  BY DEF Client!Free, SockValues, Client!States

LEMMA StoppedIs ==
  ASSUME NEW t \in TimerValues, t.known => t.pending > 0
  PROVE  Client!Stopped(t) \in TimerValues /\ ~Client!Stopped(t).known
  BY DEF Client!Stopped, TimerValues

LEMMA ClosingIs ==
  ASSUME Client!TypeOK, NEW s \in Sockets
  PROVE  Client!Closing(s) \in SockValues /\ Client!Closing(s).state \in {"free", "closing"}
<1>1. PICK x \in SockValues : x = rc_sock[s]
  BY DEF Client!TypeOK, SockValues
<1>2. CASE x.state = "free"
  BY <1>1, <1>2, FreeTyped DEF Client!Closing
<1>3. CASE x.state # "free"
  <2>1. PICK y : y = [x EXCEPT !.state = "closing", !.subs = {}]
    OBVIOUS
  <2>2. Client!Closing(s) = y
    BY <1>1, <1>3, <2>1 DEF Client!Closing
  <2>3. y \in SockValues /\ y.state = "closing"
    BY <2>1 DEF SockValues, Client!States
  <2>4. QED
    BY <2>2, <2>3
<1>4. QED
  BY <1>2, <1>3

\* A new socket connects and is the only one that does; the timers are clear.
LEMMA OpenSocketIs ==
  ASSUME Client!ConstantsFit, ClientInv, NEW t \in TimerValues, t.known => t.pending > 0, Client!openSocket(t)
  PROVE  /\ rc_sock' \in [Sockets -> SockValues] /\ rc_socket' \in Sockets
         /\ rc_sock'[rc_socket'].state = "connecting" /\ rc_sock'[rc_socket'].attached
         /\ \A x \in Sockets : x # rc_socket' => rc_sock'[x].state \notin {"connecting", "open"}
         /\ rc_timers' \in TimerValues /\ ~rc_timers'.known /\ rc_beat' = NoSocket
<1>1. PICK s \in Sockets :
        /\ s # rc_socket /\ rc_sock[s].state = "free"
        /\ rc_sock' = [x \in Sockets |->
                      IF x = s THEN [Client!Free EXCEPT !.state = "connecting", !.attached = TRUE]
                      ELSE IF x = rc_socket THEN [Client!Closing(x) EXCEPT !.attached = FALSE]
                      ELSE rc_sock[x]]
        /\ rc_socket' = s
        /\ rc_timers' = Client!Stopped(t)
        /\ rc_beat' = NoSocket
  BY DEF Client!openSocket
<1>2. PICK new : new = [Client!Free EXCEPT !.state = "connecting", !.attached = TRUE]
  OBVIOUS
<1>3. new \in SockValues /\ new.state = "connecting" /\ new.attached
  BY <1>2 DEF Client!Free, SockValues, Client!States
<1>4. ASSUME NEW x \in Sockets, x # s
      PROVE  rc_sock'[x] \in SockValues /\ rc_sock'[x].state \notin {"connecting", "open"}
  <2>1. CASE x = rc_socket
    <3>1. PICK y \in SockValues : y = Client!Closing(x) /\ y.state \in {"free", "closing"}
      BY ClosingIs DEF ClientInv
    <3>2. PICK z : z = [y EXCEPT !.attached = FALSE]
      OBVIOUS
    <3>3. rc_sock'[x] = z
      BY <1>1, <1>4, <2>1, <3>1, <3>2
    <3>4. z \in SockValues /\ z.state = y.state
      BY <3>1, <3>2 DEF SockValues
    <3>5. QED
      BY <3>1, <3>3, <3>4
  <2>2. CASE x # rc_socket
    <3>1. rc_sock'[x] = rc_sock[x]
      BY <1>1, <1>4, <2>2
    <3>2. QED
      BY <2>2, <3>1 DEF ClientInv, OneCurrent, Client!TypeOK, SockValues
  <2>3. QED
    BY <2>1, <2>2
<1>5. rc_sock'[s] = new
  BY <1>1, <1>2
<1>6. rc_sock' \in [Sockets -> SockValues]
  BY <1>1, <1>3, <1>4, <1>5
<1>7. QED
  BY <1>1, <1>3, <1>4, <1>5, <1>6, StoppedIs

LEMMA ToldIs ==
  ASSUME Client!ConstantsFit, Client!TypeOK, NEW S \in SUBSET Channels, NEW T, T = Client!Told(rc_sock, S)
  PROVE  /\ T \in [Sockets -> SockValues]
         /\ \A x \in Sockets : T[x].state = rc_sock[x].state /\ T[x].attached = rc_sock[x].attached
         /\ rc_socket # NoSocket /\ rc_sock[rc_socket].state = "open" => T[rc_socket].subs = S
<1>1. CASE rc_socket # NoSocket /\ rc_sock[rc_socket].state = "open"
  <2>1. rc_socket \in Sockets
    BY <1>1 DEF Client!TypeOK
  <2>2. T = [rc_sock EXCEPT ![rc_socket].subs = S]
    BY <1>1 DEF Client!Told
  <2>3. PICK y : y = [rc_sock[rc_socket] EXCEPT !.subs = S]
    OBVIOUS
  <2>4. rc_sock[rc_socket] \in SockValues
    BY <2>1 DEF Client!TypeOK, SockValues
  <2>5. y \in SockValues /\ y.state = rc_sock[rc_socket].state
        /\ y.attached = rc_sock[rc_socket].attached /\ y.subs = S
    BY <2>3, <2>4 DEF SockValues
  <2>6. T = [rc_sock EXCEPT ![rc_socket] = y]
    BY <2>2, <2>3
  <2>7. QED
    BY <2>1, <2>5, <2>6 DEF Client!TypeOK, SockValues
<1>2. CASE ~(rc_socket # NoSocket /\ rc_sock[rc_socket].state = "open")
  BY <1>2 DEF Client!Told, Client!TypeOK, SockValues
<1>3. QED
  BY <1>1, <1>2

LEMMA SpendTyped ==
  ASSUME Client!ConstantsFit, Client!TypeOK, Client!Spend("acts") \/ Client!Spend("drops") \/ UNCHANGED rc_left
  PROVE  rc_left' \in [acts : 0..MaxActs, drops : 0..MaxDrops]
<1>1. CASE Client!Spend("acts")
  <2>1. rc_left' = [rc_left EXCEPT !["acts"] = rc_left["acts"] - 1] /\ rc_left["acts"] > 0
    BY <1>1 DEF Client!Spend
  <2>2. rc_left["acts"] - 1 \in 0..MaxActs
    BY <2>1 DEF Client!TypeOK, Client!ConstantsFit
  <2>3. QED
    BY <2>1, <2>2 DEF Client!TypeOK
<1>2. CASE Client!Spend("drops")
  <2>1. rc_left' = [rc_left EXCEPT !["drops"] = rc_left["drops"] - 1] /\ rc_left["drops"] > 0
    BY <1>2 DEF Client!Spend
  <2>2. rc_left["drops"] - 1 \in 0..MaxDrops
    BY <2>1 DEF Client!TypeOK, Client!ConstantsFit
  <2>3. QED
    BY <2>1, <2>2 DEF Client!TypeOK
<1>3. CASE UNCHANGED rc_left
  BY <1>3 DEF Client!TypeOK
<1>4. QED
  BY <1>1, <1>2, <1>3

------------------------------------------------------------------------------
(* One step per action.                                                       *)

\* With a connecting socket nothing is promised yet.
LEMMA Opened ==
  ASSUME Client!ConstantsFit, ClientInv, NEW t \in TimerValues, t.known => t.pending > 0, Client!openSocket(t),
         rc_token', UNCHANGED <<rc_refCounts, rc_mounted>>,
         rc_left' \in [acts : 0..MaxActs, drops : 0..MaxDrops]
  PROVE  ClientInv'
<1>1. /\ rc_sock' \in [Sockets -> SockValues] /\ rc_socket' \in Sockets
      /\ rc_sock'[rc_socket'].state = "connecting" /\ rc_sock'[rc_socket'].attached
      /\ \A x \in Sockets : x # rc_socket' => rc_sock'[x].state \notin {"connecting", "open"}
      /\ rc_timers' \in TimerValues /\ ~rc_timers'.known /\ rc_beat' = NoSocket
  BY OpenSocketIs
<1>2. Client!TypeOK'
  BY <1>1 DEF ClientInv, Client!TypeOK, SockValues, TimerValues
<1>3. TimersAgree' /\ CountsAgree'
  BY <1>1 DEF ClientInv, TimersAgree, CountsAgree
<1>4. OneCurrent'
  BY <1>1 DEF OneCurrent
<1>5. Client!SubscribedAsWanted' /\ Client!SilentIsReplaced'
  BY <1>1 DEF Client!SubscribedAsWanted, Client!SilentIsReplaced
<1>6. QED
  BY <1>2, <1>3, <1>4, <1>5 DEF ClientInv

LEMMA ConnectStep ==
  ASSUME Client!ConstantsFit, ClientInv, Client!connect
  PROVE  ClientInv'
<1>1. rc_timers \in TimerValues /\ (rc_timers.known => rc_timers.pending > 0)
  BY DEF ClientInv, Client!TypeOK, TimersAgree, TimerValues
<1>2. rc_left' \in [acts : 0..MaxActs, drops : 0..MaxDrops]
  BY SpendTyped DEF Client!connect, ClientInv
<1>3. rc_token' /\ Client!openSocket(rc_timers) /\ UNCHANGED <<rc_refCounts, rc_mounted>>
  BY DEF Client!connect
<1>4. QED
  BY <1>1, <1>2, <1>3, Opened

LEMMA DisconnectStep ==
  ASSUME Client!ConstantsFit, ClientInv, Client!disconnect
  PROVE  ClientInv'
<1>1. /\ rc_token' = FALSE /\ rc_timers' = Client!Stopped(rc_timers) /\ rc_beat' = NoSocket
      /\ rc_sock' = IF rc_socket = NoSocket THEN rc_sock ELSE [rc_sock EXCEPT ![rc_socket] = Client!Closing(rc_socket)]
      /\ rc_socket' = NoSocket
      /\ rc_mounted' = [c \in Channels |-> 0] /\ rc_refCounts' = [c \in Channels |-> 0]
  BY DEF Client!disconnect
<1>2. rc_left' \in [acts : 0..MaxActs, drops : 0..MaxDrops]
  BY SpendTyped DEF Client!disconnect, ClientInv
<1>3. rc_timers' \in TimerValues /\ ~rc_timers'.known
  BY <1>1, StoppedIs DEF ClientInv, Client!TypeOK, TimersAgree, TimerValues
<1>4. /\ rc_sock' \in [Sockets -> SockValues]
      /\ \A x \in Sockets : rc_sock'[x].state \notin {"connecting", "open"}
  <2>1. CASE rc_socket = NoSocket
    BY <1>1, <2>1 DEF ClientInv, Client!TypeOK, OneCurrent, SockValues, Client!ConstantsFit
  <2>2. CASE rc_socket # NoSocket
    <3>1. rc_socket \in Sockets
      BY <2>2 DEF ClientInv, Client!TypeOK
    <3>2. PICK y \in SockValues : y = Client!Closing(rc_socket) /\ y.state \in {"free", "closing"}
      BY <3>1, ClosingIs DEF ClientInv
    <3>3. rc_sock' = [rc_sock EXCEPT ![rc_socket] = y]
      BY <1>1, <2>2, <3>2
    <3>4. QED
      BY <3>1, <3>2, <3>3 DEF ClientInv, Client!TypeOK, OneCurrent, SockValues
  <2>3. QED
    BY <2>1, <2>2
<1>5. Client!TypeOK'
  <2>1. 0 \in 0..MaxMounts
    BY DEF Client!ConstantsFit
  <2>2. /\ rc_mounted' \in [Channels -> 0..MaxMounts] /\ rc_refCounts' \in [Channels -> 0..MaxMounts]
        /\ rc_token' \in BOOLEAN /\ rc_socket' \in Sockets \cup {NoSocket}
        /\ rc_beat' \in Sockets \cup {NoSocket}
    BY <1>1, <2>1
  <2>3. QED
    BY <1>2, <1>3, <1>4, <2>2 DEF Client!TypeOK, SockValues, TimerValues
<1>6. TimersAgree' /\ CountsAgree'
  BY <1>1, <1>3 DEF TimersAgree, CountsAgree
<1>7. OneCurrent' /\ Client!SubscribedAsWanted' /\ Client!SilentIsReplaced'
  BY <1>1, <1>4 DEF OneCurrent, Client!SubscribedAsWanted, Client!SilentIsReplaced
<1>8. QED
  BY <1>5, <1>6, <1>7 DEF ClientInv

\* A component comes or goes: the server is told what is wanted by then.
LEMMA Retold ==
  ASSUME Client!ConstantsFit, ClientInv, NEW T, rc_sock' = T, T \in [Sockets -> SockValues],
         \A x \in Sockets : T[x].state = rc_sock[x].state /\ T[x].attached = rc_sock[x].attached,
         rc_refCounts' = rc_mounted', rc_mounted' \in [Channels -> 0..MaxMounts],
         UNCHANGED <<rc_token, rc_socket, rc_timers, rc_beat>>,
         rc_left' \in [acts : 0..MaxActs, drops : 0..MaxDrops],
         rc_socket # NoSocket /\ rc_sock[rc_socket].state = "open" =>
           T[rc_socket].subs = {c \in Channels : rc_mounted'[c] > 0}
  PROVE  ClientInv'
<1>1. Client!TypeOK'
  BY DEF ClientInv, Client!TypeOK, SockValues
<1>2. TimersAgree' /\ CountsAgree'
  BY DEF ClientInv, TimersAgree, CountsAgree
<1>3. OneCurrent' /\ Client!SubscribedAsWanted' /\ Client!SilentIsReplaced'
  BY DEF ClientInv, Client!TypeOK, OneCurrent, Client!SubscribedAsWanted, Client!SilentIsReplaced
<1>4. QED
  BY <1>1, <1>2, <1>3 DEF ClientInv

LEMMA SubscribeStep ==
  ASSUME Client!ConstantsFit, ClientInv, NEW c \in Channels, Client!subscribe(c)
  PROVE  ClientInv'
<1>1. /\ rc_mounted[c] < MaxMounts
      /\ rc_mounted' = [rc_mounted EXCEPT ![c] = @ + 1]
      /\ rc_refCounts' = [rc_refCounts EXCEPT ![c] = @ + 1]
      /\ rc_sock' = IF rc_refCounts[c] > 0 THEN rc_sock
                 ELSE Client!Told(rc_sock, IF rc_socket = NoSocket THEN {} ELSE rc_sock[rc_socket].subs \cup {c})
      /\ UNCHANGED <<rc_token, rc_socket, rc_timers, rc_beat>>
  BY DEF Client!subscribe
<1>2. rc_left' \in [acts : 0..MaxActs, drops : 0..MaxDrops]
  BY SpendTyped DEF Client!subscribe, ClientInv
<1>3. rc_mounted \in [Channels -> 0..MaxMounts] /\ rc_refCounts = rc_mounted
  BY DEF ClientInv, Client!TypeOK, CountsAgree
<1>4. rc_mounted' \in [Channels -> 0..MaxMounts] /\ rc_refCounts' = rc_mounted'
  BY <1>1, <1>3 DEF Client!ConstantsFit
<1>5. PICK W : W = {d \in Channels : rc_mounted[d] > 0}
  OBVIOUS
<1>6. {d \in Channels : rc_mounted'[d] > 0} = W \cup {c}
  BY <1>1, <1>3, <1>5
<1>7. rc_socket # NoSocket /\ rc_sock[rc_socket].state = "open" => rc_sock[rc_socket].subs = W
  BY <1>5 DEF ClientInv, Client!SubscribedAsWanted
<1>8. CASE rc_mounted[c] > 0
  <2>1. W \cup {c} = W /\ rc_sock' = rc_sock
    BY <1>1, <1>3, <1>5, <1>8
  <2>2. rc_sock \in [Sockets -> SockValues]
    BY DEF ClientInv, Client!TypeOK, SockValues
  <2>3. QED
    BY <1>1, <1>2, <1>4, <1>6, <1>7, <2>1, <2>2, Retold
<1>9. CASE ~(rc_mounted[c] > 0)
  <2>1. PICK S : S = IF rc_socket = NoSocket THEN {} ELSE rc_sock[rc_socket].subs \cup {c}
    OBVIOUS
  <2>2. S \in SUBSET Channels
    BY <2>1 DEF ClientInv, Client!TypeOK
  <2>3. PICK T : T = Client!Told(rc_sock, S)
    OBVIOUS
  <2>4. rc_sock' = T
    BY <1>1, <1>3, <1>9, <2>1, <2>3
  <2>5. /\ T \in [Sockets -> SockValues]
        /\ \A x \in Sockets : T[x].state = rc_sock[x].state /\ T[x].attached = rc_sock[x].attached
        /\ rc_socket # NoSocket /\ rc_sock[rc_socket].state = "open" => T[rc_socket].subs = S
    BY <2>2, <2>3, ToldIs DEF ClientInv
  <2>6. rc_socket # NoSocket /\ rc_sock[rc_socket].state = "open" => T[rc_socket].subs = W \cup {c}
    BY <1>7, <2>1, <2>5
  <2>7. QED
    BY <1>1, <1>2, <1>4, <1>6, <2>4, <2>5, <2>6, Retold
<1>10. QED
  BY <1>8, <1>9

LEMMA UnsubscribeStep ==
  ASSUME Client!ConstantsFit, ClientInv, NEW c \in Channels, Client!unsubscribe(c)
  PROVE  ClientInv'
<1>1. /\ rc_mounted[c] > 0
      /\ rc_mounted' = [rc_mounted EXCEPT ![c] = @ - 1]
      /\ rc_refCounts' = [rc_refCounts EXCEPT ![c] = IF @ = 0 THEN 0 ELSE @ - 1]
      /\ rc_sock' = IF rc_refCounts[c] > 1 THEN rc_sock
                 ELSE Client!Told(rc_sock, IF rc_socket = NoSocket THEN {} ELSE rc_sock[rc_socket].subs \ {c})
      /\ UNCHANGED <<rc_token, rc_socket, rc_timers, rc_beat, rc_left>>
  BY DEF Client!unsubscribe
<1>2. rc_left' \in [acts : 0..MaxActs, drops : 0..MaxDrops]
  BY <1>1, SpendTyped DEF ClientInv
<1>3. rc_mounted \in [Channels -> 0..MaxMounts] /\ rc_refCounts = rc_mounted
  BY DEF ClientInv, Client!TypeOK, CountsAgree
<1>4. rc_mounted' \in [Channels -> 0..MaxMounts] /\ rc_refCounts' = rc_mounted'
  <2>1. rc_mounted[c] - 1 \in 0..MaxMounts /\ rc_refCounts[c] # 0
    BY <1>1, <1>3 DEF Client!ConstantsFit
  <2>2. QED
    BY <1>1, <1>3, <2>1
<1>5. PICK W : W = {d \in Channels : rc_mounted[d] > 0}
  OBVIOUS
<1>6. {d \in Channels : rc_mounted'[d] > 0} = IF rc_mounted[c] > 1 THEN W ELSE W \ {c}
  <2>1. \A d \in Channels : rc_mounted'[d] = IF d = c THEN rc_mounted[c] - 1 ELSE rc_mounted[d]
    BY <1>1, <1>3
  <2>2. rc_mounted[c] \in Nat
    BY <1>3 DEF Client!ConstantsFit
  <2>3. CASE rc_mounted[c] > 1
    BY <1>5, <2>1, <2>2, <2>3
  <2>4. CASE ~(rc_mounted[c] > 1)
    BY <1>1, <1>5, <2>1, <2>2, <2>4
  <2>5. QED
    BY <2>3, <2>4
<1>7. rc_socket # NoSocket /\ rc_sock[rc_socket].state = "open" => rc_sock[rc_socket].subs = W
  BY <1>5 DEF ClientInv, Client!SubscribedAsWanted
<1>8. CASE rc_mounted[c] > 1
  <2>1. rc_sock' = rc_sock
    BY <1>1, <1>3, <1>8
  <2>2. rc_sock \in [Sockets -> SockValues]
    BY DEF ClientInv, Client!TypeOK, SockValues
  <2>3. QED
    BY <1>1, <1>2, <1>4, <1>6, <1>7, <1>8, <2>1, <2>2, Retold
<1>9. CASE ~(rc_mounted[c] > 1)
  <2>1. PICK S : S = IF rc_socket = NoSocket THEN {} ELSE rc_sock[rc_socket].subs \ {c}
    OBVIOUS
  <2>2. S \in SUBSET Channels
    BY <2>1 DEF ClientInv, Client!TypeOK
  <2>3. PICK T : T = Client!Told(rc_sock, S)
    OBVIOUS
  <2>4. rc_sock' = T
    BY <1>1, <1>3, <1>9, <2>1, <2>3
  <2>5. /\ T \in [Sockets -> SockValues]
        /\ \A x \in Sockets : T[x].state = rc_sock[x].state /\ T[x].attached = rc_sock[x].attached
        /\ rc_socket # NoSocket /\ rc_sock[rc_socket].state = "open" => T[rc_socket].subs = S
    BY <2>2, <2>3, ToldIs DEF ClientInv
  <2>6. rc_socket # NoSocket /\ rc_sock[rc_socket].state = "open" => T[rc_socket].subs = W \ {c}
    BY <1>7, <2>1, <2>5
  <2>7. QED
    BY <1>1, <1>2, <1>4, <1>6, <1>9, <2>4, <2>5, <2>6, Retold
<1>10. QED
  BY <1>8, <1>9

LEMMA OnopenStep ==
  ASSUME Client!ConstantsFit, ClientInv, NEW s \in Sockets, Client!onopen(s)
  PROVE  ClientInv'
<1>1. /\ rc_sock[s].state = "connecting"
      /\ rc_sock' = [rc_sock EXCEPT ![s].state = "open", ![s].subs = Client!Wanted]
      /\ rc_beat' = s
      /\ UNCHANGED <<rc_token, rc_socket, rc_refCounts, rc_mounted, rc_timers, rc_left>>
  BY DEF Client!onopen
<1>2. s = rc_socket /\ rc_sock[s].attached
  BY <1>1 DEF ClientInv, OneCurrent
<1>3. PICK W \in SUBSET Channels : W = {c \in Channels : rc_mounted[c] > 0}
  OBVIOUS
<1>4. Client!Wanted = W
  BY <1>3 DEF ClientInv, CountsAgree, Client!Wanted
<1>5. PICK y : y = [rc_sock[s] EXCEPT !.state = "open", !.subs = W]
  OBVIOUS
<1>6. rc_sock' = [rc_sock EXCEPT ![s] = y]
  BY <1>1, <1>4, <1>5 DEF ClientInv, Client!TypeOK
<1>7. y \in SockValues /\ y.state = "open" /\ y.subs = W /\ y.attached = rc_sock[s].attached
  BY <1>5 DEF ClientInv, Client!TypeOK, SockValues, Client!States
<1>8. rc_sock' \in [Sockets -> SockValues] /\ rc_sock'[s] = y /\ \A x \in Sockets : x # s => rc_sock'[x] = rc_sock[x]
  BY <1>6, <1>7 DEF ClientInv, Client!TypeOK, SockValues
<1>9. Client!TypeOK'
  BY <1>1, <1>8 DEF ClientInv, Client!TypeOK, SockValues
<1>10. TimersAgree' /\ CountsAgree'
  BY <1>1 DEF ClientInv, TimersAgree, CountsAgree
<1>11. OneCurrent'
  BY <1>1, <1>2, <1>7, <1>8 DEF ClientInv, OneCurrent
<1>12. Client!SubscribedAsWanted' /\ Client!SilentIsReplaced'
  BY <1>1, <1>2, <1>3, <1>7, <1>8 DEF Client!SubscribedAsWanted, Client!SilentIsReplaced
<1>13. QED
  BY <1>9, <1>10, <1>11, <1>12 DEF ClientInv

LEMMA ClosedStep ==
  ASSUME Client!ConstantsFit, ClientInv, NEW s \in Sockets, Client!Closed(s), rc_sock[s].state # "free",
         rc_left' \in [acts : 0..MaxActs, drops : 0..MaxDrops]
  PROVE  ClientInv'
<1>1. /\ rc_sock' = [rc_sock EXCEPT ![s] = Client!Free]
      /\ IF rc_sock[s].attached THEN Client!onclose(s) ELSE UNCHANGED <<rc_beat, rc_socket, rc_timers>>
      /\ UNCHANGED <<rc_token, rc_refCounts, rc_mounted>>
  BY DEF Client!Closed
<1>2. rc_sock' \in [Sockets -> SockValues] /\ rc_sock'[s] = Client!Free /\ \A x \in Sockets : x # s => rc_sock'[x] = rc_sock[x]
  BY <1>1, FreeTyped DEF ClientInv, Client!TypeOK, SockValues
<1>3. rc_timers \in TimerValues
  BY DEF ClientInv, Client!TypeOK, TimerValues
<1>4. /\ rc_timers' \in TimerValues /\ (rc_timers'.known => rc_timers'.pending > 0)
      /\ rc_timers'.pending >= rc_timers.pending
  <2>1. rc_timers' = rc_timers \/ rc_timers' = [pending |-> rc_timers.pending + 1, known |-> TRUE]
    BY <1>1 DEF Client!onclose
  <2>2. rc_timers.pending \in Nat
    BY <1>3 DEF TimerValues
  <2>3. CASE rc_timers' = rc_timers
    BY <1>3, <2>2, <2>3 DEF ClientInv, TimersAgree
  <2>4. CASE rc_timers' = [pending |-> rc_timers.pending + 1, known |-> TRUE]
    BY <2>2, <2>4 DEF TimerValues
  <2>5. QED
    BY <2>1, <2>3, <2>4
<1>5. rc_socket' \in {rc_socket, NoSocket} /\ (rc_socket = s => rc_socket' = NoSocket)
  <2>1. rc_socket = s => rc_sock[s].attached
    BY DEF ClientInv, OneCurrent, Client!ConstantsFit
  <2>2. QED
    BY <1>1, <2>1 DEF Client!onclose
<1>6. Client!TypeOK'
  BY <1>1, <1>2, <1>4, <1>5 DEF ClientInv, Client!TypeOK, SockValues, TimerValues, Client!onclose
<1>7. TimersAgree' /\ CountsAgree'
  BY <1>1, <1>4 DEF ClientInv, TimersAgree, CountsAgree
<1>8. OneCurrent'
  <2>1. rc_sock[s].attached \/ rc_sock[s].state \notin {"connecting", "open"}
    BY DEF ClientInv, OneCurrent
  <2>2. ASSUME NEW x \in Sockets, rc_sock'[x].state \in {"connecting", "open"}
        PROVE  x = rc_socket' /\ rc_sock'[x].attached
    <3>1. x # s /\ rc_sock'[x] = rc_sock[x]
      BY <1>2, <2>2, FreeTyped
    <3>2. x = rc_socket /\ rc_sock[x].attached
      BY <2>2, <3>1 DEF ClientInv, OneCurrent
    <3>3. rc_socket' = rc_socket
      BY <1>1, <3>1, <3>2 DEF Client!onclose
    <3>4. QED
      BY <3>1, <3>2, <3>3
  <2>3. ASSUME rc_socket' # NoSocket
        PROVE  rc_sock'[rc_socket'].state \in {"connecting", "open"} /\ rc_token'
    <3>1. rc_socket' = rc_socket /\ rc_socket # s /\ rc_socket \in Sockets
      BY <1>5, <2>3 DEF ClientInv, Client!TypeOK
    <3>2. QED
      BY <1>1, <1>2, <2>3, <3>1 DEF ClientInv, OneCurrent
  <2>4. QED
    BY <2>2, <2>3 DEF OneCurrent
<1>9. ASSUME rc_socket' # NoSocket
      PROVE  rc_socket' = rc_socket /\ rc_socket # s /\ rc_socket \in Sockets /\ rc_sock'[rc_socket] = rc_sock[rc_socket] /\ rc_token
  BY <1>2, <1>5, <1>9 DEF ClientInv, Client!TypeOK, OneCurrent
<1>10. Client!SubscribedAsWanted'
  BY <1>1, <1>9 DEF ClientInv, Client!SubscribedAsWanted
<1>11. Client!SilentIsReplaced'
  <2>1. SUFFICES ASSUME rc_socket' # NoSocket, rc_sock'[rc_socket'].state = "open", rc_beat' # rc_socket'
                 PROVE  rc_timers'.pending > 0
    BY DEF Client!SilentIsReplaced
  <2>2. CASE rc_sock[s].attached
    <3>1. rc_timers' = [pending |-> rc_timers.pending + 1, known |-> TRUE]
      BY <1>1, <1>9, <2>1, <2>2 DEF Client!onclose
    <3>2. QED
      BY <1>3, <3>1 DEF TimerValues
  <2>3. CASE ~rc_sock[s].attached
    BY <1>1, <1>9, <2>1, <2>3 DEF ClientInv, Client!SilentIsReplaced
  <2>4. QED
    BY <2>2, <2>3
<1>12. QED
  BY <1>6, <1>7, <1>8, <1>10, <1>11 DEF ClientInv

LEMMA ReconnectStep ==
  ASSUME Client!ConstantsFit, ClientInv, Client!Reconnect
  PROVE  ClientInv'
<1>1. UNCHANGED <<rc_token, rc_refCounts, rc_mounted, rc_left>> /\ rc_timers.pending > 0
  BY DEF Client!Reconnect
<1>2. PICK known \in BOOLEAN :
        /\ known \in IF ~rc_timers.known THEN {FALSE}
                     ELSE IF rc_timers.pending = 1 THEN {TRUE} ELSE BOOLEAN
        /\ LET t == [pending |-> rc_timers.pending - 1, known |-> rc_timers.known /\ ~known] IN
             IF rc_token THEN Client!openSocket(t) ELSE rc_timers' = t /\ UNCHANGED <<rc_sock, rc_socket, rc_beat>>
  BY DEF Client!Reconnect
<1>3. rc_timers.pending \in Nat /\ rc_timers.known \in BOOLEAN
  BY DEF ClientInv, Client!TypeOK
<1>4. PICK k \in BOOLEAN : k = (rc_timers.known /\ ~known)
  <2>1. CASE rc_timers.known /\ ~known
    <3>1. TRUE = (rc_timers.known /\ ~known)
      BY <2>1
    <3>2. QED
      BY <3>1, Zenon
  <2>2. CASE ~(rc_timers.known /\ ~known)
    <3>1. FALSE = (rc_timers.known /\ ~known)
      BY <2>2
    <3>2. QED
      BY <3>1, Zenon
  <2>3. QED
    BY <2>1, <2>2
<1>5. PICK t : t = [pending |-> rc_timers.pending - 1, known |-> k]
  OBVIOUS
<1>6. IF rc_token THEN Client!openSocket(t) ELSE rc_timers' = t /\ UNCHANGED <<rc_sock, rc_socket, rc_beat>>
  BY <1>2, <1>4, <1>5
<1>7. rc_timers.pending - 1 \in Nat /\ (k => rc_timers.pending - 1 > 0)
  <2>1. k => rc_timers.known /\ ~known
    BY <1>4
  <2>2. k => rc_timers.pending # 1
    BY <1>2, <2>1
  <2>3. QED
    BY <1>1, <1>3, <2>2
<1>8. t \in TimerValues /\ (t.known => t.pending > 0)
  BY <1>4, <1>5, <1>7 DEF TimerValues
<1>9. rc_left' \in [acts : 0..MaxActs, drops : 0..MaxDrops]
  BY <1>1 DEF ClientInv, Client!TypeOK
<1>10. CASE rc_token
  <2>1. rc_token' /\ Client!openSocket(t) /\ UNCHANGED <<rc_refCounts, rc_mounted>>
    BY <1>1, <1>6, <1>10
  <2>2. QED
    BY <1>8, <1>9, <2>1, Opened
<1>11. CASE ~rc_token
  <2>1. rc_timers' = t /\ UNCHANGED <<rc_sock, rc_socket, rc_beat, rc_token, rc_refCounts, rc_mounted>>
    BY <1>1, <1>6, <1>11
  <2>2. rc_socket = NoSocket
    BY <1>11 DEF ClientInv, OneCurrent
  <2>3. Client!TypeOK'
    BY <1>8, <1>9, <2>1 DEF ClientInv, Client!TypeOK, TimerValues
  <2>4. TimersAgree' /\ CountsAgree' /\ OneCurrent'
    BY <1>8, <2>1 DEF ClientInv, TimersAgree, CountsAgree, OneCurrent
  <2>5. Client!SubscribedAsWanted' /\ Client!SilentIsReplaced'
    BY <2>1, <2>2 DEF Client!SubscribedAsWanted, Client!SilentIsReplaced
  <2>6. QED
    BY <2>3, <2>4, <2>5 DEF ClientInv
<1>12. QED
  BY <1>10, <1>11

------------------------------------------------------------------------------
LEMMA ClientInitInv == Client!ConstantsFit /\ Client!Init => ClientInv
<1> SUFFICES ASSUME Client!ConstantsFit, Client!Init PROVE ClientInv
  OBVIOUS
<1>1. Client!TypeOK
  <2>1. 0 \in 0..MaxMounts /\ MaxActs \in 0..MaxActs /\ MaxDrops \in 0..MaxDrops
    BY DEF Client!ConstantsFit
  <2>2. /\ rc_mounted \in [Channels -> 0..MaxMounts] /\ rc_refCounts \in [Channels -> 0..MaxMounts]
        /\ rc_token \in BOOLEAN /\ rc_socket \in Sockets \cup {NoSocket}
        /\ rc_beat \in Sockets \cup {NoSocket}
        /\ rc_left \in [acts : 0..MaxActs, drops : 0..MaxDrops]
    BY <2>1 DEF Client!Init
  <2>3. rc_timers \in [pending : Nat, known : BOOLEAN]
    BY DEF Client!Init
  <2>4. rc_sock \in [Sockets -> SockValues]
    BY FreeTyped DEF Client!Init
  <2>5. QED
    BY <2>2, <2>3, <2>4 DEF Client!TypeOK, SockValues
<1>2. TimersAgree /\ CountsAgree
  BY DEF Client!Init, TimersAgree, CountsAgree
<1>3. OneCurrent /\ Client!SubscribedAsWanted /\ Client!SilentIsReplaced
  BY FreeTyped DEF Client!Init, OneCurrent, Client!SubscribedAsWanted, Client!SilentIsReplaced
<1>4. QED
  BY <1>1, <1>2, <1>3 DEF ClientInv

LEMMA ClientStepInv == Client!ConstantsFit /\ ClientInv /\ [Client!Next]_vars_rc => ClientInv'
<1> SUFFICES ASSUME Client!ConstantsFit, ClientInv, [Client!Next]_vars_rc PROVE ClientInv'
  OBVIOUS
<1>1. ASSUME NEW s \in Sockets, Client!CloseEnds(s) \/ Client!Drop(s) PROVE ClientInv'
  <2>1. rc_left' \in [acts : 0..MaxActs, drops : 0..MaxDrops]
    BY <1>1, SpendTyped DEF Client!CloseEnds, Client!Drop, ClientInv
  <2>2. Client!Closed(s) /\ rc_sock[s].state # "free"
    BY <1>1 DEF Client!CloseEnds, Client!Drop
  <2>3. QED
    BY <2>1, <2>2, ClosedStep
<1>2. CASE UNCHANGED vars_rc
  BY <1>2 DEF vars_rc, ClientInv, Client!TypeOK, TimersAgree, CountsAgree, OneCurrent, Client!SubscribedAsWanted,
              Client!SilentIsReplaced
<1>3. CASE Client!Next
  BY <1>1, <1>3, ConnectStep, DisconnectStep, SubscribeStep, UnsubscribeStep, OnopenStep,
     ReconnectStep DEF Client!Next
<1>4. QED
  BY <1>2, <1>3

LEMMA ClientAgrees == ClientInv => Client!ConnectionAgrees
  BY DEF ClientInv, Client!ConnectionAgrees, OneCurrent, Client!OneEar

------------------------------------------------------------------------------
(* ExportBadge.                                                               *)

CountValues == [active : Nat, unread : Nat]
MessageValues ==
  [kind : {"asked", "pushed"}, age : Nat, counts : CountValues, read : BOOLEAN]

BadgeTyped ==
  /\ eb_jobs \in [waiting : Nat, active : Nat, unread : Nat]
  /\ eb_age \in Nat
  /\ eb_badge \in [active : Nat, unread : Nat, age : Nat]
  /\ eb_messages \subseteq MessageValues

(* What is shown or on its way is of some time up to now, and what is of now     *)
(* has the counts of now.  As long as nothing was lost or overtaken, either the  *)
(* badge is of now, or what will make it so is on its way: an answer of now, a   *)
(* request the server has not read, or the mark of a visit, which is answered    *)
(* by a look at the server whether it succeeds or fails.                         *)
NoneIsNewer ==
  /\ eb_badge.age <= eb_age
  /\ \A m \in eb_messages :
       m.age <= eb_age /\ (m.age = eb_age => m.counts = Badge!Counts(eb_jobs))

Shown ==
  /\ eb_badge.age = eb_age
  /\ Badge!Counts(eb_jobs) = [active |-> eb_badge.active, unread |-> eb_badge.unread]
Coming == \E m \in eb_messages : ~m.read \/ m.age = eb_age
Reported == \E m \in eb_marks : m.by = "visit"

CatchingUp == eb_late = {} => Shown \/ Coming \/ Reported

BadgeInv == BadgeTyped /\ NoneIsNewer /\ CatchingUp

LEMMA AskIs ==
  ASSUME BadgeTyped
  PROVE  /\ Badge!Ask \in MessageValues /\ [Badge!Ask EXCEPT !.read = TRUE] \in MessageValues
         /\ Badge!Ask.age = eb_age /\ Badge!Ask.counts = Badge!Counts(eb_jobs) /\ ~Badge!Ask.read
         /\ [Badge!Ask EXCEPT !.read = TRUE].age = eb_age
         /\ [Badge!Ask EXCEPT !.read = TRUE].counts = Badge!Counts(eb_jobs)
<1>1. Badge!Counts(eb_jobs) \in CountValues
  BY DEF Badge!Counts, CountValues, BadgeTyped
<1>2. QED
  BY <1>1 DEF Badge!Ask, MessageValues, BadgeTyped

\* When the exports change, what the server has counted is on its way.
LEMMA ChangeKeeps ==
  ASSUME BadgeInv, eb_jobs' \in [waiting : Nat, active : Nat, unread : Nat],
         eb_age' = eb_age + 1, UNCHANGED <<eb_badge, eb_late>>,
         \E m \in eb_messages' : m.age = eb_age',
         \A m \in eb_messages' :
           \/ m \in eb_messages
           \/ /\ m \in MessageValues
              /\ m.age = eb_age' /\ m.counts = Badge!Counts(eb_jobs')
  PROVE  BadgeInv'
<1>1. BadgeTyped'
  BY DEF BadgeInv, BadgeTyped
<1>2. NoneIsNewer'
  <2>1. eb_badge'.age <= eb_age'
    BY DEF BadgeInv, BadgeTyped, NoneIsNewer
  <2>2. ASSUME NEW m \in eb_messages
        PROVE  m.age <= eb_age' /\ m.age # eb_age'
    BY <2>2 DEF BadgeInv, BadgeTyped, NoneIsNewer, MessageValues
  <2>3. QED
    BY <1>1, <2>1, <2>2 DEF NoneIsNewer, BadgeTyped
<1>3. Coming'
  BY DEF Coming
<1>4. QED
  BY <1>1, <1>2, <1>3 DEF BadgeInv, CatchingUp

\* What is said of new exports.
LEMMA NewsIs ==
  ASSUME NEW j \in [waiting : Nat, active : Nat, unread : Nat], eb_age \in Nat,
         NEW k \in {"asked", "pushed"}, NEW r \in BOOLEAN, NEW m,
         m = [kind |-> k, age |-> eb_age + 1, counts |-> Badge!Counts(j), read |-> r]
  PROVE  m \in MessageValues /\ m.age = eb_age + 1 /\ m.counts = Badge!Counts(j)
<1>1. Badge!Counts(j) \in CountValues
  BY DEF Badge!Counts, CountValues
<1>2. QED
  BY <1>1 DEF MessageValues

LEMMA TurnsKeeps ==
  ASSUME BadgeInv, NEW j \in [waiting : Nat, active : Nat, unread : Nat], Badge!Turns(j),
         UNCHANGED <<eb_badge, eb_late>>
  PROVE  BadgeInv'
<1>1. PICK m : m = [kind |-> "pushed", age |-> eb_age + 1, counts |-> Badge!Counts(j), read |-> TRUE]
  OBVIOUS
<1>2. eb_jobs' = j /\ eb_age' = eb_age + 1 /\ eb_messages' = eb_messages \cup {m}
  BY <1>1 DEF Badge!Turns
<1>3. m \in MessageValues /\ m.age = eb_age + 1 /\ m.counts = Badge!Counts(j)
  BY <1>1, NewsIs DEF BadgeInv, BadgeTyped
<1>4. QED
  BY <1>2, <1>3, ChangeKeeps

\* An answer that arrives is shown; if it is of now, so is the badge.
LEMMA ArrivesKeeps ==
  ASSUME BadgeInv, NEW m \in eb_messages, Badge!Arrives(m)
  PROVE  BadgeInv'
<1>1. /\ m.read /\ eb_messages' = eb_messages \ {m}
      /\ eb_badge' = [active |-> m.counts.active, unread |-> m.counts.unread, age |-> m.age]
      /\ eb_late' = IF m.age < eb_badge.age THEN eb_late \cup {"overtaken"} ELSE eb_late
      /\ UNCHANGED <<eb_jobs, eb_age, eb_marks>>
  BY DEF Badge!Arrives
<1>2. m \in MessageValues /\ m.counts \in CountValues /\ m.age \in Nat
  BY DEF BadgeInv, BadgeTyped, MessageValues
<1>3. BadgeTyped'
  BY <1>1, <1>2 DEF BadgeInv, BadgeTyped, CountValues
<1>4. eb_badge'.age = m.age
  BY <1>1
<1>5. NoneIsNewer'
  BY <1>1, <1>4 DEF BadgeInv, NoneIsNewer
<1>6. m.age = eb_age => Shown'
  <2>1. m.counts = [active |-> m.counts.active, unread |-> m.counts.unread]
    BY <1>2 DEF CountValues
  <2>2. SUFFICES ASSUME m.age = eb_age PROVE Shown'
    OBVIOUS
  <2>3. m.counts = Badge!Counts(eb_jobs)
    BY <2>2 DEF BadgeInv, NoneIsNewer
  <2>4. m.counts.active = eb_badge'.active /\ m.counts.unread = eb_badge'.unread
    BY <1>1
  <2>5. Badge!Counts(eb_jobs)' = Badge!Counts(eb_jobs)
    BY <1>1 DEF Badge!Counts
  <2>6. QED
    BY <1>1, <1>4, <2>1, <2>2, <2>3, <2>4, <2>5 DEF Shown
<1>7. CatchingUp'
  <2>1. SUFFICES ASSUME eb_late' = {}, ~Shown' PROVE Coming' \/ Reported'
    BY DEF CatchingUp
  <2>2. eb_late = {} /\ ~(m.age < eb_badge.age)
    BY <1>1, <2>1
  <2>3. ~Shown
    <3>1. Shown => m.age = eb_age
      BY <1>2, <2>2 DEF Shown, BadgeInv, BadgeTyped, NoneIsNewer
    <3>2. QED
      BY <1>6, <2>1, <3>1
  <2>4. CASE Coming
    <3>1. PICK o \in eb_messages : ~o.read \/ o.age = eb_age
      BY <2>4 DEF Coming
    <3>2. o # m
      BY <1>1, <1>6, <2>1, <3>1
    <3>3. QED
      BY <1>1, <3>1, <3>2 DEF Coming
  <2>5. CASE Reported
    BY <1>1, <2>5 DEF Reported
  <2>6. QED
    BY <2>2, <2>3, <2>4, <2>5 DEF BadgeInv, CatchingUp
<1>8. QED
  BY <1>3, <1>5, <1>7 DEF BadgeInv

LEMMA BadgeInit == Badge!Init => BadgeInv
<1> SUFFICES ASSUME Badge!Init PROVE BadgeInv
  OBVIOUS
<1>1. /\ eb_jobs = [waiting |-> MaxJobs, active |-> 0, unread |-> 0] /\ eb_age = 0
      /\ eb_badge = [active |-> 0, unread |-> 0, age |-> 0] /\ eb_messages = {Badge!Ask}
  BY DEF Badge!Init
<1>2. eb_jobs \in [waiting : Nat, active : Nat, unread : Nat] /\ eb_age \in Nat
      /\ eb_badge \in [active : Nat, unread : Nat, age : Nat]
  BY <1>1, BadgeConstantsFit DEF Badge!ConstantsFit
<1>3. Badge!Ask = [kind |-> "asked", age |-> 0, counts |-> [active |-> 0, unread |-> 0], read |-> FALSE]
  BY <1>1 DEF Badge!Ask, Badge!Counts
<1>4. BadgeTyped
  BY <1>1, <1>2, <1>3 DEF BadgeTyped, MessageValues, CountValues
<1>5. NoneIsNewer
  BY <1>1, <1>3 DEF NoneIsNewer, Badge!Counts
<1>6. Shown
  BY <1>1 DEF Shown, Badge!Counts
<1>7. QED
  BY <1>4, <1>5, <1>6 DEF BadgeInv, CatchingUp

LEMMA BadgeStep == BadgeInv /\ [Badge!Next]_vars_eb => BadgeInv'
<1> SUFFICES ASSUME BadgeInv, [Badge!Next]_vars_eb PROVE BadgeInv'
  OBVIOUS
<1>t. /\ eb_jobs \in [waiting : Nat, active : Nat, unread : Nat]
      /\ eb_badge \in [active : Nat, unread : Nat, age : Nat]
  BY DEF BadgeInv, BadgeTyped
<1>1. CASE Badge!Starts
  <2>1. eb_jobs' = [eb_jobs EXCEPT !.waiting = @ - 1, !.active = @ + 1] /\ eb_jobs.waiting > 0
    BY <1>1 DEF Badge!Starts, Badge!Turns
  <2>2. eb_jobs' \in [waiting : Nat, active : Nat, unread : Nat]
    <3>1. eb_jobs.waiting - 1 \in Nat /\ eb_jobs.active + 1 \in Nat
      BY <1>t, <2>1
    <3>2. QED
      BY <1>t, <2>1, <3>1, Zenon
  <2>3. UNCHANGED <<eb_badge, eb_late>> /\ Badge!Turns(eb_jobs')
    BY <1>1, <2>1 DEF Badge!Starts
  <2>4. QED
    BY <2>2, <2>3, TurnsKeeps
<1>2. CASE Badge!Ends
  <2>1. eb_jobs' = [eb_jobs EXCEPT !.active = @ - 1, !.unread = @ + 1] /\ eb_jobs.active > 0
    BY <1>2 DEF Badge!Ends, Badge!Turns
  <2>2. eb_jobs' \in [waiting : Nat, active : Nat, unread : Nat]
    <3>1. eb_jobs.active - 1 \in Nat /\ eb_jobs.unread + 1 \in Nat
      BY <1>t, <2>1
    <3>2. QED
      BY <1>t, <2>1, <3>1
  <2>3. UNCHANGED <<eb_badge, eb_late>> /\ Badge!Turns(eb_jobs')
    BY <1>2, <2>1 DEF Badge!Ends
  <2>4. QED
    BY <2>2, <2>3, TurnsKeeps
<1>3. CASE Badge!markVisited
  <2>1. /\ eb_badge' = [eb_badge EXCEPT !.unread = 0]
        /\ eb_marks' = eb_marks \cup {[no |-> eb_left.visits, by |-> "visit"]}
        /\ UNCHANGED <<eb_jobs, eb_age, eb_messages>>
    BY <1>3 DEF Badge!markVisited
  <2>2. eb_badge' \in [active : Nat, unread : Nat, age : Nat] /\ eb_badge'.age = eb_badge.age
    BY <1>t, <2>1
  <2>3. Reported'
    <3>1. [no |-> eb_left.visits, by |-> "visit"].by = "visit"
      OBVIOUS
    <3>2. [no |-> eb_left.visits, by |-> "visit"] \in eb_marks'
      BY <2>1
    <3>3. QED
      BY <3>1, <3>2 DEF Reported
  <2>4. QED
    BY <2>1, <2>2, <2>3 DEF BadgeInv, BadgeTyped, NoneIsNewer, CatchingUp, Badge!Counts
<1>4. CASE Badge!MarkRead
  BY <1>4 DEF Badge!MarkRead, BadgeInv, BadgeTyped, NoneIsNewer, CatchingUp, Shown, Coming,
              Reported, Badge!Counts
<1>5. ASSUME NEW m \in eb_marks, Badge!Marked(m) PROVE BadgeInv'
  <2>1. /\ eb_jobs' = [eb_jobs EXCEPT !.unread = IF m.by = "download" /\ @ > 0 THEN @ - 1 ELSE 0]
        /\ eb_age' = eb_age + 1
        /\ UNCHANGED <<eb_badge, eb_late>>
    BY <1>5 DEF Badge!Marked
  <2>2. eb_jobs' \in [waiting : Nat, active : Nat, unread : Nat]
    BY <1>t, <2>1
  <2>3. PICK m1, m2 :
          /\ m1 = [kind |-> "asked", age |-> eb_age + 1, counts |-> Badge!Counts(eb_jobs'), read |-> FALSE]
          /\ m2 = [kind |-> "pushed", age |-> eb_age + 1, counts |-> Badge!Counts(eb_jobs'), read |-> TRUE]
    OBVIOUS
  <2>4. eb_messages' = eb_messages \cup {m1, m2}
    <3>1. eb_messages' = eb_messages \cup
            {[kind |-> k, age |-> eb_age + 1, counts |-> Badge!Counts(eb_jobs'),
              read |-> k = "pushed"] : k \in {"asked", "pushed"}}
      BY <1>5 DEF Badge!Marked
    <3>2. QED
      BY <2>3, <3>1
  <2>5. /\ m1 \in MessageValues /\ m1.age = eb_age + 1 /\ m1.counts = Badge!Counts(eb_jobs')
        /\ m2 \in MessageValues /\ m2.age = eb_age + 1 /\ m2.counts = Badge!Counts(eb_jobs')
    BY <2>2, <2>3, NewsIs DEF BadgeInv, BadgeTyped
  <2>6. QED
    BY <2>1, <2>2, <2>4, <2>5, ChangeKeeps
<1>6. ASSUME NEW m \in eb_marks, Badge!MarkFails(m) PROVE BadgeInv'
  <2>1. /\ eb_marks' = eb_marks \ {m}
        /\ eb_messages' = IF m.by = "visit" THEN eb_messages \cup {Badge!Ask} ELSE eb_messages
        /\ UNCHANGED <<eb_jobs, eb_age, eb_badge, eb_late>>
    BY <1>6 DEF Badge!MarkFails
  <2>2. CASE m.by = "visit"
    <3>1. eb_messages' = eb_messages \cup {Badge!Ask}
      BY <2>1, <2>2
    <3>2. BadgeTyped' /\ NoneIsNewer'
      BY <2>1, <3>1, AskIs DEF BadgeInv, BadgeTyped, NoneIsNewer, Badge!Counts
    <3>3. Coming'
      BY <3>1, AskIs DEF Coming, BadgeInv
    <3>4. QED
      BY <3>2, <3>3 DEF BadgeInv, CatchingUp
  <2>3. CASE m.by # "visit"
    <3>1. eb_messages' = eb_messages
      BY <2>1, <2>3
    <3>2. Reported => Reported'
      BY <2>1, <2>3 DEF Reported
    <3>3. QED
      BY <2>1, <3>1, <3>2 DEF BadgeInv, BadgeTyped, NoneIsNewer, CatchingUp, Shown, Coming,
                             Badge!Counts
  <2>4. QED
    BY <2>2, <2>3
<1>7. ASSUME NEW m \in eb_messages, Badge!Read(m) PROVE BadgeInv'
  <2>1. PICK answer : answer = [Badge!Ask EXCEPT !.read = TRUE]
    OBVIOUS
  <2>2. /\ eb_messages' = (eb_messages \ {m}) \cup {answer}
        /\ UNCHANGED <<eb_jobs, eb_age, eb_badge, eb_late>>
    BY <1>7, <2>1 DEF Badge!Read
  <2>3. answer \in MessageValues /\ answer.age = eb_age /\ answer.counts = Badge!Counts(eb_jobs)
    BY <2>1, AskIs DEF BadgeInv
  <2>4. BadgeTyped' /\ NoneIsNewer'
    BY <2>2, <2>3 DEF BadgeInv, BadgeTyped, NoneIsNewer, Badge!Counts
  <2>5. Coming'
    BY <2>2, <2>3 DEF Coming
  <2>6. QED
    BY <2>4, <2>5 DEF BadgeInv, CatchingUp
<1>8. ASSUME NEW m \in eb_messages, Badge!Lost(m) PROVE BadgeInv'
  <2>1. /\ eb_messages' = eb_messages \ {m} /\ eb_late' = eb_late \cup {"lost"}
        /\ UNCHANGED <<eb_jobs, eb_age, eb_badge>>
    BY <1>8 DEF Badge!Lost
  <2>2. eb_late' # {}
    BY <2>1
  <2>3. QED
    BY <2>1, <2>2 DEF BadgeInv, BadgeTyped, NoneIsNewer, CatchingUp, Badge!Counts
<1>9. CASE UNCHANGED vars_eb
  BY <1>9 DEF vars_eb, BadgeInv, BadgeTyped, NoneIsNewer, CatchingUp, Shown, Coming, Reported,
              Badge!Counts
<1>10. QED
  BY <1>1, <1>2, <1>3, <1>4, <1>5, <1>6, <1>7, <1>8, <1>9, ArrivesKeeps DEF Badge!Next

------------------------------------------------------------------------------
(* The three of them, each in the behaviors that are its own and at rest in the *)
(* others.                                                                      *)

LEMMA PromisesAre ==
  PromisesSpec => /\ Init /\ [][Next]_vars
                  /\ Client!Init /\ [][Client!Next]_vars_rc
                  /\ Badge!Init /\ [][Badge!Next]_vars_eb
<1>1. PromisesInit => Init /\ Client!Init /\ Badge!Init
  BY DEF PromisesInit
<1>2. [PromisesNext]_all => [Next]_vars /\ [Client!Next]_vars_rc /\ [Badge!Next]_vars_eb
  BY DEF PromisesNext, all
<1>3. PromisesSpec => PromisesInit /\ [][PromisesNext]_all
  BY PTL DEF PromisesSpec
<1>4. QED
  BY <1>1, <1>2, <1>3, PTL

\* Types of the cron loops and the requests that control them, and of the client's
\* connection: a reconnect timer is never counted below none.
THEOREM TypeCorrect == PromisesSpec => [](TypeOK /\ Client!TypeOK)
<1>1. ClientInv => Client!TypeOK
  BY DEF ClientInv
<1>2. Client!Init => ClientInv
  BY ClientInitInv, RealtimeConstantsFit
<1>3. ClientInv /\ [Client!Next]_vars_rc => ClientInv'
  BY ClientStepInv, RealtimeConstantsFit
<1>4. QED
  BY DownInit, DownStep, TypeStep, <1>1, <1>2, <1>3, PromisesAre, PTL

\* Between requests that did not overlap memory and row agree, and however they
\* overlap a loop that runs is tracked or one of those a request wrote over.
THEOREM LoopsAgreeHolds == PromisesSpec => []LoopsAgree
<1>1. LoopInv => LoopsAgree
  BY DEF LoopInv, InStep, LoopsAgree, LoopMatchesRow, Match, Quiet
<1>2. QED
  BY DownInit, DownStep, TypeStep, LoopInit, LoopInvStep, <1>1, PromisesAre, PTL

\* Whatever drops, closes late, reconnects and remounts: one socket is heard, the
\* server sends on it what the components want, and where its heartbeat was
\* stopped by its predecessor's close, a reconnect is pending.
THEOREM ConnectionAgreesHolds == PromisesSpec => []ConnectionAgrees
<1>1. ClientInv => ConnectionAgrees
  BY ClientAgrees DEF ConnectionAgrees
<1>2. Client!Init => ClientInv
  BY ClientInitInv, RealtimeConstantsFit
<1>3. ClientInv /\ [Client!Next]_vars_rc => ClientInv'
  BY ClientStepInv, RealtimeConstantsFit
<1>4. QED
  BY <1>1, <1>2, <1>3, PromisesAre, PTL

\* Whatever is pushed, asked for, marked and failed: once nothing is on its way and
\* nothing was lost or overtaken, the badge shows the exports as they are.
THEOREM BadgeCatchesUpHolds == PromisesSpec => []BadgeCatchesUp
<1>1. BadgeInv => BadgeCatchesUp
  BY DEF BadgeInv, CatchingUp, Shown, Coming, Reported, BadgeCatchesUp, Badge!BadgeCatchesUp
<1>2. QED
  BY BadgeInit, BadgeStep, <1>1, PromisesAre, PTL
==============================================================================
