------------------------ MODULE ScheduledRuns_proofs ------------------------
(***************************************************************************)
(* Proofs about ScheduledRuns, for any number of keys, executions and stop *)
(* requests: type correctness; no key of a system job ever has two         *)
(* executions in progress, and system jobs implement OneAtATime; an open   *)
(* row is explained and a closed one stays; claims, tracked tasks and      *)
(* executions agree.                                                       *)
(***************************************************************************)
EXTENDS ScheduledRuns, SequenceTheorems, TLAPS

Phases == Awaiting \cup {"unused", "created", "skipped", "ended", "lost"}

\* The tables lead from phases to phases and write legal statuses.
LEMMA TablesOK ==
  /\ \A p \in Awaiting : OnReturn[p] \in Awaiting \cup {"ended"}
  /\ \A p \in Awaiting : OnRaise[p] \in Awaiting \cup {"ended"}
  /\ \A p \in DOMAIN RowWritten :
       RowWritten[p] \in {"none", "running", "success", "failure", "skipped"}
  /\ \A p \in DOMAIN LightWritten :
       LightWritten[p] \in {"none", "running", "success", "failure"}
<1>1. \A p \in Awaiting : OnReturn[p] \in Awaiting \cup {"ended"}
  BY DEF OnReturn, Awaiting
<1>2. \A p \in Awaiting : OnRaise[p] \in Awaiting \cup {"ended"}
  BY DEF OnRaise, Awaiting
<1>3. \A p \in DOMAIN RowWritten :
        RowWritten[p] \in {"none", "running", "success", "failure", "skipped"}
  BY DEF RowWritten
<1>4. \A p \in DOMAIN LightWritten :
        LightWritten[p] \in {"none", "running", "success", "failure"}
  BY DEF LightWritten
<1>5. QED
  BY <1>1, <1>2, <1>3, <1>4

\* The handles queued at the end of an execution are handles.
LEMMA HandlesOfEndType ==
  ASSUME NEW r \in Runs
  PROVE  HandlesOfEnd(r) \in Seq(Handles)
<1>1. <<"done", r>> \in Handles /\ <<"wake", r>> \in Handles
  BY DEF Handles
<1>2. CASE AwaitedByStop(r)
  <2>1. HandlesOfEnd(r) = <<<<"done", r>>>> \o <<<<"wake", r>>>>
    BY <1>2 DEF HandlesOfEnd
  <2>2. <<<<"done", r>>>> \in Seq(Handles) /\ <<<<"wake", r>>>> \in Seq(Handles)
    BY <1>1
  <2>3. QED
    BY <2>1, <2>2
<1>3. CASE ~AwaitedByStop(r)
  <2>1. HandlesOfEnd(r) = <<<<"done", r>>>> \o <<>>
    BY <1>3 DEF HandlesOfEnd
  <2>2. <<<<"done", r>>>> \in Seq(Handles) /\ <<>> \in Seq(Handles)
    BY <1>1
  <2>3. QED
    BY <2>1, <2>2
<1>4. QED
  BY <1>2, <1>3

\* The effect of the awaited statement keeps the tables typed.
LEMMA WriteType ==
  ASSUME TypeOK, NEW r \in Runs, Write(r) \/ NoWrite
  PROVE  /\ row' \in [Runs -> {"none", "running", "success", "failure", "skipped"}]
         /\ light' \in [Keys -> {"none", "running", "success", "failure"}]
<1>1. CASE Write(r)
  <2>1. row' \in [Runs -> {"none", "running", "success", "failure", "skipped"}]
    <3>1. CASE phase[r] \in DOMAIN RowWritten
      <4>1. row' = [row EXCEPT ![r] = RowWritten[phase[r]]]
        BY <1>1, <3>1 DEF Write
      <4>2. RowWritten[phase[r]] \in
              {"none", "running", "success", "failure", "skipped"}
        BY <3>1, TablesOK
      <4>3. QED
        BY <4>1, <4>2 DEF TypeOK
    <3>2. CASE phase[r] \notin DOMAIN RowWritten
      BY <1>1, <3>2 DEF Write, TypeOK
    <3>3. QED
      BY <3>1, <3>2
  <2>2. light' \in [Keys -> {"none", "running", "success", "failure"}]
    <3>1. CASE phase[r] \in DOMAIN LightWritten
      <4>1. light' = [light EXCEPT ![keyOf[r]] = LightWritten[phase[r]]]
        BY <1>1, <3>1 DEF Write
      <4>2. LightWritten[phase[r]] \in {"none", "running", "success", "failure"}
        BY <3>1, TablesOK
      <4>3. QED
        BY <4>1, <4>2 DEF TypeOK
    <3>2. CASE phase[r] \notin DOMAIN LightWritten
      BY <1>1, <3>2 DEF Write, TypeOK
    <3>3. QED
      BY <3>1, <3>2
  <2>3. QED
    BY <2>1, <2>2
<1>2. CASE NoWrite
  BY <1>2 DEF NoWrite, TypeOK
<1>3. QED
  BY <1>1, <1>2

\* Moving an execution on keeps what GoTo writes typed.
LEMMA GoToType ==
  ASSUME TypeOK, NEW r \in Runs, NEW p \in Awaiting \cup {"ended"}, GoTo(r, p)
  PROVE  /\ up' \in {"up", "closing", "down"}
         /\ runningKeys' \subseteq Keys
         /\ runTasks' \in [Keys -> Runs \cup {NoRun}]
         /\ phase' \in [Runs -> Phases]
         /\ keyOf' \in [Runs -> Keys]
         /\ cancelled' \subseteq Runs
         /\ soon' \in Seq(Handles)
         /\ tenantOn' \in [TenantKeys -> BOOLEAN]
         /\ due' \subseteq TenantKeys
         /\ stop' \in [Stops -> {Idle} \cup StopStates]
<1>1. phase' \in [Runs -> Phases]
  BY DEF GoTo, TypeOK, Phases
<1>2. soon' \in Seq(Handles)
  <2>1. soon \in Seq(Handles)
    BY DEF TypeOK
  <2>2. HandlesOfEnd(r) \in Seq(Handles)
    BY HandlesOfEndType
  <2>3. soon' = soon \o HandlesOfEnd(r) \/ soon' = soon
    BY DEF GoTo
  <2>4. soon \o HandlesOfEnd(r) \in Seq(Handles)
    BY <2>1, <2>2, ConcatProperties, Zenon
  <2>5. QED
    BY <2>1, <2>3, <2>4, Zenon
<1>3. runningKeys' \subseteq Keys
  BY DEF GoTo, TypeOK
<1>4. QED
  BY <1>1, <1>2, <1>3 DEF GoTo, TypeOK

\* Every step keeps every variable in its type.
LEMMA TypeStep == TypeOK /\ [Next]_vars => TypeOK'
<1> SUFFICES ASSUME TypeOK, [Next]_vars PROVE TypeOK'
  OBVIOUS
<1>1. ASSUME NEW k \in Keys, NEW r \in Runs, Spawn(k, r) PROVE
        /\ up' \in {"up", "closing", "down"}
        /\ runningKeys' \subseteq Keys
        /\ runTasks' \in [Keys -> Runs \cup {NoRun}]
        /\ phase' \in [Runs -> Phases]
        /\ keyOf' \in [Runs -> Keys]
        /\ soon' \in Seq(Handles)
        /\ row' \in [Runs -> {"none", "running", "success", "failure", "skipped"}]
        /\ UNCHANGED <<cancelled, faulted, light, tenantOn, stop>>
  <2>1. <<"start", r>> \in Handles
    BY DEF Handles
  <2>2. CASE Claim(k, r)
    <3>1. soon' \in Seq(Handles)
      BY <2>1, <2>2 DEF Claim, TypeOK
    <3>2. QED
      BY <1>1, <2>2, <3>1 DEF Spawn, Claim, TypeOK, Phases
  <2>3. CASE RecordSkipped(k, r)
    <3>1. row' \in [Runs -> {"none", "running", "success", "failure", "skipped"}]
      BY <2>3 DEF RecordSkipped, TypeOK
    <3>2. QED
      BY <1>1, <2>3, <3>1 DEF Spawn, RecordSkipped, TypeOK, Phases
  <2>4. QED
    BY <1>1, <2>2, <2>3 DEF Spawn
<1>2. ASSUME NEW k \in Keys, NEW r \in Runs, Trigger(k, r) PROVE TypeOK'
  BY <1>1, <1>2 DEF Trigger, TypeOK, Phases
<1>3. ASSUME NEW k \in TenantKeys, DispatchCheck(k) PROVE TypeOK'
  BY <1>3 DEF DispatchCheck, TypeOK
<1>4. ASSUME NEW k \in TenantKeys, NEW r \in Runs, DispatchSpawn(k, r)
      PROVE TypeOK'
  <2>1. k \in Keys
    BY DEF Keys
  <2>2. QED
    BY <1>1, <1>4, <2>1 DEF DispatchSpawn, TypeOK, Phases
<1>5. ASSUME NEW r \in Runs, Begin(r) PROVE TypeOK'
  <2>1. Tail(soon) \in Seq(Handles)
    BY <1>5 DEF Begin, TypeOK
  <2>2. Tail(soon) \o HandlesOfEnd(r) \in Seq(Handles)
    BY <2>1, HandlesOfEndType, ConcatProperties, Zenon
  <2>3. soon' \in Seq(Handles)
    BY <1>5, <2>1, <2>2 DEF Begin
  <2>4. phase' \in [Runs -> Phases]
    BY <1>5 DEF Begin, TypeOK, Phases, Awaiting
  <2>5. QED
    BY <1>5, <2>3, <2>4 DEF Begin, TypeOK, Phases
<1>6. ASSUME NEW r \in Runs, DoneCallback(r) PROVE TypeOK'
  BY <1>6 DEF DoneCallback, TypeOK
<1>7. ASSUME NEW s \in Stops, StopWakes(s) PROVE TypeOK'
  <2>1. stop[s] \in StopStates
    BY <1>7 DEF StopWakes, TypeOK, Idle
  <2>2. stop' \in [Stops -> {Idle} \cup StopStates]
    BY <1>7, <2>1 DEF StopWakes, TypeOK, StopStates
  <2>3. soon' \in Seq(Handles)
    BY <1>7 DEF StopWakes, TypeOK
  <2>4. QED
    BY <1>7, <2>2, <2>3 DEF StopWakes, TypeOK
<1>8. ASSUME NEW r \in Runs, RunStep(r) PROVE TypeOK'
  <2>1. CASE Returns(r)
    <3>1. OnReturn[phase[r]] \in Awaiting \cup {"ended"}
      BY <2>1, TablesOK DEF Returns
    <3>2. QED
      BY <2>1, <3>1, GoToType, WriteType DEF Returns, TypeOK, Phases
  <2>2. CASE Raises(r)
    <3>1. OnRaise[phase[r]] \in Awaiting \cup {"ended"}
      BY <2>2, TablesOK DEF Raises
    <3>2. QED
      BY <2>2, <3>1, GoToType, WriteType DEF Raises, TypeOK, Phases
  <2>3. CASE NotRunnable(r)
    <3>1. "skip" \in Awaiting /\ (GoTo(r, "skip") \/ GoTo(r, "ended"))
      BY <2>3 DEF NotRunnable, Awaiting
    <3>2. QED
      BY <2>3, <3>1, GoToType, WriteType DEF NotRunnable, TypeOK, Phases
  <2>4. CASE Interrupted(r)
    BY <2>4, GoToType, WriteType DEF Interrupted, TypeOK, Phases
  <2>5. QED
    BY <1>8, <2>1, <2>2, <2>3, <2>4 DEF RunStep
<1>9. ASSUME NEW s \in Stops, NEW k \in TenantKeys, StopRequest(s, k)
      PROVE TypeOK'
  <2>1. CASE runTasks[k] # NoRun /\ Live(runTasks[k])
    <3>1. runTasks[k] \in Runs
      BY <2>1 DEF TypeOK, Keys
    <3>2. [pc |-> "await", key |-> k, task |-> runTasks[k]] \in StopStates
      BY <3>1 DEF StopStates
    <3>3. QED
      BY <1>9, <2>1, <3>1, <3>2 DEF StopRequest, TypeOK
  <2>2. CASE ~(runTasks[k] # NoRun /\ Live(runTasks[k]))
    <3>1. [pc |-> "disable", key |-> k, task |-> NoRun] \in StopStates
      BY DEF StopStates
    <3>2. QED
      BY <1>9, <2>2, <3>1 DEF StopRequest, TypeOK
  <2>3. QED
    BY <2>1, <2>2
<1>10. ASSUME NEW s \in Stops, StopDisables(s) PROVE TypeOK'
  <2>1. tenantOn' \in [TenantKeys -> BOOLEAN]
    BY <1>10 DEF StopDisables, TypeOK
  <2>2. QED
    BY <1>10, <2>1 DEF StopDisables, TypeOK
<1>11. CASE EnableTenants
  BY <1>11 DEF EnableTenants, TypeOK
<1>12. CASE Shutdown
  BY <1>12 DEF Shutdown, TypeOK
<1>13. CASE ShutdownEnds \/ Crash
  <2>1. MemoryLost
    BY <1>13 DEF ShutdownEnds, Crash
  <2>2. phase' \in [Runs -> Phases]
    BY <2>1 DEF MemoryLost, TypeOK, Phases
  <2>3. soon' \in Seq(Handles)
    BY <2>1 DEF MemoryLost
  <2>4. stop' \in [Stops -> {Idle} \cup StopStates]
    BY <2>1 DEF MemoryLost
  <2>5. QED
    BY <2>1, <2>2, <2>3, <2>4 DEF MemoryLost, TypeOK, Phases
<1>14. CASE Restart
  BY <1>14 DEF Restart, TypeOK
<1>15. CASE UNCHANGED vars
  BY <1>15 DEF vars, TypeOK
<1>16. QED
  BY <1>2, <1>3, <1>4, <1>5, <1>6, <1>7, <1>8, <1>9, <1>10, <1>11, <1>12,
     <1>13, <1>14, <1>15 DEF Next, LoopStep

\* The initial state is typed.
LEMMA TypeInit == Init => TypeOK
<1> SUFFICES ASSUME Init PROVE TypeOK
  OBVIOUS
<1>1. (CHOOSE k \in SysKeys : TRUE) \in Keys
  BY SomeSystemJob DEF Keys
<1>2. keyOf \in [Runs -> Keys]
  BY <1>1 DEF Init
<1>3. soon \in Seq(Handles)
  BY DEF Init
<1>4. stop \in [Stops -> {Idle} \cup StopStates]
  BY DEF Init
<1>5. QED
  BY <1>2, <1>3, <1>4 DEF Init, TypeOK

\* Type correctness of the executions of scheduled jobs.
THEOREM TypeCorrect == Spec => []TypeOK
<1>1. QED
  BY TypeInit, TypeStep, PTL DEF Spec

------------------------------------------------------------------------------
\* The strengthening that is inductive: a live execution of a system job still
\* holds its claim, because the only step that drops a foreign claim is a
\* tenant stop and its key is never a system key.
SystemClaims ==
  \A r \in Runs : Live(r) /\ keyOf[r] \in SysKeys => keyOf[r] \in runningKeys

IInv == SystemClaims /\ SystemSingleFlight

LEMMA IInvInit == Init => IInv
  BY DEF Init, IInv, SystemClaims, SystemSingleFlight, SingleFlightOn, Live,
         Awaiting

\* Ending, or moving on, an execution keeps both parts.
LEMMA GoToIInv ==
  ASSUME TypeOK, IInv, NEW r \in Runs, NEW p \in Awaiting \cup {"ended"},
         Live(r), GoTo(r, p)
  PROVE  IInv'
<1>1. \A x \in Runs : x # r => (Live(x)' <=> Live(x))
  BY DEF GoTo, Live, TypeOK
<1>2. keyOf' = keyOf
  BY DEF GoTo
<1>3. Live(r)' => p # "ended" /\ runningKeys' = runningKeys
  BY DEF GoTo, Live, TypeOK, Awaiting
<1>4. SystemSingleFlight'
  BY <1>1, <1>2 DEF IInv, SystemSingleFlight, SingleFlightOn
<1>5. SystemClaims'
  <2> SUFFICES ASSUME NEW x \in Runs, Live(x)', keyOf[x] \in SysKeys
               PROVE keyOf[x] \in runningKeys'
    BY <1>2 DEF SystemClaims
  <2>1. CASE x = r
    BY <2>1, <1>3 DEF IInv, SystemClaims
  <2>2. CASE x # r
    <3>1. Live(x) /\ keyOf[x] \in runningKeys
      BY <2>2, <1>1 DEF IInv, SystemClaims
    <3>2. keyOf[x] # keyOf[r]
      BY <2>2, <3>1 DEF IInv, SystemSingleFlight, SingleFlightOn
    <3>3. QED
      BY <3>1, <3>2 DEF GoTo
  <2>3. QED
    BY <2>1, <2>2
<1>6. QED
  BY <1>4, <1>5 DEF IInv

\* Spawning starts an execution only under a key nobody claims.
LEMMA SpawnIInv ==
  ASSUME TypeOK, IInv, NEW k \in Keys, NEW r \in Runs, Spawn(k, r)
  PROVE  IInv'
<1>1. \A x \in Runs : x # r => (Live(x)' <=> Live(x)) /\ keyOf'[x] = keyOf[x]
  BY DEF Spawn, Claim, RecordSkipped, Live, TypeOK
<1>2. keyOf'[r] = k
  BY DEF Spawn, TypeOK
<1>3. CASE Claim(k, r)
  <2>1. k \notin runningKeys /\ runningKeys' = runningKeys \cup {k}
    BY <1>3 DEF Claim
  <2>2. \A x \in Runs : Live(x) /\ keyOf[x] \in SysKeys => keyOf[x] # k
    BY <2>1 DEF IInv, SystemClaims
  <2>3. QED
    BY <1>1, <1>2, <2>1, <2>2
       DEF IInv, SystemClaims, SystemSingleFlight, SingleFlightOn
<1>4. CASE RecordSkipped(k, r)
  <2>1. ~Live(r)'
    BY <1>4 DEF RecordSkipped, Live, TypeOK, Awaiting
  <2>2. runningKeys' = runningKeys
    BY <1>4 DEF RecordSkipped
  <2>3. QED
    BY <1>1, <2>1, <2>2
       DEF IInv, SystemClaims, SystemSingleFlight, SingleFlightOn
<1>5. QED
  BY <1>3, <1>4 DEF Spawn

\* No step breaks the strengthened invariant.
LEMMA IInvStep == TypeOK /\ IInv /\ [Next]_vars => IInv'
<1> SUFFICES ASSUME TypeOK, IInv, [Next]_vars PROVE IInv'
  OBVIOUS
<1> USE DEF IInv, SystemClaims, SystemSingleFlight, SingleFlightOn
<1>1. ASSUME NEW k \in Keys, NEW r \in Runs, Trigger(k, r) PROVE IInv'
  BY <1>1, SpawnIInv DEF Trigger
<1>2. ASSUME NEW k \in TenantKeys, DispatchCheck(k) PROVE IInv'
  BY <1>2 DEF DispatchCheck, Live
<1>3. ASSUME NEW k \in TenantKeys, NEW r \in Runs, DispatchSpawn(k, r)
      PROVE IInv'
  BY <1>3, SpawnIInv DEF DispatchSpawn, Keys
<1>4. ASSUME NEW r \in Runs, Begin(r) PROVE IInv'
  <2>1. UNCHANGED <<keyOf, runningKeys>>
    BY <1>4 DEF Begin
  <2>2. \A x \in Runs : x # r => (Live(x)' <=> Live(x))
    BY <1>4 DEF Begin, Live, TypeOK
  <2>3. Live(r)
    BY <1>4 DEF Begin, Live
  <2>4. QED
    BY <2>1, <2>2, <2>3
<1>5. ASSUME NEW r \in Runs, DoneCallback(r) PROVE IInv'
  BY <1>5 DEF DoneCallback, Live
<1>6. ASSUME NEW s \in Stops, StopWakes(s) PROVE IInv'
  <2>1. stop[s].key \in TenantKeys
    BY <1>6 DEF StopWakes, TypeOK, Idle, StopStates
  <2>2. stop[s].key \notin SysKeys
    BY <2>1, KeysDisjoint
  <2>3. QED
    BY <1>6, <2>2 DEF StopWakes, Live
<1>7. ASSUME NEW r \in Runs, RunStep(r) PROVE IInv'
  <2>1. CASE Returns(r)
    <3>1. Live(r) /\ OnReturn[phase[r]] \in Awaiting \cup {"ended"}
      BY <2>1, TablesOK DEF Returns, Live
    <3>2. QED
      BY <2>1, <3>1, GoToIInv DEF Returns
  <2>2. CASE Raises(r)
    <3>1. Live(r) /\ OnRaise[phase[r]] \in Awaiting \cup {"ended"}
      BY <2>2, TablesOK DEF Raises, Live
    <3>2. QED
      BY <2>2, <3>1, GoToIInv DEF Raises
  <2>3. CASE NotRunnable(r)
    <3>1. Live(r) /\ "skip" \in Awaiting
      BY <2>3 DEF NotRunnable, Live, Awaiting
    <3>2. GoTo(r, "skip") \/ GoTo(r, "ended")
      BY <2>3 DEF NotRunnable
    <3>3. QED
      BY <3>1, <3>2, GoToIInv
  <2>4. CASE Interrupted(r)
    <3>1. Live(r)
      BY <2>4 DEF Interrupted, Live
    <3>2. QED
      BY <2>4, <3>1, GoToIInv DEF Interrupted
  <2>5. QED
    BY <1>7, <2>1, <2>2, <2>3, <2>4 DEF RunStep
<1>8. ASSUME NEW s \in Stops, NEW k \in TenantKeys, StopRequest(s, k)
      PROVE IInv'
  <2>1. k \notin SysKeys
    BY KeysDisjoint
  <2>2. runningKeys' = runningKeys \/ runningKeys' = runningKeys \ {k}
    BY <1>8 DEF StopRequest
  <2>3. UNCHANGED <<phase, keyOf>>
    BY <1>8 DEF StopRequest
  <2>4. QED
    BY <2>1, <2>2, <2>3 DEF Live
<1>9. ASSUME NEW s \in Stops, StopDisables(s) PROVE IInv'
  BY <1>9 DEF StopDisables, Live
<1>10. CASE EnableTenants \/ Shutdown \/ Restart
  BY <1>10 DEF EnableTenants, Shutdown, Restart, Live
<1>11. CASE ShutdownEnds \/ Crash
  <2>1. \A x \in Runs : ~Live(x)'
    BY <1>11 DEF ShutdownEnds, Crash, MemoryLost, Live, TypeOK, Awaiting
  <2>2. QED
    BY <2>1
<1>12. CASE UNCHANGED vars
  BY <1>12 DEF vars, Live
<1>13. QED
  BY <1>1, <1>2, <1>3, <1>4, <1>5, <1>6, <1>7, <1>8, <1>9, <1>10, <1>11,
     <1>12 DEF Next, LoopStep

\* "Already running returns False" for system jobs, whatever the number of
\* keys, executions and stop requests.
THEOREM SystemSingleFlightHolds == Spec => []SystemSingleFlight
<1>1. IInv => SystemSingleFlight
  BY DEF IInv
<1>2. QED
  BY TypeInit, TypeStep, IInvInit, IInvStep, <1>1, PTL DEF Spec

------------------------------------------------------------------------------
(* The bookkeeping rows.  What the row says of an execution follows from the   *)
(* statement the execution awaits, whatever raised or was cancelled before.    *)
RowOfPhase(r) ==
  /\ phase[r] \in {"unused", "created", "check", "skip", "insert"} => row[r] = "none"
  /\ phase[r] \in {"mark", "handle", "finish"} => row[r] = "running"
  /\ phase[r] = "record" => row[r] = "success"
  /\ phase[r] = "fail" => row[r] \in {"running", "success"}
  /\ phase[r] = "recordFail" => row[r] = "failure"
  /\ phase[r] = "ended" /\ row[r] = "running" => r \in cancelled \cup faulted

RowInv == \A r \in Runs : RowOfPhase(r)

\* An execution a step does not touch.
Untouched(r) ==
  /\ phase'[r] = phase[r] /\ row'[r] = row[r]
  /\ r \in cancelled \cup faulted => r \in cancelled' \cup faulted'

LEMMA UntouchedRow ==
  ASSUME NEW r \in Runs, RowOfPhase(r), Untouched(r)
  PROVE  RowOfPhase(r)' /\ ClosedRowStays(r)
  BY DEF RowOfPhase, Untouched, ClosedRowStays

\* The rows before an execution has ended are those of its next statement.
LEMMA RunStepRow ==
  ASSUME TypeOK, RowInv, NEW x \in Runs, RunStep(x), NEW r \in Runs
  PROVE  RowOfPhase(r)' /\ ClosedRowStays(r)
<1>1. RowOfPhase(r) /\ RowOfPhase(x)
  BY DEF RowInv
<1>2. CASE r # x
  <2>1. Untouched(r)
    BY <1>2 DEF RunStep, Returns, Raises, NotRunnable, Interrupted, Write, NoWrite,
                GoTo, Untouched, TypeOK
  <2>2. QED
    BY <1>1, <2>1, UntouchedRow
<1>3. CASE r = x
  <2>1. CASE Returns(r)
    BY <1>1, <2>1 DEF Returns, Write, GoTo, RowOfPhase, ClosedRowStays, TypeOK,
                      Awaiting, OnReturn, RowWritten
  <2>2. CASE Raises(r)
    BY <1>1, <2>2 DEF Raises, Write, NoWrite, GoTo, RowOfPhase, ClosedRowStays, TypeOK,
                      Awaiting, OnRaise, RowWritten
  <2>3. CASE NotRunnable(r)
    BY <1>1, <2>3 DEF NotRunnable, NoWrite, GoTo, RowOfPhase, ClosedRowStays, TypeOK,
                      Awaiting
  <2>4. CASE Interrupted(r)
    BY <1>1, <2>4 DEF Interrupted, Write, NoWrite, GoTo, RowOfPhase, ClosedRowStays,
                      TypeOK, Awaiting, RowWritten
  <2>5. QED
    BY <1>3, <2>1, <2>2, <2>3, <2>4 DEF RunStep
<1>4. QED
  BY <1>2, <1>3

\* A spawn writes a row only of the execution it skips.
LEMMA SpawnRow ==
  ASSUME TypeOK, RowInv, NEW k \in Keys, NEW x \in Runs, Spawn(k, x), NEW r \in Runs
  PROVE  RowOfPhase(r)' /\ ClosedRowStays(r)
<1>1. RowOfPhase(r)
  BY DEF RowInv
<1>2. CASE r # x
  <2>1. Untouched(r)
    BY <1>2 DEF Spawn, Claim, RecordSkipped, Untouched, TypeOK
  <2>2. QED
    BY <1>1, <2>1, UntouchedRow
<1>3. CASE r = x
  BY <1>1, <1>3 DEF Spawn, Claim, RecordSkipped, RowOfPhase, ClosedRowStays, TypeOK
<1>4. QED
  BY <1>2, <1>3

\* Every step keeps the rows in step with the executions and reopens none.
LEMMA RowStep ==
  TypeOK /\ RowInv /\ [Next]_vars => RowInv' /\ \A r \in Runs : ClosedRowStays(r)
<1> SUFFICES ASSUME TypeOK, RowInv, [Next]_vars, NEW r \in Runs
             PROVE  RowOfPhase(r)' /\ ClosedRowStays(r)
  BY DEF RowInv
<1>1. RowOfPhase(r)
  BY DEF RowInv
<1>2. ASSUME NEW k \in Keys, NEW x \in Runs, Trigger(k, x)
      PROVE  RowOfPhase(r)' /\ ClosedRowStays(r)
  BY <1>2, SpawnRow DEF Trigger
<1>3. ASSUME NEW k \in TenantKeys, NEW x \in Runs, DispatchSpawn(k, x)
      PROVE  RowOfPhase(r)' /\ ClosedRowStays(r)
  BY <1>3, SpawnRow DEF DispatchSpawn, Keys
<1>4. ASSUME NEW x \in Runs, Begin(x) PROVE RowOfPhase(r)' /\ ClosedRowStays(r)
  <2>1. CASE r # x
    BY <1>1, <1>4, <2>1, UntouchedRow DEF Begin, Untouched, TypeOK
  <2>2. CASE r = x
    BY <1>1, <1>4, <2>2 DEF Begin, RowOfPhase, ClosedRowStays, TypeOK
  <2>3. QED
    BY <2>1, <2>2
<1>5. ASSUME NEW x \in Runs, RunStep(x) PROVE RowOfPhase(r)' /\ ClosedRowStays(r)
  BY <1>5, RunStepRow
<1>6. CASE ShutdownEnds \/ Crash
  <2>1. row' = row /\ phase'[r] \in {phase[r], "lost"}
        /\ UNCHANGED <<cancelled, faulted>>
    BY <1>6 DEF ShutdownEnds, Crash, MemoryLost
  <2>2. QED
    BY <1>1, <2>1 DEF RowOfPhase, ClosedRowStays
<1>7. CASE \/ \E k \in TenantKeys : DispatchCheck(k)
           \/ \E x \in Runs : DoneCallback(x)
           \/ \E s \in Stops : StopWakes(s) \/ StopDisables(s)
           \/ \E s \in Stops, k \in TenantKeys : StopRequest(s, k)
           \/ EnableTenants \/ Shutdown \/ Restart \/ UNCHANGED vars
  <2>1. Untouched(r)
    BY <1>7 DEF DispatchCheck, DoneCallback, StopWakes, StopDisables, StopRequest,
                EnableTenants, Shutdown, Restart, vars, Untouched
  <2>2. QED
    BY <1>1, <2>1, UntouchedRow
<1>8. QED
  BY <1>2, <1>3, <1>4, <1>5, <1>6, <1>7 DEF Next, LoopStep

LEMMA RowInit == Init => RowInv
  BY DEF Init, RowInv, RowOfPhase

\* Executions and their rows agree at all times.
LEMMA RowInvHolds == Spec => [](TypeOK /\ RowInv)
  BY TypeInit, TypeStep, RowInit, RowStep, PTL DEF Spec

\* A row stays "running" after its execution only by a cancellation, a failed
\* bookkeeping call or the death of the process.
THEOREM OpenRowExplainedHolds == Spec => []OpenRowExplained
<1>1. TypeOK /\ RowInv => OpenRowExplained
  BY DEF RowInv, RowOfPhase, OpenRowExplained
<1>2. QED
  BY RowInvHolds, <1>1, PTL

\* No statement of an execution reopens its closed row.
THEOREM ClosedRowsStayHolds == Spec => ClosedRowsStay
<1>1. TypeOK /\ RowInv /\ [Next]_vars => [\A r \in Runs : ClosedRowStays(r)]_vars
  BY RowStep
<1>2. QED
  BY RowInvHolds, <1>1, PTL DEF Spec, ClosedRowsStay
------------------------------------------------------------------------------
(* The refinement.  The owner of a system key is well defined because the key   *)
(* has at most one live execution; a step of the executions is then a start, an *)
(* end, the death of all, or nothing to OneAtATime.                             *)
OverRuns == {r \in Runs : phase[r] \in {"ended", "lost"} /\ keyOf[r] \in SysKeys}

\* The owner of a key is its live execution, if there is one.
LEMMA OwnerIsLive ==
  SystemSingleFlight =>
    \A k \in SysKeys :
      /\ \A r \in Runs : Live(r) /\ keyOf[r] = k => OwnerOf(k) = r
      /\ (\A r \in Runs : ~(Live(r) /\ keyOf[r] = k)) => OwnerOf(k) = NoRun
      /\ OwnerOf(k) # NoRun => /\ OwnerOf(k) \in Runs /\ Live(OwnerOf(k))
                               /\ keyOf[OwnerOf(k)] = k
<1> SUFFICES ASSUME SystemSingleFlight, NEW k \in SysKeys
             PROVE  /\ \A r \in Runs : Live(r) /\ keyOf[r] = k => OwnerOf(k) = r
                    /\ (\A r \in Runs : ~(Live(r) /\ keyOf[r] = k)) => OwnerOf(k) = NoRun
                    /\ OwnerOf(k) # NoRun => /\ OwnerOf(k) \in Runs /\ Live(OwnerOf(k))
                                             /\ keyOf[OwnerOf(k)] = k
  OBVIOUS
<1> DEFINE Of(r) == Live(r) /\ keyOf[r] = k
<1>1. CASE \E r \in Runs : Of(r)
  <2>1. OwnerOf(k) = CHOOSE r \in Runs : Of(r)
    BY <1>1 DEF OwnerOf
  <2>2. OwnerOf(k) \in Runs /\ Of(OwnerOf(k))
    BY <1>1, <2>1
  <2>3. \A r \in Runs : Of(r) => OwnerOf(k) = r
    BY <2>2 DEF SystemSingleFlight, SingleFlightOn
  <2>4. QED
    BY <1>1, <2>2, <2>3
<1>2. CASE ~\E r \in Runs : Of(r)
  BY <1>2 DEF OwnerOf
<1>3. QED
  BY <1>1, <1>2

\* The same of the next state.
LEMMA OwnerIsLiveNext ==
  (SystemSingleFlight =>
    \A k \in SysKeys :
      /\ \A r \in Runs : Live(r) /\ keyOf[r] = k => OwnerOf(k) = r
      /\ (\A r \in Runs : ~(Live(r) /\ keyOf[r] = k)) => OwnerOf(k) = NoRun
      /\ OwnerOf(k) # NoRun => /\ OwnerOf(k) \in Runs /\ Live(OwnerOf(k))
                               /\ keyOf[OwnerOf(k)] = k)'
  BY OwnerIsLive, PTL

\* What OneAtATime sees of an execution does not change.
Unseen(r) ==
  \/ keyOf'[r] = keyOf[r] /\ (Live(r)' <=> Live(r))
     /\ (phase'[r] \in {"ended", "lost"} <=> phase[r] \in {"ended", "lost"})
  \/ /\ ~Live(r) /\ ~Live(r)'
     /\ {phase[r], phase'[r]} \cap {"ended", "lost"} = {}
  \/ keyOf[r] \notin SysKeys /\ keyOf'[r] \notin SysKeys
  \/ keyOf'[r] \notin SysKeys /\ phase[r] = "unused"

\* A step in which it sees nothing of any execution is a stutter.
LEMMA UnseenStutter ==
  ASSUME SystemSingleFlight, SystemSingleFlight', \A r \in Runs : Unseen(r)
  PROVE  UNCHANGED OAT!vars
<1>1. \A r \in Runs : (Live(r) /\ keyOf[r] \in SysKeys) => (Live(r)' /\ keyOf'[r] = keyOf[r])
  BY DEF Unseen, Live, Awaiting
<1>2. \A r \in Runs : (Live(r)' /\ keyOf'[r] \in SysKeys) => (Live(r) /\ keyOf'[r] = keyOf[r])
  BY DEF Unseen, Live, Awaiting
<1>3. ASSUME NEW k \in SysKeys PROVE OwnerOf(k)' = OwnerOf(k)
  <2>1. CASE \E r \in Runs : Live(r) /\ keyOf[r] = k
    <3>1. PICK r \in Runs : Live(r) /\ keyOf[r] = k
      BY <2>1
    <3>2. Live(r)' /\ keyOf'[r] = k
      BY <1>1, <3>1
    <3>3. QED
      BY <3>1, <3>2, OwnerIsLive, OwnerIsLiveNext
  <2>2. CASE ~\E r \in Runs : Live(r) /\ keyOf[r] = k
    <3>1. \A r \in Runs : ~(Live(r)' /\ keyOf'[r] = k)
      BY <1>2, <2>2
    <3>2. QED
      BY <2>2, <3>1, OwnerIsLive, OwnerIsLiveNext
  <2>3. QED
    BY <2>1, <2>2
<1>4. OverRuns' = OverRuns
  BY DEF Unseen, OverRuns, Live, Awaiting
<1>5. QED
  BY <1>3, <1>4 DEF OAT!vars, OverRuns

\* An execution of a system job that ends ends the ownership of its key.
LEMMA EndIsEnd ==
  ASSUME SystemSingleFlight, SystemSingleFlight', NEW r \in Runs, TypeOK,
         Live(r), phase' = [phase EXCEPT ![r] = "ended"], keyOf' = keyOf
  PROVE  OAT!Next \/ UNCHANGED OAT!vars
<1>1. \A x \in Runs : x # r => phase'[x] = phase[x] /\ (Live(x)' <=> Live(x))
  BY DEF TypeOK, Live
<1>2. phase'[r] = "ended" /\ ~Live(r)'
  BY DEF TypeOK, Live, Awaiting
<1>3. CASE keyOf[r] \in SysKeys
  <2>0. PICK k \in SysKeys : k = keyOf[r]
    BY <1>3
  <2>1. OwnerOf(k) = r /\ r # NoRun
    BY <2>0, OwnerIsLive, NoRunIsNoRun
  <2>2. OwnerOf(k)' = NoRun
    <3>1. \A x \in Runs : ~(Live(x)' /\ keyOf'[x] = k)
      BY <1>1, <1>2, <2>0 DEF SystemSingleFlight, SingleFlightOn
    <3>2. QED
      BY <3>1, OwnerIsLiveNext
  <2>3. ASSUME NEW q \in SysKeys, q # k PROVE OwnerOf(q)' = OwnerOf(q)
    <3>1. CASE \E x \in Runs : Live(x) /\ keyOf[x] = q
      <4>1. PICK x \in Runs : Live(x) /\ keyOf[x] = q
        BY <3>1
      <4>2. Live(x)' /\ keyOf'[x] = q
        BY <1>1, <2>0, <2>3, <4>1
      <4>3. QED
        BY <4>1, <4>2, OwnerIsLive, OwnerIsLiveNext
    <3>2. CASE ~\E x \in Runs : Live(x) /\ keyOf[x] = q
      <4>1. \A x \in Runs : ~(Live(x)' /\ keyOf'[x] = q)
        BY <1>1, <1>2, <3>2
      <4>2. QED
        BY <3>2, <4>1, OwnerIsLive, OwnerIsLiveNext
    <3>3. QED
      BY <3>1, <3>2
  <2>4. OverRuns' = OverRuns \cup {r}
    BY <1>1, <1>2, <2>0 DEF OverRuns
  <2>5. [q \in SysKeys |-> OwnerOf(q)]'
          = [[q \in SysKeys |-> OwnerOf(q)] EXCEPT ![k] = NoRun]
    BY <2>2, <2>3
  <2>6. OAT!End(k)
    BY <2>1, <2>4, <2>5 DEF OAT!End, OverRuns
  <2>7. QED
    BY <2>6 DEF OAT!Next
<1>4. CASE keyOf[r] \notin SysKeys
  <2>1. \A x \in Runs : Unseen(x)
    BY <1>1, <1>4 DEF Unseen
  <2>2. QED
    BY <2>1, UnseenStutter
<1>5. QED
  BY <1>3, <1>4

\* A spawn starts an ownership, or is not seen.
LEMMA SpawnIsStart ==
  ASSUME TypeOK, IInv, SystemSingleFlight', NEW k \in Keys, NEW r \in Runs, Spawn(k, r)
  PROVE  OAT!Next \/ UNCHANGED OAT!vars
<1>1. \A x \in Runs : x # r => /\ phase'[x] = phase[x] /\ (Live(x)' <=> Live(x))
                               /\ keyOf'[x] = keyOf[x]
  BY DEF Spawn, Claim, RecordSkipped, Live, TypeOK
<1>2. keyOf'[r] = k /\ phase[r] = "unused" /\ ~Live(r)
  BY DEF Spawn, TypeOK, Live, Awaiting
<1>3. SystemSingleFlight
  BY DEF IInv
<1>4. CASE Claim(k, r) /\ k \in SysKeys
  <2>1. k \notin runningKeys /\ phase'[r] = "created" /\ Live(r)'
    BY <1>4 DEF Claim, TypeOK, Live, Awaiting
  <2>2. \A x \in Runs : ~(Live(x) /\ keyOf[x] = k)
    BY <1>4, <2>1 DEF IInv, SystemClaims
  <2>3. OwnerOf(k) = NoRun /\ OwnerOf(k)' = r
    BY <1>2, <1>3, <1>4, <2>1, <2>2, OwnerIsLive, OwnerIsLiveNext
  <2>4. ASSUME NEW q \in SysKeys, q # k PROVE OwnerOf(q)' = OwnerOf(q) /\ OwnerOf(q) # r
    <3>1. CASE \E x \in Runs : Live(x) /\ keyOf[x] = q
      <4>1. PICK x \in Runs : Live(x) /\ keyOf[x] = q
        BY <3>1
      <4>2. x # r /\ Live(x)' /\ keyOf'[x] = q
        BY <1>1, <1>2, <4>1
      <4>3. QED
        BY <1>3, <4>1, <4>2, OwnerIsLive, OwnerIsLiveNext
    <3>2. CASE ~\E x \in Runs : Live(x) /\ keyOf[x] = q
      <4>1. \A x \in Runs : ~(Live(x)' /\ keyOf'[x] = q)
        BY <1>1, <1>2, <2>4, <3>2
      <4>2. QED
        BY <1>3, <3>2, <4>1, OwnerIsLive, OwnerIsLiveNext, NoRunIsNoRun
    <3>3. QED
      BY <3>1, <3>2
  <2>5. OverRuns' = OverRuns /\ r \notin OverRuns
    BY <1>1, <1>2, <2>1 DEF OverRuns
  <2>6. [q \in SysKeys |-> OwnerOf(q)]'
          = [[q \in SysKeys |-> OwnerOf(q)] EXCEPT ![k] = r]
    BY <2>3, <2>4
  <2>7. OAT!Start(k, r)
    BY <1>4, <2>3, <2>4, <2>5, <2>6, NoRunIsNoRun DEF OAT!Start, OverRuns
  <2>8. QED
    BY <1>4, <2>7 DEF OAT!Next
<1>5. CASE RecordSkipped(k, r) \/ k \notin SysKeys
  <2>1. Unseen(r)
    BY <1>2, <1>5 DEF RecordSkipped, Unseen, Live, Awaiting, TypeOK
  <2>2. \A x \in Runs : Unseen(x)
    BY <1>1, <2>1 DEF Unseen
  <2>3. QED
    BY <1>3, <2>2, UnseenStutter
<1>6. QED
  BY <1>4, <1>5 DEF Spawn

\* The process dies: every ownership ends.
LEMMA DeathIsDie ==
  ASSUME TypeOK, SystemSingleFlight, SystemSingleFlight', MemoryLost
  PROVE  OAT!Next
<1>1. \A r \in Runs : phase'[r] = IF Live(r) THEN "lost" ELSE phase[r]
  BY DEF MemoryLost
<1>2. keyOf' = keyOf /\ \A r \in Runs : ~Live(r)'
  BY <1>1 DEF MemoryLost, Live, Awaiting
<1>3. \A k \in SysKeys : OwnerOf(k)' = NoRun
  BY <1>2, OwnerIsLiveNext
<1>4. OverRuns' = OverRuns \cup ({OwnerOf(k) : k \in SysKeys} \ {NoRun})
  <2>1. ASSUME NEW r \in Runs, r \in OverRuns'
        PROVE  r \in OverRuns \cup ({OwnerOf(k) : k \in SysKeys} \ {NoRun})
    <3>1. CASE Live(r)
      BY <1>2, <2>1, <3>1, OwnerIsLive, NoRunIsNoRun DEF OverRuns
    <3>2. CASE ~Live(r)
      BY <1>1, <1>2, <2>1, <3>2 DEF OverRuns
    <3>3. QED
      BY <3>1, <3>2
  <2>2. ASSUME NEW r \in OverRuns PROVE r \in OverRuns'
    BY <1>1, <1>2 DEF OverRuns, Live, Awaiting
  <2>3. ASSUME NEW k \in SysKeys, OwnerOf(k) # NoRun PROVE OwnerOf(k) \in OverRuns'
    BY <1>1, <1>2, <2>3, OwnerIsLive DEF OverRuns
  <2>4. OverRuns' \subseteq Runs
    BY DEF OverRuns
  <2>5. QED
    BY <2>1, <2>2, <2>3, <2>4
<1>5. OAT!Die
  BY <1>3, <1>4 DEF OAT!Die, OverRuns
<1>6. QED
  BY <1>5 DEF OAT!Next

\* A step of an execution that goes on is not seen; one that ends is an end.
LEMMA GoToIsEnd ==
  ASSUME TypeOK, SystemSingleFlight, SystemSingleFlight', NEW r \in Runs,
         NEW p \in Awaiting \cup {"ended"}, Live(r), GoTo(r, p)
  PROVE  OAT!Next \/ UNCHANGED OAT!vars
<1>1. CASE p = "ended"
  BY <1>1, EndIsEnd DEF GoTo
<1>2. CASE p # "ended"
  <2>1. phase'[r] = p /\ Live(r)'
    BY <1>2 DEF GoTo, TypeOK, Live
  <2>2. \A x \in Runs : Unseen(x)
    BY <1>2, <2>1 DEF GoTo, Unseen, TypeOK, Live, Awaiting
  <2>3. QED
    BY <2>2, UnseenStutter
<1>3. QED
  BY <1>1, <1>2

\* Every step maps to a step of OneAtATime or to a stutter.
LEMMA OneAtATimeStep ==
  TypeOK /\ IInv /\ IInv' /\ [Next]_vars => [OAT!Next]_(OAT!vars)
<1> SUFFICES ASSUME TypeOK, IInv, IInv', [Next]_vars
             PROVE  OAT!Next \/ UNCHANGED OAT!vars
  OBVIOUS
<1>1. SystemSingleFlight /\ SystemSingleFlight'
  BY DEF IInv
<1>2. ASSUME NEW k \in Keys, NEW r \in Runs, Trigger(k, r)
      PROVE  OAT!Next \/ UNCHANGED OAT!vars
  BY <1>1, <1>2, SpawnIsStart DEF Trigger
<1>3. ASSUME NEW k \in TenantKeys, NEW r \in Runs, DispatchSpawn(k, r)
      PROVE  OAT!Next \/ UNCHANGED OAT!vars
  BY <1>1, <1>3, SpawnIsStart DEF DispatchSpawn, Keys
<1>4. ASSUME NEW r \in Runs, Begin(r) PROVE OAT!Next \/ UNCHANGED OAT!vars
  <2>1. Live(r)
    BY <1>4 DEF Begin, Live
  <2>2. CASE r \in cancelled
    BY <1>1, <1>4, <2>1, <2>2, EndIsEnd DEF Begin
  <2>3. CASE r \notin cancelled
    <3>1. \A x \in Runs : Unseen(x)
      BY <1>4, <2>3 DEF Begin, Unseen, TypeOK, Live, Awaiting
    <3>2. QED
      BY <1>1, <3>1, UnseenStutter
  <2>4. QED
    BY <2>2, <2>3
<1>5. ASSUME NEW r \in Runs, RunStep(r) PROVE OAT!Next \/ UNCHANGED OAT!vars
  <2>1. Live(r)
    BY <1>5 DEF RunStep, Returns, Raises, NotRunnable, Interrupted, Live, Awaiting
  <2>2. PICK p \in Awaiting \cup {"ended"} : GoTo(r, p)
    BY <1>5, TablesOK DEF RunStep, Returns, Raises, NotRunnable, Interrupted, Awaiting
  <2>3. QED
    BY <1>1, <2>1, <2>2, GoToIsEnd
<1>6. CASE ShutdownEnds \/ Crash
  BY <1>1, <1>6, DeathIsDie DEF ShutdownEnds, Crash
<1>7. CASE \/ \E k \in TenantKeys : DispatchCheck(k)
           \/ \E r \in Runs : DoneCallback(r)
           \/ \E s \in Stops : StopWakes(s) \/ StopDisables(s)
           \/ \E s \in Stops, k \in TenantKeys : StopRequest(s, k)
           \/ EnableTenants \/ Shutdown \/ Restart \/ UNCHANGED vars
  <2>1. UNCHANGED <<phase, keyOf>>
    BY <1>7 DEF DispatchCheck, DoneCallback, StopWakes, StopDisables, StopRequest,
                EnableTenants, Shutdown, Restart, vars
  <2>2. \A x \in Runs : Unseen(x)
    BY <2>1 DEF Unseen, Live
  <2>3. QED
    BY <1>1, <2>2, UnseenStutter
<1>8. QED
  BY <1>2, <1>3, <1>4, <1>5, <1>6, <1>7 DEF Next, LoopStep

LEMMA OneAtATimeInit == Init => OAT!Init
<1> SUFFICES ASSUME Init PROVE OAT!Init
  OBVIOUS
<1>1. \A r \in Runs : phase[r] = "unused" /\ ~Live(r)
  BY DEF Init, Live, Awaiting
<1>2. \A k \in SysKeys : OwnerOf(k) = NoRun
  BY <1>1 DEF OwnerOf
<1>3. OverRuns = {}
  BY <1>1 DEF OverRuns
<1>4. QED
  BY <1>2, <1>3 DEF OAT!Init, OverRuns

\* The executions of system jobs implement OneAtATime, for any number of keys,
\* executions and stops.
THEOREM SystemJobsImplementOneAtATime == Spec => SystemJobsOneAtATime
<1>1. Spec => [](TypeOK /\ IInv)
  BY TypeInit, TypeStep, IInvInit, IInvStep, PTL DEF Spec
<1>2. QED
  BY <1>1, OneAtATimeInit, OneAtATimeStep, PTL DEF Spec, SystemJobsOneAtATime, OAT!Spec
------------------------------------------------------------------------------
(* What the manager has in memory.  A claim without a live execution is one a   *)
(* stop will drop: an execution is cancelled before its first step only while   *)
(* the stop that cancelled it waits, because the handle that wakes the stop is  *)
(* queued when the execution is over and not before.                            *)
Elems(s) == {s[i] : i \in DOMAIN s}
Pending == Elems(soon)

HandlesAreOfTheOver ==
  \A r \in Runs : Pending \cap {<<"done", r>>, <<"wake", r>>} # {} => phase[r] = "ended"

CancelledIsAwaited ==
  \A r \in cancelled :
    /\ phase[r] # "unused"
    /\ Live(r) => \/ up = "closing"
                  \/ \E s \in Stops : /\ stop[s].pc = "await"
                                      /\ stop[s].key = keyOf[r] /\ stop[s].task = r

TrackedIsKnown ==
  \A k \in Keys, r \in Runs :
    runTasks[k] = r => keyOf[r] = k /\ (Live(r) \/ <<"done", r>> \in Pending)

MemInv == ClaimHasOwner /\ TrackedIsKnown /\ HandlesAreOfTheOver /\ CancelledIsAwaited

\* The elements of the sequences the queue of handles is made of.
LEMMA ElemsOf ==
  /\ \A s \in Seq(Handles), e \in Handles : Elems(Append(s, e)) = Elems(s) \cup {e}
  /\ \A s, t \in Seq(Handles) : Elems(s \o t) = Elems(s) \cup Elems(t)
  /\ \A s \in Seq(Handles) : s # <<>> => Elems(s) = {Head(s)} \cup Elems(Tail(s))
<1>1. ASSUME NEW s \in Seq(Handles), NEW e \in Handles
      PROVE  Elems(Append(s, e)) = Elems(s) \cup {e}
  <2>1. DOMAIN s = 1..Len(s) /\ DOMAIN Append(s, e) = 1..(Len(s) + 1) /\ Len(s) \in Nat
    OBVIOUS
  <2>2. \A i \in 1..Len(s) : Append(s, e)[i] = s[i]
    OBVIOUS
  <2>3. Append(s, e)[Len(s) + 1] = e
    OBVIOUS
  <2>4. QED
    BY <2>1, <2>2, <2>3 DEF Elems
<1>2. ASSUME NEW s \in Seq(Handles), NEW t \in Seq(Handles)
      PROVE  Elems(s \o t) = Elems(s) \cup Elems(t)
  <2>1. /\ Len(s) \in Nat /\ Len(t) \in Nat
        /\ DOMAIN s = 1..Len(s) /\ DOMAIN t = 1..Len(t)
        /\ DOMAIN (s \o t) = 1..(Len(s) + Len(t))
    OBVIOUS
  <2>2. \A i \in 1..Len(s) : (s \o t)[i] = s[i]
    OBVIOUS
  <2>3. \A i \in 1..Len(t) : (s \o t)[Len(s) + i] = t[i]
    OBVIOUS
  <2>4. \A i \in 1..(Len(s) + Len(t)) : i \in 1..Len(s) \/ i - Len(s) \in 1..Len(t)
    BY <2>1
  <2>5. ASSUME NEW i \in 1..(Len(s) + Len(t))
        PROVE  (s \o t)[i] \in Elems(s) \cup Elems(t)
    <3>1. CASE i \in 1..Len(s)
      BY <2>1, <2>2, <3>1 DEF Elems
    <3>2. CASE i - Len(s) \in 1..Len(t)
      <4>1. (s \o t)[Len(s) + (i - Len(s))] = t[i - Len(s)]
        BY <2>3, <3>2
      <4>2. Len(s) + (i - Len(s)) = i
        BY <2>1
      <4>3. QED
        BY <2>1, <3>2, <4>1, <4>2 DEF Elems
    <3>3. QED
      BY <2>4, <3>1, <3>2
  <2>6. \A i \in 1..Len(s) : s[i] \in Elems(s \o t)
    BY <2>1, <2>2 DEF Elems
  <2>7. \A i \in 1..Len(t) : t[i] \in Elems(s \o t)
    BY <2>1, <2>3 DEF Elems
  <2>8. QED
    BY <2>1, <2>5, <2>6, <2>7 DEF Elems
<1>3. ASSUME NEW s \in Seq(Handles), s # <<>>
      PROVE  Elems(s) = {Head(s)} \cup Elems(Tail(s))
  <2>1. /\ Len(s) \in Nat \ {0} /\ DOMAIN s = 1..Len(s)
        /\ DOMAIN Tail(s) = 1..(Len(s) - 1)
    BY <1>3
  <2>2. Head(s) = s[1] /\ \A i \in 1..(Len(s) - 1) : Tail(s)[i] = s[i + 1]
    BY <1>3
  <2>3. \A i \in 1..Len(s) : i = 1 \/ i - 1 \in 1..(Len(s) - 1)
    BY <2>1
  <2>4. ASSUME NEW i \in 1..Len(s) PROVE s[i] \in {Head(s)} \cup Elems(Tail(s))
    <3>1. CASE i = 1
      BY <2>2, <3>1
    <3>2. CASE i - 1 \in 1..(Len(s) - 1)
      <4>1. Tail(s)[i - 1] = s[(i - 1) + 1] /\ (i - 1) + 1 = i
        BY <2>1, <2>2, <3>2
      <4>2. QED
        BY <2>1, <3>2, <4>1 DEF Elems
    <3>3. QED
      BY <2>3, <3>1, <3>2
  <2>5. QED
    BY <2>1, <2>2, <2>4 DEF Elems
<1>4. QED
  BY <1>1, <1>2, <1>3

\* What the end of an execution queues.
LEMMA ElemsOfEnd ==
  ASSUME NEW r \in Runs
  PROVE  /\ <<"done", r>> \in Elems(HandlesOfEnd(r))
         /\ Elems(HandlesOfEnd(r)) \subseteq {<<"done", r>>, <<"wake", r>>}
<1>1. <<"done", r>> \in Handles /\ <<"wake", r>> \in Handles
  BY DEF Handles
<1>2. <<<<"done", r>>>> \in Seq(Handles) /\ <<<<"wake", r>>>> \in Seq(Handles)
      /\ <<>> \in Seq(Handles)
  BY <1>1
<1>3. /\ Elems(<<<<"done", r>>>>) = {<<"done", r>>}
      /\ Elems(<<<<"wake", r>>>>) = {<<"wake", r>>}
      /\ Elems(<<>>) = {}
  BY DEF Elems
<1>4. CASE AwaitedByStop(r)
  <2>1. HandlesOfEnd(r) = <<<<"done", r>>>> \o <<<<"wake", r>>>>
    BY <1>4 DEF HandlesOfEnd
  <2>2. Elems(<<<<"done", r>>>> \o <<<<"wake", r>>>>)
          = Elems(<<<<"done", r>>>>) \cup Elems(<<<<"wake", r>>>>)
    BY <1>2, ElemsOf, Zenon
  <2>3. QED
    BY <1>3, <2>1, <2>2, Zenon
<1>5. CASE ~AwaitedByStop(r)
  <2>1. HandlesOfEnd(r) = <<<<"done", r>>>>
    BY <1>5 DEF HandlesOfEnd
  <2>2. QED
    BY <1>3, <2>1
<1>6. QED
  BY <1>4, <1>5

LEMMA MemInit == Init => MemInv
<1> SUFFICES ASSUME Init PROVE MemInv
  OBVIOUS
<1>1. Pending = {}
  BY DEF Init, Pending, Elems
<1>2. runTasks = [k \in Keys |-> NoRun] /\ runningKeys = {} /\ cancelled = {}
  BY DEF Init
<1>3. QED
  BY <1>1, <1>2, NoRunIsNoRun DEF MemInv, ClaimHasOwner, TrackedIsKnown,
                                  HandlesAreOfTheOver, CancelledIsAwaited

\* Spawning: the execution that gets the claim was neither tracked nor queued.
LEMMA SpawnMem ==
  ASSUME TypeOK, MemInv, NEW k \in Keys, NEW x \in Runs, Spawn(k, x)
  PROVE  MemInv'
<1>1. /\ phase[x] = "unused" /\ ~Live(x) /\ x \notin cancelled
      /\ \A q \in Keys : runTasks[q] # x
      /\ Pending \cap {<<"done", x>>, <<"wake", x>>} = {}
  BY DEF Spawn, MemInv, TrackedIsKnown, HandlesAreOfTheOver, CancelledIsAwaited, Live,
         Awaiting
<1>2. /\ \A r \in Runs : r # x => /\ phase'[r] = phase[r] /\ keyOf'[r] = keyOf[r]
                                  /\ (Live(r)' <=> Live(r))
      /\ keyOf'[x] = k /\ UNCHANGED <<up, cancelled, stop>>
  BY DEF Spawn, Claim, RecordSkipped, Live, TypeOK
<1>3. Pending' = Pending \/ Pending' = Pending \cup {<<"start", x>>}
  <2>1. soon' = soon \/ soon' = Append(soon, <<"start", x>>)
    BY DEF Spawn, Claim, RecordSkipped
  <2>2. soon \in Seq(Handles) /\ <<"start", x>> \in Handles
    BY DEF TypeOK, Handles
  <2>3. Elems(Append(soon, <<"start", x>>)) = Elems(soon) \cup {<<"start", x>>}
    BY <2>2, ElemsOf, Zenon
  <2>4. QED
    BY <2>1, <2>3 DEF Pending
<1>4. HandlesAreOfTheOver'
  <2> SUFFICES ASSUME NEW r \in Runs, Pending' \cap {<<"done", r>>, <<"wake", r>>} # {}
               PROVE  phase'[r] = "ended"
    BY DEF HandlesAreOfTheOver
  <2>1. Pending \cap {<<"done", r>>, <<"wake", r>>} # {}
    BY <1>3
  <2>2. QED
    BY <1>1, <1>2, <2>1 DEF MemInv, HandlesAreOfTheOver
<1>5. CancelledIsAwaited'
  BY <1>1, <1>2 DEF MemInv, CancelledIsAwaited, TypeOK
<1>6. CASE Claim(k, x)
  <2>1. /\ runningKeys' = runningKeys \cup {k} /\ Live(x)'
        /\ runTasks' = [runTasks EXCEPT ![k] = x]
    BY <1>6 DEF Claim, Live, TypeOK
  <2>2. ClaimHasOwner'
    BY <1>1, <1>2, <2>1 DEF MemInv, ClaimHasOwner
  <2>3. TrackedIsKnown'
    BY <1>1, <1>2, <1>3, <2>1 DEF MemInv, TrackedIsKnown, TypeOK
  <2>4. QED
    BY <1>4, <1>5, <2>2, <2>3 DEF MemInv
<1>7. CASE RecordSkipped(k, x)
  <2>1. UNCHANGED <<runningKeys, runTasks>>
    BY <1>7 DEF RecordSkipped
  <2>2. ClaimHasOwner' /\ TrackedIsKnown'
    BY <1>1, <1>2, <1>3, <2>1 DEF MemInv, ClaimHasOwner, TrackedIsKnown
  <2>3. QED
    BY <1>4, <1>5, <2>2 DEF MemInv
<1>8. QED
  BY <1>6, <1>7 DEF Spawn

\* The end of an execution: its callback is queued, and its claim is dropped or
\* left to the stop that waits for it.
LEMMA EndMem ==
  ASSUME TypeOK, MemInv, NEW r \in Runs, Live(r),
         phase' = [phase EXCEPT ![r] = "ended"],
         \/ runningKeys' = runningKeys \ {keyOf[r]}
         \/ runningKeys' = runningKeys /\ r \in cancelled,
         Pending' \subseteq Pending \cup Elems(HandlesOfEnd(r)),
         <<"done", r>> \in Pending',
         \A x \in Runs : <<"done", x>> \in Pending => <<"done", x>> \in Pending',
         UNCHANGED <<up, runTasks, keyOf, cancelled, stop>>
  PROVE  MemInv'
<1>1. /\ phase'[r] = "ended" /\ ~Live(r)'
      /\ \A x \in Runs : x # r => phase'[x] = phase[x] /\ (Live(x)' <=> Live(x))
  BY DEF TypeOK, Live, Awaiting
<1>2. HandlesAreOfTheOver'
  <2> SUFFICES ASSUME NEW x \in Runs, x # r,
                      Pending' \cap {<<"done", x>>, <<"wake", x>>} # {}
               PROVE  phase'[x] = "ended"
    BY <1>1 DEF HandlesAreOfTheOver
  <2>1. Pending \cap {<<"done", x>>, <<"wake", x>>} # {}
    BY ElemsOfEnd
  <2>2. QED
    BY <1>1, <2>1 DEF MemInv, HandlesAreOfTheOver
<1>3. CancelledIsAwaited'
  BY <1>1 DEF MemInv, CancelledIsAwaited, TypeOK
<1>4. TrackedIsKnown'
  BY <1>1 DEF MemInv, TrackedIsKnown
<1>5. ClaimHasOwner'
  <2> SUFFICES ASSUME NEW k \in runningKeys'
               PROVE  \/ \E x \in Runs : Live(x)' /\ keyOf[x] = k
                      \/ \E s \in Stops : stop[s].pc = "await" /\ stop[s].key = k
                      \/ up = "closing"
    BY DEF ClaimHasOwner
  <2>1. k \in runningKeys
    OBVIOUS
  <2>2. CASE k # keyOf[r]
    BY <1>1, <2>1, <2>2 DEF MemInv, ClaimHasOwner
  <2>3. CASE k = keyOf[r]
    BY <2>3 DEF MemInv, CancelledIsAwaited
  <2>4. QED
    BY <2>2, <2>3
<1>6. QED
  BY <1>2, <1>3, <1>4, <1>5 DEF MemInv

\* A step of an execution.
LEMMA GoToMem ==
  ASSUME TypeOK, MemInv, NEW r \in Runs, NEW p \in Awaiting \cup {"ended"}, Live(r),
         p # "ended" => r \notin cancelled, GoTo(r, p)
  PROVE  MemInv'
<1>1. CASE p = "ended"
  <2>1. Pending' = Pending \cup Elems(HandlesOfEnd(r))
    BY <1>1, ElemsOf, HandlesOfEndType DEF GoTo, Pending, TypeOK
  <2>2. QED
    BY <1>1, <2>1, EndMem, ElemsOfEnd DEF GoTo
<1>2. CASE p # "ended"
  <2>1. /\ phase'[r] # "unused"
        /\ \A x \in Runs : /\ Live(x)' <=> Live(x)
                           /\ x # r => phase'[x] = phase[x]
    BY <1>2 DEF GoTo, TypeOK, Live, Awaiting
  <2>2. Pending' = Pending /\ UNCHANGED <<up, runningKeys, runTasks, keyOf, cancelled, stop>>
    BY <1>2 DEF GoTo, Pending
  <2>3. Pending \cap {<<"done", r>>, <<"wake", r>>} = {}
    BY DEF MemInv, HandlesAreOfTheOver, Live, Awaiting
  <2>4. ClaimHasOwner' /\ TrackedIsKnown' /\ HandlesAreOfTheOver'
    BY <2>1, <2>2, <2>3 DEF MemInv, ClaimHasOwner, TrackedIsKnown, HandlesAreOfTheOver
  <2>5. CancelledIsAwaited'
    BY <2>1, <2>2 DEF MemInv, CancelledIsAwaited, TypeOK
  <2>6. QED
    BY <2>4, <2>5 DEF MemInv
<1>3. QED
  BY <1>1, <1>2

\* A handle of the loop.
LEMMA LoopMem ==
  ASSUME TypeOK, MemInv, LoopStep
  PROVE  MemInv'
<1>1. soon \in Seq(Handles) /\ soon # <<>>
  BY DEF LoopStep, Begin, DoneCallback, StopWakes, TypeOK
<1>2. Pending = {Head(soon)} \cup Elems(Tail(soon)) /\ Tail(soon) \in Seq(Handles)
  BY <1>1, ElemsOf DEF Pending
<1>3. ASSUME NEW r \in Runs, Begin(r) PROVE MemInv'
  <2>1. Live(r) /\ Head(soon) = <<"start", r>>
    BY <1>3 DEF Begin, Live
  <2>2. \A x \in Runs : <<"done", x>> \in Pending => <<"done", x>> \in Elems(Tail(soon))
    BY <1>2, <2>1
  <2>3. CASE r \in cancelled
    <3>1. Pending' = Elems(Tail(soon)) \cup Elems(HandlesOfEnd(r))
      <4>1. soon' = Tail(soon) \o HandlesOfEnd(r)
        BY <1>3, <2>3 DEF Begin
      <4>2. Elems(Tail(soon) \o HandlesOfEnd(r)) = Elems(Tail(soon)) \cup Elems(HandlesOfEnd(r))
        BY <1>2, ElemsOf, HandlesOfEndType, Zenon
      <4>3. QED
        BY <4>1, <4>2 DEF Pending
    <3>2. QED
      BY <1>2, <1>3, <2>1, <2>2, <2>3, <3>1, EndMem, ElemsOfEnd DEF Begin
  <2>4. CASE r \notin cancelled
    <3>1. Pending' = Elems(Tail(soon))
      BY <1>3, <2>4 DEF Begin, Pending
    <3>2. /\ phase'[r] = "check"
          /\ \A x \in Runs : /\ Live(x)' <=> Live(x)
                             /\ x # r => phase'[x] = phase[x]
      BY <1>3, <2>4 DEF Begin, TypeOK, Live, Awaiting
    <3>3. UNCHANGED <<up, runningKeys, runTasks, keyOf, cancelled, stop>>
      BY <1>3 DEF Begin
    <3>4. Pending \cap {<<"done", r>>, <<"wake", r>>} = {}
      BY <2>1 DEF MemInv, HandlesAreOfTheOver, Live, Awaiting
    <3>5. ClaimHasOwner' /\ TrackedIsKnown'
      BY <2>2, <3>1, <3>2, <3>3 DEF MemInv, ClaimHasOwner, TrackedIsKnown
    <3>6. HandlesAreOfTheOver'
      BY <1>2, <3>1, <3>2, <3>4 DEF MemInv, HandlesAreOfTheOver
    <3>7. CancelledIsAwaited'
      BY <3>2, <3>3 DEF MemInv, CancelledIsAwaited, TypeOK
    <3>8. QED
      BY <3>5, <3>6, <3>7 DEF MemInv
  <2>5. QED
    BY <2>3, <2>4
<1>4. ASSUME NEW r \in Runs, DoneCallback(r) PROVE MemInv'
  <2>1. /\ Pending' = Elems(Tail(soon)) /\ Head(soon) = <<"done", r>>
        /\ runTasks' = [runTasks EXCEPT ![keyOf[r]] = NoRun]
        /\ UNCHANGED <<up, runningKeys, phase, keyOf, cancelled, stop>>
    BY <1>4 DEF DoneCallback, Pending
  <2>2. \A x \in Runs : Live(x)' <=> Live(x)
    BY <2>1 DEF Live
  <2>3. ClaimHasOwner' /\ CancelledIsAwaited'
    BY <2>1, <2>2 DEF MemInv, ClaimHasOwner, CancelledIsAwaited, TypeOK
  <2>4. HandlesAreOfTheOver'
    BY <1>2, <2>1 DEF MemInv, HandlesAreOfTheOver
  <2>5. TrackedIsKnown'
    <3> SUFFICES ASSUME NEW k \in Keys, NEW x \in Runs, runTasks'[k] = x
                 PROVE  keyOf[x] = k /\ (Live(x) \/ <<"done", x>> \in Pending')
      BY <2>1, <2>2 DEF TrackedIsKnown
    <3>1. k # keyOf[r] /\ runTasks[k] = x
      BY <2>1, NoRunIsNoRun DEF TypeOK
    <3>2. keyOf[x] = k /\ x # r /\ (Live(x) \/ <<"done", x>> \in Pending)
      BY <3>1 DEF MemInv, TrackedIsKnown
    <3>3. QED
      BY <1>2, <2>1, <3>2
  <2>6. QED
    BY <2>3, <2>4, <2>5 DEF MemInv
<1>5. ASSUME NEW s \in Stops, StopWakes(s) PROVE MemInv'
  <2>1. stop[s] \in StopStates /\ stop[s].pc = "await"
    BY <1>5 DEF StopWakes, TypeOK, Idle
  <2>2. /\ Pending' \subseteq Pending /\ Head(soon) = <<"wake", stop[s].task>>
        /\ \A x \in Runs : <<"done", x>> \in Pending => <<"done", x>> \in Pending'
        /\ runningKeys' = runningKeys \ {stop[s].key}
        /\ stop' = [stop EXCEPT ![s].pc = "disable"]
        /\ UNCHANGED <<up, runTasks, phase, keyOf, cancelled>>
    BY <1>2, <1>5 DEF StopWakes, Pending
  <2>3. \A x \in Runs : Live(x)' <=> Live(x)
    BY <2>2 DEF Live
  <2>4. \A o \in Stops : o # s => stop'[o] = stop[o]
    BY <2>2 DEF TypeOK
  <2>5. \A x \in Runs : stop[s].task = x => ~Live(x)
    BY <1>2, <2>2 DEF MemInv, HandlesAreOfTheOver, Live, Awaiting
  <2>6. ClaimHasOwner'
    BY <2>2, <2>3, <2>4 DEF MemInv, ClaimHasOwner
  <2>7. TrackedIsKnown' /\ HandlesAreOfTheOver'
    BY <2>2, <2>3 DEF MemInv, TrackedIsKnown, HandlesAreOfTheOver
  <2>8. CancelledIsAwaited'
    BY <2>2, <2>3, <2>4, <2>5 DEF MemInv, CancelledIsAwaited, TypeOK
  <2>9. QED
    BY <2>6, <2>7, <2>8 DEF MemInv
<1>6. QED
  BY <1>3, <1>4, <1>5 DEF LoopStep

\* A stop request cancels what is tracked under its key, and waits for it.
LEMMA StopRequestMem ==
  ASSUME TypeOK, MemInv, NEW s \in Stops, NEW k \in TenantKeys, StopRequest(s, k)
  PROVE  MemInv'
<1>1. /\ UNCHANGED <<up, runTasks, phase, keyOf>> /\ Pending' = Pending
      /\ \A x \in Runs : Live(x)' <=> Live(x)
      /\ \A o \in Stops : o # s => stop'[o] = stop[o]
      /\ stop[s].pc = "idle" /\ k \in Keys
  BY DEF StopRequest, Pending, Live, TypeOK, Idle, Keys
<1>2. TrackedIsKnown' /\ HandlesAreOfTheOver'
  BY <1>1 DEF MemInv, TrackedIsKnown, HandlesAreOfTheOver
<1>3. CASE runTasks[k] # NoRun /\ Live(runTasks[k])
  <2>1. /\ cancelled' = cancelled \cup {runTasks[k]} /\ UNCHANGED runningKeys
        /\ stop'[s] = [pc |-> "await", key |-> k, task |-> runTasks[k]]
    BY <1>3 DEF StopRequest, TypeOK
  <2>2. ClaimHasOwner'
    BY <1>1, <2>1 DEF MemInv, ClaimHasOwner
  <2>3. runTasks[k] \in Runs /\ keyOf[runTasks[k]] = k /\ phase[runTasks[k]] # "unused"
    <3>1. runTasks[k] \in Runs
      BY <1>1, <1>3 DEF TypeOK
    <3>2. phase[runTasks[k]] # "unused"
      BY <1>3 DEF Live, Awaiting
    <3>3. QED
      BY <1>1, <3>1, <3>2 DEF MemInv, TrackedIsKnown
  <2>4. CancelledIsAwaited'
    BY <1>1, <2>1, <2>3 DEF MemInv, CancelledIsAwaited, TypeOK
  <2>5. QED
    BY <1>2, <2>2, <2>4 DEF MemInv
<1>4. CASE ~(runTasks[k] # NoRun /\ Live(runTasks[k]))
  <2>1. /\ runningKeys' = runningKeys \ {k} /\ UNCHANGED cancelled
        /\ stop'[s].pc = "disable"
    BY <1>4 DEF StopRequest, TypeOK
  <2>2. ClaimHasOwner'
    BY <1>1, <2>1 DEF MemInv, ClaimHasOwner
  <2>3. CancelledIsAwaited'
    BY <1>1, <2>1 DEF MemInv, CancelledIsAwaited, TypeOK
  <2>4. QED
    BY <1>2, <2>2, <2>3 DEF MemInv
<1>5. QED
  BY <1>3, <1>4

\* No step makes the memory of the manager wrong.
LEMMA MemStep == TypeOK /\ MemInv /\ [Next]_vars => MemInv'
<1> SUFFICES ASSUME TypeOK, MemInv, [Next]_vars PROVE MemInv'
  OBVIOUS
<1>1. ASSUME NEW k \in Keys, NEW r \in Runs, Trigger(k, r) PROVE MemInv'
  BY <1>1, SpawnMem DEF Trigger
<1>2. ASSUME NEW k \in TenantKeys, NEW r \in Runs, DispatchSpawn(k, r) PROVE MemInv'
  BY <1>2, SpawnMem DEF DispatchSpawn, Keys
<1>3. ASSUME NEW r \in Runs, RunStep(r) PROVE MemInv'
  <2>1. Live(r)
    BY <1>3 DEF RunStep, Returns, Raises, NotRunnable, Interrupted, Live, Awaiting
  <2>2. PICK p \in Awaiting \cup {"ended"} :
          GoTo(r, p) /\ (p # "ended" => r \notin cancelled)
    BY <1>3, TablesOK DEF RunStep, Returns, Raises, NotRunnable, Interrupted, Awaiting
  <2>3. QED
    BY <2>1, <2>2, GoToMem
<1>4. CASE LoopStep
  BY <1>4, LoopMem
<1>5. ASSUME NEW s \in Stops, NEW k \in TenantKeys, StopRequest(s, k) PROVE MemInv'
  BY <1>5, StopRequestMem
<1>6. ASSUME NEW s \in Stops, StopDisables(s) PROVE MemInv'
  <2>1. /\ UNCHANGED <<up, runningKeys, runTasks, phase, keyOf, cancelled>>
        /\ Pending' = Pending /\ stop[s].pc # "await"
        /\ \A x \in Runs : Live(x)' <=> Live(x)
        /\ \A o \in Stops : o # s => stop'[o] = stop[o]
    BY <1>6 DEF StopDisables, Pending, Live, TypeOK
  <2>2. ClaimHasOwner' /\ CancelledIsAwaited'
    BY <2>1 DEF MemInv, ClaimHasOwner, CancelledIsAwaited, TypeOK
  <2>3. QED
    BY <2>1, <2>2 DEF MemInv, TrackedIsKnown, HandlesAreOfTheOver
<1>7. CASE Shutdown
  <2>1. /\ UNCHANGED <<runningKeys, runTasks, phase, keyOf, stop>> /\ Pending' = Pending
        /\ up' = "closing" /\ \A x \in Runs : Live(x)' <=> Live(x)
        /\ \A r \in cancelled' : phase[r] # "unused"
    BY <1>7 DEF Shutdown, Pending, Live, Awaiting, MemInv, CancelledIsAwaited
  <2>2. QED
    BY <2>1 DEF MemInv, ClaimHasOwner, TrackedIsKnown, HandlesAreOfTheOver,
                CancelledIsAwaited
<1>8. CASE ShutdownEnds \/ Crash
  <2>1. /\ runningKeys' = {} /\ runTasks' = [k \in Keys |-> NoRun] /\ Pending' = {}
        /\ \A r \in Runs : ~Live(r)' /\ phase'[r] \in {phase[r], "lost"}
        /\ UNCHANGED cancelled
    BY <1>8 DEF ShutdownEnds, Crash, MemoryLost, Pending, Elems, Live, Awaiting
  <2>2. QED
    BY <2>1, NoRunIsNoRun DEF MemInv, ClaimHasOwner, TrackedIsKnown,
                              HandlesAreOfTheOver, CancelledIsAwaited, TypeOK
<1>9. CASE Restart
  <2>1. /\ UNCHANGED <<runningKeys, runTasks, phase, keyOf, cancelled, stop>>
        /\ Pending' = Pending /\ up # "closing"
        /\ \A x \in Runs : Live(x)' <=> Live(x)
    BY <1>9 DEF Restart, Pending, Live
  <2>2. QED
    BY <2>1 DEF MemInv, ClaimHasOwner, TrackedIsKnown, HandlesAreOfTheOver,
                CancelledIsAwaited, TypeOK
<1>10. CASE \/ \E k \in TenantKeys : DispatchCheck(k)
            \/ EnableTenants \/ UNCHANGED vars
  <2>1. /\ UNCHANGED <<up, runningKeys, runTasks, phase, keyOf, cancelled, stop>>
        /\ Pending' = Pending /\ \A x \in Runs : Live(x)' <=> Live(x)
    BY <1>10 DEF DispatchCheck, EnableTenants, vars, Pending, Live
  <2>2. QED
    BY <2>1 DEF MemInv, ClaimHasOwner, TrackedIsKnown, HandlesAreOfTheOver,
                CancelledIsAwaited, TypeOK
<1>11. QED
  BY <1>1, <1>2, <1>3, <1>4, <1>5, <1>6, <1>7, <1>8, <1>9, <1>10 DEF Next

\* A claim has a live execution or a stop that will drop it, and what is tracked
\* under a key is the key's own execution, not over or not yet called back: for any
\* number of keys, executions and stops.
THEOREM KeysAgreeHolds == Spec => []KeysAgree
<1>1. MemInv => KeysAgree
  BY DEF MemInv, KeysAgree, TrackedIsKnown, TrackedIsCurrent, Pending, Elems
<1>2. QED
  BY TypeInit, TypeStep, MemInit, MemStep, <1>1, PTL DEF Spec
==============================================================================
