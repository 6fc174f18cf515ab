----------------------------- MODULE OneAtATime -----------------------------
(***************************************************************************)
(* What the claim of a run key promises: per key at most one execution at  *)
(* a time, and an execution that is over never comes back.  The process    *)
(* may die, which ends every execution at once.                            *)
(***************************************************************************)
CONSTANTS Keys, Runs, NoRun

VARIABLES
  owner,  \* the execution in progress under each key, or NoRun
  over    \* executions that have ended

vars == <<owner, over>>

Init == owner = [k \in Keys |-> NoRun] /\ over = {}

Start(k, r) ==
  /\ owner[k] = NoRun
  /\ r \notin over
  /\ \A other \in Keys : owner[other] # r
  /\ owner' = [owner EXCEPT ![k] = r]
  /\ UNCHANGED over

End(k) ==
  /\ owner[k] # NoRun
  /\ owner' = [owner EXCEPT ![k] = NoRun]
  /\ over' = over \cup {owner[k]}

Die ==
  /\ owner' = [k \in Keys |-> NoRun]
  /\ over' = over \cup ({owner[k] : k \in Keys} \ {NoRun})

Next ==
  \/ \E k \in Keys, r \in Runs : Start(k, r)
  \/ \E k \in Keys : End(k)
  \/ Die

Spec == Init /\ [][Next]_vars
==============================================================================
