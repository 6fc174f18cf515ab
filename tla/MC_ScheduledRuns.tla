-------------------------- MODULE MC_ScheduledRuns --------------------------
(* Model-checking instance of ScheduledRuns. *)
EXTENDS ScheduledRuns, TLC

\* Executions are interchangeable.
RunSymmetry == Permutations(Runs)

\* The tables the executions write and the record of failures guard no step:
\* a run whose properties do not read them may identify states up to them.
ControlView == <<up, runningKeys, runTasks, phase, keyOf, cancelled, soon,
                 tenantOn, due, stop>>
==============================================================================
