----------------------------- MODULE MCExecutor -----------------------------
(* Small instances of Executor for TLC.                                    *)
EXTENDS Executor, TLC

CONSTANTS p1, p2     \* two processes

MCProcesses == {p1, p2}
MCOneProcess == {p1}

(* The second process has no start event.                                  *)
MCStartEvent == (p1 :> "start") @@ (p2 :> "")

(* The variables startProcess and resumeProcess could store.               *)
MCNames == {InitData, TaskResult}
MCInputs == {<<InitData>>, <<InitData, TaskResult>>, <<TaskResult>>}

(* No user task is ever saved.                                             *)
MCTasks == {}
MCTooLong == "too long"
MCTaskKey == <<>>

MCSymmetry == Permutations(Executors) \cup Permutations(Instances)
=============================================================================
