----------------------------- MODULE MCDatabase -----------------------------
(* Small instances of Database for TLC.                                    *)
EXTENDS Database, TLC

CONSTANTS t1         \* the only user task

(* A name, what saveUserTask makes of it, and of that in turn; prefixing   *)
(* once more exceeds the column.                                           *)
MCNames == {"a", "task_t1_a", "task_t1_task_t1_a"}
MCTaskKey == [p \in Tasks \X MCNames |->
                CASE p[2] = "a"         -> "task_t1_a"
                  [] p[2] = "task_t1_a" -> "task_t1_task_t1_a"
                  [] OTHER              -> TooLong]
MCTooLong == "too long"
MCTasks == {t1}

(* No variable, what a load returns after a user task has been saved, and  *)
(* the name with which a save and a user task of one instance can wait for *)
(* each other (the save has deleted the variable the task wants next and   *)
(* inserts the one the task holds).                                        *)
MCWaitInputs == {<<"a", "task_t1_a">>, <<"task_t1_task_t1_a">>}
MCInputs == MCWaitInputs \cup {<<>>}

MCSymmetry == Permutations(Conns)
=============================================================================
