--------------------------- MODULE MCTaskLifecycle ---------------------------
(* Model-checking instance of TaskLifecycle: the frames get_free_page may  *)
(* give a task_struct are model values.                                    *)
EXTENDS TaskLifecycle

CONSTANTS f1, f2
=============================================================================
