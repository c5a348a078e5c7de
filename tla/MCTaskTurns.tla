------------------------------ MODULE MCTaskTurns ------------------------------
(* The instance of TaskTurns: processes of one runtime.                       *)
EXTENDS TaskTurns

OneRuntime == [b \in Boots |-> "local"]
===============================================================================
