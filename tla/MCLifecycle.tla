------------------------------ MODULE MCLifecycle ------------------------------
(***************************************************************************)
(* The option -d Enter for the model checker.                              *)
(***************************************************************************)
EXTENDS Lifecycle

UntilEnter == -1

================================================================================
