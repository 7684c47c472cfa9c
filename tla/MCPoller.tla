------------------------------ MODULE MCPoller ------------------------------
(* Small instances of Poller for TLC: the configurations name the workers    *)
(* and the tasks.  No symmetry: the runs check liveness.                      *)
EXTENDS Poller
=============================================================================
