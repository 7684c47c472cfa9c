----------------------------- MODULE TaskService -----------------------------
(***************************************************************************)
(* What the poller promises about tasks, without workers, versions or      *)
(* answers: a task that the server assigns to the runner is started once   *)
(* and ends, or its assignment is lost before it was started; no task is   *)
(* started a second time; and the service closes only when no task is at   *)
(* the runner, after which it gets none.  Module Poller implements it.     *)
(***************************************************************************)
CONSTANT Tasks

VARIABLES
    status,    \* how far each task has come
    open       \* the runner may get tasks

vars == <<status, open>>

Init == status = [t \in Tasks |-> "unknown"] /\ open = TRUE

Moves(t, from, to) ==
    /\ status[t] = from
    /\ status' = [status EXCEPT ![t] = to]
    /\ UNCHANGED open

(* At the server: it appears, and may be taken away. *)
Appear(t) == Moves(t, "unknown", "waiting")
Withdraw(t) == Moves(t, "waiting", "gone")
(* At the runner. *)
Assign(t) == open /\ Moves(t, "waiting", "assigned")
Lose(t) == Moves(t, "assigned", "gone")
Start(t) == open /\ Moves(t, "assigned", "running")
End(t) == Moves(t, "running", "ended")

Close ==
    /\ \A t \in Tasks : status[t] \notin {"assigned", "running"}
    /\ open' = FALSE
    /\ UNCHANGED status

Next ==
    \/ \E t \in Tasks : Appear(t) \/ Withdraw(t) \/ Assign(t) \/ Lose(t) \/ Start(t) \/ End(t)
    \/ Close

Spec == Init /\ [][Next]_vars
=============================================================================
