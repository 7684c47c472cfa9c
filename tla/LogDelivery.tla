----------------------------- MODULE LogDelivery -----------------------------
(***************************************************************************)
(* What the reporter promises about the log of one task, without requests, *)
(* acknowledgements, retries or locks: the rows the job writes are stored  *)
(* by the server exactly once, in the order they were written and without  *)
(* a gap, and a task whose Close succeeded ("complete") has every row      *)
(* stored, unless the server lost some.  Module Reporter implements it.    *)
(***************************************************************************)
EXTENDS Sequences, Integers

CONSTANT Row       \* the log rows a job can write

VARIABLES
    written,       \* the rows the job wrote, oldest first
    stored,        \* the rows the server holds
    gap,           \* the server has lost rows it had stored
    outcome        \* "open", then what Close returned

vars == <<written, stored, gap, outcome>>

Init == written = <<>> /\ stored = <<>> /\ gap = FALSE /\ outcome = "open"

(* The job, or the reporter on its behalf, writes a few rows. *)
Write ==
    /\ outcome = "open"
    /\ written' \in Seq(Row)
    /\ Len(written') > Len(written)
    /\ SubSeq(written', 1, Len(written)) = written
    /\ UNCHANGED <<stored, gap, outcome>>

(* The server stores the next few rows, in order, after the ones it holds. *)
Store ==
    /\ \E n \in Len(stored) + 1 .. Len(written) : stored' = SubSeq(written, 1, n)
    /\ UNCHANGED <<written, gap, outcome>>

(* The server's storage loses the last rows. *)
Lose ==
    /\ \E n \in 0 .. Len(stored) - 1 : stored' = SubSeq(stored, 1, n)
    /\ gap' = TRUE
    /\ UNCHANGED <<written, outcome>>

(* Close returns: "complete" only when nothing is missing. *)
Finish ==
    /\ outcome = "open"
    /\ outcome' \in {"complete", "incomplete"}
    /\ outcome' = "complete" => stored = written \/ gap
    /\ UNCHANGED <<written, stored, gap>>

Next == Write \/ Store \/ Lose \/ Finish

Spec == Init /\ [][Next]_vars
=============================================================================
