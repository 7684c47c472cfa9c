------------------------------- MODULE Poller -------------------------------
(***************************************************************************)
(* The poller (internal/app/poll/poller.go) and the part of runDaemon that *)
(* starts it and shuts it down (internal/app/cmd/daemon.go).               *)
(*                                                                         *)
(* A number of workers fetch tasks and run them, one at a time each.  They *)
(* share tasksVersion, the version of the server's task queue they have    *)
(* seen: the server looks for a task only for a runner whose version       *)
(* differs from its own, so a worker that stores the current version while *)
(* a task is waiting makes every worker blind to it.  The main goroutine   *)
(* waits for a signal (or, run once, for the one task), then shuts down.   *)
(***************************************************************************)
EXTENDS Integers, FiniteSets

CONSTANTS
    Workers,       \* the goroutines of Poll: runner.capacity of them
    Tasks,         \* tasks that may appear on the server
    MaxVersion     \* bound: the server's version counter

ASSUME WorkersAssumption == Workers # {}
ASSUME VersionAssumption == MaxVersion \in Nat

NoTask == "no task"
ASSUME TasksAssumption == NoTask \notin Tasks
Reply == [version : Nat, task : Tasks \cup {NoTask}]
NoReply == [version |-> 0, task |-> NoTask]        \* the server's versions are positive

VARIABLES
    tasksVersion,  \* the shared version, an atomic integer
    pollingDone,   \* pollingCtx is cancelled
    done,          \* the channel done is closed
    pc,            \* where each worker is
    v,             \* the version each worker loaded before its request
    reply,         \* the answer to each worker's request
    once,          \* daemon --once, or an ephemeral runner: PollOnce
    main,          \* where the main goroutine is
    signalled,     \* SIGINT or SIGTERM arrived
    \* the server
    ver,           \* the version of its task queue
    pending,       \* tasks waiting for a runner
    created,       \* tasks that have appeared
    \* history
    started        \* tasks the runner started

workerVars == <<pc, v, reply>>
mainVars == <<pollingDone, done, once, main, signalled>>
serverVars == <<ver, pending, created>>
vars == <<tasksVersion, workerVars, mainVars, serverVars, started>>

(* Poll starts every worker, PollOnce is one. *)
Init ==
    /\ tasksVersion = 0
    /\ once \in BOOLEAN
    /\ \E one \in Workers :
          pc = [w \in Workers |-> IF once /\ w # one THEN "exit" ELSE "wait"]
    /\ pollingDone = FALSE /\ done = FALSE /\ main = "running" /\ signalled = FALSE
    /\ v = [w \in Workers |-> 0]
    /\ reply = [w \in Workers |-> NoReply]
    /\ ver = 1 /\ pending = {} /\ created = {} /\ started = {}

Goto(w, l) == pc' = [pc EXCEPT ![w] = l]

-----------------------------------------------------------------------------
(* A worker: poll, pollOnce and fetchTask *)

(* limiter.Wait lets the worker through; the version is loaded and sent. *)
Fetch(w) ==
    /\ pc[w] = "wait" /\ ~pollingDone
    /\ Goto(w, "sent")
    /\ v' = [v EXCEPT ![w] = tasksVersion]
    /\ UNCHANGED <<tasksVersion, reply, mainVars, serverVars, started>>

(* limiter.Wait fails: pollOnce returns.  (Fault: the worker waits on.) *)
WaitEnds_Continues(w) ==
    /\ pc[w] = "wait" /\ pollingDone
    /\ UNCHANGED vars
WaitEnds(w) ==
    /\ pc[w] = "wait" /\ pollingDone
    /\ Goto(w, "check")
    /\ UNCHANGED <<tasksVersion, v, reply, mainVars, serverVars, started>>

(* The request fails, runs into fetch_timeout or is cancelled with           *)
(* pollingCtx; a task the server had assigned is never heard of.             *)
FetchFails(w) ==
    /\ pc[w] = "sent"
    /\ Goto(w, "wait")
    /\ reply' = [reply EXCEPT ![w] = NoReply]
    /\ UNCHANGED <<tasksVersion, v, mainVars, serverVars, started>>

CompareAndSwap(old, new) == tasksVersion' = IF tasksVersion = old THEN new ELSE tasksVersion

(* A newer version is stored, if no other worker stored one meanwhile. *)
SeeVersion(w) ==
    IF reply[w].version > v[w] THEN CompareAndSwap(v[w], reply[w].version)
    ELSE UNCHANGED tasksVersion

(* The answer holds a task.  (Fault: not checked.) *)
HasTask_Unchecked(w) == TRUE
HasTask(w) == reply[w].task # NoTask

Receive(w) ==
    /\ pc[w] = "sent" /\ reply[w] # NoReply
    /\ SeeVersion(w)
    /\ Goto(w, IF HasTask(w) THEN "clear" ELSE "wait")
    /\ reply' = IF HasTask(w) THEN reply ELSE [reply EXCEPT ![w] = NoReply]
    /\ UNCHANGED <<v, mainVars, serverVars, started>>

(* There may be more tasks: the version is set back to zero, unless another  *)
(* worker stored a newer one.  (Faults: it is not; or it is compared with    *)
(* the version that was sent.)                                               *)
ForgetVersion_Skip(w) == UNCHANGED tasksVersion
ForgetVersion_Sent(w) == CompareAndSwap(v[w], 0)
ForgetVersion(w) == CompareAndSwap(reply[w].version, 0)

Clear(w) ==
    /\ pc[w] = "clear"
    /\ ForgetVersion(w)
    /\ Goto(w, "run")
    /\ started' = started \cup {reply[w].task}
    /\ UNCHANGED <<v, reply, mainVars, serverVars>>

(* runTaskWithRecover returns: the task ended, failed or panicked.  (Fault:  *)
(* the task is run again.)                                                   *)
TaskEnds_Retries(w) ==
    /\ pc[w] = "run"
    /\ Goto(w, "clear")
    /\ UNCHANGED <<tasksVersion, v, reply, mainVars, serverVars, started>>
TaskEnds(w) ==
    /\ pc[w] = "run"
    /\ Goto(w, "check")
    /\ reply' = [reply EXCEPT ![w] = NoReply]
    /\ UNCHANGED <<tasksVersion, v, mainVars, serverVars, started>>

(* pollOnce has returned: poll goes on unless polling was stopped, PollOnce  *)
(* does not.  (Fault: PollOnce loops like poll.)                             *)
GoesOn_Always == ~pollingDone
GoesOn == ~once /\ ~pollingDone

Check(w) ==
    /\ pc[w] = "check"
    /\ Goto(w, IF GoesOn THEN "wait" ELSE "exit")
    /\ UNCHANGED <<tasksVersion, v, reply, mainVars, serverVars, started>>

(* wg.Wait, or the return of pollOnce.  (Fault: the first to leave ends it.) *)
AllLeft_Any == \E w \in Workers : pc[w] = "exit"
AllLeft == \A w \in Workers : pc[w] = "exit"

CloseDone ==
    /\ ~done /\ AllLeft
    /\ done' = TRUE
    /\ UNCHANGED <<tasksVersion, workerVars, pollingDone, once, main, signalled, serverVars, started>>

-----------------------------------------------------------------------------
(* The main goroutine: runDaemon and Shutdown *)

Signal ==
    /\ ~signalled
    /\ signalled' = TRUE
    /\ UNCHANGED <<tasksVersion, workerVars, pollingDone, done, once, main, serverVars, started>>

(* What ends the wait of runDaemon.  (Fault: the end of PollOnce does not.) *)
Stop_SignalOnly == signalled
Stop == signalled \/ (once /\ done)

CallShutdown ==
    /\ main = "running" /\ Stop
    /\ main' = "shutdown"
    /\ pollingDone' = TRUE
    /\ UNCHANGED <<tasksVersion, workerVars, done, once, signalled, serverVars, started>>

(* shutdown_timeout passed.  The receive that is meant to be non-blocking    *)
(* waits for done to be closed; nothing is ever sent on it, so the receive   *)
(* ends with ok = FALSE and what follows (cancelling the jobs) never runs.   *)
ShutdownTimesOut ==
    /\ main = "shutdown"
    /\ main' = "timedOut"
    /\ UNCHANGED <<tasksVersion, workerVars, pollingDone, done, once, signalled, serverVars, started>>

(* The process ends when Shutdown has returned. *)
ShutdownReturns ==
    /\ main \in {"shutdown", "timedOut"} /\ done
    /\ main' = "returned"
    /\ UNCHANGED <<tasksVersion, workerVars, pollingDone, done, once, signalled, serverVars, started>>

-----------------------------------------------------------------------------
(* The server, as far as the version protocol relies on it *)

(* A task appears: the version grows with it. *)
NewTask ==
    /\ ver < MaxVersion
    /\ \E t \in Tasks \ created : pending' = pending \cup {t} /\ created' = created \cup {t}
    /\ ver' = ver + 1
    /\ UNCHANGED <<tasksVersion, workerVars, mainVars, started>>

(* The version grows for a task this runner cannot take. *)
OtherVersion ==
    /\ ver < MaxVersion
    /\ ver' = ver + 1
    /\ UNCHANGED <<tasksVersion, workerVars, mainVars, pending, created, started>>

(* Another runner takes a task, or it is cancelled. *)
OtherTakes ==
    /\ \E t \in pending : pending' = pending \ {t}
    /\ UNCHANGED <<tasksVersion, workerVars, mainVars, ver, created, started>>

(* FetchTask: a task is looked for only if the versions differ. *)
Serve(w) ==
    /\ pc[w] = "sent" /\ reply[w] = NoReply
    /\ \E t \in IF v[w] = ver \/ pending = {} THEN {NoTask} ELSE pending :
          /\ reply' = [reply EXCEPT ![w] = [version |-> ver, task |-> t]]
          /\ pending' = pending \ {t}
    /\ UNCHANGED <<tasksVersion, pc, v, mainVars, ver, created, started>>

-----------------------------------------------------------------------------
Worker(w) == \/ Fetch(w) \/ WaitEnds(w) \/ Receive(w) \/ Clear(w) \/ Check(w)
Main == CallShutdown \/ ShutdownReturns \/ CloseDone
Terminated == main = "returned" /\ UNCHANGED vars

Next ==
    \/ \E w \in Workers : Worker(w) \/ FetchFails(w) \/ TaskEnds(w) \/ Serve(w)
    \/ Main \/ Signal \/ ShutdownTimesOut
    \/ NewTask \/ OtherVersion \/ OtherTakes
    \/ Terminated

Spec == Init /\ [][Next]_vars

(* The goroutines run, and the timer of shutdown_timeout fires. *)
Running ==
    /\ \A w \in Workers : WF_vars(Worker(w))
    /\ WF_vars(Main) /\ WF_vars(ShutdownTimesOut)
(* A request in flight when pollingCtx is cancelled ends. *)
Cancelling == \A w \in Workers : WF_vars(pollingDone /\ FetchFails(w))
(* Tasks end: each runs under runner.timeout. *)
TasksEnd == \A w \in Workers : WF_vars(TaskEnds(w))
(* A worker that asks over and over gets through to the server and back. *)
Network == \A w \in Workers : SF_vars(Serve(w)) /\ SF_vars(Receive(w))

FairSpec == Spec /\ Running /\ Cancelling /\ TasksEnd /\ Network
NoEndSpec == Spec /\ Running /\ Cancelling

-----------------------------------------------------------------------------
(* Properties *)

(* Every variable has its type. *)
TypeOK ==
    /\ tasksVersion \in Nat /\ ver \in Nat \ {0}
    /\ pollingDone \in BOOLEAN /\ done \in BOOLEAN /\ signalled \in BOOLEAN /\ once \in BOOLEAN
    /\ main \in {"running", "shutdown", "timedOut", "returned"}
    /\ pc \in [Workers -> {"wait", "sent", "clear", "run", "check", "exit"}]
    /\ v \in [Workers -> Nat]
    /\ reply \in [Workers -> Reply]
    /\ pending \in SUBSET Tasks /\ created \in SUBSET Tasks /\ started \in SUBSET Tasks
    /\ \A w \in Workers : pc[w] \in {"clear", "run"} => reply[w].task \in Tasks

(* No waiting task is hidden: while the runner holds the server's current    *)
(* version (so that the server will not even look for a task for it), no     *)
(* task is waiting, unless a worker is about to set the version to zero.     *)
NoHiddenTask ==
    tasksVersion = ver /\ pending # {} =>
        \E w \in Workers : pc[w] = "clear" /\ reply[w].version = ver

(* The process does not end, and done is not signalled, while a task runs or *)
(* has just been fetched.                                                    *)
NothingLeftRunning ==
    done \/ main = "returned" => \A w \in Workers : pc[w] \notin {"clear", "run"}

(* A runner that runs once never starts a second task. *)
OneTask == once => Cardinality(started) <= 1

(* The poller implements the abstract service of tasks: whichever workers    *)
(* fetch, fail, run and leave at once, and whenever the runner is stopped, a  *)
(* task goes its way once, and none is at the runner when done is closed.     *)
Held(t, places) == \E w \in Workers : pc[w] \in places /\ reply[w].task = t
Status(t) ==
    IF t \notin created THEN "unknown"
    ELSE IF t \in pending THEN "waiting"
    ELSE IF Held(t, {"sent", "clear"}) THEN "assigned"
    ELSE IF Held(t, {"run"}) THEN "running"
    ELSE IF t \in started THEN "ended" ELSE "gone"
Service == INSTANCE TaskService WITH
    status <- [t \in Tasks |-> Status(t)],
    open <- ~done
ImplementsService == Service!Spec

(* A waiting task is taken, as long as the runner polls. *)
TasksTaken == \A t \in Tasks : t \in pending ~> (t \notin pending \/ pollingDone)

(* A signal ends the process, once the tasks that run have ended. *)
SignalEnds == signalled ~> main = "returned"

(* A runner that runs once ends after its task, without a signal. *)
OnceEnds == once /\ started # {} ~> main = "returned"

(* config.example.yaml, shutdown_timeout: the jobs that have not finished    *)
(* when it passes are cancelled; they stop even if they would not by         *)
(* themselves.                                                               *)
TimeoutStopsJobs == main = "timedOut" ~> \A w \in Workers : pc[w] # "run"
=============================================================================
