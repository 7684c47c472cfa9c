------------------------------- MODULE Runner -------------------------------
(***************************************************************************)
(* Runner.Run and Runner.run of internal/app/run/runner.go as the workers  *)
(* of the poller call them: at the same time, on one Runner.  The workers  *)
(* share runningTasks, a sync.Map that is looked up and then stored to,    *)
(* and envs, a plain map without a lock that every task writes its tokens  *)
(* to and hands to its executor.  What a task reports is module Reporter.  *)
(***************************************************************************)
EXTENDS Integers, FiniteSets

CONSTANTS
    Workers,
    Tasks,
    IdTasks,       \* those with an actions_id_token_request_url
    MaxGiven       \* bound: tasks given to the workers

ASSUME TasksAssumption == IdTasks \subseteq Tasks /\ MaxGiven \in Nat

None == "none"
ASSUME NoneAssumption == None \notin Tasks

(* The keys of envs that the tasks write; a value is the task it belongs to. *)
Keys == {"ID_TOKEN_REQUEST_URL", "ID_TOKEN_REQUEST_TOKEN", "RUNTIME_TOKEN"}

VARIABLES
    runningTasks,
    envs,
    pc, task,      \* each worker's place in Run, and its task
    crashed,       \* the Go runtime ended the process: concurrent use of a map
    \* history
    given,         \* how many tasks were given to the workers
    seen,          \* the values each worker's executor found
    alone,         \* no other task was in run since this worker's began
    raced          \* a task was looked up by two workers before either stored it

local == <<pc, task>>
history == <<given, seen, alone, raced>>
vars == <<runningTasks, envs, local, crashed, history>>

Writing == {"idUrl", "idToken", "runtime"}
InRun == {"prepare", "exec"} \cup Writing
Active(w) == pc[w] \in InRun

Init ==
    /\ runningTasks = {}
    /\ envs = [k \in Keys |-> None]
    /\ pc = [w \in Workers |-> "idle"]
    /\ task = [w \in Workers |-> None]
    /\ crashed = FALSE
    /\ given = 0 /\ seen = [w \in Workers |-> {}]
    /\ alone = [w \in Workers |-> TRUE] /\ raced = FALSE

Goto(w, l) == pc' = [pc EXCEPT ![w] = l]

(* The poller calls Run; the server may give a task a second time. *)
Given(w) ==
    /\ pc[w] = "idle" /\ given < MaxGiven
    /\ Goto(w, "load")
    /\ \E t \in Tasks : task' = [task EXCEPT ![w] = t]
    /\ given' = given + 1
    /\ UNCHANGED <<runningTasks, envs, crashed, seen, alone, raced>>

(* Run returns: the worker is free for another task. *)
Free(w) ==
    /\ Goto(w, "idle")
    /\ task' = [task EXCEPT ![w] = None]
    /\ seen' = [seen EXCEPT ![w] = {}]
    /\ alone' = [alone EXCEPT ![w] = TRUE]

(* "task is already running".  (Fault: the deferred Delete comes first.)     *)
Refuse_Delete(w) == runningTasks' = runningTasks \ {task[w]}
Refuse(w) == UNCHANGED runningTasks

Load(w) ==
    /\ pc[w] = "load"
    /\ IF task[w] \in runningTasks
       THEN Refuse(w) /\ Free(w) /\ UNCHANGED raced
       ELSE /\ Goto(w, "store")
            /\ raced' = (raced \/ \E u \in Workers \ {w} : pc[u] = "store" /\ task[u] = task[w])
            /\ UNCHANGED <<runningTasks, task, seen, alone>>
    /\ UNCHANGED <<envs, crashed, given>>

Store(w) ==
    /\ pc[w] = "store"
    /\ runningTasks' = runningTasks \cup {task[w]}
    /\ Goto(w, "prepare")
    /\ alone' = [u \in Workers |->
                    IF u = w THEN \A x \in Workers \ {w} : ~Active(x)
                    ELSE alone[u] /\ ~Active(u)]
    /\ UNCHANGED <<envs, task, crashed, given, seen, raced>>

(* The workflow is parsed; without the URL the two keys are not touched. *)
Prepare(w) ==
    /\ pc[w] = "prepare"
    /\ Goto(w, IF task[w] \in IdTasks THEN "idUrl" ELSE "runtime")
    /\ UNCHANGED <<runningTasks, envs, task, crashed, history>>

Set(w, key, next) ==
    /\ envs' = [envs EXCEPT ![key] = task[w]]
    /\ Goto(w, next)
    /\ UNCHANGED <<runningTasks, task, crashed, history>>

SetIdUrl(w) == pc[w] = "idUrl" /\ Set(w, "ID_TOKEN_REQUEST_URL", "idToken")
SetIdToken(w) == pc[w] = "idToken" /\ Set(w, "ID_TOKEN_REQUEST_TOKEN", "runtime")

(* gitea_runtime_token, or the token of the task if that is empty: the key   *)
(* is always written.  (Fault: only if the map has none.)                    *)
RuntimeToken_Once(w) == IF envs["RUNTIME_TOKEN"] = None THEN task[w] ELSE envs["RUNTIME_TOKEN"]
RuntimeToken(w) == task[w]

SetRuntime(w) ==
    /\ pc[w] = "runtime"
    /\ envs' = [envs EXCEPT !["RUNTIME_TOKEN"] = RuntimeToken(w)]
    /\ Goto(w, "exec")
    /\ UNCHANGED <<runningTasks, task, crashed, history>>

(* The executor reads the map, whenever it likes. *)
Read(w) ==
    /\ pc[w] = "exec"
    /\ \E k \in Keys : envs[k] # None /\ seen' = [seen EXCEPT ![w] = @ \cup {<<k, envs[k]>>}]
    /\ UNCHANGED <<runningTasks, envs, local, crashed, given, alone, raced>>

(* run returns, with an error or a panic at any place; Close reports. *)
RunReturns(w) ==
    /\ Active(w)
    /\ Goto(w, "close")
    /\ UNCHANGED <<runningTasks, envs, task, crashed, history>>

(* The deferred Delete.  (Fault: not deferred, and skipped by an error.)     *)
Unmark_Skip(w) == UNCHANGED runningTasks
Unmark(w) == runningTasks' = runningTasks \ {task[w]}

Delete(w) ==
    /\ pc[w] = "close"
    /\ Unmark(w)
    /\ Free(w)
    /\ UNCHANGED <<envs, crashed, given, raced>>

(* A write of the map while another goroutine writes or reads it. *)
Fatal ==
    /\ \E w, u \in Workers : w # u /\ pc[w] \in Writing /\ pc[u] \in Writing \cup {"exec"}
    /\ crashed' = TRUE
    /\ UNCHANGED <<runningTasks, envs, local, history>>

Step(w) ==
    \/ Given(w) \/ Load(w) \/ Store(w) \/ Prepare(w)
    \/ SetIdUrl(w) \/ SetIdToken(w) \/ SetRuntime(w)
    \/ Read(w) \/ RunReturns(w) \/ Delete(w)

Done ==
    /\ crashed \/ (given = MaxGiven /\ \A w \in Workers : pc[w] = "idle")
    /\ UNCHANGED vars

Next ==
    \/ ~crashed /\ (Fatal \/ \E w \in Workers : Step(w))
    \/ Done

Spec == Init /\ [][Next]_vars

-----------------------------------------------------------------------------
(* Properties *)

(* Every variable has its type, and no mark outlives its task. *)
TypeOK ==
    /\ runningTasks \subseteq {task[w] : w \in {u \in Workers : pc[u] # "idle"}}
    /\ envs \in [Keys -> Tasks \cup {None}]
    /\ pc \in [Workers -> {"idle", "load", "store", "close"} \cup InRun]
    /\ task \in [Workers -> Tasks \cup {None}]
    /\ \A w \in Workers : pc[w] = "idle" <=> task[w] = None
    /\ given \in 0..MaxGiven

(* A task that runs is marked as running and runs once at a time, also when  *)
(* it is given a second time meanwhile, refused and given a third time;      *)
(* unless the two calls of Run came so close that both found no mark.        *)
RunsOnceAtATime ==
    ~raced => \A w \in Workers : Active(w) =>
        /\ task[w] \in runningTasks
        /\ \A u \in Workers \ {w} : Active(u) => task[u] # task[w]

(* The executor of a task that has the runner for itself only finds the      *)
(* task's own tokens, whatever ran before it, under every key the task was   *)
(* given a value for.  (A task without the URL may find an earlier task's    *)
(* under the other two: runner.go:177.)                                      *)
OwnKeys(w) == IF task[w] \in IdTasks THEN Keys ELSE {"RUNTIME_TOKEN"}
OwnTokenAlone ==
    \A w \in Workers : alone[w] =>
        \A k \in OwnKeys(w), t \in Tasks : <<k, t>> \in seen[w] => t = task[w]

(* runner.go:185: the token of the action's API is the token of the task.    *)
TaskToken ==
    \A w \in Workers : \A t \in Tasks : <<"RUNTIME_TOKEN", t>> \in seen[w] => t = task[w]
=============================================================================
