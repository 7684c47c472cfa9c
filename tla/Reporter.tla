------------------------------ MODULE Reporter ------------------------------
(***************************************************************************)
(* The life of one task in the runner: Runner.Run, the Reporter it creates *)
(* (internal/pkg/report/reporter.go) and the server the Reporter talks to. *)
(*                                                                         *)
(* Two goroutines share the Reporter: "job" runs Runner.Run (it writes log *)
(* rows and step results through Fire, Logf and SetOutputs and ends with   *)
(* Close), and "daemon" is the chain of timer callbacks of RunDaemon.      *)
(* Both report: ReportLog and ReportState, each one remote call made while *)
(* holding clientM.  A remote call is three steps: the client sends it     *)
(* (Send...), the server executes it (Serve...), the client reads the      *)
(* answer (...Answered) or an error (CallFails).  What is done under       *)
(* stateMu is short and calls nothing remote: one action each.             *)
(***************************************************************************)
EXTENDS Integers, Sequences, FiniteSets

CONSTANTS
    NumSteps,      \* steps of the job: len(job.Steps)
    Keys,          \* names of the job's outputs
    LongKeys,      \* the names longer than 255 bytes
    LongValues,    \* the names whose value is longer than 1 MiB
    StepResults,   \* what a step of the job may end with
    JobResults,    \* what the job may end with
    MaxRows,       \* bound: rows the workflow writes (Close, Logf may add more)
    MaxAttempts,   \* attempts of retry.Do in Close (10 in the library)
    MaxFaults,     \* bound: remote calls that fail, and rows the server loses
    LossyServer,   \* the server may lose rows it has acknowledged
    LateCalls      \* a call that failed may still reach the server later

Results == {"unspecified", "success", "failure", "cancelled", "skipped"}

ASSUME StepsAssumption == NumSteps \in Nat
ASSUME KeysAssumption == LongKeys \subseteq Keys /\ LongValues \subseteq Keys
ASSUME KeysFinite == IsFiniteSet(Keys)
ASSUME ResultsAssumption ==
    /\ StepResults \subseteq Results \ {"unspecified"}
    /\ JobResults \subseteq Results \ {"unspecified"}
ASSUME BoundsAssumption ==
    MaxRows \in Nat /\ MaxAttempts \in Nat \ {0} /\ MaxFaults \in Nat
ASSUME ServerAssumption == LossyServer \in BOOLEAN /\ LateCalls \in BOOLEAN

Procs == {"job", "daemon"}
None == [kind |-> "none"]             \* no call, no answer
NoStep == 0                           \* a row outside every step
Step == [result : Results, index : Nat, length : Nat]
Row == [id : Nat, step : Nat]

VARIABLES
    \* fields of the Reporter
    closed,        \* closed, written by Close, read by RunDaemon without a lock
    ctxDone,       \* r.ctx is cancelled or past its deadline
    clientM,       \* who holds the mutex, or "free"
    logOffset,     \* rows the server acknowledged
    logRows,       \* rows it has not, oldest first
    result, steps, \* r.state
    outputs,       \* r.outputs: "none", "held" (a value), "sent" (struct{}{})
    \* control state of the two goroutines
    job,           \* where Runner.Run is
    cur,           \* the step the executor is at, 1 .. NumSteps + 1
    runErr,        \* whether run returned an error: lastWords # ""
    attempt,       \* finished attempts of retry.Do in Close
    closeErr,      \* the error of Close's last attempt
    daemon,        \* "off", "armed", "tick", "stopped"
    closedSeen,    \* the daemon synchronised with Close since closed was set
    rep,           \* where a goroutine is in ReportLog and ReportState
    call,          \* its remote call in flight, or None
    reply,         \* the server's answer on its way back, or None
    \* the server, and the network
    slog,          \* log rows stored
    srv,           \* the last [result, steps] stored
    srvOut,        \* names of the outputs stored
    srvCancelled,  \* a user cancelled the task
    stray,         \* calls given up by the client that may still arrive
    faults,        \* failures so far
    lost,          \* the server has lost rows it had acknowledged
    stale,         \* the state it stores came with such a call
    \* history
    hist           \* every row written, in order

logVars == <<logOffset, logRows, hist>>
taskVars == <<result, steps>>
jobVars == <<job, cur, runErr, attempt, closeErr>>
daemonVars == <<daemon, closedSeen>>
callVars == <<rep, clientM, call, reply>>
srvVars == <<slog, srv, srvOut, srvCancelled, stray, faults, lost, stale>>
ctxVars == <<closed, ctxDone>>
vars == <<logVars, taskVars, outputs, jobVars, daemonVars, callVars, srvVars, ctxVars>>

-----------------------------------------------------------------------------
(* The Reporter's data *)

(* duringSteps: between the first step's first trace and the last's result. *)
DuringSteps(ss) ==
    /\ Len(ss) > 0
    /\ ss[1].result # "unspecified" \/ ss[1].length > 0
    /\ ss[Len(ss)].result = "unspecified"

(* The position in the task's log of the next row to be appended.  (Faults:  *)
(* the acknowledged rows are forgotten, or subtracted.)                      *)
NextIndex_NoOffset == Len(logRows)
NextIndex_Minus == Len(logRows) - logOffset
NextIndex == logOffset + Len(logRows)

(* Append one row of step s for each of the n rows a critical section adds. *)
NewRows(n, s) == [i \in 1..n |-> [id |-> Len(hist) + i, step |-> s]]
AddRows(n, s) ==
    /\ logRows' = logRows \o NewRows(n, s)
    /\ hist' = hist \o NewRows(n, s)
    /\ UNCHANGED logOffset

(* logf: a row of the reporter's own, dropped during the steps. *)
Logf(n) == AddRows(IF DuringSteps(steps) THEN 0 ELSE n, NoStep)

(* The steps without a result get one, when the job ends without them.       *)
(* (Fault: the others get it, too.)                                          *)
Resolve_All(ss, res) == [i \in DOMAIN ss |-> [ss[i] EXCEPT !.result = res]]
Resolve(ss, res) ==
    [i \in DOMAIN ss |->
        IF ss[i].result = "unspecified" THEN [ss[i] EXCEPT !.result = res] ELSE ss[i]]

(* Step s wrote a raw row: its log grows, or starts at the next position. *)
GrowLog(s) == [s EXCEPT !.index = IF s.length = 0 THEN NextIndex ELSE @,
                        !.length = @ + 1]

(* Step s ended with res; the log of a step that wrote nothing starts at n. *)
EndStep(s, res, n) == [s EXCEPT !.index = IF s.length = 0 THEN n ELSE @,
                                !.result = res]

-----------------------------------------------------------------------------
(* Initial state: Run has just created the Reporter. *)

Init ==
    /\ closed = FALSE /\ ctxDone = FALSE
    /\ clientM = "free"
    /\ logOffset = 0 /\ logRows = <<>> /\ hist = <<>>
    /\ result = "unspecified" /\ steps = <<>>
    /\ outputs = [k \in Keys |-> "none"]
    /\ job = "start" /\ cur = 1 /\ runErr = FALSE /\ attempt = 0 /\ closeErr = "nil"
    /\ daemon = "off" /\ closedSeen = FALSE
    /\ rep = [p \in Procs |-> "idle"]
    /\ call = [p \in Procs |-> None]
    /\ reply = [p \in Procs |-> None]
    /\ slog = <<>> /\ srv = [result |-> "unspecified", steps |-> <<>>]
    /\ srvOut = {} /\ srvCancelled = FALSE /\ stray = {} /\ faults = 0 /\ lost = FALSE
    /\ stale = FALSE

-----------------------------------------------------------------------------
(* Runner.Run and Runner.run: the job's goroutine up to Close *)

(* The first RunDaemon is a plain call, on the goroutine of the job. *)
FirstTick ==
    /\ job = "start"
    /\ IF ctxDone
       THEN /\ job' = "received" /\ daemon' = "stopped"
            /\ UNCHANGED rep
       ELSE /\ job' = "tick" /\ rep' = [rep EXCEPT !["job"] = "log"]
            /\ UNCHANGED daemon
    /\ UNCHANGED <<logVars, taskVars, outputs, cur, runErr, attempt, closeErr, closedSeen,
                   clientM, call, reply, srvVars, ctxVars>>

(* "... received task ... of job ..." *)
ReceiveTask ==
    /\ job = "received"
    /\ job' = "plan"
    /\ Logf(1)
    /\ UNCHANGED <<taskVars, outputs, cur, runErr, attempt, closeErr, daemonVars,
                   callVars, srvVars, ctxVars>>

(* The workflow is parsed and planned: ResetSteps. *)
ResetSteps ==
    /\ job = "plan"
    /\ job' = "prepare"
    /\ steps' = steps \o
         [i \in 1..NumSteps |-> [result |-> "unspecified", index |-> 0, length |-> 0]]
    /\ UNCHANGED <<logVars, result, outputs, cur, runErr, attempt, closeErr, daemonVars,
                   callVars, srvVars, ctxVars>>

(* "workflow prepared", then the executor starts. *)
Prepared ==
    /\ job = "prepare"
    /\ job' = "exec"
    /\ Logf(1)
    /\ UNCHANGED <<taskVars, outputs, cur, runErr, attempt, closeErr, daemonVars,
                   callVars, srvVars, ctxVars>>

(* run returns early: the workflow does not parse, it cannot be planned, the *)
(* act runner cannot be made, or something panics and the recover turns the  *)
(* panic into an error.                                                      *)
RunFails ==
    /\ job \in {"plan", "prepare", "exec", "stepErr", "post"}
    /\ job' = "closing"
    /\ runErr' = TRUE
    /\ UNCHANGED <<logVars, taskVars, outputs, cur, attempt, closeErr, daemonVars,
                   callVars, srvVars, ctxVars>>

(* The executor returns, with the job's result logged or (cancelled) not. *)
ExecReturns ==
    /\ job \in {"exec", "post"}
    /\ job' = "outputs"
    /\ runErr' \in BOOLEAN
    /\ UNCHANGED <<logVars, taskVars, outputs, cur, attempt, closeErr, daemonVars,
                   callVars, srvVars, ctxVars>>

-----------------------------------------------------------------------------
(* Fire: the hook the executor calls with every entry it logs.  An entry is *)
(* [main, step, raw, stepResult, jobResult]: stage = "Main", stepNumber     *)
(* (NoStep: none), raw_output or an error level, and the two results        *)
(* ("unspecified": none).  An entry that parses to a workflow command gives *)
(* no row and changes nothing here.                                         *)

FireOther(e) ==
    /\ ~e.main
    /\ result' = IF e.jobResult = "unspecified" THEN result ELSE e.jobResult
    /\ steps' = IF e.jobResult = "unspecified" THEN steps
                ELSE Resolve(steps, IF e.jobResult = "skipped" THEN "skipped" ELSE "cancelled")
    /\ AddRows(IF DuringSteps(steps') THEN 0 ELSE 1, NoStep)

FireMain(e) ==
    /\ e.main /\ e.step = NoStep
    /\ Logf(1)
    /\ UNCHANGED taskVars

FireStep(e) ==
    /\ e.main /\ e.step \in DOMAIN steps
    /\ LET rows == IF e.raw \/ ~DuringSteps(steps) THEN 1 ELSE 0
           grown == IF e.raw THEN [steps EXCEPT ![e.step] = GrowLog(@)] ELSE steps
       IN  /\ AddRows(rows, IF e.raw THEN e.step ELSE NoStep)
           /\ steps' = IF e.stepResult = "unspecified" THEN grown
                       ELSE [grown EXCEPT ![e.step] =
                               EndStep(@, e.stepResult, NextIndex + rows)]
    /\ UNCHANGED result

Fire(e) == FireOther(e) \/ FireMain(e) \/ FireStep(e)

Entry(main, s, raw, stepRes, jobRes) ==
    [main |-> main, step |-> s, raw |-> raw, stepResult |-> stepRes, jobResult |-> jobRes]

(* What act's executor logs, in its order: steps one after the other, each   *)
(* ending with a result; after a failure the error itself, for the same step *)
(* and before anything else; last the result of the job.                     *)
Room(n) == Len(hist) + n <= MaxRows
Logs(e, next) ==
    /\ Fire(e)
    /\ job' = next
    /\ UNCHANGED <<outputs, runErr, attempt, closeErr, daemonVars, callVars, srvVars, ctxVars>>

JobLine ==            \* set-up, clean-up, a step's pre and post stages
    /\ job \in {"exec", "post"} /\ Room(1)
    /\ Logs(Entry(FALSE, NoStep, FALSE, "unspecified", "unspecified"), job)
    /\ UNCHANGED cur

MainLine ==           \* an entry of the main stage outside the steps
    /\ job = "exec" /\ Room(1)
    /\ Logs(Entry(TRUE, NoStep, FALSE, "unspecified", "unspecified"), job)
    /\ UNCHANGED cur

StepLine(raw) ==      \* output of the step (raw), or act's own words on it
    /\ job = "exec" /\ cur <= NumSteps /\ Room(1)
    /\ Logs(Entry(TRUE, cur, raw, "unspecified", "unspecified"), job)
    /\ UNCHANGED cur

StepEnds(res) ==
    /\ job = "exec" /\ cur <= NumSteps
    /\ Room(IF res = "failure" THEN 2 ELSE 1)
    /\ Logs(Entry(TRUE, cur, res = "failure", res, "unspecified"),
            IF res = "failure" THEN "stepErr" ELSE job)
    /\ cur' = IF res = "failure" THEN cur ELSE cur + 1

StepError ==
    /\ job = "stepErr" /\ cur <= NumSteps
    /\ Logs(Entry(TRUE, cur, TRUE, "unspecified", "unspecified"), "exec")
    /\ cur' = cur + 1

JobEnds(res) ==
    /\ job = "exec" /\ Room(1)
    /\ Logs(Entry(FALSE, NoStep, FALSE, "unspecified", res), "post")
    /\ UNCHANGED cur

Executor ==
    \/ JobLine \/ MainLine \/ StepError
    \/ \E raw \in BOOLEAN : StepLine(raw)
    \/ \E res \in StepResults : StepEnds(res)
    \/ \E res \in JobResults : JobEnds(res)

(* SetOutputs, with the outputs the job declares: long names are ignored,    *)
(* long values are complained about, and nothing is stored twice.            *)
StoredOutputs(out) ==
    [k \in Keys |-> IF k \in out \ LongKeys /\ outputs[k] = "none" THEN "held" ELSE outputs[k]]

SetOutputs ==
    /\ job = "outputs"
    /\ job' = "closing"
    /\ \E out \in SUBSET Keys :
          /\ outputs' = StoredOutputs(out)
          /\ Logf(Cardinality(out \cap (LongKeys \cup LongValues)))
    /\ UNCHANGED <<taskVars, cur, runErr, attempt, closeErr, daemonVars,
                   callVars, srvVars, ctxVars>>

-----------------------------------------------------------------------------
(* RunDaemon: a timer callback.  It reads closed without a lock, so it may  *)
(* read the old value until a mutex has ordered it after Close's write.     *)

(* (Fault: the timer never checks whether it should go on.)                  *)

DaemonTick_NoCheck ==
    /\ daemon = "armed"
    /\ daemon' = "tick"
    /\ rep' = [rep EXCEPT !["daemon"] = "log"]
    /\ UNCHANGED <<logVars, taskVars, outputs, jobVars, closedSeen,
                   clientM, call, reply, srvVars, ctxVars>>

DaemonTick ==
    /\ daemon = "armed"
    /\ \/ /\ closed \/ ctxDone
          /\ daemon' = "stopped"
          /\ UNCHANGED rep
       \/ /\ ~(closed /\ closedSeen) /\ ~ctxDone
          /\ daemon' = "tick"
          /\ rep' = [rep EXCEPT !["daemon"] = "log"]
    /\ UNCHANGED <<logVars, taskVars, outputs, jobVars, closedSeen,
                   clientM, call, reply, srvVars, ctxVars>>

-----------------------------------------------------------------------------
(* Close *)

(* The state is made final before the last report. *)
Close ==
    /\ job = "closing"
    /\ job' = "retry"
    /\ closed' = TRUE
    /\ IF result = "unspecified"
       THEN /\ steps' = Resolve(steps, "cancelled")
            /\ result' = "failure"
            /\ AddRows(1, NoStep)
       ELSE /\ AddRows(IF runErr THEN 1 ELSE 0, NoStep)
            /\ UNCHANGED taskVars
    /\ UNCHANGED <<outputs, cur, runErr, attempt, closeErr, daemonVars,
                   callVars, srvVars, ctxDone>>

(* retry.Do with r.ctx: nothing is tried once the context is done, except   *)
(* that the wait between two attempts ends either way.                      *)
Attempt ==
    /\ job = "retry"
    /\ ctxDone => attempt > 0
    /\ job' = "report"
    /\ rep' = [rep EXCEPT !["job"] = "log"]
    /\ UNCHANGED <<logVars, taskVars, outputs, cur, runErr, attempt, closeErr, daemonVars,
                   clientM, call, reply, srvVars, ctxVars>>

GiveUp ==
    /\ job = "retry" /\ ctxDone
    /\ job' = "returned"
    /\ closeErr' = "ctx"
    /\ UNCHANGED <<logVars, taskVars, outputs, cur, runErr, attempt, daemonVars,
                   callVars, srvVars, ctxVars>>

(* Run returns: the deferred cancel ends the context. *)
Return ==
    /\ job = "returned"
    /\ job' = "done"
    /\ ctxDone' = TRUE
    /\ UNCHANGED <<logVars, taskVars, outputs, cur, runErr, attempt, closeErr, daemonVars,
                   callVars, srvVars, closed>>

-----------------------------------------------------------------------------
(* ReportLog and ReportState, by either goroutine *)

(* Who called: the first tick and the daemon ignore errors and go on, an    *)
(* attempt of Close ends at the first error.                                *)
Closing(p) == p = "job" /\ job = "report"

(* p leaves ReportLog (next = "state") or ReportState (next = "idle"). *)
Leave(p, next, err) ==
    LET stop == Closing(p) /\ err # "nil"
        over == stop \/ next = "idle"
    IN  /\ rep' = [rep EXCEPT ![p] = IF over THEN "idle" ELSE next]
        /\ IF ~over \/ p = "daemon" THEN UNCHANGED <<job, attempt, closeErr>>
           ELSE IF job = "tick"
           THEN job' = "received" /\ UNCHANGED <<attempt, closeErr>>
           ELSE /\ closeErr' = err
                /\ attempt' = attempt + 1
                /\ job' = IF ~stop \/ attempt + 1 >= MaxAttempts THEN "returned" ELSE "retry"
        /\ daemon' = IF over /\ (p = "daemon" \/ job = "tick") THEN "armed" ELSE daemon
        /\ UNCHANGED <<cur, runErr>>

(* clientM is free for p.  (Fault: no mutex.) *)
CanLock_NoMutex(p) == TRUE
CanLock(p) == clientM = "free"

(* The call of p is over: the answer is read and the deferred Unlock runs. *)
Unlock(p) ==
    /\ clientM' = "free"
    /\ call' = [call EXCEPT ![p] = None]
    /\ reply' = [reply EXCEPT ![p] = None]

SendLog(p) ==
    /\ rep[p] = "log" /\ CanLock(p) /\ ~ctxDone
    /\ clientM' = p
    /\ rep' = [rep EXCEPT ![p] = "logCall"]
    /\ call' = [call EXCEPT ![p] = [kind |-> "log", index |-> logOffset, rows |-> logRows]]
    /\ UNCHANGED <<logVars, taskVars, outputs, jobVars, daemonVars, reply, srvVars, ctxVars>>

(* The rows left once the first ack rows of the task's log are stored.       *)
(* (Fault: ack taken for the number of rows of this request.)                *)
Unacked_Relative(ack) == SubSeq(logRows, ack + 1, Len(logRows))
Unacked(ack) == SubSeq(logRows, ack - logOffset + 1, Len(logRows))

(* The acknowledgement moves the offset and drops the rows, unless it says   *)
(* the server lost some.  (Fault: the offset follows the server back.)       *)
TakeAck_FollowsBack(ack) ==
    /\ logRows' = IF ack < logOffset THEN logRows ELSE Unacked(ack)
    /\ logOffset' = ack
TakeAck(ack) ==
    IF ack < logOffset THEN UNCHANGED <<logRows, logOffset>>
    ELSE logRows' = Unacked(ack) /\ logOffset' = ack

(* The check that nothing is left to submit, made after the offset moved.    *)
(* (Fault: no check.)                                                        *)
NotAll_NoCheck(ack, sent) == FALSE
NotAll(ack, sent) == ack < logOffset' + sent

LogAnswered(p) ==
    /\ rep[p] = "logCall" /\ reply[p] # None
    /\ TakeAck(reply[p].ack)
    /\ Leave(p, "state",
             IF reply[p].ack < logOffset THEN "lost"
             ELSE IF Closing(p) /\ NotAll(reply[p].ack, Len(call[p].rows)) THEN "notAll"
             ELSE "nil")
    /\ Unlock(p)
    /\ UNCHANGED <<hist, taskVars, outputs, closedSeen, srvVars, ctxVars>>

Held == {k \in Keys : outputs[k] = "held"}

SendState(p) ==
    /\ rep[p] = "state" /\ CanLock(p) /\ ~ctxDone
    /\ clientM' = p
    /\ rep' = [rep EXCEPT ![p] = "stateCall"]
    /\ call' = [call EXCEPT ![p] = [kind |-> "task", result |-> result, steps |-> steps,
                                    outputs |-> Held]]
    /\ closedSeen' = IF p = "daemon" THEN closed ELSE closedSeen
    /\ UNCHANGED <<logVars, taskVars, outputs, jobVars, daemon, reply, srvVars, ctxVars>>

(* The outputs the server says it has are marked.  (Fault: all of them.) *)
MarkSent_All(sent) == [k \in Keys |-> IF outputs[k] = "held" THEN "sent" ELSE outputs[k]]
MarkSent(sent) == [k \in Keys |-> IF k \in sent THEN "sent" ELSE outputs[k]]

(* The server says the task is cancelled.  (Fault: the reporter looks at its *)
(* own state instead of the answer.)                                         *)
CancelRead_Own(p) == result = "cancelled"
CancelRead(p) == reply[p].result = "cancelled"

(* A cancelled task cancels the context; outputs not sent make an error. *)
StateAnswered(p) ==
    /\ rep[p] = "stateCall" /\ reply[p] # None
    /\ outputs' = MarkSent(reply[p].sent)
    /\ ctxDone' = (ctxDone \/ CancelRead(p))
    /\ Leave(p, "idle", IF \E k \in Keys : outputs'[k] = "held" THEN "outputs" ELSE "nil")
    /\ Unlock(p)
    /\ UNCHANGED <<logVars, taskVars, closedSeen, srvVars, closed>>

(* With the context done a call fails before it is sent. *)
CallRefused(p) ==
    /\ rep[p] \in {"log", "state"} /\ CanLock(p) /\ ctxDone
    /\ Leave(p, IF rep[p] = "log" THEN "state" ELSE "idle", "rpc")
    /\ UNCHANGED <<logVars, taskVars, outputs, closedSeen, clientM, call, reply, srvVars, ctxVars>>

(* The call fails: the network, the server, or the context.  The server may *)
(* have executed it, and with LateCalls it may still do so.                 *)
Spend == faults < MaxFaults /\ faults' = faults + 1

CallFails(p) ==
    /\ rep[p] \in {"logCall", "stateCall"}
    /\ IF ctxDone THEN UNCHANGED faults ELSE Spend
    /\ \/ UNCHANGED stray
       \/ LateCalls /\ stray = {} /\ reply[p] = None /\ stray' = {call[p]}
    /\ Leave(p, IF rep[p] = "logCall" THEN "state" ELSE "idle", "rpc")
    /\ Unlock(p)
    /\ UNCHANGED <<logVars, taskVars, outputs, closedSeen, slog, srv, srvOut, srvCancelled,
                   lost, stale, ctxVars>>

-----------------------------------------------------------------------------
(* The server, as far as the reporter relies on it.  It keeps the log as a  *)
(* sequence, takes from a request the rows after the ones it has (all of    *)
(* them, or fewer) and answers how many it has; it keeps the last state and *)
(* the outputs it accepts, and answers which outputs it has and whether the *)
(* task was cancelled.                                                      *)

ExecuteLog(c) ==
    /\ \E n \in 0 .. Len(c.rows) :
          /\ n > 0 => c.index <= Len(slog) /\ Len(slog) < c.index + n
          /\ slog' = IF n = 0 THEN slog
                     ELSE slog \o SubSeq(c.rows, Len(slog) - c.index + 1, n)
    /\ UNCHANGED <<srv, srvOut>>

ExecuteTask(c) ==
    /\ srv' = [result |-> c.result, steps |-> c.steps]
    /\ \E taken \in SUBSET c.outputs : srvOut' = srvOut \cup taken
    /\ UNCHANGED slog

Execute(c) == IF c.kind = "log" THEN ExecuteLog(c) ELSE ExecuteTask(c)

Serve(p) ==
    /\ call[p] # None /\ reply[p] = None
    /\ Execute(call[p])
    /\ reply' = [reply EXCEPT ![p] =
          IF call[p].kind = "log" THEN [kind |-> "log", ack |-> Len(slog')]
          ELSE [kind |-> "task", sent |-> srvOut',
                result |-> IF srvCancelled THEN "cancelled" ELSE srv'.result]]
    /\ stale' = (stale /\ call[p].kind = "log")
    /\ UNCHANGED <<logVars, taskVars, outputs, jobVars, daemonVars, rep, clientM, call,
                   srvCancelled, stray, faults, lost, ctxVars>>

ServeStray ==
    /\ \E c \in stray :
          /\ Execute(c)
          /\ stray' = stray \ {c}
          /\ stale' = (stale \/ c.kind = "task")
    /\ UNCHANGED <<logVars, taskVars, outputs, jobVars, daemonVars, callVars,
                   srvCancelled, faults, lost, ctxVars>>

LoseRows ==
    /\ LossyServer /\ Spend
    /\ lost' = TRUE
    /\ \E n \in 0 .. Len(slog) - 1 : slog' = SubSeq(slog, 1, n)
    /\ UNCHANGED <<logVars, taskVars, outputs, jobVars, daemonVars, callVars,
                   srv, srvOut, srvCancelled, stray, stale, ctxVars>>

UserCancels ==
    /\ ~srvCancelled
    /\ srvCancelled' = TRUE
    /\ UNCHANGED <<logVars, taskVars, outputs, jobVars, daemonVars, callVars,
                   slog, srv, srvOut, stray, faults, lost, stale, ctxVars>>

(* The deadline of runner.timeout passes. *)
Deadline ==
    /\ ~ctxDone
    /\ ctxDone' = TRUE
    /\ UNCHANGED <<logVars, taskVars, outputs, jobVars, daemonVars, callVars,
                   srvVars, closed>>

-----------------------------------------------------------------------------
(* The whole system *)

JobCode == \/ FirstTick \/ ReceiveTask \/ ResetSteps \/ Prepared \/ SetOutputs
           \/ Close \/ Attempt \/ GiveUp \/ Return
Reports(p) == \/ SendLog(p) \/ LogAnswered(p) \/ SendState(p) \/ StateAnswered(p)
              \/ CallRefused(p)
Terminated == job = "done" /\ daemon = "stopped" /\ UNCHANGED vars

Next ==
    \/ JobCode \/ RunFails \/ ExecReturns \/ Executor \/ DaemonTick
    \/ \E p \in Procs : Reports(p) \/ CallFails(p) \/ Serve(p)
    \/ ServeStray \/ LoseRows \/ UserCancels \/ Deadline
    \/ Terminated

Spec == Init /\ [][Next]_vars

(* The goroutines run; a call with a done context returns; the executor      *)
(* returns once its context is done.                                         *)
FairSpec ==
    /\ Spec
    /\ WF_vars(JobCode) /\ WF_vars(StepError) /\ WF_vars(ctxDone /\ ExecReturns)
    /\ WF_vars(DaemonTick)
    /\ \A p \in Procs : WF_vars(Reports(p)) /\ WF_vars(ctxDone /\ CallFails(p))

(* What some properties assume on top: the deadline of the task's context    *)
(* passes; the server answers, as long as the context lasts.                 *)
DeadlinePasses == WF_vars(Deadline)
ServerAnswers == \A p \in Procs : WF_vars(Serve(p))

-----------------------------------------------------------------------------
(* Properties *)

LogCall == [kind : {"log"}, index : Nat, rows : Seq(Row)]
TaskCall == [kind : {"task"}, result : Results, steps : Seq(Step), outputs : SUBSET Keys]
LogReply == [kind : {"log"}, ack : Nat]
TaskReply == [kind : {"task"}, sent : SUBSET Keys, result : Results]

(* Every variable has its type. *)
LogType == logOffset \in Nat /\ logRows \in Seq(Row) /\ hist \in Seq(Row)
TaskType == result \in Results /\ steps \in Seq(Step)
OutputType == outputs \in [Keys -> {"none", "held", "sent"}]
JobType ==
    /\ job \in {"start", "tick", "received", "plan", "prepare", "exec", "stepErr", "post",
                "outputs", "closing", "retry", "report", "returned", "done"}
    /\ cur \in 1 .. NumSteps + 1 /\ runErr \in BOOLEAN /\ attempt \in Nat
    /\ closeErr \in {"nil", "ctx", "rpc", "lost", "notAll", "outputs"}
DaemonType == daemon \in {"off", "armed", "tick", "stopped"} /\ closedSeen \in BOOLEAN
CallType ==
    /\ rep \in [Procs -> {"idle", "log", "logCall", "state", "stateCall"}]
    /\ clientM \in Procs \cup {"free"}
    /\ call \in [Procs -> LogCall \cup TaskCall \cup {None}]
    /\ reply \in [Procs -> LogReply \cup TaskReply \cup {None}]
ServerType ==
    /\ slog \in Seq(Row) /\ srv \in [result : Results, steps : Seq(Step)]
    /\ srvOut \in SUBSET Keys /\ srvCancelled \in BOOLEAN
    /\ stray \in SUBSET (LogCall \cup TaskCall) /\ faults \in Nat
    /\ lost \in BOOLEAN /\ stale \in BOOLEAN
CtxType == closed \in BOOLEAN /\ ctxDone \in BOOLEAN
TypeOK ==
    /\ LogType /\ TaskType /\ OutputType /\ JobType /\ DaemonType /\ CallType /\ ServerType
    /\ CtxType

(* The log is never reordered, duplicated or torn: what the server stores is *)
(* the beginning of what was written, and what the reporter still holds is   *)
(* exactly the rest after the offset it believes acknowledged (so that the   *)
(* slice of line 287 is always within bounds), whatever calls were lost,     *)
(* answered late or executed twice.                                          *)
LogIntact ==
    /\ Len(hist) = logOffset + Len(logRows)
    /\ \A i \in 1 .. Len(logRows) : logRows[i] = hist[logOffset + i]
    /\ Len(slog) <= Len(hist)
    /\ \A i \in 1 .. Len(slog) : slog[i] = hist[i]

(* While the server has kept what it acknowledged, no answer is ever behind  *)
(* the reporter's offset: "submitted logs are lost" (line 283) is never      *)
(* reported for a log that is not lost, although two goroutines report.      *)
NeverLost ==
    ~lost =>
      \A p \in Procs : reply[p].kind = "log" => logOffset <= reply[p].ack

(* The rows a step's state points at, [LogIndex, LogIndex + LogLength), are  *)
(* exactly the rows this step wrote: rows of other steps or of the reporter  *)
(* never fall into the interval, and none of its own falls out, while acks   *)
(* move the offset the index is computed from.                               *)
StepLogs ==
    \A s \in DOMAIN steps :
      {i \in 1 .. Len(hist) : hist[i].step = s}
        = steps[s].index + 1 .. steps[s].index + steps[s].length

(* An output is marked as sent only if the server has it. *)
SentIsStored == \A k \in Keys : outputs[k] = "sent" => k \in srvOut

(* When Close returns nil the server has everything, whatever failed before: *)
(* the whole log (if it has lost nothing), the final state with a result for *)
(* the job and for every step (unless an UpdateTask given up earlier arrived *)
(* after the last), and every output the reporter took.                      *)
CloseDelivers ==
    job \in {"returned", "done"} /\ closeErr = "nil" =>
      /\ lost \/ slog = hist
      /\ stale \/ srv = [result |-> result, steps |-> steps]
      /\ result # "unspecified"
      /\ \A s \in DOMAIN steps : steps[s].result # "unspecified"
      /\ \A k \in Keys : outputs[k] # "none" => k \in srvOut

(* The state stored by the server only moves forward, though two goroutines  *)
(* report it: a result is never taken back or changed, a step's log never    *)
(* shrinks or moves.  Only a call the client had given up sets it back, and  *)
(* the next report repairs that.                                             *)
Forward(s, t) ==
    /\ s.result # "unspecified" => t.result = s.result
    /\ s.length <= t.length
    /\ s.length > 0 => t.index = s.index
StateForward ==
    [][ ~stale' =>
          /\ srv.result # "unspecified" => srv'.result = srv.result
          /\ \A i \in DOMAIN srv.steps : i \in DOMAIN srv'.steps /\ Forward(srv.steps[i], srv'.steps[i])
      ]_vars

(* The reporter implements the abstract log delivery. *)
Delivery == INSTANCE LogDelivery WITH
    written <- hist, stored <- slog,
    gap <- lost,
    outcome <- IF job \notin {"returned", "done"} THEN "open"
               ELSE IF closeErr = "nil" THEN "complete" ELSE "incomplete"
ImplementsDelivery == Delivery!Spec

(* Every task ends: Run returns and the chain of timers stops, even if the   *)
(* server never answers, because the deadline passes.                        *)
Ends == DeadlinePasses => <>(job = "done" /\ daemon = "stopped")

(* A cancellation on the server reaches the job if the server answers: its   *)
(* context is cancelled, unless the job is over first.                       *)
CancelObserved == ServerAnswers => (srvCancelled ~> (ctxDone \/ job = "done"))

(* Line 292: Close says "not all logs are submitted" only if rows are left.  *)
NotAllMeansRowsLeft ==
    [][ closeErr # "notAll" /\ closeErr' = "notAll" => logRows' # <<>> ]_vars

(* Line 218: an output whose value is too long is ignored, as the message    *)
(* written to the job's log says.                                            *)
LongValuesIgnored == \A k \in LongValues : outputs[k] = "none"
=============================================================================
