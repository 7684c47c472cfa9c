--------------------------- MODULE DeliveryProofs ---------------------------
(***************************************************************************)
(* Proofs about what the server gets, for every number of steps, outputs,  *)
(* rows, attempts and faults: what Close promises when it returns nil, and *)
(* that the reporter implements the delivery of a log; that the interval   *)
(* of the log a step points at holds the rows of that step and no others;  *)
(* and that the state the server stores only moves forward.                *)
(***************************************************************************)
EXTENDS ReporterProofs

-----------------------------------------------------------------------------
(* Outputs: an answer in flight names only outputs the server has. *)

SentInv ==
    /\ SentIsStored
    /\ \A p \in Procs : reply[p].kind = "task" => reply[p].sent \subseteq srvOut

(* The server never gives up an output, so what was true of them stays true. *)
LEMMA SentKept ==
  ASSUME SentInv, srvOut \subseteq srvOut',
         \A k \in Keys : outputs'[k] = "sent" => outputs[k] = "sent" \/ k \in srvOut',
         \A p \in Procs : \/ reply'[p] = reply[p]
                          \/ reply'[p].kind # "task"
                          \/ reply'[p].sent \subseteq srvOut'
  PROVE  SentInv'
BY DEF SentInv, SentIsStored

(* The server executes a call: its outputs only grow. *)
LEMMA OutputsGrow ==
  ASSUME NEW c, Execute(c)
  PROVE  srvOut \subseteq srvOut'
BY DEF Execute, ExecuteLog, ExecuteTask

(* Every step keeps SentInv. *)
LEMMA SentStep == TypeOK /\ Control /\ SentInv /\ [Next]_vars => SentInv'
<1> SUFFICES ASSUME TypeOK, Control, SentInv, [Next]_vars PROVE SentInv'
  OBVIOUS
<1> USE DEF callVars, srvVars
<1>1. CASE \/ FirstTick \/ ReceiveTask \/ ResetSteps \/ Prepared \/ Close \/ Attempt \/ GiveUp \/ Return
           \/ RunFails \/ ExecReturns \/ Executor \/ DaemonTick
           \/ LoseRows \/ UserCancels \/ Deadline \/ UNCHANGED vars
  <2>1. UNCHANGED <<outputs, srvOut, reply>>
    BY <1>1 DEF FirstTick, ReceiveTask, ResetSteps, Prepared, Close, Attempt, GiveUp, Return, RunFails,
                ExecReturns, Executor, JobLine, MainLine, StepLine, StepEnds, StepError, JobEnds, Logs,
                DaemonTick, LoseRows, UserCancels, Deadline, vars
  <2> QED
    BY <2>1, SentKept
<1>2. CASE SetOutputs
  <2>1. UNCHANGED <<srvOut, reply>>
    BY <1>2 DEF SetOutputs
  <2>2. \A k \in Keys : outputs'[k] = "sent" => outputs[k] = "sent"
    BY <1>2 DEF SetOutputs, StoredOutputs
  <2> QED
    BY <2>1, <2>2, SentKept
<1>3. ASSUME NEW p \in Procs, SendLog(p) \/ SendState(p) \/ LogAnswered(p) \/ CallRefused(p) \/ CallFails(p)
      PROVE  SentInv'
  <2>1. UNCHANGED <<outputs, srvOut>>
    BY <1>3 DEF SendLog, SendState, LogAnswered, CallRefused, CallFails
  <2>2. \A q \in Procs : reply'[q] = reply[q] \/ reply'[q].kind # "task"
    BY <1>3 DEF SendLog, SendState, LogAnswered, CallRefused, CallFails, Unlock, TypeOK, CallType, None
  <2> QED
    BY <2>1, <2>2, SentKept
<1>4. ASSUME NEW p \in Procs, StateAnswered(p) PROVE SentInv'
  <2>1. outputs' = MarkSent(reply[p].sent) /\ srvOut' = srvOut
    BY <1>4 DEF StateAnswered
  <2>2. reply[p].kind = "task"
    BY <1>4 DEF StateAnswered, Control, Calls, TaskReply
  <2>3. \A k \in Keys : outputs'[k] = "sent" => outputs[k] = "sent" \/ k \in srvOut'
    BY <2>1, <2>2 DEF SentInv, MarkSent
  <2>4. \A q \in Procs : reply'[q] = reply[q] \/ reply'[q].kind # "task"
    BY <1>4 DEF StateAnswered, Unlock, TypeOK, CallType, None
  <2> QED
    BY <2>1, <2>3, <2>4, SentKept
<1>5. ASSUME NEW p \in Procs, Serve(p) PROVE SentInv'
  <2>1. srvOut \subseteq srvOut' /\ UNCHANGED outputs
    BY <1>5, OutputsGrow DEF Serve
  <2>2. \A q \in Procs : \/ reply'[q] = reply[q]
                         \/ reply'[q].kind # "task"
                         \/ reply'[q].sent \subseteq srvOut'
    BY <1>5 DEF Serve, TypeOK, CallType
  <2> QED
    BY <2>1, <2>2, SentKept
<1>6. CASE ServeStray
  <2>1. srvOut \subseteq srvOut' /\ UNCHANGED <<outputs, reply>>
    BY <1>6, OutputsGrow DEF ServeStray
  <2> QED
    BY <2>1, SentKept
<1> QED
  BY <1>1, <1>2, <1>3, <1>4, <1>5, <1>6 DEF Next, JobCode, Reports, Terminated

(* SentInv, with the types. *)
LEMMA SentCorrect == Spec => []SentInv
<1>1. Init => SentInv
  BY DEF Init, SentInv, SentIsStored, None
<1> QED
  BY <1>1, SentStep, TypeCorrect, PTL DEF Spec

(* An output is marked as sent only if the server has it, whatever answers   *)
(* were lost and whichever goroutine read them.                              *)
THEOREM SentOutputs == Spec => []SentIsStored
<1>1. SentInv => SentIsStored
  BY DEF SentInv
<1> QED
  BY <1>1, SentCorrect, PTL

-----------------------------------------------------------------------------
(* Close.  Confirming: an attempt of Close waits for the answer to its      *)
(* UpdateTask; Delivered: Close returned nil.                               *)

Confirming == job = "report" /\ rep["job"] = "stateCall"
Delivered == job \in {"returned", "done"} /\ closeErr = "nil"
Over == {"retry", "report", "returned", "done"}

(* An attempt goes on to the state only when no row is left.                 *)
Submitted ==
    /\ job = "report" /\ rep["job"] = "logCall" => call["job"].rows = logRows
    /\ (job = "report" /\ rep["job"] \in {"state", "stateCall"}) \/ Delivered => logRows = <<>>

(* A job with a result has one for every step, and Close sees to the result. *)
Concluded ==
    /\ result # "unspecified" =>
          /\ \A s \in DOMAIN steps : steps[s].result # "unspecified"
          /\ job \in {"post", "outputs", "closing"} \cup Over
    /\ job \in Over => result # "unspecified"

(* From the last UpdateTask of Close on, every call carries the final state. *)
Current ==
    /\ Confirming \/ Delivered =>
          \A p \in Procs : rep[p] = "stateCall" => call[p].result = result /\ call[p].steps = steps
    /\ (Confirming /\ reply["job"] # None) \/ Delivered =>
          stale \/ srv = [result |-> result, steps |-> steps]

(* No output is left to be sent. *)
Accepted == Delivered => \A k \in Keys : outputs[k] # "held"

CloseInv == Submitted /\ Concluded /\ Current /\ Accepted

(* Where a goroutine goes that leaves ReportLog or ReportState. *)
LEMMA LeaveCases ==
  ASSUME TypeOK, Control, NEW p \in Procs, NEW next \in {"state", "idle"}, NEW err,
         rep[p] # "idle", Leave(p, next, err)
  PROVE  /\ rep'[p] \in {"state", "idle"} /\ \A q \in Procs : q # p => rep'[q] = rep[q]
         /\ \/ p = "daemon" /\ UNCHANGED <<job, closeErr>>
            \/ p = "job" /\ job = "tick" /\ job' \in {"tick", "received"}
            \/ /\ p = "job" /\ job = "report" /\ err = "nil" /\ next = "state"
               /\ job' = job /\ rep'["job"] = "state"
            \/ /\ p = "job" /\ job = "report" /\ rep'["job"] = "idle"
               /\ \/ job' = "returned" /\ closeErr' = err /\ (err = "nil" => next = "idle")
                  \/ job' = "retry"
<1> USE DEF TypeOK, CallType
<1>1. rep'[p] \in {"state", "idle"} /\ \A q \in Procs : q # p => rep'[q] = rep[q]
  BY DEF Leave
<1>2. CASE p = "daemon"
  BY <1>1, <1>2 DEF Leave
<1>3. CASE p = "job"
  <2>1. job \in {"tick", "report"}
    BY <1>3 DEF Control, Phases
  <2>2. CASE job = "tick"
    BY <1>1, <1>3, <2>2 DEF Leave
  <2>3. CASE job = "report"
    BY <1>1, <1>3, <2>3 DEF Leave, Closing
  <2> QED
    BY <2>1, <2>2, <2>3
<1> QED
  BY <1>2, <1>3 DEF Procs

(* The job's own steps up to Close, and Close's next attempt: nothing is     *)
(* promised yet.                                                             *)
LEMMA CloseEarly ==
  ASSUME TypeOK, Control, CloseInv, job' \notin {"returned", "done"}, job' = "report" => rep'["job"] = "log"
  PROVE  Submitted' /\ Current' /\ Accepted'
BY DEF Submitted, Current, Accepted, Confirming, Delivered

(* Resolve leaves no step without a result. *)
LEMMA ResolvedSteps ==
  ASSUME NEW ss \in Seq(Step), NEW res \in Results, res # "unspecified"
  PROVE  \A s \in DOMAIN Resolve(ss, res) : Resolve(ss, res)[s].result # "unspecified"
<1>1. \A s \in DOMAIN ss : ss[s] \in Step
  OBVIOUS
<1> QED
  BY <1>1 DEF Resolve, Step, Results

(* A step of the executor: the job's result comes with one for every step.   *)
LEMMA ConcludedExecutor ==
  ASSUME TypeOK, CloseInv, Executor
  PROVE  Concluded' /\ job' \notin Over
<1> USE DEF CloseInv, TypeOK, Entry
<1>1. ASSUME NEW e, Fire(e), e.jobResult = "unspecified", e.main => result = "unspecified"
      PROVE  /\ result' = result
             /\ result # "unspecified" => steps' = steps
  BY <1>1 DEF Fire, FireOther, FireMain, FireStep, taskVars
<1>2. CASE JobLine
  BY <1>1, <1>2 DEF JobLine, Logs, Concluded, Over
<1>3. ASSUME NEW e, e.main, e.jobResult = "unspecified", Fire(e), job \in {"exec", "stepErr"}, job' \in {"exec", "stepErr"}
      PROVE  Concluded'
  BY <1>1, <1>3 DEF Concluded, Over
<1>4. CASE MainLine \/ StepError
  BY <1>3, <1>4 DEF MainLine, StepError, Logs, Over
<1>5. ASSUME NEW raw \in BOOLEAN, StepLine(raw) PROVE Concluded' /\ job' \notin Over
  BY <1>3, <1>5 DEF StepLine, Logs, Over
<1>6. ASSUME NEW res \in StepResults, StepEnds(res) PROVE Concluded' /\ job' \notin Over
  BY <1>3, <1>6 DEF StepEnds, Logs, Over
<1>7. ASSUME NEW res \in JobResults, JobEnds(res) PROVE Concluded' /\ job' \notin Over
  <2>1. /\ steps' = Resolve(steps, IF res = "skipped" THEN "skipped" ELSE "cancelled")
        /\ job' = "post"
    BY <1>7, ResultsAssumption DEF JobEnds, Logs, Fire, FireOther, FireMain, FireStep
  <2>2. \A s \in DOMAIN steps' : steps'[s].result # "unspecified"
    BY <2>1, ResolvedSteps DEF TaskType, Results
  <2> QED
    BY <2>1, <2>2 DEF Concluded, Over
<1> QED
  BY <1>2, <1>4, <1>5, <1>6, <1>7 DEF Executor, JobLine, Logs, Over

(* Close gives the job and every step a result. *)
LEMMA ConcludedClose ==
  ASSUME TypeOK, CloseInv, Close
  PROVE  Concluded'
<1>1. CASE result = "unspecified"
  <2>1. steps' = Resolve(steps, "cancelled") /\ result' = "failure" /\ job' = "retry"
    BY <1>1 DEF Close
  <2> QED
    BY <2>1, ResolvedSteps DEF Concluded, Over, TypeOK, TaskType, Results
<1>2. CASE result # "unspecified"
  BY <1>2 DEF Close, CloseInv, Concluded, Over, taskVars
<1> QED
  BY <1>1, <1>2

(* The steps of Runner.run keep CloseInv. *)
LEMMA CloseRun ==
  ASSUME TypeOK, Control, CloseInv,
         \/ FirstTick \/ ReceiveTask \/ ResetSteps \/ Prepared \/ RunFails \/ ExecReturns \/ SetOutputs
         \/ Executor \/ Close \/ Attempt \/ GiveUp
  PROVE  CloseInv'
<1> USE DEF taskVars, callVars
<1>1. CASE FirstTick \/ ReceiveTask \/ ResetSteps \/ Prepared \/ RunFails \/ ExecReturns \/ SetOutputs
  <2>1. job' \notin Over
    BY <1>1 DEF FirstTick, ReceiveTask, ResetSteps, Prepared, RunFails, ExecReturns, SetOutputs, Over
  <2>2. /\ result' = result
        /\ job \in {"start", "received", "plan", "prepare"} \/ steps' = steps
        /\ job \in {"start", "received", "plan", "prepare", "exec", "stepErr"} \/ job' \in {"closing", "outputs"}
    BY <1>1 DEF FirstTick, ReceiveTask, ResetSteps, Prepared, RunFails, ExecReturns, SetOutputs
  <2>3. Concluded'
    BY <2>1, <2>2 DEF CloseInv, Concluded, Over
  <2> QED
    BY <2>1, <2>3, CloseEarly DEF CloseInv, Over
<1>2. CASE Executor
  BY <1>2, ConcludedExecutor, CloseEarly DEF CloseInv, Over
<1>3. CASE Close
  <2>1. job' = "retry"
    BY <1>3 DEF Close
  <2> QED
    BY <1>3, <2>1, ConcludedClose, CloseEarly DEF CloseInv
<1>4. CASE Attempt
  <2>1. job' = "report" /\ rep'["job"] = "log"
    BY <1>4 DEF Attempt, TypeOK, CallType, Procs
  <2>2. Concluded'
    BY <1>4, <2>1 DEF Attempt, CloseInv, Concluded, Over
  <2> QED
    BY <2>1, <2>2, CloseEarly DEF CloseInv
<1>5. CASE GiveUp
  BY <1>5 DEF GiveUp, CloseInv, Submitted, Concluded, Current, Accepted, Confirming, Delivered, Over
<1> QED
  BY <1>1, <1>2, <1>3, <1>4, <1>5

(* A goroutine sends the log, or goes on to it: the rows are those held.     *)
LEMMA CloseSends ==
  ASSUME TypeOK, Control, CloseInv, NEW p \in Procs, SendLog(p) \/ SendState(p)
  PROVE  CloseInv'
<1> USE DEF CloseInv, TypeOK, CallType, logVars, taskVars, jobVars, daemonVars, srvVars
<1>1. UNCHANGED <<logVars, result, steps, outputs, jobVars, reply, srv, stale>>
  BY DEF SendLog, SendState
<1>2. Concluded' /\ Accepted'
  BY <1>1 DEF Concluded, Accepted, Delivered
<1>3. CASE SendLog(p)
  <2>1. \A q \in Procs : q # p => rep'[q] = rep[q] /\ call'[q] = call[q]
    BY <1>3 DEF SendLog
  <2>2. rep'[p] = "logCall" /\ call'[p].rows = logRows
    BY <1>3 DEF SendLog
  <2>3. Submitted'
    BY <1>1, <2>1, <2>2 DEF Submitted, Delivered, Procs
  <2>4. Current'
    BY <1>1, <2>1, <2>2 DEF Current, Confirming, Delivered, Procs
  <2> QED
    BY <1>2, <2>3, <2>4
<1>4. CASE SendState(p)
  <2>1. \A q \in Procs : q # p => rep'[q] = rep[q] /\ call'[q] = call[q]
    BY <1>4 DEF SendState
  <2>2. /\ rep[p] = "state" /\ rep'[p] = "stateCall" /\ clientM = "free" /\ reply[p] = None
        /\ call'[p].result = result /\ call'[p].steps = steps
    BY <1>4 DEF SendState, CanLock, Control, Calls
  <2>3. Submitted'
    BY <1>1, <2>1, <2>2 DEF Submitted, Delivered, Procs
  <2>4. \A q \in Procs : rep[q] # "stateCall"
    BY <2>2 DEF Control, Calls, Procs
  <2>5. Current'
    BY <1>1, <2>1, <2>2, <2>4 DEF Current, Confirming, Delivered, Procs
  <2> QED
    BY <1>2, <2>3, <2>5
<1> QED
  BY <1>3, <1>4

(* Nothing is left of no rows. *)
LEMMA NothingUnacked ==
  ASSUME LogType, NEW ack \in Nat, logRows = <<>>, TakeAck(ack)
  PROVE  logRows' = <<>>
<1>1. CASE ack < logOffset
  BY <1>1 DEF TakeAck
<1>2. CASE ~(ack < logOffset)
  <2>1. Len(SubSeq(<<>>, ack - logOffset + 1, 0)) = 0
    BY <1>2, SubSeqProperties DEF LogType
  <2>2. logRows' = SubSeq(<<>>, ack - logOffset + 1, 0)
    BY <1>2 DEF TakeAck, Unacked
  <2>3. SubSeq(<<>>, ack - logOffset + 1, 0) \in Seq(Row)
    BY <1>2, SubSeqProperties DEF LogType
  <2> QED
    BY <2>1, <2>2, <2>3, EmptySeq
<1> QED
  BY <1>1, <1>2

(* The answer to the log: an attempt of Close goes on only with no row left. *)
LEMMA CloseLogAnswered ==
  ASSUME TypeOK, Control, CloseInv, NEW p \in Procs, LogAnswered(p)
  PROVE  CloseInv'
<1> USE DEF CloseInv, TypeOK, CallType, taskVars, srvVars
<1> DEFINE ack == reply[p].ack
           err == IF ack < logOffset THEN "lost"
                  ELSE IF Closing(p) /\ NotAll(ack, Len(call[p].rows)) THEN "notAll"
                  ELSE "nil"
<1>1. /\ ack \in Nat /\ call[p] \in LogCall /\ rep[p] = "logCall" /\ clientM = p
      /\ TakeAck(ack) /\ Leave(p, "state", err)
      /\ call' = [call EXCEPT ![p] = None] /\ reply' = [reply EXCEPT ![p] = None]
      /\ UNCHANGED <<result, steps, outputs, srv, stale>>
  BY DEF LogAnswered, Unlock, Control, Calls, LogReply
<1> HIDE DEF ack
<1>2. \A q \in Procs : q # p => rep[q] \notin {"logCall", "stateCall"}
  BY <1>1 DEF Control, Calls
<1>3. logRows = <<>> => logRows' = <<>>
  BY <1>1, NothingUnacked
<1>4. /\ rep'[p] \in {"state", "idle"} /\ \A q \in Procs : q # p => rep'[q] = rep[q]
      /\ \/ p = "daemon" /\ UNCHANGED <<job, closeErr>>
         \/ p = "job" /\ job = "tick" /\ job' \in {"tick", "received"}
         \/ /\ p = "job" /\ job = "report" /\ err = "nil"
            /\ job' = job /\ rep'["job"] = "state"
         \/ /\ p = "job" /\ job = "report" /\ rep'["job"] = "idle"
            /\ \/ job' = "returned" /\ closeErr' = err /\ err # "nil"
               \/ job' = "retry"
  BY <1>1, LeaveCases
<1>5. ASSUME p = "job", job = "report", err = "nil" PROVE logRows' = <<>>
  <2>1. ~(ack < logOffset) /\ ~NotAll(ack, Len(call[p].rows))
    BY <1>5 DEF Closing
  <2>2. logOffset' = ack
    BY <1>1, <2>1 DEF TakeAck
  <2>3. call[p].rows = logRows /\ logRows \in Seq(Row)
    BY <1>1, <1>5 DEF Submitted, LogType
  <2>4. ~(ack < ack + Len(logRows))
    BY <2>1, <2>2, <2>3 DEF NotAll
  <2>5. Len(logRows) = 0
    BY <1>1, <2>3, <2>4
  <2> QED
    BY <1>3, <2>3, <2>5, EmptySeq
<1> HIDE DEF err
<1>6. Submitted'
  BY <1>2, <1>3, <1>4, <1>5 DEF Submitted, Delivered, Procs
<1>7. Concluded'
  BY <1>1, <1>4 DEF Concluded, Over
<1>8. \A q \in Procs : call'[q] = call[q] \/ rep'[q] # "stateCall"
  BY <1>1, <1>4
<1>9. Current'
  BY <1>1, <1>2, <1>4, <1>8 DEF Current, Confirming, Delivered, Procs
<1>10. Accepted'
  BY <1>1, <1>4 DEF Accepted, Delivered
<1> QED
  BY <1>6, <1>7, <1>9, <1>10

(* The answer to the state: Close returns nil with no output left. *)
LEMMA CloseStateAnswered ==
  ASSUME TypeOK, Control, CloseInv, NEW p \in Procs, StateAnswered(p)
  PROVE  CloseInv'
<1> USE DEF CloseInv, TypeOK, CallType, logVars, taskVars, srvVars
<1> DEFINE err == IF \E k \in Keys : outputs'[k] = "held" THEN "outputs" ELSE "nil"
<1>1. /\ rep[p] = "stateCall" /\ reply[p] # None /\ clientM = p
      /\ Leave(p, "idle", err)
      /\ call' = [call EXCEPT ![p] = None] /\ reply' = [reply EXCEPT ![p] = None]
      /\ outputs' = MarkSent(reply[p].sent)
      /\ UNCHANGED <<logRows, result, steps, srv, stale>>
  BY DEF StateAnswered, Unlock, Control, Calls
<1>2. \A q \in Procs : q # p => rep[q] \notin {"logCall", "stateCall"}
  BY <1>1 DEF Control, Calls
<1>3. \A k \in Keys : outputs'[k] = "held" => outputs[k] = "held"
  BY <1>1 DEF MarkSent
<1>4. err = "nil" => \A k \in Keys : outputs'[k] # "held"
  OBVIOUS
<1> HIDE DEF err
<1>5. /\ rep'[p] \in {"state", "idle"} /\ \A q \in Procs : q # p => rep'[q] = rep[q]
      /\ \/ p = "daemon" /\ UNCHANGED <<job, closeErr>>
         \/ p = "job" /\ job = "tick" /\ job' \in {"tick", "received"}
         \/ /\ p = "job" /\ job = "report" /\ rep'["job"] = "idle"
            /\ \/ job' = "returned" /\ closeErr' = err
               \/ job' = "retry"
  BY <1>1, LeaveCases
<1>6. Submitted'
  BY <1>1, <1>2, <1>5 DEF Submitted, Delivered, Procs
<1>7. Concluded'
  BY <1>1, <1>5 DEF Concluded, Over
<1>8. \A q \in Procs : rep'[q] # "stateCall"
  BY <1>2, <1>5
<1>9. Current'
  BY <1>1, <1>5, <1>8 DEF Current, Confirming, Delivered, Procs
<1>10. Accepted'
  BY <1>3, <1>4, <1>5 DEF Accepted, Delivered
<1> QED
  BY <1>6, <1>7, <1>9, <1>10

(* A call that is refused or fails promises nothing. *)
LEMMA CloseFails ==
  ASSUME TypeOK, Control, CloseInv, NEW p \in Procs, CallRefused(p) \/ CallFails(p)
  PROVE  CloseInv'
<1> USE DEF CloseInv, TypeOK, CallType, logVars, taskVars, srvVars
<1>1. PICK next \in {"state", "idle"} : Leave(p, next, "rpc") /\ rep[p] # "idle"
  BY DEF CallRefused, CallFails
<1>2. UNCHANGED <<logRows, result, steps, outputs, srv, stale>>
  BY DEF CallRefused, CallFails
<1>3. \A q \in Procs : q # p => call'[q] = call[q] /\ reply'[q] = reply[q]
  BY DEF CallRefused, CallFails, Unlock
<1>4. /\ rep'[p] \in {"state", "idle"} /\ \A q \in Procs : q # p => rep'[q] = rep[q]
      /\ \/ p = "daemon" /\ UNCHANGED <<job, closeErr>>
         \/ p = "job" /\ job = "tick" /\ job' \in {"tick", "received"}
         \/ /\ p = "job" /\ job = "report" /\ rep'["job"] = "idle"
            /\ \/ job' = "returned" /\ closeErr' = "rpc"
               \/ job' = "retry"
  BY <1>1, LeaveCases
<1>5. Submitted'
  BY <1>2, <1>3, <1>4 DEF Submitted, Delivered, Procs
<1>6. Concluded'
  BY <1>2, <1>4 DEF Concluded, Over
<1>7. Current'
  BY <1>2, <1>3, <1>4 DEF Current, Confirming, Delivered, Procs
<1>8. Accepted'
  BY <1>2, <1>4 DEF Accepted, Delivered
<1> QED
  BY <1>5, <1>6, <1>7, <1>8

(* The server executes a call of its goroutine: while an attempt of Close    *)
(* waits the other has none, and afterwards every call has the final state.  *)
LEMMA CloseServe ==
  ASSUME TypeOK, Control, CloseInv, NEW p \in Procs, Serve(p)
  PROVE  CloseInv'
<1> USE DEF CloseInv, TypeOK, CallType, logVars, taskVars, jobVars, daemonVars
<1>1. UNCHANGED <<logRows, result, steps, outputs, job, closeErr, rep, call>>
  BY DEF Serve
<1>2. Submitted' /\ Concluded' /\ Accepted'
  BY <1>1 DEF Submitted, Concluded, Accepted, Delivered
<1>3. rep[p] \in {"logCall", "stateCall"} /\ clientM = p /\ reply[p] = None
  BY DEF Serve, Control, Calls
<1>4. \A q \in Procs : q # p => reply'[q] = reply[q] /\ rep[q] \notin {"logCall", "stateCall"}
  BY <1>3 DEF Serve, Control, Calls
<1>5. CASE rep[p] = "logCall"
  <2>1. call[p].kind = "log"
    BY <1>5 DEF Control, Calls, LogCall
  <2>2. UNCHANGED <<srv, stale>>
    BY <2>1 DEF Serve, Execute, ExecuteLog, ServerType
  <2>3. Confirming => p # "job"
    BY <1>5 DEF Confirming
  <2>4. Current'
    BY <1>1, <1>4, <2>2, <2>3 DEF Current, Confirming, Delivered, Procs
  <2> QED
    BY <1>2, <2>4
<1>6. CASE rep[p] = "stateCall"
  <2>1. call[p].kind = "task"
    BY <1>6 DEF Control, Calls, TaskCall
  <2>2. srv' = [result |-> call[p].result, steps |-> call[p].steps]
    BY <2>1 DEF Serve, Execute, ExecuteTask
  <2>3. Confirming \/ Delivered => srv' = [result |-> result, steps |-> steps]
    BY <1>6, <2>2 DEF Current
  <2>4. Current'
    BY <1>1, <2>3 DEF Current, Confirming, Delivered
  <2> QED
    BY <1>2, <2>4
<1> QED
  BY <1>3, <1>5, <1>6

(* Steps that leave the reporter alone; a late call makes the state stale.   *)
LEMMA CloseQuiet ==
  ASSUME CloseInv, UNCHANGED <<logRows, result, steps, outputs, job, closeErr, call, reply>>,
         rep'["job"] = rep["job"], rep["daemon"] = "stateCall" \/ rep'["daemon"] # "stateCall",
         stale' \/ (srv' = srv /\ stale' = stale)
  PROVE  CloseInv'
BY DEF CloseInv, Submitted, Concluded, Current, Accepted, Confirming, Delivered, Procs

(* Every step keeps CloseInv, by the lemma for its kind. *)
LEMMA CloseStep == TypeOK /\ Control /\ CloseInv /\ [Next]_vars => CloseInv'
<1> SUFFICES ASSUME TypeOK, Control, CloseInv, [Next]_vars PROVE CloseInv'
  OBVIOUS
<1> USE DEF logVars, taskVars, callVars, srvVars
<1>1. CASE \/ FirstTick \/ ReceiveTask \/ ResetSteps \/ Prepared \/ RunFails \/ ExecReturns \/ SetOutputs
           \/ Executor \/ Close \/ Attempt \/ GiveUp
  BY <1>1, CloseRun
<1>2. CASE Return
  BY <1>2 DEF Return, CloseInv, Submitted, Concluded, Current, Accepted, Confirming, Delivered, Over
<1>3. CASE DaemonTick
  <2>1. UNCHANGED <<logRows, result, steps, outputs, job, closeErr, call, reply, srv, stale>>
    BY <1>3 DEF DaemonTick, jobVars
  <2>2. rep'["job"] = rep["job"] /\ (rep["daemon"] = "stateCall" \/ rep'["daemon"] # "stateCall")
    BY <1>3 DEF DaemonTick, Control, Phases, TypeOK, CallType, Procs
  <2> QED
    BY <2>1, <2>2, CloseQuiet
<1>4. ASSUME NEW p \in Procs, Reports(p) \/ CallFails(p) PROVE CloseInv'
  BY <1>4, CloseSends, CloseLogAnswered, CloseStateAnswered, CloseFails DEF Reports
<1>5. ASSUME NEW p \in Procs, Serve(p) PROVE CloseInv'
  BY <1>5, CloseServe
<1>6. CASE ServeStray
  <2>1. PICK c \in stray : Execute(c) /\ stale' = (stale \/ c.kind = "task")
    BY <1>6 DEF ServeStray
  <2>2. c.kind = "log" => UNCHANGED srv
    BY <2>1 DEF Execute, ExecuteLog
  <2>3. c.kind \in {"log", "task"}
    BY <2>1 DEF TypeOK, ServerType, LogCall, TaskCall
  <2>4. stale' \/ (srv' = srv /\ stale' = stale)
    BY <2>1, <2>2, <2>3 DEF TypeOK, ServerType
  <2>5. UNCHANGED <<logRows, result, steps, outputs, job, closeErr, rep, call, reply>>
    BY <1>6 DEF ServeStray, jobVars
  <2> QED
    BY <2>4, <2>5, CloseQuiet
<1>7. CASE LoseRows \/ UserCancels \/ Deadline \/ UNCHANGED vars
  <2>1. UNCHANGED <<logRows, result, steps, outputs, job, closeErr, rep, call, reply, srv, stale>>
    BY <1>7 DEF LoseRows, UserCancels, Deadline, vars, jobVars
  <2> QED
    BY <2>1, CloseQuiet
<1> QED
  BY <1>1, <1>2, <1>3, <1>4, <1>5, <1>6, <1>7 DEF Next, JobCode, Terminated

(* CloseInv, with the types it needs. *)
LEMMA CloseCorrect == Spec => [](TypeOK /\ CloseInv)
<1>1. Init => CloseInv
  BY DEF Init, CloseInv, Submitted, Concluded, Current, Accepted, Confirming, Delivered, Over, Procs
<1> QED
  BY <1>1, CloseStep, TypeCorrect, PTL DEF Spec

(* A reporter without rows, before a server that keeps its own, has          *)
(* delivered the log.                                                        *)
LEMMA AllStored ==
  ASSUME TypeOK, LogInv, logRows = <<>>
  PROVE  lost \/ slog = hist
<1>1. hist \in Seq(Row) /\ slog \in Seq(Row) /\ logOffset \in Nat
  BY DEF TypeOK, LogType, ServerType
<1>2. Len(hist) = logOffset /\ Len(slog) <= Len(hist)
  BY <1>1 DEF LogInv, Unsent, Suffix, Extends
<1>3. SUFFICES ASSUME ~lost PROVE slog = hist
  OBVIOUS
<1>4. Len(slog) = Len(hist)
  BY <1>1, <1>2, <1>3 DEF LogInv, Kept
<1>5. \A i \in 1 .. Len(hist) : hist[i] = slog[i]
  BY <1>4 DEF LogInv, Extends
<1> QED
  BY <1>1, <1>4, <1>5, SeqEqual

(* When Close returns nil the server has the whole log, the final state and  *)
(* every output, whatever failed before, unless the server itself lost rows  *)
(* or took a call that had been given up for the last word.                  *)
THEOREM CloseKeepsItsWord == Spec => []CloseDelivers
<1>1. TypeOK /\ LogInv /\ SentInv /\ CloseInv => CloseDelivers
  <2> SUFFICES ASSUME TypeOK, LogInv, SentInv, CloseInv, Delivered
               PROVE  /\ lost \/ slog = hist
                      /\ stale \/ srv = [result |-> result, steps |-> steps]
                      /\ result # "unspecified"
                      /\ \A s \in DOMAIN steps : steps[s].result # "unspecified"
                      /\ \A k \in Keys : outputs[k] # "none" => k \in srvOut
    BY DEF CloseDelivers, Delivered
  <2>1. lost \/ slog = hist
    BY AllStored DEF CloseInv, Submitted
  <2>2. stale \/ srv = [result |-> result, steps |-> steps]
    BY DEF CloseInv, Current
  <2>3. result # "unspecified" /\ \A s \in DOMAIN steps : steps[s].result # "unspecified"
    BY DEF CloseInv, Concluded, Delivered, Over
  <2>4. \A k \in Keys : outputs[k] # "none" => k \in srvOut
    BY DEF CloseInv, Accepted, SentInv, SentIsStored, TypeOK, OutputType
  <2> QED
    BY <2>1, <2>2, <2>3, <2>4
<1> QED
  BY <1>1, LogCorrect, SentCorrect, CloseCorrect, PTL

-----------------------------------------------------------------------------
(* The reporter implements LogDelivery. *)

(* What Close returned, as LogDelivery sees it. *)
Outcome == IF job \notin {"returned", "done"} THEN "open"
           ELSE IF closeErr = "nil" THEN "complete" ELSE "incomplete"

(* A sequence that another begins with is a part of that one. *)
LEMMA PrefixIsSubSeq ==
  ASSUME NEW S, NEW a \in Seq(S), NEW b \in Seq(S), Len(a) <= Len(b),
         \A i \in 1 .. Len(a) : b[i] = a[i]
  PROVE  SubSeq(b, 1, Len(a)) = a
<1>1. Len(a) \in Nat /\ \A i \in 1 .. Len(a) : b[i] \in S
  OBVIOUS
<1>2. /\ SubSeq(b, 1, Len(a)) \in Seq(S) /\ Len(SubSeq(b, 1, Len(a))) = Len(a)
      /\ \A i \in 1 .. Len(a) : SubSeq(b, 1, Len(a))[i] = b[i]
  BY <1>1, SubSeqProperties
<1> QED
  BY <1>2, SeqEqual

(* Rows are written while the task is open: Write, or nothing for no rows.   *)
LEMMA WritesDeliver ==
  ASSUME TypeOK, LogType', Writes
  PROVE  [Delivery!Next]_(Delivery!vars)
<1> USE DEF Delivery!vars, srvVars
<1>1. PICK n \in Nat, k \in Nat : AddRows(n, k)
  BY WritesAddRows
<1>2. UNCHANGED <<slog, lost>>
  BY WritesAddRows
<1>3. job \notin {"returned", "done"} /\ job' \notin {"returned", "done"}
  BY DEF Writes, ReceiveTask, Prepared, SetOutputs, Close, Executor, JobLine, MainLine, StepLine,
         StepEnds, StepError, JobEnds, Logs
<1>4. hist' = hist \o NewRows(n, k) /\ hist \in Seq(Row) /\ hist' \in Seq(Row)
      /\ NewRows(n, k) \in Seq(Row) /\ Len(NewRows(n, k)) = n
  BY <1>1, NewRowsType DEF AddRows, TypeOK, LogType
<1>5. /\ Len(hist') = Len(hist) + n /\ Len(hist) \in Nat
      /\ \A i \in 1 .. Len(hist) : hist'[i] = hist[i]
  <2> DEFINE new == NewRows(n, k)
  <2>1. hist' = hist \o new /\ hist \in Seq(Row) /\ new \in Seq(Row) /\ Len(new) = n
    BY <1>4
  <2> HIDE DEF new
  <2>2. Len(hist \o new) = Len(hist) + n /\ \A i \in 1 .. Len(hist) : (hist \o new)[i] = hist[i]
    BY <2>1, ConcatPointwise
  <2> QED
    BY <2>1, <2>2
<1>6. CASE n = 0
  <2>1. hist' = hist
    BY <1>4, <1>5, <1>6, SeqEqual
  <2> QED
    BY <1>2, <1>3, <2>1
<1>7. CASE n > 0
  <2>1. Len(hist') > Len(hist)
    BY <1>5, <1>7
  <2>2. SubSeq(hist', 1, Len(hist)) = hist
    BY <1>4, <1>5, PrefixIsSubSeq
  <2>3. Delivery!Write
    BY <1>2, <1>3, <1>4, <2>1, <2>2 DEF Delivery!Write
  <2> QED
    BY <2>3 DEF Delivery!Next
<1> QED
  BY <1>6, <1>7

(* The server stores rows of the history after the ones it has: Store.       *)
LEMMA ServeDelivers ==
  ASSUME TypeOK, TypeOK', LogInv, (\E p \in Procs : Serve(p)) \/ ServeStray
  PROVE  [Delivery!Next]_(Delivery!vars)
<1> USE DEF Delivery!vars, logVars, jobVars
<1>1. PICK c \in LogCall \cup TaskCall : Execute(c) /\ (c.kind = "log" => RowsOf(c))
  <2>1. ASSUME NEW p \in Procs, Serve(p)
        PROVE  call[p] \in LogCall \cup TaskCall /\ Execute(call[p]) /\ (call[p].kind = "log" => RowsOf(call[p]))
    BY <2>1 DEF Serve, TypeOK, CallType, LogInv, Requests
  <2>2. CASE ServeStray
    <3>1. PICK c \in stray : Execute(c)
      BY <2>2 DEF ServeStray
    <3>2. c \in LogCall \cup TaskCall /\ (c.kind = "log" => RowsOf(c))
      BY DEF TypeOK, ServerType, LogInv, Requests
    <3> QED
      BY <3>1, <3>2
  <2> QED
    BY <2>1, <2>2
<1>2. Extends(hist, slog') /\ Extends(slog', slog)
  BY <1>1, LogExecute
<1>3. UNCHANGED <<hist, lost, job, closeErr>>
  BY DEF Serve, ServeStray
<1>4. hist \in Seq(Row) /\ slog \in Seq(Row) /\ slog' \in Seq(Row)
  BY DEF TypeOK, LogType, ServerType
<1>5. Len(hist) \in Nat /\ Len(slog) \in Nat /\ Len(slog') \in Nat
      /\ Len(slog) <= Len(slog') /\ Len(slog') <= Len(hist)
  BY <1>2, <1>4 DEF Extends
<1>6. CASE Len(slog') = Len(slog)
  <2>1. slog' = slog
    BY <1>2, <1>4, <1>6, SeqEqual DEF Extends
  <2> QED
    BY <1>3, <2>1
<1>7. CASE Len(slog') # Len(slog)
  <2>1. Len(slog') \in Len(slog) + 1 .. Len(hist)
    BY <1>5, <1>7
  <2>2. slog' = SubSeq(hist, 1, Len(slog'))
    BY <1>2, <1>4, PrefixIsSubSeq DEF Extends
  <2>3. Delivery!Store
    BY <1>3, <2>1, <2>2 DEF Delivery!Store
  <2> QED
    BY <2>3 DEF Delivery!Next
<1> QED
  BY <1>6, <1>7

(* The log is left alone; Close may return, and then it says what is true:   *)
(* Finish.                                                                   *)
LEMMA EndDelivers ==
  ASSUME CloseDelivers', UNCHANGED <<hist, slog, lost>>,
         job \notin {"returned", "done"} \/ Outcome' = Outcome
  PROVE  [Delivery!Next]_(Delivery!vars)
<1> USE DEF Delivery!vars, Outcome
<1>1. CASE Outcome' = Outcome
  BY <1>1
<1>2. CASE Outcome' # Outcome
  <2>1. Outcome = "open" /\ Outcome' \in {"complete", "incomplete"}
    BY <1>2
  <2>2. Outcome' = "complete" => lost' \/ slog' = hist'
    BY DEF CloseDelivers
  <2>3. Delivery!Finish
    BY <2>1, <2>2 DEF Delivery!Finish
  <2> QED
    BY <2>3 DEF Delivery!Next
<1> QED
  BY <1>1, <1>2

(* The server loses its last rows: Lose.                                     *)
LEMMA LossDelivers ==
  ASSUME LoseRows
  PROVE  [Delivery!Next]_(Delivery!vars)
<1>1. Delivery!Lose
  BY DEF LoseRows, logVars, jobVars, Delivery!Lose
<1> QED
  BY <1>1 DEF Delivery!Next

(* Every step of the reporter is one of LogDelivery, or none. *)
LEMMA DeliveryStep ==
  ASSUME TypeOK, TypeOK', Control, LogInv, CloseInv, CloseDelivers', [Next]_vars
  PROVE  [Delivery!Next]_(Delivery!vars)
<1> USE DEF logVars, srvVars
<1>1. CASE Writes
  BY <1>1, WritesDeliver DEF TypeOK
<1>2. CASE (\E p \in Procs : Serve(p)) \/ ServeStray
  BY <1>2, ServeDelivers
<1>3. CASE LoseRows
  BY <1>3, LossDelivers
<1>4. CASE FirstTick \/ ResetSteps \/ RunFails \/ ExecReturns \/ Attempt \/ GiveUp
  <2>1. job \notin {"returned", "done"} /\ UNCHANGED <<hist, slog, lost>>
    BY <1>4 DEF FirstTick, ResetSteps, RunFails, ExecReturns, Attempt, GiveUp
  <2> QED
    BY <2>1, EndDelivers
<1>5. ASSUME \/ Return \/ DaemonTick \/ UserCancels \/ Deadline \/ UNCHANGED vars
             \/ \E p \in Procs : SendLog(p) \/ SendState(p)
      PROVE  [Delivery!Next]_(Delivery!vars)
  <2>1. UNCHANGED <<hist, slog, lost>> /\ Outcome' = Outcome
    BY <1>5 DEF Return, DaemonTick, UserCancels, Deadline, SendLog, SendState, vars, jobVars, Outcome
  <2> QED
    BY <2>1, EndDelivers
<1>6. ASSUME NEW p \in Procs, LogAnswered(p) \/ StateAnswered(p) \/ CallRefused(p) \/ CallFails(p)
      PROVE  [Delivery!Next]_(Delivery!vars)
  <2>1. UNCHANGED <<hist, slog, lost>>
    BY <1>6 DEF LogAnswered, StateAnswered, CallRefused, CallFails
  <2>2. PICK next, err : next \in {"state", "idle"} /\ Leave(p, next, err) /\ rep[p] # "idle"
    BY <1>6 DEF LogAnswered, StateAnswered, CallRefused, CallFails
  <2>3. job \notin {"returned", "done"} \/ Outcome' = Outcome
    BY <2>2, LeaveCases DEF Outcome
  <2> QED
    BY <2>1, <2>3, EndDelivers
<1> QED
  BY <1>1, <1>2, <1>3, <1>4, <1>5, <1>6 DEF Next, JobCode, Reports, Writes, Terminated

(* The reporter, its two goroutines, the retries of Close, a network that    *)
(* loses answers and delivers calls late: seen through hist, slog, lost and  *)
(* what Close returned, all of it is the delivery of one log.                *)
THEOREM DeliversLog == Spec => ImplementsDelivery
<1>1. Init => Delivery!Init
  BY DEF Init, Delivery!Init
<1>2. /\ TypeOK /\ Control /\ LogInv /\ CloseInv /\ TypeOK' /\ CloseDelivers' /\ [Next]_vars
      => [Delivery!Next]_(Delivery!vars)
  BY DeliveryStep
<1> QED
  BY <1>1, <1>2, TypeCorrect, LogCorrect, CloseCorrect, CloseKeepsItsWord, PTL
     DEF Spec, ImplementsDelivery, Delivery!Spec

-----------------------------------------------------------------------------
(* The rows are placed as the steps say.  Why: the executor runs the steps  *)
(* one after the other, a step that has written has its last row at the end *)
(* of the log, and until it ends nothing else is written there, because     *)
(* DuringSteps is true.                                                     *)

Early == {"start", "tick", "received", "plan"}
Running == {"prepare", "exec", "stepErr"}

(* Every row is of no step, or of one that exists. *)
KnownSteps == \A i \in 1 .. Len(hist) : hist[i].step \in {NoStep} \cup DOMAIN steps

(* A step that is over, at work, or still to come. *)
Past(s) == s < cur => steps[s].result # "unspecified"
AtWork(s) ==
    s = cur =>
      /\ IF job = "stepErr" THEN steps[s].result # "unspecified" /\ steps[s].length > 0
                            ELSE steps[s].result = "unspecified"
      /\ steps[s].length > 0 => steps[s].index + steps[s].length = Len(hist)
ToCome(s) ==
    /\ s > cur => steps[s].result = "unspecified"
    /\ s > cur \/ job = "prepare" => steps[s].length = 0

InOrder ==
    /\ job \in Early => steps = <<>>
    /\ job \in Early \cup {"prepare"} => cur = 1
    /\ job \in Running =>
          Len(steps) = NumSteps /\ \A s \in 1 .. NumSteps : Past(s) /\ AtWork(s) /\ ToCome(s)

StepInv == StepLogs /\ KnownSteps /\ InOrder

-----------------------------------------------------------------------------
(* What a critical section adds: n rows of step k at the end. *)
LEMMA AddedRows ==
  ASSUME LogType, NEW n \in Nat, NEW k \in Nat, AddRows(n, k)
  PROVE  /\ Len(hist) \in Nat /\ Len(hist') = Len(hist) + n
         /\ \A i \in 1 .. Len(hist) : hist'[i] = hist[i]
         /\ \A i \in Len(hist) + 1 .. Len(hist) + n : hist'[i].step = k
<1> DEFINE new == NewRows(n, k)
<1>1. hist' = hist \o new /\ hist \in Seq(Row)
  BY DEF AddRows, LogType
<1>2. new \in Seq(Row) /\ Len(new) = n
  BY NewRowsType
<1>3. \A i \in 1 .. n : new[i].step = k
  BY DEF NewRows
<1> HIDE DEF new
<1>4. /\ Len(hist \o new) = Len(hist) + n
      /\ \A i \in 1 .. Len(hist) : (hist \o new)[i] = hist[i]
      /\ \A i \in 1 .. n : (hist \o new)[Len(hist) + i] = new[i]
  <2>1. hist \in Seq(Row) /\ new \in Seq(Row) /\ Len(new) = n
    BY <1>1, <1>2
  <2>2. /\ Len(hist \o new) = Len(hist) + Len(new)
        /\ \A i \in 1 .. Len(hist) : (hist \o new)[i] = hist[i]
    BY <2>1, ConcatPointwise
  <2>3. ASSUME NEW i \in 1 .. Len(new) PROVE (hist \o new)[Len(hist) + i] = new[i]
    BY <2>1, ConcatProperties
  <2> QED
    BY <2>1, <2>2, <2>3
<1>5. ASSUME NEW i \in Len(hist) + 1 .. Len(hist) + n PROVE (hist \o new)[i].step = k
  <2>1. i - Len(hist) \in 1 .. n /\ Len(hist) + (i - Len(hist)) = i
    BY <1>1
  <2> QED
    BY <1>3, <1>4, <2>1
<1> QED
  BY <1>1, <1>4, <1>5

(* The logs of the steps are where they were. *)
SameLogs ==
    /\ DOMAIN steps' = DOMAIN steps
    /\ \A s \in DOMAIN steps : /\ steps'[s].length = steps[s].length
                               /\ steps[s].length > 0 => steps'[s].index = steps[s].index

(* Rows of no step change no step's interval. *)
LEMMA OtherRows ==
  ASSUME LogType, TaskType, TaskType', StepLogs, KnownSteps, SameLogs, NEW n \in Nat, AddRows(n, NoStep)
  PROVE  StepLogs' /\ KnownSteps'
<1>1. /\ Len(hist) \in Nat /\ Len(hist') = Len(hist) + n
      /\ \A i \in 1 .. Len(hist) : hist'[i] = hist[i]
      /\ \A i \in Len(hist) + 1 .. Len(hist) + n : hist'[i].step = NoStep
  BY AddedRows DEF NoStep
<1>2. DOMAIN steps = 1 .. Len(steps) /\ Len(steps) \in Nat /\ NoStep = 0
  BY DEF TaskType, NoStep
<1>3. ASSUME NEW s \in DOMAIN steps
      PROVE  {i \in 1 .. Len(hist') : hist'[i].step = s} = {i \in 1 .. Len(hist) : hist[i].step = s}
  <2>1. s # NoStep
    BY <1>2
  <2> QED
    BY <1>1, <2>1
<1>4. ASSUME NEW s \in DOMAIN steps
      PROVE  steps'[s].index + 1 .. steps'[s].index + steps'[s].length
               = steps[s].index + 1 .. steps[s].index + steps[s].length
  <2>1. steps[s] \in Step /\ steps'[s] \in Step
    BY DEF SameLogs, TaskType
  <2>2. CASE steps[s].length > 0
    BY <2>2 DEF SameLogs
  <2>3. CASE steps[s].length = 0
    BY <2>1, <2>3 DEF SameLogs, Step
  <2> QED
    BY <2>1, <2>2, <2>3 DEF Step
<1>5. StepLogs'
  BY <1>3, <1>4 DEF StepLogs, SameLogs
<1>6. KnownSteps'
  <2>1. ASSUME NEW i \in 1 .. Len(hist') PROVE hist'[i].step \in {NoStep} \cup DOMAIN steps
    <3>1. CASE i <= Len(hist)
      BY <1>1, <3>1 DEF KnownSteps
    <3>2. CASE i > Len(hist)
      BY <1>1, <3>2
    <3> QED
      BY <1>1, <3>1, <3>2
  <2> QED
    BY <2>1 DEF KnownSteps, SameLogs
<1> QED
  BY <1>5, <1>6

(* A row of step k, written right after its last one, makes its log longer. *)
LEMMA OwnRow ==
  ASSUME LogType, TaskType, TaskType', StepLogs, KnownSteps, NEW k \in DOMAIN steps, AddRows(1, k),
         DOMAIN steps' = DOMAIN steps,
         \A s \in DOMAIN steps : s # k => steps'[s] = steps[s],
         steps[k].length > 0 => steps[k].index + steps[k].length = Len(hist),
         steps'[k].index = (IF steps[k].length = 0 THEN Len(hist) ELSE steps[k].index),
         steps'[k].length = steps[k].length + 1
  PROVE  /\ StepLogs' /\ KnownSteps'
         /\ steps'[k].index + steps'[k].length = Len(hist')
<1>1. /\ Len(hist) \in Nat /\ Len(hist') = Len(hist) + 1
      /\ \A i \in 1 .. Len(hist) : hist'[i] = hist[i]
      /\ hist'[Len(hist) + 1].step = k
  <2>1. k \in Nat
    BY DEF TaskType
  <2> QED
    BY <2>1, AddedRows
<1>2. steps[k] \in Step /\ steps'[k] \in Step
  BY DEF TaskType
<1>3. steps'[k].index + steps'[k].length = Len(hist')
  <2>1. steps[k].index \in Nat /\ steps[k].length \in Nat
    BY <1>2 DEF Step
  <2>2. CASE steps[k].length = 0
    BY <1>1, <2>2
  <2>3. CASE steps[k].length > 0
    <3>1. steps[k].index + steps[k].length = Len(hist)
      BY <2>3
    <3>2. steps'[k].index = steps[k].index /\ steps'[k].length = steps[k].length + 1
      BY <2>3
    <3> QED
      BY <1>1, <2>1, <3>1, <3>2
  <2> QED
    BY <2>1, <2>2, <2>3
<1>4. ASSUME NEW s \in DOMAIN steps, s # k
      PROVE  {i \in 1 .. Len(hist') : hist'[i].step = s} = {i \in 1 .. Len(hist) : hist[i].step = s}
  BY <1>1, <1>4
<1>5. {i \in 1 .. Len(hist') : hist'[i].step = k} = {i \in 1 .. Len(hist) : hist[i].step = k} \cup {Len(hist')}
  BY <1>1
<1>6. {i \in 1 .. Len(hist') : hist'[i].step = k} = steps'[k].index + 1 .. steps'[k].index + steps'[k].length
  <2>1. {i \in 1 .. Len(hist) : hist[i].step = k} = steps[k].index + 1 .. steps[k].index + steps[k].length
    BY DEF StepLogs
  <2>2. CASE steps[k].length = 0
    <3>1. steps[k].index + 1 .. steps[k].index + steps[k].length = {}
      BY <1>2, <2>2 DEF Step
    <3>2. steps'[k].index + 1 .. steps'[k].index + steps'[k].length = {Len(hist')}
      BY <1>1, <2>2
    <3> QED
      BY <1>5, <2>1, <3>1, <3>2
  <2>3. CASE steps[k].length > 0
    <3>1. steps'[k].index + 1 .. steps'[k].index + steps'[k].length
            = (steps[k].index + 1 .. steps[k].index + steps[k].length) \cup {Len(hist')}
      BY <1>1, <1>2, <2>3 DEF Step
    <3> QED
      BY <1>5, <2>1, <3>1
  <2> QED
    BY <1>2, <2>2, <2>3 DEF Step
<1>7. StepLogs'
  BY <1>4, <1>6 DEF StepLogs
<1>8. KnownSteps'
  BY <1>1 DEF KnownSteps
<1> QED
  BY <1>3, <1>7, <1>8

(* While a step is at work and has written, other rows are dropped. *)
LEMMA Dropped ==
  ASSUME TaskType, InOrder, job = "exec", cur \in 1 .. NumSteps, steps[cur].length > 0
  PROVE  DuringSteps(steps)
<1>1. Len(steps) = NumSteps /\ NumSteps \in Nat
  BY StepsAssumption DEF InOrder, Running
<1>2. \A s \in 1 .. NumSteps : Past(s) /\ AtWork(s) /\ ToCome(s)
  BY DEF InOrder, Running
<1>3. steps[1].result # "unspecified" \/ steps[1].length > 0
  BY <1>1, <1>2 DEF Past
<1>4. steps[NumSteps].result = "unspecified"
  BY <1>1, <1>2 DEF AtWork, ToCome
<1> QED
  BY <1>1, <1>3, <1>4 DEF DuringSteps

(* The next row's position is the length of the log. *)
LEMMA NextIsLast ==
  ASSUME LogType, LogInv
  PROVE  NextIndex = Len(hist)
BY DEF LogType, LogInv, Unsent, Suffix, NextIndex

-----------------------------------------------------------------------------
(* The steps of the job *)

(* Outside the steps, rows of no step may be written at any time. *)
LEMMA OutsideSteps ==
  ASSUME LogType, TaskType, TaskType', StepInv, SameLogs, job' \notin Early \cup Running,
         NEW n \in Nat, AddRows(n, NoStep)
  PROVE  StepInv'
<1>1. StepLogs' /\ KnownSteps'
  BY OtherRows DEF StepInv
<1>2. InOrder'
  BY DEF InOrder, Early, Running
<1> QED
  BY <1>1, <1>2 DEF StepInv

(* Between and during the steps, a row of no step is written only when the   *)
(* step at work has written nothing.                                         *)
LEMMA LineOutside ==
  ASSUME LogType, TaskType, TaskType', StepInv, job \in {"exec", "prepare"}, job' = "exec",
         UNCHANGED <<steps, cur>>,
         AddRows(IF DuringSteps(steps) THEN 0 ELSE 1, NoStep)
  PROVE  StepInv'
<1> DEFINE n == IF DuringSteps(steps) THEN 0 ELSE 1
<1>1. n \in Nat /\ AddRows(n, NoStep)
  OBVIOUS
<1>2. DuringSteps(steps) => n = 0
  OBVIOUS
<1> HIDE DEF n
<1>3. StepLogs' /\ KnownSteps'
  BY <1>1, OtherRows DEF StepInv, SameLogs, TaskType
<1>4. Len(hist') = Len(hist) + n /\ Len(hist) \in Nat
  BY <1>1, AddedRows DEF NoStep
<1>5. job \in Running /\ job' \in Running /\ job' \notin Early \cup {"prepare"} /\ job # "stepErr"
  BY DEF Early, Running
<1>6. Len(steps) = NumSteps /\ \A s \in 1 .. NumSteps : Past(s) /\ AtWork(s) /\ ToCome(s)
  BY <1>5 DEF StepInv, InOrder
<1>7. ASSUME NEW s \in 1 .. NumSteps PROVE Past(s)' /\ AtWork(s)' /\ ToCome(s)'
  <2>1. Past(s)' /\ ToCome(s)'
    BY <1>6 DEF Past, ToCome
  <2>2. ASSUME s = cur, steps[s].length > 0 PROVE Len(hist') = Len(hist)
    <3>1. steps[s] \in Step
      BY <1>6 DEF TaskType
    <3>2. job = "exec"
      BY <1>6, <2>2, <3>1 DEF ToCome, Step
    <3>3. n = 0
      BY <1>2, <2>2, <3>2, Dropped DEF StepInv
    <3> QED
      BY <1>4, <3>3
  <2>3. AtWork(s)'
    BY <1>5, <1>6, <2>2 DEF AtWork
  <2> QED
    BY <2>1, <2>3
<1>8. InOrder'
  BY <1>5, <1>6, <1>7 DEF InOrder
<1> QED
  BY <1>3, <1>8 DEF StepInv

(* A line of the step at work makes its log longer: its first row is put at  *)
(* the end, and so is every other.                                           *)
LEMMA GrowFields ==
  ASSUME NEW s \in Step
  PROVE  /\ GrowLog(s).index = (IF s.length = 0 THEN NextIndex ELSE s.index)
         /\ GrowLog(s).length = s.length + 1
         /\ GrowLog(s).result = s.result
BY DEF GrowLog, Step

(* A result leaves the log of a step that has written where it is. *)
LEMMA EndFields ==
  ASSUME NEW s, DOMAIN s = {"result", "index", "length"}, NEW res, NEW n
  PROVE  /\ EndStep(s, res, n).result = res
         /\ EndStep(s, res, n).length = s.length
         /\ EndStep(s, res, n).index = (IF s.length = 0 THEN n ELSE s.index)
BY DEF EndStep

(* What Fire does with an entry of the step at work. *)
LEMMA FireAtWork ==
  ASSUME TaskType, NEW raw \in BOOLEAN, NEW res, cur \in 1 .. NumSteps,
         Fire(Entry(TRUE, cur, raw, res, "unspecified"))
  PROVE  LET rows == IF raw \/ ~DuringSteps(steps) THEN 1 ELSE 0
             grown == IF raw THEN [steps EXCEPT ![cur] = GrowLog(steps[cur])] ELSE steps
         IN  /\ cur \in DOMAIN steps /\ AddRows(rows, IF raw THEN cur ELSE NoStep)
             /\ steps' = IF res = "unspecified" THEN grown
                         ELSE [grown EXCEPT ![cur] = EndStep(grown[cur], res, NextIndex + rows)]
BY StepsAssumption DEF Fire, FireOther, FireMain, FireStep, Entry, NoStep

(* t has the log of s, or a longer one. *)
Longer(s, t) == s.length <= t.length /\ (s.length > 0 => t.index = s.index)

(* A raw line of the step at work. *)
LEMMA RawLine ==
  ASSUME LogType, TaskType, LogType', TaskType', LogInv, StepInv,
         job \in {"exec", "stepErr"}, cur \in 1 .. NumSteps,
         NEW res \in Results,
         Fire(Entry(TRUE, cur, TRUE, res, "unspecified"))
  PROVE  /\ StepLogs' /\ KnownSteps' /\ Len(steps') = NumSteps
         /\ \A s \in 1 .. NumSteps : s # cur => steps'[s] = steps[s]
         /\ steps'[cur].result = IF res = "unspecified" THEN steps[cur].result ELSE res
         /\ steps'[cur].length > 0 /\ steps'[cur].index + steps'[cur].length = Len(hist')
         /\ Longer(steps[cur], steps'[cur])
<1>1. Len(steps) = NumSteps /\ DOMAIN steps = 1 .. NumSteps /\ AtWork(cur) /\ job \in Running
  BY DEF StepInv, InOrder, Running, TaskType
<1>2. steps[cur] \in Step
  BY <1>1 DEF TaskType
<1> DEFINE grown == [steps EXCEPT ![cur] = GrowLog(steps[cur])]
<1>3. /\ AddRows(1, cur)
      /\ steps' = IF res = "unspecified" THEN grown
                  ELSE [grown EXCEPT ![cur] = EndStep(grown[cur], res, NextIndex + 1)]
  BY FireAtWork
<1>4. /\ DOMAIN grown = DOMAIN steps /\ grown[cur] = GrowLog(steps[cur])
      /\ \A s \in DOMAIN steps : s # cur => grown[s] = steps[s]
  BY <1>1
<1>5. /\ grown[cur].index = (IF steps[cur].length = 0 THEN Len(hist) ELSE steps[cur].index)
      /\ grown[cur].length = steps[cur].length + 1
      /\ grown[cur].result = steps[cur].result
  BY <1>2, <1>4, GrowFields, NextIsLast
<1>6. DOMAIN grown[cur] = {"result", "index", "length"}
  BY <1>2, <1>4 DEF GrowLog, Step
<1> HIDE DEF grown
<1>7. /\ DOMAIN steps' = DOMAIN steps
      /\ \A s \in DOMAIN steps : s # cur => steps'[s] = steps[s]
      /\ steps'[cur] = IF res = "unspecified" THEN grown[cur] ELSE EndStep(grown[cur], res, NextIndex + 1)
  BY <1>1, <1>3, <1>4
<1>8. steps[cur].length \in Nat /\ grown[cur].length # 0
  BY <1>2, <1>5 DEF Step
<1>9. /\ steps'[cur].index = grown[cur].index /\ steps'[cur].length = grown[cur].length
      /\ steps'[cur].result = IF res = "unspecified" THEN steps[cur].result ELSE res
  <2>1. /\ EndStep(grown[cur], res, NextIndex + 1).result = res
        /\ EndStep(grown[cur], res, NextIndex + 1).length = grown[cur].length
        /\ EndStep(grown[cur], res, NextIndex + 1).index
             = (IF grown[cur].length = 0 THEN NextIndex + 1 ELSE grown[cur].index)
    BY <1>6, EndFields
  <2> QED
    BY <1>5, <1>7, <1>8, <2>1
<1>10. StepLogs' /\ KnownSteps' /\ steps'[cur].index + steps'[cur].length = Len(hist')
  BY <1>1, <1>3, <1>5, <1>7, <1>9, OwnRow DEF StepInv, AtWork
<1>11. Len(steps') = NumSteps
  BY <1>1, <1>7, StepsAssumption DEF TaskType
<1>12. Longer(steps[cur], steps'[cur])
  BY <1>5, <1>8, <1>9 DEF Longer
<1> QED
  BY <1>1, <1>5, <1>7, <1>8, <1>9, <1>10, <1>11, <1>12

(* A step ends without an error: it gets its result and keeps its log. *)
LEMMA EndedStep ==
  ASSUME TaskType, cur \in 1 .. NumSteps, NEW res \in Results, res # "unspecified",
         Fire(Entry(TRUE, cur, FALSE, res, "unspecified"))
  PROVE  /\ DOMAIN steps' = DOMAIN steps /\ SameLogs /\ steps'[cur].result = res
         /\ \A s \in DOMAIN steps : s # cur => steps'[s] = steps[s]
<1>1. cur \in DOMAIN steps /\ \E m : steps' = [steps EXCEPT ![cur] = EndStep(steps[cur], res, m)]
  BY FireAtWork
<1>2. PICK m : steps' = [steps EXCEPT ![cur] = EndStep(steps[cur], res, m)]
  BY <1>1
<1>3. steps[cur] \in Step
  BY <1>1 DEF TaskType
<1>4. DOMAIN steps[cur] = {"result", "index", "length"}
  BY <1>3 DEF Step
<1>5. /\ DOMAIN steps' = DOMAIN steps /\ steps'[cur] = EndStep(steps[cur], res, m)
      /\ \A s \in DOMAIN steps : s # cur => steps'[s] = steps[s]
  BY <1>1, <1>2
<1>6. /\ steps'[cur].result = res /\ steps'[cur].length = steps[cur].length
      /\ steps'[cur].index = (IF steps[cur].length = 0 THEN m ELSE steps[cur].index)
  BY <1>4, <1>5, EndFields
<1>7. SameLogs
  BY <1>3, <1>5, <1>6 DEF SameLogs, Step
<1> QED
  BY <1>5, <1>6, <1>7

(* A step at work is over: the next is at work, and has written nothing.     *)
LEMMA NextAtWork ==
  ASSUME TaskType, TaskType', StepInv, job \in {"exec", "stepErr"}, job' = "exec", cur \in 1 .. NumSteps,
         cur' = cur + 1, Len(steps') = NumSteps,
         \A s \in 1 .. NumSteps : s # cur => steps'[s] = steps[s],
         steps'[cur].result # "unspecified"
  PROVE  InOrder'
<1>1. job \in Running /\ job' \in Running /\ job' \notin Early \cup {"prepare"} /\ job # "prepare"
  BY DEF Early, Running
<1>2. \A s \in 1 .. NumSteps : Past(s) /\ AtWork(s) /\ ToCome(s)
  BY <1>1 DEF StepInv, InOrder
<1>3. cur \in Nat /\ NumSteps \in Nat
  BY StepsAssumption
<1>4. ASSUME NEW s \in 1 .. NumSteps PROVE Past(s)' /\ AtWork(s)' /\ ToCome(s)'
  <2>1. CASE s < cur
    BY <1>1, <1>2, <1>3, <2>1 DEF Past, AtWork, ToCome
  <2>2. CASE s = cur
    BY <1>1, <1>3, <2>2 DEF Past, AtWork, ToCome
  <2>3. CASE s > cur
    BY <1>1, <1>2, <1>3, <2>3 DEF Past, AtWork, ToCome
  <2> QED
    BY <1>3, <2>1, <2>2, <2>3
<1> QED
  BY <1>1, <1>4 DEF InOrder

(* A step at work has written, and is still at work. *)
LEMMA SameAtWork ==
  ASSUME TaskType, TaskType', StepInv, job = "exec", job' = "exec", cur \in 1 .. NumSteps,
         cur' = cur, Len(steps') = NumSteps,
         \A s \in 1 .. NumSteps : s # cur => steps'[s] = steps[s],
         steps'[cur].result = steps[cur].result,
         steps'[cur].index + steps'[cur].length = Len(hist')
  PROVE  InOrder'
<1>1. job \in Running /\ job' \in Running /\ job' \notin Early \cup {"prepare"} /\ job # "prepare"
  BY DEF Early, Running
<1>2. \A s \in 1 .. NumSteps : Past(s) /\ AtWork(s) /\ ToCome(s)
  BY <1>1 DEF StepInv, InOrder
<1>3. ASSUME NEW s \in 1 .. NumSteps PROVE Past(s)' /\ AtWork(s)' /\ ToCome(s)'
  BY <1>1, <1>2 DEF Past, AtWork, ToCome
<1> QED
  BY <1>1, <1>3 DEF InOrder

(* A step at work failed: its error is still to be written. *)
LEMMA FailedAtWork ==
  ASSUME TaskType, TaskType', StepInv, job = "exec", job' = "stepErr", cur \in 1 .. NumSteps,
         cur' = cur, Len(steps') = NumSteps,
         \A s \in 1 .. NumSteps : s # cur => steps'[s] = steps[s],
         steps'[cur].result # "unspecified", steps'[cur].length > 0,
         steps'[cur].index + steps'[cur].length = Len(hist')
  PROVE  InOrder'
<1>1. job \in Running /\ job' \in Running /\ job' \notin Early \cup {"prepare"} /\ job # "prepare"
  BY DEF Early, Running
<1>2. \A s \in 1 .. NumSteps : Past(s) /\ AtWork(s) /\ ToCome(s)
  BY <1>1 DEF StepInv, InOrder
<1>3. ASSUME NEW s \in 1 .. NumSteps PROVE Past(s)' /\ AtWork(s)' /\ ToCome(s)'
  BY <1>1, <1>2 DEF Past, AtWork, ToCome
<1> QED
  BY <1>1, <1>3 DEF InOrder

(* Resolve leaves the logs where they are. *)
LEMMA ResolveSame ==
  ASSUME TaskType, NEW res, steps' = Resolve(steps, res)
  PROVE  SameLogs
<1>1. ASSUME NEW s \in DOMAIN steps
      PROVE  /\ steps'[s].length = steps[s].length
             /\ steps'[s].index = steps[s].index
  <2>1. steps[s] \in Step
    BY DEF TaskType
  <2>2. steps'[s] = IF steps[s].result = "unspecified" THEN [steps[s] EXCEPT !.result = res] ELSE steps[s]
    BY DEF Resolve
  <2> QED
    BY <2>1, <2>2 DEF Step
<1>2. DOMAIN steps' = DOMAIN steps
  BY DEF Resolve
<1> QED
  BY <1>1, <1>2 DEF SameLogs

(* The executor's entries, in its order. *)
LEMMA StepExecutor ==
  ASSUME TypeOK, TypeOK', LogInv, StepInv, Executor
  PROVE  StepInv'
<1> USE DEF TypeOK
<1>0. \A r, jr : /\ ~Entry(FALSE, NoStep, FALSE, r, jr).main /\ Entry(FALSE, NoStep, FALSE, r, jr).jobResult = jr
                /\ Entry(TRUE, NoStep, FALSE, r, jr).main /\ Entry(TRUE, NoStep, FALSE, r, jr).step = NoStep
  BY DEF Entry
<1>00. cur <= NumSteps => cur \in 1 .. NumSteps
  BY StepsAssumption DEF JobType
<1>1. CASE JobLine
  <2>1. FireOther(Entry(FALSE, NoStep, FALSE, "unspecified", "unspecified"))
    BY <1>0, <1>1 DEF JobLine, Logs, Fire, FireMain, FireStep
  <2>2. steps' = steps /\ AddRows(IF DuringSteps(steps) THEN 0 ELSE 1, NoStep)
    BY <1>0, <2>1 DEF FireOther
  <2>3. job \in {"exec", "post"} /\ job' = job /\ cur' = cur
    BY <1>1 DEF JobLine, Logs
  <2>4. CASE job = "exec"
    BY <2>2, <2>3, <2>4, LineOutside
  <2>5. CASE job = "post"
    <3>1. job' \notin Early \cup Running /\ SameLogs
      BY <2>2, <2>3, <2>5 DEF Early, Running, SameLogs
    <3>2. PICK n \in {0, 1} : AddRows(n, NoStep)
      BY <2>2
    <3> QED
      BY <3>1, <3>2, OutsideSteps
  <2> QED
    BY <2>3, <2>4, <2>5
<1>2. CASE MainLine
  <2> DEFINE e == Entry(TRUE, NoStep, FALSE, "unspecified", "unspecified")
  <2>0. e.main /\ e.step = NoStep /\ Fire(e)
    BY <1>2 DEF MainLine, Logs, Entry
  <2> HIDE DEF e
  <2>1. FireMain(e)
    <3>1. NoStep \notin DOMAIN steps
      BY DEF TaskType, NoStep
    <3> QED
      BY <2>0, <3>1 DEF Fire, FireOther, FireStep
  <2>2. steps' = steps /\ AddRows(IF DuringSteps(steps) THEN 0 ELSE 1, NoStep)
    BY <2>1 DEF FireMain, Logf, taskVars
  <2>3. job = "exec" /\ job' = "exec" /\ cur' = cur
    BY <1>2 DEF MainLine, Logs
  <2> QED
    BY <2>2, <2>3, LineOutside
<1>3. CASE StepError
  <2>1. cur \in 1 .. NumSteps /\ job = "stepErr" /\ job' = "exec" /\ cur' = cur + 1
        /\ Fire(Entry(TRUE, cur, TRUE, "unspecified", "unspecified"))
    BY <1>00, <1>3, Zenon DEF StepError, Logs
  <2>2. /\ StepLogs' /\ KnownSteps' /\ Len(steps') = NumSteps
        /\ \A s \in 1 .. NumSteps : s # cur => steps'[s] = steps[s]
        /\ steps'[cur].result = steps[cur].result
    BY <2>1, RawLine DEF Results
  <2>3. steps[cur].result # "unspecified"
    BY <2>1 DEF StepInv, InOrder, Running, AtWork
  <2>4. InOrder'
    BY <2>1, <2>2, <2>3, NextAtWork
  <2> QED
    BY <2>2, <2>4 DEF StepInv
<1>4. ASSUME NEW raw \in BOOLEAN, StepLine(raw) PROVE StepInv'
  <2>1. cur \in 1 .. NumSteps /\ job = "exec" /\ job' = "exec" /\ cur' = cur
        /\ Fire(Entry(TRUE, cur, raw, "unspecified", "unspecified"))
    BY <1>00, <1>4, Zenon DEF StepLine, Logs
  <2>2. CASE raw
    <3>1. /\ StepLogs' /\ KnownSteps' /\ Len(steps') = NumSteps
          /\ \A s \in 1 .. NumSteps : s # cur => steps'[s] = steps[s]
          /\ steps'[cur].result = steps[cur].result
          /\ steps'[cur].length > 0 /\ steps'[cur].index + steps'[cur].length = Len(hist')
      BY <2>1, <2>2, RawLine DEF Results
    <3>2. InOrder'
      BY <2>1, <3>1, SameAtWork
    <3> QED
      BY <3>1, <3>2 DEF StepInv
  <2>3. CASE ~raw
    <3>1. steps' = steps /\ AddRows(IF ~DuringSteps(steps) THEN 1 ELSE 0, NoStep)
      BY <2>1, <2>3, FireAtWork
    <3>2. AddRows(IF DuringSteps(steps) THEN 0 ELSE 1, NoStep)
      BY <3>1
    <3> QED
      BY <2>1, <3>1, <3>2, LineOutside
  <2> QED
    BY <2>2, <2>3
<1>5. ASSUME NEW res \in StepResults, StepEnds(res) PROVE StepInv'
  <2>1. cur \in 1 .. NumSteps /\ job = "exec" /\ res \in Results /\ res # "unspecified"
        /\ Fire(Entry(TRUE, cur, res = "failure", res, "unspecified"))
    BY <1>00, <1>5, ResultsAssumption, Zenon DEF StepEnds, Logs
  <2>2. CASE res = "failure"
    <3>1. job' = "stepErr" /\ cur' = cur
      BY <1>5, <2>2 DEF StepEnds, Logs
    <3>2. Fire(Entry(TRUE, cur, TRUE, res, "unspecified"))
      BY <2>1, <2>2
    <3>3. /\ StepLogs' /\ KnownSteps' /\ Len(steps') = NumSteps
          /\ \A s \in 1 .. NumSteps : s # cur => steps'[s] = steps[s]
          /\ steps'[cur].result = res
          /\ steps'[cur].length > 0 /\ steps'[cur].index + steps'[cur].length = Len(hist')
      BY <2>1, <3>2, RawLine
    <3>4. InOrder'
      BY <2>1, <3>1, <3>3, FailedAtWork
    <3> QED
      BY <3>3, <3>4 DEF StepInv
  <2>3. CASE res # "failure"
    <3>1. job' = "exec" /\ cur' = cur + 1 /\ Fire(Entry(TRUE, cur, FALSE, res, "unspecified"))
      BY <1>5, <2>1, <2>3 DEF StepEnds, Logs
    <3>2. /\ DOMAIN steps' = DOMAIN steps /\ SameLogs /\ steps'[cur].result = res
          /\ \A s \in DOMAIN steps : s # cur => steps'[s] = steps[s]
      BY <2>1, <3>1, EndedStep
    <3>3. PICK n \in {0, 1} : AddRows(n, NoStep)
      BY <2>1, <3>1, FireAtWork
    <3>4. StepLogs' /\ KnownSteps'
      BY <3>2, <3>3, OtherRows DEF StepInv
    <3>5. DOMAIN steps = 1 .. NumSteps /\ Len(steps') = NumSteps
      BY <2>1, <3>2, StepsAssumption DEF StepInv, InOrder, Running, TaskType
    <3>6. InOrder'
      BY <2>1, <3>1, <3>2, <3>5, NextAtWork
    <3> QED
      BY <3>4, <3>6 DEF StepInv
  <2> QED
    BY <2>2, <2>3
<1>6. ASSUME NEW res \in JobResults, JobEnds(res) PROVE StepInv'
  <2> DEFINE e == Entry(FALSE, NoStep, FALSE, "unspecified", res)
  <2>1. FireOther(e) /\ job' = "post"
    BY <1>0, <1>6 DEF JobEnds, Logs, Fire, FireMain, FireStep
  <2>2. PICK r \in Results : steps' = Resolve(steps, r)
    <3>1. e.jobResult # "unspecified"
      <4>1. e.jobResult = res
        BY DEF Entry
      <4> HIDE DEF e
      <4> QED
        BY <1>6, <4>1, ResultsAssumption
    <3> HIDE DEF e
    <3>2. steps' = Resolve(steps, "skipped") \/ steps' = Resolve(steps, "cancelled")
      BY <2>1, <3>1 DEF FireOther
    <3> QED
      BY <3>2 DEF Results
  <2>3. SameLogs
    BY <2>2, ResolveSame
  <2>4. PICK n \in {0, 1} : AddRows(n, NoStep)
    BY <2>1 DEF FireOther
  <2> QED
    BY <2>1, <2>3, <2>4, OutsideSteps DEF Early, Running
<1> QED
  BY <1>1, <1>2, <1>3, <1>4, <1>5, <1>6 DEF Executor

(* Steps that write no row and touch no step. *)
LEMMA StepQuiet ==
  ASSUME StepInv, UNCHANGED <<hist, steps, cur>>,
         \/ job' = job
         \/ job \in Early /\ job' \in Early
         \/ job' \notin Early \cup Running
  PROVE  StepInv'
<1>1. StepLogs' /\ KnownSteps'
  BY DEF StepInv, StepLogs, KnownSteps
<1>2. ASSUME job' = job PROVE InOrder'
  BY <1>2 DEF StepInv, InOrder, Past, AtWork, ToCome
<1>3. ASSUME job \in Early, job' \in Early PROVE InOrder'
  BY <1>3 DEF StepInv, InOrder, Early, Running
<1>4. ASSUME job' \notin Early \cup Running PROVE InOrder'
  BY <1>4 DEF InOrder, Early, Running
<1> QED
  BY <1>1, <1>2, <1>3, <1>4 DEF StepInv

(* The steps get their states: no row is of any of them yet. *)
LEMMA StepReset ==
  ASSUME LogType, StepInv, ResetSteps
  PROVE  StepInv'
<1> DEFINE fresh == [i \in 1 .. NumSteps |-> [result |-> "unspecified", index |-> 0, length |-> 0]]
<1>1. job \in Early /\ job' = "prepare" /\ steps = <<>> /\ cur = 1 /\ cur' = 1 /\ hist' = hist
  BY DEF ResetSteps, Early, StepInv, InOrder, logVars
<1>2. fresh \in Seq(Step) /\ Len(fresh) = NumSteps
  BY StepsAssumption DEF Step, Results
<1>3. steps' = fresh
  BY <1>1, <1>2, ConcatEmptySeq DEF ResetSteps
<1>4. \A s \in 1 .. NumSteps : steps'[s].result = "unspecified" /\ steps'[s].index = 0 /\ steps'[s].length = 0
  BY <1>3
<1>5. Len(steps') = NumSteps /\ DOMAIN steps' = 1 .. NumSteps
  BY <1>2, <1>3
<1>6. \A i \in 1 .. Len(hist) : hist[i].step = 0
  BY <1>1 DEF StepInv, KnownSteps, NoStep
<1>7. StepLogs'
  BY <1>1, <1>4, <1>5, <1>6 DEF StepLogs
<1>8. KnownSteps'
  BY <1>1, <1>6 DEF KnownSteps, NoStep
<1>9. InOrder'
  BY <1>1, <1>4, <1>5 DEF InOrder, Early, Running, Past, AtWork, ToCome
<1> QED
  BY <1>7, <1>8, <1>9 DEF StepInv

(* The other steps of the job that write rows, all of them of no step. *)
LEMMA StepWrites ==
  ASSUME TypeOK, TypeOK', StepInv, ReceiveTask \/ Prepared \/ SetOutputs \/ Close
  PROVE  StepInv'
<1> USE DEF TypeOK, taskVars
<1>1. CASE ReceiveTask
  <2>1. job \in Early /\ job' = "plan" /\ steps = <<>> /\ cur = 1 /\ UNCHANGED <<steps, cur>>
    BY <1>1 DEF ReceiveTask, Early, StepInv, InOrder
  <2>2. PICK n \in {0, 1} : AddRows(n, NoStep)
    BY <1>1 DEF ReceiveTask, Logf
  <2>3. StepLogs' /\ KnownSteps'
    BY <2>1, <2>2, OtherRows DEF StepInv, SameLogs
  <2>4. InOrder'
    BY <2>1 DEF InOrder, Early, Running
  <2> QED
    BY <2>3, <2>4 DEF StepInv
<1>2. CASE Prepared
  BY <1>2, LineOutside DEF Prepared, Logf
<1>3. CASE SetOutputs
  <2>1. PICK out \in SUBSET Keys : Logf(Cardinality(out \cap (LongKeys \cup LongValues)))
    BY <1>3 DEF SetOutputs
  <2>2. Cardinality(out \cap (LongKeys \cup LongValues)) \in Nat
    BY <2>1, KeysAssumption, KeysFinite, FS_Subset, FS_CardinalityType
  <2>3. PICK n \in Nat : AddRows(n, NoStep)
    BY <2>1, <2>2 DEF Logf
  <2>4. job' \notin Early \cup Running /\ SameLogs
    BY <1>3 DEF SetOutputs, Early, Running, SameLogs
  <2> QED
    BY <2>3, <2>4, OutsideSteps
<1>4. CASE Close
  <2>1. PICK n \in {0, 1} : AddRows(n, NoStep)
    BY <1>4 DEF Close
  <2>2. SameLogs
    BY <1>4, ResolveSame DEF Close, SameLogs
  <2>3. job' \notin Early \cup Running
    BY <1>4 DEF Close, Early, Running
  <2> QED
    BY <2>1, <2>2, <2>3, OutsideSteps
<1> QED
  BY <1>1, <1>2, <1>3, <1>4

(* Every step keeps StepInv. *)
LEMMA StepStep == TypeOK /\ TypeOK' /\ Control /\ LogInv /\ StepInv /\ [Next]_vars => StepInv'
<1> SUFFICES ASSUME TypeOK, TypeOK', Control, LogInv, StepInv, [Next]_vars PROVE StepInv'
  OBVIOUS
<1> USE DEF logVars, taskVars, jobVars
<1>1. CASE FirstTick
  BY <1>1, StepQuiet DEF FirstTick, Early
<1>2. CASE RunFails \/ ExecReturns \/ Attempt \/ GiveUp \/ Return
  BY <1>2, StepQuiet DEF RunFails, ExecReturns, Attempt, GiveUp, Return, Early, Running
<1>3. CASE ResetSteps
  BY <1>3, StepReset DEF TypeOK
<1>4. CASE ReceiveTask \/ Prepared \/ SetOutputs \/ Close
  BY <1>4, StepWrites
<1>5. CASE Executor
  BY <1>5, StepExecutor
<1>6. CASE DaemonTick \/ ServeStray \/ LoseRows \/ UserCancels \/ Deadline \/ UNCHANGED vars
  BY <1>6, StepQuiet DEF DaemonTick, ServeStray, LoseRows, UserCancels, Deadline, vars
<1>7. ASSUME NEW p \in Procs, SendLog(p) \/ SendState(p) \/ Serve(p) PROVE StepInv'
  BY <1>7, StepQuiet DEF SendLog, SendState, Serve
<1>8. ASSUME NEW p \in Procs, LogAnswered(p) \/ StateAnswered(p) \/ CallRefused(p) \/ CallFails(p)
      PROVE  StepInv'
  <2>1. PICK next, err : Leave(p, next, err) /\ rep[p] # "idle"
    BY <1>8 DEF LogAnswered, StateAnswered, CallRefused, CallFails
  <2>2. cur' = cur /\ (job' = job \/ job' \in {"received", "returned", "retry"})
    BY <2>1 DEF Leave
  <2>3. job' = "received" => job' = job \/ job = "tick"
    BY <2>1 DEF Leave
  <2>4. UNCHANGED <<hist, steps>>
    BY <1>8 DEF LogAnswered, StateAnswered, CallRefused, CallFails
  <2> QED
    BY <2>2, <2>3, <2>4, StepQuiet DEF Early, Running
<1> QED
  BY <1>1, <1>2, <1>3, <1>4, <1>5, <1>6, <1>7, <1>8 DEF Next, JobCode, Reports, Terminated

(* The rows a step's state points at are the rows of that step and no        *)
(* others, however many steps there are and whatever they log, while         *)
(* acknowledgements move the offset the position is computed from.           *)
THEOREM StepsFindTheirLogs == Spec => []StepLogs
<1>1. Init => StepInv
  BY DEF Init, StepInv, StepLogs, KnownSteps, InOrder, Early, Running
<1>2. StepInv => StepLogs
  BY DEF StepInv
<1> QED
  BY <1>1, <1>2, StepStep, TypeCorrect, LogCorrect, PTL DEF Spec

-----------------------------------------------------------------------------
(* The state moves forward.  A state is any record with a result and steps: *)
(* the reporter's, the server's, that of a call.                            *)

Now == [result |-> result, steps |-> steps]

(* b is a, or what a has become. *)
Later(a, b) ==
    /\ a.result # "unspecified" => b.result = a.result
    /\ Len(a.steps) <= Len(b.steps)
    /\ \A i \in 1 .. Len(a.steps) : Forward(a.steps[i], b.steps[i])

(* Forward is transitive. *)
LEMMA ForwardTrans ==
  ASSUME NEW s \in Step, NEW t \in Step, NEW u \in Step, Forward(s, t), Forward(t, u)
  PROVE  Forward(s, u)
<1>1. s.length \in Nat /\ t.length \in Nat /\ u.length \in Nat
  BY DEF Step
<1>2. s.length <= u.length
  BY <1>1 DEF Forward
<1>3. s.length > 0 => t.length > 0
  BY <1>1 DEF Forward
<1>4. s.length > 0 => u.index = s.index
  BY <1>3 DEF Forward
<1> QED
  BY <1>2, <1>4 DEF Forward

(* Every state is what it has become. *)
LEMMA LaterRefl ==
  ASSUME NEW a, a.steps \in Seq(Step)
  PROVE  Later(a, a)
<1>1. \A i \in 1 .. Len(a.steps) : a.steps[i] \in Step
  OBVIOUS
<1>2. \A i \in 1 .. Len(a.steps) : a.steps[i].length <= a.steps[i].length
  BY <1>1 DEF Step
<1> QED
  BY <1>2 DEF Later, Forward

(* So is becoming. *)
LEMMA LaterTrans ==
  ASSUME NEW a, NEW b, NEW c,
         a.steps \in Seq(Step), b.steps \in Seq(Step), c.steps \in Seq(Step),
         Later(a, b), Later(b, c)
  PROVE  Later(a, c)
<1>1. Len(a.steps) \in Nat /\ Len(b.steps) \in Nat /\ Len(c.steps) \in Nat
  OBVIOUS
<1>2. ASSUME NEW i \in 1 .. Len(a.steps) PROVE Forward(a.steps[i], c.steps[i])
  <2>1. i \in 1 .. Len(b.steps) /\ i \in 1 .. Len(c.steps)
    BY <1>1 DEF Later
  <2>2. a.steps[i] \in Step /\ b.steps[i] \in Step /\ c.steps[i] \in Step
    BY <2>1
  <2>3. Forward(a.steps[i], b.steps[i]) /\ Forward(b.steps[i], c.steps[i])
    BY <2>1 DEF Later
  <2> QED
    BY <2>2, <2>3, ForwardTrans
<1> QED
  BY <1>1, <1>2 DEF Later

(* The job has no result before its steps are over. *)
NoResultYet == job \in Early \cup Running => result = "unspecified"

(* The steps grow with their logs and get a result once. *)
LEMMA StepsForward ==
  ASSUME TaskType, TaskType',
         DOMAIN steps' = DOMAIN steps,
         \A s \in DOMAIN steps : /\ Longer(steps[s], steps'[s])
                                 /\ steps[s].result # "unspecified" => steps'[s].result = steps[s].result,
         result = "unspecified" \/ result' = result
  PROVE  Later(Now, Now')
<1>1. Len(steps') = Len(steps) /\ DOMAIN steps = 1 .. Len(steps) /\ Len(steps) \in Nat
  BY DEF TaskType
<1> QED
  BY <1>1 DEF Later, Now, Forward, Longer, TaskType

(* Resolve only fills in results. *)
LEMMA ResolveForward ==
  ASSUME TaskType, TaskType', NEW res, steps' = Resolve(steps, res), result = "unspecified" \/ result' = result
  PROVE  Later(Now, Now')
<1>1. ASSUME NEW s \in DOMAIN steps
      PROVE  /\ Longer(steps[s], steps'[s])
             /\ steps[s].result # "unspecified" => steps'[s].result = steps[s].result
  <2>1. steps[s] \in Step
    BY DEF TaskType
  <2>2. steps'[s] = IF steps[s].result = "unspecified" THEN [steps[s] EXCEPT !.result = res] ELSE steps[s]
    BY DEF Resolve
  <2> QED
    BY <2>1, <2>2 DEF Step, Longer
<1>2. DOMAIN steps' = DOMAIN steps
  BY DEF Resolve
<1> QED
  BY <1>1, <1>2, StepsForward

(* What the executor does to the steps and to the job's result. *)
LEMMA ExecutorForward ==
  ASSUME TypeOK, TypeOK', LogInv, StepInv, NoResultYet, Executor
  PROVE  Later(Now, Now') /\ NoResultYet'
<1> USE DEF TypeOK
<1>0. cur <= NumSteps => cur \in 1 .. NumSteps
  BY StepsAssumption DEF JobType
<1>1. ASSUME UNCHANGED <<result, steps>> PROVE Later(Now, Now')
  BY <1>1, LaterRefl DEF Now, TaskType
<1>2. CASE JobLine
  <2> DEFINE e == Entry(FALSE, NoStep, FALSE, "unspecified", "unspecified")
  <2>1. Fire(e) /\ ~e.main /\ e.jobResult = "unspecified"
    BY <1>2 DEF JobLine, Logs, Entry
  <2> HIDE DEF e
  <2>2. UNCHANGED <<result, steps>>
    BY <2>1 DEF Fire, FireOther, FireMain, FireStep
  <2> QED
    BY <1>1, <1>2, <2>2 DEF NoResultYet, JobLine, Logs
<1>3. CASE MainLine
  <2> DEFINE e == Entry(TRUE, NoStep, FALSE, "unspecified", "unspecified")
  <2>1. Fire(e) /\ e.main /\ e.step = NoStep
    BY <1>3 DEF MainLine, Logs, Entry
  <2> HIDE DEF e
  <2>2. NoStep \notin DOMAIN steps
    BY DEF TaskType, NoStep
  <2>3. UNCHANGED <<result, steps>>
    BY <2>1, <2>2 DEF Fire, FireOther, FireMain, FireStep, taskVars
  <2> QED
    BY <1>1, <1>3, <2>3 DEF NoResultYet, MainLine, Logs
<1>4. ASSUME NEW raw \in BOOLEAN, NEW res \in Results, cur \in 1 .. NumSteps, job \in {"exec", "stepErr"},
             job = "stepErr" => res = "unspecified", ~raw => res # "unspecified",
             Fire(Entry(TRUE, cur, raw, res, "unspecified"))
      PROVE  Later(Now, Now') /\ result' = result
  <2>1. result' = result
    <3> DEFINE e == Entry(TRUE, cur, raw, res, "unspecified")
    <3>1. e.main /\ Fire(e)
      BY <1>4 DEF Entry
    <3> HIDE DEF e
    <3> QED
      BY <3>1 DEF Fire, FireOther, FireMain, FireStep, taskVars
  <2>2. DOMAIN steps = 1 .. NumSteps /\ AtWork(cur)
    BY <1>4 DEF StepInv, InOrder, Running, TaskType
  <2>3. \A s \in DOMAIN steps : steps[s].length \in Nat
    <3>1. \A s \in DOMAIN steps : steps[s] \in Step
      BY DEF TaskType
    <3> QED
      BY <3>1 DEF Step
  <2>4. /\ DOMAIN steps' = DOMAIN steps
        /\ \A s \in DOMAIN steps : s # cur => steps'[s] = steps[s]
        /\ Longer(steps[cur], steps'[cur])
        /\ steps'[cur].result = IF res = "unspecified" THEN steps[cur].result ELSE res
    <3>1. CASE raw
      <4>1. /\ Len(steps') = NumSteps
            /\ \A s \in 1 .. NumSteps : s # cur => steps'[s] = steps[s]
            /\ steps'[cur].result = IF res = "unspecified" THEN steps[cur].result ELSE res
            /\ Longer(steps[cur], steps'[cur])
        BY <1>4, <3>1, RawLine
      <4>2. DOMAIN steps' = 1 .. NumSteps
        BY <4>1 DEF TaskType
      <4> QED
        BY <2>2, <4>1, <4>2
    <3>2. CASE ~raw
      <4>1. /\ DOMAIN steps' = DOMAIN steps /\ SameLogs /\ steps'[cur].result = res
            /\ \A s \in DOMAIN steps : s # cur => steps'[s] = steps[s]
        BY <1>4, <3>2, EndedStep
      <4> QED
        BY <1>4, <2>2, <2>3, <3>2, <4>1 DEF SameLogs, Longer
    <3> QED
      BY <3>1, <3>2
  <2>5. steps[cur].result # "unspecified" => res = "unspecified"
    BY <1>4, <2>2 DEF AtWork
  <2>6. \A s \in DOMAIN steps :
            /\ Longer(steps[s], steps'[s])
            /\ steps[s].result # "unspecified" => steps'[s].result = steps[s].result
    BY <2>3, <2>4, <2>5 DEF Longer
  <2>7. TaskType /\ TaskType' /\ DOMAIN steps' = DOMAIN steps /\ (result = "unspecified" \/ result' = result)
    BY <2>1, <2>4
  <2>8. Later(Now, Now')
    BY <2>6, <2>7, StepsForward
  <2> QED
    BY <2>1, <2>8
<1>5. CASE StepError
  BY <1>0, <1>4, <1>5 DEF StepError, Logs, Results, NoResultYet, Early, Running
<1>6. ASSUME NEW raw \in BOOLEAN, StepLine(raw) PROVE Later(Now, Now') /\ NoResultYet'
  <2>1. CASE raw
    BY <1>0, <1>4, <1>6, <2>1 DEF StepLine, Logs, Results, NoResultYet, Early, Running
  <2>2. CASE ~raw
    <3>1. cur \in 1 .. NumSteps /\ Fire(Entry(TRUE, cur, FALSE, "unspecified", "unspecified")) /\ job' = job
      BY <1>0, <1>6, <2>2 DEF StepLine, Logs
    <3>2. steps' = steps
      BY <3>1, FireAtWork
    <3>3. result' = result
      <4> DEFINE e == Entry(TRUE, cur, FALSE, "unspecified", "unspecified")
      <4>1. e.main /\ Fire(e)
        BY <3>1 DEF Entry
      <4> HIDE DEF e
      <4> QED
        BY <4>1 DEF Fire, FireOther, FireMain, FireStep, taskVars
    <3> QED
      BY <1>1, <3>1, <3>2, <3>3 DEF NoResultYet
  <2> QED
    BY <2>1, <2>2
<1>7. ASSUME NEW res \in StepResults, StepEnds(res) PROVE Later(Now, Now') /\ NoResultYet'
  <2>1. /\ cur \in 1 .. NumSteps /\ res \in Results /\ res # "unspecified"
        /\ job = "exec" /\ job' \in {"exec", "stepErr"}
        /\ Fire(Entry(TRUE, cur, res = "failure", res, "unspecified"))
    BY <1>0, <1>7, ResultsAssumption DEF StepEnds, Logs
  <2>2. Later(Now, Now') /\ result' = result
    BY <1>4, <2>1
  <2> QED
    BY <2>1, <2>2 DEF NoResultYet, Early, Running
<1>8. ASSUME NEW res \in JobResults, JobEnds(res) PROVE Later(Now, Now') /\ NoResultYet'
  <2> DEFINE e == Entry(FALSE, NoStep, FALSE, "unspecified", res)
  <2>1. Fire(e) /\ ~e.main /\ e.jobResult = res /\ job = "exec" /\ job' = "post"
    BY <1>8 DEF JobEnds, Logs, Entry
  <2> HIDE DEF e
  <2>2. res # "unspecified"
    BY <1>8, ResultsAssumption
  <2>3. steps' = Resolve(steps, "skipped") \/ steps' = Resolve(steps, "cancelled")
    BY <2>1, <2>2 DEF Fire, FireOther, FireMain, FireStep
  <2>4. result = "unspecified"
    BY <2>1 DEF NoResultYet, Early, Running
  <2> QED
    BY <2>1, <2>3, <2>4, ResolveForward DEF NoResultYet, Early, Running
<1> QED
  BY <1>2, <1>3, <1>5, <1>6, <1>7, <1>8 DEF Executor

(* Every step of the job moves the reporter's state forward, or leaves it. *)
LEMMA NowForward ==
  ASSUME TypeOK, TypeOK', LogInv, StepInv, NoResultYet, [Next]_vars
  PROVE  Later(Now, Now') /\ NoResultYet'
<1> USE DEF TypeOK
<1>1. ASSUME UNCHANGED <<result, steps>> PROVE Later(Now, Now')
  BY <1>1, LaterRefl DEF Now, TaskType
<1>2. ASSUME UNCHANGED result, job' \in Early \cup Running => job \in Early \cup Running
      PROVE  NoResultYet'
  BY <1>2 DEF NoResultYet
<1>3. CASE FirstTick \/ ReceiveTask \/ Prepared
  BY <1>1, <1>2, <1>3 DEF FirstTick, ReceiveTask, Prepared, taskVars, Early, Running
<1>4. CASE ResetSteps
  <2>1. steps = <<>> /\ result' = result /\ job = "plan" /\ job' = "prepare"
    BY <1>4 DEF ResetSteps, StepInv, InOrder, Early
  <2>2. Later(Now, Now')
    BY <2>1 DEF Later, Now, TaskType
  <2> QED
    BY <1>2, <2>1, <2>2 DEF Early, Running
<1>5. CASE RunFails \/ ExecReturns \/ SetOutputs \/ Attempt \/ GiveUp \/ Return
  BY <1>1, <1>2, <1>5 DEF RunFails, ExecReturns, SetOutputs, Attempt, GiveUp, Return, taskVars, Early, Running
<1>6. CASE Close
  <2>1. job' \notin Early \cup Running
    BY <1>6 DEF Close, Early, Running
  <2>2. CASE result = "unspecified"
    BY <1>6, <2>1, <2>2, ResolveForward DEF Close, NoResultYet
  <2>3. CASE result # "unspecified"
    BY <1>1, <1>6, <2>1, <2>3 DEF Close, NoResultYet, taskVars
  <2> QED
    BY <2>2, <2>3
<1>7. CASE Executor
  BY <1>7, ExecutorForward
<1>8. CASE DaemonTick \/ ServeStray \/ LoseRows \/ UserCancels \/ Deadline \/ UNCHANGED vars
  BY <1>1, <1>2, <1>8 DEF DaemonTick, ServeStray, LoseRows, UserCancels, Deadline, vars, taskVars, jobVars
<1>9. ASSUME NEW p \in Procs, SendLog(p) \/ SendState(p) \/ Serve(p)
      PROVE  Later(Now, Now') /\ NoResultYet'
  BY <1>1, <1>2, <1>9 DEF SendLog, SendState, Serve, taskVars, jobVars
<1>10. ASSUME NEW p \in Procs, LogAnswered(p) \/ StateAnswered(p) \/ CallRefused(p) \/ CallFails(p)
       PROVE  Later(Now, Now') /\ NoResultYet'
  <2>1. PICK next, err : Leave(p, next, err)
    BY <1>10 DEF LogAnswered, StateAnswered, CallRefused, CallFails
  <2>2. job' = job \/ (job = "tick" /\ job' = "received") \/ job' \in {"returned", "retry"}
    BY <2>1 DEF Leave
  <2>3. UNCHANGED <<result, steps>>
    BY <1>10 DEF LogAnswered, StateAnswered, CallRefused, CallFails, taskVars
  <2> QED
    BY <1>1, <1>2, <2>2, <2>3 DEF Early, Running
<1> QED
  BY <1>3, <1>4, <1>5, <1>6, <1>7, <1>8, <1>9, <1>10 DEF Next, JobCode, Reports, Terminated

-----------------------------------------------------------------------------
(* What the server has, and what it may still get late, has become b. *)
Toward(b) ==
    /\ Later(srv, b)
    /\ \A c \in stray : c.kind = "task" => Later(c, b)

(* Every state on its way has become the reporter's, and what the server has *)
(* or may get late has become every state on its way: clientM keeps two      *)
(* states from being on their way at once.                                   *)
ForwardInv ==
    /\ NoResultYet
    /\ Toward(Now)
    /\ \A p \in Procs : rep[p] = "stateCall" => Later(call[p], Now) /\ Toward(call[p])

(* The states of a call and of the server are sequences of steps. *)
LEMMA StateTypes ==
  ASSUME TypeOK
  PROVE  /\ Now.steps \in Seq(Step) /\ srv.steps \in Seq(Step)
         /\ \A c \in TaskCall : c.steps \in Seq(Step)
         /\ \A c \in stray : c.kind = "task" => c \in TaskCall
  BY DEF TypeOK, TaskType, ServerType, TaskCall, LogCall, Now

(* What has become a has become all that a becomes. *)
LEMMA TowardOn ==
  ASSUME TypeOK, NEW a, NEW b, a.steps \in Seq(Step), b.steps \in Seq(Step),
         Toward(a), Later(a, b)
  PROVE  Toward(b)
<1>1. Later(srv, b)
  BY StateTypes, LaterTrans DEF Toward
<1>2. ASSUME NEW c \in stray, c.kind = "task" PROVE Later(c, b)
  <2>1. Later(c, a) /\ c.steps \in Seq(Step)
    BY <1>2, StateTypes DEF Toward
  <2> QED
    BY <2>1, LaterTrans
<1> QED
  BY <1>1, <1>2 DEF Toward

(* Steps that neither send a state nor execute one. *)
LEMMA ForwardQuiet ==
  ASSUME TypeOK, TypeOK', Control, ForwardInv, Later(Now, Now'), NoResultYet', UNCHANGED <<srv, stray>>,
         \A p \in Procs : rep'[p] = "stateCall" => rep[p] = "stateCall" /\ call'[p] = call[p]
  PROVE  ForwardInv'
<1>1. Toward(Now')
  <2>1. Now.steps \in Seq(Step) /\ (Now').steps \in Seq(Step)
    BY DEF TypeOK, TaskType, Now
  <2> QED
    BY <2>1, TowardOn DEF ForwardInv
<1>2. Toward(Now)'
  BY <1>1 DEF Toward
<1>3. ASSUME NEW p \in Procs, rep'[p] = "stateCall"
      PROVE  Later(call[p], Now') /\ Toward(call[p]) /\ call'[p] = call[p]
  <2>1. rep[p] = "stateCall" /\ call'[p] = call[p] /\ call[p] \in TaskCall
    BY <1>3 DEF Control, Calls
  <2>2. Later(call[p], Now) /\ Toward(call[p])
    BY <2>1 DEF ForwardInv
  <2>3. call[p].steps \in Seq(Step) /\ Now.steps \in Seq(Step) /\ (Now').steps \in Seq(Step)
    BY <2>1 DEF TypeOK, TaskType, Now, TaskCall
  <2> QED
    BY <2>1, <2>2, <2>3, LaterTrans
<1>4. ASSUME NEW p \in Procs, rep'[p] = "stateCall"
      PROVE  Later(call'[p], Now') /\ Toward(call[p])'
  BY <1>3, <1>4 DEF Toward
<1> QED
  BY <1>2, <1>4 DEF ForwardInv

(* A call in flight holds clientM: there is no other. *)
LEMMA OneCall ==
  ASSUME Control, NEW p \in Procs,
         clientM \in {"free", p} \/ rep[p] \in {"logCall", "stateCall"}
  PROVE  \A q \in Procs : q # p => rep[q] # "stateCall"
  BY DEF Control, Calls, Procs

(* A state is sent: it is the reporter's. *)
LEMMA ForwardSend ==
  ASSUME TypeOK, TypeOK', Control, ForwardInv, NEW p \in Procs, SendState(p)
  PROVE  ForwardInv'
<1>1. /\ UNCHANGED <<result, steps, job, srv, stray>>
      /\ call'[p].result = result /\ call'[p].steps = steps
      /\ \A q \in Procs : q # p => rep'[q] = rep[q] /\ clientM = "free"
  BY DEF SendState, CanLock, TypeOK, CallType, taskVars, jobVars, srvVars
<1>2. \A q \in Procs : q # p => rep'[q] # "stateCall"
  BY <1>1, OneCall
<1>3. NoResultYet' /\ Now' = Now
  BY <1>1 DEF ForwardInv, NoResultYet, Now
<1>4. Later(call'[p], Now)
  BY <1>1, LaterRefl DEF TypeOK, TaskType, Now, Later
<1>5. \A a : Later(a, Now) => Later(a, call'[p])
  BY <1>1 DEF Later, Now
<1>6. Toward(Now) /\ Toward(call'[p])
  BY <1>5 DEF ForwardInv, Toward
<1>7. Toward(Now)' /\ Toward(call[p])'
  BY <1>1, <1>3, <1>6 DEF Toward
<1>8. Later(call'[p], Now')
  BY <1>3, <1>4
<1> QED
  BY <1>2, <1>3, <1>7, <1>8 DEF ForwardInv

(* A call fails: its state may be executed later, or again. *)
LEMMA ForwardFails ==
  ASSUME TypeOK, TypeOK', Control, ForwardInv, NoResultYet', NEW p \in Procs, CallFails(p)
  PROVE  ForwardInv'
<1>1. /\ UNCHANGED <<result, steps, srv>>
      /\ stray' = stray \/ stray' = {call[p]}
      /\ rep[p] \in {"logCall", "stateCall"} /\ rep'[p] # "stateCall"
      /\ \A q \in Procs : q # p => rep'[q] = rep[q]
  <2>1. PICK next, err : next \in {"state", "idle"} /\ Leave(p, next, err)
    BY DEF CallFails
  <2> QED
    BY <2>1 DEF CallFails, Leave, TypeOK, CallType, taskVars
<1>2. \A q \in Procs : rep'[q] # "stateCall"
  BY <1>1, OneCall
<1>3. Toward(Now)
  BY DEF ForwardInv
<1>4. call[p].kind = "task" => Later(call[p], Now)
  BY <1>1 DEF ForwardInv, Control, Calls, LogCall
<1>5. Now' = Now
  BY <1>1 DEF Now
<1>6. Toward(Now)'
  BY <1>1, <1>3, <1>4, <1>5 DEF Toward
<1> QED
  BY <1>2, <1>6 DEF ForwardInv

(* The server executes a call, in time or late: what it stores is or has    *)
(* become the state on its way and the reporter's.                          *)
LEMMA ForwardServe ==
  ASSUME TypeOK, TypeOK', Control, ForwardInv, (\E p \in Procs : Serve(p)) \/ ServeStray
  PROVE  ForwardInv'
<1>1. UNCHANGED <<result, steps, job, rep, call>> /\ stray' \subseteq stray
  BY DEF Serve, ServeStray, taskVars, jobVars, callVars
<1>2. NoResultYet' /\ Now' = Now
  BY <1>1 DEF ForwardInv, NoResultYet, Now
<1>3. ASSUME NEW c, Later(c, Now),
             srv' = srv \/ srv' = [result |-> c.result, steps |-> c.steps],
             \A q \in Procs : rep[q] = "stateCall" => Later(c, call[q])
      PROVE  ForwardInv'
  <2>1. \A b : Later(c, b) => srv' = srv \/ Later(srv', b)
    BY <1>3 DEF Later
  <2>2. Later(srv', Now') /\ \A d \in stray' : d.kind = "task" => Later(d, Now')
    BY <1>1, <1>2, <1>3, <2>1 DEF ForwardInv, Toward
  <2>3. ASSUME NEW q \in Procs, rep'[q] = "stateCall"
        PROVE  /\ Later(call'[q], Now')
               /\ Later(srv', call'[q]) /\ \A d \in stray' : d.kind = "task" => Later(d, call'[q])
    <3>1. rep[q] = "stateCall" /\ call'[q] = call[q]
      BY <1>1, <2>3
    <3>2. Later(call[q], Now) /\ Toward(call[q]) /\ Later(c, call[q])
      BY <1>3, <3>1 DEF ForwardInv
    <3> QED
      BY <1>1, <1>2, <2>1, <3>1, <3>2 DEF Toward
  <2> QED
    BY <1>2, <2>2, <2>3 DEF ForwardInv, Toward
<1>4. ASSUME NEW p \in Procs, Serve(p) PROVE ForwardInv'
  <2>1. call[p] # None /\ Execute(call[p])
    BY <1>4 DEF Serve
  <2>2. CASE rep[p] = "stateCall"
    <3>1. /\ call[p] \in TaskCall /\ Later(call[p], Now)
          /\ srv' = [result |-> call[p].result, steps |-> call[p].steps]
      BY <2>1, <2>2 DEF ForwardInv, Control, Calls, TaskCall, Execute, ExecuteTask
    <3>2. Later(call[p], call[p])
      BY <3>1, LaterRefl DEF TaskCall
    <3>3. \A q \in Procs : rep[q] = "stateCall" => q = p
      BY <2>2, OneCall
    <3> QED
      BY <1>3, <3>1, <3>2, <3>3
  <2>3. CASE rep[p] # "stateCall"
    <3>1. call[p] \in LogCall
      BY <2>1, <2>3 DEF Control, Calls
    <3>2. srv' = srv
      BY <2>1, <3>1 DEF Execute, ExecuteLog, LogCall
    <3> QED
      BY <1>3, <3>2 DEF ForwardInv, Toward
  <2> QED
    BY <2>2, <2>3
<1>5. CASE ServeStray
  <2>1. PICK c \in stray : Execute(c)
    BY <1>5 DEF ServeStray
  <2>2. CASE c.kind = "task"
    BY <1>3, <2>1, <2>2 DEF Execute, ExecuteTask, ForwardInv, Toward
  <2>3. CASE c.kind # "task"
    <3>1. c \in LogCall
      BY <2>3 DEF TypeOK, ServerType, TaskCall
    <3>2. srv' = srv
      BY <2>1, <3>1 DEF Execute, ExecuteLog, LogCall
    <3> QED
      BY <1>3, <3>2 DEF ForwardInv, Toward
  <2> QED
    BY <2>2, <2>3
<1> QED
  BY <1>4, <1>5

(* Every step keeps ForwardInv. *)
LEMMA ForwardStep ==
  ASSUME TypeOK, TypeOK', Control, LogInv, StepInv, ForwardInv, [Next]_vars
  PROVE  ForwardInv'
<1>1. Later(Now, Now') /\ NoResultYet'
  BY NowForward DEF ForwardInv
<1> USE DEF logVars, taskVars, jobVars, callVars, srvVars
<1>2. CASE FirstTick \/ Attempt \/ DaemonTick
  <2>1. /\ UNCHANGED <<srv, stray, call>>
        /\ \A p \in Procs : rep'[p] = "stateCall" => rep[p] = "stateCall"
    BY <1>2 DEF FirstTick, Attempt, DaemonTick, TypeOK, CallType, Procs
  <2> QED
    BY <1>1, <2>1, ForwardQuiet
<1>3. CASE \/ ReceiveTask \/ ResetSteps \/ Prepared \/ SetOutputs \/ Close \/ GiveUp \/ Return
           \/ RunFails \/ ExecReturns \/ LoseRows \/ UserCancels \/ Deadline \/ UNCHANGED vars
  <2>1. UNCHANGED <<srv, stray, call, rep>>
    BY <1>3 DEF ReceiveTask, ResetSteps, Prepared, SetOutputs, Close, GiveUp, Return, RunFails,
                ExecReturns, LoseRows, UserCancels, Deadline, vars
  <2> QED
    BY <1>1, <2>1, ForwardQuiet
<1>4. CASE Executor
  <2>1. PICK e, next : Logs(e, next)
    BY <1>4 DEF Executor, JobLine, MainLine, StepLine, StepEnds, StepError, JobEnds
  <2>2. UNCHANGED <<srv, stray, call, rep>>
    BY <2>1 DEF Logs
  <2> QED
    BY <1>1, <2>2, ForwardQuiet
<1>5. ASSUME NEW p \in Procs, SendLog(p) \/ LogAnswered(p) \/ StateAnswered(p) \/ CallRefused(p)
      PROVE  ForwardInv'
  <2>1. /\ UNCHANGED <<srv, stray>> /\ rep'[p] # "stateCall"
        /\ \A q \in Procs : q # p => rep'[q] = rep[q] /\ call'[q] = call[q]
    <3>1. CASE SendLog(p)
      BY <3>1 DEF SendLog, TypeOK, CallType
    <3>2. CASE LogAnswered(p) \/ StateAnswered(p)
      <4>1. PICK next, err : next \in {"state", "idle"} /\ Leave(p, next, err)
        BY <3>2 DEF LogAnswered, StateAnswered
      <4>2. rep'[p] # "stateCall" /\ \A q \in Procs : q # p => rep'[q] = rep[q]
        BY <4>1 DEF Leave, TypeOK, CallType
      <4>3. UNCHANGED <<srv, stray>> /\ call' = [call EXCEPT ![p] = None]
        BY <3>2 DEF LogAnswered, StateAnswered, Unlock
      <4>4. \A q \in Procs : q # p => call'[q] = call[q]
        BY <4>3 DEF TypeOK, CallType
      <4> QED
        BY <4>2, <4>3, <4>4
    <3>3. CASE CallRefused(p)
      <4>1. PICK next, err : next \in {"state", "idle"} /\ Leave(p, next, err)
        BY <3>3 DEF CallRefused
      <4>2. rep'[p] # "stateCall" /\ \A q \in Procs : q # p => rep'[q] = rep[q]
        BY <4>1 DEF Leave, TypeOK, CallType
      <4> QED
        BY <3>3, <4>2 DEF CallRefused
    <3> QED
      BY <1>5, <3>1, <3>2, <3>3
  <2> QED
    BY <1>1, <2>1, ForwardQuiet
<1>6. ASSUME NEW p \in Procs, SendState(p) PROVE ForwardInv'
  BY <1>6, ForwardSend
<1>7. ASSUME NEW p \in Procs, CallFails(p) PROVE ForwardInv'
  BY <1>1, <1>7, ForwardFails
<1>8. CASE (\E p \in Procs : Serve(p)) \/ ServeStray
  BY <1>8, ForwardServe
<1> QED
  BY <1>2, <1>3, <1>4, <1>5, <1>6, <1>7, <1>8 DEF Next, JobCode, Reports, Terminated

(* What the server stores stays, or becomes the state of the call in flight. *)
LEMMA StoredForward ==
  ASSUME TypeOK, TypeOK', Control, ForwardInv, Next, ~stale'
  PROVE  Later(srv, srv')
<1>1. CASE srv' = srv
  BY <1>1, LaterRefl DEF TypeOK, ServerType
<1>2. ASSUME NEW p \in Procs, Serve(p), srv' # srv PROVE Later(srv, srv')
  <2>1. call[p].kind # "log" /\ ExecuteTask(call[p]) /\ call[p] # None
    BY <1>2 DEF Serve, Execute, ExecuteLog
  <2>2. rep[p] = "stateCall"
    BY <2>1 DEF Control, Calls, LogCall
  <2> QED
    BY <2>1, <2>2 DEF ForwardInv, Toward, Later, ExecuteTask
<1>3. ASSUME ServeStray PROVE srv' = srv
  <2>1. PICK c \in stray : Execute(c) /\ c.kind # "task"
    BY <1>3 DEF ServeStray
  <2>2. c \in LogCall
    BY <2>1 DEF TypeOK, ServerType, TaskCall
  <2> QED
    BY <2>1, <2>2 DEF Execute, ExecuteLog, LogCall
<1>4. ASSUME Executor PROVE srv' = srv
  <2>1. PICK e, next : Logs(e, next)
    BY <1>4 DEF Executor, JobLine, MainLine, StepLine, StepEnds, StepError, JobEnds
  <2> QED
    BY <2>1 DEF Logs, srvVars
<1>5. ASSUME \/ JobCode \/ RunFails \/ ExecReturns \/ DaemonTick \/ LoseRows \/ UserCancels \/ Deadline
             \/ Terminated
      PROVE  srv' = srv
  BY <1>5 DEF JobCode, FirstTick, ReceiveTask, ResetSteps, Prepared, SetOutputs, Close, Attempt, GiveUp,
              Return, RunFails, ExecReturns, DaemonTick, LoseRows, UserCancels, Deadline, Terminated, vars, srvVars
<1>6. ASSUME NEW p \in Procs, Reports(p) \/ CallFails(p) PROVE srv' = srv
  BY <1>6 DEF Reports, SendLog, LogAnswered, SendState, StateAnswered, CallRefused, CallFails, srvVars
<1> QED
  BY <1>1, <1>2, <1>3, <1>4, <1>5, <1>6 DEF Next

(* The state stored by the server moves forward, however many goroutines     *)
(* report and whatever fails, except when a call that had been given up is   *)
(* executed late.                                                            *)
THEOREM StateMovesForward == Spec => StateForward
<1>1. Init => StepInv
  BY DEF Init, StepInv, StepLogs, KnownSteps, InOrder, Early, Running
<1>2. Init => ForwardInv
  BY DEF Init, ForwardInv, NoResultYet, Toward, Later, Now
<1>3. TypeOK /\ TypeOK' /\ Control /\ ForwardInv /\ [Next]_vars =>
        [ ~stale' =>
            /\ srv.result # "unspecified" => srv'.result = srv.result
            /\ \A i \in DOMAIN srv.steps : i \in DOMAIN srv'.steps /\ Forward(srv.steps[i], srv'.steps[i])
        ]_vars
  <2>1. ASSUME TypeOK, TypeOK', Control, ForwardInv, Next, ~stale'
        PROVE  /\ srv.result # "unspecified" => srv'.result = srv.result
               /\ \A i \in DOMAIN srv.steps : i \in DOMAIN srv'.steps /\ Forward(srv.steps[i], srv'.steps[i])
    <3>1. srv.steps \in Seq(Step) /\ srv'.steps \in Seq(Step) /\ Later(srv, srv')
      BY <2>1, StoredForward DEF TypeOK, ServerType
    <3> QED
      BY <3>1 DEF Later
  <2> QED
    BY <2>1
<1> QED
  BY <1>1, <1>2, <1>3, StepStep, ForwardStep, TypeCorrect, LogCorrect, PTL DEF Spec, StateForward
=============================================================================
