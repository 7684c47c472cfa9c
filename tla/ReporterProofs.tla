--------------------------- MODULE ReporterProofs ---------------------------
(***************************************************************************)
(* Proofs about the reporter, for every number of steps, outputs, rows,    *)
(* attempts and faults, and for both kinds of server and network.          *)
(***************************************************************************)
EXTENDS Reporter, TLAPS, SequenceTheorems, FiniteSetTheorems

(* Appending the rows of one critical section: their number and their type. *)
LEMMA NewRowsType ==
  ASSUME NEW n \in Nat, NEW s \in Nat, LogType
  PROVE  NewRows(n, s) \in Seq(Row) /\ Len(NewRows(n, s)) = n
<1>1. \A i \in 1..n : [id |-> Len(hist) + i, step |-> s] \in Row
  BY DEF Row, LogType
<1>2. NewRows(n, s) \in [1..n -> Row]
  BY <1>1 DEF NewRows
<1> QED
  BY <1>2 DEF NewRows

(* Adding rows keeps the types of the log. *)
LEMMA AddRowsType ==
  ASSUME NEW n \in Nat, NEW s \in Nat, LogType, AddRows(n, s)
  PROVE  LogType'
BY NewRowsType DEF LogType, AddRows

(* So does a line of the reporter. *)
LEMMA LogfType ==
  ASSUME NEW n \in Nat, LogType, Logf(n)
  PROVE  LogType'
BY AddRowsType DEF Logf, NoStep

(* Giving results to the unfinished steps keeps the type of the steps. *)
LEMMA ResolveType ==
  ASSUME NEW ss \in Seq(Step), NEW res \in Results
  PROVE  Resolve(ss, res) \in Seq(Step)
<1>1. DOMAIN ss = 1 .. Len(ss) /\ Len(ss) \in Nat
  OBVIOUS
<1>2. ASSUME NEW i \in 1 .. Len(ss)
      PROVE  ss[i] \in Step /\ [ss[i] EXCEPT !.result = res] \in Step
  <2>1. ss[i] \in Step
    OBVIOUS
  <2> QED
    BY <2>1 DEF Step
<1>3. Resolve(ss, res) \in [1 .. Len(ss) -> Step]
  BY <1>1, <1>2 DEF Resolve
<1> QED
  BY <1>1, <1>3

(* Fire keeps the types, for every entry of a step that exists. *)
LEMMA FireType ==
  ASSUME LogType, TaskType,
         NEW main \in BOOLEAN, NEW s \in Nat, NEW raw \in BOOLEAN,
         NEW stepRes \in Results, NEW jobRes \in Results,
         Fire(Entry(main, s, raw, stepRes, jobRes))
  PROVE  LogType' /\ TaskType'
<1> DEFINE e == Entry(main, s, raw, stepRes, jobRes)
<1>0. /\ e.main = main /\ e.step = s /\ e.raw = raw
      /\ e.stepResult = stepRes /\ e.jobResult = jobRes
  BY DEF Entry
<1> HIDE DEF e
<1>1. CASE FireOther(e)
  <2>1. LogType'
    BY <1>1, AddRowsType DEF FireOther, NoStep
  <2>2. TaskType'
    BY <1>0, <1>1, ResolveType DEF FireOther, TaskType, Results
  <2> QED
    BY <2>1, <2>2
<1>2. CASE FireMain(e)
  BY <1>2, LogfType DEF FireMain, TaskType, taskVars
<1>3. CASE FireStep(e)
  <2> DEFINE rows == IF e.raw \/ ~DuringSteps(steps) THEN 1 ELSE 0
             grown == IF e.raw THEN [steps EXCEPT ![s] = GrowLog(@)] ELSE steps
  <2>1. /\ s \in DOMAIN steps
        /\ AddRows(rows, IF e.raw THEN s ELSE NoStep)
        /\ steps' = IF stepRes = "unspecified" THEN grown
                    ELSE [grown EXCEPT ![s] = EndStep(@, stepRes, NextIndex + rows)]
        /\ result' = result
    BY <1>0, <1>3 DEF FireStep
  <2>2. LogType'
    BY <2>1, AddRowsType DEF NoStep
  <2>3. rows \in Nat /\ NextIndex \in Nat
    BY DEF NextIndex, LogType
  <2>4. steps[s] \in Step
    BY <2>1 DEF TaskType
  <2>5. GrowLog(steps[s]) \in Step
    <3> DEFINE i == IF steps[s].length = 0 THEN NextIndex ELSE steps[s].index
    <3>1. i \in Nat /\ steps[s].length + 1 \in Nat
      BY <2>3, <2>4 DEF Step
    <3>2. GrowLog(steps[s]) = [steps[s] EXCEPT !.index = i, !.length = steps[s].length + 1]
      BY <2>4 DEF GrowLog, Step
    <3> HIDE DEF i
    <3> QED
      BY <2>4, <3>1, <3>2 DEF Step
  <2>6. grown \in Seq(Step) /\ s \in DOMAIN grown /\ grown[s] \in Step
    <3>1. steps \in Seq(Step) /\ s \in 1 .. Len(steps)
      BY <2>1 DEF TaskType
    <3>2. [steps EXCEPT ![s] = GrowLog(steps[s])] \in Seq(Step)
      BY <2>5, <3>1, ExceptSeq
    <3> QED
      BY <2>4, <2>5, <3>1, <3>2
  <2>7. EndStep(grown[s], stepRes, NextIndex + rows) \in Step
    <3> DEFINE n == NextIndex + rows
               i == IF grown[s].length = 0 THEN n ELSE grown[s].index
    <3>1. n \in Nat
      BY <2>3
    <3> HIDE DEF grown, n
    <3>2. i \in Nat
      BY <2>6, <3>1 DEF Step
    <3>3. EndStep(grown[s], stepRes, n) = [grown[s] EXCEPT !.index = i, !.result = stepRes]
      BY <2>6 DEF EndStep, Step
    <3> HIDE DEF i
    <3>4. EndStep(grown[s], stepRes, n) \in Step
      BY <2>6, <3>2, <3>3 DEF Step
    <3> QED
      BY <3>4 DEF n
  <2> HIDE DEF grown, rows
  <2>8. steps' \in Seq(Step)
    <3>1. [grown EXCEPT ![s] = EndStep(grown[s], stepRes, NextIndex + rows)] \in Seq(Step)
      BY <2>6, <2>7, ExceptSeq
    <3> QED
      BY <2>1, <2>6, <3>1
  <2> QED
    BY <2>1, <2>2, <2>8 DEF TaskType
<1> QED
  BY <1>1, <1>2, <1>3 DEF Fire, e

(* Leaving ReportLog or ReportState keeps the control state in its types. *)
LEMMA LeaveType ==
  ASSUME JobType, DaemonType, CallType,
         NEW p \in Procs, NEW next \in {"state", "idle"},
         NEW err \in {"nil", "rpc", "lost", "notAll", "outputs"},
         Leave(p, next, err)
  PROVE  /\ JobType' /\ daemon' \in {"off", "armed", "tick", "stopped"}
         /\ rep' \in [Procs -> {"idle", "log", "logCall", "state", "stateCall"}]
<1> USE DEF Leave, JobType, DaemonType, CallType
<1>1. rep' \in [Procs -> {"idle", "log", "logCall", "state", "stateCall"}]
  OBVIOUS
<1>2. daemon' \in {"off", "armed", "tick", "stopped"}
  OBVIOUS
<1>3. JobType'
  OBVIOUS
<1> QED
  BY <1>1, <1>2, <1>3

(* What the server does with a call keeps its types. *)
LEMMA ExecuteType ==
  ASSUME ServerType, NEW c \in LogCall \cup TaskCall, Execute(c)
  PROVE  slog' \in Seq(Row) /\ srv' \in [result : Results, steps : Seq(Step)] /\ srvOut' \in SUBSET Keys
<1>1. CASE c.kind = "log"
  <2>1. c \in LogCall /\ ExecuteLog(c)
    BY <1>1 DEF Execute, TaskCall
  <2>2. PICK n \in 0 .. Len(c.rows) :
           /\ n > 0 => c.index <= Len(slog) /\ Len(slog) < c.index + n
           /\ slog' = IF n = 0 THEN slog
                      ELSE slog \o SubSeq(c.rows, Len(slog) - c.index + 1, n)
    BY <2>1 DEF ExecuteLog
  <2>3. c.rows \in Seq(Row) /\ c.index \in Nat /\ slog \in Seq(Row)
    BY <2>1 DEF LogCall, ServerType
  <2>4. slog' \in Seq(Row)
    <3>1. CASE n = 0
      BY <3>1, <2>2, <2>3
    <3>2. CASE n # 0
      <4>1. Len(slog) - c.index + 1 \in 1 .. Len(c.rows) + 1 /\ n \in 0 .. Len(c.rows)
        BY <3>2, <2>2, <2>3
      <4>2. SubSeq(c.rows, Len(slog) - c.index + 1, n) \in Seq(Row)
        BY <2>3, <4>1, SubSeqProperties
      <4> QED
        BY <3>2, <2>2, <2>3, <4>2
    <3> QED
      BY <3>1, <3>2
  <2> QED
    BY <2>1, <2>4 DEF ExecuteLog, ServerType
<1>2. CASE c.kind # "log"
  <2>1. c \in TaskCall /\ ExecuteTask(c)
    BY <1>2 DEF Execute, LogCall
  <2> QED
    BY <2>1 DEF ExecuteTask, TaskCall, ServerType
<1> QED
  BY <1>1, <1>2

-----------------------------------------------------------------------------
(* Where the goroutines are, which calls are in flight and who holds        *)
(* clientM: what makes the types and the other invariants inductive.        *)

Phases ==
    /\ job \in {"start", "tick"} => daemon = "off"
    /\ job \notin {"tick", "report"} => rep["job"] = "idle"
    /\ daemon # "tick" => rep["daemon"] = "idle"
Calls ==
    \A p \in Procs :
        /\ rep[p] = "logCall" =>
              call[p] \in LogCall /\ reply[p] \in LogReply \cup {None} /\ clientM = p
        /\ rep[p] = "stateCall" =>
              call[p] \in TaskCall /\ reply[p] \in TaskReply \cup {None} /\ clientM = p
        /\ rep[p] \notin {"logCall", "stateCall"} => call[p] = None /\ reply[p] = None
Control == Phases /\ Calls

-----------------------------------------------------------------------------
(* Type correctness *)

(* The initial types. *)
LEMMA TypeInit == Init => TypeOK
<1> SUFFICES ASSUME Init PROVE TypeOK
  OBVIOUS
<1> USE StepsAssumption DEF Init
<1>1. LogType /\ TaskType /\ OutputType
  BY DEF LogType, TaskType, OutputType, Results
<1>2. JobType
  <2>1. runErr \in BOOLEAN
    OBVIOUS
  <2>2. cur \in 1 .. NumSteps + 1
    OBVIOUS
  <2> QED
    BY <2>1, <2>2 DEF JobType
<1>3. DaemonType /\ CtxType
  <2>1. closedSeen \in BOOLEAN /\ closed \in BOOLEAN /\ ctxDone \in BOOLEAN
    OBVIOUS
  <2> QED
    BY <2>1 DEF DaemonType, CtxType
<1>4. CallType
  BY DEF CallType
<1>5. ServerType
  <2>1. srv \in [result : Results, steps : Seq(Step)]
    BY DEF Results
  <2>2. srvCancelled \in BOOLEAN
    OBVIOUS
  <2>3. lost \in BOOLEAN
    OBVIOUS
  <2>4. stale \in BOOLEAN
    OBVIOUS
  <2> QED
    BY <2>1, <2>2, <2>3, <2>4 DEF ServerType
<1> QED
  BY <1>1, <1>2, <1>3, <1>4, <1>5 DEF TypeOK

(* The steps of Runner.run. *)
LEMMA TypeRun ==
  ASSUME TypeOK,
         FirstTick \/ ReceiveTask \/ ResetSteps \/ Prepared \/ RunFails \/ ExecReturns \/ SetOutputs
  PROVE  TypeOK'
<1> USE DEF TypeOK, logVars, taskVars, jobVars, daemonVars, callVars, srvVars, ctxVars
<1>1. CASE FirstTick
  BY <1>1 DEF FirstTick, LogType, TaskType, OutputType, JobType, DaemonType, CallType, ServerType, CtxType
<1>2. CASE ReceiveTask \/ Prepared
  <2>1. LogType'
    BY <1>2, LogfType DEF ReceiveTask, Prepared
  <2> QED
    BY <1>2, <2>1 DEF ReceiveTask, Prepared, TaskType, OutputType, JobType, DaemonType, CallType, ServerType, CtxType
<1>3. CASE ResetSteps
  <2> DEFINE fresh == [i \in 1..NumSteps |-> [result |-> "unspecified", index |-> 0, length |-> 0]]
  <2>1. fresh \in Seq(Step)
    BY StepsAssumption DEF Step, Results
  <2>2. steps \o fresh \in Seq(Step)
    BY <2>1, ConcatProperties DEF TaskType
  <2>3. TaskType'
    BY <1>3, <2>2 DEF ResetSteps, TaskType
  <2> QED
    BY <1>3, <2>3 DEF ResetSteps, LogType, OutputType, JobType, DaemonType, CallType, ServerType, CtxType
<1>4. CASE RunFails \/ ExecReturns
  <2>1. runErr' \in BOOLEAN /\ job' \in {"closing", "outputs"}
    BY <1>4 DEF RunFails, ExecReturns
  <2>2. JobType'
    BY <1>4, <2>1 DEF RunFails, ExecReturns, JobType
  <2> QED
    BY <1>4, <2>2 DEF RunFails, ExecReturns, LogType, TaskType, OutputType, DaemonType, CallType, ServerType, CtxType
<1>5. CASE SetOutputs
  <2>1. PICK out \in SUBSET Keys : /\ outputs' = StoredOutputs(out)
                                   /\ Logf(Cardinality(out \cap (LongKeys \cup LongValues)))
    BY <1>5 DEF SetOutputs
  <2>2. Cardinality(out \cap (LongKeys \cup LongValues)) \in Nat
    BY <2>1, KeysAssumption, KeysFinite, FS_Subset, FS_CardinalityType
  <2>3. LogType'
    BY <2>1, <2>2, LogfType
  <2>4. OutputType'
    BY <2>1 DEF StoredOutputs, OutputType
  <2> QED
    BY <1>5, <2>3, <2>4 DEF SetOutputs, TaskType, JobType, DaemonType, CallType, ServerType, CtxType
<1> QED
  BY <1>1, <1>2, <1>3, <1>4, <1>5

(* What the executor logs. *)
LEMMA TypeExecutor == ASSUME TypeOK, Executor PROVE TypeOK'
<1> USE DEF TypeOK, logVars, taskVars, jobVars, daemonVars, callVars, srvVars, ctxVars
<1>1. ASSUME NEW main \in BOOLEAN, NEW s \in Nat, NEW raw \in BOOLEAN,
             NEW stepRes \in Results, NEW jobRes \in Results, NEW next,
             Logs(Entry(main, s, raw, stepRes, jobRes), next)
      PROVE  /\ LogType' /\ TaskType' /\ OutputType' /\ DaemonType' /\ CallType' /\ ServerType' /\ CtxType'
             /\ job' = next /\ UNCHANGED <<runErr, attempt, closeErr>>
  BY <1>1, FireType DEF Logs, OutputType, DaemonType, CallType, ServerType, CtxType
<1>2. cur \in Nat /\ NoStep \in Nat /\ "unspecified" \in Results
  BY StepsAssumption DEF JobType, NoStep, Results
<1>3. CASE JobLine \/ MainLine
  BY <1>1, <1>2, <1>3 DEF JobLine, MainLine, JobType
<1>4. CASE StepError
  <2>1. cur' \in 1 .. NumSteps + 1
    BY <1>4, StepsAssumption DEF StepError, JobType
  <2> QED
    BY <1>1, <1>2, <1>4, <2>1 DEF StepError, JobType
<1>5. ASSUME NEW raw \in BOOLEAN, StepLine(raw) PROVE TypeOK'
  BY <1>1, <1>2, <1>5 DEF StepLine, JobType
<1>6. ASSUME NEW res \in StepResults, StepEnds(res) PROVE TypeOK'
  <2>1. cur' \in 1 .. NumSteps + 1
    BY <1>6, StepsAssumption DEF StepEnds, JobType
  <2>2. res \in Results
    BY ResultsAssumption
  <2>3. CASE res = "failure"
    <3>1. Logs(Entry(TRUE, cur, TRUE, res, "unspecified"), "stepErr")
      BY <1>6, <2>3 DEF StepEnds
    <3> QED
      BY <1>1, <1>2, <2>1, <2>2, <3>1 DEF JobType
  <2>4. CASE res # "failure"
    <3>1. Logs(Entry(TRUE, cur, FALSE, res, "unspecified"), job)
      BY <1>6, <2>4 DEF StepEnds
    <3> QED
      BY <1>1, <1>2, <2>1, <2>2, <3>1 DEF JobType
  <2> QED
    BY <2>3, <2>4
<1>7. ASSUME NEW res \in JobResults, JobEnds(res) PROVE TypeOK'
  BY <1>1, <1>2, <1>7, ResultsAssumption DEF JobEnds, JobType
<1> QED
  BY <1>3, <1>4, <1>5, <1>6, <1>7 DEF Executor

(* The daemon's timer, Close, and the end of Run. *)
LEMMA TypeClose ==
  ASSUME TypeOK, DaemonTick \/ Close \/ Attempt \/ GiveUp \/ Return
  PROVE  TypeOK'
<1> USE DEF TypeOK, logVars, taskVars, jobVars, daemonVars, callVars, srvVars, ctxVars
<1>1. CASE DaemonTick
  BY <1>1 DEF DaemonTick, LogType, TaskType, OutputType, JobType, DaemonType, CallType, ServerType, CtxType
<1>2. CASE Close
  <2>1. LogType'
    BY <1>2, AddRowsType DEF Close, NoStep
  <2>2. TaskType'
    BY <1>2, ResolveType DEF Close, TaskType, Results
  <2>3. closed' = TRUE
    BY <1>2 DEF Close
  <2>4. CtxType'
    BY <1>2, <2>3 DEF Close, CtxType
  <2> QED
    BY <1>2, <2>1, <2>2, <2>4 DEF Close, OutputType, JobType, DaemonType, CallType, ServerType
<1>3. CASE Attempt \/ GiveUp
  <2>1. LogType' /\ TaskType' /\ OutputType' /\ DaemonType' /\ ServerType' /\ CtxType'
    BY <1>3 DEF Attempt, GiveUp, LogType, TaskType, OutputType, DaemonType, ServerType, CtxType
  <2>2. JobType' /\ CallType'
    BY <1>3 DEF Attempt, GiveUp, JobType, CallType
  <2> QED
    BY <2>1, <2>2
<1>4. CASE Return
  <2>1. ctxDone' = TRUE
    BY <1>4 DEF Return
  <2>2. CtxType'
    BY <1>4, <2>1 DEF Return, CtxType
  <2> QED
    BY <1>4, <2>2 DEF Return, LogType, TaskType, OutputType, JobType, DaemonType, CallType, ServerType
<1> QED
  BY <1>1, <1>2, <1>3, <1>4

(* The acknowledged rows are a beginning of the ones the reporter holds, so  *)
(* what is left is a sequence of rows.                                       *)
LEMMA UnackedType ==
  ASSUME LogType, NEW ack \in Nat, logOffset <= ack
  PROVE  Unacked(ack) \in Seq(Row)
<1>1. \A i \in ack - logOffset + 1 .. Len(logRows) : logRows[i] \in Row
  BY DEF LogType
<1> QED
  BY <1>1, SubSeqProperties DEF Unacked, LogType

(* The end of a call: its types, whatever the answer was. *)
LEMMA TypeUnlock ==
  ASSUME CallType, NEW p \in Procs, Unlock(p),
         rep' \in [Procs -> {"idle", "log", "logCall", "state", "stateCall"}]
  PROVE  CallType'
BY DEF CallType, Unlock

(* The remote calls of ReportLog and ReportState. *)
LEMMA TypeReports ==
  ASSUME TypeOK, Control, NEW p \in Procs, Reports(p) \/ CallFails(p)
  PROVE  TypeOK'
<1> USE DEF TypeOK, logVars, taskVars, jobVars, daemonVars, callVars, srvVars, ctxVars
<1>1. CASE SendLog(p)
  <2>1. [kind |-> "log", index |-> logOffset, rows |-> logRows] \in LogCall
    BY DEF LogType, LogCall
  <2>2. CallType'
    BY <1>1, <2>1 DEF SendLog, CallType
  <2> QED
    BY <1>1, <2>2 DEF SendLog, LogType, TaskType, OutputType, JobType, DaemonType, ServerType, CtxType
<1>2. CASE SendState(p)
  <2>1. [kind |-> "task", result |-> result, steps |-> steps, outputs |-> Held] \in TaskCall
    BY DEF TaskType, TaskCall, Held
  <2>2. CallType'
    BY <1>2, <2>1 DEF SendState, CallType
  <2>3. closedSeen' \in BOOLEAN
    BY <1>2 DEF SendState, DaemonType, CtxType
  <2> QED
    BY <1>2, <2>2, <2>3 DEF SendState, LogType, TaskType, OutputType, JobType, DaemonType, ServerType, CtxType
<1>3. CASE LogAnswered(p)
  <2>1. reply[p].ack \in Nat
    BY <1>3 DEF LogAnswered, Control, Calls, LogReply
  <2>2. LogType'
    BY <1>3, <2>1, UnackedType DEF LogAnswered, TakeAck, LogType
  <2>3. PICK err \in {"nil", "lost", "notAll"} : Leave(p, "state", err)
    BY <1>3 DEF LogAnswered
  <2>4. JobType' /\ DaemonType' /\ CallType'
    BY <1>3, <2>3, LeaveType, TypeUnlock DEF LogAnswered, DaemonType
  <2> QED
    BY <1>3, <2>2, <2>4 DEF LogAnswered, TaskType, OutputType, ServerType, CtxType
<1>4. CASE StateAnswered(p)
  <2>1. OutputType'
    BY <1>4 DEF StateAnswered, MarkSent, OutputType
  <2>2. PICK err \in {"nil", "outputs"} : Leave(p, "idle", err)
    BY <1>4 DEF StateAnswered
  <2>3. JobType' /\ DaemonType' /\ CallType'
    BY <1>4, <2>2, LeaveType, TypeUnlock DEF StateAnswered, DaemonType
  <2>4. ctxDone' \in BOOLEAN
    BY <1>4 DEF StateAnswered
  <2> QED
    BY <1>4, <2>1, <2>3, <2>4 DEF StateAnswered, LogType, TaskType, ServerType, CtxType
<1>5. CASE CallRefused(p)
  <2>1. PICK next \in {"state", "idle"} : Leave(p, next, "rpc")
    BY <1>5 DEF CallRefused
  <2>2. JobType' /\ DaemonType' /\ CallType'
    BY <1>5, <2>1, LeaveType DEF CallRefused, DaemonType, CallType
  <2> QED
    BY <1>5, <2>2 DEF CallRefused, LogType, TaskType, OutputType, ServerType, CtxType
<1>6. CASE CallFails(p)
  <2>1. PICK next \in {"state", "idle"} : Leave(p, next, "rpc")
    BY <1>6 DEF CallFails
  <2>2. JobType' /\ DaemonType' /\ CallType'
    BY <1>6, <2>1, LeaveType, TypeUnlock DEF CallFails, DaemonType
  <2>3. faults' \in Nat
    BY <1>6 DEF CallFails, Spend, ServerType
  <2>4. stray' \in SUBSET (LogCall \cup TaskCall)
    BY <1>6 DEF CallFails, ServerType, Control, Calls
  <2> QED
    BY <1>6, <2>2, <2>3, <2>4 DEF CallFails, LogType, TaskType, OutputType, ServerType, CtxType
<1> QED
  BY <1>1, <1>2, <1>3, <1>4, <1>5, <1>6 DEF Reports

(* The server and the deadline. *)
LEMMA TypeServer ==
  ASSUME TypeOK, Control,
         (\E p \in Procs : Serve(p)) \/ ServeStray \/ LoseRows \/ UserCancels \/ Deadline
  PROVE  TypeOK'
<1> USE DEF TypeOK, logVars, taskVars, jobVars, daemonVars, callVars, srvVars, ctxVars
<1>1. ASSUME NEW p \in Procs, Serve(p) PROVE TypeOK'
  <2>1. call[p] \in LogCall \cup TaskCall
    BY <1>1 DEF Serve, CallType
  <2>2. slog' \in Seq(Row) /\ srv' \in [result : Results, steps : Seq(Step)] /\ srvOut' \in SUBSET Keys
    BY <1>1, <2>1, ExecuteType DEF Serve
  <2>3. reply' \in [Procs -> LogReply \cup TaskReply \cup {None}]
    BY <1>1, <2>2 DEF Serve, CallType, LogReply, TaskReply, Results
  <2> QED
    BY <1>1, <2>2, <2>3 DEF Serve, LogType, TaskType, OutputType, JobType, DaemonType, CallType, ServerType, CtxType
<1>2. CASE ServeStray
  <2>1. PICK c \in stray : Execute(c) /\ stray' = stray \ {c}
    BY <1>2 DEF ServeStray
  <2>2. slog' \in Seq(Row) /\ srv' \in [result : Results, steps : Seq(Step)] /\ srvOut' \in SUBSET Keys
    BY <2>1, ExecuteType DEF ServerType
  <2> QED
    BY <1>2, <2>1, <2>2 DEF ServeStray, LogType, TaskType, OutputType, JobType, DaemonType, CallType, ServerType, CtxType
<1>3. CASE LoseRows
  <2>1. PICK n \in 0 .. Len(slog) - 1 : slog' = SubSeq(slog, 1, n)
    BY <1>3 DEF LoseRows
  <2>2. slog' \in Seq(Row)
    BY <2>1, SubSeqProperties DEF ServerType
  <2> QED
    BY <1>3, <2>2 DEF LoseRows, Spend, LogType, TaskType, OutputType, JobType, DaemonType, CallType, ServerType, CtxType
<1>4. CASE UserCancels
  <2>1. srvCancelled' \in BOOLEAN
    BY <1>4 DEF UserCancels
  <2> QED
    BY <1>4, <2>1 DEF UserCancels, LogType, TaskType, OutputType, JobType, DaemonType, CallType, ServerType, CtxType
<1>5. CASE Deadline
  <2>1. ctxDone' \in BOOLEAN
    BY <1>5 DEF Deadline
  <2> QED
    BY <1>5, <2>1 DEF Deadline, LogType, TaskType, OutputType, JobType, DaemonType, CallType, ServerType, CtxType
<1> QED
  BY <1>1, <1>2, <1>3, <1>4, <1>5

-----------------------------------------------------------------------------
(* Control is an invariant *)

(* Leaving ReportLog or ReportState keeps every goroutine in its phase. *)
LEMMA LeaveControl ==
  ASSUME TypeOK, Control, NEW p \in Procs, NEW next \in {"state", "idle"}, NEW err,
         rep[p] # "idle", Leave(p, next, err),
         call' = [call EXCEPT ![p] = None], reply' = [reply EXCEPT ![p] = None],
         \A q \in Procs : rep[q] \in {"logCall", "stateCall"} /\ q # p => clientM' = clientM
  PROVE  Control'
<1> USE DEF TypeOK, Control
<1>1. PICK r \in {"state", "idle"} : rep' = [rep EXCEPT ![p] = r]
  BY DEF Leave
<1>2. Calls'
  BY <1>1 DEF Calls, CallType, Procs
<1>3. CASE p = "daemon"
  <2>1. job' = job /\ daemon \notin {"off", "armed", "stopped"} /\ daemon' \in {"armed", daemon}
    BY <1>3 DEF Leave, Closing, Phases, DaemonType
  <2>2. daemon' = daemon \/ rep'["daemon"] = "idle"
    BY <1>3 DEF Leave, CallType, Procs
  <2> QED
    BY <1>1, <1>2, <1>3, <2>1, <2>2 DEF Phases, CallType, Procs
<1>4. CASE p = "job"
  <2>1. job \in {"tick", "report"} /\ rep'["daemon"] = rep["daemon"]
    BY <1>1, <1>4 DEF Phases, CallType, Procs
  <2>2. CASE job' = job /\ daemon' = daemon
    BY <1>2, <2>1, <2>2 DEF Phases
  <2>3. CASE rep'["job"] = "idle" /\ job = "tick" /\ job' = "received" /\ daemon' = "armed"
    BY <1>2, <2>1, <2>3 DEF Phases
  <2>4. CASE rep'["job"] = "idle" /\ job = "report" /\ job' \in {"returned", "retry"} /\ daemon' = daemon
    BY <1>2, <2>1, <2>4 DEF Phases
  <2> QED
    BY <1>4, <2>1, <2>2, <2>3, <2>4 DEF Leave, Closing, CallType, Procs
<1> QED
  BY <1>3, <1>4 DEF Procs

(* Every step keeps Control. *)
LEMMA ControlStep == TypeOK /\ Control /\ [Next]_vars => Control'
<1> SUFFICES ASSUME TypeOK, Control, [Next]_vars PROVE Control'
  OBVIOUS
<1> USE DEF TypeOK, Control, logVars, taskVars, jobVars, daemonVars, callVars, srvVars, ctxVars
<1>1. CASE FirstTick
  BY <1>1 DEF FirstTick, Phases, Calls, CallType, Procs
<1>2. CASE ReceiveTask \/ ResetSteps \/ Prepared \/ RunFails \/ ExecReturns \/ SetOutputs
           \/ Close \/ GiveUp \/ Return
  BY <1>2 DEF ReceiveTask, ResetSteps, Prepared, RunFails, ExecReturns, SetOutputs,
              Close, GiveUp, Return, Phases, Calls
<1>3. CASE Executor
  BY <1>3 DEF Executor, JobLine, MainLine, StepLine, StepEnds, StepError, JobEnds, Logs, Phases, Calls
<1>4. CASE DaemonTick
  BY <1>4 DEF DaemonTick, Phases, Calls, CallType, Procs
<1>5. CASE Attempt
  BY <1>5 DEF Attempt, Phases, Calls, CallType, Procs
<1>6. ASSUME NEW p \in Procs, Reports(p) \/ CallFails(p) PROVE Control'
  <2>0. TypeOK'
    BY <1>6, TypeReports
  <2>1. CASE SendLog(p)
    BY <2>0, <2>1 DEF SendLog, CanLock, Phases, Calls, CallType, LogCall, TaskCall, None, Procs, LogType
  <2>2. CASE SendState(p)
    BY <2>0, <2>2 DEF SendState, CanLock, Phases, Calls, CallType, LogCall, TaskCall, None, Procs, TaskType
  <2>3. ASSUME NEW q \in Procs, q # p, rep[q] \in {"logCall", "stateCall"},
               rep[p] \in {"logCall", "stateCall"}
        PROVE  FALSE
    BY <2>3 DEF Calls
  <2>4. CASE LogAnswered(p)
    BY <2>3, <2>4, LeaveControl DEF LogAnswered, Unlock
  <2>5. CASE StateAnswered(p)
    BY <2>3, <2>5, LeaveControl DEF StateAnswered, Unlock
  <2>6. CASE CallFails(p)
    BY <2>3, <2>6, LeaveControl DEF CallFails, Unlock
  <2>7. CASE CallRefused(p)
    <3>1. call' = [call EXCEPT ![p] = None] /\ reply' = [reply EXCEPT ![p] = None]
      BY <2>7 DEF CallRefused, Calls, CallType
    <3> QED
      BY <2>7, <3>1, LeaveControl DEF CallRefused
  <2> QED
    BY <1>6, <2>1, <2>2, <2>4, <2>5, <2>6, <2>7 DEF Reports
<1>7. ASSUME NEW p \in Procs, Serve(p) PROVE Control'
  <2>0. TypeOK'
    BY <1>7, TypeServer
  <2>1. Phases'
    BY <1>7 DEF Serve, Phases
  <2>2. call[p].kind = "log" => reply'[p] \in LogReply
    BY <1>7, <2>0 DEF Serve, LogReply, ServerType, CallType
  <2>3. call[p].kind # "log" => reply'[p] \in TaskReply
    BY <1>7, <2>0 DEF Serve, TaskReply, ServerType, CallType, Results
  <2> QED
    BY <1>7, <2>1, <2>2, <2>3 DEF Serve, Calls, CallType, LogCall, TaskCall
<1>8. CASE ServeStray \/ LoseRows \/ UserCancels \/ Deadline
  BY <1>8 DEF ServeStray, LoseRows, UserCancels, Deadline, Phases, Calls
<1>9. CASE UNCHANGED vars
  BY <1>9 DEF vars, Phases, Calls
<1> QED
  BY <1>1, <1>2, <1>3, <1>4, <1>5, <1>6, <1>7, <1>8, <1>9 DEF Next, JobCode, Terminated

(* Every step keeps the types, given where the goroutines can be. *)
LEMMA TypeStep == TypeOK /\ Control /\ [Next]_vars => TypeOK'
<1> SUFFICES ASSUME TypeOK, Control, [Next]_vars PROVE TypeOK'
  OBVIOUS
<1>1. CASE UNCHANGED vars
  BY <1>1 DEF vars, TypeOK, LogType, TaskType, OutputType, JobType, DaemonType, CallType, ServerType, CtxType,
              logVars, taskVars, jobVars, daemonVars, callVars, srvVars, ctxVars
<1> QED
  BY <1>1, TypeRun, TypeExecutor, TypeClose, TypeReports, TypeServer DEF Next, JobCode, Terminated

(* The variables keep their types, and the goroutines their phases. *)
THEOREM TypeCorrect == Spec => [](TypeOK /\ Control)
<1>1. Init => TypeOK /\ Control
  BY TypeInit DEF Init, Control, Phases, Calls, Procs
<1> QED
  BY <1>1, TypeStep, ControlStep, PTL DEF Spec

-----------------------------------------------------------------------------
(* The log.  A call in flight, or one that may still arrive, carries rows   *)
(* of the history at the position it names; an answer counts rows of the    *)
(* history; a server that loses nothing is never behind the offset.         *)

(* new begins with old. *)
Extends(new, old) ==
    /\ Len(old) <= Len(new)
    /\ \A i \in 1 .. Len(old) : new[i] = old[i]

(* rows are the elements of h that follow its first o. *)
Part(rows, h, o) ==
    /\ o + Len(rows) <= Len(h)
    /\ \A i \in 1 .. Len(rows) : rows[i] = h[o + i]

RowsOf(c) == Part(c.rows, hist, c.index)
Requests ==
    /\ \A p \in Procs : call[p].kind = "log" => RowsOf(call[p])
    /\ \A c \in stray : c.kind = "log" => RowsOf(c)
Acks == \A p \in Procs : reply[p].kind = "log" => reply[p].ack <= Len(hist)
Kept ==
    /\ logOffset <= Len(slog)
    /\ \A p \in Procs : reply[p].kind = "log" => logOffset <= reply[p].ack /\ reply[p].ack <= Len(slog)

(* The length and the elements of a concatenation. *)
LEMMA ConcatPointwise ==
  ASSUME NEW S, NEW a \in Seq(S), NEW b \in Seq(S)
  PROVE  /\ Len(a \o b) = Len(a) + Len(b)
         /\ \A i \in 1 .. Len(a) : (a \o b)[i] = a[i]
         /\ \A i \in 1 .. Len(b) : (a \o b)[Len(a) + i] = b[i]
<1>1. Len(a) \in Nat /\ Len(b) \in Nat
  OBVIOUS
<1>2. Len(a \o b) = Len(a) + Len(b)
  BY ConcatProperties
<1>3. ASSUME NEW i \in 1 .. Len(a) PROVE (a \o b)[i] = a[i]
  BY <1>1, ConcatProperties
<1>4. ASSUME NEW i \in 1 .. Len(b) PROVE (a \o b)[Len(a) + i] = b[i]
  BY <1>1, ConcatProperties
<1> QED
  BY <1>2, <1>3, <1>4

(* r is what follows the first o elements of h; it still is when both are    *)
(* extended by b.                                                            *)
Suffix(r, h, o) ==
    /\ Len(h) = o + Len(r)
    /\ \A i \in 1 .. Len(r) : r[i] = h[o + i]

(* A suffix stays one when both sequences are extended alike. *)
LEMMA SuffixExtends ==
  ASSUME NEW S, NEW h \in Seq(S), NEW r \in Seq(S), NEW b \in Seq(S), NEW o \in Nat,
         Suffix(r, h, o)
  PROVE  Suffix(r \o b, h \o b, o)
<1>1. Len(h) \in Nat /\ Len(r) \in Nat /\ Len(b) \in Nat /\ Len(h) = o + Len(r)
  BY DEF Suffix
<1>2. Len(h \o b) = Len(h) + Len(b) /\ Len(r \o b) = Len(r) + Len(b)
  BY ConcatPointwise
<1>3. ASSUME NEW i \in 1 .. Len(r \o b) PROVE (r \o b)[i] = (h \o b)[o + i]
  <2>1. CASE i <= Len(r)
    <3>1. i \in 1 .. Len(r) /\ o + i \in 1 .. Len(h)
      BY <1>1, <2>1
    <3> QED
      BY <3>1, ConcatPointwise DEF Suffix
  <2>2. CASE i > Len(r)
    <3>1. PICK j \in 1 .. Len(b) : i = Len(r) + j /\ o + i = Len(h) + j
      <4>1. i - Len(r) \in 1 .. Len(b) /\ i = Len(r) + (i - Len(r)) /\ o + i = Len(h) + (i - Len(r))
        BY <1>1, <1>2, <2>2
      <4> QED
        BY <4>1
    <3> QED
      BY <3>1, ConcatPointwise
  <2> QED
    BY <1>1, <1>2, <2>1, <2>2
<1>4. Len(h \o b) = o + Len(r \o b)
  BY <1>1, <1>2
<1> QED
  BY <1>3, <1>4 DEF Suffix

Unsent == Suffix(logRows, hist, logOffset)
LogInv == Unsent /\ Extends(hist, slog) /\ Requests /\ Acks /\ (~lost => Kept)

(* Extending twice is extending. *)
LEMMA ExtendsTrans ==
  ASSUME NEW S, NEW a \in Seq(S), NEW b \in Seq(S), NEW c \in Seq(S),
         Extends(b, a), Extends(c, b)
  PROVE  Extends(c, a)
BY DEF Extends

(* A part of a sequence is one of every extension. *)
LEMMA PartExtends ==
  ASSUME NEW S, NEW r \in Seq(S), NEW h \in Seq(S), NEW g \in Seq(S), NEW o \in Nat,
         Part(r, h, o), Extends(g, h)
  PROVE  Part(r, g, o)
<1>1. Len(r) \in Nat /\ Len(h) \in Nat /\ Len(g) \in Nat
  OBVIOUS
<1>2. \A i \in 1 .. Len(r) : o + i \in 1 .. Len(h)
  BY <1>1 DEF Part
<1> QED
  BY <1>1, <1>2 DEF Part, Extends

(* Dropping the acknowledged rows from the suffix. *)
LEMMA SuffixAdvances ==
  ASSUME NEW S, NEW r \in Seq(S), NEW h \in Seq(S), NEW o \in Nat, NEW a \in Nat,
         Suffix(r, h, o), o <= a, a <= Len(h)
  PROVE  Suffix(SubSeq(r, a - o + 1, Len(r)), h, a)
<1> DEFINE t == SubSeq(r, a - o + 1, Len(r))
<1>1. Len(r) \in Nat /\ Len(h) = o + Len(r) /\ a - o \in 0 .. Len(r)
  BY DEF Suffix
<1>2. \A i \in a - o + 1 .. Len(r) : r[i] \in S
  BY <1>1
<1>3. /\ Len(t) = IF a - o + 1 <= Len(r) THEN Len(r) - (a - o + 1) + 1 ELSE 0
      /\ \A i \in 1 .. Len(r) - (a - o + 1) + 1 : t[i] = r[a - o + 1 + i - 1]
  BY <1>1, <1>2, SubSeqProperties
<1> HIDE DEF t
<1>4. Len(t) = Len(r) - (a - o)
  <2>1. Len(t) = IF a - o + 1 <= Len(r) THEN Len(r) - (a - o + 1) + 1 ELSE 0
    BY <1>3
  <2>2. a - o \in Nat /\ a - o <= Len(r)
    BY <1>1
  <2> QED
    BY <1>1, <2>1, <2>2
<1>5. ASSUME NEW i \in 1 .. Len(t) PROVE t[i] = h[a + i]
  <2>1. t[i] = r[(a - o) + i]
    BY <1>1, <1>3, <1>4
  <2>2. (a - o) + i \in 1 .. Len(r) /\ o + ((a - o) + i) = a + i
    BY <1>1, <1>4
  <2> QED
    BY <2>1, <2>2 DEF Suffix
<1>6. Len(h) = a + Len(t)
  BY <1>1, <1>4
<1> QED
  BY <1>5, <1>6 DEF Suffix, t

(* The server appends the rows it does not have: no gap, no repetition. *)
LEMMA StoreExtends ==
  ASSUME NEW S, NEW s \in Seq(S), NEW h \in Seq(S), NEW r \in Seq(S), NEW o \in Nat,
         NEW n \in 0 .. Len(r),
         Extends(h, s), Part(r, h, o), o <= Len(s), Len(s) < o + n
  PROVE  LET t == s \o SubSeq(r, Len(s) - o + 1, n)
         IN  Extends(h, t) /\ Extends(t, s)
<1> DEFINE d == Len(s) - o
           q == SubSeq(r, d + 1, n)
           t == s \o q
<1>1. Len(r) \in Nat /\ Len(s) \in Nat /\ Len(h) \in Nat /\ d \in 0 .. n - 1 /\ n <= Len(r)
  OBVIOUS
<1>2. \A i \in d + 1 .. n : r[i] \in S
  BY <1>1
<1>3. /\ q \in Seq(S)
      /\ Len(q) = n - d
      /\ \A i \in 1 .. n - d : q[i] = r[d + i]
  BY <1>1, <1>2, SubSeqProperties
<1> HIDE DEF q
<1>4. /\ Len(t) = Len(s) + (n - d)
      /\ \A i \in 1 .. Len(s) : t[i] = s[i]
      /\ \A i \in 1 .. n - d : t[Len(s) + i] = q[i]
  BY <1>3, ConcatPointwise
<1> HIDE DEF t
<1>5. Extends(t, s)
  BY <1>1, <1>4 DEF Extends
<1>6. Len(t) <= Len(h)
  BY <1>1, <1>4 DEF Part
<1>7. ASSUME NEW i \in 1 .. Len(t) PROVE h[i] = t[i]
  <2>1. CASE i <= Len(s)
    BY <1>1, <1>4, <2>1 DEF Extends
  <2>2. CASE i > Len(s)
    <3>1. PICK j \in 1 .. n - d : i = Len(s) + j
      <4>1. i - Len(s) \in 1 .. n - d /\ i = Len(s) + (i - Len(s))
        BY <1>1, <1>4, <2>2
      <4> QED
        BY <4>1
    <3>2. d + j \in 1 .. Len(r) /\ o + (d + j) = i
      BY <1>1, <3>1
    <3>3. t[i] = r[d + j]
      BY <1>3, <1>4, <3>1
    <3> QED
      BY <3>2, <3>3 DEF Part
  <2> QED
    BY <1>1, <1>4, <2>1, <2>2
<1>8. Extends(h, t)
  BY <1>6, <1>7 DEF Extends
<1> QED
  BY <1>5, <1>8 DEF t, q

(* Adding rows extends the history and keeps the rows its suffix. *)
LEMMA AddRowsExtends ==
  ASSUME LogType, NEW n \in Nat, NEW s \in Nat, AddRows(n, s)
  PROVE  Extends(hist', hist) /\ (Unsent => Unsent')
<1>1. NewRows(n, s) \in Seq(Row) /\ Len(NewRows(n, s)) = n
  BY NewRowsType
<1>2. /\ hist' = hist \o NewRows(n, s) /\ logRows' = logRows \o NewRows(n, s) /\ logOffset' = logOffset
      /\ hist \in Seq(Row) /\ logRows \in Seq(Row) /\ logOffset \in Nat
  BY DEF AddRows, LogType
<1>3. Len(hist') = Len(hist) + Len(NewRows(n, s)) /\ \A i \in 1 .. Len(hist) : hist'[i] = hist[i]
  BY <1>1, <1>2, ConcatPointwise
<1>4. Extends(hist', hist)
  <2>1. Len(hist) \in Nat /\ Len(hist') = Len(hist) + n
    BY <1>1, <1>2, <1>3
  <2> QED
    BY <1>3, <2>1 DEF Extends
<1>5. Unsent => Unsent'
  BY <1>1, <1>2, SuffixExtends DEF Unsent
<1> QED
  BY <1>4, <1>5

(* The steps of the job that may write rows do nothing else to the log. *)
Writes == ReceiveTask \/ Prepared \/ Executor \/ SetOutputs \/ Close

(* Those steps add rows (perhaps none) and leave calls and server alone. *)
LEMMA WritesAddRows ==
  ASSUME TypeOK, Writes
  PROVE  /\ \E n, s \in Nat : AddRows(n, s)
         /\ UNCHANGED <<callVars, srvVars>>
<1> USE DEF TypeOK, NoStep, logVars, taskVars, jobVars, daemonVars, callVars, srvVars, ctxVars
<1>1. ASSUME NEW n \in Nat, Logf(n) PROVE \E m, s \in Nat : AddRows(m, s)
  BY <1>1 DEF Logf
<1>2. CASE ReceiveTask \/ Prepared
  BY <1>1, <1>2 DEF ReceiveTask, Prepared
<1>3. ASSUME NEW e, e.step \in Nat, Fire(e) PROVE \E m, s \in Nat : AddRows(m, s)
  <2>1. CASE FireOther(e)
    <3>1. AddRows(IF DuringSteps(steps') THEN 0 ELSE 1, 0)
      BY <2>1 DEF FireOther
    <3>2. (IF DuringSteps(steps') THEN 0 ELSE 1) \in Nat
      OBVIOUS
    <3> QED
      BY <3>1, <3>2
  <2>2. CASE FireMain(e)
    BY <1>1, <2>2 DEF FireMain
  <2>3. CASE FireStep(e)
    <3>1. AddRows(IF e.raw \/ ~DuringSteps(steps) THEN 1 ELSE 0, IF e.raw THEN e.step ELSE 0)
      BY <2>3 DEF FireStep
    <3>2. /\ (IF e.raw \/ ~DuringSteps(steps) THEN 1 ELSE 0) \in Nat
          /\ (IF e.raw THEN e.step ELSE 0) \in Nat
      BY <1>3
    <3> QED
      BY <3>1, <3>2
  <2> QED
    BY <1>3, <2>1, <2>2, <2>3 DEF Fire
<1>4. CASE Executor
  <2>1. \A main, raw, sr, jr : /\ Entry(main, cur, raw, sr, jr).step \in Nat
                               /\ Entry(main, 0, raw, sr, jr).step \in Nat
    BY StepsAssumption DEF JobType, Entry
  <2>2. PICK e, next : e.step \in Nat /\ Logs(e, next)
    <3>1. CASE JobLine \/ MainLine \/ StepError
      BY <2>1, <3>1 DEF JobLine, MainLine, StepError
    <3>2. ASSUME NEW raw \in BOOLEAN, StepLine(raw) PROVE \E e, next : e.step \in Nat /\ Logs(e, next)
      BY <2>1, <3>2 DEF StepLine
    <3>3. ASSUME NEW res \in StepResults, StepEnds(res) PROVE \E e, next : e.step \in Nat /\ Logs(e, next)
      <4> DEFINE e == Entry(TRUE, cur, res = "failure", res, "unspecified")
      <4>1. Logs(e, IF res = "failure" THEN "stepErr" ELSE job)
        BY <3>3 DEF StepEnds
      <4>2. e.step \in Nat
        BY StepsAssumption DEF JobType, Entry
      <4> HIDE DEF e
      <4> QED
        BY <4>1, <4>2
    <3>4. ASSUME NEW res \in JobResults, JobEnds(res) PROVE \E e, next : e.step \in Nat /\ Logs(e, next)
      BY <2>1, <3>4 DEF JobEnds
    <3> QED
      BY <1>4, <3>1, <3>2, <3>3, <3>4 DEF Executor
  <2>3. \E m, s \in Nat : AddRows(m, s)
    BY <1>3, <2>2 DEF Logs
  <2> QED
    BY <1>4, <2>3 DEF Executor, JobLine, MainLine, StepLine, StepEnds, StepError, JobEnds, Logs
<1>5. CASE SetOutputs
  <2>1. PICK out \in SUBSET Keys : Logf(Cardinality(out \cap (LongKeys \cup LongValues)))
    BY <1>5 DEF SetOutputs
  <2>2. Cardinality(out \cap (LongKeys \cup LongValues)) \in Nat
    BY <2>1, KeysAssumption, KeysFinite, FS_Subset, FS_CardinalityType
  <2> QED
    BY <1>1, <1>5, <2>1, <2>2 DEF SetOutputs
<1>6. CASE Close
  <2>1. PICK n \in {0, 1} : AddRows(n, 0)
    BY <1>6 DEF Close
  <2> QED
    BY <1>6, <2>1 DEF Close
<1> QED
  BY <1>2, <1>4, <1>5, <1>6 DEF Writes

(* Steps that leave the log alone, and at most drop or move a request.       *)
LEMMA LogQuiet ==
  ASSUME TypeOK, LogInv, UNCHANGED <<logVars, slog, lost>>,
         \A p \in Procs : call'[p] = call[p] \/ call'[p].kind # "log",
         \A p \in Procs : reply'[p] = reply[p] \/ reply'[p].kind # "log",
         \A c \in stray' : c \in stray \/ \E p \in Procs : c = call[p]
  PROVE  LogInv'
<1> USE DEF LogInv, logVars
<1>1. Unsent' /\ Extends(hist', slog')
  BY DEF Unsent
<1>2. Requests'
  BY DEF Requests, RowsOf
<1>3. Acks'
  BY DEF Acks
<1>4. ~lost' => Kept'
  BY DEF Kept
<1> QED
  BY <1>1, <1>2, <1>3, <1>4

(* Rows are written at the end of the history. *)
LEMMA LogWrites ==
  ASSUME TypeOK, LogType', LogInv, Writes
  PROVE  LogInv'
<1>1. PICK n \in Nat, k \in Nat : AddRows(n, k)
  BY WritesAddRows
<1>2. UNCHANGED <<call, reply, slog, stray, lost>>
  BY WritesAddRows DEF callVars, srvVars
<1>3. Extends(hist', hist) /\ Unsent'
  BY <1>1, AddRowsExtends DEF TypeOK, LogInv
<1>4. hist \in Seq(Row) /\ hist' \in Seq(Row) /\ slog \in Seq(Row)
  BY DEF TypeOK, LogType, ServerType
<1>5. Extends(hist', slog')
  BY <1>2, <1>3, <1>4, ExtendsTrans DEF LogInv
<1>6. ASSUME NEW c \in LogCall, RowsOf(c) PROVE RowsOf(c)'
  <2>1. c.rows \in Seq(Row) /\ c.index \in Nat
    BY DEF LogCall
  <2>2. Part(c.rows, hist', c.index)
    BY <1>3, <1>4, <1>6, <2>1, PartExtends DEF RowsOf
  <2> QED
    BY <2>2 DEF RowsOf
<1>7. Requests'
  <2>1. \A p \in Procs : call[p].kind = "log" => call[p] \in LogCall
    BY DEF TypeOK, CallType, TaskCall, None
  <2>2. \A c \in stray : c.kind = "log" => c \in LogCall
    BY DEF TypeOK, ServerType, TaskCall
  <2>3. ASSUME NEW p \in Procs, call[p].kind = "log" PROVE RowsOf(call[p])'
    <3>1. Part(call[p].rows, hist', call[p].index)
      BY <1>6, <2>1, <2>3 DEF LogInv, Requests, RowsOf
    <3> QED
      BY <1>2, <3>1 DEF RowsOf
  <2>4. ASSUME NEW c \in stray, c.kind = "log" PROVE Part(c.rows, hist', c.index)
    BY <1>6, <2>2, <2>4 DEF LogInv, Requests, RowsOf
  <2> QED
    BY <1>2, <2>3, <2>4 DEF Requests, RowsOf
<1>8. Acks'
  <2>1. \A p \in Procs : reply[p].kind = "log" => reply[p].ack \in Nat
    BY DEF TypeOK, CallType, LogReply, TaskReply, None
  <2>2. Len(hist) \in Nat /\ Len(hist') \in Nat /\ Len(hist) <= Len(hist')
    BY <1>3, <1>4 DEF Extends
  <2> QED
    BY <1>2, <2>1, <2>2 DEF LogInv, Acks
<1>9. ~lost' => Kept'
  BY <1>1, <1>2 DEF LogInv, Kept, AddRows
<1> QED
  BY <1>3, <1>5, <1>7, <1>8, <1>9 DEF LogInv

(* A request carries the rows the reporter still holds. *)
LEMMA LogSend ==
  ASSUME TypeOK, LogInv, NEW p \in Procs, SendLog(p)
  PROVE  LogInv'
<1> USE DEF LogInv, logVars
<1> DEFINE c == [kind |-> "log", index |-> logOffset, rows |-> logRows]
<1>1. /\ UNCHANGED <<logOffset, logRows, hist, slog, reply, stray, lost>>
      /\ call' = [call EXCEPT ![p] = c]
  BY DEF SendLog, srvVars
<1>2. Unsent' /\ Extends(hist', slog') /\ Acks' /\ (~lost' => Kept')
  BY <1>1 DEF Unsent, Acks, Kept
<1>3. Part(logRows, hist, logOffset)
  BY DEF Unsent, Suffix, Part, TypeOK, LogType
<1>4. \A q \in Procs : call'[q] = IF q = p THEN c ELSE call[q]
  BY <1>1 DEF TypeOK, CallType
<1>5. ASSUME NEW q \in Procs, call'[q].kind = "log"
      PROVE  Part(call'[q].rows, hist', call'[q].index)
  <2>1. CASE q = p
    <3>1. call'[q].rows = logRows /\ call'[q].index = logOffset
      BY <1>4, <2>1
    <3> QED
      BY <1>1, <1>3, <3>1
  <2>2. CASE q # p
    <3>1. call'[q] = call[q]
      BY <1>4, <2>2
    <3> QED
      BY <1>1, <1>5, <3>1 DEF Requests, RowsOf
  <2> QED
    BY <2>1, <2>2
<1>6. Requests'
  BY <1>1, <1>5 DEF Requests, RowsOf
<1> QED
  BY <1>2, <1>6

(* The offset moves with the rows the acknowledgement drops.  While one      *)
(* goroutine holds clientM the other has no call, and so no answer to come.  *)
LEMMA LogAnswer ==
  ASSUME TypeOK, Control, LogInv, NEW p \in Procs, LogAnswered(p)
  PROVE  LogInv'
<1> DEFINE ack == reply[p].ack
<1>1. /\ rep[p] = "logCall" /\ reply[p] # None /\ TakeAck(ack)
      /\ call' = [call EXCEPT ![p] = None] /\ reply' = [reply EXCEPT ![p] = None]
      /\ UNCHANGED <<hist, slog, stray, lost>>
  BY DEF LogAnswered, Unlock, srvVars
<1>2. reply[p].kind = "log" /\ ack \in Nat /\ clientM = p
  BY <1>1 DEF Control, Calls, LogReply
<1>3. \A q \in Procs : call'[q] = IF q = p THEN None ELSE call[q]
  BY <1>1 DEF TypeOK, CallType
<1>4. \A q \in Procs : reply'[q] = IF q = p THEN None ELSE reply[q]
  BY <1>1 DEF TypeOK, CallType
<1>5. \A q \in Procs : q # p => reply[q] = None
  BY <1>2 DEF Control, Calls
<1>6. \A q \in Procs : reply'[q] = None
  BY <1>4, <1>5
<1>7. Requests'
  <2>1. ASSUME NEW q \in Procs, call'[q].kind = "log"
        PROVE  Part(call'[q].rows, hist', call'[q].index)
    <3>1. call'[q] = call[q]
      BY <1>3, <2>1 DEF None
    <3> QED
      BY <1>1, <2>1, <3>1 DEF LogInv, Requests, RowsOf
  <2> QED
    BY <1>1, <2>1 DEF LogInv, Requests, RowsOf
<1>8. Acks'
  BY <1>6 DEF Acks, None
<1>9. ack <= Len(hist) /\ (~lost => logOffset <= ack /\ ack <= Len(slog))
  BY <1>2 DEF LogInv, Acks, Kept
<1>10. CASE ack < logOffset
  <2>1. UNCHANGED <<logRows, logOffset>>
    BY <1>1, <1>10 DEF TakeAck
  <2> QED
    BY <1>1, <1>6, <1>7, <1>8, <2>1 DEF LogInv, Unsent, Kept, None
<1>11. CASE ~(ack < logOffset)
  <2>1. logRows' = SubSeq(logRows, ack - logOffset + 1, Len(logRows)) /\ logOffset' = ack
    BY <1>1, <1>11 DEF TakeAck, Unacked
  <2>2. logRows \in Seq(Row) /\ hist \in Seq(Row) /\ logOffset \in Nat /\ logOffset <= ack
    BY <1>2, <1>11 DEF TypeOK, LogType
  <2>3. Suffix(SubSeq(logRows, ack - logOffset + 1, Len(logRows)), hist, ack)
    BY <1>2, <1>9, <2>2, SuffixAdvances DEF LogInv, Unsent
  <2>4. Unsent'
    BY <1>1, <2>1, <2>3 DEF Unsent
  <2>5. ~lost' => Kept'
    BY <1>1, <1>6, <1>9, <2>1 DEF Kept, None
  <2> QED
    BY <1>1, <1>7, <1>8, <2>4, <2>5 DEF LogInv
<1> QED
  BY <1>10, <1>11

(* The server executes a request: nothing, or the rows it does not have. *)
LEMMA LogExecute ==
  ASSUME TypeOK, LogInv, NEW c \in LogCall \cup TaskCall,
         c.kind = "log" => RowsOf(c), Execute(c)
  PROVE  Extends(hist, slog') /\ Extends(slog', slog)
<1>1. Extends(hist, slog) /\ slog \in Seq(Row) /\ hist \in Seq(Row)
  BY DEF LogInv, TypeOK, ServerType, LogType
<1>2. Extends(slog, slog)
  BY <1>1 DEF Extends
<1>3. CASE c.kind = "log"
  <2>1. c \in LogCall /\ c.rows \in Seq(Row) /\ c.index \in Nat /\ ExecuteLog(c)
    BY <1>3 DEF LogCall, TaskCall, Execute
  <2>2. PICK n \in 0 .. Len(c.rows) :
          /\ n > 0 => c.index <= Len(slog) /\ Len(slog) < c.index + n
          /\ slog' = IF n = 0 THEN slog
                     ELSE slog \o SubSeq(c.rows, Len(slog) - c.index + 1, n)
    BY <2>1 DEF ExecuteLog
  <2>3. CASE n = 0
    BY <1>1, <1>2, <2>2, <2>3
  <2>4. CASE n > 0
    <3>1. /\ c.index <= Len(slog) /\ Len(slog) < c.index + n
          /\ slog' = slog \o SubSeq(c.rows, Len(slog) - c.index + 1, n)
      <4>1. n # 0
        BY <2>4
      <4> QED
        BY <2>2, <2>4, <4>1
    <3>2. Part(c.rows, hist, c.index)
      BY <1>3 DEF RowsOf
    <3> QED
      BY <1>1, <2>1, <3>1, <3>2, StoreExtends
  <2> QED
    BY <2>1, <2>2, <2>3, <2>4
<1>4. CASE c.kind # "log"
  BY <1>1, <1>2, <1>4 DEF Execute, ExecuteTask
<1> QED
  BY <1>3, <1>4

(* What the server has stored grows, up to the history. *)
LEMMA LogGrows ==
  ASSUME TypeOK, ServerType', LogInv, UNCHANGED <<logVars, call, lost>>,
         \A c \in stray' : c \in stray,
         Extends(hist, slog'), Extends(slog', slog),
         \A p \in Procs : \/ reply'[p] = reply[p]
                          \/ reply'[p].kind # "log"
                          \/ reply'[p].ack = Len(slog')
  PROVE  LogInv'
<1> USE DEF LogInv, logVars
<1>1. slog \in Seq(Row) /\ slog' \in Seq(Row) /\ hist \in Seq(Row)
  BY DEF TypeOK, ServerType, LogType
<1>2. Unsent' /\ Extends(hist', slog') /\ Requests'
  BY DEF Unsent, Requests, RowsOf
<1>3. Len(slog) \in Nat /\ Len(slog') \in Nat /\ Len(slog) <= Len(slog') /\ Len(slog') <= Len(hist)
  BY <1>1 DEF Extends
<1>4. \A p \in Procs : reply[p].kind = "log" => reply[p].ack \in Nat
  BY DEF TypeOK, CallType, LogReply, TaskReply, None
<1>5. Acks'
  BY <1>3, <1>4 DEF Acks
<1>6. ~lost' => Kept'
  BY <1>3, <1>4 DEF Kept, TypeOK, LogType
<1> QED
  BY <1>2, <1>5, <1>6

(* A call that is executed keeps LogInv: the server takes rows of the history. *)
LEMMA LogServe ==
  ASSUME TypeOK, Control, LogInv, TypeOK', (\E p \in Procs : Serve(p)) \/ ServeStray
  PROVE  LogInv'
<1> USE DEF logVars, callVars
<1>1. ASSUME NEW p \in Procs, Serve(p) PROVE LogInv'
  <2>1. call[p] \in LogCall \cup TaskCall /\ Execute(call[p])
    BY <1>1 DEF Serve, TypeOK, CallType
  <2>2. Extends(hist, slog') /\ Extends(slog', slog)
    BY <2>1, LogExecute DEF LogInv, Requests
  <2>3. \A q \in Procs : q # p => reply'[q] = reply[q]
    BY <1>1 DEF Serve, TypeOK, CallType
  <2>4. reply'[p].kind = "log" => reply'[p].ack = Len(slog')
    BY <1>1 DEF Serve, TypeOK, CallType
  <2>5. UNCHANGED <<logVars, call, stray, lost>>
    BY <1>1 DEF Serve
  <2> QED
    BY <2>2, <2>3, <2>4, <2>5, LogGrows DEF TypeOK
<1>2. CASE ServeStray
  <2>1. PICK c \in stray : Execute(c) /\ stray' = stray \ {c}
    BY <1>2 DEF ServeStray
  <2>2. c \in LogCall \cup TaskCall /\ (c.kind = "log" => RowsOf(c))
    BY <2>1 DEF TypeOK, ServerType, LogInv, Requests
  <2>3. Extends(hist, slog') /\ Extends(slog', slog)
    BY <2>1, <2>2, LogExecute
  <2>4. UNCHANGED <<logVars, call, reply, lost>>
    BY <1>2 DEF ServeStray
  <2> QED
    BY <2>1, <2>3, <2>4, LogGrows DEF TypeOK
<1> QED
  BY <1>1, <1>2

(* A server that loses rows keeps a beginning of the log. *)
LEMMA LogLoses ==
  ASSUME TypeOK, LogInv, LoseRows
  PROVE  LogInv'
<1> USE DEF LogInv, logVars, callVars
<1>1. lost' /\ UNCHANGED <<logVars, call, reply, stray>>
  BY DEF LoseRows
<1>2. PICK n \in 0 .. Len(slog) - 1 : slog' = SubSeq(slog, 1, n)
  BY DEF LoseRows
<1>3. slog \in Seq(Row) /\ hist \in Seq(Row) /\ n \in Nat /\ n <= Len(slog)
  BY <1>2 DEF TypeOK, ServerType, LogType
<1>4. \A i \in 1 .. n : slog[i] \in Row
  BY <1>3
<1>5. Len(slog') = n /\ \A i \in 1 .. n : slog'[i] = slog[i]
  BY <1>2, <1>3, <1>4, SubSeqProperties
<1>6. Extends(hist', slog')
  BY <1>1, <1>3, <1>5 DEF Extends
<1> QED
  BY <1>1, <1>6 DEF Unsent, Requests, RowsOf, Acks

(* Every step keeps LogInv, by the lemma for its kind. *)
LEMMA LogStep == TypeOK /\ TypeOK' /\ Control /\ LogInv /\ [Next]_vars => LogInv'
<1> SUFFICES ASSUME TypeOK, TypeOK', Control, LogInv, [Next]_vars PROVE LogInv'
  OBVIOUS
<1> USE DEF callVars, srvVars
<1>1. CASE Writes
  BY <1>1, LogWrites DEF TypeOK
<1>2. CASE \/ FirstTick \/ ResetSteps \/ Attempt \/ GiveUp \/ Return \/ RunFails \/ ExecReturns
           \/ DaemonTick \/ UserCancels \/ Deadline \/ UNCHANGED vars
  <2>1. UNCHANGED <<logVars, slog, stray, call, reply, lost>>
    BY <1>2 DEF FirstTick, ResetSteps, Attempt, GiveUp, Return, RunFails, ExecReturns, DaemonTick,
                UserCancels, Deadline, vars
  <2> QED
    BY <2>1, LogQuiet
<1>3. ASSUME NEW p \in Procs, SendState(p) \/ StateAnswered(p) \/ CallRefused(p) \/ CallFails(p)
      PROVE  LogInv'
  <2>1. UNCHANGED <<logVars, slog, lost>>
    BY <1>3 DEF SendState, StateAnswered, CallRefused, CallFails
  <2>2. \A c \in stray' : c \in stray \/ \E q \in Procs : c = call[q]
    BY <1>3 DEF SendState, StateAnswered, CallRefused, CallFails
  <2>3. \A q \in Procs : call'[q] = call[q] \/ call'[q].kind # "log"
    BY <1>3 DEF SendState, StateAnswered, CallRefused, CallFails, Unlock, TypeOK, CallType, None
  <2>4. \A q \in Procs : reply'[q] = reply[q] \/ reply'[q].kind # "log"
    BY <1>3 DEF SendState, StateAnswered, CallRefused, CallFails, Unlock, TypeOK, CallType, None
  <2> QED
    BY <2>1, <2>2, <2>3, <2>4, LogQuiet
<1>4. ASSUME NEW p \in Procs, SendLog(p) \/ LogAnswered(p) PROVE LogInv'
  BY <1>4, LogSend, LogAnswer
<1>5. CASE (\E p \in Procs : Serve(p)) \/ ServeStray
  BY <1>5, LogServe
<1>6. CASE LoseRows
  BY <1>6, LogLoses
<1> QED
  BY <1>1, <1>2, <1>3, <1>4, <1>5, <1>6 DEF Next, JobCode, Reports, Writes, Terminated

(* LogInv holds initially. *)
LEMMA LogInit == Init => LogInv
BY DEF Init, LogInv, Unsent, Suffix, Extends, Requests, RowsOf, Acks, Kept, None

(* LogInv, with the types it needs. *)
LEMMA LogCorrect == Spec => [](TypeOK /\ LogInv)
<1>1. Init => LogInv
  BY LogInit
<1>2. (TypeOK /\ Control) /\ (TypeOK /\ Control)' /\ LogInv /\ [Next]_vars => LogInv'
  BY LogStep
<1> QED
  BY <1>1, <1>2, TypeCorrect, PTL DEF Spec

(* The log is never reordered, duplicated or torn, whatever calls are lost,  *)
(* answered late or executed twice, with any number of steps, rows and       *)
(* attempts: LogInv says so, and that every request in flight (or stray)     *)
(* carries rows of the history at the position it names.                     *)
THEOREM LogCorrectly == Spec => []LogIntact
<1>1. LogInv => LogIntact
  BY DEF LogInv, Unsent, Suffix, Extends, LogIntact
<1> QED
  BY <1>1, LogCorrect, PTL

(* No answer of a server that keeps its rows is behind the offset: line 283  *)
(* never reports a log as lost that is not.                                  *)
THEOREM NothingLost == Spec => []NeverLost
<1>1. LogInv => NeverLost
  BY DEF LogInv, Kept, NeverLost
<1> QED
  BY <1>1, LogCorrect, PTL
=============================================================================
