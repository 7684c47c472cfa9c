---------------------------- MODULE PollerProofs ----------------------------
(***************************************************************************)
(* Proofs about the poller, for every number of workers, every set of      *)
(* tasks and every bound on the server's version.                          *)
(***************************************************************************)
EXTENDS Poller, TLAPS, FiniteSetTheorems

(* The initial types. *)
LEMMA TypeInit == Init => TypeOK
<1>1. NoReply \in Reply
  BY DEF Reply, NoReply
<1> SUFFICES ASSUME Init PROVE TypeOK
  OBVIOUS
<1>2. \A w \in Workers : pc[w] \in {"clear", "run"} => reply[w].task \in Tasks
  BY DEF Init
<1>3. pollingDone \in BOOLEAN /\ done \in BOOLEAN /\ signalled \in BOOLEAN
  BY DEF Init
<1> QED
  BY <1>1, <1>2, <1>3 DEF Init, TypeOK

(* Every step keeps the types. *)
LEMMA TypeStep == TypeOK /\ [Next]_vars => TypeOK'
<1> SUFFICES ASSUME TypeOK, [Next]_vars PROVE TypeOK'
  OBVIOUS
<1> USE DEF TypeOK, Goto
<1>1. ASSUME NEW w \in Workers, Fetch(w) PROVE TypeOK'
  BY <1>1 DEF Fetch, mainVars, serverVars
<1>2. ASSUME NEW w \in Workers, WaitEnds(w) PROVE TypeOK'
  BY <1>2 DEF WaitEnds, mainVars, serverVars
<1>3. ASSUME NEW w \in Workers, Receive(w) PROVE TypeOK'
  BY <1>3 DEF Receive, SeeVersion, CompareAndSwap, HasTask, Reply, NoReply, mainVars, serverVars
<1>4. ASSUME NEW w \in Workers, Clear(w) PROVE TypeOK'
  BY <1>4 DEF Clear, ForgetVersion, CompareAndSwap, Reply, mainVars, serverVars
<1>5. ASSUME NEW w \in Workers, Check(w) PROVE TypeOK'
  BY <1>5 DEF Check, mainVars, serverVars
<1>6. ASSUME NEW w \in Workers, FetchFails(w) PROVE TypeOK'
  BY <1>6 DEF FetchFails, Reply, NoReply, mainVars, serverVars
<1>7. ASSUME NEW w \in Workers, TaskEnds(w) PROVE TypeOK'
  BY <1>7 DEF TaskEnds, Reply, NoReply, mainVars, serverVars
<1>8. ASSUME NEW w \in Workers, Serve(w) PROVE TypeOK'
  BY <1>8 DEF Serve, Reply, mainVars
<1>9. CASE CallShutdown \/ ShutdownReturns \/ CloseDone \/ Signal \/ ShutdownTimesOut
  BY <1>9 DEF CallShutdown, ShutdownReturns, CloseDone, Signal, ShutdownTimesOut,
              workerVars, serverVars
<1>10. CASE NewTask \/ OtherVersion \/ OtherTakes
  BY <1>10 DEF NewTask, OtherVersion, OtherTakes, workerVars, mainVars
<1>11. CASE UNCHANGED vars
  BY <1>11 DEF vars, workerVars, mainVars, serverVars
<1> QED
  BY <1>1, <1>2, <1>3, <1>4, <1>5, <1>6, <1>7, <1>8, <1>9, <1>10, <1>11
  DEF Next, Worker, Main, Terminated

(* The variables keep their types. *)
THEOREM TypeCorrect == Spec => []TypeOK
BY TypeInit, TypeStep, PTL DEF Spec

-----------------------------------------------------------------------------
(* No task is hidden.  Why: an answer without a task that carries a version *)
(* the worker had not sent was given while no task waited, and a task that  *)
(* appears later comes with a new version.                                  *)

EmptyAnswers ==
    \A w \in Workers :
        /\ reply[w].version <= ver
        /\ pc[w] \in {"wait", "check", "exit"} => reply[w] = NoReply
        /\ /\ pc[w] = "sent" /\ reply[w].task = NoTask
           /\ reply[w].version = ver /\ reply[w].version > v[w]
           => pending = {}
VersionInv ==
    /\ TypeOK
    /\ tasksVersion <= ver
    /\ EmptyAnswers
    /\ NoHiddenTask

(* NoHiddenTask: the version protocol of fetchTask hides no waiting task. *)
THEOREM TasksVisible == Spec => []NoHiddenTask
<1>1. Init => VersionInv
  <2> SUFFICES ASSUME Init PROVE VersionInv
    OBVIOUS
  <2>1. EmptyAnswers
    BY DEF Init, EmptyAnswers, NoReply
  <2> QED
    BY <2>1, TypeInit DEF Init, VersionInv, NoHiddenTask
<1>2. VersionInv /\ [Next]_vars => VersionInv'
  <2> SUFFICES ASSUME VersionInv, [Next]_vars PROVE VersionInv'
    OBVIOUS
  <2>0. TypeOK /\ TypeOK'
    BY TypeStep DEF VersionInv
  <2> DEFINE Inv == tasksVersion <= ver /\ EmptyAnswers /\ NoHiddenTask
  <2> SUFFICES Inv'
    BY <2>0 DEF VersionInv
  <2> USE DEF VersionInv, TypeOK, EmptyAnswers, NoHiddenTask, Goto
  <2>1. ASSUME NEW w \in Workers, Fetch(w) PROVE Inv'
    BY <2>0, <2>1 DEF Fetch, NoReply, mainVars, serverVars
  <2>2. ASSUME NEW w \in Workers, WaitEnds(w) PROVE Inv'
    BY <2>0, <2>2 DEF WaitEnds, mainVars, serverVars
  <2>3. ASSUME NEW w \in Workers, Receive(w) PROVE Inv'
    <3> USE <2>0, <2>3 DEF Receive, mainVars, serverVars
    <3>1. tasksVersion' = tasksVersion
          \/ (tasksVersion' = reply[w].version /\ reply[w].version > v[w])
      BY DEF SeeVersion, CompareAndSwap
    <3>2. (tasksVersion <= ver)'
      BY <3>1 DEF Reply
    <3>3. EmptyAnswers'
      BY DEF HasTask, Reply, NoReply
    <3>4. ASSUME tasksVersion' = ver, pending # {}
          PROVE  \E u \in Workers : pc'[u] = "clear" /\ reply'[u].version = ver
      <4>1. CASE tasksVersion' = tasksVersion
        BY <3>4, <4>1 DEF HasTask
      <4>2. CASE tasksVersion' = reply[w].version /\ reply[w].version > v[w]
        <5>1. reply[w].task # NoTask
          BY <3>4, <4>2
        <5> QED
          BY <3>4, <4>2, <5>1 DEF HasTask
      <4> QED
        BY <3>1, <4>1, <4>2
    <3> QED
      BY <3>2, <3>3, <3>4
  <2>4. ASSUME NEW w \in Workers, Clear(w) PROVE Inv'
    BY <2>0, <2>4 DEF Clear, ForgetVersion, CompareAndSwap, Reply, mainVars, serverVars
  <2>5. ASSUME NEW w \in Workers, Check(w) PROVE Inv'
    BY <2>0, <2>5 DEF Check, mainVars, serverVars
  <2>6. ASSUME NEW w \in Workers, FetchFails(w) PROVE Inv'
    BY <2>0, <2>6 DEF FetchFails, Reply, NoReply, mainVars, serverVars
  <2>7. ASSUME NEW w \in Workers, TaskEnds(w) PROVE Inv'
    BY <2>0, <2>7 DEF TaskEnds, Reply, NoReply, mainVars, serverVars
  <2>8. ASSUME NEW w \in Workers, Serve(w) PROVE Inv'
    <3>1. PICK t \in IF v[w] = ver \/ pending = {} THEN {NoTask} ELSE pending :
             /\ reply' = [reply EXCEPT ![w] = [version |-> ver, task |-> t]]
             /\ pending' = pending \ {t}
      BY <2>8 DEF Serve
    <3>2. pc[w] = "sent" /\ UNCHANGED <<tasksVersion, pc, v, ver>>
      BY <2>8 DEF Serve
    <3>3. pending = {} => pending' = {}
      BY <3>1
    <3>4. t = NoTask => v[w] = ver \/ pending' = {}
      BY <3>1, TasksAssumption
    <3>5. \A u \in Workers : u # w => reply'[u] = reply[u]
      BY <3>1
    <3>6. reply'[w].version = ver /\ reply'[w].task = t
      BY <3>1
    <3>7. EmptyAnswers'
      BY <3>2, <3>3, <3>4, <3>5, <3>6
    <3>8. NoHiddenTask'
      BY <3>2, <3>3, <3>5
    <3> QED
      BY <3>2, <3>7, <3>8
  <2>9. CASE CallShutdown \/ ShutdownReturns \/ CloseDone \/ Signal \/ ShutdownTimesOut
    BY <2>0, <2>9 DEF CallShutdown, ShutdownReturns, CloseDone, Signal, ShutdownTimesOut,
                      workerVars, serverVars
  <2>10. CASE NewTask \/ OtherVersion
    <3>1. ver' = ver + 1 /\ UNCHANGED <<tasksVersion, pc, v, reply>>
      BY <2>10 DEF NewTask, OtherVersion, workerVars
    <3>2. tasksVersion' < ver' /\ tasksVersion' # ver'
      BY <3>1
    <3>3. \A w \in Workers : reply[w].version \in Nat /\ reply[w].version < ver'
      BY <3>1 DEF Reply
    <3>4. \A w \in Workers : reply[w].version <= ver' /\ reply[w].version # ver'
      BY <3>1, <3>3
    <3>5. EmptyAnswers'
      BY <3>1, <3>4
    <3> QED
      BY <3>1, <3>2, <3>5
  <2>11. CASE OtherTakes
    BY <2>0, <2>11 DEF OtherTakes, workerVars, mainVars
  <2>12. CASE UNCHANGED vars
    BY <2>0, <2>12 DEF vars, workerVars, mainVars, serverVars
  <2> QED
    BY <2>1, <2>2, <2>3, <2>4, <2>5, <2>6, <2>7, <2>8, <2>9, <2>10, <2>11, <2>12
    DEF Next, Worker, Main, Terminated
<1> QED
  BY <1>1, <1>2, PTL DEF Spec, VersionInv

-----------------------------------------------------------------------------
(* Draining: done is closed after the last worker left, main returns after  *)
(* done is closed, and a worker that left never comes back.                 *)

DrainInv ==
    /\ done => \A w \in Workers : pc[w] = "exit"
    /\ main = "returned" => done

LEMMA DrainStep == TypeOK /\ DrainInv /\ [Next]_vars => DrainInv'
<1> SUFFICES ASSUME TypeOK, DrainInv, [Next]_vars PROVE DrainInv'
  OBVIOUS
<1> USE DEF TypeOK, DrainInv, Goto
<1>1. ASSUME NEW w \in Workers,
             Fetch(w) \/ WaitEnds(w) \/ Receive(w) \/ Clear(w) \/ Check(w)
               \/ FetchFails(w) \/ TaskEnds(w)
      PROVE  DrainInv'
  <2>1. pc[w] # "exit" /\ UNCHANGED <<done, main>>
    BY <1>1 DEF Fetch, WaitEnds, Receive, Clear, Check, FetchFails, TaskEnds, mainVars
  <2> QED
    BY <2>1
<1>2. ASSUME NEW w \in Workers, Serve(w) PROVE DrainInv'
  BY <1>2 DEF Serve, mainVars
<1>3. CASE CallShutdown \/ ShutdownReturns \/ Signal \/ ShutdownTimesOut
  BY <1>3 DEF CallShutdown, ShutdownReturns, Signal, ShutdownTimesOut, workerVars
<1>4. CASE CloseDone
  BY <1>4 DEF CloseDone, AllLeft, workerVars
<1>5. CASE NewTask \/ OtherVersion \/ OtherTakes \/ UNCHANGED vars
  BY <1>5 DEF NewTask, OtherVersion, OtherTakes, vars, workerVars, mainVars
<1> QED
  BY <1>1, <1>2, <1>3, <1>4, <1>5 DEF Next, Worker, Main, Terminated

LEMMA Draining == Spec => []DrainInv
<1>1. Init => DrainInv
  BY DEF Init, DrainInv
<1> QED
  BY <1>1, DrainStep, TypeCorrect, PTL DEF Spec

(* NothingLeftRunning: the process outlives every task it fetched. *)
THEOREM Drained == Spec => []NothingLeftRunning
<1>1. DrainInv => NothingLeftRunning
  BY DEF DrainInv, NothingLeftRunning
<1> QED
  BY <1>1, Draining, PTL

-----------------------------------------------------------------------------
(* Running once: one worker at most is there, starts its task and leaves;   *)
(* before that nothing was started.                                         *)

OnceInv ==
    once =>
      /\ \E one \in Workers : \A w \in Workers \ {one} : pc[w] = "exit"
      /\ started # {} => \A w \in Workers : pc[w] \in {"run", "check", "exit"}
      /\ \A t, u \in started : t = u

(* OneTask: a runner that runs once starts at most one task. *)
THEOREM RunsOnce == Spec => []OneTask
<1>1. Init => OnceInv
  BY DEF Init, OnceInv
<1>2. TypeOK /\ OnceInv /\ [Next]_vars => OnceInv'
  <2> SUFFICES ASSUME TypeOK, OnceInv, [Next]_vars, once' PROVE OnceInv'
    BY DEF OnceInv
  <2> USE DEF TypeOK, Goto
  <2>1. once
    BY DEF Next, vars, Worker, Main, Terminated, mainVars, Fetch, WaitEnds, Receive, Clear, Check,
           FetchFails, TaskEnds, Serve, CallShutdown, ShutdownReturns, CloseDone, Signal,
           ShutdownTimesOut, NewTask, OtherVersion, OtherTakes
  <2>2. PICK one \in Workers : \A w \in Workers \ {one} : pc[w] = "exit"
    BY <2>1 DEF OnceInv
  <2>3. /\ started # {} => \A w \in Workers : pc[w] \in {"run", "check", "exit"}
        /\ \A t, u \in started : t = u
    BY <2>1 DEF OnceInv
  <2>4. ASSUME NEW w \in Workers, NEW l, pc[w] # "exit", pc' = [pc EXCEPT ![w] = l]
        PROVE  \A u \in Workers \ {one} : pc'[u] = "exit"
    BY <2>2, <2>4
  <2>5. ASSUME NEW w \in Workers,
               Fetch(w) \/ WaitEnds(w) \/ Receive(w) \/ FetchFails(w)
        PROVE  OnceInv'
    <3>1. PICK l : pc[w] \in {"wait", "sent"} /\ started' = started /\ pc' = [pc EXCEPT ![w] = l]
      BY <2>5 DEF Fetch, WaitEnds, Receive, FetchFails
    <3>2. started' = {}
      BY <2>3, <3>1
    <3> QED
      BY <2>4, <3>1, <3>2 DEF OnceInv
  <2>6. ASSUME NEW w \in Workers, Clear(w) PROVE OnceInv'
    <3>1. pc[w] = "clear" /\ started' = started \cup {reply[w].task} /\ pc' = [pc EXCEPT ![w] = "run"]
      BY <2>6 DEF Clear
    <3>2. started = {} /\ w = one
      BY <2>2, <2>3, <3>1
    <3>3. \A u \in Workers : pc'[u] \in {"run", "exit"}
      BY <2>2, <3>1, <3>2
    <3> QED
      BY <2>4, <3>1, <3>2, <3>3 DEF OnceInv
  <2>7. ASSUME NEW w \in Workers, Check(w) \/ TaskEnds(w) PROVE OnceInv'
    <3>1. PICK l \in {"check", "exit"} :
             pc[w] # "exit" /\ started' = started /\ pc' = [pc EXCEPT ![w] = l]
      BY <2>1, <2>7 DEF Check, TaskEnds, GoesOn
    <3>2. started' # {} => \A u \in Workers : pc'[u] \in {"run", "check", "exit"}
      BY <2>3, <3>1
    <3> QED
      BY <2>3, <2>4, <3>1, <3>2 DEF OnceInv
  <2>8. CASE UNCHANGED <<pc, started>>
    BY <2>2, <2>3, <2>8 DEF OnceInv
  <2>9. ASSUME NEW w \in Workers, Serve(w) PROVE OnceInv'
    BY <2>8, <2>9 DEF Serve
  <2>10. CASE CallShutdown \/ ShutdownReturns \/ CloseDone \/ Signal \/ ShutdownTimesOut
    BY <2>8, <2>10 DEF CallShutdown, ShutdownReturns, CloseDone, Signal, ShutdownTimesOut, workerVars
  <2>11. CASE NewTask \/ OtherVersion \/ OtherTakes \/ UNCHANGED vars
    BY <2>8, <2>11 DEF NewTask, OtherVersion, OtherTakes, vars, workerVars
  <2> QED
    BY <2>5, <2>6, <2>7, <2>9, <2>10, <2>11 DEF Next, Worker, Main, Terminated
<1>3. OnceInv => OneTask
  <2> SUFFICES ASSUME OnceInv, once PROVE Cardinality(started) <= 1
    BY DEF OneTask
  <2>0. \A t, u \in started : t = u
    BY DEF OnceInv
  <2>1. CASE started = {}
    BY <2>1, FS_EmptySet
  <2>2. CASE started # {}
    <3>1. PICK t \in started : started = {t}
      <4>1. PICK t : t \in started
        BY <2>2
      <4> QED
        BY <2>0, <4>1
    <3>2. Cardinality({t}) = 1
      BY FS_Singleton, Zenon
    <3>3. Cardinality(started) = 1
      BY <3>1, <3>2, Zenon
    <3>4. \A n : n = 1 => n <= 1
      OBVIOUS
    <3> QED
      BY <3>3, <3>4, Zenon
  <2> QED
    BY <2>1, <2>2
<1> QED
  BY <1>1, <1>2, <1>3, TypeCorrect, PTL DEF Spec
-----------------------------------------------------------------------------
(* The service of tasks.  Why: a task leaves the queue with the one answer   *)
(* it is in, a worker drops that answer when the task ends or the request    *)
(* fails, and only the task of a worker at "run" has been started.           *)

Custody ==
    /\ \A w \in Workers : pc[w] \in {"wait", "check", "exit"} => reply[w] = NoReply
    /\ \A w \in Workers : reply[w].task # NoTask =>
          /\ reply[w].task \in created \ pending
          /\ pc[w] = "run" <=> reply[w].task \in started
          /\ \A u \in Workers \ {w} : reply[u].task # reply[w].task
    /\ pending \subseteq created
    /\ started \subseteq created \ pending

LEMMA CustodyStep == TypeOK /\ Custody /\ [Next]_vars => Custody'
<1> SUFFICES ASSUME TypeOK, Custody, [Next]_vars PROVE Custody'
  OBVIOUS
<1>0. TypeOK' /\ NoTask \notin Tasks /\ NoReply.task = NoTask
  BY TypeStep, TasksAssumption DEF NoReply
<1> USE DEF TypeOK, Custody, Goto
<1>1. ASSUME NEW w \in Workers, Fetch(w) \/ WaitEnds(w) \/ Check(w) PROVE Custody'
  BY <1>0, <1>1 DEF Fetch, WaitEnds, Check, mainVars, serverVars
<1>2. ASSUME NEW w \in Workers, Receive(w) PROVE Custody'
  BY <1>0, <1>2 DEF Receive, HasTask, mainVars, serverVars
<1>3. ASSUME NEW w \in Workers, Clear(w) PROVE Custody'
  BY <1>0, <1>3 DEF Clear, mainVars, serverVars
<1>4. ASSUME NEW w \in Workers, FetchFails(w) \/ TaskEnds(w) PROVE Custody'
  BY <1>0, <1>4 DEF FetchFails, TaskEnds, mainVars, serverVars
<1>5. ASSUME NEW w \in Workers, Serve(w) PROVE Custody'
  <2>1. PICK t \in IF v[w] = ver \/ pending = {} THEN {NoTask} ELSE pending :
           /\ reply' = [reply EXCEPT ![w] = [version |-> ver, task |-> t]]
           /\ pending' = pending \ {t}
    BY <1>5 DEF Serve
  <2>2. pc[w] = "sent" /\ UNCHANGED <<pc, created, started>>
    BY <1>5 DEF Serve
  <2>3. reply'[w].task = t /\ \A u \in Workers : u # w => reply'[u] = reply[u]
    BY <2>1
  <2>4. t # NoTask => t \in pending
    BY <2>1
  <2> QED
    BY <1>0, <2>1, <2>2, <2>3, <2>4
<1>6. CASE CallShutdown \/ ShutdownReturns \/ CloseDone \/ Signal \/ ShutdownTimesOut
  BY <1>6 DEF CallShutdown, ShutdownReturns, CloseDone, Signal, ShutdownTimesOut,
              workerVars, serverVars
<1>7. CASE NewTask \/ OtherVersion \/ OtherTakes
  BY <1>7 DEF NewTask, OtherVersion, OtherTakes, workerVars, mainVars
<1>8. CASE UNCHANGED vars
  BY <1>8 DEF vars, workerVars, mainVars, serverVars
<1> QED
  BY <1>1, <1>2, <1>3, <1>4, <1>5, <1>6, <1>7, <1>8 DEF Next, Worker, Main, Terminated

LEMMA InCustody == Spec => []Custody
<1>1. Init => Custody
  BY DEF Init, Custody, NoReply
<1> QED
  BY <1>1, CustodyStep, TypeCorrect, PTL DEF Spec

(* A task that no worker holds, before or after a step of w, is held by the   *)
(* same workers; and a step that leaves the server's side alone leaves its    *)
(* status alone.                                                              *)
LEMMA OthersKeep ==
    ASSUME NEW w \in Workers, NEW x \in Tasks,
           \A u \in Workers \ {w} : pc'[u] = pc[u] /\ reply'[u] = reply[u],
           reply[w].task # x, reply'[w].task # x,
           x \in created <=> x \in created', x \in pending <=> x \in pending',
           x \in started <=> x \in started'
    PROVE  Status(x)' = Status(x)
<1>1. \A places : Held(x, places)' <=> Held(x, places)
  <2> SUFFICES ASSUME NEW places PROVE Held(x, places)' <=> Held(x, places)
    OBVIOUS
  <2> QED
    BY DEF Held
<1>2. (Held(x, {"sent", "clear"})' <=> Held(x, {"sent", "clear"}))
      /\ (Held(x, {"run"})' <=> Held(x, {"run"}))
  BY <1>1
<1> QED
  BY <1>2 DEF Status

LEMMA AllKeep ==
    ASSUME UNCHANGED <<pc, reply, created, pending, started>>
    PROVE  \A x \in Tasks : Status(x)' = Status(x)
BY DEF Status, Held

(* The status of a task is where the one worker that has it is. *)
Placed ==
    \A w \in Workers : reply[w].task # NoTask =>
        /\ pc[w] \in {"sent", "clear"} => Status(reply[w].task) = "assigned"
        /\ pc[w] = "run" => Status(reply[w].task) = "running"
LEMMA StatusHeld == Custody => Placed
<1> SUFFICES ASSUME Custody, NEW w \in Workers, reply[w].task # NoTask
             PROVE  /\ pc[w] \in {"sent", "clear"} => Status(reply[w].task) = "assigned"
                    /\ pc[w] = "run" => Status(reply[w].task) = "running"
  BY DEF Placed
<1> DEFINE t == reply[w].task
<1>1. t \in created /\ t \notin pending /\ \A u \in Workers \ {w} : reply[u].task # t
  BY DEF Custody
<1>2. \A places : Held(t, places) <=> pc[w] \in places
  <2> SUFFICES ASSUME NEW places PROVE Held(t, places) <=> pc[w] \in places
    OBVIOUS
  <2> QED
    BY <1>1 DEF Held
<1>3. (Held(t, {"sent", "clear"}) <=> pc[w] \in {"sent", "clear"})
      /\ (Held(t, {"run"}) <=> pc[w] \in {"run"})
  BY <1>2
<1> QED
  BY <1>1, <1>3 DEF Status

LEMMA StatusHeldNext == Custody' => Placed'
BY StatusHeld, PTL

(* A task that has left the queue and is with no worker is over. *)
Over == \A t \in created \ pending : (\A u \in Workers : reply[u].task # t) =>
            Status(t) = IF t \in started THEN "ended" ELSE "gone"
LEMMA StatusOver == Over
BY DEF Over, Status, Held
LEMMA StatusOverNext == Over'
BY StatusOver, PTL

LEMMA OneMoves ==
    ASSUME NEW t \in Tasks, NEW from, NEW to, Status(t) = from, Status(t)' = to,
           \A x \in Tasks \ {t} : Status(x)' = Status(x), done' = done
    PROVE  Service!Moves(t, from, to)
BY DEF Service!Moves

LEMMA NoneMoves ==
    ASSUME \A x \in Tasks : Status(x)' = Status(x), done' = done
    PROVE  UNCHANGED Service!vars
BY DEF Service!vars

(* Every step moves one task at most, on its way. *)
LEMMA ServiceStep ==
    TypeOK /\ TypeOK' /\ Custody /\ Custody' /\ DrainInv /\ [Next]_vars => [Service!Next]_(Service!vars)
<1> SUFFICES ASSUME TypeOK, TypeOK', Custody, Custody', DrainInv, [Next]_vars
             PROVE  [Service!Next]_(Service!vars)
  OBVIOUS
<1>0. /\ NoTask \notin Tasks /\ NoReply.task = NoTask
      /\ Placed /\ Placed' /\ Over'
  BY TasksAssumption, StatusHeld, StatusHeldNext, StatusOverNext DEF NoReply
<1>1. ASSUME NEW w \in Workers, Fetch(w) \/ WaitEnds(w) \/ Check(w) \/ Receive(w)
      PROVE  UNCHANGED Service!vars
  <2>1. /\ \A u \in Workers \ {w} : pc'[u] = pc[u] /\ reply'[u] = reply[u]
        /\ UNCHANGED <<done, created, pending, started>>
    BY <1>1 DEF TypeOK, Goto, Fetch, WaitEnds, Check, Receive, mainVars, serverVars
  <2>2. reply'[w].task = reply[w].task
    BY <1>0, <1>1 DEF TypeOK, Fetch, WaitEnds, Check, Receive, HasTask
  <2>3. ASSUME NEW x \in Tasks PROVE Status(x)' = Status(x)
    <3>1. CASE reply[w].task # x
      BY <2>1, <2>2, <3>1, OthersKeep
    <3>2. CASE reply[w].task = x
      <4>1. reply[w] # NoReply
        BY <1>0, <3>2
      <4>2. pc[w] \in {"sent", "clear"} /\ pc'[w] \in {"sent", "clear"}
        BY <1>0, <1>1, <3>2, <4>1 DEF TypeOK, Custody, Goto, Fetch, WaitEnds, Check, Receive, HasTask
      <4> QED
        BY <1>0, <2>2, <3>2, <4>2 DEF Placed
    <3> QED
      BY <3>1, <3>2
  <2> QED
    BY <2>1, <2>3, NoneMoves
<1>2. ASSUME NEW w \in Workers, Serve(w) PROVE [Service!Next]_(Service!vars)
  <2>1. PICK t \in IF v[w] = ver \/ pending = {} THEN {NoTask} ELSE pending :
           /\ reply' = [reply EXCEPT ![w] = [version |-> ver, task |-> t]]
           /\ pending' = pending \ {t}
    BY <1>2 DEF Serve
  <2>2. pc[w] = "sent" /\ reply[w].task = NoTask /\ ~done /\ UNCHANGED <<pc, done, created, started>>
    BY <1>0, <1>2 DEF Serve, DrainInv, mainVars
  <2>3. reply'[w].task = t /\ \A u \in Workers \ {w} : pc'[u] = pc[u] /\ reply'[u] = reply[u]
    BY <2>1, <2>2 DEF TypeOK
  <2>4. \A x \in Tasks : x # t => Status(x)' = Status(x)
    BY <1>0, <2>1, <2>2, <2>3, OthersKeep
  <2>5. CASE t = NoTask
    BY <1>0, <2>2, <2>4, <2>5, NoneMoves
  <2>6. CASE t # NoTask
    <3>1. t \in pending /\ t \in Tasks /\ t \in created
      BY <2>1, <2>6 DEF TypeOK, Custody
    <3>2. Status(t) = "waiting"
      BY <3>1 DEF Status
    <3>3. Status(t)' = "assigned"
      BY <1>0, <2>2, <2>3, <2>6 DEF Placed
    <3>4. Service!Moves(t, "waiting", "assigned")
      BY <2>2, <2>4, <3>1, <3>2, <3>3, OneMoves
    <3> QED
      BY <2>2, <3>1, <3>4 DEF Service!Next, Service!Assign
  <2> QED
    BY <2>5, <2>6
<1>3. ASSUME NEW w \in Workers, Clear(w) PROVE Service!Next
  <2> DEFINE t == reply[w].task
  <2>1. /\ pc[w] = "clear" /\ pc'[w] = "run" /\ t \in Tasks /\ t # NoTask /\ ~done
        /\ UNCHANGED <<done, reply, created, pending>> /\ started' = started \cup {t}
        /\ \A u \in Workers \ {w} : pc'[u] = pc[u]
    BY <1>0, <1>3 DEF Clear, Goto, TypeOK, DrainInv, mainVars, serverVars
  <2>2. \A x \in Tasks \ {t} : Status(x)' = Status(x)
    BY <2>1, OthersKeep
  <2>3. Status(t) = "assigned" /\ Status(t)' = "running"
    BY <1>0, <2>1 DEF Placed
  <2>4. Service!Moves(t, "assigned", "running")
    BY <2>1, <2>2, <2>3, OneMoves
  <2> QED
    BY <2>1, <2>4 DEF Service!Next, Service!Start
<1>4. ASSUME NEW w \in Workers, FetchFails(w) \/ TaskEnds(w) PROVE [Service!Next]_(Service!vars)
  <2>0. PICK t : t = reply[w].task
    OBVIOUS
  <2>1. /\ UNCHANGED <<done, created, pending, started>>
        /\ \A u \in Workers \ {w} : pc'[u] = pc[u] /\ reply'[u] = reply[u]
        /\ reply'[w].task = NoTask
        /\ pc[w] = "sent" \/ pc[w] = "run"
    BY <1>0, <1>4 DEF FetchFails, TaskEnds, Goto, TypeOK, mainVars, serverVars
  <2>2. \A x \in Tasks \ {t} : Status(x)' = Status(x)
    BY <2>0, <1>0, <2>1, OthersKeep
  <2>3. CASE t = NoTask
    BY <2>0, <1>0, <2>1, <2>2, <2>3, NoneMoves
  <2>4. CASE t # NoTask
    <3>1. t \in Tasks /\ t \in created \ pending /\ (pc[w] = "run" <=> t \in started)
          /\ \A u \in Workers \ {w} : reply[u].task # t
      BY <2>0, <2>4 DEF Custody, TypeOK, Reply
    <3>2. Status(t)' = IF t \in started THEN "ended" ELSE "gone"
      BY <2>0, <1>0, <2>1, <2>4, <3>1 DEF Over
    <3>3. CASE pc[w] = "sent"
      <4>1. Service!Moves(t, "assigned", "gone")
        BY <2>0, <1>0, <2>1, <2>2, <2>4, <3>1, <3>2, <3>3, OneMoves DEF Placed
      <4> QED
        BY <3>1, <4>1 DEF Service!Next, Service!Lose
    <3>4. CASE pc[w] = "run"
      <4>1. Service!Moves(t, "running", "ended")
        BY <2>0, <1>0, <2>1, <2>2, <2>4, <3>1, <3>2, <3>4, OneMoves DEF Placed
      <4> QED
        BY <3>1, <4>1 DEF Service!Next, Service!End
    <3> QED
      BY <2>1, <3>3, <3>4
  <2> QED
    BY <2>3, <2>4
<1>5. CASE CallShutdown \/ ShutdownReturns \/ Signal \/ ShutdownTimesOut \/ OtherVersion \/ UNCHANGED vars
  <2>1. UNCHANGED <<pc, reply, created, pending, started, done>>
    BY <1>5 DEF CallShutdown, ShutdownReturns, Signal, ShutdownTimesOut, OtherVersion,
                vars, workerVars, mainVars, serverVars
  <2> QED
    BY <2>1, AllKeep, NoneMoves
<1>6. CASE CloseDone
  <2>1. UNCHANGED <<pc, reply, created, pending, started>> /\ done' = TRUE
        /\ \A w \in Workers : pc[w] = "exit"
    BY <1>6 DEF CloseDone, AllLeft, workerVars, serverVars
  <2>2. \A x \in Tasks : Status(x)' = Status(x)
    BY <2>1, AllKeep
  <2>3. \A x \in Tasks : Status(x) \notin {"assigned", "running"}
    BY <2>1 DEF Status, Held
  <2>4. Service!Close
    BY <2>1, <2>2, <2>3 DEF Service!Close
  <2> QED
    BY <2>4 DEF Service!Next
<1>7. CASE NewTask
  <2>1. PICK t \in Tasks \ created : pending' = pending \cup {t} /\ created' = created \cup {t}
    BY <1>7 DEF NewTask
  <2>2. UNCHANGED <<pc, reply, started, done>>
    BY <1>7 DEF NewTask, workerVars, mainVars
  <2>3. Status(t) = "unknown" /\ Status(t)' = "waiting"
    BY <2>1 DEF Status
  <2>4. \A x \in Tasks \ {t} : Status(x)' = Status(x)
    BY <2>1, <2>2 DEF Status, Held
  <2>5. Service!Moves(t, "unknown", "waiting")
    BY <2>2, <2>3, <2>4, OneMoves
  <2> QED
    BY <2>5 DEF Service!Next, Service!Appear
<1>8. CASE OtherTakes
  <2>1. PICK t \in pending : pending' = pending \ {t}
    BY <1>8 DEF OtherTakes
  <2>2. UNCHANGED <<pc, reply, created, started, done>> /\ t \in Tasks /\ t \in created
    BY <1>8 DEF OtherTakes, workerVars, mainVars, TypeOK, Custody
  <2>3. t \notin started /\ \A u \in Workers : reply[u].task # t
    BY <1>0, <2>2 DEF Custody, TypeOK
  <2>4. Status(t) = "waiting"
    BY <2>2 DEF Status
  <2>5. Status(t)' = "gone"
    BY <1>0, <2>1, <2>2, <2>3 DEF Over
  <2>6. \A x \in Tasks \ {t} : Status(x)' = Status(x)
    BY <2>1, <2>2 DEF Status, Held
  <2>7. Service!Moves(t, "waiting", "gone")
    BY <2>2, <2>4, <2>5, <2>6, OneMoves
  <2> QED
    BY <2>2, <2>7 DEF Service!Next, Service!Withdraw
<1> QED
  BY <1>1, <1>2, <1>3, <1>4, <1>5, <1>6, <1>7, <1>8 DEF Next, Worker, Main, Terminated

(* ImplementsService: whatever the workers, the versions, the failures and    *)
(* the shutdown do, a task that reaches the runner is started once and ends,  *)
(* or is lost with its answer, and done is closed when none is left.          *)
THEOREM ServesTasks == Spec => ImplementsService
<1>1. Init => Service!Init
  BY DEF Init, Service!Init, Status
<1> QED
  BY <1>1, ServiceStep, TypeCorrect, InCustody, Draining, PTL
     DEF Spec, ImplementsService, Service!Spec
=============================================================================
