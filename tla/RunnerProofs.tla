---------------------------- MODULE RunnerProofs ----------------------------
(***************************************************************************)
(* Proofs about the runner, for every number of workers and tasks.         *)
(***************************************************************************)
EXTENDS Runner, TLAPS

(* The places at which a worker's task is marked, if no call raced. *)
Marked == InRun \cup {"close"}

(* The types, and: a mark belongs to a task between Store and Delete. *)
TypeInv ==
    /\ runningTasks \subseteq {task[w] : w \in {u \in Workers : pc[u] \in Marked}}
    /\ envs \in [Keys -> Tasks \cup {None}]
    /\ pc \in [Workers -> {"idle", "load", "store", "close"} \cup InRun]
    /\ task \in [Workers -> Tasks \cup {None}]
    /\ \A w \in Workers : pc[w] = "idle" <=> task[w] = None
    /\ given \in 0..MaxGiven

(* The initial types. *)
LEMMA TypeInit == Init => TypeInv
BY TasksAssumption DEF Init, TypeInv, Marked, InRun, Writing

(* Every step keeps the types.  A refused worker leaves the mark to the one  *)
(* that runs the task; the mark is removed by the one that runs it.          *)
LEMMA TypeStep == TypeInv /\ [Next]_vars => TypeInv'
<1> SUFFICES ASSUME TypeInv, [Next]_vars PROVE TypeInv'
  OBVIOUS
<1> USE TasksAssumption, NoneAssumption DEF TypeInv, Marked, InRun, Writing, Goto
<1>1. ASSUME NEW w \in Workers, Given(w) PROVE TypeInv'
  BY <1>1 DEF Given
<1>2. ASSUME NEW w \in Workers, Load(w) PROVE TypeInv'
  <2>1. CASE task[w] \in runningTasks
    BY <1>2, <2>1 DEF Load, Refuse, Free
  <2>2. CASE task[w] \notin runningTasks
    BY <1>2, <2>2 DEF Load
  <2> QED
    BY <2>1, <2>2
<1>3. ASSUME NEW w \in Workers, Store(w) PROVE TypeInv'
  BY <1>3 DEF Store
<1>4. ASSUME NEW w \in Workers, Prepare(w) PROVE TypeInv'
  BY <1>4 DEF Prepare, history
<1>5. ASSUME NEW w \in Workers, SetIdUrl(w) \/ SetIdToken(w) PROVE TypeInv'
  BY <1>5 DEF SetIdUrl, SetIdToken, Set, Keys, history
<1>6. ASSUME NEW w \in Workers, SetRuntime(w) PROVE TypeInv'
  BY <1>6 DEF SetRuntime, RuntimeToken, Keys, history
<1>7. ASSUME NEW w \in Workers, Read(w) PROVE TypeInv'
  BY <1>7 DEF Read, local
<1>8. ASSUME NEW w \in Workers, RunReturns(w) PROVE TypeInv'
  BY <1>8 DEF RunReturns, Active, history
<1>9. ASSUME NEW w \in Workers, Delete(w) PROVE TypeInv'
  BY <1>9 DEF Delete, Unmark, Free
<1>10. CASE Fatal \/ UNCHANGED vars
  BY <1>10 DEF Fatal, vars, local, history
<1> QED
  BY <1>1, <1>2, <1>3, <1>4, <1>5, <1>6, <1>7, <1>8, <1>9, <1>10 DEF Next, Step, Done

(* The variables keep their types, and no mark outlives its task. *)
THEOREM TypeCorrect == Spec => []TypeOK
<1>1. TypeInv => TypeOK
  BY DEF TypeInv, TypeOK, Marked, InRun, Writing
<1> QED
  BY <1>1, TypeInit, TypeStep, PTL DEF Spec

-----------------------------------------------------------------------------
(* While no call has raced, the tasks between Load and Delete are different, *)
(* and marked once they are stored.                                          *)
Apart ==
    ~raced => \A w \in Workers :
        /\ pc[w] \in Marked => task[w] \in runningTasks
        /\ pc[w] \in Marked \cup {"store"} =>
              \A u \in Workers \ {w} : pc[u] \in Marked \cup {"store"} => task[u] # task[w]

(* Every step keeps the tasks apart: Load finds the mark of a task that runs,*)
(* or raises raced for one that is about to be marked.                       *)
LEMMA ApartStep == TypeInv /\ Apart /\ [Next]_vars => Apart'
<1> SUFFICES ASSUME TypeInv, Apart, [Next]_vars PROVE Apart'
  OBVIOUS
<1> USE DEF TypeInv, Apart, Marked, InRun, Writing, Goto
<1>1. ASSUME NEW w \in Workers, Given(w) PROVE Apart'
  BY <1>1 DEF Given
<1>2. ASSUME NEW w \in Workers, Load(w) PROVE Apart'
  <2>1. CASE task[w] \in runningTasks
    BY <1>2, <2>1 DEF Load, Refuse, Free
  <2>2. CASE task[w] \notin runningTasks
    <3>1. pc' = [pc EXCEPT ![w] = "store"] /\ UNCHANGED <<runningTasks, task>>
      BY <1>2, <2>2 DEF Load
    <3>2. ASSUME ~raced'
          PROVE  ~raced /\ \A u \in Workers \ {w} : ~(pc[u] = "store" /\ task[u] = task[w])
      BY <1>2, <2>2, <3>2, Zenon DEF Load
    <3> SUFFICES ASSUME ~raced,
                        \A u \in Workers \ {w} : ~(pc[u] = "store" /\ task[u] = task[w])
                 PROVE  Apart'
      BY <3>2, Zenon
    <3>3. \A u \in Workers \ {w} : pc[u] \in Marked \cup {"store"} => task[u] # task[w]
      BY <2>2
    <3> QED
      BY <3>1, <3>3
  <2> QED
    BY <2>1, <2>2
<1>3. ASSUME NEW w \in Workers, Store(w) PROVE Apart'
  BY <1>3 DEF Store
<1>4. ASSUME NEW w \in Workers, Prepare(w) PROVE Apart'
  BY <1>4 DEF Prepare, history
<1>5. ASSUME NEW w \in Workers, SetIdUrl(w) \/ SetIdToken(w) \/ SetRuntime(w) PROVE Apart'
  BY <1>5 DEF SetIdUrl, SetIdToken, SetRuntime, Set, history
<1>6. ASSUME NEW w \in Workers, Read(w) PROVE Apart'
  BY <1>6 DEF Read, local
<1>7. ASSUME NEW w \in Workers, RunReturns(w) PROVE Apart'
  BY <1>7 DEF RunReturns, Active, history
<1>8. ASSUME NEW w \in Workers, Delete(w) PROVE Apart'
  BY <1>8 DEF Delete, Unmark, Free
<1>9. CASE Fatal \/ UNCHANGED vars
  BY <1>9 DEF Fatal, vars, local, history
<1> QED
  BY <1>1, <1>2, <1>3, <1>4, <1>5, <1>6, <1>7, <1>8, <1>9 DEF Next, Step, Done

(* Without a race of two calls, a task runs once at a time. *)
THEOREM OnceAtATime == Spec => []RunsOnceAtATime
<1>1. Init => Apart
  BY DEF Init, Apart, Marked, InRun, Writing
<1>2. Apart => RunsOnceAtATime
  BY DEF Apart, RunsOnceAtATime, Active, Marked
<1> QED
  BY <1>1, <1>2, TypeInit, TypeStep, ApartStep, PTL DEF Spec

-----------------------------------------------------------------------------
(* The history variables are functions on the workers. *)
HistoryInv ==
    /\ seen \in [Workers -> SUBSET (Keys \X (Tasks \cup {None}))]
    /\ alone \in [Workers -> BOOLEAN]

(* The keys of its own that a worker has written, on its way to exec. *)
Written(w) == {k \in OwnKeys(w) :
    \/ pc[w] = "idToken" /\ k = "ID_TOKEN_REQUEST_URL"
    \/ pc[w] = "runtime" /\ k # "RUNTIME_TOKEN"
    \/ pc[w] = "exec"}

(* Outside run a worker has found nothing.  One that is alone in run is alone *)
(* there now, the map holds its own token under the keys it has written, and  *)
(* it has found no other under them.                                          *)
Tokens(w) ==
    /\ pc[w] \in {"idle", "load", "store"} => seen[w] = {}
    /\ alone[w] =>
          /\ Active(w) => \A u \in Workers \ {w} : ~Active(u)
          /\ \A k \in Written(w) : envs[k] = task[w]
          /\ \A k \in OwnKeys(w), t \in Tasks : <<k, t>> \in seen[w] => t = task[w]
TokenInv == HistoryInv /\ \A w \in Workers : Tokens(w)

(* Every step keeps TokenInv: a write by a worker that is not alone any more *)
(* does not matter, and one that is alone writes its own token.              *)
LEMMA TokenStep == TypeInv /\ TokenInv /\ [Next]_vars => TokenInv'
<1> SUFFICES ASSUME TypeInv, TokenInv, [Next]_vars PROVE TokenInv'
  OBVIOUS
<1> USE NoneAssumption DEF TypeInv, TokenInv, HistoryInv, Tokens, Written, OwnKeys, Active, InRun, Writing, Goto
<1>1. ASSUME NEW w \in Workers, Given(w) PROVE TokenInv'
  BY <1>1 DEF Given
<1>2. ASSUME NEW w \in Workers, Load(w) PROVE TokenInv'
  <2>1. CASE task[w] \in runningTasks
    <3>1. /\ pc' = [pc EXCEPT ![w] = "idle"] /\ task' = [task EXCEPT ![w] = None]
          /\ seen' = [seen EXCEPT ![w] = {}] /\ UNCHANGED envs
      BY <1>2, <2>1 DEF Load, Free
    <3>2. alone' = [alone EXCEPT ![w] = TRUE]
      BY <1>2, <2>1 DEF Load, Free
    <3>3. HistoryInv'
      BY <3>1, <3>2
    <3>4. Tokens(w)'
      BY <3>1
    <3>5. ASSUME NEW u \in Workers \ {w} PROVE Tokens(u)'
      BY <3>1, <3>2, <3>5
    <3> QED
      BY <3>3, <3>4, <3>5
  <2>2. CASE task[w] \notin runningTasks
    BY <1>2, <2>2 DEF Load
  <2> QED
    BY <2>1, <2>2
<1>3. ASSUME NEW w \in Workers, Store(w) PROVE TokenInv'
  <2>1. /\ pc[w] = "store" /\ pc' = [pc EXCEPT ![w] = "prepare"]
        /\ UNCHANGED <<envs, task, seen>>
    BY <1>3 DEF Store
  <2>2. /\ alone'[w] => \A x \in Workers \ {w} : ~Active(x)
        /\ \A u \in Workers \ {w} : alone'[u] => alone[u] /\ ~Active(u)
    BY <1>3 DEF Store
  <2>3. alone' \in [Workers -> BOOLEAN]
    BY <1>3 DEF Store
  <2>4. HistoryInv'
    BY <2>1, <2>3
  <2>5. Tokens(w)'
    BY <2>1, <2>2
  <2>6. ASSUME NEW u \in Workers \ {w} PROVE Tokens(u)'
    BY <2>1, <2>2, <2>6
  <2> QED
    BY <2>4, <2>5, <2>6
<1>4. ASSUME NEW w \in Workers, Prepare(w) PROVE TokenInv'
  BY <1>4 DEF Prepare, history
<1>5. ASSUME NEW w \in Workers, SetIdUrl(w) \/ SetIdToken(w) PROVE TokenInv'
  BY <1>5 DEF SetIdUrl, SetIdToken, Set, Keys, history
<1>6. ASSUME NEW w \in Workers, SetRuntime(w) PROVE TokenInv'
  BY <1>6 DEF SetRuntime, RuntimeToken, Keys, history
<1>7. ASSUME NEW w \in Workers, Read(w) PROVE TokenInv'
  BY <1>7 DEF Read, local
<1>8. ASSUME NEW w \in Workers, RunReturns(w) PROVE TokenInv'
  BY <1>8 DEF RunReturns, history
<1>9. ASSUME NEW w \in Workers, Delete(w) PROVE TokenInv'
  BY <1>9 DEF Delete, Free
<1>10. CASE Fatal \/ UNCHANGED vars
  BY <1>10 DEF Fatal, vars, local, history
<1> QED
  BY <1>1, <1>2, <1>3, <1>4, <1>5, <1>6, <1>7, <1>8, <1>9, <1>10 DEF Next, Step, Done

(* A task that has the runner for itself only finds its own tokens.           *)
THEOREM OwnToken == Spec => []OwnTokenAlone
<1>1. Init => TokenInv
  BY DEF Init, TokenInv, HistoryInv, Tokens, Written, Active, InRun, Writing
<1>2. TokenInv => OwnTokenAlone
  BY DEF TokenInv, Tokens, OwnTokenAlone
<1> QED
  BY <1>1, <1>2, TypeInit, TypeStep, TokenStep, PTL DEF Spec
=============================================================================
