# Verification of act_runner

TLA+ models of act_runner, the runner of Gitea Actions, checked with TLC, and
theorems about them checked with TLAPS. Paths are relative to the root of the
repository; line numbers are those of the commit the models were written from.

    tlc -config ReporterFaults.cfg MCReporter.tla   # one run
    tlapm ReporterProofs.tla                        # the proofs of a module

## 1. The system

`act_runner daemon` asks a Gitea server for tasks, runs each with the act
library and reports its log, its state and its outputs to the server.

| Component | Code | State | Operations |
|---|---|---|---|
| reporter | `internal/pkg/report/reporter.go` | `logOffset`, `logRows`, `state`, `outputs`, `closed`, the masks, the token that ends a stop, two mutexes, a timer | `Fire`, `parseLogRow`, `handleCommand`, `addMask`, `Logf`, `ResetSteps`, `SetOutputs`, `RunDaemon`, `ReportLog`, `ReportState`, `Close` |
| poller | `internal/app/poll/poller.go` | `tasksVersion`, `pollingCtx`, `jobsCtx`, `done` | `Poll`, `PollOnce`, `fetchTask`, `Shutdown` |
| runner | `internal/app/run/` | `runningTasks`, the map `envs` shared by the tasks | `Run`, `run`, `Declare`, `generateWorkflow` |
| daemon | `internal/app/cmd/daemon.go`, `internal/pkg/envcheck/` | the docker host it found | start (labels, docker, registration, declare), run, shut down |
| registration | `internal/app/cmd/register.go`, `internal/pkg/config/registration.go`, `scripts/run.sh` | the inputs and their stage, the file `.runner` | `registerInteractive`, `registerNoInteractive`, `doRegister`, load and save, the retries of the script |
| labels | `internal/pkg/labels/labels.go` | none | `Parse`, `ToStrings`, `Names`, `PickPlatform`, `RequireDocker` |
| configuration | `internal/pkg/config/` | none | `LoadDefault`: the file, old environment variables, the env file, defaults |
| exec, cache server, client, charts | | none | see section 7 |

How they interact. Each of `runner.capacity` workers of the poller fetches a
task and calls `Runner.Run`, which makes one Reporter for the task and returns
when the task is over. The Reporter is written to by the executor (through
`Fire`, a logrus hook), and reports from two goroutines: the one that runs the
task (its first report, and `Close`) and a chain of timers (`RunDaemon`). The
calls to the server are UpdateLog and UpdateTask under `clientM`; the fields
written by the executor are under `stateMu`, which is never held over a call.
Cancellation goes through contexts: a task's context ends with its deadline,
with a "cancelled" answer of the server, or when `Run` returns.

What is hard here: rows are written while others are being acknowledged; two
goroutines report; a call may fail on one side only, or arrive late; the state
must be complete when `Close` says so; workers race on one version number that
decides whether the server looks for tasks at all; shutdown has to drain
workers that wait, fetch or run; masks overlap, and commands that are read from
the log switch the reading of commands off and on; docker may come, go or be
another one between the moments it is looked at. The list `hazards` of PROJECT.json has each
at its line, with the properties that would catch it going wrong.

What makes each component correct:

- reporter: the log arrives whole, once and in order; a step's log interval
  holds exactly its rows; a reported state is never taken back; an output is
  taken for sent only if it is; `Close` returns nil only if everything has
  been delivered; every task ends; a cancellation is obeyed; no row shows a
  masked value; commands are obeyed exactly while they are not stopped.
- poller: the version never hides a waiting task; a waiting task is taken; the
  process ends after a signal but not before its tasks; once means once.
- runner: no task runs twice at a time; a task's environment is its own.
- registration: one identity per runner, replaced only with consent; no runner
  is left behind on the server without a fault; only valid labels, an address
  and a token reach `doRegister`; a container comes back whatever a crash left;
  the retries are bounded as configured.
- daemon and labels: the labels in the file, in effect and declared agree, each
  has a platform, and docker is used only where it was checked.
- configuration: what is loaded can be used as it is; a file hides the old
  environment variables.

## 2. The modules

| Module | What it is |
|---|---|
| `LogDelivery` | abstract: a log written by the job, a prefix of it stored, and the outcome of `Close` |
| `Reporter` | one task: `Runner.Run`, the executor, the Reporter, its two goroutines, the calls and the server |
| `MCReporter` | `Reporter` for TLC |
| `ReporterProofs` | theorems about `Reporter`: the types and the log |
| `DeliveryProofs` | theorems about `Reporter`: the outputs, `Close`, that it implements `LogDelivery`, the steps' logs and the state the server has |
| `Commands` | the content of the rows: workflow commands and masks, line after line |
| `CommandsProofs` | theorems about `Commands` |
| `TaskService` | abstract: how far each task has come, and whether the runner is open for tasks |
| `Poller` | the workers, the shared version, run-once, the shutdown, the server's queue |
| `PollerProofs` | theorems about `Poller` |
| `Runner` | what the tasks of one runner share: `runningTasks` and `envs` |
| `RunnerProofs` | theorems about `Runner` |
| `Labels` | operators: the functions of `labels.go` |
| `Docker` | operators: where docker is found, and what the daemon makes of it |
| `Registration` | `register` in both modes, the registration file, the container's script, the start of the daemon; uses `Labels` and `Docker` |
| `RegistrationProofs` | theorems about `Registration` |
| `Config` | operators: `LoadDefault` |
| `ConfigProofs` | theorems about `Config` |
| `Induction` | lemmas: induction over numbers, for the proofs about recursive functions |
| `MCPoller`, `MCRunner`, `MCRegistration`, `MCCommands` | the same for TLC: symmetry where it is sound, small sets of flags, labels and lines |

### Reporter

The fields of the struct keep their names. A row is its position in the
history and the step that wrote it raw (0: none); `hist`, the history of the
rows, is a history variable. A remote call is three steps: sent (`SendLog`,
`SendState`: the request is built from the fields at that moment), executed
(`Serve`), answered (`LogAnswered`, `StateAnswered`) or failed (`CallFails`;
`CallRefused` when the context was done before). `clientM` is the mutex; what
`stateMu` protects is one action per critical section, as no call is made
under it. `rep[p]` is the place of goroutine p in ReportLog and ReportState,
`job` and `daemon` are the places of the two goroutines around it, and `Leave`
is what the callers do with the result: the timer ignores errors and arms the
next one, an attempt of `Close` ends at the first error.

`Fire` is modelled with its three branches on the data that matters: the
stage, the step, whether the entry is raw or an error, and the two results.
Whether an entry gives a row is open here; module `Commands` has when. `duringSteps`, `parseResult`, the index and length of a step's log and
the results given to unfinished steps are as in the code.

The executor is act's and not in the repository. The model takes from it only
what the code relies on: steps come one after the other, each ends with one
result, a failed step logs its error before anything else, the job's result
comes last. It may stop anywhere (`RunFails`, `ExecReturns`).

The server is modelled from how the reporter uses it: UpdateLog appends the
rows it does not have yet, or only some of them, if there is no gap, and
answers how many it has; UpdateTask keeps the state and takes some outputs.
`LossyServer` lets it lose rows (the case of line 282; the history variable
`lost` says that it did), `LateCalls` lets a call that failed on the client be
executed later; a late UpdateTask replaces a newer state, and `stale` says that
the state the server has is one of those. `LogDelivery`, which `Reporter`
implements, has one step for each: rows are written, stored, lost, and `Close`
returns.

`closed` is read by the timer without a lock (line 179), so the model lets it
read the old value until `clientM` has ordered it after `Close` (`closedSeen`).

### Commands

Everything here runs with `stateMu` held, so a line is a step. A text is a
sequence of words; that is enough for the replacer, which looks for masks inside
a text, and for the commands, which are recognised as a whole. `Replace` is
Go's `strings.Replacer` as the reporter uses it: the first mask that fits at a
place, no second look at what was replaced, and the empty mask (an empty
secret, or `::add-mask::`) fits between all words. It is a
recursive function of the place in the text. `handleCommand` is one action
for each case of its switch, with the early return as the guard `Stopped` and
the order of the cases kept: a token that is a command's name never reaches the
last case. The secrets come from a map, so `Init` takes them in any order.

### Poller

`once` says whether the daemon runs `PollOnce` or `Poll`: of the workers only
one is there in the former case. `pc[w]` is where a worker is: waiting for the limiter, waiting for the answer,
between the two compare-and-swaps (`clear`), running, checking the context, or
gone. `Shutdown` is `CallShutdown`, `ShutdownTimesOut` and `ShutdownReturns`;
the receive of line 96 is modelled as what it does, a wait for `done`. The
rate of the limiter is left out: it only delays. The server looks for a task
only if the version in the request differs from its own, and its version grows
with every new task (and for tasks this runner cannot take). `TaskService`,
which `Poller` implements, has no workers and no versions: a task appears, is
withdrawn or assigned, is lost with its answer or started, and ends; `Status`
says where a task is in the variables of `Poller`.

### Runner

`pc[w]` is where a worker is in `Run`. The look-up in `runningTasks` (`Load`)
and the store (`Store`) are two steps, as in the code; `Delete` is the deferred
removal. `envs` maps each of the three keys the tasks write to the task its
value belongs to; each write is a step, and the executor, which has the map
itself, reads any key at any time (`Read`). A write while another goroutine
reads or writes the map is a data race, for which the Go runtime may end the
process (`Fatal`). The server may give a task twice.

### Registration, Labels and Docker

A label string is the sequence of the parts its first two colons make, so that
`Label`, `ToString` and the others are one line each. `Accepted` is the loop of
the daemon, of `NewRunner` and of `register` over such strings, which ignores
those that do not parse. `Registration` runs one
process at a time: in a container the script, which tests the file (`-s`),
loops over `register --no-interactive` and then becomes the daemon; on a host a
user who calls `register` in either mode, or `daemon`, in any order. `pc` is the
place in the process; the stages of the interactive mode have their names, with
one action for each branch of `assignToNext`. A text is empty, of blanks only,
or not, which is all that the code distinguishes. The name of the host, which
stands in for a runner's name, may be empty: the error of `os.Hostname` is
dropped in both modes. The file is absent, whole,
empty (truncated and not yet written) or torn (a write that failed half-way).
`Crash` ends everything at any point, `RegisterKilled` only the child of the
script. The configuration may change whenever nothing runs. A daemon that
requires docker may wait (`DockerWaits`, each time with the path it finds, or
none; `DockerWaited`: the wait ends with an answer or with its timeout) and then
looks for the path again: `SocketPaths` is what `getDockerSocketPath` may find at some
moment, `Checked` what becomes of the configuration and of DOCKER_HOST when the
ping of that path succeeds. What the wait found last stays in `docker.found`
until then, so that a daemon that went on with it would be noticed.

### Config

`LoadDefault` is the composition of its three stages (old environment
variables, env file, defaults), each an operator on the record of the settings
that have a rule. There is nothing to interleave, so there is no run: what can
be said is proved, for every file, environment and env file.

## 3. The runs

| Run | Bounds | Shows |
|---|---|---|
| `reporter_steps` | 2 steps that succeed or fail, 5 rows | `TypeOK`, `StepLogs`, `CloseDelivers`, `StateForward` |
| `reporter_faults` | 1 step, 2 rows, 1 output, 2 attempts, a server that may lose rows, 2 faults, calls that may arrive late | `LogIntact`, `NeverLost`, `SentIsStored`, `CloseDelivers`, `StateForward`, and `Reporter` implements `LogDelivery` |
| `reporter_fair` | 1 step, 3 rows, 1 fault | `Ends`, `CancelObserved` |
| `reporter_not_all` | no faults | violated: `NotAllMeansRowsLeft` |
| `reporter_long_value` | one value too long | violated: `LongValuesIgnored` |
| `commands` | 4 lines out of 13, 4 sets of secrets | `TypeOK`, `ValuesHidden`, `OthersShown`, `SilentWhileStopped`, `ResumesOnToken` |
| `poller_tasks` | 2 workers (or one that runs once), 2 tasks, version up to 3 | `TypeOK`, `NoHiddenTask`, `NothingLeftRunning`, `OneTask`, `TasksTaken`, `SignalEnds`, `OnceEnds`, and `Poller` implements `TaskService` |
| `poller_timeout` | 1 worker, tasks that may not end | violated: `TimeoutStopsJobs` |
| `registration` | 4 sets of flags, 4 lists of labels, 4 docker hosts, 2 registrations by hand, 2 faults | `TypeOK`, `ReadyToRegister`, `NoLeak`, `IdentityKept`, `LabelsAgree`, `EphemeralKept`, `PlatformsServed`, `MountIsChecked`, `Recovers` |
| `registration_attempts` | 2 attempts allowed, no faults | violated: `AttemptsBounded` |
| `runner_tasks` | 3 workers, 2 tasks, 4 calls of `Run` | `TypeOK`, `RunsOnceAtATime`, `OwnTokenAlone` |
| `runner_token` | 2 workers, 2 tasks | violated: `TaskToken` |

The bounds. `MaxRows` stops the executor from writing, not the reporter: the
rows of `SetOutputs`, of a failed step's error and of `Close` come on top, so
that with `MaxRows` = 2 there still are rows acknowledged, rows in flight and
rows written meanwhile at once; two steps are the first and the last of `duringSteps` with
a boundary between; two attempts let the first fail in each way and the second
succeed; `MaxFaults` bounds the failures while the context lasts (once it is
done calls may fail freely). One late call is kept at a time. Two workers on
two tasks let one worker's stale store meet another's, and leave a task in the
queue when one is taken; more workers are covered by the proofs of section 5.
Four calls of `Run` on two tasks let a task be refused and given a third time
while it runs. Four lines are a stop, a line it hides, its end token and a
line behind it, or a mask, one that overlaps it and two rows; the masks are
prefixes of each other, suffixes, empty, and values of the task. The lists of labels have one that is saved in another form, one
that is not, a name given twice, an invalid one, and a valid one after an
invalid one; the docker hosts are found, given by DOCKER_HOST (a socket, the
network, empty) and configured; two faults
let a crash follow a crash, and a container that lost its file lose it again.
The counter of register calls stops above its maximum and nothing depends on
it. Deadlock is checked in every run but `commands`, whose log ends after
`MaxLines`: the other systems stop only at the end of the task, of the process
or of the bound on calls, and there they stutter.

What the violated runs say:

- `NotAllMeansRowsLeft`: `ReportLog` moves `logOffset` to the acknowledgement
  (line 288) and then compares the acknowledgement with `logOffset+len(rows)`
  (line 291), so the attempt that submits the last rows always fails with "not
  all logs are submitted". The next attempt has no rows and goes on to the
  state, so a `Close` needs an attempt more than it should, and the final state
  is lost if the context ends in between.
- `LongValuesIgnored`: the branch for long values says the output is ignored
  but lacks the `continue` of the branch for long keys.
- `AttemptsBounded`: the script increments `try` once, before the loop that
  compares it with `GITEA_MAX_REG_ATTEMPTS` (`run.sh:36`), so a server that
  refuses the registration is asked for ever. With a maximum of 1 it is never
  asked, so `Recovers` is stated for a maximum of 2 or more.
- `TaskToken`: every task writes its token to the one map `envs` of the runner
  and hands this map to its executor, so with `runner.capacity` above 1 a task
  may call the server with the token of another. `OwnTokenAlone` is what
  remains true of all the keys a task has values for, and it is proved. (The
  keys of the id token even stay for the next task that has none.)
- `TimeoutStopsJobs`: the "non-blocking check" of line 96 blocks, so jobs are
  never cancelled when `shutdown_timeout` passes, against `config.example.yaml`.

## 4. Fairness

Safety is checked under `Spec`, which assumes nothing. `FairSpec` of `Reporter`
assumes that the goroutines run (weak fairness of each one's next step), that a
call whose context is done returns and that the executor returns once its
context is done; nothing of the server. `Ends` adds, as a premise, that the
deadline of the task's context comes (`runner.timeout` is set to three hours if
it is not configured); `CancelObserved`, instead, that the server answers: the
code only learns of a cancellation from an answer.

`FairSpec` of `Poller` assumes that the goroutines run, that the timer of the
shutdown fires, that a request ends when its context does, that tasks end
(each has the deadline above) and strong fairness of the network: a worker
that asks over and over is answered some day. `NoEndSpec` leaves out the last
two, because the documentation of the timeout is about tasks that do not end.

`FairSpec` of `Registration` assumes that processes run and that the container
is started again when it ends, and strong fairness of the server's answers to
register and declare and of docker: what is asked for again and again succeeds
some day. Of an ephemeral runner it assumes neither the restart nor the answer
to declare: such a runner takes a single job (`cmd.go:42`), the charts give its
container `restartPolicy: Never`
(`charts/act-runner-scale-set/templates/_helpers.tpl:174-175`), and a container
that is started all the same, with the file of a runner whose job is done, finds
a server that need not know it. `Recovers` therefore is about the others. Users
are not fair: a prompt may wait for ever.

## 5. What is proved

`PollerProofs`, for any number of workers, tasks and versions, from the named
assumptions on the constants (there is a worker; `NoTask` is no task):

- `TypeCorrect`: the types, with the fact that a worker about to run has a task.
- `TasksVisible`: `NoHiddenTask`. The invariant is strengthened by: a version
  that is held or answered is never ahead of the server's, and a worker whose
  answer without a task has the current version leaves no task waiting. The
  compare-and-swap of line 178 then stores the current version only when no
  task waits or the worker is about to set it back.
- `Drained`: `NothingLeftRunning`, from: `done` only when every worker is gone.
- `RunsOnce`: `OneTask`, from: of a runner that runs once only one worker is
  there, and having started a task it never fetches again.
- `ServesTasks`: `ImplementsService`, the refinement of `TaskService`. `Custody`
  says who has a task: it is in the queue, or in the answer of one worker and
  no other, and only the task of a worker at "run" has been started; a worker
  that waits or has left has no answer. With it each step of `Poller` moves
  one task on its way (`OneMoves`), closes the service, or moves none.

`CommandsProofs`, for any words, values, messages and number of lines:

- `Silent` (`SilentWhileStopped`) and `Resumes` (`ResumesOnToken`). The two say
  of the log what the code keeps in one variable, so the invariant ties the
  variable to the log: while the last stop is in effect the token is its value
  (`TokenIsLast`), and since an end token without a stop after it there is none
  (`TokenIsGone`). `StepCases` says once what any line does to the token and to
  itself.
- `TypeCorrect`: `TypeOK`, in which the row is at most one and of words, colons
  and stars.
- `Hides` (`ValuesHidden`) and `ShowsOthers` (`OthersShown`). The invariant
  `ReplacerKnows` says that the masks are exactly the values a reader expects to
  be hidden and that the row is what the replacer made of the last line; the
  rest is about the replacer. `ReplaceHides`: a value that is among the masks
  occurs nowhere in what it returns. What is copied between two replacements is
  free of every mask, because at each place of it none fitted, and a value
  cannot reach over a replacement, because the stars are in no value; from the
  end of the text to its beginning this makes the whole row clean (`CleanBehind`).
  `ReplaceKeeps`: a text in which no mask occurs is copied word for word.
  The former needs that no value contains the stars (`WordsAssumption`; see
  section 6).

`ConfigProofs`, for every file, environment and env file over any set of texts
that has the defaults: `LoadedIsReady`, `FileHidesEnvironment`, and
`LoadedTwice`, which rests on `DefaultsSettle` (after the defaults no rule
applies any more) and `SettledStays` (then they change nothing).

`RunnerProofs`, for any number of workers, tasks and calls:

- `TypeCorrect`: the types, and that no mark in `runningTasks` outlives its task.
- `OnceAtATime`: `RunsOnceAtATime`. The inductive part: while no two calls have
  raced, the tasks between `Load` and `Delete` are different, and marked once
  they are stored.
- `OwnToken`: `OwnTokenAlone`, from: a worker that is alone in `run` is alone
  there now, and while its executor runs the map holds its own values.

`ReporterProofs`, for any number of steps, rows, attempts, faults and outputs:

- `TypeCorrect`: `TypeOK` and `Control`. `Control` says where the goroutines
  can be: a goroutine in a call holds `clientM` and has a request of the right
  kind, one outside has neither request nor answer, and only the places around
  ReportLog and ReportState leave a goroutine busy with them.
- `LogCorrectly`: `LogIntact`. It is not inductive: a row is stored because it
  was in a request, and dropped because it was in an answer. `LogInv` adds that
  every request, in flight or late, carries rows of the history at the position
  it names, that an answer never counts more rows than were written, and, as
  long as the server has lost nothing, that no answer is behind the offset or ahead of
  what is stored. The proof has a lemma for each kind of step: rows are written
  (`LogWrites`), a request is built (`LogSend`), an answer moves the offset
  (`LogAnswer`, where `clientM` shows that the other goroutine has no answer
  under way), a request is executed (`LogServe`), rows are lost (`LogLoses`),
  nothing of the log changes (`LogQuiet`).
- `NothingLost`: `NeverLost`, from the same invariant.

`DeliveryProofs`, for the same:

- `SentOutputs`: `SentIsStored`, with the fact that an answer in flight names
  only outputs the server has.
- `CloseKeepsItsWord`: `CloseDelivers`. A `Close` that returns nil is the end of
  a long story, told by the four parts of `CloseInv`: its attempt goes on from
  the log to the state only when no row is left (`Submitted`; rows are not
  written any more, so none comes back); a job that has a result has one for
  every step (`Concluded`); from the last UpdateTask of `Close` on, every state
  on its way is the final one, the daemon's too, so the server ends up with it
  whichever comes last (`Current`); and no output was left held (`Accepted`).
- `DeliversLog`: `ImplementsDelivery`, the refinement of `LogDelivery`, from
  `CloseInv` and `LogInv`: each step of `Reporter` writes rows, stores rows,
  loses rows, ends the job, or leaves what `LogDelivery` sees alone.

- `StepsFindTheirLogs`: `StepLogs`. `InOrder` says what the executor's order
  makes of the steps: those before the one at work have a result, those after
  it nothing, and the log of the one at work ends at the end of the history.
  The last holds because nobody else writes a row while that step has written
  and has no result (`Dropped`: `DuringSteps` is true), which is the reason the
  code drops such rows.
- `StateMovesForward`: `StateForward`. `ForwardInv` says of every state on its
  way that it has become the reporter's state, and of what the server has or
  may still get late that it has become every state on its way. It is kept
  because the reporter's own state only moves forward (`NowForward`, which
  needs `InOrder`: a step that ends twice would take a result back) and because
  `clientM` keeps two states from being on their way at once (`OneCall`).

`RegistrationProofs`, for any flags, labels, docker setups, attempts, starts
and faults:

- `Identity` (`IdentityKept`), from where each process can be, what the file
  holds there, and that a register that may not replace a whole file never
  gets past the question (`Places`).
- `StaysEphemeral` (`EphemeralKept`), from what is known of a registration that
  is saved or about to be: it is a runner of the server's, with its token and
  with what was asked for (`Known`).
- `MountsChecked` (`MountIsChecked`), which is inductive: only the check of the
  path that was just looked for sets what is used and mounted, and it forgets
  what the wait found.
- `NoRunnerLeaks`: `NoLeak`, from an account of the runners (`Counted`): one
  belongs to the file or to a register that has its answer, and every other is
  paid for by a fault or a consent.
- `TypeCorrect`: `TypeOK`, with the types of the registrations, of the server's
  runners and of all labels (`Typed`), the places (`Control`) and the range of
  the counters (`Bounded`).
- `RegistersInputs` (`ReadyToRegister`), from what has been asked at each stage
  (`Asked`): labels come from the loop over the configuration, from a prompt
  that was validated, or from the defaults, and whatever the loop keeps parses
  (`AcceptedParses`); an empty address or token keeps its stage, or ends the
  register that does not ask.
- `LabelsInEffect` (`LabelsAgree`): the daemon saves what `ToStrings` makes of
  its labels and goes on with those it had, so the invariant (`Effective`) rests
  on `RoundTrip`: labels that were parsed, written out and parsed again are the
  same, although the strings may not be (`a` becomes `a:host`).
- `ServesDeclared` (`PlatformsServed`), from the same invariant and `Picked`:
  of labels with one name the last one counts, for the daemon and for the job.

`Induction` is what the proofs about `Accepted` and `Replace` rest on. The
library's induction theorems take an operator as a parameter, which the provers
cannot instantiate; the lemmas here take a set of numbers instead (one that
holds 0 and with every number the next holds all numbers; one that holds a
number whenever it holds all above it, up to a bound, holds all below the
bound), and follow from the well-foundedness of the order on Nat. With them a
recursive function is shown to exist (it is defined as a CHOOSE) and to compute
what is said of it, for sequences of every length.

TLC only: liveness (`Ends`, `CancelObserved`, `TasksTaken`, `SignalEnds`,
`OnceEnds`, `Recovers`), which needs fairness and ENABLED, out of the prover's
reach. Every other property of a passing run is a theorem. The proofs assume of
the constants what the ASSUMEs of the modules name, and TLC evaluates those in
the runs.

## 6. What the models leave out, and what is assumed

- In `Reporter` the text of rows, which `Commands` has; times; the contents of
  states other than results and log intervals. In `Commands` what a character
  is (line ends are trimmed and invalid UTF-8 is replaced after the masks), and
  the parameters of a command, which no case looks at. Stars in a value: one
  that is `*` occurs in every row in which something is hidden, whatever the
  reporter does (`WordsAssumption`).
- A late UpdateTask can replace a newer state on the server, and nothing in the
  reporter prevents it: `StateForward` and `CloseDelivers` except exactly this
  (`stale`), and hold with such calls for all the rest.
- A runner may be registered without a name: where none is given and the host
  has none, both modes go on with an empty one (`register.go:157`, `:306`, and
  `validate` does not look at it). The model does so too; `ReadyToRegister` says
  nothing of the name, because no line of the repository does.
- `RunsOnceAtATime` is about the marks in `runningTasks`. Two calls of `Run` for
  one task that both look before either stores do run it twice; the property
  excepts them (`raced`), as only the server keeps them apart.
- The secret `ACTIONS_ID_TOKEN_REQUEST_TOKEN`, which a task gets after its masks
  were built (`runner.go:180`).
- Outputs are set once, after the executor returned. While `ReportState` goes
  through the map, `SetOutputs` may be storing: the model takes a set of
  outputs at one moment, which is a superset of what a goroutine may see
  earlier; outputs not seen are sent by a later report.
- A panic inside the reporter's own goroutines is not modelled; one in `run` is
  (`RunFails`).
- What the server does with a task whose answer was lost.
- Two `act_runner` processes on one registration file at the same time: a user
  who registers again while the daemon runs changes nothing for that daemon.
- The generation of the workflow from a task's payload, and of the executor's
  input: straight-line code that changes no state and may fail.
- `RUNNER_STATE_FILE` is known to the script only; the models take it to name
  the program's `runner.file`. With another name the script registers a runner
  at every start of the container.

## 7. Not modelled

`exec` and `cache-server` turn flags into the configuration of a library, which
does the work; the client builds HTTP requests; the charts and the supervision
scripts are configuration data. None has a state the program's correctness
rests on.

## 8. What is left

The components with state are modelled, and their safety is proved. What would
be worth adding: `Poller` composed with `Runner` and `Reporter` (a task that is
fetched is run to its end or refused, and the drain of the workers leaves no
mark).
