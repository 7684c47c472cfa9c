----------------------------- MODULE Registration -----------------------------
(***************************************************************************)
(* How a runner gets its identity and its labels: the command register     *)
(* (internal/app/cmd/register.go), the registration file                   *)
(* (internal/pkg/config/registration.go), the start of the daemon          *)
(* (internal/app/cmd/daemon.go) and the script that runs the two in a      *)
(* container (scripts/run.sh).                                             *)
(*                                                                         *)
(* One process runs at a time, and everything but the file, the            *)
(* configuration and the server's runners is lost when it ends.            *)
(***************************************************************************)
EXTENDS Labels, Docker, FiniteSets

CONSTANTS
    Flags,          \* the flags register may be given
    LabelLists,     \* the labels of the configuration, of a prompt
    DefaultLabels,
    DockerSetups,   \* container.docker_host and DOCKER_HOST of a daemon
    MaxAttempts,    \* GITEA_MAX_REG_ATTEMPTS
    MaxStarts,      \* bound: how often a user registers by hand
    MaxFaults       \* bound: crashes, failed writes, answers lost

ASSUME BoundsAssumption == MaxAttempts \in Nat /\ MaxStarts \in Nat /\ MaxFaults \in Nat
ASSUME LabelsAssumption == LabelLists \cup {DefaultLabels} \subseteq Seq(LabelString)
ASSUME DockerAssumption == DockerSetups \subseteq Setup

(* A text flag or line: empty, of blanks only, or not. *)
Text == {"", "blank", "text"}
Inputs == [addr : Text, token : Text, name : Text, labels : Seq(LabelString), ephemeral : BOOLEAN]
ASSUME FlagsAssumption == Flags \subseteq Inputs

TrimSpace(t) == IF t = "blank" THEN "" ELSE t
AllParse(strs) == \A i \in DOMAIN strs : Parses(strs[i])

(* What os.Hostname returns; both callers drop its error. *)
Hostname == {"text", ""}

Registrations == [id : Nat, token : Nat, labels : Seq(LabelString), ephemeral : BOOLEAN]
NoReg == [id |-> 0, token |-> 0, labels |-> <<>>, ephemeral |-> FALSE]
NoInputs == [addr |-> "", token |-> "", name |-> "", labels |-> <<>>, ephemeral |-> FALSE]

VARIABLES
    file,           \* the registration file: its state and what it holds
    cfgLabels,      \* runner.labels of the configuration
    deploy,         \* "container": the script; "host": a user
    flags,          \* the flags of register (in a container: its environment)
    proc, pc,       \* the process that runs, and where it is
    inputs,         \* registerInputs
    reg,            \* the Registration in the process
    ls,             \* the labels of the daemon
    docker,         \* the docker host of the daemon, if it requires one
    try, success,   \* of the script
    runners,        \* the server's runners: declared labels, what was asked for
    \* history
    consented,      \* the user of this register wants to replace the identity
    attempts,       \* calls of register since the container started
    faults, starts, consents, killed

script == <<try, success>>
program == <<inputs, reg, ls, docker>>
world == <<cfgLabels, deploy, flags>>
history == <<attempts, faults, starts, consents, killed>>
vars == <<file, world, proc, pc, program, script, runners, consented, history>>

Whole == file.state = "whole"

Init ==
    /\ file = [state |-> "absent", reg |-> NoReg]
    /\ cfgLabels \in LabelLists
    /\ deploy \in {"container", "host"}
    /\ flags \in Flags
    /\ proc = "none" /\ pc = "off"
    /\ inputs = NoInputs /\ reg = NoReg /\ ls = <<>> /\ docker = NoDocker
    /\ try = 0 /\ success = FALSE
    /\ runners = <<>>
    /\ consented = FALSE
    /\ attempts = 0 /\ faults = 0 /\ starts = 0 /\ consents = 0 /\ killed = FALSE

-----------------------------------------------------------------------------
(* Processes start and end *)

Goto(l) == pc' = l

(* Nothing of a process stays but the file. *)
Reset ==
    /\ inputs' = NoInputs /\ reg' = NoReg /\ ls' = <<>> /\ docker' = NoDocker
    /\ consented' = FALSE

Off ==
    /\ proc' = "none" /\ Goto("off") /\ Reset
    /\ try' = 0 /\ success' = FALSE /\ attempts' = 0

(* register returns: to the script's loop, or to the user. *)
Return(ok) ==
    IF deploy = "host" THEN Off
    ELSE /\ proc' = "none" /\ Goto("loop") /\ Reset
         /\ success' = ok /\ UNCHANGED <<try, attempts>>

StartContainer ==
    /\ pc = "off" /\ deploy = "container"
    /\ Goto("test")
    /\ UNCHANGED <<file, world, proc, program, script, runners, consented, history>>

(* A user's register replaces the identity without asking if it is not       *)
(* interactive.  initInputs copies the flags.                                *)
UserRegisters ==
    /\ pc = "off" /\ deploy = "host" /\ starts < MaxStarts
    /\ starts' = starts + 1
    /\ proc' = "register"
    /\ flags' \in Flags
    /\ inputs' = flags'
    /\ \/ /\ Goto("validate")
          /\ consented' = TRUE /\ consents' = consents + 1
       \/ /\ Goto(IF file.state # "absent" THEN "overwrite" ELSE "instance")
          /\ UNCHANGED <<consented, consents>>
    /\ UNCHANGED <<file, cfgLabels, deploy, reg, ls, docker, script, runners, attempts, faults, killed>>

UserStartsDaemon ==
    /\ pc = "off" /\ deploy = "host"
    /\ proc' = "daemon" /\ Goto("load")
    /\ UNCHANGED <<file, world, program, script, runners, consented, history>>

(* The configuration is read when a process starts. *)
Reconfigure ==
    /\ pc = "off"
    /\ cfgLabels' \in LabelLists
    /\ UNCHANGED <<file, deploy, flags, proc, pc, program, script, runners, consented, history>>

(* The process, or the container, is killed. *)
Crash ==
    /\ pc # "off" /\ faults < MaxFaults
    /\ faults' = faults + 1
    /\ Off
    /\ UNCHANGED <<file, world, runners, starts, consents, killed>>

(* Only register is killed; the script goes on. *)
RegisterKilled ==
    /\ deploy = "container" /\ proc = "register" /\ faults < MaxFaults
    /\ faults' = faults + 1 /\ killed' = TRUE
    /\ Return(FALSE)
    /\ UNCHANGED <<file, world, runners, starts, consents>>

-----------------------------------------------------------------------------
(* The script of the container *)

(* if [[ ! -s file ]]: it is missing or empty.  (Here RUNNER_STATE_FILE and   *)
(* the program's runner.file name the same file.)  (Faults: an empty one will *)
(* do; or a new container always registers.)                                 *)
NeedsRegistration_Exists == file.state = "absent"
NeedsRegistration_Always == TRUE
NeedsRegistration == file.state \in {"absent", "empty"}

Test ==
    /\ pc = "test"
    /\ IF NeedsRegistration THEN try' = try + 1 /\ Goto("loop") /\ UNCHANGED proc
       ELSE proc' = "daemon" /\ Goto("load") /\ UNCHANGED try
    /\ UNCHANGED <<file, world, program, success, runners, consented, history>>

(* The condition of the loop; try is not changed in it.  (Fault: the result  *)
(* of register is not looked at.)                                            *)
TryAgain_NoSuccess == try < MaxAttempts
TryAgain == ~success /\ try < MaxAttempts

Loop ==
    /\ pc = "loop"
    /\ IF TryAgain
       THEN /\ proc' = "register" /\ Goto("validate")
            /\ inputs' = flags
            /\ attempts' = IF attempts > MaxAttempts THEN attempts ELSE attempts + 1
       ELSE proc' = "daemon" /\ Goto("load") /\ UNCHANGED <<inputs, attempts>>
    /\ UNCHANGED <<file, world, reg, ls, docker, script, runners, consented, faults, starts, consents, killed>>

-----------------------------------------------------------------------------
(* register: the inputs *)

(* registerNoInteractive. *)
Validate ==
    /\ pc = "validate"
    /\ LET labels == IF cfgLabels # <<>> THEN cfgLabels
                     ELSE IF inputs.labels # <<>> THEN inputs.labels ELSE DefaultLabels
       IN IF inputs.addr # "" /\ inputs.token # "" /\ AllParse(labels)
          THEN /\ \E host \in Hostname :
                     inputs' = [inputs EXCEPT !.labels = labels, !.name = IF @ = "" THEN host ELSE @]
               /\ Goto("ping")
               /\ UNCHANGED <<proc, reg, ls, docker, script, consented, attempts>>
          ELSE Return(FALSE)
    /\ UNCHANGED <<file, world, runners, faults, starts, consents, killed>>

(* stageValue: a flag is used before a line is read. *)
Value(flag, line) == TrimSpace(IF flag # "" THEN flag ELSE line)

Overwrite ==
    /\ pc = "overwrite"
    /\ \/ /\ Goto("instance")
          /\ consented' = TRUE /\ consents' = consents + 1
          /\ UNCHANGED <<proc, program, script, attempts>>
       \/ Off /\ UNCHANGED consents
    /\ UNCHANGED <<file, world, runners, faults, starts, killed>>

(* An empty address or token keeps the stage. *)
InputInstance ==
    /\ pc = "instance"
    /\ \E line \in Text :
          LET value == Value(inputs.addr, line)
          IN /\ Goto(IF value = "" THEN "instance" ELSE "token")
             /\ inputs' = IF value = "" THEN inputs ELSE [inputs EXCEPT !.addr = value]
    /\ UNCHANGED <<file, world, proc, reg, ls, docker, script, runners, consented, history>>

InputToken ==
    /\ pc = "token"
    /\ \E line \in Text :
          LET value == Value(inputs.token, line)
          IN /\ Goto(IF value = "" THEN "token" ELSE "name")
             /\ inputs' = IF value = "" THEN inputs ELSE [inputs EXCEPT !.token = value]
    /\ UNCHANGED <<file, world, proc, reg, ls, docker, script, runners, consented, history>>

(* The labels of the configuration that are valid.  (Fault: all of them.)    *)
FromConfig_All == cfgLabels
FromConfig == Accepted(cfgLabels)

InputRunnerName ==
    /\ pc = "name"
    /\ \E line \in Text, host \in Hostname :
          LET value == Value(inputs.name, line)
          IN  inputs' = [inputs EXCEPT !.name = IF value = "" THEN host ELSE value,
                                       !.labels = IF cfgLabels # <<>> THEN FromConfig ELSE @]
    /\ Goto(IF cfgLabels # <<>> THEN "ping" ELSE "labels")
    /\ UNCHANGED <<file, world, proc, reg, ls, docker, script, runners, consented, history>>

InputLabels ==
    /\ pc = "labels"
    /\ \E line \in LabelLists :
          LET value == IF inputs.labels # <<>> THEN inputs.labels ELSE line
              labels == IF value # <<>> THEN value ELSE DefaultLabels
          IN /\ inputs' = [inputs EXCEPT !.labels = IF AllParse(labels) THEN labels ELSE <<>>]
             /\ Goto(IF AllParse(labels) THEN "ping" ELSE "labels")
    /\ UNCHANGED <<file, world, proc, reg, ls, docker, script, runners, consented, history>>

(* The line cannot be read: register ends. *)
InputEnds ==
    /\ \/ pc = "overwrite"
       \/ pc = "instance" /\ inputs.addr = ""
       \/ pc = "token" /\ inputs.token = ""
       \/ pc = "name" /\ inputs.name = ""
       \/ pc = "labels" /\ inputs.labels = <<>>
    /\ Off
    /\ UNCHANGED <<file, world, runners, faults, starts, consents, killed>>

Interactive == Overwrite \/ InputInstance \/ InputToken \/ InputRunnerName \/ InputLabels

-----------------------------------------------------------------------------
(* register: doRegister *)

(* The ping is repeated until it succeeds; an address of blanks never does.  *)
Ping ==
    /\ pc = "ping" /\ inputs.addr = "text"
    /\ Goto("request")
    /\ UNCHANGED <<file, world, proc, program, script, runners, consented, history>>
PingFails == pc = "ping" /\ UNCHANGED vars

(* The user interrupts the pings. *)
Interrupted ==
    /\ pc = "ping" /\ deploy = "host"
    /\ Off
    /\ UNCHANGED <<file, world, runners, faults, starts, consents, killed>>

(* The names of the labels; the parse's error is ignored. *)
AgentLabels == [i \in DOMAIN inputs.labels |-> Label(inputs.labels[i]).name]

(* The server has a new runner. *)
ServerRegisters ==
    /\ pc = "request" /\ inputs.token = "text"
    /\ runners' = Append(runners, [labels |-> AgentLabels, ephemeral |-> inputs.ephemeral])
    /\ Goto("answer")
    /\ UNCHANGED <<file, world, proc, program, script, consented, history>>

Refused ==
    /\ pc = "request"
    /\ Return(FALSE)
    /\ UNCHANGED <<file, world, runners, faults, starts, consents, killed>>

AnswerLost ==
    /\ pc = "answer" /\ faults < MaxFaults
    /\ faults' = faults + 1
    /\ Return(FALSE)
    /\ UNCHANGED <<file, world, runners, starts, consents, killed>>

(* Run-once follows what was asked for, also with a server that does not     *)
(* know ephemeral runners and answers FALSE.  (Fault: it follows the answer.)*)
Ephemeral_Answer(answered) == answered
Ephemeral(answered) == inputs.ephemeral

(* The identity of the answer.  (Fault: it stays that of the request.)       *)
RunnerId_Own == 0
RunnerId == Len(runners)

Registered ==
    /\ pc = "answer"
    /\ \E answered \in {inputs.ephemeral, FALSE} :
          reg' = [id |-> RunnerId, token |-> RunnerId,
                  labels |-> inputs.labels, ephemeral |-> Ephemeral(answered)]
    /\ Goto("create")
    /\ UNCHANGED <<file, world, proc, inputs, ls, docker, script, runners, consented, history>>

-----------------------------------------------------------------------------
(* SaveRegistration, for register and for the daemon *)

(* os.Create truncates. *)
Create ==
    /\ pc = "create"
    /\ file' = [state |-> "empty", reg |-> NoReg]
    /\ Goto("write")
    /\ UNCHANGED <<world, proc, program, script, runners, consented, history>>

Encode ==
    /\ pc = "write"
    /\ file' = [state |-> "whole", reg |-> reg]
    /\ Goto(IF proc = "daemon" THEN "declare" ELSE "saved")
    /\ UNCHANGED <<world, proc, program, script, runners, consented, history>>

(* Creating or writing fails, the latter with nothing or a part written.     *)
SaveFails ==
    /\ pc \in {"create", "write"} /\ faults < MaxFaults
    /\ faults' = faults + 1
    /\ \/ UNCHANGED file
       \/ pc = "write" /\ file' = [state |-> "torn", reg |-> NoReg]
    /\ IF proc = "daemon" THEN Off ELSE Return(FALSE)
    /\ UNCHANGED <<world, runners, starts, consents, killed>>

(* "Runner registered successfully." *)
Succeeds ==
    /\ pc = "saved"
    /\ Return(TRUE)
    /\ UNCHANGED <<file, world, runners, faults, starts, consents, killed>>

Register == Interactive \/ Validate \/ Ping \/ Registered \/ Create \/ Encode \/ Succeeds

-----------------------------------------------------------------------------
(* The daemon, until it polls *)

Exit ==
    /\ Off
    /\ UNCHANGED <<file, world, runners, faults, starts, consents, killed>>

(* LoadRegistration; the configuration's labels come first.  Where docker is  *)
(* looked for matters only if it is required.                                *)
Load ==
    /\ pc = "load"
    /\ IF Whole
       THEN LET labels == ParseAll(IF cfgLabels # <<>> THEN cfgLabels ELSE file.reg.labels)
            IN /\ reg' = file.reg
               /\ ls' = labels
               /\ \/ /\ \E setup \in DockerSetups : docker' = [NoDocker EXCEPT !.host = setup.host, !.env = setup.env]
                     /\ \E timeout \in BOOLEAN : Goto(IF timeout THEN "wait" ELSE "docker")
                  \/ /\ ~RequireDocker(labels)      \* nor does the configuration
                     /\ Goto("update") /\ UNCHANGED docker
               /\ UNCHANGED <<file, world, proc, inputs, script, runners, consented, history>>
       ELSE Exit

(* The loop that waits for docker: it looks for a path and pings it until     *)
(* that succeeds or docker_timeout is over.                                   *)
DockerWaits ==
    /\ pc = "wait"
    /\ \E path \in SocketPaths(docker) \cup {Unset} : docker' = [docker EXCEPT !.found = path]
    /\ UNCHANGED <<file, world, proc, pc, inputs, reg, ls, script, runners, consented, history>>
DockerWaited ==
    /\ pc = "wait"
    /\ Goto("docker")
    /\ UNCHANGED <<file, world, proc, program, script, runners, consented, history>>

(* The check that counts, without a timeout.                                  *)
DockerReady ==
    /\ pc = "docker"
    /\ \E path \in SocketPaths(docker) : docker' = Checked(docker, path)
    /\ Goto("update")
    /\ UNCHANGED <<file, world, proc, inputs, reg, ls, script, runners, consented, history>>
DockerFails == pc = "docker" /\ Exit

(* The file holds other labels than those in effect.  (Fault: the labels in  *)
(* effect are compared with the configuration's.)                            *)
LabelsChanged_Config == cfgLabels # <<>> /\ cfgLabels # ToStrings(ls)
LabelsChanged == reg.labels # ToStrings(ls)

Update ==
    /\ pc = "update"
    /\ IF LabelsChanged
       THEN reg' = [reg EXCEPT !.labels = ToStrings(ls)] /\ Goto("create")
       ELSE Goto("declare") /\ UNCHANGED reg
    /\ UNCHANGED <<file, world, proc, inputs, ls, docker, script, runners, consented, history>>

Declare ==
    /\ pc = "declare"
    /\ runners' = [runners EXCEPT ![reg.id].labels = Names(ls)]
    /\ Goto("polling")
    /\ UNCHANGED <<file, world, proc, program, script, consented, history>>

(* The call fails, or only its answer. *)
DeclareFails ==
    /\ pc = "declare"
    /\ Off
    /\ runners' \in {runners, [runners EXCEPT ![reg.id].labels = Names(ls)]}
    /\ UNCHANGED <<file, world, faults, starts, consents, killed>>

DaemonEnds == pc = "polling" /\ Exit

Daemon == Load \/ DockerWaited \/ Update

-----------------------------------------------------------------------------
Next ==
    \/ StartContainer \/ UserRegisters \/ UserStartsDaemon \/ Reconfigure
    \/ Crash \/ RegisterKilled
    \/ Test \/ Loop
    \/ Register \/ InputEnds \/ PingFails \/ Interrupted
    \/ ServerRegisters \/ Refused \/ AnswerLost \/ SaveFails
    \/ Daemon \/ DockerWaits \/ DockerReady \/ DockerFails \/ Declare \/ DeclareFails \/ DaemonEnds

Spec == Init /\ [][Next]_vars

(* Processes run; a container is started again, but one whose runner is       *)
(* ephemeral is left when its job is done (the charts give it restartPolicy   *)
(* Never), and the server need not know such a runner any more.  Otherwise a  *)
(* call made over and over succeeds some day, and docker is there some day.   *)
FairSpec ==
    /\ Spec
    /\ WF_vars(~flags.ephemeral /\ StartContainer) /\ WF_vars(Test) /\ WF_vars(Loop)
    /\ WF_vars(Register) /\ WF_vars(Daemon)
    /\ SF_vars(ServerRegisters) /\ SF_vars(~reg.ephemeral /\ Declare) /\ SF_vars(DockerReady)

-----------------------------------------------------------------------------
(* Properties *)

(* Every variable has its type, and a whole file holds a runner. *)
TypeOK ==
    /\ file \in [state : {"absent", "empty", "torn", "whole"}, reg : Registrations]
    /\ reg \in Registrations
    /\ {file.reg.id, reg.id} \subseteq 0..Len(runners)
    /\ Whole => file.reg.id \in 1..Len(runners) /\ file.reg.token = file.reg.id
    /\ runners \in Seq([labels : Seq(Words), ephemeral : BOOLEAN])
    /\ cfgLabels \in Seq(LabelString) /\ ls \in Seq(LabelType)
    /\ {flags, inputs} \subseteq Inputs
    /\ docker \in DockerType
    /\ deploy \in {"container", "host"}
    /\ proc \in {"none", "register", "daemon"}
    /\ pc \in {"off", "test", "loop", "validate", "overwrite", "instance", "token", "name", "labels",
               "ping", "request", "answer", "create", "write", "saved",
               "load", "wait", "docker", "update", "declare", "polling"}
    /\ try \in 0..1 /\ attempts \in 0..(MaxAttempts + 1)
    /\ faults \in 0..MaxFaults /\ starts \in 0..MaxStarts /\ consents \in 0..starts
    /\ {success, consented, killed} \subseteq BOOLEAN

(* doRegister takes the name of every parsed label without looking at the    *)
(* parse's error, and sends address and token as they are: whatever the      *)
(* flags, the lines and the configuration, all labels parse and the two are  *)
(* not empty.  (The runner's name may be: nothing asks for one when the host *)
(* has none.)                                                                *)
ReadyToRegister ==
    pc \in {"ping", "request"} => AllParse(inputs.labels) /\ "" \notin {inputs.addr, inputs.token}

(* The server gets no runner more than one, unless a fault lost one or a     *)
(* user asked for another.                                                   *)
NoLeak == Len(runners) <= 1 + faults + consents

(* A whole registration is only overwritten with one of the same runner,     *)
(* unless its user agreed (or register was killed under the script just      *)
(* before it could say that it succeeded).                                   *)
IdentityKept ==
    pc = "create" /\ Whole => file.reg.id = reg.id \/ consented \/ killed

(* A daemon that polls has declared to the server the labels it runs with,   *)
(* and they are the labels in the file.                                      *)
LabelsAgree ==
    pc = "polling" =>
        /\ file = [state |-> "whole", reg |-> reg]
        /\ ParseAll(file.reg.labels) = ls
        /\ runners[reg.id].labels = Names(ls)

(* The labels that NewRunner parses again (runner.go:44) serve every label    *)
(* that was declared: a job for one of them gets what a label in effect with  *)
(* that name says, and an image only of a daemon that has pinged docker,      *)
(* wherever the labels came from and however often a name is among them       *)
(* (labels.go:43, 52).                                                        *)
PlatformsServed ==
    pc = "polling" =>
        LET declared == runners[reg.id].labels
        IN  \A i \in DOMAIN declared : \E j \in DOMAIN ls :
                /\ ls[j].name = declared[i]
                /\ PickPlatform(ParseAll(reg.labels), <<declared[i]>>) = Platform(ls[j])
                /\ ls[j].schema = SchemeDocker => docker.pinged # Unset

(* When docker was required, its clients are sent to the host that answered   *)
(* this process's last ping, and jobs mount that host's socket or nothing:    *)
(* never one found earlier, nor one that is no socket (daemon.go:96-118).     *)
MountIsChecked ==
    docker.pinged # Unset =>
        /\ docker.env = docker.pinged
        /\ docker.host \in {"-", docker.pinged} \ {"tcp"}

(* A runner that was asked to be ephemeral runs once, whatever the server's  *)
(* version and however often its file was rewritten.                         *)
EphemeralKept == pc = "polling" => reg.ephemeral = runners[reg.id].ephemeral

(* In a container whose environment and configuration are valid the daemon   *)
(* polls again and again, whatever state a crash left the file in, unless    *)
(* only a part of the file could be written.  An ephemeral runner is not     *)
(* meant to: it takes a single job (cmd.go:42).  And a script that is allowed *)
(* one attempt makes none.                                                    *)
Valid ==
    /\ deploy = "container" /\ ~flags.ephemeral /\ MaxAttempts >= 2
    /\ flags.addr = "text" /\ flags.token = "text"
    /\ AllParse(IF cfgLabels # <<>> THEN cfgLabels ELSE flags.labels)
Recovers == <>[]Valid => []<>(pc = "polling" \/ file.state = "torn")

(* scripts/run.sh lets register wait for Gitea "a moment ... before erroring *)
(* out", GITEA_MAX_REG_ATTEMPTS times at most.                               *)
AttemptsBounded == attempts <= MaxAttempts
=============================================================================
