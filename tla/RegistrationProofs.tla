------------------------- MODULE RegistrationProofs -------------------------
(***************************************************************************)
(* Theorems about module Registration, for any flags, labels, docker       *)
(* setups, attempts, registrations by hand and faults.                     *)
(***************************************************************************)
EXTENDS Registration, Induction, SequenceTheorems, TLAPS

Stages == {"instance", "token", "name", "labels"}
Asking == Stages \cup {"validate", "ping", "request"}   \* nothing registered yet
Starting == {"wait", "docker", "update"}

(* Which process is at which place, and where the script can be. *)
Control ==
    /\ pc \in {"off", "test", "loop", "overwrite", "answer", "saved", "load", "declare", "polling",
               "create", "write"} \cup Asking \cup Starting
    /\ pc \in {"off", "test", "loop"} => proc = "none"
    /\ pc \in Asking \cup {"overwrite", "answer", "saved"} => proc = "register"
    /\ pc \in Starting \cup {"load", "declare", "polling"} => proc = "daemon"
    /\ pc \in {"create", "write"} => proc \in {"register", "daemon"}
    /\ pc \in {"test", "loop"} => deploy = "container"
    /\ pc \in Stages \cup {"overwrite"} => deploy = "host"
    /\ pc \in {"off", "test"} \/ proc = "register" => ~success
    /\ deploy \in {"container", "host"}
    /\ deploy = "container" => ~consented
    /\ {success, consented, killed} \subseteq BOOLEAN

(* What the file holds at each place. *)
FileKnown ==
    /\ pc = "write" => ~Whole
    /\ pc = "saved" \/ (pc = "loop" /\ success) => Whole
    /\ pc \in Starting => Whole /\ reg = file.reg
    /\ pc = "create" /\ proc = "daemon" => Whole /\ reg.id = file.reg.id
    /\ pc \in {"declare", "polling"} => Whole /\ reg = file.reg

(* A register that is not to replace a whole file does not find one. *)
Replaces ==
    /\ proc = "register" /\ pc \in Asking \cup {"answer", "create"} => ~Whole \/ consented \/ killed
    /\ pc = "loop" /\ ~success => ~Whole \/ killed

(* A registration has its fields. *)
RegFields == {"id", "token", "labels", "ephemeral"}
Shapes == DOMAIN reg = RegFields /\ DOMAIN file.reg = RegFields

Places == Control /\ FileKnown /\ Replaces

(* The server's runners are records of the two fields. *)
RunnersTyped == \E S : runners \in Seq([labels : S, ephemeral : S])

(* One runner is the file's, or that of a register that has an answer; every  *)
(* other is the price of a fault or of a consent.  While there is no such     *)
(* runner, and before a register asks for another, there is room for one.     *)
Room ==
    \/ proc = "register" /\ pc \in Asking
    \/ pc = "loop" /\ ~success
    \/ ~Whole /\ pc \notin {"answer", "create", "write"}
Counted ==
    /\ faults \in Nat /\ consents \in Nat
    /\ Len(runners) <= 1 + faults + consents
    /\ Room => Len(runners) <= faults + consents

(* A registration that is saved, or about to be, is a runner of the server's, *)
(* with its token and what was asked for.                                     *)
Owns(r) == r.id \in 1 .. Len(runners) /\ r.token = r.id /\ runners[r.id].ephemeral = r.ephemeral
Known ==
    /\ Whole => Owns(file.reg)
    /\ pc \in {"create", "write"} => Owns(reg)
    /\ pc = "answer" => Len(runners) >= 1 /\ runners[Len(runners)].ephemeral = inputs.ephemeral

(* Reset, an answer and the daemon's update keep a registration's fields. *)
LEMMA ShapesStep == Shapes /\ [Next]_vars => Shapes'
<1> SUFFICES ASSUME Shapes, [Next]_vars PROVE Shapes'
  OBVIOUS
<1>noreg. DOMAIN NoReg = RegFields
  BY DEF RegFields, NoReg
<1> USE <1>noreg DEF Shapes, program, script, world
<1>0. CASE UNCHANGED vars
  BY <1>0 DEF vars, program, script, world, history
<1>1. CASE StartContainer
  BY <1>1 DEF StartContainer
<1>2. CASE UserRegisters
  BY <1>2 DEF UserRegisters
<1>3. CASE UserStartsDaemon
  BY <1>3 DEF UserStartsDaemon
<1>4. CASE Reconfigure
  BY <1>4 DEF Reconfigure
<1>5. CASE Crash
  BY <1>5 DEF Crash, Off, Reset
<1>6. CASE RegisterKilled
  BY <1>6 DEF RegisterKilled, Return, Off, Reset
<1>7. CASE Test
  BY <1>7 DEF Test, NeedsRegistration
<1>8. CASE Loop
  BY <1>8 DEF Loop, TryAgain
<1>9. CASE Validate
  BY <1>9 DEF Validate, Return, Off, Reset
<1>10. CASE Overwrite
  BY <1>10 DEF Overwrite, Off, Reset
<1>11. CASE InputInstance
  BY <1>11 DEF InputInstance
<1>12. CASE InputToken
  BY <1>12 DEF InputToken
<1>13. CASE InputRunnerName
  BY <1>13 DEF InputRunnerName
<1>14. CASE InputLabels
  BY <1>14 DEF InputLabels
<1>15. CASE InputEnds
  BY <1>15 DEF InputEnds, Off, Reset
<1>16. CASE Ping
  BY <1>16 DEF Ping
<1>17. CASE PingFails
  BY <1>17 DEF PingFails, vars
<1>18. CASE Interrupted
  BY <1>18 DEF Interrupted, Off, Reset
<1>19. CASE ServerRegisters
  BY <1>19 DEF ServerRegisters
<1>20. CASE Refused
  BY <1>20 DEF Refused, Return, Off, Reset
<1>21. CASE AnswerLost
  BY <1>21 DEF AnswerLost, Return, Off, Reset
<1>22. CASE Registered
  <2>1. DOMAIN reg' = RegFields /\ file' = file
    BY <1>22 DEF Registered, RegFields
  <2> QED
    BY <2>1
<1>23. CASE Create
  BY <1>23 DEF Create
<1>24. CASE Encode
  BY <1>24 DEF Encode
<1>25. CASE SaveFails
  BY <1>25 DEF SaveFails, Return, Off, Reset
<1>26. CASE Succeeds
  BY <1>26 DEF Succeeds, Return, Off, Reset
<1>27. CASE Load
  BY <1>27 DEF Load, Exit, Off, Reset
<1>28. CASE DockerWaited
  BY <1>28 DEF DockerWaited
<1>29. CASE DockerWaits
  BY <1>29 DEF DockerWaits
<1>30. CASE DockerReady
  BY <1>30 DEF DockerReady
<1>31. CASE DockerFails
  BY <1>31 DEF DockerFails, Exit, Off, Reset
<1>32. CASE Update
  <2>1. DOMAIN [reg EXCEPT !.labels = ToStrings(ls)] = RegFields
    OBVIOUS
  <2> QED
    BY <1>32, <2>1 DEF Update
<1>33. CASE Declare
  BY <1>33 DEF Declare
<1>34. CASE DeclareFails
  BY <1>34 DEF DeclareFails, Off, Reset
<1>35. CASE DaemonEnds
  BY <1>35 DEF DaemonEnds, Exit, Off, Reset
<1> QED
  BY <1>0, <1>1, <1>2, <1>3, <1>4, <1>5, <1>6, <1>7, <1>8, <1>9, <1>10, <1>11, <1>12, <1>13, <1>14, <1>15, <1>16, <1>17, <1>18, <1>19, <1>20, <1>21, <1>22, <1>23, <1>24, <1>25, <1>26, <1>27, <1>28, <1>29, <1>30, <1>31, <1>32, <1>33, <1>34, <1>35
     DEF Next, Register, Interactive, Daemon

(* The script, the user and the daemon keep the order of their places. *)
LEMMA PlacesStep == Shapes /\ Places /\ [Next]_vars => Places'
<1> SUFFICES ASSUME Shapes, Places, [Next]_vars PROVE Places'
  OBVIOUS
<1> USE DEF Places, Control, FileKnown, Replaces, Asking, Stages, Starting, Whole, Goto,
            program, script, world, history
<1>0. CASE UNCHANGED vars
  BY <1>0 DEF vars, program, script, world, history
<1>1. CASE StartContainer
  BY <1>1 DEF StartContainer
<1>2. CASE UserRegisters
  BY <1>2 DEF UserRegisters
<1>3. CASE UserStartsDaemon
  BY <1>3 DEF UserStartsDaemon
<1>4. CASE Reconfigure
  BY <1>4 DEF Reconfigure
<1>5. CASE Crash
  BY <1>5 DEF Crash, Off, Reset
<1>6. CASE RegisterKilled
  BY <1>6 DEF RegisterKilled, Return, Off, Reset
<1>7. CASE Test
  BY <1>7 DEF Test, NeedsRegistration
<1>8. CASE Loop
  BY <1>8 DEF Loop, TryAgain
<1>9. CASE Validate
  BY <1>9 DEF Validate, Return, Off, Reset
<1>10. CASE Overwrite
  <2>1. file' = file /\ deploy' = deploy /\ killed' = killed
    BY <1>10 DEF Overwrite
  <2>2. CASE Off
    BY <1>10, <2>1, <2>2 DEF Overwrite, Off, Reset
  <2>3. CASE /\ pc' = "instance" /\ consented' = TRUE
             /\ UNCHANGED <<proc, program, script, attempts>>
    BY <1>10, <2>1, <2>3 DEF Overwrite
  <2> QED
    BY <1>10, <2>2, <2>3 DEF Overwrite
<1>11. CASE InputInstance
  BY <1>11 DEF InputInstance
<1>12. CASE InputToken
  BY <1>12 DEF InputToken
<1>13. CASE InputRunnerName
  BY <1>13 DEF InputRunnerName
<1>14. CASE InputLabels
  BY <1>14 DEF InputLabels
<1>15. CASE InputEnds
  BY <1>15 DEF InputEnds, Off, Reset
<1>16. CASE Ping
  BY <1>16 DEF Ping
<1>17. CASE PingFails
  BY <1>17 DEF PingFails, vars
<1>18. CASE Interrupted
  BY <1>18 DEF Interrupted, Off, Reset
<1>19. CASE ServerRegisters
  BY <1>19 DEF ServerRegisters
<1>20. CASE Refused
  BY <1>20 DEF Refused, Return, Off, Reset
<1>21. CASE AnswerLost
  BY <1>21 DEF AnswerLost, Return, Off, Reset
<1>22. CASE Registered
  BY <1>22 DEF Registered, RunnerId, Ephemeral
<1>23. CASE Create
  BY <1>23 DEF Create
<1>24. CASE Encode
  BY <1>24 DEF Encode
<1>25. CASE SaveFails
  <2>1. CASE proc = "daemon"
    BY <1>25, <2>1 DEF SaveFails, Off, Reset, NoReg
  <2>2. CASE proc # "daemon" /\ deploy = "host"
    BY <1>25, <2>2 DEF SaveFails, Return, Off, Reset, NoReg
  <2>3. CASE proc # "daemon" /\ deploy # "host"
    <3>1. ~Whole \/ killed
      BY <1>25, <2>3 DEF SaveFails
    <3>2. proc' = "none" /\ pc' = "loop" /\ success' = FALSE /\ consented' = FALSE /\ deploy' = deploy /\ killed' = killed
      BY <1>25, <2>3 DEF SaveFails, Return, Reset
    <3>3. Whole' => Whole
      BY <1>25 DEF SaveFails
    <3> QED
      BY <2>3, <3>1, <3>2, <3>3
  <2> QED
    BY <2>1, <2>2, <2>3
<1>26. CASE Succeeds
  BY <1>26 DEF Succeeds, Return, Off, Reset
<1>27. CASE Load
  BY <1>27 DEF Load, Exit, Off, Reset
<1>28. CASE DockerWaited
  BY <1>28 DEF DockerWaited
<1>29. CASE DockerWaits
  BY <1>29 DEF DockerWaits
<1>30. CASE DockerReady
  BY <1>30 DEF DockerReady
<1>31. CASE DockerFails
  BY <1>31 DEF DockerFails, Exit, Off, Reset
<1>32. CASE Update
  <2>1. reg'.id = reg.id
    BY <1>32 DEF Update, Shapes, RegFields
  <2> QED
    BY <1>32, <2>1 DEF Update
<1>33. CASE Declare
  BY <1>33 DEF Declare
<1>34. CASE DeclareFails
  BY <1>34 DEF DeclareFails, Off, Reset
<1>35. CASE DaemonEnds
  BY <1>35 DEF DaemonEnds, Exit, Off, Reset
<1> QED
  BY <1>0, <1>1, <1>2, <1>3, <1>4, <1>5, <1>6, <1>7, <1>8, <1>9, <1>10, <1>11, <1>12, <1>13, <1>14, <1>15, <1>16, <1>17, <1>18, <1>19, <1>20, <1>21, <1>22, <1>23, <1>24, <1>25, <1>26, <1>27, <1>28, <1>29, <1>30, <1>31, <1>32, <1>33, <1>34, <1>35
     DEF Next, Register, Interactive, Daemon

(* Only ServerRegisters makes a runner, and it uses the room. *)
LEMMA CountedStep == Places /\ RunnersTyped /\ Counted /\ [Next]_vars => Counted'
<1> SUFFICES ASSUME Places, RunnersTyped, Counted, [Next]_vars PROVE Counted'
  OBVIOUS
<1>len. Len(runners) \in Nat
  BY DEF RunnersTyped
<1> USE <1>len DEF Counted, Room
<1> USE DEF Places, Control, FileKnown, Replaces, Asking, Stages, Starting, Whole, Goto,
            program, script, world, history
<1>0. CASE UNCHANGED vars
  BY <1>0 DEF vars, program, script, world, history
<1>1. CASE StartContainer
  BY <1>1 DEF StartContainer
<1>2. CASE UserRegisters
  BY <1>2 DEF UserRegisters
<1>3. CASE UserStartsDaemon
  BY <1>3 DEF UserStartsDaemon
<1>4. CASE Reconfigure
  BY <1>4 DEF Reconfigure
<1>5. CASE Crash
  BY <1>5 DEF Crash, Off, Reset
<1>6. CASE RegisterKilled
  BY <1>6 DEF RegisterKilled, Return, Off, Reset
<1>7. CASE Test
  BY <1>7 DEF Test, NeedsRegistration
<1>8. CASE Loop
  BY <1>8 DEF Loop, TryAgain
<1>9. CASE Validate
  BY <1>9 DEF Validate, Return, Off, Reset
<1>10. CASE Overwrite
  BY <1>10 DEF Overwrite, Off, Reset
<1>11. CASE InputInstance
  BY <1>11 DEF InputInstance
<1>12. CASE InputToken
  BY <1>12 DEF InputToken
<1>13. CASE InputRunnerName
  BY <1>13 DEF InputRunnerName
<1>14. CASE InputLabels
  BY <1>14 DEF InputLabels
<1>15. CASE InputEnds
  BY <1>15 DEF InputEnds, Off, Reset
<1>16. CASE Ping
  BY <1>16 DEF Ping
<1>17. CASE PingFails
  BY <1>17 DEF PingFails, vars
<1>18. CASE Interrupted
  BY <1>18 DEF Interrupted, Off, Reset
<1>19. CASE ServerRegisters
  <2>1. Len(runners') = Len(runners) + 1
    BY <1>19 DEF ServerRegisters, RunnersTyped
  <2> QED
    BY <1>19, <2>1 DEF ServerRegisters
<1>20. CASE Refused
  BY <1>20 DEF Refused, Return, Off, Reset
<1>21. CASE AnswerLost
  BY <1>21 DEF AnswerLost, Return, Off, Reset
<1>22. CASE Registered
  BY <1>22 DEF Registered, RunnerId, Ephemeral
<1>23. CASE Create
  BY <1>23 DEF Create
<1>24. CASE Encode
  BY <1>24 DEF Encode
<1>25. CASE SaveFails
  BY <1>25 DEF SaveFails, Return, Off, Reset
<1>26. CASE Succeeds
  BY <1>26 DEF Succeeds, Return, Off, Reset
<1>27. CASE Load
  BY <1>27 DEF Load, Exit, Off, Reset
<1>28. CASE DockerWaited
  BY <1>28 DEF DockerWaited
<1>29. CASE DockerWaits
  BY <1>29 DEF DockerWaits
<1>30. CASE DockerReady
  BY <1>30 DEF DockerReady
<1>31. CASE DockerFails
  BY <1>31 DEF DockerFails, Exit, Off, Reset
<1>32. CASE Update
  BY <1>32 DEF Update
<1>33. CASE Declare
  <2>1. Len(runners') = Len(runners)
    BY <1>33 DEF Declare, RunnersTyped
  <2> QED
    BY <1>33, <2>1 DEF Declare
<1>34. CASE DeclareFails
  <2>1. Len(runners') = Len(runners)
    BY <1>34 DEF DeclareFails, RunnersTyped
  <2> QED
    BY <1>34, <2>1 DEF DeclareFails, Off, Reset
<1>35. CASE DaemonEnds
  BY <1>35 DEF DaemonEnds, Exit, Off, Reset
<1> QED
  BY <1>0, <1>1, <1>2, <1>3, <1>4, <1>5, <1>6, <1>7, <1>8, <1>9, <1>10, <1>11, <1>12, <1>13, <1>14, <1>15, <1>16, <1>17, <1>18, <1>19, <1>20, <1>21, <1>22, <1>23, <1>24, <1>25, <1>26, <1>27, <1>28, <1>29, <1>30, <1>31, <1>32, <1>33, <1>34, <1>35
     DEF Next, Register, Interactive, Daemon

(* The server's runners only become more, and keep what was asked for. *)
LEMMA RunnersStep ==
    ASSUME RunnersTyped, Places, Known, [Next]_vars
    PROVE  /\ RunnersTyped'
           /\ Len(runners) \in Nat /\ Len(runners') \in Nat /\ Len(runners) <= Len(runners')
           /\ \A i \in 1 .. Len(runners) : runners'[i].ephemeral = runners[i].ephemeral
<1>same. ASSUME runners' = runners
         PROVE  /\ RunnersTyped'
                /\ Len(runners) \in Nat /\ Len(runners') \in Nat /\ Len(runners) <= Len(runners')
                /\ \A i \in 1 .. Len(runners) : runners'[i].ephemeral = runners[i].ephemeral
  <2>1. RunnersTyped'
    BY <1>same, Zenon DEF RunnersTyped
  <2>2. Len(runners) \in Nat
    BY DEF RunnersTyped
  <2> QED
    BY <1>same, <2>1, <2>2
<1>labels. ASSUME NEW l, NEW id \in 1 .. Len(runners), runners' = [runners EXCEPT ![id].labels = l]
           PROVE  /\ RunnersTyped'
                  /\ Len(runners) \in Nat /\ Len(runners') \in Nat /\ Len(runners) <= Len(runners')
                  /\ \A i \in 1 .. Len(runners) : runners'[i].ephemeral = runners[i].ephemeral
  <2>1. PICK S : runners \in Seq([labels : S, ephemeral : S])
    BY DEF RunnersTyped
  <2> DEFINE T == S \cup {l}
             R == [labels : T, ephemeral : T]
  <2>2. runners' \in Seq(R)
    <3>1. [labels : S, ephemeral : S] \subseteq R
      OBVIOUS
    <3>2. runners \in Seq(R)
      BY <2>1, <3>1, SeqMonotonic
    <3>3. [runners[id] EXCEPT !.labels = l] \in R
      <4>1. runners[id] \in [labels : S, ephemeral : S]
        BY <1>labels, <2>1, ElementOfSeq
      <4> QED
        BY <4>1
    <3> HIDE DEF R
    <3> QED
      BY <1>labels, <3>2, <3>3, ExceptSeq
  <2>3. Len(runners') = Len(runners) /\ \A i \in 1 .. Len(runners) : runners'[i].ephemeral = runners[i].ephemeral
    BY <1>labels, <2>1
  <2>4. RunnersTyped'
    BY <2>2, Zenon DEF RunnersTyped
  <2>5. Len(runners) \in Nat
    BY <2>1
  <2> QED
    BY <2>3, <2>4, <2>5
<1>labeled. pc = "declare" => reg.id \in 1 .. Len(runners)
  BY DEF Places, FileKnown, Known, Owns
<1>0. CASE UNCHANGED vars
  BY <1>0, <1>same DEF vars, program, script, world, history
<1>1. CASE StartContainer
  BY <1>1, <1>same DEF StartContainer
<1>2. CASE UserRegisters
  BY <1>2, <1>same DEF UserRegisters
<1>3. CASE UserStartsDaemon
  BY <1>3, <1>same DEF UserStartsDaemon
<1>4. CASE Reconfigure
  BY <1>4, <1>same DEF Reconfigure
<1>5. CASE Crash
  BY <1>5, <1>same DEF Crash, Off, Reset
<1>6. CASE RegisterKilled
  BY <1>6, <1>same DEF RegisterKilled, Return, Off, Reset
<1>7. CASE Test
  BY <1>7, <1>same DEF Test, NeedsRegistration
<1>8. CASE Loop
  BY <1>8, <1>same DEF Loop, TryAgain
<1>9. CASE Validate
  BY <1>9, <1>same DEF Validate, Return, Off, Reset
<1>10. CASE Overwrite
  BY <1>10, <1>same DEF Overwrite, Off, Reset
<1>11. CASE InputInstance
  BY <1>11, <1>same DEF InputInstance
<1>12. CASE InputToken
  BY <1>12, <1>same DEF InputToken
<1>13. CASE InputRunnerName
  BY <1>13, <1>same DEF InputRunnerName
<1>14. CASE InputLabels
  BY <1>14, <1>same DEF InputLabels
<1>15. CASE InputEnds
  BY <1>15, <1>same DEF InputEnds, Off, Reset
<1>16. CASE Ping
  BY <1>16, <1>same DEF Ping
<1>17. CASE PingFails
  BY <1>17, <1>same DEF PingFails, vars
<1>18. CASE Interrupted
  BY <1>18, <1>same DEF Interrupted, Off, Reset
<1>19. CASE ServerRegisters
  <2>1. PICK S : runners \in Seq([labels : S, ephemeral : S])
    BY DEF RunnersTyped
  <2>2. runners' = Append(runners, [labels |-> AgentLabels, ephemeral |-> inputs.ephemeral])
    BY <1>19 DEF ServerRegisters
  <2> DEFINE T == S \cup {AgentLabels, inputs.ephemeral}
             R == [labels : T, ephemeral : T]
  <2>3. runners' \in Seq(R)
    <3>1. [labels : S, ephemeral : S] \subseteq R
      OBVIOUS
    <3>2. runners \in Seq(R)
      BY <2>1, <3>1, SeqMonotonic
    <3>3. [labels |-> AgentLabels, ephemeral |-> inputs.ephemeral] \in R
      OBVIOUS
    <3> HIDE DEF R
    <3> QED
      BY <2>2, <3>2, <3>3, AppendProperties
  <2>4. Len(runners') = Len(runners) + 1 /\ \A i \in 1 .. Len(runners) : runners'[i] = runners[i]
    BY <2>1, <2>2
  <2>5. RunnersTyped'
    BY <2>3, Zenon DEF RunnersTyped
  <2>6. Len(runners) \in Nat
    BY <2>1
  <2> QED
    BY <2>4, <2>5, <2>6
<1>20. CASE Refused
  BY <1>20, <1>same DEF Refused, Return, Off, Reset
<1>21. CASE AnswerLost
  BY <1>21, <1>same DEF AnswerLost, Return, Off, Reset
<1>22. CASE Registered
  BY <1>22, <1>same DEF Registered, RunnerId, Ephemeral
<1>23. CASE Create
  BY <1>23, <1>same DEF Create
<1>24. CASE Encode
  BY <1>24, <1>same DEF Encode
<1>25. CASE SaveFails
  BY <1>25, <1>same DEF SaveFails, Return, Off, Reset
<1>26. CASE Succeeds
  BY <1>26, <1>same DEF Succeeds, Return, Off, Reset
<1>27. CASE Load
  BY <1>27, <1>same DEF Load, Exit, Off, Reset
<1>28. CASE DockerWaited
  BY <1>28, <1>same DEF DockerWaited
<1>29. CASE DockerWaits
  BY <1>29, <1>same DEF DockerWaits
<1>30. CASE DockerReady
  BY <1>30, <1>same DEF DockerReady
<1>31. CASE DockerFails
  BY <1>31, <1>same DEF DockerFails, Exit, Off, Reset
<1>32. CASE Update
  BY <1>32, <1>same DEF Update
<1>33. CASE Declare
  BY <1>33, <1>labels, <1>labeled DEF Declare
<1>34. CASE DeclareFails
  BY <1>34, <1>same, <1>labels, <1>labeled DEF DeclareFails
<1>35. CASE DaemonEnds
  BY <1>35, <1>same DEF DaemonEnds, Exit, Off, Reset
<1> QED
  BY <1>0, <1>1, <1>2, <1>3, <1>4, <1>5, <1>6, <1>7, <1>8, <1>9, <1>10, <1>11, <1>12, <1>13, <1>14, <1>15, <1>16, <1>17, <1>18, <1>19, <1>20, <1>21, <1>22, <1>23, <1>24, <1>25, <1>26, <1>27, <1>28, <1>29, <1>30, <1>31, <1>32, <1>33, <1>34, <1>35
     DEF Next, Register, Interactive, Daemon

(* What is saved is what was registered, or was in the file before. *)
LEMMA KnownStep == Shapes /\ Places /\ RunnersTyped /\ Known /\ [Next]_vars => Known'
<1> SUFFICES ASSUME Shapes, Places, RunnersTyped, Known, [Next]_vars PROVE Known'
  OBVIOUS
<1>grow. /\ Len(runners) \in Nat /\ Len(runners') \in Nat /\ Len(runners) <= Len(runners')
         /\ \A i \in 1 .. Len(runners) : runners'[i].ephemeral = runners[i].ephemeral
  BY RunnersStep
<1> USE <1>grow DEF Known, Owns
<1> USE DEF Places, Control, FileKnown, Replaces, Asking, Stages, Starting, Whole, Goto,
            program, script, world, history
<1>0. CASE UNCHANGED vars
  BY <1>0 DEF vars, program, script, world, history
<1>1. CASE StartContainer
  BY <1>1 DEF StartContainer
<1>2. CASE UserRegisters
  BY <1>2 DEF UserRegisters
<1>3. CASE UserStartsDaemon
  BY <1>3 DEF UserStartsDaemon
<1>4. CASE Reconfigure
  BY <1>4 DEF Reconfigure
<1>5. CASE Crash
  BY <1>5 DEF Crash, Off, Reset
<1>6. CASE RegisterKilled
  BY <1>6 DEF RegisterKilled, Return, Off, Reset
<1>7. CASE Test
  BY <1>7 DEF Test, NeedsRegistration
<1>8. CASE Loop
  BY <1>8 DEF Loop, TryAgain
<1>9. CASE Validate
  BY <1>9 DEF Validate, Return, Off, Reset
<1>10. CASE Overwrite
  BY <1>10 DEF Overwrite, Off, Reset
<1>11. CASE InputInstance
  BY <1>11 DEF InputInstance
<1>12. CASE InputToken
  BY <1>12 DEF InputToken
<1>13. CASE InputRunnerName
  BY <1>13 DEF InputRunnerName
<1>14. CASE InputLabels
  BY <1>14 DEF InputLabels
<1>15. CASE InputEnds
  BY <1>15 DEF InputEnds, Off, Reset
<1>16. CASE Ping
  BY <1>16 DEF Ping
<1>17. CASE PingFails
  BY <1>17 DEF PingFails, vars
<1>18. CASE Interrupted
  BY <1>18 DEF Interrupted, Off, Reset
<1>19. CASE ServerRegisters
  <2>1. runners' = Append(runners, [labels |-> AgentLabels, ephemeral |-> inputs.ephemeral])
    BY <1>19 DEF ServerRegisters
  <2>2. Len(runners') = Len(runners) + 1 /\ runners'[Len(runners')].ephemeral = inputs.ephemeral
    BY <2>1 DEF RunnersTyped
  <2> QED
    BY <1>19, <2>2 DEF ServerRegisters
<1>20. CASE Refused
  BY <1>20 DEF Refused, Return, Off, Reset
<1>21. CASE AnswerLost
  BY <1>21 DEF AnswerLost, Return, Off, Reset
<1>22. CASE Registered
  BY <1>22 DEF Registered, RunnerId, Ephemeral
<1>23. CASE Create
  BY <1>23 DEF Create
<1>24. CASE Encode
  BY <1>24 DEF Encode
<1>25. CASE SaveFails
  BY <1>25 DEF SaveFails, Return, Off, Reset
<1>26. CASE Succeeds
  BY <1>26 DEF Succeeds, Return, Off, Reset
<1>27. CASE Load
  BY <1>27 DEF Load, Exit, Off, Reset
<1>28. CASE DockerWaited
  BY <1>28 DEF DockerWaited
<1>29. CASE DockerWaits
  BY <1>29 DEF DockerWaits
<1>30. CASE DockerReady
  BY <1>30 DEF DockerReady
<1>31. CASE DockerFails
  BY <1>31 DEF DockerFails, Exit, Off, Reset
<1>32. CASE Update
  <2>1. reg'.id = reg.id /\ reg'.token = reg.token /\ reg'.ephemeral = reg.ephemeral
    BY <1>32 DEF Update, Shapes, RegFields
  <2> QED
    BY <1>32, <2>1 DEF Update
<1>33. CASE Declare
  BY <1>33 DEF Declare
<1>34. CASE DeclareFails
  BY <1>34 DEF DeclareFails, Off, Reset
<1>35. CASE DaemonEnds
  BY <1>35 DEF DaemonEnds, Exit, Off, Reset
<1> QED
  BY <1>0, <1>1, <1>2, <1>3, <1>4, <1>5, <1>6, <1>7, <1>8, <1>9, <1>10, <1>11, <1>12, <1>13, <1>14, <1>15, <1>16, <1>17, <1>18, <1>19, <1>20, <1>21, <1>22, <1>23, <1>24, <1>25, <1>26, <1>27, <1>28, <1>29, <1>30, <1>31, <1>32, <1>33, <1>34, <1>35
     DEF Next, Register, Interactive, Daemon

(* Only the check sets what was pinged, together with what is used and mounted. *)
LEMMA MountStep == MountIsChecked /\ [Next]_vars => MountIsChecked'
<1> SUFFICES ASSUME MountIsChecked, [Next]_vars PROVE MountIsChecked'
  OBVIOUS
<1>reset. NoDocker.pinged = Unset
  BY DEF NoDocker
<1> USE <1>reset DEF MountIsChecked, program
<1>0. CASE UNCHANGED vars
  BY <1>0 DEF vars, program, script, world, history
<1>1. CASE StartContainer
  BY <1>1 DEF StartContainer
<1>2. CASE UserRegisters
  BY <1>2 DEF UserRegisters
<1>3. CASE UserStartsDaemon
  BY <1>3 DEF UserStartsDaemon
<1>4. CASE Reconfigure
  BY <1>4 DEF Reconfigure
<1>5. CASE Crash
  BY <1>5 DEF Crash, Off, Reset
<1>6. CASE RegisterKilled
  BY <1>6 DEF RegisterKilled, Return, Off, Reset
<1>7. CASE Test
  BY <1>7 DEF Test, NeedsRegistration
<1>8. CASE Loop
  BY <1>8 DEF Loop, TryAgain
<1>9. CASE Validate
  BY <1>9 DEF Validate, Return, Off, Reset
<1>10. CASE Overwrite
  BY <1>10 DEF Overwrite, Off, Reset
<1>11. CASE InputInstance
  BY <1>11 DEF InputInstance
<1>12. CASE InputToken
  BY <1>12 DEF InputToken
<1>13. CASE InputRunnerName
  BY <1>13 DEF InputRunnerName
<1>14. CASE InputLabels
  BY <1>14 DEF InputLabels
<1>15. CASE InputEnds
  BY <1>15 DEF InputEnds, Off, Reset
<1>16. CASE Ping
  BY <1>16 DEF Ping
<1>17. CASE PingFails
  BY <1>17 DEF PingFails, vars
<1>18. CASE Interrupted
  BY <1>18 DEF Interrupted, Off, Reset
<1>19. CASE ServerRegisters
  BY <1>19 DEF ServerRegisters
<1>20. CASE Refused
  BY <1>20 DEF Refused, Return, Off, Reset
<1>21. CASE AnswerLost
  BY <1>21 DEF AnswerLost, Return, Off, Reset
<1>22. CASE Registered
  BY <1>22 DEF Registered, RunnerId, Ephemeral
<1>23. CASE Create
  BY <1>23 DEF Create
<1>24. CASE Encode
  BY <1>24 DEF Encode
<1>25. CASE SaveFails
  BY <1>25 DEF SaveFails, Return, Off, Reset
<1>26. CASE Succeeds
  BY <1>26 DEF Succeeds, Return, Off, Reset
<1>27. CASE Load
  <2>1. CASE Exit
    BY <2>1 DEF Exit, Off, Reset
  <2>2. CASE \E setup \in DockerSetups : docker' = [NoDocker EXCEPT !.host = setup.host, !.env = setup.env]
    <3>1. docker'.pinged = Unset
      BY <2>2 DEF NoDocker
    <3> QED
      BY <3>1
  <2> QED
    BY <1>27, <2>1, <2>2 DEF Load
<1>28. CASE DockerWaited
  BY <1>28 DEF DockerWaited
<1>29. CASE DockerWaits
  BY <1>29 DEF DockerWaits
<1>30. CASE DockerReady
  <2>1. PICK path \in SocketPaths(docker) : docker' = Checked(docker, path)
    BY <1>30 DEF DockerReady
  <2>2. docker'.env = path /\ docker'.pinged = path
    BY <2>1 DEF Checked
  <2>3. docker'.host = Mountable(IF docker.host = "" THEN path ELSE docker.host)
    BY <2>1 DEF Checked
  <2>4. docker.host \in {"", "-", path}
    BY <2>1 DEF SocketPaths
  <2>5. docker'.host \in {"-", path} \ {"tcp"}
    BY <2>3, <2>4 DEF Mountable
  <2> QED
    BY <2>2, <2>5
<1>31. CASE DockerFails
  BY <1>31 DEF DockerFails, Exit, Off, Reset
<1>32. CASE Update
  BY <1>32 DEF Update
<1>33. CASE Declare
  BY <1>33 DEF Declare
<1>34. CASE DeclareFails
  BY <1>34 DEF DeclareFails, Off, Reset
<1>35. CASE DaemonEnds
  BY <1>35 DEF DaemonEnds, Exit, Off, Reset
<1> QED
  BY <1>0, <1>1, <1>2, <1>3, <1>4, <1>5, <1>6, <1>7, <1>8, <1>9, <1>10, <1>11, <1>12, <1>13, <1>14, <1>15, <1>16, <1>17, <1>18, <1>19, <1>20, <1>21, <1>22, <1>23, <1>24, <1>25, <1>26, <1>27, <1>28, <1>29, <1>30, <1>31, <1>32, <1>33, <1>34, <1>35
     DEF Next, Register, Interactive, Daemon

LEMMA Initially == Init => Shapes /\ Places /\ RunnersTyped /\ Counted /\ Known /\ MountIsChecked
<1> SUFFICES ASSUME Init PROVE Shapes /\ Places /\ RunnersTyped /\ Counted /\ Known /\ MountIsChecked
  OBVIOUS
<1>1. file.state = "absent" /\ file.reg = NoReg /\ reg = NoReg /\ pc = "off" /\ proc = "none"
      /\ runners = << >> /\ docker = NoDocker
  BY DEF Init
<1>2. Shapes
  BY <1>1 DEF Shapes, RegFields, NoReg
<1>3. Places
  BY <1>1 DEF Init, Places, Control, FileKnown, Replaces, Whole, Asking, Stages, Starting
<1>4. RunnersTyped
  <2>1. runners \in Seq([labels : {}, ephemeral : {}])
    BY <1>1
  <2> QED
    BY <2>1, Zenon DEF RunnersTyped
<1>5. Counted
  BY <1>1 DEF Init, Counted, Room, Whole
<1>6. Known
  BY <1>1 DEF Known, Whole
<1>7. MountIsChecked
  BY <1>1 DEF MountIsChecked, NoDocker
<1> QED
  BY <1>2, <1>3, <1>4, <1>5, <1>6, <1>7

IInv == Shapes /\ Places /\ RunnersTyped /\ Counted /\ Known
LEMMA Invariance == Spec => []IInv
<1>1. Init => IInv
  BY Initially DEF IInv
<1>2. IInv /\ [Next]_vars => IInv'
  <2> SUFFICES ASSUME IInv, [Next]_vars PROVE IInv'
    OBVIOUS
  <2>1. Shapes' /\ Places'
    BY ShapesStep, PlacesStep DEF IInv
  <2>2. Counted' /\ Known'
    BY CountedStep, KnownStep DEF IInv
  <2>3. RunnersTyped'
    BY RunnersStep DEF IInv
  <2> QED
    BY <2>1, <2>2, <2>3 DEF IInv
<1> QED
  BY <1>1, <1>2, PTL DEF Spec

(* A whole registration is only overwritten with one of the same runner,      *)
(* unless its user agreed or register was killed under the script: what       *)
(* run.sh:35, the question of the interactive mode and the daemon's saving    *)
(* of its labels do, for any number of crashes, restarts and attempts.        *)
THEOREM Identity == Spec => []IdentityKept
<1>1. IInv => IdentityKept
  BY DEF IInv, Places, Control, FileKnown, Replaces, IdentityKept, Asking
<1> QED
  BY <1>1, Invariance, PTL

(* The server has at most one runner more than faults lost and users asked    *)
(* for, however often the script's loop calls register (run.sh:43).           *)
THEOREM NoRunnerLeaks == Spec => []NoLeak
<1>1. IInv => NoLeak
  BY DEF IInv, Counted, NoLeak
<1> QED
  BY <1>1, Invariance, PTL

(* A runner that was asked to be ephemeral runs once, whatever the server     *)
(* answered (register.go:385) and however often its file was rewritten.       *)
THEOREM StaysEphemeral == Spec => []EphemeralKept
<1>1. IInv => EphemeralKept
  BY DEF IInv, Places, FileKnown, Known, Owns, EphemeralKept
<1> QED
  BY <1>1, Invariance, PTL

(* Jobs mount the socket that was pinged, and clients use it (daemon.go:104). *)
THEOREM MountsChecked == Spec => []MountIsChecked
BY Initially, MountStep, PTL DEF Spec

-----------------------------------------------------------------------------
(* What the program makes of labels *)

(* The loop over label strings, and what it keeps. *)
Keeps(kept, strs, n) ==
    IF n = 0 THEN << >>
    ELSE IF Parses(strs[n]) THEN Append(kept[n - 1], strs[n]) ELSE kept[n - 1]
LEMMA LoopDefined ==
    ASSUME NEW strs
    PROVE  \A n \in Nat : \E kept : kept = [i \in 0 .. n |-> Keeps(kept, strs, i)]
<1> DEFINE N == {n \in Nat : \E kept : kept = [i \in 0 .. n |-> Keeps(kept, strs, i)]}
<1>1. 0 \in N
  <2> DEFINE kept == [i \in 0 .. 0 |-> << >>]
  <2>1. kept = [i \in 0 .. 0 |-> Keeps(kept, strs, i)]
    BY DEF Keeps
  <2> QED
    BY <2>1
<1>2. ASSUME NEW n \in N PROVE n + 1 \in N
  <2>1. PICK kept : kept = [i \in 0 .. n |-> Keeps(kept, strs, i)]
    OBVIOUS
  <2> DEFINE more == [i \in 0 .. n + 1 |-> IF i <= n THEN kept[i] ELSE Keeps(kept, strs, n + 1)]
  <2>2. ASSUME NEW i \in 0 .. n + 1 PROVE more[i] = Keeps(more, strs, i)
    <3>1. i <= n => more[i] = Keeps(kept, strs, i)
      BY <2>1
    <3>2. ~(i <= n) => i = n + 1 /\ more[i] = Keeps(kept, strs, i)
      OBVIOUS
    <3>3. i # 0 => more[i - 1] = kept[i - 1]
      OBVIOUS
    <3> HIDE DEF more
    <3> QED
      BY <3>1, <3>2, <3>3 DEF Keeps
  <2>3. more = [i \in 0 .. n + 1 |-> Keeps(more, strs, i)]
    <3>1. more = [i \in 0 .. n + 1 |-> more[i]]
      OBVIOUS
    <3> HIDE DEF more
    <3> QED
      BY <2>2, <3>1
  <2> HIDE DEF more
  <2> QED
    BY <2>3
<1>3. N = Nat
  <2>1. N \subseteq Nat
    OBVIOUS
  <2> HIDE DEF N
  <2> QED
    BY <1>1, <1>2, <2>1, Induction
<1> QED
  BY <1>3
LEMMA AcceptedLoop ==
    ASSUME NEW strs, Len(strs) \in Nat
    PROVE  \E kept : /\ \A n \in 0 .. Len(strs) : kept[n] = Keeps(kept, strs, n)
                     /\ Accepted(strs) = kept[Len(strs)]
<1> DEFINE loop == CHOOSE kept : kept = [n \in 0 .. Len(strs) |-> Keeps(kept, strs, n)]
<1>1. Accepted(strs) = loop[Len(strs)]
  BY DEF Accepted, Keeps
<1>2. loop = [n \in 0 .. Len(strs) |-> Keeps(loop, strs, n)]
  BY LoopDefined
<1> HIDE DEF loop
<1>3. \A n \in 0 .. Len(strs) : loop[n] = Keeps(loop, strs, n)
  BY <1>2
<1> QED
  BY <1>1, <1>3

LEMMA AcceptedParses ==
    ASSUME NEW T, NEW strs \in Seq(T)
    PROVE  Accepted(strs) \in Seq(T) /\ AllParse(Accepted(strs))
<1> DEFINE U == {s \in T : Parses(s)}
<1>1. PICK kept : /\ \A n \in 0 .. Len(strs) : kept[n] = Keeps(kept, strs, n)
                  /\ Accepted(strs) = kept[Len(strs)]
  BY AcceptedLoop
<1> DEFINE N == {n \in Nat : n <= Len(strs) => kept[n] \in Seq(U)}
<1>2. 0 \in N
  <2>1. kept[0] = << >>
    BY <1>1 DEF Keeps
  <2>2. << >> \in Seq(U)
    OBVIOUS
  <2> HIDE DEF U
  <2> QED
    BY <2>1, <2>2
<1>3. ASSUME NEW n \in N, n + 1 <= Len(strs) PROVE kept[n + 1] \in Seq(U)
  <2>1. kept[n] \in Seq(U) /\ (n + 1) - 1 = n /\ n + 1 # 0 /\ n + 1 \in 0 .. Len(strs)
    BY <1>3
  <2>2. strs[n + 1] \in T
    BY <1>3
  <2>3. kept[n + 1] = IF Parses(strs[n + 1]) THEN Append(kept[n], strs[n + 1]) ELSE kept[n]
    BY <1>1, <2>1 DEF Keeps
  <2>4. CASE Parses(strs[n + 1])
    <3>1. strs[n + 1] \in U
      BY <2>2, <2>4
    <3> HIDE DEF U
    <3> QED
      BY <2>1, <2>3, <2>4, <3>1, AppendProperties
  <2> QED
    BY <2>1, <2>3, <2>4
<1>4. N = Nat
  <2>1. N \subseteq Nat /\ \A n \in N : n + 1 \in N
    BY <1>3
  <2> HIDE DEF N
  <2> QED
    BY <1>2, <2>1, Induction
<1>5. Accepted(strs) \in Seq(U)
  BY <1>1, <1>4
<1>6. Accepted(strs) \in Seq(T)
  BY <1>5, SeqMonotonic
<1>7. \A i \in DOMAIN Accepted(strs) : Accepted(strs)[i] \in U
  BY <1>5
<1> QED
  BY <1>6, <1>7 DEF AllParse

LEMMA AcceptedSame ==
    ASSUME NEW T, NEW strs \in Seq(T), AllParse(strs)
    PROVE  Accepted(strs) = strs
<1>1. PICK kept : /\ \A n \in 0 .. Len(strs) : kept[n] = Keeps(kept, strs, n)
                  /\ Accepted(strs) = kept[Len(strs)]
  BY AcceptedLoop
<1> DEFINE N == {n \in Nat : n <= Len(strs) => kept[n] = SubSeq(strs, 1, n)}
<1>2. 0 \in N
  <2>1. kept[0] = << >> /\ SubSeq(strs, 1, 0) = << >>
    BY <1>1 DEF Keeps
  <2> QED
    BY <2>1
<1>3. ASSUME NEW n \in N, n + 1 <= Len(strs) PROVE kept[n + 1] = SubSeq(strs, 1, n + 1)
  <2>1. kept[n] = SubSeq(strs, 1, n) /\ (n + 1) - 1 = n /\ n + 1 # 0 /\ n + 1 \in 0 .. Len(strs)
    BY <1>3
  <2>2. Parses(strs[n + 1])
    BY <1>3 DEF AllParse
  <2>3. kept[n + 1] = Append(SubSeq(strs, 1, n), strs[n + 1])
    BY <1>1, <2>1, <2>2 DEF Keeps
  <2>4. Append(SubSeq(strs, 1, n), strs[n + 1]) = SubSeq(strs, 1, n + 1)
    BY <1>3
  <2> QED
    BY <2>3, <2>4
<1>4. N = Nat
  <2>1. N \subseteq Nat /\ \A n \in N : n + 1 \in N
    BY <1>3
  <2> HIDE DEF N
  <2> QED
    BY <1>2, <2>1, Induction
<1>5. Accepted(strs) = SubSeq(strs, 1, Len(strs))
  BY <1>1, <1>4
<1>6. SubSeq(strs, 1, Len(strs)) = strs
  OBVIOUS
<1> QED
  BY <1>5, <1>6

(* A string that parses gives a label of one of the two schemas, and a label  *)
(* is written so that it is parsed again.                                     *)
LEMMA ParseTyped ==
    ASSUME NEW strs \in Seq(LabelString)
    PROVE  ParseAll(strs) \in Seq(LabelType)
<1> DEFINE ok == Accepted(strs)
<1>1. ok \in Seq(LabelString) /\ AllParse(ok)
  BY AcceptedParses
<1> HIDE DEF ok
<1>2. ASSUME NEW i \in DOMAIN ok PROVE Label(ok[i]) \in LabelType
  <2>1. ok[i] \in Seq(Words) /\ Len(ok[i]) \in 1 .. 3
    BY <1>1 DEF LabelString
  <2>2. Label(ok[i]).schema \in {SchemeHost, SchemeDocker}
    BY <1>1 DEF AllParse, Parses
  <2>3. ok[i][1] \in Words /\ (Len(ok[i]) >= 3 => ok[i][3] \in Words)
    BY <2>1
  <2>4. Label(ok[i]).arg \in Words
    BY <2>3, WordsAssumption DEF Label
  <2>5. Label(ok[i]) = [name |-> ok[i][1], schema |-> Label(ok[i]).schema, arg |-> Label(ok[i]).arg]
    BY DEF Label
  <2> QED
    BY <2>2, <2>3, <2>4, <2>5 DEF LabelType
<1>3. ParseAll(strs) = [i \in 1 .. Len(ok) |-> Label(ok[i])] /\ Len(ok) \in Nat
  BY <1>1 DEF ParseAll, ok
<1> QED
  BY <1>1, <1>2, <1>3
LEMMA ShortSequences ==
    ASSUME NEW S, NEW a \in S, NEW b \in S, NEW c \in S
    PROVE  <<a, b>> \in Seq(S) /\ <<a, b, c>> \in Seq(S)
OBVIOUS
LEMMA Reparsed ==
    ASSUME NEW l \in LabelType
    PROVE  ToString(l) \in LabelString /\ Label(ToString(l)) = l
<1>1. l = [name |-> l.name, schema |-> l.schema, arg |-> l.arg]
  BY DEF LabelType
<1>words. l.name \in Words /\ l.arg \in Words
  BY DEF LabelType
<1>2. l.schema \in Words /\ l.schema # ""
  <2>1. l.schema \in {SchemeHost, SchemeDocker}
    BY DEF LabelType
  <2> QED
    BY <2>1, WordsAssumption DEF SchemeHost, SchemeDocker
<1>3. CASE l.arg = ""
  <2>1. ToString(l) = <<l.name, l.schema>>
    BY <1>2, <1>3 DEF ToString
  <2>2. <<l.name, l.schema>> \in Seq(Words)
    BY <1>words, <1>2, ShortSequences, Zenon
  <2>3. <<l.name, l.schema>> \in LabelString
    BY <2>2 DEF LabelString
  <2>4. Label(<<l.name, l.schema>>) = [name |-> l.name, schema |-> l.schema, arg |-> ""]
    BY DEF Label
  <2> QED
    BY <1>1, <1>3, <2>1, <2>3, <2>4
<1>4. CASE l.arg # ""
  <2>1. ToString(l) = <<l.name, l.schema, l.arg>>
    BY <1>2, <1>4 DEF ToString
  <2>2. <<l.name, l.schema, l.arg>> \in Seq(Words)
    BY <1>words, <1>2, ShortSequences, Zenon
  <2>3. <<l.name, l.schema, l.arg>> \in LabelString
    BY <2>2 DEF LabelString
  <2>4. Label(<<l.name, l.schema, l.arg>>) = [name |-> l.name, schema |-> l.schema, arg |-> l.arg]
    BY DEF Label
  <2> QED
    BY <1>1, <2>1, <2>3, <2>4
<1> QED
  BY <1>3, <1>4
LEMMA RoundTrip ==
    ASSUME NEW labels \in Seq(LabelType)
    PROVE  ToStrings(labels) \in Seq(LabelString) /\ ParseAll(ToStrings(labels)) = labels
<1> DEFINE strs == ToStrings(labels)
<1>1. strs = [i \in 1 .. Len(labels) |-> ToString(labels[i])] /\ Len(labels) \in Nat
      /\ \A i \in 1 .. Len(labels) : labels[i] \in LabelType
  BY DEF ToStrings
<1> HIDE DEF strs
<1>2. strs \in Seq(LabelString)
  BY <1>1, Reparsed
<1>3. AllParse(strs)
  <2>1. ASSUME NEW i \in 1 .. Len(labels) PROVE Parses(strs[i])
    <3>1. Label(strs[i]) = labels[i] /\ labels[i] \in LabelType
      BY <1>1, Reparsed
    <3> QED
      BY <3>1 DEF Parses, LabelType
  <2> QED
    BY <1>1, <2>1 DEF AllParse
<1>4. Accepted(strs) = strs
  BY <1>2, <1>3, AcceptedSame
<1>5. ParseAll(strs) = [i \in 1 .. Len(labels) |-> Label(strs[i])]
  BY <1>1, <1>4 DEF ParseAll
<1>6. \A i \in 1 .. Len(labels) : Label(strs[i]) = labels[i]
  BY <1>1, Reparsed
<1> QED
  BY <1>1, <1>2, <1>5, <1>6 DEF strs

-----------------------------------------------------------------------------
(* What the variables hold at each place *)

(* Every variable of the program, the file, the configuration and the         *)
(* server's runners has its type.                                             *)
Runners == [labels : Seq(Words), ephemeral : BOOLEAN]
Typed ==
    /\ file \in [state : {"absent", "empty", "torn", "whole"}, reg : Registrations]
    /\ reg \in Registrations
    /\ runners \in Seq(Runners)
    /\ inputs \in Inputs /\ flags \in Inputs
    /\ cfgLabels \in Seq(LabelString) /\ ls \in Seq(LabelType)
    /\ docker \in DockerType
LEMMA AgentLabelsTyped ==
    ASSUME inputs.labels \in Seq(LabelString)
    PROVE  AgentLabels \in Seq(Words)
<1>1. ASSUME NEW i \in 1 .. Len(inputs.labels) PROVE Label(inputs.labels[i]).name \in Words
  <2>1. inputs.labels[i] \in Seq(Words) /\ Len(inputs.labels[i]) \in 1 .. 3
    BY DEF LabelString
  <2> QED
    BY <2>1 DEF Label
<1>2. AgentLabels = [i \in 1 .. Len(inputs.labels) |-> Label(inputs.labels[i]).name]
  BY DEF AgentLabels
<1>3. Len(inputs.labels) \in Nat
  OBVIOUS
<1> QED
  BY <1>1, <1>2, <1>3
LEMMA NamesTyped ==
    ASSUME NEW labels \in Seq(LabelType)
    PROVE  Names(labels) \in Seq(Words)
<1>1. Names(labels) = [i \in 1 .. Len(labels) |-> labels[i].name] /\ Len(labels) \in Nat
  BY DEF Names
<1>2. ASSUME NEW i \in 1 .. Len(labels) PROVE labels[i].name \in Words
  <2>1. labels[i] \in LabelType
    BY ElementOfSeq
  <2> QED
    BY <2>1 DEF LabelType
<1> QED
  BY <1>1, <1>2
LEMMA TypedStep == Shapes /\ Typed /\ [Next]_vars => Typed'
<1> SUFFICES ASSUME Shapes, Typed, [Next]_vars PROVE Typed'
  OBVIOUS
<1>none. NoInputs \in Inputs /\ NoDocker \in DockerType /\ NoReg \in Registrations
         /\ << >> \in Seq(LabelType)
  BY DEF NoInputs, Inputs, Text, NoDocker, DockerType, NoReg, Registrations
<1>lists. \A strs \in LabelLists \cup {DefaultLabels} : strs \in Seq(LabelString)
  BY LabelsAssumption
<1>flags. \A f \in Flags : f \in Inputs
  BY FlagsAssumption
<1> USE <1>none, <1>lists, <1>flags DEF Typed, program, script, world, history
<1>0. CASE UNCHANGED vars
  BY <1>0 DEF vars, program, script, world, history
<1>1. CASE StartContainer
  BY <1>1 DEF StartContainer
<1>2. CASE UserRegisters
  BY <1>2 DEF UserRegisters
<1>3. CASE UserStartsDaemon
  BY <1>3 DEF UserStartsDaemon
<1>4. CASE Reconfigure
  BY <1>4 DEF Reconfigure
<1>5. CASE Crash
  BY <1>5 DEF Crash, Off, Reset
<1>6. CASE RegisterKilled
  BY <1>6 DEF RegisterKilled, Return, Off, Reset
<1>7. CASE Test
  BY <1>7 DEF Test
<1>8. CASE Loop
  BY <1>8 DEF Loop
<1>9. CASE Validate
  <2>1. CASE Return(FALSE) /\ UNCHANGED <<file, world, runners>>
    BY <2>1 DEF Return, Off, Reset
  <2>2. ASSUME NEW labels \in Seq(LabelString), NEW name \in Text,
               inputs' = [inputs EXCEPT !.labels = labels, !.name = name],
               UNCHANGED <<file, world, reg, ls, docker, runners>>
        PROVE  Typed'
    <3>1. inputs' \in Inputs
      BY <2>2 DEF Inputs
    <3> QED
      BY <2>2, <3>1
  <2>3. inputs.labels \in Seq(LabelString) /\ inputs.name \in Text /\ Hostname \subseteq Text
    BY DEF Inputs, Text, Hostname
  <2>4. CASE inputs' # NoInputs /\ UNCHANGED <<reg, ls, docker>>
    <3>1. PICK labels \in Seq(LabelString), name \in Text :
            inputs' = [inputs EXCEPT !.labels = labels, !.name = name]
      BY <1>9, <2>3, <2>4 DEF Validate, Return, Off, Reset
    <3> QED
      BY <1>9, <2>2, <2>4, <3>1 DEF Validate
  <2> QED
    BY <1>9, <2>1, <2>4 DEF Validate
<1>10. CASE Overwrite
  BY <1>10 DEF Overwrite, Off, Reset
<1>11. CASE InputInstance
  <2>1. PICK line \in Text :
          inputs' = IF Value(inputs.addr, line) = "" THEN inputs ELSE [inputs EXCEPT !.addr = Value(inputs.addr, line)]
    BY <1>11 DEF InputInstance
  <2>2. Value(inputs.addr, line) \in Text
    BY DEF Value, TrimSpace, Inputs, Text
  <2>3. inputs' \in Inputs
    BY <2>1, <2>2 DEF Inputs
  <2> QED
    BY <1>11, <2>3 DEF InputInstance
<1>12. CASE InputToken
  <2>1. PICK line \in Text :
          inputs' = IF Value(inputs.token, line) = "" THEN inputs ELSE [inputs EXCEPT !.token = Value(inputs.token, line)]
    BY <1>12 DEF InputToken
  <2>2. Value(inputs.token, line) \in Text
    BY DEF Value, TrimSpace, Inputs, Text
  <2>3. inputs' \in Inputs
    BY <2>1, <2>2 DEF Inputs
  <2> QED
    BY <1>12, <2>3 DEF InputToken
<1>13. CASE InputRunnerName
  <2>1. FromConfig \in Seq(LabelString)
    BY AcceptedParses DEF FromConfig
  <2>2. PICK line \in Text, host \in Hostname :
          inputs' = [inputs EXCEPT !.name = IF Value(inputs.name, line) = "" THEN host ELSE Value(inputs.name, line),
                                   !.labels = IF cfgLabels # << >> THEN FromConfig ELSE @]
    BY <1>13 DEF InputRunnerName
  <2>3. Value(inputs.name, line) \in Text /\ host \in Text
    BY DEF Value, TrimSpace, Inputs, Text, Hostname
  <2>4. inputs' \in Inputs
    BY <2>1, <2>2, <2>3 DEF Inputs
  <2> QED
    BY <1>13, <2>4 DEF InputRunnerName
<1>14. CASE InputLabels
  <2>1. PICK labels \in Seq(LabelString) :
          inputs' = [inputs EXCEPT !.labels = IF AllParse(labels) THEN labels ELSE << >>]
    BY <1>14 DEF InputLabels, Inputs
  <2>2. PICK chosen \in Seq(LabelString) : inputs' = [inputs EXCEPT !.labels = chosen]
    <3>1. << >> \in Seq(LabelString)
      OBVIOUS
    <3> QED
      BY <2>1, <3>1
  <2>3. inputs' \in Inputs
    BY <2>2 DEF Inputs
  <2> QED
    BY <1>14, <2>3 DEF InputLabels
<1>15. CASE InputEnds
  BY <1>15 DEF InputEnds, Off, Reset
<1>16. CASE Ping
  BY <1>16 DEF Ping
<1>17. CASE PingFails
  BY <1>17 DEF PingFails, vars
<1>18. CASE Interrupted
  BY <1>18 DEF Interrupted, Off, Reset
<1>19. CASE ServerRegisters
  <2>1. AgentLabels \in Seq(Words) /\ inputs.ephemeral \in BOOLEAN
    BY AgentLabelsTyped DEF Inputs
  <2>2. [labels |-> AgentLabels, ephemeral |-> inputs.ephemeral] \in Runners
    BY <2>1 DEF Runners
  <2>3. runners' \in Seq(Runners)
    BY <1>19, <2>2, AppendProperties DEF ServerRegisters
  <2> QED
    BY <1>19, <2>3 DEF ServerRegisters
<1>20. CASE Refused
  BY <1>20 DEF Refused, Return, Off, Reset
<1>21. CASE AnswerLost
  BY <1>21 DEF AnswerLost, Return, Off, Reset
<1>22. CASE Registered
  <2>1. reg' = [id |-> Len(runners), token |-> Len(runners),
                labels |-> inputs.labels, ephemeral |-> inputs.ephemeral]
    BY <1>22 DEF Registered, RunnerId, Ephemeral
  <2>2. Len(runners) \in Nat /\ inputs.labels \in Seq(LabelString) /\ inputs.ephemeral \in BOOLEAN
    BY DEF Inputs
  <2>3. reg' \in Registrations
    BY <2>1, <2>2 DEF Registrations
  <2> QED
    BY <1>22, <2>3 DEF Registered
<1>23. CASE Create
  BY <1>23 DEF Create
<1>24. CASE Encode
  BY <1>24 DEF Encode
<1>25. CASE SaveFails
  <2>1. file' = file \/ file' = [state |-> "torn", reg |-> NoReg]
    BY <1>25 DEF SaveFails
  <2>2. file' \in [state : {"absent", "empty", "torn", "whole"}, reg : Registrations]
    BY <2>1
  <2>3. reg' = NoReg /\ inputs' = NoInputs /\ ls' = << >> /\ docker' = NoDocker /\ UNCHANGED <<world, runners>>
    BY <1>25 DEF SaveFails, Return, Off, Reset
  <2> QED
    BY <2>2, <2>3
<1>26. CASE Succeeds
  BY <1>26 DEF Succeeds, Return, Off, Reset
<1>27. CASE Load
  <2>1. CASE Exit
    BY <2>1 DEF Exit, Off, Reset
  <2>2. CASE Whole
    <3>1. ls' = ParseAll(IF cfgLabels # << >> THEN cfgLabels ELSE file.reg.labels)
      BY <1>27, <2>2 DEF Load
    <3>2. ls' \in Seq(LabelType)
      BY <3>1, ParseTyped DEF Registrations
    <3>3. docker' \in DockerType
      <4>1. ASSUME NEW setup \in DockerSetups, docker' = [NoDocker EXCEPT !.host = setup.host, !.env = setup.env]
            PROVE  docker' \in DockerType
        <5>1. setup \in Setup
          BY DockerAssumption
        <5> QED
          BY <4>1, <5>1 DEF Setup, DockerType, NoDocker
      <4> QED
        BY <1>27, <2>2, <4>1 DEF Load
    <3> QED
      BY <1>27, <2>2, <3>2, <3>3 DEF Load
  <2> QED
    BY <1>27, <2>1, <2>2 DEF Load
<1>28. CASE DockerWaited
  BY <1>28 DEF DockerWaited
<1>29. CASE DockerWaits
  <2>1. PICK path \in SocketPaths(docker) \cup {Unset} : docker' = [docker EXCEPT !.found = path]
    BY <1>29 DEF DockerWaits
  <2>2. path \in Addresses \cup {"", Unset}
    BY DEF SocketPaths, DockerType, CommonSockets, Addresses
  <2>3. docker' \in DockerType
    BY <2>1, <2>2 DEF DockerType
  <2> QED
    BY <1>29, <2>3 DEF DockerWaits
<1>30. CASE DockerReady
  <2>1. PICK path \in SocketPaths(docker) : docker' = Checked(docker, path)
    BY <1>30 DEF DockerReady
  <2>2. path \in Addresses \cup {"", Unset}
    BY DEF SocketPaths, DockerType, CommonSockets, Addresses
  <2>3. path # Unset
    BY DEF SocketPaths, DockerType, CommonSockets, Addresses, Unset
  <2>4. docker' \in DockerType
    BY <2>1, <2>2, <2>3 DEF Checked, Mountable, DockerType, Addresses
  <2> QED
    BY <1>30, <2>4 DEF DockerReady
<1>31. CASE DockerFails
  BY <1>31 DEF DockerFails, Exit, Off, Reset
<1>32. CASE Update
  <2>1. ToStrings(ls) \in Seq(LabelString)
    BY RoundTrip
  <2>2. reg' \in Registrations
    BY <1>32, <2>1 DEF Update, Registrations
  <2> QED
    BY <1>32, <2>2 DEF Update
<1>declared. [runners EXCEPT ![reg.id].labels = Names(ls)] \in Seq(Runners)
  <2>1. Names(ls) \in Seq(Words)
    BY NamesTyped
  <2>2. CASE reg.id \in 1 .. Len(runners)
    <3>1. runners[reg.id] \in Runners
      BY <2>2, ElementOfSeq
    <3>2. [runners[reg.id] EXCEPT !.labels = Names(ls)] \in Runners
      BY <2>1, <3>1 DEF Runners
    <3> QED
      BY <2>2, <3>2, ExceptSeq
  <2>3. CASE reg.id \notin DOMAIN runners
    <3>1. [runners EXCEPT ![reg.id].labels = Names(ls)] = [i \in DOMAIN runners |-> runners[i]]
      BY <2>3
    <3>2. [i \in DOMAIN runners |-> runners[i]] = runners
      OBVIOUS
    <3> QED
      BY <3>1, <3>2
  <2> QED
    BY <2>2, <2>3
<1>33. CASE Declare
  BY <1>33, <1>declared DEF Declare
<1>34. CASE DeclareFails
  <2>1. runners' \in Seq(Runners)
    BY <1>34, <1>declared DEF DeclareFails
  <2> QED
    BY <1>34, <2>1 DEF DeclareFails, Off, Reset
<1>35. CASE DaemonEnds
  BY <1>35 DEF DaemonEnds, Exit, Off, Reset
<1> QED
  BY <1>0, <1>1, <1>2, <1>3, <1>4, <1>5, <1>6, <1>7, <1>8, <1>9, <1>10, <1>11, <1>12, <1>13, <1>14, <1>15, <1>16, <1>17, <1>18, <1>19, <1>20, <1>21, <1>22, <1>23, <1>24, <1>25, <1>26, <1>27, <1>28, <1>29, <1>30, <1>31, <1>32, <1>33, <1>34, <1>35
     DEF Next, Register, Interactive, Daemon

(* The counters keep their bounds: the script asks for one try, and a user    *)
(* agrees once in each register.                                              *)
Bounded ==
    /\ {file.reg.id, reg.id} \subseteq 0 .. Len(runners)
    /\ try \in 0 .. 1 /\ (pc \in {"off", "test"} => try = 0)
    /\ attempts \in 0 .. MaxAttempts + 1
    /\ faults \in 0 .. MaxFaults /\ starts \in 0 .. MaxStarts
    /\ consents \in 0 .. starts /\ (pc = "overwrite" => consents < starts)
LEMMA BoundedStep == Shapes /\ Places /\ RunnersTyped /\ Known /\ Bounded /\ [Next]_vars => Bounded'
<1> SUFFICES ASSUME Shapes, Places, RunnersTyped, Known, Bounded, [Next]_vars PROVE Bounded'
  OBVIOUS
<1>grow. Len(runners) \in Nat /\ Len(runners') \in Nat /\ Len(runners) <= Len(runners')
  BY RunnersStep
<1>noreg. NoReg.id = 0
  BY DEF NoReg
<1> USE <1>grow, <1>noreg, BoundsAssumption DEF Bounded, Goto, program, script, world, history
<1>0. CASE UNCHANGED vars
  BY <1>0 DEF vars, program, script, world, history
<1>1. CASE StartContainer
  BY <1>1 DEF StartContainer
<1>2. CASE UserRegisters
  BY <1>2 DEF UserRegisters
<1>3. CASE UserStartsDaemon
  BY <1>3 DEF UserStartsDaemon
<1>4. CASE Reconfigure
  BY <1>4 DEF Reconfigure
<1>5. CASE Crash
  BY <1>5 DEF Crash, Off, Reset
<1>6. CASE RegisterKilled
  BY <1>6 DEF RegisterKilled, Return, Off, Reset
<1>7. CASE Test
  BY <1>7 DEF Test
<1>8. CASE Loop
  BY <1>8 DEF Loop
<1>9. CASE Validate
  <2>1. UNCHANGED <<file, runners, faults, starts, consents>>
    BY <1>9 DEF Validate
  <2>2. pc' \in {"ping", "off", "loop"} /\ reg' \in {reg, NoReg}
    BY <1>9 DEF Validate, Return, Off, Reset
  <2>3. (try' = try /\ attempts' = attempts /\ pc' # "off") \/ (try' = 0 /\ attempts' = 0)
    BY <1>9 DEF Validate, Return, Off, Reset
  <2> QED
    BY <2>1, <2>2, <2>3
<1>10. CASE Overwrite
  BY <1>10 DEF Overwrite, Off, Reset
<1>11. CASE InputInstance
  BY <1>11 DEF InputInstance
<1>12. CASE InputToken
  BY <1>12 DEF InputToken
<1>13. CASE InputRunnerName
  BY <1>13 DEF InputRunnerName
<1>14. CASE InputLabels
  BY <1>14 DEF InputLabels
<1>15. CASE InputEnds
  <2>1. Off /\ UNCHANGED <<file, runners, faults, starts, consents>>
    BY <1>15 DEF InputEnds
  <2> QED
    BY <2>1 DEF Off, Reset
<1>16. CASE Ping
  BY <1>16 DEF Ping
<1>17. CASE PingFails
  BY <1>17 DEF PingFails, vars
<1>18. CASE Interrupted
  BY <1>18 DEF Interrupted, Off, Reset
<1>19. CASE ServerRegisters
  BY <1>19 DEF ServerRegisters, Places, Control
<1>20. CASE Refused
  BY <1>20 DEF Refused, Return, Off, Reset
<1>21. CASE AnswerLost
  BY <1>21 DEF AnswerLost, Return, Off, Reset
<1>22. CASE Registered
  <2>1. reg'.id = Len(runners) /\ runners' = runners
    BY <1>22 DEF Registered, RunnerId
  <2> QED
    BY <1>22, <2>1 DEF Registered
<1>23. CASE Create
  BY <1>23 DEF Create
<1>24. CASE Encode
  BY <1>24 DEF Encode
<1>25. CASE SaveFails
  BY <1>25 DEF SaveFails, Return, Off, Reset
<1>26. CASE Succeeds
  BY <1>26 DEF Succeeds, Return, Off, Reset
<1>27. CASE Load
  <2>1. CASE Exit
    BY <2>1 DEF Exit, Off, Reset
  <2>2. CASE Whole
    <3>1. reg' = file.reg /\ pc' \in {"wait", "docker", "update"}
      BY <1>27, <2>2 DEF Load
    <3>2. UNCHANGED <<file, runners, try, attempts, faults, starts, consents>>
      BY <1>27, <2>2 DEF Load
    <3> QED
      BY <3>1, <3>2
  <2> QED
    BY <1>27, <2>1, <2>2 DEF Load
<1>28. CASE DockerWaited
  BY <1>28 DEF DockerWaited
<1>29. CASE DockerWaits
  BY <1>29 DEF DockerWaits
<1>30. CASE DockerReady
  BY <1>30 DEF DockerReady
<1>31. CASE DockerFails
  BY <1>31 DEF DockerFails, Exit, Off, Reset
<1>32. CASE Update
  <2>1. reg'.id = reg.id
    BY <1>32 DEF Update, Shapes, RegFields
  <2> QED
    BY <1>32, <2>1 DEF Update
<1>33. CASE Declare
  BY <1>33 DEF Declare
<1>34. CASE DeclareFails
  BY <1>34 DEF DeclareFails, Off, Reset
<1>35. CASE DaemonEnds
  BY <1>35 DEF DaemonEnds, Exit, Off, Reset
<1> QED
  BY <1>0, <1>1, <1>2, <1>3, <1>4, <1>5, <1>6, <1>7, <1>8, <1>9, <1>10, <1>11, <1>12, <1>13, <1>14, <1>15, <1>16, <1>17, <1>18, <1>19, <1>20, <1>21, <1>22, <1>23, <1>24, <1>25, <1>26, <1>27, <1>28, <1>29, <1>30, <1>31, <1>32, <1>33, <1>34, <1>35
     DEF Next, Register, Interactive, Daemon

(* What has been asked for at each place is there, and the labels parse.      *)
Asked ==
    /\ pc \in {"token", "name", "labels", "ping", "request"} => inputs.addr # ""
    /\ pc \in {"name", "labels", "ping", "request"} => inputs.token # ""
    /\ pc \in {"ping", "request"} => AllParse(inputs.labels)
LEMMA AskedStep == Typed /\ Asked /\ [Next]_vars => Asked'
<1> SUFFICES ASSUME Typed, Asked, [Next]_vars PROVE Asked'
  OBVIOUS
<1> USE DEF Asked, Goto, program, script, world, history
<1>0. CASE UNCHANGED vars
  BY <1>0 DEF vars, program, script, world, history
<1>1. CASE StartContainer
  BY <1>1 DEF StartContainer
<1>2. CASE UserRegisters
  BY <1>2 DEF UserRegisters
<1>3. CASE UserStartsDaemon
  BY <1>3 DEF UserStartsDaemon
<1>4. CASE Reconfigure
  BY <1>4 DEF Reconfigure
<1>5. CASE Crash
  BY <1>5 DEF Crash, Off, Reset
<1>6. CASE RegisterKilled
  BY <1>6 DEF RegisterKilled, Return, Off, Reset
<1>7. CASE Test
  BY <1>7 DEF Test
<1>8. CASE Loop
  BY <1>8 DEF Loop
<1>9. CASE Validate
  <2>1. CASE Return(FALSE)
    BY <2>1 DEF Return, Off, Reset
  <2>2. ASSUME NEW labels, NEW name, AllParse(labels),
               inputs.addr # "", inputs.token # "",
               inputs' = [inputs EXCEPT !.labels = labels, !.name = name], pc' = "ping"
        PROVE  Asked'
    <3>1. /\ inputs'.labels = labels
          /\ inputs'.addr = inputs.addr /\ inputs'.token = inputs.token
      BY <2>2 DEF Typed, Inputs
    <3> QED
      BY <2>2, <3>1
  <2> QED
    BY <1>9, <2>1, <2>2 DEF Validate
<1>10. CASE Overwrite
  BY <1>10 DEF Overwrite, Off, Reset
<1>11. CASE InputInstance
  BY <1>11 DEF InputInstance, Typed, Inputs
<1>12. CASE InputToken
  BY <1>12 DEF InputToken, Typed, Inputs
<1>13. CASE InputRunnerName
  <2>1. AllParse(FromConfig)
    BY AcceptedParses DEF FromConfig, Typed
  <2>2. /\ inputs'.addr = inputs.addr /\ inputs'.token = inputs.token
        /\ cfgLabels # << >> => inputs'.labels = FromConfig
    BY <1>13 DEF InputRunnerName, Typed, Inputs
  <2> QED
    BY <1>13, <2>1, <2>2 DEF InputRunnerName
<1>14. CASE InputLabels
  <2>1. PICK labels :
          /\ inputs' = [inputs EXCEPT !.labels = IF AllParse(labels) THEN labels ELSE << >>]
          /\ pc' = IF AllParse(labels) THEN "ping" ELSE "labels"
    BY <1>14 DEF InputLabels
  <2>2. /\ inputs'.addr = inputs.addr /\ inputs'.token = inputs.token
        /\ inputs'.labels = IF AllParse(labels) THEN labels ELSE << >>
    BY <2>1 DEF Typed, Inputs
  <2> QED
    BY <1>14, <2>1, <2>2 DEF InputLabels
<1>15. CASE InputEnds
  BY <1>15 DEF InputEnds, Off, Reset
<1>16. CASE Ping
  BY <1>16 DEF Ping
<1>17. CASE PingFails
  BY <1>17 DEF PingFails, vars
<1>18. CASE Interrupted
  BY <1>18 DEF Interrupted, Off, Reset
<1>19. CASE ServerRegisters
  BY <1>19 DEF ServerRegisters
<1>20. CASE Refused
  BY <1>20 DEF Refused, Return, Off, Reset
<1>21. CASE AnswerLost
  BY <1>21 DEF AnswerLost, Return, Off, Reset
<1>22. CASE Registered
  BY <1>22 DEF Registered
<1>23. CASE Create
  BY <1>23 DEF Create
<1>24. CASE Encode
  BY <1>24 DEF Encode
<1>25. CASE SaveFails
  BY <1>25 DEF SaveFails, Return, Off, Reset
<1>26. CASE Succeeds
  BY <1>26 DEF Succeeds, Return, Off, Reset
<1>27. CASE Load
  BY <1>27 DEF Load, Exit, Off, Reset
<1>28. CASE DockerWaited
  BY <1>28 DEF DockerWaited
<1>29. CASE DockerWaits
  BY <1>29 DEF DockerWaits
<1>30. CASE DockerReady
  BY <1>30 DEF DockerReady
<1>31. CASE DockerFails
  BY <1>31 DEF DockerFails, Exit, Off, Reset
<1>32. CASE Update
  BY <1>32 DEF Update
<1>33. CASE Declare
  BY <1>33 DEF Declare
<1>34. CASE DeclareFails
  BY <1>34 DEF DeclareFails, Off, Reset
<1>35. CASE DaemonEnds
  BY <1>35 DEF DaemonEnds, Exit, Off, Reset
<1> QED
  BY <1>0, <1>1, <1>2, <1>3, <1>4, <1>5, <1>6, <1>7, <1>8, <1>9, <1>10, <1>11, <1>12, <1>13, <1>14, <1>15, <1>16, <1>17, <1>18, <1>19, <1>20, <1>21, <1>22, <1>23, <1>24, <1>25, <1>26, <1>27, <1>28, <1>29, <1>30, <1>31, <1>32, <1>33, <1>34, <1>35
     DEF Next, Register, Interactive, Daemon

(* From the daemon's update on the file is to hold the labels in effect, and  *)
(* docker was checked if one of them requires it.                             *)
Settled == pc \in {"declare", "polling"} \/ (proc = "daemon" /\ pc \in {"create", "write"})
Effective ==
    /\ Settled => reg.labels = ToStrings(ls)
    /\ pc = "polling" => runners[reg.id].labels = Names(ls)
    /\ (Settled \/ pc = "update") /\ RequireDocker(ls) => docker.pinged # Unset
LEMMA EffectiveStep ==
    Shapes /\ Places /\ RunnersTyped /\ Known /\ Typed /\ Effective /\ [Next]_vars => Effective'
<1> SUFFICES ASSUME Shapes, Places, RunnersTyped, Known, Typed, Effective, [Next]_vars PROVE Effective'
  OBVIOUS
<1> USE DEF Effective, Settled, Goto, program, script, world, history
<1> USE DEF Places, Control, Asking, Stages, Starting
<1>0. CASE UNCHANGED vars
  BY <1>0 DEF vars, program, script, world, history
<1>1. CASE StartContainer
  BY <1>1 DEF StartContainer
<1>2. CASE UserRegisters
  BY <1>2 DEF UserRegisters
<1>3. CASE UserStartsDaemon
  BY <1>3 DEF UserStartsDaemon
<1>4. CASE Reconfigure
  BY <1>4 DEF Reconfigure
<1>5. CASE Crash
  BY <1>5 DEF Crash, Off, Reset
<1>6. CASE RegisterKilled
  BY <1>6 DEF RegisterKilled, Return, Off, Reset
<1>7. CASE Test
  BY <1>7 DEF Test
<1>8. CASE Loop
  BY <1>8 DEF Loop
<1>9. CASE Validate
  BY <1>9 DEF Validate, Return, Off, Reset
<1>10. CASE Overwrite
  BY <1>10 DEF Overwrite, Off, Reset
<1>11. CASE InputInstance
  BY <1>11 DEF InputInstance
<1>12. CASE InputToken
  BY <1>12 DEF InputToken
<1>13. CASE InputRunnerName
  BY <1>13 DEF InputRunnerName
<1>14. CASE InputLabels
  BY <1>14 DEF InputLabels
<1>15. CASE InputEnds
  BY <1>15 DEF InputEnds, Off, Reset
<1>16. CASE Ping
  BY <1>16 DEF Ping
<1>17. CASE PingFails
  BY <1>17 DEF PingFails, vars
<1>18. CASE Interrupted
  BY <1>18 DEF Interrupted, Off, Reset
<1>19. CASE ServerRegisters
  BY <1>19 DEF ServerRegisters
<1>20. CASE Refused
  BY <1>20 DEF Refused, Return, Off, Reset
<1>21. CASE AnswerLost
  BY <1>21 DEF AnswerLost, Return, Off, Reset
<1>22. CASE Registered
  BY <1>22 DEF Registered
<1>23. CASE Create
  BY <1>23 DEF Create
<1>24. CASE Encode
  BY <1>24 DEF Encode
<1>25. CASE SaveFails
  BY <1>25 DEF SaveFails, Return, Off, Reset
<1>26. CASE Succeeds
  BY <1>26 DEF Succeeds, Return, Off, Reset
<1>27. CASE Load
  <2>1. CASE Exit
    BY <2>1 DEF Exit, Off, Reset
  <2>2. CASE Whole
    <3>1. pc' \in {"wait", "docker"} \/ (pc' = "update" /\ ~RequireDocker(ls'))
      BY <1>27, <2>2 DEF Load
    <3> QED
      BY <3>1
  <2> QED
    BY <1>27, <2>1, <2>2 DEF Load
<1>28. CASE DockerWaited
  BY <1>28 DEF DockerWaited
<1>29. CASE DockerWaits
  BY <1>29 DEF DockerWaits
<1>30. CASE DockerReady
  <2>1. PICK path \in SocketPaths(docker) : docker' = Checked(docker, path)
    BY <1>30 DEF DockerReady
  <2>2. path # Unset
    BY DEF SocketPaths, Typed, DockerType, CommonSockets, Addresses, Unset
  <2>3. docker'.pinged # Unset
    BY <2>1, <2>2 DEF Checked
  <2> QED
    BY <1>30, <2>3 DEF DockerReady
<1>31. CASE DockerFails
  BY <1>31 DEF DockerFails, Exit, Off, Reset
<1>32. CASE Update
  <2>1. CASE LabelsChanged
    <3>1. reg' = [reg EXCEPT !.labels = ToStrings(ls)]
      BY <1>32, <2>1 DEF Update
    <3>2. reg'.labels = ToStrings(ls)
      BY <3>1 DEF Shapes, RegFields
    <3> QED
      BY <1>32, <2>1, <3>2 DEF Update
  <2>2. CASE ~LabelsChanged
    BY <1>32, <2>2 DEF Update, LabelsChanged
  <2> QED
    BY <2>1, <2>2
<1>33. CASE Declare
  <2>1. reg.id \in 1 .. Len(runners)
    BY <1>33 DEF Declare, FileKnown, Known, Owns
  <2>2. PICK S : runners \in Seq([labels : S, ephemeral : S])
    BY DEF RunnersTyped
  <2>3. runners' = [runners EXCEPT ![reg.id].labels = Names(ls)]
    BY <1>33 DEF Declare
  <2>4. runners'[reg.id].labels = Names(ls)
    BY <2>1, <2>2, <2>3
  <2> QED
    BY <1>33, <2>4 DEF Declare
<1>34. CASE DeclareFails
  BY <1>34 DEF DeclareFails, Off, Reset
<1>35. CASE DaemonEnds
  BY <1>35 DEF DaemonEnds, Exit, Off, Reset
<1> QED
  BY <1>0, <1>1, <1>2, <1>3, <1>4, <1>5, <1>6, <1>7, <1>8, <1>9, <1>10, <1>11, <1>12, <1>13, <1>14, <1>15, <1>16, <1>17, <1>18, <1>19, <1>20, <1>21, <1>22, <1>23, <1>24, <1>25, <1>26, <1>27, <1>28, <1>29, <1>30, <1>31, <1>32, <1>33, <1>34, <1>35
     DEF Next, Register, Interactive, Daemon

LEMMA InitiallyTyped == Init => Typed /\ Bounded /\ Asked /\ Effective
<1> SUFFICES ASSUME Init PROVE Typed /\ Bounded /\ Asked /\ Effective
  OBVIOUS
<1>1. Typed
  <2>1. NoInputs \in Inputs /\ NoDocker \in DockerType /\ NoReg \in Registrations
        /\ << >> \in Seq(LabelType) /\ << >> \in Seq(Runners)
    BY DEF NoInputs, Inputs, Text, NoDocker, DockerType, NoReg, Registrations
  <2>2. flags \in Inputs /\ cfgLabels \in Seq(LabelString)
    BY FlagsAssumption, LabelsAssumption DEF Init
  <2> QED
    BY <2>1, <2>2 DEF Init, Typed
<1>2. Bounded
  BY BoundsAssumption DEF Init, Bounded, NoReg
<1>3. pc = "off"
  BY DEF Init
<1>4. Asked /\ Effective
  BY <1>3 DEF Asked, Effective, Settled
<1> QED
  BY <1>1, <1>2, <1>4

LabelInv == Typed /\ Bounded /\ Asked /\ Effective
LEMMA LabelInvariance == Spec => []LabelInv
<1>1. Init => LabelInv
  BY InitiallyTyped DEF LabelInv
<1>2. IInv /\ LabelInv /\ [Next]_vars => LabelInv'
  <2> SUFFICES ASSUME IInv, LabelInv, [Next]_vars PROVE LabelInv'
    OBVIOUS
  <2>1. Typed' /\ Asked'
    BY TypedStep, AskedStep DEF IInv, LabelInv
  <2>2. Bounded' /\ Effective'
    BY BoundedStep, EffectiveStep DEF IInv, LabelInv
  <2> QED
    BY <2>1, <2>2 DEF LabelInv
<1> QED
  BY <1>1, <1>2, Invariance, PTL DEF Spec

(* The last label of a name is there, and is what the name gets. *)
LEMMA Picked ==
    ASSUME NEW labels \in Seq(LabelType), NEW i \in 1 .. Len(labels)
    PROVE  \E j \in 1 .. Len(labels) :
              /\ labels[j].name = labels[i].name
              /\ PickPlatform(labels, <<labels[i].name>>) = Platform(labels[j])
<1> DEFINE name == labels[i].name
           named == {j \in 1 .. Len(labels) : labels[j].name = name}
           known == {k \in DOMAIN <<name>> : \E j \in DOMAIN labels : labels[j].name = <<name>>[k]}
           first == CHOOSE k \in known : \A m \in known : k <= m
           last == Last(labels, name)
<1>1. DOMAIN labels = 1 .. Len(labels) /\ Len(labels) \in Nat
  OBVIOUS
<1>2. \E j \in named : \A m \in named : m <= j
  <2>1. named \subseteq 0 .. Len(labels) /\ named # {}
    <3>1. i \in named
      OBVIOUS
    <3> QED
      BY <1>1, <3>1
  <2> HIDE DEF named
  <2> QED
    BY <1>1, <2>1, Greatest
<1>3. last \in DOMAIN labels /\ labels[last].name = name
  <2>1. \E j \in DOMAIN labels : labels[j].name = name /\ \A m \in DOMAIN labels : labels[m].name = name => m <= j
    BY <1>1, <1>2
  <2> QED
    BY <2>1, Zenon DEF Last
<1>4. known = {1}
  <2>1. DOMAIN <<name>> = {1} /\ <<name>>[1] = name
    OBVIOUS
  <2>2. i \in DOMAIN labels /\ labels[i].name = name
    BY <1>1
  <2> QED
    BY <2>1, <2>2, Zenon
<1>5. first = 1
  <2>1. \E k \in known : \A m \in known : k <= m
    <3> HIDE DEF known
    <3> QED
      BY <1>4
  <2> HIDE DEF known
  <2> QED
    BY <1>4, <2>1
<1>6. PickPlatform(labels, <<name>>) = Platform(labels[Last(labels, <<name>>[first])])
  <2>1. known # {}
    <3> HIDE DEF known
    <3> QED
      BY <1>4
  <2> QED
    BY <2>1 DEF PickPlatform
<1>7. <<name>>[first] = name
  <2> HIDE DEF first
  <2> QED
    BY <1>5
<1> QED
  BY <1>1, <1>3, <1>6, <1>7

(* Every variable keeps its type and every counter its bound, the labels in   *)
(* the file, in the process and on the server included, and a whole file      *)
(* holds a runner, whatever crashes, restarts and attempts there are.         *)
THEOREM TypeCorrect == Spec => []TypeOK
<1>1. IInv /\ LabelInv => TypeOK
  <2> SUFFICES ASSUME IInv, LabelInv PROVE TypeOK
    OBVIOUS
  <2>1. /\ proc \in {"none", "register", "daemon"} /\ deploy \in {"container", "host"}
        /\ pc \in {"off", "test", "loop", "validate", "overwrite", "instance", "token", "name", "labels",
                  "ping", "request", "answer", "create", "write", "saved",
                  "load", "wait", "docker", "update", "declare", "polling"}
        /\ {success, consented, killed} \subseteq BOOLEAN
    BY DEF IInv, Places, Control, Asking, Stages, Starting
  <2>2. Whole => file.reg.id \in 1 .. Len(runners) /\ file.reg.token = file.reg.id
    BY DEF IInv, Known, Owns
  <2>3. /\ file \in [state : {"absent", "empty", "torn", "whole"}, reg : Registrations]
        /\ reg \in Registrations
        /\ runners \in Seq([labels : Seq(Words), ephemeral : BOOLEAN])
        /\ cfgLabels \in Seq(LabelString) /\ ls \in Seq(LabelType)
        /\ {flags, inputs} \subseteq Inputs /\ docker \in DockerType
    BY DEF LabelInv, Typed, Runners
  <2>4. /\ {file.reg.id, reg.id} \subseteq 0 .. Len(runners)
        /\ try \in 0 .. 1 /\ attempts \in 0 .. MaxAttempts + 1
        /\ faults \in 0 .. MaxFaults /\ starts \in 0 .. MaxStarts /\ consents \in 0 .. starts
    BY DEF LabelInv, Bounded
  <2> QED
    BY <2>1, <2>2, <2>3, <2>4, Zenon DEF TypeOK
<1> QED
  BY <1>1, Invariance, LabelInvariance, PTL

(* doRegister ignores the error of Parse (register.go:345) and sends what it  *)
(* is given: every label parses, and neither address nor token is empty,      *)
(* whichever way the inputs came in.                                          *)
THEOREM RegistersInputs == Spec => []ReadyToRegister
<1>1. LabelInv => ReadyToRegister
  BY DEF LabelInv, Asked, ReadyToRegister
<1> QED
  BY <1>1, LabelInvariance, PTL

(* A daemon that polls has declared the labels it runs with, and the file's   *)
(* labels are parsed into them again: what is written is read back, for any   *)
(* labels of the configuration, valid or not (daemon.go:56, labels.go:93).    *)
THEOREM LabelsInEffect == Spec => []LabelsAgree
<1>1. IInv /\ LabelInv => LabelsAgree
  <2> SUFFICES ASSUME IInv, LabelInv, pc = "polling"
               PROVE  /\ file = [state |-> "whole", reg |-> reg]
                      /\ ParseAll(file.reg.labels) = ls
                      /\ runners[reg.id].labels = Names(ls)
    BY DEF LabelsAgree
  <2>1. Whole /\ reg = file.reg
    BY DEF IInv, Places, FileKnown
  <2>2. file = [state |-> "whole", reg |-> reg]
    BY <2>1 DEF Whole, LabelInv, Typed
  <2>3. ParseAll(ToStrings(ls)) = ls
    BY RoundTrip DEF LabelInv, Typed
  <2>4. reg.labels = ToStrings(ls) /\ runners[reg.id].labels = Names(ls)
    BY DEF LabelInv, Effective, Settled
  <2> QED
    BY <2>1, <2>2, <2>3, <2>4
<1> QED
  BY <1>1, Invariance, LabelInvariance, PTL

(* A job for a declared label runs on what a label in effect with that name   *)
(* says, and in docker only if this daemon pinged it (labels.go:43, 52).      *)
THEOREM ServesDeclared == Spec => []PlatformsServed
<1>1. LabelInv => PlatformsServed
  <2> SUFFICES ASSUME LabelInv, pc = "polling",
                      NEW i \in DOMAIN runners[reg.id].labels
               PROVE  \E j \in DOMAIN ls :
                         /\ ls[j].name = runners[reg.id].labels[i]
                         /\ PickPlatform(ParseAll(reg.labels), <<runners[reg.id].labels[i]>>) = Platform(ls[j])
                         /\ ls[j].schema = SchemeDocker => docker.pinged # Unset
    BY DEF PlatformsServed
  <2>1. ls \in Seq(LabelType) /\ DOMAIN ls = 1 .. Len(ls)
    BY DEF LabelInv, Typed
  <2>2. ParseAll(reg.labels) = ls
    BY <2>1, RoundTrip DEF LabelInv, Effective, Settled
  <2>3. i \in 1 .. Len(ls) /\ runners[reg.id].labels[i] = ls[i].name
    BY <2>1 DEF LabelInv, Effective, Names
  <2>4. PICK j \in 1 .. Len(ls) : ls[j].name = ls[i].name /\ PickPlatform(ls, <<ls[i].name>>) = Platform(ls[j])
    BY <2>1, <2>3, Picked
  <2>5. ls[j].schema = SchemeDocker => docker.pinged # Unset
    BY <2>1 DEF LabelInv, Effective, Settled, RequireDocker
  <2> QED
    BY <2>1, <2>2, <2>3, <2>4, <2>5
<1> QED
  BY <1>1, LabelInvariance, PTL
=============================================================================
