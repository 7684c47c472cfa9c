---------------------------- MODULE ConfigProofs ----------------------------
(***************************************************************************)
(* Theorems about LoadDefault of module Config, for every configuration    *)
(* file, environment and env file.                                         *)
(***************************************************************************)
EXTENDS Config, TLAPS

(* The texts of the defaults. *)
Defaults == {"", "info", "debug", "trace", ".runner", "workspace", "home"}

(* Maps of variables are closed under Override, and overriding twice with the *)
(* same map is overriding once.                                               *)
LEMMA OverrideType ==
    ASSUME NEW Str, NEW f \in Vars(Str), NEW g \in Vars(Str)
    PROVE  Override(f, g) \in Vars(Str)
<1>1. PICK F \in SUBSET Str : f \in [F -> Str]
  BY DEF Vars
<1>2. PICK G \in SUBSET Str : g \in [G -> Str]
  BY DEF Vars
<1>3. Override(f, g) \in [F \cup G -> Str]
  BY <1>1, <1>2 DEF Override
<1>4. F \cup G \in SUBSET Str
  OBVIOUS
<1> QED
  BY <1>3, <1>4 DEF Vars

LEMMA OverrideTwice ==
    ASSUME NEW f, NEW g
    PROVE  Override(Override(f, g), g) = Override(f, g)
BY DEF Override

(* Each stage returns settings. *)
LEMMA OldEnvsType ==
    ASSUME NEW Str, Defaults \subseteq Str, NEW used \in BOOLEAN,
           NEW cfg \in Settings(Str), NEW env \in OldEnvs(Str)
    PROVE  CompatibleWithOldEnvs(used, cfg, env) \in Settings(Str)
<1>1. Override(cfg.envs, env.environ) \in Vars(Str)
  BY OverrideType DEF Settings, OldEnvs
<1> QED
  BY <1>1 DEF CompatibleWithOldEnvs, Settings, OldEnvs, Defaults

LEMMA EnvFileType ==
    ASSUME NEW Str, NEW cfg \in Settings(Str), NEW disk \in EnvFiles(Str)
    PROVE  WithEnvFile(cfg, disk) \in Settings(Str)
<1>1. disk[cfg.envFile].vars \in Vars(Str)
  BY DEF Settings, EnvFiles
<1>2. Override(cfg.envs, disk[cfg.envFile].vars) \in Vars(Str)
  BY <1>1, OverrideType DEF Settings
<1> QED
  BY <1>2 DEF WithEnvFile, Settings

Record(d) ==
    [level |-> d.level, file |-> d.file, capacity |-> d.capacity, timeout |-> d.timeout,
     fetchTimeout |-> d.fetchTimeout, fetchInterval |-> d.fetchInterval,
     envs |-> d.envs, envFile |-> d.envFile, cache |-> d.cache, cacheDir |-> d.cacheDir,
     workdirParent |-> d.workdirParent, hostParent |-> d.hostParent,
     network |-> d.network, networkMode |-> d.networkMode]
LEMMA DefaultsType ==
    ASSUME NEW Str, Defaults \subseteq Str, NEW cfg \in Settings(Str)
    PROVE  WithDefaults(cfg) \in Settings(Str)
<1>1. /\ IfEmpty(cfg.level, "info") \in Str /\ IfEmpty(cfg.file, ".runner") \in Str
      /\ IfEmpty(cfg.workdirParent, "workspace") \in Str /\ IfEmpty(cfg.hostParent, "home") \in Str
      /\ IfEmpty(cfg.cacheDir, "home") \in Str
  BY DEF IfEmpty, Defaults, Settings
<1>2. /\ IfNotPositive(cfg.capacity, 1) \in Int /\ IfNotPositive(cfg.timeout, 10800) \in Int
      /\ IfNotPositive(cfg.fetchTimeout, 5) \in Int /\ IfNotPositive(cfg.fetchInterval, 2) \in Int
  BY DEF IfNotPositive, Settings
<1>3. (IF cfg.cache = "nil" THEN "true" ELSE cfg.cache) \in {"nil", "true", "false"}
  BY DEF Settings
<1>4. (IF cfg.cache = "false" THEN cfg.cacheDir ELSE IfEmpty(cfg.cacheDir, "home")) \in Str
  BY <1>1 DEF Settings
<1>5. (IF cfg.networkMode # "" /\ cfg.network = "" /\ cfg.networkMode # "bridge"
       THEN cfg.networkMode ELSE cfg.network) \in Str
  BY DEF Settings
<1> DEFINE d == WithDefaults(cfg)
<1>6. /\ d.level = IfEmpty(cfg.level, "info") /\ d.file = IfEmpty(cfg.file, ".runner")
      /\ d.workdirParent = IfEmpty(cfg.workdirParent, "workspace")
      /\ d.hostParent = IfEmpty(cfg.hostParent, "home")
  BY DEF WithDefaults
<1>7. /\ d.capacity = IfNotPositive(cfg.capacity, 1) /\ d.timeout = IfNotPositive(cfg.timeout, 10800)
      /\ d.fetchTimeout = IfNotPositive(cfg.fetchTimeout, 5)
      /\ d.fetchInterval = IfNotPositive(cfg.fetchInterval, 2)
  BY DEF WithDefaults
<1>8. /\ d.cache = (IF cfg.cache = "nil" THEN "true" ELSE cfg.cache)
      /\ d.cacheDir = (IF cfg.cache = "false" THEN cfg.cacheDir ELSE IfEmpty(cfg.cacheDir, "home"))
  BY DEF WithDefaults
<1>9. /\ d.network = (IF cfg.networkMode # "" /\ cfg.network = "" /\ cfg.networkMode # "bridge"
                      THEN cfg.networkMode ELSE cfg.network)
      /\ d.networkMode = cfg.networkMode /\ d.envs = cfg.envs /\ d.envFile = cfg.envFile
  BY DEF WithDefaults
<1>10. d = Record(d)
  BY DEF WithDefaults, Record
<1> HIDE DEF d
<1>11. /\ d.level \in Str /\ d.file \in Str /\ d.workdirParent \in Str /\ d.hostParent \in Str
       /\ d.capacity \in Int /\ d.timeout \in Int /\ d.fetchTimeout \in Int /\ d.fetchInterval \in Int
  BY <1>1, <1>2, <1>6, <1>7
<1>12. d.cache \in {"nil", "true", "false"} /\ d.cacheDir \in Str /\ d.network \in Str
  BY <1>3, <1>4, <1>5, <1>8, <1>9
<1>13. d.networkMode \in Str /\ d.envs \in Vars(Str) /\ d.envFile \in Str
  BY <1>9 DEF Settings
<1>14. d \in Settings(Str)
  BY <1>10, <1>11, <1>12, <1>13 DEF Record, Settings
<1> QED
  BY <1>14 DEF d

(* Settings that need no default. *)
Settled(cfg) ==
    /\ cfg.capacity > 0 /\ cfg.timeout > 0 /\ cfg.fetchTimeout > 0 /\ cfg.fetchInterval > 0
    /\ cfg.file # "" /\ cfg.level # "" /\ cfg.workdirParent # "" /\ cfg.hostParent # ""
    /\ cfg.cache # "nil" /\ (cfg.cache = "true" => cfg.cacheDir # "")
    /\ (cfg.network = "" => cfg.networkMode \in {"", "bridge"})
LEMMA DefaultsSettle ==
    ASSUME NEW Str, NEW cfg \in Settings(Str)
    PROVE  Settled(WithDefaults(cfg))
<1> DEFINE d == WithDefaults(cfg)
<1>1. /\ d.level = IfEmpty(cfg.level, "info") /\ d.file = IfEmpty(cfg.file, ".runner")
      /\ d.workdirParent = IfEmpty(cfg.workdirParent, "workspace")
      /\ d.hostParent = IfEmpty(cfg.hostParent, "home")
  BY DEF WithDefaults, Settings
<1>2. /\ d.capacity = IfNotPositive(cfg.capacity, 1) /\ d.timeout = IfNotPositive(cfg.timeout, 10800)
      /\ d.fetchTimeout = IfNotPositive(cfg.fetchTimeout, 5)
      /\ d.fetchInterval = IfNotPositive(cfg.fetchInterval, 2)
  BY DEF WithDefaults, Settings
<1>3. /\ d.cache = (IF cfg.cache = "nil" THEN "true" ELSE cfg.cache)
      /\ d.cacheDir = (IF cfg.cache = "false" THEN cfg.cacheDir ELSE IfEmpty(cfg.cacheDir, "home"))
  BY DEF WithDefaults, Settings
<1>4. /\ d.network = (IF cfg.networkMode # "" /\ cfg.network = "" /\ cfg.networkMode # "bridge"
                      THEN cfg.networkMode ELSE cfg.network)
      /\ d.networkMode = cfg.networkMode
  BY DEF WithDefaults, Settings
<1> HIDE DEF d
<1>5. d.level # "" /\ d.file # "" /\ d.workdirParent # "" /\ d.hostParent # ""
  BY <1>1 DEF IfEmpty
<1>6. d.capacity > 0 /\ d.timeout > 0 /\ d.fetchTimeout > 0 /\ d.fetchInterval > 0
  BY <1>2 DEF IfNotPositive, Settings
<1>7. d.cache # "nil" /\ (d.cache = "true" => d.cacheDir # "")
  BY <1>3 DEF IfEmpty
<1>8. d.network = "" => d.networkMode \in {"", "bridge"}
  BY <1>4
<1> QED
  <2> SUFFICES Settled(d)
    BY DEF d
  <2> QED
    BY <1>5, <1>6, <1>7, <1>8 DEF Settled
LEMMA SettledStays ==
    ASSUME NEW Str, NEW cfg \in Settings(Str), Settled(cfg)
    PROVE  WithDefaults(cfg) = cfg
<1>1. /\ IfEmpty(cfg.level, "info") = cfg.level /\ IfEmpty(cfg.file, ".runner") = cfg.file
      /\ IfEmpty(cfg.workdirParent, "workspace") = cfg.workdirParent
      /\ IfEmpty(cfg.hostParent, "home") = cfg.hostParent
  BY DEF Settled, IfEmpty
<1>2. (IF cfg.cache = "false" THEN cfg.cacheDir ELSE IfEmpty(cfg.cacheDir, "home")) = cfg.cacheDir
  BY DEF Settled, IfEmpty, Settings
<1>3. /\ IfNotPositive(cfg.capacity, 1) = cfg.capacity /\ IfNotPositive(cfg.timeout, 10800) = cfg.timeout
      /\ IfNotPositive(cfg.fetchTimeout, 5) = cfg.fetchTimeout
      /\ IfNotPositive(cfg.fetchInterval, 2) = cfg.fetchInterval
  <2>1. \A v \in Int, n \in Int : v > 0 => IfNotPositive(v, n) = v
    BY DEF IfNotPositive
  <2>2. /\ cfg.capacity \in Int /\ cfg.timeout \in Int
        /\ cfg.fetchTimeout \in Int /\ cfg.fetchInterval \in Int
    BY DEF Settings
  <2>3. /\ cfg.capacity > 0 /\ cfg.timeout > 0 /\ cfg.fetchTimeout > 0 /\ cfg.fetchInterval > 0
    BY DEF Settled
  <2> QED
    BY <2>1, <2>2, <2>3
<1>4. (IF cfg.cache = "nil" THEN "true" ELSE cfg.cache) = cfg.cache
  BY DEF Settled
<1>5. (IF cfg.networkMode # "" /\ cfg.network = "" /\ cfg.networkMode # "bridge"
       THEN cfg.networkMode ELSE cfg.network) = cfg.network
  BY DEF Settled
<1> DEFINE d == WithDefaults(cfg)
<1>6. /\ d.level = cfg.level /\ d.file = cfg.file
      /\ d.workdirParent = cfg.workdirParent /\ d.hostParent = cfg.hostParent
  BY <1>1 DEF WithDefaults
<1>7. /\ d.capacity = cfg.capacity /\ d.timeout = cfg.timeout
      /\ d.fetchTimeout = cfg.fetchTimeout /\ d.fetchInterval = cfg.fetchInterval
  BY <1>3 DEF WithDefaults
<1>8. d.cache = cfg.cache /\ d.cacheDir = cfg.cacheDir
  BY <1>2, <1>4 DEF WithDefaults
<1>9. /\ d.network = cfg.network /\ d.networkMode = cfg.networkMode
      /\ d.envs = cfg.envs /\ d.envFile = cfg.envFile
  <2>1. d.network = (IF cfg.networkMode # "" /\ cfg.network = "" /\ cfg.networkMode # "bridge"
                     THEN cfg.networkMode ELSE cfg.network)
    BY DEF WithDefaults
  <2>2. d.networkMode = cfg.networkMode /\ d.envs = cfg.envs /\ d.envFile = cfg.envFile
    BY DEF WithDefaults
  <2> HIDE DEF d
  <2> QED
    BY <1>5, <2>1, <2>2
<1>10. d = Record(d)
  BY DEF WithDefaults, Record
<1>11. Record(cfg) = cfg
  BY DEF Record, Settings
<1> HIDE DEF d
<1>12. Record(d) = Record(cfg)
  BY <1>6, <1>7, <1>8, <1>9 DEF Record
<1> QED
  BY <1>10, <1>11, <1>12 DEF d

(* A configuration that LoadDefault returned is ready to be used by the       *)
(* daemon: there is a worker at least, there is a registration file, no       *)
(* timeout or interval is zero, and the cache is on or off (config.go:110).   *)
Ready(cfg) ==
    /\ cfg.capacity > 0 /\ cfg.file # "" /\ cfg.level # ""
    /\ cfg.timeout > 0 /\ cfg.fetchTimeout > 0 /\ cfg.fetchInterval > 0
    /\ cfg.cache \in {"true", "false"} /\ (cfg.cache = "true" => cfg.cacheDir # "")

THEOREM LoadedIsReady ==
    ASSUME NEW Str, Defaults \subseteq Str, NEW used \in BOOLEAN, NEW cfg \in Settings(Str),
           NEW env \in OldEnvs(Str), NEW disk \in EnvFiles(Str)
    PROVE  /\ LoadDefault(used, cfg, env, disk) \in Settings(Str)
           /\ Ready(LoadDefault(used, cfg, env, disk))
<1> DEFINE c == WithEnvFile(CompatibleWithOldEnvs(used, cfg, env), disk)
<1>1. c \in Settings(Str)
  BY OldEnvsType, EnvFileType
<1>2. WithDefaults(c) \in Settings(Str)
  BY <1>1, DefaultsType
<1>3. Ready(WithDefaults(c))
  <2> HIDE DEF c
  <2>1. Settled(WithDefaults(c)) /\ WithDefaults(c).cache \in {"nil", "true", "false"}
    BY <1>1, <1>2, DefaultsSettle DEF Settings
  <2> QED
    BY <2>1 DEF Ready, Settled
<1> QED
  BY <1>2, <1>3 DEF LoadDefault

(* "env ... has been ignored because config file is used" (deprecated.go:20): *)
(* the environment's variables of older versions do not change what a file    *)
(* says, errors included.                                                     *)
THEOREM FileHidesEnvironment ==
    ASSUME NEW cfg, NEW env, NEW other, NEW disk
    PROVE  /\ LoadDefault(TRUE, cfg, env, disk) = LoadDefault(TRUE, cfg, other, disk)
           /\ Fails(TRUE, cfg, env, disk) <=> Fails(TRUE, cfg, other, disk)
BY DEF LoadDefault, Fails, CompatibleWithOldEnvs

(* A configuration that was loaded, written to a file and loaded again is the *)
(* same: each rule is settled by one application, the deprecated              *)
(* network_mode "bridge", which leaves network empty, included.               *)
THEOREM LoadedTwice ==
    ASSUME NEW Str, Defaults \subseteq Str, NEW used \in BOOLEAN, NEW cfg \in Settings(Str),
           NEW env \in OldEnvs(Str), NEW other \in OldEnvs(Str), NEW disk \in EnvFiles(Str)
    PROVE  LET loaded == LoadDefault(used, cfg, env, disk)
           IN  LoadDefault(TRUE, loaded, other, disk) = loaded
<1> DEFINE c == CompatibleWithOldEnvs(used, cfg, env)
           e == WithEnvFile(c, disk)
           loaded == WithDefaults(e)
<1>1. c \in Settings(Str) /\ e \in Settings(Str)
  BY OldEnvsType, EnvFileType
<1>2. loaded \in Settings(Str)
  BY <1>1, DefaultsType
<1>3. WithEnvFile(loaded, disk) = loaded
  <2>1. e.envFile = c.envFile
    BY <1>1 DEF WithEnvFile, Settings
  <2>2. loaded.envFile = e.envFile /\ loaded.envs = e.envs
    BY <1>1 DEF WithDefaults, Settings
  <2>3. CASE c.envFile # "" /\ disk[c.envFile].kind = "file"
    <3>1. e.envs = Override(c.envs, disk[c.envFile].vars)
      BY <1>1, <2>3 DEF WithEnvFile, Settings
    <3>2. Override(loaded.envs, disk[loaded.envFile].vars) = loaded.envs
      BY <2>1, <2>2, <3>1, OverrideTwice
    <3>3. [loaded EXCEPT !.envs = loaded.envs] = loaded
      BY <1>2 DEF Settings
    <3> HIDE DEF loaded
    <3> QED
      BY <2>1, <2>2, <2>3, <3>2, <3>3 DEF WithEnvFile
  <2>4. CASE ~(c.envFile # "" /\ disk[c.envFile].kind = "file")
    <3> HIDE DEF loaded
    <3> QED
      BY <2>1, <2>2, <2>4 DEF WithEnvFile
  <2> QED
    BY <2>3, <2>4
<1>4. WithDefaults(loaded) = loaded
  <2> HIDE DEF e
  <2> QED
    BY <1>1, <1>2, DefaultsSettle, SettledStays
<1> QED
  <2> HIDE DEF loaded
  <2>1. LoadDefault(TRUE, loaded, other, disk) = loaded
    BY <1>3, <1>4 DEF LoadDefault, CompatibleWithOldEnvs
  <2> USE DEF loaded
  <2> QED
    BY <2>1 DEF LoadDefault
=============================================================================
