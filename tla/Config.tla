------------------------------- MODULE Config -------------------------------
(***************************************************************************)
(* The configuration of the runner (internal/pkg/config/config.go and      *)
(* deprecated.go): what LoadDefault makes of a configuration file, the     *)
(* environment variables of older versions and the env file.               *)
(*                                                                         *)
(* The settings without a rule of their own (privileged, valid_volumes...) *)
(* are left out.  Durations are in seconds.                                *)
(***************************************************************************)
EXTENDS Integers

(* Texts of Str, "" for what is not set, and maps of variables. *)
Vars(Str) == UNION {[names -> Str] : names \in SUBSET Str}

(* What the file may say, and what LoadDefault returns; Config{} if no file   *)
(* is named.                                                                  *)
Settings(Str) ==
    [level : Str, file : Str, capacity : Int, timeout : Int,
     fetchTimeout : Int, fetchInterval : Int, envs : Vars(Str), envFile : Str,
     cache : {"nil", "true", "false"}, cacheDir : Str,
     workdirParent : Str, hostParent : Str, network : Str, networkMode : Str]

(* The environment as it is parsed: a boolean that is not one is FALSE, a     *)
(* number that is not one 0; environ has the pairs of GITEA_RUNNER_ENVIRON    *)
(* with a name.                                                               *)
OldEnvs(Str) ==
    [debug : BOOLEAN, trace : BOOLEAN, capacity : Int,
     file : [set : BOOLEAN, value : Str], environ : Vars(Str),
     envFile : [set : BOOLEAN, value : Str]]

(* What the disk has under a name: nothing or a directory, a file that is no  *)
(* env file, or variables.                                                    *)
EnvFiles(Str) == [Str -> [kind : {"nothing", "bad", "file"}, vars : Vars(Str)]]

Override(f, g) == [n \in DOMAIN f \cup DOMAIN g |-> IF n \in DOMAIN g THEN g[n] ELSE f[n]]

(* They count only without a configuration file. *)
CompatibleWithOldEnvs(fileUsed, cfg, env) ==
    IF fileUsed THEN cfg
    ELSE [cfg EXCEPT
        !.level = IF env.trace THEN "trace" ELSE IF env.debug THEN "debug" ELSE @,
        !.capacity = IF env.capacity > 0 THEN env.capacity ELSE @,
        !.file = IF env.file.set THEN env.file.value ELSE @,
        !.envs = Override(@, env.environ),
        !.envFile = IF env.envFile.set THEN env.envFile.value ELSE @]

(* The variables of the env file, if it is one, replace those of the file. *)
WithEnvFile(cfg, disk) ==
    IF cfg.envFile # "" /\ disk[cfg.envFile].kind = "file"
    THEN [cfg EXCEPT !.envs = Override(@, disk[cfg.envFile].vars)] ELSE cfg

IfEmpty(value, default) == IF value = "" THEN default ELSE value
IfNotPositive(value, default) == IF value <= 0 THEN default ELSE value

WithDefaults(cfg) ==
    [level |-> IfEmpty(cfg.level, "info"), file |-> IfEmpty(cfg.file, ".runner"),
     capacity |-> IfNotPositive(cfg.capacity, 1), timeout |-> IfNotPositive(cfg.timeout, 10800),
     fetchTimeout |-> IfNotPositive(cfg.fetchTimeout, 5),
     fetchInterval |-> IfNotPositive(cfg.fetchInterval, 2),
     envs |-> cfg.envs, envFile |-> cfg.envFile,
     cache |-> IF cfg.cache = "nil" THEN "true" ELSE cfg.cache,
     cacheDir |-> IF cfg.cache = "false" THEN cfg.cacheDir ELSE IfEmpty(cfg.cacheDir, "home"),
     workdirParent |-> IfEmpty(cfg.workdirParent, "workspace"),
     hostParent |-> IfEmpty(cfg.hostParent, "home"),
     network |-> IF cfg.networkMode # "" /\ cfg.network = "" /\ cfg.networkMode # "bridge"
                 THEN cfg.networkMode ELSE cfg.network,
     networkMode |-> cfg.networkMode]

(* The file is parsed into cfg.  An env file that cannot be read is an error. *)
Fails(fileUsed, cfg, env, disk) ==
    LET name == CompatibleWithOldEnvs(fileUsed, cfg, env).envFile
    IN  name # "" /\ disk[name].kind = "bad"
LoadDefault(fileUsed, cfg, env, disk) ==
    WithDefaults(WithEnvFile(CompatibleWithOldEnvs(fileUsed, cfg, env), disk))
=============================================================================
