------------------------------- MODULE Docker -------------------------------
(***************************************************************************)
(* The docker host of the runner: where getDockerSocketPath                *)
(* (internal/app/cmd/daemon.go) finds it, and what the daemon makes of the *)
(* configuration once CheckIfDockerRunning (internal/pkg/envcheck) has     *)
(* pinged it.  Part of module Registration, which has when.                *)
(*                                                                         *)
(* There is one address of each scheme.                                    *)
(***************************************************************************)

(* The common socket paths that may exist are of two schemes; a configured   *)
(* host or DOCKER_HOST may also be reached over the network.                 *)
CommonSockets == {"unix", "npipe"}
Addresses == CommonSockets \cup {"tcp"}
Unset == "unset"     \* DOCKER_HOST is not in the environment

(* host is container.docker_host of the configuration, "-" for "do not mount *)
(* a socket in the jobs", env DOCKER_HOST, found the path that the loop which *)
(* waits for docker found last, pinged what answered the check.              *)
Setup == [host : Addresses \cup {"", "-"}, env : Addresses \cup {"", Unset}]
NoDocker == [host |-> "", env |-> Unset, found |-> Unset, pinged |-> Unset]

(* getDockerSocketPath: where docker may be looked for at some moment; no     *)
(* path if none of the common ones is there.  An empty DOCKER_HOST counts,    *)
(* and is the docker client's default.                                        *)
SocketPaths(d) ==
    IF d.host \notin {"", "-"} THEN {d.host}
    ELSE IF d.env # Unset THEN {d.env}
    ELSE CommonSockets

DockerType ==
    [host : Addresses \cup {"", "-"}, env : Addresses \cup {"", Unset},
     found : Addresses \cup {"", Unset}, pinged : Addresses \cup {"", Unset}]

(* A job's container can mount a socket only. *)
Mountable(host) == IF host = "tcp" THEN "-" ELSE host

(* After the check of path: the clients use DOCKER_HOST, and the jobs mount   *)
(* host; what the loop found is another variable of the same name, out of     *)
(* scope here.  (Fault: it is the same variable.)                            *)
Checked_Found(d, path) ==
    [host |-> Mountable(IF d.host # "" THEN d.host ELSE IF d.found # Unset THEN d.found ELSE path),
     env |-> path, found |-> Unset, pinged |-> path]
Checked(d, path) ==
    [host |-> Mountable(IF d.host # "" THEN d.host ELSE path),
     env |-> path, found |-> Unset, pinged |-> path]
=============================================================================
