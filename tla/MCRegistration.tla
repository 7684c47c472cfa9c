--------------------------- MODULE MCRegistration ---------------------------
(* Small instances of Registration for TLC. *)
EXTENDS Registration

MCWords == {"", SchemeHost, SchemeDocker, "vm", "a", "b", "d", "i", DefaultImage}

(* No label, a name twice, an invalid label, a valid one after an invalid    *)
(* one; among the flags, one that is written otherwise when it is saved; by   *)
(* default the image that unknown labels get.                                 *)
MCLabelLists ==
    LET a == <<"a", "host">>  c == <<"a", "docker", "i">>  b == <<"b", "vm">>  d == <<"d", "docker", "i">>
    IN {<<>>, <<a, c>>, <<b>>, <<b, d>>}
MCDefaultLabels == << <<"d", "docker", DefaultImage>> >>

(* A common socket; DOCKER_HOST, over the network or empty; a configured host *)
(* that comes first.                                                          *)
MCDockerSetups ==
    {[host |-> "", env |-> Unset], [host |-> "", env |-> "tcp"],
     [host |-> "-", env |-> ""], [host |-> "unix", env |-> "tcp"]}

MCFlags == {
    NoInputs,
    [addr |-> "text", token |-> "text", name |-> "", labels |-> <<>>, ephemeral |-> TRUE],
    [addr |-> "text", token |-> "text", name |-> "text", labels |-> << <<"a", "host", "">> >>, ephemeral |-> FALSE],
    [addr |-> "blank", token |-> "text", name |-> "blank", labels |-> << <<"b", "vm">> >>, ephemeral |-> FALSE]}
=============================================================================
