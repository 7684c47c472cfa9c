------------------------------- MODULE Labels -------------------------------
(***************************************************************************)
(* The labels of a runner (internal/pkg/labels/labels.go).  A label is     *)
(* written name, name:schema or name:schema:arg; here such a string is the *)
(* sequence of the parts between its first two colons.                     *)
(***************************************************************************)
EXTENDS Integers, Sequences

CONSTANT Words   \* the parts of labels

SchemeHost == "host"
SchemeDocker == "docker"
ASSUME WordsAssumption == {"", SchemeHost, SchemeDocker} \subseteq Words

LabelString == {str \in Seq(Words) : Len(str) \in 1..3}
LabelType == [name : Words, schema : {SchemeHost, SchemeDocker}, arg : Words]

(* Parse: the label of a string, and whether its schema is supported. *)
Label(str) ==
    [name |-> str[1],
     schema |-> IF Len(str) >= 2 THEN str[2] ELSE SchemeHost,
     arg |-> IF Len(str) >= 3 THEN str[3] ELSE ""]
Parses(str) == Label(str).schema \in {SchemeHost, SchemeDocker}

(* PickPlatform: what a job with these runs-on labels runs on.  The last label *)
(* of a name counts, and the first of the job's labels that has one; the      *)
(* default is for a job whose labels are all unknown to the runner.  The      *)
(* slashes before an image are not modelled.                                  *)
SelfHosted == "-self-hosted"
DefaultImage == "docker.gitea.com/runner-images:ubuntu-latest"
Last(ls, name) == CHOOSE i \in DOMAIN ls : ls[i].name = name /\ \A j \in DOMAIN ls : ls[j].name = name => j <= i
Platform(l) == IF l.schema = SchemeHost THEN SelfHosted ELSE l.arg
PickPlatform(ls, runsOn) ==
    LET known == {i \in DOMAIN runsOn : \E j \in DOMAIN ls : ls[j].name = runsOn[i]}
        first == CHOOSE i \in known : \A j \in known : i <= j
    IN  IF known = {} THEN DefaultImage ELSE Platform(ls[Last(ls, runsOn[first])])

(* The loop of runDaemon, of NewRunner and of register over label strings:    *)
(* what does not parse is ignored.                                            *)
Accepted(strs) ==
    LET kept[n \in 0 .. Len(strs)] ==
            IF n = 0 THEN << >>
            ELSE IF Parses(strs[n]) THEN Append(kept[n - 1], strs[n]) ELSE kept[n - 1]
    IN  kept[Len(strs)]
ParseAll(strs) == LET ok == Accepted(strs) IN [i \in DOMAIN ok |-> Label(ok[i])]

(* RequireDocker.  (Fault: the first label decides.)                          *)
RequireDocker_First(ls) == ls # << >> /\ Head(ls).schema = SchemeDocker
RequireDocker(ls) == \E i \in DOMAIN ls : ls[i].schema = SchemeDocker

Names(ls) == [i \in DOMAIN ls |-> ls[i].name]

ToString(l) ==
    IF l.schema = "" THEN <<l.name>>
    ELSE IF l.arg = "" THEN <<l.name, l.schema>> ELSE <<l.name, l.schema, l.arg>>
ToStrings(ls) == [i \in DOMAIN ls |-> ToString(ls[i])]
=============================================================================
