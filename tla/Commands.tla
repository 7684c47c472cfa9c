------------------------------ MODULE Commands ------------------------------
(***************************************************************************)
(* The workflow commands and the masks of the reporter (parseLogRow,       *)
(* handleCommand and addMask of internal/pkg/report/reporter.go): what     *)
(* becomes of the content of an entry that Fire logs, row after row.       *)
(* Module Reporter has what becomes of the row afterwards, and leaves open *)
(* whether an entry gives one.  All of it runs with stateMu held.          *)
(*                                                                         *)
(* A text is a sequence of words; a word stands for a character where the  *)
(* replacer splits a text, and for a name where a command is recognised.   *)
(* A line of the form ::command parameters::value is a message with that   *)
(* command (no command looks at the parameters), any other line a message  *)
(* with the command "".                                                    *)
(***************************************************************************)
EXTENDS Integers, Sequences, FiniteSets, SequencesExt

CONSTANTS
    Words,
    Token,         \* the task's token, and its gitea_runtime_token;
    RuntimeToken,  \* << >>: the task has none
    SecretSets,    \* the sets of secrets' values a task may have
    Messages,      \* [command, text] of the lines that are logged
    MaxLines       \* bound: lines logged

Text == Seq(Words)
Colons == "::"
Stars == "***"
ASSUME WordsAssumption == "" \notin Words /\ Colons \notin Words /\ Stars \notin Words
ASSUME MessagesAssumption ==
    /\ \A s \in SecretSets : IsFiniteSet(s) /\ s \subseteq Text
    /\ \A m \in Messages : m.command \in Words \cup {""} /\ m.text \in Text
    /\ Token \in Text /\ RuntimeToken \in Text /\ MaxLines \in Nat

VARIABLES
    oldnew,                \* what the replacer hides
    debugOutputEnabled,
    stopCommandEndToken,   \* << >>: commands are obeyed
    row,                   \* the row of the last message, if it gave one
    \* history
    secrets,               \* the values the task came with
    lines                  \* the messages, each with what handleCommand made of it

vars == <<oldnew, debugOutputEnabled, stopCommandEndToken, row, secrets, lines>>

Given(token) == IF token = << >> THEN << >> ELSE <<token>>
Credentials == Given(Token) \o Given(RuntimeToken)

(* NewReporter.  task.Secrets is a map: its values come in any order, empty   *)
(* ones included, after the tokens that are not empty.                        *)
Init ==
    /\ secrets \in SecretSets
    /\ \E order \in SetToSeqs(secrets) : oldnew = Credentials \o order
    /\ debugOutputEnabled \in (IF <<"true">> \in secrets THEN BOOLEAN ELSE {FALSE})
    /\ stopCommandEndToken = << >> /\ row = << >> /\ lines = << >>

(* The replacer.  At each place of the text the first of the masks that fits  *)
(* is replaced, and the search goes on behind it; the empty mask fits         *)
(* everywhere, but not twice in the same place: behind it another is looked   *)
(* for.                                                                       *)
Fits(mask, text, i) == i + Len(mask) - 1 <= Len(text) /\ mask = SubSeq(text, i, i + Len(mask) - 1)
Fitting(masks, text, i) == {k \in DOMAIN masks : Fits(masks[k], text, i)}
Empty(masks) == {k \in DOMAIN masks : masks[k] = << >>}
Replace(masks, text) ==
    LET from[i \in 1 .. Len(text) + 1] ==
            LET fit == Fitting(masks, text, i)
                longer == fit \ Empty(masks)
            IN  (IF fit # {} /\ Min(fit) \in Empty(masks) THEN <<Stars>> ELSE << >>) \o
                (IF longer # {} THEN <<Stars>> \o from[i + Len(masks[Min(longer)])]
                 ELSE IF i <= Len(text) THEN <<text[i]>> \o from[i + 1]
                 ELSE << >>)
    IN  from[1]

Content(m) == IF m.command = "" THEN m.text ELSE <<Colons, m.command, Colons>> \o m.text

(* parseLogRow: what is left of the message, if anything, goes through the    *)
(* replacer.                                                                  *)
ParseLogRow(m, out) ==
    /\ row' = [i \in DOMAIN out |-> Replace(oldnew', out[i])]
    /\ lines' = Append(lines, [message |-> m, out |-> out])
    /\ UNCHANGED <<debugOutputEnabled, secrets>>

(* handleCommand: a stopped reporter looks for the end token only; the cases  *)
(* of its switch are tried in order, that of the end token last.              *)
Commands == {"add-mask", "debug", "notice", "warning", "error", "group", "endgroup", "stop-commands"}
IsEndToken(m) == stopCommandEndToken = <<m.command>>
Stopped_Never(m) == FALSE   \* mutant
Stopped(m) == stopCommandEndToken # << >> /\ ~IsEndToken(m)
Obeys(m, c) == m.command = c /\ ~Stopped(m)

(* Mutant: the mask is the whole line, or replaces those before. *)
AddMask_Line(m) ==
    /\ Obeys(m, "add-mask")
    /\ oldnew' = Append(oldnew, Content(m))
    /\ ParseLogRow(m, << >>)
    /\ UNCHANGED stopCommandEndToken
AddMask_Only(m) ==
    /\ Obeys(m, "add-mask")
    /\ oldnew' = <<m.text>>
    /\ ParseLogRow(m, << >>)
    /\ UNCHANGED stopCommandEndToken
AddMask(m) ==
    /\ Obeys(m, "add-mask")
    /\ oldnew' = Append(oldnew, m.text)
    /\ ParseLogRow(m, << >>)
    /\ UNCHANGED stopCommandEndToken
Debug(m) ==
    /\ Obeys(m, "debug")
    /\ UNCHANGED <<oldnew, stopCommandEndToken>>
    /\ ParseLogRow(m, IF debugOutputEnabled THEN <<m.text>> ELSE << >>)
StopCommands(m) ==
    /\ Obeys(m, "stop-commands")
    /\ stopCommandEndToken' = m.text
    /\ UNCHANGED oldnew
    /\ ParseLogRow(m, << >>)
Resume_Keeps(m) ==   \* mutant
    /\ IsEndToken(m) /\ m.command \notin Commands
    /\ UNCHANGED <<oldnew, stopCommandEndToken>>
    /\ ParseLogRow(m, << >>)
Resume(m) ==
    /\ IsEndToken(m) /\ m.command \notin Commands
    /\ stopCommandEndToken' = << >>
    /\ UNCHANGED oldnew
    /\ ParseLogRow(m, << >>)
Passes(m) ==
    \/ Stopped(m)
    \/ /\ m.command \notin {"add-mask", "debug", "stop-commands"}
       /\ IsEndToken(m) => m.command \in Commands
Original_Masks(m) ==   \* mutant: a stopped add-mask still hides its value
    /\ Passes(m)
    /\ oldnew' = IF m.command = "add-mask" THEN Append(oldnew, m.text) ELSE oldnew
    /\ UNCHANGED stopCommandEndToken
    /\ ParseLogRow(m, <<Content(m)>>)
Original(m) ==
    /\ Passes(m)
    /\ UNCHANGED <<oldnew, stopCommandEndToken>>
    /\ ParseLogRow(m, <<Content(m)>>)

Log(m) == AddMask(m) \/ Debug(m) \/ StopCommands(m) \/ Resume(m) \/ Original(m)
Next == Len(lines) < MaxLines /\ \E m \in Messages : Log(m)
Spec == Init /\ [][Next]_vars

-----------------------------------------------------------------------------
(* Properties *)

Withheld(i) == lines[i].out = << >>
Command(i) == lines[i].message.command
Value(i) == lines[i].message.text

(* What a reader of the log expects to be hidden: the credentials of the task *)
(* and the value of every add-mask that was obeyed, and thus not logged.      *)
Hidden ==
    ToSet(Credentials) \cup secrets
    \cup {Value(i) : i \in {j \in DOMAIN lines : Command(j) = "add-mask" /\ Withheld(j)}}
Occurs(text, in) == \E i \in 1 .. Len(in) - Len(text) + 1 : Fits(text, in, i)

(* The line i stopped the commands, until a line has its value as command.    *)
Stops(i) == Command(i) = "stop-commands" /\ Withheld(i) /\ Value(i) # << >>
EndToken(i, j) == <<Command(j)>> = Value(i)
StoppedSince(i, j) == Stops(i) /\ \A k \in i + 1 .. j : ~EndToken(i, k)

TypeOK ==
    /\ oldnew \in Seq(Text) /\ stopCommandEndToken \in Text
    /\ debugOutputEnabled \in BOOLEAN
    /\ row \in Seq(Seq(Words \cup {Stars, Colons})) /\ Len(row) <= 1

(* No row holds a value that is to be hidden (reporter.go:429, 437), however  *)
(* the values overlap and whenever they came to be known: a mask outlives     *)
(* those that follow it, and every stop and resumption.                       *)
ValuesHidden ==
    \A i \in DOMAIN row : \A v \in Hidden \ {<< >>} : ~Occurs(v, row[i])

(* The replacer changes no row without a cause: one in which no value occurs  *)
(* is logged as it is, and a value that a stopped add-mask named is not       *)
(* hidden (reporter.go:378).  (The empty value occurs in every row.)          *)
OthersShown ==
    row # << >> =>
        LET out == lines[Len(lines)].out[1]
        IN  (\A v \in Hidden : ~Occurs(v, out)) => row[1] = out

(* From a stop-commands to its end token every line is logged as it came, the *)
(* commands among them included (reporter.go:378; TestReporter_parseLogRow).  *)
SilentWhileStopped ==
    \A i, j \in DOMAIN lines :
        i < j /\ StoppedSince(i, j) => lines[j].out = <<Content(lines[j].message)>>

(* The end token is not logged and commands are obeyed again behind it, until *)
(* the next stop (reporter.go:411), unless the token is a command's name:     *)
(* then that command is obeyed, and nothing else until the log ends.          *)
ResumesOnToken ==
    \A i, j \in DOMAIN lines :
        (i < j /\ StoppedSince(i, j - 1) /\ EndToken(i, j) /\ Command(j) \notin Commands) =>
            /\ Withheld(j)
            /\ \A k \in j + 1 .. Len(lines) :
                 (Command(k) \in {"add-mask", "stop-commands"} /\ \A n \in j + 1 .. k - 1 : ~Stops(n)) => Withheld(k)

=============================================================================
