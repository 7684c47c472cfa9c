--------------------------- MODULE CommandsProofs ---------------------------
(***************************************************************************)
(* Theorems about module Commands: what a stopped reporter logs, when it   *)
(* obeys again, and what the replacer hides and shows, for any words,      *)
(* secrets, messages and number of lines.                                  *)
(***************************************************************************)
EXTENDS Commands, Induction, FiniteSetTheorems, SequenceTheorems, TLAPS

(* What handleCommand may make of a message. *)
Outs == {<< >>} \cup {<<m.text>> : m \in Messages} \cup {<<Content(m)>> : m \in Messages}
Line(m, out) == [message |-> m, out |-> out]

(* The line of the j is the end token of the line i, which stopped commands.  *)
Resumed(i, j) == i < j /\ StoppedSince(i, j - 1) /\ EndToken(i, j) /\ Command(j) \notin Commands

(* While a stop-commands is in effect its value is the token, and once it was *)
(* lifted there is none until the next.                                       *)
LinesTyped == lines \in Seq([message : Messages, out : Outs])
TokenIsLast ==
    \A i \in DOMAIN lines : StoppedSince(i, Len(lines)) => stopCommandEndToken = Value(i)
TokenIsGone ==
    \A i, j \in DOMAIN lines :
        (Resumed(i, j) /\ \A n \in j + 1 .. Len(lines) : ~Stops(n)) => stopCommandEndToken = << >>
IInv == LinesTyped /\ TokenIsLast /\ TokenIsGone /\ SilentWhileStopped /\ ResumesOnToken

(* What a step does to the token, depending on what becomes of the message.   *)
LEMMA StepCases ==
    ASSUME NEW m \in Messages, Log(m)
    PROVE  \E out \in Outs :
             /\ lines' = Append(lines, Line(m, out))
             /\ Stopped(m) => out = <<Content(m)>> /\ stopCommandEndToken' = stopCommandEndToken
             /\ IF m.command = "stop-commands" /\ out = << >>
                THEN stopCommandEndToken' = m.text
                ELSE stopCommandEndToken' \in {stopCommandEndToken, << >>}
             /\ (IsEndToken(m) /\ m.command \notin Commands) =>
                   out = << >> /\ stopCommandEndToken' = << >>
             /\ (stopCommandEndToken = << >> /\ m.command \in {"add-mask", "stop-commands"}) =>
                   out = << >>
<1>1. CASE AddMask(m)
  <2>1. lines' = Append(lines, Line(m, << >>)) /\ stopCommandEndToken' = stopCommandEndToken
    BY <1>1 DEF AddMask, ParseLogRow, Line
  <2>2. m.command = "add-mask" /\ ~Stopped(m) /\ m.command \in Commands
    BY <1>1 DEF AddMask, Obeys, Commands
  <2> QED
    BY <2>1, <2>2 DEF Outs
<1>2. CASE Debug(m)
  <2>1. PICK out \in {<<m.text>>, << >>} : lines' = Append(lines, Line(m, out))
    BY <1>2 DEF Debug, ParseLogRow, Line
  <2>2. stopCommandEndToken' = stopCommandEndToken
    BY <1>2 DEF Debug
  <2>3. m.command = "debug" /\ ~Stopped(m) /\ m.command \in Commands
    BY <1>2 DEF Debug, Obeys, Commands
  <2>4. out \in Outs
    BY <2>1 DEF Outs
  <2> QED
    BY <2>1, <2>2, <2>3, <2>4
<1>3. CASE StopCommands(m)
  <2>1. lines' = Append(lines, Line(m, << >>)) /\ stopCommandEndToken' = m.text
    BY <1>3 DEF StopCommands, ParseLogRow, Line
  <2>2. m.command = "stop-commands" /\ ~Stopped(m) /\ m.command \in Commands
    BY <1>3 DEF StopCommands, Obeys, Commands
  <2> QED
    BY <2>1, <2>2 DEF Outs
<1>4. CASE Resume(m)
  <2>1. lines' = Append(lines, Line(m, << >>)) /\ stopCommandEndToken' = << >>
    BY <1>4 DEF Resume, ParseLogRow, Line
  <2>2. ~Stopped(m) /\ m.command # "stop-commands"
    BY <1>4 DEF Resume, Stopped, Commands
  <2> QED
    BY <2>1, <2>2 DEF Outs
<1>5. CASE Original(m)
  <2>1. lines' = Append(lines, Line(m, <<Content(m)>>)) /\ stopCommandEndToken' = stopCommandEndToken
    BY <1>5 DEF Original, ParseLogRow, Line
  <2>2. stopCommandEndToken = << >> => ~Stopped(m)
    BY DEF Stopped
  <2>3. IsEndToken(m) => ~Stopped(m)
    BY DEF Stopped
  <2>4. Stopped(m) \/ (/\ m.command \notin {"add-mask", "debug", "stop-commands"}
                       /\ IsEndToken(m) => m.command \in Commands)
    BY <1>5 DEF Original, Passes
  <2>5. <<Content(m)>> \in Outs /\ <<Content(m)>> # << >>
    BY DEF Outs
  <2> QED
    BY <2>1, <2>2, <2>3, <2>4, <2>5
<1> QED
  BY <1>1, <1>2, <1>3, <1>4, <1>5 DEF Log

(* What the lines so far say of each other does not change when one is added. *)
LEMMA Extended ==
    ASSUME LinesTyped, NEW m \in Messages, NEW out \in Outs, lines' = Append(lines, Line(m, out))
    PROVE  /\ Len(lines) \in Nat /\ Len(lines') = Len(lines) + 1
           /\ DOMAIN lines = 1 .. Len(lines) /\ DOMAIN lines' = 1 .. Len(lines) + 1
           /\ \A k \in 1 .. Len(lines) : lines'[k] = lines[k]
           /\ lines'[Len(lines) + 1] = Line(m, out)
           /\ LinesTyped'
<1>1. Line(m, out) \in [message : Messages, out : Outs]
  BY DEF Line
<1> QED
  BY <1>1 DEF LinesTyped
LEMMA SameBefore ==
    ASSUME NEW k, lines'[k] = lines[k]
    PROVE  /\ Withheld(k)' <=> Withheld(k)
           /\ Command(k)' = Command(k) /\ Value(k)' = Value(k)
           /\ Stops(k)' <=> Stops(k)
BY DEF Withheld, Command, Value, Stops
LEMMA SinceBefore ==
    ASSUME NEW L \in Nat, \A k \in 1 .. L : lines'[k] = lines[k],
           NEW i \in 1 .. L, NEW j \in 0 .. L
    PROVE  StoppedSince(i, j)' <=> StoppedSince(i, j)
<1>1. i + 1 .. j \subseteq 1 .. L
  OBVIOUS
<1>2. \A k \in i + 1 .. j : EndToken(i, k)' <=> EndToken(i, k)
  BY <1>1 DEF EndToken, Command, Value
<1>3. Stops(i)' <=> Stops(i)
  BY SameBefore
<1> QED
  BY <1>2, <1>3 DEF StoppedSince

LEMMA Initially == Init => IInv
<1> SUFFICES ASSUME Init PROVE IInv
  OBVIOUS
<1>1. lines = << >> /\ DOMAIN lines = {} /\ LinesTyped
  BY DEF Init, LinesTyped
<1> QED
  BY <1>1 DEF IInv, TokenIsLast, TokenIsGone, SilentWhileStopped, ResumesOnToken

LEMMA Inductive == IInv /\ [Next]_vars => IInv'
<1> SUFFICES ASSUME IInv, [Next]_vars PROVE IInv'
  OBVIOUS
<1>1. CASE UNCHANGED vars
  <2>1. lines' = lines /\ stopCommandEndToken' = stopCommandEndToken
    BY <1>1 DEF vars
  <2>2. LinesTyped' /\ TokenIsLast'
    BY <2>1 DEF IInv, LinesTyped, TokenIsLast, StoppedSince, Stops, EndToken, Command, Value, Withheld
  <2>3. TokenIsGone'
    BY <2>1 DEF IInv, TokenIsGone, Resumed, StoppedSince, Stops, EndToken, Command, Value, Withheld
  <2>4. SilentWhileStopped'
    BY <2>1 DEF IInv, SilentWhileStopped, StoppedSince, Stops, EndToken, Command, Value, Withheld
  <2>5. ResumesOnToken'
    BY <2>1 DEF IInv, ResumesOnToken, StoppedSince, Stops, EndToken, Command, Value, Withheld
  <2> QED
    BY <2>2, <2>3, <2>4, <2>5 DEF IInv
<1>2. CASE Next
  <2>1. PICK m \in Messages : Log(m)
    BY <1>2 DEF Next
  <2>2. PICK out \in Outs :
          /\ lines' = Append(lines, Line(m, out))
          /\ Stopped(m) => out = <<Content(m)>> /\ stopCommandEndToken' = stopCommandEndToken
          /\ IF m.command = "stop-commands" /\ out = << >>
             THEN stopCommandEndToken' = m.text
             ELSE stopCommandEndToken' \in {stopCommandEndToken, << >>}
          /\ (IsEndToken(m) /\ m.command \notin Commands) =>
                out = << >> /\ stopCommandEndToken' = << >>
          /\ (stopCommandEndToken = << >> /\ m.command \in {"add-mask", "stop-commands"}) =>
                out = << >>
    BY <2>1, StepCases
  <2>3. LinesTyped /\ TokenIsLast /\ TokenIsGone /\ SilentWhileStopped /\ ResumesOnToken
    BY DEF IInv
  <2>4. PICK L \in Nat :
          /\ L = Len(lines) /\ Len(lines') = L + 1
          /\ DOMAIN lines = 1 .. L /\ DOMAIN lines' = 1 .. L + 1
          /\ \A k \in 1 .. L : lines'[k] = lines[k]
          /\ lines'[L + 1] = Line(m, out) /\ LinesTyped'
    BY <2>2, <2>3, Extended
  <2>5. /\ Command(L + 1)' = m.command /\ Value(L + 1)' = m.text /\ (Withheld(L + 1)' <=> out = << >>)
        /\ Stops(L + 1)' <=> (m.command = "stop-commands" /\ out = << >> /\ m.text # << >>)
    BY <2>4 DEF Command, Value, Withheld, Stops, Line
  \* a stop in effect before the new line: its value is the token
  <2>6. \A i \in 1 .. L : StoppedSince(i, L)' =>
          stopCommandEndToken = Value(i) /\ Value(i)' = Value(i) /\ Value(i) # << >>
    <3> SUFFICES ASSUME NEW i \in 1 .. L, StoppedSince(i, L)'
                 PROVE  stopCommandEndToken = Value(i) /\ Value(i)' = Value(i) /\ Value(i) # << >>
      OBVIOUS
    <3>1. StoppedSince(i, L)
      BY <2>4, SinceBefore
    <3>2. Value(i)' = Value(i)
      BY <2>4, SameBefore
    <3>3. stopCommandEndToken = Value(i)
      BY <2>3, <2>4, <3>1 DEF TokenIsLast
    <3>4. Value(i) # << >>
      BY <3>1 DEF StoppedSince, Stops
    <3> QED
      BY <3>2, <3>3, <3>4
  \* the new line while commands are stopped
  <2>7. \A i \in 1 .. L : StoppedSince(i, L + 1)' =>
          /\ out = <<Content(m)>>
          /\ stopCommandEndToken' = stopCommandEndToken /\ stopCommandEndToken = Value(i)'
    <3> SUFFICES ASSUME NEW i \in 1 .. L, StoppedSince(i, L + 1)'
                 PROVE  /\ out = <<Content(m)>>
                        /\ stopCommandEndToken' = stopCommandEndToken /\ stopCommandEndToken = Value(i)'
      OBVIOUS
    <3>1. StoppedSince(i, L)' /\ ~EndToken(i, L + 1)'
      BY DEF StoppedSince
    <3>2. stopCommandEndToken = Value(i)' /\ stopCommandEndToken # << >>
      BY <2>6, <3>1
    <3>3. <<m.command>> # stopCommandEndToken
      BY <2>5, <3>1, <3>2 DEF EndToken
    <3>4. Stopped(m)
      BY <3>2, <3>3 DEF Stopped, IsEndToken
    <3> QED
      BY <2>2, <3>2, <3>4
  <2>8. TokenIsLast'
    <3> SUFFICES ASSUME NEW i \in 1 .. L + 1, StoppedSince(i, L + 1)'
                 PROVE  stopCommandEndToken' = Value(i)'
      BY <2>4 DEF TokenIsLast
    <3>1. CASE i \in 1 .. L
      BY <2>7, <3>1
    <3>2. CASE i = L + 1
      <4>1. m.command = "stop-commands" /\ out = << >>
        BY <2>5, <3>2 DEF StoppedSince
      <4> QED
        BY <2>2, <2>5, <3>2, <4>1
    <3> QED
      BY <3>1, <3>2
  <2>9. SilentWhileStopped'
    <3> SUFFICES ASSUME NEW i \in 1 .. L + 1, NEW j \in 1 .. L + 1, i < j, StoppedSince(i, j)'
                 PROVE  lines'[j].out = <<Content(lines'[j].message)>>
      BY <2>4 DEF SilentWhileStopped
    <3>1. CASE j \in 1 .. L
      <4>1. i \in 1 .. L /\ lines'[j] = lines[j] /\ StoppedSince(i, j)
        BY <2>4, <3>1, SinceBefore
      <4>2. lines[j].out = <<Content(lines[j].message)>>
        BY <2>3, <2>4, <3>1, <4>1 DEF SilentWhileStopped
      <4> QED
        BY <4>1, <4>2
    <3>2. CASE j = L + 1
      <4>1. i \in 1 .. L
        BY <3>2
      <4>2. out = <<Content(m)>>
        BY <2>7, <3>2, <4>1
      <4> QED
        BY <2>4, <3>2, <4>2 DEF Line
    <3> QED
      BY <3>1, <3>2
  <2>10. \A i, j \in 1 .. L : Resumed(i, j)' <=> Resumed(i, j)
    <3> TAKE i, j \in 1 .. L
    <3>1. StoppedSince(i, j - 1)' <=> StoppedSince(i, j - 1)
      BY <2>4, SinceBefore
    <3>2. (EndToken(i, j)' <=> EndToken(i, j)) /\ Command(j)' = Command(j)
      BY <2>4 DEF EndToken, Command, Value
    <3> QED
      BY <3>1, <3>2 DEF Resumed
  \* the new line as the end token
  <2>11. \A i \in 1 .. L + 1 : Resumed(i, L + 1)' => out = << >> /\ stopCommandEndToken' = << >>
    <3> SUFFICES ASSUME NEW i \in 1 .. L + 1, Resumed(i, L + 1)'
                 PROVE  out = << >> /\ stopCommandEndToken' = << >>
      OBVIOUS
    <3>1. i \in 1 .. L /\ StoppedSince(i, (L + 1) - 1)' /\ EndToken(i, L + 1)'
      BY DEF Resumed
    <3>2. (L + 1) - 1 = L
      OBVIOUS
    <3>3. stopCommandEndToken = Value(i)'
      BY <2>6, <3>1, <3>2
    <3>4. IsEndToken(m) /\ m.command \notin Commands
      BY <2>5, <3>1, <3>3 DEF Resumed, EndToken, IsEndToken
    <3> QED
      BY <2>2, <3>4
  \* a line that was the end token, and no stop since before the new line
  <2>12. ASSUME NEW i \in 1 .. L, NEW j \in 1 .. L, Resumed(i, j), \A k \in j + 1 .. L : ~Stops(k)'
         PROVE  stopCommandEndToken = << >>
    <3>1. \A k \in j + 1 .. L : ~Stops(k)
      <4>1. ASSUME NEW k \in j + 1 .. L PROVE ~Stops(k)
        <5>1. k \in 1 .. L
          OBVIOUS
        <5> QED
          BY <2>4, <2>12, <5>1, SameBefore
      <4> QED
        BY <4>1
    <3> QED
      BY <2>3, <2>4, <2>12, <3>1 DEF TokenIsGone
  <2>13. TokenIsGone'
    <3> SUFFICES ASSUME NEW i \in 1 .. L + 1, NEW j \in 1 .. L + 1, Resumed(i, j)',
                        \A k \in j + 1 .. L + 1 : ~Stops(k)'
                 PROVE  stopCommandEndToken' = << >>
      BY <2>4 DEF TokenIsGone
    <3>1. CASE j = L + 1
      BY <2>11, <3>1
    <3>2. CASE j \in 1 .. L
      <4>1. i \in 1 .. L
        BY <3>2 DEF Resumed
      <4>2. stopCommandEndToken = << >>
        BY <2>10, <2>12, <3>2, <4>1
      <4>3. ~Stops(L + 1)'
        BY <3>2
      <4> QED
        BY <2>2, <2>5, <4>2, <4>3
    <3> QED
      BY <3>1, <3>2
  <2>14. ResumesOnToken'
    <3> SUFFICES ASSUME NEW i \in 1 .. L + 1, NEW j \in 1 .. L + 1, Resumed(i, j)'
                 PROVE  /\ Withheld(j)'
                        /\ \A k \in j + 1 .. L + 1 :
                             (/\ Command(k)' \in {"add-mask", "stop-commands"}
                              /\ \A n \in j + 1 .. k - 1 : ~Stops(n)') => Withheld(k)'
      BY <2>4 DEF ResumesOnToken, Resumed
    <3>1. CASE j = L + 1
      BY <2>5, <2>11, <3>1
    <3>2. CASE j \in 1 .. L
      <4>1. i \in 1 .. L /\ Resumed(i, j)
        BY <2>10, <3>2 DEF Resumed
      <4>2. Withheld(j)'
        BY <2>3, <2>4, <3>2, <4>1, SameBefore DEF ResumesOnToken, Resumed
      <4>3. ASSUME NEW k \in j + 1 .. L, Command(k)' \in {"add-mask", "stop-commands"},
                   \A n \in j + 1 .. k - 1 : ~Stops(n)'
            PROVE  Withheld(k)'
        <5>1. k \in 1 .. L /\ \A n \in j + 1 .. k - 1 : n \in 1 .. L
          OBVIOUS
        <5>2. Command(k)' = Command(k) /\ (Withheld(k)' <=> Withheld(k))
          BY <2>4, <5>1, SameBefore
        <5>3. \A n \in j + 1 .. k - 1 : ~Stops(n)
          BY <2>4, <4>3, <5>1, SameBefore
        <5> QED
          BY <2>3, <2>4, <3>2, <4>1, <4>3, <5>2, <5>3 DEF ResumesOnToken, Resumed
      <4>4. ASSUME Command(L + 1)' \in {"add-mask", "stop-commands"},
                   \A n \in j + 1 .. L : ~Stops(n)'
            PROVE  Withheld(L + 1)'
        <5>1. stopCommandEndToken = << >>
          BY <2>12, <3>2, <4>1, <4>4
        <5> QED
          BY <2>2, <2>5, <4>4, <5>1
      <4> QED
        <5> SUFFICES ASSUME NEW k \in j + 1 .. L + 1, Command(k)' \in {"add-mask", "stop-commands"},
                            \A n \in j + 1 .. k - 1 : ~Stops(n)'
                     PROVE  Withheld(k)'
          BY <4>2
        <5>1. CASE k \in j + 1 .. L
          BY <4>3, <5>1
        <5>2. CASE k = L + 1
          <6>1. k - 1 = L
            BY <5>2
          <6> QED
            BY <4>4, <5>2, <6>1
        <5> QED
          BY <5>1, <5>2
    <3> QED
      BY <3>1, <3>2
  <2> QED
    BY <2>4, <2>8, <2>9, <2>13, <2>14 DEF IInv
<1> QED
  BY <1>1, <1>2 DEF Next

LEMMA Invariance == Spec => []IInv
BY Initially, Inductive, PTL DEF Spec

(* From a stop-commands to its end token every line is logged as it came,     *)
(* whatever the lines and however many: handleCommand looks for the token     *)
(* before its switch (reporter.go:377).                                       *)
THEOREM Silent == Spec => []SilentWhileStopped
<1>1. IInv => SilentWhileStopped
  BY DEF IInv
<1> QED
  BY <1>1, Invariance, PTL

(* An end token is not logged, and commands are obeyed behind it until the    *)
(* next stop (reporter.go:410), unless the token is the name of a command.    *)
THEOREM Resumes == Spec => []ResumesOnToken
<1>1. IInv => ResumesOnToken
  BY DEF IInv
<1> QED
  BY <1>1, Invariance, PTL

-----------------------------------------------------------------------------
(* The replacer *)

(* What a text may hold, and a row. *)
Written == Words \cup {Colons}
Shown == Words \cup {Stars, Colons}

(* The loop of the replacer. *)
Longer(masks, text, i) == Fitting(masks, text, i) \ Empty(masks)
Step(from, masks, text, i) ==
    LET fit == Fitting(masks, text, i)
        longer == fit \ Empty(masks)
    IN  (IF fit # {} /\ Min(fit) \in Empty(masks) THEN <<Stars>> ELSE << >>) \o
        (IF longer # {} THEN <<Stars>> \o from[i + Len(masks[Min(longer)])]
         ELSE IF i <= Len(text) THEN <<text[i]>> \o from[i + 1]
         ELSE << >>)

LEMMA MinIsIn ==
    ASSUME NEW S, S \subseteq Nat, S # {}
    PROVE  Min(S) \in S
<1>1. \E n \in S : \A m \in S : n <= m
  BY Least
<1> QED
  BY <1>1 DEF Min
LEMMA LongerFits ==
    ASSUME NEW masks \in Seq(Text), NEW text \in Seq(Written), NEW i \in 1 .. Len(text) + 1,
           Longer(masks, text, i) # {}
    PROVE  i + Len(masks[Min(Longer(masks, text, i))]) \in i + 1 .. Len(text) + 1
<1> DEFINE k == Min(Longer(masks, text, i))
<1>1. k \in Longer(masks, text, i)
  <2>1. Longer(masks, text, i) \subseteq Nat
    BY DEF Longer, Fitting
  <2> QED
    BY <2>1, MinIsIn
<1> HIDE DEF k
<1>2. k \in DOMAIN masks /\ masks[k] # << >> /\ i + Len(masks[k]) - 1 <= Len(text)
  BY <1>1 DEF Longer, Fitting, Fits, Empty
<1>3. masks[k] \in Seq(Words)
  BY <1>2 DEF Text
<1>4. Len(masks[k]) \in Nat /\ Len(masks[k]) # 0
  BY <1>2, <1>3
<1>5. Len(text) \in Nat
  OBVIOUS
<1> QED
  BY <1>2, <1>4, <1>5 DEF k
LEMMA StepLooksAhead ==
    ASSUME NEW masks \in Seq(Text), NEW text \in Seq(Written), NEW i \in 1 .. Len(text) + 1,
           NEW f, NEW g, \A j \in i + 1 .. Len(text) + 1 : f[j] = g[j]
    PROVE  Step(f, masks, text, i) = Step(g, masks, text, i)
<1>1. CASE Longer(masks, text, i) # {}
  <2>1. f[i + Len(masks[Min(Longer(masks, text, i))])] = g[i + Len(masks[Min(Longer(masks, text, i))])]
    BY <1>1, LongerFits
  <2> QED
    BY <1>1, <2>1 DEF Step, Longer
<1>2. CASE Longer(masks, text, i) = {} /\ i <= Len(text)
  <2>1. f[i + 1] = g[i + 1]
    BY <1>2
  <2> QED
    BY <1>2, <2>1 DEF Step, Longer
<1>3. CASE Longer(masks, text, i) = {} /\ ~(i <= Len(text))
  BY <1>3 DEF Step, Longer
<1> QED
  BY <1>1, <1>2, <1>3
LEMMA LoopDefined ==
    ASSUME NEW masks \in Seq(Text), NEW text \in Seq(Written)
    PROVE  \E from : from = [i \in 1 .. Len(text) + 1 |-> Step(from, masks, text, i)]
<1> DEFINE L == Len(text) + 1
           S == {i \in 1 .. L : \E from : from = [k \in i .. L |-> Step(from, masks, text, k)]}
<1>1. L \in Nat /\ 1 \in 1 .. L /\ L = Len(text) + 1
  OBVIOUS
<1> HIDE DEF L
<1>2. ASSUME NEW i \in 1 .. L, \A j \in i + 1 .. L : j \in S PROVE i \in S
  <2>1. PICK g : i + 1 <= L => g = [k \in i + 1 .. L |-> Step(g, masks, text, k)]
    <3>1. CASE i + 1 <= L
      <4>1. i + 1 \in S
        <5>1. i + 1 \in i + 1 .. L
          BY <1>1, <3>1
        <5> HIDE DEF S
        <5> QED
          BY <1>2, <5>1
      <4> QED
        BY <4>1
    <3> QED
      BY <3>1
  <2> DEFINE more == [k \in i .. L |-> IF k = i THEN Step(g, masks, text, i) ELSE g[k]]
  <2>2. ASSUME NEW k \in i .. L PROVE more[k] = Step(more, masks, text, k)
    <3>1. more[k] = Step(g, masks, text, k)
      <4>1. CASE k = i
        BY <4>1
      <4>2. CASE k # i
        <5>1. i + 1 <= L /\ k \in i + 1 .. L
          BY <1>1, <4>2
        <5> QED
          BY <2>1, <4>2, <5>1
      <4> QED
        BY <4>1, <4>2
    <3>2. \A j \in k + 1 .. Len(text) + 1 : g[j] = more[j]
      BY <1>1
    <3>3. k \in 1 .. Len(text) + 1
      BY <1>1
    <3> HIDE DEF more
    <3> QED
      BY <3>1, <3>2, <3>3, StepLooksAhead
  <2>3. more = [k \in i .. L |-> Step(more, masks, text, k)]
    <3>1. more = [k \in i .. L |-> more[k]]
      OBVIOUS
    <3> HIDE DEF more
    <3> QED
      BY <2>2, <3>1
  <2> HIDE DEF more
  <2> QED
    BY <2>3
<1>3. 1 .. L \subseteq S
  <2> HIDE DEF S
  <2> QED
    BY <1>1, <1>2, Downward
<1> QED
  BY <1>1, <1>3
LEMMA ReplaceLoop ==
    ASSUME NEW masks \in Seq(Text), NEW text \in Seq(Written)
    PROVE  \E from : /\ \A i \in 1 .. Len(text) + 1 : from[i] = Step(from, masks, text, i)
                     /\ Replace(masks, text) = from[1]
<1> DEFINE loop == CHOOSE from : from = [i \in 1 .. Len(text) + 1 |-> Step(from, masks, text, i)]
<1>1. Replace(masks, text) = loop[1]
  BY DEF Replace, Step
<1>2. loop = [i \in 1 .. Len(text) + 1 |-> Step(loop, masks, text, i)]
  BY LoopDefined
<1> HIDE DEF loop
<1>3. \A i \in 1 .. Len(text) + 1 : loop[i] = Step(loop, masks, text, i)
  BY <1>2
<1> QED
  BY <1>1, <1>3

(* Where a value is in a row, element by element. *)
At(v, s, p) == p + Len(v) - 1 <= Len(s) /\ \A k \in 1 .. Len(v) : s[p + k - 1] = v[k]
Clean(v, s) == \A p \in 1 .. Len(s) : ~At(v, s, p)
(* Up to its first stars a row holds what the text holds from i on. *)
Copied(s, text, i) ==
    \A n \in 0 .. Len(s) : (\A k \in 1 .. n : s[k] # Stars) =>
        i + n - 1 <= Len(text) /\ \A k \in 1 .. n : s[k] = text[i + k - 1]

LEMMA Prepended ==
    ASSUME NEW a \in Shown, NEW s \in Seq(Shown)
    PROVE  /\ <<a>> \o s \in Seq(Shown) /\ Len(s) \in Nat /\ Len(<<a>> \o s) = Len(s) + 1
           /\ (<<a>> \o s)[1] = a /\ \A k \in 1 .. Len(s) : (<<a>> \o s)[k + 1] = s[k]
OBVIOUS
LEMMA FitsAt ==
    ASSUME NEW S, NEW v \in Seq(S), NEW T, NEW s \in Seq(T), NEW p \in 1 .. Len(s) + 1
    PROVE  Fits(v, s, p) <=> At(v, s, p)
<1> DEFINE sub == SubSeq(s, p, p + Len(v) - 1)
<1>1. Len(v) \in Nat /\ Len(s) \in Nat
  OBVIOUS
<1>2. ASSUME p + Len(v) - 1 <= Len(s)
      PROVE  sub \in Seq(T) /\ Len(sub) = Len(v) /\ \A k \in 1 .. Len(v) : sub[k] = s[p + k - 1]
  BY <1>1, <1>2
<1>3. ASSUME p + Len(v) - 1 <= Len(s), \A k \in 1 .. Len(v) : sub[k] = v[k] PROVE v = sub
  <2>1. Len(sub) = Len(v) /\ sub \in Seq(T)
    BY <1>2, <1>3
  <2>2. v \in Seq(S \cup T) /\ sub \in Seq(S \cup T)
    BY <2>1, SeqMonotonic
  <2> HIDE DEF sub
  <2> QED
    BY <1>3, <2>1, <2>2, SeqEqual
<1> QED
  BY <1>1, <1>2, <1>3 DEF Fits, At

(* Behind something else a value is where it was, and no value begins with    *)
(* stars.                                                                     *)
LEMMA CleanBehind ==
    ASSUME NEW v \in Text, NEW a \in Shown, NEW s \in Seq(Shown), Clean(v, s), ~At(v, <<a>> \o s, 1)
    PROVE  Clean(v, <<a>> \o s)
<1> DEFINE t == <<a>> \o s
<1>1. Len(s) \in Nat /\ Len(t) = Len(s) + 1 /\ \A k \in 1 .. Len(s) : t[k + 1] = s[k]
  BY Prepended
<1>2. Len(v) \in Nat
  BY DEF Text
<1>3. ~At(v, t, 1)
  OBVIOUS
<1> HIDE DEF t
<1>4. ASSUME NEW p \in 2 .. Len(t), At(v, t, p) PROVE FALSE
  <2>1. p - 1 \in 1 .. Len(s)
    BY <1>1
  <2>2. (p - 1) + Len(v) - 1 <= Len(s)
    BY <1>1, <1>2, <1>4 DEF At
  <2>3. ASSUME NEW k \in 1 .. Len(v) PROVE s[(p - 1) + k - 1] = v[k]
    <3>1. (p - 1) + k - 1 \in 1 .. Len(s) /\ ((p - 1) + k - 1) + 1 = p + k - 1
      BY <1>1, <1>2, <2>1, <2>2
    <3>2. t[p + k - 1] = v[k]
      BY <1>4 DEF At
    <3>3. t[((p - 1) + k - 1) + 1] = s[(p - 1) + k - 1]
      BY <1>1, <3>1
    <3> QED
      BY <3>1, <3>2, <3>3
  <2>4. At(v, s, p - 1)
    BY <2>2, <2>3 DEF At
  <2> QED
    BY <2>1, <2>4 DEF Clean
<1>5. \A p \in 1 .. Len(t) : p = 1 \/ p \in 2 .. Len(t)
  BY <1>1
<1> QED
  BY <1>3, <1>4, <1>5 DEF Clean, t
LEMMA Starred ==
    ASSUME NEW v \in Text, v # << >>, NEW s \in Seq(Shown), Clean(v, s),
           NEW text \in Seq(Written), NEW i \in 1 .. Len(text) + 1
    PROVE  /\ <<Stars>> \o s \in Seq(Shown)
           /\ Clean(v, <<Stars>> \o s) /\ Copied(<<Stars>> \o s, text, i)
<1>1. Stars \in Shown
  BY DEF Shown
<1>2. <<Stars>> \o s \in Seq(Shown) /\ (<<Stars>> \o s)[1] = Stars /\ Len(<<Stars>> \o s) \in Nat
  BY <1>1, Prepended
<1> DEFINE t == <<Stars>> \o s
<1>3. ~At(v, t, 1)
  <2>1. 1 \in 1 .. Len(v) /\ v[1] # Stars
    <3>1. v \in Seq(Words)
      BY DEF Text
    <3>2. 1 \in 1 .. Len(v) /\ v[1] \in Words
      BY <3>1
    <3> QED
      BY <3>2, WordsAssumption
  <2>2. At(v, t, 1) => t[1 + 1 - 1] = v[1]
    <3> HIDE DEF t
    <3> QED
      BY <2>1 DEF At
  <2> QED
    BY <1>2, <2>1, <2>2
<1>4. Copied(t, text, i)
  <2> SUFFICES ASSUME NEW n \in 0 .. Len(t), \A k \in 1 .. n : t[k] # Stars
               PROVE  i + n - 1 <= Len(text) /\ \A k \in 1 .. n : t[k] = text[i + k - 1]
    BY DEF Copied
  <2>1. n = 0
    <3> HIDE DEF t
    <3>1. t[1] = Stars /\ Len(t) \in Nat
      BY <1>2 DEF t
    <3>2. ~(1 \in 1 .. n)
      BY <3>1
    <3> QED
      BY <3>1, <3>2
  <2> HIDE DEF t
  <2> QED
    BY <2>1
<1> QED
  BY <1>1, <1>2, <1>3, <1>4, CleanBehind
LEMMA Char ==
    ASSUME NEW v \in Text, NEW s \in Seq(Shown), Clean(v, s), v # << >>,
           NEW text \in Seq(Written), NEW i \in 1 .. Len(text), Copied(s, text, i + 1),
           ~Fits(v, text, i)
    PROVE  /\ <<text[i]>> \o s \in Seq(Shown)
           /\ Clean(v, <<text[i]>> \o s) /\ Copied(<<text[i]>> \o s, text, i)
<1> DEFINE t == <<text[i]>> \o s
<1>1. text[i] \in Shown /\ text[i] \in Written
  BY DEF Written, Shown
<1>2. t \in Seq(Shown) /\ Len(s) \in Nat /\ Len(t) = Len(s) + 1 /\ t[1] = text[i]
      /\ \A k \in 1 .. Len(s) : t[k + 1] = s[k]
  BY <1>1, Prepended
<1> HIDE DEF t
<1>3. Len(text) \in Nat /\ Len(v) \in Nat /\ Len(v) # 0
  BY DEF Text
<1>4. Copied(t, text, i)
  <2> SUFFICES ASSUME NEW n \in 0 .. Len(t), \A k \in 1 .. n : t[k] # Stars
               PROVE  i + n - 1 <= Len(text) /\ \A k \in 1 .. n : t[k] = text[i + k - 1]
    BY DEF Copied
  <2>1. CASE n = 0
    BY <1>3, <2>1
  <2>2. CASE n # 0
    <3>1. n - 1 \in 0 .. Len(s)
      BY <1>2, <2>2
    <3>2. ASSUME NEW k \in 1 .. n - 1 PROVE s[k] # Stars
      <4>1. k \in 1 .. Len(s) /\ k + 1 \in 1 .. n
        BY <1>2, <3>1
      <4> QED
        BY <1>2, <4>1
    <3>3. (i + 1) + (n - 1) - 1 <= Len(text) /\ \A k \in 1 .. n - 1 : s[k] = text[(i + 1) + k - 1]
      BY <3>1, <3>2 DEF Copied
    <3>4. i + n - 1 <= Len(text)
      BY <3>1, <3>3, <1>3
    <3>5. ASSUME NEW k \in 1 .. n PROVE t[k] = text[i + k - 1]
      <4>1. CASE k = 1
        <5>1. i + k - 1 = i
          BY <4>1
        <5> QED
          BY <1>2, <4>1, <5>1
      <4>2. CASE k # 1
        <5>1. k - 1 \in 1 .. n - 1 /\ k - 1 \in 1 .. Len(s) /\ (k - 1) + 1 = k /\ (i + 1) + (k - 1) - 1 = i + k - 1
          BY <3>1, <4>2
        <5> QED
          BY <1>2, <3>3, <5>1
      <4> QED
        BY <4>1, <4>2
    <3> QED
      BY <3>4, <3>5
  <2> QED
    BY <2>1, <2>2
<1>5. ~At(v, t, 1)
  <2> SUFFICES ASSUME At(v, t, 1) PROVE FALSE
    OBVIOUS
  <2>1. Len(v) <= Len(t)
    BY <1>2, <1>3 DEF At
  <2>2. ASSUME NEW k \in 1 .. Len(v) PROVE t[k] = v[k]
    <3>1. 1 + k - 1 = k
      OBVIOUS
    <3> QED
      BY <3>1 DEF At
  <2>3. \A k \in 1 .. Len(v) : t[k] # Stars
    <3>1. v \in Seq(Words)
      BY DEF Text
    <3>2. \A k \in 1 .. Len(v) : v[k] \in Words
      BY <3>1
    <3>3. \A k \in 1 .. Len(v) : v[k] # Stars
      BY <3>2, WordsAssumption
    <3> QED
      BY <2>2, <3>3
  <2>4. i + Len(v) - 1 <= Len(text) /\ \A k \in 1 .. Len(v) : t[k] = text[i + k - 1]
    BY <1>2, <1>3, <1>4, <2>1, <2>3 DEF Copied
  <2>5. At(v, text, i)
    BY <2>2, <2>4 DEF At
  <2>6. v \in Seq(Words) /\ i \in 1 .. Len(text) + 1
    BY <1>3 DEF Text
  <2> QED
    BY <2>5, <2>6, FitsAt
<1>6. Clean(v, t)
  BY <1>1, <1>5, CleanBehind DEF t
<1> QED
  BY <1>2, <1>4, <1>6 DEF t

(* The step at i: stars for the empty mask or nothing, and then stars for the *)
(* first of the others that fits, or the character.                           *)
Rest(from, masks, text, i) ==
    IF Longer(masks, text, i) # {} THEN <<Stars>> \o from[i + Len(masks[Min(Longer(masks, text, i))])]
    ELSE IF i <= Len(text) THEN <<text[i]>> \o from[i + 1]
    ELSE << >>
LEMMA StepForms ==
    ASSUME NEW from, NEW masks, NEW text, NEW i
    PROVE  /\ Step(from, masks, text, i) = <<Stars>> \o Rest(from, masks, text, i)
                \/ Step(from, masks, text, i) = << >> \o Rest(from, masks, text, i)
           /\ Fitting(masks, text, i) = {} =>
                Step(from, masks, text, i) = << >> \o Rest(from, masks, text, i)
BY DEF Step, Rest, Longer

LEMMA ReplaceTyped ==
    ASSUME NEW masks \in Seq(Text), NEW text \in Seq(Written)
    PROVE  Replace(masks, text) \in Seq(Shown)
<1>1. PICK from : /\ \A i \in 1 .. Len(text) + 1 : from[i] = Step(from, masks, text, i)
                  /\ Replace(masks, text) = from[1]
  BY ReplaceLoop
<1>2. Stars \in Shown /\ (\A c \in Written : c \in Shown) /\ << >> \in Seq(Shown)
  BY DEF Shown, Written
<1>3. ASSUME NEW i \in 1 .. Len(text) + 1, \A j \in i + 1 .. Len(text) + 1 : from[j] \in Seq(Shown)
      PROVE  from[i] \in Seq(Shown)
  <2>1. Rest(from, masks, text, i) \in Seq(Shown)
    <3>1. CASE Longer(masks, text, i) # {}
      <4>1. PICK j \in i + 1 .. Len(text) + 1 : Rest(from, masks, text, i) = <<Stars>> \o from[j]
        BY <3>1, LongerFits DEF Rest
      <4> QED
        BY <1>2, <1>3, <4>1, Prepended
    <3>2. CASE Longer(masks, text, i) = {} /\ i <= Len(text)
      <4>1. Rest(from, masks, text, i) = <<text[i]>> \o from[i + 1]
        BY <3>2 DEF Rest
      <4>2. i + 1 \in i + 1 .. Len(text) + 1 /\ text[i] \in Written
        BY <3>2
      <4>3. from[i + 1] \in Seq(Shown) /\ text[i] \in Shown
        BY <1>2, <1>3, <4>2
      <4> QED
        BY <4>1, <4>3, Prepended
    <3>3. CASE Longer(masks, text, i) = {} /\ ~(i <= Len(text))
      BY <1>2, <3>3 DEF Rest
    <3> QED
      BY <3>1, <3>2, <3>3
  <2>2. << >> \o Rest(from, masks, text, i) = Rest(from, masks, text, i)
    BY <2>1
  <2>3. <<Stars>> \o Rest(from, masks, text, i) \in Seq(Shown)
    BY <1>2, <2>1, Prepended
  <2>4. from[i] = <<Stars>> \o Rest(from, masks, text, i) \/ from[i] = << >> \o Rest(from, masks, text, i)
    BY <1>1, StepForms
  <2> QED
    BY <2>1, <2>2, <2>3, <2>4
<1> DEFINE S == {i \in 1 .. Len(text) + 1 : from[i] \in Seq(Shown)}
<1>4. 1 .. Len(text) + 1 \subseteq S
  <2>1. \A i \in 1 .. Len(text) + 1 : (\A j \in i + 1 .. Len(text) + 1 : j \in S) => i \in S
    BY <1>3
  <2>2. Len(text) + 1 \in Nat
    OBVIOUS
  <2> HIDE DEF S
  <2> QED
    BY <2>1, <2>2, Downward
<1> QED
  BY <1>1, <1>4

(* No mask but the empty one is anywhere in what the replacer returns. *)
LEMMA ReplaceHides ==
    ASSUME NEW masks \in Seq(Text), NEW text \in Seq(Written), NEW v \in ToSet(masks), v # << >>
    PROVE  ~Occurs(v, Replace(masks, text))
<1>1. PICK from : /\ \A i \in 1 .. Len(text) + 1 : from[i] = Step(from, masks, text, i)
                  /\ Replace(masks, text) = from[1]
  BY ReplaceLoop
<1>2. v \in Text /\ v \in Seq(Words) /\ Len(v) \in Nat /\ Len(v) # 0
  BY DEF ToSet, Text
<1> DEFINE Good(i) == from[i] \in Seq(Shown) /\ Clean(v, from[i]) /\ Copied(from[i], text, i)
<1>3. ASSUME NEW i \in 1 .. Len(text) + 1, \A j \in i + 1 .. Len(text) + 1 : Good(j)
      PROVE  Good(i)
  <2> DEFINE rest == Rest(from, masks, text, i)
  <2>1. rest \in Seq(Shown) /\ Clean(v, rest) /\ Copied(rest, text, i)
    <3>1. CASE Longer(masks, text, i) # {}
      <4>1. PICK j \in i + 1 .. Len(text) + 1 : rest = <<Stars>> \o from[j]
        BY <3>1, LongerFits DEF Rest
      <4>2. from[j] \in Seq(Shown) /\ Clean(v, from[j])
        BY <1>3
      <4> HIDE DEF rest
      <4> QED
        BY <1>2, <4>1, <4>2, Starred
    <3>2. CASE Longer(masks, text, i) = {} /\ i <= Len(text)
      <4>1. rest = <<text[i]>> \o from[i + 1]
        BY <3>2 DEF Rest
      <4>2. i + 1 \in i + 1 .. Len(text) + 1 /\ i \in 1 .. Len(text)
        BY <3>2
      <4>3. from[i + 1] \in Seq(Shown) /\ Clean(v, from[i + 1]) /\ Copied(from[i + 1], text, i + 1)
        BY <1>3, <4>2
      <4>4. ~Fits(v, text, i)
        BY <1>2, <3>2 DEF Longer, Fitting, Empty, ToSet
      <4> HIDE DEF rest
      <4> QED
        BY <1>2, <4>1, <4>2, <4>3, <4>4, Char
    <3>3. CASE Longer(masks, text, i) = {} /\ ~(i <= Len(text))
      <4>1. rest = << >>
        BY <3>3 DEF Rest
      <4>2. << >> \in Seq(Shown) /\ Len(<< >>) = 0
        OBVIOUS
      <4>3. Clean(v, << >>) /\ Copied(<< >>, text, i)
        BY <4>2 DEF Clean, Copied
      <4> HIDE DEF rest
      <4> QED
        BY <4>1, <4>2, <4>3
    <3> QED
      BY <3>1, <3>2, <3>3
  <2> HIDE DEF rest
  <2>2. << >> \o rest = rest
    BY <2>1
  <2>3. /\ <<Stars>> \o rest \in Seq(Shown)
        /\ Clean(v, <<Stars>> \o rest) /\ Copied(<<Stars>> \o rest, text, i)
    BY <1>2, <2>1, Starred
  <2>4. from[i] = <<Stars>> \o rest \/ from[i] = << >> \o rest
    BY <1>1, StepForms DEF rest
  <2> QED
    BY <2>1, <2>2, <2>3, <2>4
<1> DEFINE S == {i \in 1 .. Len(text) + 1 : Good(i)}
<1>4. 1 .. Len(text) + 1 \subseteq S
  <2>1. \A i \in 1 .. Len(text) + 1 : (\A j \in i + 1 .. Len(text) + 1 : j \in S) => i \in S
    <3> HIDE DEF Good
    <3> QED
      BY <1>3
  <2>2. Len(text) + 1 \in Nat
    OBVIOUS
  <2> HIDE DEF S
  <2> QED
    BY <2>1, <2>2, Downward
<1> DEFINE out == Replace(masks, text)
<1>5. out \in Seq(Shown) /\ Clean(v, out)
  BY <1>1, <1>4
<1> HIDE DEF out
<1>6. ASSUME NEW p \in 1 .. Len(out) - Len(v) + 1, Fits(v, out, p) PROVE FALSE
  <2>1. Len(out) \in Nat
    BY <1>5
  <2>2. p \in 1 .. Len(out) /\ p \in 1 .. Len(out) + 1
    BY <1>2, <2>1
  <2>3. At(v, out, p)
    BY <1>2, <1>5, <1>6, <2>2, FitsAt
  <2> QED
    BY <1>5, <2>2, <2>3 DEF Clean
<1> QED
  BY <1>6 DEF Occurs, out

(* A text in which no mask occurs is returned as it is. *)
LEMMA ReplaceKeeps ==
    ASSUME NEW masks \in Seq(Text), NEW text \in Seq(Written),
           \A v \in ToSet(masks) : ~Occurs(v, text)
    PROVE  Replace(masks, text) = text
<1>1. PICK from : /\ \A i \in 1 .. Len(text) + 1 : from[i] = Step(from, masks, text, i)
                  /\ Replace(masks, text) = from[1]
  BY ReplaceLoop
<1>2. ASSUME NEW i \in 1 .. Len(text) + 1 PROVE Fitting(masks, text, i) = {}
  <2> SUFFICES ASSUME NEW k \in DOMAIN masks, Fits(masks[k], text, i) PROVE FALSE
    BY DEF Fitting
  <2>1. Len(masks[k]) \in Nat /\ masks[k] \in ToSet(masks)
    BY DEF Text, ToSet
  <2>2. i \in 1 .. Len(text) - Len(masks[k]) + 1
    BY <2>1 DEF Fits
  <2> QED
    BY <2>1, <2>2 DEF Occurs
<1>3. ASSUME NEW i \in 1 .. Len(text) + 1,
             \A j \in i + 1 .. Len(text) + 1 : from[j] = SubSeq(text, j, Len(text))
      PROVE  from[i] = SubSeq(text, i, Len(text))
  <2>1. from[i] = << >> \o Rest(from, masks, text, i) /\ Longer(masks, text, i) = {}
    BY <1>1, <1>2, StepForms DEF Longer
  <2>2. CASE i <= Len(text)
    <3>1. from[i + 1] = SubSeq(text, i + 1, Len(text))
      BY <1>3, <2>2
    <3>2. from[i] = << >> \o (<<text[i]>> \o SubSeq(text, i + 1, Len(text)))
      BY <2>1, <2>2, <3>1 DEF Rest
    <3>3. << >> \o (<<text[i]>> \o SubSeq(text, i + 1, Len(text))) = SubSeq(text, i, Len(text))
      BY <2>2
    <3> QED
      BY <3>2, <3>3
  <2>3. CASE ~(i <= Len(text))
    <3>1. from[i] = << >> \o << >>
      BY <2>1, <2>3 DEF Rest
    <3>2. SubSeq(text, i, Len(text)) = << >>
      BY <2>3
    <3> QED
      BY <3>1, <3>2
  <2> QED
    BY <2>2, <2>3
<1> DEFINE S == {i \in 1 .. Len(text) + 1 : from[i] = SubSeq(text, i, Len(text))}
<1>4. 1 .. Len(text) + 1 \subseteq S
  <2>1. \A i \in 1 .. Len(text) + 1 : (\A j \in i + 1 .. Len(text) + 1 : j \in S) => i \in S
    BY <1>3
  <2>2. Len(text) + 1 \in Nat
    OBVIOUS
  <2> HIDE DEF S
  <2> QED
    BY <2>1, <2>2, Downward
<1>5. 1 \in 1 .. Len(text) + 1 /\ SubSeq(text, 1, Len(text)) = text
  OBVIOUS
<1> QED
  BY <1>1, <1>4, <1>5

-----------------------------------------------------------------------------
(* What is hidden and shown *)

(* The row is what the replacer made of the last message, and the replacer    *)
(* knows every value that is to be hidden.                                    *)
Logged(s) == IF s = << >> THEN << >> ELSE s[Len(s)].out
ReplacerKnows ==
    /\ oldnew \in Seq(Text) /\ ToSet(oldnew) = Hidden
    /\ stopCommandEndToken \in Text /\ debugOutputEnabled \in BOOLEAN
    /\ row = [i \in DOMAIN Logged(lines) |-> Replace(oldnew, Logged(lines)[i])]

LEMMA OutsWritten ==
    ASSUME NEW out \in Outs
    PROVE  out \in Seq(Seq(Written)) /\ (out = << >> \/ Len(out) = 1)
<1>1. ASSUME NEW m \in Messages PROVE m.text \in Seq(Written) /\ Content(m) \in Seq(Written)
  <2>1. m.text \in Seq(Words) /\ m.command \in Words \cup {""}
    BY MessagesAssumption DEF Text
  <2>2. m.text \in Seq(Written)
    BY <2>1, SeqMonotonic DEF Written
  <2>3. CASE m.command = ""
    BY <2>2, <2>3 DEF Content
  <2>4. CASE m.command # ""
    <3>1. Colons \in Written /\ m.command \in Written
      BY <2>1, <2>4 DEF Written
    <3>2. <<Colons, m.command, Colons>> \in Seq(Written)
      BY <3>1
    <3>3. <<Colons, m.command, Colons>> \o m.text \in Seq(Written)
      BY <2>2, <3>2, ConcatProperties
    <3> QED
      BY <2>2, <2>4, <3>3 DEF Content
  <2> QED
    BY <2>3, <2>4
<1>2. ASSUME NEW text \in Seq(Written) PROVE <<text>> \in Seq(Seq(Written)) /\ Len(<<text>>) = 1
  OBVIOUS
<1>3. << >> \in Seq(Seq(Written))
  OBVIOUS
<1>4. CASE out = << >>
  BY <1>3, <1>4
<1>5. CASE \E m \in Messages : out = <<m.text>> \/ out = <<Content(m)>>
  BY <1>1, <1>2, <1>5
<1> QED
  BY <1>4, <1>5 DEF Outs

LEMMA ToSetConcat ==
    ASSUME NEW S, NEW s \in Seq(S), NEW t \in Seq(S)
    PROVE  ToSet(s \o t) = ToSet(s) \cup ToSet(t)
<1>1. /\ Len(s) \in Nat /\ Len(t) \in Nat
      /\ DOMAIN s = 1 .. Len(s) /\ DOMAIN t = 1 .. Len(t) /\ DOMAIN (s \o t) = 1 .. Len(s) + Len(t)
      /\ \A i \in 1 .. Len(s) + Len(t) : (s \o t)[i] = IF i <= Len(s) THEN s[i] ELSE t[i - Len(s)]
  OBVIOUS
<1>2. ASSUME NEW x \in ToSet(s \o t) PROVE x \in ToSet(s) \cup ToSet(t)
  <2>1. PICK i \in 1 .. Len(s) + Len(t) : x = (s \o t)[i]
    BY <1>1 DEF ToSet
  <2>2. CASE i <= Len(s)
    BY <1>1, <2>1, <2>2 DEF ToSet
  <2>3. CASE ~(i <= Len(s))
    <3>1. i - Len(s) \in 1 .. Len(t) /\ x = t[i - Len(s)]
      BY <1>1, <2>1, <2>3
    <3> QED
      BY <1>1, <3>1 DEF ToSet
  <2> QED
    BY <2>2, <2>3
<1>3. ASSUME NEW x \in ToSet(s) PROVE x \in ToSet(s \o t)
  <2>1. PICK i \in 1 .. Len(s) : x = s[i]
    BY <1>1 DEF ToSet
  <2>2. i \in 1 .. Len(s) + Len(t) /\ (s \o t)[i] = x
    BY <1>1, <2>1
  <2> QED
    BY <1>1, <2>2 DEF ToSet
<1>4. ASSUME NEW x \in ToSet(t) PROVE x \in ToSet(s \o t)
  <2>1. PICK i \in 1 .. Len(t) : x = t[i]
    BY <1>1 DEF ToSet
  <2>2. Len(s) + i \in 1 .. Len(s) + Len(t) /\ ~(Len(s) + i <= Len(s)) /\ (Len(s) + i) - Len(s) = i
    BY <1>1
  <2>3. (s \o t)[Len(s) + i] = x
    BY <1>1, <2>1, <2>2
  <2> QED
    BY <1>1, <2>2, <2>3 DEF ToSet
<1> QED
  BY <1>2, <1>3, <1>4

LEMMA KnownAtFirst == Init => ReplacerKnows
<1> SUFFICES ASSUME Init PROVE ReplacerKnows
  OBVIOUS
<1>1. PICK order \in SetToSeqs(secrets) : oldnew = Credentials \o order
  BY DEF Init
<1>2. IsFiniteSet(secrets) /\ secrets \subseteq Text
  BY MessagesAssumption DEF Init
<1> DEFINE n == Cardinality(secrets)
<1>3. n \in Nat
  BY <1>2, FS_CardinalityType
<1>4. order \in [1 .. n -> secrets] /\ \A i, j \in 1 .. n : i # j => order[i] # order[j]
  BY <1>1 DEF SetToSeqs
<1>5. order \in Surjection(1 .. n, secrets)
  <2>1. order \in Injection(1 .. n, secrets)
    BY <1>4 DEF Injection, IsInjective
  <2>2. Cardinality(1 .. n) = n
    BY <1>3, FS_Interval
  <2> HIDE DEF n
  <2> QED
    BY <1>2, <2>1, <2>2, FS_Injection DEF n
<1>6. order \in Seq(Text) /\ Len(order) = n /\ DOMAIN order = 1 .. n
  BY <1>2, <1>3, <1>4
<1>7. Credentials \in Seq(Text)
  <2>1. ASSUME NEW token \in Text PROVE Given(token) \in Seq(Text)
    BY DEF Given
  <2> QED
    BY <2>1, MessagesAssumption, ConcatProperties DEF Credentials
<1>8. oldnew \in Seq(Text)
  BY <1>1, <1>6, <1>7, ConcatProperties
<1>9. ToSet(oldnew) = ToSet(Credentials) \cup secrets
  <2>1. ToSet(order) = secrets
    BY <1>5, <1>6 DEF Surjection, ToSet
  <2>2. ToSet(Credentials \o order) = ToSet(Credentials) \cup ToSet(order)
    BY <1>6, <1>7, ToSetConcat
  <2> QED
    BY <1>1, <2>1, <2>2
<1>10. lines = << >> /\ row = << >> /\ stopCommandEndToken = << >> /\ debugOutputEnabled \in BOOLEAN
  BY DEF Init
<1>11. ToSet(oldnew) = Hidden
  BY <1>9, <1>10 DEF Hidden
<1>12. row = [i \in DOMAIN Logged(lines) |-> Replace(oldnew, Logged(lines)[i])]
  BY <1>10 DEF Logged
<1>13. stopCommandEndToken \in Text
  BY <1>10 DEF Text
<1> QED
  BY <1>8, <1>10, <1>11, <1>12, <1>13 DEF ReplacerKnows

(* A message gives an output, and only an add-mask that gives none is a mask. *)
LEMMA Masking ==
    ASSUME NEW m \in Messages, Log(m)
    PROVE  \E out \in Outs :
             /\ lines' = Append(lines, Line(m, out))
             /\ row' = [i \in DOMAIN out |-> Replace(oldnew', out[i])]
             /\ UNCHANGED <<debugOutputEnabled, secrets>>
             /\ IF m.command = "add-mask" /\ out = << >>
                THEN oldnew' = Append(oldnew, m.text) ELSE oldnew' = oldnew
             /\ stopCommandEndToken' \in {stopCommandEndToken, m.text, << >>}
<1> DEFINE Goal(out) == /\ lines' = Append(lines, Line(m, out))
                        /\ row' = [i \in DOMAIN out |-> Replace(oldnew', out[i])]
                        /\ UNCHANGED <<debugOutputEnabled, secrets>>
                        /\ IF m.command = "add-mask" /\ out = << >>
                           THEN oldnew' = Append(oldnew, m.text) ELSE oldnew' = oldnew
                        /\ stopCommandEndToken' \in {stopCommandEndToken, m.text, << >>}
<1>outs. << >> \in Outs /\ <<m.text>> \in Outs /\ <<Content(m)>> \in Outs
  BY DEF Outs
<1>1. CASE AddMask(m)
  <2>1. Goal(<< >>)
    BY <1>1 DEF AddMask, Obeys, ParseLogRow, Line
  <2> HIDE DEF Goal
  <2> QED
    BY <1>outs, <2>1 DEF Goal
<1>2. CASE Debug(m)
  <2>1. PICK out \in {<<m.text>>, << >>} : ParseLogRow(m, out)
    BY <1>2 DEF Debug
  <2>2. m.command = "debug" /\ oldnew' = oldnew /\ stopCommandEndToken' = stopCommandEndToken
    BY <1>2 DEF Debug, Obeys
  <2>3. Goal(out)
    BY <2>1, <2>2 DEF ParseLogRow, Line
  <2> HIDE DEF Goal
  <2> QED
    BY <1>outs, <2>1, <2>3 DEF Goal
<1>3. CASE StopCommands(m)
  <2>1. Goal(<< >>)
    BY <1>3 DEF StopCommands, Obeys, ParseLogRow, Line
  <2> HIDE DEF Goal
  <2> QED
    BY <1>outs, <2>1 DEF Goal
<1>4. CASE Resume(m)
  <2>1. Goal(<< >>)
    BY <1>4 DEF Resume, Commands, ParseLogRow, Line
  <2> HIDE DEF Goal
  <2> QED
    BY <1>outs, <2>1 DEF Goal
<1>5. CASE Original(m)
  <2>1. <<Content(m)>> # << >>
    OBVIOUS
  <2>2. Goal(<<Content(m)>>)
    BY <1>5, <2>1 DEF Original, ParseLogRow, Line
  <2> HIDE DEF Goal
  <2> QED
    BY <1>outs, <2>2 DEF Goal
<1> QED
  BY <1>1, <1>2, <1>3, <1>4, <1>5 DEF Log

LEMMA KnownStep == LinesTyped /\ ReplacerKnows /\ [Next]_vars => ReplacerKnows'
<1> SUFFICES ASSUME LinesTyped, ReplacerKnows, [Next]_vars PROVE ReplacerKnows'
  OBVIOUS
<1>1. CASE UNCHANGED vars
  <2>1. UNCHANGED <<oldnew, debugOutputEnabled, stopCommandEndToken, row, secrets, lines>>
    BY <1>1 DEF vars
  <2>2. Hidden' = Hidden
    BY <2>1 DEF Hidden, Command, Value, Withheld
  <2> QED
    BY <2>1, <2>2 DEF ReplacerKnows
<1>2. CASE Next
  <2>1. PICK m \in Messages : Log(m)
    BY <1>2 DEF Next
  <2>2. PICK out \in Outs :
          /\ lines' = Append(lines, Line(m, out))
          /\ row' = [i \in DOMAIN out |-> Replace(oldnew', out[i])]
          /\ UNCHANGED <<debugOutputEnabled, secrets>>
          /\ IF m.command = "add-mask" /\ out = << >>
             THEN oldnew' = Append(oldnew, m.text) ELSE oldnew' = oldnew
          /\ stopCommandEndToken' \in {stopCommandEndToken, m.text, << >>}
    BY <2>1, Masking
  <2>3. PICK L \in Nat :
          /\ L = Len(lines) /\ Len(lines') = L + 1
          /\ DOMAIN lines = 1 .. L /\ DOMAIN lines' = 1 .. L + 1
          /\ \A k \in 1 .. L : lines'[k] = lines[k]
          /\ lines'[L + 1] = Line(m, out)
    BY <2>2, Extended
  <2>4. m.text \in Text
    BY MessagesAssumption
  <2> DEFINE Masks == {i \in DOMAIN lines : Command(i) = "add-mask" /\ Withheld(i)}
             More == {i \in DOMAIN lines' : Command(i)' = "add-mask" /\ Withheld(i)'}
             New == IF m.command = "add-mask" /\ out = << >> THEN {m.text} ELSE {}
  <2>5. \A k \in 1 .. L : (k \in More <=> k \in Masks) /\ Value(k)' = Value(k)
    BY <2>3 DEF Command, Value, Withheld
  <2>6. (L + 1 \in More <=> m.command = "add-mask" /\ out = << >>) /\ Value(L + 1)' = m.text
    BY <2>3 DEF Command, Value, Withheld, Line
  <2>7. {Value(i)' : i \in More} = {Value(i) : i \in Masks} \cup New
    <3>1. \A i \in More : i \in 1 .. L \/ i = L + 1
      BY <2>3
    <3>2. \A i \in Masks : i \in 1 .. L
      BY <2>3
    <3> HIDE DEF More, Masks
    <3> QED
      BY <2>5, <2>6, <3>1, <3>2
  <2>8. Hidden' = Hidden \cup New
    BY <2>2, <2>7 DEF Hidden
  <2>9. oldnew' \in Seq(Text) /\ ToSet(oldnew') = ToSet(oldnew) \cup New
    <3>1. oldnew \in Seq(Text)
      BY DEF ReplacerKnows
    <3>2. CASE m.command = "add-mask" /\ out = << >>
      <4>1. oldnew' = oldnew \o <<m.text>> /\ <<m.text>> \in Seq(Text)
        <5>1. oldnew' = Append(oldnew, m.text)
          BY <2>2, <3>2
        <5>2. Append(oldnew, m.text) = oldnew \o <<m.text>>
          BY <2>4, <3>1
        <5>3. <<m.text>> \in Seq(Text)
          BY <2>4
        <5> QED
          BY <5>1, <5>2, <5>3
      <4>2. ToSet(<<m.text>>) = {m.text}
        BY DEF ToSet
      <4>3. oldnew \o <<m.text>> \in Seq(Text)
        BY <3>1, <4>1, ConcatProperties
      <4>4. ToSet(oldnew \o <<m.text>>) = ToSet(oldnew) \cup {m.text}
        <5>1. ToSet(oldnew \o <<m.text>>) = ToSet(oldnew) \cup ToSet(<<m.text>>)
          BY <3>1, <4>1, ToSetConcat, Zenon
        <5> QED
          BY <4>2, <5>1
      <4> QED
        BY <3>2, <4>1, <4>3, <4>4
    <3>3. CASE ~(m.command = "add-mask" /\ out = << >>)
      BY <2>2, <3>1, <3>3
    <3> QED
      BY <3>2, <3>3
  <2>10. row' = [i \in DOMAIN Logged(lines') |-> Replace(oldnew', Logged(lines')[i])]
    <3>1. lines' # << >>
      BY <2>3
    <3>2. Logged(lines') = out
      BY <2>3, <3>1 DEF Logged, Line
    <3> QED
      BY <2>2, <3>2
  <2>11. stopCommandEndToken' \in Text /\ debugOutputEnabled' \in BOOLEAN
    <3>1. << >> \in Text
      BY DEF Text
    <3> QED
      BY <2>2, <2>4, <3>1 DEF ReplacerKnows
  <2>12. ToSet(oldnew') = Hidden'
    BY <2>8, <2>9 DEF ReplacerKnows
  <2> QED
    BY <2>9, <2>10, <2>11, <2>12 DEF ReplacerKnows
<1> QED
  BY <1>1, <1>2

LEMMA KnownAlways == Spec => []ReplacerKnows
<1>1. IInv => LinesTyped
  BY DEF IInv
<1> QED
  BY <1>1, KnownAtFirst, KnownStep, Invariance, PTL DEF Spec

(* What was logged last is a text, if anything was. *)
LEMMA LoggedWritten ==
    ASSUME LinesTyped
    PROVE  Logged(lines) \in Seq(Seq(Written)) /\ (Logged(lines) = << >> \/ Len(Logged(lines)) = 1)
<1>1. CASE lines = << >>
  BY <1>1 DEF Logged
<1>2. CASE lines # << >>
  <2> DEFINE R == [message : Messages, out : Outs]
  <2>1. lines[Len(lines)] \in R
    <3>1. lines \in Seq(R)
      BY DEF LinesTyped
    <3> HIDE DEF R
    <3> QED
      BY <1>2, <3>1
  <2>2. lines[Len(lines)].out \in Outs
    BY <2>1
  <2> QED
    BY <1>2, <2>2, OutsWritten DEF Logged
<1> QED
  BY <1>1, <1>2

(* Every variable keeps its type: a row is one text, in which stars may stand *)
(* for values.                                                                *)
THEOREM TypeCorrect == Spec => []TypeOK
<1>1. LinesTyped /\ ReplacerKnows => TypeOK
  <2> SUFFICES ASSUME LinesTyped, ReplacerKnows PROVE TypeOK
    OBVIOUS
  <2> DEFINE out == Logged(lines)
  <2>1. out \in Seq(Seq(Written)) /\ (out = << >> \/ Len(out) = 1)
    BY LoggedWritten
  <2>2. oldnew \in Seq(Text) /\ row = [i \in DOMAIN out |-> Replace(oldnew, out[i])]
    BY DEF ReplacerKnows
  <2> HIDE DEF out
  <2>3. DOMAIN out = 1 .. Len(out) /\ Len(out) \in Nat /\ \A i \in 1 .. Len(out) : out[i] \in Seq(Written)
    BY <2>1
  <2>4. \A i \in 1 .. Len(out) : Replace(oldnew, out[i]) \in Seq(Shown)
    BY <2>2, <2>3, ReplaceTyped
  <2>5. row \in Seq(Seq(Shown)) /\ Len(row) = Len(out)
    BY <2>2, <2>3, <2>4
  <2>6. Len(row) <= 1
    <3>1. Len(<< >>) = 0
      OBVIOUS
    <3>2. Len(out) = 0 \/ Len(out) = 1
      BY <2>1, <3>1, Zenon
    <3>3. Len(row) = 0 \/ Len(row) = 1
      BY <2>5, <3>2, Zenon
    <3>4. 0 <= 1 /\ 1 <= 1
      OBVIOUS
    <3> QED
      BY <3>3, <3>4, Zenon
  <2> QED
    BY <2>2, <2>5, <2>6 DEF ReplacerKnows, TypeOK, Shown
<1>2. IInv => LinesTyped
  BY DEF IInv
<1> QED
  BY <1>1, <1>2, Invariance, KnownAlways, PTL

(* No row holds a value that is to be hidden, whatever the values are, how    *)
(* they overlap, and whenever they came to be known (reporter.go:429, 437):   *)
(* the stars that the replacer puts in are no part of a value, so that what   *)
(* is left of the text between them cannot make one up.                       *)
THEOREM Hides == Spec => []ValuesHidden
<1>1. LinesTyped /\ ReplacerKnows => ValuesHidden
  <2> SUFFICES ASSUME LinesTyped, ReplacerKnows, NEW i \in DOMAIN row, NEW v \in Hidden \ {<< >>}
               PROVE  ~Occurs(v, row[i])
    BY DEF ValuesHidden
  <2>1. Logged(lines) \in Seq(Seq(Written))
    BY LoggedWritten
  <2>2. oldnew \in Seq(Text) /\ ToSet(oldnew) = Hidden
    BY DEF ReplacerKnows
  <2>3. i \in DOMAIN Logged(lines) /\ row[i] = Replace(oldnew, Logged(lines)[i])
    BY DEF ReplacerKnows
  <2>4. Logged(lines)[i] \in Seq(Written)
    BY <2>1, <2>3
  <2> QED
    BY <2>2, <2>3, <2>4, ReplaceHides
<1>2. IInv => LinesTyped
  BY DEF IInv
<1> QED
  BY <1>1, <1>2, Invariance, KnownAlways, PTL

(* A row in which no value occurs is logged as it came (reporter.go:429).     *)
THEOREM ShowsOthers == Spec => []OthersShown
<1>1. LinesTyped /\ ReplacerKnows => OthersShown
  <2> SUFFICES ASSUME LinesTyped, ReplacerKnows, row # << >>,
                      \A v \in Hidden : ~Occurs(v, lines[Len(lines)].out[1])
               PROVE  row[1] = lines[Len(lines)].out[1]
    BY DEF OthersShown
  <2> DEFINE out == Logged(lines)
  <2>1. out \in Seq(Seq(Written)) /\ (out = << >> \/ Len(out) = 1)
    BY LoggedWritten
  <2>2. oldnew \in Seq(Text) /\ ToSet(oldnew) = Hidden /\ row = [i \in DOMAIN out |-> Replace(oldnew, out[i])]
    BY DEF ReplacerKnows
  <2>3. out # << >>
    <3>1. [i \in DOMAIN << >> |-> Replace(oldnew, << >>[i])] = << >>
      OBVIOUS
    <3> HIDE DEF out
    <3> QED
      BY <2>2, <3>1
  <2>4. out = lines[Len(lines)].out
    BY <2>3 DEF Logged
  <2> HIDE DEF out
  <2>5. 1 \in DOMAIN out /\ out[1] \in Seq(Written)
    BY <2>1, <2>3
  <2>6. row[1] = Replace(oldnew, out[1])
    BY <2>2, <2>5
  <2>7. Replace(oldnew, out[1]) = out[1]
    BY <2>2, <2>4, <2>5, ReplaceKeeps
  <2> QED
    BY <2>4, <2>6, <2>7
<1>2. IInv => LinesTyped
  BY DEF IInv
<1> QED
  BY <1>1, <1>2, Invariance, KnownAlways, PTL
=============================================================================
