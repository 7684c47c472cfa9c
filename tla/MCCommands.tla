----------------------------- MODULE MCCommands -----------------------------
(* A small instance of Commands for TLC: words that overlap as masks, end     *)
(* tokens that are words, no single word, or a command's name.                *)
EXTENDS Commands

SmallWords == {"a", "b", "go", "true"} \cup Commands
NoToken == << >>
SmallToken == <<"b", "b">>
SmallSecrets == {{}, {<<"a">>, <<"a", "b">>}, {<< >>, <<"b">>}, {<<"true">>}}
Line(c, texts) == {[command |-> c, text |-> t] : t \in texts}
SmallMessages ==
    UNION {Line("", {<<"a", "b">>, <<"b", "a", "b", "b", "a">>}),
           Line("add-mask", {<<"a">>, <<"b", "a">>, << >>}),
           Line("debug", {<<"b", "a">>}),
           Line("group", {<<"a">>}),
           Line("stop-commands", {<<"go">>, << >>, <<"go", "a">>, <<"debug">>, <<"stop-commands">>}),
           Line("go", {<< >>})}
=============================================================================
