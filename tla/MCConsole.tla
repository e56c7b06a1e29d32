----------------------------- MODULE MCConsole -----------------------------
(* What the console writes in the checked instance: each text holds a       *)
(* feature of the emulator where a read may cut it. A prompt clears its     *)
(* line and goes to its first column besides.                               *)
EXTENDS Console

Sequence(bytes) == <<"ESC", "[">> \o bytes

MCTexts == {
    <<"a", "TAB", "BS", "CR">>,
    <<"LEAD", "CONT", "LEAD", "a">>, <<"CONT", "BAD", "BEL">>,
    <<"NL", "ESC", "M", "TAB", "a">>,
    <<"LEAD">> \o Sequence(<<"9", "C">>),
    Sequence(<<"D">>) \o Sequence(<<"@">>),
    Sequence(<<"F">>) \o Sequence(<<"P">>),
    Sequence(<<"NL", "1", ";", "3", "m">>),
    Sequence(<<"LEAD", " ", "B">>)}

(* Together with an entry or a bullet it wraps a line of three.             *)
MCPhrases == {<<"p">>}

MCOvers == {<<"BS">>, <<"BS", " ">>}
=============================================================================
