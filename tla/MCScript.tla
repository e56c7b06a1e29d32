------------------------------ MODULE MCScript ------------------------------
(***************************************************************************)
(* Four scripts: sprites that move, cover each other and change, on two    *)
(* displays of different widths; a sprite that comes and goes; one that    *)
(* uses all of the language; and one whose functions take themselves away  *)
(* and fail, and whose last sprite is held by a callback.                  *)
(***************************************************************************)
EXTENDS Script

MCStrings == {"wide", "dot", "low", "high"}

MCPictures == "wide" :> [w |-> 2, h |-> 1, opaque |-> TRUE] @@
              "dot"  :> [w |-> 1, h |-> 1, opaque |-> FALSE]

MCDisplays == "D1" :> [w |-> 3, h |-> 1] @@ "D2" :> [w |-> 1, h |-> 1]

MCAlphabet == {"a", "+", "-", "=", "*", "(", ")", " "}

MCAreas ==
    {Rectangle(x, y, w, h) : x \in 0 .. 2, y \in 0 .. 2, w \in {1, 3}, h \in {1, 3}}
    \cup {Rectangle(1, 1, 0, 2)}

MCCallbacks == {"Refresh", "DisplayMessage", "ValidateInput", "DisplayHotplug", "Quit"}

MCArguments ==
    LET Literal(word) == Node("string", word, <<>>)
    IN  [c \in MCCallbacks |-> CASE c = "DisplayMessage" -> <<Literal("dot")>>
                                 [] c = "ValidateInput"  -> <<Literal("wide"), Literal("dot")>>
                                 [] OTHER                -> <<>>]

Moving == <<
    "on", "=", "0", ";",
    "a", "=", "Sprite", "(", "Image", "(", "wide", ")", ")", ";",
    "b", "=", "Sprite", "(", "Image", "(", "dot", ")", ")", ";",
    "fun", "refresh", "(", ")", "{", "on", "=", "!", "on", ";",
        "if", "(", "on", ")", "{", "a", ".", "SetX", "(", "1", ")", ";",
            "b", ".", "SetPosition", "(", "2", ",", "0", ",", "0", "-", "1", ")", ";", "}",
        "else", "{", "a", ".", "SetX", "(", "a", ".", "GetX", "(", ")", "-", "1", ")", ";",
            "b", ".", "SetZ", "(", "1", ")", ";", "}", "}",
    "fun", "message", "(", "text", ")", "{",
        "b", ".", "SetOpacity", "(", "!", "on", ")", ";",
        "a", "=", "Sprite", "(", "Image", "(", "text", ")", ")", ";", "}",
    "fun", "key", "(", "text", ",", "more", ")", "{",
        "b", ".", "SetImage", "(", "a", ".", "GetImage", "(", ")", ")", ";",
        "return", "_args", ".", "count", "=", "=", "2", ";", "}",
    "fun", "plug", "(", ")", "{",
        "Window", ".", "SetX", "(", "1", ",", "Window", ".", "GetWidth", "(", ")", "-",
            "Window", ".", "GetWidth", "(", "1", ")", ")", ";", "}",
    "Plymouth", ".", "SetRefreshFunction", "(", "refresh", ")", ";",
    "Plymouth", ".", "SetDisplayMessageFunction", "(", "message", ")", ";",
    "Plymouth", ".", "SetValidateInputFunction", "(", "key", ")", ";",
    "Plymouth", ".", "SetDisplayHotplugFunction", "(", "plug", ")", ";">>

Flicker == <<
    "s", "=", "NULL", ";",
    "fun", "refresh", "(", ")", "{",
        "if", "(", "s", ")", "s", "=", "NULL", ";",
        "else", "s", "=", "Sprite", "(", "Image", "(", "wide", ")", ")", ";", "}",
    "fun", "message", "(", "text", ")", "{",
        "k", "=", "1", ";", "k", ".", "none", "(", "text", ")", ";",
        "t", "=", "Sprite", "(", "Image", "(", "low", ")", ")", ";",
        "Plymouth", ".", "SetDisplayMessageFunction", "(", "NULL", ")", ";", "}",
    "Plymouth", ".", "SetRefreshFunction", "(", "refresh", ")", ";",
    "Plymouth", ".", "SetDisplayMessageFunction", "(", "message", ")", ";",
    "Plymouth", ".", "SetQuitFunction", "(",
        "fun", "(", ")", "{", "s", ".", "SetY", "(", "1", ")", ";", "}", ")", ";">>

Language == <<
    "Box", "=", "[", "]", ";",
    "Box", ".", "Get", "=", "fun", "(", ")", "{", "return", "value", ";", "}", ";",
    "Box", ".", "Set", "=", "fun", "(", "v", ")", "{",
        "this", ".", "value", "=", "v", ";", "return", "this", ";", "}", ";",
    "fun", "New", "(", "v", ")", "{", "local", ".", "b", "=", "[", "]", "|", "Box", ";",
        "b", ".", "value", "=", "v", ";", "return", "b", ";", "}",
    "x", "=", "New", "(", "1", ")", ";",
    "y", "=", "x", ".", "Set", "(", "2", ")", ".", "Get", "(", ")", "+", "1", ";",
    "pick", "=", "fun", "(", "n", ")", "{", "if", "(", "n", ">", "1", ")", "fail", ";",
            "return", "low", ";", "}",
        "|", "fun", "(", "n", ")", "{", "return", "high", ";", "}", ";",
    "z", "=", "pick", "(", "0", ")", "+", "pick", "(", "2", ")", ";",
    "sum", "=", "0", ";",
    "for", "(", "i", "=", "0", ";", "i", "<", "3", ";", "i", "+", "+", ")", "{",
        "if", "(", "i", "=", "=", "1", ")", "continue", ";",
        "sum", "+", "=", "i", ";", "if", "(", "i", "=", "=", "2", ")", "break", ";", "}",
    "n", "=", "3", ";", "while", "(", "n", ")", "n", "-", "-", ";",
    "do", "{", "+", "+", "n", ";", "}", "while", "(", "n", "<", "2", ")", ";",
    "l", "=", "z", ".", "SubString", "(", "1", ",", "3", ")", ".", "Length", "(", ")", ";",
    "s", "=", "[", "1", ",", "dot", ",", "[", "2", "]", "]", ";",
    "s", "=", "s", "[", "2", "]", "[", "0", "]", ";",
    "u", "=", "-", "x", ".", "value", "*", "2", ";", "w", "=", "NULL", "|", "|", "3", "&", "&", "u", ";",
    "fun", "fact", "(", "n", ")", "{", "if", "(", "n", "<", "=", "1", ")", "return", "1", ";",
        "return", "n", "*", "fact", "(", "n", "-", "1", ")", ";", "}",
    "f", "=", "fact", "(", "3", ")", "%", "2", ";",
    "h", "[", "0", "]", ".", "b", "=", "1", ";", "c", "=", "h", "[", "0", "]", "+", "+", ";",
    "x", ".", "self", "=", "x", ";", "x", "=", "NULL", ";",
    "Plymouth", ".", "SetRefreshFunction", "(", "pick", ")", ";",
    "Plymouth", ".", "SetDisplayMessageFunction", "(", "Sprite", ")", ";">>

Rough == <<
    "twice", "=", "0", ";", "k", "=", "0", ";", "pick", "=", "NULL", ";",
    "fun", "less", "(", "n", ")", "{", "return", "n", "<", "2", ";", "}",
    "while", "(", "less", "(", "k", ")", ")", "k", "+", "+", ";",
    "t", "=", "Sprite", "(", "Image", "(", "theme", ")", ")", ";",
    "t", ".", "SetX", "(", "k", ")", ";",
    "one", "=", "fun", "(", ")", "{", "pick", "=", "NULL", ";", "fail", ";", "}", ";",
    "fun", "message", "(", "text", ")", "{",
        "pick", "=", "one", "|", "Sprite", ";",
        "if", "(", "t", ")", "{", "t", "=", "NULL", ";", "kept", "=", "pick", ";", "}",
        "pick", "(", ")", ";", "}",
    "Plymouth", ".", "SetRefreshFunction", "(",
        "fun", "(", ")", "{", "if", "(", "twice", ")", "{",
                "Plymouth", ".", "SetRefreshFunction", "(", "NULL", ")", ";", "fail", ";", "}",
            "twice", "=", "1", ";", "}", ")", ";",
    "Plymouth", ".", "SetDisplayMessageFunction", "(", "message", ")", ";",
    "Plymouth", ".", "SetValidateInputFunction", "(", "one", ")", ";",
    "Plymouth", ".", "SetQuitFunction", "(",
        "fun", "(", ")", "{", "k", "=", "0", ";", "}",
            "|", "[", "Sprite", "(", "Image", "(", "dot", ")", ")", "]", ")", ";">>

MCPrograms == {Moving, Flicker, Language, Rough}

MCEnvironment == <<[name |-> "theme", text |-> "low"], [name |-> "theme", text |-> "wide"]>>
=============================================================================
