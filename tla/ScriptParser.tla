---------------------------- MODULE ScriptParser ----------------------------
(***************************************************************************)
(* The scanner and the parser of the script splash plugin (script-scan.c,  *)
(* script-parse.c): a recursive descent over tokens, with one level of     *)
(* recursion for each level of precedence.                                 *)
(*                                                                         *)
(* A source is a sequence of words: " " is white space, a comment is the   *)
(* word "#", every other word is one token. A symbol is one character; two *)
(* of them make an operator if no white space is between them.             *)
(***************************************************************************)
EXTENDS Integers, Sequences, SequencesExt, TLC

CONSTANT Strings    \* the string literals, which stand for themselves

NumberOf == "0" :> 0 @@ "1" :> 1 @@ "2" :> 2 @@ "3" :> 3 @@ "10" :> 10

Symbols == {"+", "-", "*", "/", "%", "=", "!", "|", "&", "<", ">",
            "(", ")", "[", "]", "{", "}", ".", ",", ";"}

Kind(word) ==
    CASE word = "EOF"             -> "end"
      [] word \in Symbols         -> "symbol"
      [] word \in DOMAIN NumberOf -> "integer"
      [] word \in Strings         -> "string"
      [] OTHER                    -> "identifier"

(* script_scan_read_next_token. A comment leaves no white space of its own: *)
(* one to the end of the line stops before the newline, which does.         *)
Scan(source) ==
    LET Token(i) == [text |-> source[i], space |-> i > 1 /\ source[i - 1] = " "]
        Kept(t)  == t.text \notin {" ", "#"}
    IN  SelectSeq([i \in DOMAIN source |-> Token(i)], Kept)

Text(ts, i) == IF i \in DOMAIN ts THEN ts[i].text ELSE "EOF"
IsIdentifier(ts, i) == Kind(Text(ts, i)) = "identifier"

-----------------------------------------------------------------------------
(* An expression or a statement. The hole is the NULL of the code.          *)
Node(op, name, subs) == [op |-> op, name |-> name, subs |-> subs]
Hole == Node("hole", "", <<>>)

(* What a function of the parser gives: a tree, the next token, and whether *)
(* an error was reported, after which the whole source is refused.          *)
Parsed(tree, at) == [tree |-> tree, at |-> at, error |-> FALSE]
ParseError(at)   == [tree |-> Hole, at |-> at, error |-> TRUE]
Fails(p)         == p.error \/ p.tree = Hole

Operator(symbol, op, level) == [symbol |-> symbol, op |-> op, level |-> level]

NoOperator == Operator(<<>>, "none", -1)

PrefixTable == <<
    Operator(<<"+", "+">>, "pre_inc", 0), Operator(<<"+">>, "pos", 0),
    Operator(<<"-", "-">>, "pre_dec", 0), Operator(<<"-">>, "neg", 0),
    Operator(<<"!">>, "not", 0)>>

PostfixTable == <<
    Operator(<<"+", "+">>, "post_inc", 0), Operator(<<"-", "-">>, "post_dec", 0)>>

(* A bug: the sums bind as tightly as the products.                         *)
BinaryTableFlat == <<
    Operator(<<"+", "=">>, "none", -1), Operator(<<"-", "=">>, "none", -1),
    Operator(<<"=", "=">>, "eq", 3), Operator(<<"+">>, "plus", 6),
    Operator(<<"-">>, "minus", 6), Operator(<<"*">>, "mul", 6)>>

(* An assignment with an operator is none of these.                         *)
BinaryTable == <<
    Operator(<<"|", "|">>, "or", 1), Operator(<<"&", "&">>, "and", 2),
    Operator(<<"=", "=">>, "eq", 3), Operator(<<"!", "=">>, "ne", 3),
    Operator(<<">", "=">>, "ge", 4), Operator(<<"<", "=">>, "le", 4),
    Operator(<<"+", "=">>, "none", -1), Operator(<<"-", "=">>, "none", -1),
    Operator(<<"*", "=">>, "none", -1), Operator(<<"/", "=">>, "none", -1),
    Operator(<<"%", "=">>, "none", -1), Operator(<<"|", "=">>, "none", -1),
    Operator(<<"|">>, "extend", 0), Operator(<<">">>, "gt", 4),
    Operator(<<"<">>, "lt", 4), Operator(<<"+">>, "plus", 5),
    Operator(<<"-">>, "minus", 5), Operator(<<"*">>, "mul", 6),
    Operator(<<"/">>, "div", 6), Operator(<<"%">>, "mod", 6)>>

AssignTable == <<
    Operator(<<"+", "=">>, "assign_plus", 0), Operator(<<"-", "=">>, "assign_minus", 0),
    Operator(<<"*", "=">>, "assign_mul", 0), Operator(<<"/", "=">>, "assign_div", 0),
    Operator(<<"%", "=">>, "assign_mod", 0), Operator(<<"|", "=">>, "assign_extend", 0),
    Operator(<<"=">>, "assign", 0)>>

(* script_parse_operator_table_entry_lookup: the first entry that fits.     *)
Lookup(ts, i, table) ==
    LET Fits(o) == /\ Text(ts, i) = o.symbol[1]
                   /\ Len(o.symbol) = 2 => /\ Text(ts, i + 1) = o.symbol[2]
                                           /\ ~ts[i + 1].space
    IN  IF \E k \in DOMAIN table : Fits(table[k])
        THEN SelectSeq(table, Fits)[1]
        ELSE NoOperator

RECURSIVE Term(_, _), Elements(_, _, _, _), Postfixes(_, _), Prefix(_, _)
RECURSIVE PostOperators(_, _), LeftToRight(_, _, _), Operations(_, _, _)
RECURSIVE Expression(_, _), Statement(_, _), Statements(_, _, _)
RECURSIVE Parameters(_, _, _)

(* script_parse_function_def: identifiers in brackets, then a statement,    *)
(* which may be missing. The parameters follow the body.                    *)
Parameters(ts, i, names) ==
    IF Text(ts, i) = ")" THEN Parsed(Node("names", "", names), i + 1)
    ELSE IF ~IsIdentifier(ts, i) THEN ParseError(i)
    ELSE LET more == Append(names, Node("var", Text(ts, i), <<>>))
         IN  CASE Text(ts, i + 1) = ")" -> Parsed(Node("names", "", more), i + 2)
               [] Text(ts, i + 1) = "," -> Parameters(ts, i + 2, more)
               [] OTHER                 -> ParseError(i + 1)

FunctionDef(ts, i) ==
    IF Text(ts, i) # "(" THEN ParseError(i)
    ELSE LET names == Parameters(ts, i + 1, <<>>)
             body  == Statement(ts, names.at)
         IN  IF names.error \/ body.error THEN ParseError(i)
             ELSE Parsed(Node("function", "", <<body.tree>> \o names.tree.subs), body.at)

(* The elements of a set or of a call; an element may be missing, and a     *)
(* comma may be the last.                                                   *)
Elements(ts, i, close, found) ==
    IF Text(ts, i) = close THEN Parsed(Node("list", "", found), i + 1)
    ELSE LET e    == Expression(ts, i)
             more == Append(found, e.tree)
         IN  CASE e.error -> e
               [] ~e.error /\ Text(ts, e.at) = close ->
                    Parsed(Node("list", "", more), e.at + 1)
               [] ~e.error /\ Text(ts, e.at) = "," -> Elements(ts, e.at + 1, close, more)
               [] OTHER -> ParseError(e.at)

Named(word) == CASE word = "NULL" -> Node("null", "", <<>>)
                 [] word \in {"global", "local", "this"} -> Node(word, "", <<>>)
                 [] OTHER -> Node("var", word, <<>>)

(* script_parse_exp_tm. *)
Term(ts, i) ==
    LET word == Text(ts, i)
        list == Elements(ts, i + 1, "]", <<>>)
        inner == Expression(ts, i + 1)
    IN  CASE Kind(word) = "integer" -> Parsed(Node("number", word, <<>>), i + 1)
          [] Kind(word) = "string"  -> Parsed(Node("string", word, <<>>), i + 1)
          [] Kind(word) = "identifier" ->
                IF word = "fun" THEN FunctionDef(ts, i + 1)
                ELSE Parsed(Named(word), i + 1)
          [] word = "[" -> IF list.error THEN list
                           ELSE Parsed(Node("set", "", list.tree.subs), list.at)
          [] word = "(" -> IF Fails(inner) \/ Text(ts, inner.at) # ")"
                           THEN ParseError(inner.at)
                           ELSE Parsed(inner.tree, inner.at + 1)
          [] OTHER -> Parsed(Hole, i)

(* script_parse_exp_pi: calls and elements, on whatever came before.        *)
Postfixes(ts, p) ==
    LET list == Elements(ts, p.at + 1, ")", <<>>)
        key  == Expression(ts, p.at + 1)
    IN  CASE p.error -> p
          [] ~p.error /\ Text(ts, p.at) = "(" ->
                IF list.error THEN list
                ELSE Postfixes(ts, Parsed(Node("call", "", <<p.tree>> \o list.tree.subs),
                                          list.at))
          [] ~p.error /\ Text(ts, p.at) = "." ->
                IF ~IsIdentifier(ts, p.at + 1) THEN ParseError(p.at)
                ELSE LET name == Node("string", Text(ts, p.at + 1), <<>>)
                     IN  Postfixes(ts, Parsed(Node("hash", "", <<p.tree, name>>), p.at + 2))
          [] ~p.error /\ Text(ts, p.at) = "[" ->
                IF Fails(key) \/ Text(ts, key.at) # "]" THEN ParseError(p.at)
                ELSE Postfixes(ts, Parsed(Node("hash", "", <<p.tree, key.tree>>), key.at + 1))
          [] OTHER -> p

(* script_parse_exp_pr: nobody asks whether an operand follows.             *)
Prefix(ts, i) ==
    LET o   == Lookup(ts, i, PrefixTable)
        sub == Prefix(ts, i + Len(o.symbol))
    IN  IF o = NoOperator THEN Postfixes(ts, Term(ts, i))
        ELSE IF sub.error THEN sub
        ELSE Parsed(Node(o.op, "", <<sub.tree>>), sub.at)

(* script_parse_exp_po: ++ and -- apply to all the prefixes before them.    *)
PostOperators(ts, p) ==
    LET o == Lookup(ts, p.at, PostfixTable)
    IN  IF p.error \/ o = NoOperator THEN p
        ELSE PostOperators(ts, Parsed(Node(o.op, "", <<p.tree>>), p.at + 2))

(* script_parse_exp_ltr: the operators of one level, from left to right.    *)
Operations(ts, p, level) ==
    LET o   == Lookup(ts, p.at, BinaryTable)
        rhs == LeftToRight(ts, p.at + Len(o.symbol), level + 1)
    IN  IF o.level # level THEN p
        ELSE IF Fails(rhs) THEN ParseError(rhs.at)
        ELSE Operations(ts, Parsed(Node(o.op, "", <<p.tree, rhs.tree>>), rhs.at), level)

LeftToRight(ts, i, level) ==
    IF level > 6 THEN PostOperators(ts, Prefix(ts, i))
    ELSE LET lhs == LeftToRight(ts, i, level + 1)
         IN  IF Fails(lhs) THEN lhs ELSE Operations(ts, lhs, level)

(* script_parse_exp_as. *)
Expression(ts, i) ==
    LET lhs == LeftToRight(ts, i, 0)
        o   == Lookup(ts, lhs.at, AssignTable)
        rhs == Expression(ts, lhs.at + Len(o.symbol))
    IN  IF Fails(lhs) \/ o = NoOperator THEN lhs
        ELSE IF Fails(rhs) THEN ParseError(rhs.at)
        ELSE Parsed(Node(o.op, "", <<lhs.tree, rhs.tree>>), rhs.at)

-----------------------------------------------------------------------------
(* The tokens from i on spell these words.                                  *)
Expect(p, ts, word) == ~Fails(p) /\ Text(ts, p.at) = word

Block(ts, i) ==
    LET list == Statements(ts, i + 1, <<>>)
    IN  IF list.error \/ Text(ts, list.at) # "}" THEN ParseError(list.at)
        ELSE Parsed(Node("block", "", list.tree.subs), list.at + 1)

IfWhile(ts, i) ==
    LET cond == Expression(ts, i + 2)
        then == Statement(ts, cond.at + 1)
        else == Statement(ts, then.at + 1)
    IN  CASE Text(ts, i + 1) # "(" \/ ~Expect(cond, ts, ")") -> ParseError(i)
          [] Text(ts, i + 1) = "(" /\ Expect(cond, ts, ")") ->
             IF then.error THEN then
             ELSE IF Text(ts, i) = "if" /\ Text(ts, then.at) = "else"
             THEN IF else.error THEN else
                  ELSE Parsed(Node("if", "", <<cond.tree, then.tree, else.tree>>), else.at)
             ELSE Parsed(Node(Text(ts, i), "", <<cond.tree, then.tree, Hole>>), then.at)

DoWhile(ts, i) ==
    LET body == Statement(ts, i + 1)
        cond == Expression(ts, body.at + 2)
    IN  IF body.error \/ Text(ts, body.at) # "while" \/ Text(ts, body.at + 1) # "("
           \/ ~Expect(cond, ts, ")") \/ Text(ts, cond.at + 1) # ";"
        THEN ParseError(i)
        ELSE Parsed(Node("do", "", <<cond.tree, body.tree, Hole>>), cond.at + 2)

For(ts, i) ==
    LET first == Expression(ts, i + 2)
        cond  == Expression(ts, first.at + 1)
        last  == Expression(ts, cond.at + 1)
        body  == Statement(ts, last.at + 1)
        Do(e) == Node("expression", "", <<e>>)
    IN  IF Text(ts, i + 1) # "(" \/ ~Expect(first, ts, ";") THEN ParseError(i)
        ELSE IF ~Expect(cond, ts, ";") \/ ~Expect(last, ts, ")") THEN ParseError(i)
        ELSE IF body.error THEN body
        ELSE Parsed(Node("block", "",
                 <<Do(first.tree),
                   Node("for", "", <<cond.tree, body.tree, Do(last.tree)>>)>>), body.at)

Leave(ts, i) ==
    LET value == Expression(ts, i + 1)
        end   == IF Text(ts, i) = "return" THEN value ELSE Parsed(Hole, i + 1)
    IN  IF end.error \/ Text(ts, end.at) # ";" THEN ParseError(i)
        ELSE Parsed(Node(Text(ts, i), "", <<end.tree>>), end.at + 1)

Function(ts, i) ==
    LET def  == FunctionDef(ts, i + 2)
        name == Node("var", Text(ts, i + 1), <<>>)
    IN  IF ~IsIdentifier(ts, i + 1) \/ def.error THEN ParseError(i)
        ELSE Parsed(Node("expression", "",
                         <<Node("assign", "", <<name, def.tree>>)>>), def.at)

(* script_parse_op *)
Statement(ts, i) ==
    LET word  == Text(ts, i)
        plain == Expression(ts, i)
    IN  CASE word = "{"              -> Block(ts, i)
          [] word \in {"if", "while"} -> IfWhile(ts, i)
          [] word = "do"             -> DoWhile(ts, i)
          [] word = "for"            -> For(ts, i)
          [] word = "fun"            -> Function(ts, i)
          [] word \in {"return", "fail", "break", "continue"} -> Leave(ts, i)
          [] OTHER ->
                IF Fails(plain) THEN plain
                ELSE IF Text(ts, plain.at) # ";" THEN ParseError(plain.at)
                ELSE Parsed(Node("expression", "", <<plain.tree>>), plain.at + 1)

(* script_parse_op_list: until a statement is missing.                      *)
Statements(ts, i, found) ==
    LET s == Statement(ts, i)
    IN  IF s.error THEN s
        ELSE IF s.tree = Hole THEN Parsed(Node("list", "", found), s.at)
        ELSE Statements(ts, s.at, Append(found, s.tree))

(* script_parse_string, script_parse_file: all of the source, or nothing.   *)
Parse(source) ==
    LET ts   == Scan(source)
        list == Statements(ts, 1, <<>>)
    IN  IF list.error \/ list.at <= Len(ts) THEN Hole
        ELSE Node("block", "", list.tree.subs)
=============================================================================
