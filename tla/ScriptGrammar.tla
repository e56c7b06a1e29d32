--------------------------- MODULE ScriptGrammar ----------------------------
(***************************************************************************)
(* What an expression of a script is, said by splitting: a sequence of     *)
(* lexemes is an assignment at its first assignment operator, an operation *)
(* at its last operator of the lowest precedence, and otherwise an operand *)
(* with what stands before and behind it. The parser, which never looks    *)
(* back, is compared with it.                                              *)
(***************************************************************************)
EXTENDS ScriptParser, FiniteSets

PairsOfSymbols == {<<"+", "+">>, <<"-", "-">>, <<"=", "=">>, <<"!", "=">>, <<"<", "=">>,
            <<">", "=">>, <<"&", "&">>, <<"|", "|">>, <<"+", "=">>, <<"-", "=">>,
            <<"*", "=">>, <<"/", "=">>, <<"%", "=">>, <<"|", "=">>}

(* The longest lexeme first; white space ends one.                          *)
RECURSIVE Lexemes(_)
Lexemes(words) ==
    IF words = <<>> THEN <<>>
    ELSE IF Head(words) = " " THEN Lexemes(Tail(words))
    ELSE IF Len(words) > 1 /\ SubSeq(words, 1, 2) \in PairsOfSymbols
    THEN <<words[1] \o words[2]>> \o Lexemes(SubSeq(words, 3, Len(words)))
    ELSE <<words[1]>> \o Lexemes(Tail(words))

Assignments == "=" :> "assign" @@ "+=" :> "assign_plus" @@ "-=" :> "assign_minus" @@
               "*=" :> "assign_mul" @@ "/=" :> "assign_div" @@ "%=" :> "assign_mod" @@
               "|=" :> "assign_extend"

Infixes == <<
    "|" :> "extend", "||" :> "or", "&&" :> "and", "==" :> "eq" @@ "!=" :> "ne",
    ">=" :> "ge" @@ "<=" :> "le" @@ ">" :> "gt" @@ "<" :> "lt",
    "+" :> "plus" @@ "-" :> "minus", "*" :> "mul" @@ "/" :> "div" @@ "%" :> "mod">>

PrefixOps == "++" :> "pre_inc" @@ "--" :> "pre_dec" @@ "+" :> "pos" @@ "-" :> "neg" @@
            "!" :> "not"

Steps == "++" :> "post_inc" @@ "--" :> "post_dec"

IsName(word) == Kind(word) = "identifier" /\ word \notin DOMAIN Assignments
                /\ word \notin UNION {DOMAIN Infixes[k] : k \in DOMAIN Infixes}
                /\ word \notin DOMAIN PrefixOps

Depth(ls, i) ==
    Cardinality({k \in 1 .. i - 1 : ls[k] = "("}) - Cardinality({k \in 1 .. i : ls[k] = ")"})

(* The lexeme is the last one of an operand.                                *)
RECURSIVE Ends(_, _)
Ends(ls, i) == /\ i > 0
               /\ \/ IsName(ls[i]) \/ ls[i] = ")"
                  \/ ls[i] \in DOMAIN Steps /\ Ends(ls, i - 1)

(* An operator between two operands, in no brackets.                        *)
Splits(ls, i, operators) ==
    ls[i] \in operators /\ Depth(ls, i) = 0 /\ Ends(ls, i - 1)

Before(ls, i) == SubSeq(ls, 1, i - 1)
After(ls, i)  == SubSeq(ls, i + 1, Len(ls))

RECURSIVE Tree(_), Operand(_), Closed(_)
Wrapped(op, name, subs) ==
    IF Hole \in {subs[k] : k \in DOMAIN subs} THEN Hole ELSE Node(op, name, subs)

(* Names, brackets and calls. A call has one argument here, or none.        *)
Closed(ls) ==
    LET n    == Len(ls)
        open == {k \in 1 .. n - 1 : ls[k] = "(" /\ Depth(ls, k) = 0}
        at   == CHOOSE k \in open : \A j \in open : j <= k
        args == SubSeq(ls, at + 1, n - 1)
    IN  IF n = 1 /\ IsName(ls[1]) THEN Node("var", ls[1], <<>>)
        ELSE IF n < 2 \/ ls[n] # ")" \/ open = {} THEN Hole
        ELSE IF at = 1 THEN Tree(args)
        ELSE IF args = <<>> THEN Wrapped("call", "", <<Closed(Before(ls, at))>>)
        ELSE Wrapped("call", "", <<Closed(Before(ls, at)), Tree(args)>>)

(* What stands behind is applied to what stands before.                     *)
Operand(ls) ==
    LET n == Len(ls)
    IN  IF ls = <<>> THEN Hole
        ELSE IF n > 1 /\ ls[n] \in DOMAIN Steps
        THEN Wrapped(Steps[ls[n]], "", <<Operand(Before(ls, n))>>)
        ELSE IF ls[1] \in DOMAIN PrefixOps
        THEN Wrapped(PrefixOps[ls[1]], "", <<Operand(Tail(ls))>>)
        ELSE Closed(ls)

Tree(ls) ==
    LET assigns == {i \in DOMAIN ls : Splits(ls, i, DOMAIN Assignments)}
        first   == CHOOSE i \in assigns : \A j \in assigns : i <= j
        levels  == {k \in DOMAIN Infixes :
                       \E i \in DOMAIN ls : Splits(ls, i, DOMAIN Infixes[k])}
        level   == CHOOSE k \in levels : \A j \in levels : k <= j
        these   == {i \in DOMAIN ls : Splits(ls, i, DOMAIN Infixes[level])}
        last    == CHOOSE i \in these : \A j \in these : j <= i
        Split(op, i) == Wrapped(op, "", <<Tree(Before(ls, i)), Tree(After(ls, i))>>)
    IN  IF assigns # {} THEN Split(Assignments[ls[first]], first)
        ELSE IF levels # {} THEN Split(Infixes[level][ls[last]], last)
        ELSE Operand(ls)

TreeOf(words) == Tree(Lexemes(words))
IsExpression(words) == TreeOf(words) # Hole

RECURSIVE HasHole(_)
HasHole(tree) == tree = Hole \/ \E k \in DOMAIN tree.subs : HasHole(tree.subs[k])
=============================================================================
