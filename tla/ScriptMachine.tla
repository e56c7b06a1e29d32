--------------------------- MODULE ScriptMachine ----------------------------
(***************************************************************************)
(* The interpreter of the script splash plugin (script-execute.c,          *)
(* script.c): it walks the tree of the parser. An expression leaves its    *)
(* object in m.out, a statement also how it ended in m.reply.              *)
(***************************************************************************)
EXTENDS Sprites

CONSTANT Callbacks      \* the functions that a script gives to the plugin

Fail(m)    == [m EXCEPT !.reply = "fail", !.out = Nil]
Normal(m)  == [m EXCEPT !.reply = "normal", !.out = Nil]
Return(m)  == [m EXCEPT !.reply = "return"]

SetterOf(callback) == "Set" \o callback \o "Function"

(* plymouth_set_function: the object is kept as it is, function or not.     *)
SetFunction(m, callback) ==
    LET got == Get(m, m.local, "function")
        d   == Deref(got, got.out)
        w   == Unref(Unref(Ref(got, d), got.out), m.callbacks[callback])
    IN  NewNull([w EXCEPT !.callbacks[callback] = d])

(* script-lib-string.c: the characters from start to before end.            *)
SubString(m) ==
    LET from == Parameter(m, "start")
        to   == Parameter(from, "end")
        text == AsString(m, m.this)
        last == IF to.num > Len(text) THEN Len(text) ELSE to.num
    IN  IF from.num < 0 \/ to.num < from.num THEN NewNull(to)
        ELSE NewString(to, SubSeq(text, from.num + 1, last))

(* The natives, by the name under which their library gives them.           *)
CallNative(m, name) ==
    CASE name = "Sprite._New"       -> SpriteNew(m)
      [] name = "Sprite.GetImage"   -> SpriteGetImage(m)
      [] name = "Sprite.SetImage"   -> SpriteSetImage(m)
      [] name = "Sprite.GetX"       -> SpriteGetX(m)
      [] name = "Sprite.SetX"       -> SpriteSet(m, "x")
      [] name = "Sprite.SetY"       -> SpriteSet(m, "y")
      [] name = "Sprite.SetZ"       -> SpriteSet(m, "z")
      [] name = "Sprite.SetOpacity" -> SpriteSet(m, "opacity")
      [] name = "Window.GetWidth"   -> WindowGetWidth(m)
      [] name = "Window.SetX"       -> WindowSetX(m)
      [] name = "Image._New"        -> ImageNew(m)
      [] name = "String.SubString"  -> SubString(m)
      [] name = "String.Length"     -> NewNumber(m, Len(AsString(m, m.this)))
      [] OTHER -> SetFunction(m, CHOOSE c \in Callbacks : name = "Plymouth." \o SetterOf(c))

RECURSIVE Eval(_, _), EvalAll(_, _, _), Exec(_, _), ExecList(_, _, _)
RECURSIVE Loop(_, _, _), TryParts(_, _, _, _), Bind(_, _, _, _, _)

(* The parameters, as elements of the hash _args and as variables.          *)
Bind(m, names, args, arg, k) ==
    IF k > Len(args) THEN m
    ELSE LET Name(w) == IF k > Len(names) THEN w
                        ELSE Add(w, w.local, args[k], names[k].name)
             Rest(w) == Bind(Name(w), names, args, arg, k + 1)
         IN  Then(Add(m, arg, args[k], ToString(k - 1)), Rest)

(* script_state_init_sub .. script_state_destroy:                           *)
(* script_execute_function_with_parlist. What comes of it is a return, or a *)
(* failure.                                                                 *)
RunFunction(m, fun, this, args) ==
    LET native == fun.op = "native"
        names  == IF native THEN fun.subs ELSE Tail(fun.subs)
        hash   == NewHash(m)
        local  == NewRef(hash, hash.out)
        global == NewRef(Unref(local, hash.out), m.global)
        self   == NewRef(global, IF this = Nil THEN m.this ELSE this)
        sub    == [self EXCEPT !.local = local.out, !.global = global.out,
                               !.this = self.out]
        Given(arg) ==
            LET bound == Bind(arg, names, args, arg.out, 1)
                count == NewNumber(bound, Len(args))
                given == Add(Add(count, arg.out, count.out, "count"),
                             arg.local, arg.out, "_args")
                ready == Unref(Unref(given, count.out), arg.out)
            IN  IF this = Nil THEN ready ELSE Add(ready, arg.local, this, "this")
        Run(w) == IF native THEN Return(CallNative(w, fun.name)) ELSE Exec(w, fun.subs[1])
        Back(w) ==
            LET left == Unref(Unref(Unref(w, w.global), w.local), w.this)
                back == [left EXCEPT !.local = m.local, !.global = m.global,
                                     !.this = m.this]
            IN  IF w.reply = "fail" THEN Fail(back) ELSE Return(Gives(back, w.out))
    IN  Then(Then(Then(NewHash(sub), Given), Run), Back)

(* script_obj_execute, for each part of an object until a function does not *)
(* fail (script_obj_as_custom). After one that fails its object is looked   *)
(* into again, and so is the object of two parts after the first of them;   *)
(* the call holds no reference to either.                                   *)
TryParts(m, i, this, args) ==
    LET d     == Deref(m, i)
        of    == At(m, d)
        asked == [m EXCEPT !.obj[d].asked = @ + 1]
        There(w) == At(w, d).asked > 0
        Left(w)  == IF There(w) THEN [w EXCEPT !.obj[d].asked = @ - 1] ELSE w
        Run(w)   ==
            IF w.reply = "fail" THEN IF There(w) THEN w ELSE Faulty(w, "callee")
            ELSE IF w.out = Nil THEN Return(NewNull(w)) ELSE w
        Second(w) ==
            CASE w.reply # "fail" -> w
              [] w.reply = "fail" /\ There(w)  -> TryParts(w, of.subs[2], this, args)
              [] w.reply = "fail" /\ ~There(w) -> Faulty(w, "callee")
    IN  CASE of.type = "function" ->
                Then(Then(RunFunction(asked, of.fun, this, args), Run), Left)
          [] of.type = "extend" ->
                Then(Then(TryParts(asked, of.subs[1], this, args), Second), Left)
          [] OTHER -> Fail(IF Live(m, d) THEN m ELSE Faulty(m, "callee"))

Call(m, object, this, args) == TryParts(m, object, this, args)

-----------------------------------------------------------------------------
(* All the operands, with their objects in m.args.                          *)
EvalAll(m, es, found) ==
    IF es = <<>> THEN [m EXCEPT !.args = found]
    ELSE LET Rest(w) == EvalAll(w, Tail(es), Append(found, w.out))
         IN  Then(Eval(m, Head(es)), Rest)

UnrefAll(m, objects) == FoldLeft(Unref, m, objects)

(* script_evaluate_var: local, this, global; a new one is local.            *)
EvalVar(m, name) ==
    LET in == SelectSeq(<<m.local, m.this, m.global>>,
                        LAMBDA h : Peek(m, h, name).out # Nil)
    IN  IF in = <<>> THEN Get(m, m.local, name) ELSE Peek(m, in[1], name)


(* script_evaluate_hash: what is no hash becomes one.                       *)
EvalHash(m, e) ==
    LET w    == EvalAll(m, e.subs, <<>>)
        hash == w.args[1]
        made == NewHash(w)
        h    == IF Is(w, hash, "hash") THEN w
                ELSE Unref(Assign(made, hash, made.out), made.out)
        got  == Get(h, hash, AsString(w, w.args[2]))
    IN  Gives(UnrefAll(got, w.args), got.out)

EvalSet(m, e) ==
    LET set  == NewHash(m)
        w    == EvalAll(set, e.subs, <<>>)
        Put(x, k) == Unref(Add(x, set.out, w.args[k], ToString(k - 1)), w.args[k])
    IN  Gives(FoldLeftDomain(Put, w, w.args), set.out)

(* script_evaluate_func: the function, and what it is a function of.        *)
Callee(m, e) ==
    LET key   == Eval(m, e.subs[2])
        hash  == Eval(key, e.subs[1])
        name  == AsString(hash, key.out)
        w     == Unref(hash, key.out)
        peek  == Peek(w, hash.out, name)
        lib   == Peek(w, w.global, "String")
        text  == Unref(Peek(lib, lib.out, name), lib.out)
        found == CASE peek.out # Nil -> peek
                   [] peek.out = Nil /\ Is(w, hash.out, "string") /\ text.out # Nil -> text
                   [] OTHER -> Get(IF Is(w, hash.out, "string") THEN text ELSE w,
                                   hash.out, name)
        in    == SelectSeq(<<m.local, m.this, m.global>>,
                           LAMBDA h : Peek(m, h, e.name).out # Nil)
        var   == Peek(m, in[1], e.name)
        of    == IF in[1] = m.this THEN m.this ELSE Nil
    IN  CASE e.op = "hash" -> [found EXCEPT !.args = <<hash.out>>]
          [] e.op = "var" /\ in = <<>> -> [NewNull(m) EXCEPT !.args = <<Nil>>]
          [] e.op = "var" /\ in # <<>> ->
                [IF of = Nil THEN var ELSE Gives(Ref(var, of), var.out)
                    EXCEPT !.args = <<of>>]
          [] OTHER -> [Eval(m, e) EXCEPT !.args = <<Nil>>]

EvalCall(m, e) ==
    LET callee == Callee(m, Head(e.subs))
        this   == callee.args[1]
        w      == EvalAll(callee, Tail(e.subs), <<>>)
        ran    == Call(w, callee.out, this, w.args)
        left   == Unref(Unref(UnrefAll(ran, w.args), callee.out), this)
    IN  IF ran.out = Nil THEN NewNull(left) ELSE Gives(left, ran.out)

(* script_evaluate_unary: ++ and -- make NULL of what is no number.         *)
EvalUnary(m, e) ==
    LET w      == Eval(m, e.subs[1])
        old    == Number(w, w.out)
        isNum  == Is(w, w.out, "number")
        change == IF e.op \in {"pre_inc", "post_inc"} THEN 1 ELSE -1
        new    == NewNumber(w, old + change)
        d      == Deref(w, w.out)
        after  == NewNumber(Ref(w, d), old + change)
        null   == NewNull(w)
        Gave(x, o) == Gives(Unref(x, w.out), o)
        Negated == IF isNum THEN NewNumber(w, -old) ELSE null
        Not     == NewNumber(w, IF AsBool(w, w.out) THEN 0 ELSE 1)
    IN  CASE e.op = "pos" -> w
          [] e.op = "not" -> Gave(Not, Not.out)
          [] e.op = "neg" -> Gave(Negated, Negated.out)
          [] e.op \in {"pre_inc", "pre_dec", "post_inc", "post_dec"} ->
                IF ~isNum THEN Gave(Reset(null, w.out), null.out)
                ELSE IF e.op \in {"pre_inc", "pre_dec"}
                THEN Gave(Assign(new, w.out, new.out), new.out)
                ELSE Gave(Unref(Assign(after, w.out, after.out), after.out), d)

(* What is not evaluated is not asked for.                                  *)
EvalLogic(m, e) ==
    LET w == Eval(m, e.subs[1])
    IN  IF (e.op = "and") = AsBool(w, w.out)
        THEN Eval(Unref(w, w.out), e.subs[2])
        ELSE w

OperatorOf == "assign_plus" :> "plus" @@ "assign_minus" :> "minus" @@
              "assign_mul" :> "mul" @@ "assign_div" :> "div" @@
              "assign_mod" :> "mod" @@ "assign_extend" :> "extend"

EvalBinary(m, e) ==
    LET w    == EvalAll(m, e.subs, <<>>)
        made == Apply(w, IF e.op \in DOMAIN OperatorOf THEN OperatorOf[e.op] ELSE e.op,
                      w.args[1], w.args[2])
        set  == IF e.op \in DOMAIN OperatorOf THEN Assign(made, w.args[1], made.out)
                ELSE made
    IN  Gives(UnrefAll(set, w.args), made.out)

EvalAssign(m, e) ==
    LET w == EvalAll(m, e.subs, <<>>)
    IN  Gives(Unref(Assign(w, w.args[1], w.args[2]), w.args[2]), w.args[1])

(* script_evaluate                                                          *)
Eval(m, e) ==
    CASE e.op = "number"   -> NewNumber(m, NumberOf[e.name])
      [] e.op = "string"   -> NewString(m, e.name)
      [] e.op = "null"     -> NewNull(m)
      [] e.op = "function" -> NewFunction(m, e)
      [] e.op = "local"    -> Ref(m, m.local)
      [] e.op = "global"   -> Ref(m, m.global)
      [] e.op = "this"     -> Ref(m, m.this)
      [] e.op = "set"      -> EvalSet(m, e)
      [] e.op = "var"      -> EvalVar(m, e.name)
      [] e.op = "hash"     -> EvalHash(m, e)
      [] e.op = "call"     -> EvalCall(m, e)
      [] e.op = "assign"   -> EvalAssign(m, e)
      [] e.op \in {"and", "or"} -> EvalLogic(m, e)
      [] e.op \in {"not", "pos", "neg", "pre_inc", "pre_dec", "post_inc", "post_dec"} ->
            EvalUnary(m, e)
      [] OTHER             -> EvalBinary(m, e)

-----------------------------------------------------------------------------
(* script_execute_list: up to a statement that does not end normally.       *)
ExecList(m, ops, k) ==
    IF k > Len(ops) THEN m
    ELSE LET w == Exec(Unref(m, m.out), ops[k])
         IN  IF w.reply = "normal" THEN ExecList(w, ops, k + 1) ELSE w

(* The rounds of a loop: m holds what the last round left, which the        *)
(* condition does not touch. A "continue" is what the loop leaves, if       *)
(* nothing follows the body.                                                *)
Loop(m, e, known) ==
    LET cond == Eval(m, e.subs[1])
        go   == known \/ AsBool(cond, cond.out)
        w    == IF known THEN m
                ELSE [Unref(cond, cond.out) EXCEPT !.out = m.out, !.reply = m.reply]
        body == Exec(Unref(w, w.out), e.subs[2])
        next == Exec(Unref(body, body.out), e.subs[3])
    IN  IF ~go THEN w
        ELSE CASE body.reply \in {"return", "fail"} -> body
               [] body.reply = "break" -> Normal(body)
               [] OTHER -> Loop(IF e.subs[3] = Hole THEN body ELSE next, e, FALSE)

(* script_execute                                                           *)
Exec(m, e) ==
    LET cond  == Eval(m, e.subs[1])
        taken == Exec(cond, e.subs[IF AsBool(cond, cond.out) THEN 2 ELSE 3])
    IN  CASE e.op = "hole"       -> Normal(m)
          [] e.op = "expression" -> [cond EXCEPT !.reply = "normal"]
          [] e.op = "block"      -> ExecList(Normal(m), e.subs, 1)
          [] e.op = "if"         -> Gives(Unref(taken, cond.out), taken.out)
          [] e.op \in {"while", "do", "for"} -> Loop(Normal(m), e, e.op = "do")
          [] e.op = "return"     -> Return(IF e.subs[1] = Hole THEN NewNull(m) ELSE cond)
          [] e.op = "fail"       -> Fail(m)
          [] e.op \in {"break", "continue"} -> [m EXCEPT !.reply = e.op, !.out = Nil]
=============================================================================
