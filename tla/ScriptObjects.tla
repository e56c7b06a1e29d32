--------------------------- MODULE ScriptObjects ----------------------------
(***************************************************************************)
(* The values of the script splash plugin (script-object.c): objects that  *)
(* count their references and are freed with the last one. A variable is   *)
(* an object that refers to the value; an EXTEND object is two values at   *)
(* once, and is looked into from left to right.                            *)
(*                                                                         *)
(* A machine is a record; each operator here takes one and gives the next  *)
(* one, with the object it returns as m.out (Nil for none). The caller     *)
(* owns a reference to m.out.                                              *)
(***************************************************************************)
EXTENDS ScriptParser, FiniteSets

Nil == 0

(* F of what w is: the steps of a long computation are taken one by one.    *)
Then(w, F(_)) == CHOOSE v \in {F(u) : u \in {w}} : TRUE

(* An object with one reference, its caller's. What it refers to is in      *)
(* subs: the target, the two values, or the elements that keys name. "leak" *)
(* counts the references that nobody gives back, "asked" the calls that     *)
(* are looking into the object.                                             *)
Object(type) == [type |-> type, num |-> 0, text |-> "", fun |-> Hole,
                 keys |-> <<>>, subs |-> <<>>, n |-> 1, leak |-> 0, asked |-> 0]

Live(m, i) == i \in DOMAIN m.obj
At(m, i)   == IF Live(m, i) THEN m.obj[i] ELSE [Object("freed") EXCEPT !.n = 0]

New(m, o) ==
    LET i == CHOOSE k \in 1 .. Cardinality(DOMAIN m.obj) + 1 : ~Live(m, k)
    IN  [m EXCEPT !.obj = (i :> o) @@ @, !.out = i]

NewNull(m)         == New(m, Object("null"))
NewHash(m)         == New(m, Object("hash"))
NewNumber(m, num)  == New(m, [Object("number") EXCEPT !.num = num])
NewString(m, text) == New(m, [Object("string") EXCEPT !.text = text])
NewFunction(m, f)  == New(m, [Object("function") EXCEPT !.fun = f])

Gives(m, i) == [m EXCEPT !.out = i]

(* What is not there was used, in one of these ways: "freed", an object;    *)
(* "callee", an object that its own function freed; "native", a sprite, or  *)
(* the class of a native; "missing", the result of a call that failed. What *)
(* the program does from there is undefined.                                *)
Faulty(m, fault) == [m EXCEPT !.faults = @ \cup {fault}]

Ref(m, i) == Gives(IF Live(m, i) THEN [m EXCEPT !.obj[i].n = @ + 1] ELSE Faulty(m, "freed"), i)

(* sprite_free: the next refresh drops the sprite.                          *)
SpriteFree(m, id) ==
    IF \A k \in DOMAIN m.sprites : m.sprites[k].id # id THEN Faulty(m, "native")
    ELSE [m EXCEPT !.sprites = [k \in DOMAIN @ |->
             IF @[k].id = id THEN [@[k] EXCEPT !.remove = TRUE] ELSE @[k]]]

(* image_free. m.images: the class of the images is there.                  *)
ImageFree(m) == IF m.images THEN m ELSE Faulty(m, "native")

RECURSIVE Unref(_, _), Reset(_, _)
Unref(m, i) ==
    CASE i = Nil                     -> m
      [] i # Nil /\ At(m, i).n = 0   -> Faulty(m, "freed")
      [] i # Nil /\ At(m, i).n > 1   -> [m EXCEPT !.obj[i].n = @ - 1]
      [] i # Nil /\ At(m, i).n = 1   ->
            LET w == Reset([m EXCEPT !.obj[i].n = 0], i)
            IN  [w EXCEPT !.obj = Restrict(@, DOMAIN @ \ {i})]

Reset(m, i) ==
    LET w == FoldLeft(Unref, m, m.obj[i].subs)
        s == CASE m.obj[i].type = "sprite" -> SpriteFree(w, m.obj[i].num)
               [] m.obj[i].type = "image"  -> ImageFree(w)
               [] OTHER                    -> w
    IN  [s EXCEPT !.obj[i] = [Object("null") EXCEPT !.n = s.obj[i].n,
                                                    !.leak = s.obj[i].leak,
                                                    !.asked = s.obj[i].asked]]

RECURSIVE Deref(_, _), Parts(_, _)
Deref(m, i) == IF At(m, i).type = "ref" THEN Deref(m, m.obj[i].subs[1]) ELSE i

(* script_obj_as_custom, if nothing that is asked changes the object: the   *)
(* values that it is, in the order in which they are asked.                 *)
Parts(m, i) ==
    LET d == Deref(m, i)
    IN  IF At(m, d).type = "extend"
        THEN Parts(m, m.obj[d].subs[1]) \o Parts(m, m.obj[d].subs[2])
        ELSE <<d>>

(* script_obj_as_obj_type, script_obj_is_...: the first part of a type.     *)
As(m, i, type) ==
    LET these == SelectSeq(Parts(m, i), LAMBDA p : At(m, p).type = type)
    IN  IF these = <<>> THEN Nil ELSE these[1]

Is(m, i, type) == As(m, i, type) # Nil

Number(m, i) == m.obj[As(m, i, "number")].num

AsBool(m, i) ==
    LET True(o) == \/ o.type \in {"hash", "function", "sprite", "image"}
                   \/ o.type = "number" /\ o.num # 0
                   \/ o.type = "string" /\ o.text # ""
    IN  \E k \in DOMAIN Parts(m, i) : True(At(m, Parts(m, i)[k]))

AsString(m, i) ==
    CASE Is(m, i, "string") -> m.obj[As(m, i, "string")].text
      [] ~Is(m, i, "string") /\ Is(m, i, "number") -> ToString(Number(m, i))
      [] ~Is(m, i, "string") /\ ~Is(m, i, "number") ->
            IF Is(m, i, "null") THEN "#NULL" ELSE "#object"

NewRef(m, i) ==
    LET d == Deref(m, i)
    IN  New(Ref(m, d), [Object("ref") EXCEPT !.subs = <<d>>])

NewExtend(m, a, b) ==
    LET x == Deref(m, a)
        y == Deref(m, b)
    IN  New(Ref(Ref(m, x), y), [Object("extend") EXCEPT !.subs = <<x, y>>])

(* script_obj_assign: a becomes a reference to the value of b.              *)
Assign(m, a, b) ==
    LET d == Deref(m, b)
        w == Reset(Ref(m, d), a)
    IN  [w EXCEPT !.obj[a].type = "ref", !.obj[a].subs = <<d>>]

Element(o, name) ==
    LET at == SelectSeq([k \in DOMAIN o.keys |-> k], LAMBDA k : o.keys[k] = name)
    IN  IF o.type # "hash" \/ at = <<>> THEN Nil ELSE o.subs[at[1]]

(* script_obj_hash_peek_element: Nil if no part has the element.            *)
Peek(m, hash, name) ==
    LET found == SelectSeq(Parts(m, hash), LAMBDA p : Element(At(m, p), name) # Nil)
    IN  IF found = <<>> THEN Gives(m, Nil)
        ELSE Ref(m, Element(m.obj[found[1]], name))

(* script_obj_hash_get_element: makes the element, and the hash. The        *)
(* reference to a hash that is made here is never given back.               *)
Get(m, hash, name) ==
    LET peek  == Peek(m, hash, name)
        made  == NewHash(m)
        given == Assign([made EXCEPT !.obj[made.out].leak = 1], hash, made.out)
        w     == IF Is(m, hash, "hash") THEN m ELSE given
        real  == As(w, hash, "hash")
        new   == NewNull(w)
    IN  IF peek.out # Nil THEN peek
        ELSE [new EXCEPT !.obj[real].keys     = Append(@, name),
                         !.obj[real].subs     = Append(@, new.out),
                         !.obj[new.out].n     = 2]

(* script_obj_hash_add_element                                              *)
Add(m, hash, element, name) ==
    LET Put(w) == Unref(Assign(w, w.out, element), w.out)
    IN  Then(Get(m, hash, name), Put)

-----------------------------------------------------------------------------
(* script_obj_plus .. script_obj_mod. Numbers are integers here; a program  *)
(* divides what can be divided.                                             *)
Arithmetic(op, a, b) ==
    CASE op = "plus"  -> a + b
      [] op = "minus" -> a - b
      [] op = "mul"   -> a * b
      [] op = "div"   -> a \div b
      [] op = "mod"   -> a % b

(* script_obj_cmp. The order of texts is left out: different ones are only  *)
(* different.                                                               *)
Compare(m, a, b) ==
    LET Both(type) == Is(m, a, type) /\ Is(m, b, type)
        Sign(d) == IF d < 0 THEN "lt" ELSE IF d > 0 THEN "gt" ELSE "eq"
        Same(same) == IF same THEN "eq" ELSE "ne"
    IN  CASE Both("null") -> "eq"
          [] ~Both("null") /\ Is(m, a, "number") ->
                IF Is(m, b, "number") THEN Sign(Number(m, a) - Number(m, b)) ELSE "ne"
          [] ~Both("null") /\ ~Is(m, a, "number") /\ Is(m, a, "string") ->
                Same(Is(m, b, "string") /\ AsString(m, a) = AsString(m, b))
          [] OTHER -> Same(Deref(m, a) = Deref(m, b))

Conditions == "eq" :> {"eq"} @@ "ne" :> {"ne", "lt", "gt"} @@ "gt" :> {"gt"} @@
              "ge" :> {"gt", "eq"} @@ "lt" :> {"lt"} @@ "le" :> {"lt", "eq"}

(* What an operator makes of two objects.                                   *)
Apply(m, op, a, b) ==
    CASE op = "extend" -> NewExtend(m, a, b)
      [] op \in DOMAIN Conditions ->
            NewNumber(m, IF Compare(m, a, b) \in Conditions[op] THEN 1 ELSE 0)
      [] op \in {"plus", "minus", "mul", "div", "mod"} ->
            IF Is(m, a, "number") /\ Is(m, b, "number")
            THEN NewNumber(m, Arithmetic(op, Number(m, a), Number(m, b)))
            ELSE IF op = "plus" /\ (Is(m, a, "string") \/ Is(m, b, "string"))
            THEN NewString(m, AsString(m, a) \o AsString(m, b))
            ELSE NewNull(m)
=============================================================================
