------------------------------- MODULE Script -------------------------------
(***************************************************************************)
(* The script splash plugin (plugins/splash/script/plugin.c): it parses    *)
(* and runs the script of a theme, calls what the script gave it when      *)
(* something happens, and has the sprites drawn at every tick.             *)
(*                                                                         *)
(* Beside it, as long as no splash is shown, its two algorithms on their   *)
(* own: the parser of expressions, and the region of what is to be drawn.  *)
(***************************************************************************)
EXTENDS ScriptMachine, ScriptGrammar

CONSTANTS
    Alphabet,       \* the words that are typed for the parser
    MaxTyped,       \* bound: how many
    MaxAreas,       \* bound: how many
    Programs,       \* the scripts of the themes, as words
    Environment,    \* the variables of the theme's file: name and text
    FirstDisplay,   \* the display that is there from the start
    Arguments,      \* what a callback is called with: literals
    Redrawing,      \* the callbacks after which the displays are updated
    MaxSteps,       \* bound on what happens while a splash is shown
    Handlers        \* HandlersOfPlugin, below. As a constant it is a value
                    \* of TLC's; as a definition, its coverage would follow
                    \* each path through the recursive operators.

VARIABLES
    phase,      \* "idle", "shown" or "hidden"
    machine,
    typed,      \* the words that were typed
    steps

vars == <<phase, machine, typed, region, owed, steps>>

-----------------------------------------------------------------------------
SpriteLibrary == <<
    "Sprite", ".", "SetPosition", "=", "fun", "(", "x", ",", "y", ",", "z", ")", "{",
        "this", ".", "SetX", "(", "x", ")", ";",
        "this", ".", "SetY", "(", "y", ")", ";",
        "this", ".", "SetZ", "(", "z", ")", ";", "}", ";",
    "Sprite", " ", "|", "=", "fun", "(", "image", ")", "{",
        "new_sprite", "=", "Sprite", ".", "_New", "(", ")", "|", "[", "]", "|",
            "Sprite", ";",
        "if", "(", "image", ")", "new_sprite", ".", "SetImage", "(", "image", ")", ";",
        "return", "new_sprite", ";", "}", ";">>

ImageLibrary == <<
    "Image", ".", "Adopt", "=", "fun", "(", "raw_image", ")", "{",
        "if", "(", "raw_image", ")", "return", "raw_image", "|", "[", "]", "|",
            "Image", ";",
        "else", "return", "NULL", ";", "}", ";",
    "Image", " ", "|", "=", "fun", "(", "filename", ")", "{",
        "return", "Image", ".", "Adopt", "(", "Image", ".", "_New", "(", "filename",
            ")", ")", ";", "}", ";">>

StringLibrary == <<
    "String", " ", "|", "=", "fun", "(", "text", ")", "{",
        "return", "text", "|", "global", ".", "String", ";", "}", ";">>

StringNatives == <<Native("SubString", <<"start", "end">>), Native("Length", <<>>)>>

PlymouthNatives ==
    LET names == SetToSeq({SetterOf(c) : c \in Callbacks})
    IN  [k \in DOMAIN names |-> Native(names[k], <<"function">>)]

-----------------------------------------------------------------------------
(* script_state_new: the global hash is also the local one.                 *)
StateNew(w) ==
    LET hash   == NewHash(w)
        global == NewRef(hash, hash.out)
        local  == NewRef(Unref(global, hash.out), hash.out)
        this   == NewNull(local)
    IN  [this EXCEPT !.global = global.out, !.local = local.out, !.this = this.out]

(* script_add_native_function, for all of a library.                        *)
AddNatives(w, library, natives) ==
    LET hash == Get(w, w.global, library)
        Given(native) == [native EXCEPT !.name = library \o "." \o @]
        Give(x, native) ==
            LET Put(new) == Unref(Add(new, hash.out, new.out, native.name), new.out)
            IN  Then(NewFunction(x, Given(native)), Put)
    IN  Unref(FoldLeft(Give, hash, natives), hash.out)

(* The reply of a source that is run is thrown away.                        *)
Executed(w, source) ==
    LET Drop(ran) == Unref(ran, ran.out)
    IN  Then(Exec(w, Parse(source)), Drop)

NewCallbacks(w) ==
    LET Make(x, c) == LET new == NewNull(x)
                      IN  [new EXCEPT !.callbacks = (c :> new.out) @@ @]
    IN  FoldLeft(Make, w, SetToSeq(Callbacks))

NoMachine == [
    obj |-> <<>>, out |-> Nil, num |-> 0, args |-> <<>>, reply |-> "normal",
    faults |-> {}, images |-> TRUE, global |-> Nil, local |-> Nil, this |-> Nil,
    sprites |-> <<>>, displays |-> <<>>, screen |-> <<>>, missed |-> {},
    wanted |-> <<>>, full |-> FALSE, needs |-> FALSE, shown |-> FALSE,
    callbacks |-> <<>>]

(* Nothing is being evaluated.                                              *)
AtRest(w) == [w EXCEPT !.out = Nil, !.num = 0, !.args = <<>>, !.reply = "normal"]

(* script_execute_object: a callback, with its arguments.                   *)
Invoke(w, callback) ==
    LET given == EvalAll(w, Arguments[callback], <<>>)
        ran   == Call(given, given.callbacks[callback], Nil, given.args)
    IN  UnrefAll(Unref(ran, ran.out), given.args)

(* on_timeout: the refresh callback, and then what it changed is drawn.     *)
OnTimeout(w) ==
    LET Draw(x) == Refresh([x EXCEPT !.needs = TRUE])
    IN  Then(Invoke(w, "Refresh"), Draw)

(* A variable of the theme. Neither reference is given back.                *)
Export(w, variable) ==
    LET target == Get(w, w.global, variable.name)
        value  == NewString(target, variable.text)
    IN  [Assign(value, target.out, value.out) EXCEPT
            !.obj[target.out].leak = @ + 1, !.obj[value.out].leak = @ + 1]

(* start_script_animation: the variables, the libraries, the script and the *)
(* first tick.                                                              *)
StartAnimation(program) ==
    LET state     == FoldLeft(Export, StateNew(NoMachine), Environment)
        Images(w)  == Executed(AddNatives(w, "Image", ImageNatives), ImageLibrary)
        Display(w) == AddDisplay(w, FirstDisplay)
        Sprites(w) == [AddNatives(w, "Sprite", SpriteNatives) EXCEPT !.full = TRUE,
                                                                    !.needs = TRUE]
        Windows(w) == Executed(AddNatives(w, "Window", WindowNatives), SpriteLibrary)
        Plymouth(w) == AddNatives(NewCallbacks(w), "Plymouth", PlymouthNatives)
        Texts(w) == Executed(AddNatives(w, "String", StringNatives), StringLibrary)
        Main(w)    == Executed(w, program)
    IN  Then(Then(Then(Then(Then(Then(Then(Then(state, Images), Display),
            Sprites), Windows), Plymouth), Texts), Main), OnTimeout)

(* script_lib_sprite_destroy, for the first sprite.                         *)
DestroySprite(w) == [Unref(w, Head(w.sprites).image) EXCEPT !.sprites = Tail(@)]

(* stop_script_animation: the state goes, then the sprites one by one, the  *)
(* image library and at last the callbacks, whose natives are freed after   *)
(* the libraries that made them.                                            *)
StopAnimation(w) ==
    LET quit    == Refresh(Invoke(w, "Quit"))
        state   == UnrefAll(quit, <<quit.global, quit.local, quit.this>>)
        sprites == FoldLeft(LAMBDA v, s : DestroySprite(v), state, state.sprites)
        gone    == [sprites EXCEPT !.images = FALSE]
        held    == [k \in 1 .. Cardinality(Callbacks) |->
                        gone.callbacks[SetToSeq(Callbacks)[k]]]
    IN  [UnrefAll(gone, held) EXCEPT
            !.global = Nil, !.local = Nil, !.this = Nil,
            !.callbacks = <<>>, !.displays = <<>>, !.screen = <<>>, !.missed = {},
            !.wanted = <<>>]

(* display_message, display_password, ... update the displays after the     *)
(* callback; what they draw waits for the next tick. on_keyboard_input,     *)
(* on_boot_progress, ... only call.                                         *)
Notified(m, callback) ==
    LET w == Invoke(m, callback)
    IN  IF callback \in Redrawing THEN Refresh(UpdateDisplays(w)) ELSE w

(* validate_input: the script is asked, if it said whom to ask, and its     *)
(* answer is read; then the escape key shows the console, or the sprites    *)
(* again.                                                                   *)
Escaped(m) ==
    LET w == IF Is(m, m.callbacks["ValidateInput"], "null") THEN m
             ELSE Invoke(m, "ValidateInput")
    IN  IF w.reply = "fail" THEN Faulty(w, "missing")
        ELSE Refresh([w EXCEPT !.shown = ~@, !.full = TRUE, !.needs = TRUE])

(* add_pixel_display, remove_pixel_display                                  *)
Plugged(m, id)   == Invoke(AddDisplay(m, id), "DisplayHotplug")
Unplugged(m, id) == Invoke(RemoveDisplay(m, id), "DisplayHotplug")

(* The value of the constant Handlers, in every configuration.              *)
HandlersOfPlugin ==
    LET Of(Handler(_))       == [m \in Any |-> Handler(m)]
        OfEach(S, Handler(_, _)) == [x \in S, m \in Any |-> Handler(m, x)]
    IN  [show      |-> [program \in Programs |-> StartAnimation(program)],
         tick      |-> Of(OnTimeout),
         notify    |-> OfEach(Callbacks, Notified),
         escape    |-> Of(Escaped),
         plugged   |-> OfEach(DOMAIN Displays, Plugged),
         unplugged |-> OfEach(DOMAIN Displays, Unplugged),
         hide      |-> Of(StopAnimation),
         parse     |-> Of(Parse)]

-----------------------------------------------------------------------------
Init ==
    /\ phase = "idle"
    /\ machine = NoMachine
    /\ typed = <<>>
    /\ RegionInit
    /\ steps = 0

(* A word is typed for the parser.                                          *)
TypeWord(word) ==
    /\ phase = "idle" /\ steps = 0 /\ Len(typed) < MaxTyped
    /\ typed' = Append(typed, word)
    /\ UNCHANGED <<phase, machine, region, owed, steps>>

(* ply_region_add_rectangle, on its own.                                    *)
AddArea(r) ==
    /\ phase = "idle" /\ typed = <<>> /\ steps < MaxAreas
    /\ AddTo(r)
    /\ steps' = steps + 1
    /\ UNCHANGED <<phase, machine, typed>>

(* show_splash_screen                                                       *)
ShowSplash(program) ==
    /\ phase = "idle" /\ typed = <<>> /\ steps = 0
    /\ phase' = "shown"
    /\ machine' = AtRest(Handlers.show[program])
    /\ UNCHANGED <<typed, region, owed, steps>>

(* What a handler of the plugin makes of the machine. After a fault it may  *)
(* make anything: that is not followed.                                     *)
Handle(w) ==
    /\ phase = "shown" /\ steps < MaxSteps /\ machine.faults = {}
    /\ machine' = AtRest(w)
    /\ steps' = steps + 1
    /\ UNCHANGED <<phase, typed, region, owed>>

Tick             == Handle(Handlers.tick[machine])
Notify(callback) == Handle(Handlers.notify[callback, machine])
Escape           == Handle(Handlers.escape[machine])

AddPixelDisplay(id) ==
    /\ id \notin Ids(machine)
    /\ Handle(Handlers.plugged[id, machine])

RemovePixelDisplay(id) ==
    /\ id \in Ids(machine)
    /\ Handle(Handlers.unplugged[id, machine])

HideSplash ==
    /\ phase = "shown" /\ machine.faults = {}
    /\ phase' = "hidden"
    /\ machine' = AtRest(Handlers.hide[machine])
    /\ UNCHANGED <<typed, region, owed, steps>>

Next ==
    \/ \E word \in Alphabet : TypeWord(word)
    \/ \E r \in Areas : AddArea(r)
    \/ \E program \in Programs : ShowSplash(program)
    \/ Tick
    \/ \E callback \in Callbacks \ {"Refresh", "Quit", "DisplayHotplug"} : Notify(callback)
    \/ Escape
    \/ \E id \in DOMAIN Displays : AddPixelDisplay(id)
    \/ \E id \in DOMAIN Displays : RemovePixelDisplay(id)
    \/ HideSplash

Spec == Init /\ [][Next]_vars

-----------------------------------------------------------------------------
(* How often something refers to an object: the elements and the values of  *)
(* objects, the hashes of the interpreter, the callbacks, the sprites.      *)
ReferencesTo(i) ==
    LET Times(f) == Cardinality({k \in DOMAIN f : f[k] = i})
    IN  MapThenSumSet(LAMBDA k : Times(machine.obj[k].subs), DOMAIN machine.obj)
        + Times(<<machine.global, machine.local, machine.this>>)
        + Times(machine.callbacks)
        + Times([k \in DOMAIN machine.sprites |-> machine.sprites[k].image])

Held ==
    UNION {Range(machine.obj[k].subs) : k \in DOMAIN machine.obj}
    \cup {machine.global, machine.local, machine.this} \cup Range(machine.callbacks)
    \cup {machine.sprites[k].image : k \in DOMAIN machine.sprites}


(* What a refresh leaves on the screen is the picture of the sprites: what  *)
(* moved, changed, came or went was drawn, and nothing else had to be. Only *)
(* the last sprite's place stays as it was: without a sprite the plugin     *)
(* draws nothing (script_lib_sprite_refresh, script_lib_sprite_draw_area).  *)
ScreenIsTheSprites ==
    \A id \in DOMAIN machine.wanted : \A cell \in Cells(ScreenOf(id)) :
        \/ <<id, cell>> \in machine.missed
        \/ machine.screen[id][cell] = machine.wanted[id][cell]

(* The parser accepts the expressions of the grammar, and gives the tree    *)
(* that the precedence of the operators says (script_parse_exp). It also    *)
(* accepts operators without an operand, which are left out here.           *)
ParsesByPrecedence ==
    LET tree == Handlers.parse[typed \o <<";">>]
        expression == tree.subs[1].subs[1]
    IN  IF tree = Hole \/ tree.subs = <<>> THEN ~IsExpression(typed)
        ELSE \/ HasHole(expression)
             \/ IsExpression(typed) /\ expression = TreeOf(typed)
=============================================================================
