------------------------------ MODULE Sprites -------------------------------
(***************************************************************************)
(* The pictures of the script splash plugin (script-lib-sprite.c,          *)
(* script-lib-image.c): sprites that a script moves about, and the refresh *)
(* that draws what changed on each of the displays.                        *)
(*                                                                         *)
(* A cell of the screen is a stack of painters: what was drawn over it     *)
(* since something that hides all below it.                                *)
(***************************************************************************)
EXTENDS ScriptObjects, Region

CONSTANTS Pictures,     \* the files: name -> [w, h, opaque]
          Displays      \* the pixel displays: name -> [w, h]

Native(name, params) ==
    Node("native", name, [k \in DOMAIN params |-> Node("var", params[k], <<>>)])

SpriteNatives == <<Native("_New", <<>>), Native("GetImage", <<>>),
                   Native("SetImage", <<"image">>), Native("GetX", <<>>),
                   Native("SetX", <<"value">>), Native("SetY", <<"value">>),
                   Native("SetZ", <<"value">>), Native("SetOpacity", <<"value">>)>>

WindowNatives == <<Native("GetWidth", <<"window">>),
                   Native("SetX", <<"window", "value">>)>>

ImageNatives == <<Native("_New", <<"filename">>)>>

-----------------------------------------------------------------------------
SpriteAt(m, id) == CHOOSE k \in DOMAIN m.sprites : m.sprites[k].id = id

(* The sprite that this is; Nil for none.                                   *)
ThisSprite(m) ==
    IF Is(m, m.this, "sprite") THEN m.obj[As(m, m.this, "sprite")].num ELSE Nil

(* script_obj_hash_get_number of a parameter.                               *)
Parameter(m, name) ==
    LET w == Get(m, m.local, name)
    IN  [Unref(w, w.out) EXCEPT !.num =
            IF Is(w, w.out, "number") THEN Number(w, w.out) ELSE 0]

SpriteNew(m) ==
    LET id  == CHOOSE k \in 1 .. Len(m.sprites) + 1 :
                   \A s \in DOMAIN m.sprites : m.sprites[s].id # k
        new == [id |-> id, x |-> 0, y |-> 0, z |-> 0, opacity |-> 1,
                picture |-> "none", image |-> Nil, refresh |-> FALSE,
                remove |-> FALSE, oldOpacity |-> 1, oldZ |-> 0,
                old |-> Rectangle(0, 0, 0, 0)]
    IN  New([m EXCEPT !.sprites = Append(@, new)],
            [Object("sprite") EXCEPT !.num = id])

SpriteGetImage(m) ==
    LET id == ThisSprite(m)
    IN  IF id # Nil /\ m.sprites[SpriteAt(m, id)].image # Nil
        THEN Ref(m, m.sprites[SpriteAt(m, id)].image)
        ELSE NewNull(m)

SpriteSetImage(m) ==
    LET got   == Get(m, m.local, "image")
        d     == Deref(got, got.out)
        w     == Unref(Ref(got, d), got.out)
        image == As(w, d, "image")
        id    == ThisSprite(m)
        k     == SpriteAt(w, id)
        held  == Ref(Unref(w, w.sprites[k].image), d)
        set   == [held EXCEPT !.sprites[k].image   = d,
                              !.sprites[k].picture = At(w, image).text,
                              !.sprites[k].refresh = TRUE]
    IN  NewNull(Unref(IF image # Nil /\ id # Nil THEN set ELSE w, d))

SpriteSet(m, attribute) ==
    LET id == ThisSprite(m)
        w  == Parameter(m, "value")
        k  == SpriteAt(w, id)
    IN  IF id = Nil THEN NewNull(m)
        ELSE NewNull(CASE attribute = "x" -> [w EXCEPT !.sprites[k].x = w.num]
                       [] attribute = "y" -> [w EXCEPT !.sprites[k].y = w.num]
                       [] attribute = "z" -> [w EXCEPT !.sprites[k].z = w.num]
                       [] attribute = "opacity" ->
                            [w EXCEPT !.sprites[k].opacity = w.num])

SpriteGetX(m) ==
    LET id == ThisSprite(m)
    IN  IF id = Nil THEN NewNull(m)
        ELSE NewNumber(m, m.sprites[SpriteAt(m, id)].x)

(* The parameter may be missing: then it is about all the displays.         *)
WindowGetWidth(m) ==
    LET got    == Peek(m, m.local, "window")
        w      == Unref(got, got.out)
        index  == Number(got, got.out) + 1
        width  == [k \in DOMAIN m.displays |-> Displays[m.displays[k].id].w]
        widest == FoldLeft(LAMBDA a, b : IF a > b THEN a ELSE b, 0, width)
    IN  IF got.out = Nil THEN NewNumber(w, widest)
        ELSE IF index \in DOMAIN width THEN NewNumber(w, width[index])
        ELSE NewNull(w)

WindowSetX(m) ==
    LET at == Parameter(m, "window")
        w  == Parameter(at, "value")
        k  == at.num + 1
    IN  NewNull(IF k \in DOMAIN m.displays /\ m.displays[k].x # w.num
                THEN [w EXCEPT !.displays[k].x = w.num, !.full = TRUE]
                ELSE w)

(* An image that is not there is NULL.                                      *)
ImageNew(m) ==
    LET got  == Get(m, m.local, "filename")
        w    == Unref(got, got.out)
        file == AsString(got, got.out)
    IN  IF file \in DOMAIN Pictures
        THEN New(w, [Object("image") EXCEPT !.text = file])
        ELSE NewNull(w)

-----------------------------------------------------------------------------
Size(s) == Pictures[s.picture]
AreaOf(s) == Rectangle(s.x, s.y, Size(s).w, Size(s).h)

ScreenOf(id) == Rectangle(0, 0, Displays[id].w, Displays[id].h)
AreaShown(d) == Rectangle(d.x, d.y, Displays[d.id].w, Displays[d.id].h)

DisplayNamed(m, id) == m.displays[CHOOSE k \in DOMAIN m.displays : m.displays[k].id = id]
Ids(m) == {m.displays[k].id : k \in DOMAIN m.displays}

(* Where the sprites have what is a cell of the display.                    *)
Shifted(d, cell) == <<cell[1] + d.x, cell[2] + d.y>>

IsVisible(s) == s.picture # "none" /\ ~s.remove /\ s.opacity # 0
Hides(s)     == s.opacity = 1 /\ Size(s).opaque

(* What the sprites that cover a place make of it, the first one first.     *)
Painted(m, stack, place) ==
    LET Paint(below, s) == IF Hides(s) THEN <<s.picture>> ELSE Append(below, s.picture)
        Covers(s) == IsVisible(s) /\ place \in Cells(AreaOf(s))
    IN  FoldLeft(Paint, stack, SelectSeq(m.sprites, Covers))

(* All of the picture, as the sprites are now.                              *)
FullPicture(m) ==
    [id \in Ids(m) |-> [cell \in Cells(ScreenOf(id)) |->
        IF m.shown THEN <<"console">>
        ELSE Painted(m, <<"background">>, Shifted(DisplayNamed(m, id), cell))]]

(* script_lib_sprite_draw_area, for a cell of the rectangle r. Without a    *)
(* sprite nothing is drawn; under a first sprite that covers r there is no  *)
(* background.                                                              *)
DrawCell(m, r, place, before) ==
    LET first   == m.sprites[1]
        covered == IsVisible(first) /\ Hides(first)
                   /\ Cells(r) \subseteq Cells(AreaOf(first))
    IN  CASE m.shown -> <<"console">>
          [] ~m.shown /\ m.sprites = <<>> -> before
          [] ~m.shown /\ m.sprites # <<>> ->
                Painted(m, IF covered THEN before ELSE <<"background">>, place)

(* draw_area: one rectangle, on every display it meets.                     *)
DrawArea(m, r) ==
    LET Place(id, cell) == Shifted(DisplayNamed(m, id), cell)
        area == {<<id, cell>> \in UNION {{id} \X Cells(ScreenOf(id)) : id \in Ids(m)} :
                    Place(id, cell) \in Cells(r)}
    IN  [m EXCEPT
            !.screen = [id \in DOMAIN @ |-> [cell \in DOMAIN @[id] |->
                IF <<id, cell>> \in area
                THEN DrawCell(m, r, Place(id, cell), @[id][cell]) ELSE @[id][cell]]],
            !.missed = IF ~m.shown /\ m.sprites = <<>> THEN @ \cup area ELSE @ \ area]

(* update_displays: the displays are centred on each other.                 *)
UpdateDisplays(m) ==
    LET Most(a, b) == IF a > b THEN a ELSE b
        w == FoldLeft(LAMBDA a, d : Most(a, Displays[d.id].w), 0, m.displays)
        h == FoldLeft(LAMBDA a, d : Most(a, Displays[d.id].h), 0, m.displays)
        Centred(d) == [d EXCEPT !.x = (w - Displays[d.id].w) \div 2,
                                !.y = (h - Displays[d.id].h) \div 2]
    IN  [m EXCEPT !.full = TRUE, !.displays = [k \in DOMAIN @ |-> Centred(@[k])]]

(* add_display. What was on the screen before is somebody else's.           *)
AddDisplay(m, id) ==
    UpdateDisplays([m EXCEPT
        !.displays = Append(@, [id |-> id, x |-> 0, y |-> 0]),
        !.screen   = (id :> [cell \in Cells(ScreenOf(id)) |-> <<"other">>]) @@ @])

RemoveDisplay(m, id) ==
    UpdateDisplays([m EXCEPT
        !.displays = SelectSeq(@, LAMBDA d : d.id # id),
        !.screen   = Restrict(@, DOMAIN @ \ {id}),
        !.wanted   = Restrict(@, DOMAIN @ \ {id}),
        !.missed   = {c \in @ : c[1] # id}])

-----------------------------------------------------------------------------
(* ply_list_sort_stable, by z.                                              *)
InOrder(sprites) ==
    LET Place(sorted, s) ==
            LET before == SelectSeq(sorted, LAMBDA t : t.z <= s.z)
            IN  before \o <<s>> \o SelectSeq(sorted, LAMBDA t : t.z > s.z)
    IN  FoldLeft(Place, <<>>, sprites)

Changed(s) ==
    /\ s.picture # "none"
    /\ \/ s.x # s.old.x \/ s.y # s.old.y \/ s.z # s.oldZ
       \/ s.opacity # s.oldOpacity \/ s.refresh

Drawn(s) == [s EXCEPT !.old = AreaOf(s), !.oldZ = s.z, !.oldOpacity = s.opacity,
                      !.refresh = FALSE]

Removed(m) == SelectSeq(m.sprites, LAMBDA s : s.remove)

(* The sprites that are gone: their images go with them.                    *)
DropRemoved(m) ==
    LET images == [k \in DOMAIN Removed(m) |-> Removed(m)[k].image]
    IN  FoldLeft(Unref, [m EXCEPT !.sprites = SelectSeq(@, LAMBDA s : ~s.remove)], images)

(* A bug: where a sprite was is drawn only when it is gone.                 *)
DamageOfNew(m) ==
    LET gone  == SelectSeq(Removed(m), LAMBDA s : s.picture # "none")
        kept  == IF m.shown THEN <<>>
                 ELSE SelectSeq(m.sprites, LAMBDA s : ~s.remove /\ Changed(s))
    IN  (IF m.full THEN [k \in DOMAIN m.displays |-> AreaShown(m.displays[k])] ELSE <<>>)
        \o [k \in DOMAIN gone |-> gone[k].old]
        \o [k \in DOMAIN kept |-> AreaOf(kept[k])]

(* What a refresh has to draw, in the order in which it says so.            *)
Damage(m) ==
    LET gone  == SelectSeq(Removed(m), LAMBDA s : s.picture # "none")
        kept  == IF m.shown THEN <<>>
                 ELSE SelectSeq(m.sprites, LAMBDA s : ~s.remove /\ Changed(s))
    IN  (IF m.full THEN [k \in DOMAIN m.displays |-> AreaShown(m.displays[k])] ELSE <<>>)
        \o [k \in DOMAIN gone |-> gone[k].old]
        \o FlattenSeq([k \in DOMAIN kept |-> <<AreaOf(kept[k]), kept[k].old>>])

(* script_lib_sprite_refresh. What it should have drawn is kept in wanted,  *)
(* what it did not draw for want of a sprite in missed.                     *)
Refresh(m) ==
    LET sorted == [m EXCEPT !.sprites = InOrder(@)]
        areas  == FoldLeft(AddRectangle, <<>>, Damage(sorted))
        left   == DropRemoved([sorted EXCEPT !.full = FALSE])
        ready  == [left EXCEPT !.sprites =
                      IF m.shown THEN @
                      ELSE [k \in DOMAIN @ |-> IF Changed(@[k]) THEN Drawn(@[k]) ELSE @[k]]]
        drawn  == FoldLeft(DrawArea, ready, areas)
    IN  IF ~m.needs THEN m
        ELSE [drawn EXCEPT !.needs = FALSE, !.wanted = FullPicture(drawn)]
=============================================================================
