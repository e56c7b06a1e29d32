------------------------------- MODULE Region -------------------------------
(***************************************************************************)
(* libply/ply-rectangle.c and ply-region.c: the set of pixels that has to  *)
(* be drawn, kept as a list of rectangles that do not overlap. A rectangle *)
(* is cut against each one of the list, and its pieces are merged on their *)
(* own with the rest of the list.                                          *)
(***************************************************************************)
EXTENDS Integers, Sequences

Rectangle(x, y, w, h) == [x |-> x, y |-> y, w |-> w, h |-> h]

Right(r)  == r.x + r.w      \* the first pixel outside
Bottom(r) == r.y + r.h

IsEmpty(r) == r.w = 0 \/ r.h = 0

Cells(r) == (r.x .. Right(r) - 1) \X (r.y .. Bottom(r) - 1)

Rectangles == [x : Int, y : Int, w : Nat, h : Nat]

(* The lists of rectangles that do not overlap, and what they cover.        *)
Disjoint(list) ==
    \A j, k \in DOMAIN list : j # k => Cells(list[j]) \cap Cells(list[k]) = {}

Lists == {list \in Seq(Rectangles) : Disjoint(list)}

Pixels(list) == UNION {Cells(list[k]) : k \in DOMAIN list}

-----------------------------------------------------------------------------
(* How the second interval meets the first one: it reaches over its start,  *)
(* its end or both, lies inside, or is the same.                            *)
Collision(from1, to1, from2, to2) ==
    LET start == from2 < from1 /\ to2 > from1
        end   == from2 < to1 /\ to2 >= to1
    IN  IF from2 >= from1 /\ to2 <= to1
        THEN IF from2 = from1 /\ to2 = to1 THEN "exact" ELSE "contained"
        ELSE IF start THEN IF end THEN "both" ELSE "start"
        ELSE IF end THEN "end" ELSE "none"

(* ply_rectangle_find_overlap: the edges of the old rectangle that the new  *)
(* one covers, by axis.                                                     *)
FindOverlap(old, new) ==
    LET h == Collision(old.x, Right(old), new.x, Right(new))
        v == Collision(old.y, Bottom(old), new.y, Bottom(new))
    IN  IF h = "none" \/ v = "none" THEN <<"none", "none">> ELSE <<h, v>>

NoEdges  == {"contained", "exact"} \X {"contained", "exact"}
AllEdges == ({"both"} \X {"both", "exact"}) \cup ({"exact"} \X {"both"})
Exact    == ({"exact"} \X {"start", "end"}) \cup ({"start", "end"} \X {"exact"})

(* The parts of b that lie beyond a on one side.                            *)
LeftOf(a, b)  == Rectangle(b.x, b.y, a.x - b.x, b.h)
RightOf(a, b) == Rectangle(Right(a), b.y, Right(b) - Right(a), b.h)
Above(a, b)   == Rectangle(b.x, b.y, b.w, a.y - b.y)
Below(a, b)   == Rectangle(b.x, Bottom(a), b.w, Bottom(b) - Bottom(a))

(* The piece of new that is merged on its own; an empty one if there is     *)
(* none.                                                                    *)
Piece(old, new, edges) ==
    LET lower == Rectangle(new.x, old.y, new.w, Bottom(new) - old.y)
        upper == Rectangle(new.x, new.y, new.w, Bottom(old) - new.y)
    IN  CASE edges = <<"start", "start">>    -> LeftOf(old, lower)
          [] edges = <<"end", "start">>      -> RightOf(old, lower)
          [] edges = <<"start", "end">>      -> LeftOf(old, upper)
          [] edges = <<"end", "end">>        -> RightOf(old, upper)
          [] edges = <<"contained", "both">> -> Below(old, new)
          [] edges = <<"both", "contained">> -> RightOf(old, new)
          [] OTHER                           -> Rectangle(0, 0, 0, 0)

(* What is left of new for the rest of the list.                            *)
Remainder(old, new, edges) ==
    CASE edges[2] = "start" /\ edges[1] # "both" -> Above(old, new)
      [] edges[2] = "end" /\ edges[1] # "both"   -> Below(old, new)
      [] edges = <<"contained", "both">>         -> Above(old, new)
      [] edges = <<"start", "contained">>        -> LeftOf(old, new)
      [] edges = <<"both", "contained">>         -> LeftOf(old, new)
      [] edges = <<"end", "contained">>          -> RightOf(old, new)
      [] OTHER                                   -> new

(* What is left of old, which the new rectangle cuts along a whole side.    *)
Trimmed(old, new, edges) ==
    CASE edges = <<"both", "start">> -> Below(new, old)
      [] edges = <<"both", "end">>   -> Above(new, old)
      [] edges = <<"start", "both">> -> RightOf(new, old)
      [] edges = <<"end", "both">>   -> LeftOf(new, old)
      [] OTHER                       -> old

(* Old, extended over the new rectangle that continues it.                  *)
Extended(old, new, edges) ==
    CASE edges = <<"exact", "start">> -> Rectangle(old.x, new.y, old.w, Bottom(old) - new.y)
      [] edges = <<"exact", "end">>   -> Rectangle(old.x, old.y, old.w, Bottom(new) - old.y)
      [] edges = <<"start", "exact">> -> Rectangle(new.x, old.y, Right(old) - new.x, old.h)
      [] OTHER                        -> Rectangle(old.x, old.y, Right(new) - old.x, old.h)

(* The body of merge_rectangle_with_sub_list, which merge stands for, on a  *)
(* node and what follows it: the recursive calls change only the latter. An *)
(* extended rectangle is merged with the rest too, which it may overlap     *)
(* now. A rectangle that was trimmed to nothing stays until the next walk   *)
(* passes it.                                                               *)
MergeBy(merge, list, new) ==
    IF IsEmpty(new) THEN list
    ELSE IF list = <<>> THEN <<new>>
    ELSE LET old   == Head(list)
             rest  == Tail(list)
             edges == IF IsEmpty(old) THEN <<"both", "both">>
                      ELSE FindOverlap(old, new)
         IN  CASE edges \in NoEdges  -> list
               [] edges \in AllEdges -> merge[<<rest, new>>]
               [] edges \in Exact    -> merge[<<rest, Extended(old, new, edges)>>]
               [] OTHER ->
                    <<Trimmed(old, new, edges)>>
                        \o merge[<<merge[<<rest, Piece(old, new, edges)>>],
                                   Remainder(old, new, edges)>>]

Merge(list, new) ==
    LET merge[call \in Lists \X Rectangles] == MergeBy(merge, call[1], call[2])
    IN  merge[<<list, new>>]

(* A bug: a rectangle that continues one of the list extends it, and the    *)
(* rest of the list is not looked at.                                       *)
AddRectangleForgetting(list, r) ==
    IF \E i \in DOMAIN list : FindOverlap(list[i], r) \in Exact
    THEN LET i == CHOOSE j \in DOMAIN list : FindOverlap(list[j], r) \in Exact
         IN  [list EXCEPT ![i] = Extended(@, r, FindOverlap(@, r))]
    ELSE Merge(list, r)

(* ply_region_add_rectangle.                                                *)
AddRectangle(list, r) == Merge(list, r)

-----------------------------------------------------------------------------
(* A region that rectangles are added to.                                   *)
CONSTANT Areas          \* the rectangles

ASSUME AreasAssumption == Areas \subseteq Rectangles

VARIABLES
    region,     \* the list of rectangles
    owed        \* the pixels of the rectangles that were added

RegionInit ==
    /\ region = <<>>
    /\ owed = {}

AddTo(r) ==
    /\ region' = AddRectangle(region, r)
    /\ owed' = owed \cup Cells(r)

RegionNext == \E r \in Areas : AddTo(r)

RegionSpec == RegionInit /\ [][RegionNext]_<<region, owed>>

(* The rectangles of a region are the pixels that were added, each once     *)
(* (ply_region_add_rectangle).                                              *)
RegionIsExact ==
    /\ Pixels(region) = owed
    /\ Disjoint(region)
=============================================================================
