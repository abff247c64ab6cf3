------------------------------ MODULE Geometry ------------------------------
(***************************************************************************)
(* mindwm/src/layout.rs: the rectangles of tiles, columns, zones and       *)
(* windows carried to another screen, and the window an arrow key finds;   *)
(* mindwm/src/{pointer,input_handler}.rs: where the pointer may go on      *)
(* screens of different sizes, and which divider a drag on a tile moves.   *)
(* Fractions are percentages; a rounded product is rounded half up, as for *)
(* the code's positive floats.  A pixel is the smallest distance of the    *)
(* pointer; a screen's right and bottom edges are exclusive.               *)
(***************************************************************************)
EXTENDS Integers, Sequences, SequencesExt, FiniteSets

CONSTANTS
    Widths, Heights,   \* of areas
    Fractions,         \* of tiles, 0 for the default
    Gaps,
    MaxTiles,          \* bound: windows on a screen
    ScreenSets,        \* sequences of screens, rectangles that touch
    Reach              \* bound: how far the pointer is pushed at once

VARIABLE plan   \* what was last computed, with its inputs

planVars == <<plan>>

MinTile == 120

Lesser(a, b) == IF a < b THEN a ELSE b
Greater(a, b) == IF a > b THEN a ELSE b
Clamp(v, lo, hi) == Greater(lo, Lesser(v, hi))
Rect(x, y, w, h) == [x |-> x, y |-> y, w |-> w, h |-> h]
Of(span, percent) == (span * percent + 50) \div 100
Sum(seq) == FoldLeft(+, 0, seq)
AbsValue(n) == IF n < 0 THEN -n ELSE n

Inside(r, area) == r.x >= area.x /\ r.y >= area.y /\ r.x + r.w <= area.x + area.w /\ r.y + r.h <= area.y + area.h
Apart(a, b) == a.x + a.w <= b.x \/ b.x + b.w <= a.x \/ a.y + a.h <= b.y \/ b.y + b.h <= a.y

-----------------------------------------------------------------------------
SnapRect(area, zone) ==
    LET split == IF zone.half THEN area.w \div 2 ELSE (area.w * 2) \div 3
    IN  IF zone.right THEN Rect(area.x + split, area.y, area.w - split, area.h)
        ELSE Rect(area.x, area.y, split, area.h)

SplitAt(span, percent, gap) ==
    LET usable == Greater(span - gap, 2 * MinTile) IN Clamp(Of(usable, percent), MinTile, usable - MinTile)

\* dwindle_rects: each tile takes its share of the rest, along the longer side.
DwindleStep(acc, percent, gap) ==
    LET rest == acc.rest
        share == IF percent <= 0 THEN 50 ELSE Clamp(percent, 10, 90)
        wide == rest.w >= rest.h
        first == SplitAt(IF wide THEN rest.w ELSE rest.h, share, gap)
    IN  IF wide
        THEN [rects |-> Append(acc.rects, Rect(rest.x, rest.y, first, rest.h)),
              rest |-> Rect(rest.x + first + gap, rest.y, Greater(rest.w - first - gap, MinTile), rest.h)]
        ELSE [rects |-> Append(acc.rects, Rect(rest.x, rest.y, rest.w, first)),
              rest |-> Rect(rest.x, rest.y + first + gap, rest.w, Greater(rest.h - first - gap, MinTile))]

DwindleRects(area, fracs, gap) ==
    IF fracs = <<>> THEN <<>>
    ELSE LET split == FoldLeft(LAMBDA acc, f : DwindleStep(acc, f, gap),
                               [rects |-> <<>>, rest |-> area], Front(fracs))
         IN  Append(split.rects, split.rest)

ColumnWidth(areaW, percent, gap) ==
    LET share == IF percent <= 0 THEN 50 ELSE Clamp(percent, 10, 100)
    IN  IF share = 100 THEN Greater(areaW, MinTile) ELSE Greater(Of(areaW - gap, share), MinTile)

\* Where column i begins on the strip, and how long the strip is.
ColumnStart(areaW, widths, gap, i) ==
    Sum([j \in 1..(i - 1) |-> ColumnWidth(areaW, widths[j], gap) + gap])
StripLength(areaW, widths, gap) ==
    Sum([j \in DOMAIN widths |-> ColumnWidth(areaW, widths[j], gap)]) + gap * Greater(Len(widths) - 1, 0)

ColumnRects(area, widths, gap, scroll) ==
    [i \in DOMAIN widths |-> Rect(area.x - scroll + ColumnStart(area.w, widths, gap, i), area.y,
                                  ColumnWidth(area.w, widths[i], gap), area.h)]

\* focused is 0 when no column has the keyboard.
ScrollToShow(areaW, widths, gap, scroll, focused) ==
    LET room == StripLength(areaW, widths, gap) - areaW
        from == Clamp(scroll, 0, room)
        x == ColumnStart(areaW, widths, gap, focused)
        w == ColumnWidth(areaW, widths[focused], gap)
        shown == IF focused = 0 THEN from
                 ELSE IF x < from THEN x
                 ELSE IF x + w > from + areaW THEN x + w - areaW
                 ELSE from
    IN  IF room <= 0 THEN 0 ELSE Clamp(shown, 0, room)

\* neighbour_in: by centres, half the weight along the direction.
Centre(r) == [x |-> r.x + r.w \div 2, y |-> r.y + r.h \div 2]
Along(dir, from, to) ==
    LET dx == Centre(to).x - Centre(from).x
        dy == Centre(to).y - Centre(from).y
    IN  CASE dir = "left"  -> [ahead |-> -dx, aside |-> AbsValue(dy)]
          [] dir = "right" -> [ahead |-> dx, aside |-> AbsValue(dy)]
          [] dir = "up"    -> [ahead |-> -dy, aside |-> AbsValue(dx)]
          [] dir = "down"  -> [ahead |-> dy, aside |-> AbsValue(dx)]

NeighbourIn(rects, i, dir) ==
    LET that == [j \in DOMAIN rects |-> Along(dir, rects[i], rects[j])]
        ahead == {j \in DOMAIN rects \ {i} : that[j].ahead > 0}
        score == [j \in ahead |-> that[j].ahead + 2 * that[j].aside]
    IN  IF ahead = {} THEN 0
        ELSE CHOOSE j \in ahead : \A k \in ahead : score[j] < score[k] \/ (score[j] = score[k] /\ j <= k)

\* seams_against: the sides of rect that other lies against.
SeamsAgainst(rect, other, gap) ==
    LET slack == Greater(gap, 1) + 1
        alongX == Greater(rect.x, other.x) < Lesser(rect.x + rect.w, other.x + other.w)
        alongY == Greater(rect.y, other.y) < Lesser(rect.y + rect.h, other.y + other.h)
        Near(d) == d \in 0..slack
    IN  {side \in {"left", "right", "top", "bottom"} :
           CASE side = "left"   -> alongY /\ Near(rect.x - (other.x + other.w))
             [] side = "right"  -> alongY /\ Near(other.x - (rect.x + rect.w))
             [] side = "top"    -> alongX /\ Near(rect.y - (other.y + other.h))
             [] side = "bottom" -> alongX /\ Near(other.y - (rect.y + rect.h))}

\* across: the same offset from the corner of another screen, cut to fit.
Across(rect, from, to) ==
    LET w == Lesser(rect.w, to.w)
        h == Lesser(rect.h, to.h)
    IN  Rect(Clamp(to.x + rect.x - from.x, to.x, to.x + to.w - w),
             Clamp(to.y + rect.y - from.y, to.y, to.y + to.h - h), w, h)

-----------------------------------------------------------------------------
(***************************************************************************)
(* One computation after another.                                          *)
(***************************************************************************)

Areas == [x : {0}, y : {30}, w : Widths, h : Heights]
Shares == UNION {[1..n -> Fractions] : n \in 1..MaxTiles}
NoPlan == [of |-> "nothing"]

PlanInit == plan = NoPlan

PlanTiles(area, fracs, gap) ==
    plan' = [of |-> "tiles", area |-> area, fracs |-> fracs, gap |-> gap,
             rects |-> DwindleRects(area, fracs, gap)]

PlanColumns(area, fracs, gap, scroll, focused) ==
    LET to == ScrollToShow(area.w, fracs, gap, scroll, focused)
    IN  plan' = [of |-> "columns", area |-> area, fracs |-> fracs, gap |-> gap, focused |-> focused,
                 scroll |-> to, rects |-> ColumnRects(area, fracs, gap, to)]

PlanCarry(rect, from, to) ==
    plan' = [of |-> "carry", rect |-> rect, from |-> from, to |-> to, there |-> Across(rect, from, to)]

PlanZones(area, half) ==
    plan' = [of |-> "zones", area |-> area,
             rects |-> <<SnapRect(area, [half |-> half, right |-> FALSE]),
                         SnapRect(area, [half |-> half, right |-> TRUE])>>]

PlanNext ==
    /\ plan = NoPlan
    /\ \/ \E area \in Areas, fracs \in Shares, gap \in Gaps : PlanTiles(area, fracs, gap)
       \/ \E area \in Areas, fracs \in Shares, gap \in Gaps :
             \E focused \in 0..Len(fracs), scroll \in {0, area.w \div 2, 2 * area.w} :
                PlanColumns(area, fracs, gap, scroll, focused)
       \/ \E from \in Areas, to \in Areas, size \in {50, 400, 3000} : \E dx \in {0, from.w \div 3, from.w - 20} :
             PlanCarry(Rect(from.x + dx, from.y + 10, size, size), from, [to EXCEPT !.x = from.w])
       \/ \E area \in Areas, half \in BOOLEAN : PlanZones(area, half)

-----------------------------------------------------------------------------
(***************************************************************************)
(* What holds.                                                             *)
(***************************************************************************)

\* Where each split had room for two tiles and the gap.
HasRoom(area, fracs, gap) ==
    \A n \in 1..(Len(fracs) - 1) :
       LET rest == Last(DwindleRects(area, SubSeq(fracs, 1, n), gap))
       IN  Greater(rest.w, rest.h) >= 2 * MinTile + gap

\* Tiles never overlap, not even where the screen is too small for them; with
\* room they are inside the area, each a usable size along its split.
TilesFit ==
    plan.of = "tiles" =>
      /\ \A i, j \in DOMAIN plan.rects : i # j => Apart(plan.rects[i], plan.rects[j])
      /\ HasRoom(plan.area, plan.fracs, plan.gap) =>
           \A i \in DOMAIN plan.rects : Inside(plan.rects[i], plan.area)

\* A tile has a seam towards a tile exactly when that one has the opposite
\* seam towards it: two frames draw one divider.
Opposite(side) ==
    CASE side = "left" -> "right" [] side = "right" -> "left" [] side = "top" -> "bottom" [] side = "bottom" -> "top"
SeamsMatch ==
    plan.of \in {"tiles", "columns"} =>
      \A i, j \in DOMAIN plan.rects : i # j =>
        SeamsAgainst(plan.rects[j], plan.rects[i], plan.gap)
          = {Opposite(s) : s \in SeamsAgainst(plan.rects[i], plan.rects[j], plan.gap)}

\* The arrow keys reach every tile from every tile.
Step(rects, set) ==
    set \cup ({NeighbourIn(rects, i, dir) : i \in set, dir \in {"left", "right", "up", "down"}} \ {0})
ArrowsReachEveryTile ==
    plan.of \in {"tiles", "columns"} =>
      \A i \in DOMAIN plan.rects :
         FoldLeft(LAMBDA acc, _n : Step(plan.rects, acc), {i}, plan.rects) = DOMAIN plan.rects

\* The column that has the keyboard is in view whole, the strip never shows
\* space beyond its ends, and scrolling once is enough.
FocusedColumnShows ==
    plan.of = "columns" =>
      LET area == plan.area
      IN  /\ plan.focused # 0 /\ area.w >= MinTile =>
                LET r == plan.rects[plan.focused] IN r.x >= area.x /\ r.x + r.w <= area.x + area.w
          /\ plan.scroll \in 0..Greater(StripLength(area.w, plan.fracs, plan.gap) - area.w, 0)
          /\ ScrollToShow(area.w, plan.fracs, plan.gap, plan.scroll, plan.focused) = plan.scroll

\* A window carried to another screen is on it whole, and one that fitted
\* comes back to where it was.
CarriedWindowsLand ==
    plan.of = "carry" =>
      /\ Inside(plan.there, plan.to)
      /\ Inside(plan.rect, plan.from) /\ plan.from.w <= plan.to.w /\ plan.from.h <= plan.to.h =>
            Across(plan.there, plan.to, plan.from) = plan.rect

\* The two zones of a split share the area out.
ZonesShareTheArea ==
    plan.of = "zones" =>
      /\ Apart(plan.rects[1], plan.rects[2])
      /\ plan.rects[1].w + plan.rects[2].w = plan.area.w
      /\ \A i \in {1, 2} : Inside(plan.rects[i], plan.area)

GeometryIsSound ==
    TilesFit /\ SeamsMatch /\ ArrowsReachEveryTile /\ FocusedColumnShows /\ CarriedWindowsLand /\ ZonesShareTheArea

-----------------------------------------------------------------------------
(***************************************************************************)
(* The pointer.                                                            *)
(***************************************************************************)

Point(x, y) == [x |-> x, y |-> y]

ClampInto(r, p) == Point(Clamp(p.x, r.x, r.x + r.w - 1), Clamp(p.y, r.y, r.y + r.h - 1))
On(r, p) == ClampInto(r, p) = p
Square(n) == n * n
Distance(p, q) == Square(p.x - q.x) + Square(p.y - q.y)

\* The first of the indexes for which the value is least.
Least(indexes, value) ==
    CHOOSE i \in indexes : \A j \in indexes : value[i] < value[j] \/ (value[i] = value[j] /\ i <= j)

ClampToOutputs(p, rects) ==
    LET at == [i \in DOMAIN rects |-> ClampInto(rects[i], p)]
    IN  at[Least(DOMAIN rects, [i \in DOMAIN rects |-> Distance(at[i], p)])]

\* Across the edge the pointer is pushed over, entering it along that axis.
EntersLevel(r, previous, p, sideways) ==
    IF sideways THEN ClampInto(r, p).x = p.x /\ ClampInto(r, previous).x # previous.x
    ELSE ClampInto(r, p).y = p.y /\ ClampInto(r, previous).y # previous.y

\* (The nearest screen, whichever way the pointer is pushed.)
ClampNearest(previous, p, rects) ==
    IF \E r \in Range(rects) : On(r, p) THEN p ELSE ClampToOutputs(p, rects)

ClampToOutputsAlong(previous, p, rects) ==
    LET sideways == AbsValue(p.x - previous.x) > AbsValue(p.y - previous.y)
        at == [i \in DOMAIN rects |-> ClampInto(rects[i], p)]
        off == [i \in DOMAIN rects |-> IF sideways THEN AbsValue(at[i].y - p.y) ELSE AbsValue(at[i].x - p.x)]
        across == {i \in DOMAIN rects : p # previous /\ EntersLevel(rects[i], previous, p, sideways)}
        left == {i \in DOMAIN rects : On(rects[i], previous)}
    IN  IF \E i \in DOMAIN rects : On(rects[i], p) THEN p
        ELSE IF across # {} THEN at[Least(across, off)]
        ELSE IF left # {} THEN at[Least(left, [i \in left |-> 0])]
        ELSE ClampToOutputs(p, rects)

-----------------------------------------------------------------------------
\* resize_edges: the side of the frame a point in its ring is on, and the other
\* side too when it is near that side's end.
ResizeEdges(r, p, corner) ==
    LET x1 == r.x + r.w
        y1 == r.y + r.h
        sides == (IF p.x < r.x THEN {"left"} ELSE IF p.x > x1 THEN {"right"} ELSE {})
                 \cup (IF p.y < r.y THEN {"top"} ELSE IF p.y > y1 THEN {"bottom"} ELSE {})
        End(lo, hi, v, first, second) ==
            IF v - lo <= corner /\ v - lo <= hi - v THEN {first}
            ELSE IF hi - v <= corner THEN {second} ELSE {}
    IN  IF sides \cap {"left", "right"} = {} THEN sides \cup End(r.x, x1, p.x, "left", "right")
        ELSE IF sides \cap {"top", "bottom"} = {} THEN sides \cup End(r.y, y1, p.y, "top", "bottom")
        ELSE sides

\* Whether tile i of a dwindle was split off sideways.
SplitX(area, fracs, gap) ==
    [i \in 1..(Len(fracs) - 1) |->
        LET rest == Last(DwindleRects(area, SubSeq(fracs, 1, i), gap)) IN rest.w >= rest.h]

\* dwindle_divider: the split along those edges of tile i, 0 if there is none.
DwindleDivider(rects, splitX, i, edges, gap) ==
    LET Near(a, b) == AbsValue(a - b) <= 1
        Before(j) == IF splitX[j] THEN Near(rects[j].x + rects[j].w + gap, rects[i].x)
                     ELSE Near(rects[j].y + rects[j].h + gap, rects[i].y)
        Found(vertical, far) ==
            {j \in DOMAIN splitX : splitX[j] = vertical /\ IF far THEN j = i ELSE j < i /\ Before(j)}
        First(set) == IF set = {} THEN 0 ELSE CHOOSE j \in set : \A k \in set : j <= k
        sideways == IF "left" \in edges THEN First(Found(TRUE, FALSE))
                    ELSE IF "right" \in edges THEN First(Found(TRUE, TRUE)) ELSE 0
    IN  IF sideways # 0 THEN sideways
        ELSE IF "top" \in edges THEN First(Found(FALSE, FALSE))
        ELSE IF "bottom" \in edges THEN First(Found(FALSE, TRUE)) ELSE 0

Merge(a, b) ==
    LET x == Lesser(a.x, b.x)
        y == Lesser(a.y, b.y)
    IN  Rect(x, y, Greater(a.x + a.w, b.x + b.w) - x, Greater(a.y + a.h, b.y + b.h) - y)

\* What split k divided: its tile and everything after it.
Divided(rects, k) == FoldLeft(Merge, rects[k], SubSeq(rects, k + 1, Len(rects)))

Fraction(percent) == IF percent <= 0 THEN 50 ELSE percent

\* tile_border_grab: the divider under the pointer, which follows it.
TileBorderGrab(rects, splitX, i, edges, gap) ==
    [target |-> DwindleDivider(rects, splitX, i, edges, gap), invert |-> FALSE]

\* tile_resize_grab: the tile's own split; the last one borrows the one before.
TileResizeGrab(rects, i) ==
    IF i = Len(rects) THEN [target |-> i - 1, invert |-> TRUE] ELSE [target |-> i, invert |-> FALSE]

\* TileResizeGrab::motion: percent of the span further along the divider's axis.
Dragged(fracs, grab, percent) ==
    [fracs EXCEPT ![grab.target] =
        Clamp(Fraction(@) + (IF grab.invert THEN -percent ELSE percent), 10, 90)]

-----------------------------------------------------------------------------
PlanMotion(rects, previous, p) ==
    plan' = [of |-> "motion", rects |-> rects, previous |-> previous, asked |-> p,
             there |-> ClampToOutputsAlong(previous, p, rects)]

\* A press just outside tile i's frame, or on the tile with Super, and a drag.
PlanDrag(area, fracs, gap, i, grab, edges, percent) ==
    /\ grab.target # 0
    /\ plan' = [of |-> "drag", i |-> i, grab |-> grab, edges |-> edges, percent |-> percent,
                area |-> area, gap |-> gap, fracs |-> fracs, after |-> Dragged(fracs, grab, percent)]

PlanEdges(r, p, corner) == plan' = [of |-> "edges", rect |-> r, at |-> p, edges |-> ResizeEdges(r, p, corner)]

Around(rects) ==
    {Point(x, y) : x \in {r.x - 1 : r \in Range(rects)} \cup {r.x + r.w - 1 : r \in Range(rects)} \cup {2},
                   y \in {r.y : r \in Range(rects)} \cup {r.y + r.h - 1 : r \in Range(rects)} \cup {2}}

PointerPlanNext ==
    /\ plan = NoPlan
    /\ \/ \E rects \in ScreenSets : \E previous \in Around(rects), dx, dy \in -Reach..Reach :
             /\ \E r \in Range(rects) : On(r, previous)
             /\ PlanMotion(rects, previous, Point(previous.x + dx, previous.y + dy))
       \/ \E area \in Areas, fracs \in Shares, gap \in Gaps, percent \in {-10, 10} :
             \E i \in DOMAIN fracs, side \in {"left", "right", "top", "bottom"} :
                /\ Len(fracs) > 1
                /\ LET rects == DwindleRects(area, fracs, gap)
                       grab == TileBorderGrab(rects, SplitX(area, fracs, gap), i, {side}, gap)
                   IN  PlanDrag(area, fracs, gap, i, grab, {side}, percent)
       \/ \E area \in Areas, fracs \in Shares, gap \in Gaps, percent \in {-10, 10} :
             \E i \in DOMAIN fracs :
                /\ Len(fracs) > 1
                /\ PlanDrag(area, fracs, gap, i, TileResizeGrab(DwindleRects(area, fracs, gap), i), {}, percent)
       \/ \E w, h \in {3, 9, 20} : \E x \in -2..(w + 2), y \in -2..(h + 2) :
             /\ ~(x \in 0..w /\ y \in 0..h)
             /\ PlanEdges(Rect(0, 0, w, h), Point(x, y), 4)

-----------------------------------------------------------------------------
\* A push sideways or straight up or down that crosses from one screen's edge
\* into the span of another one.
Beside(r, previous, p) ==
    \/ p.y = previous.y /\ p.x \in r.x..(r.x + r.w - 1) /\ ~(previous.x \in r.x..(r.x + r.w - 1))
    \/ p.x = previous.x /\ p.y \in r.y..(r.y + r.h - 1) /\ ~(previous.y \in r.y..(r.y + r.h - 1))

\* The pointer never leaves the screens, goes where it was pushed if that is on
\* one, and "a sideways push always reaches the screen beside it" (pointer.rs:
\* 76-87), also from the band that has nothing opposite it.
PointerStaysOnScreens ==
    plan.of = "motion" =>
        /\ \E r \in Range(plan.rects) : On(r, plan.there)
        /\ (\E r \in Range(plan.rects) : On(r, plan.asked)) => plan.there = plan.asked
        /\ \A r \in Range(plan.rects) :
              Beside(r, plan.previous, plan.asked) /\ plan.there # plan.asked =>
                 \E q \in Range(plan.rects) : Beside(q, plan.previous, plan.asked) /\ On(q, plan.there)

\* The divider grabbed at a border goes where the pointer goes, to a pixel of
\* rounding; a tile dragged with Super grows towards the right and the bottom
\* and shrinks the other way, the last one too: where every split has room, and
\* none turns over.
DividerFollows ==
    plan.of = "drag" =>
        LET before == DwindleRects(plan.area, plan.fracs, plan.gap)
            after == DwindleRects(plan.area, plan.after, plan.gap)
            k == plan.grab.target
            wide == SplitX(plan.area, plan.fracs, plan.gap)[k]
            rest == Divided(before, k)
            span == (IF wide THEN rest.w ELSE rest.h) - plan.gap
            moved == IF wide THEN after[k].w - before[k].w ELSE after[k].h - before[k].h
            changed == plan.after[k] - Clamp(Fraction(plan.fracs[k]), 10, 90)
            Start(r) == IF wide THEN r.x ELSE r.y
            Length(r) == IF wide THEN r.w ELSE r.h
        IN  /\ HasRoom(plan.area, plan.fracs, plan.gap)
            /\ HasRoom(plan.area, plan.after, plan.gap)
            /\ SplitX(plan.area, plan.fracs, plan.gap) = SplitX(plan.area, plan.after, plan.gap)
            /\ \A r \in {before[k], after[k]} : Length(r) > MinTile /\ Length(r) < span - MinTile
            =>
            /\ AbsValue(moved * 100 - changed * span) <= 100
            /\ plan.edges \cap {"right", "bottom"} # {} => plan.i = k
            /\ plan.edges \cap {"left", "top"} # {} =>
                  AbsValue(Start(after[plan.i]) - Start(before[plan.i]) - moved) <= 1
            /\ plan.edges = {} => (Length(after[plan.i]) - Length(before[plan.i])) * plan.percent >= 0

\* A point in the ring names one edge or a corner, never two opposite edges or
\* none, and the edge it is nearest to.
EdgesAreOfOneCorner ==
    plan.of = "edges" =>
        /\ plan.edges # {}
        /\ \A s \in plan.edges : Opposite(s) \notin plan.edges
        /\ plan.at.x < plan.rect.x => "left" \in plan.edges
        /\ plan.at.y > plan.rect.y + plan.rect.h => "bottom" \in plan.edges

\* All three: the pointer and the drags it starts go where they are pushed.
PointerGeometryIsSound == PointerStaysOnScreens /\ DividerFollows /\ EdgesAreOfOneCorner
=============================================================================
