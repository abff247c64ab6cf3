------------------------------- MODULE Tiling -------------------------------
(***************************************************************************)
(* mindwm/src/layout.rs: whose screen a window is on, the order of the     *)
(* tiles of each screen, and what every window remembers to go back to.    *)
(*                                                                         *)
(* One thread.  lay is its state, its functions are operators on it, with  *)
(* their names.  A geometry is the screen it lies on and what it is: a     *)
(* place of the window's own, a tile, a zone at an edge, the whole screen, *)
(* or the middle of it.  Screens have pinned positions, so that a geometry *)
(* may be on a screen that has been unplugged.  What a client has been     *)
(* asked for (max, full) and what it has acknowledged are kept apart.      *)
(***************************************************************************)
EXTENDS Naturals, Sequences, SequencesExt, FiniteSets

CONSTANTS
    Tiles,         \* windows
    Launchers,     \* those whose application starts games
    Screens,       \* a sequence: the outputs in the order they were found
    NoTile,
    MaxLayoutOps   \* bound: handlers

VARIABLE lay

layoutVars == <<lay>>

ScreenSet == ToSet(Screens)
NoScreen == "no screen"
NoGeometry == [on |-> NoScreen, as |-> "none"]
Geometry(o, as) == [on |-> o, as |-> as]
NotAway == [from |-> NoScreen, to |-> NoScreen, rect |-> NoGeometry]
NotKept == [rect |-> NoGeometry, floating |-> FALSE, full |-> FALSE, max |-> FALSE, owner |-> NoScreen]
LayoutModes == {"floating", "dwindle", "columns"}

LayoutInit ==
    lay = [mode |-> "floating",
           screens |-> ScreenSet,
           pointer |-> Screens[1],
           stack |-> <<>>,                                \* the space, bottom to top
           minimized |-> {},
           closed |-> {},
           focus |-> NoTile,
           owner |-> [w \in Tiles |-> NoScreen],          \* TileData::output
           at |-> [w \in Tiles |-> NoGeometry],
           floating |-> {},
           snap |-> {},                                   \* pinned to a zone
           snapSaved |-> [w \in Tiles |-> NotKept],
           saved |-> [w \in Tiles |-> NoGeometry],
           untiled |-> [w \in Tiles |-> NoGeometry],
           tiledNow |-> {},
           away |-> [w \in Tiles |-> NotAway],
           max |-> {}, ackMax |-> {},
           full |-> {}, ackFull |-> {},
           order |-> [o \in ScreenSet |-> <<>>],
           pending |-> <<>>,
           dirty |-> TRUE,
           grab |-> NoTile,                               \* the window a move grab holds
           dragging |-> NoTile,
           game |-> FALSE,
           hidden |-> {},                                 \* history: minimised when the game was over
           mislaid |-> {},                                \* history: its own place has been lost
           unasked |-> {},                                \* history: out of fullscreen, no layout since
           ops |-> 0]

-----------------------------------------------------------------------------
(***************************************************************************)
(* Functions of the state.                                                 *)
(***************************************************************************)

IsTiling(s) == s.mode # "floating"
Drop(seq, w) == SelectSeq(seq, LAMBDA x : x # w)
InSpace(s) == ToSet(s.stack)
Connected(s) == SelectSeq(Screens, LAMBDA o : o \in s.screens)
Tileable(s, w) == w \notin s.floating /\ w \notin s.snap
IsTiled(s, w) == IsTiling(s) /\ Tileable(s, w) /\ \E o \in ScreenSet : w \in ToSet(s.order[o])

\* output_owner and window_home: a connected owner before the geometry.
WindowHome(s, w) ==
    IF (IsTiling(s) \/ w \in s.snap) /\ s.owner[w] \in s.screens THEN s.owner[w]
    ELSE IF s.at[w].on \in s.screens THEN s.at[w].on
    ELSE Last(Connected(s))

\* window_output: by the geometry alone.
WindowOutput(s, w) == IF s.at[w].on \in s.screens THEN s.at[w].on ELSE Connected(s)[1]

Place(s, w, rect) == [s EXCEPT !.at[w] = rect]
\* What was kept of a window to give back to it may have been a tile.
GiveBack(s, w, rect) ==
    [s EXCEPT !.at[w] = rect, !.mislaid = IF rect.as = "tile" THEN @ \cup {w} ELSE @]
Raise(s, w) == [s EXCEPT !.stack = Append(Drop(@, w), w)]

\* SeatHandler::focus_changed: a window that gets the keyboard asks for a layout.
FocusQuietly(s, w) == [s EXCEPT !.focus = w]
FocusOn(s, w) == IF s.focus = w THEN s ELSE [s EXCEPT !.focus = w, !.dirty = @ \/ w # NoTile]
Activate(s, w) == IF w \in s.minimized THEN s ELSE FocusOn(Raise(s, w), w)
FocusTop(s) ==
    IF s.focus \in InSpace(s) THEN s
    ELSE FocusOn(s, IF s.stack = <<>> THEN NoTile ELSE Last(s.stack))

FloatingRect(s, w, saved) ==
    IF saved.on \in s.screens THEN saved ELSE Geometry(WindowHome(s, w), "middle")

-----------------------------------------------------------------------------
(***************************************************************************)
(* What a client is asked for.                                             *)
(***************************************************************************)

MaximizeRequest(s, w) ==
    LET kept == IF w \in s.max THEN s ELSE [s EXCEPT !.saved[w] = s.at[w]]
        asked == [kept EXCEPT !.max = @ \cup {w}, !.dirty = TRUE]
    IN  Raise(Place(asked, w, Geometry(WindowOutput(s, w), "whole")), w)

UnmaximizeRequest(s, w) ==
    IF w \notin s.ackMax THEN s
    ELSE LET asked == [s EXCEPT !.max = @ \ {w}, !.dirty = TRUE]
         IN  IF IsTiled(asked, w) THEN asked
             ELSE LET back == s.saved[w]
                      taken == [asked EXCEPT !.saved[w] = NoGeometry]
                  IN  IF back.on \in s.screens THEN Raise(GiveBack(taken, w, back), w) ELSE taken

ToggleMaximize(s, w) ==
    IF w \notin InSpace(s) THEN s
    ELSE IF w \in s.ackMax THEN UnmaximizeRequest(s, w) ELSE MaximizeRequest(s, w)

\* xdg fullscreen_request and unfullscreen_request: no layout is asked for.
ToggleFullscreen(s, w) ==
    IF w \notin InSpace(s) THEN s
    ELSE IF w \in s.ackFull THEN [s EXCEPT !.full = @ \ {w}, !.unasked = @ \cup {w}]
     ELSE [s EXCEPT !.full = @ \cup {w}]

UnmaximizeForDrag(s, w) ==
    [s EXCEPT !.saved[w] = NoGeometry, !.max = @ \ {w}, !.dirty = TRUE]

-----------------------------------------------------------------------------
(***************************************************************************)
(* The layout, once per turn of the loop.                                  *)
(***************************************************************************)

RememberUntiled(s, w) ==
    IF w \in s.tiledNow THEN s
    ELSE [s EXCEPT !.tiledNow = @ \cup {w}, !.untiled[w] = s.at[w]]

EnsureUntiled(s, w) ==
    LET out == [s EXCEPT !.tiledNow = @ \ {w}, !.untiled[w] = NoGeometry]
    IN  IF w \in s.tiledNow THEN Place(out, w, FloatingRect(s, w, s.untiled[w])) ELSE out

\* Windows a tiling mode has just met: after the one that had the focus.
JoinAfter(order, w, after) ==
    IF after \in ToSet(order)
    THEN LET i == CHOOSE j \in DOMAIN order : order[j] = after
         IN  SubSeq(order, 1, i) \o <<w>> \o SubSeq(order, i + 1, Len(order))
    ELSE Append(order, w)

JoinPending(s, order, windows) ==
    FoldLeft(LAMBDA acc, p : IF p.w \in windows /\ Tileable(s, p.w) /\ p.w \notin ToSet(acc)
                             THEN JoinAfter(acc, p.w, p.after) ELSE acc,
             order, s.pending)

OrderOf(s, o, windows) ==
    LET kept == SelectSeq(s.order[o], LAMBDA w : Tileable(s, w) /\ w \in windows)
        joined == JoinPending(s, kept, windows)
    IN  joined \o SelectSeq(s.stack, LAMBDA w : w \in windows /\ Tileable(s, w) /\ w \notin ToSet(joined))

PlaceTile(s, w, o) ==
    IF w = s.dragging THEN s
    ELSE Place(RememberUntiled(s, w), w,
               IF w \in s.max THEN Geometry(WindowOutput(s, w), "whole") ELSE Geometry(o, "tile"))

PlaceOther(s, w, o) ==
    IF w = s.dragging \/ w \in s.full THEN s
    ELSE IF w \in s.snap THEN Place(s, w, Geometry(o, "zone"))
    ELSE IF w \in s.max THEN Place(s, w, Geometry(WindowOutput(s, w), "whole"))
    ELSE EnsureUntiled(s, w)

ArrangeOutput(s, o) ==
    LET windows == {w \in InSpace(s) : WindowHome(s, w) = o}
        order == OrderOf(s, o, windows)
        tiles == SelectSeq(order, LAMBDA w : w \notin s.full)
        ordered == IF ~IsTiling(s) THEN s
                   ELSE [s EXCEPT !.order[o] = order,
                                  !.pending = SelectSeq(@, LAMBDA p : p.w \notin windows /\ p.w \notin s.closed)]
        tiled == IF IsTiling(s) THEN ToSet(tiles) ELSE {}
        placed == FoldLeft(LAMBDA acc, w : IF w \in tiled THEN PlaceTile(acc, w, o) ELSE acc, ordered, s.stack)
    IN  FoldLeft(LAMBDA acc, w : IF w \in windows \ tiled THEN PlaceOther(acc, w, o) ELSE acc, placed, s.stack)

ArrangeAll(s) ==
    LET homed == [s EXCEPT !.owner = [w \in Tiles |-> IF w \in InSpace(s) THEN WindowHome(s, w) ELSE @[w]],
                           !.order = [o \in ScreenSet |-> IF o \in s.screens THEN @[o] ELSE <<>>],
                           !.pending = IF IsTiling(s) THEN @ ELSE <<>>,
                           !.dirty = FALSE, !.unasked = {}]
    IN  FoldLeft(LAMBDA acc, o : ArrangeOutput(acc, o), homed, Connected(s))

\* layout_refresh.
Refresh(s) ==
    LET living == [o \in ScreenSet |-> SelectSeq(s.order[o], LAMBDA w : w \notin s.closed)]
        kept == [s EXCEPT !.order = living, !.dragging = IF @ \in s.closed THEN NoTile ELSE @]
    IN  IF s.dirty \/ living # s.order THEN ArrangeAll(kept) ELSE kept

-----------------------------------------------------------------------------
(***************************************************************************)
(* Operations on the layout.                                               *)
(***************************************************************************)

\* swap: the slots, and with them the screens, of two tiles.
Slots(s, w) == {x \in ScreenSet \X (1..Cardinality(Tiles)) :
                  x[2] <= Len(s.order[x[1]]) /\ s.order[x[1]][x[2]] = w}

Swap(s, a, b) ==
    IF a = b \/ Cardinality(Slots(s, a)) + Cardinality(Slots(s, b)) # 2 THEN s
    ELSE LET x == CHOOSE p \in Slots(s, a) : TRUE
             y == CHOOSE p \in Slots(s, b) : TRUE
         IN  [s EXCEPT !.order[x[1]][x[2]] = b, !.order[y[1]][y[2]] = a,
                       !.owner[a] = y[1], !.owner[b] = x[1], !.dirty = TRUE]

Shift(s, w, towardsEnd) ==
    LET x == CHOOSE p \in Slots(s, w) : TRUE
        j == IF towardsEnd THEN x[2] + 1 ELSE x[2] - 1
    IN  IF Slots(s, w) = {} \/ j \notin DOMAIN s.order[x[1]] THEN s
        ELSE [s EXCEPT !.order[x[1]][x[2]] = s.order[x[1]][j], !.order[x[1]][j] = w, !.dirty = TRUE]

OutOfOrders(s, w) == [s EXCEPT !.order = [o \in ScreenSet |-> Drop(@[o], w)]]

Unminimize(s, w) ==
    IF w \notin s.minimized THEN s
    ELSE Activate([s EXCEPT !.minimized = @ \ {w}, !.stack = Append(@, w)], w)

ReleaseSnap(s, w) ==
    LET kept == s.snapSaved[w]
        out == [s EXCEPT !.snap = @ \ {w}, !.snapSaved[w] = NotKept]
        back == Raise(GiveBack([out EXCEPT !.owner[w] = kept.owner,
                                           !.floating = IF kept.floating THEN @ \cup {w} ELSE @ \ {w}],
                               w, kept.rect), w)
        maxed == IF kept.max /\ w \notin back.max THEN ToggleMaximize(back, w) ELSE back
    IN  IF kept = NotKept THEN out
        ELSE IF kept.full /\ w \notin maxed.full THEN ToggleFullscreen(maxed, w) ELSE maxed

PinTo(s, w, output) ==
    LET kept == IF s.snapSaved[w] # NotKept THEN s
                ELSE [s EXCEPT !.snapSaved[w] = [rect |-> s.at[w], floating |-> w \in s.floating,
                                                 full |-> w \in s.full, max |-> w \in s.max,
                                                 owner |-> WindowHome(s, w)]]
        shown == IF w \in kept.full THEN ToggleFullscreen(kept, w) ELSE kept
        small == IF w \in shown.max THEN ToggleMaximize(shown, w) ELSE shown
        pinned == [small EXCEPT !.tiledNow = @ \ {w}, !.untiled[w] = NoGeometry, !.snap = @ \cup {w}]
        target == IF output \in s.screens THEN output ELSE WindowHome(pinned, w)
    IN  Raise(Place([pinned EXCEPT !.owner[w] = target], w, Geometry(target, "zone")), w)

SnapWindow(s, w, zone, output) ==
    LET shown == Unminimize(s, w)
        done == IF zone = "release" THEN ReleaseSnap(shown, w) ELSE PinTo(shown, w, output)
    IN  Activate([done EXCEPT !.dirty = TRUE], w)

\* The screen of the game: of the first window that fills one, else the focus's.
GameOutput(s) ==
    LET First(set) == SelectInSeq(s.stack, LAMBDA w : w \in set)
        by == IF First(s.full) # 0 THEN First(s.full) ELSE First(s.max)
    IN  IF by # 0 THEN WindowHome(s, s.stack[by])
        ELSE IF s.focus # NoTile THEN WindowHome(s, s.focus) ELSE s.pointer

\* Not the launchers, not the game, and not the focus when it stands in for one.
InTheWay(s) ==
    LET game == GameOutput(s)
        there == {w \in InSpace(s) : WindowHome(s, w) = game}
        filling == there \cap (s.full \cup s.max)
    IN  {w \in there \ (filling \cup Launchers) : filling = {} => w # s.focus}

MoveAway(s, w, game, dest) ==
    LET gone == [OutOfOrders(s, w) EXCEPT !.away[w] = [from |-> game, to |-> dest, rect |-> s.at[w]],
                                          !.owner[w] = dest]
    IN  IF IsTiling(s) /\ Tileable(s, w) THEN gone
        ELSE Raise(Place(gone, w, Geometry(dest, s.at[w].as)), w)

ClearTheGameScreen(s) ==
    LET game == GameOutput(s)
        others == s.screens \ {game}
        dest == CHOOSE o \in others : TRUE
        moving == {w \in InTheWay(s) : s.away[w] = NotAway}
    IN  IF others = {} THEN s
        ELSE [FoldLeft(LAMBDA acc, w : IF w \in moving THEN MoveAway(acc, w, game, dest) ELSE acc,
                      s, s.stack) EXCEPT !.dirty = TRUE]

ComeHome(s, w) ==
    LET away == s.away[w]
        told == [s EXCEPT !.away[w] = NotAway]
        home == [OutOfOrders(told, w) EXCEPT !.owner[w] = away.from]
    IN  IF away.from \notin s.screens \/ s.owner[w] # away.to THEN told
        ELSE IF IsTiling(s) /\ Tileable(s, w) THEN home
        ELSE Raise(GiveBack(home, w, away.rect), w)

RestoreTheGameScreen(s) ==
    [FoldLeft(LAMBDA acc, w : IF s.away[w] # NotAway THEN ComeHome(acc, w) ELSE acc,
             s, s.stack) EXCEPT !.dirty = TRUE]

SetLayoutMode(s, mode) ==
    LET set == [s EXCEPT !.mode = mode]
        fresh == [set EXCEPT !.order = [o \in ScreenSet |-> <<>>], !.pending = <<>>]
        shown == FoldLeft(LAMBDA acc, w : IF w \in acc.max /\ Tileable(acc, w) THEN UnmaximizeRequest(acc, w) ELSE acc,
                         fresh, s.stack)
    IN  IF s.mode = mode THEN s
        ELSE [(IF IsTiling(set) THEN shown ELSE set) EXCEPT !.dirty = TRUE]

ToggleFloating(s, w) ==
    LET floats == [s EXCEPT !.floating = @ \cup {w}, !.dirty = TRUE]
        out == [floats EXCEPT !.tiledNow = @ \ {w}, !.untiled[w] = NoGeometry]
    IN  IF w \in s.floating THEN [s EXCEPT !.floating = @ \ {w}, !.dirty = TRUE]
        ELSE IF ~IsTiling(s) THEN floats
        ELSE Raise(Place(out, w, FloatingRect(floats, w, s.untiled[w])), w)

\* cycle_column_width: a tile changes its share, another window its size.
CycleWidth(s, w) ==
    IF IsTiled(s, w) THEN [s EXCEPT !.dirty = TRUE]
    ELSE IF w \in s.full THEN s
    ELSE LET small == IF w \in s.max THEN ToggleMaximize(s, w) ELSE s
             loose == [small EXCEPT !.snap = @ \ {w}, !.snapSaved[w] = NotKept, !.dirty = TRUE]
         IN  Raise(Place(loose, w, Geometry(WindowHome(small, w), "own")), w)

\* move_direction; a target is a tile of the same screen that lies that way.
MoveDirection(s, w, dir, target) ==
    IF ~IsTiled(s, w)
    THEN IF dir \in {"left", "right"} THEN SnapWindow(s, w, IF w \in s.snap THEN "release" ELSE "half", NoScreen)
         ELSE IF dir = "up" THEN IF w \in s.max THEN s ELSE ToggleMaximize(s, w)
         ELSE IF w \in s.max THEN ToggleMaximize(s, w)
         ELSE IF w \in s.snap THEN SnapWindow(s, w, "release", NoScreen) ELSE s
    ELSE IF s.mode = "columns"
    THEN IF dir \in {"left", "right"} THEN Shift(s, w, dir = "right") ELSE s
    ELSE IF target # NoTile /\ IsTiled(s, target) /\ WindowHome(s, target) = WindowHome(s, w)
    THEN Swap(s, w, target) ELSE s

\* drag_finished at a place of screen o; at its edge, over the tile target, or neither.
DragFinished(s, w, o, edge, target) ==
    LET changed == s.owner[w] # o
        dropped == [s EXCEPT !.dragging = NoTile, !.grab = NoTile, !.at[w] = Geometry(o, "own"), !.pointer = o]
        homed == IF changed THEN [OutOfOrders(dropped, w) EXCEPT !.owner[w] = o] ELSE dropped
        loose == [homed EXCEPT !.snap = @ \ {w}]
        free == [loose EXCEPT !.snapSaved[w] = NotKept, !.dirty = TRUE]
    IN  IF edge THEN SnapWindow(loose, w, "edge", o)
        ELSE IF changed \/ ~IsTiled(free, w) \/ target = NoTile \/ ~IsTiled(free, target) THEN free
        ELSE Swap(free, w, target)

-----------------------------------------------------------------------------
(***************************************************************************)
(* The handlers.                                                           *)
(***************************************************************************)

\* Requests and keys come in between two turns of the loop.
Handle(s) == lay.ops < MaxLayoutOps /\ lay' = [s EXCEPT !.ops = @ + 1]

OpenTile(w) ==
    /\ w \notin InSpace(lay) \cup lay.minimized \cup lay.closed
    /\ Handle(FocusOn(Raise([lay EXCEPT !.owner[w] = lay.pointer, !.at[w] = Geometry(lay.pointer, "own"),
                                        !.pending = Append(@, [w |-> w, after |-> lay.focus]),
                                        !.dirty = TRUE], w), w))

CloseTile(w) ==
    /\ w \in InSpace(lay) \cup lay.minimized
    /\ Handle(FocusTop([lay EXCEPT !.stack = Drop(@, w), !.minimized = @ \ {w}, !.closed = @ \cup {w},
                                   !.grab = IF @ = w THEN NoTile ELSE @]))

MinimizeTile(w) ==
    /\ w \in InSpace(lay)
    /\ Handle(FocusTop([lay EXCEPT !.stack = Drop(@, w), !.minimized = @ \cup {w}]))

UnminimizeTile(w) == w \in lay.minimized /\ Handle(Unminimize(lay, w))

ClickTile(w) == w \in InSpace(lay) /\ lay.focus # w /\ Handle(Activate(lay, w))

\* The client has committed the state it was last asked for.
Acknowledge(w) ==
    /\ (w \in lay.max) # (w \in lay.ackMax) \/ (w \in lay.full) # (w \in lay.ackFull)
    /\ lay' = [lay EXCEPT !.ackMax = IF w \in lay.max THEN @ \cup {w} ELSE @ \ {w},
                          !.ackFull = IF w \in lay.full THEN @ \cup {w} ELSE @ \ {w}]

MaximizeKey == lay.focus # NoTile /\ Handle(ToggleMaximize(lay, lay.focus))
FullscreenKey == lay.focus # NoTile /\ Handle(ToggleFullscreen(lay, lay.focus))
FloatKey == lay.focus # NoTile /\ Handle(ToggleFloating(lay, lay.focus))
WidthKey == lay.focus # NoTile /\ Handle(CycleWidth(lay, lay.focus))
MoveKey(dir, target) == lay.focus # NoTile /\ Handle(MoveDirection(lay, lay.focus, dir, target))
IpcSnap(w, zone) ==
    w \in InSpace(lay) \cup lay.minimized /\ Handle(SnapWindow(lay, w, zone, NoScreen))
LayoutKey(mode) == mode # lay.mode /\ Handle(SetLayoutMode(lay, mode))

IpcGameScene(on) ==
    Handle(IF on THEN [ClearTheGameScreen(lay) EXCEPT !.game = TRUE]
           ELSE [RestoreTheGameScreen(lay) EXCEPT !.game = FALSE, !.hidden = lay.minimized])

BeginDrag(w) ==
    /\ lay.grab = NoTile
    /\ w \in InSpace(lay) \ lay.full
    /\ LET up == Activate(lay, w)
           small == IF w \in up.max THEN UnmaximizeForDrag(up, w) ELSE up
       IN  Handle([small EXCEPT !.grab = w,
                                !.dragging = IF IsTiled(small, w) \/ w \in small.snap THEN w ELSE @])

\* The end of the grab, run when the loop is idle.
DropAt(o, edge, target) ==
    /\ lay.grab # NoTile
    /\ Handle(DragFinished(lay, lay.grab, o, edge, target))

Plug(o) ==
    /\ o \notin lay.screens
    /\ Handle([lay EXCEPT !.screens = @ \cup {o}, !.dirty = TRUE])

\* fixup_positions: what is in the space and off every screen goes to the pointer's.
Unplug(o) ==
    /\ lay.screens # {o}
    /\ o \in lay.screens
    /\ LET rest == lay.screens \ {o}
           pointer == IF lay.pointer = o THEN CHOOSE p \in rest : TRUE ELSE lay.pointer
           orphans == {w \in InSpace(lay) : lay.at[w].on \notin rest}
       IN  Handle([lay EXCEPT !.screens = rest, !.pointer = pointer, !.dirty = TRUE,
                              !.at = [w \in Tiles |-> IF w \in orphans THEN Geometry(pointer, "own") ELSE @[w]]])

MovePointer(o) == o \in lay.screens /\ o # lay.pointer /\ Handle([lay EXCEPT !.pointer = o])

Turn == lay' = Refresh(lay) /\ lay' # lay

LayoutNext ==
    \/ \E w \in Tiles : OpenTile(w) \/ CloseTile(w) \/ MinimizeTile(w) \/ UnminimizeTile(w)
                        \/ ClickTile(w) \/ Acknowledge(w) \/ BeginDrag(w)
    \/ \E w \in Tiles, zone \in {"half", "release"} : IpcSnap(w, zone)
    \/ MaximizeKey \/ FullscreenKey \/ FloatKey \/ WidthKey
    \/ \E dir \in {"left", "right", "up", "down"}, target \in Tiles \cup {NoTile} : MoveKey(dir, target)
    \/ \E mode \in LayoutModes : LayoutKey(mode)
    \/ \E on \in BOOLEAN : IpcGameScene(on)
    \/ \E o \in lay.screens, edge \in BOOLEAN, target \in Tiles \cup {NoTile} : DropAt(o, edge, target)
    \/ \E o \in ScreenSet : Plug(o) \/ Unplug(o) \/ MovePointer(o)
    \/ Turn

-----------------------------------------------------------------------------
(***************************************************************************)
(* What holds.                                                             *)
(***************************************************************************)

\* A window has one slot at most, whatever has been swapped, dragged, sent
\* away or moved to another screen.
OneSlotEach ==
    \A w \in Tiles : Cardinality(Slots(lay, w)) <= 1

\* Once a tiling mode has laid the windows out, every tileable window of the
\* space is in the order of its owner, and that screen is plugged in.
TilesAreHome ==
    ~lay.dirty /\ IsTiling(lay) =>
        \A w \in InSpace(lay) : Tileable(lay, w) =>
            /\ lay.owner[w] \in lay.screens
            /\ w \in ToSet(lay.order[lay.owner[w]])
            /\ w \notin lay.full \cup {lay.dragging} => lay.at[w].on \in lay.screens

\* Once the floating mode has, no window is left in a tile: it went back to
\* what it remembered, or to the middle of its screen.  Its own place is lost
\* in three ways only: a tile was pinned, was maximised or was sent away by a
\* game, and what it was given back is the tile.
FloatingLeavesNoTiles ==
    ~lay.dirty /\ ~IsTiling(lay) =>
        \A w \in InSpace(lay) \ (lay.max \cup lay.full \cup lay.unasked \cup lay.snap \cup {lay.dragging}) :
            w \notin lay.tiledNow /\ (lay.at[w].as = "tile" => w \in lay.mislaid)

\* When the game is over, what it sent away has come home or been left where
\* the user put it, but for windows that were minimised just then.
NobodyStaysAway ==
    ~lay.game => \A w \in InSpace(lay) : lay.away[w] # NotAway => w \in lay.hidden

LayoutIsSound == OneSlotEach /\ TilesAreHome /\ FloatingLeavesNoTiles /\ NobodyStaysAway
=============================================================================
