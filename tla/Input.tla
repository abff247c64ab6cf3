------------------------------- MODULE Input -------------------------------
(***************************************************************************)
(* mindwm/src/{input_handler,window_cycle,media}.rs and shell/grabs.rs:    *)
(* where a key or a button goes, and that whatever takes its press also    *)
(* sees its end: a client, a shortcut, the Mind bar, the waking screen, a  *)
(* window being dragged, the switcher held open by Alt or Super, and the   *)
(* worker that repeats a media key.                                        *)
(*                                                                         *)
(* The compositor is one thread: its state is the record in, and an action *)
(* is one event it dispatches.  The media worker is a thread of its own.   *)
(* The letters of the shortcuts are one key, Text, that may be any of them.*)
(***************************************************************************)
EXTENDS Integers, Sequences, SequencesExt, FiniteSets

CONSTANTS
    Wins,        \* windows
    Inhibiting,  \* those with an active shortcuts inhibitor
    Buttons,     \* buttons of the pointer; the least one is the left one
    Fingers,     \* slots of the touch screen
    MaxPresses,  \* bound: keys that are down at once
    MaxNaps,     \* bound: how often the screen goes to sleep
    MaxSent      \* bound: messages the media worker has not read

VARIABLES
    in,          \* the compositor
    worker       \* the media worker: the key it repeats, or NoKey

inputVars == <<in, worker>>

NoKey == "no key"
Keys == {"Super", "Alt", "Tab", "Escape", "Volume", "Text"}
None == "none"                 \* no focus, no window
Layer == "layer"
Behind == "behind the lock"    \* what a finger finds there, whatever it is on
NoSelection == [order |-> <<>>, index |-> 0, origin |-> None, modifier |-> NoKey]
NoGrab == [kind |-> "none", window |-> None]
NoTouch == [kind |-> "none", window |-> None, slot |-> 0, points |-> 0, on |-> None]

InputInit ==
    /\ in = [down |-> {},           \* what the fingers hold
             pressed |-> {},        \* the seat: keys that count as held
             forwarded |-> {},      \* the seat: keys the clients know to be held
             suppressed |-> {},     \* suppressed_keys
             kept |-> {},           \* history: forwarded keys whose release woke the screen
             slipped |-> {},        \* history: keys whose release the filter has not seen
             buttons |-> {},        \* buttons that are held
             clicks |-> {},         \* the pointer's pressed buttons
             swallowed |-> {},      \* the Mind bar's swallowed_buttons
             woke |-> {},           \* history: buttons whose press woke the screen
             missed |-> {},         \* history: held buttons whose release woke it
             grab |-> NoGrab,
             fingers |-> {},        \* fingers on the screen
             touch |-> NoTouch,     \* the touch screen's grab
             lifted |-> FALSE,      \* history: the touch grab missed a finger coming or going
             over |-> None,         \* the pointer's focus
             resizing |-> {},       \* windows in ResizeState::Resizing
             dropped |-> {},        \* history: windows whose resize was broken off
             stack |-> <<>>,        \* windows, front to back
             focus |-> None,
             through |-> None,      \* history: what a press behind the lock focused, this turn
             recent |-> <<>>,
             sel |-> NoSelection,
             held |-> NoKey,        \* MediaKeys.held
             sent |-> <<>>,         \* to the worker
             naps |-> 0,
             asleep |-> FALSE,      \* the idle stage is not Active
             locked |-> FALSE,
             exclusive |-> None,    \* an exclusive layer: "panel" or "lock screen"
             bar |-> FALSE,         \* the Mind bar is open
             scroll |-> 0]          \* super_scroll, in halves of a notch
    /\ worker = NoKey

Available(s) == ToSet(s.stack)
Active(s) == s.sel # NoSelection
Selected(s) == s.sel.order[s.sel.index]

\* The windows of a list that are, or are not, in a set; and without one of them.
Kept(list, set) == SelectSeq(list, LAMBDA w : w \in set)
Others(list, set) == SelectSeq(list, LAMBDA w : w \notin set)
Without(list, w) == RemoveAt(list, CHOOSE i \in DOMAIN list : list[i] = w)

-----------------------------------------------------------------------------
(* window_cycle.rs *)

CycleFocus(s, w) ==
    IF Active(s) /\ Selected(s) = w THEN s
    ELSE [s EXCEPT !.sel = NoSelection, !.recent = <<w>> \o Others(@, {w})]

Retain(s) == [s EXCEPT !.recent = Kept(@, Available(s))]

Finish(s) ==
    IF Active(s) THEN CycleFocus([s EXCEPT !.sel = NoSelection], Selected(s)) ELSE s

Release(s) ==
    LET t == [s EXCEPT !.slipped = {}]
    IN  IF Active(t) /\ t.sel.modifier \notin t.pressed THEN Finish(t) ELSE t

\* The order a new selection goes through: the recent ones, then the others.
CycleOrder(s) == s.recent \o Others(s.stack, ToSet(s.recent))

Select(s, reverse, modifier) ==
    LET t == IF s.focus \in Available(s) THEN CycleFocus(s, s.focus) ELSE s
        order == CycleOrder(t)
        start == IF s.focus \in ToSet(order) THEN CHOOSE i \in DOMAIN order : order[i] = s.focus
                 ELSE IF reverse THEN 1 ELSE Len(order)
    IN  [t EXCEPT !.sel = [order |-> order, index |-> start, modifier |-> modifier,
                           origin |-> IF s.focus \in Wins THEN s.focus ELSE None]]

\* The next index of an available window, going on from here, or 0.
NextIndex(s, reverse) ==
    LET n == Len(s.sel.order)
        At(k) == IF reverse THEN ((s.sel.index + n * 2 - 1 - k) % n) + 1
                 ELSE ((s.sel.index + k - 1) % n) + 1
        hits == {k \in 1..n : s.sel.order[At(k)] \in Available(s)}
    IN  IF hits = {} THEN 0 ELSE At(CHOOSE k \in hits : \A j \in hits : k <= j)

CycleStep(s, reverse, modifier) ==
    LET r == Retain(s)
        f == IF Active(r) /\ r.sel.modifier # modifier THEN Finish(r) ELSE r
        t == IF Active(f) THEN f ELSE Select(f, reverse, modifier)
        i == NextIndex(t, reverse)
    IN  IF s.stack = <<>> \/ i = 0 THEN [r EXCEPT !.sel = NoSelection]
        ELSE [t EXCEPT !.sel.index = i]

-----------------------------------------------------------------------------
(* The focus, the pointer's grab and the media keys. *)

FocusChanged(s, target) ==
    IF target \in Wins THEN CycleFocus(Retain(s), target) ELSE Finish(s)

SetFocus(s, target) ==
    IF s.focus = target THEN s ELSE FocusChanged([s EXCEPT !.focus = target], target)

ActivateWindow(s, w) ==
    IF s.locked \/ w \notin Available(s) THEN s
    ELSE SetFocus([s EXCEPT !.stack = <<w>> \o Without(@, w)], w)

CycleWindows(s, reverse, modifier) ==
    LET t == CycleStep(s, reverse, modifier)
    IN  IF Active(t) THEN ActivateWindow(t, Selected(t)) ELSE t

CancelWindowCycle(s) ==
    LET t == [s EXCEPT !.sel = NoSelection]
    IN  IF Active(s) /\ s.sel.origin # None THEN ActivateWindow(t, s.sel.origin) ELSE t

MediaPress(s, key) == [s EXCEPT !.held = key, !.sent = Append(@, [press |-> TRUE, key |-> key])]

MediaRelease(s, key) ==
    IF s.held = key THEN [s EXCEPT !.held = NoKey, !.sent = Append(@, [press |-> FALSE, key |-> key])]
    ELSE s

\* (The key of a locked session goes on repeating.)
NoMediaStop(s) == s

MediaStop(s) == IF s.held = NoKey THEN s ELSE MediaRelease(s, s.held)

\* Who may keep the keyboard when a turn ends: behind the lock its screen alone.
MayKeepFocus(s) ==
    IF s.locked THEN s.focus = Layer /\ s.exclusive = "lock screen"
    ELSE s.focus \in Available(s) \cup {Layer}

PassFocus(s) == SetFocus(s, IF s.locked \/ s.stack = <<>> THEN None ELSE Head(s.stack))

RefreshFocus(s) == IF MayKeepFocus(s) THEN s ELSE PassFocus(s)

\* The grab is set aside: PointerResizeSurfaceGrab::unset leaves the window's
\* resize state as it was.
UnsetGrab(s) ==
    [s EXCEPT !.grab = NoGrab,
              !.dropped = @ \cup (IF s.grab.kind = "resize" THEN {s.grab.window} \cap s.resizing ELSE {})]

SetLocked(s) ==
    IF s.locked THEN s
    ELSE [UnsetGrab(SetFocus(MediaStop(Finish([s EXCEPT !.locked = TRUE])), None))
            EXCEPT !.bar = FALSE, !.over = None]

-----------------------------------------------------------------------------
(* Keys. *)

\* The actions a key can be bound to: process_keyboard_shortcut.
Shortcuts(pressed, key) ==
    LET logo == "Super" \in pressed
        alt == "Alt" \in pressed
    IN  CASE key = "Volume" /\ ~logo /\ ~alt -> {"media"}
          [] key = "Tab" /\ logo # alt -> {"cycle", "cycle back"}
          [] key = "Text" /\ logo -> {"bar", "lock", "backend", "desktop", "reset"}
          [] key = "Text" /\ alt -> {"vt", "desktop"}
          [] OTHER -> {}

Modifier(s) == IF "Super" \in s.pressed THEN "Super" ELSE "Alt"

CommonKeyAction(s, action, key) ==
    IF s.locked THEN s
    ELSE CASE action = "bar" -> [s EXCEPT !.bar = ~@]
           [] action = "lock" -> SetLocked(s)
           [] action = "cycle" -> CycleWindows(s, FALSE, Modifier(s))
           [] action = "cycle back" -> CycleWindows(s, TRUE, Modifier(s))
           [] action = "cancel cycle" -> CancelWindowCycle(s)
           [] action = "media" -> MediaPress(s, key)
           [] OTHER -> s

\* What a key does once the seat has counted it: the results of the filter and
\* of the action it leads to.
Intercept(s, key, action) == CommonKeyAction([s EXCEPT !.suppressed = @ \cup {key}], action, key)
Forward(s, key) == [s EXCEPT !.forwarded = @ \cup {key}]

FilterPressed(s, key) ==
    LET t == Release(s)
        inhibited == t.focus \in Inhibiting
        bound == Shortcuts(t.pressed, key)
        takes == "reset" \in bound
    IN  (IF takes THEN {Intercept(t, key, "reset")} ELSE {})
        \cup
        (IF Active(t) /\ key = "Escape" /\ ~inhibited THEN {Intercept(t, key, "cancel cycle")}
         ELSE IF t.bar /\ "Super" \notin t.pressed
              THEN {Intercept(t, key, "bar key"), Intercept([t EXCEPT !.bar = FALSE], key, "bar key")}
         ELSE IF ~inhibited /\ bound # {}
              THEN {Intercept(t, key, a) : a \in bound \ {"reset"}}
                   \cup (IF key = "Text" THEN {Forward(t, key)} ELSE {})
         ELSE {Forward(t, key)})

FilterReleased(s, key) ==
    IF key \in s.suppressed THEN [s EXCEPT !.suppressed = @ \ {key}]
    ELSE [s EXCEPT !.forwarded = @ \ {key}, !.kept = @ \ {key}]

\* An exclusive layer takes the keyboard before anything else, unless it is not
\* the lock screen and the session is locked.
TakesAll(s) == s.exclusive # None /\ (s.locked => s.exclusive = "lock screen")

KeyPressed(s, key) ==
    IF TakesAll(s)
    THEN LET t == Release(SetFocus(s, Layer))
         IN  {Forward(t, key)}
             \cup (IF "reset" \in Shortcuts(t.pressed, key)
                   THEN {[t EXCEPT !.suppressed = @ \cup {key}]} ELSE {})
    ELSE FilterPressed(s, key)

KeyReleased(s, key) ==
    LET t == MediaRelease(s, key)
    IN  IF TakesAll(t) THEN FilterReleased(Release(SetFocus(t, Layer)), key)
        ELSE FilterReleased(Release(t), key)

SwallowWakeKey(s, key, state) ==
    IF state = "pressed" THEN [s EXCEPT !.suppressed = @ \cup {key}]
    ELSE [s EXCEPT !.suppressed = @ \ {key},
                   !.slipped = @ \cup {key},
                   !.kept = @ \cup ({key} \cap s.forwarded)]

PressKey(key) ==
    /\ key \notin in.down
    /\ Cardinality(in.down) < MaxPresses
    /\ LET s == [in EXCEPT !.down = @ \cup {key}, !.pressed = @ \cup {key}]
       IN  IF s.asleep THEN in' = SwallowWakeKey([s EXCEPT !.asleep = FALSE], key, "pressed")
           ELSE in' \in KeyPressed(s, key)
    /\ UNCHANGED worker

ReleaseKey(key) ==
    /\ key \in in.down
    /\ LET s == [in EXCEPT !.down = @ \ {key}, !.pressed = @ \ {key}]
       IN  in' = IF s.asleep THEN SwallowWakeKey([s EXCEPT !.asleep = FALSE], key, "released")
                 ELSE KeyReleased(s, key)
    /\ UNCHANGED worker

-----------------------------------------------------------------------------
(* The pointer. *)

Left == CHOOSE b \in Buttons : \A c \in Buttons : b <= c
Held(s) == s.pressed \cap {"Super", "Alt"}

StartFloatingResize(s, w) ==
    [s EXCEPT !.grab = [kind |-> "resize", window |-> w],
              !.resizing = @ \cup {w}, !.dropped = @ \ {w}]

\* A window takes a drag with Super; it may be full screen or have no divider
\* to move, and then takes none.
StartSuperDrag(s, b, w) ==
    LET t == ActivateWindow(s, w)
    IN  IF b = Left THEN {[t EXCEPT !.grab = [kind |-> "move", window |-> w]]}
        ELSE {StartFloatingResize(t, w), [t EXCEPT !.grab = [kind |-> "tile", window |-> w]]}

StartBorderResize(s, w) ==
    LET t == ActivateWindow(s, w)
    IN  {StartFloatingResize(t, w), [t EXCEPT !.grab = [kind |-> "tile", window |-> w]]}

\* The window with the whole screen takes the keyboard without being raised, and
\* whether or not the session is locked.
FocusFull(s, w) == [SetFocus(s, w) EXCEPT !.through = IF s.locked THEN w ELSE @]

UpdateKeyboardFocus(s, under, full) ==
    IF s.grab # NoGrab \/ s.touch # NoTouch THEN s
    ELSE IF full THEN FocusFull(s, under)
    ELSE IF under = Layer THEN SetFocus(s, Layer)
    ELSE IF under \in Wins THEN ActivateWindow(s, under)
    ELSE s

\* The pointer itself, after the compositor: a press starts a click grab.
Pressed(s, b) ==
    [s EXCEPT !.clicks = @ \cup {b},
              !.grab = IF s.grab = NoGrab THEN [kind |-> "click", window |-> None] ELSE @]

\* (A window with the whole screen has no border and takes no drag.)
ButtonPressed(s, b, under, border, full) ==
    IF s.bar
    THEN {[s EXCEPT !.swallowed = @ \cup {b}], [s EXCEPT !.swallowed = @ \cup {b}, !.bar = FALSE]}
    ELSE {Pressed(t, b) : t \in
            IF s.grab = NoGrab /\ ~s.locked /\ under \in Wins /\ ~border /\ ~full /\ Held(s) = {"Super"}
            THEN StartSuperDrag(s, b, under) \cup {UpdateKeyboardFocus(s, under, FALSE)}
            ELSE IF s.grab = NoGrab /\ ~s.locked /\ under \in Wins /\ border /\ Held(s) = {} /\ b = Left
            THEN StartBorderResize(s, under) \cup {UpdateKeyboardFocus(s, None, FALSE)}
            ELSE {UpdateKeyboardFocus(s, IF border THEN None ELSE under, full)}}

\* The resize ends: the last size is asked for and the client's answer awaited.
EndResize(s) ==
    IF s.grab.kind = "resize" THEN [s EXCEPT !.resizing = @ \ {s.grab.window}] ELSE s

ButtonReleased(s, b) ==
    IF b \in s.swallowed
    THEN [s EXCEPT !.swallowed = @ \ {b}, !.missed = (@ \ {b}) \cup ({b} \cap s.clicks)]
    ELSE LET t == [s EXCEPT !.clicks = @ \ {b}]
         IN  IF t.clicks = {} /\ t.grab # NoGrab
             THEN [EndResize(t) EXCEPT !.grab = NoGrab] ELSE t

PressButton(b, under, border, full) ==
    /\ b \notin in.buttons
    /\ under \in Available(in) \cup {Layer, None}
    /\ full => under \in Wins /\ ~border
    /\ LET s == [in EXCEPT !.buttons = @ \cup {b},
                          !.missed = @ \ ({b} \ in.swallowed)]
       IN  IF s.asleep THEN in' = [s EXCEPT !.asleep = FALSE, !.woke = @ \cup {b}]
           ELSE in' \in ButtonPressed(s, b, under, border, full)
    /\ UNCHANGED worker

ReleaseButton(b) ==
    /\ b \in in.buttons
    /\ LET s == [in EXCEPT !.buttons = @ \ {b}, !.woke = @ \ {b}]
       IN  in' = IF s.asleep
                 THEN [s EXCEPT !.asleep = FALSE, !.missed = @ \cup ({b} \cap (s.clicks \cup s.swallowed))]
                 ELSE ButtonReleased(s, b)
    /\ UNCHANGED worker

\* A client asks to be moved or resized; the click is on it, where the pointer
\* has been since.
MoveRequest(w) ==
    /\ in.grab.kind = "click" /\ w \in Available(in) /\ in.over = w
    /\ in' = [in EXCEPT !.grab = [kind |-> "move", window |-> w]]
    /\ UNCHANGED worker

ResizeRequest(w) ==
    /\ in.grab.kind = "click" /\ w \in Available(in) /\ in.over = w
    /\ in' = StartFloatingResize(in, w)
    /\ UNCHANGED worker

\* A finger: it gives the keyboard to what it is on and starts a grab, for a
\* window unless the session is locked; a window being dragged listens to its
\* own finger only.
TouchDown(f, under, full) ==
    /\ f \notin in.fingers
    /\ under \in Available(in) \cup {Layer, None}
    /\ full => under \in Wins
    /\ LET s == [in EXCEPT !.fingers = @ \cup {f}]
           t == UpdateKeyboardFocus(s, under, full)
       IN  in' = IF s.asleep THEN [s EXCEPT !.asleep = FALSE, !.lifted = TRUE]
                 ELSE CASE t.touch.kind = "none" ->
                             [t EXCEPT !.touch = [kind |-> "down", window |-> None, slot |-> f, points |-> 1,
                                                  on |-> IF t.locked THEN Behind ELSE under]]
                        [] t.touch.kind = "down" -> [t EXCEPT !.touch.points = @ + 1]
                        [] OTHER -> t
    /\ UNCHANGED worker

EndTouchResize(s) ==
    IF s.touch.kind = "resize" THEN [s EXCEPT !.resizing = @ \ {s.touch.window}] ELSE s

TouchUp(f) ==
    /\ f \in in.fingers
    /\ LET s == [in EXCEPT !.fingers = @ \ {f}]
       IN  in' = IF s.asleep THEN [s EXCEPT !.asleep = FALSE, !.lifted = TRUE]
                 ELSE CASE s.touch.kind = "down" ->
                             IF s.touch.points = 1 THEN [s EXCEPT !.touch = NoTouch]
                             ELSE [s EXCEPT !.touch.points = @ - 1]
                        [] s.touch.kind \in {"move", "resize"} /\ s.touch.slot = f ->
                             [EndTouchResize(s) EXCEPT !.touch = NoTouch]
                        [] OTHER -> s
    /\ UNCHANGED worker

\* The screen takes all fingers back: a resize is left as it was.
TouchCancel ==
    /\ in.fingers # {} /\ ~in.asleep
    /\ in' = [in EXCEPT !.fingers = {}, !.touch = NoTouch,
                        !.dropped = @ \cup (IF in.touch.kind = "resize"
                                            THEN {in.touch.window} \cap in.resizing ELSE {})]
    /\ UNCHANGED worker

\* A motion finds the window that is resized gone.
TouchMotion ==
    /\ in.touch.kind = "resize" /\ in.touch.slot \in in.fingers
    /\ in.touch.window \notin Available(in)
    /\ in' = [in EXCEPT !.touch = NoTouch]
    /\ UNCHANGED worker

\* The drag belongs to the finger that came first, which may have left.  It may
\* have come before a lock.
TouchRequest(w, kind) ==
    /\ in.touch.kind = "down" /\ w \in Available(in) /\ in.touch.on = w
    /\ in' = [in EXCEPT !.touch = [@ EXCEPT !.kind = kind, !.window = w],
                        !.lifted = @ \/ in.touch.slot \notin in.fingers,
                        !.resizing = IF kind = "resize" THEN @ \cup {w} ELSE @,
                        !.dropped = IF kind = "resize" THEN @ \ {w} ELSE @]
    /\ UNCHANGED worker

\* What is under the pointer: while locked the lock screen and nothing else; the
\* window with the whole screen, a panel above the windows, a window, a panel
\* below them.
SurfaceUnder(s, window, full, layer) ==
    IF s.locked THEN (IF s.exclusive = "lock screen" THEN Layer ELSE None)
    ELSE IF full THEN window
    ELSE IF layer = "above" THEN Layer
    ELSE IF window # None THEN window
    ELSE IF layer = "below" THEN Layer ELSE None

\* A click keeps the pointer with what was clicked, a drag keeps it from all.
MovePointer(window, full, layer) ==
    /\ window \in Available(in) \cup {None}
    /\ full => window # None
    /\ ~in.asleep
    /\ in' = [in EXCEPT !.over = IF in.grab = NoGrab THEN SurfaceUnder(in, window, full, layer)
                                ELSE IF in.grab.kind = "click" THEN @ ELSE None]
    /\ UNCHANGED worker

\* The grab's window is gone: a drag of the divider or of the border ends with
\* the next motion, a window that is moved is let go with the button.
Motion ==
    /\ in.grab.kind \in {"tile", "resize"}
    /\ in.grab.window \notin Available(in)
    /\ in' = [in EXCEPT !.grab = NoGrab]
    /\ UNCHANGED worker

\* Super and the wheel step through the tiles; anything else scrolls.
Scroll(amount, tiling) ==
    /\ ~in.asleep
    /\ LET against == in.scroll # 0 /\ (in.scroll > 0) # (amount > 0)
           sum == (IF against THEN 0 ELSE in.scroll) + amount
       IN  IF "Super" \in in.pressed /\ ~in.bar /\ ~in.locked /\ tiling
           THEN \E w \in Available(in) :
                  in' = [IF sum > 1 \/ sum < -1 THEN ActivateWindow(in, w) ELSE in
                           EXCEPT !.scroll = IF sum > 1 THEN sum - 2 ELSE IF sum < -1 THEN sum + 2 ELSE sum]
           ELSE in' = [in EXCEPT !.scroll = 0]
    /\ UNCHANGED worker

-----------------------------------------------------------------------------
(* Around it. *)

Open(w) ==
    /\ w \notin Available(in)
    /\ in' = ActivateWindow([in EXCEPT !.stack = <<w>> \o @], w)
    /\ UNCHANGED worker

\* The turn that finds the client gone.
Close(w) ==
    /\ w \in Available(in)
    /\ in' = RefreshFocus([in EXCEPT !.stack = Without(@, w), !.over = IF @ = w THEN None ELSE @,
                                     !.touch.on = IF @ = w THEN None ELSE @,
                                     !.resizing = @ \ {w}, !.dropped = @ \ {w}])
    /\ UNCHANGED worker

\* The events of a turn are dispatched.
TurnEnds == in' = [RefreshFocus(in) EXCEPT !.through = None] /\ UNCHANGED worker

Lock == ~in.locked /\ in' = SetLocked(in) /\ UNCHANGED worker
Unlock == in.locked /\ in' = [in EXCEPT !.locked = FALSE] /\ UNCHANGED worker

Sleep ==
    /\ ~in.asleep /\ in.naps < MaxNaps
    /\ in' = [in EXCEPT !.asleep = TRUE, !.naps = @ + 1]
    /\ UNCHANGED worker

PauseSession == in.held # NoKey /\ in' = MediaStop(in) /\ UNCHANGED worker

LayerChanges(layer) ==
    /\ in.exclusive # layer
    /\ layer = "lock screen" => in.locked
    /\ in' = IF layer = None /\ in.focus = Layer
             THEN PassFocus([in EXCEPT !.exclusive = None])
             ELSE [in EXCEPT !.exclusive = layer]
    /\ UNCHANGED worker

\* The worker reads a message: a press starts the repeat unless the device
\* refuses or the key does not repeat, a release ends it.
WorkerReads ==
    /\ in.sent # <<>>
    /\ LET m == Head(in.sent)
       IN  worker' \in IF m.press THEN {m.key, NoKey}
                       ELSE {IF worker = m.key THEN NoKey ELSE worker}
    /\ in' = [in EXCEPT !.sent = Tail(@)]

\* Nothing came in time: the key's action again, which may fail.
WorkerRepeats == worker # NoKey /\ in.sent = <<>> /\ worker' = NoKey /\ UNCHANGED in

Uses(keys) == \E k \in keys : PressKey(k) \/ ReleaseKey(k)

Ordinary == CHOOSE w \in Wins \ Inhibiting : TRUE
MovesOver(wins) ==
    \E w \in wins \cup {None}, full \in BOOLEAN, l \in {"above", "below", None} : MovePointer(w, full, l)

\* The five scenes a check plays: every key and the wheel under layers, locks
\* and sleep; the switcher while windows come and go; the media worker; the
\* pointer; the touch screen beside it.
KeysNext ==
    \/ Uses(Keys \ {"Volume"})
    \/ \E w \in Inhibiting : Open(w)
    \/ MovesOver(Inhibiting)
    \/ \E amount \in {1, -1}, tiling \in BOOLEAN : Scroll(amount, tiling)
    \/ \E l \in {None, "panel", "lock screen"} : LayerChanges(l)
    \/ TurnEnds \/ Lock \/ Unlock \/ Sleep

SwitcherNext ==
    \/ Uses({"Super", "Alt", "Tab", "Escape"})
    \/ \E w \in Wins : Open(w) \/ Close(w)
    \/ TurnEnds \/ Lock \/ Unlock \/ Sleep

MediaNext ==
    \/ Uses({"Volume", "Super", "Text"})
    \/ \E l \in {None, "lock screen"} : LayerChanges(l)
    \/ Lock \/ Unlock \/ Sleep \/ PauseSession
    \/ WorkerReads \/ WorkerRepeats

PointerNext ==
    \/ Uses({"Super", "Text"})
    \/ \E b \in Buttons, u \in {Ordinary, Layer, None}, border, full \in BOOLEAN : PressButton(b, u, border, full)
    \/ \E b \in Buttons : ReleaseButton(b)
    \/ MovesOver({Ordinary})
    \/ \E w \in {Ordinary} : Open(w) \/ Close(w) \/ MoveRequest(w) \/ ResizeRequest(w)
    \/ Motion \/ TurnEnds \/ Lock \/ Unlock \/ Sleep

TouchNext ==
    \/ \E f \in Fingers, u \in {Ordinary, Layer, None}, full \in BOOLEAN : TouchDown(f, u, full)
    \/ \E f \in Fingers : TouchUp(f)
    \/ TouchCancel \/ TouchMotion
    \/ TouchRequest(Ordinary, "move") \/ TouchRequest(Ordinary, "resize")
    \/ \E u \in {Ordinary, None}, border \in BOOLEAN : PressButton(Left, u, border, FALSE)
    \/ ReleaseButton(Left)
    \/ Open(Ordinary) \/ Close(Ordinary)
    \/ TurnEnds \/ Lock \/ Unlock \/ Sleep

\* Bound: the messages the media worker has not read.
InputBound == Len(in'.sent) <= MaxSent

-----------------------------------------------------------------------------
(***************************************************************************)
(* A key the clients know to be held is held, and a key that was kept from *)
(* them is kept until it is let go: keyboard_key_to_action and             *)
(* swallow_wake_input pair every press with its release.  The exception is *)
(* a key that was held when the screen went to sleep and whose release     *)
(* wakes it: the clients never learn of that one.                          *)
(***************************************************************************)
KeysAreLetGo ==
    /\ in.forwarded \subseteq in.down \cup in.kept
    /\ in.suppressed \subseteq in.down
    /\ in.pressed = in.down

(***************************************************************************)
(* The switcher is open only while its modifier is held, shows a window    *)
(* that is selected, and nothing of it survives a lock.  A modifier whose  *)
(* release woke the screen is noticed at the next key.                     *)
(***************************************************************************)
SwitcherFollowsTheKeys ==
    Active(in) =>
        /\ in.focus = Selected(in) \/ Selected(in) \notin Available(in)
        /\ ~in.locked
        /\ in.sel.modifier \in in.down \cup in.slipped

(***************************************************************************)
(* A media key repeats only while it is held: when the worker has read     *)
(* what it was sent, it repeats the held key or none, and that key is      *)
(* down, or its release is what woke the screen.                           *)
(***************************************************************************)
RepeatsWhatIsHeld ==
    /\ in.sent = <<>> => worker \in {NoKey, in.held}
    /\ in.locked => in.held = NoKey

(***************************************************************************)
(* A drag lasts as long as a button is down, and a window counts as being  *)
(* resized as long as it is dragged.  The exceptions: the release that     *)
(* woke the screen, which neither the grab nor the Mind bar that kept the  *)
(* press ever saw, nor the touch screen a finger; a drag of a finger that  *)
(* had left; and a resize the lock or a cancelled touch broke off, which   *)
(* leaves the window in ResizeState::Resizing.                             *)
(***************************************************************************)
DragsEnd ==
    /\ in.grab # NoGrab => in.clicks # {}
    /\ in.clicks \subseteq in.buttons \cup in.missed
    /\ in.swallowed \subseteq in.buttons \cup in.missed
    /\ in.resizing \subseteq {in.grab.window, in.touch.window} \cup in.dropped
    /\ in.touch # NoTouch => in.fingers # {} \/ in.lifted

(***************************************************************************)
(* Behind the lock nothing works: no window has the keyboard or the        *)
(* pointer, no bar is open and no button drags a window; nor does a finger *)
(* that came down behind it, then or later.  The exceptions: a press on    *)
(* the window with the whole screen gives it the keyboard until the turn   *)
(* ends; and a finger that came down before the lock may drag on.          *)
(***************************************************************************)
LockedStaysQuiet ==
    /\ in.locked =>
         /\ in.focus \in Wins => in.focus = in.through
         /\ in.over \notin Wins
         /\ ~in.bar
         /\ in.grab.kind \in {"none", "click"}
    /\ in.touch.kind \in {"move", "resize"} => in.touch.on # Behind

\* All five: what takes a press sees its end.
InputIsPaired ==
    /\ KeysAreLetGo
    /\ SwitcherFollowsTheKeys
    /\ RepeatsWhatIsHeld
    /\ DragsEnd
    /\ LockedStaysQuiet
=============================================================================
