------------------------------ MODULE Windows ------------------------------
(***************************************************************************)
(* mindwm/src/{state,desk}.rs and shell/{mod,xdg,x11}.rs: which windows    *)
(* are in the space, minimised or stashed with a desk that is not showing, *)
(* who has the keyboard, and who has an output's fullscreen slot.          *)
(*                                                                         *)
(* The compositor is one thread.  Its state is the record wm and its       *)
(* functions are operators on it, with their names; an action is a handler.*)
(* A turn of the loop dispatches any number of handlers and then brings    *)
(* everything up to date (AfterDispatch).  A window here is one            *)
(* WindowElement: an X11 window that is mapped again is another one.  There*)
(* is one output, the layout floats.                                       *)
(***************************************************************************)
EXTENDS Naturals, Sequences, SequencesExt, FiniteSets

CONSTANTS
    Toplevels,     \* xdg windows
    X11Windows,    \* windows of XWayland
    Parent,        \* the window a dialog belongs to, NoWindow for others
    Client,        \* the connection a window came from
    Desks,         \* names of desks, strings
    StickyLists,   \* sets of windows whose application is on a sticky list
    NoWindow,
    MaxBatch       \* bound: handlers in one turn of the loop

W == Toplevels \cup X11Windows

ASSUME WindowsAssumption ==
    /\ Toplevels \cap X11Windows = {}
    /\ NoWindow \notin W
    /\ Parent \in [W -> W \cup {NoWindow}]
    /\ \A w \in W : Parent[w] # w
    /\ Client \in [W -> W]
    /\ \A w \in W : Parent[w] # NoWindow => Client[w] = Client[Parent[w]]
    /\ "" \notin Desks
    /\ \A s \in StickyLists : s \subseteq W
    /\ MaxBatch \in Nat

VARIABLE wm

\* No desk yet: a window between its mapping and the end of the turn.
NoTag == "untagged"
Layers == {"panel", "lock screen"}

WindowsInit ==
    wm = [space |-> <<>>,          \* bottom to top
          minimized |-> {},
          stashed |-> <<>>,
          alive |-> {},            \* windows of clients, known and not destroyed
          mapped |-> {},           \* those of them that want to be shown
          drawn |-> {},            \* windows that have a size
          tag |-> [w \in W |-> NoTag],
          current |-> "",          \* the desk, "" before the shell has set one
          sticky |-> {},
          lastFocus |-> [d \in Desks |-> NoWindow],
          focus |-> "none",        \* a window, a layer or "none"
          layers |-> {},           \* layer surfaces that are up
          locked |-> FALSE,
          asked |-> {},            \* xdg windows with Fullscreen in the pending state
          full |-> {},             \* window_is_fullscreen
          slot |-> NoWindow,       \* FullscreenSurface of the output
          handled |-> 0]           \* handlers since the end of the last turn

-----------------------------------------------------------------------------
(***************************************************************************)
(* Functions of the state.                                                 *)
(***************************************************************************)

Set(seq) == {seq[i] : i \in DOMAIN seq}
Without(seq, w) == SelectSeq(seq, LAMBDA x : x # w)
Placed(s) == Set(s.space) \cup s.minimized \cup Set(s.stashed)
AllWindows(s) == s.space \o s.stashed \o SetToSeq(s.minimized)

\* FullscreenSurface::get: a dead window is dropped.
Slot(s) == IF s.slot \in s.alive THEN s.slot ELSE NoWindow

WindowParent(s, w) == IF Parent[w] \in Placed(s) THEN Parent[w] ELSE NoWindow

\* sticky_under: the application's, or that of a window it is a dialog of.
StickyUnder(s, list, w) ==
    LET up[n \in 0..8, v \in W] ==
          /\ n < 8
          /\ \/ v \in list
             \/ WindowParent(s, v) # NoWindow /\ up[n + 1, WindowParent(s, v)]
    IN list # {} /\ up[0, w]

WindowSticky(s, w) == StickyUnder(s, s.sticky, w)

WindowDesk(s, w) == IF s.tag[w] = NoTag THEN "" ELSE s.tag[w]

ShowsOn(current, desk, sticky) == sticky \/ desk = "" \/ desk = current

Shows(s, w) == ShowsOn(s.current, WindowDesk(s, w), WindowSticky(s, w))

IsAway(s, w) == w \in Set(s.stashed) \/ (w \in s.minimized /\ ~Shows(s, w))

FocusedWindow(s) == IF s.focus \in W THEN s.focus ELSE NoWindow

SameProgram(a, b) ==
    /\ a \in X11Windows <=> b \in X11Windows
    /\ Parent[a] = b \/ Parent[b] = a \/ Client[a] = Client[b]

MayInterruptFullscreen(s, w) ==
    LET game == FocusedWindow(s) IN
    \/ game \in {NoWindow, w}
    \/ game \notin s.alive \cap s.full
    \/ SameProgram(game, w)

-----------------------------------------------------------------------------
(***************************************************************************)
(* The keyboard.                                                           *)
(***************************************************************************)

\* keyboard.set_focus and, when that is a change, focus_changed: the output
\* is drawn for the window that has the keyboard.
SetFocus(s, target) ==
    IF s.focus = target THEN s
    ELSE [s EXCEPT !.focus = target,
                   !.slot = IF target \notin W THEN @
                            ELSE IF target \in s.full THEN target ELSE NoWindow]

FocusWindow(s, w) == IF s.locked THEN s ELSE SetFocus(s, w)

FocusNewWindow(s, w) == IF MayInterruptFullscreen(s, w) THEN FocusWindow(s, w) ELSE s

RefreshFocus(s) ==
    IF s.locked
    THEN IF s.focus = "lock screen" /\ s.focus \in s.layers THEN s ELSE SetFocus(s, "none")
    ELSE IF s.focus \in (s.alive \cap Set(s.space)) \cup s.layers THEN s
    ELSE SetFocus(s, IF s.space = <<>> THEN "none" ELSE Last(s.space))

-----------------------------------------------------------------------------
(***************************************************************************)
(* Stacking, minimising and stashing.                                      *)
(***************************************************************************)

MapElement(s, w) == [s EXCEPT !.space = Append(Without(@, w), w)]

\* A window and the dialogs above it, in the order activate_window finds them.
Group(s, w) ==
    LET children(group) ==
          SelectSeq(s.space, LAMBDA c : c \notin Set(group) /\ Parent[c] \in Set(group))
        grow[n \in 0..Cardinality(W)] ==
          IF n = 0 THEN <<w>> ELSE grow[n - 1] \o children(grow[n - 1])
    IN grow[Cardinality(W)]

ActivateWindow(s, w) ==
    IF s.locked \/ w \in s.minimized \cup Set(s.stashed) THEN s
    ELSE LET group == Group(s, w)
             raised == SelectSeq(group, LAMBDA x : x \in Set(s.space))
             rest == SelectSeq(s.space, LAMBDA x : x \notin Set(group))
         IN FocusWindow([s EXCEPT !.space = rest \o raised], Last(group))

\* take_out_of_space of a window that is there.
TakeOutOfSpace(s, w) ==
    [s EXCEPT !.space = Without(@, w),
              !.slot = IF @ = w THEN NoWindow ELSE @]

\* put_back_in_space.  It asks for the outputs of the element to give back
\* the slot, which a newly mapped element does not have before the next
\* refresh: only the keyboard brings the slot back.
PutBackInSpace(s, w) == IF w \in s.alive THEN MapElement(s, w) ELSE s

StashWindow(s, w) ==
    IF w \notin Set(s.space) THEN s
    ELSE [TakeOutOfSpace(s, w) EXCEPT !.stashed = Append(@, w)]

RestoreWindow(s, w) ==
    IF w \notin Set(s.stashed) THEN s
    ELSE PutBackInSpace([s EXCEPT !.stashed = Without(@, w)], w)

MinimizeWindow(s, w) ==
    IF w \in s.minimized THEN s
    ELSE IF w \in Set(s.stashed)
    THEN [s EXCEPT !.stashed = Without(@, w), !.minimized = @ \cup {w}]
    ELSE IF w \in Set(s.space)
    THEN RefreshFocus([TakeOutOfSpace(s, w) EXCEPT !.minimized = @ \cup {w}])
    ELSE s

-----------------------------------------------------------------------------
(***************************************************************************)
(* Desks.                                                                  *)
(***************************************************************************)

\* tag_new_windows: the desk of the window it belongs to, else the current
\* one.  Later windows of the list see the tags of earlier ones.
TagNewWindows(s) ==
    FoldLeft(LAMBDA t, w :
               LET p == WindowParent(t, w) IN
               IF t.tag[w] # NoTag THEN t
               ELSE [t EXCEPT !.tag[w] = IF p # NoWindow /\ t.tag[p] # NoTag
                                         THEN t.tag[p] ELSE t.current],
             s, AllWindows(s))

ForgetDead(seq, s) == SelectSeq(seq, LAMBDA w : w \in s.alive)

\* desks_refresh: windows that opened for a desk that is not showing go away.
DesksRefresh(s) ==
    LET t == TagNewWindows([s EXCEPT !.stashed = ForgetDead(@, s)])
        strays == SelectSeq(t.space, LAMBDA w : /\ t.tag[w] \notin {NoTag, "", t.current}
                                                /\ w \in t.drawn
                                                /\ ~WindowSticky(t, w))
    IN IF strays = <<>> THEN t ELSE RefreshFocus(FoldLeft(StashWindow, t, strays))

\* switch_window, the desk a window belongs to after a switch.
SwitchWindow(new, desk, before) == IF desk = "" \/ before THEN new ELSE desk

\* set_desk writes down who had the keyboard and tags what was here before, ...
Leave(t, desk, sticky) ==
    [t EXCEPT !.current = desk,
              !.sticky = sticky,
              !.lastFocus = IF t.current \notin {desk, ""} /\ FocusedWindow(t) # NoWindow
                            THEN [@ EXCEPT ![t.current] = FocusedWindow(t)] ELSE @,
              !.tag = [w \in W |->
                         IF w \in Placed(t)
                         THEN SwitchWindow(desk, WindowDesk(t, w), StickyUnder(t, t.sticky, w))
                         ELSE @[w]]]

\* ... stashes the windows that do not show on this desk and brings back those
\* that do, ...
Exchange(t, left, desk, sticky) ==
    LET shows(w) == ShowsOn(desk, left.tag[w], StickyUnder(t, sticky, w))
    IN  FoldLeft(RestoreWindow,
                 FoldLeft(StashWindow, left, SelectSeq(t.space, LAMBDA w : ~shows(w))),
                 SelectSeq(t.stashed, LAMBDA w : shows(w)))

\* ... and gives the keyboard to the window that had it here last, or else to
\* the topmost one of this desk.
FocusOnArrival(s, desk) ==
    LET mine == SelectSeq(s.space, LAMBDA w : s.tag[w] = desk /\ ~WindowSticky(s, w))
    IN  IF s.lastFocus[desk] \in Set(s.space) THEN ActivateWindow(s, s.lastFocus[desk])
        ELSE IF mine # <<>> THEN ActivateWindow(s, Last(mine))
        ELSE RefreshFocus(s)

SwitchTo(t, desk, sticky) ==
    LET here == Exchange(t, Leave(t, desk, sticky), desk, sticky)
    IN  IF t.current = desk THEN here ELSE FocusOnArrival(here, desk)

SetDesk(s, desk, sticky) ==
    SwitchTo(TagNewWindows([s EXCEPT !.stashed = ForgetDead(@, s)]), desk, sticky)

MoveWindowToDesk(s, w, desk) ==
    LET t == [TagNewWindows(s) EXCEPT !.tag[w] = desk]
        shows == ShowsOn(t.current, desk, WindowSticky(t, w))
    IN IF w \in Set(t.stashed) THEN IF shows THEN RestoreWindow(t, w) ELSE t
       ELSE IF ~shows /\ w \notin t.minimized THEN RefreshFocus(StashWindow(t, w))
       ELSE t

\* Mutant: the window is brought back without its desk.
ShowDeskOfNot(s, w) == RestoreWindow(s, w)

ShowDeskOf(s, w) ==
    IF ~IsAway(s, w) THEN s
    ELSE LET desk == WindowDesk(s, w)
         IN RestoreWindow(IF desk = s.current THEN s ELSE SetDesk(s, desk, s.sticky), w)

BackOnScreen(s, w) == IF w \in s.alive THEN ActivateWindow(PutBackInSpace(s, w), w) ELSE s

\* unminimize_window: its desk first, which may be enough.
OffTheList(s, w) ==
    IF w \notin s.minimized THEN s
    ELSE BackOnScreen([s EXCEPT !.minimized = @ \ {w}], w)

UnminimizeWindow(s, w) == OffTheList(ShowDeskOf(s, w), w)

-----------------------------------------------------------------------------
(***************************************************************************)
(* Handlers of requests of clients.                                        *)
(***************************************************************************)

Settled == wm.handled = 0

\* A handler makes s of the state.
Handled(s) == wm.handled < MaxBatch /\ wm' = [s EXCEPT !.handled = @ + 1]

\* The window is not there, and no trace of one of that name is.
New(w) ==
    /\ w \notin wm.alive \cup Placed(wm)
    /\ wm.tag[w] = NoTag
    /\ \A c \in wm.alive : Parent[c] # w

Opened(s, w) == MapElement([s EXCEPT !.alive = @ \cup {w}, !.mapped = @ \cup {w}], w)

NewToplevel(w) ==
    /\ w \in Toplevels /\ New(w)
    /\ Parent[w] # NoWindow => Parent[w] \in wm.alive
    /\ Handled(FocusNewWindow(Opened(wm, w), w))

\* A commit: the window has a size, and the state it has acknowledged is current.
Commit(w) ==
    /\ w \in Toplevels \cap wm.alive
    /\ w \notin wm.drawn \/ ((w \in wm.asked) # (w \in wm.full))
    /\ Handled([wm EXCEPT !.drawn = @ \cup {w},
                          !.full = IF w \in wm.asked THEN @ \cup {w} ELSE @ \ {w}])

\* Destroyed, or its client is gone; the space is tidied at the end of the turn.
Destroyed(w) ==
    /\ w \in wm.alive
    /\ w \in X11Windows => w \notin wm.mapped
    /\ Handled([wm EXCEPT !.alive = @ \ {w}, !.mapped = @ \ {w}])

\* fullscreen_request of xdg windows, of one that is in the space.
XdgFullscreenRequest(s, w) ==
    IF w \notin Set(s.space) THEN s
    ELSE LET t == [s EXCEPT !.asked = @ \cup {w}] IN
         IF MayInterruptFullscreen(t, w) THEN [t EXCEPT !.slot = w] ELSE t

\* unfullscreen_request of xdg windows clears the slot of the output the
\* window asked for, whoever has it.
XdgUnfullscreenRequest(s, w) ==
    IF w \notin s.full THEN s
    ELSE [s EXCEPT !.asked = @ \ {w},
                   !.slot = IF w \in s.asked THEN NoWindow ELSE @]

\* fullscreen_x11 raises the window.
X11FullscreenRequest(s, w) ==
    IF w \notin Set(s.space) THEN s
    ELSE LET t == MapElement([s EXCEPT !.full = @ \cup {w}], w) IN
         IF MayInterruptFullscreen(t, w) THEN [t EXCEPT !.slot = w] ELSE t

X11UnfullscreenRequest(s, w) ==
    IF w \notin Set(s.space) THEN s
    ELSE [s EXCEPT !.full = @ \ {w}, !.slot = IF Slot(s) = w THEN NoWindow ELSE @]

FullscreenRequest(w) ==
    /\ w \in wm.alive
    /\ Handled(IF w \in Toplevels THEN XdgFullscreenRequest(wm, w)
               ELSE X11FullscreenRequest(wm, w))

UnfullscreenRequest(w) ==
    /\ w \in wm.alive
    /\ Handled(IF w \in Toplevels THEN XdgUnfullscreenRequest(wm, w)
               ELSE X11UnfullscreenRequest(wm, w))

\* map_window_request: the client's properties say whether it is fullscreen
\* from the start and whether it wants the keyboard.
MapWindowRequest(w) ==
    /\ w \in X11Windows /\ New(w)
    /\ \E fullscreen, wantsFocus \in BOOLEAN :
          LET s == [Opened(wm, w) EXCEPT !.drawn = @ \cup {w}]
              t == IF fullscreen THEN X11FullscreenRequest(s, w) ELSE s
          IN Handled(IF wantsFocus THEN FocusNewWindow(t, w) ELSE t)

\* Mutant: a minimised window that is unmapped stays on the list.
UnmappedLeavesMinimized(w) ==
    /\ w \in X11Windows \cap wm.mapped
    /\ Handled(RefreshFocus([wm EXCEPT !.mapped = @ \ {w},
                                       !.space = Without(@, w),
                                       !.stashed = Without(@, w)]))

\* unmapped_window: the window is forgotten wherever it is, and its slot is not.
UnmappedWindow(w) ==
    /\ w \in X11Windows \cap wm.mapped
    /\ Handled(RefreshFocus([wm EXCEPT !.mapped = @ \ {w},
                                       !.space = Without(@, w),
                                       !.minimized = @ \ {w},
                                       !.stashed = Without(@, w)]))

\* active_window_request: between windows of one program, or when none has the
\* keyboard.  (What X11 says is active may be the window that has it.)
ActiveWindowRequest(w) ==
    /\ w \in X11Windows \cap Set(wm.space)
    /\ FocusedWindow(wm) \in X11Windows \cup {NoWindow}
    /\ Handled(FocusWindow(MapElement(wm, w), w))

RequestActivation(w) ==
    /\ w \in Set(wm.space) \cup Set(wm.stashed)
    /\ Handled(ActivateWindow(ShowDeskOf(wm, w), w))

-----------------------------------------------------------------------------
(***************************************************************************)
(* Layers, the lock, input and the shell's requests.                       *)
(***************************************************************************)

\* A layer appears and asks for the keyboard (focus_new_layer), ...
LayerAppears(l) ==
    /\ l \notin wm.layers
    /\ LET s == [wm EXCEPT !.layers = @ \cup {l}]
       IN Handled(IF wm.locked /\ l # "lock screen" THEN s ELSE SetFocus(s, l))

LayerDestroyed(l) ==
    /\ l \in wm.layers
    /\ Handled(RefreshFocus([wm EXCEPT !.layers = @ \ {l}]))

\* ... and the lock screen is given it at every key.
LockScreenKey ==
    /\ wm.locked
    /\ "lock screen" \in wm.layers
    /\ Handled(SetFocus(wm, "lock screen"))

\* set_locked.
Lock == ~wm.locked /\ Handled(SetFocus([wm EXCEPT !.locked = TRUE], "none"))
Unlock == wm.locked /\ Handled([wm EXCEPT !.locked = FALSE])

\* update_keyboard_focus: the window in the slot, a panel, or a window.
ClickSlot ==
    /\ Slot(wm) # NoWindow
    /\ Handled(SetFocus(wm, Slot(wm)))

ClickLayer(l) ==
    /\ l \in wm.layers
    /\ Handled(SetFocus(wm, l))

ClickWindow(w) ==
    /\ Slot(wm) = NoWindow
    /\ w \in Set(wm.space)
    /\ Handled(ActivateWindow(wm, w))

\* ipc_request finds windows wherever they are.
IpcFocus(w) ==
    /\ ~wm.locked
    /\ w \in Placed(wm)
    /\ Handled(ActivateWindow(UnminimizeWindow(wm, w), w))

IpcMinimize(w) == w \in Placed(wm) /\ Handled(MinimizeWindow(wm, w))

IpcUnminimize(w) == w \in Placed(wm) /\ Handled(UnminimizeWindow(wm, w))

IpcToggleMinimize(w) ==
    /\ w \in Placed(wm)
    /\ Handled(IF w \in wm.minimized THEN UnminimizeWindow(wm, w)
               ELSE IF w \in Set(wm.stashed) THEN ActivateWindow(ShowDeskOf(wm, w), w)
               ELSE MinimizeWindow(wm, w))

\* ToggleFullscreen, and Super+F for the window that has the keyboard.
ToggleFullscreenOf(s, w) ==
    IF w \notin Set(s.space) THEN s
    ELSE IF w \in s.full
    THEN IF w \in Toplevels THEN XdgUnfullscreenRequest(s, w) ELSE X11UnfullscreenRequest(s, w)
    ELSE IF w \in Toplevels THEN XdgFullscreenRequest(s, w) ELSE X11FullscreenRequest(s, w)

IpcToggleFullscreen(w) ==
    /\ w \in Placed(wm)
    /\ Handled(ToggleFullscreenOf(UnminimizeWindow(wm, w), w))

IpcSetDesk(desk, sticky) == Handled(SetDesk(wm, desk, sticky))

IpcMoveToDesk(w, desk) ==
    /\ w \in Placed(wm)
    /\ Handled(MoveWindowToDesk(wm, w, desk))

\* A window that is gone leaves nothing behind but its id, which no other
\* window is given: its name can stand for a new one.
Forget(s) ==
    [s EXCEPT !.drawn = @ \cap s.alive,
              !.asked = @ \cap s.alive,
              !.full = @ \cap s.alive,
              !.slot = Slot(s),
              !.tag = [w \in W |-> IF w \in s.alive THEN @[w] ELSE NoTag],
              !.lastFocus = [d \in Desks |-> IF @[d] \in s.alive THEN @[d] ELSE NoWindow]]

\* after_dispatch: the space drops what is dead, the keyboard is looked after,
\* then minimised and stashed windows and the desks.
AfterDispatch ==
    /\ ~Settled
    /\ LET s == RefreshFocus([wm EXCEPT !.space = ForgetDead(@, wm)])
       IN wm' = [Forget(DesksRefresh([s EXCEPT !.minimized = @ \cap s.alive])) EXCEPT
                    !.handled = 0]

Lifecycle(w) ==
    \/ NewToplevel(w) \/ Commit(w) \/ Destroyed(w)
    \/ MapWindowRequest(w) \/ UnmappedWindow(w)

Screen ==
    \/ \E w \in W : FullscreenRequest(w) \/ UnfullscreenRequest(w) \/ IpcToggleFullscreen(w)
    \/ ClickSlot

Keyboard ==
    \/ \E w \in W : ActiveWindowRequest(w) \/ ClickWindow(w) \/ IpcFocus(w)
    \/ \E l \in Layers : LayerAppears(l) \/ LayerDestroyed(l) \/ ClickLayer(l)
    \/ LockScreenKey \/ Lock \/ Unlock

Minimizing == \E w \in W : IpcMinimize(w) \/ IpcUnminimize(w) \/ IpcToggleMinimize(w)

Switching ==
    \/ \E w \in W, d \in Desks : IpcMoveToDesk(w, d)
    \/ \E w \in W : RequestActivation(w)
    \/ \E d \in Desks, s \in StickyLists : IpcSetDesk(d, s)

WindowsNext ==
    \/ \E w \in W : Lifecycle(w)
    \/ Screen \/ Keyboard \/ Minimizing \/ Switching
    \/ AfterDispatch

-----------------------------------------------------------------------------
\* A window the compositor manages is in exactly one place, so that the shell
\* can reach it and no list brings it back twice: whatever mixture of
\* minimising, desks, unmapping and closing has moved it about.
EveryWindowHasOnePlace ==
    /\ IsInjective(AllWindows(wm))
    /\ Settled => Placed(wm) = wm.mapped

\* Between turns what is on screen is what belongs on this desk, and no window
\* of this desk is left in the stash, where nothing would bring it back
\* (desk.rs:388 "a window must never be left unreachable").
DesksAreHonest ==
    Settled =>
      /\ \A w \in Set(wm.space) \cap wm.drawn : Shows(wm, w)
      /\ \A w \in Set(wm.stashed) : ~Shows(wm, w)

\* Between turns the keyboard is with a window on screen or a layer that is up;
\* with none only if there is no window; and behind the lock with nobody but
\* the lock screen.
KeyboardHasAnOwner ==
    Settled =>
      IF wm.locked THEN wm.focus \in {"none"} \cup (wm.layers \cap {"lock screen"})
      ELSE \/ wm.focus \in Set(wm.space) \cup wm.layers
           \/ wm.focus = "none" /\ wm.space = <<>>

\* A window that is minimised or stashed never has an output's slot (state.rs:
\* 2022 "that is given back while it is away").
SlotIsGivenBack == Slot(wm) \notin wm.minimized \cup Set(wm.stashed)

\* All four: the compositor's lists, its desks, its keyboard and its slot agree.
WindowsAreReachable ==
    EveryWindowHasOnePlace /\ DesksAreHonest /\ KeyboardHasAnOwner /\ SlotIsGivenBack

\* Reaching for a window brings it on screen with its desk, from the
\* minimised ones, the stash, or both: also when the user moved on meanwhile.
ReachedWindowsShow ==
    \A w \in wm.mapped \ Set(wm.space) :
       LET reached == UnminimizeWindow(wm, w)
       IN w \in Set(reached.space) /\ Shows(reached, w)
=============================================================================
