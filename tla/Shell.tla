-------------------------------- MODULE Shell --------------------------------
(***************************************************************************)
(* mindshell: the windows of the shell and what decides which there are    *)
(* (app.rs with windows.rs): screens that come and go, the lock screen,    *)
(* popups, the login screen, the desktop's fade over the windows, and web  *)
(* processes that die.  polkit.rs is here because its dialog is one of     *)
(* those windows.  Each scene below is one of these at work; they share    *)
(* the windows and nothing else.                                           *)
(***************************************************************************)
EXTENDS Integers, Sequences, FiniteSetsExt, SequencesExt

CONSTANTS
    Connectors,   \* the outputs a monitor can be plugged into
    Panels,       \* the choices of layout.panels: sets of [id, output]
    MaxPlugs,     \* how often monitors are plugged in
    MaxRequests   \* how many authorisations are asked for

VARIABLES
    monitors,   \* windows::monitors(): the GDK monitors, top-left first
    shell,      \* App and its State
    agent,      \* the polkit agent's thread
    events,     \* HostEvent::Polkit on its way to the main loop
    desk,       \* one Desktop window: its layer, ground, opacity and fade
    view,       \* one WebView whose process dies, and a clock
    plugs       \* how many monitors have been plugged in

shellVars == <<monitors, shell, agent, events, desk, view, plugs>>

None == "none"
NoWindow == [kind |-> None]

\* ShellWindow.  monitor is the GDK object, a new one each time something is
\* plugged in; card is what the page was told in its URL, "primary".
NewWindow(kind, id, output, monitor, keyboard, card) ==
    [kind |-> kind, id |-> id, output |-> output, monitor |-> monitor,
     keyboard |-> keyboard, card |-> card]

\* A window as its view knows it: keyboard is the one field that changes.
ViewOf(w) == [kind |-> w.kind, id |-> w.id, output |-> w.output, monitor |-> w.monitor]

NewShell ==
    [windows |-> <<>>, first_view |-> NoWindow, retired |-> {}, sync_pending |-> FALSE,
     locked |-> FALSE, stage |-> "active", primary |-> None, panels |-> CHOOSE p \in Panels : TRUE,
     polkit |-> 0, running |-> TRUE, told |-> <<>>,
     moved |-> FALSE,      \* history: the first screen changed under a password field
     late |-> FALSE,       \* history: a page on its way out opened a popup
     orphaned |-> FALSE]   \* history: the dialog went with its screen

NewAgent == [phase |-> "idle", id |-> 0, attempt |-> 0, slot |-> None,
             queued |-> 0, leaked |-> FALSE]

NewDesk == [presenting |-> FALSE, layer |-> "Background", opaque |-> TRUE, opacity |-> 2,
            fade |-> None, edited |-> FALSE]

NewView == [crashes |-> 0, last_crash |-> -1, wait |-> -1, loaded |-> TRUE, reloads |-> <<>>]

-----------------------------------------------------------------------------
(* Windows.                                                                *)

Live(s) == Range(s.windows)

Named(s, kind, id, output) ==
    {w \in Live(s) : w.kind = kind /\ w.id = id /\ w.output = output}

FindPopup(s, name) == {w \in Live(s) : w.kind = "Popup" /\ w.id = name}

\* The pages that open popups: of the windows hidden and not yet destroyed
\* only these have anything left to ask for.
OpensPopups(w) == w.kind = "Panel"

\* Mutant: the view is handed to any other window, a lock window too.
RemoveAny(s, w) ==
    LET rest == SelectSeq(s.windows, LAMBDA x : x # w)
    IN [s EXCEPT !.windows = rest,
                 !.retired = IF OpensPopups(w) THEN @ \cup {w} ELSE @,
                 !.first_view = CASE @ # ViewOf(w) -> @
                                  [] rest = <<>> -> NoWindow
                                  [] OTHER -> ViewOf(rest[1])]

RemoveWindow(s, w) ==
    LET rest == SelectSeq(s.windows, LAMBDA x : x # w)
        heirs == SelectSeq(rest, LAMBDA x : x.kind # "Lock")
    IN [s EXCEPT !.windows = rest,
                 !.retired = IF OpensPopups(w) THEN @ \cup {w} ELSE @,
                 !.first_view = CASE @ # ViewOf(w) -> @
                                  [] heirs = <<>> -> NoWindow
                                  [] OTHER -> ViewOf(heirs[1])]

RemoveAll(s, ws) == FoldLeft(RemoveWindow, s, SelectSeq(s.windows, LAMBDA w : w \in ws))

CreateWindow(s, w) ==
    [s EXCEPT !.windows = Append(@, w),
              !.first_view = IF w.kind # "Lock" /\ @ = NoWindow THEN ViewOf(w) ELSE @]

Gone(s) ==
    {w \in Live(s) : ~ \E m \in Range(monitors) : m.name = w.output /\ m.monitor = w.monitor}

SetKeyboard(s, w, on) ==
    [s EXCEPT !.windows = [i \in DOMAIN @ |-> IF @[i] = w THEN [w EXCEPT !.keyboard = on] ELSE @[i]]]

LockOn(s, i) ==
    LET m == monitors[i]
        there == Named(s, "Lock", "lock", m.name)
        keyboard == s.locked /\ i = 1
    IN IF there = {} THEN CreateWindow(s, NewWindow("Lock", "lock", m.name, m.monitor, keyboard, i = 1))
       ELSE SetKeyboard(s, CHOOSE w \in there : TRUE, keyboard)

Locks(s) == {w \in Live(s) : w.kind = "Lock"}

Wanted(s) == s.locked \/ s.stage # "active"

SyncLockWindows(s) ==
    IF ~Wanted(s) THEN [RemoveAll(s, Locks(s)) EXCEPT !.moved = FALSE]
    ELSE LET all == FoldLeft(LockOn, s, [i \in DOMAIN monitors |-> i])
         IN RemoveAll(all, {w \in Gone(all) : w.kind = "Lock"})

-----------------------------------------------------------------------------
(* Windows follow the monitors and the layout.                             *)

\* The primary screen first, if the compositor has named one.
Ordered(s) ==
    SelectSeq(monitors, LAMBDA m : m.name = s.primary)
        \o SelectSeq(monitors, LAMBDA m : m.name # s.primary)

PanelsFor(s, name) ==
    {p \in s.panels : p.output \in {"*", name, "primary", ""}}

SyncScreen(s, i) ==
    LET m == Ordered(s)[i]
        want(t, kind, id) == IF Named(t, kind, id, m.name) # {} THEN t
                             ELSE CreateWindow(t, NewWindow(kind, id, m.name, m.monitor, FALSE, FALSE))
        wanted == IF i = 1 THEN {p.id : p \in PanelsFor(s, m.name)} ELSE {}
        desktop == want(s, "Desktop", "desktop")
        toast == IF i = 1 THEN want(desktop, "Toast", "toast") ELSE desktop
        panels == FoldLeft(LAMBDA t, id : want(t, "Panel", id), toast, SetToSeq(wanted))
    IN RemoveAll(panels,
                 {w \in Live(panels) : /\ w.output = m.name
                                       /\ \/ w.kind = "Panel" /\ w.id \notin wanted
                                          \/ w.kind = "Toast" /\ i # 1})

OutputsJson == [i \in DOMAIN monitors |-> monitors[i].name]

SyncWindows(s) ==
    LET gone == Gone(s)
        kept == [RemoveAll(s, gone) EXCEPT
                    !.orphaned = @ \/ \E w \in gone : w.kind = "Popup" /\ w.id = "auth",
                    !.late = FALSE]
        screens == FoldLeft(SyncScreen, kept, [i \in DOMAIN monitors |-> i])
    IN [SyncLockWindows(screens) EXCEPT !.told = OutputsJson]

\* The login screen: only the first one made takes the keyboard.
SyncGreeterWindows(s) ==
    LET kept == RemoveAll(s, Gone(s))
        has_primary == \E w \in Live(kept) : w.keyboard
        greeter(t, i) ==
            LET m == monitors[i]
            IN IF Named(t, "Greeter", "greeter", m.name) # {} THEN t
               ELSE CreateWindow(t, NewWindow("Greeter", "greeter", m.name, m.monitor,
                                           ~has_primary /\ i = 1, ~has_primary /\ i = 1))
        all == FoldLeft(greeter, kept, [i \in DOMAIN monitors |-> i])
    IN [all EXCEPT !.running = @ /\ all.windows # <<>>]

ScheduleSync(s) == [s EXCEPT !.sync_pending = TRUE]

\* A settled shell is about to change when monitors do.
Moved(s, after) ==
    [s EXCEPT !.moved = @ \/ /\ \E w \in Live(s) : w.kind \in {"Lock", "Greeter"}
                             /\ \/ after = <<>>
                                \/ monitors = <<>>
                                \/ after[1].name # monitors[1].name]

Plug(name, atTop) ==
    /\ \A m \in Range(monitors) : m.name # name
    /\ plugs < MaxPlugs
    /\ plugs' = plugs + 1
    /\ LET m == [name |-> name, monitor |-> plugs']
           after == IF atTop THEN <<m>> \o monitors ELSE Append(monitors, m)
       IN /\ monitors' = after
          /\ shell' = ScheduleSync(Moved(shell, after))
    /\ UNCHANGED <<agent, events, desk, view>>

Unplug(i) ==
    /\ i \in DOMAIN monitors
    /\ monitors' = RemoveAt(monitors, i)
    /\ shell' = ScheduleSync(Moved(shell, RemoveAt(monitors, i)))
    /\ UNCHANGED <<agent, events, desk, view, plugs>>

\* The compositor's outputs event; with a new arrangement or a new primary.
Outputs(name, swapped) ==
    LET after == IF swapped THEN Reverse(monitors) ELSE monitors
    IN /\ monitors' = after
       /\ shell' = [ScheduleSync(Moved(shell, after)) EXCEPT !.primary = name]
       /\ shell' # shell
       /\ UNCHANGED <<agent, events, desk, view, plugs>>

SyncTimer(greeter) ==
    /\ shell.sync_pending
    /\ shell.running
    /\ LET s == [shell EXCEPT !.sync_pending = FALSE]
       IN shell' = IF greeter THEN SyncGreeterWindows(s) ELSE SyncWindows(s)
    /\ UNCHANGED <<monitors, agent, events, desk, view, plugs>>

\* set_layout: only other panels change the windows.
SetLayout(panels) ==
    /\ panels # shell.panels
    /\ shell' = SyncWindows([shell EXCEPT !.panels = panels])
    /\ UNCHANGED <<monitors, agent, events, desk, view, plugs>>

Retire ==
    /\ shell.retired # {}
    /\ \E w \in shell.retired : shell' = [shell EXCEPT !.retired = @ \ {w}]
    /\ UNCHANGED <<monitors, agent, events, desk, view, plugs>>

\* The idle event.  A session that comes back to work on a GPU that refused
\* its buffers ends the process, and systemd starts another.
IdleChanged(locked, stage, exhausted) ==
    /\ <<locked, stage>> # <<shell.locked, shell.stage>>
    /\ LET s == [shell EXCEPT !.locked = locked, !.stage = stage]
           healed == ~Wanted(s) /\ Wanted(shell) /\ exhausted
       IN shell' = IF healed THEN SyncWindows(NewShell) ELSE SyncLockWindows(s)
    /\ UNCHANGED <<monitors, agent, events, desk, view, plugs>>

-----------------------------------------------------------------------------
(* Popups.                                                                 *)

OpenPopup(caller, name, toggle, keyboard) ==
    /\ LET there == FindPopup(shell, name)
           existing == CHOOSE w \in there : TRUE
           here == there # {} /\ existing.output = caller.output
           moved == IF there = {} THEN shell ELSE RemoveWindow(shell, existing)
       IN shell' = CASE here /\ toggle -> RemoveWindow(shell, existing)
                     [] here /\ ~toggle -> SetKeyboard(shell, existing, keyboard)
                     [] ~here -> [CreateWindow(moved, NewWindow("Popup", name, caller.output, caller.monitor,
                                                            keyboard, FALSE))
                                    EXCEPT !.late = @ \/ caller \notin Live(shell)]
    /\ UNCHANGED <<monitors, agent, events, desk, view, plugs>>

\* PolkitHandle::respond: a slot for one answer, and only while somebody waits.
Respond(a, id, answer) ==
    IF a.phase # "idle" /\ a.id = id /\ a.slot = None THEN [a EXCEPT !.slot = answer] ELSE a

ClosePopup(name) ==
    /\ \E w \in FindPopup(shell, name) : shell' = RemoveWindow(shell, w)
    /\ agent' = IF name = "auth" THEN Respond(agent, shell.polkit, "cancel") ELSE agent
    /\ UNCHANGED <<monitors, events, desk, view, plugs>>

-----------------------------------------------------------------------------
(* polkit: one request past the gate at a time, three passwords for each.  *)

MAX_TRIES == 3

Ask(id) == [type |-> "ask", id |-> id]
Busy(id) == [type |-> "busy", id |-> id]
Done(id) == [type |-> "done", id |-> id]

Requested ==
    /\ agent.id + agent.queued < MaxRequests
    /\ agent' = [agent EXCEPT !.queued = @ + 1]
    /\ UNCHANGED <<monitors, shell, events, desk, view, plugs>>

\* begin_authentication, from the gate to the first question.
BeginAuthentication(anyone) ==
    /\ agent.phase = "idle" /\ agent.queued > 0
    /\ agent' = [agent EXCEPT !.queued = @ - 1, !.id = @ + 1, !.attempt = 1, !.slot = None,
                              !.phase = IF anyone THEN "waiting" ELSE "idle"]
    /\ events' = IF anyone THEN Append(events, Ask(agent.id + 1)) ELSE events
    /\ UNCHANGED <<monitors, shell, desk, view, plugs>>

Finished == [agent EXCEPT !.phase = "idle", !.slot = None]

\* The answer: cancelled, or a password for the helper.  When the helper's
\* thread cannot be started the call returns without saying that it is done.
TakeAnswer(started) ==
    /\ agent.phase = "waiting" /\ agent.slot # None
    /\ IF agent.slot = "cancel"
         THEN agent' = Finished /\ events' = Append(events, Done(agent.id))
         ELSE /\ agent' = [agent EXCEPT !.slot = None, !.leaked = ~started,
                                        !.phase = IF started THEN "checking" ELSE "idle"]
              /\ events' = Append(events, Busy(agent.id))
    /\ UNCHANGED <<monitors, shell, desk, view, plugs>>

Authenticated(ok) ==
    /\ agent.phase = "checking"
    /\ IF ok \/ agent.attempt = MAX_TRIES
         THEN agent' = Finished /\ events' = Append(events, Done(agent.id))
         ELSE /\ agent' = [agent EXCEPT !.phase = "waiting", !.attempt = @ + 1]
              /\ events' = Append(events, Ask(agent.id))
    /\ UNCHANGED <<monitors, shell, desk, view, plugs>>

\* The dialog is left alone if it is up, and not shown if there is no screen.
ShowAuthPopup(s) ==
    IF FindPopup(s, "auth") # {} THEN s
    ELSE IF monitors = <<>> THEN [s EXCEPT !.orphaned = TRUE]
    ELSE [CreateWindow(s, NewWindow("Popup", "auth", monitors[1].name, monitors[1].monitor, TRUE, FALSE))
            EXCEPT !.orphaned = FALSE]

ShowQuestion(s, id) == ShowAuthPopup([s EXCEPT !.polkit = id])

\* HostEvent::Polkit.
PolkitEvent ==
    /\ events # <<>>
    /\ events' = Tail(events)
    /\ LET e == Head(events)
       IN shell' = CASE e.type = "ask" -> ShowQuestion(shell, e.id)
                     [] e.type = "busy" -> shell
                     [] e.type = "done" -> RemoveAll([shell EXCEPT !.polkit = 0, !.orphaned = FALSE],
                                                     FindPopup(shell, "auth"))
    /\ UNCHANGED <<monitors, agent, desk, view, plugs>>

\* polkit.respond and polkit.cancel from the dialog's page, and polkitd's own
\* CancelAuthentication, which knows only the request past the gate.
Answer(answer) ==
    /\ FindPopup(shell, "auth") # {} /\ shell.polkit # 0
    /\ agent' = Respond(agent, shell.polkit, answer)
    /\ agent' # agent
    /\ UNCHANGED <<monitors, shell, events, desk, view, plugs>>

CancelAuthentication ==
    /\ agent' = Respond(agent, agent.id, "cancel")
    /\ agent' # agent
    /\ UNCHANGED <<monitors, shell, events, desk, view, plugs>>

-----------------------------------------------------------------------------
(* The desktop in front of the windows: opacity is 0, 1 (on the way) or 2. *)

ApplyGeometry(d) == [d EXCEPT !.layer = IF d.presenting THEN "Top" ELSE "Background"]

\* The end of a fade out: behind the windows, on its own ground, all of it.
Away(d) == [ApplyGeometry(d) EXCEPT !.opaque = TRUE, !.opacity = 2, !.fade = None, !.edited = FALSE]

FadeOut(d, fade) ==
    IF ~fade \/ d.opacity = 0 THEN Away(d) ELSE [d EXCEPT !.fade = "out"]

PresentDesktop(active, fade) ==
    /\ desk.presenting # active
    /\ LET d == [desk EXCEPT !.presenting = active]
       IN desk' = IF active
                    THEN [ApplyGeometry(d) EXCEPT !.opaque = FALSE, !.opacity = 0, !.fade = "in",
                                                  !.edited = FALSE]
                    ELSE FadeOut(d, fade)
    /\ UNCHANGED <<monitors, shell, agent, events, view, plugs>>

FadeTick ==
    /\ desk.fade # None
    /\ desk' = CASE desk.fade = "in" -> [desk EXCEPT !.opacity = @ + 1,
                                                     !.fade = IF desk.opacity = 1 THEN None ELSE @]
                 [] desk.fade = "out" -> IF desk.opacity = 1 THEN Away(desk)
                                         ELSE [desk EXCEPT !.opacity = @ - 1]
    /\ UNCHANGED <<monitors, shell, agent, events, view, plugs>>

\* Every window but the popups takes its geometry again, in the middle of a
\* fade too.
SetEditMode ==
    /\ desk' = [ApplyGeometry(desk) EXCEPT !.edited = @ \/ desk.fade = "out"]
    /\ UNCHANGED <<monitors, shell, agent, events, view, plugs>>

-----------------------------------------------------------------------------
(* A web process that dies is loaded again, later and later.  In halves of *)
(* a second; reloads holds how long ago each reload of the last minute was. *)

RELOAD_AFTER == 1
RELOAD_AT_MOST == 60
CRASHES_UNRELATED == 120

Wait(in_a_row) ==
    IF in_a_row > 6 THEN RELOAD_AT_MOST ELSE Min({RELOAD_AFTER * 2 ^ (in_a_row - 1), RELOAD_AT_MOST})

\* More crashes in a row than this wait no longer.
MostCrashes == 8

WebProcessTerminated ==
    /\ view.loaded
    /\ LET n == IF view.last_crash \in 0..(CRASHES_UNRELATED - 1)
                  THEN Min({view.crashes + 1, MostCrashes}) ELSE 1
       IN view' = [view EXCEPT !.crashes = n, !.last_crash = 0, !.wait = Wait(n), !.loaded = FALSE]
    /\ UNCHANGED <<monitors, shell, agent, events, desk, plugs>>

\* Time passes until the timer is due, or as long as the page lives.
Pass(lives) ==
    LET d == IF view.loaded THEN lives ELSE view.wait
        older == [i \in DOMAIN view.reloads |-> view.reloads[i] + d]
        recent == SelectSeq(older, LAMBDA t : t < CRASHES_UNRELATED)
    IN /\ d > 0
       /\ view.last_crash >= 0
       /\ view.loaded => view.reloads # <<>> /\ Head(view.reloads) = 0   \* one lifetime for each load
       /\ view' = [view EXCEPT !.last_crash = Min({@ + d, CRASHES_UNRELATED}),
                               !.reloads = IF view.loaded THEN recent ELSE <<0>> \o recent,
                               !.wait = -1, !.loaded = TRUE]
       /\ UNCHANGED <<monitors, shell, agent, events, desk, plugs>>

-----------------------------------------------------------------------------

\* main: the windows for the monitors there are when the shell starts.
ShellInit(greeter, screens) ==
    /\ monitors = [i \in 1..screens |-> [name |-> SetToSeq(Connectors)[i], monitor |-> 0]]
    /\ shell = IF greeter THEN SyncGreeterWindows(NewShell) ELSE SyncWindows(NewShell)
    /\ agent = NewAgent
    /\ events = <<>>
    /\ desk = NewDesk
    /\ view = NewView
    /\ plugs = 0

MonitorsNext ==
    \/ \E c \in Connectors, atTop \in BOOLEAN : Plug(c, atTop)
    \/ \E i \in DOMAIN monitors : Unplug(i)

\* Screens come and go under the lock screen.
LockNext ==
    \/ MonitorsNext
    \/ \E c \in Connectors, swapped \in BOOLEAN : Outputs(c, swapped)
    \/ SyncTimer(FALSE)
    \/ \E l \in BOOLEAN, stage \in {"active", "screensaver"}, x \in BOOLEAN : IdleChanged(l, stage, x)

\* They come and go under the panels and a popup.
PanelsNext ==
    \/ MonitorsNext
    \/ \E c \in Connectors : Outputs(c, FALSE)
    \/ SyncTimer(FALSE)
    \/ \E p \in Panels : SetLayout(p)
    \/ Retire
    \/ \E w \in Live(shell) \cup shell.retired, toggle, keyboard \in BOOLEAN :
          OpensPopups(w) /\ OpenPopup(w, "menu", toggle, keyboard)
    \/ ClosePopup("menu")

\* An authorisation, with screens that come and go under its dialog.
AuthNext ==
    \/ MonitorsNext
    \/ SyncTimer(FALSE)
    \/ Requested
    \/ \E anyone \in BOOLEAN : BeginAuthentication(anyone)
    \/ \E started \in BOOLEAN : TakeAnswer(started)
    \/ \E ok \in BOOLEAN : Authenticated(ok)
    \/ PolkitEvent
    \/ \E answer \in {"password", "cancel"} : Answer(answer)
    \/ CancelAuthentication
    \/ ClosePopup("auth")

\* The login screen.
GreeterNext ==
    \/ MonitorsNext
    \/ SyncTimer(TRUE)

FadeNext ==
    \/ \E active, fade \in BOOLEAN : PresentDesktop(active, fade)
    \/ FadeTick
    \/ SetEditMode

\* A page that dies at once, after a moment, or after most of a minute.
ReloadNext ==
    \/ WebProcessTerminated
    \/ \E lives \in {1, 40, 59, 60, 119, 120} : Pass(lives)

-----------------------------------------------------------------------------
(* What the windows promise.                                               *)

Settled == ~shell.sync_pending /\ shell.running

\* Some window that is not a lock window holds first_view as long as there is
\* one, so that one web process renders them all and none of them is in the
\* process of the lock screen.
OneWebProcess ==
    LET others == {ViewOf(w) : w \in {w \in Live(shell) : w.kind # "Lock"}}
    IN IF others = {} THEN shell.first_view = NoWindow ELSE shell.first_view \in others

\* Once the monitors have settled every window is on one that is there, each
\* has its desktop, and the panels and the toast are on the first; only a page
\* that was being taken away can have left a popup behind.
ScreensAreCovered ==
    (Settled /\ \A w \in Live(shell) : w.kind # "Greeter") =>
        /\ shell.told = OutputsJson
        /\ {w \in Gone(shell) : w.kind # "Popup" \/ ~shell.late} = {}
        /\ \A m \in Range(monitors) : Cardinality(Named(shell, "Desktop", "desktop", m.name)) = 1
        /\ \A w \in Live(shell) : w.kind \in {"Panel", "Toast"} => w.output = Ordered(shell)[1].name
        /\ monitors # <<>> => {w.id : w \in {w \in Live(shell) : w.kind = "Panel"}}
                                 = {p.id : p \in PanelsFor(shell, Ordered(shell)[1].name)}

\* A locked session, or one whose screensaver is up, shows a lock window on
\* every screen and one of them has the keyboard if it is locked; it is the
\* one with the password field unless the first screen changed meanwhile.
LockCoversTheScreens ==
    (Settled /\ \A w \in Live(shell) : w.kind # "Greeter") =>
        IF ~Wanted(shell) THEN Locks(shell) = {}
        ELSE /\ {[name |-> w.output, monitor |-> w.monitor] : w \in Locks(shell)} = Range(monitors)
             /\ Cardinality(Locks(shell)) = Len(monitors)
             /\ \A w \in Locks(shell) :
                   /\ w.keyboard <=> shell.locked /\ w.output = monitors[1].name
                   /\ w.keyboard => w.card \/ shell.moved

\* The login screen: one window takes the password, and it keeps the keyboard
\* unless its screen was taken away.
LoginTakesKeys ==
    LET login == {w \in Live(shell) : w.kind = "Greeter"}
        fields == {w \in login : w.keyboard}
    IN login # {} =>
          /\ Cardinality(fields) <= 1
          /\ Settled /\ ~shell.moved => fields # {}

OnePopup == \A n \in {"menu", "auth"} : Cardinality(FindPopup(shell, n)) <= 1

\* While the agent waits for a password its dialog is up, unless the dialog's
\* screen went; and a dialog that is up is about the request that waits.
AuthorisationIsAsked ==
    events = <<>> =>
        /\ agent.phase = "waiting" /\ agent.slot = None
              => FindPopup(shell, "auth") # {} \/ shell.orphaned
        /\ FindPopup(shell, "auth") # {} => agent.phase # "idle" \/ agent.leaked
        /\ agent.phase # "idle" => shell.polkit = agent.id

\* At rest the desktop is all there, on the layer and the ground of where it
\* is; and it is never behind the windows half faded or without its ground
\* unless the edit mode changed during the fade.
DesktopDoesNotBlink ==
    /\ desk.fade = None => desk.opacity = 2 /\ desk.opaque = ~desk.presenting
    /\ desk.fade = None => desk.layer = IF desk.presenting THEN "Top" ELSE "Background"
    /\ desk.layer = "Background" => (desk.opacity = 2 /\ desk.opaque) \/ desk.edited
    /\ desk.layer = "Top" => ~desk.opaque

\* However a page dies, it is loaded at most seven times in a minute.
ReloadsAreFew == Len(view.reloads) <= 7

ShellTypeOK ==
    /\ shell.stage \in {"active", "screensaver"}
    /\ agent.phase \in {"idle", "waiting", "checking"}
    /\ agent.slot \in {None, "password", "cancel"}
    /\ desk.opacity \in 0..2
    /\ view.wait \in -1..RELOAD_AT_MOST

\* The windows of the shell, whichever scene is played.
ShellIsSound ==
    /\ ShellTypeOK
    /\ OneWebProcess
    /\ ScreensAreCovered
    /\ LockCoversTheScreens
    /\ LoginTakesKeys
    /\ OnePopup
    /\ AuthorisationIsAsked
    /\ DesktopDoesNotBlink
    /\ ReloadsAreFew

=============================================================================
