---------------------------- MODULE ShellServices ----------------------------
(***************************************************************************)
(* mindshell: what the shell keeps besides its windows, and the threads    *)
(* and processes it shares it with.  The compositor's socket (ipc.rs, with *)
(* the idle state, the game and the bar that go over it), the layout file  *)
(* two processes write (layout.rs), notifications (notify.rs), the login   *)
(* conversation (greeter.rs), the tray (tray.rs), helper commands and the  *)
(* other things that are read on a thread (app.rs), and the one window of  *)
(* an application (instance.rs).  Each is a scene with a variable of its   *)
(* own; the main loop runs one handler at a time, and what a handler       *)
(* awaits is where it stops.                                               *)
(***************************************************************************)
EXTENDS Integers, Sequences, FiniteSetsExt, SequencesExt

CONSTANTS
    Notes,          \* ids of notifications
    NoteLimit,      \* NOTIFICATION_LIMIT
    Launches,       \* processes started for one application
    MaxConnections, \* bound: connections to the compositor
    MaxTurns        \* bound: how often something outside the shell changes

VARIABLES link, layout, notes, login, tray, helper, reading, instance

serviceVars == <<link, layout, notes, login, tray, helper, reading, instance>>

-----------------------------------------------------------------------------
(* The compositor's socket.  wm is what the compositor holds; tx and rx    *)
(* are lines on their way; events and replies are what the reader thread   *)
(* has handed to the main loop.  A reply wakes the task that asked, an     *)
(* event the loop over the channel: the main loop may run them in either   *)
(* order.  asking holds the questions of the handlers of Connected.        *)

NewLink ==
    [wm |-> [idle |-> "active", holds |-> {}, scene |-> FALSE, bar |-> 0],
     n |-> 0, up |-> FALSE, tx |-> <<>>, rx |-> <<>>,
     events |-> <<>>, replies |-> {}, pending |-> {}, next_id |-> 1,
     asking |-> {},
     idle |-> "active", game |-> FALSE, running |-> FALSE, noticed |-> TRUE,
     settle |-> 0, bar |-> 0, unlocking |-> FALSE,
     turns |-> 0,
     crossed |-> FALSE,   \* history: an answer was applied after a newer event
     missed |-> FALSE,    \* history: the question was not answered in time
     lost |-> {}]         \* history: what was said while nobody listened

Line(kind, value, id) == [kind |-> kind, value |-> value, id |-> id]

\* send: the line goes out, or is forgotten.
Send(l, kind, value) ==
    IF l.up THEN [l EXCEPT !.tx = Append(@, Line(kind, value, 0)), !.lost = @ \ {kind}]
    ELSE [l EXCEPT !.lost = @ \cup {kind}]

\* request: an id nobody has used, and somewhere for the answer to go.
Request(l, kind) ==
    [l EXCEPT !.tx = Append(@, Line(kind, "", l.next_id)),
              !.pending = @ \cup {l.next_id}, !.next_id = @ + 1]

\* The handler of Connected asks three things one after the other (mind_status,
\* get_idle, get_prefs); the one in the middle stands for them.  A question
\* that cannot be sent fails at once.  At the end it repeats what a game holds.
TaskEnds(l) == IF l.game THEN Send(l, "inhibit_idle", TRUE) ELSE l

TaskBegins(l) ==
    IF l.up THEN [Request(l, "get_idle") EXCEPT !.asking = @ \cup {l.next_id}]
    ELSE TaskEnds([l EXCEPT !.missed = TRUE])

\* No answer: of consequence only to the last who asked.
Unanswered(l, id) ==
    TaskEnds([l EXCEPT !.asking = @ \ {id}, !.missed = @ \/ id = l.next_id - 1])

Connect ==
    /\ ~link.up /\ link.n < MaxConnections
    /\ link' = [link EXCEPT !.up = TRUE, !.n = @ + 1, !.events = Append(@, Line("Connected", "", 0))]

\* The connection ends, the compositor's side first: what was on its way is
\* gone, everyone who waits is told so.  The hold of a client that is dropped
\* in the middle of a broadcast stays (see Idle).
Disconnect(forgotten) ==
    /\ link.up
    /\ link' = [link EXCEPT !.up = FALSE, !.tx = <<>>, !.rx = <<>>,
                            !.wm.holds = IF forgotten THEN @ ELSE @ \ {link.n},
                            !.lost = @ \cup {link.tx[i].kind : i \in DOMAIN link.tx},
                            !.replies = @ \cup {Line("error", "", id) : id \in link.pending \cap link.asking},
                            !.pending = {},
                            !.events = Append(@, Line("Disconnected", "", 0))]

\* The compositor takes a line; changes of the idle state are events too.
Serve ==
    /\ link.up /\ link.tx # <<>>
    /\ LET line == Head(link.tx)
           l == [link EXCEPT !.tx = Tail(@)]
           reply(m, v) == IF line.id = 0 THEN m
                          ELSE [m EXCEPT !.rx = Append(@, Line("reply", v, line.id))]
       IN link' = CASE line.kind = "inhibit_idle" ->
                           [l EXCEPT !.wm.holds = IF line.value THEN @ \cup {l.n} ELSE @ \ {l.n}]
                    [] line.kind = "game_scene" -> [l EXCEPT !.wm.scene = line.value]
                    [] line.kind = "desktop_bar" -> [l EXCEPT !.wm.bar = line.value]
                    [] line.kind = "unlock" ->
                           reply([l EXCEPT !.wm.idle = "active",
                                           !.rx = Append(@, Line("idle", "active", 0))], "")
                    [] line.kind = "get_idle" -> reply(l, l.wm.idle)
                    [] OTHER -> reply(l, "")

CompositorIdles ==
    /\ link.turns < MaxTurns
    /\ LET new == IF link.wm.idle = "active" THEN "locked" ELSE "active"
       IN link' = [link EXCEPT !.wm.idle = new, !.turns = @ + 1,
                               !.rx = IF link.up THEN Append(@, Line("idle", new, 0)) ELSE @]

\* The reader thread: an answer goes to whoever asked, an event to the loop.
Read ==
    /\ link.rx # <<>>
    /\ LET line == Head(link.rx)
           l == [link EXCEPT !.rx = Tail(@)]
       IN link' = IF line.id = 0 THEN [l EXCEPT !.events = Append(@, line)]
                  ELSE [l EXCEPT !.pending = @ \ {line.id},
                                 !.replies = IF line.id \in l.pending \cap l.asking
                                             THEN @ \cup {line} ELSE @]

\* The task that asked is woken.
TaskHears ==
    \E r \in link.replies :
        LET l == [link EXCEPT !.replies = @ \ {r}]
            newer == \E e \in Range(link.events) \cup Range(link.rx) : e.kind = "idle"
        IN link' = IF r.kind = "error" THEN Unanswered(l, r.id)
                   ELSE TaskEnds([l EXCEPT !.asking = @ \ {r.id}, !.idle = r.value, !.missed = FALSE,
                                           !.crossed = r.value # l.wm.idle /\ ~newer])

\* futures_select: five seconds, and whatever comes later comes to nobody.
TaskTimesOut ==
    \E id \in link.asking :
        /\ \A r \in link.replies : r.id # id
        /\ link' = Unanswered(link, id)

HostHears ==
    /\ link.events # <<>>
    /\ LET e == Head(link.events)
           l == [link EXCEPT !.events = Tail(@)]
       IN link' = CASE e.kind = "Connected" -> TaskBegins(l)
                    [] e.kind = "Disconnected" -> l
                    [] e.kind = "idle" -> [l EXCEPT !.idle = e.value, !.missed = FALSE, !.crossed = FALSE]

\* The GameMode counter changes, and its file monitor says so.
GameTurns ==
    /\ link.turns < MaxTurns
    /\ link' = [link EXCEPT !.running = ~@, !.noticed = FALSE, !.turns = @ + 1]

GameChanged ==
    /\ ~link.noticed
    /\ LET l == [link EXCEPT !.noticed = TRUE, !.game = link.running]
           held == Send(l, "inhibit_idle", link.running)
       IN link' = IF link.game = link.running THEN l
                  ELSE IF link.running THEN [held EXCEPT !.settle = @ + 1]
                  ELSE Send(held, "game_scene", FALSE)

\* GAME_SETTLE later.
GameSettles ==
    /\ link.settle > 0
    /\ LET l == [link EXCEPT !.settle = @ - 1]
       IN link' = IF link.game THEN Send(l, "game_scene", TRUE) ELSE l

\* desktop.bar: told only when it is news.
DesktopBar(size) ==
    /\ link.bar # size
    /\ link.turns < MaxTurns
    /\ link' = Send([link EXCEPT !.bar = size, !.turns = @ + 1], "desktop_bar", size)

\* lock.unlock: PAM on a thread of its own, one password at a time, and then
\* the compositor is asked.
Unlock ==
    /\ link.idle = "locked" /\ ~link.unlocking
    /\ link.turns < MaxTurns
    /\ link' = [link EXCEPT !.unlocking = TRUE, !.turns = @ + 1]

CheckPassword(ok) ==
    /\ link.unlocking
    /\ LET l == [link EXCEPT !.unlocking = FALSE]
       IN link' = IF ok /\ l.up THEN Send(l, "unlock", "") ELSE l

Wire ==
    \/ Connect
    \/ \E forgotten \in BOOLEAN : Disconnect(forgotten)
    \/ Serve
    \/ Read
    \/ TaskHears
    \/ TaskTimesOut
    \/ HostHears

LockNext ==
    /\ \/ Wire
       \/ CompositorIdles
       \/ Unlock
       \/ \E ok \in BOOLEAN : CheckPassword(ok)
    /\ UNCHANGED <<layout, notes, login, tray, helper, reading, instance>>

GameNext ==
    /\ \/ Wire
       \/ GameTurns
       \/ GameChanged
       \/ GameSettles
       \/ DesktopBar(1)
    /\ UNCHANGED <<layout, notes, login, tray, helper, reading, instance>>

Quiet ==
    /\ link.up /\ link.tx = <<>> /\ link.rx = <<>> /\ link.events = <<>>
    /\ link.asking = {} /\ link.noticed

\* When nothing is on its way, the shell shows the lock screen exactly if the
\* session is locked, unless the answer to its question was overtaken by an
\* event or never came.
LockIsShown == Quiet => link.idle = link.wm.idle \/ link.crossed \/ link.missed

\* A game that runs holds the screen awake through whichever connection there
\* is, and one that has ended does not.
GameHoldsTheScreen == Quiet /\ "inhibit_idle" \notin link.lost => (link.n \in link.wm.holds <=> link.running)

\* The compositor has the scene and the bar of which it was last told.
CompositorKnows ==
    Quiet => /\ link.settle = 0 /\ "game_scene" \notin link.lost => link.wm.scene = link.running
             /\ "desktop_bar" \notin link.lost => link.wm.bar = link.bar

\* Whoever waits for an answer has asked on this connection or been answered,
\* and nobody is given the answer to another's question.
AnswersGoHome ==
    /\ link.pending \subseteq 1..(link.next_id - 1)
    /\ \A id \in link.asking : id \in link.pending \/ \E r \in link.replies : r.id = id
    /\ \A r \in link.replies : r.id \in link.asking \ link.pending

LinkIsSound == LockIsShown /\ GameHoldsTheScreen /\ CompositorKnows /\ AnswersGoHome

-----------------------------------------------------------------------------
(* The layout file.  The shell and an application both keep a copy, save   *)
(* it and follow the file.  A layout is the panels and the desktop's own   *)
(* state (extra); the values are numbers that are never used twice.        *)

Keepers == {"shell", "app"}

DefaultLayout == [panels |-> 0, extra |-> 0]

NewKeeper == [on |-> FALSE, mem |-> DefaultLayout,
              save |-> FALSE,     \* layout_save: the timer of a write that waits
              told |-> FALSE,     \* the file monitor has something to say
              reload |-> FALSE,   \* layout_reload_pending
              base |-> 0,         \* history: the version of the file it has seen
              apart |-> FALSE]    \* history: its last write failed, and it has not read the file since

NewLayout == [file |-> DefaultLayout,
              keeper |-> [k \in Keepers |-> IF k = "shell" THEN [NewKeeper EXCEPT !.on = TRUE] ELSE NewKeeper],
              wish |-> DefaultLayout,  \* history: what was last asked for
              n |-> 0,
              version |-> 0,           \* history: how often the file was written
              crossed |-> FALSE]       \* history: written over an unseen file, read over an unwritten copy,
                                       \* or not written, as a write failed

\* The whole file is replaced, and every process is told, this one too.
ReplaceFile(l, k, new) ==
    [l EXCEPT !.file = new, !.version = @ + 1,
              !.crossed = @ \/ l.keeper[k].base # l.version,
              !.keeper = [j \in Keepers |-> [l.keeper[j] EXCEPT !.told = l.keeper[j].on,
                                                        !.base = IF j = k THEN l.version + 1 ELSE @,
                                                        !.apart = @ /\ j # k]]]

\* A save that fails, or a file that cannot be removed: the copy stays as it is, and nothing tries again.
NotWritten(l, k) == [l EXCEPT !.keeper[k].apart = TRUE, !.crossed = TRUE]

\* write_layout: the copy of this process, whatever the others have written.
WriteLayout(l, k, ok) ==
    LET m == [l EXCEPT !.keeper[k].save = FALSE]
    IN IF ok THEN ReplaceFile(m, k, l.keeper[k].mem) ELSE NotWritten(m, k)

\* layout.save: the page sends the copy it has with one part changed.
SaveLayout(k, part, ok) ==
    /\ layout.keeper[k].on /\ layout.n < MaxTurns
    /\ LET new == [layout.keeper[k].mem EXCEPT ![part] = layout.n + 1]
           l == [layout EXCEPT !.keeper[k].mem = new, !.n = @ + 1, !.wish[part] = layout.n + 1]
       IN layout' = IF part = "extra" \/ k = "app" THEN WriteLayout(l, k, ok)
                    ELSE [l EXCEPT !.keeper[k].save = TRUE]

SaveTimer(k, ok) ==
    /\ layout.keeper[k].save
    /\ layout' = WriteLayout(layout, k, ok)

\* layout.reset: the file goes away and the shipped default is loaded.
ResetLayout(k, ok) ==
    /\ layout.keeper[k].on /\ layout.n < MaxTurns
    /\ LET l == [layout EXCEPT !.keeper[k].mem = DefaultLayout, !.keeper[k].save = FALSE,
                               !.wish = DefaultLayout, !.n = @ + 1]
       IN layout' = IF ok THEN ReplaceFile(l, k, DefaultLayout) ELSE NotWritten(l, k)

LayoutFileChanged(k) ==
    /\ layout.keeper[k].told
    /\ layout' = [layout EXCEPT !.keeper[k].told = FALSE, !.keeper[k].reload = TRUE]

\* Its timer, 300 ms later: the file stands, whatever waits to be written.
ReloadLayout(k) ==
    /\ layout.keeper[k].reload
    /\ layout' = [layout EXCEPT !.keeper[k].reload = FALSE, !.keeper[k].mem = layout.file,
                                !.keeper[k].base = layout.version, !.keeper[k].apart = FALSE,
                                !.crossed = @ \/ layout.keeper[k].save]

StartKeeper(k) ==
    /\ ~layout.keeper[k].on
    /\ layout' = [layout EXCEPT !.keeper[k] = [NewKeeper EXCEPT !.on = TRUE, !.mem = layout.file,
                                                               !.base = layout.version]]

\* The process ends: Quit writes what waits, a crash does not.
EndKeeper(k, crash, ok) ==
    /\ layout.keeper[k].on
    /\ LET l == IF layout.keeper[k].save /\ ~crash THEN WriteLayout(layout, k, ok) ELSE layout
       IN layout' = [l EXCEPT !.keeper[k] = NewKeeper,
                              !.wish.panels = IF layout.keeper[k].save /\ crash THEN l.file.panels ELSE @]

LayoutNext ==
    /\ \E k \in Keepers, ok \in BOOLEAN :
          \/ \E part \in {"panels", "extra"} : SaveLayout(k, part, ok)
          \/ SaveTimer(k, ok)
          \/ ResetLayout(k, ok)
          \/ LayoutFileChanged(k)
          \/ ReloadLayout(k)
          \/ StartKeeper(k)
          \/ \E crash \in BOOLEAN : EndKeeper(k, crash, ok)
    /\ UNCHANGED <<link, notes, login, tray, helper, reading, instance>>

Behind(k) == layout.keeper[k].save \/ layout.keeper[k].told \/ layout.keeper[k].reload

\* Processes that are through with their timers show what is in the file, but
\* for one whose last write failed; the desktop's own state is in the file from
\* the moment it was chosen, the panels once nothing waits, unless a write
\* failed or one process wrote or read over the other's newer choice.
LayoutIsKept ==
    /\ \A k \in Keepers :
          layout.keeper[k].on /\ ~Behind(k) /\ ~layout.keeper[k].apart => layout.keeper[k].mem = layout.file
    /\ ~layout.crossed => /\ layout.file.extra = layout.wish.extra
                          /\ (\A k \in Keepers : ~layout.keeper[k].save) => layout.file = layout.wish

-----------------------------------------------------------------------------
(* Notifications.  The D-Bus thread hands them to the main loop through a  *)
(* channel and keeps their pictures; the list and its limit are the main   *)
(* loop's.  n numbers the calls, so that a picture can be told from the    *)
(* one it replaced.                                                        *)

NewNotes == [next_id |-> 1, pixmaps |-> [id \in Notes |-> 0], chan |-> <<>>, list |-> <<>>,
             closed |-> {},     \* ids whose application was told that they are gone
             n |-> 0,
             evicted |-> {},    \* history: dropped for the limit, nobody told
             crossed |-> {}]    \* history: closed while a newer one was on its way

Listed(list, id) == \E i \in DOMAIN list : list[i].id = id

OnItsWay(id) == \E i \in DOMAIN notes.chan : notes.chan[i].kind = "notify" /\ notes.chan[i].id = id

\* Server::notify: an id of its own or the one that is replaced.
Notify(replaces_id, has_image) ==
    LET id == IF replaces_id > 0 THEN replaces_id ELSE notes.next_id
    IN /\ notes.n < MaxTurns /\ id \in Notes
       /\ notes' = [notes EXCEPT !.n = @ + 1,
                        !.next_id = IF replaces_id > 0 THEN @ ELSE @ + 1,
                        !.pixmaps[id] = IF has_image THEN notes.n + 1 ELSE @,
                        !.closed = @ \ {id},
                        !.chan = Append(@, [kind |-> "notify", id |-> id, n |-> notes.n + 1, image |-> has_image])]

\* CloseNotification, called by an application that has posted it.
CloseCall(id) ==
    /\ id < notes.next_id
    /\ \A i \in DOMAIN notes.chan : notes.chan[i].kind = "notify"
    /\ notes' = [notes EXCEPT !.chan = Append(@, [kind |-> "closed", id |-> id, n |-> 0, image |-> FALSE])]

\* retain: the rest of a list in which an id is once.
Off(list, id) ==
    IF Listed(list, id) THEN RemoveAt(list, CHOOSE i \in DOMAIN list : list[i].id = id) ELSE list

\* A close that forgets the picture.
KeepsThePicture(s, id) ==
    [s EXCEPT !.list = Off(@, id),
              !.closed = @ \cup {id},
              !.crossed = IF OnItsWay(id) THEN @ \cup {id} ELSE @]

\* close_notification: off the list, its picture with it, and the application
\* is told whether there was one or not.
CloseNotification(s, id) ==
    [s EXCEPT !.list = Off(@, id),
              !.pixmaps[id] = 0,
              !.closed = @ \cup {id},
              !.crossed = IF OnItsWay(id) THEN @ \cup {id} ELSE @]

\* HostEvent::Notify and NotifyClosed.
NotesHear ==
    /\ notes.chan # <<>>
    /\ LET e == Head(notes.chan)
           s == [notes EXCEPT !.chan = Tail(@)]
           list == Append(Off(s.list, e.id), e)
           excess == IF Len(list) > NoteLimit THEN Len(list) - NoteLimit ELSE 0
       IN notes' = IF e.kind = "closed" THEN [CloseNotification(s, e.id) EXCEPT !.chan = Tail(notes.chan)]
                   ELSE [s EXCEPT !.list = SubSeq(list, excess + 1, Len(list)),
                                  !.evicted = (@ \ {e.id}) \cup {list[i].id : i \in 1..excess}]

\* notify.close, notify.clear; notify.action closes too, a resident one aside.
DismissNote(id) ==
    /\ Listed(notes.list, id)
    /\ notes' = CloseNotification(notes, id)

\* It closes each of them.
ClearNotes ==
    /\ Len(notes.list) > 1
    /\ LET ids == {notes.list[i].id : i \in DOMAIN notes.list}
       IN notes' = [notes EXCEPT !.list = <<>>,
                                 !.pixmaps = [id \in Notes |-> IF id \in ids THEN 0 ELSE @[id]],
                                 !.closed = @ \cup ids,
                                 !.crossed = @ \cup {id \in ids : OnItsWay(id)}]

NotifyNext ==
    /\ \/ \E replaces_id \in 0..(notes.next_id - 1), has_image \in BOOLEAN : Notify(replaces_id, has_image)
       \/ \E id \in Notes : CloseCall(id) \/ DismissNote(id)
       \/ NotesHear
       \/ ClearNotes
    /\ UNCHANGED <<link, layout, login, tray, helper, reading, instance>>

\* The list is within its limit and has each id once.  One that shows a
\* picture finds its own or a newer one, and an application whose
\* notification is neither listed nor on its way has been told, unless it
\* was pushed out by the limit or closed just as it was replaced.  Pictures
\* are kept for nothing else.
NotesAreSound ==
    /\ Len(notes.list) <= NoteLimit
    /\ \A i, j \in DOMAIN notes.list : notes.list[i].id = notes.list[j].id => i = j
    /\ \A i \in DOMAIN notes.list :
          LET x == notes.list[i]
          IN x.id \notin notes.crossed => /\ (x.image => notes.pixmaps[x.id] >= x.n)
                                         /\ x.id \notin notes.closed
    /\ \A id \in 1..(notes.next_id - 1) :
          ~Listed(notes.list, id) /\ ~OnItsWay(id) /\ id \notin notes.evicted
             => id \in notes.closed /\ notes.pixmaps[id] = 0

-----------------------------------------------------------------------------
(* The login conversation.  greetd (not part of this repository) holds one *)
(* session that is being set up, whoever asks.  A call runs on a thread    *)
(* and stops at every message; greeter is the conversation that waits for  *)
(* an answer to its prompt.  Users are numbered by the calls.              *)

Calls == 1..MaxTurns

NewLogin == [greetd |-> [user |-> 0, stage |-> "none"],  \* none, asks, ready, started
             call |-> [c \in Calls |-> [stage |-> "new", user |-> 0, password |-> FALSE]],
             greeter |-> [user |-> 0],
             saved |-> 0,
             overlapped |-> FALSE]   \* history: two calls were under way at once

UnderWay(c) == login.call[c].stage \notin {"new", "over"}

Busy == \E c \in Calls : UnderWay(c)

\* A call begins: calls are numbered in the order in which they come.
Begins(c, stage, user, password) ==
    /\ login.call[c].stage = "new" /\ \A d \in 1..(c - 1) : login.call[d].stage # "new"
    /\ login' = [login EXCEPT !.call[c] = [stage |-> stage, user |-> user, password |-> password],
                              !.greeter.user = 0,
                              !.overlapped = @ \/ Busy]

\* greeter.login: an old conversation is abandoned first.
GreeterLogin(c) == Begins(c, IF login.greeter.user # 0 THEN "cancel then create" ELSE "create", c, TRUE)

\* greeter.respond and greeter.cancel, of the conversation that waits.
GreeterRespond(c) == login.greeter.user # 0 /\ Begins(c, "answer", login.greeter.user, FALSE)

GreeterCancel(c) == login.greeter.user # 0 /\ Begins(c, "cancel", login.greeter.user, FALSE)

Goes(c, stage) == [login EXCEPT !.call[c].stage = stage]

Over(l, c) == [l EXCEPT !.call[c] = [stage |-> "over", user |-> 0, password |-> FALSE]]

NoSession == [user |-> 0, stage |-> "none"]

\* cancel_session: whatever is being set up is dropped.
Cancel(c) ==
    /\ login.call[c].stage \in {"cancel then create", "cancel"}
    /\ LET l == IF login.greetd.stage = "started" THEN login ELSE [login EXCEPT !.greetd = NoSession]
       IN login' = IF login.call[c].stage = "cancel" THEN Over(l, c)
                   ELSE [l EXCEPT !.call[c].stage = "create"]

\* create_session is refused while there is another.
Create(c) ==
    /\ login.call[c].stage = "create"
    /\ login' = IF login.greetd.stage # "none" THEN Goes(c, "cancel")
                ELSE [Goes(c, "asked") EXCEPT !.greetd = [user |-> login.call[c].user, stage |-> "asks"]]

\* drive: a secret is answered with the password once, any other question is
\* the user's; the conversation then waits.
Drive(c) ==
    /\ login.call[c].stage = "asked"
    /\ \/ login.call[c].password
          /\ login' = [login EXCEPT !.call[c].stage = "answer", !.call[c].password = FALSE]
       \/ login' = [Over(login, c) EXCEPT !.greeter.user = login.call[c].user]

\* post_auth_message_response: enough, not enough, or wrong.
AnswerPrompt(c) ==
    /\ login.call[c].stage = "answer"
    /\ IF login.greetd.stage # "asks" THEN login' = Goes(c, "cancel")
       ELSE \/ login' = [Goes(c, "start") EXCEPT !.greetd.stage = "ready"]
            \/ login' = Goes(c, "asked")
            \/ login' = [Goes(c, "cancel") EXCEPT !.greetd = NoSession]

\* start_session, and greeter_outcome remembers who it was.
StartSession(c) ==
    /\ login.call[c].stage = "start"
    /\ login' = IF login.greetd.stage # "ready" THEN Goes(c, "cancel")
                ELSE [Over(login, c) EXCEPT !.greetd.stage = "started", !.saved = login.call[c].user]

LoginNext ==
    /\ \E c \in Calls : \/ GreeterLogin(c) \/ GreeterRespond(c) \/ GreeterCancel(c)
                        \/ Cancel(c) \/ Create(c) \/ Drive(c) \/ AnswerPrompt(c) \/ StartSession(c)
    /\ UNCHANGED <<link, layout, notes, tray, helper, reading, instance>>

\* Calls that do not overlap leave greetd with the conversation that waits, or
\* with none; the user remembered is the one whose session was started.
LoginIsSound ==
    ~login.overlapped =>
        /\ ~Busy /\ login.greetd.stage # "started" => login.greetd.user = login.greeter.user
        /\ login.saved # 0 => login.greetd = [user |-> login.saved, stage |-> "started"]
        /\ \A c \in Calls : login.call[c].stage \in {"asked", "answer", "start"}
                                => login.greetd.user = login.call[c].user

-----------------------------------------------------------------------------
(* The tray.  The client library (not part of this repository) changes its *)
(* map of items and then announces it; the thread publishes the map it     *)
(* finds.  One item; its pixels are numbers, 0 when there is no item.      *)

NewTray == [item |-> 0, up |-> TRUE, queue |-> <<>>,
            version |-> 0, seen |-> 0,        \* versions, of the item
            pixmap |-> 0,                     \* pixmaps
            last |-> -1, chan |-> <<>>, shown |-> 0,
            n |-> 0,
            dropped |-> FALSE]                \* history: the picture went, the version stayed

\* publish: what is not in the map is forgotten, an icon that changed is
\* encoded, and the main loop hears of a list that is news.
Publish(t) ==
    LET news == t.item # 0 /\ (t.version = 0 \/ t.seen # t.item)
        version == IF t.item = 0 THEN 0 ELSE IF news THEN t.version + 1 ELSE t.version
        p == [t EXCEPT !.version = version, !.seen = t.item,
                       !.pixmap = IF news THEN t.item ELSE @,
                       !.dropped = IF news THEN FALSE ELSE @]
    IN IF t.last = version THEN p
       ELSE [p EXCEPT !.last = version, !.chan = Append(@, version)]

\* The application's side.
ItemChanges(pixels) ==
    /\ tray.up /\ tray.n < MaxTurns /\ pixels # tray.item
    /\ tray' = [tray EXCEPT !.item = pixels, !.n = @ + 1,
                            !.queue = Append(@, IF pixels = 0 THEN "Remove" ELSE "Change")]

TrayHears ==
    /\ tray.up /\ tray.queue # <<>>
    /\ LET t == [tray EXCEPT !.queue = Tail(@)]
       IN tray' = IF Head(tray.queue) # "Remove" THEN Publish(t)
                  ELSE Publish([t EXCEPT !.pixmap = 0, !.dropped = t.item # 0])

\* refresh: the icon theme has changed.
TrayRefreshes ==
    /\ tray.up /\ tray.n < MaxTurns
    /\ tray' = Publish([tray EXCEPT !.last = -1, !.n = @ + 1])

ClientStops ==
    /\ tray.up /\ tray.n < MaxTurns
    /\ tray' = [tray EXCEPT !.up = FALSE, !.queue = <<>>, !.pixmap = 0, !.last = -1,
                            !.item = 0, !.chan = Append(@, 0), !.n = @ + 1]

\* A new client: it may have found the items before the first publish.
ClientStarts(pixels) ==
    /\ ~tray.up
    /\ tray' = Publish([tray EXCEPT !.up = TRUE, !.item = pixels,
                                    !.dropped = pixels # 0 /\ tray.version > 0])

HostTray ==
    /\ tray.chan # <<>>
    /\ tray' = [tray EXCEPT !.chan = Tail(@), !.shown = Head(tray.chan)]

TrayNext ==
    /\ \/ \E pixels \in 0..2 : ItemChanges(pixels) \/ ClientStarts(pixels)
       \/ TrayHears
       \/ TrayRefreshes
       \/ ClientStops
       \/ HostTray
    /\ UNCHANGED <<link, layout, notes, login, helper, reading, instance>>

\* Once everything is taken the tray shows the item if there is one, and the
\* picture behind its icon is the item's, unless the picture was dropped
\* while the thread still remembered the pixels.
TrayIsCurrent ==
    tray.up /\ tray.queue = <<>> /\ tray.chan = <<>> =>
        /\ tray.shown = tray.version
        /\ tray.item = 0 <=> tray.shown = 0
        /\ ~tray.dropped => tray.pixmap = tray.item

-----------------------------------------------------------------------------
(* Helper commands (run_helper).  "status" is shared: one run serves all   *)
(* who ask, and its answer stands for a while; "set" changes the mode and  *)
(* then every window asks again.  A run reads the mode at some moment.     *)

Pages == {"bar", "settings"}

NewHelper == [mode |-> 0, cache |-> -1, status |-> [on |-> FALSE, read |-> -1, waiting |-> {}],
              set |-> "none",                  \* none, runs, done
              shown |-> [p \in Pages |-> 0], asks |-> {}, n |-> 0,
              crossed |-> FALSE]               \* history: a run was in flight when the mode was set

\* A window asks: the cache, the run in flight or a run of its own answers.
AskStatus(p) ==
    /\ p \in helper.asks
    /\ LET h == [helper EXCEPT !.asks = @ \ {p}]
       IN helper' = IF h.cache # -1 THEN [h EXCEPT !.shown[p] = h.cache]
                    ELSE IF h.status.on THEN [h EXCEPT !.status.waiting = @ \cup {p}]
                    ELSE [h EXCEPT !.status = [on |-> TRUE, read |-> -1, waiting |-> {p}]]

StatusReads ==
    /\ helper.status.on /\ helper.status.read = -1
    /\ helper' = [helper EXCEPT !.status.read = helper.mode]

\* Everyone who waits hears of it; an error (-1) is not kept.
StatusDone(ok) ==
    /\ helper.status.on /\ helper.status.read # -1
    /\ LET h == [helper EXCEPT !.status = [on |-> FALSE, read |-> -1, waiting |-> {}]]
           answer == IF ok THEN helper.status.read ELSE -1
       IN helper' = [h EXCEPT !.cache = IF ok THEN answer ELSE @,
                              !.shown = [p \in Pages |-> IF p \in helper.status.waiting THEN answer ELSE @[p]]]

CacheExpires ==
    /\ helper.cache # -1
    /\ helper' = [helper EXCEPT !.cache = -1]

SetMode ==
    /\ helper.set = "none" /\ helper.n < MaxTurns
    /\ helper' = [helper EXCEPT !.set = "runs", !.n = @ + 1]

ModeIsSet(ok) ==
    /\ helper.set = "runs"
    /\ helper' = [helper EXCEPT !.set = IF ok THEN "done" ELSE "none", !.mode = IF ok THEN @ + 1 ELSE @]

\* The cache is emptied and perf_changed broadcast: every window asks again.
SetDone ==
    /\ helper.set = "done"
    /\ helper' = [helper EXCEPT !.set = "none", !.cache = -1, !.asks = Pages,
                                !.crossed = helper.status.on /\ helper.status.read \notin {-1, helper.mode}]

HelperNext ==
    /\ \/ \E p \in Pages : AskStatus(p)
       \/ StatusReads
       \/ \E ok \in BOOLEAN : StatusDone(ok)
       \/ CacheExpires
       \/ SetMode
       \/ \E ok \in BOOLEAN : ModeIsSet(ok)
       \/ SetDone
    /\ UNCHANGED <<link, layout, notes, login, tray, reading, instance>>

\* When every window has its answer it is the mode that was set, and so is the
\* answer kept for the next, unless a run from before the switch answered.
HelperIsCurrent ==
    helper.set = "none" /\ helper.asks = {} /\ ~helper.status.on /\ ~helper.crossed =>
        /\ \A p \in Pages : helper.shown[p] \in {-1, helper.mode}
        /\ helper.cache \in {-1, helper.mode}

-----------------------------------------------------------------------------
(* What is read on a thread and handed back: the applications (a scan when *)
(* a folder changes, another when the icon theme does, and a walk every    *)
(* half minute that looks at a fingerprint first), the network (read again *)
(* when nmcli's lines settle, and by the calls that change it) and the     *)
(* volume (a thread that follows the feed and says only what is news, and  *)
(* the calls that change it).  truth is numbered by its changes.           *)

Kinds == {"apps", "network", "audio"}

NewReading == [kind |-> "apps", truth |-> 0, shown |-> 0,
               told |-> FALSE, timer |-> FALSE,
               tasks |-> <<>>,    \* what each has read, -1 before it has
               last |-> 0,        \* the standing thread's fingerprint or last value
               walk |-> -1,       \* what it is about to send
               chan |-> <<>>, n |-> 0,
               feed |-> TRUE,     \* nmcli monitor is there
               newest |-> 0,      \* history: the newest reading that was ever shown
               deaf |-> FALSE]    \* history: a change since the last reading had nobody to tell of it

Apply(r, value) == [r EXCEPT !.shown = value, !.newest = IF value > @ THEN value ELSE @]

\* Something changes.  A change below the watched folders is announced to nobody, and neither is one of the
\* network once nmcli monitor, which nothing starts again, has ended.
TruthChanges(deep) ==
    /\ reading.n < MaxTurns
    /\ deep => reading.kind = "apps"
    /\ reading' = [reading EXCEPT !.truth = @ + 1, !.n = @ + 1, !.told = @ \/ (~deep /\ reading.feed),
                                  !.deaf = @ \/ ~reading.feed]

\* It was not installed, or is gone.
FeedEnds ==
    /\ reading.kind = "network" /\ reading.feed
    /\ reading' = [reading EXCEPT !.feed = FALSE]

\* apps_dir_changed, schedule_network_refresh: a timer, started once or anew.
ChangeIsHeard ==
    /\ reading.kind # "audio" /\ reading.told
    /\ reading' = [reading EXCEPT !.told = FALSE, !.timer = TRUE]

ReadTimer ==
    /\ reading.timer
    /\ reading' = [reading EXCEPT !.timer = FALSE, !.tasks = Append(@, -1)]

\* icon_theme_changed, a vpn call, a change of the volume: read at once.
ReadNow ==
    /\ Len(reading.tasks) < 2 /\ reading.n < MaxTurns
    /\ reading' = [reading EXCEPT !.tasks = Append(@, -1), !.n = @ + 1]

TaskReads(i) ==
    /\ reading.tasks[i] = -1
    /\ reading' = [reading EXCEPT !.tasks[i] = reading.truth, !.deaf = FALSE]

\* A scan goes through the channel, the others come back to who awaits them.
TaskDone(i) ==
    /\ reading.tasks[i] # -1
    /\ LET r == [reading EXCEPT !.tasks = RemoveAt(@, i)]
       IN reading' = IF r.kind = "apps" THEN [r EXCEPT !.chan = Append(@, reading.tasks[i])]
                     ELSE Apply(r, reading.tasks[i])

\* The standing threads: the fingerprint is taken before the entries are read;
\* the volume is read when the feed has settled or half a minute has passed.
Walk ==
    /\ reading.kind = "apps" /\ reading.walk = -1 /\ reading.last # reading.truth
    /\ reading' = [reading EXCEPT !.last = reading.truth, !.walk = -2]

WalkReads ==
    /\ reading.walk = -2
    /\ reading' = [reading EXCEPT !.walk = reading.truth]

WalkSends ==
    /\ reading.walk >= 0
    /\ reading' = [reading EXCEPT !.walk = -1, !.chan = Append(@, reading.walk)]

FeedReads ==
    /\ reading.kind = "audio" /\ reading.walk = -1
    /\ reading.told \/ reading.last # reading.truth
    /\ reading' = [reading EXCEPT !.told = FALSE, !.last = reading.truth,
                                  !.walk = IF reading.truth = reading.last THEN -1 ELSE reading.truth]

HostReads ==
    /\ reading.chan # <<>>
    /\ reading' = Apply([reading EXCEPT !.chan = Tail(@)], Head(reading.chan))

ReadingNext ==
    /\ \/ \E deep \in BOOLEAN : TruthChanges(deep)
       \/ FeedEnds \/ ChangeIsHeard \/ ReadTimer \/ ReadNow
       \/ \E i \in DOMAIN reading.tasks : TaskReads(i) \/ TaskDone(i)
       \/ Walk \/ WalkReads \/ WalkSends \/ FeedReads
       \/ HostReads
    /\ UNCHANGED <<link, layout, notes, login, tray, helper, instance>>

Settled ==
    /\ ~reading.told /\ ~reading.timer /\ reading.tasks = <<>> /\ reading.chan = <<>>
    /\ reading.walk = -1 /\ (reading.kind # "network" => reading.last = reading.truth)

\* When nothing is told, read or on its way, and the walk has looked since the
\* last change, the shell shows the truth, unless a reading overtook a newer
\* or nmcli monitor had ended before the change.
ReadingIsCurrent == Settled => reading.shown = reading.truth \/ reading.shown < reading.newest \/ reading.deaf

-----------------------------------------------------------------------------
(* One window per application: the first listens on a socket, the next     *)
(* hand their page over.  The listener is a thread: it answers from before *)
(* the window is there until the process has ended, and the main loop      *)
(* comes to what it was given later.  A process is at: new, starting       *)
(* (nobody answered), cleared (it has removed the file), loading, window   *)
(* (with its page loaded), closing (the window is closed, Quit is in the   *)
(* channel), gone.  Pages wait in no order.                                *)

Running == {"loading", "window", "closing"}

NewInstance == [proc |-> [p \in Launches |-> "new"],
                file |-> {},        \* whose listener the socket's name leads to, if any
                listens |-> {},     \* who has a listener
                events |-> [p \in Launches |-> {}],     \* AppOpen of these launches, ahead of Quit
                page |-> {},        \* launches whose page is on a screen
                late |-> {},        \* history: launches whose page found its window not loaded yet, or closed
                raced |-> FALSE]    \* history: two started at once

Answers == instance.file \cap instance.listens

\* Whose channel still holds no Quit.
Opens(q) == q \in Answers /\ instance.proc[q] # "closing"

\* main, open_app: forward, and the launch is over once the other says ok, as
\* soon as it has put AppOpen into its channel; behind Quit nobody takes it.
Launch(p) ==
    /\ instance.proc[p] = "new"
    /\ instance' = IF Answers # {}
                   THEN [instance EXCEPT !.proc[p] = "gone",
                                         !.events = [q \in Launches |-> IF Opens(q) THEN @[q] \cup {p} ELSE @[q]],
                                         !.late = IF \E q \in Launches : Opens(q) THEN @ ELSE @ \cup {p}]
                   ELSE [instance EXCEPT !.proc[p] = "starting",
                                         !.raced = @ \/ \E q \in Launches : instance.proc[q] \in {"starting", "cleared"}]

\* instance::start: a listener that answers is left alone, a dead name removed.
ClearSocket(p) ==
    /\ instance.proc[p] = "starting"
    /\ instance' = IF Answers # {} THEN [instance EXCEPT !.proc[p] = "loading"]
                   ELSE [instance EXCEPT !.proc[p] = "cleared", !.file = {}]

\* bind fails on a name that exists; the window comes either way.
Bind(p) ==
    /\ instance.proc[p] = "cleared"
    /\ LET i == [instance EXCEPT !.proc[p] = "loading"]
       IN instance' = IF i.file # {} THEN i
                      ELSE [i EXCEPT !.file = {p}, !.listens = @ \cup {p}]

\* Its page has loaded, with what the command line asked for.
PageLoads(p) ==
    /\ instance.proc[p] = "loading"
    /\ instance' = [instance EXCEPT !.proc[p] = "window", !.page = @ \cup {p}]

\* app_open: the page is told, if there is one yet, or still.
AppOpen(p, q) ==
    /\ q \in instance.events[p]
    /\ LET i == [instance EXCEPT !.events[p] = @ \ {q}]
       IN instance' = IF i.proc[p] = "window" THEN [i EXCEPT !.page = @ \cup {q}]
                      ELSE [i EXCEPT !.late = @ \cup {q}]

\* close_request: the window goes, and Quit into the channel; the thread goes
\* on answering.
CloseApp(p) ==
    /\ instance.proc[p] \in {"loading", "window"}
    /\ instance' = [instance EXCEPT !.proc[p] = "closing",
                                    !.late = IF instance.proc[p] = "loading" THEN @ \cup {p} ELSE @]

\* Quit is taken: the name stays, nobody answers it.
Ends(p) ==
    /\ instance.proc[p] = "closing" /\ instance.events[p] = {}
    /\ instance' = [instance EXCEPT !.proc[p] = "gone", !.listens = @ \ {p}]

InstanceNext ==
    /\ \E p \in Launches : Launch(p) \/ ClearSocket(p) \/ Bind(p) \/ PageLoads(p)
                           \/ (\E q \in Launches : AppOpen(p, q)) \/ CloseApp(p) \/ Ends(p)
    /\ UNCHANGED <<link, layout, notes, login, tray, helper, reading>>

HasProcess == {p \in Launches : instance.proc[p] \in Running}

\* A launch that is over has been shown or is about to be, unless its page
\* found its window not loaded yet, or closed; there is one process, and it is
\* the one that answers, unless two launches started at once.
OneWindow ==
    /\ \A p \in Launches :
          /\ instance.proc[p] = "window" => p \in instance.page
          /\ instance.proc[p] = "gone" =>
                \/ p \in instance.page \cup instance.late
                \/ \E q \in HasProcess : p \in instance.events[q]
    /\ ~instance.raced => Cardinality(HasProcess) <= 1 /\ HasProcess = Answers

-----------------------------------------------------------------------------
ServicesInit(scene) ==
    /\ link = NewLink
    /\ layout = NewLayout
    /\ notes = NewNotes
    /\ login = NewLogin
    /\ tray = NewTray
    /\ helper = NewHelper
    /\ reading \in {[NewReading EXCEPT !.kind = kind] : kind \in IF scene = "reading" THEN Kinds ELSE {"apps"}}
    /\ instance = NewInstance

ServicesNext(scene) ==
    \/ scene = "lock link" /\ LockNext
    \/ scene = "game link" /\ GameNext
    \/ scene = "layout" /\ LayoutNext
    \/ scene = "notify" /\ NotifyNext
    \/ scene = "login" /\ LoginNext
    \/ scene = "tray" /\ TrayNext
    \/ scene = "helper" /\ HelperNext
    \/ scene = "reading" /\ ReadingNext
    \/ scene = "instance" /\ InstanceNext

(* What each of them promises, together. *)
ServicesAreSound ==
    /\ LinkIsSound
    /\ LayoutIsKept
    /\ NotesAreSound
    /\ LoginIsSound
    /\ TrayIsCurrent
    /\ HelperIsCurrent
    /\ ReadingIsCurrent
    /\ OneWindow
=============================================================================
