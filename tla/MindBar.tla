------------------------------ MODULE MindBar ------------------------------
(***************************************************************************)
(* mindwm/src/{mindbar,mind,launcher,osd}.rs: the Mind bar, its client of  *)
(* the daemon and its application index.                                   *)
(*                                                                         *)
(* Four parties: the compositor, which owns the bar and runs one handler   *)
(* at a time; the manager thread, which connects, writes what the bar      *)
(* asks and reconnects; a reader thread for every connection; and the      *)
(* daemon, of which only the connection's task is kept (see Agent).        *)
(* A text is whether there is one, the conversation is how many lines it   *)
(* has, and what a frame paints is the state it was painted from.          *)
(***************************************************************************)
EXTENDS Integers, Sequences, SequencesExt, FiniteSets, FiniteSetsExt

CONSTANTS
    AppLists,    \* what the index may find: sequences of applications
    Quick,       \* quick_launches: names, in order
    BarScreens,     \* screens
    Rows,        \* RESULT_ROWS
    KeptLines,   \* the conversation's 200 lines
    MaxAsks,     \* bound: questions
    MaxToolCalls,\* bound: tool calls of the daemon
    MaxCrashes,  \* bound: how often the daemon dies
    MaxTransit   \* bound: requests and events that are on their way

VARIABLES
    bar,         \* the compositor: MindBar and what it needs of the rest
    events,      \* the loop channel of MindEvents
    requests,    \* MindClient.tx
    manager,     \* the manager thread
    readers,     \* the reader of each connection
    daemon       \* the daemon

barVars == <<bar, events, requests, manager, readers, daemon>>

NoOutput == "no output"
NoCall == 0
NoPanel == [drawn |-> FALSE]
Inputs == {"", "name", "?", "?question", "!command"}

BarInit ==
    /\ bar = [open |-> FALSE, output |-> NoOutput, outputs |-> BarScreens, locked |-> FALSE,
              unseen |-> FALSE,      \* history: opened when there was no screen
              input |-> "", apps |-> <<>>, results |-> <<>>, selected |-> 1,
              lines |-> 0, streaming |-> FALSE, busy |-> FALSE, pending |-> NoCall,
              connected |-> FALSE, ready |-> FALSE, tools |-> FALSE, accent |-> 1,
              dirty |-> TRUE, panel |-> NoPanel,
              osd |-> FALSE,
              since |-> FALSE,       \* backdrop_since
              last |-> [o \in BarScreens |-> "none"],  \* history: what a screen showed last
              asks |-> 0]
    /\ events = <<>>
    /\ requests = <<>>
    /\ manager = [pc |-> "connect", conn |-> 0, reported |-> FALSE,
                  lost |-> FALSE,    \* history: a question went to a connection that was known dead
                  late |-> FALSE]    \* history: an old connection's end was reported after a new one began
    /\ readers = <<>>
    /\ daemon = [up |-> FALSE, conn |-> 0, pc |-> "idle", call |-> NoCall, calls |-> 0,
                 inbox |-> <<>>, crashes |-> 0]

-----------------------------------------------------------------------------
(* launcher.rs and the list of results. *)

\* The first `most` of S in the order of its pairs: `before` says who precedes whom.
InOrder(S, before, most) ==
    [k \in 1..(IF Cardinality(S) < most THEN Cardinality(S) ELSE most) |->
        CHOOSE i \in S : Cardinality({j \in S : <<j, i>> \in before}) = k - 1]

\* search: by how well the name matches, then by its length; the sort is
\* stable.  An application's score is 5 when it does not match.
Precedes(apps, i, j) ==
    \/ apps[i].score < apps[j].score
    \/ apps[i].score = apps[j].score /\ apps[i].length < apps[j].length
    \/ apps[i].score = apps[j].score /\ apps[i].length = apps[j].length /\ i < j

Search(apps) ==
    LET found == {i \in DOMAIN apps : apps[i].score < 5}
    IN  InOrder(found, {p \in found \X found : Precedes(apps, p[1], p[2])}, Rows)

\* The names that are installed, in their order, each by its first entry.
QuickLaunches(apps) ==
    LET At(k) == {i \in DOMAIN apps : apps[i].name = Quick[k]}
        known == {k \in DOMAIN Quick : At(k) # {}}
        shown == InOrder(known, {p \in known \X known : p[1] < p[2]}, Rows)
    IN  [k \in DOMAIN shown |-> Min(At(shown[k]))]

RefreshResults(s) ==
    [s EXCEPT !.results = IF s.input \in {"?", "?question", "!command"} THEN <<>>
                          ELSE IF s.input # "" THEN Search(s.apps)
                          ELSE IF s.lines = 0 /\ ~s.busy THEN QuickLaunches(s.apps) ELSE <<>>,
              !.selected = 1, !.dirty = TRUE]

\* (A new index under the old results.)
IndexOnly(s, apps) == [s EXCEPT !.apps = apps, !.dirty = TRUE]

SetApps(s, apps) == RefreshResults([s EXCEPT !.apps = apps])

Push(s) == [s EXCEPT !.lines = IF @ < KeptLines THEN @ + 1 ELSE @, !.dirty = TRUE]

FlushStreaming(s) == [IF s.streaming THEN Push(s) ELSE s EXCEPT !.streaming = FALSE]

OpenBar(s) ==
    RefreshResults([s EXCEPT !.open = TRUE, !.unseen = s.output \notin s.outputs])

CloseBar(s) == [s EXCEPT !.open = FALSE, !.dirty = TRUE]

ToggleBar(s) == IF s.open THEN CloseBar(s) ELSE OpenBar(s)

-----------------------------------------------------------------------------
(* Requests of the compositor: MindClient and handle_bar_action. *)

Tell(s, request) == bar' = s /\ requests' = Append(requests, request)
Silent(s) == bar' = s /\ UNCHANGED requests

\* A question: from the input, or from a notice's button when none is asked.
Ask(s) ==
    /\ s.asks < MaxAsks
    /\ Tell([Push(s) EXCEPT !.busy = TRUE, !.streaming = FALSE, !.input = "",
                            !.results = <<>>, !.asks = @ + 1],
            [type |-> "chat", id |-> NoCall])

OpenWith(s, ask) ==
    LET t == OpenBar(s)
    IN  IF t.busy \/ t.pending # NoCall THEN Silent(t)
        ELSE IF ask THEN Ask(t)
        ELSE Silent(RefreshResults([t EXCEPT !.input = "?question"]))

\* The bar keeps its screen while it is open and the screen is there.
TargetMindbar(s) ==
    IF s.open /\ s.output \in s.outputs THEN {s}
    ELSE {[s EXCEPT !.output = o] : o \in IF s.outputs = {} THEN {NoOutput} ELSE s.outputs}

LaunchSelected(s) == [CloseBar(s) EXCEPT !.input = ""]

Answer(s, approve) ==
    Tell([Push(s) EXCEPT !.pending = NoCall],
         [type |-> IF approve THEN "confirm" ELSE "deny", id |-> s.pending])

Enter(s, shift) ==
    IF ~shift /\ s.input \notin {"?", "?question", "!command"} /\ s.results # <<>>
    THEN Silent(LaunchSelected(s))
    ELSE IF s.input \in {"", "?"} THEN Silent([s EXCEPT !.dirty = TRUE])
    ELSE IF s.input = "!command" THEN Silent(Push(RefreshResults([s EXCEPT !.input = ""])))
    ELSE Ask([s EXCEPT !.dirty = TRUE])

Escape(s) ==
    IF s.busy THEN Tell(Push(FlushStreaming([s EXCEPT !.busy = FALSE])),
                        [type |-> "cancel", id |-> NoCall])
    ELSE Silent(CloseBar(s))

\* Up and Down go round; Ctrl+C copies what there is; Ctrl+L clears.
Step(s, back) ==
    LET n == Len(s.results)
    IN  IF n = 0 THEN s
        ELSE [s EXCEPT !.selected = IF back THEN ((@ + n - 2) % n) + 1 ELSE (@ % n) + 1]

HandleKey(key) ==
    LET s == [bar EXCEPT !.dirty = TRUE]
    IN  /\ bar.open
        /\ IF bar.pending # NoCall
           THEN CASE key = "y" -> Answer(s, TRUE)
                  [] key \in {"n", "escape"} -> Answer(s, FALSE)
                  [] OTHER -> Silent(s)
           ELSE CASE key = "escape" -> Escape(s)
                  [] key = "enter" -> Enter(s, FALSE)
                  [] key = "shift enter" -> Enter(s, TRUE)
                  [] key = "up" -> Silent(Step(s, TRUE))
                  [] key = "down" -> Silent(Step(s, FALSE))
                  [] key = "copy" -> Silent(IF s.lines = 0 THEN s ELSE Push(s))
                  [] key = "clear" -> Silent(RefreshResults([s EXCEPT !.lines = 0, !.streaming = FALSE]))
                  [] OTHER -> \E i \in Inputs : Silent(RefreshResults([s EXCEPT !.input = i]))

\* A click on the close button, on a copy button or on a row of the results.
Click(o, what, row) ==
    /\ bar.open
    /\ Silent(IF bar.output # o \/ bar.panel = NoPanel THEN bar
              ELSE CASE what = "close" -> CloseBar(bar)
                     [] what = "copy" -> [bar EXCEPT !.dirty = TRUE]
                     [] row <= Len(bar.results) -> LaunchSelected([bar EXCEPT !.selected = row])
                     [] OTHER -> bar)

\* The shortcut, and the shell's requests, which a locked session refuses.
ToggleMindBar ==
    /\ ~bar.locked
    /\ \E s \in TargetMindbar(bar) : Silent(ToggleBar(s))

MindbarRequest(action, ask) ==
    /\ ~bar.locked
    /\ \E s \in TargetMindbar(bar) :
         CASE action = "close" -> Silent(CloseBar(s))
           [] action = "open" -> Silent(OpenBar(s))
           [] OTHER -> OpenWith(s, ask)

-----------------------------------------------------------------------------
(* What the screens show. *)

Content(s) ==
    [drawn |-> TRUE, input |-> s.input, selected |-> s.selected, lines |-> s.lines,
     results |-> [k \in DOMAIN s.results |-> s.apps[s.results[k]].name],
     streaming |-> s.streaming, pending |-> s.pending, connected |-> s.connected,
     ready |-> s.ready, busy |-> s.busy, tools |-> s.tools, accent |-> s.accent]

\* render_element with body_height, draw_panel and with_shadow; the thinking
\* dots of a request are a new picture every 60 ms.
RenderElement(s, o) ==
    IF ~s.open \/ s.output # o THEN s
    ELSE IF s.dirty \/ s.panel = NoPanel \/ s.busy
    THEN [s EXCEPT !.panel = Content(s), !.dirty = FALSE]
    ELSE s

\* The startup screen, until the shell's desktop is up on that screen.
BackdropElements(s, o, desktopUp) ==
    [s EXCEPT !.since = ~desktopUp, !.last[o] = IF desktopUp THEN "desktop" ELSE "startup"]

\* One frame; the feedback card may have had its time.
Frame(o, desktopUp, over) ==
    /\ o \in bar.outputs
    /\ bar' = BackdropElements(RenderElement([bar EXCEPT !.osd = @ /\ ~over], o), o, desktopUp)
    /\ UNCHANGED requests

InvalidateGraphics(s) == [s EXCEPT !.panel = NoPanel, !.osd = FALSE, !.dirty = TRUE]

SetShowTools(s, on) == IF s.tools = on THEN s ELSE [s EXCEPT !.tools = on, !.dirty = TRUE]
SetAccent(s, a) == IF s.accent = a THEN s ELSE [s EXCEPT !.accent = a, !.dirty = TRUE]

ShowOsd == ~bar.locked /\ Silent([bar EXCEPT !.osd = TRUE])

LockSession == ~bar.locked /\ Silent([CloseBar(bar) EXCEPT !.locked = TRUE, !.osd = FALSE])
UnlockSession == bar.locked /\ Silent([bar EXCEPT !.locked = FALSE])

Unplug(o) ==
    /\ o \in bar.outputs
    /\ LET s == [bar EXCEPT !.outputs = @ \ {o}]
       IN  Silent(IF s.output = o THEN [CloseBar(s) EXCEPT !.output = NoOutput] ELSE s)

Plug(o) ==
    /\ o \notin bar.outputs
    /\ Silent([bar EXCEPT !.outputs = @ \cup {o}])

-----------------------------------------------------------------------------
(* The compositor takes an event of the client: on_mind_event. *)

OnMindEvent(s, e) ==
    LET d == [s EXCEPT !.dirty = TRUE]
    IN  CASE e.type = "connected" -> [d EXCEPT !.connected = TRUE]
          [] e.type \in {"disconnected", "unavailable"} ->
               [d EXCEPT !.connected = FALSE, !.ready = FALSE, !.busy = FALSE]
          [] e.type = "welcome" -> [d EXCEPT !.ready = TRUE]
          [] e.type = "delta" -> [d EXCEPT !.streaming = TRUE]
          [] e.type = "tool_call" -> [Push(FlushStreaming(d)) EXCEPT !.pending = e.id]
          [] e.type = "tool_result" -> Push(d)
          [] e.type = "client_tool" -> Push(d)
          [] e.type = "done" -> [FlushStreaming([d EXCEPT !.streaming = TRUE]) EXCEPT !.busy = FALSE]
          [] OTHER -> [Push(FlushStreaming(d)) EXCEPT !.busy = FALSE]

\* A tool of the session is run at once and its result sent, whatever came of it.
TakeEvent ==
    /\ events # <<>>
    /\ LET e == Head(events)
       IN  IF e.type = "client_tool"
           THEN Tell(OnMindEvent(bar, e), [type |-> "tool_result", id |-> e.id])
           ELSE Silent(OnMindEvent(bar, e))
    /\ events' = Tail(events)
    /\ UNCHANGED <<manager, readers, daemon>>

-----------------------------------------------------------------------------
(* mind.rs: the manager thread and the readers. *)

Event(type, id) == [type |-> type, id |-> id]
Connection == readers[manager.conn]
Known(c) == c \in DOMAIN readers

Connect ==
    /\ manager.pc = "connect"
    /\ IF daemon.up
       THEN /\ manager' = [manager EXCEPT !.pc = "hello", !.conn = @ + 1, !.reported = FALSE]
            /\ readers' = [c \in DOMAIN readers \cup {manager.conn + 1} |->
                             IF Known(c) THEN readers[c]
                             ELSE [wire |-> <<>>, open |-> TRUE, ended |-> FALSE]]
            /\ daemon' = [daemon EXCEPT !.conn = manager.conn + 1, !.pc = "idle", !.call = NoCall,
                                        !.inbox = <<>>]
            /\ UNCHANGED events
       ELSE /\ events' = IF manager.reported THEN events
                         ELSE Append(events, Event("unavailable", NoCall))
            /\ manager' = [manager EXCEPT !.reported = TRUE]
            /\ UNCHANGED <<readers, daemon>>
    /\ UNCHANGED <<bar, requests>>

\* Is the other end of the manager's connection still there?
Writable == Known(manager.conn) /\ Connection.open

\* The daemon answers hello with its welcome.
Hello ==
    /\ manager.pc = "hello"
    /\ IF Writable
       THEN /\ manager' = [manager EXCEPT !.pc = "announce"]
            /\ readers' = [readers EXCEPT ![manager.conn].wire = Append(@, Event("welcome", NoCall))]
       ELSE /\ manager' = [manager EXCEPT !.pc = "connect"]
            /\ UNCHANGED readers
    /\ UNCHANGED <<bar, events, requests, daemon>>

Announce ==
    /\ manager.pc = "announce"
    /\ events' = Append(events, Event("connected", NoCall))
    /\ manager' = [manager EXCEPT !.pc = "serve",
                                  !.late = @ \/ \E c \in DOMAIN readers : c < manager.conn]
    /\ UNCHANGED <<bar, requests, readers, daemon>>

\* A request is written, or lost with the connection.
Write ==
    /\ manager.pc = "serve" /\ requests # <<>>
    /\ requests' = Tail(requests)
    /\ IF Writable
       THEN /\ daemon' = [daemon EXCEPT !.inbox = Append(@, Head(requests))]
            /\ UNCHANGED manager
       ELSE /\ manager' = [manager EXCEPT !.pc = "close",
                             !.lost = @ \/ (Head(requests).type = "chat" /\ ~Known(manager.conn))]
            /\ UNCHANGED daemon
    /\ UNCHANGED <<bar, events, readers>>

Notice ==
    /\ manager.pc = "serve" /\ requests = <<>>
    /\ Known(manager.conn) => Connection.ended
    /\ manager' = [manager EXCEPT !.pc = "close"]
    /\ UNCHANGED <<bar, events, requests, readers, daemon>>

\* Shut down both ways, then a pause before the next attempt: two seconds, in
\* which the reader hands on what it has.
CloseConnection ==
    /\ manager.pc = "close"
    /\ manager' = [manager EXCEPT !.pc = "pause"]
    /\ readers' = [c \in DOMAIN readers |->
                     IF c = manager.conn THEN [readers[c] EXCEPT !.open = FALSE] ELSE readers[c]]
    /\ UNCHANGED <<bar, events, requests, daemon>>

Pause ==
    /\ manager.pc = "pause" /\ ~Known(manager.conn)
    /\ manager' = [manager EXCEPT !.pc = "connect"]
    /\ UNCHANGED <<bar, events, requests, readers, daemon>>

\* A reader hands on a line, notes the end, and reports it.
Read(c) ==
    /\ c \in DOMAIN readers
    /\ LET r == readers[c]
       IN  \/ /\ r.wire # <<>>
              /\ events' = Append(events, Head(r.wire))
              /\ readers' = [readers EXCEPT ![c].wire = Tail(@)]
           \/ /\ r.wire = <<>> /\ ~r.open /\ ~r.ended
              /\ readers' = [readers EXCEPT ![c].ended = TRUE]
              /\ UNCHANGED events
           \/ /\ r.ended
              /\ events' = Append(events, Event("disconnected", NoCall))
              /\ readers' = [d \in DOMAIN readers \ {c} |-> readers[d]]
    /\ UNCHANGED <<bar, requests, manager, daemon>>

-----------------------------------------------------------------------------
(* The daemon's side of a connection: server.rs and agent.rs. *)

Serves == daemon.up /\ daemon.conn \in DOMAIN readers /\ readers[daemon.conn].open

SendEvent(e) == readers' = [readers EXCEPT ![daemon.conn].wire = Append(@, e)]

\* A request: a chat begins when none runs; while one runs only Cancel and
\* the answer that is waited for are more than thrown away.
DaemonReads ==
    /\ Serves /\ daemon.inbox # <<>>
    /\ LET q == Head(daemon.inbox)
           d == [daemon EXCEPT !.inbox = Tail(@)]
           mine == q.id = daemon.call
       IN  CASE daemon.pc = "idle" /\ q.type = "chat" ->
                  daemon' = [d EXCEPT !.pc = "chat"] /\ UNCHANGED readers
             [] daemon.pc = "chat" /\ q.type = "cancel" ->
                  daemon' = [d EXCEPT !.pc = "idle"] /\ SendEvent(Event("error", NoCall))
             [] daemon.pc = "confirm" /\ (q.type = "cancel" \/ (mine /\ q.type \in {"confirm", "deny"})) ->
                  /\ daemon' = [d EXCEPT !.pc = "chat", !.call = NoCall]
                  /\ SendEvent(Event("tool_result", NoCall))
             [] daemon.pc = "tool" /\ (q.type = "cancel" \/ (mine /\ q.type = "tool_result")) ->
                  daemon' = [d EXCEPT !.pc = "chat", !.call = NoCall] /\ UNCHANGED readers
             [] OTHER -> daemon' = d /\ UNCHANGED readers
    /\ UNCHANGED <<bar, events, requests, manager>>

\* The chat goes on: some text, a tool call, one that is refused after all,
\* a tool of the client, or the end.
DaemonWorks ==
    /\ Serves
    /\ LET c == daemon.calls + 1
       IN  \/ /\ daemon.pc = "chat"
              /\ \/ SendEvent(Event("delta", NoCall)) /\ UNCHANGED daemon
                 \/ \E e \in {"done", "error"} :
                      SendEvent(Event(e, NoCall)) /\ daemon' = [daemon EXCEPT !.pc = "idle"]
                 \/ /\ c <= MaxToolCalls
                    /\ \/ /\ SendEvent(Event("tool_call", c))
                          /\ \E pc \in {"confirm", "chat"} :
                               daemon' = [daemon EXCEPT !.calls = c, !.pc = pc,
                                            !.call = IF pc = "confirm" THEN c ELSE NoCall]
                       \/ /\ SendEvent(Event("client_tool", c))
                          /\ daemon' = [daemon EXCEPT !.calls = c, !.call = c, !.pc = "tool"]
           \/ /\ daemon.pc \in {"confirm", "tool"}  \* nobody answered in time
              /\ SendEvent(Event("tool_result", NoCall))
              /\ daemon' = [daemon EXCEPT !.pc = "chat", !.call = NoCall]
    /\ UNCHANGED <<bar, events, requests, manager>>

DaemonStarts == ~daemon.up /\ daemon' = [daemon EXCEPT !.up = TRUE]
                /\ UNCHANGED <<bar, events, requests, manager, readers>>

DaemonDies ==
    /\ daemon.up /\ daemon.crashes < MaxCrashes
    /\ daemon' = [daemon EXCEPT !.up = FALSE, !.pc = "idle", !.call = NoCall, !.inbox = <<>>,
                                !.crashes = @ + 1]
    /\ readers' = [c \in DOMAIN readers |-> [readers[c] EXCEPT !.open = FALSE]]
    /\ UNCHANGED <<bar, events, requests, manager>>

-----------------------------------------------------------------------------
(* The three scenes: a conversation, what the bar shows, and where. *)

Desk == UNCHANGED <<events, manager, readers, daemon>>

TalkNext ==
    \/ /\ Desk
       /\ \/ \E key \in {"shift enter", "escape", "y"} : HandleKey(key)
          \/ bar.input = "" /\ HandleKey("text")
          \/ ~bar.open /\ MindbarRequest("ask", TRUE)
    \/ TakeEvent
    \/ Connect \/ Hello \/ Announce \/ Write \/ Notice \/ CloseConnection \/ Pause
    \/ \E c \in DOMAIN readers : Read(c)
    \/ DaemonReads \/ DaemonWorks \/ DaemonStarts \/ DaemonDies

\* Bound: what may be on its way in a conversation, and where the bar is.
TalkBound ==
    /\ Len(events') + Len(requests') + Len(daemon'.inbox)
         + MapThenSumSet(LAMBDA c : Len(readers'[c].wire), DOMAIN readers') <= MaxTransit
    /\ bar'.input \in {"", "?question"}
    /\ bar'.output \in {NoOutput, CHOOSE o \in BarScreens : TRUE}

\* One screen whose desktop is up.
BarNext ==
    /\ Desk
    /\ \/ \E key \in {"escape", "enter", "shift enter", "up", "down", "copy", "clear", "text", "y", "n"} :
            HandleKey(key)
       \/ \E what \in {"close", "copy", "row"}, row \in 1..Rows : Click(bar.output, what, row)
       \/ ~bar.open /\ \E action \in {"open", "ask"}, ask \in BOOLEAN : MindbarRequest(action, ask)
       \/ bar.open /\ Frame(bar.output, TRUE, FALSE)
       \/ \E apps \in AppLists : Silent(SetApps(bar, apps))
       \/ \E type \in {"tool_call", "done", "disconnected"} : Silent(OnMindEvent(bar, Event(type, 1)))
       \/ bar.open /\ ~bar.dirty /\ Silent(InvalidateGraphics(bar))
       \/ bar.open /\ bar.results # <<>> /\ ~bar.dirty /\ Silent(SetShowTools(bar, TRUE))
       \/ bar.open /\ bar.results # <<>> /\ ~bar.dirty /\ Silent(SetAccent(bar, 2))

ScreensNext ==
    /\ Desk
    /\ \/ ToggleMindBar
       \/ \E action \in {"close", "open"} : MindbarRequest(action, FALSE)
       \/ HandleKey("escape")
       \/ \E o \in BarScreens : Click(o, "close", 1)
       \/ \E o \in BarScreens, up \in BOOLEAN, over \in BOOLEAN : Frame(o, up, over)
       \/ Silent(InvalidateGraphics(bar))
       \/ ShowOsd \/ LockSession \/ UnlockSession
       \/ \E o \in BarScreens : Unplug(o) \/ Plug(o)

\* Bound: nobody takes what this bar asks, and it stays on its screen.
BarBound ==
    /\ Len(requests') <= 1
    /\ bar'.output \in {NoOutput, CHOOSE o \in BarScreens : TRUE}

-----------------------------------------------------------------------------
(***************************************************************************)
(* Nobody waits for nothing.  When nothing is on its way and the           *)
(* connection stands, the bar that says Thinking has a chat at the daemon, *)
(* the confirmation the daemon waits for is the one the bar asks, and a    *)
(* tool of the session has been answered.  The exception is a question     *)
(* written to a connection whose end the bar had already been told: it is  *)
(* lost, and the bar goes on thinking until Escape.                        *)
(***************************************************************************)
NobodyWaitsForNothing ==
    manager.pc = "serve" /\ Writable /\ DOMAIN readers = {manager.conn}
      /\ Connection.wire = <<>> /\ events = <<>> /\ requests = <<>> /\ daemon.inbox = <<>> =>
        /\ bar.busy => daemon.pc # "idle" \/ manager.lost
        /\ daemon.pc = "confirm" => bar.pending = daemon.call
        /\ daemon.pc # "tool"

(***************************************************************************)
(* The bar's word on the connection: online when it stands and everything  *)
(* has been heard, offline when the manager has said so.  The exception is *)
(* an old reader that reports its end after the new connection began.      *)
(***************************************************************************)
ConnectedIsHonest ==
    events = <<>> =>
        /\ manager.pc = "serve" /\ Writable => bar.connected \/ manager.late
        /\ manager.pc = "connect" /\ manager.reported => ~bar.connected

(***************************************************************************)
(* What the bar offers can be launched: the results are places in the      *)
(* index there is now, and the selected one is among them.                 *)
(***************************************************************************)
ResultsAreLive ==
    /\ ToSet(bar.results) \subseteq DOMAIN bar.apps
    /\ bar.results # <<>> => bar.selected \in DOMAIN bar.results

(***************************************************************************)
(* What the bar shows is what it holds: a picture that is kept is a        *)
(* picture of the bar as it is.                                            *)
(***************************************************************************)
PanelIsCurrent ==
    bar.panel # NoPanel /\ ~bar.dirty => bar.panel = Content(bar)

(***************************************************************************)
(* A bar that takes the keys can be seen: it is open on a screen that is   *)
(* there, unless it was opened without any; behind the lock neither it nor *)
(* a feedback card is up; and the startup screen's clock runs only when    *)
(* some screen showed it last.                                             *)
(***************************************************************************)
BarIsSeen ==
    /\ bar.open => bar.output \in bar.outputs \/ bar.unseen
    /\ bar.locked => ~bar.open /\ ~bar.osd
    /\ bar.since => \E o \in BarScreens : bar.last[o] = "startup"

\* All five.
BarIsSound ==
    /\ NobodyWaitsForNothing
    /\ ConnectedIsHonest
    /\ ResultsAreLive
    /\ PanelIsCurrent
    /\ BarIsSeen
=============================================================================
