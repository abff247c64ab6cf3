--------------------------- MODULE ServicesProofs ----------------------------
(***************************************************************************)
(* The shell's services (ShellServices, in MCParts): the inductive         *)
(* invariant of each, and ServicesAreSound from all of them, for every set *)
(* of notification ids and of launches and every limit.                    *)
(***************************************************************************)
EXTENDS LinkProofs, FiniteSetTheorems

-----------------------------------------------------------------------------
(* The invariants: each service has a variable and an invariant of its own. *)

\* The one window of an application.
InstanceTyped ==
    instance \in [proc : [Launches -> {"new", "starting", "cleared", "loading", "window", "closing", "gone"}],
                  file : SUBSET Launches, listens : SUBSET Launches,
                  events : [Launches -> SUBSET Launches],
                  page : SUBSET Launches, late : SUBSET Launches, raced : BOOLEAN]

\* Launches wait with a process only, and one that is over or about to be is
\* shown, is late or waits.  Unless two have started at once, there is one
\* process that has a window or is about to; it answers from before the window
\* is there until it ends, and one about to bind finds nothing.
Runs(p) == instance.proc[p] \in {"loading", "window", "closing"}
AtWork(p) == Runs(p) \/ instance.proc[p] \in {"starting", "cleared"}
Awaits(p) == \E q \in Launches : p \in instance.events[q] /\ Runs(q)
InstanceInv ==
    /\ InstanceTyped
    /\ \A p \in Launches : instance.proc[p] = "window" => p \in instance.page
    /\ \A p \in Launches : instance.proc[p] \in {"closing", "gone"} =>
          p \in instance.page \/ p \in instance.late \/ Awaits(p)
    /\ \A p \in Launches : p \in instance.listens => Runs(p)
    /\ ~instance.raced =>
          /\ \A p, q \in Launches : AtWork(p) /\ AtWork(q) => p = q
          /\ \A p \in Launches : Runs(p) => p \in instance.listens
          /\ \A p \in Launches : Runs(p) => instance.file = {p}
          /\ \A p \in Launches : instance.proc[p] = "cleared" => instance.file = {}

\* What is read on a thread.
ReadingTyped ==
    /\ reading \in [kind : V!Kinds, truth : Nat, shown : Nat, told : BOOLEAN, timer : BOOLEAN,
                    tasks : Seq(Nat \cup {-1}), last : Nat, walk : Nat \cup {-1, -2}, chan : Seq(Nat),
                    n : Nat, feed : BOOLEAN, newest : Nat, deaf : BOOLEAN]

\* The newest change is known, or a reading of it is on its way, or it had nobody to tell of it.
ReadingComes ==
    \/ reading.deaf
    \/ reading.newest = reading.truth
    \/ reading.kind # "audio" /\ (reading.told \/ reading.timer)
    \/ reading.kind # "network" /\ reading.last # reading.truth
    \/ \E i \in DOMAIN reading.tasks : reading.tasks[i] \in {-1, reading.truth}
    \/ reading.walk \in {-2, reading.truth}
    \/ \E i \in DOMAIN reading.chan : reading.chan[i] = reading.truth

\* Nothing is newer than the truth, and the newest is not older than what is
\* shown.
ReadingInv ==
    /\ ReadingTyped
    /\ reading.shown <= reading.newest /\ reading.newest <= reading.truth
    /\ \A i \in DOMAIN reading.tasks : reading.tasks[i] <= reading.truth
    /\ \A i \in DOMAIN reading.chan : reading.chan[i] <= reading.truth
    /\ reading.walk <= reading.truth /\ reading.last <= reading.truth
    /\ ReadingComes

\* Helper commands.
HelperTyped ==
    helper \in [mode : Nat, cache : Nat \cup {-1},
                status : [on : BOOLEAN, read : Nat \cup {-1}, waiting : SUBSET V!Pages],
                set : {"none", "runs", "done"}, shown : [V!Pages -> Nat \cup {-1}],
                asks : SUBSET V!Pages, n : Nat, crossed : BOOLEAN]

\* Until the mode is set anew, everything that was answered or will be is
\* about the mode of now; a window that is not up to date asks or waits.
HelperInv ==
    /\ HelperTyped
    /\ helper.set # "done" /\ ~helper.crossed =>
          /\ helper.cache \in {-1, helper.mode}
          /\ helper.status.on => helper.status.read \in {-1, helper.mode}
          /\ \A p \in V!Pages : \/ helper.shown[p] \in {-1, helper.mode}
                                \/ p \in helper.asks
                                \/ helper.status.on /\ p \in helper.status.waiting

\* The tray.
Trays == [item : Nat, up : BOOLEAN, queue : Seq({"Change", "Remove"}), version : Nat, seen : Nat,
          pixmap : Nat, last : Nat \cup {-1}, chan : Seq(Nat), shown : Nat, n : Nat, dropped : BOOLEAN]
TrayTyped ==
    tray \in Trays

\* What the main loop shows when it has taken everything.
Coming(queue, shown) == IF queue = <<>> THEN shown ELSE queue[Len(queue)]
WillShow == Coming(tray.chan, tray.shown)

\* A list is published to be shown; what is not published yet has been
\* announced; the picture is that of the pixels the thread remembers.
TrayInv ==
    /\ TrayTyped
    /\ tray.up => WillShow = tray.version /\ tray.last \in {-1, tray.version}
    /\ ~tray.up => tray.pixmap = 0 /\ tray.item = 0 /\ tray.queue = <<>> /\ tray.last = -1
    /\ tray.up /\ tray.queue = <<>> =>
          /\ tray.item = 0 <=> tray.version = 0
          /\ tray.item # 0 => tray.seen = tray.item
    /\ tray.up /\ tray.item = 0 =>
          tray.pixmap = 0 \/ (tray.queue # <<>> /\ tray.queue[Len(tray.queue)] = "Remove")
    /\ tray.up /\ tray.version # 0 /\ ~tray.dropped => tray.pixmap = tray.seen

\* The login conversation.
Sessions == [user : Nat, stage : {"none", "asks", "ready", "started"}]
LoginCalls == [stage : {"new", "cancel then create", "create", "cancel", "asked", "answer", "start", "over"},
               user : Nat, password : BOOLEAN]
LoginTyped ==
    login \in [greetd : Sessions, call : [V!Calls -> LoginCalls], greeter : [user : Nat], saved : Nat,
               overlapped : BOOLEAN]

\* What greetd holds belongs to the one call that is under way, or to the
\* conversation that waits for its next.
OneLogin ==
    /\ \A c, d \in V!Calls : V!UnderWay(c) /\ V!UnderWay(d) => c = d
    /\ V!Busy => login.greeter.user = 0
    /\ login.greetd.stage = "none" => login.greetd.user = 0
    /\ login.saved # 0 <=> login.greetd.stage = "started"
    /\ login.saved # 0 => login.greetd.user = login.saved /\ login.greeter.user = 0
    /\ ~V!Busy /\ login.greetd.stage # "started" =>
          login.greetd = [user |-> login.greeter.user,
                          stage |-> IF login.greeter.user = 0 THEN "none" ELSE "asks"]
    /\ \A c \in V!Calls :
          /\ V!UnderWay(c) => login.call[c].user # 0
          /\ login.call[c].stage = "create" => login.greetd.stage \in {"none", "started"}
          /\ login.call[c].stage = "start" => login.greetd.stage = "ready"
          /\ login.call[c].stage \in {"asked", "answer"} => login.greetd.stage = "asks"
          /\ login.call[c].stage \in {"asked", "answer", "start"} => login.greetd.user = login.call[c].user

LoginInv == LoginTyped /\ (~login.overlapped => OneLogin)

\* The layout file.
Layouts == [panels : Nat, extra : Nat]
KeeperStates == [on : BOOLEAN, mem : Layouts, save : BOOLEAN, told : BOOLEAN, reload : BOOLEAN, base : Nat,
                 apart : BOOLEAN]
LayoutStates == [file : Layouts, keeper : [V!Keepers -> KeeperStates], wish : Layouts, n : Nat, version : Nat,
                 crossed : BOOLEAN]
LayoutTyped ==
    layout \in LayoutStates

\* A process with nothing to do has the file in its copy, unless its last write
\* failed.  One that has seen the newest file has nothing else in its copy, but
\* for the panels it is about to write, which are the newest choice.
Shows(K, new) == K.on /\ ~(K.save \/ K.told \/ K.reload \/ K.apart) => K.mem = new
KeeperSound(l, k) ==
    LET K == l.keeper[k]
    IN /\ Shows(K, l.file)
       /\ K.save => K.on /\ k = "shell"
       /\ K.base <= l.version
       /\ K.on /\ K.base = l.version /\ ~l.crossed =>
             /\ K.mem.extra = l.file.extra
             /\ ~K.save => K.mem.panels = l.file.panels
             /\ K.save => K.mem.panels = l.wish.panels

LayoutSound(l) ==
    /\ \A k \in V!Keepers : KeeperSound(l, k)
    /\ ~l.crossed =>
          /\ l.file.extra = l.wish.extra
          /\ ~l.keeper["shell"].save => l.file.panels = l.wish.panels

LayoutInv == LayoutTyped /\ LayoutSound(layout)

\* Notifications.
NoteEvents == [kind : {"notify", "closed"}, id : Notes, n : Nat, image : BOOLEAN]
NotesStates == [next_id : Nat, pixmaps : [Notes -> Nat], chan : Seq(NoteEvents), list : Seq(NoteEvents),
                closed : SUBSET Notes, n : Nat, evicted : SUBSET Notes, crossed : SUBSET Notes]
NotesTyped ==
    notes \in NotesStates

OnceEach(queue) == \A i, j \in DOMAIN queue : queue[i].id = queue[j].id => i = j

\* One that is listed or on its way: its application has not been told that it
\* is gone, and its picture is there.
Stands(x, s) ==
    x.id \notin s.crossed => (x.image => s.pixmaps[x.id] >= x.n) /\ x.id \notin s.closed

Awaited(queue, id) == \E i \in DOMAIN queue : queue[i].kind = "notify" /\ queue[i].id = id

NotesSound(s) ==
    /\ Len(s.list) <= NoteLimit
    /\ OnceEach(s.list)
    /\ \A i \in DOMAIN s.list : Stands(s.list[i], s)
    /\ \A i \in DOMAIN s.chan : s.chan[i].kind = "notify" => Stands(s.chan[i], s)
    /\ \A id \in Notes : s.pixmaps[id] <= s.n
    /\ \A id \in 1..(s.next_id - 1) :
          ~V!Listed(s.list, id) /\ ~Awaited(s.chan, id) /\ id \notin s.evicted =>
              id \in s.closed /\ s.pixmaps[id] = 0

NotesInv == NotesTyped /\ NotesSound(notes)

ServicesInv ==
    working \in ServiceScenes =>
        /\ LinkInv
        /\ LayoutInv
        /\ NotesInv
        /\ LoginInv
        /\ TrayInv
        /\ HelperInv
        /\ ReadingInv
        /\ InstanceInv

-----------------------------------------------------------------------------
(* The one window of an application. *)

LEMMA LaunchStep ==
    ASSUME InstanceInv, NEW p \in Launches, V!Launch(p)
    PROVE  InstanceInv'
<1> DEFINE Given == [q \in Launches |-> IF V!Opens(q) THEN instance.events[q] \cup {p} ELSE instance.events[q]]
           Lates == IF \E q \in Launches : V!Opens(q) THEN instance.late ELSE instance.late \cup {p}
<1>1. instance.proc[p] = "new" /\ InstanceTyped
  BY DEF V!Launch, InstanceInv
<1>2. CASE V!Answers # {} /\ instance' = [instance EXCEPT !.proc[p] = "gone", !.events = Given, !.late = Lates]
  <2>1. Given \in [Launches -> SUBSET Launches] /\ Lates \in SUBSET Launches
    BY <1>1 DEF InstanceTyped
  <2>2. \A q \in Launches : Given[q] = IF V!Opens(q) THEN instance.events[q] \cup {p} ELSE instance.events[q]
    OBVIOUS
  <2>3. p \in Lates \/ \E q \in Launches : V!Opens(q)
    OBVIOUS
  <2>4. instance.late \subseteq Lates
    OBVIOUS
  <2> HIDE DEF Given, Lates
  <2>5. InstanceTyped'
    BY <1>1, <1>2, <2>1 DEF InstanceTyped
  <2>6. /\ instance'.proc = [instance.proc EXCEPT ![p] = "gone"] /\ instance'.events = Given
        /\ instance'.late = Lates /\ instance'.page = instance.page
        /\ instance'.file = instance.file /\ instance'.listens = instance.listens
        /\ instance'.raced = instance.raced /\ instance.proc = [q \in Launches |-> instance.proc[q]]
    BY <1>1, <1>2 DEF InstanceTyped
  <2>7. \A q \in Launches : V!Opens(q) => Runs(q) /\ q # p
    BY <1>1 DEF InstanceInv, V!Opens, V!Answers, Runs
  <2>8. \A q \in Launches : Runs(q) => Runs(q)'
    BY <1>1, <2>6 DEF Runs
  <2>9. \A q \in Launches : Runs(q)' => Runs(q)
    BY <1>1, <2>6 DEF Runs
  <2>10. \A q \in Launches : AtWork(q)' => AtWork(q)
    BY <1>1, <2>6 DEF Runs, AtWork
  <2>11. \A q \in Launches : Awaits(q) => Awaits(q)'
    BY <2>2, <2>6, <2>8 DEF Awaits
  <2>12. p \in Lates \/ Awaits(p)'
    BY <2>2, <2>3, <2>6, <2>7, <2>8 DEF Awaits
  <2> QED
    BY <1>1, <2>4, <2>5, <2>6, <2>8, <2>9, <2>10, <2>11, <2>12 DEF InstanceInv
<1>3. CASE /\ V!Answers = {}
           /\ instance' = [instance EXCEPT !.proc[p] = "starting",
                              !.raced = @ \/ \E q \in Launches : instance.proc[q] \in {"starting", "cleared"}]
  <2>1. InstanceTyped'
    BY <1>1, <1>3 DEF InstanceTyped
  <2>2. /\ instance'.proc = [instance.proc EXCEPT ![p] = "starting"] /\ instance'.page = instance.page
        /\ instance'.events = instance.events /\ instance'.late = instance.late
        /\ instance'.file = instance.file /\ instance'.listens = instance.listens
        /\ instance'.raced <=>
              instance.raced \/ \E q \in Launches : instance.proc[q] \in {"starting", "cleared"}
        /\ instance.proc = [q \in Launches |-> instance.proc[q]]
    BY <1>1, <1>3 DEF InstanceTyped
  <2>3. ~instance.raced => \A q \in Launches : ~Runs(q)
    BY <1>3 DEF InstanceInv, V!Answers
  <2>4. \A q \in Launches : Runs(q)' <=> Runs(q)
    BY <1>1, <2>2 DEF Runs
  <2>5. \A q \in Launches : Awaits(q)' <=> Awaits(q)
    BY <2>2, <2>4 DEF Awaits
  <2>6. ~instance'.raced => \A q \in Launches : AtWork(q)' => q = p
    BY <1>1, <2>2, <2>3, <2>4 DEF AtWork
  <2> QED
    BY <1>1, <2>1, <2>2, <2>3, <2>4, <2>5, <2>6 DEF InstanceInv
<1> QED
  BY <1>2, <1>3 DEF V!Launch

LEMMA ClearSocketStep ==
    ASSUME InstanceInv, NEW p \in Launches, V!ClearSocket(p)
    PROVE  InstanceInv'
<1>1. instance.proc[p] = "starting" /\ InstanceTyped
  BY DEF V!ClearSocket, InstanceInv
<1>2. CASE V!Answers # {} /\ instance' = [instance EXCEPT !.proc[p] = "loading"]
  <2>1. InstanceTyped'
    BY <1>1, <1>2 DEF InstanceTyped
  <2>2. /\ instance'.proc = [instance.proc EXCEPT ![p] = "loading"] /\ instance'.page = instance.page
        /\ instance'.events = instance.events /\ instance'.late = instance.late
        /\ instance'.file = instance.file /\ instance'.listens = instance.listens
        /\ instance'.raced = instance.raced /\ instance.proc = [q \in Launches |-> instance.proc[q]]
        /\ instance.listens \subseteq Launches
    BY <1>1, <1>2 DEF InstanceTyped
  <2>3. instance.raced
    <3>1. PICK q \in Launches : q \in instance.listens
      BY <1>2, <2>2 DEF V!Answers
    <3> QED
      BY <1>1, <3>1 DEF InstanceInv, AtWork, Runs
  <2>4. \A q \in Launches : Runs(q) => Runs(q)'
    BY <1>1, <2>2 DEF Runs
  <2>5. \A q \in Launches : Awaits(q) => Awaits(q)'
    BY <2>2, <2>4 DEF Awaits
  <2> QED
    BY <1>1, <2>1, <2>2, <2>3, <2>4, <2>5 DEF InstanceInv
<1>3. CASE instance' = [instance EXCEPT !.proc[p] = "cleared", !.file = {}]
  <2>1. InstanceTyped'
    BY <1>1, <1>3 DEF InstanceTyped
  <2>2. /\ instance'.proc = [instance.proc EXCEPT ![p] = "cleared"] /\ instance'.page = instance.page
        /\ instance'.events = instance.events /\ instance'.late = instance.late
        /\ instance'.file = {} /\ instance'.listens = instance.listens
        /\ instance'.raced = instance.raced /\ instance.proc = [q \in Launches |-> instance.proc[q]]
    BY <1>1, <1>3 DEF InstanceTyped
  <2>3. \A q \in Launches : Runs(q)' <=> Runs(q)
    BY <1>1, <2>2 DEF Runs
  <2>4. \A q \in Launches : Awaits(q)' <=> Awaits(q)
    BY <2>2, <2>3 DEF Awaits
  <2>5. \A q \in Launches : AtWork(q)' <=> AtWork(q)
    BY <1>1, <2>2, <2>3 DEF AtWork
  <2>6. ~instance.raced => \A q \in Launches : ~Runs(q)
    BY <1>1 DEF InstanceInv, AtWork, Runs
  <2> QED
    BY <1>1, <2>1, <2>2, <2>3, <2>4, <2>5, <2>6 DEF InstanceInv
<1> QED
  BY <1>2, <1>3 DEF V!ClearSocket

LEMMA BindStep ==
    ASSUME InstanceInv, NEW p \in Launches, V!Bind(p)
    PROVE  InstanceInv'
<1> DEFINE i == [instance EXCEPT !.proc[p] = "loading"]
<1>1. instance.proc[p] = "cleared" /\ InstanceTyped
  BY DEF V!Bind, InstanceInv
<1>2. \/ i.file # {} /\ instance' = i
      \/ i.file = {} /\ instance' = [i EXCEPT !.file = {p}, !.listens = @ \cup {p}]
  BY DEF V!Bind
<1>3. i.file = instance.file /\ (~instance.raced => instance.file = {})
  BY <1>1 DEF InstanceInv, InstanceTyped
<1>4. InstanceTyped'
  <2>1. i \in [proc : [Launches -> {"new", "starting", "cleared", "loading", "window", "closing", "gone"}],
               file : SUBSET Launches, listens : SUBSET Launches, events : [Launches -> SUBSET Launches],
               page : SUBSET Launches, late : SUBSET Launches, raced : BOOLEAN]
    BY <1>1 DEF InstanceTyped
  <2> HIDE DEF i
  <2>2. CASE instance' = i
    BY <2>1, <2>2 DEF InstanceTyped
  <2>3. CASE instance' = [i EXCEPT !.file = {p}, !.listens = @ \cup {p}]
    <3>1. {p} \subseteq Launches /\ i.listens \cup {p} \subseteq Launches
      BY <2>1
    <3> QED
      BY <2>1, <2>3, <3>1 DEF InstanceTyped
  <2> QED
    BY <1>2, <2>2, <2>3
<1>5. /\ instance'.proc = [instance.proc EXCEPT ![p] = "loading"] /\ instance'.page = instance.page
      /\ instance'.events = instance.events /\ instance'.late = instance.late
      /\ instance'.raced = instance.raced /\ instance.proc = [q \in Launches |-> instance.proc[q]]
      /\ instance'.listens \in {instance.listens, instance.listens \cup {p}}
      /\ ~instance.raced => instance'.file = {p} /\ instance'.listens = instance.listens \cup {p}
  BY <1>1, <1>2, <1>3 DEF InstanceTyped
<1>6. \A q \in Launches : Runs(q)' <=> Runs(q) \/ q = p
  BY <1>1, <1>5 DEF Runs
<1>7. \A q \in Launches : Awaits(q) => Awaits(q)'
  BY <1>5, <1>6 DEF Awaits
<1>8. \A q \in Launches : AtWork(q)' <=> AtWork(q)
  BY <1>1, <1>5, <1>6 DEF AtWork
<1>9. ~instance.raced => \A q \in Launches : ~Runs(q)
  BY <1>1 DEF InstanceInv, AtWork, Runs
<1>10. \A q \in Launches : q \in instance'.listens => q \in instance.listens \/ q = p
  BY <1>5
<1>11. \A q \in Launches : q # p => instance'.proc[q] = instance.proc[q]
  BY <1>5
<1>12. instance'.proc[p] = "loading"
  BY <1>5
<1> HIDE DEF i
<1>13. /\ \A q \in Launches : instance'.proc[q] = "window" => q \in instance'.page
       /\ \A q \in Launches : instance'.proc[q] \in {"closing", "gone"} =>
             q \in instance'.page \/ q \in instance'.late \/ Awaits(q)'
       /\ \A q \in Launches : q \in instance'.listens => Runs(q)'
  BY <1>5, <1>6, <1>7, <1>10, <1>11, <1>12 DEF InstanceInv
<1>14. ASSUME ~instance'.raced
       PROVE  /\ \A q, r \in Launches : AtWork(q)' /\ AtWork(r)' => q = r
              /\ \A q \in Launches : Runs(q)' => q = p /\ q \in instance'.listens /\ instance'.file = {q}
              /\ \A q \in Launches : instance'.proc[q] # "cleared"
  BY <1>1, <1>5, <1>6, <1>8, <1>9, <1>11, <1>12, <1>14 DEF InstanceInv, AtWork
<1> QED
  BY <1>4, <1>13, <1>14 DEF InstanceInv

LEMMA PageLoadsStep ==
    ASSUME InstanceInv, NEW p \in Launches, V!PageLoads(p)
    PROVE  InstanceInv'
<1>1. instance.proc[p] = "loading" /\ InstanceTyped
  BY DEF V!PageLoads, InstanceInv
<1>2. InstanceTyped'
  BY <1>1 DEF InstanceTyped, V!PageLoads
<1>3. /\ instance'.proc = [instance.proc EXCEPT ![p] = "window"] /\ instance'.page = instance.page \cup {p}
      /\ instance'.events = instance.events /\ instance'.late = instance.late
      /\ instance'.file = instance.file /\ instance'.listens = instance.listens
      /\ instance'.raced = instance.raced /\ instance.proc = [q \in Launches |-> instance.proc[q]]
  BY <1>1 DEF InstanceTyped, V!PageLoads
<1>4. \A q \in Launches : Runs(q)' <=> Runs(q)
  BY <1>1, <1>3 DEF Runs
<1>5. \A q \in Launches : Awaits(q)' <=> Awaits(q)
  BY <1>3, <1>4 DEF Awaits
<1>6. \A q \in Launches : AtWork(q)' <=> AtWork(q)
  BY <1>1, <1>3, <1>4 DEF AtWork
<1> QED
  BY <1>1, <1>2, <1>3, <1>4, <1>5, <1>6 DEF InstanceInv

LEMMA AppOpenStep ==
    ASSUME InstanceInv, NEW p \in Launches, NEW q \in Launches, V!AppOpen(p, q)
    PROVE  InstanceInv'
<1>1. q \in instance.events[p] /\ InstanceTyped
  BY DEF V!AppOpen, InstanceInv
<1>2. /\ instance'.proc = instance.proc
      /\ instance'.events = [instance.events EXCEPT ![p] = @ \ {q}]
      /\ instance'.file = instance.file /\ instance'.listens = instance.listens
      /\ instance'.raced = instance.raced
      /\ \/ instance'.page = instance.page \cup {q} /\ instance'.late = instance.late
         \/ instance'.page = instance.page /\ instance'.late = instance.late \cup {q}
  BY <1>1 DEF InstanceTyped, V!AppOpen
<1>3. InstanceTyped'
  BY <1>1 DEF InstanceTyped, V!AppOpen
<1>4. instance.events \in [Launches -> SUBSET Launches]
  BY <1>1 DEF InstanceTyped
<1>5. \A r \in Launches : (Runs(r)' <=> Runs(r)) /\ (AtWork(r)' <=> AtWork(r))
  BY <1>2 DEF Runs, AtWork
<1>6. \A r \in Launches : Awaits(r) => Awaits(r)' \/ r = q
  BY <1>2, <1>4, <1>5 DEF Awaits
<1> QED
  BY <1>1, <1>2, <1>3, <1>5, <1>6 DEF InstanceInv

LEMMA CloseAppStep ==
    ASSUME InstanceInv, NEW p \in Launches, V!CloseApp(p)
    PROVE  InstanceInv'
<1> DEFINE Lates == IF instance.proc[p] = "loading" THEN instance.late \cup {p} ELSE instance.late
<1>1. instance.proc[p] \in {"loading", "window"} /\ InstanceTyped
  BY DEF V!CloseApp, InstanceInv
<1>2. Lates \in SUBSET Launches /\ instance.late \subseteq Lates /\ (instance.proc[p] = "loading" => p \in Lates)
  BY <1>1 DEF InstanceTyped
<1>3. instance' = [instance EXCEPT !.proc[p] = "closing", !.late = Lates]
  BY DEF V!CloseApp
<1> HIDE DEF Lates
<1>4. InstanceTyped'
  BY <1>1, <1>2, <1>3 DEF InstanceTyped
<1>5. /\ instance'.proc = [instance.proc EXCEPT ![p] = "closing"] /\ instance'.page = instance.page
      /\ instance'.events = instance.events /\ instance'.late = Lates
      /\ instance'.file = instance.file /\ instance'.listens = instance.listens
      /\ instance'.raced = instance.raced /\ instance.proc = [q \in Launches |-> instance.proc[q]]
  BY <1>1, <1>3 DEF InstanceTyped
<1>6. \A q \in Launches : Runs(q)' <=> Runs(q)
  BY <1>1, <1>5 DEF Runs
<1>7. \A q \in Launches : Awaits(q)' <=> Awaits(q)
  BY <1>5, <1>6 DEF Awaits
<1>8. \A q \in Launches : AtWork(q)' <=> AtWork(q)
  BY <1>1, <1>5, <1>6 DEF AtWork
<1> QED
  BY <1>1, <1>2, <1>4, <1>5, <1>6, <1>7, <1>8 DEF InstanceInv

LEMMA EndsStep ==
    ASSUME InstanceInv, NEW p \in Launches, V!Ends(p)
    PROVE  InstanceInv'
<1>1. instance.proc[p] = "closing" /\ instance.events[p] = {} /\ InstanceTyped
  BY DEF V!Ends, InstanceInv
<1>2. InstanceTyped'
  BY <1>1 DEF InstanceTyped, V!Ends
<1>3. /\ instance'.proc = [instance.proc EXCEPT ![p] = "gone"] /\ instance'.page = instance.page
      /\ instance'.events = instance.events /\ instance'.late = instance.late
      /\ instance'.file = instance.file /\ instance'.listens = instance.listens \ {p}
      /\ instance'.raced = instance.raced /\ instance.proc = [q \in Launches |-> instance.proc[q]]
  BY <1>1 DEF InstanceTyped, V!Ends
<1>4. \A q \in Launches : Runs(q)' <=> Runs(q) /\ q # p
  BY <1>1, <1>3 DEF Runs
<1>5. \A q \in Launches : Awaits(q)' <=> Awaits(q)
  BY <1>1, <1>3, <1>4 DEF Awaits
<1>6. \A q \in Launches : AtWork(q)' => AtWork(q)
  BY <1>1, <1>3, <1>4 DEF AtWork
<1> QED
  BY <1>1, <1>2, <1>3, <1>4, <1>5, <1>6 DEF InstanceInv

LEMMA InstanceStep ==
    ASSUME InstanceInv, V!InstanceNext
    PROVE  InstanceInv'
  BY LaunchStep, ClearSocketStep, BindStep, PageLoadsStep, AppOpenStep, CloseAppStep, EndsStep DEF V!InstanceNext

LEMMA AtMostOne ==
    ASSUME NEW T, \A p, q \in T : p = q
    PROVE  V!Cardinality(T) <= 1
<1>1. V!Cardinality(T) = Cardinality(T)
  BY DEF V!Cardinality, Cardinality
<1>2. Cardinality(T) \in {0, 1}
  <2>1. CASE T = {}
    <3>1. Cardinality(T) = 0
      BY <2>1, FS_EmptySet
    <3> QED
      BY <3>1
  <2>2. CASE \E p \in T : T = {p}
    <3>1. PICK p \in T : T = {p}
      BY <2>2
    <3>2. Cardinality({p}) = 1
      BY FS_Singleton
    <3> QED
      BY <3>1, <3>2
  <2> QED
    BY <2>1, <2>2
<1>3. V!Cardinality(T) \in {0, 1}
  BY <1>1, <1>2
<1> HIDE DEF V!Cardinality
<1> QED
  BY <1>3

LEMMA OneWindowFollows ==
    ASSUME InstanceInv
    PROVE  V!OneWindow
<1>1. \A p \in Launches : Runs(p) <=> p \in V!HasProcess
  BY DEF Runs, V!HasProcess, V!Running
<1>2. ASSUME ~instance.raced PROVE V!Cardinality(V!HasProcess) <= 1 /\ V!HasProcess = V!Answers
  <2>1. \A p, q \in V!HasProcess : p = q
    BY <1>1, <1>2 DEF InstanceInv, V!HasProcess, AtWork
  <2>2. V!HasProcess = V!Answers
    <3>1. V!HasProcess \subseteq Launches /\ V!Answers \subseteq Launches
      BY DEF InstanceInv, InstanceTyped, V!HasProcess, V!Answers
    <3>2. \A p \in Launches : p \in V!HasProcess <=> p \in V!Answers
      BY <1>1, <1>2 DEF InstanceInv, V!Answers
    <3> QED
      BY <3>1, <3>2
  <2> QED
    BY <2>1, <2>2, AtMostOne
<1>3. \A p \in Launches : Awaits(p) => \E q \in V!HasProcess : p \in instance.events[q]
  BY <1>1 DEF Awaits
<1> QED
  BY <1>2, <1>3 DEF InstanceInv, V!OneWindow

-----------------------------------------------------------------------------
(* What is read on a thread. *)

LEMMA Removed ==
    ASSUME NEW T, NEW s \in Seq(T), NEW i \in DOMAIN s
    PROVE  /\ V!RemoveAt(s, i) \in Seq(T) /\ Len(V!RemoveAt(s, i)) = Len(s) - 1
           /\ \A k \in DOMAIN V!RemoveAt(s, i) :
                 V!RemoveAt(s, i)[k] = IF k < i THEN s[k] ELSE s[k + 1]
<1> DEFINE a == SubSeq(s, 1, i - 1)
           b == SubSeq(s, i + 1, Len(s))
<1>1. Len(s) \in Nat /\ i \in Nat /\ 1 <= i /\ i <= Len(s)
  OBVIOUS
<1>2. a \in Seq(T) /\ Len(a) = i - 1 /\ \A k \in 1..(i - 1) : a[k] = s[k]
  BY <1>1
<1>3. b \in Seq(T) /\ Len(b) = Len(s) - i /\ \A k \in 1..(Len(s) - i) : b[k] = s[k + i]
  BY <1>1
<1>4. V!RemoveAt(s, i) = a \o b
  BY DEF V!RemoveAt
<1> HIDE DEF a, b
<1>5. a \o b \in Seq(T) /\ Len(a \o b) = Len(s) - 1
  BY <1>1, <1>2, <1>3
<1>6. ASSUME NEW k \in 1..(Len(s) - 1) PROVE (a \o b)[k] = IF k < i THEN s[k] ELSE s[k + 1]
  <2>1. CASE k < i
    BY <1>1, <1>2, <1>3, <2>1
  <2>2. CASE ~(k < i)
    <3>1. (a \o b)[k] = b[k - (i - 1)]
      BY <1>1, <1>2, <1>3, <2>2, SMTT(30)
    <3>2. k - (i - 1) \in 1..(Len(s) - i) /\ (k - (i - 1)) + i = k + 1
      BY <1>1, <2>2
    <3> QED
      BY <1>3, <2>2, <3>1, <3>2
  <2> QED
    BY <2>1, <2>2
<1>7. DOMAIN (a \o b) = 1..(Len(s) - 1)
  BY <1>1, <1>5
<1> QED
  BY <1>4, <1>5, <1>6, <1>7

\* What was another's place in the list still has it.
LEMMA OthersRemain ==
    ASSUME NEW T, NEW s \in Seq(T), NEW i \in DOMAIN s
    PROVE  /\ \A k \in DOMAIN V!RemoveAt(s, i) : \E j \in DOMAIN s : j # i /\ V!RemoveAt(s, i)[k] = s[j]
           /\ \A j \in DOMAIN s : j # i => \E k \in DOMAIN V!RemoveAt(s, i) : V!RemoveAt(s, i)[k] = s[j]
<1> DEFINE r == V!RemoveAt(s, i)
<1>1. r \in Seq(T) /\ Len(r) = Len(s) - 1 /\ Len(s) \in Nat /\ i \in 1..Len(s)
  BY Removed
<1>2. \A k \in DOMAIN r : r[k] = IF k < i THEN s[k] ELSE s[k + 1]
  BY Removed
<1> HIDE DEF r
<1>3. DOMAIN r = 1..(Len(s) - 1) /\ DOMAIN s = 1..Len(s)
  BY <1>1
<1>4. ASSUME NEW k \in DOMAIN r PROVE \E j \in DOMAIN s : j # i /\ r[k] = s[j]
  <2>1. CASE k < i
    BY <1>1, <1>2, <1>3, <2>1
  <2>2. CASE ~(k < i)
    <3>1. k + 1 \in DOMAIN s /\ k + 1 # i
      BY <1>1, <1>3, <2>2
    <3> QED
      BY <1>2, <2>2, <3>1
  <2> QED
    BY <2>1, <2>2
<1>5. ASSUME NEW j \in DOMAIN s, j # i PROVE \E k \in DOMAIN r : r[k] = s[j]
  <2>1. CASE j < i
    BY <1>1, <1>2, <1>3, <2>1
  <2>2. CASE ~(j < i)
    <3>1. j - 1 \in DOMAIN r /\ ~(j - 1 < i) /\ (j - 1) + 1 = j
      BY <1>1, <1>3, <1>5, <2>2
    <3> QED
      BY <1>2, <3>1
  <2> QED
    BY <2>1, <2>2
<1> QED
  BY <1>4, <1>5 DEF r

LEMMA ReadingTypes ==
    ASSUME ReadingTyped
    PROVE  /\ reading.truth \in Nat /\ reading.shown \in Nat /\ reading.newest \in Nat /\ reading.last \in Nat
           /\ reading.walk \in Int /\ reading.tasks \in Seq(Nat \cup {-1}) /\ reading.chan \in Seq(Nat)
           /\ reading.told \in BOOLEAN /\ reading.timer \in BOOLEAN /\ reading.kind \in V!Kinds
           /\ reading.deaf \in BOOLEAN /\ reading.feed \in BOOLEAN
  BY DEF ReadingTyped

LEMMA TruthChangesStep ==
    ASSUME ReadingInv, NEW deep \in BOOLEAN, V!TruthChanges(deep)
    PROVE  ReadingInv'
<1>1. /\ deep => reading.kind = "apps"
      /\ reading' = [reading EXCEPT !.truth = @ + 1, !.n = @ + 1, !.told = @ \/ (~deep /\ reading.feed),
                                    !.deaf = @ \/ ~reading.feed]
  BY DEF V!TruthChanges
<1>2. ReadingTyped /\ ReadingTyped'
  <2>1. ReadingTyped /\ reading.truth + 1 \in Nat /\ reading.n + 1 \in Nat
    BY DEF ReadingInv, ReadingTyped
  <2>2. (reading.told \/ (~deep /\ reading.feed)) \in BOOLEAN /\ (reading.deaf \/ ~reading.feed) \in BOOLEAN
    OBVIOUS
  <2> QED
    BY <1>1, <2>1, <2>2 DEF ReadingTyped
<1>3. /\ reading'.kind = reading.kind /\ reading'.truth = reading.truth + 1
      /\ reading'.shown = reading.shown /\ reading'.newest = reading.newest
      /\ (reading'.told <=> reading.told \/ (~deep /\ reading.feed)) /\ reading'.timer = reading.timer
      /\ (reading'.deaf <=> reading.deaf \/ ~reading.feed) /\ reading'.tasks = reading.tasks /\ reading'.chan = reading.chan
      /\ reading'.last = reading.last /\ reading'.walk = reading.walk
  BY <1>1, <1>2 DEF ReadingTyped
<1>4. /\ reading.truth \in Nat /\ reading.shown \in Nat /\ reading.newest \in Nat /\ reading.last \in Nat
      /\ reading.walk \in Int /\ reading.tasks \in Seq(Nat \cup {-1}) /\ reading.chan \in Seq(Nat)
  BY <1>2, ReadingTypes
<1>5. \A i \in DOMAIN reading.tasks : reading.tasks[i] \in Int
  BY <1>4
<1>6. \A i \in DOMAIN reading.chan : reading.chan[i] \in Int
  BY <1>4
<1>7. ReadingComes'
  <2>1. CASE deep \/ reading.kind = "audio"
    <3>1. reading'.kind # "network" /\ reading'.last # reading'.truth
      BY <1>1, <1>3, <1>4, <2>1 DEF ReadingInv
    <3> QED
      BY <3>1 DEF ReadingComes
  <2>2. CASE ~deep /\ reading.kind # "audio"
    BY <1>3, <2>2 DEF ReadingComes
  <2> QED
    BY <2>1, <2>2
<1> QED
  BY <1>2, <1>3, <1>4, <1>5, <1>6, <1>7, SMTT(30) DEF ReadingInv

LEMMA FeedEndsStep ==
    ASSUME ReadingInv, V!FeedEnds
    PROVE  ReadingInv'
<1>1. reading' = [reading EXCEPT !.feed = FALSE]
  BY DEF V!FeedEnds
<1>2. ReadingTyped /\ ReadingTyped'
  BY <1>1 DEF ReadingInv, ReadingTyped
<1>3. /\ reading'.kind = reading.kind /\ reading'.truth = reading.truth /\ reading'.deaf = reading.deaf
      /\ reading'.shown = reading.shown /\ reading'.newest = reading.newest
      /\ reading'.told = reading.told /\ reading'.timer = reading.timer
      /\ reading'.tasks = reading.tasks /\ reading'.chan = reading.chan
      /\ reading'.last = reading.last /\ reading'.walk = reading.walk
  BY <1>1, <1>2 DEF ReadingTyped
<1> QED
  BY <1>2, <1>3 DEF ReadingInv, ReadingComes

LEMMA HeardStep ==
    ASSUME ReadingInv, V!ChangeIsHeard
    PROVE  ReadingInv'
<1>1. reading.kind # "audio" /\ reading' = [reading EXCEPT !.told = FALSE, !.timer = TRUE]
  BY DEF V!ChangeIsHeard
<1>2. ReadingTyped /\ ReadingTyped'
  BY <1>1 DEF ReadingInv, ReadingTyped
<1>3. /\ reading'.kind = reading.kind /\ reading'.truth = reading.truth /\ reading'.deaf = reading.deaf
      /\ reading'.shown = reading.shown /\ reading'.newest = reading.newest /\ reading'.timer
      /\ reading'.tasks = reading.tasks /\ reading'.chan = reading.chan
      /\ reading'.last = reading.last /\ reading'.walk = reading.walk
  BY <1>1, <1>2 DEF ReadingTyped
<1> QED
  BY <1>1, <1>2, <1>3 DEF ReadingInv, ReadingComes

\* A reading begins, at the timer or at once.
LEMMA ReadingBegins ==
    ASSUME ReadingInv, V!ReadTimer \/ V!ReadNow
    PROVE  ReadingInv'
<1>1. ReadingTyped /\ reading.tasks \in Seq(Nat \cup {-1}) /\ reading.truth \in Nat
  BY ReadingTypes DEF ReadingInv
<1>2. ReadingTyped'
  <2>1. Append(reading.tasks, -1) \in Seq(Nat \cup {-1})
    BY <1>1
  <2>2. CASE V!ReadTimer
    <3>1. reading' = [reading EXCEPT !.timer = FALSE, !.tasks = Append(@, -1)]
      BY <2>2 DEF V!ReadTimer
    <3> QED
      BY <1>1, <2>1, <3>1 DEF ReadingTyped
  <2>3. CASE V!ReadNow
    <3>1. reading' = [reading EXCEPT !.tasks = Append(@, -1), !.n = @ + 1] /\ reading.n + 1 \in Nat
      BY <1>1, <2>3 DEF V!ReadNow, ReadingTyped
    <3> QED
      BY <1>1, <2>1, <3>1 DEF ReadingTyped
  <2> QED
    BY <2>2, <2>3
<1>3. /\ reading'.kind = reading.kind /\ reading'.truth = reading.truth /\ reading'.deaf = reading.deaf
      /\ reading'.shown = reading.shown /\ reading'.newest = reading.newest
      /\ reading'.tasks = Append(reading.tasks, -1) /\ reading'.chan = reading.chan
      /\ reading'.last = reading.last /\ reading'.walk = reading.walk
  BY <1>1 DEF ReadingTyped, V!ReadTimer, V!ReadNow
<1>4. /\ DOMAIN reading'.tasks = DOMAIN reading.tasks \cup {Len(reading.tasks) + 1}
      /\ reading'.tasks[Len(reading.tasks) + 1] = -1
      /\ \A i \in DOMAIN reading.tasks : reading'.tasks[i] = reading.tasks[i]
  BY <1>1, <1>3
<1>5. ReadingComes'
  BY <1>4 DEF ReadingComes
<1>6. \A i \in DOMAIN reading'.tasks : reading'.tasks[i] <= reading'.truth
  BY <1>1, <1>3, <1>4 DEF ReadingInv
<1> QED
  BY <1>2, <1>3, <1>5, <1>6 DEF ReadingInv

LEMMA TaskReadsStep ==
    ASSUME ReadingInv, NEW t \in DOMAIN reading.tasks, V!TaskReads(t)
    PROVE  ReadingInv'
<1>1. ReadingTyped /\ reading.tasks \in Seq(Nat \cup {-1}) /\ reading.truth \in Nat
  BY ReadingTypes DEF ReadingInv
<1>2. reading' = [reading EXCEPT !.tasks[t] = reading.truth, !.deaf = FALSE]
  BY DEF V!TaskReads
<1>3. ReadingTyped'
  <2>1. [reading.tasks EXCEPT ![t] = reading.truth] \in Seq(Nat \cup {-1})
    BY <1>1
  <2> QED
    BY <1>1, <1>2, <2>1 DEF ReadingTyped
<1>4. /\ reading'.kind = reading.kind /\ reading'.truth = reading.truth
      /\ reading'.shown = reading.shown /\ reading'.newest = reading.newest
      /\ reading'.tasks = [reading.tasks EXCEPT ![t] = reading.truth] /\ reading'.chan = reading.chan
      /\ reading'.last = reading.last /\ reading'.walk = reading.walk
  BY <1>1, <1>2 DEF ReadingTyped
<1>5. /\ DOMAIN reading'.tasks = DOMAIN reading.tasks /\ reading'.tasks[t] = reading.truth
      /\ \A i \in DOMAIN reading.tasks : i # t => reading'.tasks[i] = reading.tasks[i]
  BY <1>1, <1>4
<1>6. ReadingComes'
  BY <1>4, <1>5 DEF ReadingComes
<1>7. \A i \in DOMAIN reading'.tasks : reading'.tasks[i] <= reading'.truth
  BY <1>1, <1>4, <1>5 DEF ReadingInv
<1> QED
  BY <1>3, <1>4, <1>6, <1>7 DEF ReadingInv

\* A value is shown.
LEMMA Applied ==
    ASSUME ReadingTyped, NEW r, ReadingTyped => r \in [kind : V!Kinds, truth : Nat, shown : Nat,
                    told : BOOLEAN, timer : BOOLEAN, tasks : Seq(Nat \cup {-1}), last : Nat,
                    walk : Nat \cup {-1, -2}, chan : Seq(Nat), n : Nat,
                    feed : BOOLEAN, newest : Nat, deaf : BOOLEAN],
           NEW value \in Nat, reading' = V!Apply(r, value)
    PROVE  /\ ReadingTyped'
           /\ reading'.kind = r.kind /\ reading'.truth = r.truth /\ reading'.told = r.told
           /\ reading'.timer = r.timer /\ reading'.tasks = r.tasks /\ reading'.last = r.last
           /\ reading'.walk = r.walk /\ reading'.chan = r.chan /\ reading'.deaf = r.deaf
           /\ reading'.shown = value
           /\ reading'.newest = IF value > r.newest THEN value ELSE r.newest
  BY DEF ReadingTyped, V!Apply

LEMMA TaskDoneStep ==
    ASSUME ReadingInv, NEW t \in DOMAIN reading.tasks, V!TaskDone(t)
    PROVE  ReadingInv'
<1> DEFINE r == [reading EXCEPT !.tasks = V!RemoveAt(@, t)]
           value == reading.tasks[t]
<1>1. /\ ReadingTyped /\ reading.tasks \in Seq(Nat \cup {-1}) /\ reading.truth \in Nat /\ reading.newest \in Nat
      /\ reading.shown \in Nat /\ reading.chan \in Seq(Nat)
  BY ReadingTypes DEF ReadingInv
<1>2. value \in Nat /\ value <= reading.truth
  BY <1>1 DEF V!TaskDone, ReadingInv
<1>3. reading' = IF r.kind = "apps" THEN [r EXCEPT !.chan = Append(@, value)] ELSE V!Apply(r, value)
  BY DEF V!TaskDone
<1>4. V!RemoveAt(reading.tasks, t) \in Seq(Nat \cup {-1})
  BY <1>1, Removed
<1>5. r \in [kind : V!Kinds, truth : Nat, shown : Nat, told : BOOLEAN, timer : BOOLEAN,
             tasks : Seq(Nat \cup {-1}), last : Nat, walk : Nat \cup {-1, -2}, chan : Seq(Nat), n : Nat,
             feed : BOOLEAN, newest : Nat, deaf : BOOLEAN]
  BY <1>1, <1>4 DEF ReadingTyped
<1>6. /\ r.kind = reading.kind /\ r.truth = reading.truth /\ r.deaf = reading.deaf /\ r.shown = reading.shown
      /\ r.newest = reading.newest /\ r.told = reading.told /\ r.timer = reading.timer
      /\ r.tasks = V!RemoveAt(reading.tasks, t) /\ r.last = reading.last /\ r.walk = reading.walk
      /\ r.chan = reading.chan
  BY <1>1 DEF ReadingTyped
<1> HIDE DEF r
<1>7. /\ \A k \in DOMAIN r.tasks : \E j \in DOMAIN reading.tasks : j # t /\ r.tasks[k] = reading.tasks[j]
      /\ \A j \in DOMAIN reading.tasks : j # t => \E k \in DOMAIN r.tasks : r.tasks[k] = reading.tasks[j]
  BY <1>1, <1>6, OthersRemain
<1>8. \A k \in DOMAIN r.tasks : r.tasks[k] <= reading.truth
  BY <1>7 DEF ReadingInv
<1>9. CASE r.kind = "apps"
  <2>1. reading' = [r EXCEPT !.chan = Append(@, value)]
    BY <1>3, <1>9
  <2>2. /\ ReadingTyped' /\ reading'.kind = r.kind /\ reading'.truth = r.truth /\ reading'.told = r.told
        /\ reading'.timer = r.timer /\ reading'.tasks = r.tasks /\ reading'.last = r.last
        /\ reading'.walk = r.walk /\ reading'.chan = Append(r.chan, value)
        /\ reading'.deaf = r.deaf /\ reading'.shown = r.shown /\ reading'.newest = r.newest
    <3>1. r.chan \in Seq(Nat) /\ Append(r.chan, value) \in Seq(Nat)
      BY <1>1, <1>2, <1>6
    <3> QED
      BY <1>5, <2>1, <3>1 DEF ReadingTyped
  <2>3. /\ DOMAIN reading'.chan = DOMAIN reading.chan \cup {Len(reading.chan) + 1}
        /\ reading'.chan[Len(reading.chan) + 1] = value
        /\ \A i \in DOMAIN reading.chan : reading'.chan[i] = reading.chan[i]
    BY <1>1, <1>2, <1>6, <2>2, SMTT(30)
  <2>4. \A i \in DOMAIN reading'.chan : reading'.chan[i] <= reading'.truth
    BY <1>2, <1>6, <2>2, <2>3 DEF ReadingInv
  <2>5. ReadingComes'
    <3>1. ReadingComes /\ value # -1
      BY <1>2 DEF ReadingInv
    <3> QED
      BY <1>6, <1>7, <2>2, <2>3, <3>1 DEF ReadingComes
  <2> QED
    BY <1>6, <1>8, <2>2, <2>4, <2>5 DEF ReadingInv
<1>10. CASE r.kind # "apps"
  <2>1. reading' = V!Apply(r, value)
    BY <1>3, <1>10
  <2>2. /\ ReadingTyped' /\ reading'.kind = r.kind /\ reading'.truth = r.truth /\ reading'.told = r.told
        /\ reading'.timer = r.timer /\ reading'.tasks = r.tasks /\ reading'.last = r.last
        /\ reading'.walk = r.walk /\ reading'.chan = r.chan /\ reading'.deaf = r.deaf /\ reading'.shown = value
        /\ reading'.newest = IF value > r.newest THEN value ELSE r.newest
    BY <1>1, <1>2, <1>5, <2>1, Applied
  <2>3. reading'.shown <= reading'.newest /\ reading'.newest <= reading'.truth
    BY <1>1, <1>2, <1>6, <2>2 DEF ReadingInv
  <2>4. ReadingComes'
    <3>1. ReadingComes /\ value # -1 /\ reading.newest <= reading.truth
      BY <1>2 DEF ReadingInv
    <3>2. value = reading.truth \/ reading.newest = reading.truth => reading'.newest = reading'.truth
      BY <1>1, <1>2, <1>6, <2>2, <3>1
    <3> QED
      BY <1>6, <1>7, <2>2, <3>1, <3>2 DEF ReadingComes
  <2> QED
    BY <1>6, <1>8, <2>2, <2>3, <2>4 DEF ReadingInv
<1> QED
  BY <1>9, <1>10

LEMMA WalkStep ==
    ASSUME ReadingInv, V!Walk
    PROVE  ReadingInv'
<1>1. ReadingTyped /\ reading.truth \in Nat
  BY ReadingTypes DEF ReadingInv
<1>2. reading' = [reading EXCEPT !.last = reading.truth, !.walk = -2]
  BY DEF V!Walk
<1>3. ReadingTyped'
  BY <1>1, <1>2 DEF ReadingTyped
<1>4. /\ reading'.kind = reading.kind /\ reading'.truth = reading.truth /\ reading'.deaf = reading.deaf
      /\ reading'.shown = reading.shown /\ reading'.newest = reading.newest
      /\ reading'.tasks = reading.tasks /\ reading'.chan = reading.chan
      /\ reading'.last = reading.truth /\ reading'.walk = -2
  BY <1>1, <1>2 DEF ReadingTyped
<1> QED
  BY <1>1, <1>3, <1>4 DEF ReadingInv, ReadingComes

LEMMA WalkReadsStep ==
    ASSUME ReadingInv, V!WalkReads
    PROVE  ReadingInv'
<1>1. ReadingTyped /\ reading.truth \in Nat
  BY ReadingTypes DEF ReadingInv
<1>2. reading' = [reading EXCEPT !.walk = reading.truth]
  BY DEF V!WalkReads
<1>3. ReadingTyped'
  BY <1>1, <1>2 DEF ReadingTyped
<1>4. /\ reading'.kind = reading.kind /\ reading'.truth = reading.truth /\ reading'.deaf = reading.deaf
      /\ reading'.shown = reading.shown /\ reading'.newest = reading.newest
      /\ reading'.tasks = reading.tasks /\ reading'.chan = reading.chan
      /\ reading'.last = reading.last /\ reading'.walk = reading.truth
  BY <1>1, <1>2 DEF ReadingTyped
<1> QED
  BY <1>1, <1>3, <1>4 DEF ReadingInv, ReadingComes

LEMMA WalkSendsStep ==
    ASSUME ReadingInv, V!WalkSends
    PROVE  ReadingInv'
<1>1. ReadingTyped /\ reading.truth \in Nat /\ reading.chan \in Seq(Nat) /\ reading.walk \in Int
  BY ReadingTypes DEF ReadingInv
<1>2. reading' = [reading EXCEPT !.walk = -1, !.chan = Append(@, reading.walk)] /\ reading.walk \in Nat
  BY <1>1 DEF V!WalkSends
<1>3. Append(reading.chan, reading.walk) \in Seq(Nat)
  BY <1>1, <1>2
<1>4. ReadingTyped'
  BY <1>1, <1>2, <1>3 DEF ReadingTyped
<1>5. /\ reading'.kind = reading.kind /\ reading'.truth = reading.truth /\ reading'.deaf = reading.deaf
      /\ reading'.shown = reading.shown /\ reading'.newest = reading.newest
      /\ reading'.told = reading.told /\ reading'.timer = reading.timer
      /\ reading'.tasks = reading.tasks /\ reading'.chan = Append(reading.chan, reading.walk)
      /\ reading'.last = reading.last /\ reading'.walk = -1
  BY <1>1, <1>2 DEF ReadingTyped
<1>6. /\ DOMAIN reading'.chan = DOMAIN reading.chan \cup {Len(reading.chan) + 1}
      /\ reading'.chan[Len(reading.chan) + 1] = reading.walk
      /\ \A i \in DOMAIN reading.chan : reading'.chan[i] = reading.chan[i]
  BY <1>1, <1>2, <1>5
<1>7. \A i \in DOMAIN reading'.chan : reading'.chan[i] <= reading'.truth
  BY <1>1, <1>2, <1>5, <1>6 DEF ReadingInv
<1>8. ReadingComes'
  <2>1. reading.walk # -2
    BY <1>2
  <2> QED
    BY <1>5, <1>6, <2>1 DEF ReadingComes, ReadingInv
<1> QED
  BY <1>1, <1>4, <1>5, <1>7, <1>8 DEF ReadingInv

LEMMA FeedReadsStep ==
    ASSUME ReadingInv, V!FeedReads
    PROVE  ReadingInv'
<1>1. ReadingTyped /\ reading.truth \in Nat
  BY ReadingTypes DEF ReadingInv
<1>2. /\ reading.kind = "audio" /\ reading.walk = -1
      /\ reading' = [reading EXCEPT !.told = FALSE, !.last = reading.truth,
                            !.walk = IF reading.truth = reading.last THEN -1 ELSE reading.truth]
  BY DEF V!FeedReads
<1>3. ReadingTyped'
  BY <1>1, <1>2 DEF ReadingTyped
<1>4. /\ reading'.kind = reading.kind /\ reading'.truth = reading.truth /\ reading'.deaf = reading.deaf
      /\ reading'.shown = reading.shown /\ reading'.newest = reading.newest
      /\ reading'.tasks = reading.tasks /\ reading'.chan = reading.chan
      /\ reading'.last = reading.truth
      /\ reading'.walk = IF reading.truth = reading.last THEN -1 ELSE reading.truth
  BY <1>1, <1>2 DEF ReadingTyped
<1>5. reading.walk \notin {-2, reading.truth}
  BY <1>1, <1>2
<1>6. ReadingComes'
  <2>1. ReadingComes
    BY DEF ReadingInv
  <2>2. CASE reading.truth = reading.last
    BY <1>2, <1>4, <1>5, <2>1, <2>2 DEF ReadingComes
  <2>3. CASE reading.truth # reading.last
    BY <1>4, <2>3 DEF ReadingComes
  <2> QED
    BY <2>2, <2>3
<1> QED
  BY <1>1, <1>3, <1>4, <1>6 DEF ReadingInv

LEMMA HostReadsStep ==
    ASSUME ReadingInv, V!HostReads
    PROVE  ReadingInv'
<1> DEFINE r == [reading EXCEPT !.chan = Tail(@)]
           value == Head(reading.chan)
<1>1. /\ ReadingTyped /\ reading.truth \in Nat /\ reading.newest \in Nat
      /\ reading.shown \in Nat /\ reading.chan \in Seq(Nat) /\ reading.chan # <<>>
  BY ReadingTypes DEF ReadingInv, V!HostReads
<1>2. /\ Tail(reading.chan) \in Seq(Nat) /\ value = reading.chan[1] /\ 1 \in DOMAIN reading.chan
      /\ value \in Nat
      /\ \A i \in DOMAIN Tail(reading.chan) : i + 1 \in DOMAIN reading.chan
                                              /\ Tail(reading.chan)[i] = reading.chan[i + 1]
      /\ \A i \in DOMAIN reading.chan :
            i = 1 \/ (i - 1 \in DOMAIN Tail(reading.chan) /\ Tail(reading.chan)[i - 1] = reading.chan[i])
  BY <1>1, Taken
<1>3. value <= reading.truth
  BY <1>2 DEF ReadingInv
<1>4. reading' = V!Apply(r, value)
  BY DEF V!HostReads
<1>5. r \in [kind : V!Kinds, truth : Nat, shown : Nat, told : BOOLEAN, timer : BOOLEAN,
             tasks : Seq(Nat \cup {-1}), last : Nat, walk : Nat \cup {-1, -2}, chan : Seq(Nat), n : Nat,
             feed : BOOLEAN, newest : Nat, deaf : BOOLEAN]
  BY <1>1, <1>2 DEF ReadingTyped
<1>6. /\ r.kind = reading.kind /\ r.truth = reading.truth /\ r.deaf = reading.deaf /\ r.shown = reading.shown
      /\ r.newest = reading.newest /\ r.told = reading.told /\ r.timer = reading.timer
      /\ r.tasks = reading.tasks /\ r.last = reading.last /\ r.walk = reading.walk
      /\ r.chan = Tail(reading.chan)
  BY <1>1 DEF ReadingTyped
<1> HIDE DEF r, value
<1>7. /\ ReadingTyped' /\ reading'.kind = r.kind /\ reading'.truth = r.truth /\ reading'.told = r.told
      /\ reading'.timer = r.timer /\ reading'.tasks = r.tasks /\ reading'.last = r.last
      /\ reading'.walk = r.walk /\ reading'.chan = r.chan /\ reading'.deaf = r.deaf /\ reading'.shown = value
      /\ reading'.newest = IF value > r.newest THEN value ELSE r.newest
  BY <1>1, <1>2, <1>4, <1>5, Applied
<1>8. reading'.shown <= reading'.newest /\ reading'.newest <= reading'.truth
  BY <1>1, <1>2, <1>3, <1>6, <1>7 DEF ReadingInv
<1>9. \A i \in DOMAIN reading'.chan : reading'.chan[i] <= reading'.truth
  BY <1>2, <1>6, <1>7 DEF ReadingInv
<1>10. ReadingComes'
  <2>1. ReadingComes /\ reading.newest <= reading.truth
    BY DEF ReadingInv
  <2>2. value = reading.truth \/ reading.newest = reading.truth => reading'.newest = reading'.truth
    BY <1>1, <1>2, <1>3, <1>6, <1>7, <2>1
  <2>3. ASSUME NEW i \in DOMAIN reading.chan, i # 1
        PROVE  \E j \in DOMAIN r.chan : r.chan[j] = reading.chan[i]
    <3>1. i - 1 \in DOMAIN r.chan /\ r.chan[i - 1] = reading.chan[i]
      BY <1>2, <1>6, <2>3
    <3> QED
      BY <3>1
  <2> QED
    BY <1>2, <1>6, <1>7, <2>1, <2>2, <2>3 DEF ReadingComes
<1> QED
  BY <1>6, <1>7, <1>8, <1>9, <1>10 DEF ReadingInv

LEMMA ReadingStep ==
    ASSUME ReadingInv, V!ReadingNext
    PROVE  ReadingInv'
  BY TruthChangesStep, FeedEndsStep, HeardStep, ReadingBegins, TaskReadsStep, TaskDoneStep, WalkStep, WalkReadsStep,
     WalkSendsStep, FeedReadsStep, HostReadsStep
  DEF V!ReadingNext

LEMMA ReadingFollows ==
    ASSUME ReadingInv
    PROVE  V!ReadingIsCurrent
<1>1. ReadingTyped /\ reading.truth \in Nat /\ reading.newest \in Nat /\ reading.shown \in Nat
  BY ReadingTypes DEF ReadingInv
<1>2. ASSUME V!Settled PROVE reading.newest = reading.truth \/ reading.deaf
  BY <1>1, <1>2 DEF ReadingInv, ReadingComes, V!Settled
<1> QED
  BY <1>1, <1>2 DEF ReadingInv, V!ReadingIsCurrent

-----------------------------------------------------------------------------
(* Helper commands. *)

LEMMA HelperStep ==
    ASSUME HelperInv, V!HelperNext
    PROVE  HelperInv'
<1>0. HelperTyped /\ helper.mode \in Nat /\ helper.cache \in Nat \cup {-1} /\ helper.status.read \in Nat \cup {-1}
  BY DEF HelperInv, HelperTyped
<1>1. ASSUME NEW p \in V!Pages, V!AskStatus(p) PROVE HelperInv'
  <2> DEFINE h == [helper EXCEPT !.asks = @ \ {p}]
  <2>1. \/ helper.cache # -1 /\ helper' = [h EXCEPT !.shown[p] = h.cache]
        \/ helper.cache = -1 /\ helper.status.on /\ helper' = [h EXCEPT !.status.waiting = @ \cup {p}]
        \/ helper.cache = -1 /\ ~helper.status.on
           /\ helper' = [h EXCEPT !.status = [on |-> TRUE, read |-> -1, waiting |-> {p}]]
    BY <1>0, <1>1 DEF V!AskStatus, HelperTyped
  <2>2. CASE helper.cache # -1 /\ helper' = [h EXCEPT !.shown[p] = h.cache]
    <3>1. HelperTyped'
      BY <1>0, <2>2 DEF HelperTyped
    <3>2. /\ helper'.shown = [helper.shown EXCEPT ![p] = helper.cache] /\ helper'.asks = helper.asks \ {p}
          /\ helper'.cache = helper.cache /\ helper'.mode = helper.mode /\ helper'.status = helper.status
          /\ helper'.set = helper.set /\ helper'.crossed = helper.crossed
          /\ helper.shown = [q \in V!Pages |-> helper.shown[q]]
      BY <1>0, <2>2 DEF HelperTyped
    <3> QED
      BY <3>1, <3>2 DEF HelperInv
  <2>3. CASE helper.status.on /\ helper' = [h EXCEPT !.status.waiting = @ \cup {p}]
    <3>1. HelperTyped'
      BY <1>0, <2>3 DEF HelperTyped
    <3>2. /\ helper'.shown = helper.shown /\ helper'.asks = helper.asks \ {p}
          /\ helper'.cache = helper.cache /\ helper'.mode = helper.mode
          /\ helper'.status.on = helper.status.on /\ helper'.status.read = helper.status.read
          /\ helper'.status.waiting = helper.status.waiting \cup {p}
          /\ helper'.set = helper.set /\ helper'.crossed = helper.crossed
      BY <1>0, <2>3 DEF HelperTyped
    <3> QED
      BY <2>3, <3>1, <3>2 DEF HelperInv
  <2>4. CASE /\ ~helper.status.on
             /\ helper' = [h EXCEPT !.status = [on |-> TRUE, read |-> -1, waiting |-> {p}]]
    <3>1. HelperTyped'
      BY <1>0, <2>4 DEF HelperTyped
    <3>2. /\ helper'.shown = helper.shown /\ helper'.asks = helper.asks \ {p}
          /\ helper'.cache = helper.cache /\ helper'.mode = helper.mode
          /\ helper'.status = [on |-> TRUE, read |-> -1, waiting |-> {p}]
          /\ helper'.set = helper.set /\ helper'.crossed = helper.crossed
      BY <1>0, <2>4 DEF HelperTyped
    <3> QED
      BY <2>4, <3>1, <3>2 DEF HelperInv
  <2> QED
    BY <2>1, <2>2, <2>3, <2>4
<1>2. CASE V!StatusReads
  <2>1. HelperTyped'
    BY <1>0, <1>2 DEF HelperTyped, V!StatusReads
  <2>2. /\ helper'.shown = helper.shown /\ helper'.asks = helper.asks
        /\ helper'.cache = helper.cache /\ helper'.mode = helper.mode
        /\ helper'.status.on = helper.status.on /\ helper'.status.read = helper.mode
        /\ helper'.status.waiting = helper.status.waiting
        /\ helper'.set = helper.set /\ helper'.crossed = helper.crossed
    BY <1>0, <1>2 DEF HelperTyped, V!StatusReads
  <2> QED
    BY <2>1, <2>2 DEF HelperInv
<1>3. ASSUME NEW ok \in BOOLEAN, V!StatusDone(ok) PROVE HelperInv'
  <2> DEFINE answer == IF ok THEN helper.status.read ELSE -1
             told == [p \in V!Pages |-> IF p \in helper.status.waiting THEN answer ELSE helper.shown[p]]
  <2>1. answer \in Nat \cup {-1} /\ told \in [V!Pages -> Nat \cup {-1}]
    BY <1>0, <1>3 DEF HelperTyped
  <2>2. /\ helper.status.on
        /\ helper' = [helper EXCEPT !.status = [on |-> FALSE, read |-> -1, waiting |-> {}],
                                    !.cache = IF ok THEN answer ELSE @, !.shown = told]
    BY <1>0, <1>3 DEF V!StatusDone, HelperTyped
  <2>3. \A p \in V!Pages : told[p] = IF p \in helper.status.waiting THEN answer ELSE helper.shown[p]
    OBVIOUS
  <2>4. answer \in {-1, helper.status.read} /\ (ok => answer = helper.status.read)
    OBVIOUS
  <2> HIDE DEF answer, told
  <2>5. HelperTyped'
    BY <1>0, <2>1, <2>2 DEF HelperTyped
  <2>6. /\ helper'.shown = told /\ helper'.asks = helper.asks
        /\ helper'.cache = (IF ok THEN answer ELSE helper.cache) /\ helper'.mode = helper.mode
        /\ helper'.status.on = FALSE /\ helper'.set = helper.set /\ helper'.crossed = helper.crossed
    BY <1>0, <2>2 DEF HelperTyped
  <2> QED
    BY <2>2, <2>3, <2>4, <2>5, <2>6 DEF HelperInv
<1>4. CASE V!CacheExpires
  <2>1. HelperTyped'
    BY <1>0, <1>4 DEF HelperTyped, V!CacheExpires
  <2>2. /\ helper'.shown = helper.shown /\ helper'.asks = helper.asks
        /\ helper'.cache = -1 /\ helper'.mode = helper.mode /\ helper'.status = helper.status
        /\ helper'.set = helper.set /\ helper'.crossed = helper.crossed
    BY <1>0, <1>4 DEF HelperTyped, V!CacheExpires
  <2> QED
    BY <2>1, <2>2 DEF HelperInv
<1>5. CASE V!SetMode
  <2>0. /\ helper.set = "none" /\ helper' = [helper EXCEPT !.set = "runs", !.n = helper.n + 1]
        /\ helper.n \in Nat /\ helper.n + 1 \in Nat
    BY <1>0, <1>5 DEF HelperTyped, V!SetMode
  <2>1. HelperTyped' /\ helper.set = "none"
    BY <1>0, <2>0 DEF HelperTyped
  <2>2. /\ helper'.shown = helper.shown /\ helper'.asks = helper.asks
        /\ helper'.cache = helper.cache /\ helper'.mode = helper.mode /\ helper'.status = helper.status
        /\ helper'.set = "runs" /\ helper'.crossed = helper.crossed
    BY <1>0, <1>5 DEF HelperTyped, V!SetMode
  <2> QED
    BY <2>1, <2>2 DEF HelperInv
<1>6. ASSUME NEW ok \in BOOLEAN, V!ModeIsSet(ok) PROVE HelperInv'
  <2> DEFINE mode == IF ok THEN helper.mode + 1 ELSE helper.mode
             set == IF ok THEN "done" ELSE "none"
  <2>0. /\ helper.set = "runs" /\ helper' = [helper EXCEPT !.set = set, !.mode = mode]
        /\ mode \in Nat /\ set \in {"none", "runs", "done"}
    BY <1>0, <1>6 DEF V!ModeIsSet
  <2>1. HelperTyped' /\ helper.set = "runs"
    <3> HIDE DEF mode, set
    <3> QED
      BY <1>0, <2>0 DEF HelperTyped
  <2>2. /\ helper'.shown = helper.shown /\ helper'.asks = helper.asks
        /\ helper'.cache = helper.cache /\ helper'.status = helper.status
        /\ helper'.mode = (IF ok THEN helper.mode + 1 ELSE helper.mode)
        /\ helper'.set = (IF ok THEN "done" ELSE "none") /\ helper'.crossed = helper.crossed
    BY <1>0, <1>6 DEF HelperTyped, V!ModeIsSet
  <2> QED
    BY <2>1, <2>2 DEF HelperInv
<1>7. CASE V!SetDone
  <2>1. HelperTyped'
    <3>1. (helper.status.on /\ helper.status.read \notin {-1, helper.mode}) \in BOOLEAN
      OBVIOUS
    <3> QED
      BY <1>0, <1>7, <3>1 DEF HelperTyped, V!SetDone
  <2>2. /\ helper'.asks = V!Pages /\ helper'.cache = -1 /\ helper'.status = helper.status
        /\ helper'.mode = helper.mode
        /\ helper'.crossed <=> helper.status.on /\ helper.status.read \notin {-1, helper.mode}
    BY <1>0, <1>7 DEF HelperTyped, V!SetDone
  <2> QED
    BY <2>1, <2>2 DEF HelperInv
<1> QED
  BY <1>1, <1>2, <1>3, <1>4, <1>5, <1>6, <1>7 DEF V!HelperNext

LEMMA HelperFollows ==
    ASSUME HelperInv
    PROVE  V!HelperIsCurrent
  BY DEF HelperInv, V!HelperIsCurrent

-----------------------------------------------------------------------------
(* The tray. *)

LEMMA LastTaken ==
    ASSUME NEW T, NEW q \in Seq(T), q # <<>>
    PROVE  /\ Tail(q) = <<>> => q[Len(q)] = Head(q)
           /\ Tail(q) # <<>> => Tail(q)[Len(Tail(q))] = q[Len(q)]
<1>1. Len(q) \in Nat /\ Len(q) > 0 /\ Len(Tail(q)) = Len(q) - 1 /\ Head(q) = q[1] /\ Tail(q) \in Seq(T)
  OBVIOUS
<1>2. CASE Tail(q) = <<>>
  <2>1. Len(q) - 1 = 0
    BY <1>1, <1>2, EmptySeq
  <2>2. \A n \in Nat : n - 1 = 0 => n = 1
    OBVIOUS
  <2> QED
    BY <1>1, <1>2, <2>1, <2>2
<1>3. CASE Tail(q) # <<>>
  <2>1. Len(Tail(q)) > 0
    BY <1>1, <1>3
  <2> QED
    BY <1>1, <1>3, <2>1
<1> QED
  BY <1>2, <1>3

LEMMA LastAdded ==
    ASSUME NEW T, NEW q \in Seq(T), NEW x \in T, NEW shown
    PROVE  Append(q, x) \in Seq(T) /\ Append(q, x) # <<>> /\ Coming(Append(q, x), shown) = x
  BY DEF Coming

\* What publish makes of the tray.
LEMMA Published ==
    ASSUME NEW t \in Trays, t.up, tray' = V!Publish(t),
           t.last \in {-1, Coming(t.chan, t.shown)},
           t.item = 0 => t.pixmap = 0 \/ (t.queue # <<>> /\ t.queue[Len(t.queue)] = "Remove"),
           t.item # 0 /\ t.version # 0 /\ t.seen = t.item /\ ~t.dropped => t.pixmap = t.seen
    PROVE  TrayInv'
<1> DEFINE news == t.item # 0 /\ (t.version = 0 \/ t.seen # t.item)
           version == IF t.item = 0 THEN 0 ELSE IF news THEN t.version + 1 ELSE t.version
           pixmap == IF news THEN t.item ELSE t.pixmap
           dropped == IF news THEN FALSE ELSE t.dropped
           p == [t EXCEPT !.version = version, !.seen = t.item, !.pixmap = pixmap, !.dropped = dropped]
<1>0. /\ t.item \in Nat /\ t.version \in Nat /\ t.pixmap \in Nat /\ t.dropped \in BOOLEAN
      /\ t.chan \in Seq(Nat)
  BY DEF Trays
<1>1. /\ version \in Nat /\ pixmap \in Nat /\ dropped \in BOOLEAN
      /\ version = 0 <=> t.item = 0
  <2>1. CASE t.item = 0
    BY <1>0, <2>1
  <2>2. CASE t.item # 0 /\ (t.version = 0 \/ t.seen # t.item)
    <3>1. version = t.version + 1 /\ pixmap = t.item /\ dropped = FALSE
      BY <2>2
    <3> HIDE DEF news, version, pixmap, dropped
    <3>2. version \in Nat /\ version # 0 /\ pixmap \in Nat
      BY <1>0, <3>1
    <3>3. dropped \in BOOLEAN
      BY <3>1
    <3> QED
      BY <2>2, <3>2, <3>3
  <2>3. CASE t.item # 0 /\ ~(t.version = 0 \/ t.seen # t.item)
    <3>1. version = t.version /\ pixmap = t.pixmap /\ dropped = t.dropped
      BY <2>3
    <3> QED
      BY <1>0, <2>3, <3>1
  <2> QED
    BY <2>1, <2>2, <2>3
<1>2. tray' = IF t.last = version THEN p
              ELSE [p EXCEPT !.last = version, !.chan = Append(t.chan, version)]
  BY DEF V!Publish, Trays
<1>3. /\ t.item = 0 => pixmap = t.pixmap
      /\ t.item # 0 /\ ~dropped => pixmap = t.item
  BY DEF Trays
<1> HIDE DEF news, version, pixmap, dropped
<1>4. Append(t.chan, version) \in Seq(Nat) /\ Coming(Append(t.chan, version), t.shown) = version
  BY <1>0, <1>1, LastAdded
<1>5. /\ tray' \in Trays
      /\ tray'.item = t.item /\ tray'.up /\ tray'.queue = t.queue /\ tray'.version = version
      /\ tray'.seen = t.item /\ tray'.pixmap = pixmap /\ tray'.dropped = dropped /\ tray'.last = version
      /\ tray'.shown = t.shown
      /\ tray'.chan = IF t.last = version THEN t.chan ELSE Append(t.chan, version)
  <2>1. CASE t.last = version
    BY <1>1, <1>2, <2>1, ZenonT(60) DEF Trays
  <2>2. CASE t.last # version
    BY <1>1, <1>2, <1>4, <2>2, ZenonT(60) DEF Trays
  <2> QED
    BY <2>1, <2>2
<1>6. Coming(tray'.chan, tray'.shown) = version
  <2>1. CASE t.last = version
    BY <1>1, <1>5, <2>1
  <2>2. CASE t.last # version
    BY <1>4, <1>5, <2>2
  <2> QED
    BY <2>1, <2>2
<1> QED
  BY <1>1, <1>3, <1>5, <1>6 DEF TrayInv, TrayTyped, WillShow

LEMMA TrayStep ==
    ASSUME TrayInv, V!TrayNext
    PROVE  TrayInv'
<1>0. /\ tray \in Trays /\ tray.chan \in Seq(Nat) /\ tray.queue \in Seq({"Change", "Remove"})
      /\ tray.n \in Nat /\ tray.n + 1 \in Nat
  BY DEF TrayInv, TrayTyped, Trays
<1>1. ASSUME NEW pixels \in 0..2, V!ItemChanges(pixels) PROVE TrayInv'
  <2> DEFINE says == IF pixels = 0 THEN "Remove" ELSE "Change"
             queue == Append(tray.queue, says)
  <2>1. /\ tray.up /\ pixels \in Nat
        /\ tray' = [tray EXCEPT !.item = pixels, !.n = tray.n + 1, !.queue = queue]
    BY <1>0, <1>1 DEF V!ItemChanges, Trays
  <2>2. queue \in Seq({"Change", "Remove"}) /\ queue # <<>> /\ Coming(queue, says) = says
    BY <1>0, LastAdded
  <2>3. pixels = 0 => queue[Len(queue)] = "Remove"
    BY <2>2 DEF Coming
  <2> HIDE DEF says, queue
  <2>4. /\ tray' \in Trays /\ tray'.item = pixels /\ tray'.queue = queue /\ tray'.up = tray.up
        /\ tray'.version = tray.version /\ tray'.seen = tray.seen /\ tray'.pixmap = tray.pixmap
        /\ tray'.last = tray.last /\ tray'.chan = tray.chan /\ tray'.shown = tray.shown
        /\ tray'.dropped = tray.dropped
    BY <1>0, <2>1, <2>2 DEF Trays
  <2> QED
    BY <2>1, <2>2, <2>3, <2>4 DEF TrayInv, TrayTyped, WillShow
<1>2. ASSUME NEW pixels \in 0..2, V!ClientStarts(pixels) PROVE TrayInv'
  <2> DEFINE t == [tray EXCEPT !.up = TRUE, !.item = pixels, !.dropped = pixels # 0 /\ tray.version > 0]
  <2>1. ~tray.up /\ tray' = V!Publish(t) /\ pixels \in Nat
    BY <1>2 DEF V!ClientStarts
  <2>2. (pixels # 0 /\ tray.version > 0) \in BOOLEAN
    OBVIOUS
  <2>3. /\ t \in Trays /\ t.up /\ t.item = pixels /\ t.last = tray.last /\ t.pixmap = tray.pixmap
        /\ t.version = tray.version
        /\ t.dropped <=> pixels # 0 /\ tray.version > 0
    BY <1>0, <2>1, <2>2 DEF Trays
  <2>4. tray.last = -1 /\ tray.pixmap = 0 /\ tray.version \in Nat
    BY <1>0, <2>1 DEF TrayInv, Trays
  <2> HIDE DEF t
  <2>5. t.item # 0 /\ t.version # 0 => t.dropped
    BY <2>3, <2>4
  <2> QED
    BY <2>1, <2>3, <2>4, <2>5, Published
<1>3. CASE V!TrayHears
  <2> DEFINE t == [tray EXCEPT !.queue = Tail(@)]
             u == [t EXCEPT !.pixmap = 0, !.dropped = t.item # 0]
  <2>1. /\ tray.up /\ tray.queue # <<>>
        /\ tray' = IF Head(tray.queue) # "Remove" THEN V!Publish(t) ELSE V!Publish(u)
    BY <1>3 DEF V!TrayHears
  <2>2. /\ Tail(tray.queue) \in Seq({"Change", "Remove"})
        /\ Tail(tray.queue) = <<>> => tray.queue[Len(tray.queue)] = Head(tray.queue)
        /\ Tail(tray.queue) # <<>> => Tail(tray.queue)[Len(Tail(tray.queue))] = tray.queue[Len(tray.queue)]
    BY <1>0, <2>1, LastTaken, SMTT(30)
  <2>3. /\ t \in Trays /\ t.up /\ t.item = tray.item /\ t.queue = Tail(tray.queue) /\ t.last = tray.last
        /\ t.pixmap = tray.pixmap /\ t.version = tray.version /\ t.seen = tray.seen
        /\ t.dropped = tray.dropped /\ t.chan = tray.chan /\ t.shown = tray.shown
    BY <1>0, <2>1, <2>2 DEF Trays
  <2>4. t.last \in {-1, Coming(t.chan, t.shown)}
    BY <2>1, <2>3 DEF TrayInv, WillShow
  <2>5. CASE Head(tray.queue) # "Remove"
    <3>1. t.item = 0 => t.pixmap = 0 \/ (t.queue # <<>> /\ t.queue[Len(t.queue)] = "Remove")
      BY <2>1, <2>2, <2>3, <2>5 DEF TrayInv
    <3>2. t.item # 0 /\ t.version # 0 /\ t.seen = t.item /\ ~t.dropped => t.pixmap = t.seen
      BY <2>1, <2>3 DEF TrayInv
    <3> HIDE DEF t
    <3> QED
      BY <2>1, <2>3, <2>4, <2>5, <3>1, <3>2, Published
  <2>6. CASE Head(tray.queue) = "Remove"
    <3> HIDE DEF t
    <3>1. (t.item # 0) \in BOOLEAN
      OBVIOUS
    <3>2. /\ u \in Trays /\ u.up /\ u.item = t.item /\ u.last = t.last /\ u.pixmap = 0
          /\ u.chan = t.chan /\ u.shown = t.shown
          /\ u.dropped <=> t.item # 0
      BY <2>3, <3>1 DEF Trays
    <3> HIDE DEF u
    <3> QED
      BY <2>1, <2>4, <2>6, <3>2, Published
  <2> QED
    BY <2>5, <2>6
<1>4. CASE V!TrayRefreshes
  <2> DEFINE t == [tray EXCEPT !.last = -1, !.n = tray.n + 1]
  <2>1. tray.up /\ tray' = V!Publish(t)
    BY <1>4 DEF V!TrayRefreshes
  <2>2. /\ t \in Trays /\ t.up /\ t.item = tray.item /\ t.queue = tray.queue /\ t.last = -1
        /\ t.pixmap = tray.pixmap /\ t.version = tray.version /\ t.seen = tray.seen
        /\ t.dropped = tray.dropped
    BY <1>0, <2>1 DEF Trays
  <2>3. /\ t.item = 0 => t.pixmap = 0 \/ (t.queue # <<>> /\ t.queue[Len(t.queue)] = "Remove")
        /\ t.item # 0 /\ t.version # 0 /\ t.seen = t.item /\ ~t.dropped => t.pixmap = t.seen
    BY <2>1, <2>2 DEF TrayInv
  <2> HIDE DEF t
  <2> QED
    BY <2>1, <2>2, <2>3, Published
<1>5. CASE V!ClientStops
  <2>1. /\ tray' = [tray EXCEPT !.up = FALSE, !.queue = <<>>, !.pixmap = 0, !.last = -1,
                               !.item = 0, !.chan = Append(tray.chan, 0), !.n = tray.n + 1]
        /\ Append(tray.chan, 0) \in Seq(Nat) /\ <<>> \in Seq({"Change", "Remove"})
    BY <1>0, <1>5 DEF V!ClientStops
  <2>2. /\ tray' \in Trays /\ ~tray'.up /\ tray'.queue = <<>> /\ tray'.pixmap = 0 /\ tray'.last = -1
        /\ tray'.item = 0
    BY <1>0, <2>1 DEF Trays
  <2> QED
    BY <2>2 DEF TrayInv, TrayTyped
<1>6. CASE V!HostTray
  <2>1. tray.chan # <<>> /\ tray' = [tray EXCEPT !.chan = Tail(tray.chan), !.shown = Head(tray.chan)]
    BY <1>6 DEF V!HostTray
  <2>2. Tail(tray.chan) \in Seq(Nat) /\ Head(tray.chan) \in Nat
    BY <1>0, <2>1
  <2>3. Coming(Tail(tray.chan), Head(tray.chan)) = Coming(tray.chan, tray.shown)
    BY <1>0, <2>1, LastTaken DEF Coming
  <2>4. /\ tray' \in Trays /\ tray'.item = tray.item /\ tray'.queue = tray.queue /\ tray'.up = tray.up
        /\ tray'.version = tray.version /\ tray'.seen = tray.seen /\ tray'.pixmap = tray.pixmap
        /\ tray'.last = tray.last /\ tray'.chan = Tail(tray.chan) /\ tray'.shown = Head(tray.chan)
        /\ tray'.dropped = tray.dropped
    BY <1>0, <2>1, <2>2 DEF Trays
  <2> QED
    BY <2>3, <2>4 DEF TrayInv, TrayTyped, WillShow
<1> QED
  BY <1>1, <1>2, <1>3, <1>4, <1>5, <1>6 DEF V!TrayNext

LEMMA TrayFollows ==
    ASSUME TrayInv
    PROVE  V!TrayIsCurrent
<1>1. ASSUME tray.up, tray.queue = <<>>, tray.chan = <<>>
      PROVE  /\ tray.shown = tray.version
             /\ tray.item = 0 <=> tray.shown = 0
             /\ ~tray.dropped => tray.pixmap = tray.item
  <2>1. tray.shown = tray.version /\ (tray.item = 0 <=> tray.version = 0)
    BY <1>1 DEF TrayInv, WillShow, Coming
  <2>2. CASE tray.item = 0
    BY <1>1, <2>1, <2>2 DEF TrayInv
  <2>3. CASE tray.item # 0
    BY <1>1, <2>1, <2>3 DEF TrayInv
  <2> QED
    BY <2>1, <2>2, <2>3
<1> QED
  BY <1>1 DEF V!TrayIsCurrent

-----------------------------------------------------------------------------
(* The login conversation. *)

\* One call moves: greetd, the call, the conversation that waits, and so on.
LoginBecomes(c, g, rec, u, s, o) ==
    /\ LoginTyped'
    /\ login'.greetd = g
    /\ login'.call = [login.call EXCEPT ![c] = rec]
    /\ login'.greeter.user = u
    /\ login'.saved = s
    /\ login'.overlapped = o

Resting == {"new", "over"}

\* What has to be said of the one call that moves.
LEMMA CallMoves ==
    ASSUME LoginInv, NEW c \in V!Calls, NEW g \in Sessions, NEW rec \in LoginCalls,
           NEW u \in Nat, NEW s \in Nat, NEW o \in BOOLEAN,
           LoginBecomes(c, g, rec, u, s, o),
           ~o => /\ ~login.overlapped
                 /\ \A d \in V!Calls : V!UnderWay(d) => d = c
                 /\ g.stage = "none" => g.user = 0
                 /\ s # 0 <=> g.stage = "started"
                 /\ s # 0 => g.user = s /\ u = 0
                 /\ rec.stage \notin Resting => u = 0 /\ rec.user # 0
                 /\ rec.stage \in Resting /\ g.stage # "started" =>
                       g.user = u /\ g.stage = (IF u = 0 THEN "none" ELSE "asks")
                 /\ rec.stage = "create" => g.stage \in {"none", "started"}
                 /\ rec.stage = "start" => g.stage = "ready"
                 /\ rec.stage \in {"asked", "answer"} => g.stage = "asks"
                 /\ rec.stage \in {"asked", "answer", "start"} => g.user = rec.user
    PROVE  LoginInv'
<1> SUFFICES ASSUME ~o PROVE OneLogin'
  BY DEF LoginInv, LoginBecomes
<1>0. /\ login' .greetd = g /\ login'.greeter.user = u /\ login'.saved = s /\ login'.overlapped = o
      /\ login.call = [d \in V!Calls |-> login.call[d]]
      /\ login'.call = [login.call EXCEPT ![c] = rec]
      /\ OneLogin
  BY DEF LoginInv, LoginTyped, LoginBecomes
<1>1. login'.call[c] = rec /\ \A d \in V!Calls : d # c => login'.call[d] = login.call[d]
  BY <1>0
<1>2. \A d \in V!Calls : V!UnderWay(d)' <=> d = c /\ rec.stage \notin Resting
  BY <1>1 DEF V!UnderWay, Resting
<1>3. V!Busy' <=> rec.stage \notin Resting
  BY <1>2 DEF V!Busy
<1>4. rec.stage \in Resting /\ g.stage # "started" =>
          g = [user |-> u, stage |-> IF u = 0 THEN "none" ELSE "asks"]
  BY DEF Sessions
<1>5. ASSUME NEW d \in V!Calls
      PROVE  /\ V!UnderWay(d)' => login'.call[d].user # 0
             /\ login'.call[d].stage = "create" => g.stage \in {"none", "started"}
             /\ login'.call[d].stage = "start" => g.stage = "ready"
             /\ login'.call[d].stage \in {"asked", "answer"} => g.stage = "asks"
             /\ login'.call[d].stage \in {"asked", "answer", "start"} => g.user = login'.call[d].user
  <2>1. CASE d = c
    BY <1>1, <1>2, <2>1
  <2>2. CASE d # c
    <3>1. login'.call[d].stage \in Resting
      BY <1>2, <2>2 DEF V!UnderWay, Resting
    <3> QED
      BY <1>2, <2>2, <3>1 DEF Resting
  <2> QED
    BY <2>1, <2>2
<1> QED
  BY <1>0, <1>2, <1>3, <1>4, <1>5 DEF OneLogin

LEMMA LoginTypes ==
    ASSUME LoginTyped, NEW c \in V!Calls
    PROVE  /\ login.greetd \in Sessions /\ login.greetd.user \in Nat
           /\ login.call[c] \in LoginCalls /\ login.call[c].user \in Nat
           /\ login.greeter.user \in Nat /\ login.saved \in Nat /\ login.overlapped \in BOOLEAN
           /\ c \in Nat /\ c # 0
           /\ V!NoSession \in Sessions
<1>1. c \in Nat /\ c # 0
  BY ServicesAssumption DEF V!Calls
<1>2. V!NoSession \in Sessions
  BY DEF Sessions, V!NoSession
<1>3. login.greetd \in Sessions /\ login.call[c] \in LoginCalls
  BY DEF LoginTyped
<1>4. login.greeter.user \in Nat /\ login.saved \in Nat /\ login.overlapped \in BOOLEAN
  BY DEF LoginTyped
<1>5. login.greetd.user \in Nat /\ login.call[c].user \in Nat
  BY <1>3 DEF Sessions, LoginCalls
<1> QED
  BY <1>1, <1>2, <1>3, <1>4, <1>5

\* Between two calls greetd holds what waits for an answer.
LEMMA GreetdWaits ==
    ASSUME OneLogin, ~V!Busy, login.greetd.stage # "started"
    PROVE  /\ login.greetd.user = login.greeter.user
           /\ login.greetd.stage = IF login.greeter.user = 0 THEN "none" ELSE "asks"
<1> DEFINE waits == IF login.greeter.user = 0 THEN "none" ELSE "asks"
<1>1. login.greetd = [user |-> login.greeter.user, stage |-> waits]
  BY DEF OneLogin
<1>2. login.greetd.stage = waits
  <2> HIDE DEF waits
  <2> QED
    BY <1>1
<1> QED
  BY <1>1, <1>2

LEMMA BeginsStep ==
    ASSUME LoginInv, NEW c \in V!Calls,
           NEW to \in {"cancel then create", "create", "cancel", "answer"}, NEW who \in Nat,
           NEW secret \in BOOLEAN,
           V!Begins(c, to, who, secret),
           who # 0,
           to = "create" => login.greeter.user = 0,
           to = "answer" => login.greeter.user # 0 /\ who = login.greeter.user
    PROVE  LoginInv'
<1> DEFINE rec == [stage |-> to, user |-> who, password |-> secret]
           o == login.overlapped \/ V!Busy
<1>1. LoginTyped
  BY DEF LoginInv
<1>2. rec \in LoginCalls /\ rec.stage = to /\ rec.user = who
  BY DEF LoginCalls
<1>3. o \in BOOLEAN /\ (~o => ~login.overlapped /\ ~V!Busy)
  BY <1>1 DEF LoginTyped, V!Busy
<1>4. login' = [login EXCEPT !.call[c] = rec, !.greeter.user = 0, !.overlapped = o]
  BY DEF V!Begins
<1> HIDE DEF rec, o
<1>5. LoginBecomes(c, login.greetd, rec, 0, login.saved, o)
  BY <1>1, <1>2, <1>3, <1>4 DEF LoginBecomes, LoginTyped
<1>6. ASSUME ~o
      PROVE  /\ ~login.overlapped
             /\ \A d \in V!Calls : V!UnderWay(d) => d = c
             /\ login.greetd.stage = "none" => login.greetd.user = 0
             /\ login.saved # 0 <=> login.greetd.stage = "started"
             /\ login.saved # 0 => login.greetd.user = login.saved /\ login.greeter.user = 0
             /\ to = "create" => login.greetd.stage \in {"none", "started"}
             /\ to = "answer" => login.greetd.stage = "asks" /\ login.greetd.user = who
  <2>1. OneLogin /\ ~login.overlapped /\ ~V!Busy
    BY <1>3, <1>6 DEF LoginInv
  <2>2. \A d \in V!Calls : ~V!UnderWay(d)
    BY <2>1 DEF V!Busy
  <2>3. /\ login.greetd.stage = "none" => login.greetd.user = 0
        /\ login.saved # 0 <=> login.greetd.stage = "started"
        /\ login.saved # 0 => login.greetd.user = login.saved /\ login.greeter.user = 0
    BY <2>1 DEF OneLogin
  <2>4. login.greetd.stage # "started" =>
            /\ login.greetd.user = login.greeter.user
            /\ login.greetd.stage = IF login.greeter.user = 0 THEN "none" ELSE "asks"
    BY <2>1, GreetdWaits
  <2> QED
    BY <2>1, <2>2, <2>3, <2>4
<1>7. to \notin Resting /\ to \notin {"start", "asked"} /\ 0 \in Nat
  BY DEF Resting
<1>8. login.greetd \in Sessions /\ login.saved \in Nat
  BY <1>1, LoginTypes
<1>9. ~o => /\ rec.stage \notin Resting /\ rec.user # 0
            /\ rec.stage = "create" => login.greetd.stage \in {"none", "started"}
            /\ rec.stage # "start" /\ rec.stage # "asked"
            /\ rec.stage = "answer" => login.greetd.stage = "asks" /\ login.greetd.user = rec.user
  BY <1>2, <1>6, <1>7
<1> QED
  BY <1>2, <1>3, <1>5, <1>6, <1>7, <1>8, <1>9, CallMoves

LEMMA UnderWayAlone ==
    ASSUME LoginInv, NEW c \in V!Calls, V!UnderWay(c), ~login.overlapped
    PROVE  /\ \A d \in V!Calls : V!UnderWay(d) => d = c
           /\ login.greetd.stage = "none" => login.greetd.user = 0
           /\ login.saved # 0 <=> login.greetd.stage = "started"
           /\ login.saved # 0 => login.greetd.user = login.saved
           /\ login.greeter.user = 0 /\ login.call[c].user # 0
           /\ login.call[c].stage = "create" => login.greetd.stage \in {"none", "started"}
           /\ login.call[c].stage = "start" => login.greetd.stage = "ready"
           /\ login.call[c].stage \in {"asked", "answer"} => login.greetd.stage = "asks"
           /\ login.call[c].stage \in {"asked", "answer", "start"} => login.greetd.user = login.call[c].user
  BY DEF LoginInv, OneLogin, V!Busy

At(c, to, secret) == [stage |-> to, user |-> login.call[c].user, password |-> secret]

\* A call goes to another stage, and what greetd holds with it.
LEMMA CallGoes ==
    ASSUME LoginInv, NEW c \in V!Calls, V!UnderWay(c), NEW g \in Sessions,
           NEW to \in {"create", "cancel", "asked", "answer", "start"}, NEW secret \in BOOLEAN,
           login' = [login EXCEPT !.call[c] = At(c, to, secret),
                                  !.greetd = g],
           ~login.overlapped =>
              /\ g.stage = "none" => g.user = 0
              /\ g.stage = "started" <=> login.greetd.stage = "started"
              /\ g.stage = "started" => g.user = login.greetd.user
              /\ to = "create" => g.stage \in {"none", "started"}
              /\ to = "start" => g.stage = "ready"
              /\ to \in {"asked", "answer"} => g.stage = "asks"
              /\ to \in {"asked", "answer", "start"} => g.user = login.call[c].user
    PROVE  LoginInv'
<1> DEFINE rec == At(c, to, secret)
<1>1. LoginTyped
  BY DEF LoginInv
<1>2. rec \in LoginCalls /\ rec.stage = to /\ rec.user = login.call[c].user
  BY <1>1, LoginTypes DEF LoginCalls, At
<1> HIDE DEF rec
<1>3. login' = [login EXCEPT !.call[c] = rec, !.greetd = g]
  BY DEF rec
<1>4. LoginBecomes(c, g, rec, login.greeter.user, login.saved, login.overlapped)
  <2>1. [login.call EXCEPT ![c] = rec] \in [V!Calls -> LoginCalls]
    BY <1>1, <1>2 DEF LoginTyped
  <2>2. /\ login'.greetd = g /\ login'.call = [login.call EXCEPT ![c] = rec]
        /\ login'.greeter = login.greeter /\ login'.saved = login.saved
        /\ login'.overlapped = login.overlapped
    BY <1>1, <1>3 DEF LoginTyped
  <2>3. LoginTyped'
    BY <1>1, <1>2, <1>3, <2>1 DEF LoginTyped
  <2> QED
    BY <1>1, <2>2, <2>3 DEF LoginBecomes, LoginTyped
<1>5. to \notin Resting
  BY DEF Resting
<1> QED
  BY <1>1, <1>2, <1>4, <1>5, LoginTypes, UnderWayAlone, CallMoves

LEMMA OneStage ==
    ASSUME NEW r \in LoginCalls, NEW to
    PROVE  [r EXCEPT !.stage = to] = [stage |-> to, user |-> r.user, password |-> r.password]
<1>1. r = [stage |-> r.stage, user |-> r.user, password |-> r.password]
  BY DEF LoginCalls
<1> DEFINE rest == [stage |-> r.stage, user |-> r.user, password |-> r.password]
<1>2. [rest EXCEPT !.stage = to] = [stage |-> to, user |-> r.user, password |-> r.password]
  OBVIOUS
<1> QED
  BY <1>1, <1>2

LEMMA SecretSpent ==
    ASSUME NEW r \in LoginCalls, NEW to, NEW secret
    PROVE  [[r EXCEPT !.stage = to] EXCEPT !.password = secret] = [stage |-> to, user |-> r.user, password |-> secret]
<1> DEFINE rest == [stage |-> to, user |-> r.user, password |-> r.password]
<1>1. [r EXCEPT !.stage = to] = rest
  BY OneStage
<1>2. [rest EXCEPT !.password = secret] = [stage |-> to, user |-> r.user, password |-> secret]
  BY SMTT(30)
<1> QED
  BY <1>1, <1>2

\* The same, said with Goes.
LEMMA GoesStep ==
    ASSUME LoginInv, NEW c \in V!Calls, V!UnderWay(c), NEW g \in Sessions,
           NEW to \in {"create", "cancel", "asked", "answer", "start"},
           \/ login' = V!Goes(c, to) /\ g = login.greetd
           \/ login' = [V!Goes(c, to) EXCEPT !.greetd = g],
           ~login.overlapped =>
              /\ g.stage = "none" => g.user = 0
              /\ g.stage = "started" <=> login.greetd.stage = "started"
              /\ g.stage = "started" => g.user = login.greetd.user
              /\ to = "create" => g.stage \in {"none", "started"}
              /\ to = "start" => g.stage = "ready"
              /\ to \in {"asked", "answer"} => g.stage = "asks"
              /\ to \in {"asked", "answer", "start"} => g.user = login.call[c].user
    PROVE  LoginInv'
<1>1. LoginTyped /\ login.call[c] \in LoginCalls /\ login.call[c].password \in BOOLEAN
  BY DEF LoginInv, LoginTyped, LoginCalls
<1>2. [login.call[c] EXCEPT !.stage = to] = At(c, to, login.call[c].password)
  BY <1>1, OneStage DEF At
<1>3. V!Goes(c, to) = [login EXCEPT !.call[c] = [login.call[c] EXCEPT !.stage = to]]
  BY DEF V!Goes
<1>4. V!Goes(c, to) = [login EXCEPT !.call[c] = At(c, to, login.call[c].password)]
  BY <1>2, <1>3
<1>5. V!Goes(c, to) = [login EXCEPT !.call[c] = At(c, to, login.call[c].password), !.greetd = login.greetd]
  BY <1>1, <1>4 DEF LoginTyped
<1>6. [V!Goes(c, to) EXCEPT !.greetd = g]
          = [login EXCEPT !.call[c] = At(c, to, login.call[c].password), !.greetd = g]
  BY <1>4
<1>7. login' = [login EXCEPT !.call[c] = At(c, to, login.call[c].password), !.greetd = g]
  BY <1>5, <1>6
<1> QED
  BY <1>1, <1>7, CallGoes

\* A call is over.
LEMMA CallEnds ==
    ASSUME LoginInv, NEW c \in V!Calls, V!UnderWay(c), NEW g \in Sessions, NEW u \in Nat, NEW s \in Nat,
           login' = [V!Over(login, c) EXCEPT !.greetd = g, !.greeter.user = u, !.saved = s],
           ~login.overlapped =>
              /\ g.stage = "none" => g.user = 0
              /\ s # 0 <=> g.stage = "started"
              /\ s # 0 => g.user = s /\ u = 0
              /\ g.stage # "started" => g.user = u /\ g.stage = (IF u = 0 THEN "none" ELSE "asks")
    PROVE  LoginInv'
<1> DEFINE rec == [stage |-> "over", user |-> 0, password |-> FALSE]
<1>1. LoginTyped
  BY DEF LoginInv
<1>2. rec \in LoginCalls /\ rec.stage = "over"
  BY DEF LoginCalls
<1> HIDE DEF rec
<1>3. login' = [login EXCEPT !.call[c] = rec, !.greetd = g, !.greeter.user = u, !.saved = s]
  BY DEF rec, V!Over
<1>4. LoginBecomes(c, g, rec, u, s, login.overlapped)
  <2>1. [login.call EXCEPT ![c] = rec] \in [V!Calls -> LoginCalls]
    BY <1>1, <1>2 DEF LoginTyped
  <2>2. /\ login'.greetd = g /\ login'.call = [login.call EXCEPT ![c] = rec]
        /\ login'.greeter = [user |-> u] /\ login'.saved = s
        /\ login'.overlapped = login.overlapped
    BY <1>1, <1>3 DEF LoginTyped
  <2>3. [login.greeter EXCEPT !.user = u] \in [user : Nat]
    BY <1>1 DEF LoginTyped
  <2>4. login' = [login EXCEPT !.call = [login.call EXCEPT ![c] = rec], !.greetd = g,
                               !.greeter = [login.greeter EXCEPT !.user = u], !.saved = s]
    BY <1>3
  <2>5. LoginTyped'
    BY <1>1, <2>1, <2>3, <2>4 DEF LoginTyped
  <2> QED
    BY <1>1, <2>2, <2>5 DEF LoginBecomes, LoginTyped
<1>5. rec.stage \in Resting
  BY <1>2 DEF Resting
<1> QED
  BY <1>1, <1>2, <1>4, <1>5, LoginTypes, UnderWayAlone, CallMoves

LEMMA LoginStep ==
    ASSUME LoginInv, V!LoginNext
    PROVE  LoginInv'
<1>0. PICK c \in V!Calls : \/ V!GreeterLogin(c) \/ V!GreeterRespond(c) \/ V!GreeterCancel(c)
                           \/ V!Cancel(c) \/ V!Create(c) \/ V!Drive(c) \/ V!AnswerPrompt(c) \/ V!StartSession(c)
  BY DEF V!LoginNext
<1>1. LoginTyped
  BY DEF LoginInv
<1>2. /\ login.greetd \in Sessions /\ login.call[c] \in LoginCalls /\ login.call[c].user \in Nat
      /\ login.greeter.user \in Nat /\ login.saved \in Nat /\ login.overlapped \in BOOLEAN
      /\ c \in Nat /\ c # 0 /\ V!NoSession \in Sessions
      /\ login.greetd.user \in Nat /\ login.call[c].password \in BOOLEAN
  BY <1>1, LoginTypes DEF LoginCalls
<1>3. /\ V!NoSession.user = 0 /\ V!NoSession.stage = "none"
  BY DEF V!NoSession
<1>4. CASE V!GreeterLogin(c)
  <2>1. CASE login.greeter.user # 0
    BY <1>2, <1>4, <2>1, BeginsStep DEF V!GreeterLogin
  <2>2. CASE login.greeter.user = 0
    BY <1>2, <1>4, <2>2, BeginsStep DEF V!GreeterLogin
  <2> QED
    BY <2>1, <2>2
<1>5. CASE V!GreeterRespond(c)
  BY <1>2, <1>5, BeginsStep DEF V!GreeterRespond
<1>6. CASE V!GreeterCancel(c)
  BY <1>2, <1>6, BeginsStep DEF V!GreeterCancel
<1>7. CASE V!Cancel(c)
  <2> DEFINE g == IF login.greetd.stage = "started" THEN login.greetd ELSE V!NoSession
             l == IF login.greetd.stage = "started" THEN login ELSE [login EXCEPT !.greetd = V!NoSession]
  <2>1. g \in Sessions /\ V!UnderWay(c)
    BY <1>2, <1>7 DEF V!Cancel, V!UnderWay
  <2>2. login' = IF login.call[c].stage = "cancel" THEN V!Over(l, c) ELSE [l EXCEPT !.call[c].stage = "create"]
    BY <1>7 DEF V!Cancel
  <2>3. l = [login EXCEPT !.greetd = g]
    BY <1>1 DEF LoginTyped
  <2>4. CASE login.call[c].stage = "cancel"
    <3>1. login' = [V!Over(login, c) EXCEPT !.greetd = g, !.greeter.user = login.greeter.user, !.saved = login.saved]
      <4> HIDE DEF g, l
      <4> QED
        BY <1>1, <2>2, <2>3, <2>4 DEF LoginTyped, V!Over
    <3> QED
      BY <1>2, <1>3, <2>1, <3>1, CallEnds, UnderWayAlone
  <2>5. CASE login.call[c].stage # "cancel"
    <3>1. login' = [login EXCEPT !.call[c] = At(c, "create", login.call[c].password), !.greetd = g]
      <4> HIDE DEF g, l
      <4>1. [login.call[c] EXCEPT !.stage = "create"] = At(c, "create", login.call[c].password)
        BY <1>2, OneStage DEF At
      <4>2. login' = [login EXCEPT !.call[c] = [login.call[c] EXCEPT !.stage = "create"], !.greetd = g]
        BY <1>1, <2>2, <2>3, <2>5 DEF LoginTyped
      <4> QED
        BY <4>1, <4>2
    <3> QED
      BY <1>2, <1>3, <2>1, <3>1, CallGoes, UnderWayAlone
  <2> QED
    BY <2>4, <2>5
<1>8. CASE V!Create(c)
  <2>1. V!UnderWay(c) /\ login.call[c].stage = "create"
    BY <1>8 DEF V!Create, V!UnderWay
  <2>2. CASE login.greetd.stage # "none"
    <3>1. login' = V!Goes(c, "cancel")
      BY <1>8, <2>2 DEF V!Create
    <3> QED
      BY <1>1, <1>2, <2>1, <3>1, GoesStep, UnderWayAlone
  <2>3. CASE login.greetd.stage = "none"
    <3> DEFINE g == [user |-> login.call[c].user, stage |-> "asks"]
    <3>1. login' = [V!Goes(c, "asked") EXCEPT !.greetd = g]
      BY <1>8, <2>3 DEF V!Create
    <3>2. g \in Sessions /\ g.user = login.call[c].user /\ g.stage = "asks"
      BY <1>2 DEF Sessions
    <3> HIDE DEF g
    <3> QED
      BY <1>2, <2>1, <2>3, <3>1, <3>2, GoesStep, UnderWayAlone
  <2> QED
    BY <2>2, <2>3
<1>9. CASE V!Drive(c)
  <2>1. V!UnderWay(c) /\ login.call[c].stage = "asked"
    BY <1>9, SMTT(30) DEF V!Drive, V!UnderWay
  <2>2. CASE login' = [login EXCEPT !.call[c].stage = "answer", !.call[c].password = FALSE]
    <3>1. [[login.call[c] EXCEPT !.stage = "answer"] EXCEPT !.password = FALSE] = At(c, "answer", FALSE)
      BY <1>2, SecretSpent DEF At
    <3>2. login' = [login EXCEPT !.call[c] = [[login.call[c] EXCEPT !.stage = "answer"] EXCEPT !.password = FALSE],
                                 !.greetd = login.greetd]
      BY <1>1, <2>2 DEF LoginTyped
    <3>3. login' = [login EXCEPT !.call[c] = At(c, "answer", FALSE), !.greetd = login.greetd]
      BY <3>1, <3>2
    <3> QED
      BY <1>2, <2>1, <3>3, CallGoes, UnderWayAlone
  <2>3. CASE login' = [V!Over(login, c) EXCEPT !.greeter.user = login.call[c].user]
    <3>1. login' = [V!Over(login, c) EXCEPT !.greetd = login.greetd, !.greeter.user = login.call[c].user,
                                            !.saved = login.saved]
      BY <1>1, <2>3 DEF LoginTyped, V!Over
    <3> QED
      BY <1>2, <2>1, <3>1, CallEnds, UnderWayAlone
  <2> QED
    BY <1>9, <2>2, <2>3 DEF V!Drive
<1>10. CASE V!AnswerPrompt(c)
  <2>1. V!UnderWay(c) /\ login.call[c].stage = "answer"
    BY <1>10 DEF V!AnswerPrompt, V!UnderWay
  <2>2. CASE login' = V!Goes(c, "cancel")
    BY <1>1, <1>2, <2>1, <2>2, GoesStep, UnderWayAlone
  <2>3. CASE login' = V!Goes(c, "asked") /\ login.greetd.stage = "asks"
    BY <1>1, <1>2, <2>1, <2>3, GoesStep, UnderWayAlone
  <2>4. CASE login' = [V!Goes(c, "start") EXCEPT !.greetd.stage = "ready"] /\ login.greetd.stage = "asks"
    <3> DEFINE g == [login.greetd EXCEPT !.stage = "ready"]
    <3>1. g \in Sessions /\ g.user = login.greetd.user /\ g.stage = "ready"
      BY <1>2 DEF Sessions
    <3>2. login' = [V!Goes(c, "start") EXCEPT !.greetd = g]
      BY <1>1, <2>4 DEF LoginTyped, V!Goes
    <3> HIDE DEF g
    <3>3. ~login.overlapped => g.user = login.call[c].user
      BY <2>1, <3>1, UnderWayAlone
    <3> QED
      BY <1>2, <2>1, <2>4, <3>1, <3>2, <3>3, GoesStep
  <2>5. CASE login' = [V!Goes(c, "cancel") EXCEPT !.greetd = V!NoSession] /\ login.greetd.stage = "asks"
    BY <1>2, <1>3, <2>1, <2>5, GoesStep, UnderWayAlone
  <2> QED
    BY <1>10, <2>2, <2>3, <2>4, <2>5 DEF V!AnswerPrompt
<1>11. CASE V!StartSession(c)
  <2>1. V!UnderWay(c) /\ login.call[c].stage = "start"
    BY <1>11 DEF V!StartSession, V!UnderWay
  <2>2. CASE login.greetd.stage # "ready"
    <3>1. login' = V!Goes(c, "cancel")
      BY <1>11, <2>2 DEF V!StartSession
    <3> QED
      BY <1>1, <1>2, <2>1, <3>1, GoesStep, UnderWayAlone
  <2>3. CASE login.greetd.stage = "ready"
    <3> DEFINE g == [login.greetd EXCEPT !.stage = "started"]
    <3>1. g \in Sessions /\ g.user = login.greetd.user /\ g.stage = "started"
      BY <1>2 DEF Sessions
    <3>2. login' = [V!Over(login, c) EXCEPT !.greetd.stage = "started", !.saved = login.call[c].user]
      BY <1>11, <2>3 DEF V!StartSession
    <3>3. login' = [V!Over(login, c) EXCEPT !.greetd = g, !.greeter.user = login.greeter.user,
                                            !.saved = login.call[c].user]
      BY <1>1, <3>2 DEF LoginTyped, V!Over
    <3> HIDE DEF g
    <3> QED
      BY <1>2, <2>1, <2>3, <3>1, <3>3, CallEnds, UnderWayAlone
  <2> QED
    BY <2>2, <2>3
<1> QED
  BY <1>0, <1>4, <1>5, <1>6, <1>7, <1>8, <1>9, <1>10, <1>11

LEMMA LoginFollows ==
    ASSUME LoginInv, ServicesAssumption
    PROVE  V!LoginIsSound
<1>1. SUFFICES ASSUME OneLogin, LoginTyped, ~login.overlapped
               PROVE  /\ ~V!Busy /\ login.greetd.stage # "started" => login.greetd.user = login.greeter.user
                      /\ login.saved # 0 => login.greetd = [user |-> login.saved, stage |-> "started"]
                      /\ \A c \in V!Calls : login.call[c].stage \in {"asked", "answer", "start"}
                                              => login.greetd.user = login.call[c].user
  BY DEF LoginInv, V!LoginIsSound
<1>2. login.greetd \in Sessions
  BY <1>1 DEF LoginTyped
<1>3. login.saved # 0 => login.greetd.user = login.saved /\ login.greetd.stage = "started"
  BY <1>1 DEF OneLogin
<1>4. login.saved # 0 => login.greetd = [user |-> login.saved, stage |-> "started"]
  BY <1>2, <1>3 DEF Sessions
<1>5. \A c \in V!Calls : login.call[c].stage \in {"asked", "answer", "start"}
                            => login.greetd.user = login.call[c].user
  BY <1>1 DEF OneLogin
<1> QED
  BY <1>1, <1>4, <1>5, GreetdWaits

-----------------------------------------------------------------------------
(* The layout file. *)

LEMMA LayoutTypes ==
    ASSUME NEW l \in LayoutStates, NEW k \in V!Keepers
    PROVE  /\ l.file \in Layouts /\ l.wish \in Layouts /\ l.n \in Nat /\ l.version \in Nat /\ l.crossed \in BOOLEAN
           /\ l.keeper \in [V!Keepers -> KeeperStates] /\ l.keeper[k] \in KeeperStates
           /\ l.keeper[k].on \in BOOLEAN /\ l.keeper[k].save \in BOOLEAN /\ l.keeper[k].told \in BOOLEAN
           /\ l.keeper[k].reload \in BOOLEAN /\ l.keeper[k].apart \in BOOLEAN
           /\ l.keeper[k].mem \in Layouts /\ l.keeper[k].base \in Nat /\ V!DefaultLayout \in Layouts
<1>1. l.keeper[k] \in KeeperStates /\ l.keeper \in [V!Keepers -> KeeperStates]
  BY DEF LayoutStates
<1>2. /\ l.file \in Layouts /\ l.wish \in Layouts /\ l.n \in Nat /\ l.version \in Nat /\ l.crossed \in BOOLEAN
  BY DEF LayoutStates
<1>3. V!DefaultLayout \in Layouts
  BY DEF Layouts, V!DefaultLayout
<1> QED
  BY <1>1, <1>2, <1>3 DEF KeeperStates

\* One process's copy changes, and nothing else but the choice and the counter.
KeeperGoes(l, k, K, wish, n, c) ==
    [l EXCEPT !.keeper = [l.keeper EXCEPT ![k] = K], !.wish = wish, !.n = n, !.crossed = c]

LEMMA KeeperMoves ==
    ASSUME NEW l \in LayoutStates, NEW k \in V!Keepers, NEW K \in KeeperStates, NEW wish \in Layouts,
           NEW n \in Nat, NEW c \in BOOLEAN, NEW m,
           m = KeeperGoes(l, k, K, wish, n, c)
    PROVE  /\ m \in LayoutStates
           /\ m.file = l.file /\ m.wish = wish /\ m.version = l.version /\ m.crossed = c /\ m.n = n
           /\ m.keeper[k] = K
           /\ \A j \in V!Keepers : j # k => m.keeper[j] = l.keeper[j]
<1>1. [l.keeper EXCEPT ![k] = K] \in [V!Keepers -> KeeperStates]
  BY DEF LayoutStates
<1>2. /\ m.file = l.file /\ m.wish = wish /\ m.version = l.version /\ m.crossed = c /\ m.n = n
      /\ m.keeper = [l.keeper EXCEPT ![k] = K]
  BY DEF LayoutStates, KeeperGoes
<1>3. m \in LayoutStates
  BY <1>1 DEF LayoutStates, KeeperGoes
<1>4. l.keeper \in [V!Keepers -> KeeperStates]
  BY DEF LayoutStates
<1> QED
  BY <1>1, <1>2, <1>3, <1>4

LEMMA Replaced ==
    ASSUME NEW l \in LayoutStates, NEW k \in V!Keepers, NEW new \in Layouts, NEW r,
           r = V!ReplaceFile(l, k, new)
    PROVE  /\ r \in LayoutStates
           /\ r.file = new /\ r.version = l.version + 1 /\ r.wish = l.wish
           /\ r.crossed <=> l.crossed \/ l.keeper[k].base # l.version
           /\ \A j \in V!Keepers :
                 /\ r.keeper[j].on = l.keeper[j].on /\ r.keeper[j].mem = l.keeper[j].mem
                 /\ r.keeper[j].save = l.keeper[j].save /\ r.keeper[j].told = l.keeper[j].on
                 /\ r.keeper[j].base = IF j = k THEN l.version + 1 ELSE l.keeper[j].base
<1> DEFINE K(j) == [[[l.keeper[j] EXCEPT !.told = l.keeper[j].on]
                       EXCEPT !.base = IF j = k THEN l.version + 1 ELSE l.keeper[j].base]
                       EXCEPT !.apart = l.keeper[j].apart /\ j # k]
           keeper == [j \in V!Keepers |-> K(j)]
           crossed == l.crossed \/ l.keeper[k].base # l.version
<1>1. /\ l.crossed \in BOOLEAN /\ l.version \in Nat /\ l.version + 1 \in Nat
      /\ \A j \in V!Keepers : l.keeper[j] \in KeeperStates
  BY LayoutTypes
<1>2. ASSUME NEW j \in V!Keepers
      PROVE  /\ K(j) \in KeeperStates
             /\ K(j).on = l.keeper[j].on /\ K(j).mem = l.keeper[j].mem /\ K(j).save = l.keeper[j].save
             /\ K(j).told = l.keeper[j].on /\ K(j).base = IF j = k THEN l.version + 1 ELSE l.keeper[j].base
  <2> DEFINE base == IF j = k THEN l.version + 1 ELSE l.keeper[j].base
  <2> DEFINE apart == l.keeper[j].apart /\ j # k
  <2>1. l.keeper[j] \in KeeperStates /\ base \in Nat /\ l.keeper[j].on \in BOOLEAN /\ apart \in BOOLEAN
    BY <1>1, LayoutTypes
  <2>2. K(j) = [[[l.keeper[j] EXCEPT !.told = l.keeper[j].on] EXCEPT !.base = base] EXCEPT !.apart = apart]
    OBVIOUS
  <2> HIDE DEF base, apart, K
  <2>3. /\ K(j) \in KeeperStates
        /\ K(j).on = l.keeper[j].on /\ K(j).mem = l.keeper[j].mem /\ K(j).save = l.keeper[j].save
        /\ K(j).told = l.keeper[j].on /\ K(j).base = base
    BY <2>1, <2>2 DEF KeeperStates
  <2> QED
    BY <2>3 DEF base
<1>3. r = [l EXCEPT !.file = new, !.version = l.version + 1, !.crossed = crossed, !.keeper = keeper]
  <2> DEFINE L1 == [l EXCEPT !.file = new]
             L == [L1 EXCEPT !.version = @ + 1]
             set == [j \in V!Keepers |-> [l.keeper[j] EXCEPT !.told = l.keeper[j].on,
                                                          !.base = IF j = k THEN l.version + 1 ELSE @,
                                                          !.apart = @ /\ j # k]]
  <2>1. r = [[L EXCEPT !.crossed = @ \/ l.keeper[k].base # l.version] EXCEPT !.keeper = set]
    BY DEF V!ReplaceFile
  <2>2. L1.version = l.version /\ L.crossed = l.crossed
    BY DEF LayoutStates
  <2>3. set = keeper
    <3>1. ASSUME NEW j \in V!Keepers
          PROVE  [l.keeper[j] EXCEPT !.told = l.keeper[j].on, !.base = IF j = k THEN l.version + 1 ELSE @,
                                     !.apart = @ /\ j # k] = K(j)
      <4> DEFINE X == [l.keeper[j] EXCEPT !.told = l.keeper[j].on]
                 Y == [X EXCEPT !.base = IF j = k THEN l.version + 1 ELSE l.keeper[j].base]
      <4>1. l.keeper[j] \in KeeperStates
        BY <1>1
      <4>2. X.base = l.keeper[j].base
        BY <4>1 DEF KeeperStates
      <4>3. Y.apart = l.keeper[j].apart
        BY <4>1 DEF KeeperStates
      <4>4. [X EXCEPT !.base = IF j = k THEN l.version + 1 ELSE @] = Y
        BY <4>2
      <4>5. [l.keeper[j] EXCEPT !.told = l.keeper[j].on, !.base = IF j = k THEN l.version + 1 ELSE @,
                                !.apart = @ /\ j # k]
               = [[X EXCEPT !.base = IF j = k THEN l.version + 1 ELSE @] EXCEPT !.apart = @ /\ j # k]
        OBVIOUS
      <4>6. K(j) = [Y EXCEPT !.apart = l.keeper[j].apart /\ j # k]
        OBVIOUS
      <4> HIDE DEF X, Y, K
      <4> QED
        BY <4>3, <4>4, <4>5, <4>6
    <3> HIDE DEF K
    <3> QED
      BY <3>1
  <2>4. r = [[L EXCEPT !.crossed = crossed] EXCEPT !.keeper = keeper]
    <3> HIDE DEF keeper, L, set
    <3> QED
      BY <2>1, <2>2, <2>3
  <2>5. L = [[l EXCEPT !.file = new] EXCEPT !.version = l.version + 1]
    BY <2>2
  <2> HIDE DEF keeper, crossed, L
  <2> QED
    BY <2>4, <2>5
<1>4. crossed \in BOOLEAN
  BY <1>1
<1> HIDE DEF K
<1>5. keeper \in [V!Keepers -> KeeperStates] /\ \A j \in V!Keepers : keeper[j] = K(j)
  BY <1>2
<1> HIDE DEF keeper, crossed
<1>6. /\ r \in LayoutStates /\ r.file = new /\ r.version = l.version + 1 /\ r.wish = l.wish
      /\ r.crossed = crossed /\ r.keeper = keeper
  BY <1>1, <1>3, <1>4, <1>5 DEF LayoutStates
<1> QED
  BY <1>2, <1>5, <1>6 DEF crossed

\* A file that is written afresh, by a process that then has nothing to write.
LEMMA ReplacedSound ==
    ASSUME NEW l \in LayoutStates, NEW k \in V!Keepers, NEW new \in Layouts, NEW r,
           r = V!ReplaceFile(l, k, new),
           \A j \in V!Keepers : (l.keeper[j].save => l.keeper[j].on /\ j = "shell") /\ l.keeper[j].base <= l.version,
           new = l.keeper[k].mem, ~l.keeper[k].save,
           ~l.crossed /\ l.keeper[k].base = l.version =>
              /\ new.extra = l.wish.extra
              /\ ~l.keeper["shell"].save => new.panels = l.wish.panels
    PROVE  LayoutSound(r)
<1>1. /\ r \in LayoutStates
      /\ r.file = new /\ r.version = l.version + 1 /\ r.wish = l.wish
      /\ r.crossed <=> l.crossed \/ l.keeper[k].base # l.version
      /\ \A j \in V!Keepers :
            /\ r.keeper[j].on = l.keeper[j].on /\ r.keeper[j].mem = l.keeper[j].mem
            /\ r.keeper[j].save = l.keeper[j].save /\ r.keeper[j].told = l.keeper[j].on
            /\ r.keeper[j].base = IF j = k THEN l.version + 1 ELSE l.keeper[j].base
  BY Replaced
<1>2. l.version \in Nat /\ \A j \in V!Keepers : l.keeper[j].base \in Nat
  BY LayoutTypes, SMTT(30)
<1>3. ASSUME NEW j \in V!Keepers PROVE KeeperSound(r, j)
  <2>1. r.keeper[j].base <= r.version /\ (r.keeper[j].base = r.version => j = k)
    BY <1>1, <1>2, SMTT(30)
  <2>2. r.keeper[j].save => r.keeper[j].on /\ j = "shell"
    BY <1>1, SMTT(30)
  <2>3. r.keeper[j].told = r.keeper[j].on
    BY <1>1
  <2>4. j = k => r.keeper[j].mem = r.file /\ ~r.keeper[j].save
    BY <1>1
  <2> QED
    BY <2>1, <2>2, <2>3, <2>4, SMTT(30) DEF KeeperSound, Shows
<1>4. ASSUME ~r.crossed
      PROVE  r.file.extra = r.wish.extra /\ (~r.keeper["shell"].save => r.file.panels = r.wish.panels)
  <2>1. "shell" \in V!Keepers
    BY DEF V!Keepers
  <2> QED
    BY <1>1, <1>4, <2>1
<1> QED
  BY <1>3, <1>4 DEF LayoutSound

\* A file that is not written.
LEMMA NotWrittenSound ==
    ASSUME NEW l \in LayoutStates, NEW k \in V!Keepers, NEW r, r = V!NotWritten(l, k),
           \A j \in V!Keepers : (l.keeper[j].save => l.keeper[j].on /\ j = "shell") /\ l.keeper[j].base <= l.version,
           \A j \in V!Keepers : j # k => Shows(l.keeper[j], l.file)
    PROVE  /\ r \in LayoutStates /\ LayoutSound(r) /\ r.wish = l.wish
           /\ r.keeper[k].save = l.keeper[k].save
<1> DEFINE K == [l.keeper[k] EXCEPT !.apart = TRUE]
<1>1. l.keeper[k] \in KeeperStates /\ l.wish \in Layouts /\ l.n \in Nat
  BY LayoutTypes
<1>2. /\ K \in KeeperStates /\ K.on = l.keeper[k].on /\ K.save = l.keeper[k].save /\ K.apart
      /\ K.base = l.keeper[k].base
  BY <1>1 DEF KeeperStates
<1> HIDE DEF K
<1>0. PICK c \in BOOLEAN : c = TRUE
  OBVIOUS
<1>3. r = KeeperGoes(l, k, K, l.wish, l.n, c)
  BY <1>0 DEF V!NotWritten, LayoutStates, KeeperGoes, K
<1>4. /\ r \in LayoutStates
      /\ r.file = l.file /\ r.wish = l.wish /\ r.version = l.version /\ r.crossed = c
      /\ r.keeper[k] = K
      /\ \A j \in V!Keepers : j # k => r.keeper[j] = l.keeper[j]
  BY <1>1, <1>2, <1>3, KeeperMoves
<1>5. KeeperSound(r, k)
  BY <1>0, <1>2, <1>4 DEF KeeperSound, Shows
<1>6. ASSUME NEW j \in V!Keepers, j # k PROVE KeeperSound(r, j)
  BY <1>0, <1>4, <1>6 DEF KeeperSound
<1> QED
  BY <1>0, <1>2, <1>4, <1>5, <1>6 DEF LayoutSound

LEMMA WrittenOut ==
    ASSUME NEW l \in LayoutStates, NEW k \in V!Keepers, NEW ok \in BOOLEAN, NEW r, r = V!WriteLayout(l, k, ok),
           \A j \in V!Keepers : (l.keeper[j].save => l.keeper[j].on /\ j = "shell") /\ l.keeper[j].base <= l.version,
           \A j \in V!Keepers : j # k => Shows(l.keeper[j], l.file),
           ~l.crossed /\ l.keeper[k].base = l.version =>
              /\ l.keeper[k].mem.extra = l.wish.extra
              /\ k = "shell" \/ ~l.keeper["shell"].save => l.keeper[k].mem.panels = l.wish.panels
    PROVE  /\ r \in LayoutStates /\ LayoutSound(r) /\ r.wish = l.wish
           /\ ~r.keeper[k].save
<1> DEFINE K == [l.keeper[k] EXCEPT !.save = FALSE]
           m == [l EXCEPT !.keeper[k].save = FALSE]
<1>1. l.keeper[k] \in KeeperStates /\ l.keeper[k].mem \in Layouts /\ l.wish \in Layouts
      /\ l.n \in Nat /\ l.crossed \in BOOLEAN /\ "shell" \in V!Keepers
  BY LayoutTypes DEF V!Keepers
<1>2. /\ K \in KeeperStates /\ K.on = l.keeper[k].on /\ K.mem = l.keeper[k].mem /\ K.save = FALSE
      /\ K.base = l.keeper[k].base
  BY <1>1 DEF KeeperStates
<1>3. m = KeeperGoes(l, k, K, l.wish, l.n, l.crossed)
  BY DEF LayoutStates, KeeperGoes
<1>4. r = IF ok THEN V!ReplaceFile(m, k, l.keeper[k].mem) ELSE V!NotWritten(m, k)
  BY DEF V!WriteLayout
<1> HIDE DEF K, m
<1>5. /\ m \in LayoutStates /\ m.file = l.file /\ m.wish = l.wish /\ m.version = l.version
      /\ m.crossed = l.crossed /\ m.keeper[k] = K
      /\ \A j \in V!Keepers : j # k => m.keeper[j] = l.keeper[j]
  BY <1>1, <1>2, <1>3, KeeperMoves
<1>6. \A j \in V!Keepers : (m.keeper[j].save => m.keeper[j].on /\ j = "shell") /\ m.keeper[j].base <= m.version
  BY <1>2, <1>5
<1>7. l.keeper[k].mem = m.keeper[k].mem /\ ~m.keeper[k].save
  BY <1>2, <1>5
<1>8. ~m.crossed /\ m.keeper[k].base = m.version =>
         /\ l.keeper[k].mem.extra = m.wish.extra
         /\ ~m.keeper["shell"].save => l.keeper[k].mem.panels = m.wish.panels
  <2>1. k # "shell" => m.keeper["shell"] = l.keeper["shell"]
    BY <1>1, <1>5
  <2> QED
    BY <1>2, <1>5, <2>1
<1>9. CASE ok
  <2>1. LayoutSound(r)
    BY <1>1, <1>4, <1>5, <1>6, <1>7, <1>8, <1>9, ReplacedSound
  <2>2. r \in LayoutStates /\ r.wish = m.wish /\ r.keeper[k].save = m.keeper[k].save
    <3>1. m \in LayoutStates /\ l.keeper[k].mem \in Layouts
      BY <1>1, <1>5
    <3> QED
      BY <1>4, <1>9, <3>1, Replaced
  <2> QED
    BY <1>5, <1>7, <2>1, <2>2
<1>10. CASE ~ok
  <2>1. r = V!NotWritten(m, k)
    BY <1>4, <1>10
  <2>2. \A j \in V!Keepers : j # k => Shows(m.keeper[j], m.file)
    BY <1>5
  <2> QED
    BY <1>5, <1>6, <1>7, <2>1, <2>2, NotWrittenSound
<1> QED
  BY <1>9, <1>10

LEMMA KeeperFacts ==
    ASSUME LayoutInv
    PROVE  /\ layout \in LayoutStates
           /\ \A j \in V!Keepers : /\ KeeperSound(layout, j)
                                   /\ layout.keeper[j].save => layout.keeper[j].on /\ j = "shell"
                                   /\ layout.keeper[j].base <= layout.version
                                   /\ Shows(layout.keeper[j], layout.file)
           /\ ~layout.crossed =>
                 /\ layout.file.extra = layout.wish.extra
                 /\ ~layout.keeper["shell"].save => layout.file.panels = layout.wish.panels
           /\ "shell" \in V!Keepers
  BY DEF LayoutInv, LayoutSound, KeeperSound, LayoutTyped, V!Keepers

\* A process that has seen the newest file and the newest choice of the panels.
LEMMA UpToDate ==
    ASSUME LayoutInv, NEW k \in V!Keepers, layout.keeper[k].on, ~layout.crossed,
           layout.keeper[k].base = layout.version
    PROVE  /\ layout.keeper[k].mem.extra = layout.wish.extra
           /\ k = "shell" \/ ~layout.keeper["shell"].save => layout.keeper[k].mem.panels = layout.wish.panels
<1>1. /\ layout.keeper[k].mem.extra = layout.file.extra
      /\ ~layout.keeper[k].save => layout.keeper[k].mem.panels = layout.file.panels
      /\ layout.keeper[k].save => layout.keeper[k].mem.panels = layout.wish.panels
  BY KeeperFacts DEF KeeperSound
<1>2. layout.keeper[k].save => k = "shell"
  BY KeeperFacts
<1> QED
  BY <1>1, <1>2, KeeperFacts

LEMMA SaveTimerStep ==
    ASSUME LayoutInv, NEW k \in V!Keepers, NEW ok \in BOOLEAN, V!SaveTimer(k, ok)
    PROVE  LayoutInv'
<1>1. layout.keeper[k].save /\ layout' = V!WriteLayout(layout, k, ok) /\ layout.keeper[k].on
  BY KeeperFacts DEF V!SaveTimer
<1>2. ~layout.crossed /\ layout.keeper[k].base = layout.version =>
          /\ layout.keeper[k].mem.extra = layout.wish.extra
          /\ k = "shell" \/ ~layout.keeper["shell"].save => layout.keeper[k].mem.panels = layout.wish.panels
  BY <1>1, UpToDate
<1>3. layout' \in LayoutStates /\ LayoutSound(layout')
  BY <1>1, <1>2, KeeperFacts, WrittenOut
<1> QED
  BY <1>3 DEF LayoutInv, LayoutTyped, LayoutSound, KeeperSound, Shows

\* The file stays and one process moves.
LEMMA GoesSound ==
    ASSUME NEW l \in LayoutStates, LayoutSound(l), NEW k \in V!Keepers, NEW K \in KeeperStates, NEW wish \in Layouts,
           NEW n \in Nat, NEW c \in BOOLEAN, NEW m, m = KeeperGoes(l, k, K, wish, n, c),
           l.crossed => c,
           Shows(K, l.file),
           K.save => K.on /\ k = "shell",
           K.base <= l.version,
           K.on /\ K.base = l.version /\ ~c =>
              /\ K.mem.extra = l.file.extra
              /\ ~K.save => K.mem.panels = l.file.panels
              /\ K.save => K.mem.panels = wish.panels,
           ~c => /\ l.file.extra = wish.extra
                 /\ k = "shell" /\ ~K.save => l.file.panels = wish.panels
                 /\ k # "shell" => wish.panels = l.wish.panels
    PROVE  m \in LayoutStates /\ LayoutSound(m)
<1>1. /\ m \in LayoutStates
      /\ m.file = l.file /\ m.wish = wish /\ m.version = l.version /\ m.crossed = c /\ m.n = n
      /\ m.keeper[k] = K
      /\ \A j \in V!Keepers : j # k => m.keeper[j] = l.keeper[j]
  BY KeeperMoves
<1>2. KeeperSound(m, k)
  BY <1>1 DEF KeeperSound
<1>3. ASSUME NEW j \in V!Keepers, j # k PROVE KeeperSound(m, j)
  <2>1. KeeperSound(l, j) /\ m.keeper[j] = l.keeper[j]
    BY <1>1, <1>3 DEF LayoutSound
  <2>2. m.keeper[j].save /\ ~c => k # "shell"
    BY <1>3, <2>1 DEF KeeperSound
  <2> QED
    BY <1>1, <2>1, <2>2 DEF KeeperSound
<1>4. ASSUME ~c
      PROVE  m.file.extra = m.wish.extra /\ (~m.keeper["shell"].save => m.file.panels = m.wish.panels)
  <2>1. CASE k = "shell"
    BY <1>1, <1>4, <2>1
  <2>2. CASE k # "shell"
    <3>1. "shell" \in V!Keepers
      BY DEF V!Keepers
    <3>2. m.keeper["shell"] = l.keeper["shell"] /\ wish.panels = l.wish.panels /\ ~l.crossed
      BY <1>1, <1>4, <2>2, <3>1
    <3> QED
      BY <1>1, <1>4, <3>2 DEF LayoutSound
  <2> QED
    BY <2>1, <2>2
<1> QED
  BY <1>1, <1>2, <1>3, <1>4 DEF LayoutSound

LEMMA PartChosen ==
    ASSUME NEW r \in Layouts, NEW what \in {"panels", "extra"}, NEW n \in Nat
    PROVE  /\ [r EXCEPT ![what] = n] \in Layouts
           /\ what = "panels" => [r EXCEPT ![what] = n].panels = n /\ [r EXCEPT ![what] = n].extra = r.extra
           /\ what = "extra" => [r EXCEPT ![what] = n].extra = n /\ [r EXCEPT ![what] = n].panels = r.panels
  BY DEF Layouts

LEMMA SaveLayoutStep ==
    ASSUME LayoutInv, NEW k \in V!Keepers, NEW ok \in BOOLEAN, NEW what \in {"panels", "extra"},
           V!SaveLayout(k, what, ok)
    PROVE  LayoutInv'
<1> DEFINE n == layout.n + 1
           new == [layout.keeper[k].mem EXCEPT ![what] = n]
           wish == [layout.wish EXCEPT ![what] = n]
           K == [layout.keeper[k] EXCEPT !.mem = new]
           l == [layout EXCEPT !.keeper[k].mem = new, !.n = n, !.wish[what] = n]
<1>1. /\ layout \in LayoutStates /\ layout.keeper[k] \in KeeperStates /\ layout.keeper[k].mem \in Layouts
      /\ layout.wish \in Layouts /\ n \in Nat /\ layout.crossed \in BOOLEAN /\ "shell" \in V!Keepers
      /\ layout.keeper[k].on /\ layout.file \in Layouts
  BY KeeperFacts, LayoutTypes DEF V!SaveLayout
<1>2. /\ layout' = IF what = "extra" \/ k = "app" THEN V!WriteLayout(l, k, ok)
                   ELSE [l EXCEPT !.keeper[k].save = TRUE]
  BY DEF V!SaveLayout
<1>3. l = KeeperGoes(layout, k, K, wish, n, layout.crossed)
  BY <1>1 DEF LayoutStates, KeeperGoes
<1>4. l.keeper[k] = K /\ l.keeper = [layout.keeper EXCEPT ![k] = K]
  BY <1>1, <1>3 DEF LayoutStates, KeeperGoes
<1>5. /\ new \in Layouts /\ wish \in Layouts
      /\ what = "panels" => /\ new.panels = n /\ wish.panels = n
                            /\ new.extra = layout.keeper[k].mem.extra /\ wish.extra = layout.wish.extra
      /\ what = "extra" => /\ new.extra = n /\ wish.extra = n
                           /\ new.panels = layout.keeper[k].mem.panels /\ wish.panels = layout.wish.panels
  BY <1>1, PartChosen
<1> HIDE DEF n, new, wish, l
<1>6. /\ K \in KeeperStates /\ K.on /\ K.mem = new /\ K.save = layout.keeper[k].save
      /\ K.base = layout.keeper[k].base
  BY <1>1, <1>5 DEF KeeperStates
<1> HIDE DEF K
<1>7. /\ l \in LayoutStates
      /\ l.file = layout.file /\ l.wish = wish /\ l.version = layout.version /\ l.crossed = layout.crossed
      /\ \A j \in V!Keepers : j # k => l.keeper[j] = layout.keeper[j]
  BY <1>1, <1>3, <1>5, <1>6, KeeperMoves, SMTT(30)
<1>8. CASE what = "extra" \/ k = "app"
  <2>1. \A j \in V!Keepers : (l.keeper[j].save => l.keeper[j].on /\ j = "shell") /\ l.keeper[j].base <= l.version
    BY <1>4, <1>6, <1>7, KeeperFacts
  <2>0. \A j \in V!Keepers : j # k => Shows(l.keeper[j], l.file)
    BY <1>7, KeeperFacts
  <2>2. ASSUME ~l.crossed, l.keeper[k].base = l.version
        PROVE  /\ l.keeper[k].mem.extra = l.wish.extra
               /\ k = "shell" \/ ~l.keeper["shell"].save => l.keeper[k].mem.panels = l.wish.panels
    <3>1. /\ layout.keeper[k].mem.extra = layout.wish.extra
          /\ k = "shell" \/ ~layout.keeper["shell"].save => layout.keeper[k].mem.panels = layout.wish.panels
      BY <1>1, <1>4, <1>6, <1>7, <2>2, UpToDate
    <3>2. k # "shell" => l.keeper["shell"] = layout.keeper["shell"]
      BY <1>1, <1>7
    <3>3. l.keeper[k].mem = new /\ l.wish = wish
      BY <1>4, <1>6, <1>7
    <3> QED
      BY <1>5, <3>1, <3>2, <3>3
  <2>3. layout' = V!WriteLayout(l, k, ok)
    BY <1>2, <1>8
  <2>4. layout' \in LayoutStates /\ LayoutSound(layout')
    BY <1>7, <2>0, <2>1, <2>2, <2>3, WrittenOut
  <2> QED
    BY <2>4 DEF LayoutInv, LayoutTyped, LayoutSound, KeeperSound, Shows
<1>9. CASE ~(what = "extra" \/ k = "app")
  <2>1. what = "panels" /\ k = "shell"
    BY <1>9 DEF V!Keepers
  <2> DEFINE M == [K EXCEPT !.save = TRUE]
  <2>2. layout' = [l EXCEPT !.keeper = [l.keeper EXCEPT ![k] = M]]
    BY <1>2, <1>4, <1>9
  <2>3. layout' = KeeperGoes(layout, k, M, wish, n, layout.crossed)
    BY <1>3, <1>4, <1>1, <2>2 DEF LayoutStates, KeeperGoes
  <2>4. /\ M \in KeeperStates /\ M.on /\ M.mem = new /\ M.save /\ M.base = layout.keeper[k].base
    BY <1>6 DEF KeeperStates
  <2> HIDE DEF M
  <2>5. layout.keeper[k].base = layout.version /\ ~layout.crossed => new.extra = layout.file.extra
    BY <1>1, <1>5, <2>1, KeeperFacts DEF KeeperSound
  <2>6. ~layout.crossed => layout.file.extra = wish.extra
    BY <1>5, <2>1, KeeperFacts
  <2>7. layout.keeper[k].base <= layout.version /\ LayoutSound(layout)
    BY KeeperFacts DEF LayoutInv
  <2>9. Shows(M, layout.file)
    BY <2>4 DEF Shows
  <2>8. layout' \in LayoutStates /\ LayoutSound(layout')
    BY <1>1, <1>5, <2>1, <2>3, <2>4, <2>5, <2>6, <2>7, <2>9, GoesSound
  <2> QED
    BY <2>8 DEF LayoutInv, LayoutTyped, LayoutSound, KeeperSound, Shows
<1> QED
  BY <1>8, <1>9

LEMMA ResetLayoutStep ==
    ASSUME LayoutInv, NEW k \in V!Keepers, NEW ok \in BOOLEAN, V!ResetLayout(k, ok)
    PROVE  LayoutInv'
<1> DEFINE K == [[layout.keeper[k] EXCEPT !.mem = V!DefaultLayout] EXCEPT !.save = FALSE]
           l == [layout EXCEPT !.keeper[k].mem = V!DefaultLayout, !.keeper[k].save = FALSE,
                               !.wish = V!DefaultLayout, !.n = @ + 1]
           n == layout.n + 1
<1>1. /\ layout \in LayoutStates /\ layout.keeper[k] \in KeeperStates /\ n \in Nat
      /\ layout.crossed \in BOOLEAN /\ V!DefaultLayout \in Layouts
  BY KeeperFacts, LayoutTypes
<1>2. layout' = IF ok THEN V!ReplaceFile(l, k, V!DefaultLayout) ELSE V!NotWritten(l, k)
  BY DEF V!ResetLayout
<1>3. l = KeeperGoes(layout, k, K, V!DefaultLayout, n, layout.crossed)
  BY <1>1 DEF LayoutStates, KeeperGoes
<1>4. /\ K \in KeeperStates /\ K.mem = V!DefaultLayout /\ ~K.save /\ K.base = layout.keeper[k].base
  BY <1>1 DEF KeeperStates
<1> HIDE DEF n, K, l
<1>5. /\ l \in LayoutStates /\ l.keeper[k] = K
      /\ l.file = layout.file /\ l.wish = V!DefaultLayout /\ l.version = layout.version /\ l.crossed = layout.crossed
      /\ \A j \in V!Keepers : j # k => l.keeper[j] = layout.keeper[j]
  BY <1>1, <1>3, <1>4, KeeperMoves
<1>6. \A j \in V!Keepers : (l.keeper[j].save => l.keeper[j].on /\ j = "shell") /\ l.keeper[j].base <= l.version
  BY <1>4, <1>5, KeeperFacts
<1>7. V!DefaultLayout = l.keeper[k].mem /\ ~l.keeper[k].save
  BY <1>4, <1>5
<1>8. ASSUME ok PROVE layout' \in LayoutStates /\ LayoutSound(layout')
  <2>1. layout' = V!ReplaceFile(l, k, V!DefaultLayout)
    BY <1>2, <1>8
  <2>2. LayoutSound(layout')
    BY <1>1, <1>5, <1>6, <1>7, <2>1, ReplacedSound
  <2>3. layout' \in LayoutStates
    BY <1>1, <1>5, <2>1, Replaced
  <2> QED
    BY <2>2, <2>3
<1>9. ASSUME ~ok PROVE layout' \in LayoutStates /\ LayoutSound(layout')
  <2>1. layout' = V!NotWritten(l, k)
    BY <1>2, <1>9
  <2>2. \A j \in V!Keepers : j # k => Shows(l.keeper[j], l.file)
    BY <1>5, KeeperFacts
  <2> QED
    BY <1>5, <1>6, <2>1, <2>2, NotWrittenSound
<1>10. layout' \in LayoutStates /\ LayoutSound(layout')
  BY <1>8, <1>9
<1> QED
  BY <1>10 DEF LayoutInv, LayoutTyped, LayoutSound, KeeperSound, Shows

LEMMA LayoutFileChangedStep ==
    ASSUME LayoutInv, NEW k \in V!Keepers, V!LayoutFileChanged(k)
    PROVE  LayoutInv'
<1> DEFINE K == [[layout.keeper[k] EXCEPT !.told = FALSE] EXCEPT !.reload = TRUE]
<1>1. /\ layout \in LayoutStates /\ layout.keeper[k] \in KeeperStates /\ layout.n \in Nat
      /\ layout.crossed \in BOOLEAN /\ layout.wish \in Layouts /\ layout.file \in Layouts
  BY KeeperFacts, LayoutTypes
<1>2. layout' = KeeperGoes(layout, k, K, layout.wish, layout.n, layout.crossed)
  BY <1>1 DEF V!LayoutFileChanged, LayoutStates, KeeperGoes
<1>3. /\ K \in KeeperStates /\ K.reload /\ K.on = layout.keeper[k].on /\ K.save = layout.keeper[k].save
      /\ K.mem = layout.keeper[k].mem /\ K.base = layout.keeper[k].base
  BY <1>1 DEF KeeperStates
<1> HIDE DEF K
<1>4. KeeperSound(layout, k) /\ LayoutSound(layout)
  BY KeeperFacts DEF LayoutInv
<1>5. ~layout.crossed =>
         /\ layout.file.extra = layout.wish.extra
         /\ k = "shell" /\ ~K.save => layout.file.panels = layout.wish.panels
  BY <1>3, KeeperFacts
<1>6. /\ K.save => K.on /\ k = "shell"
      /\ K.base <= layout.version
      /\ Shows(K, layout.file)
      /\ K.on /\ K.base = layout.version /\ ~layout.crossed =>
            /\ K.mem.extra = layout.file.extra
            /\ ~K.save => K.mem.panels = layout.file.panels
            /\ K.save => K.mem.panels = layout.wish.panels
  BY <1>3, <1>4 DEF KeeperSound, Shows
<1>7. layout' \in LayoutStates /\ LayoutSound(layout')
  BY <1>1, <1>2, <1>3, <1>4, <1>5, <1>6, GoesSound
<1> QED
  BY <1>7 DEF LayoutInv, LayoutTyped, LayoutSound, KeeperSound, Shows

LEMMA ReloadLayoutStep ==
    ASSUME LayoutInv, NEW k \in V!Keepers, V!ReloadLayout(k)
    PROVE  LayoutInv'
<1> DEFINE K == [[[[layout.keeper[k] EXCEPT !.reload = FALSE] EXCEPT !.mem = layout.file]
                     EXCEPT !.base = layout.version] EXCEPT !.apart = FALSE]
           c == layout.crossed \/ layout.keeper[k].save
<1>1. /\ layout \in LayoutStates /\ layout.keeper[k] \in KeeperStates /\ layout.n \in Nat
      /\ layout.crossed \in BOOLEAN /\ layout.wish \in Layouts /\ layout.file \in Layouts
      /\ layout.version \in Nat
  BY KeeperFacts, LayoutTypes
<1>2. layout' = KeeperGoes(layout, k, K, layout.wish, layout.n, c)
  <2> DEFINE Half == [[layout.keeper[k] EXCEPT !.reload = FALSE] EXCEPT !.mem = layout.file]
             m == [layout EXCEPT !.keeper[k].reload = FALSE, !.keeper[k].mem = layout.file]
  <2>1. m = [layout EXCEPT !.keeper = [layout.keeper EXCEPT ![k] = Half]]
    BY <1>1 DEF LayoutStates
  <2>2. layout' = [m EXCEPT !.keeper[k].base = layout.version, !.keeper[k].apart = FALSE,
                            !.crossed = @ \/ layout.keeper[k].save]
    BY DEF V!ReloadLayout
  <2>3. K = [[Half EXCEPT !.base = layout.version] EXCEPT !.apart = FALSE]
    OBVIOUS
  <2>4. Half \in KeeperStates
    BY <1>1 DEF KeeperStates
  <2> HIDE DEF Half, m, K
  <2>5. /\ m \in LayoutStates /\ m.keeper = [layout.keeper EXCEPT ![k] = Half] /\ m.keeper[k] = Half
        /\ m.crossed = layout.crossed
    BY <1>1, <2>1, <2>4 DEF LayoutStates
  <2>6. [m EXCEPT !.keeper[k].base = layout.version, !.keeper[k].apart = FALSE]
            = [m EXCEPT !.keeper = [m.keeper EXCEPT ![k] = K]]
    BY <2>3, <2>5 DEF LayoutStates
  <2>7. [m EXCEPT !.keeper = [m.keeper EXCEPT ![k] = K]] = [layout EXCEPT !.keeper = [layout.keeper EXCEPT ![k] = K]]
    BY <1>1, <2>1, <2>5 DEF LayoutStates
  <2>8. layout' = [[layout EXCEPT !.keeper = [layout.keeper EXCEPT ![k] = K]] EXCEPT !.crossed = c]
    <3> DEFINE x == [m EXCEPT !.keeper[k].base = layout.version, !.keeper[k].apart = FALSE]
    <3>1. layout' = [x EXCEPT !.crossed = @ \/ layout.keeper[k].save]
      BY <2>2
    <3>2. x = [layout EXCEPT !.keeper = [layout.keeper EXCEPT ![k] = K]]
      BY <2>6, <2>7
    <3> HIDE DEF x
    <3>3. x.crossed = layout.crossed
      BY <1>1, <3>2 DEF LayoutStates
    <3>4. layout' = [x EXCEPT !.crossed = c]
      BY <3>1, <3>3
    <3> HIDE DEF c
    <3> QED
      BY <3>2, <3>4
  <2> HIDE DEF c
  <2> QED
    BY <1>1, <2>8 DEF LayoutStates, KeeperGoes
<1>3. /\ K \in KeeperStates /\ K.on = layout.keeper[k].on /\ K.save = layout.keeper[k].save
      /\ K.mem = layout.file /\ K.base = layout.version
  BY <1>1 DEF KeeperStates
<1>4. c \in BOOLEAN /\ (layout.crossed => c) /\ (layout.keeper[k].save => c)
  BY <1>1
<1> HIDE DEF K, c
<1>5. KeeperSound(layout, k) /\ LayoutSound(layout)
  BY KeeperFacts DEF LayoutInv
<1>6. ~c =>
         /\ layout.file.extra = layout.wish.extra
         /\ k = "shell" /\ ~K.save => layout.file.panels = layout.wish.panels
  BY <1>3, <1>4, KeeperFacts
<1>7. /\ K.save => K.on /\ k = "shell"
      /\ K.base <= layout.version
      /\ K.save => c
      /\ Shows(K, layout.file)
  BY <1>1, <1>3, <1>4, KeeperFacts DEF Shows
<1>8. layout' \in LayoutStates /\ LayoutSound(layout')
  BY <1>1, <1>2, <1>3, <1>4, <1>5, <1>6, <1>7, GoesSound
<1> QED
  BY <1>8 DEF LayoutInv, LayoutTyped, LayoutSound, KeeperSound, Shows

LEMMA FreshKeeper ==
    ASSUME NEW on, NEW mem, NEW base
    PROVE  [V!NewKeeper EXCEPT !.on = on, !.mem = mem, !.base = base]
              = [on |-> on, mem |-> mem, save |-> FALSE, told |-> FALSE, reload |-> FALSE, base |-> base,
                   apart |-> FALSE]
<1> DEFINE k(x, y, no, z) == [on |-> x, mem |-> y, save |-> no, told |-> no, reload |-> no, base |-> z,
                           apart |-> no]
<1>1. PICK no, y, z : no = FALSE /\ y = V!DefaultLayout /\ z = 0
  OBVIOUS
<1>2. V!NewKeeper = k(no, y, no, z)
  BY <1>1 DEF V!NewKeeper
<1>3. [k(no, y, no, z) EXCEPT !.on = on] = k(on, y, no, z)
  OBVIOUS
<1>4. [k(on, y, no, z) EXCEPT !.mem = mem] = k(on, mem, no, z)
  OBVIOUS
<1>5. [k(on, mem, no, z) EXCEPT !.base = base] = k(on, mem, no, base)
  OBVIOUS
<1>6. k(on, mem, no, base)
         = [on |-> on, mem |-> mem, save |-> FALSE, told |-> FALSE, reload |-> FALSE, base |-> base,
                   apart |-> FALSE]
  BY <1>1
<1> HIDE DEF k
<1>7. [V!NewKeeper EXCEPT !.on = on] = k(on, y, no, z)
  BY <1>2, <1>3
<1>8. [[V!NewKeeper EXCEPT !.on = on] EXCEPT !.mem = mem] = k(on, mem, no, z)
  BY <1>4, <1>7
<1> QED
  BY <1>5, <1>6, <1>8

LEMMA StartKeeperStep ==
    ASSUME LayoutInv, NEW k \in V!Keepers, V!StartKeeper(k)
    PROVE  LayoutInv'
<1> DEFINE K == [on |-> TRUE, mem |-> layout.file, save |-> FALSE, told |-> FALSE, reload |-> FALSE,
                 base |-> layout.version, apart |-> FALSE]
<1>1. /\ layout \in LayoutStates /\ layout.keeper[k] \in KeeperStates /\ layout.n \in Nat
      /\ layout.crossed \in BOOLEAN /\ layout.wish \in Layouts /\ layout.file \in Layouts
      /\ layout.version \in Nat
  BY KeeperFacts, LayoutTypes
<1>2. [V!NewKeeper EXCEPT !.on = TRUE, !.mem = layout.file, !.base = layout.version] = K
  BY FreshKeeper
<1>3. K \in KeeperStates /\ K.on /\ ~K.save /\ K.mem = layout.file /\ K.base = layout.version
  BY <1>1 DEF KeeperStates
<1> HIDE DEF K
<1>4. layout' = KeeperGoes(layout, k, K, layout.wish, layout.n, layout.crossed) /\ ~layout.keeper[k].on
  BY <1>1, <1>2 DEF V!StartKeeper, LayoutStates, KeeperGoes
<1>5. LayoutSound(layout)
  BY DEF LayoutInv
<1>6. ~layout.crossed =>
         /\ layout.file.extra = layout.wish.extra
         /\ k = "shell" => layout.file.panels = layout.wish.panels
  BY <1>4, KeeperFacts
<1>7. K.base <= layout.version /\ Shows(K, layout.file)
  BY <1>1, <1>3 DEF Shows
<1>8. layout' \in LayoutStates /\ LayoutSound(layout')
  BY <1>1, <1>3, <1>4, <1>5, <1>6, <1>7, GoesSound
<1> QED
  BY <1>8 DEF LayoutInv, LayoutTyped, LayoutSound, KeeperSound, Shows

LEMMA EndKeeperStep ==
    ASSUME LayoutInv, NEW k \in V!Keepers, NEW crash \in BOOLEAN, NEW ok \in BOOLEAN, V!EndKeeper(k, crash, ok)
    PROVE  LayoutInv'
<1> DEFINE writes == layout.keeper[k].save /\ ~crash
           loses == layout.keeper[k].save /\ crash
           l == IF writes THEN V!WriteLayout(layout, k, ok) ELSE layout
           panels == IF loses THEN l.file.panels ELSE l.wish.panels
           wish == [l.wish EXCEPT !.panels = panels]
<1>1. l \in LayoutStates /\ LayoutSound(l) /\ (~l.keeper[k].save \/ loses) /\ (loses => k = "shell")
  <2>1. CASE writes
    <3>1. layout.keeper[k].on
      BY <2>1, KeeperFacts
    <3>2. ~layout.crossed /\ layout.keeper[k].base = layout.version =>
              /\ layout.keeper[k].mem.extra = layout.wish.extra
              /\ k = "shell" \/ ~layout.keeper["shell"].save => layout.keeper[k].mem.panels = layout.wish.panels
      BY <3>1, UpToDate
    <3>3. l = V!WriteLayout(layout, k, ok)
      BY <2>1
    <3> HIDE DEF l
    <3> QED
      BY <2>1, <3>2, <3>3, KeeperFacts, WrittenOut
  <2>2. CASE ~writes
    BY <2>2, KeeperFacts DEF LayoutInv
  <2> QED
    BY <2>1, <2>2
<1>2. layout' = [l EXCEPT !.keeper[k] = V!NewKeeper, !.wish.panels = IF loses THEN l.file.panels ELSE @]
  BY DEF V!EndKeeper
<1> HIDE DEF l, writes, loses
<1>3. /\ l.file \in Layouts /\ l.wish \in Layouts /\ l.n \in Nat /\ l.crossed \in BOOLEAN /\ l.version \in Nat
      /\ V!DefaultLayout \in Layouts
  BY <1>1, LayoutTypes
<1>4. layout' = [l EXCEPT !.keeper[k] = V!NewKeeper, !.wish.panels = panels]
  BY <1>1, <1>2 DEF LayoutStates
<1>5. layout' = KeeperGoes(l, k, V!NewKeeper, wish, l.n, l.crossed)
  <2> HIDE DEF panels
  <2> QED
    BY <1>1, <1>4 DEF LayoutStates, KeeperGoes
<1>6. /\ wish \in Layouts /\ wish.extra = l.wish.extra /\ wish.panels = panels
  <2>1. panels \in Nat
    BY <1>3 DEF Layouts
  <2> HIDE DEF panels
  <2> QED
    BY <1>3, <2>1 DEF Layouts
<1>7. /\ V!NewKeeper \in KeeperStates /\ ~V!NewKeeper.on /\ ~V!NewKeeper.save /\ V!NewKeeper.base = 0
  BY <1>3 DEF KeeperStates, V!NewKeeper
<1>8. ~l.crossed => /\ l.file.extra = wish.extra
                    /\ k = "shell" => l.file.panels = wish.panels
                    /\ k # "shell" => wish.panels = l.wish.panels
  <2>1. ~l.crossed => l.file.extra = l.wish.extra /\ (~l.keeper["shell"].save => l.file.panels = l.wish.panels)
    BY <1>1 DEF LayoutSound
  <2>2. CASE loses
    BY <1>1, <1>6, <2>1, <2>2
  <2>3. CASE ~loses
    BY <1>1, <1>6, <2>1, <2>3
  <2> QED
    BY <2>2, <2>3
<1> HIDE DEF wish, panels
<1>9. 0 <= l.version /\ Shows(V!NewKeeper, l.file)
  BY <1>3, <1>7 DEF Shows
<1>10. layout' \in LayoutStates /\ LayoutSound(layout')
  BY <1>1, <1>3, <1>5, <1>6, <1>7, <1>8, <1>9, GoesSound
<1> QED
  BY <1>10 DEF LayoutInv, LayoutTyped, LayoutSound, KeeperSound, Shows

LEMMA LayoutStep ==
    ASSUME LayoutInv, V!LayoutNext
    PROVE  LayoutInv'
  BY SaveLayoutStep, SaveTimerStep, ResetLayoutStep, LayoutFileChangedStep, ReloadLayoutStep, StartKeeperStep,
     EndKeeperStep
  DEF V!LayoutNext

LEMMA LayoutFollows ==
    ASSUME LayoutInv
    PROVE  V!LayoutIsKept
<1>1. \A k \in V!Keepers :
         layout.keeper[k].on /\ ~V!Behind(k) /\ ~layout.keeper[k].apart => layout.keeper[k].mem = layout.file
  BY KeeperFacts DEF Shows, V!Behind
<1>2. ASSUME ~layout.crossed, \A k \in V!Keepers : ~layout.keeper[k].save
      PROVE  layout.file = layout.wish
  <2>1. layout.file.extra = layout.wish.extra /\ layout.file.panels = layout.wish.panels
    BY <1>2, KeeperFacts
  <2>2. layout.file \in Layouts /\ layout.wish \in Layouts
    BY KeeperFacts DEF LayoutStates
  <2> QED
    BY <2>1, <2>2 DEF Layouts
<1> QED
  BY <1>1, <1>2, KeeperFacts DEF V!LayoutIsKept

-----------------------------------------------------------------------------
(* Notifications. *)

LEMMA OffIs ==
    ASSUME NEW s \in Seq(NoteEvents), OnceEach(s), NEW id
    PROVE  /\ V!Off(s, id) \in Seq(NoteEvents) /\ Len(V!Off(s, id)) <= Len(s) /\ OnceEach(V!Off(s, id))
           /\ \A k \in DOMAIN V!Off(s, id) : V!Off(s, id)[k].id # id /\ \E j \in DOMAIN s : V!Off(s, id)[k] = s[j]
           /\ \A j \in DOMAIN s : s[j].id # id => \E k \in DOMAIN V!Off(s, id) : V!Off(s, id)[k] = s[j]
<1>1. CASE ~V!Listed(s, id)
  <2>1. V!Off(s, id) = s
    BY <1>1 DEF V!Off
  <2>2. \A j \in DOMAIN s : s[j].id # id
    BY <1>1 DEF V!Listed
  <2>3. Len(s) <= Len(s)
    OBVIOUS
  <2> QED
    BY <2>1, <2>2, <2>3
<1>2. CASE V!Listed(s, id)
  <2> DEFINE i == CHOOSE x \in DOMAIN s : s[x].id = id
             r == V!RemoveAt(s, i)
  <2>1. i \in DOMAIN s /\ s[i].id = id
    BY <1>2 DEF V!Listed
  <2>2. V!Off(s, id) = r
    BY <1>2 DEF V!Off
  <2> HIDE DEF i
  <2>3. /\ r \in Seq(NoteEvents) /\ Len(r) = Len(s) - 1 /\ Len(s) \in Nat
        /\ \A k \in DOMAIN r : r[k] = IF k < i THEN s[k] ELSE s[k + 1]
    BY <2>1, Removed
  <2>4. /\ \A k \in DOMAIN r : \E j \in DOMAIN s : j # i /\ r[k] = s[j]
        /\ \A j \in DOMAIN s : j # i => \E k \in DOMAIN r : r[k] = s[j]
    BY <2>1, OthersRemain
  <2> HIDE DEF r
  <2>5. DOMAIN r = 1..(Len(s) - 1) /\ DOMAIN s = 1..Len(s) /\ i \in 1..Len(s)
    BY <2>1, <2>3
  <2>6. \A j \in DOMAIN s : j # i => s[j].id # id
    BY <2>1 DEF OnceEach
  <2>7. OnceEach(r)
    <3> SUFFICES ASSUME NEW k \in DOMAIN r, NEW m \in DOMAIN r, r[k].id = r[m].id PROVE k = m
      BY DEF OnceEach
    <3> DEFINE at(x) == IF x < i THEN x ELSE x + 1
    <3>1. at(k) \in DOMAIN s /\ r[k] = s[at(k)] /\ at(m) \in DOMAIN s /\ r[m] = s[at(m)]
      BY <2>3, <2>5
    <3>2. at(k) = at(m)
      <4> HIDE DEF at
      <4> QED
        BY <3>1 DEF OnceEach
    <3> QED
      BY <2>5, <3>2
  <2>8. Len(r) <= Len(s)
    BY <2>3
  <2> QED
    <3>1. \A k \in DOMAIN r : r[k].id # id /\ \E j \in DOMAIN s : r[k] = s[j]
      BY <2>4, <2>6
    <3>2. \A j \in DOMAIN s : s[j].id # id => \E k \in DOMAIN r : r[k] = s[j]
      BY <2>1, <2>4
    <3> QED
      BY <2>2, <2>3, <2>7, <2>8, <3>1, <3>2
<1> QED
  BY <1>1, <1>2

LEMMA NotesTypes ==
    ASSUME NotesTyped
    PROVE  /\ notes.next_id \in Nat /\ notes.pixmaps \in [Notes -> Nat] /\ notes.chan \in Seq(NoteEvents)
           /\ notes.list \in Seq(NoteEvents) /\ notes.closed \in SUBSET Notes /\ notes.n \in Nat
           /\ notes.evicted \in SUBSET Notes /\ notes.crossed \in SUBSET Notes
           /\ \A id \in Notes : notes.pixmaps[id] \in Nat /\ id \in Nat /\ id # 0
           /\ \A i \in DOMAIN notes.list : notes.list[i] \in NoteEvents /\ notes.list[i].id \in Notes
           /\ \A i \in DOMAIN notes.chan : notes.chan[i] \in NoteEvents /\ notes.chan[i].id \in Notes
<1>1. /\ notes.next_id \in Nat /\ notes.pixmaps \in [Notes -> Nat] /\ notes.chan \in Seq(NoteEvents)
      /\ notes.list \in Seq(NoteEvents) /\ notes.closed \in SUBSET Notes /\ notes.n \in Nat
      /\ notes.evicted \in SUBSET Notes /\ notes.crossed \in SUBSET Notes
  BY DEF NotesTyped, NotesStates
<1>2. \A id \in Notes : notes.pixmaps[id] \in Nat /\ id \in Nat /\ id # 0
  BY <1>1, ServicesAssumption
<1>3. \A x \in NoteEvents : x.id \in Notes
  BY DEF NoteEvents
<1>4. \A i \in DOMAIN notes.list : notes.list[i] \in NoteEvents
  BY <1>1
<1>5. \A i \in DOMAIN notes.chan : notes.chan[i] \in NoteEvents
  BY <1>1
<1> QED
  BY <1>1, <1>2, <1>3, <1>4, <1>5

LEMMA NotesPrimed ==
    ASSUME NotesTyped', NotesSound(notes')
    PROVE  NotesInv'
  BY DEF NotesInv, NotesSound, OnceEach, Stands, Awaited

LEMMA NotifyStep ==
    ASSUME NotesInv, NEW r \in 0..(notes.next_id - 1), NEW has_image \in BOOLEAN, V!Notify(r, has_image)
    PROVE  NotesInv'
<1> DEFINE id == IF r > 0 THEN r ELSE notes.next_id
           n == notes.n + 1
           next == IF r > 0 THEN notes.next_id ELSE notes.next_id + 1
           x == [kind |-> "notify", id |-> id, n |-> n, image |-> has_image]
           pixmaps == [notes.pixmaps EXCEPT ![id] = IF has_image THEN n ELSE notes.pixmaps[id]]
           queue == Append(notes.chan, x)
           closed == notes.closed \ {id}
<1>1. NotesTyped /\ notes.n \in Nat /\ notes.next_id \in Nat /\ n \in Nat /\ next \in Nat
      /\ id \in Notes /\ id \in Nat /\ notes.pixmaps \in [Notes -> Nat] /\ notes.pixmaps[id] \in Nat
  <2>1. NotesTyped
    BY DEF NotesInv
  <2>2. id \in Notes
    BY DEF V!Notify
  <2>3. notes.n \in Nat /\ notes.next_id \in Nat /\ notes.pixmaps \in [Notes -> Nat] /\ notes.pixmaps[id] \in Nat /\ id \in Nat
    BY <2>1, <2>2, NotesTypes
  <2> QED
    BY <2>1, <2>2, <2>3
<1>2. notes' = [notes EXCEPT !.n = n, !.next_id = next, !.pixmaps = pixmaps, !.closed = closed, !.chan = queue]
  BY <1>1 DEF V!Notify, NotesTyped, NotesStates
<1>3. /\ x \in NoteEvents /\ x.kind = "notify" /\ x.id = id /\ x.n = n /\ x.image = has_image
  BY <1>1 DEF NoteEvents
<1>4. \A i \in 1..(next - 1) : i = id \/ i \in 1..(notes.next_id - 1)
  BY <1>1
<1> HIDE DEF id, x, next
<1>5. /\ pixmaps \in [Notes -> Nat] /\ \A i \in Notes \ {id} : pixmaps[i] = notes.pixmaps[i]
      /\ pixmaps[id] = (IF has_image THEN n ELSE notes.pixmaps[id])
  BY <1>1
<1>6. /\ queue \in Seq(NoteEvents) /\ DOMAIN queue = DOMAIN notes.chan \cup {Len(notes.chan) + 1}
      /\ queue[Len(notes.chan) + 1] = x
      /\ \A i \in DOMAIN notes.chan : queue[i] = notes.chan[i]
  BY <1>1, <1>3, NotesTypes, Grown, SMTT(30)
<1>7. closed \in SUBSET Notes /\ closed = notes.closed \ {id}
  BY <1>1, NotesTypes
<1> HIDE DEF pixmaps, queue, closed
<1>8. /\ NotesTyped' /\ notes'.n = n /\ notes'.next_id = next /\ notes'.pixmaps = pixmaps /\ notes'.closed = closed
      /\ notes'.chan = queue /\ notes'.list = notes.list /\ notes'.evicted = notes.evicted
      /\ notes'.crossed = notes.crossed
  <2> HIDE DEF n
  <2> QED
    BY <1>1, <1>2, <1>5, <1>6, <1>7 DEF NotesTyped, NotesStates
<1>9. \A i \in Notes : notes.pixmaps[i] <= pixmaps[i] /\ pixmaps[i] <= n
  <2>1. \A i \in Notes : notes.pixmaps[i] <= notes.n /\ notes.pixmaps[i] \in Nat
    BY <1>1, NotesTypes DEF NotesInv, NotesSound
  <2> QED
    BY <1>1, <1>5, <2>1
<1>10. ASSUME NEW y \in NoteEvents, Stands(y, notes) PROVE Stands(y, notes')
  <2>1. y.id \in Notes /\ y.n \in Nat
    BY <1>10 DEF NoteEvents
  <2>2. notes.pixmaps[y.id] \in Nat /\ pixmaps[y.id] \in Nat
    BY <1>1, <1>5, <2>1
  <2>3. notes.pixmaps[y.id] >= y.n => pixmaps[y.id] >= y.n
    BY <1>9, <2>1, <2>2
  <2> QED
    BY <1>7, <1>8, <1>10, <2>3 DEF Stands
<1>11. Stands(x, notes')
  <2>1. x.image => pixmaps[x.id] >= x.n
    BY <1>1, <1>3, <1>5
  <2> QED
    BY <1>3, <1>7, <1>8, <2>1 DEF Stands
<1>12. \A i \in DOMAIN notes'.list : Stands(notes'.list[i], notes')
  BY <1>1, <1>8, <1>10, NotesTypes DEF NotesInv, NotesSound
<1>13. \A i \in DOMAIN notes'.chan : notes'.chan[i].kind = "notify" => Stands(notes'.chan[i], notes')
  BY <1>1, <1>6, <1>8, <1>10, <1>11, NotesTypes DEF NotesInv, NotesSound
<1>14. \A i : Awaited(notes.chan, i) => Awaited(queue, i)
  BY <1>6 DEF Awaited
<1>15. Awaited(queue, id)
  BY <1>3, <1>6 DEF Awaited
<1>16. ASSUME NEW i \in 1..(notes'.next_id - 1), ~V!Listed(notes'.list, i), ~Awaited(notes'.chan, i), i \notin notes'.evicted
       PROVE  i \in notes'.closed /\ notes'.pixmaps[i] = 0
  <2>1. i # id /\ i \in 1..(notes.next_id - 1) /\ ~Awaited(notes.chan, i)
    BY <1>4, <1>8, <1>14, <1>15, <1>16
  <2>2. i \in notes.closed /\ notes.pixmaps[i] = 0
    BY <1>8, <1>16, <2>1 DEF NotesInv, NotesSound
  <2> QED
    BY <1>1, <1>5, <1>7, <1>8, <2>1, <2>2, NotesTypes
<1>17. NotesSound(notes')
  <2>1. Len(notes'.list) <= NoteLimit /\ OnceEach(notes'.list)
    BY <1>8 DEF NotesInv, NotesSound
  <2>2. \A i \in Notes : notes'.pixmaps[i] <= notes'.n
    BY <1>8, <1>9
  <2> QED
    BY <1>12, <1>13, <1>16, <2>1, <2>2 DEF NotesSound
<1> QED
  BY <1>8, <1>17, NotesPrimed

LEMMA CloseCallStep ==
    ASSUME NotesInv, NEW id \in Notes, V!CloseCall(id)
    PROVE  NotesInv'
<1> DEFINE x == [kind |-> "closed", id |-> id, n |-> 0, image |-> FALSE]
           queue == Append(notes.chan, x)
<1>1. NotesTyped /\ notes.chan \in Seq(NoteEvents)
  BY NotesTypes DEF NotesInv
<1>2. x \in NoteEvents /\ x.kind = "closed"
  BY DEF NoteEvents
<1>3. notes' = [notes EXCEPT !.chan = queue]
  BY DEF V!CloseCall
<1> HIDE DEF x
<1>4. /\ queue \in Seq(NoteEvents) /\ DOMAIN queue = DOMAIN notes.chan \cup {Len(notes.chan) + 1}
      /\ queue[Len(notes.chan) + 1] = x
      /\ \A i \in DOMAIN notes.chan : queue[i] = notes.chan[i]
  BY <1>1, <1>2, Grown
<1> HIDE DEF queue
<1>5. /\ NotesTyped' /\ notes'.n = notes.n /\ notes'.next_id = notes.next_id /\ notes'.pixmaps = notes.pixmaps
      /\ notes'.closed = notes.closed /\ notes'.chan = queue /\ notes'.list = notes.list
      /\ notes'.evicted = notes.evicted /\ notes'.crossed = notes.crossed
  BY <1>1, <1>3, <1>4 DEF NotesTyped, NotesStates
<1>6. \A y : Stands(y, notes) => Stands(y, notes')
  BY <1>5 DEF Stands
<1>7. \A i : Awaited(notes.chan, i) => Awaited(queue, i)
  BY <1>4 DEF Awaited
<1>8. NotesSound(notes')
  BY <1>2, <1>4, <1>5, <1>6, <1>7 DEF NotesInv, NotesSound
<1> QED
  BY <1>5, <1>8, NotesPrimed

\* One is closed; what is said of it in the channel, other than its closing,
\* makes it one that was crossed.
LEMMA Closes ==
    ASSUME NotesInv, NEW id \in Notes, NEW queue \in Seq(NoteEvents),
           \A i : Awaited(queue, i) <=> Awaited(notes.chan, i),
           \A i \in DOMAIN queue : \E j \in DOMAIN notes.chan : queue[i] = notes.chan[j],
           NEW pixmaps \in [Notes -> Nat], pixmaps = [notes.pixmaps EXCEPT ![id] = 0],
           NEW crossed \in SUBSET Notes,
           crossed = IF Awaited(notes.chan, id) THEN notes.crossed \cup {id} ELSE notes.crossed,
           notes' = [notes EXCEPT !.list = V!Off(notes.list, id), !.pixmaps = pixmaps,
                                  !.closed = notes.closed \cup {id}, !.crossed = crossed, !.chan = queue]
    PROVE  NotesInv'
<1> DEFINE s == V!Off(notes.list, id)
<1>1. NotesTyped /\ notes.list \in Seq(NoteEvents) /\ OnceEach(notes.list) /\ notes.closed \in SUBSET Notes
      /\ notes.n \in Nat
  BY NotesTypes DEF NotesInv, NotesSound
<1>2. /\ s \in Seq(NoteEvents) /\ Len(s) <= Len(notes.list) /\ OnceEach(s)
      /\ \A k \in DOMAIN s : s[k].id # id /\ \E j \in DOMAIN notes.list : s[k] = notes.list[j]
      /\ \A j \in DOMAIN notes.list : notes.list[j].id # id => \E k \in DOMAIN s : s[k] = notes.list[j]
  BY <1>1, OffIs, SMTT(30)
<1> HIDE DEF s
<1>3. /\ NotesTyped' /\ notes'.n = notes.n /\ notes'.next_id = notes.next_id /\ notes'.pixmaps = pixmaps
      /\ notes'.closed = notes.closed \cup {id} /\ notes'.chan = queue /\ notes'.list = s
      /\ notes'.evicted = notes.evicted /\ notes'.crossed = crossed
  <2>1. notes' = [notes EXCEPT !.list = s, !.pixmaps = pixmaps,
                               !.closed = notes.closed \cup {id}, !.crossed = crossed, !.chan = queue]
    BY DEF s
  <2>2. notes.closed \cup {id} \in SUBSET Notes
    BY <1>1
  <2> QED
    BY <1>1, <1>2, <2>1, <2>2, ZenonT(60) DEF NotesTyped, NotesStates
<1>4. /\ pixmaps[id] = 0 /\ \A i \in Notes \ {id} : pixmaps[i] = notes.pixmaps[i]
  BY <1>1, NotesTypes
<1>5. ASSUME NEW y \in NoteEvents, y.id # id, Stands(y, notes) PROVE Stands(y, notes')
  <2>1. y.id \in Notes
    BY DEF NoteEvents
  <2> QED
    BY <1>3, <1>4, <1>5, <2>1 DEF Stands
<1>6. \A i \in DOMAIN notes'.list : Stands(notes'.list[i], notes')
  <2> SUFFICES ASSUME NEW i \in DOMAIN s PROVE Stands(s[i], notes')
    BY <1>3
  <2>1. PICK j \in DOMAIN notes.list : s[i] = notes.list[j]
    BY <1>2
  <2>2. s[i].id # id /\ s[i] \in NoteEvents
    BY <1>1, <1>2, <2>1, NotesTypes
  <2> QED
    BY <1>5, <2>1, <2>2 DEF NotesInv, NotesSound
<1>7. \A i \in DOMAIN notes'.chan : notes'.chan[i].kind = "notify" => Stands(notes'.chan[i], notes')
  <2> SUFFICES ASSUME NEW i \in DOMAIN queue, queue[i].kind = "notify" PROVE Stands(queue[i], notes')
    BY <1>3
  <2>1. PICK j \in DOMAIN notes.chan : queue[i] = notes.chan[j]
    OBVIOUS
  <2>2. CASE queue[i].id = id
    <3>1. Awaited(notes.chan, id)
      BY <2>1, <2>2 DEF Awaited
    <3> QED
      BY <1>3, <2>2, <3>1 DEF Stands
  <2>3. CASE queue[i].id # id
    BY <1>1, <1>5, <2>1, <2>3, NotesTypes DEF NotesInv, NotesSound
  <2> QED
    BY <2>2, <2>3
<1>8. \A i \in Notes : notes'.pixmaps[i] <= notes'.n
  BY <1>1, <1>3, <1>4 DEF NotesInv, NotesSound
<1>9. ASSUME NEW i \in 1..(notes'.next_id - 1), ~V!Listed(notes'.list, i), ~Awaited(notes'.chan, i), i \notin notes'.evicted
      PROVE  i \in notes'.closed /\ notes'.pixmaps[i] = 0
  <2>1. CASE i = id
    BY <1>3, <1>4, <2>1
  <2>2. CASE i # id
    <3>1. ~V!Listed(notes.list, i)
      BY <1>2, <1>3, <1>9, <2>2 DEF V!Listed
    <3>2. i \in notes.closed /\ notes.pixmaps[i] = 0
      BY <1>3, <1>9, <3>1 DEF NotesInv, NotesSound
    <3> QED
      BY <1>1, <1>3, <1>4, <2>2, <3>2
  <2> QED
    BY <2>1, <2>2
<1>10. Len(notes'.list) <= NoteLimit /\ OnceEach(notes'.list)
  <2>1. Len(notes.list) <= NoteLimit /\ Len(notes.list) \in Nat /\ Len(s) \in Nat /\ NoteLimit \in Nat
    BY <1>1, <1>2, ServicesAssumption DEF NotesInv, NotesSound
  <2> QED
    BY <1>2, <1>3, <2>1
<1>11. NotesSound(notes')
  BY <1>6, <1>7, <1>8, <1>9, <1>10 DEF NotesSound
<1> QED
  BY <1>3, <1>11, NotesPrimed

LEMMA ClosingTypes ==
    ASSUME NotesTyped, NEW id \in Notes
    PROVE  /\ [notes.pixmaps EXCEPT ![id] = 0] \in [Notes -> Nat]
           /\ (IF Awaited(notes.chan, id) THEN notes.crossed \cup {id} ELSE notes.crossed) \in SUBSET Notes
           /\ V!OnItsWay(id) <=> Awaited(notes.chan, id)
  BY NotesTypes DEF V!OnItsWay, Awaited

LEMMA DismissNoteStep ==
    ASSUME NotesInv, NEW id \in Notes, V!DismissNote(id)
    PROVE  NotesInv'
<1> DEFINE pixmaps == [notes.pixmaps EXCEPT ![id] = 0]
           crossed == IF Awaited(notes.chan, id) THEN notes.crossed \cup {id} ELSE notes.crossed
<1>1. NotesTyped /\ notes.chan \in Seq(NoteEvents)
  BY NotesTypes DEF NotesInv
<1>2. pixmaps \in [Notes -> Nat] /\ crossed \in SUBSET Notes
  BY <1>1, ClosingTypes
<1>3. notes' = [notes EXCEPT !.list = V!Off(notes.list, id), !.pixmaps = pixmaps,
                             !.closed = notes.closed \cup {id}, !.crossed = crossed, !.chan = notes.chan]
  BY <1>1, ClosingTypes DEF V!DismissNote, V!CloseNotification, NotesTyped, NotesStates
<1> HIDE DEF pixmaps, crossed
<1> QED
  BY <1>1, <1>2, <1>3, Closes DEF pixmaps, crossed

\* The newest of a list stay.
LEMMA NewestStay ==
    ASSUME NEW T, NEW q \in Seq(T), NEW e \in Nat, e <= Len(q)
    PROVE  /\ SubSeq(q, e + 1, Len(q)) \in Seq(T) /\ Len(SubSeq(q, e + 1, Len(q))) = Len(q) - e
           /\ \A i \in 1..(Len(q) - e) : i + e \in 1..Len(q) /\ i + e \in DOMAIN q
                                         /\ SubSeq(q, e + 1, Len(q))[i] = q[i + e]
           /\ \A j \in DOMAIN q : j \in 1..e \/ (j - e \in 1..(Len(q) - e) /\ (j - e) + e = j)
           /\ 1..e \subseteq DOMAIN q
<1>1. Len(q) \in Nat /\ DOMAIN q = 1..Len(q) /\ e \in Nat /\ e <= Len(q) /\ \A i \in DOMAIN q : q[i] \in T
  OBVIOUS
<1>2. SubSeq(q, e + 1, Len(q)) \in Seq(T) /\ Len(SubSeq(q, e + 1, Len(q))) = Len(q) - e
  <2> DEFINE m == e + 1
             n == Len(q)
  <2>0. n \in Nat /\ DOMAIN q = 1..n /\ e \in Nat /\ e <= n /\ m = e + 1 /\ \A i \in DOMAIN q : q[i] \in T
    BY <1>1
  <2> HIDE DEF m, n
  <2>1. m \in Int /\ n \in Int /\ n - m + 1 = n - e /\ (m <= n \/ n - e = 0)
    BY ONLY <2>0
  <2>2. \A i \in m..n : q[i] \in T
    BY ONLY <2>0
  <2>3. SubSeq(q, m, n) \in Seq(T) /\ Len(SubSeq(q, m, n)) = IF m <= n THEN n - m + 1 ELSE 0
    BY <2>1, <2>2, SubSeqProperties
  <2>4. SubSeq(q, m, n) \in Seq(T) /\ Len(SubSeq(q, m, n)) = n - e
    BY <2>1, <2>3
  <2> QED
    BY <2>4, SMTT(30) DEF m, n
<1>3. \A i \in 1..(Len(q) - e) : i + e \in 1..Len(q)
  BY <1>1
<1>4. \A i \in 1..(Len(q) - e) : SubSeq(q, e + 1, Len(q))[i] = q[i + e]
  BY <1>1
<1>5. \A j \in 1..Len(q) : j \in 1..e \/ (j - e \in 1..(Len(q) - e) /\ (j - e) + e = j)
  BY <1>1
<1>6. 1..e \subseteq 1..Len(q)
  BY <1>1
<1> QED
  BY <1>1, <1>2, <1>3, <1>4, <1>5, <1>6

LEMMA NotesHearStep ==
    ASSUME NotesInv, V!NotesHear
    PROVE  NotesInv'
<1> DEFINE e == Head(notes.chan)
           rest == Tail(notes.chan)
           s == [notes EXCEPT !.chan = Tail(@)]
           full == Append(V!Off(s.list, e.id), e)
           excess == IF Len(full) > NoteLimit THEN Len(full) - NoteLimit ELSE 0
           dropped == {full[i].id : i \in 1..excess}
<1>1. /\ NotesTyped /\ notes.chan \in Seq(NoteEvents) /\ notes.chan # <<>> /\ notes.list \in Seq(NoteEvents)
      /\ OnceEach(notes.list) /\ notes.evicted \in SUBSET Notes /\ notes.pixmaps \in [Notes -> Nat]
  BY NotesTypes DEF NotesInv, NotesSound, V!NotesHear
<1>2. /\ rest \in Seq(NoteEvents) /\ e = notes.chan[1] /\ 1 \in DOMAIN notes.chan /\ e \in NoteEvents
      /\ \A i \in DOMAIN rest : i \in Int /\ i + 1 \in DOMAIN notes.chan /\ rest[i] = notes.chan[i + 1]
      /\ \A i \in DOMAIN notes.chan :
            i = 1 \/ (i \in Int /\ i > 1 /\ i - 1 \in DOMAIN rest /\ rest[i - 1] = notes.chan[i])
  BY <1>1, Taken
<1>3. s.list = notes.list /\ s.pixmaps = notes.pixmaps /\ s.closed = notes.closed /\ s.crossed = notes.crossed
      /\ s.evicted = notes.evicted
  BY <1>1 DEF NotesTyped, NotesStates
<1>4. e.id \in Notes
  BY <1>2 DEF NoteEvents
<1>5. notes' = IF e.kind = "closed" THEN [V!CloseNotification(s, e.id) EXCEPT !.chan = Tail(notes.chan)]
               ELSE [s EXCEPT !.list = SubSeq(full, excess + 1, Len(full)),
                              !.evicted = (@ \ {e.id}) \cup dropped]
  BY DEF V!NotesHear
<1>6. ASSUME NEW i PROVE Awaited(rest, i) => Awaited(notes.chan, i)
  BY <1>2 DEF Awaited
<1>7. ASSUME NEW i, Awaited(notes.chan, i), e.kind # "notify" \/ e.id # i PROVE Awaited(rest, i)
  <2>1. PICK j \in DOMAIN notes.chan : notes.chan[j].kind = "notify" /\ notes.chan[j].id = i
    BY <1>7 DEF Awaited
  <2>2. j - 1 \in DOMAIN rest /\ rest[j - 1] = notes.chan[j]
    BY <1>2, <1>7, <2>1
  <2> QED
    BY <2>1, <2>2 DEF Awaited
<1>8. CASE e.kind = "closed"
  <2> DEFINE pixmaps == [notes.pixmaps EXCEPT ![e.id] = 0]
             crossed == IF Awaited(notes.chan, e.id) THEN notes.crossed \cup {e.id} ELSE notes.crossed
  <2>1. pixmaps \in [Notes -> Nat] /\ crossed \in SUBSET Notes
    BY <1>1, <1>4, ClosingTypes
  <2>2. notes' = [V!CloseNotification(s, e.id) EXCEPT !.chan = rest]
    BY <1>5, <1>8
  <2>3. V!OnItsWay(e.id) <=> Awaited(notes.chan, e.id)
    BY <1>1, <1>4, ClosingTypes
  <2> HIDE DEF e
  <2>4. notes' = [notes EXCEPT !.list = V!Off(notes.list, e.id), !.pixmaps = pixmaps,
                               !.closed = notes.closed \cup {e.id}, !.crossed = crossed, !.chan = rest]
    BY <1>1, <1>3, <2>2, <2>3 DEF V!CloseNotification, NotesTyped, NotesStates
  <2>5. \A i : Awaited(rest, i) <=> Awaited(notes.chan, i)
    BY <1>6, <1>7, <1>8
  <2>6. \A i \in DOMAIN rest : \E j \in DOMAIN notes.chan : rest[i] = notes.chan[j]
    BY <1>2
  <2> HIDE DEF pixmaps, crossed, rest
  <2> QED
    BY <1>2, <1>4, <2>1, <2>4, <2>5, <2>6, Closes DEF pixmaps, crossed
<1>9. CASE e.kind # "closed"
  <2> DEFINE list1 == SubSeq(full, excess + 1, Len(full))
             evicted == (notes.evicted \ {e.id}) \cup dropped
             off == V!Off(notes.list, e.id)
  <2>1. e.kind = "notify"
    BY <1>2, <1>9 DEF NoteEvents
  <2>2. full = Append(off, e)
    BY <1>3
  <2>3. notes' = [notes EXCEPT !.chan = rest, !.list = list1, !.evicted = evicted]
    <3>1. notes' = [s EXCEPT !.list = list1, !.evicted = (s.evicted \ {e.id}) \cup dropped]
      <4>1. notes' = [s EXCEPT !.list = list1, !.evicted = (@ \ {e.id}) \cup dropped]
        BY <1>5, <1>9
      <4> HIDE DEF list1, dropped, e, rest
      <4> QED
        BY <1>1, <4>1, SMTT(30) DEF NotesTyped, NotesStates
    <3> HIDE DEF list1, dropped, e
    <3> QED
      BY <1>3, <3>1
  <2> HIDE DEF e, rest, s, full
  <2>4. /\ off \in Seq(NoteEvents) /\ Len(off) <= Len(notes.list) /\ OnceEach(off)
        /\ \A k \in DOMAIN off : off[k].id # e.id /\ \E j \in DOMAIN notes.list : off[k] = notes.list[j]
        /\ \A j \in DOMAIN notes.list : notes.list[j].id # e.id => \E k \in DOMAIN off : off[k] = notes.list[j]
    BY <1>1, OffIs
  <2> HIDE DEF off
  <2>5. /\ full \in Seq(NoteEvents) /\ DOMAIN full = DOMAIN off \cup {Len(off) + 1}
        /\ full[Len(off) + 1] = e
        /\ \A i \in DOMAIN off : full[i] = off[i] /\ i < Len(off) + 1
        /\ Len(full) \in Nat /\ Len(full) = Len(off) + 1 /\ Len(off) \in Nat
    <3>1. full \in Seq(NoteEvents) /\ Len(full) \in Nat /\ Len(full) = Len(off) + 1 /\ Len(off) \in Nat
      BY <1>2, <2>2, <2>4
    <3> QED
      BY <1>2, <2>2, <2>4, <3>1, Grown
  <2>6. excess \in Nat /\ excess <= Len(full) /\ Len(full) - excess <= NoteLimit
    BY <2>5, ServicesAssumption
  <2> HIDE DEF excess
  <2>7. /\ list1 \in Seq(NoteEvents) /\ Len(list1) = Len(full) - excess /\ DOMAIN list1 = 1..(Len(full) - excess)
        /\ \A i \in DOMAIN list1 : i \in Int /\ i + excess \in DOMAIN full /\ list1[i] = full[i + excess]
        /\ \A j \in DOMAIN full : j \in 1..excess \/ (j - excess \in DOMAIN list1 /\ list1[j - excess] = full[j])
        /\ 1..excess \subseteq DOMAIN full
    <3>1. /\ list1 \in Seq(NoteEvents) /\ Len(list1) = Len(full) - excess
          /\ \A i \in 1..(Len(full) - excess) : i + excess \in DOMAIN full /\ list1[i] = full[i + excess]
          /\ \A j \in DOMAIN full :
                j \in 1..excess \/ (j - excess \in 1..(Len(full) - excess) /\ (j - excess) + excess = j)
          /\ 1..excess \subseteq DOMAIN full
      <4>1. full \in Seq(NoteEvents) /\ excess \in Nat /\ excess <= Len(full)
        BY <2>5, <2>6
      <4>2. list1 = SubSeq(full, excess + 1, Len(full))
        OBVIOUS
      <4> HIDE DEF list1
      <4> QED
        BY ONLY <4>1, <4>2, NewestStay
    <3> HIDE DEF list1
    <3>2. DOMAIN list1 = 1..(Len(full) - excess)
      BY <2>5, <2>6, <3>1
    <3>3. \A i \in DOMAIN list1 : i \in Int /\ i + excess \in DOMAIN full /\ list1[i] = full[i + excess]
      BY <3>1, <3>2
    <3>4. ASSUME NEW j \in DOMAIN full, j \notin 1..excess
          PROVE  j - excess \in DOMAIN list1 /\ list1[j - excess] = full[j]
      <4>1. j - excess \in 1..(Len(full) - excess) /\ (j - excess) + excess = j
        BY <3>1, <3>4
      <4> QED
        BY <3>1, <3>2, <4>1
    <3> QED
      BY <3>1, <3>2, <3>3, <3>4
  <2> HIDE DEF list1
  <2>8. evicted \in SUBSET Notes
    <3>1. \A i \in DOMAIN full : full[i] \in NoteEvents
      BY <2>5
    <3>2. \A i \in 1..excess : full[i].id \in Notes
      BY <2>7, <3>1 DEF NoteEvents
    <3> QED
      BY <1>1, <3>2
  <2>9. \A i \in 1..excess : full[i].id \in evicted
    OBVIOUS
  <2>10. \A i : i \in notes.evicted /\ i # e.id => i \in evicted
    OBVIOUS
  <2> HIDE DEF evicted, dropped
  <2>11. /\ NotesTyped' /\ notes'.n = notes.n /\ notes'.next_id = notes.next_id /\ notes'.pixmaps = notes.pixmaps
         /\ notes'.closed = notes.closed /\ notes'.chan = rest /\ notes'.list = list1
         /\ notes'.evicted = evicted /\ notes'.crossed = notes.crossed
    BY <1>1, <1>2, <2>3, <2>7, <2>8 DEF NotesTyped, NotesStates
  <2>12. \A y : Stands(y, notes) => Stands(y, notes')
    BY <2>11 DEF Stands
  <2>13. \A j \in DOMAIN full : Stands(full[j], notes)
    <3>1. Stands(e, notes)
      BY <1>2, <2>1 DEF NotesInv, NotesSound
    <3>2. \A k \in DOMAIN off : Stands(off[k], notes)
      BY <2>4 DEF NotesInv, NotesSound
    <3> QED
      BY <2>5, <3>1, <3>2
  <2>14. OnceEach(full)
    <3> SUFFICES ASSUME NEW i \in DOMAIN full, NEW j \in DOMAIN full, full[i].id = full[j].id PROVE i = j
      BY DEF OnceEach
    <3>1. CASE i \in DOMAIN off /\ j \in DOMAIN off
      BY <2>4, <2>5, <3>1 DEF OnceEach
    <3>2. CASE ~(i \in DOMAIN off /\ j \in DOMAIN off)
      BY <2>4, <2>5, <3>2
    <3> QED
      BY <3>1, <3>2
  <2>15. OnceEach(list1)
    <3> SUFFICES ASSUME NEW i \in DOMAIN list1, NEW j \in DOMAIN list1, list1[i].id = list1[j].id PROVE i = j
      BY DEF OnceEach
    <3>1. i + excess = j + excess
      BY <2>7, <2>14 DEF OnceEach
    <3> QED
      BY <2>6, <2>7, <3>1
  <2>16. \A i \in DOMAIN list1 : Stands(list1[i], notes')
    BY <2>7, <2>12, <2>13
  <2>17. \A i \in DOMAIN rest : rest[i].kind = "notify" => Stands(rest[i], notes')
    BY <1>2, <2>12 DEF NotesInv, NotesSound
  <2>18. ASSUME NEW i \in 1..(notes.next_id - 1), ~V!Listed(list1, i), ~Awaited(rest, i), i \notin evicted
         PROVE  i \in notes.closed /\ notes.pixmaps[i] = 0
    <3>1. \A j \in DOMAIN full : full[j].id # i
      BY <2>7, <2>9, <2>18 DEF V!Listed
    <3>2. i # e.id
      BY <2>5, <3>1
    <3>3. ~V!Listed(notes.list, i)
      <4> SUFFICES ASSUME NEW j \in DOMAIN notes.list, notes.list[j].id = i PROVE FALSE
        BY DEF V!Listed
      <4>1. PICK k \in DOMAIN off : off[k] = notes.list[j]
        BY <2>4, <3>2
      <4>2. k \in DOMAIN full /\ full[k] = off[k]
        BY <2>5
      <4> QED
        BY <3>1, <4>1, <4>2
    <3>4. ~Awaited(notes.chan, i) /\ i \notin notes.evicted
      BY <1>7, <2>10, <2>18, <3>2
    <3> QED
      BY <3>3, <3>4 DEF NotesInv, NotesSound
  <2>19. NotesSound(notes')
    <3>1. Len(notes'.list) <= NoteLimit
      BY <2>6, <2>7, <2>11
    <3>2. \A i \in Notes : notes'.pixmaps[i] <= notes'.n
      BY <2>11 DEF NotesInv, NotesSound
    <3> QED
      BY <2>11, <2>15, <2>16, <2>17, <2>18, <3>1, <3>2 DEF NotesSound
  <2> QED
    BY <2>11, <2>19, NotesPrimed
<1> QED
  BY <1>8, <1>9

LEMMA ClearNotesStep ==
    ASSUME NotesInv, V!ClearNotes
    PROVE  NotesInv'
<1> DEFINE ids == {notes.list[i].id : i \in DOMAIN notes.list}
           pixmaps == [id \in Notes |-> IF id \in ids THEN 0 ELSE notes.pixmaps[id]]
           crossed == notes.crossed \cup {id \in ids : V!OnItsWay(id)}
           closed == notes.closed \cup ids
<1>1. /\ NotesTyped /\ notes.pixmaps \in [Notes -> Nat] /\ notes.crossed \in SUBSET Notes
      /\ notes.closed \in SUBSET Notes /\ notes.n \in Nat
      /\ \A id \in Notes : notes.pixmaps[id] \in Nat
  BY NotesTypes DEF NotesInv
<1>2. ids \subseteq Notes
  BY <1>1, NotesTypes
<1>3. \A i : V!Listed(notes.list, i) => i \in ids
  BY DEF V!Listed
<1>4. notes' = [notes EXCEPT !.list = <<>>, !.pixmaps = pixmaps, !.closed = closed, !.crossed = crossed]
  BY <1>1 DEF V!ClearNotes, NotesTyped, NotesStates
<1> HIDE DEF ids
<1>5. /\ pixmaps \in [Notes -> Nat] /\ crossed \in SUBSET Notes /\ closed \in SUBSET Notes
      /\ <<>> \in Seq(NoteEvents)
  BY <1>1, <1>2
<1>6. \A i \in Notes : pixmaps[i] = IF i \in ids THEN 0 ELSE notes.pixmaps[i]
  OBVIOUS
<1>7. /\ \A i : i \in closed <=> i \in notes.closed \/ i \in ids
      /\ \A i : i \in notes.crossed => i \in crossed
      /\ \A i : i \in ids /\ Awaited(notes.chan, i) => i \in crossed
  BY DEF V!OnItsWay, Awaited
<1> HIDE DEF pixmaps, crossed, closed
<1>8. /\ NotesTyped' /\ notes'.n = notes.n /\ notes'.next_id = notes.next_id /\ notes'.pixmaps = pixmaps
      /\ notes'.closed = closed /\ notes'.chan = notes.chan /\ notes'.list = <<>>
      /\ notes'.evicted = notes.evicted /\ notes'.crossed = crossed
  BY <1>1, <1>4, <1>5 DEF NotesTyped, NotesStates
<1>9. \A i \in DOMAIN notes'.chan : notes'.chan[i].kind = "notify" => Stands(notes'.chan[i], notes')
  <2> SUFFICES ASSUME NEW i \in DOMAIN notes.chan, notes.chan[i].kind = "notify" PROVE Stands(notes.chan[i], notes')
    BY <1>8
  <2> DEFINE y == notes.chan[i]
  <2>1. Stands(y, notes) /\ Awaited(notes.chan, y.id) /\ y.id \in Notes
    BY <1>1, NotesTypes DEF NotesInv, NotesSound, Awaited
  <2> HIDE DEF y
  <2>2. Stands(y, notes')
    <3>1. CASE y.id \in ids
      BY <1>7, <1>8, <2>1, <3>1 DEF Stands
    <3>2. CASE y.id \notin ids
      BY <1>6, <1>7, <1>8, <2>1, <3>2 DEF Stands
    <3> QED
      BY <3>1, <3>2
  <2> QED
    BY <2>2 DEF y
<1>10. Len(notes'.list) <= NoteLimit /\ DOMAIN notes'.list = {}
  BY <1>8, ServicesAssumption
<1>11. \A i \in Notes : notes'.pixmaps[i] <= notes'.n
  BY <1>1, <1>6, <1>8 DEF NotesInv, NotesSound
<1>12. ASSUME NEW i \in 1..(notes'.next_id - 1), ~Awaited(notes'.chan, i), i \notin notes'.evicted
       PROVE  i \in notes'.closed /\ notes'.pixmaps[i] = 0
  <2>1. CASE i \in ids
    BY <1>2, <1>6, <1>7, <1>8, <2>1
  <2>2. CASE i \notin ids
    <3>1. i \in notes.closed /\ notes.pixmaps[i] = 0
      BY <1>3, <1>8, <1>12, <2>2 DEF NotesInv, NotesSound
    <3> QED
      BY <1>1, <1>6, <1>7, <1>8, <2>2, <3>1
  <2> QED
    BY <2>1, <2>2
<1>13. NotesSound(notes')
  BY <1>9, <1>10, <1>11, <1>12 DEF NotesSound, OnceEach
<1> QED
  BY <1>8, <1>13, NotesPrimed

LEMMA NotesStep ==
    ASSUME NotesInv, V!NotifyNext
    PROVE  NotesInv'
  BY NotifyStep, CloseCallStep, DismissNoteStep, NotesHearStep, ClearNotesStep DEF V!NotifyNext

LEMMA NotesFollow ==
    ASSUME NotesInv
    PROVE  V!NotesAreSound
  BY DEF NotesInv, NotesSound, OnceEach, Stands, Awaited, V!NotesAreSound, V!OnItsWay

-----------------------------------------------------------------------------
(* All of them. *)

LEMMA ServicesUnmoved ==
    /\ link' = link => (LinkInv <=> LinkInv')
    /\ layout' = layout => (LayoutInv <=> LayoutInv')
    /\ notes' = notes => (NotesInv <=> NotesInv')
    /\ login' = login => (LoginInv <=> LoginInv')
    /\ tray' = tray => (TrayInv <=> TrayInv')
    /\ helper' = helper => (HelperInv <=> HelperInv')
    /\ reading' = reading => (ReadingInv <=> ReadingInv')
    /\ instance' = instance => (InstanceInv <=> InstanceInv')
<1>1. ASSUME link' = link PROVE LinkInv <=> LinkInv'
  BY <1>1 DEF LinkInv, LinkTyped
<1>2. ASSUME layout' = layout PROVE LayoutInv <=> LayoutInv'
  BY <1>2 DEF LayoutInv, LayoutTyped
<1>3. ASSUME notes' = notes PROVE NotesInv <=> NotesInv'
  BY <1>3 DEF NotesInv, NotesTyped
<1>4. ASSUME login' = login PROVE LoginInv <=> LoginInv'
  BY <1>4 DEF LoginInv, LoginTyped, OneLogin, V!UnderWay, V!Busy
<1>5. ASSUME tray' = tray PROVE TrayInv <=> TrayInv'
  BY <1>5 DEF TrayInv, TrayTyped, WillShow
<1>6. ASSUME helper' = helper PROVE HelperInv <=> HelperInv'
  BY <1>6 DEF HelperInv, HelperTyped
<1>7. ASSUME reading' = reading PROVE ReadingInv <=> ReadingInv'
  BY <1>7 DEF ReadingInv, ReadingTyped, ReadingComes
<1>8. ASSUME instance' = instance PROVE InstanceInv <=> InstanceInv'
  BY <1>8 DEF InstanceInv, InstanceTyped, AtWork, Runs, Awaits
<1> QED
  BY <1>1, <1>2, <1>3, <1>4, <1>5, <1>6, <1>7, <1>8

LEMMA LinkInit ==
    ASSUME link = V!NewLink
    PROVE  LinkInv
<1>1. link \in Links
  BY NothingSaid DEF V!NewLink, Links, Values
<1>2. Ends(link) /\ Kinds(link) /\ Questions(link)
  BY NothingSaid DEF V!NewLink, Ends, Kinds, Questions
<1>3. IdleSaid(link) /\ IdleComes(link)
  BY NothingSaid DEF V!NewLink, IdleSaid, IdleComes
<1>4. HoldComes(link) /\ SceneComes(link) /\ BarComes(link)
  BY NothingSaid DEF V!NewLink, HoldComes, SceneComes, BarComes
<1> QED
  BY <1>1, <1>2, <1>3, <1>4 DEF LinkInv, LinkTyped, LinkSound

LEMMA LayoutInit ==
    ASSUME layout = V!NewLayout
    PROVE  LayoutInv
<1>1. layout \in LayoutStates
  BY DEF V!NewLayout, V!NewKeeper, V!DefaultLayout, V!Keepers, LayoutStates, KeeperStates, Layouts
<1>2. LayoutSound(layout)
  BY DEF V!NewLayout, V!NewKeeper, V!DefaultLayout, V!Keepers, LayoutSound, KeeperSound, Shows
<1> QED
  BY <1>1, <1>2 DEF LayoutInv, LayoutTyped

LEMMA NotesInit ==
    ASSUME notes = V!NewNotes
    PROVE  NotesInv
<1>1. <<>> \in Seq(NoteEvents) /\ DOMAIN <<>> = {} /\ Len(<<>>) = 0
  OBVIOUS
<1>2. notes \in NotesStates
  BY <1>1 DEF V!NewNotes, NotesStates
<1>3. /\ notes.list = <<>> /\ notes.chan = <<>> /\ notes.next_id = 1 /\ notes.n = 0
      /\ \A id \in Notes : notes.pixmaps[id] = 0
  BY DEF V!NewNotes
<1>4. NotesSound(notes)
  BY <1>1, <1>3, ServicesAssumption DEF NotesSound, OnceEach
<1> QED
  BY <1>2, <1>4 DEF NotesInv, NotesTyped

LEMMA LoginInit ==
    ASSUME login = V!NewLogin
    PROVE  LoginInv
<1>1. LoginTyped
  BY DEF V!NewLogin, LoginTyped, Sessions, LoginCalls
<1>2. \A c \in V!Calls : login.call[c].stage = "new"
  BY DEF V!NewLogin
<1>3. /\ login.greetd = [user |-> 0, stage |-> "none"] /\ login.greeter.user = 0 /\ login.saved = 0
  BY DEF V!NewLogin
<1>4. OneLogin
  BY <1>2, <1>3 DEF OneLogin, V!UnderWay, V!Busy
<1> QED
  BY <1>1, <1>4 DEF LoginInv

LEMMA ServicesInvInit == Init => ServicesInv
<1> SUFFICES ASSUME Init, working \in ServiceScenes
             PROVE  /\ LinkInv /\ LayoutInv /\ NotesInv /\ LoginInv
                    /\ TrayInv /\ HelperInv /\ ReadingInv /\ InstanceInv
  BY DEF ServicesInv
<1>1. /\ link = V!NewLink /\ layout = V!NewLayout /\ notes = V!NewNotes /\ login = V!NewLogin
      /\ tray = V!NewTray /\ helper = V!NewHelper /\ instance = V!NewInstance
      /\ \E kind \in V!Kinds : reading = [V!NewReading EXCEPT !.kind = kind]
  BY DEF Init, V!ServicesInit, V!Kinds
<1>2. TrayInv
  <2>1. <<>> \in Seq(Nat) /\ <<>> \in Seq({"Change", "Remove"})
    OBVIOUS
  <2> QED
    BY <1>1, <2>1 DEF V!NewTray, TrayInv, TrayTyped, Trays, WillShow, Coming
<1>3. HelperInv
  BY <1>1 DEF V!NewHelper, HelperInv, HelperTyped, V!Pages
<1>4. ReadingInv
  <2>1. <<>> \in Seq(Nat) /\ <<>> \in Seq(Nat \cup {-1}) /\ DOMAIN <<>> = {}
    OBVIOUS
  <2>2. PICK kind \in V!Kinds : reading = [V!NewReading EXCEPT !.kind = kind]
    BY <1>1
  <2>3. /\ reading.kind \in V!Kinds /\ reading.truth = 0 /\ reading.shown = 0 /\ reading.told = FALSE
        /\ reading.timer = FALSE /\ reading.tasks = <<>> /\ reading.last = 0 /\ reading.walk = -1
        /\ reading.chan = <<>> /\ reading.n = 0 /\ reading.newest = 0 /\ reading.deaf = FALSE
    BY <2>2 DEF V!NewReading
  <2>4. ReadingTyped
    BY <2>1, <2>2 DEF V!NewReading, ReadingTyped
  <2> QED
    BY <2>1, <2>3, <2>4 DEF ReadingInv, ReadingComes
<1>5. InstanceInv
  BY <1>1 DEF V!NewInstance, InstanceInv, InstanceTyped, AtWork, Runs, Awaits
<1> QED
  BY <1>1, <1>2, <1>3, <1>4, <1>5, LinkInit, LayoutInit, NotesInit, LoginInit

LEMMA ServicesInvStep == ServicesInv /\ [Next]_vars => ServicesInv'
<1> SUFFICES ASSUME ServicesInv, [Next]_vars, working \in ServiceScenes
             PROVE  /\ LinkInv' /\ LayoutInv' /\ NotesInv' /\ LoginInv'
                    /\ TrayInv' /\ HelperInv' /\ ReadingInv' /\ InstanceInv'
  <2>1. ASSUME [Next]_vars PROVE working' = working
    BY <2>1 DEF Next, vars
  <2> QED
    BY <2>1 DEF ServicesInv
<1>1. LinkInv /\ LayoutInv /\ NotesInv /\ LoginInv /\ TrayInv /\ HelperInv /\ ReadingInv /\ InstanceInv
  BY DEF ServicesInv
<1>2. UNCHANGED serviceVars \/ V!ServicesNext(working)
  BY DEF Next, vars, DaemonNext, BarSceneNext, ShellSceneNext, ServiceSceneNext
<1>3. CASE UNCHANGED serviceVars
  BY <1>1, <1>3, ServicesUnmoved DEF serviceVars
<1>4. CASE V!LockNext \/ V!GameNext
  BY <1>1, <1>4, LinkStep, ServicesUnmoved DEF V!LockNext, V!GameNext
<1>5. CASE V!LayoutNext
  BY <1>1, <1>5, LayoutStep, ServicesUnmoved DEF V!LayoutNext
<1>6. CASE V!NotifyNext
  BY <1>1, <1>6, NotesStep, ServicesUnmoved DEF V!NotifyNext
<1>7. CASE V!LoginNext
  BY <1>1, <1>7, LoginStep, ServicesUnmoved DEF V!LoginNext
<1>8. CASE V!TrayNext
  BY <1>1, <1>8, TrayStep, ServicesUnmoved DEF V!TrayNext
<1>9. CASE V!HelperNext
  BY <1>1, <1>9, HelperStep, ServicesUnmoved DEF V!HelperNext
<1>10. CASE V!ReadingNext
  BY <1>1, <1>10, ReadingStep, ServicesUnmoved DEF V!ReadingNext
<1>11. CASE V!InstanceNext
  BY <1>1, <1>11, InstanceStep, ServicesUnmoved DEF V!InstanceNext
<1> QED
  BY <1>2, <1>3, <1>4, <1>5, <1>6, <1>7, <1>8, <1>9, <1>10, <1>11 DEF V!ServicesNext

LEMMA ServicesFollow == ServicesInv => ServicesAreSound
<1> SUFFICES ASSUME ServicesInv, working \in ServiceScenes PROVE V!ServicesAreSound
  BY DEF ServicesAreSound
<1>1. LinkInv /\ LayoutInv /\ NotesInv /\ LoginInv /\ TrayInv /\ HelperInv /\ ReadingInv /\ InstanceInv
  BY DEF ServicesInv
<1>2. V!LinkIsSound /\ V!LayoutIsKept
  BY <1>1, LinkFollows, LayoutFollows
<1>3. V!NotesAreSound /\ V!LoginIsSound
  BY <1>1, NotesFollow, LoginFollows, ServicesAssumption
<1>4. V!TrayIsCurrent /\ V!HelperIsCurrent
  BY <1>1, TrayFollows, HelperFollows
<1>5. V!ReadingIsCurrent /\ V!OneWindow
  BY <1>1, ReadingFollows, OneWindowFollows
<1> QED
  BY <1>2, <1>3, <1>4, <1>5 DEF V!ServicesAreSound

\* What the shell keeps besides its windows (ipc.rs, layout.rs, notify.rs,
\* greeter.rs, tray.rs, app.rs, instance.rs) is what the other side has,
\* whenever nothing is on its way: the lock screen is shown exactly if the
\* session is locked, a game's hold and scene are the game's, every question
\* has its own answer, the layout in memory is the one on disk, a listed
\* notification has its picture and one that is gone has been told so, the
\* login belongs to one conversation, the tray shows the item that is there,
\* readings are current, an application has one process, and a launch that is
\* over is shown or waits for its window; each but for the races and the
\* failures its history variables name.
THEOREM ServicesSound == Spec => []ServicesAreSound
<1> QED
  BY ServicesInvInit, ServicesInvStep, ServicesFollow, PTL DEF Spec

=============================================================================
