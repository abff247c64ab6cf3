# Verification of MindOS

MindOS is an Arch-based desktop around a local language model. This directory
holds TLA+ models of the parts of it whose correctness depends on the order of
events, the instances TLC checks and proofs of what matters most, checked by
TLAPS. Every definition is written from the source; `PROJECT.json` names the lines
each one stands for (a helper whose lines another named definition covers is not listed
again), lists the hazards the properties are for, and gives for each
property a plausible bug that breaks it.

## 1. The system

Three Rust programs carry MindOS's own logic: the daemon `mindd`, the compositor
`mindwm` and the shell `mindshell`. A fourth, the research kernel under
`research/kernel-rs`, is parked, but it is the largest body of hand-written
concurrent code in the repository. The rest are shell scripts, the installation
image, TypeScript pages and vendored libraries.

| Part | Where | State it keeps | What is hard |
|---|---|---|---|
| model supervisor | `mindd/src/bin/mindd.rs`, `daemon/{mod,models,llm,server}.rs` | the llama-server child; `ready`, `sleeping`, `thinking`, the model's name; a `Notify` with one permit; GPU fallback, backoff | atomics and mutexes changed one by one by several threads; a permit used up for another change; a server that fails at any moment |
| agent, sessions, tools | `daemon/{agent,server,policy,tools}.rs` | sessions, calls waiting for a confirmation or a client's result | sessions taken out and put back; answers that come after the deadline, twice, or to a later call with the same id |
| conversation context | `daemon/{agent,llm,server}.rs` | the messages of a session | cutting to a size without parting calls from results or breaking the cached prefix |
| downloads | `daemon/models.rs` | the `.part` file, a cancel flag | a cancel that comes before the flag is cleared; a crash at any byte; a `.part` of another url |
| preferences | `daemon/{mod,models}.rs` | the settings in memory and in a file | load, change, save through one temporary file, without a lock |
| audit log | `daemon/audit.rs` | two files | tail reads while the writer rotates |
| update watcher | `daemon/updates.rs` | `UpdateStatus` in memory and in `updates.json` | the status is copied, worked on for minutes and written back; restarts in between |
| post-update verification | `daemon/health.rs`, the end of `apply`, `packages/mindos-mind/update-mark` | `last-update.json`, notices | one file, three kinds of writer, no lock, commands awaited between read and write; reboots |
| notices | `daemon/notices.rs`, `server.rs`; `mindshell/src/{mindwatch,app}.rs` | the list, its file, the subscribers; the shell's copy | events leave after the lock is released; connections break |
| idling and lock | `mindwm/src/{idle,ipc,prefs,input_handler}.rs` | stage, lock, clock, one timer; inhibitors and holds; what the shell was told | one timer for three timeouts, rearmed in every handler; a due time one second early |
| suspend | `mindshell/src/sleepwatch.rs` | logind's delay inhibitor | acknowledgements that come late or not at all within four seconds |
| windows and desks | `mindwm/src/{state,desk}.rs`, `shell/` | mapped, minimised and stashed windows, focus, the fullscreen slot | three lists that every handler moves windows between |
| layout | `mindwm/src/layout.rs` | the orders of tiles, what each window goes back to | pinned, maximised, sent away and dragged in any order; screens that come and go |
| input | `mindwm/src/{input_handler,pointer,window_cycle,media}.rs`, `shell/{grabs,frame}.rs` | what is pressed, forwarded, swallowed or grabbed | releases that come after the focus, the lock or a layer has changed |
| Mind bar | `mindwm/src/{mindbar,mind,launcher,osd}.rs` | the bar, the connection to the daemon, the app index | an old connection's reader beside the new one's manager |
| frame loop | `mindwm/src/{udev,recovery}.rs` | per output: timers, flips, resets; helper threads | a loop that anything may be the one to continue; flips that are lost |
| recovery and watchdog | `mindwm/src/{recovery,recover,watchdog}.rs`, `udev.rs` | backoffs, panics, the beats of the event loop | escalation against flashing; a frozen loop |
| shell windows | `mindshell/src/{app,windows,polkit}.rs` | desktops, panels, lock and login windows, popups | monitors that go between a sync and the next |
| shell services | `mindshell/src/{ipc,layout,notify,greeter,tray,instance,app}.rs` | the compositor's socket, layout.json, notifications, the login, the tray, readings | answers overtaken by events; two processes writing one file; threads |
| research kernel | `research/kernel-rs/kernel/src` | run queue, pipes, futexes, processes, address spaces, the file tree, descriptors, terminals | interrupts between any two steps; sleeps in the middle of calls |

How they interact. The shell keeps a standing connection to `mindd`
(`mindwatch.rs`) and opens short ones for requests; every connection is a tokio
task, and the runtime is multi-threaded. The watcher, the health timer and the
supervisor are tasks of the same process and share the `Daemon` structure with the
connection tasks: atomics, mutexes that are held for single accesses, a `Notify`
and files. The compositor is one thread with helpers: a handler runs to its end,
and what varies is the order of handlers. It is a client of the daemon for the Mind
bar, and the shell is a client of the compositor over another socket, with
requests and broadcast events.

What makes each part correct is, in short: what was asked of the supervisor last is
what ends up running; a change runs only with its own approval; a rating belongs to
the list it is shown with; a verdict on an update rests on a look at the system after
it; the shell's list is the daemon's list; the session locks and goes dark when it is
due and stays locked; no window is lost; what takes a press sees its end; a lit output
is drawn again; a task that can run does.

## 2. Modules

| Module | Models | Checked by run | Proofs |
|---|---|---|---|
| `ModelSupervisor` | the supervisor and the requests to it | `supervisor`, `supervisor_live` | `WakeupProofs` |
| `Agent` | connections, sessions, tool calls | `daemon_tasks`, `late_approval` | `DaemonProofs` |
| `UpdateWatcher` | checks, ratings, installs | `updates`, `update_auto_apply` | `DaemonProofs` |
| `UpdateRecord` | the record of the last transaction and its verification | `daemon_tasks` | `DaemonProofs` |
| `Conversation` | a session's messages | `parts` | |
| `Notices` | the list of notices and the shell's copy | `parts` | `PartsProofs` |
| `Downloads`, `Preferences`, `AuditLog`, `Suspend` | downloads; the preferences file; the audit log; suspending | `parts` | `PartsProofs` |
| `MindBar` | the Mind bar, its connection and the daemon's end of it | `parts` | `BarProofs` |
| `Shell` | the shell's windows and the desktop's fade | `parts` | |
| `ShellServices` | the rest of the shell | `parts` | `LinkProofs`, `ServicesProofs` |
| `Idle`, `Health` | idle clock, lock, displays, holders; resets and the event loop's watcher | `desktop` | `DesktopProofs` |
| `SessionLock` | what the compositor promises about lock and displays | `desktop` | `DesktopProofs` |
| `Input` | keys, buttons, fingers | `desktop` | `DesktopProofs` |
| `Windows`, `Tiling` | windows and desks; the order of tiles | `windows` | |
| `Geometry` | the rectangles of tiles; where the pointer and a divider may go | `windows`, `desktop` | |
| `Frames` | the repaint loop of the outputs of one GPU | `frames` | `WakeupProofs` |
| `KernelSched` | run queue, waiting, the sleeping mutex | `kernel`, `kernel_stranded` | `WakeupProofs` |
| `KernelPipe`, `KernelFutex`, `KernelEvents` | pipes; futexes; eventfd, timerfd and epoll | `kernel` | `KernelProofs` |
| `KernelProc`, `KernelSignals`, `KernelMemory`, `KernelTree`, `KernelFds`, `KernelTty` | processes and what they own | `kernel` | |

`MCDaemon`, `MCParts`, `MCDesktop`, `MCWindows`, `MCFrames` and `MCKernel` are the
instances; `ModelSupervisor`, `UpdateWatcher` and, for the late approval, `Agent` need
none and are named by their configurations. `MCDaemon`, `MCParts`, `MCDesktop` and
`MCKernel` hold parts that share no state in the program. A variable (`scene` or
`working`), chosen at the start, says which of them is at work; the others stay as they
began. This checks each part
in every behaviour of its own and does not multiply behaviours of parts that cannot
meet. Where parts do meet, the module models both sides: `Suspend` instantiates
`SessionLock` for the compositor, and `Idle` is proved to implement it.

Definitions named "Mutant" in the component modules are plausible bugs of the code
that the properties must catch; nothing uses them otherwise.

### The daemon

**ModelSupervisor.** `pc` walks through `supervise_model`; each connection task has a
`task` state of its own, and each access to a shared variable is one action, because
the runtime's threads may interleave there. `permit` is the `Notify`: `notify_one`
sets it, a `notified().await` that is the branch taken clears it. A `select!` with a
ready permit may still take another ready branch, so waits have several enabled
actions. The child process is `server`: what it was started with. It may fail to
start, never answer, exit or hang (`Failure`). Of the GPU's cooldown only matters
whether it has passed (`GpuCools`). Left out: `external_url` mode, which only polls
another machine's server; the length of the waits.

**Agent.** `conn[c]` is a connection's task with its locals, `queue[c]` the requests
nobody has read. A stream drains the queue and looks for Cancel only; a wait drops
what is not its answer. The calls a client was shown are numbered in `calls`, and a Confirm
or a result names a number. What the code compares is the id: an answer of the model
that gives its calls none gets `call_0`, `call_1` and so on, in every answer anew
(`llm.rs:205`), so that an answer to one of them fits the call at the same place of a
later answer too (`SameId`). Autopilot may be on for a chat, for everybody, or for the
category of a call (`policy.rs:208`, `free`); other changes are asked for. `sessions` holds
the turns each session remembers, so that taking one out, working on it and putting it
back can be told from losing it. Auxiliary: `mixed`, sessions that two chats have worked
on at once, and the turn and round in which an answer was sent.

**Conversation.** The messages of one session through `place_status`, `fit_context` and
`trim_session`. Sizes are small numbers instead of characters.

**Downloads, Preferences, AuditLog.** Every file operation is a step: curl writes a part,
the temporary file is truncated, filled and renamed, the log is rotated. The daemon may
stop between any two. A download names a file and a url, each on its own; a `.part` knows
the urls its bytes are of (`from`) and those that were in it already when a crash, a
failed rename or a failed removal left it behind (`left`). `overlap` (Preferences) is
auxiliary: two setters have been at work at once, in which case the code does lose
settings.

**UpdateWatcher.** A check is `CheckBegins`, `Merge`, `Store` and then `Save`, or `Assess`
and `Verdict` when the model is asked; `copy[t]` is the local `UpdateStatus` of task t. An
install is `ApplyBegins`, `PacmanOk` or `PacmanFails`, `ApplyEnds`. `Restart` ends every
task and reads the status back from its file. `Lists` are the lists of pending packages
that a mirror may give. Packages carry their version; dates are days, as `news_since`
compares them. What is read once and may have any value at that moment (the auto-update
switch, a running game, the model's readiness) is a choice of the action. Left out:
`assess = false`.

**UpdateRecord.** Transactions are numbered in the order they happen. A check finds
(`Run`), reads the record (`VerifyNothing`, `VerifyReboot`, `VerifyRecord`), may await
snapper (`Lookup`) and writes (`Judge`). `Timeout` drops it at an await. `Transaction`
is the pacman hook, whoever ran pacman; `ApplyRecord` is what `apply` makes of its
record. Auxiliary: `basis`, the last transaction a verdict's findings could see, and
`overlap`, a record written between a check's findings and its verdict. The
individual checks of `run` are one question with a yes or a no.

**Notices.** `list` and `file` change together under the mutex; the events wait in
`pending[w]` until the task has broadcast them. `conn` follows the Subscribe handler:
channel registered, list cloned, clone sent. `chan` is the whole way to the shell,
`view` its copy. `raced` is auxiliary: two changes have overlapped since the last copy
of the list was taken.

### The compositor

**Idle.** `session` is `IdleState` without the holders. `idle` counts whole seconds
since the clock was reset and `timer` what is left until the armed timer; a timer that
is due goes off before the next second. The functions of idle.rs are operators on
`session` with the source's names (`ArmIdleTimer`, `SetLocked`, `BlankNow`, `Advance`);
the actions are the handlers that call them. `told` is the last event broadcast. A
connection may end at a read or an answer (`DropClient`) or be found dead by a
broadcast (`BroadcastDrops`); a player may destroy its inhibitor or die without doing
so. `darkLock` is auxiliary: `lock_on_blank` when the displays went off.

**SessionLock** is the abstract side: nothing but an unlock unlocks, and it wakes the
displays.

**Windows, Tiling.** The compositor's lists as one record, its functions as operators on
it; a turn dispatches up to `MaxBatch` handlers and then refreshes, as the event loop
does. In `Tiling` a geometry is the screen it lies on and what it is (a tile, a zone,
the window's own place), and what a client was asked for is kept apart from what it
has acknowledged. **Geometry** computes the rectangles, neighbours, dividers and pointer
positions themselves, over small sets of sizes.

**Input.** Keys held, forwarded and suppressed; the switcher; media keys with their
worker thread; grabs, clicks and swallowed buttons; fingers. Between the handlers the
turn ends (`TurnEnds`), and `refresh_focus` looks at who has the keyboard. A press may be
on a window that has the whole screen (`full`), whose slot takes the focus past
`activate_window` and its look at the lock. `touch.on` is what the first finger of a
gesture came down on, `Behind` if that was behind the lock. Auxiliary: `through`, the
window that a press behind the lock gave the keyboard in this turn. `missed`, `slipped`,
`lifted`, `dropped` and `kept` name the exceptions of section 6.

**MindBar.** Bar, manager thread, readers of connections and the daemon's side. What a
frame shows is the state it was painted from (`PanelIsCurrent`).

**Frames.** One GPU. `surfaces[c]` has for each CRTC its repaint timer, throttle, flip,
release and recovery timer; `helpers` are the threads that release CRTCs; `event` are
flips whose event is on its way. Times are choices: a timer fires at any moment.
**Health** has the clocks that Frames leaves out: the resets of one output in seconds,
the beats of the event loop in quarters of a second. `flashes` is auxiliary, the ages
of the last three resets the compositor made of its own accord.

### The shell

**Suspend.** The watcher's thread, the wire to the compositor and logind's signals; the
requests it waits for may be handled late or not at all. `excused` names what may
let the machine sleep unlocked. **Shell** and **ShellServices** are scenes, each one
handler at a time: windows under monitors that come and go, the question of the
polkit agent, the desktop's fade, reloads; the compositor's socket, the layout file,
notifications, greetd's conversation, the tray, background readings, the instance
socket. Closing an application's window only queues the end of its process; its listener
acknowledges launches until the process is gone. A save of the layout may fail, and
nothing repeats it. The network is read when asked for and when `nmcli monitor` says
so, as long as that runs.

### The research kernel

One CPU, a kernel that is never preempted, interrupts between any two steps.
`KernelSched` has the run queue, wait queues, deadlines and the sleeping mutex step by
step; the other modules take a task from one sleep to the next in one step and use
sleeping and waking as `KernelSched` means them. `KernelMemory` has reference counts,
areas, page tables and one page cache; `KernelTree` a tmpfs with mounts; `KernelTty`
the line discipline and the table of ptys.

## 3. Runs

| Run | Checks | Shows |
|---|---|---|
| `supervisor` | `TypeOK`, `ServesTheChoice`, `NoMissedWakeUp`, `ReadyIsHonest`, `LabelsAreHonest` | no restart, sleep or wake-up is lost and what clients are shown is true or about to be replaced |
| `supervisor_live` | `EventuallyServes`, `EventuallyUnloads` | an awake daemon with a model always serves it again; one that stays asleep unloads it |
| `daemon_tasks` | `OnlyApprovedRuns`, `TurnsAreKept`, `ChatsEnd`, `VerdictIsSound`, `EventuallyJudged` | a change runs only with an approval sent in its own chat and round, to itself or to a call of an earlier answer whose id it shares; sessions keep their turns, every chat ends; a verdict that no transaction interrupted rests on later findings; every recorded update is judged or waits for a reboot |
| `late_approval` | `ApprovalIsItsOwn`, violated | see section 6 |
| `parts` | `PromptIsSound`, `OnlyWholeModels`, `SettingsAgree`, `TailIsTheEnd`, `EventsTellTheList`, `SleepsLocked`, `BarIsSound`, `ShellIsSound`, `ServicesAreSound` | the small parts of daemon and shell, one at a time |
| `updates` | `RatingIsSound`, `ChecksAreSerial` | no late verdict lands on another list, of two that the rules rate differently; one check and one verdict at a time, also after a restart |
| `update_auto_apply` | `AutoApplySparesTheSystem`, violated | see section 6 |
| `windows` | `WindowsAreReachable`, `ReachedWindowsShow`, `TilesAreSound` | no window is lost, doubled or on the wrong desk; tiles are in one order and their rectangles fit |
| `desktop` | `NothingIsMissed`, `DarkMeansLocked`, `ShellIsTold`, `KeepsThePromise`, `InputIsPaired`, `PointerGeometryIsSound`, `HealthIsSound` | deadlines, the lock, presses and releases, who has the keyboard behind the lock, the pointer, the pace of resets |
| `frames` | `LoopIsAlive`, `FramesAreSound`, `LoopsGoOn` | a lit output always has something that continues its loop, and is drawn again and again |
| `kernel` | `WaitsAreSound`, `ChannelsAreSound`, `ProcessesAreSound`, `ResourcesAreSound` | no wake-up, byte, child, frame or descriptor is lost but in the listed ways |
| `kernel_stranded` | `RunnableIsQueued`, violated | see section 6 |

Bounds, and why they are enough:

- supervisor: two models, so that a switch differs from a restart, and two
  connection tasks, so that two requests overlap. The liveness run has one of each;
  the requests in it can be repeated without end. Tasks and models are
  interchangeable, and the run that uses symmetry checks invariants only.
- daemon_tasks: the agent in three scenes, so that each stays small. Two connections with
  three chats on one session, without calls, for sessions that are shared, taken and put
  back. One connection with two chats of two rounds and a call in each, so that a call
  has one before it in its chat and one in another. One chat of two rounds with two calls in
  each, so that an answer has a call of its own, one beside it and one at the same place of
  an earlier answer. One request waits. The record of updates is the fourth scene:
  `MaxTxn = 2` for a record that is overwritten, `MaxBoots = 2` for a hint that outlives its
  reason, timer and updater as the two actors. late_approval needs one chat of two rounds
  with one call each.
- parts: a context of seven with tool results of one or three, so that cutting meets
  results, calls and the status block; three downloads by two tasks of two files from two
  urls, so that a url follows another under one name; three changes of two settings; eight
  entries in logs of three, so that the log is rotated twice under a reader; two notices,
  or one with two texts; two suspends, so that the second meets the resume of the first.
  The scenes of the shell have two monitors, three notifications of which two are kept,
  and two connections in a row.
- updates: no list, one with a package of the system and one with another package, so
  that a verdict made for one list would be wrong on the other; `MaxDay = 1` gives news
  before and after the last update; one client beside the watcher is the second actor.
  The violation run has lists with both packages and no calendar.
- windows: two desks, two windows at a time (a window and its dialog, or an X11
  window), every two of the four kinds of requests (they meet in a window's slot,
  list or focus pairwise), up to two handlers in a turn; the tiling of two windows on
  two screens through five operations; layouts of up to three tiles on areas of
  two widths and two heights, of which some have no room.
- desktop: timeouts that are never, equal, and one, two and three seconds apart, all
  the cases that "due one second early" tells apart; `MaxIdle = 6` is past the longest.
  Two buttons, two fingers, two presses held, one nap of the screen. Health has no
  bound of its own but that a loop that comes back does so within a second and a half
  or is followed to its end: ages stop counting where the code stops looking.
- frames: two outputs under each disturbance of the whole device, one output under every
  two disturbances; two helper threads, one more than an output uses.
- kernel: two or three tasks, and tables so small that each is full in some states: a
  pipe of three bytes with atomic writes of two, three processes and threads, two page
  frames of ram, three inodes, two descriptors, two ptys. `Tasks` are interchangeable.

Deadlock is checked in the runs of `ModelSupervisor`, `Agent` and `UpdateWatcher` and in
`daemon_tasks`. The other instances may stop: parts run out of their bounded
operations, and a desktop without requests is at rest.

### Fairness

`supervisor_live`: the supervisor's and the connection tasks' own steps are weakly
fair, because tokio polls every ready task. `SpawnOk` and `StartHealthy` are strongly
fair: the property is about a llama-server that works when it is started often
enough, and says nothing about a file that can never be loaded. `SuperviseNotified`
is strongly fair because the `select!` of the supervise loop begins at a random branch
and its `notified` branch keeps the permit until it is taken.

`daemon_tasks`, the agent: what a connection's task does by itself is weakly fair: the
HTTP client gives up after ten minutes, the waits after ten and two, tools after theirs.
Nothing is asked of clients.

`daemon_tasks`, the record: the timer task's steps are weakly fair, since its loop never
ends; `Run` and `Lookup` are strongly fair, since the commands do not run into the timeout
every time; ninety seconds pass. Clients, installs, transactions, repairs and reboots
need not happen.

`frames`: timers fire, callbacks run at the end of their turn and the kernel lets go of
a CRTC in the end. `Draws` and the recovery timer's last firing are strongly fair:
a render is not refused in the same way for ever, and the releases of another output,
which the timer waits for, are short and get rarer. That flips arrive is not assumed.

## 4. Proofs

All theorems hold for every value of the constants that satisfies the named assumption of
the module (`SupervisorAssumption`, `AgentAssumption`, `UpdateAssumption`,
`RecordAssumption`, `DownloadAssumption`, `PrefAssumption`, `AuditAssumption`,
`IdleAssumption`, `FramesAssumption`, `InputAssumption`, `NoticesAssumption`,
`SchedAssumption`, `KernelAssumption`, `BarAssumption`, `ServicesAssumption`). They say
that bounds are natural numbers, that names for "none" are not names of something, that
ids of notifications are positive numbers and the app index a list of entries, and for the
audit log that `last_lines` may read at least as many entries as a request may want (1000
of under eight kilobytes each). TLC evaluates each of them.

Each proof follows the same argument: an inductive invariant, a lemma for each
function or group of steps that keeps it, and a last step with `PTL`. What makes the
invariants more than the properties:

- `WakeupProofs`, about three modules that share only their hazard, that whoever waits is
  never woken. The supervisor: `TypeCorrect`, `NoLostRestart`, `NoLostWakeUp`,
  `ReadyHonest`, `LabelsHonest`. `ServesTheChoice` is about a supervised server only and
  is not inductive: the choices are read many steps before. `ChoiceInv` follows each of
  them from the moment it is read (the model from `think` on, the thinking mode from
  `publish` on, wakefulness from `select` on), each with "or its notification is on its
  way". The steps of the connection tasks keep it since a task stores before it notifies;
  the supervisor's since it uses a permit up only on a way back to the loop head.
  `LabelInv` does the same for the name and follows the notice and the time of the GPU's
  failure through the start.

  The repaint loop: `LoopAlive`, `FramesSound`, `FramesTyped`, for any outputs and any
  number of helper threads. `SurfaceOK` is what every handler leaves of a surface:
  lit ones have something that goes on, held frames a flip or a failed switch-off;
  `Releases` ties a surface's release to the one thread that owns it.

  `KernelWaits`, for any tasks and devices, about `SchedSpec`, the scheduler alone, of
  which `MCKernel` takes the steps. `SchedInv` says where each task is (`Placed`): what
  its call is at that place, which lists may hold it, and that a blocked one is in its
  place on them with nothing it waits for come (`Enlisted`), from the moment it enlists
  and not only when it has given up the CPU. `CpuInv` adds who can be on the run queue or
  current: only who has given up the CPU, so that nobody is given it in the middle of a
  wait. `MutexInv` counts those who sleep for a free mutex as waiting for one who does
  not. The steps fall into three groups with a lemma each: the current task's own
  (`OwnStepKeeps`), those that wake a list (`WokenKeeps`) and those that give up the CPU
  (`SwitchKeeps`); a task none of them touches keeps its place (`KeptIsPlaced`).
  `WakeAllDoes` and `ScheduleDoes` say what the run queue's functions return, `OnlyDoes`
  what a part of a list holds. That a task may be stranded (section 6) does not contradict
  the theorem: such a task is runnable, and what it waited for has come.
- `DaemonProofs`, about three modules that share nothing. For `AgentTyped`, `ApprovedRuns`
  and `TurnsKept`, `TaskOK` relates the fields of one task: what is being called, by whose
  approval, with which turns; `CallsOK` says that the answers queued while a round is at
  work were sent in it, to calls that had been shown, and that the call waited for is the
  last one shown. `TurnsInv`: a session that was never shared is in the map with all its
  turns, or out of it with the one chat that has all of them and its own.

  For `UpdatesTyped`, `RatingsAreSound` and `SerialChecks`, the working copies are sound as
  well, and a copy on its way to the model is one the rules have just rated; lemmas say
  what `Merged`, `ModelAssessment` and the landing of a verdict make of a sound status.
  `SerialInv` is about the flags in the copies: none says that a check is running, and one
  taken while the model rates a list says so.

  For `VerdictsAreSound`, unless a transaction has overlapped, each task between findings
  and verdict has findings that see the current transaction, and the record it has read
  is that transaction's.
- `PartsProofs`: `PreferencesTyped`, `PreferencesAgree` (`Alone`: the one setter at work
  carries the file's content in its copy but for its own key), `ModelsAreWhole` (one
  download is under way until it is marked as done, a task has a number of its own, what a
  task is about to put in place is whole, and the bytes of a `.part` are of the url its
  one writer fetches or were left behind in it), `SleepIsLocked` (logind's signals
  alternate, however far the watcher is behind; a suspend without excuse finds the session
  locked, or the watcher still to read of it, or waiting for the lock with its inhibitor
  held; a reply that confirms a lock is still true), `TailIsEnd` (the two files together
  end what was written; a reader that has read the log and found it too short has all of
  it as of then, and what was written since is still the log's end, unless the log was
  rotated meanwhile), and `ShellIsTold`, about the composition `MCParts` itself: `InOrder`
  says that unless changes overlap one task at most has events to send, each true of the
  list and of another notice, and `ToldOf` that a notice the connected shell is not about
  to be told of is, by the last event on the channel about it, as it is in the list, or
  dropped by a dismissal that is on its way. `EventAdded`, `EventRead` and `ThenTold` say
  what one event more, one less and a change's events make of that; `EventsOfSet` that a
  withdrawal sends one event for each notice. It assumes that the notices are finitely
  many (`NoticesAssumption`).
- `DesktopProofs`: `TypeCorrect`, `NoDeadlineMissed`, `DarkIsLocked`, `ShellKnows`. The
  invariant `Armed` says that the timer is exactly what `arm_idle_timer` would set now and
  that nothing is overdue; there is one lemma for each function of idle.rs, and an action
  is a composition of them. `LeastOfThree` is the fact about the minimum that
  `next_deadline` rests on. `ImplementsSessionLock` is the refinement: every step of
  `Idle` is a step of `SessionLock` or stutters. `HealthSound`: the count of recoveries
  cannot start anew while a flash is recent (`FlashesArePaced`), so that the third in a
  row is one of those that wait, and a reset that waits comes five seconds after the last
  (`TimerIsLate`); `RefusalsEndInAReset` is inductive with them. For the loop,
  `SilenceIsSeen` relates the silence to what the watcher saw when it looked,
  `SpinsAreCounted` and `HitchesAreSaid` the counters to what they count. `InputPaired`,
  for any windows, buttons and fingers: `InputHolds` adds to the property that a key kept
  from the clients is not also known to them, what the last message to the worker says of
  the held key, that a touch grab counts no more fingers than there are, and that a resize
  that was not dropped has its grab. Behind the lock (`LockIsQuiet`) a window with the
  keyboard is the one that a press of this turn gave it to (`through`), which
  `FocusFullHolds` starts and `RefreshHolds` and `TurnEndsHolds` end. While a key is let
  go of the switcher has not noticed yet (`Releasing`). `WithoutKeeps` and `InFront` say
  what raising a window does to the stack, `NextIsThere` that the switcher steps to a
  window that exists. It assumes that no window is named like a panel or like none, and
  that some window does not inhibit shortcuts (`InputAssumption`).
- `BarProofs`: `BarSound`, about the Mind bar in `MCParts`, for any index of applications,
  screens, questions, calls of tools and deaths of the daemon. What the bar shows is a
  matter of its own state (`BarHolds`): every handler leaves results that are in the
  index, a picture that is current or marked as dirty, and a bar that has a screen. What
  it waits for is not: `TalkInv` says where it is on its way. `OneConnection` ties the
  bar's manager, its reader threads and the daemon: only the last connection can
  stand, and older ones have nothing to say but that they ended. `ThinkingEnds`,
  `ConfirmationComes` and `ResultComes` look for the end of a thought, the question and the
  result of a tool in the requests, the daemon's inbox, the wire and the bar's events, in
  that order; `ConnectionIsTold` is about what the bar will hold for true when it has heard
  all events (`WillHold`). What the search makes of the index is proved from the
  order of its entries (`StrictOrder`), of which a finite set has a first one.
- `LinkProofs` and `ServicesProofs`: `ServicesSound`, about the shell's services in
  `MCParts`, for any notifications, limit, launches and number of connections. `LinkSound`
  is the compositor's socket: of each kind of line the last on its way says what the shell
  wants now (`HoldComes`, `SceneComes`, `BarComes`, with `LastSays` over the queues), the
  idle state that is shown is the compositor's or something is to come that says it
  (`IdleSaid`, `IdleComes`), and every question that is waited for is pending or has one
  answer (`Questions`). `HoldGoes` is what holds at the end of the questions of a new
  connection, between two of its parts. `LayoutSound` gives each process that keeps
  layout.json a base: one that has seen the newest file differs from it by nothing but the
  panels it is about to write or failed to write. `NotesSound` adds to the property that
  nothing is on the way to the list that its application was told is gone. `OneLogin` says
  what greetd holds at each stage of the one call under way, `TrayInv` that the last
  published list is the one to be shown and the remembered picture that of the pixels,
  `ReadingComes` that the newest reading is known or on its way, `HelperInv` and
  `InstanceInv` what the answers and the starting process rest on: a listener belongs to a
  process that has not ended, and a launch that is over was shown, came late or is queued
  in a process that runs. Each service has a lemma for each step that it takes, and `Off`
  and the queue lemmas (`Grown`, `Taken`) say what the lists become.
- `KernelProofs`: `ChannelsSound`, about the pipe, the futexes and the files for events of
  `MCKernel`, for any tasks and limits. `PipeInv` ties the counts of readers and writers
  to the ends that tasks hold, the ring to the bytes written and not read, and each call
  to an end that admits it. `FutexInv` says that each task has one entry, for as long as
  it is in its call, and that the woken ones are as many as wakes are owed. `CountInv`
  adds to the sums that no sleeper could do what it waits for; `TimerInv` and `EpollInv`
  say what was reported of the ticks and of each interest.

## 5. What is only model-checked

- Liveness (`EventuallyServes`, `EventuallyUnloads`, `ChatsEnd`, `EventuallyJudged`,
  `LoopsGoOn`): outside the prover's reach.
- Properties whose models fold or filter sequences (`SelectSeq`, the folds of the
  community modules): what those compute for every sequence is an induction over data that
  the provers cannot instantiate. These are `PromptIsSound`, `WindowsAreReachable`,
  `ReachedWindowsShow`, `TilesAreSound`, `PointerGeometryIsSound` (both sides of
  `Geometry`) and parts of `ShellIsSound`. Where such a list holds each id once, the model
  can say by its members what the filter leaves, and the theorems about `ShellServices`
  rest on that (`Off`).
- Of the kernel `ProcessesAreSound` and `ResourcesAreSound`: their modules are open to the
  prover and have no proofs yet.

## 6. Disagreements between code and documentation

Three have a run in which TLC finds the property violated:

- `AutoApplySparesTheSystem` (`updates.rs:408`): the watcher's condition looks at the
  risk and not at the tags; the model may lower a kernel update to "low", which
  `docs/UPDATES.md:44-47` says is never installed without a click.
- `ApprovalIsItsOwn` (`llm.rs:205`): the calls of an answer without ids are `call_0`,
  `call_1` and so on, in every answer anew. A Confirm that comes after its question timed
  out, or comes twice, approves the call of that place in the next answer, against
  `docs/ARCHITECTURE.md:219-221`: the client must confirm the change that runs.
- `RunnableIsQueued` (`sched/mod.rs:129`): a task that is woken while it is still the
  current one, after it set itself blocked, is left runnable and in no queue, against
  the comment at `sched/mod.rs:155`.

Others were met while modelling and have no run. The models contain these behaviours;
the properties name them as exceptions where they would otherwise be violated.

Daemon:

- `mod.rs:153`: `wake_and_wait` looks at `ready`, which a sleep leaves set until the
  supervisor has killed the server; a chat close after a sleep fails.
- `agent.rs:203`: whatever a client sends during a stream is drained, and only Cancel is
  looked at: a chat sent meanwhile is dropped without an answer.
- `models.rs:280`: `curl -C -` goes on from the length of a `.part`, whatever url it was of.
  After a crash, a failed rename or a failed removal, a pull of the same file name from
  another url joins the two, and the whole is put in place as a model.
- `server.rs:305`: sessions expire six hours after they were created, not after their
  last use.
- `updates.rs:286`: news that come in for an unchanged list the model has rated do not
  set `manual_intervention` (`docs/UPDATES.md:44-47`).
- `updates.rs:342,343,349`: pacman installs what the mirrors have by then, which may be
  more than what was rated; the hour's timeout drops the wait and not pacman; a failed run
  is recorded as the last update, and news older than it no longer warn
  (`updates.rs:143`).
- `updates.rs:274,299`: a check writes its whole copy back and may clear or set
  `applying` again; a copy taken while a rating runs can leave `assessing` set with nobody
  assessing until the next verdict or restart.
- `notices.rs:99`: events go out after the lock is released; two tasks may send theirs in
  the other order. A notice posted while a subscription is answered is overwritten by the
  older list. `app.rs:1563`: the shell dismisses by id, so that a notice whose text was
  just replaced is removed unseen.
- `health.rs:165`: findings are made before the record they judge is read. `health.rs:185`:
  the record of a second pacman run before the reboot hides that the first touched the
  kernel. `health.rs:198`: a bad update followed by a good one leaves both verdicts posted.
  `health.rs:219`: a verification that awaited snapper writes the older record over a newer
  one (`docs/UPDATES.md:17-19`).

Compositor:

- `ipc.rs:576`: a connection that a broadcast finds dead keeps its hold (against the
  comment at `ipc.rs:661`). `idle.rs:313`: the inhibitor of a player that crashed is never
  removed. `idle_inhibit_changed` resets the clock also when `stay_awake_when_busy` is off;
  the automatic lock restarts the displays' clock.
- `input_handler.rs:501-514, 519, 1317`: a release that wakes the screen is swallowed
  although its press was forwarded, so that a click, a grab or a key does not end. A
  waking finger leaves its grab; a button press that woke gives a release without a press.
  `shell/grabs.rs:176-190`: a drag of a first finger that was lifted never ends. A lock or
  a cancelled touch leaves `ResizeState::Resizing` (`shell/xdg.rs:736`). Some shortcuts
  run before the lock and kiosk checks (`input_handler.rs:1324-1440`, comment at 262).
  `release_all_keys` is never called.
- `input_handler.rs:963-985`: a press or a finger on a window that has the whole screen
  gives it the keyboard of a locked session, against the comment at `idle.rs:146`, and the
  keys of the same turn are sent to it unless the lock screen is up; `refresh_focus` takes
  the keyboard back when the turn ends. `idle.rs:135-162` leaves a touch grab: a finger
  that was down before the lock goes on dragging its window (130-132: "only they get
  input").
- `layout.rs:918-930`: a window minimised while a game runs is not brought home (comment
  at 830-833). `layout.rs:815,901`, `xdg.rs:416`: a tile that is pinned, maximised or sent
  away gets the tile's rectangle as its own place. `xdg.rs:312-398`: a client's fullscreen
  requests never mark the layout dirty, and one of them clears the slot of a game
  (`xdg.rs:388`). Minimising a tile without focus leaves a hole. `state.rs:2045`,
  `layout.rs:805`: a floating window may come back onto an unplugged screen.
- `mind.rs:218-221`: a question asked after the end was shown and before the manager noticed
  is lost (comment at 171). `mind.rs:209`: the old reader's end may come after the new
  connection's beginning. `mindbar.rs:670-748`: a pending confirmation outlives its call; a
  call that replaces a question between draw and key press gets the answer meant for the
  old one. `mindbar.rs:404-411`: a click uses results newer than the panel drawn.
  `mindbar.rs:422`: the copy tick stays. `state.rs:689-696`: a bar opened without
  screens takes keys unseen. `mindbar.rs:1437-1444`: outputs share one backdrop clock.
- `watchdog.rs`: the comment that a report "always includes the worst one" is off by up
  to a factor of two; an abort 200 ms after the look may end a loop that has just resumed.
  Two failing outputs reset their device each at its own pace. Under winit a spin ends
  without udev's exit code 70. `udev.rs:835`: a resume overtakes a helper thread.

Shell:

- `app.rs:882-890, 2693`: the dialog of the polkit agent may be lost with its output; the
  agent then waits for ever and holds the gate. `polkit.rs:162`: a cancel of a request at
  the gate is lost; a second password typed during the check is the next attempt; a helper
  that cannot be started leaves without "done".
- `app.rs:627-647, 822-829`: the first screen unplugged while locked leaves the keyboard
  with a window without password field, at the login with none.
- `app.rs:1014, 2680`: a page being taken away may open a popup on a dead monitor.
  `app.rs:2413`: edit mode during the fade drops the layer early (comment at 1996-1998);
  `windows.rs:214-217`: the opacity is 0 first, against the comment.
- `app.rs:2732`: the answer to `get_idle` may be applied after a newer event: a lock
  screen in an open session. `app.rs:2743, 1926`: what is said about a game or the bar
  while disconnected is lost and not repeated. `ipc.rs`: ids of requests that timed out
  stay.
- `app.rs:418-437, 782-796`: the reload of the shell's own write reverts a change made
  within 300 ms (comment at 416-417); two processes lose each other's updates.
- Notifications: an evicted one gives no closed signal; a dismissal may cross a replacing
  Notify. Greeter: of two overlapping calls the error of one cancels the other's session.
  Tray: a pixmap may be dropped while its version is kept. `app.rs:2366-2371`, audio, app
  scans and network: an older reading may be applied after a newer one.
  `instance.rs:36-38`: two processes may both become the one instance.
  `instance.rs:41-48`: a launch is acknowledged while the page of the running process is
  still loading or its window has just closed, and is then not shown (comment at 1-4).
- `app.rs:1382, 2460-2461`: a failed save of the layout leaves memory and file apart, and
  nothing tries again. `app.rs:3099`: without `nmcli monitor` "changes are polled", says the
  log; nothing polls, and a monitor that has ended is not started again.

Research kernel:

- `proc/exec.rs:284`: exec ends the whole multithreaded process. `wait.rs:54-67`: a signal
  may be slept through. `poll.rs:50`: poll registers in its first round only.
  `poll.rs:526`: `timerfd_tick` is never called. `poll.rs:408-414`: a one-shot interest
  that is reported disables every one with the same user data, ready or not; an interest
  keeps a closed file. `poll.rs:450-482`: the eventfd's counter is read and written in two
  steps.
- `signal.rs:271,355`: SIGKILL does not wake a stopped process. `exit.rs:119-129,
  189-198`: a sleeper in wait4 never gets ECHILD. `signal.rs:310-315`: a handler's frame
  saves the temporary mask. `fork.rs:140-143`: a clone that fails at PARENT_SETTID leaves
  a child without threads. `futex.rs:91-111`: a wake is used up by a call that returns
  EAGAIN.
- `addrspace.rs:256-259`: mprotect makes pages writable that were mapped read-only without
  copy-on-write; a write fault without memory leaks a reference (386).
  `syscall/mm.rs:108,122`: mremap from the middle of an area takes the wrong offset; without
  memory for the copy (135) both mappings stay.
- `tmpfs.rs:265-270`: rename over directories; `path.rs:61-82`: ".." of a second mount on
  one mountpoint; `close_range` on an empty table; a pipe2 that fails to copy out leaks
  both descriptors; `pipe.rs:244-246`: an interrupted open wakes nobody.
- `tty.rs:390-397`: VMIN = 0 with VTIME never times out; 420-428: the writer is busy; 207:
  TCSETS strands bytes; 486-499: input between its two locks gets ahead of older lines;
  848: the master's reader never gets EIO; 898-901: a release races with a new pty of the
  same index.

## 7. What is not modelled

Rendering, text layout and capture (pixels), web fetching and parsing, the language
model client's decoding, system readings, metrics and system pages, the command line
client, the configuration reader, package and installation scripts (sequential drivers
of other programs), the TypeScript pages, performance modes, the kernel's boot code,
drivers and ext4, and the vendored libraries. Smithay, logind, greetd and the tray's
client library are modelled from how the code calls them. What a modelled component
leaves out is said in its `PROJECT.json` note and at the head of its module.

## 8. Plan

1. Proofs for the kernel's processes, signals, memory, descriptors and terminals.
2. `ShellIsSound`, part by part: the windows of the shell under monitors that come and
   go, then the fade and the dialog.
3. An abstract "last request wins" specification that `ModelSupervisor` implements.
