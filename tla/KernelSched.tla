----------------------------- MODULE KernelSched -----------------------------
(***************************************************************************)
(* The research kernel's scheduler, wait queues, poll tables, sleep timers *)
(* and sleeping mutex (research/kernel-rs/kernel/src/sched).  One CPU and  *)
(* a kernel that is never preempted: the current task runs until it calls  *)
(* schedule(), but an interrupt may come between any two of its steps, and *)
(* a device interrupt, the timer and a signal all call wake().             *)
(* A program of a task is a place in the kernel, `at`.  Deadlines pass     *)
(* whenever they please; a slice ends at any tick.                         *)
(***************************************************************************)
EXTENDS Integers, Sequences, FiniteSets, SequencesExt

CONSTANTS
    Tasks,     \* every task but the idle one
    Idle,      \* the boot context, which runs when nothing else can
    Devices,   \* what a task can wait for: each has a wait queue
    Lock,      \* the wait queue of the sleeping mutex
    NoTask

\* What the model calls nobody, and the mutex's queue, is no task and no device.
ASSUME SchedAssumption == Idle \notin Tasks /\ NoTask \notin Tasks /\ Lock \notin Devices

VARIABLES
    cpu,            \* the run queue, the current task and the tasks' states
    at,             \* where each task is in the kernel
    call,           \* what it called: [for, interruptible, deadline, again]
    waiters,        \* WaitQueue.waiters of every queue
    sleepers,       \* TIMERS.sleepers
    late,           \* the tasks whose deadline has passed
    timedOut,       \* Task.timed_out
    interruptible,  \* Task.interruptible
    pending,        \* the tasks with a signal to deliver
    giving,         \* the devices that have something to give
    owner           \* who holds the mutex: Mutex.locked

schedVars == <<cpu, at, call, waiters, sleepers, late, timedOut, interruptible, pending, giving, owner>>

Queues == Devices \cup {Lock}
NoCall == [for |-> {}, interruptible |-> FALSE, deadline |-> FALSE, again |-> FALSE]
Current == cpu.current

SchedInit ==
    /\ \E first \in Tasks :
          /\ cpu = [state |-> [t \in Tasks \cup {Idle} |-> IF t = first THEN "running" ELSE "runnable"],
                    onRq |-> [t \in Tasks \cup {Idle} |-> FALSE],
                    runq |-> <<>>, current |-> first, resched |-> FALSE]
          /\ at = [t \in Tasks |-> IF t = first THEN "user" ELSE "unborn"]
    /\ call = [t \in Tasks |-> NoCall]
    /\ waiters = [q \in Queues |-> <<>>]
    /\ sleepers = <<>> /\ late = {} /\ timedOut = {} /\ interruptible = {} /\ pending = {}
    /\ giving = {} /\ owner = NoTask

-----------------------------------------------------------------------------
(* The run queue. *)

\* Those at these places of the list, in their order: what retain keeps, or takes out.
Only(list, places) ==
    [n \in 1..Cardinality(places) |-> list[CHOOSE i \in places : Cardinality({j \in places : j <= i}) = n]]

\* wake, of each in the list in turn: a zombie is left alone, the task that is current is marked and
\* not queued, and who is marked and queued keeps its place.
WakeAll(c, list) ==
    LET woken == {t \in Range(list) : c.state[t] # "zombie"}
        queued == {t \in Range(c.runq) : c.onRq[t]} \cup {c.current}
        new == {i \in DOMAIN list : list[i] \in woken \ queued /\ \A j \in DOMAIN list : j < i => list[j] # list[i]}
    IN [c EXCEPT !.state = [t \in DOMAIN @ |-> IF t \in woken THEN "runnable" ELSE @[t]],
                 !.onRq = [t \in DOMAIN @ |-> t \in woken \/ @[t]],
                 !.runq = @ \o Only(list, new)]
Wake(c, t) == WakeAll(c, <<t>>)

\* enqueue, for a task that is new.
Enqueue(c, t) == [c EXCEPT !.state[t] = "runnable", !.onRq[t] = TRUE, !.runq = Append(@, t)]

\* schedule queues the current task again unless it sleeps, dies or counts as queued.
Requeue(c) ==
    LET cur == c.current
        settled == IF c.state[cur] = "running" THEN [c EXCEPT !.state[cur] = "runnable"] ELSE c
    IN IF settled.state[cur] = "runnable" /\ cur # Idle /\ ~c.onRq[cur]
       THEN [settled EXCEPT !.onRq[cur] = TRUE, !.runq = Append(@, cur)] ELSE settled

\* pick_next pops until it finds a task that can run.
Runnable(c) == {i \in DOMAIN c.runq : c.state[c.runq[i]] = "runnable"}
Popped(c, n) ==
    [c EXCEPT !.runq = SubSeq(@, n + 1, Len(@)),
              !.onRq = [t \in DOMAIN @ |-> @[t] /\ \A i \in 1..n : c.runq[i] # t]]

SwitchTo(c, t) == [c EXCEPT !.state[t] = "running", !.current = t, !.resched = FALSE]

\* schedule: the first task that can run, the current one for want of another, or the idle task.
Schedule(c) ==
    LET q == Requeue(c)
        none == Popped(q, Len(q.runq))
    IN IF Runnable(q) # {} THEN LET n == Min(Runnable(q)) IN SwitchTo(Popped(q, n), q.runq[n])
       ELSE IF q.state[q.current] = "runnable"
            THEN SwitchTo([none EXCEPT !.onRq[q.current] = FALSE], q.current)
            ELSE SwitchTo(none, Idle)

Blocked(c) == [c EXCEPT !.state[c.current] = "blocked"]
Running(c) == [c EXCEPT !.state[c.current] = "running"]
Without(list, t) == Only(list, {i \in DOMAIN list : list[i] # t})

-----------------------------------------------------------------------------
(* A task in user mode, or doing what a system call asks. *)

Go(place) == at' = [at EXCEPT ![Current] = place]
Is(place) == Current # Idle /\ at[Current] = place

\* spawn_kernel, clone: a new task is queued.
Spawn(t) ==
    /\ Is("user") /\ at[t] = "unborn"
    /\ at' = [at EXCEPT ![t] = "return"]
    /\ cpu' = Enqueue(cpu, t)
    /\ UNCHANGED <<call, waiters, sleepers, late, timedOut, interruptible, pending, giving, owner>>

\* exit_current_task, with interrupts off until the CPU is given up.
Exit ==
    /\ Is("user") /\ owner # Current
    /\ Go("gone")
    /\ cpu' = Schedule([cpu EXCEPT !.state[Current] = "zombie"])
    /\ UNCHANGED <<call, waiters, sleepers, late, timedOut, interruptible, pending, giving, owner>>

\* return_to_user: give up the CPU when asked to, then deliver what is pending.
Return ==
    /\ Is("return")
    /\ IF cpu.resched
       THEN cpu' = Schedule([cpu EXCEPT !.state[Current] = "runnable"]) /\ UNCHANGED <<at, pending>>
       ELSE pending' = pending \ {Current} /\ Go("user") /\ UNCHANGED cpu
    /\ UNCHANGED <<call, waiters, sleepers, late, timedOut, interruptible, giving, owner>>

-----------------------------------------------------------------------------
(* WaitQueue::wait_inner, with a deadline that may never come, and the mutex that waits with it. *)

Calls(c) == call' = [call EXCEPT ![Current] = c] /\ late' = late \ {Current}

Wait(d) ==
    /\ Is("user")
    /\ Calls([for |-> {d}, interruptible |-> TRUE, deadline |-> TRUE, again |-> FALSE])
    /\ Go("check")
    /\ UNCHANGED <<cpu, waiters, sleepers, timedOut, interruptible, pending, giving, owner>>

\* Mutex::lock takes the lock or waits for it, deaf to signals.
LockMutex ==
    /\ Is("user") /\ owner # Current
    /\ IF owner = NoTask
       THEN owner' = Current /\ UNCHANGED <<at, call, late>>
       ELSE Calls([NoCall EXCEPT !.for = {Lock}]) /\ Go("check") /\ UNCHANGED owner
    /\ UNCHANGED <<cpu, waiters, sleepers, timedOut, interruptible, pending, giving>>

\* MutexGuard::drop: the last to have come is the one woken.
UnlockMutex ==
    /\ Is("user") /\ owner = Current
    /\ owner' = NoTask
    /\ IF waiters[Lock] = <<>> THEN UNCHANGED <<cpu, waiters>>
       ELSE /\ waiters' = [waiters EXCEPT ![Lock] = Front(@)]
            /\ cpu' = Wake(cpu, Last(waiters[Lock]))
    /\ UNCHANGED <<at, call, sleepers, late, timedOut, interruptible, pending, giving>>

Holds(q) == IF q = Lock THEN owner = NoTask ELSE q \in giving
Met == \E q \in call[Current].for : Holds(q)

\* The caller takes what it waited for: the device's data, or the mutex.
Take ==
    /\ giving' = giving \ call[Current].for
    /\ owner' = IF Lock \in call[Current].for THEN Current ELSE owner
    /\ Go("return")
    /\ Calls(NoCall)

GiveUp == Go("return") /\ Calls(NoCall) /\ UNCHANGED <<giving, owner>>

\* The tests at the head of the loop.
Check ==
    /\ Is("check")
    /\ LET c == call[Current]
       IN IF Met THEN Take
          ELSE IF (c.interruptible /\ Current \in pending) \/ (c.deadline /\ Current \in late) THEN GiveUp
          ELSE Go("enlist") /\ UNCHANGED <<call, late, giving, owner>>
    /\ UNCHANGED <<cpu, waiters, sleepers, timedOut, interruptible, pending>>

\* The condition not looked at again under the lock.
EnlistBlindly ==
    /\ Is("enlist")
    /\ cpu' = Blocked(cpu)
    /\ interruptible' = IF call[Current].interruptible THEN interruptible \cup {Current}
                        ELSE interruptible \ {Current}
    /\ waiters' = [q \in Queues |-> IF q \in call[Current].for THEN Append(waiters[q], Current) ELSE waiters[q]]
    /\ Go("sleep")
    /\ UNCHANGED <<call, late, giving, owner, sleepers, timedOut, pending>>

\* Under the queue's lock the condition is looked at once more.
Enlist ==
    /\ Is("enlist")
    /\ IF Met THEN Take /\ UNCHANGED <<cpu, waiters, interruptible>>
       ELSE /\ cpu' = Blocked(cpu)
            /\ interruptible' = IF call[Current].interruptible THEN interruptible \cup {Current}
                                ELSE interruptible \ {Current}
            /\ waiters' = [q \in Queues |-> IF q \in call[Current].for THEN Append(waiters[q], Current)
                                            ELSE waiters[q]]
            /\ Go("sleep")
            /\ UNCHANGED <<call, late, giving, owner>>
    /\ UNCHANGED <<sleepers, timedOut, pending>>

\* The timer is armed and the CPU given up.
Arm ==
    /\ Is("sleep") /\ call[Current].deadline
    /\ sleepers' = Append(sleepers, Current)
    /\ Go("asleep")
    /\ UNCHANGED <<cpu, call, waiters, late, timedOut, interruptible, pending, giving, owner>>

Sleep ==
    /\ Is("asleep") \/ (Is("sleep") /\ ~call[Current].deadline)
    /\ cpu' = Schedule(cpu)
    /\ Go("awake")
    /\ UNCHANGED <<call, waiters, sleepers, late, timedOut, interruptible, pending, giving, owner>>

\* What follows schedule() once the task runs again.
Awake ==
    /\ Is("awake")
    /\ sleepers' = Without(sleepers, Current)
    /\ interruptible' = interruptible \ {Current}
    /\ waiters' = [q \in Queues |-> IF q \in call[Current].for THEN Without(waiters[q], Current) ELSE waiters[q]]
    /\ Go("check")
    /\ UNCHANGED <<cpu, call, late, timedOut, pending, giving, owner>>

-----------------------------------------------------------------------------
(* PollTable, as do_poll uses it (registered once) and as epoll_wait does (again every round). *)

Poll(dl, again) ==
    /\ Is("user")
    /\ Calls([for |-> Devices, interruptible |-> TRUE, deadline |-> dl, again |-> again])
    /\ Go("prepare")
    /\ UNCHANGED <<cpu, waiters, sleepers, timedOut, interruptible, pending, giving, owner>>

\* prepare and add: blocked before it looks.
PollPrepare ==
    /\ Is("prepare") \/ Is("prepare again")
    /\ cpu' = Blocked(cpu)
    /\ interruptible' = interruptible \cup {Current}
    /\ waiters' = IF Is("prepare") \/ call[Current].again
                  THEN [q \in Queues |-> IF q \in Devices /\ ~Contains(waiters[q], Current)
                                         THEN Append(waiters[q], Current) ELSE waiters[q]]
                  ELSE waiters
    /\ Go("scan")
    /\ UNCHANGED <<call, sleepers, late, timedOut, pending, giving, owner>>

\* The table is cleared: off every queue.
Cleared == [q \in Queues |-> Without(waiters[q], Current)]

\* The scan, and the tests of block: whatever ends the poll here cancels it.
PollScan ==
    /\ Is("scan")
    /\ IF Met \/ Current \in pending \/ (call[Current].deadline /\ Current \in late)
       THEN /\ cpu' = Running(cpu)
            /\ interruptible' = interruptible \ {Current}
            /\ waiters' = Cleared
            /\ IF Met THEN Take ELSE GiveUp
            /\ UNCHANGED timedOut
       ELSE /\ timedOut' = IF call[Current].deadline THEN timedOut \ {Current} ELSE timedOut
            /\ Go("poll sleep")
            /\ UNCHANGED <<cpu, interruptible, waiters, call, late, giving, owner>>
    /\ UNCHANGED <<sleepers, pending>>

PollArm ==
    /\ Is("poll sleep") /\ call[Current].deadline
    /\ sleepers' = Append(sleepers, Current)
    /\ Go("poll asleep")
    /\ UNCHANGED <<cpu, call, waiters, late, timedOut, interruptible, pending, giving, owner>>

PollSleep ==
    /\ Is("poll asleep") \/ (Is("poll sleep") /\ ~call[Current].deadline)
    /\ cpu' = Schedule(cpu)
    /\ Go("poll awake")
    /\ UNCHANGED <<call, waiters, sleepers, late, timedOut, interruptible, pending, giving, owner>>

\* The rest of block: a signal, the deadline, or another round.
PollAwake ==
    /\ Is("poll awake")
    /\ sleepers' = Without(sleepers, Current)
    /\ timedOut' = timedOut \ {Current}
    /\ interruptible' = interruptible \ {Current}
    /\ LET over == Current \in pending \/ (call[Current].deadline /\ Current \in timedOut)
       IN /\ waiters' = IF over \/ call[Current].again THEN Cleared ELSE waiters
          /\ IF over THEN GiveUp ELSE Go("prepare again") /\ UNCHANGED <<call, late, giving, owner>>
    /\ UNCHANGED <<cpu, pending>>

-----------------------------------------------------------------------------
(* Interrupts.  One that finds the CPU in user mode leaves by return_to_user. *)

FromUser == at' = IF Is("user") THEN [at EXCEPT ![Current] = "return"] ELSE at

\* A device has data: its handler wakes everyone.  A task that writes to a pipe another waits for does the same.
DeviceInterrupt(d) ==
    /\ d \notin giving
    /\ giving' = giving \cup {d}
    /\ waiters' = [waiters EXCEPT ![d] = <<>>]
    /\ cpu' = WakeAll(cpu, waiters[d])
    /\ FromUser
    /\ UNCHANGED <<call, sleepers, late, timedOut, interruptible, pending, owner>>

\* post_signal, from an interval timer, the keyboard or another task: only a sleeper is woken.
Signal(t) ==
    /\ t \notin pending /\ at[t] \notin {"unborn", "gone"}
    /\ pending' = pending \cup {t}
    /\ cpu' = IF cpu.state[t] = "blocked" /\ t \in interruptible THEN Wake(cpu, t) ELSE cpu
    /\ FromUser
    /\ UNCHANGED <<call, waiters, sleepers, late, timedOut, interruptible, giving, owner>>

Deadline(t) ==
    /\ call[t].deadline /\ t \notin late
    /\ late' = late \cup {t}
    /\ UNCHANGED <<cpu, at, call, waiters, sleepers, timedOut, interruptible, pending, giving, owner>>

\* timer_tick: the slice may be over, and the sleepers whose time has come are woken.
Tick ==
    LET due == {i \in DOMAIN sleepers : sleepers[i] \in late}
        expired == Only(sleepers, due)
    IN /\ sleepers' = Only(sleepers, DOMAIN sleepers \ due)
       /\ timedOut' = timedOut \cup Range(expired)
       /\ \E over \in {FALSE, Current # Idle} :
             cpu' = WakeAll([cpu EXCEPT !.resched = @ \/ over], expired)
       /\ FromUser
       /\ UNCHANGED <<call, waiters, late, interruptible, pending, giving, owner>>

\* idle_loop.
IdleLoop ==
    /\ Current = Idle /\ (cpu.resched \/ cpu.runq # <<>>)
    /\ cpu' = Schedule([cpu EXCEPT !.state[Idle] = "runnable"])
    /\ UNCHANGED <<at, call, waiters, sleepers, late, timedOut, interruptible, pending, giving, owner>>

SchedNext ==
    \/ Exit \/ Return \/ LockMutex \/ UnlockMutex
    \/ Check \/ Enlist \/ Arm \/ Sleep \/ Awake
    \/ PollPrepare \/ PollScan \/ PollArm \/ PollSleep \/ PollAwake
    \/ Tick \/ IdleLoop
    \/ \E t \in Tasks : Spawn(t) \/ Signal(t) \/ Deadline(t)
    \/ \E d \in Devices : DeviceInterrupt(d) \/ Wait(d)
    \/ \E again \in BOOLEAN : Poll(~again, again)

SchedSpec == SchedInit /\ [][SchedNext]_schedVars

-----------------------------------------------------------------------------
\* The tasks that gave up the CPU and have not been woken since.
Asleep == {t \in Tasks : at[t] \in {"awake", "poll awake"} /\ cpu.state[t] = "blocked"}

\* wait_inner keeps its place: who sleeps in it is on the queue it waits for, and nothing it waits
\* for has come.  The same holds of epoll_wait, which registers again every round (sched/wait.rs).
SleepersAreEnlisted ==
    \A t \in Asleep : \A q \in call[t].for :
        (at[t] = "awake" \/ call[t].again) => Contains(waiters[q], t) /\ (q = Lock \/ q \notin giving)

\* The mutex is handed over: while somebody sleeps for it, it is held or somebody awake is on the
\* way to take it (MutexGuard::drop wakes one, and that one tries again).
MutexIsHandedOver ==
    (\E t \in Asleep : call[t].for = {Lock}) =>
        \/ owner # NoTask
        \/ \E t \in Tasks \ Asleep : call[t].for = {Lock} /\ cpu.state[t] # "zombie"

\* Nobody is left on a queue or among the timers once its call is over: a later wake() would mark a
\* task that waits for nothing (remove, disarm and PollTable::clear).
NobodyIsLeftBehind ==
    \A t \in Tasks : call[t] = NoCall =>
        /\ \A q \in Queues : ~Contains(waiters[q], t)
        /\ ~Contains(sleepers, t)
        /\ t \notin interruptible

\* The run queue holds each task at most once, never the current one, and only tasks that can run.
RunQueueIsSound ==
    /\ IsInjective(cpu.runq)
    /\ \A t \in Range(cpu.runq) : t # Current /\ cpu.state[t] = "runnable" /\ cpu.onRq[t]
    /\ cpu.state[Current] # "zombie"

WaitsAreSound == SleepersAreEnlisted /\ MutexIsHandedOver /\ NobodyIsLeftBehind /\ RunQueueIsSound

\* "Give up the CPU. The current task must already be in the desired state (Runnable to be re-queued,
\* Blocked to sleep, Zombie to die)" (sched/mod.rs, schedule): a task that can run and does not is queued.
RunnableIsQueued ==
    \A t \in Tasks : at[t] # "unborn" /\ t # Current /\ cpu.state[t] = "runnable" => Contains(cpu.runq, t)
=============================================================================
