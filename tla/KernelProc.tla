----------------------------- MODULE KernelProc ------------------------------
(***************************************************************************)
(* Processes and threads of the research kernel (kernel/src/proc): clone,  *)
(* exec, exit, wait, signals sent to a process and job control.  A thread  *)
(* goes from one sleep to the next in one step (the kernel is not          *)
(* preempted); wake_all makes every sleeper look again.  Of the signals    *)
(* there are those whose number decides something: SIGKILL, SIGTERM for    *)
(* all that terminate, SIGCHLD, SIGCONT and SIGSTOP.                       *)
(***************************************************************************)
EXTENDS Integers, Sequences, FiniteSets, SequencesExt

CONSTANTS
    Procs,       \* the numbers of the processes there may be
    Init1,       \* the init process: it does not exit and is not sent signals
    Threads,     \* the numbers of the threads there may be
    First,       \* the thread of init
    ExitCodes,   \* what exit_group may be given
    MaxSends     \* how many signals are sent, each to a process once

VARIABLES
    proc,      \* the process table
    thread,    \* the threads: [at, pending, of, for]
    resting,   \* the threads that sleep
    sent,      \* history: the signals that were sent, and to whom
    verdict    \* history: what first ended each process

procVars == <<proc, thread, resting, sent, verdict>>

SIGKILL == 9
SIGTERM == 15
SIGCHLD == 17
SIGCONT == 18
SIGSTOP == 19
Signals == {SIGKILL, SIGTERM, SIGCHLD, SIGCONT, SIGSTOP}
Options == {"untraced", "continued"}

NoProc == [state |-> "none", parent |-> Init1, threads |-> <<>>, pending |-> {}, ignored |-> {},
           groupExit |-> FALSE, code |-> 0, stopReported |-> FALSE, contReported |-> FALSE, vforkDone |-> FALSE]
Reaped == [NoProc EXCEPT !.state = "reaped", !.vforkDone = TRUE]
NoThread == [at |-> "none", pending |-> {}, of |-> Init1, for |-> {}]

ProcInit ==
    /\ proc = [p \in Procs |-> IF p = Init1 THEN [NoProc EXCEPT !.state = "running", !.threads = <<First>>] ELSE NoProc]
    /\ thread = [t \in Threads |-> IF t = First THEN [NoThread EXCEPT !.at = "user"] ELSE NoThread]
    /\ resting = {} /\ sent = {} /\ verdict = [p \in Procs |-> 0]

Of(t) == thread[t].of
Alive(p) == proc[p].state \in {"running", "stopped"}
Children(p) == {c \in Procs : proc[c].parent = p /\ c # p /\ proc[c].state \in {"running", "stopped", "zombie"}}

\* A thread in user mode has nothing pending: it was delivered on the way out.
Due(t) == thread[t].pending \cup proc[Of(t)].pending
InUser(t) == thread[t].at = "user" /\ Due(t) = {} /\ proc[Of(t)].state # "stopped"
Sleeping(p, place) == {t \in resting : Of(t) = p /\ thread[t].at = place}

-----------------------------------------------------------------------------
(* Sending.  The state they change is passed along: [proc, thread, resting]. *)

Now == [proc |-> proc, thread |-> thread, resting |-> resting]

\* Who sleeps so that a signal wakes it: wait4, not a stop and not a vfork.
Interrupt(s, ts) == [s EXCEPT !.resting = @ \ {t \in ts : s.thread[t].at = "wait"}]

\* post_signal of SIGKILL to every other thread.
KillOthers(s, p, me) ==
    LET others == Range(s.proc[p].threads) \ {me}
    IN Interrupt([s EXCEPT !.thread = [t \in Threads |-> IF t \in others THEN [@[t] EXCEPT !.pending = @ \cup {SIGKILL}]
                                                         ELSE @[t]]], others)

WakeParent(s, p) ==
    [s EXCEPT !.resting = @ \ {t \in Threads : s.thread[t].of = s.proc[p].parent /\ s.thread[t].at = "wait"}]

\* send: SIGCONT continues, stop signals and SIGCONT undo each other, what is ignored is dropped.
Continue(s, p) ==
    LET c == [s.proc[p] EXCEPT !.pending = @ \ {SIGSTOP}]
    IN IF c.state # "stopped" THEN [s EXCEPT !.proc[p] = c]
       ELSE WakeParent([s EXCEPT !.proc[p] = [c EXCEPT !.state = "running", !.contReported = FALSE],
                                 !.resting = @ \ {t \in Threads : s.thread[t].of = p /\ s.thread[t].at = "stop"}], p)

Send(s, p, sig) ==
    IF s.proc[p].state \notin {"running", "stopped"} THEN s
    ELSE LET s1 == IF sig = SIGCONT THEN Continue(s, p)
                   ELSE IF sig = SIGSTOP THEN [s EXCEPT !.proc[p].pending = @ \ {SIGCONT}] ELSE s
             threads == s.proc[p].threads
         IN IF sig \in s.proc[p].ignored \ {SIGKILL, SIGSTOP} \/ (sig = SIGCHLD) \/ threads = <<>> THEN s1
            ELSE Interrupt([s1 EXCEPT !.proc[p].pending = @ \cup {sig}],
                           IF sig = SIGKILL THEN Range(threads) ELSE {Head(threads)})

Become(s) == proc' = s.proc /\ thread' = s.thread /\ resting' = s.resting

\* kill, and the terminal or a timer that sends.
Kill(p, sig) ==
    /\ Alive(p) /\ p # Init1
    /\ <<p, sig>> \notin sent /\ Cardinality(sent) < MaxSends
    /\ Become(Send(Now, p, sig))
    /\ sent' = sent \cup {<<p, sig>>}
    /\ UNCHANGED verdict

\* rt_sigaction: ignoring a signal discards it.
Ignore(t, sig) ==
    /\ InUser(t) /\ sig \notin proc[Of(t)].ignored
    /\ proc' = [proc EXCEPT ![Of(t)].ignored = @ \cup {sig}, ![Of(t)].pending = @ \ {sig}]
    /\ UNCHANGED <<thread, resting, sent, verdict>>

-----------------------------------------------------------------------------
\* Numbers are given out in order and not used twice.
NextTid == {t \in Threads : thread[t].at = "none" /\ \A u \in Threads : u < t => thread[u].at # "none"}
NextPid == {p \in Procs : proc[p].state = "none" /\ \A q \in Procs : q < p => proc[q].state # "none"}

\* do_clone: a thread, or a process of this parent's or, with CLONE_PARENT, of its parent.
CloneThread(t, new) ==
    /\ InUser(t) /\ new \in NextTid
    /\ thread' = [thread EXCEPT ![new] = [NoThread EXCEPT !.at = "user", !.of = Of(t)]]
    /\ proc' = [proc EXCEPT ![Of(t)].threads = Append(@, new)]
    /\ UNCHANGED <<resting, sent, verdict>>

Fork(t, p, new, sibling, vfork) ==
    /\ InUser(t) /\ new \in NextTid /\ p \in NextPid
    /\ proc' = [proc EXCEPT ![p] = [NoProc EXCEPT !.state = "running", !.threads = <<new>>, !.ignored = proc[Of(t)].ignored,
                                                  !.parent = IF sibling THEN proc[Of(t)].parent ELSE Of(t)]]
    /\ thread' = [thread EXCEPT ![new] = [NoThread EXCEPT !.at = "user", !.of = p],
                                ![t] = IF vfork THEN [@ EXCEPT !.at = "vfork", !.for = {p}] ELSE @]
    /\ resting' = IF vfork THEN resting \cup {t} ELSE resting
    /\ UNCHANGED <<sent, verdict>>

VforkWakes(t) ==
    /\ thread[t].at = "vfork" /\ t \notin resting
    /\ IF \E c \in thread[t].for : proc[c].vforkDone
       THEN thread' = [thread EXCEPT ![t].at = "user", ![t].for = {}] /\ UNCHANGED resting
       ELSE resting' = resting \cup {t} /\ UNCHANGED thread
    /\ UNCHANGED <<proc, sent, verdict>>

VforkDone(s, p) ==
    [s EXCEPT !.proc[p].vforkDone = TRUE,
              !.resting = @ \ {t \in Threads : s.thread[t].at = "vfork" /\ p \in s.thread[t].for}]

\* do_execve: the other threads are sent SIGKILL, handlers go and ignored signals stay.
Exec(t) ==
    /\ InUser(t) /\ Of(t) # Init1
    /\ Become(VforkDone(KillOthers(Now, Of(t), t), Of(t)))
    /\ UNCHANGED <<sent, verdict>>

-----------------------------------------------------------------------------
\* process_exit: the children go to init, the parent is told, or reaps nothing when it ignores SIGCHLD.
ProcessExit(s, p, code) ==
    LET gone == VforkDone([s EXCEPT !.proc[p].code = IF s.proc[p].groupExit THEN @ ELSE code], p)
        orphans == {c \in Procs : s.proc[c].parent = p /\ s.proc[c].state \in {"running", "stopped", "zombie"}}
        handed == [gone EXCEPT !.proc = [c \in Procs |-> IF c \in orphans THEN [@[c] EXCEPT !.parent = Init1] ELSE @[c]],
                               !.resting = IF orphans = {} THEN @ ELSE
                                           @ \ {t \in Threads : s.thread[t].of = Init1 /\ s.thread[t].at = "wait"}]
        parent == s.proc[p].parent
        reaped == SIGCHLD \in s.proc[parent].ignored
        told == WakeParent(handed, p)
    IN [told EXCEPT !.proc[p] = IF reaped THEN Reaped ELSE [@ EXCEPT !.state = "zombie"]]

\* task_exit: the last thread takes the process with it.
TaskExit(s, t, code) ==
    LET p == s.thread[t].of
        left == [s EXCEPT !.thread[t] = [NoThread EXCEPT !.at = "gone"],
                          !.proc[p].threads = SelectSeq(@, LAMBDA x : x # t)]
    IN IF left.proc[p].threads = <<>> THEN ProcessExit(left, p, code) ELSE left

\* exit_group that would let the last one to leave decide the status.
ExitGroupLast(s, t, code) ==
    LET p == s.thread[t].of
    IN TaskExit(KillOthers([s EXCEPT !.proc[p].groupExit = TRUE, !.proc[p].code = code], p, t), t, code)

\* exit_group and exit_group_signal: the first to call it decides the status.
ExitGroup(s, t, code) ==
    LET p == s.thread[t].of
        marked == IF s.proc[p].groupExit THEN s ELSE [s EXCEPT !.proc[p].groupExit = TRUE, !.proc[p].code = code]
    IN TaskExit(KillOthers(marked, p, t), t, code)

Ends(t, code, s) ==
    /\ Become(s)
    /\ verdict' = IF verdict[Of(t)] = 0 THEN [verdict EXCEPT ![Of(t)] = code] ELSE verdict
    /\ UNCHANGED sent

Exit(t, code) ==
    /\ InUser(t) /\ Of(t) # Init1
    /\ \/ Ends(t, code, ExitGroup(Now, t, code))
       \/ /\ Len(proc[Of(t)].threads) > 1   \* exit of one thread
          /\ Become(TaskExit(Now, t, code))
          /\ UNCHANGED <<sent, verdict>>

-----------------------------------------------------------------------------
\* wait: what a child has to report under these options.
Reports(c, opts) ==
    \/ proc[c].state = "zombie"
    \/ "untraced" \in opts /\ proc[c].state = "stopped" /\ ~proc[c].stopReported
    \/ "continued" \in opts /\ proc[c].state = "running" /\ proc[c].stopReported /\ ~proc[c].contReported

StartWait(t, opts) ==
    /\ InUser(t) /\ Children(Of(t)) # {}
    /\ thread' = [thread EXCEPT ![t].at = "wait", ![t].for = opts]
    /\ UNCHANGED <<proc, resting, sent, verdict>>

Leaves(t) == thread' = [thread EXCEPT ![t].at = "user", ![t].for = {}] /\ UNCHANGED resting

\* One child's report is taken, a zombie with it; or there is no child, or a signal, or it sleeps.
Wait(t) ==
    /\ thread[t].at = "wait" /\ t \notin resting
    /\ \/ \E c \in {x \in Children(Of(t)) : Reports(x, thread[t].for)} :
             /\ proc' = [proc EXCEPT ![c] =
                    CASE @.state = "zombie" -> Reaped
                      [] @.state = "stopped" -> [@ EXCEPT !.stopReported = TRUE]
                      [] OTHER -> [@ EXCEPT !.stopReported = FALSE, !.contReported = TRUE]]
             /\ Leaves(t)
       \/ /\ \A c \in Children(Of(t)) : ~Reports(c, thread[t].for)
          /\ IF Children(Of(t)) = {} \/ Due(t) # {} THEN Leaves(t)
             ELSE resting' = resting \cup {t} /\ UNCHANGED thread
          /\ UNCHANGED proc
    /\ UNCHANGED <<sent, verdict>>

-----------------------------------------------------------------------------
\* do_stop: the process stops and its parent hears of it.
Stop(s, t) ==
    LET p == s.thread[t].of
    IN WakeParent([s EXCEPT !.proc[p].state = "stopped", !.proc[p].stopReported = FALSE,
                            !.thread[t].at = "stop", !.resting = @ \cup {t}], p)

\* A thread of a stopped process stops on its way out, too.
StopHere(t) ==
    /\ thread[t].at = "user" /\ proc[Of(t)].state = "stopped" /\ ~proc[Of(t)].groupExit
    /\ thread' = [thread EXCEPT ![t].at = "stop"]
    /\ resting' = resting \cup {t}
    /\ UNCHANGED <<proc, sent, verdict>>

\* It goes on once the process runs again or exits: it has to be woken to see it.
StopEnds(t) ==
    /\ thread[t].at = "stop" /\ t \notin resting
    /\ IF proc[Of(t)].state # "stopped" \/ proc[Of(t)].groupExit
       THEN thread' = [thread EXCEPT ![t].at = "user"] /\ UNCHANGED resting
       ELSE resting' = resting \cup {t} /\ UNCHANGED thread
    /\ UNCHANGED <<proc, sent, verdict>>

\* deliver_pending: the thread's own signals before the process's, SIGKILL before the others.
Deliver(t) ==
    /\ thread[t].at = "user" /\ Due(t) # {} /\ (proc[Of(t)].state = "stopped" => proc[Of(t)].groupExit)
    /\ LET own == thread[t].pending # {}
           sig == CHOOSE n \in (IF own THEN thread[t].pending ELSE proc[Of(t)].pending) :
                      \A m \in (IF own THEN thread[t].pending ELSE proc[Of(t)].pending) : n <= m
           taken == IF own THEN [Now EXCEPT !.thread[t].pending = @ \ {sig}]
                    ELSE [Now EXCEPT !.proc[Of(t)].pending = @ \ {sig}]
       IN CASE sig \in {SIGKILL, SIGTERM} -> Ends(t, sig, ExitGroup(taken, t, sig))
            [] sig = SIGSTOP -> Become(Stop(taken, t)) /\ UNCHANGED <<sent, verdict>>
            [] OTHER -> Become(taken) /\ UNCHANGED <<sent, verdict>>

ProcNext ==
    \/ \E p \in Procs, sig \in Signals \ {SIGCHLD} : Kill(p, sig)
    \/ \E t \in Threads :
          \/ Exec(t) \/ Wait(t) \/ VforkWakes(t) \/ StopHere(t) \/ StopEnds(t) \/ Deliver(t)
          \/ Ignore(t, SIGCHLD)
          \/ \E code \in ExitCodes : Exit(t, code)
          \/ StartWait(t, Options)
          \/ \E new \in Threads : CloneThread(t, new)
          \/ \E p \in Procs, new \in Threads, sibling, vfork \in BOOLEAN : Fork(t, p, new, sibling, vfork)

-----------------------------------------------------------------------------
\* A process that is there has a parent that can wait for it: orphans go to init (process_exit).
EveryChildHasAParent ==
    \A p \in Procs \ {Init1} : proc[p].state \in {"running", "stopped", "zombie"} => Alive(proc[p].parent)

\* Nobody sleeps in wait4 while a child has something to report, in vfork once the child has gone on, or
\* in a stop of a process that runs again.
ProcSleepersMustWait ==
    \A t \in resting :
        \/ thread[t].at = "wait" /\ \A c \in Children(Of(t)) : ~Reports(c, thread[t].for)
        \/ thread[t].at = "vfork" /\ \A c \in thread[t].for : ~proc[c].vforkDone
        \/ thread[t].at = "stop" /\ proc[Of(t)].state = "stopped"

\* A process is there while it has a thread, and once it exits every thread left is about to be killed.
ThreadsMakeTheProcess ==
    \A p \in Procs :
        /\ Alive(p) <=> proc[p].threads # <<>>
        /\ proc[p].groupExit => \A t \in Range(proc[p].threads) : SIGKILL \in thread[t].pending

\* The status the parent reads is the one of the first exit_group or fatal signal of the process.
FirstStatusStays == \A p \in Procs : proc[p].groupExit => proc[p].code = verdict[p]

ProcessesAreSound ==
    EveryChildHasAParent /\ ProcSleepersMustWait /\ ThreadsMakeTheProcess /\ FirstStatusStays
=============================================================================
