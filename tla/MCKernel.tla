------------------------------ MODULE MCKernel ------------------------------
(***************************************************************************)
(* The research kernel's parts, checked side by side: one part is at work, *)
(* the others stay as they began.                                          *)
(***************************************************************************)
EXTENDS KernelSched, KernelPipe, KernelFutex, KernelEvents, TLC

CONSTANTS
    Procs, Init1, Threads, First, ExitCodes, MaxSends,   \* KernelProc
    NoMask, MaxFrames,                                   \* KernelSignals
    Spaces, Top, Frames, MaxCalls, MaxLost,              \* KernelMemory
    Inos, Names, MaxLinks, MaxMounts, MaxNames, PathLen, \* KernelTree
    FdProcs, MAX_FDS, MaxFiles,                          \* KernelFds
    MaxTyped, MaxLine, MaxRaw, Masters, MAX_PTYS         \* KernelTty

\* The ring of a pipe has room; tasks are finitely many; counters are numbers.
ASSUME KernelAssumption ==
    /\ IsFiniteSet(PipeTasks) /\ PipeTasks # {}
    /\ PIPE_BUF_SIZE \in Nat \ {0} /\ Atomic \in Nat
    /\ MaxCount \in Nat

VARIABLES
    working,   \* which of them is at work
    proc, thread, resting, sent, verdict,
    where, mask, posted, action, frames, saved, rax, syscall, did, wanted, borrowed,
    space, ram, cache, lost, calls, opened,
    node, cwd, mounts, oops,
    table, twin, dropped, given,
    mode, setting, input, typing, typed, got, out, reader, writer, master, hangup, mixed,
    ptys, names, opening, index, crossed

C == INSTANCE KernelProc
G == INSTANCE KernelSignals
M == INSTANCE KernelMemory
T == INSTANCE KernelTree
D == INSTANCE KernelFds
Y == INSTANCE KernelTty WITH step <- opening

taskVars == <<schedVars, pipeVars, futexVars, countVars, timerVars, epollVars>>

procVars == <<proc, thread, resting, sent, verdict>>
signalVars == <<where, mask, posted, action, frames, saved, rax, syscall, did, wanted, borrowed>>
memoryVars == <<space, ram, cache, lost, calls, opened>>
treeVars == <<node, cwd, mounts, oops>>
fdVars == <<table, twin, dropped, given>>
ttyVars == <<mode, setting, input, typing, typed, got, out, reader, writer, master, hangup, mixed>>
ptyVars == <<ptys, names, opening, index, crossed>>
processVars == <<procVars, signalVars, memoryVars, treeVars, fdVars, ttyVars, ptyVars>>

vars == <<working, taskVars, processVars>>

TaskParts == {"sched", "pipe", "futex", "count", "timer", "epoll"}
ProcessParts == {"proc", "signals", "memory", "tree", "fds", "tty", "pty"}

Init ==
    /\ working \in TaskParts \cup ProcessParts
    /\ SchedInit /\ PipeInit /\ FutexInit /\ EventInit
    /\ C!ProcInit /\ G!SignalInit /\ M!MemoryInit /\ T!TreeInit /\ D!FdInit /\ Y!TtyInit /\ Y!PtyInit
    /\ working # "sched" => cpu.current = CHOOSE t \in Tasks : TRUE
    /\ working # "count" => ~semaphore
    /\ working # "memory" => space[1].areas = {}

TasksNext ==
    /\ UNCHANGED processVars
    /\ \/ working = "sched" /\ SchedNext
          /\ UNCHANGED <<pipeVars, futexVars, countVars, timerVars, epollVars>>
       \/ working = "pipe" /\ PipeNext
          /\ UNCHANGED <<schedVars, futexVars, countVars, timerVars, epollVars>>
       \/ working = "futex" /\ FutexNext
          /\ UNCHANGED <<schedVars, pipeVars, countVars, timerVars, epollVars>>
       \/ working = "count" /\ CountNext
          /\ UNCHANGED <<schedVars, pipeVars, futexVars, timerVars, epollVars>>
       \/ working = "timer" /\ TimerNext
          /\ UNCHANGED <<schedVars, pipeVars, futexVars, countVars, epollVars>>
       \/ working = "epoll" /\ EpollNext
          /\ UNCHANGED <<schedVars, pipeVars, futexVars, countVars, timerVars>>

ProcessesNext ==
    /\ UNCHANGED taskVars
    /\ \/ working = "proc" /\ C!ProcNext
          /\ UNCHANGED <<signalVars, memoryVars, treeVars, fdVars, ttyVars, ptyVars>>
       \/ working = "signals" /\ G!SignalNext
          /\ UNCHANGED <<procVars, memoryVars, treeVars, fdVars, ttyVars, ptyVars>>
       \/ working = "memory" /\ M!MemoryNext
          /\ UNCHANGED <<procVars, signalVars, treeVars, fdVars, ttyVars, ptyVars>>
       \/ working = "tree" /\ T!TreeNext
          /\ UNCHANGED <<procVars, signalVars, memoryVars, fdVars, ttyVars, ptyVars>>
       \/ working = "fds" /\ D!FdNext
          /\ UNCHANGED <<procVars, signalVars, memoryVars, treeVars, ttyVars, ptyVars>>
       \/ working = "tty" /\ Y!TtyNext
          /\ UNCHANGED <<procVars, signalVars, memoryVars, treeVars, fdVars, ptyVars>>
       \/ working = "pty" /\ Y!PtyNext
          /\ UNCHANGED <<procVars, signalVars, memoryVars, treeVars, fdVars, ttyVars>>

Next ==
    /\ UNCHANGED working
    /\ TasksNext \/ ProcessesNext

Spec == Init /\ [][Next]_vars

\* What the other parts promise, each where it is at work: see its module.
ChannelsAreSound ==
    /\ working = "pipe" => PipeIsSound
    /\ working = "futex" => FutexIsSound
    /\ working \in {"count", "timer", "epoll"} => EventsAreSound

ProcessesAreSound ==
    /\ working = "proc" => C!ProcessesAreSound
    /\ working = "signals" => G!SignalsAreSound

ResourcesAreSound ==
    /\ working = "memory" => M!MemoryIsSound
    /\ working = "tree" => T!TreeIsSound
    /\ working = "fds" => D!FdsAreSound
    /\ working \in {"tty", "pty"} => Y!TerminalsAreSound

Symmetry == Permutations(Tasks)
=============================================================================
