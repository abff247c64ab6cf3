------------------------------- MODULE Suspend -------------------------------
(***************************************************************************)
(* mindshell/src/sleepwatch.rs: a thread of the shell holds a delay        *)
(* inhibitor of logind; when a suspend is announced it has the compositor  *)
(* lock the session and blank the displays, and only after both replies    *)
(* lets go.  The compositor is SessionLock; it may be slow or hang, and    *)
(* handles what is left in a socket that the watcher has given up.  logind *)
(* waits for the inhibitor, but not forever.                               *)
(***************************************************************************)
EXTENDS Naturals, Sequences, SequencesExt

CONSTANTS
    MaxSuspends   \* bound: suspends

VARIABLES
    locked, stage,   \* the compositor's, see SessionLock
    machine,         \* "up", "announced" or "asleep"
    signals,         \* PrepareForSleep signals the watcher has not read
    inhibitor,       \* the watcher's inhibitor is held
    lockOnSleep,     \* lock_on_sleep, which Settings may change at any time
    watcher,         \* where the watcher's thread is
    wakeOnResume,    \* wake_on_resume
    wire,            \* requests that the compositor has not handled
    reply,           \* the reply on the watcher's connection
    suspends,
    excused          \* auxiliary: why this suspend need not find the lock closed

suspendVars ==
    <<locked, stage, machine, signals, inhibitor, lockOnSleep, watcher, wakeOnResume,
      wire, reply, suspends, excused>>

Compositor == INSTANCE SessionLock

NoReply == [to |-> "none", locked |-> FALSE, stage |-> "active"]

SuspendInit ==
    /\ Compositor!StartUnlocked
    /\ machine = "up"
    /\ signals = <<>>
    /\ inhibitor \in BOOLEAN
    /\ lockOnSleep \in BOOLEAN
    /\ watcher = "wait"
    /\ wakeOnResume = FALSE
    /\ wire = <<>>
    /\ reply = NoReply
    /\ suspends = 0
    /\ excused = {}

desk == <<locked, stage>>
logind == <<machine, signals, suspends, lockOnSleep>>

\* A request goes out on the watcher's connection.
Request(action, at) ==
    /\ wire' = Append(wire, [action |-> action, mine |-> TRUE])
    /\ reply' = NoReply
    /\ watcher' = at

\* The connection is closed; what was written to it is still there.
HangUp ==
    /\ wire' = [i \in DOMAIN wire |-> [wire[i] EXCEPT !.mine = FALSE]]
    /\ reply' = NoReply

-----------------------------------------------------------------------------
(***************************************************************************)
(* The watcher.                                                            *)
(***************************************************************************)

\* Mutant: the request is written and the inhibitor let go.
PrepareWithoutWaiting ==
    /\ watcher = "wait"
    /\ signals # <<>> /\ Head(signals)
    /\ signals' = Tail(signals)
    /\ wakeOnResume' = lockOnSleep
    /\ excused' = IF lockOnSleep THEN excused ELSE excused \cup {"off"}
    /\ wire' = IF lockOnSleep THEN Append(wire, [action |-> "lock", mine |-> TRUE]) ELSE wire
    /\ watcher' = "release"
    /\ UNCHANGED <<desk, machine, suspends, inhibitor, lockOnSleep, reply>>

\* PrepareForSleep(true): the preference is read now.
Prepare ==
    /\ watcher = "wait"
    /\ signals # <<>> /\ Head(signals)
    /\ signals' = Tail(signals)
    /\ wakeOnResume' = lockOnSleep
    /\ IF lockOnSleep
       THEN Request("lock", "lock") /\ UNCHANGED excused
       ELSE watcher' = "release" /\ excused' = excused \cup {"off"} /\ UNCHANGED <<wire, reply>>
    /\ UNCHANGED <<desk, machine, suspends, inhibitor, lockOnSleep>>

\* compositor_actions: a reply that says what it has to.
Confirms(action) ==
    /\ reply.to = action
    /\ action \in {"lock", "blank"} => reply.locked
    /\ action = "blank" => reply.stage = "blank"

Confirmed ==
    /\ \/ watcher = "lock" /\ Confirms("lock") /\ Request("blank", "blank")
       \/ watcher = "relock" /\ Confirms("lock") /\ Request("wake", "wake")
       \/ watcher = "blank" /\ Confirms("blank") /\ watcher' = "release" /\ HangUp
       \/ watcher = "wake" /\ Confirms("wake") /\ watcher' = "report" /\ HangUp
    /\ UNCHANGED <<desk, logind, inhibitor, wakeOnResume, excused>>

\* Four seconds are over, the reply is not the right one, or nobody listens.
Unconfirmed ==
    /\ \/ watcher \in {"lock", "blank"} /\ watcher' = "release"
       \/ watcher \in {"relock", "wake"} /\ watcher' = "report"
    /\ HangUp
    /\ excused' = excused \cup {"failed"}
    /\ UNCHANGED <<desk, logind, inhibitor, wakeOnResume>>

Release ==
    /\ watcher = "release"
    /\ inhibitor' = FALSE
    /\ watcher' = "wait"
    /\ UNCHANGED <<desk, logind, wakeOnResume, wire, reply, excused>>

\* PrepareForSleep(false): the inhibitor is asked for, which takes a while and
\* may be refused, ...
Back ==
    /\ watcher = "wait"
    /\ signals # <<>> /\ ~Head(signals)
    /\ signals' = Tail(signals)
    /\ watcher' = "take"
    /\ UNCHANGED <<desk, machine, suspends, lockOnSleep, inhibitor, wakeOnResume, wire, reply,
                   excused>>

\* ... and the lock is reconfirmed before the displays are woken.
Take ==
    /\ watcher = "take"
    /\ inhibitor' \in BOOLEAN
    /\ IF wakeOnResume THEN Request("lock", "relock")
       ELSE watcher' = "report" /\ UNCHANGED <<wire, reply>>
    /\ UNCHANGED <<desk, logind, wakeOnResume, excused>>

\* HostEvent::Resumed.
Report ==
    /\ watcher = "report"
    /\ watcher' = "wait"
    /\ wakeOnResume' = FALSE
    /\ UNCHANGED <<desk, logind, inhibitor, wire, reply, excused>>

-----------------------------------------------------------------------------
(***************************************************************************)
(* The compositor, the user and logind.                                    *)
(***************************************************************************)

\* Requests of one connection are handled in order, those of two in any.
Handle ==
    /\ \E i \in DOMAIN wire :
          /\ \A j \in 1..(i - 1) : wire[j].mine # wire[i].mine
          /\ \/ wire[i].action = "lock" /\ Compositor!LockSession
             \/ wire[i].action = "blank" /\ Compositor!BlankDisplays
             \/ wire[i].action = "wake" /\ Compositor!WakeDisplays
          /\ wire' = RemoveAt(wire, i)
          /\ reply' = IF wire[i].mine
                      THEN [to |-> wire[i].action, locked |-> locked', stage |-> stage']
                      ELSE reply
    /\ UNCHANGED <<logind, inhibitor, watcher, wakeOnResume, excused>>

\* Input, timeouts, other requests, and the password.
Elsewhere ==
    /\ Compositor!LockNext
    /\ excused' = excused \cup {x \in {"unlocked"} : locked /\ ~locked'}
    /\ UNCHANGED <<logind, inhibitor, watcher, wakeOnResume, wire, reply>>

SetLockOnSleep ==
    /\ lockOnSleep' = ~lockOnSleep
    /\ UNCHANGED <<desk, machine, signals, suspends, inhibitor, watcher, wakeOnResume, wire,
                   reply, excused>>

\* logind has not waited for the suspend before this one: the inhibitor that
\* is held is for that one.
Behind == signals # <<>> \/ watcher \in {"lock", "blank", "release"}

PrepareForSleep ==
    /\ machine = "up"
    /\ suspends < MaxSuspends
    /\ machine' = "announced"
    /\ suspends' = suspends + 1
    /\ signals' = Append(signals, TRUE)
    /\ excused' = {x \in {"no inhibitor"} : ~inhibitor} \cup {x \in {"behind"} : Behind}
    /\ UNCHANGED <<desk, inhibitor, lockOnSleep, watcher, wakeOnResume, wire, reply>>

\* InhibitDelayMaxSec over, the inhibitor no longer counts.
Sleep ==
    /\ machine = "announced"
    /\ machine' = "asleep"
    /\ excused' = excused \cup {x \in {"forced"} : inhibitor}
    /\ UNCHANGED <<desk, signals, suspends, inhibitor, lockOnSleep, watcher, wakeOnResume,
                   wire, reply>>

Resume ==
    /\ machine = "asleep"
    /\ machine' = "up"
    /\ signals' = Append(signals, FALSE)
    /\ UNCHANGED <<desk, suspends, inhibitor, lockOnSleep, watcher, wakeOnResume, wire, reply,
                   excused>>

SuspendNext ==
    \/ /\ machine # "asleep"
       /\ \/ Prepare \/ Confirmed \/ Unconfirmed \/ Release \/ Back \/ Take \/ Report
          \/ Handle \/ Elsewhere \/ SetLockOnSleep
    \/ PrepareForSleep \/ Sleep \/ Resume

SuspendSpec == SuspendInit /\ [][SuspendNext]_suspendVars

-----------------------------------------------------------------------------
\* The machine never sleeps with an open session, unless the watcher had no
\* inhibitor of its own when it was announced, logind would not wait, the
\* compositor did not answer as it should, the preference is off, or someone
\* has unlocked it meanwhile: not after a second suspend that is announced while
\* the first resume is still being handled, and not because of a request of
\* an earlier attempt that is handled late (sleepwatch.rs:86-125).
SleepsLocked == machine = "asleep" => locked \/ excused # {}
=============================================================================
