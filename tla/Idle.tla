-------------------------------- MODULE Idle --------------------------------
(***************************************************************************)
(* mindwm/src/idle.rs: the compositor's idle clock, which starts the       *)
(* screensaver, locks the session and switches the displays off, and what  *)
(* holds it: Wayland inhibitors and connections of the shell (ipc.rs).     *)
(* The compositor is one thread and a handler runs to its end; what varies *)
(* is the order of handlers and the clock between them.                    *)
(*                                                                         *)
(* Time is in whole seconds, as idle_tick counts it.  A timer that is due  *)
(* goes off before the next second.  The broadcast of an event may find    *)
(* that a connection is dead; since every part of the compositor           *)
(* broadcasts, that is an action of its own, possible at any time.  The    *)
(* saver's name, the pointer, the keyboard focus and the clients of        *)
(* ext-idle-notify are left out.                                           *)
(***************************************************************************)
EXTENDS Integers, FiniteSetsExt

CONSTANTS
    Timeouts,    \* what a timeout may be set to, in seconds; 0 is never
    Clients,     \* connections of the shell; a new one has a new id
    Surfaces,    \* surfaces of video players
    MaxIdle      \* bound: seconds without a reset of the clock

ASSUME IdleAssumption ==
    /\ Timeouts \subseteq Nat
    /\ MaxIdle \in Nat

VARIABLES
    session,     \* IdleState without the holders, and what was last told
    prefs,       \* Prefs::idle
    inhibitors,  \* IdleState.inhibitors
    holds,       \* IdleState.holds
    conn,        \* each connection: not yet made, on, or gone
    playing,     \* surfaces with an inhibitor object of their own
    darkLock     \* auxiliary: lock_on_blank when the displays went off

vars == <<session, prefs, inhibitors, holds, conn, playing, darkLock>>

Stages == {"active", "screensaver", "blank"}
NoTimer == -1

Told == [stage : Stages, locked : BOOLEAN, inhibited : BOOLEAN]

\* idle is the time since the clock was last reset, timer what is left of it.
Session ==
    [stage : Stages, locked : BOOLEAN, idle : Nat, timer : Nat \cup {NoTimer}, told : Told]

IdleSettings ==
    [screensaver : Timeouts, lock : Timeouts, blank : Timeouts,
     lock_on_blank : BOOLEAN, stay_awake_when_busy : BOOLEAN]

TypeOK ==
    /\ session \in Session
    /\ session.idle <= MaxIdle
    /\ prefs \in IdleSettings
    /\ inhibitors \subseteq Surfaces
    /\ holds \subseteq Clients
    /\ conn \in [Clients -> {"none", "on", "gone"}]
    /\ playing \in [Surfaces -> {"none", "on", "gone"}]
    /\ darkLock \in BOOLEAN

-----------------------------------------------------------------------------
(***************************************************************************)
(* The parts the handlers are made of: functions of the session s, the     *)
(* settings p and whether something holds the session awake.               *)
(***************************************************************************)

\* idle_inhibited.
Inhibited(p, inh, hld) == p.stay_awake_when_busy /\ (inh # {} \/ hld # {})

\* The timeouts that are set and still to come.
Deadlines(s, p) ==
    {d \in Timeouts \ {0} :
        \/ d = p.screensaver /\ s.stage = "active"
        \/ d = p.lock /\ ~s.locked
        \/ d = p.blank /\ s.stage # "blank"}

\* next_deadline: the time left to the first of them.
NextDeadline(s, p) ==
    IF Deadlines(s, p) = {} THEN NoTimer
    ELSE LET first == Min(Deadlines(s, p))
         IN  IF first > s.idle THEN first - s.idle ELSE 0

ArmIdleTimer(s, p, awake) ==
    [s EXCEPT !.timer = IF awake THEN NoTimer ELSE NextDeadline(s, p)]

\* idle.since = now.
Reset(s) == [s EXCEPT !.idle = 0]

IdleJson(s, awake) == [stage |-> s.stage, locked |-> s.locked, inhibited |-> awake]

\* idle_changed: the event is sent when it says something new.
IdleChanged(s, awake) == [s EXCEPT !.told = IdleJson(s, awake)]

SetStage(s, stage, awake) ==
    IF s.stage = stage THEN s ELSE IdleChanged([s EXCEPT !.stage = stage], awake)

SetLocked(s, locked, p, awake) ==
    IF s.locked = locked THEN s
    ELSE ArmIdleTimer(IdleChanged(Reset([s EXCEPT !.locked = locked]), awake), p, awake)

WakeIdle(s, p, awake) ==
    ArmIdleTimer(SetStage(Reset(s), "active", awake), p, awake)

BlankNow(s, p, awake) ==
    LET safe == IF p.lock_on_blank THEN SetLocked(s, TRUE, p, awake) ELSE s
    IN  ArmIdleTimer(SetStage(safe, "blank", awake), p, awake)

\* Mutant: the shell is not told who holds the session awake.
InhibitChangedQuietly(s, p, awake) ==
    ArmIdleTimer(IF awake THEN s ELSE Reset(s), p, awake)

\* idle_inhibit_changed.
InhibitChanged(s, p, awake) ==
    IdleChanged(ArmIdleTimer(IF awake THEN s ELSE Reset(s), p, awake), awake)

\* idle_tick: as far as the session should go.  Every timeout is compared
\* with the time before the lock reset it.
Advance(s, p, awake) ==
    LET due(seconds) == seconds > 0 /\ s.idle + 1 >= seconds
        locked == IF due(p.lock) \/ (due(p.blank) /\ p.lock_on_blank)
                  THEN SetLocked(s, TRUE, p, awake) ELSE s
        moved == IF due(p.blank) THEN SetStage(locked, "blank", awake)
                 ELSE IF due(p.screensaver) /\ s.stage = "active"
                 THEN SetStage(locked, "screensaver", awake)
                 ELSE locked
    IN  ArmIdleTimer(moved, p, awake)

\* A session that has just started; the shell asks for its state (get_idle).
Fresh ==
    [stage |-> "active", locked |-> FALSE, idle |-> 0, timer |-> NoTimer,
     told |-> [stage |-> "active", locked |-> FALSE, inhibited |-> FALSE]]

Awake == Inhibited(prefs, inhibitors, holds)

-----------------------------------------------------------------------------
(***************************************************************************)
(* The compositor starts: the settings are read from their file and the    *)
(* timer is armed.                                                         *)
(***************************************************************************)

Init ==
    /\ prefs \in IdleSettings
    /\ inhibitors = {}
    /\ holds = {}
    /\ conn = [c \in Clients |-> "none"]
    /\ playing = [s \in Surfaces |-> "none"]
    /\ darkLock = FALSE
    /\ session = ArmIdleTimer(Fresh, prefs, FALSE)

-----------------------------------------------------------------------------
(***************************************************************************)
(* Input and requests.                                                     *)
(***************************************************************************)

holders == <<inhibitors, holds, conn, playing>>

\* Whether the displays went off under lock_on_blank.
NoteDark ==
    darkLock' = IF session.stage # "blank" /\ session'.stage = "blank"
                THEN prefs.lock_on_blank ELSE darkLock

\* Mutant: an event that only wakes the screen leaves the timer alone.
NoteActivityUnarmed ==
    /\ session' = IF session.stage = "active" THEN WakeIdle(session, prefs, Awake)
                  ELSE SetStage(Reset(session), "active", Awake)
    /\ UNCHANGED <<prefs, holders, darkLock>>

\* A key, click or gesture.
NoteActivity ==
    /\ session' = WakeIdle(session, prefs, Awake)
    /\ UNCHANGED <<prefs, holders, darkLock>>

\* Request::Lock and Super+L.
Lock ==
    /\ session' = SetLocked(session, TRUE, prefs, Awake)
    /\ UNCHANGED <<prefs, holders, darkLock>>

\* Mutant: the displays are left as they are.
UnlockInTheDark ==
    /\ session' = SetLocked(session, FALSE, prefs, Awake)
    /\ UNCHANGED <<prefs, holders, darkLock>>

\* Request::Unlock.
Unlock ==
    /\ session' = WakeIdle(SetLocked(session, FALSE, prefs, Awake), prefs, Awake)
    /\ UNCHANGED <<prefs, holders, darkLock>>

\* Request::Wake.
Wake ==
    /\ session' = WakeIdle(session, prefs, Awake)
    /\ UNCHANGED <<prefs, holders, darkLock>>

\* Request::Blank.
Blank ==
    /\ session' = BlankNow(session, prefs, Awake)
    /\ NoteDark
    /\ UNCHANGED <<prefs, holders>>

\* A patch of the settings.  One that changes several is like several in a
\* row: each resets the clock, arms the timer and tells.
Patches(p) ==
    {[p EXCEPT !.screensaver = t] : t \in Timeouts}
    \cup {[p EXCEPT !.lock = t] : t \in Timeouts}
    \cup {[p EXCEPT !.blank = t] : t \in Timeouts}
    \cup {[p EXCEPT !.lock_on_blank = b] : b \in BOOLEAN}
    \cup {[p EXCEPT !.stay_awake_when_busy = b] : b \in BOOLEAN}

\* set_prefs.
SetPrefs ==
    /\ prefs' \in Patches(prefs)
    /\ LET awake == Inhibited(prefs', inhibitors, holds)
       IN  session' = IdleChanged(ArmIdleTimer(Reset(session), prefs', awake), awake)
    /\ UNCHANGED <<holders, darkLock>>

\* A second passes; a timer that is due comes first.
Second ==
    /\ session.timer # 0
    /\ session.idle < MaxIdle
    /\ session' = [session EXCEPT !.idle = @ + 1,
                                  !.timer = IF @ = NoTimer THEN NoTimer ELSE @ - 1]
    /\ UNCHANGED <<prefs, holders, darkLock>>

IdleTick ==
    /\ session.timer = 0
    /\ session' = IF Awake THEN ArmIdleTimer(Reset(session), prefs, Awake)
                  ELSE Advance(session, prefs, Awake)
    /\ NoteDark
    /\ UNCHANGED <<prefs, holders>>

-----------------------------------------------------------------------------
(***************************************************************************)
(* What holds the session awake.                                           *)
(***************************************************************************)

HoldersChange(inh, hld) ==
    session' = InhibitChanged(session, prefs, Inhibited(prefs, inh, hld))

Connect(c) ==
    /\ conn[c] = "none"
    /\ conn' = [conn EXCEPT ![c] = "on"]
    /\ UNCHANGED <<session, prefs, inhibitors, holds, playing, darkLock>>

\* set_idle_hold.
SetIdleHold(new) ==
    /\ holds' = new
    /\ IF new # holds THEN HoldersChange(inhibitors, new) ELSE UNCHANGED session
    /\ UNCHANGED <<prefs, inhibitors, playing, darkLock>>

\* Request::InhibitIdle.
InhibitIdle(c) ==
    /\ conn[c] = "on"
    /\ SetIdleHold(holds \cup {c}) \/ SetIdleHold(holds \ {c})
    /\ UNCHANGED conn

\* ipc_drop_client: the connection turns out to be closed when it is read or
\* answered.
DropClient(c) ==
    /\ conn[c] = "on"
    /\ conn' = [conn EXCEPT ![c] = "gone"]
    /\ SetIdleHold(holds \ {c})

\* ipc_broadcast: the connection turns out to be closed or stalled when an
\* event is sent.
BroadcastDrops(c) ==
    /\ conn[c] = "on"
    /\ conn' = [conn EXCEPT ![c] = "gone"]
    /\ UNCHANGED <<session, prefs, inhibitors, holds, playing, darkLock>>

\* A player makes its surface's inhibitor object, and destroys it.
Inhibit(s) ==
    /\ playing[s] = "none"
    /\ playing' = [playing EXCEPT ![s] = "on"]
    /\ inhibitors' = inhibitors \cup {s}
    /\ HoldersChange(inhibitors', holds)
    /\ UNCHANGED <<prefs, holds, conn, darkLock>>

Uninhibit(s) ==
    /\ playing[s] = "on"
    /\ playing' = [playing EXCEPT ![s] = "none"]
    /\ inhibitors' = inhibitors \ {s}
    /\ HoldersChange(inhibitors', holds)
    /\ UNCHANGED <<prefs, holds, conn, darkLock>>

\* The player ends without destroying it: nobody tells the compositor's set.
PlayerDies(s) ==
    /\ playing[s] = "on"
    /\ playing' = [playing EXCEPT ![s] = "gone"]
    /\ UNCHANGED <<session, prefs, inhibitors, holds, conn, darkLock>>

Next ==
    \/ IdleTick \/ Second
    \/ NoteActivity \/ Lock \/ Unlock \/ Wake \/ Blank \/ SetPrefs
    \/ \E c \in Clients : Connect(c) \/ InhibitIdle(c) \/ DropClient(c) \/ BroadcastDrops(c)
    \/ \E s \in Surfaces : Inhibit(s) \/ Uninhibit(s) \/ PlayerDies(s)

Spec == Init /\ [][Next]_vars

-----------------------------------------------------------------------------
(***************************************************************************)
(* Properties.                                                             *)
(***************************************************************************)

\* Nothing that is due is missed, whichever handler reset the clock, undid a
\* stage or changed a timeout last: an open deadline is never passed by, and
\* nothing is armed while the session is held awake (idle.rs:211-276).
NothingIsMissed ==
    IF Awake THEN session.timer = NoTimer
    ELSE \A d \in Deadlines(session, prefs) : session.idle <= d

\* Displays that went off under lock_on_blank come back to a locked session,
\* whatever was requested or set in between (idle.rs:177-183, 254-276,
\* ipc.rs:946-949).
DarkMeansLocked == session.stage = "blank" /\ darkLock => session.locked

\* The shell, which draws the screensaver and the lock, has been told where
\* the session stands: the last event is never out of date, although events
\* are suppressed when they seem to repeat (idle.rs:279-298).
ShellIsTold == session.told = IdleJson(session, Awake)

\* The clock, its four stages and its holders come down to the promise of
\* SessionLock, on which the shell's suspend relies: whichever handler runs,
\* only Unlock opens the session, and never in the dark.
Promise == INSTANCE SessionLock WITH locked <- session.locked, stage <- session.stage
KeepsThePromise == Promise!LockSpec

=============================================================================
