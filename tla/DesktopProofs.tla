--------------------------- MODULE DesktopProofs ---------------------------
(***************************************************************************)
(* For any timeouts, connections and surfaces: no deadline is missed, the  *)
(* shell knows where the session stands, and displays that went off under  *)
(* lock_on_blank come back to a locked session.  For any windows, buttons  *)
(* and fingers: what takes a press sees its end.  Displays are not         *)
(* flashed, and silences, refusals and spins end.                          *)
(***************************************************************************)
EXTENDS MCDesktop, FiniteSetTheorems, WellFoundedInduction, TLAPS

\* A session as every handler leaves it, but for its timer: nothing is
\* overdue and the shell has been told.
Settled(s, p, awake) ==
    /\ s \in Session
    /\ s.idle <= MaxIdle
    /\ s.told = IdleJson(s, awake)
    /\ ~awake => \A d \in Deadlines(s, p) : s.idle <= d

\* The timer a session should have.
TimerFor(s, p, awake) == IF awake THEN NoTimer ELSE NextDeadline(s, p)

Armed(s, p, awake) == Settled(s, p, awake) /\ s.timer = TimerFor(s, p, awake)

\* The inductive invariant.
Inv == TypeOK /\ Armed(session, prefs, Awake) /\ DarkMeansLocked

-----------------------------------------------------------------------------
(***************************************************************************)
(* The next deadline.                                                      *)
(***************************************************************************)

LEMMA DeadlinesTyped ==
    ASSUME NEW s \in Session, NEW p \in IdleSettings
    PROVE  Deadlines(s, p) \subseteq Nat /\ Deadlines(s, p) \subseteq {p.screensaver, p.lock, p.blank}
  BY IdleAssumption DEF Deadlines

LEMMA LeastOfThree ==
    ASSUME NEW a \in Nat, NEW b \in Nat, NEW c \in Nat, NEW D, D \subseteq {a, b, c}, D # {}
    PROVE  \E x \in D : \A y \in D : x <= y
<1>0. a \in D \/ b \in D \/ c \in D
  OBVIOUS
<1>1. CASE a \in D /\ (b \in D => a <= b) /\ (c \in D => a <= c)
  BY <1>1
<1>2. CASE b \in D /\ (a \in D => b <= a) /\ (c \in D => b <= c)
  BY <1>2
<1>3. CASE c \in D /\ (a \in D => c <= a) /\ (b \in D => c <= b)
  BY <1>3
<1>4. \/ a \in D /\ (b \in D => a <= b) /\ (c \in D => a <= c)
      \/ b \in D /\ (a \in D => b <= a) /\ (c \in D => b <= c)
      \/ c \in D /\ (a \in D => c <= a) /\ (b \in D => c <= b)
  BY <1>0
<1> QED
  BY <1>1, <1>2, <1>3, <1>4

LEMMA FirstDeadline ==
    ASSUME NEW s \in Session, NEW p \in IdleSettings, Deadlines(s, p) # {}
    PROVE  /\ Min(Deadlines(s, p)) \in Deadlines(s, p)
           /\ \A d \in Deadlines(s, p) : Min(Deadlines(s, p)) <= d
<1>1. p.screensaver \in Nat /\ p.lock \in Nat /\ p.blank \in Nat
  BY IdleAssumption DEF IdleSettings
<1>2. \E x \in Deadlines(s, p) : \A y \in Deadlines(s, p) : x <= y
  BY <1>1, DeadlinesTyped, LeastOfThree
<1> QED
  BY <1>2 DEF Min

LEMMA NextDeadlineTyped ==
    ASSUME NEW s \in Session, NEW p \in IdleSettings
    PROVE  NextDeadline(s, p) \in Nat \cup {NoTimer}
<1>1. CASE Deadlines(s, p) = {}
  BY <1>1 DEF NextDeadline
<1>2. CASE Deadlines(s, p) # {}
  <2>1. Min(Deadlines(s, p)) \in Nat
    BY <1>2, FirstDeadline, DeadlinesTyped
  <2>2. s.idle \in Nat
    BY DEF Session
  <2> QED
    BY <1>2, <2>1, <2>2 DEF NextDeadline
<1> QED
  BY <1>1, <1>2

\* Deadlines depend on the stage and the lock only.
LEMMA SameDeadlines ==
    ASSUME NEW s \in Session, NEW t \in Session, NEW p \in IdleSettings,
           s.stage = t.stage, s.locked = t.locked
    PROVE  /\ Deadlines(s, p) = Deadlines(t, p)
           /\ s.idle = t.idle => NextDeadline(s, p) = NextDeadline(t, p)
<1>1. Deadlines(s, p) = Deadlines(t, p)
  BY DEF Deadlines
<1> QED
  BY <1>1 DEF NextDeadline

-----------------------------------------------------------------------------
(***************************************************************************)
(* What each part of a handler does to a session.                          *)
(***************************************************************************)

LEMMA ResetFields ==
    ASSUME NEW s \in Session
    PROVE  /\ Reset(s) \in Session /\ Reset(s).idle = 0
           /\ Reset(s).stage = s.stage /\ Reset(s).locked = s.locked
           /\ Reset(s).timer = s.timer /\ Reset(s).told = s.told
  BY DEF Reset, Session

LEMMA ChangedFields ==
    ASSUME NEW s \in Session, NEW awake \in BOOLEAN
    PROVE  /\ IdleChanged(s, awake) \in Session
           /\ IdleChanged(s, awake).told = IdleJson(s, awake)
           /\ IdleChanged(s, awake).stage = s.stage /\ IdleChanged(s, awake).locked = s.locked
           /\ IdleChanged(s, awake).timer = s.timer /\ IdleChanged(s, awake).idle = s.idle
<1>1. IdleJson(s, awake) \in Told
  BY DEF IdleJson, Told, Session
<1> QED
  BY <1>1 DEF IdleChanged, Session

LEMMA ArmFields ==
    ASSUME NEW s \in Session, NEW p \in IdleSettings, NEW awake \in BOOLEAN
    PROVE  /\ ArmIdleTimer(s, p, awake) \in Session
           /\ ArmIdleTimer(s, p, awake).timer = TimerFor(s, p, awake)
           /\ ArmIdleTimer(s, p, awake).stage = s.stage /\ ArmIdleTimer(s, p, awake).locked = s.locked
           /\ ArmIdleTimer(s, p, awake).told = s.told /\ ArmIdleTimer(s, p, awake).idle = s.idle
<1>1. TimerFor(s, p, awake) \in Nat \cup {NoTimer}
  BY NextDeadlineTyped DEF TimerFor
<1>2. ArmIdleTimer(s, p, awake) = [s EXCEPT !.timer = TimerFor(s, p, awake)]
  BY DEF ArmIdleTimer, TimerFor
<1> HIDE DEF TimerFor
<1> QED
  BY <1>1, <1>2 DEF Session

\* Arming finishes a session that is settled but for its timer.
LEMMA ArmSettled ==
    ASSUME NEW s, NEW p \in IdleSettings, NEW awake \in BOOLEAN, Settled(s, p, awake)
    PROVE  Armed(ArmIdleTimer(s, p, awake), p, awake)
<1> DEFINE a == ArmIdleTimer(s, p, awake)
<1>1. s \in Session
  BY DEF Settled
<1>2. /\ a \in Session /\ a.timer = TimerFor(s, p, awake)
      /\ a.stage = s.stage /\ a.locked = s.locked /\ a.told = s.told /\ a.idle = s.idle
  BY <1>1, ArmFields
<1> HIDE DEF a
<1>3. TimerFor(a, p, awake) = TimerFor(s, p, awake) /\ Deadlines(a, p) = Deadlines(s, p)
  BY <1>1, <1>2, SameDeadlines DEF TimerFor
<1>4. IdleJson(a, awake) = IdleJson(s, awake)
  BY <1>2 DEF IdleJson
<1>5. Settled(a, p, awake)
  BY <1>2, <1>3, <1>4 DEF Settled
<1> QED
  BY <1>2, <1>3, <1>5 DEF Armed, a

\* A session whose clock has just been reset is settled once the shell knows.
LEMMA ZeroSettled ==
    ASSUME NEW s \in Session, NEW p \in IdleSettings, NEW awake \in BOOLEAN,
           s.idle = 0, s.told = IdleJson(s, awake)
    PROVE  Settled(s, p, awake)
<1>1. \A d \in Deadlines(s, p) : 0 <= d
  BY DeadlinesTyped
<1> QED
  BY <1>1, IdleAssumption DEF Settled

LEMMA SetStageFields ==
    ASSUME NEW s \in Session, NEW stage \in Stages, NEW awake \in BOOLEAN,
           s.told = IdleJson(s, awake)
    PROVE  /\ SetStage(s, stage, awake) \in Session
           /\ SetStage(s, stage, awake).stage = stage
           /\ SetStage(s, stage, awake).locked = s.locked
           /\ SetStage(s, stage, awake).idle = s.idle
           /\ SetStage(s, stage, awake).told = IdleJson(SetStage(s, stage, awake), awake)
<1>1. CASE s.stage = stage
  BY <1>1 DEF SetStage
<1>2. CASE s.stage # stage
  <2> DEFINE t == [s EXCEPT !.stage = stage]
  <2>1. t \in Session /\ t.stage = stage /\ t.locked = s.locked /\ t.idle = s.idle
    BY DEF Session
  <2>2. SetStage(s, stage, awake) = IdleChanged(t, awake)
    BY <1>2 DEF SetStage
  <2> HIDE DEF t
  <2>3. /\ IdleChanged(t, awake) \in Session /\ IdleChanged(t, awake).told = IdleJson(t, awake)
        /\ IdleChanged(t, awake).stage = stage /\ IdleChanged(t, awake).locked = s.locked
        /\ IdleChanged(t, awake).idle = s.idle
    BY <2>1, ChangedFields
  <2>4. IdleJson(IdleChanged(t, awake), awake) = IdleJson(t, awake)
    BY <2>1, <2>3 DEF IdleJson
  <2> QED
    BY <2>2, <2>3, <2>4
<1> QED
  BY <1>1, <1>2

LEMMA SetLockedFields ==
    ASSUME NEW s, NEW locked \in BOOLEAN, NEW p \in IdleSettings, NEW awake \in BOOLEAN,
           Settled(s, p, awake)
    PROVE  /\ Settled(SetLocked(s, locked, p, awake), p, awake)
           /\ SetLocked(s, locked, p, awake).locked = locked
           /\ SetLocked(s, locked, p, awake).stage = s.stage
           /\ s.timer = TimerFor(s, p, awake) => Armed(SetLocked(s, locked, p, awake), p, awake)
<1>0. s \in Session
  BY DEF Settled
<1>1. CASE s.locked = locked
  BY <1>1 DEF SetLocked, Armed
<1>2. CASE s.locked # locked
  <2> DEFINE t == [s EXCEPT !.locked = locked]
             u == IdleChanged(Reset(t), awake)
  <2>1. t \in Session /\ t.stage = s.stage /\ t.locked = locked
    BY <1>0 DEF Session
  <2>2. SetLocked(s, locked, p, awake) = ArmIdleTimer(u, p, awake)
    BY <1>2 DEF SetLocked
  <2> HIDE DEF t
  <2>3. /\ Reset(t) \in Session /\ Reset(t).idle = 0
        /\ Reset(t).stage = s.stage /\ Reset(t).locked = locked
    BY <2>1, ResetFields
  <2>4. /\ u \in Session /\ u.told = IdleJson(Reset(t), awake) /\ u.idle = 0
        /\ u.stage = s.stage /\ u.locked = locked
    BY <2>3, ChangedFields
  <2>5. IdleJson(u, awake) = IdleJson(Reset(t), awake)
    BY <2>3, <2>4 DEF IdleJson
  <2> HIDE DEF u
  <2>6. Settled(u, p, awake)
    BY <2>4, <2>5, ZeroSettled
  <2>7. Armed(ArmIdleTimer(u, p, awake), p, awake)
    BY <2>6, ArmSettled
  <2>8. /\ ArmIdleTimer(u, p, awake).locked = locked
        /\ ArmIdleTimer(u, p, awake).stage = s.stage
    BY <2>4, ArmFields
  <2> QED
    BY <2>2, <2>7, <2>8 DEF Armed
<1> QED
  BY <1>1, <1>2

LEMMA WakeArmed ==
    ASSUME NEW s, NEW p \in IdleSettings, NEW awake \in BOOLEAN, Settled(s, p, awake)
    PROVE  /\ Armed(WakeIdle(s, p, awake), p, awake)
           /\ WakeIdle(s, p, awake).stage = "active"
           /\ WakeIdle(s, p, awake).locked = s.locked
<1> DEFINE r == Reset(s)
           t == SetStage(r, "active", awake)
<1>1. s \in Session /\ s.told = IdleJson(s, awake)
  BY DEF Settled
<1>2. /\ r \in Session /\ r.idle = 0
      /\ r.stage = s.stage /\ r.locked = s.locked /\ r.told = s.told
  BY <1>1, ResetFields
<1>3. IdleJson(r, awake) = IdleJson(s, awake)
  BY <1>2 DEF IdleJson
<1> HIDE DEF r
<1>4. "active" \in Stages
  BY DEF Stages
<1>5. /\ t \in Session /\ t.stage = "active" /\ t.locked = s.locked /\ t.idle = 0
      /\ t.told = IdleJson(t, awake)
  BY <1>1, <1>2, <1>3, <1>4, SetStageFields
<1> HIDE DEF t
<1>6. Settled(t, p, awake)
  BY <1>5, ZeroSettled
<1>7. /\ Armed(ArmIdleTimer(t, p, awake), p, awake)
      /\ ArmIdleTimer(t, p, awake).stage = "active"
      /\ ArmIdleTimer(t, p, awake).locked = s.locked
  BY <1>5, <1>6, ArmSettled, ArmFields
<1> QED
  BY <1>7 DEF WakeIdle, r, t

\* Going on to a later stage leaves no deadline behind that was not there.
LEMMA StageSettled ==
    ASSUME NEW s, NEW p \in IdleSettings, NEW awake \in BOOLEAN, Settled(s, p, awake),
           NEW stage \in {"screensaver", "blank"}, stage = "blank" \/ s.stage = "active"
    PROVE  /\ Settled(SetStage(s, stage, awake), p, awake)
           /\ SetStage(s, stage, awake).stage = stage
           /\ SetStage(s, stage, awake).locked = s.locked
<1> DEFINE t == SetStage(s, stage, awake)
<1>1. s \in Session /\ s.told = IdleJson(s, awake) /\ s.idle <= MaxIdle
  BY DEF Settled
<1>2. /\ t \in Session /\ t.stage = stage /\ t.locked = s.locked /\ t.idle = s.idle
      /\ t.told = IdleJson(t, awake)
  BY <1>1, SetStageFields DEF Stages
<1> HIDE DEF t
<1>3. Deadlines(t, p) \subseteq Deadlines(s, p)
  BY <1>2 DEF Deadlines
<1>4. Settled(t, p, awake)
  BY <1>1, <1>2, <1>3 DEF Settled
<1> QED
  BY <1>2, <1>4 DEF t

LEMMA BlankArmed ==
    ASSUME NEW s, NEW p \in IdleSettings, NEW awake \in BOOLEAN, Settled(s, p, awake)
    PROVE  /\ Armed(BlankNow(s, p, awake), p, awake)
           /\ p.lock_on_blank \/ s.locked => BlankNow(s, p, awake).locked
<1> DEFINE safe == IF p.lock_on_blank THEN SetLocked(s, TRUE, p, awake) ELSE s
           t == SetStage(safe, "blank", awake)
<1>9. Settled(SetLocked(s, TRUE, p, awake), p, awake) /\ SetLocked(s, TRUE, p, awake).locked
      /\ SetLocked(s, TRUE, p, awake).stage = s.stage
  <2>1. SetLocked(s, TRUE, p, awake).locked = TRUE
    BY SetLockedFields
  <2> QED
    BY <2>1, SetLockedFields
<1>1. Settled(safe, p, awake) /\ (p.lock_on_blank \/ s.locked => safe.locked)
  <2>1. CASE p.lock_on_blank
    BY <1>9, <2>1
  <2>2. CASE ~p.lock_on_blank
    BY <2>2
  <2> QED
    BY <2>1, <2>2
<1> HIDE DEF safe
<1>2. Settled(t, p, awake) /\ t.locked = safe.locked
  BY <1>1, StageSettled
<1> HIDE DEF t
<1>3. /\ Armed(ArmIdleTimer(t, p, awake), p, awake)
      /\ ArmIdleTimer(t, p, awake).locked = t.locked
  BY <1>2, ArmSettled, ArmFields DEF Settled
<1> QED
  BY <1>1, <1>2, <1>3 DEF BlankNow, safe, t

LEMMA AdvanceArmed ==
    ASSUME NEW s, NEW p \in IdleSettings, NEW awake \in BOOLEAN, Settled(s, p, awake)
    PROVE  /\ Armed(Advance(s, p, awake), p, awake)
           /\ s.locked => Advance(s, p, awake).locked
           /\ Advance(s, p, awake).stage = "blank" /\ s.stage # "blank" /\ p.lock_on_blank
                 => Advance(s, p, awake).locked
<1> DEFINE due(seconds) == seconds > 0 /\ s.idle + 1 >= seconds
           locked == IF due(p.lock) \/ (due(p.blank) /\ p.lock_on_blank)
                     THEN SetLocked(s, TRUE, p, awake) ELSE s
           moved == IF due(p.blank) THEN SetStage(locked, "blank", awake)
                    ELSE IF due(p.screensaver) /\ s.stage = "active"
                    THEN SetStage(locked, "screensaver", awake)
                    ELSE locked
<1>9. Settled(SetLocked(s, TRUE, p, awake), p, awake) /\ SetLocked(s, TRUE, p, awake).locked
      /\ SetLocked(s, TRUE, p, awake).stage = s.stage
  <2>1. SetLocked(s, TRUE, p, awake).locked = TRUE
    BY SetLockedFields
  <2> QED
    BY <2>1, SetLockedFields
<1>0. Advance(s, p, awake) = ArmIdleTimer(moved, p, awake)
  BY DEF Advance
<1> HIDE DEF due
<1>1. /\ Settled(locked, p, awake) /\ locked.stage = s.stage
      /\ s.locked => locked.locked
      /\ due(p.blank) /\ p.lock_on_blank => locked.locked
  <2>1. CASE due(p.lock) \/ (due(p.blank) /\ p.lock_on_blank)
    BY <1>9, <2>1
  <2>2. CASE ~(due(p.lock) \/ (due(p.blank) /\ p.lock_on_blank))
    BY <2>2
  <2> QED
    BY <2>1, <2>2
<1> HIDE DEF locked
<1>2. /\ Settled(moved, p, awake) /\ moved.locked = locked.locked
      /\ moved.stage = "blank" /\ s.stage # "blank" => due(p.blank)
  <2>1. CASE due(p.blank)
    BY <1>1, <2>1, StageSettled
  <2>2. CASE ~due(p.blank) /\ due(p.screensaver) /\ s.stage = "active"
    BY <1>1, <2>2, StageSettled
  <2>3. CASE ~due(p.blank) /\ ~(due(p.screensaver) /\ s.stage = "active")
    BY <1>1, <2>3
  <2> QED
    BY <2>1, <2>2, <2>3
<1> HIDE DEF moved
<1>3. /\ Armed(ArmIdleTimer(moved, p, awake), p, awake)
      /\ ArmIdleTimer(moved, p, awake).locked = moved.locked
      /\ ArmIdleTimer(moved, p, awake).stage = moved.stage
  BY <1>2, ArmSettled, ArmFields DEF Settled
<1> QED
  BY <1>0, <1>1, <1>2, <1>3

\* When the holders or the settings change, whether the session is held
\* awake may change with them, so what the shell was told and the deadlines
\* do not matter beforehand.
LEMMA ChangedArmed ==
    ASSUME NEW s \in Session, NEW p \in IdleSettings, NEW awake \in BOOLEAN,
           s.idle <= MaxIdle, s.idle = 0 \/ awake
    PROVE  /\ Armed(IdleChanged(ArmIdleTimer(s, p, awake), awake), p, awake)
           /\ IdleChanged(ArmIdleTimer(s, p, awake), awake).stage = s.stage
           /\ IdleChanged(ArmIdleTimer(s, p, awake), awake).locked = s.locked
<1> DEFINE a == ArmIdleTimer(s, p, awake)
           c == IdleChanged(a, awake)
<1>1. /\ a \in Session /\ a.timer = TimerFor(s, p, awake)
      /\ a.stage = s.stage /\ a.locked = s.locked /\ a.idle = s.idle
  BY ArmFields
<1> HIDE DEF a
<1>2. /\ c \in Session /\ c.timer = TimerFor(s, p, awake) /\ c.told = IdleJson(a, awake)
      /\ c.stage = s.stage /\ c.locked = s.locked /\ c.idle = s.idle
  BY <1>1, ChangedFields
<1> HIDE DEF c
<1>3. TimerFor(c, p, awake) = TimerFor(s, p, awake)
  BY <1>2, SameDeadlines DEF TimerFor
<1>4. IdleJson(c, awake) = IdleJson(a, awake)
  BY <1>1, <1>2 DEF IdleJson
<1>5. ~awake => \A d \in Deadlines(c, p) : c.idle <= d
  BY <1>2, DeadlinesTyped
<1>6. Settled(c, p, awake)
  BY <1>2, <1>4, <1>5 DEF Settled
<1> QED
  BY <1>2, <1>3, <1>6 DEF Armed, a, c

LEMMA InhibitArmed ==
    ASSUME NEW s \in Session, NEW p \in IdleSettings, NEW awake \in BOOLEAN, s.idle <= MaxIdle
    PROVE  /\ Armed(InhibitChanged(s, p, awake), p, awake)
           /\ InhibitChanged(s, p, awake).stage = s.stage
           /\ InhibitChanged(s, p, awake).locked = s.locked
<1> DEFINE r == IF awake THEN s ELSE Reset(s)
<1>1. /\ r \in Session /\ r.idle <= MaxIdle /\ (r.idle = 0 \/ awake)
      /\ r.stage = s.stage /\ r.locked = s.locked
  BY ResetFields, IdleAssumption
<1>2. InhibitChanged(s, p, awake) = IdleChanged(ArmIdleTimer(r, p, awake), awake)
  BY DEF InhibitChanged
<1> HIDE DEF r
<1> QED
  BY <1>1, <1>2, ChangedArmed

-----------------------------------------------------------------------------
(***************************************************************************)
(* The invariant.                                                          *)
(***************************************************************************)

LEMMA AwakeTyped ==
    ASSUME NEW p \in IdleSettings, NEW inh, NEW hld
    PROVE  Inhibited(p, inh, hld) \in BOOLEAN
  BY DEF Inhibited, IdleSettings

LEMMA InitInv == Init => Inv
<1> SUFFICES ASSUME Init PROVE Inv
  OBVIOUS
<1>1. prefs \in IdleSettings /\ session = ArmIdleTimer(Fresh, prefs, FALSE) /\ darkLock = FALSE
  BY DEF Init
<1>2. Fresh \in Session /\ Fresh.idle = 0 /\ Fresh.told = IdleJson(Fresh, FALSE)
  BY DEF Fresh, Session, Told, Stages, NoTimer, IdleJson
<1>3. Awake = FALSE
  BY DEF Init, Awake, Inhibited
<1> HIDE DEF Fresh
<1>4. Armed(session, prefs, Awake)
  BY <1>1, <1>2, <1>3, ZeroSettled, ArmSettled
<1>5. TypeOK
  <2>1. session \in Session /\ session.idle <= MaxIdle
    BY <1>4 DEF Armed, Settled
  <2> QED
    BY <1>1, <2>1 DEF Init, TypeOK
<1> QED
  BY <1>1, <1>4, <1>5 DEF Inv, DarkMeansLocked

\* Steps that leave the settings and the holders as they are.
LEMMA KeepHolders ==
    ASSUME Inv, UNCHANGED <<prefs, holders>>, Armed(session', prefs, Awake), darkLock' \in BOOLEAN,
           session'.stage = "blank" /\ darkLock' => session'.locked
    PROVE  Inv'
<1>1. Awake' = Awake
  BY DEF Awake, holders
<1>2. Armed(session', prefs', Awake')
  BY <1>1 DEF holders
<1>3. session' \in Session /\ session'.idle <= MaxIdle
  BY DEF Armed, Settled
<1>4. TypeOK'
  BY <1>3 DEF Inv, TypeOK, holders
<1>5. Inv' <=> (TypeOK' /\ Armed(session', prefs', Awake') /\ DarkMeansLocked')
  BY DEF Inv, Armed, Settled, TimerFor
<1> QED
  BY <1>2, <1>4, <1>5 DEF DarkMeansLocked

\* A second that passes while nothing is due.
LEMMA SecondArmed ==
    ASSUME Inv, Second
    PROVE  /\ Armed(session', prefs, Awake)
           /\ session'.stage = session.stage /\ session'.locked = session.locked
<1> DEFINE left == IF session.timer = NoTimer THEN NoTimer ELSE session.timer - 1
<1>1. /\ session \in Session /\ session.idle < MaxIdle /\ session.timer # 0
      /\ session.told = IdleJson(session, Awake)
      /\ session.timer = TimerFor(session, prefs, Awake)
      /\ ~Awake => \A d \in Deadlines(session, prefs) : session.idle <= d
  BY DEF Inv, Armed, Settled, Second
<1>2. prefs \in IdleSettings /\ Awake \in BOOLEAN
  BY AwakeTyped DEF Inv, TypeOK, Awake
<1>3. session.idle \in Nat /\ session.timer \in Nat \cup {NoTimer}
  BY <1>1 DEF Session
<1>4. left \in Nat \cup {NoTimer} /\ session.idle + 1 \in Nat /\ session.idle + 1 <= MaxIdle
  BY <1>1, <1>3, IdleAssumption DEF NoTimer
<1> DEFINE next == session.idle + 1
<1>5. session' = [session EXCEPT !.idle = next, !.timer = left]
  BY DEF Second
<1>6. next \in Nat /\ next <= MaxIdle /\ next = session.idle + 1
  BY <1>4
<1> HIDE DEF left, next
<1>7. /\ session' \in Session /\ session'.idle = next /\ session'.timer = left
      /\ session'.stage = session.stage /\ session'.locked = session.locked
      /\ session'.told = session.told
  BY <1>1, <1>4, <1>5, <1>6 DEF Session
<1>8. IdleJson(session', Awake) = IdleJson(session, Awake)
  BY <1>7 DEF IdleJson
<1>9. Deadlines(session', prefs) = Deadlines(session, prefs)
  BY <1>1, <1>2, <1>7, SameDeadlines
<1>10. /\ left = TimerFor(session', prefs, Awake)
       /\ ~Awake => \A d \in Deadlines(session, prefs) : next <= d
  <2>1. CASE Awake
    BY <1>1, <2>1 DEF TimerFor, left
  <2>2. CASE ~Awake /\ Deadlines(session, prefs) = {}
    BY <1>1, <1>9, <2>2 DEF TimerFor, left, NextDeadline
  <2>3. CASE ~Awake /\ Deadlines(session, prefs) # {}
    <3> DEFINE first == Min(Deadlines(session, prefs))
    <3>1. first \in Nat /\ \A d \in Deadlines(session, prefs) : d \in Nat /\ first <= d
      BY <1>1, <1>2, <2>3, FirstDeadline, DeadlinesTyped
    <3>2. session.timer = IF first > session.idle THEN first - session.idle ELSE 0
      BY <1>1, <2>3 DEF TimerFor, NextDeadline
    <3>3. TimerFor(session', prefs, Awake) = IF first > next THEN first - next ELSE 0
      BY <1>7, <1>9, <2>3 DEF TimerFor, NextDeadline
    <3> HIDE DEF first
    <3>4. first > session.idle /\ session.timer = first - session.idle
      BY <1>1, <3>2
    <3>5. left = first - session.idle - 1
      BY <1>3, <3>1, <3>4 DEF left, NoTimer
    <3> QED
      BY <1>3, <1>6, <3>1, <3>3, <3>4, <3>5
  <2> QED
    BY <2>1, <2>2, <2>3
<1>11. Settled(session', prefs, Awake)
  BY <1>1, <1>6, <1>7, <1>8, <1>9, <1>10 DEF Settled
<1> QED
  BY <1>7, <1>10, <1>11 DEF Armed

\* Steps after which something else may hold the session awake.
LEMMA ChangeHolders ==
    ASSUME Inv, prefs' = prefs, darkLock' = darkLock, inhibitors' \subseteq Surfaces, holds' \subseteq Clients,
           conn' \in [Clients -> {"none", "on", "gone"}],
           playing' \in [Surfaces -> {"none", "on", "gone"}],
           \/ HoldersChange(inhibitors', holds')
           \/ session' = session /\ inhibitors' = inhibitors /\ holds' = holds
    PROVE  Inv'
<1>0. session \in Session /\ session.idle <= MaxIdle /\ prefs \in IdleSettings
  BY DEF Inv, TypeOK
<1>1. Awake' = Inhibited(prefs, inhibitors', holds') /\ Awake' \in BOOLEAN
  BY <1>0, AwakeTyped DEF Awake
<1>2. /\ Armed(session', prefs', Awake')
      /\ session'.stage = session.stage /\ session'.locked = session.locked
  <2>1. CASE HoldersChange(inhibitors', holds')
    <3>1. session' = InhibitChanged(session, prefs, Awake')
      BY <1>1, <2>1 DEF HoldersChange
    <3> QED
      BY <1>0, <1>1, <3>1, InhibitArmed
  <2>2. CASE session' = session /\ inhibitors' = inhibitors /\ holds' = holds
    <3>1. Awake' = Awake
      BY <2>2 DEF Awake
    <3> QED
      BY <2>2, <3>1 DEF Inv
  <2> QED
    BY <2>1, <2>2
<1>3. session' \in Session /\ session'.idle <= MaxIdle
  BY <1>2 DEF Armed, Settled
<1>4. TypeOK'
  BY <1>0, <1>3 DEF Inv, TypeOK
<1>5. Inv' <=> (TypeOK' /\ Armed(session', prefs', Awake') /\ DarkMeansLocked')
  BY DEF Inv, Armed, Settled, TimerFor
<1> QED
  BY <1>2, <1>4, <1>5 DEF Inv, DarkMeansLocked

LEMMA PatchesTyped ==
    ASSUME NEW p \in IdleSettings
    PROVE  Patches(p) \subseteq IdleSettings
<1> SUFFICES ASSUME NEW q \in Patches(p) PROVE q \in IdleSettings
  OBVIOUS
<1>1. \/ \E t \in Timeouts : \/ q = [p EXCEPT !.screensaver = t]
                            \/ q = [p EXCEPT !.lock = t]
                            \/ q = [p EXCEPT !.blank = t]
      \/ \E b \in BOOLEAN : \/ q = [p EXCEPT !.lock_on_blank = b]
                           \/ q = [p EXCEPT !.stay_awake_when_busy = b]
  BY DEF Patches
<1>2. ASSUME NEW t \in Timeouts
      PROVE  /\ [p EXCEPT !.screensaver = t] \in IdleSettings
             /\ [p EXCEPT !.lock = t] \in IdleSettings
             /\ [p EXCEPT !.blank = t] \in IdleSettings
  BY DEF IdleSettings
<1>3. ASSUME NEW b \in BOOLEAN
      PROVE  /\ [p EXCEPT !.lock_on_blank = b] \in IdleSettings
             /\ [p EXCEPT !.stay_awake_when_busy = b] \in IdleSettings
  BY DEF IdleSettings
<1> QED
  BY <1>1, <1>2, <1>3

LEMMA NextInv == Inv /\ [Next]_vars => Inv'
<1> SUFFICES ASSUME Inv, [Next]_vars PROVE Inv'
  OBVIOUS
<1>1. prefs \in IdleSettings /\ Awake \in BOOLEAN /\ session \in Session /\ session.idle <= MaxIdle
  BY AwakeTyped DEF Inv, TypeOK, Awake
<1>2. Settled(session, prefs, Awake) /\ session.timer = TimerFor(session, prefs, Awake)
  BY DEF Inv, Armed
<1>3. darkLock \in BOOLEAN /\ (session.stage = "blank" /\ darkLock => session.locked)
  BY DEF Inv, TypeOK, DarkMeansLocked
<1>4. CASE IdleTick
  <2>1. Armed(session', prefs, Awake)
    <3>1. ~Awake
      <4>1. CASE Awake
        BY <1>2, <1>4, <4>1 DEF TimerFor, IdleTick, NoTimer
      <4> QED
        BY <4>1
    <3> QED
      BY <1>1, <1>2, <1>4, <3>1, AdvanceArmed DEF IdleTick
  <2>2. session' = Advance(session, prefs, Awake)
    BY <1>2, <1>4 DEF TimerFor, IdleTick, NoTimer
  <2>3. darkLock' = IF session.stage # "blank" /\ session'.stage = "blank"
                    THEN prefs.lock_on_blank ELSE darkLock
    BY <1>4 DEF IdleTick, NoteDark
  <2>4. darkLock' \in BOOLEAN
    BY <1>1, <1>3, <2>3 DEF IdleSettings
  <2>5. /\ session.locked => session'.locked
        /\ session'.stage = "blank" /\ session.stage # "blank" /\ prefs.lock_on_blank => session'.locked
    BY <1>1, <1>2, <2>2, AdvanceArmed
  <2>6. session'.stage = "blank" /\ darkLock' => session'.locked
    BY <1>3, <2>3, <2>5
  <2>7. UNCHANGED <<prefs, holders>>
    BY <1>4 DEF IdleTick
  <2> QED
    BY <2>1, <2>4, <2>6, <2>7, KeepHolders
<1>5. CASE Second
  <2>1. UNCHANGED <<prefs, holders>> /\ darkLock' = darkLock
    BY <1>5 DEF Second
  <2> QED
    BY <1>3, <1>5, <2>1, SecondArmed, KeepHolders
<1>6. CASE NoteActivity \/ Wake
  <2>1. session' = WakeIdle(session, prefs, Awake) /\ UNCHANGED <<prefs, holders>> /\ darkLock' = darkLock
    BY <1>6 DEF NoteActivity, Wake
  <2>2. Armed(session', prefs, Awake) /\ session'.stage = "active"
    BY <1>1, <1>2, <2>1, WakeArmed
  <2> QED
    BY <1>3, <2>1, <2>2, KeepHolders
<1>7. CASE Lock
  <2>1. session' = SetLocked(session, TRUE, prefs, Awake) /\ UNCHANGED <<prefs, holders>> /\ darkLock' = darkLock
    BY <1>7 DEF Lock
  <2>2. Armed(session', prefs, Awake) /\ session'.locked = TRUE
    BY <1>1, <1>2, <2>1, SetLockedFields
  <2> QED
    BY <1>3, <2>1, <2>2, KeepHolders
<1>8. CASE Unlock
  <2> DEFINE t == SetLocked(session, FALSE, prefs, Awake)
  <2>1. session' = WakeIdle(t, prefs, Awake) /\ UNCHANGED <<prefs, holders>> /\ darkLock' = darkLock
    BY <1>8 DEF Unlock
  <2>2. Settled(t, prefs, Awake)
    BY <1>1, <1>2, SetLockedFields
  <2> HIDE DEF t
  <2>3. Armed(session', prefs, Awake) /\ session'.stage = "active"
    BY <1>1, <2>1, <2>2, WakeArmed
  <2> QED
    BY <1>3, <2>1, <2>3, KeepHolders
<1>9. CASE Blank
  <2>1. session' = BlankNow(session, prefs, Awake) /\ UNCHANGED <<prefs, holders>>
    BY <1>9 DEF Blank
  <2>2. darkLock' = IF session.stage # "blank" /\ session'.stage = "blank"
                    THEN prefs.lock_on_blank ELSE darkLock
    BY <1>9 DEF Blank, NoteDark
  <2>3. Armed(session', prefs, Awake) /\ (prefs.lock_on_blank \/ session.locked => session'.locked)
    BY <1>1, <1>2, <2>1, BlankArmed
  <2>4. darkLock' \in BOOLEAN
    BY <1>1, <1>3, <2>2 DEF IdleSettings
  <2>5. session'.stage = "blank" /\ darkLock' => session'.locked
    BY <1>3, <2>2, <2>3
  <2> QED
    BY <2>1, <2>3, <2>4, <2>5, KeepHolders
<1>10. CASE SetPrefs
  <2>1. prefs' \in IdleSettings /\ UNCHANGED <<holders, darkLock>>
    BY <1>1, <1>10, PatchesTyped DEF SetPrefs
  <2>2. Awake' = Inhibited(prefs', inhibitors, holds) /\ Awake' \in BOOLEAN
    BY <2>1, AwakeTyped DEF Awake, holders
  <2>3. session' = IdleChanged(ArmIdleTimer(Reset(session), prefs', Awake'), Awake')
    BY <1>10, <2>2 DEF SetPrefs
  <2>4. /\ Reset(session) \in Session /\ Reset(session).idle = 0 /\ Reset(session).idle <= MaxIdle
        /\ Reset(session).stage = session.stage /\ Reset(session).locked = session.locked
    BY <1>1, ResetFields, IdleAssumption
  <2>5. /\ Armed(session', prefs', Awake')
        /\ session'.stage = session.stage /\ session'.locked = session.locked
    BY <2>1, <2>2, <2>3, <2>4, ChangedArmed
  <2>6. session' \in Session /\ session'.idle <= MaxIdle
    BY <2>5 DEF Armed, Settled
  <2>7. TypeOK'
    BY <2>1, <2>6 DEF Inv, TypeOK, holders
  <2>8. Inv' <=> (TypeOK' /\ Armed(session', prefs', Awake') /\ DarkMeansLocked')
    BY DEF Inv, Armed, Settled, TimerFor
  <2> QED
    BY <1>3, <2>1, <2>5, <2>7, <2>8 DEF DarkMeansLocked
<1>11. ASSUME NEW c \in Clients, Connect(c) \/ InhibitIdle(c) \/ DropClient(c) \/ BroadcastDrops(c)
       PROVE  Inv'
  <2>1. conn \in [Clients -> {"none", "on", "gone"}] /\ holds \subseteq Clients /\ inhibitors \subseteq Surfaces
    BY DEF Inv, TypeOK
  <2>2. conn' \in [Clients -> {"none", "on", "gone"}] /\ holds' \subseteq Clients
    BY <1>11, <2>1 DEF Connect, InhibitIdle, DropClient, BroadcastDrops, SetIdleHold
  <2>3. prefs' = prefs /\ darkLock' = darkLock /\ inhibitors' = inhibitors /\ playing' = playing
    BY <1>11 DEF Connect, InhibitIdle, DropClient, BroadcastDrops, SetIdleHold
  <2>4. HoldersChange(inhibitors', holds') \/ (session' = session /\ holds' = holds)
    BY <1>11, <2>3 DEF Connect, InhibitIdle, DropClient, BroadcastDrops, SetIdleHold
  <2>5. playing' \in [Surfaces -> {"none", "on", "gone"}]
    BY <2>3 DEF Inv, TypeOK
  <2> QED
    BY <2>1, <2>2, <2>3, <2>4, <2>5, ChangeHolders
<1>12. ASSUME NEW s \in Surfaces, Inhibit(s) \/ Uninhibit(s) \/ PlayerDies(s)
       PROVE  Inv'
  <2>1. playing \in [Surfaces -> {"none", "on", "gone"}] /\ holds \subseteq Clients /\ inhibitors \subseteq Surfaces
    BY DEF Inv, TypeOK
  <2>2. playing' \in [Surfaces -> {"none", "on", "gone"}] /\ inhibitors' \subseteq Surfaces
    BY <1>12, <2>1 DEF Inhibit, Uninhibit, PlayerDies
  <2>3. prefs' = prefs /\ darkLock' = darkLock /\ holds' = holds /\ conn' = conn
    BY <1>12 DEF Inhibit, Uninhibit, PlayerDies
  <2>4. HoldersChange(inhibitors', holds') \/ (session' = session /\ inhibitors' = inhibitors)
    BY <1>12, <2>3 DEF Inhibit, Uninhibit, PlayerDies
  <2>5. conn' \in [Clients -> {"none", "on", "gone"}]
    BY <2>3 DEF Inv, TypeOK
  <2> QED
    BY <2>1, <2>2, <2>3, <2>4, <2>5, ChangeHolders
<1>13. CASE UNCHANGED vars
  BY <1>13 DEF vars, Inv, TypeOK, Armed, Settled, TimerFor, DarkMeansLocked, Awake
<1> QED
  BY <1>4, <1>5, <1>6, <1>7, <1>8, <1>9, <1>10, <1>11, <1>12, <1>13 DEF Next

LEMMA InvAlways == Spec => []Inv
  BY InitInv, NextInv, PTL DEF Spec

-----------------------------------------------------------------------------
(***************************************************************************)
(* The theorems.                                                           *)
(***************************************************************************)

\* The session, the settings and the holders keep their types, and the clock
\* stays within its bound (IdleState, idle.rs:62-75).
THEOREM TypeCorrect == Spec => []TypeOK
<1>1. Inv => TypeOK
  BY DEF Inv
<1> QED
  BY <1>1, InvAlways, PTL

\* No open deadline is ever passed by, and nothing is armed while the session
\* is held awake: every handler of idle.rs that touches the clock, a stage, a
\* timeout or a holder arms the timer anew.
THEOREM NoDeadlineMissed == Spec => []NothingIsMissed
<1>1. Inv => NothingIsMissed
  BY DEF Inv, Armed, Settled, TimerFor, NothingIsMissed
<1> QED
  BY <1>1, InvAlways, PTL

\* Displays that went off under lock_on_blank come back to a locked session
\* (blank_now, idle_tick, Request::Unlock).
THEOREM DarkIsLocked == Spec => []DarkMeansLocked
<1>1. Inv => DarkMeansLocked
  BY DEF Inv
<1> QED
  BY <1>1, InvAlways, PTL

\* The last idle event always says where the session stands (idle_changed).
THEOREM ShellKnows == Spec => []ShellIsTold
<1>1. Inv => ShellIsTold
  BY DEF Inv, Armed, Settled, ShellIsTold
<1> QED
  BY <1>1, InvAlways, PTL
-----------------------------------------------------------------------------
(***************************************************************************)
(* Idle implements SessionLock.                                            *)
(***************************************************************************)

LEMMA BlankSimulates ==
    ASSUME NEW s, NEW p \in IdleSettings, NEW awake \in BOOLEAN, Settled(s, p, awake)
    PROVE  /\ BlankNow(s, p, awake).stage = "blank"
           /\ BlankNow(s, p, awake).locked \in {s.locked, TRUE}
<1> DEFINE safe == IF p.lock_on_blank THEN SetLocked(s, TRUE, p, awake) ELSE s
           t == SetStage(safe, "blank", awake)
<1>1. Settled(safe, p, awake) /\ safe.locked \in {s.locked, TRUE}
  <2>1. CASE p.lock_on_blank
    BY <2>1, SetLockedFields
  <2>2. CASE ~p.lock_on_blank
    BY <2>2
  <2> QED
    BY <2>1, <2>2
<1> HIDE DEF safe
<1>2. Settled(t, p, awake) /\ t.locked = safe.locked /\ t.stage = "blank"
  BY <1>1, StageSettled
<1> HIDE DEF t
<1>3. /\ ArmIdleTimer(t, p, awake).locked = t.locked
      /\ ArmIdleTimer(t, p, awake).stage = t.stage
  BY <1>2, ArmFields DEF Settled
<1> QED
  BY <1>1, <1>2, <1>3 DEF BlankNow, safe, t

\* What a tick may do to the lock and to the stage.
Moves(s, t) ==
    /\ t.locked \in {s.locked, TRUE}
    /\ t.stage \in {s.stage, "blank"} \/ (s.stage = "active" /\ t.stage = "screensaver")

LEMMA AdvanceSimulates ==
    ASSUME NEW s, NEW p \in IdleSettings, NEW awake \in BOOLEAN, Settled(s, p, awake)
    PROVE  Moves(s, Advance(s, p, awake))
<1> DEFINE due(seconds) == seconds > 0 /\ s.idle + 1 >= seconds
           locked == IF due(p.lock) \/ (due(p.blank) /\ p.lock_on_blank)
                     THEN SetLocked(s, TRUE, p, awake) ELSE s
           moved == IF due(p.blank) THEN SetStage(locked, "blank", awake)
                    ELSE IF due(p.screensaver) /\ s.stage = "active"
                    THEN SetStage(locked, "screensaver", awake)
                    ELSE locked
<1>0. Advance(s, p, awake) = ArmIdleTimer(moved, p, awake)
  BY DEF Advance
<1> HIDE DEF due
<1>1. Settled(locked, p, awake) /\ locked.stage = s.stage /\ locked.locked \in {s.locked, TRUE}
  <2>1. CASE due(p.lock) \/ (due(p.blank) /\ p.lock_on_blank)
    BY <2>1, SetLockedFields
  <2>2. CASE ~(due(p.lock) \/ (due(p.blank) /\ p.lock_on_blank))
    BY <2>2
  <2> QED
    BY <2>1, <2>2
<1> HIDE DEF locked
<1>2. /\ Settled(moved, p, awake) /\ moved.locked = locked.locked
      /\ moved.stage \in {s.stage, "blank"} \/ (s.stage = "active" /\ moved.stage = "screensaver")
  <2>1. CASE due(p.blank)
    BY <1>1, <2>1, StageSettled
  <2>2. CASE ~due(p.blank) /\ due(p.screensaver) /\ s.stage = "active"
    BY <1>1, <2>2, StageSettled
  <2>3. CASE ~due(p.blank) /\ ~(due(p.screensaver) /\ s.stage = "active")
    BY <1>1, <2>3
  <2> QED
    BY <2>1, <2>2, <2>3
<1> HIDE DEF moved
<1>3. /\ ArmIdleTimer(moved, p, awake).locked = moved.locked
      /\ ArmIdleTimer(moved, p, awake).stage = moved.stage
  BY <1>2, ArmFields DEF Settled
<1> QED
  BY <1>0, <1>1, <1>2, <1>3 DEF Moves

\* Every handler is a step of SessionLock, or changes neither the lock nor
\* the stage.
LEMMA NextSimulates == Inv /\ [Next]_vars => [Promise!LockNext]_(Promise!lockVars)
<1> SUFFICES ASSUME Inv, [Next]_vars PROVE [Promise!LockNext]_(Promise!lockVars)
  OBVIOUS
<1>1. prefs \in IdleSettings /\ Awake \in BOOLEAN /\ session \in Session /\ session.idle <= MaxIdle
  BY AwakeTyped DEF Inv, TypeOK, Awake
<1>2. Settled(session, prefs, Awake) /\ session.timer = TimerFor(session, prefs, Awake)
  BY DEF Inv, Armed
<1> DEFINE Same == session'.stage = session.stage /\ session'.locked = session.locked
<1>3. Same => [Promise!LockNext]_(Promise!lockVars)
  BY DEF Promise!lockVars
<1>4. session'.stage = "active" /\ session'.locked = session.locked => Promise!LockNext
  BY DEF Promise!LockNext, Promise!WakeDisplays
<1>5. CASE IdleTick
  <2>1. session' = Advance(session, prefs, Awake)
    BY <1>2, <1>5 DEF TimerFor, IdleTick, NoTimer
  <2>2. /\ session'.locked \in {session.locked, TRUE}
        /\ \/ session'.stage \in {session.stage, "blank"}
           \/ session.stage = "active" /\ session'.stage = "screensaver"
    <3>1. Moves(session, Advance(session, prefs, Awake))
      BY <1>1, <1>2, AdvanceSimulates
    <3> QED
      BY <2>1, <3>1 DEF Moves
  <2>3. \/ Same
        \/ session'.locked = TRUE /\ session'.stage = session.stage
        \/ session'.stage = "blank"
        \/ session.stage = "active" /\ session'.stage = "screensaver"
    BY <2>2
  <2> QED
    BY <1>3, <2>2, <2>3 DEF Promise!LockNext, Promise!LockSession, Promise!BlankDisplays,
                      Promise!StartSaver, Promise!MayLock
<1>6. CASE Second
  <2>1. Same
    BY <1>1, <1>6 DEF Second, Session
  <2> QED
    BY <1>3, <2>1
<1>7. CASE NoteActivity \/ Wake
  <2>1. session' = WakeIdle(session, prefs, Awake)
    BY <1>7 DEF NoteActivity, Wake
  <2> QED
    BY <1>1, <1>2, <1>4, <2>1, WakeArmed
<1>8. CASE Lock
  <2>1. session' = SetLocked(session, TRUE, prefs, Awake)
    BY <1>8 DEF Lock
  <2>2. session'.locked = TRUE /\ session'.stage = session.stage
    BY <1>1, <1>2, <2>1, SetLockedFields
  <2> QED
    BY <2>2 DEF Promise!LockNext, Promise!LockSession
<1>9. CASE Unlock
  <2> DEFINE off == FALSE
             t == SetLocked(session, off, prefs, Awake)
  <2>1. session' = WakeIdle(t, prefs, Awake) /\ off \in BOOLEAN
    BY <1>9 DEF Unlock
  <2> HIDE DEF off
  <2>2. Settled(t, prefs, Awake) /\ t.locked = off
    BY <1>1, <1>2, <2>1, SetLockedFields
  <2> HIDE DEF t
  <2>3. session'.stage = "active" /\ session'.locked = off
    BY <1>1, <2>1, <2>2, WakeArmed
  <2> QED
    BY <2>3 DEF off, Promise!LockNext, Promise!UnlockSession
<1>10. CASE Blank
  <2>1. session' = BlankNow(session, prefs, Awake)
    BY <1>10 DEF Blank
  <2>2. session'.stage = "blank" /\ session'.locked \in {session.locked, TRUE}
    BY <1>1, <1>2, <2>1, BlankSimulates
  <2> QED
    BY <2>2 DEF Promise!LockNext, Promise!BlankDisplays, Promise!MayLock
<1>11. CASE SetPrefs
  <2> DEFINE awake == Inhibited(prefs', inhibitors, holds)
  <2>1. prefs' \in IdleSettings /\ awake \in BOOLEAN
    BY <1>1, <1>11, PatchesTyped, AwakeTyped DEF SetPrefs
  <2>2. session' = IdleChanged(ArmIdleTimer(Reset(session), prefs', awake), awake)
    BY <1>11 DEF SetPrefs
  <2> HIDE DEF awake
  <2>3. /\ Reset(session) \in Session /\ Reset(session).idle = 0 /\ Reset(session).idle <= MaxIdle
        /\ Reset(session).stage = session.stage /\ Reset(session).locked = session.locked
    BY <1>1, ResetFields, IdleAssumption
  <2>4. Same
    BY <2>1, <2>2, <2>3, ChangedArmed
  <2> QED
    BY <1>3, <2>4
<1>12. ASSUME NEW inh, NEW hld, HoldersChange(inh, hld) PROVE Same
  <2> DEFINE awake == Inhibited(prefs, inh, hld)
  <2>1. awake \in BOOLEAN
    BY <1>1, AwakeTyped
  <2>2. session' = InhibitChanged(session, prefs, awake)
    BY <1>12 DEF HoldersChange
  <2> HIDE DEF awake
  <2> QED
    BY <1>1, <2>1, <2>2, InhibitArmed
<1>13. ASSUME NEW c \in Clients, Connect(c) \/ InhibitIdle(c) \/ DropClient(c) \/ BroadcastDrops(c)
       PROVE  Same
  <2>1. (\E hld : HoldersChange(inhibitors, hld)) \/ session' = session
    BY <1>13 DEF Connect, InhibitIdle, DropClient, BroadcastDrops, SetIdleHold
  <2> QED
    BY <1>12, <2>1
<1>14. ASSUME NEW s \in Surfaces, Inhibit(s) \/ Uninhibit(s) \/ PlayerDies(s)
       PROVE  Same
  <2>1. HoldersChange(inhibitors', holds) \/ session' = session
    BY <1>14 DEF Inhibit, Uninhibit, PlayerDies
  <2> QED
    BY <1>12, <2>1
<1>15. CASE UNCHANGED vars
  BY <1>3, <1>15 DEF vars
<1> HIDE DEF Same
<1> QED
  BY <1>3, <1>5, <1>6, <1>7, <1>8, <1>9, <1>10, <1>11, <1>13, <1>14, <1>15 DEF Next

\* The compositor implements the session lock that the shell's suspend relies
\* on: whatever the timeouts, inhibitors and connections, every handler of
\* idle.rs locks, blanks, starts the saver or wakes, and only Request::Unlock
\* opens the session.
THEOREM ImplementsSessionLock == Spec => KeepsThePromise
<1>1. Init => Promise!StartUnlocked
  <2> SUFFICES ASSUME Init PROVE Promise!StartUnlocked
    OBVIOUS
  <2>1. Fresh \in Session /\ Fresh.stage = "active" /\ Fresh.locked = FALSE
    BY DEF Fresh, Session, Stages, Told, NoTimer
  <2>2. session = ArmIdleTimer(Fresh, prefs, FALSE) /\ prefs \in IdleSettings
    BY DEF Init
  <2>3. session.stage = Fresh.stage /\ session.locked = Fresh.locked
    BY <2>1, <2>2, ArmFields
  <2> QED
    BY <2>1, <2>3 DEF Promise!StartUnlocked
<1> QED
  BY <1>1, NextSimulates, InvAlways, PTL DEF Spec, KeepsThePromise, Promise!LockSpec

-----------------------------------------------------------------------------
(***************************************************************************)
(* The health of an output and of the event loop (Health).                 *)
(***************************************************************************)

OutRecord ==
    [refused_since : -1..3, last_refusal : H!Failure, tried : BOOLEAN,
     recoveries : 0..8, recovered_at : -1..60,
     flipped : BOOLEAN, flip : BOOLEAN, releasing : 0..4,
     timer : -1..60, timer_step : 0..4, timer_auto : BOOLEAN,
     flashes : [1..3 -> 0..10]]

OutTypeOK == out \in OutRecord

\* After a flash the count of recoveries cannot start anew while the flash is
\* recent, so that the third in a row is one of those that wait five seconds
\* since the last release.
FlashesArePaced ==
    LET f == out.flashes
    IN  /\ f[1] <= f[2] /\ f[2] <= f[3]
        /\ f[1] < H!SETTLE => out.recovered_at # H!None /\ out.recovered_at <= f[1] /\ out.recoveries >= 3
        /\ f[2] < H!SETTLE => out.recoveries >= 4
        /\ f[3] < H!SETTLE => f[3] - f[1] >= 5

\* A reset that waits is one of those, and no frame is on its way meanwhile.
TimerIsLate ==
    out.timer # H!None =>
        /\ ~out.flip
        /\ out.recoveries >= 5 /\ out.recovered_at # H!None /\ out.recovered_at + out.timer >= 5

DisplayInv == OutTypeOK /\ FlashesArePaced /\ TimerIsLate /\ H!RefusalsEndInAReset

LoopRecord ==
    [alive : {"running", "exited", "aborted"}, silent : Nat, call : H!Calls,
     worst : Nat, announced : Nat \cup {H!None},
     worst_busy : Nat, next_hitch : Nat, run : 0..H!SPIN_LIMIT,
     last : H!None..H!SPIN_WINDOW, looked : BOOLEAN, longest : Nat, said : Nat, spin : Nat]

LoopTypeOK == loop \in LoopRecord

\* What the watcher has seen when it looked; and a loop it lets go on.
SilenceIsSeen ==
    /\ loop.silent <= loop.longest
    /\ loop.looked /\ loop.silent >= H!STALL => loop.worst >= loop.silent
    /\ loop.longest > H!STALL => loop.worst >= loop.longest - 1
    /\ loop.silent <= H!GIVE_UP_ANYWHERE
    /\ loop.alive = "running" /\ loop.looked => loop.silent < H!GIVE_UP_ANYWHERE
    /\ loop.alive = "aborted" => loop.silent >= H!GIVE_UP

SpinsAreCounted ==
    /\ loop.run = loop.spin
    /\ loop.alive = "exited" <=> loop.run >= H!SPIN_LIMIT

HitchesAreSaid ==
    /\ loop.worst_busy < loop.next_hitch
    /\ loop.next_hitch = H!HITCH \/ loop.next_hitch = 2 * loop.said

LoopInv == LoopTypeOK /\ SilenceIsSeen /\ SpinsAreCounted /\ HitchesAreSaid

HealthInv == working \in HealthScenes => DisplayInv /\ LoopInv

LEMMA NewOutIsHealthy == out = H!NewOut => DisplayInv
  BY DEF H!NewOut, DisplayInv, OutTypeOK, OutRecord, FlashesArePaced, TimerIsLate, H!RefusalsEndInAReset, H!None,
     H!REFUSED_FOR, H!Failure, H!MostRecoveries, H!Oldest, H!ResetDevice, H!SETTLE

LEMMA NewLoopIsHealthy == loop = H!NewLoop => LoopInv
  BY DEF H!NewLoop, LoopInv, LoopTypeOK, LoopRecord, SilenceIsSeen, SpinsAreCounted, HitchesAreSaid, H!None, H!Calls,
     H!SPIN_LIMIT, H!SPIN_WINDOW, H!STALL, H!GIVE_UP, H!GIVE_UP_ANYWHERE, H!HITCH

\* The numbers of watchdog.rs and recover.rs.
LEMMA LoopNumbers ==
    /\ H!None = -1 /\ H!SPIN_LIMIT = 16 /\ H!SPIN_WINDOW = 4 /\ H!HITCH = 1 /\ H!MaxBusy = 5
    /\ H!STALL = 4 /\ H!GIVE_UP = 40 /\ H!GIVE_UP_ANYWHERE = 120
  BY DEF H!None, H!SPIN_LIMIT, H!SPIN_WINDOW, H!HITCH, H!MaxBusy, H!STALL, H!GIVE_UP, H!GIVE_UP_ANYWHERE

LEMMA TurnEndsKeeps ==
  ASSUME LoopInv, NEW busy \in {0, 2, 3, H!MaxBusy}, H!TurnEnds(busy)
  PROVE  LoopInv'
<1> USE LoopNumbers
<1>0. LoopTypeOK /\ busy \in 0..5
  BY DEF LoopInv
<1>1. /\ loop.alive = "running" /\ loop'.alive = "running" /\ loop'.silent = 0
      /\ loop'.worst = loop.worst /\ loop'.longest = loop.longest
      /\ loop'.run = 0 /\ loop'.spin = 0 /\ loop'.looked = loop.looked
  BY <1>0 DEF H!TurnEnds, H!Beat, LoopTypeOK, LoopRecord
<1>2. /\ loop'.worst_busy = IF busy > loop.worst_busy THEN busy ELSE loop.worst_busy
      /\ loop'.said = IF busy >= loop.next_hitch THEN busy ELSE loop.said
      /\ loop'.next_hitch = IF busy >= loop.next_hitch THEN busy * 2 ELSE loop.next_hitch
  BY <1>0 DEF H!TurnEnds, H!Beat, LoopTypeOK, LoopRecord
<1>3. LoopTypeOK'
  <2> DEFINE w == IF busy > loop.worst_busy THEN busy ELSE loop.worst_busy
             n == IF busy >= loop.next_hitch THEN busy * 2 ELSE loop.next_hitch
             d == IF busy >= loop.next_hitch THEN busy ELSE loop.said
  <2>1. w \in Nat /\ n \in Nat /\ d \in Nat
    BY <1>0 DEF LoopTypeOK, LoopRecord
  <2>2. loop' = [loop EXCEPT !.silent = 0, !.call = "running", !.worst_busy = w, !.said = d,
                             !.next_hitch = n, !.run = 0, !.spin = 0]
    BY <1>0 DEF H!TurnEnds, H!Beat, LoopTypeOK, LoopRecord
  <2> HIDE DEF w, n, d
  <2> DEFINE beat == [loop EXCEPT !.silent = 0, !.call = "running", !.worst_busy = w, !.said = d]
  <2>3. loop' = [beat EXCEPT !.next_hitch = n, !.run = 0, !.spin = 0]
    BY <2>2
  <2>4. beat \in LoopRecord
    BY <1>0, <2>1 DEF H!Calls, LoopTypeOK, LoopRecord
  <2>5. 0 \in 0..H!SPIN_LIMIT /\ 0 \in Nat
    OBVIOUS
  <2> HIDE DEF beat
  <2>6. [beat EXCEPT !.next_hitch = n, !.run = 0, !.spin = 0] \in LoopRecord
    BY <2>1, <2>4, <2>5 DEF LoopRecord
  <2> QED
    BY <2>3, <2>6 DEF LoopTypeOK
<1>4. SilenceIsSeen'
  BY <1>0, <1>1 DEF LoopInv, LoopTypeOK, LoopRecord, SilenceIsSeen
<1>5. SpinsAreCounted'
  BY <1>1 DEF SpinsAreCounted
<1>6. HitchesAreSaid'
  BY <1>0, <1>2 DEF LoopInv, LoopTypeOK, LoopRecord, HitchesAreSaid
<1> QED
  BY <1>3, <1>4, <1>5, <1>6 DEF LoopInv

LEMMA TurnPanicsKeeps == LoopInv /\ H!TurnPanics => LoopInv'
<1> SUFFICES ASSUME LoopInv, H!TurnPanics PROVE LoopInv'
  OBVIOUS
<1> USE LoopNumbers
<1>0. LoopTypeOK /\ loop.alive = "running"
  BY DEF LoopInv, H!TurnPanics
<1> DEFINE run == IF loop.last # H!None /\ loop.last < H!SPIN_WINDOW THEN loop.run + 1 ELSE 1
           spin == IF loop.last # H!None /\ loop.last < H!SPIN_WINDOW THEN loop.spin + 1 ELSE 1
<1>1. /\ loop'.silent = 0 /\ loop'.worst = loop.worst /\ loop'.longest = loop.longest
      /\ loop'.run = run /\ loop'.spin = spin /\ loop'.looked = loop.looked
      /\ loop'.alive = IF run >= H!SPIN_LIMIT THEN "exited" ELSE "running"
  BY <1>0 DEF H!TurnPanics, H!Note, H!Beat, LoopTypeOK, LoopRecord
<1>2. /\ loop'.worst_busy = loop.worst_busy
      /\ loop'.said = loop.said /\ loop'.next_hitch = loop.next_hitch
  BY <1>0 DEF H!TurnPanics, H!Note, H!Beat, LoopTypeOK, LoopRecord, LoopInv, HitchesAreSaid
<1>3. run \in 0..H!SPIN_LIMIT /\ spin \in Nat /\ run = spin
  BY <1>0 DEF LoopTypeOK, LoopRecord, LoopInv, SpinsAreCounted
<1>4. LoopTypeOK'
  <2> DEFINE w == IF 0 > loop.worst_busy THEN 0 ELSE loop.worst_busy
             n == IF 0 >= loop.next_hitch THEN 0 * 2 ELSE loop.next_hitch
             d == IF 0 >= loop.next_hitch THEN 0 ELSE loop.said
             l == IF run >= H!SPIN_LIMIT THEN "exited" ELSE loop.alive
  <2>1. w \in Nat /\ n \in Nat /\ d \in Nat /\ l \in {"running", "exited"}
    BY <1>0 DEF LoopTypeOK, LoopRecord
  <2>2. loop' = [loop EXCEPT !.silent = 0, !.call = "running", !.worst_busy = w, !.said = d,
                             !.next_hitch = n, !.run = run, !.last = 0, !.spin = spin, !.alive = l]
    BY <1>0 DEF H!TurnPanics, H!Note, H!Beat, LoopTypeOK, LoopRecord
  <2> HIDE DEF w, n, d, l, run, spin
  <2> DEFINE beat == [loop EXCEPT !.silent = 0, !.call = "running", !.worst_busy = w, !.said = d]
  <2>3. loop' = [beat EXCEPT !.next_hitch = n, !.run = run, !.last = 0, !.spin = spin, !.alive = l]
    BY <2>2
  <2>4. beat \in LoopRecord
    BY <1>0, <2>1 DEF H!Calls, LoopTypeOK, LoopRecord
  <2>5. 0 \in H!None..H!SPIN_WINDOW
    OBVIOUS
  <2> HIDE DEF beat
  <2> DEFINE turn == [beat EXCEPT !.next_hitch = n, !.run = run, !.last = 0]
  <2>6. turn \in LoopRecord
    BY <1>3, <2>1, <2>4, <2>5 DEF LoopRecord
  <2>7. loop' = [turn EXCEPT !.spin = spin, !.alive = l]
    BY <2>3
  <2> HIDE DEF turn
  <2> QED
    BY <1>3, <2>1, <2>6, <2>7 DEF LoopTypeOK, LoopRecord
<1>5. SilenceIsSeen'
  BY <1>0, <1>1 DEF LoopInv, LoopTypeOK, LoopRecord, SilenceIsSeen
<1>6. SpinsAreCounted'
  BY <1>1, <1>3 DEF SpinsAreCounted
<1>7. HitchesAreSaid'
  BY <1>2 DEF LoopInv, HitchesAreSaid
<1> QED
  BY <1>4, <1>5, <1>6, <1>7 DEF LoopInv

LEMMA LookKeeps == LoopInv /\ H!Look => LoopInv'
<1> SUFFICES ASSUME LoopInv, H!Look PROVE LoopInv'
  OBVIOUS
<1> USE LoopNumbers
<1>0. LoopTypeOK /\ loop.alive = "running" /\ ~loop.looked
  BY DEF LoopInv, H!Look
<1>1. /\ loop'.silent = loop.silent /\ loop'.longest = loop.longest /\ loop'.looked = TRUE
      /\ loop'.run = loop.run /\ loop'.spin = loop.spin
      /\ loop'.worst_busy = loop.worst_busy /\ loop'.next_hitch = loop.next_hitch /\ loop'.said = loop.said
  BY <1>0 DEF H!Look, LoopTypeOK, LoopRecord
<1>2. /\ loop'.worst = IF loop.silent >= H!STALL /\ loop.silent > loop.worst THEN loop.silent ELSE loop.worst
      /\ loop'.alive = IF loop.silent >= H!STALL /\ H!GivesUp(loop.silent, loop.call)
                       THEN "aborted" ELSE "running"
  BY <1>0 DEF H!Look, LoopTypeOK, LoopRecord
<1>3. LoopTypeOK'
  <2> DEFINE w == IF loop.silent > loop.worst THEN loop.silent ELSE loop.worst
             n == IF loop.announced = H!None \/ loop.silent >= loop.announced
                  THEN loop.silent * 2 ELSE loop.announced
             l == IF H!GivesUp(loop.silent, loop.call) THEN "aborted" ELSE loop.alive
  <2>1. w \in Nat /\ n \in Nat \cup {H!None} /\ l \in {"running", "aborted"}
    BY <1>0 DEF LoopTypeOK, LoopRecord
  <2>2. \/ loop' = [loop EXCEPT !.looked = TRUE, !.worst = w, !.announced = n, !.alive = l]
        \/ loop' = [loop EXCEPT !.looked = TRUE, !.announced = H!None]
    BY <1>0 DEF H!Look, LoopTypeOK, LoopRecord
  <2> HIDE DEF w, n, l
  <2>3. CASE loop' = [loop EXCEPT !.looked = TRUE, !.worst = w, !.announced = n, !.alive = l]
    BY <1>0, <2>1, <2>3 DEF LoopTypeOK, LoopRecord
  <2>4. CASE loop' = [loop EXCEPT !.looked = TRUE, !.announced = H!None]
    BY <1>0, <2>4 DEF LoopTypeOK, LoopRecord
  <2> QED
    BY <2>2, <2>3, <2>4
<1>4. SilenceIsSeen'
  BY <1>0, <1>1, <1>2 DEF LoopInv, LoopTypeOK, LoopRecord, SilenceIsSeen, H!GivesUp
<1>5. SpinsAreCounted' /\ HitchesAreSaid'
  BY <1>0, <1>1, <1>2 DEF LoopInv, SpinsAreCounted, HitchesAreSaid
<1> QED
  BY <1>3, <1>4, <1>5 DEF LoopInv

LEMMA QuarterPassesKeeps == LoopInv /\ H!QuarterPasses => LoopInv'
<1> SUFFICES ASSUME LoopInv, H!QuarterPasses PROVE LoopInv'
  OBVIOUS
<1> USE LoopNumbers
<1>0. LoopTypeOK /\ loop.alive = "running" /\ loop.looked
  BY DEF LoopInv, H!QuarterPasses
<1>1. /\ loop'.silent = loop.silent + 1 /\ loop'.looked = FALSE /\ loop'.alive = "running"
      /\ loop'.longest = IF loop.silent + 1 > loop.longest THEN loop.silent + 1 ELSE loop.longest
      /\ loop'.worst = loop.worst /\ loop'.run = loop.run /\ loop'.spin = loop.spin
      /\ loop'.worst_busy = loop.worst_busy /\ loop'.next_hitch = loop.next_hitch /\ loop'.said = loop.said
  BY <1>0 DEF H!QuarterPasses, LoopTypeOK, LoopRecord
<1>2. LoopTypeOK'
  <2> DEFINE l == IF loop.last = H!None \/ loop.last = H!SPIN_WINDOW THEN loop.last ELSE loop.last + 1
             g == IF loop.silent + 1 > loop.longest THEN loop.silent + 1 ELSE loop.longest
             n == loop.silent + 1
  <2>1. l \in H!None..H!SPIN_WINDOW /\ g \in Nat /\ n \in Nat
    BY <1>0 DEF LoopTypeOK, LoopRecord
  <2>2. loop' = [loop EXCEPT !.looked = FALSE, !.silent = n, !.last = l, !.longest = g]
    BY <1>0 DEF H!QuarterPasses, LoopTypeOK, LoopRecord
  <2> HIDE DEF l, g, n
  <2> QED
    BY <1>0, <2>1, <2>2 DEF LoopTypeOK, LoopRecord
<1>3. SilenceIsSeen'
  BY <1>0, <1>1 DEF LoopInv, LoopTypeOK, LoopRecord, SilenceIsSeen
<1>4. SpinsAreCounted' /\ HitchesAreSaid'
  BY <1>0, <1>1 DEF LoopInv, SpinsAreCounted, HitchesAreSaid
<1> QED
  BY <1>2, <1>3, <1>4 DEF LoopInv

LEMMA LoopInvStep == LoopInv /\ H!LoopNext => LoopInv'
<1> SUFFICES ASSUME LoopInv, H!LoopNext PROVE LoopInv'
  OBVIOUS
<1>1. ASSUME NEW call \in H!Calls, H!Blocks(call) PROVE LoopInv'
  BY <1>1 DEF H!Blocks, LoopInv, LoopTypeOK, LoopRecord, SilenceIsSeen, SpinsAreCounted, HitchesAreSaid
<1> QED
  BY <1>1, TurnEndsKeeps, TurnPanicsKeeps, LookKeeps, QuarterPassesKeeps DEF H!LoopNext

\* The numbers of recovery.rs.
LEMMA DisplayNumbers ==
    /\ H!None = -1 /\ H!REFUSED_FOR = 2 /\ H!SETTLE = 10 /\ H!MostRecoveries = 8 /\ H!Oldest = 60
    /\ H!Relight = 3 /\ H!ResetDevice = 4
  BY DEF H!None, H!REFUSED_FOR, H!SETTLE, H!MostRecoveries, H!Oldest, H!Relight, H!ResetDevice

LEMMA LaterIsHarder ==
  ASSUME NEW n \in Nat
  PROVE  /\ H!Backoff(n) \in {0, 5, 15, 30, 60} /\ (H!Backoff(n) # 0 <=> n >= 5)
         /\ H!StepOf(n) \in 1..4 /\ (H!StepOf(n) >= 3 <=> n >= 3)
  BY DEF H!Backoff, H!StepOf

\* What RecoverOutput makes of an output.
Unflipped(o) == [o EXCEPT !.flip = FALSE, !.timer = H!None]
WithCount(o, n) == [H!RefusalsOver(o) EXCEPT !.recoveries = n]
Waiting(p, seconds, then, itself) ==
    [p EXCEPT !.timer = seconds, !.timer_step = then, !.timer_auto = itself]

LEMMA UnflippedIs ==
  ASSUME NEW o \in OutRecord
  PROVE  /\ Unflipped(o) \in OutRecord /\ Unflipped(o).flip = FALSE
         /\ Unflipped(o).flashes = o.flashes
         /\ Unflipped(o).recovered_at = o.recovered_at /\ Unflipped(o).recoveries = o.recoveries
<1> DEFINE none == H!None
<1>1. none \in -1..60
  BY DisplayNumbers
<1> HIDE DEF none
<1>2. Unflipped(o) = [o EXCEPT !.flip = FALSE, !.timer = none]
  BY DEF Unflipped, none
<1>3. [o EXCEPT !.flip = FALSE, !.timer = none] \in OutRecord
  BY <1>1 DEF OutRecord
<1> QED
  BY <1>2, <1>3 DEF OutRecord

LEMMA WithCountIs ==
  ASSUME NEW o \in OutRecord, NEW n \in 0..8
  PROVE  /\ WithCount(o, n) \in OutRecord /\ WithCount(o, n).recoveries = n
         /\ WithCount(o, n).flip = o.flip /\ WithCount(o, n).flashes = o.flashes
         /\ WithCount(o, n).recovered_at = o.recovered_at /\ WithCount(o, n).refused_since = H!None
<1> DEFINE none == H!None  busy == "Busy"
<1>1. none \in -1..3 /\ busy \in H!Failure
  BY DisplayNumbers DEF H!Failure
<1>2. WithCount(o, n) = [o EXCEPT !.refused_since = none, !.last_refusal = busy, !.recoveries = n]
  BY DEF WithCount, H!RefusalsOver
<1> HIDE DEF none, busy
<1>3. [o EXCEPT !.refused_since = none, !.last_refusal = busy, !.recoveries = n] \in OutRecord
  BY <1>1 DEF OutRecord
<1> QED
  BY <1>2, <1>3 DEF OutRecord, none

\* A release that starts of its own accord may be the next flash.
Flashed(f) == [i \in 1..3 |-> IF i = 1 THEN 0 ELSE f[i - 1]]

\* An output whose recoveries have been counted, but not for a new start.
Counted(o) ==
    /\ o \in OutRecord /\ o.flashes = out.flashes
    /\ out.flashes[1] < H!SETTLE => o.recoveries >= out.recoveries

LEMMA StartReleaseKeeps ==
  ASSUME DisplayInv, NEW o, NEW step \in 0..4, NEW auto \in BOOLEAN, Counted(o),
         auto /\ step >= 3 => /\ o.recoveries >= 3
                              /\ out.flashes[1] < H!SETTLE => o.recoveries >= 4
                              /\ out.flashes[2] < H!SETTLE => out.flashes[1] >= 5,
         out' = H!StartRelease(o, step, auto)
  PROVE  DisplayInv'
<1> USE DisplayNumbers
<1>0. -1 \in -1..60 /\ -1 \in -1..3 /\ 0 \in -1..60 /\ 0 \in 0..4 /\ step \in 0..4 /\ "Busy" \in H!Failure
  BY DEF H!Failure
<1> DEFINE f == IF auto /\ step >= 3 THEN Flashed(out.flashes) ELSE out.flashes
<1>1. OutTypeOK /\ FlashesArePaced /\ o \in OutRecord
  BY DEF DisplayInv, Counted
<1>2. out.flashes \in [1..3 -> 0..10] /\ o.flashes \in [1..3 -> 0..10]
  BY <1>1 DEF OutTypeOK, OutRecord
<1>3. f \in [1..3 -> 0..10]
  BY <1>2 DEF Flashed
<1>4. out' = [o EXCEPT !.refused_since = H!None, !.last_refusal = "Busy", !.flip = FALSE, !.timer = H!None,
                       !.timer_step = 0, !.timer_auto = FALSE, !.releasing = step, !.recovered_at = 0,
                       !.flipped = FALSE, !.flashes = f]
  BY DEF H!StartRelease, H!RefusalsOver, Flashed, OutRecord, Counted
<1>5. OutTypeOK'
  <2> DEFINE a == [o EXCEPT !.refused_since = H!None, !.last_refusal = "Busy", !.flip = FALSE, !.timer = H!None]
             b == [a EXCEPT !.timer_step = 0, !.timer_auto = FALSE, !.releasing = step]
  <2>1. a \in OutRecord
    BY <1>0, <1>1 DEF OutRecord
  <2>2. b = [o EXCEPT !.refused_since = H!None, !.last_refusal = "Busy", !.flip = FALSE, !.timer = H!None,
                      !.timer_step = 0, !.timer_auto = FALSE, !.releasing = step]
    OBVIOUS
  <2> HIDE DEF a
  <2>3. b \in OutRecord
    BY <1>0, <2>1 DEF OutRecord
  <2>4. out' = [b EXCEPT !.recovered_at = 0, !.flipped = FALSE, !.flashes = f]
    BY <1>4, <2>2
  <2> HIDE DEF b, f
  <2> DEFINE c == [b EXCEPT !.recovered_at = 0, !.flipped = FALSE]
  <2>5. c \in OutRecord
    BY <1>0, <2>3 DEF OutRecord
  <2>6. out' = [c EXCEPT !.flashes = f]
    BY <2>4
  <2> HIDE DEF c
  <2>7. [c EXCEPT !.flashes = f] \in OutRecord
    BY <1>3, <2>5 DEF OutRecord
  <2> QED
    BY <2>6, <2>7 DEF OutTypeOK
<1>6. /\ out'.flashes = f /\ out'.recovered_at = 0 /\ out'.recoveries = o.recoveries
      /\ out'.timer = H!None /\ out'.refused_since = H!None
  BY <1>1, <1>4 DEF OutRecord
<1>7. TimerIsLate' /\ H!RefusalsEndInAReset'
  BY <1>6 DEF TimerIsLate, H!RefusalsEndInAReset
<1>8. FlashesArePaced'
  <2>1. o.recoveries \in 0..8 /\ out.recoveries \in 0..8
    BY <1>1 DEF OutTypeOK, OutRecord
  <2>2. CASE auto /\ step >= 3
    <3>1. f[1] = 0 /\ f[2] = out.flashes[1] /\ f[3] = out.flashes[2]
      BY <1>2, <2>2 DEF Flashed
    <3> QED
      BY <1>1, <1>2, <1>6, <2>1, <2>2, <3>1 DEF FlashesArePaced
  <2>3. CASE ~(auto /\ step >= 3)
    BY <1>1, <1>2, <1>6, <2>1, <2>3 DEF FlashesArePaced, Counted
  <2> QED
    BY <2>2, <2>3
<1> QED
  BY <1>5, <1>7, <1>8 DEF DisplayInv

LEMMA WaitKeeps ==
  ASSUME DisplayInv, NEW c, NEW wait \in -1..60, NEW step \in 0..4, NEW auto \in BOOLEAN, Counted(c),
         c.flip = FALSE, c.refused_since = H!None, c.recoveries >= 5, c.recovered_at # -1,
         wait + c.recovered_at >= 5, out.flashes[1] < 10 => c.recovered_at = out.recovered_at,
         out' = Waiting(c, wait, step, auto)
  PROVE  DisplayInv'
<1>1. c \in OutRecord /\ c.recovered_at \in -1..60 /\ c.recoveries \in 0..8 /\ c.flashes = out.flashes
  BY DEF Counted, OutRecord
<1>2. /\ out' \in OutRecord
      /\ out'.timer = wait /\ out'.flip = FALSE /\ out'.recoveries = c.recoveries /\ out'.flashes = out.flashes
      /\ out'.recovered_at = c.recovered_at /\ out'.refused_since = -1
  <2>1. out' = [c EXCEPT !.timer = wait, !.timer_step = step, !.timer_auto = auto]
    BY DEF Waiting
  <2>2. [c EXCEPT !.timer = wait, !.timer_step = step, !.timer_auto = auto] \in OutRecord
    BY <1>1 DEF OutRecord
  <2>3. /\ out'.timer = wait /\ out'.flip = c.flip /\ out'.recoveries = c.recoveries /\ out'.flashes = c.flashes
        /\ out'.recovered_at = c.recovered_at /\ out'.refused_since = c.refused_since
    BY <1>1, <2>1 DEF OutRecord
  <2> QED
    BY <1>1, <2>1, <2>2, <2>3, DisplayNumbers
<1>3. TimerIsLate'
  BY <1>1, <1>2, DisplayNumbers DEF TimerIsLate
<1>4. FlashesArePaced'
  <2>1. FlashesArePaced /\ out.flashes \in [1..3 -> 0..10] /\ out.recoveries \in 0..8
    BY DEF DisplayInv, OutTypeOK, OutRecord
  <2> QED
    BY <1>1, <1>2, <2>1, DisplayNumbers DEF FlashesArePaced
<1>5. H!RefusalsEndInAReset'
  BY <1>2, DisplayNumbers DEF H!RefusalsEndInAReset
<1> QED
  BY <1>2, <1>3, <1>4, <1>5 DEF DisplayInv, OutTypeOK

\* What a frame that was shown settles is no flash of the last ten seconds.
LEMMA SettleIsLate ==
  ASSUME FlashesArePaced, NEW o \in OutRecord, o.flashes = out.flashes, out.flashes \in [1..3 -> 0..10],
         o.recovered_at = out.recovered_at, o.recoveries = out.recoveries
  PROVE  /\ Counted(H!Settle(o))
         /\ H!Settle(o) = o \/ H!Settle(o) = [o EXCEPT !.recoveries = 0, !.recovered_at = H!None]
         /\ out.flashes[1] < H!SETTLE => H!Settle(o) = o
<1> USE DisplayNumbers
<1>1. out.flashes[1] < H!SETTLE => H!Settle(o) = o
  BY DEF H!Settle, FlashesArePaced, OutRecord
<1>2. H!Settle(o) = o \/ H!Settle(o) = [o EXCEPT !.recoveries = 0, !.recovered_at = H!None]
  BY DEF H!Settle
<1>3. H!Settle(o) \in OutRecord /\ H!Settle(o).flashes = out.flashes
  <2>1. 0 \in 0..8 /\ H!None \in -1..60
    OBVIOUS
  <2> QED
    BY <1>2, <2>1 DEF OutRecord
<1> QED
  BY <1>1, <1>2, <1>3 DEF Counted, OutRecord

Causes == {H!Cause(kind) : kind \in {"StuckFlip", "Requested", "Device"}} \cup {H!Refused(failure) : failure \in H!Failure}

LEMMA RecoverOutputKeeps ==
  ASSUME DisplayInv, NEW o \in OutRecord, NEW cause \in Causes,
         o.flashes = out.flashes, o.recovered_at = out.recovered_at, o.recoveries = out.recoveries,
         o.releasing = 0, o.timer = H!None \/ cause.kind = "Requested",
         out' = H!RecoverOutput(o, cause)
  PROVE  DisplayInv'
<1> DEFINE settled == H!Settle(Unflipped(o))
           most(a, b) == IF a > b THEN a ELSE b
           n == most(IF settled.recoveries = H!MostRecoveries THEN H!MostRecoveries ELSE settled.recoveries + 1,
                     H!FirstStep(cause))
           counted == WithCount(settled, n)
           auto == cause.kind # "Requested"
           wait == IF ~auto \/ counted.recovered_at = H!None
                   THEN 0 ELSE most(0, H!Backoff(n) - counted.recovered_at)
           step == H!StepOf(n)
<1>1. out' = IF wait = 0 THEN H!StartRelease(counted, step, auto) ELSE Waiting(counted, wait, step, auto)
  BY DEF H!RecoverOutput, Unflipped, WithCount, Waiting
<1>2. H!FirstStep(cause) \in 1..4
  BY DisplayNumbers DEF H!FirstStep, Causes, H!Cause, H!Refused, H!Resubmit, H!ResetState
<1>3. FlashesArePaced /\ out.flashes \in [1..3 -> 0..10] /\ out.recoveries \in 0..8
  BY DEF DisplayInv, OutTypeOK, OutRecord
<1>4. /\ settled \in OutRecord /\ settled.flashes = out.flashes /\ settled.flip = FALSE
      /\ out.flashes[1] < 10 => /\ settled.recovered_at = out.recovered_at
                                /\ settled.recoveries = out.recoveries
  <2> DEFINE u == Unflipped(o)
  <2>1. /\ u \in OutRecord /\ u.flip = FALSE /\ u.flashes = out.flashes
        /\ u.recovered_at = out.recovered_at /\ u.recoveries = out.recoveries
    BY UnflippedIs
  <2> HIDE DEF u
  <2>2. /\ Counted(H!Settle(u))
        /\ H!Settle(u) = u \/ H!Settle(u) = [u EXCEPT !.recoveries = 0, !.recovered_at = H!None]
        /\ out.flashes[1] < 10 => H!Settle(u) = u
    BY <1>3, <2>1, SettleIsLate, DisplayNumbers
  <2>3. /\ H!Settle(u) \in OutRecord /\ H!Settle(u).flashes = out.flashes /\ H!Settle(u).flip = FALSE
        /\ out.flashes[1] < 10 => /\ H!Settle(u).recovered_at = out.recovered_at
                                  /\ H!Settle(u).recoveries = out.recoveries
    BY <2>1, <2>2 DEF Counted, OutRecord
  <2> QED
    BY <2>3 DEF u
<1> HIDE DEF settled
<1>5. n \in 1..8 /\ (settled.recoveries < 8 => n >= settled.recoveries + 1) /\ n >= settled.recoveries
  BY <1>2, <1>4, DisplayNumbers DEF OutRecord
<1> HIDE DEF n
<1>6. /\ counted \in OutRecord /\ counted.flashes = out.flashes /\ counted.flip = FALSE
      /\ counted.recoveries = n /\ counted.recovered_at = settled.recovered_at
      /\ counted.refused_since = H!None
  <2>1. n \in 0..8
    BY <1>5
  <2> QED
    BY <1>4, <2>1, WithCountIs
<1> HIDE DEF counted
<1>7. Counted(counted)
  BY <1>3, <1>4, <1>5, <1>6, DisplayNumbers DEF Counted, OutRecord
<1>8. counted.recovered_at \in -1..60 /\ counted.recoveries \in 0..8
  BY <1>6 DEF OutRecord
<1>9. /\ step \in 1..4 /\ (step >= 3 <=> n >= 3) /\ auto \in BOOLEAN
      /\ H!Backoff(n) \in {0, 5, 15, 30, 60} /\ (H!Backoff(n) # 0 <=> n >= 5)
  BY <1>5, LaterIsHarder
<1> HIDE DEF step
<1>10. out.flashes[1] < 10 => /\ counted.recovered_at = out.recovered_at /\ counted.recovered_at # -1
                              /\ counted.recovered_at <= out.flashes[1]
                              /\ n >= 4 /\ (out.flashes[2] < 10 => n >= 5)
  BY <1>3, <1>4, <1>5, <1>6, DisplayNumbers DEF FlashesArePaced
<1>11. CASE wait = 0
  <2>1. ASSUME auto, n >= 3, out.flashes[2] < 10 PROVE out.flashes[1] >= 5
    <3>1. out.flashes[1] < 10
      BY <1>3, <2>1, DisplayNumbers DEF FlashesArePaced
    <3>2. n >= 5 /\ H!Backoff(n) >= 5
      BY <1>9, <1>10, <2>1, <3>1
    <3>3. counted.recovered_at >= 5
      BY <1>8, <1>9, <1>10, <1>11, <2>1, <3>1, <3>2, DisplayNumbers
    <3> QED
      BY <1>3, <1>8, <1>10, <3>1, <3>3
  <2>2. auto /\ step >= 3 => /\ counted.recoveries >= 3
                             /\ out.flashes[1] < H!SETTLE => counted.recoveries >= 4
                             /\ out.flashes[2] < H!SETTLE => out.flashes[1] >= 5
    BY <1>6, <1>9, <1>10, <2>1, DisplayNumbers
  <2>3. out' = H!StartRelease(counted, step, auto) /\ step \in 0..4
    BY <1>1, <1>9, <1>11
  <2> HIDE DEF auto
  <2> QED
    BY <1>7, <1>9, <2>2, <2>3, StartReleaseKeeps
<1>12. CASE wait # 0
  <2>1. /\ wait = H!Backoff(n) - counted.recovered_at /\ counted.recovered_at # -1 /\ wait \in 1..60 /\ n >= 5
    BY <1>8, <1>9, <1>12, DisplayNumbers
  <2>2. step \in 0..4 /\ wait \in -1..60 /\ wait + counted.recovered_at >= 5
    BY <1>8, <1>9, <2>1
  <2>3. out' = Waiting(counted, wait, step, auto)
    BY <1>1, <1>12
  <2> HIDE DEF wait, auto
  <2>4. counted.recoveries >= 5 /\ (out.flashes[1] < 10 => counted.recovered_at = out.recovered_at)
    BY <1>6, <1>10, <2>1
  <2> QED
    BY <1>6, <1>7, <1>9, <2>1, <2>2, <2>3, <2>4, WaitKeeps
<1> QED
  BY <1>11, <1>12

LEMMA DisplayInvStep == DisplayInv /\ H!DisplayNext => DisplayInv'
<1> SUFFICES ASSUME DisplayInv, H!DisplayNext PROVE DisplayInv'
  OBVIOUS
<1>0. /\ out \in OutRecord /\ FlashesArePaced /\ TimerIsLate /\ H!RefusalsEndInAReset
      /\ out.flashes \in [1..3 -> 0..10]
  BY DEF DisplayInv, OutTypeOK, OutRecord
<1> DEFINE none == H!None  busy == "Busy"  device == H!ResetDevice
<1>00. /\ none = -1 /\ none \in -1..3 /\ none \in -1..60 /\ busy \in H!Failure /\ device \in 0..4
       /\ 0 \in 0..8 /\ 0 \in 0..4 /\ 0 \in -1..3
  BY DisplayNumbers DEF H!Failure
<1>000. H!RefusalsOver(out) = [out EXCEPT !.refused_since = none, !.last_refusal = busy]
  BY DEF H!RefusalsOver
<1> HIDE DEF none, busy, device
<1>1. CASE H!FrameTaken
  <2>1. /\ out' = [out EXCEPT !.refused_since = none, !.last_refusal = busy, !.flip = TRUE, !.tried = TRUE]
        /\ out.timer = none
    BY <1>1, <1>000 DEF H!FrameTaken, H!Draws, H!Idle, none
  <2>2. out' \in OutRecord
    BY <1>0, <1>00, <2>1 DEF OutRecord
  <2>3. /\ out'.flashes = out.flashes /\ out'.recoveries = out.recoveries /\ out'.timer = none
        /\ out'.recovered_at = out.recovered_at /\ out'.refused_since = none
    BY <1>0, <2>1 DEF OutRecord
  <2> QED
    BY <1>0, <1>00, <2>2, <2>3, DisplayNumbers DEF DisplayInv, OutTypeOK, FlashesArePaced, TimerIsLate, H!RefusalsEndInAReset
<1>2. CASE H!FrameFinish
  <2> DEFINE o == [out EXCEPT !.flip = FALSE, !.flipped = TRUE]
  <2>1. o \in OutRecord /\ out' = H!Settle(o) /\ out.flip
    BY <1>0, <1>2 DEF OutRecord, H!FrameFinish
  <2>2. /\ o.flashes = out.flashes /\ o.recoveries = out.recoveries /\ o.timer = out.timer
        /\ o.recovered_at = out.recovered_at /\ o.refused_since = out.refused_since
        /\ o.tried = out.tried /\ o.last_refusal = out.last_refusal
    BY <1>0 DEF OutRecord
  <2> HIDE DEF o
  <2>3. /\ Counted(out')
        /\ out' = o \/ out' = [o EXCEPT !.recoveries = 0, !.recovered_at = none]
        /\ out.flashes[1] < 10 => out' = o
    BY <1>0, <2>1, <2>2, SettleIsLate, DisplayNumbers DEF none
  <2>4. out' \in OutRecord /\ out'.flashes = out.flashes
    BY <2>3 DEF Counted
  <2>5. /\ out'.timer = out.timer /\ out'.refused_since = out.refused_since
        /\ out'.tried = out.tried /\ out'.last_refusal = out.last_refusal
    BY <2>1, <2>2, <2>3 DEF OutRecord
  <2>6. out.timer = none
    BY <1>0, <2>1 DEF TimerIsLate, none
  <2>7. TimerIsLate' /\ H!RefusalsEndInAReset'
    BY <1>0, <2>5, <2>6 DEF TimerIsLate, H!RefusalsEndInAReset, none
  <2>8. FlashesArePaced'
    BY <1>0, <2>2, <2>3, <2>4, DisplayNumbers DEF FlashesArePaced
  <2> QED
    BY <2>4, <2>7, <2>8 DEF DisplayInv, OutTypeOK
<1>3. CASE H!FlipTimedOut
  <2>1. out' = H!RecoverOutput(out, H!Cause("StuckFlip")) /\ out.flip /\ H!Cause("StuckFlip") \in Causes
    BY <1>3 DEF H!FlipTimedOut, Causes
  <2>2. out.timer = none
    BY <1>0, <2>1 DEF TimerIsLate, none
  <2>3. CASE out.releasing # 0
    BY <2>1, <2>3, <1>0 DEF H!RecoverOutput, DisplayInv, OutTypeOK, FlashesArePaced, TimerIsLate, H!RefusalsEndInAReset
  <2>4. CASE out.releasing = 0
    BY <1>0, <2>1, <2>2, <2>4, RecoverOutputKeeps DEF none
  <2> QED
    BY <2>3, <2>4
<1>4. ASSUME NEW failure \in H!Failure, H!FrameRefused(failure) PROVE DisplayInv'
  <2> DEFINE since == IF out.refused_since = none THEN 0 ELSE out.refused_since
             o == [out EXCEPT !.tried = TRUE, !.last_refusal = failure, !.refused_since = since]
  <2>1. /\ out.releasing = 0 /\ out.timer = none
        /\ out' = IF failure \notin H!Waited /\ ~(failure = "TestFailed" /\ out.refused_since = none)
                     /\ o.refused_since >= H!REFUSED_FOR
                  THEN H!RecoverOutput(o, H!Refused(failure)) ELSE o
    BY <1>4 DEF H!FrameRefused, H!Draws, H!Idle, none
  <2>2. since \in -1..3
    BY <1>0, <1>00 DEF OutRecord
  <2>3. (failure = "TestFailed" /\ out.refused_since = none) => since = 0
    OBVIOUS
  <2> HIDE DEF since
  <2>4. o \in OutRecord
    BY <1>0, <2>2 DEF OutRecord
  <2>5. /\ o.flashes = out.flashes /\ o.recoveries = out.recoveries /\ o.timer = out.timer
        /\ o.recovered_at = out.recovered_at /\ o.refused_since = since /\ o.releasing = out.releasing
        /\ o.tried = TRUE /\ o.last_refusal = failure /\ o.flip = out.flip
    BY <1>0 DEF OutRecord
  <2> HIDE DEF o
  <2>6. CASE out' = H!RecoverOutput(o, H!Refused(failure))
    <3>1. H!Refused(failure) \in Causes
      BY DEF Causes
    <3> QED
      BY <2>1, <2>4, <2>5, <2>6, <3>1, RecoverOutputKeeps DEF none
  <2>7. CASE /\ out' = o
             /\ failure \in H!Waited \/ since = 0 \/ ~(since >= H!REFUSED_FOR)
    <3>1. H!RefusalsEndInAReset'
      BY <2>2, <2>5, <2>7, DisplayNumbers DEF H!RefusalsEndInAReset
    <3>2. TimerIsLate'
      BY <2>1, <2>5, <2>7 DEF TimerIsLate, none
    <3>3. FlashesArePaced'
      BY <1>0, <2>5, <2>7 DEF FlashesArePaced
    <3> QED
      BY <2>4, <2>7, <3>1, <3>2, <3>3 DEF DisplayInv, OutTypeOK
  <2> QED
    BY <2>1, <2>3, <2>5, <2>6, <2>7
<1>5. CASE H!ResetDisplays
  <2>1. /\ out' = H!RecoverOutput(out, H!Cause("Requested"))
        /\ H!Cause("Requested") \in Causes /\ H!Cause("Requested").kind = "Requested"
    BY <1>5 DEF H!ResetDisplays, Causes, H!Cause
  <2>3. CASE out.releasing # 0
    BY <2>1, <2>3, <1>0 DEF H!RecoverOutput, DisplayInv, OutTypeOK, FlashesArePaced, TimerIsLate, H!RefusalsEndInAReset
  <2>4. CASE out.releasing = 0
    BY <1>0, <2>1, <2>4, RecoverOutputKeeps
  <2> QED
    BY <2>3, <2>4
<1>6. CASE H!DeviceReset
  <2>1. out' = [out EXCEPT !.refused_since = none, !.last_refusal = busy, !.flip = FALSE, !.timer = none,
                           !.timer_step = 0, !.timer_auto = FALSE, !.releasing = device]
    BY <1>6, <1>000 DEF H!DeviceReset, none, device
  <2> DEFINE a == [out EXCEPT !.refused_since = none, !.last_refusal = busy, !.flip = FALSE]
  <2>2. a \in OutRecord /\ out' = [a EXCEPT !.timer = none, !.timer_step = 0, !.timer_auto = FALSE, !.releasing = device]
    BY <1>0, <1>00, <2>1 DEF OutRecord
  <2>3. /\ out'.flashes = out.flashes /\ out'.recoveries = out.recoveries /\ out'.timer = none
        /\ out'.recovered_at = out.recovered_at /\ out'.refused_since = none
    BY <1>0, <2>1 DEF OutRecord
  <2> HIDE DEF a
  <2>4. out' \in OutRecord
    BY <1>00, <2>2 DEF OutRecord
  <2> QED
    BY <1>0, <1>00, <2>3, <2>4, DisplayNumbers DEF DisplayInv, OutTypeOK, FlashesArePaced, TimerIsLate, H!RefusalsEndInAReset
<1>7. CASE H!RecoveryTimer
  <2>1. out.timer = 0 /\ out' = H!StartRelease(out, out.timer_step, out.timer_auto)
    BY <1>7 DEF H!RecoveryTimer
  <2>2. /\ out.timer_step \in 0..4 /\ out.timer_auto \in BOOLEAN /\ out.recovered_at \in -1..60
        /\ out.recoveries \in 0..8
    BY <1>0 DEF OutRecord
  <2>3. out.recoveries >= 5 /\ out.recovered_at >= 5
    BY <1>0, <1>00, <2>1, <2>2 DEF TimerIsLate, none
  <2>4. out.flashes[2] < H!SETTLE => out.flashes[1] >= 5
    BY <1>0, <2>2, <2>3, DisplayNumbers DEF FlashesArePaced
  <2>5. Counted(out)
    BY <1>0, <2>2 DEF Counted
  <2> QED
    BY <2>1, <2>2, <2>3, <2>4, <2>5, StartReleaseKeeps
<1>8. CASE H!ReleaseDone
  <2>1. out' = [out EXCEPT !.releasing = 0]
    BY <1>8 DEF H!ReleaseDone
  <2>2. out' \in OutRecord
    BY <1>0, <1>00, <2>1 DEF OutRecord
  <2>3. /\ out'.flashes = out.flashes /\ out'.recoveries = out.recoveries /\ out'.timer = out.timer
        /\ out'.recovered_at = out.recovered_at /\ out'.refused_since = out.refused_since
        /\ out'.tried = out.tried /\ out'.last_refusal = out.last_refusal /\ out'.flip = out.flip
    BY <1>0, <2>1 DEF OutRecord
  <2> QED
    BY <1>0, <2>2, <2>3 DEF DisplayInv, OutTypeOK, FlashesArePaced, TimerIsLate, H!RefusalsEndInAReset
<1>9. CASE H!SecondPasses
  <2> DEFINE since == IF out.refused_since > H!REFUSED_FOR THEN out.refused_since ELSE H!Older(out.refused_since)
             at == H!Older(out.recovered_at)
             wait == IF out.timer = H!None THEN out.timer ELSE out.timer - 1
             f == [i \in 1..3 |-> IF out.flashes[i] < H!SETTLE THEN out.flashes[i] + 1 ELSE H!SETTLE]
  <2>1. /\ out.timer # 0
        /\ out' = [out EXCEPT !.refused_since = since, !.recovered_at = at, !.tried = FALSE,
                              !.timer = wait, !.flashes = f]
    BY <1>9 DEF H!SecondPasses
  <2>2. /\ since \in -1..3 /\ at \in -1..60 /\ wait \in -1..60 /\ f \in [1..3 -> 0..10]
        /\ wait # -1 => out.timer # -1 /\ wait = out.timer - 1
        /\ at = IF out.recovered_at = -1 \/ out.recovered_at = 60 THEN out.recovered_at ELSE out.recovered_at + 1
    BY <1>0, <2>1, DisplayNumbers DEF OutRecord, H!Older
  <2>3. \A i \in 1..3 : f[i] = IF out.flashes[i] < 10 THEN out.flashes[i] + 1 ELSE 10
    BY DisplayNumbers
  <2> HIDE DEF since, at, wait, f
  <2>4. out' \in OutRecord
    <3> DEFINE a == [out EXCEPT !.refused_since = since, !.recovered_at = at, !.tried = FALSE]
    <3>1. a \in OutRecord /\ out' = [a EXCEPT !.timer = wait, !.flashes = f]
      BY <1>0, <2>1, <2>2 DEF OutRecord
    <3> HIDE DEF a
    <3> QED
      BY <2>2, <3>1 DEF OutRecord
  <2>5. /\ out'.flashes = f /\ out'.recoveries = out.recoveries /\ out'.timer = wait
        /\ out'.recovered_at = at /\ out'.tried = FALSE /\ out'.flip = out.flip
    BY <1>0, <2>1 DEF OutRecord
  <2>6. out.recovered_at \in -1..60 /\ out.timer \in -1..60
    BY <1>0 DEF OutRecord
  <2>7. TimerIsLate'
    BY <1>0, <2>2, <2>5, <2>6, DisplayNumbers DEF TimerIsLate
  <2>8. FlashesArePaced'
    <3>1. /\ f[1] = IF out.flashes[1] < 10 THEN out.flashes[1] + 1 ELSE 10
          /\ f[2] = IF out.flashes[2] < 10 THEN out.flashes[2] + 1 ELSE 10
          /\ f[3] = IF out.flashes[3] < 10 THEN out.flashes[3] + 1 ELSE 10
      BY <2>3
    <3>2. out.flashes[1] \in 0..10 /\ out.flashes[2] \in 0..10 /\ out.flashes[3] \in 0..10
      BY <1>0
    <3> QED
      BY <1>0, <2>2, <2>5, <2>6, <3>1, <3>2, DisplayNumbers DEF FlashesArePaced
  <2>9. H!RefusalsEndInAReset'
    BY <2>5 DEF H!RefusalsEndInAReset
  <2> QED
    BY <2>4, <2>7, <2>8, <2>9 DEF DisplayInv, OutTypeOK
<1> QED
  BY <1>1, <1>2, <1>3, <1>4, <1>5, <1>6, <1>7, <1>8, <1>9 DEF H!DisplayNext

LEMMA HealthInvStep == HealthInv /\ [DeskNext]_deskVars => HealthInv'
<1> SUFFICES ASSUME HealthInv, [DeskNext]_deskVars PROVE HealthInv'
  OBVIOUS
<1>1. CASE UNCHANGED <<working, healthVars>>
  BY <1>1 DEF healthVars, HealthInv, DisplayInv, OutTypeOK, FlashesArePaced, TimerIsLate, H!RefusalsEndInAReset,
     LoopInv, LoopTypeOK, SilenceIsSeen, SpinsAreCounted, HitchesAreSaid
<1>2. CASE working = "display" /\ H!DisplayNext /\ UNCHANGED working
  <2>1. DisplayInv /\ LoopInv /\ UNCHANGED loop
    BY <1>2 DEF HealthInv, HealthScenes, H!DisplayNext
  <2>2. LoopInv'
    BY <2>1 DEF LoopInv, LoopTypeOK, SilenceIsSeen, SpinsAreCounted, HitchesAreSaid
  <2> QED
    BY <1>2, <2>1, <2>2, DisplayInvStep DEF HealthInv
<1>3. CASE working = "loop" /\ H!LoopNext /\ UNCHANGED working
  <2>1. DisplayInv /\ LoopInv /\ UNCHANGED out
    BY <1>3 DEF HealthInv, HealthScenes, H!LoopNext
  <2>2. DisplayInv'
    BY <2>1 DEF DisplayInv, OutTypeOK, FlashesArePaced, TimerIsLate, H!RefusalsEndInAReset
  <2> QED
    BY <1>3, <2>1, <2>2, LoopInvStep DEF HealthInv
<1> QED
  BY <1>1, <1>2, <1>3 DEF DeskNext, InputNext, deskVars, healthVars, InputScenes

\* For as long as the desktop runs, whatever fails, is asked for or hangs: a
\* display is not flashed, refusals and silences come to an end, the session
\* ends over panics when it should (recovery.rs, watchdog.rs, recover.rs).
THEOREM HealthSound == DeskSpec => []HealthIsSound
<1>1. DeskInit => HealthInv
  BY NewOutIsHealthy, NewLoopIsHealthy DEF DeskInit, HealthInv, H!HealthInit
<1>2. HealthInv => HealthIsSound
  <2> SUFFICES ASSUME DisplayInv, LoopInv PROVE H!HealthIsSound
    BY DEF HealthInv, HealthIsSound
  <2>1. H!HealthTypeOK
    BY DisplayNumbers DEF H!HealthTypeOK, DisplayInv, OutTypeOK, OutRecord, LoopInv, LoopTypeOK, LoopRecord
  <2>2. H!DisplayIsNotFlashed /\ H!RefusalsEndInAReset
    BY DEF DisplayInv, FlashesArePaced, H!DisplayIsNotFlashed
  <2>3. H!FreezesEnd
    BY DEF LoopInv, SilenceIsSeen, H!FreezesEnd
  <2>4. H!SpinsEnd
    BY DEF LoopInv, SpinsAreCounted, H!SpinsEnd
  <2>5. H!WorstTurnIsNamed
    BY LoopNumbers DEF LoopInv, LoopTypeOK, LoopRecord, HitchesAreSaid, H!WorstTurnIsNamed
  <2> QED
    BY <2>1, <2>2, <2>3, <2>4, <2>5 DEF H!HealthIsSound
<1> QED
  BY <1>1, <1>2, HealthInvStep, PTL DEF DeskSpec
-----------------------------------------------------------------------------
(***************************************************************************)
(* Input: what takes a press sees its end.  The invariant InputHolds is    *)
(* about the compositor's record, so that a handler is taken apart into    *)
(* the functions it calls; each lemma says which parts of the record one   *)
(* of them leaves alone (RestStays, KeysStay, ...) and what it keeps of    *)
(* the invariant.                                                          *)
(***************************************************************************)

GrabRecord == [kind : {"none", "click", "move", "resize", "tile"}, window : Wins \cup {I!None}]
TouchRecord == [kind : {"none", "down", "move", "resize"}, window : Wins \cup {I!None},
                slot : Fingers \cup {0}, points : Nat, on : Wins \cup {I!None, I!Layer, I!Behind}]

\* What every handler relies on in the compositor's record.
InputShape(s) ==
    /\ DOMAIN s = {"down", "pressed", "forwarded", "suppressed", "kept", "slipped", "buttons", "clicks",
                   "swallowed", "woke", "missed", "grab", "fingers", "touch", "lifted", "over", "resizing",
                   "dropped", "stack", "focus", "through", "recent", "sel", "held", "sent", "naps", "asleep", "locked",
                   "exclusive", "bar", "scroll"}
    /\ DOMAIN s.sel = {"order", "index", "origin", "modifier"}
    /\ s.stack \in Seq(Wins)
    /\ s.grab \in GrabRecord
    /\ s.touch \in TouchRecord

\* t is s but for the keyboard's focus and the switcher.
RestStays(s, t) ==
    /\ t.down = s.down /\ t.pressed = s.pressed /\ t.forwarded = s.forwarded /\ t.suppressed = s.suppressed
    /\ t.kept = s.kept /\ t.slipped = s.slipped /\ t.buttons = s.buttons /\ t.clicks = s.clicks
    /\ t.swallowed = s.swallowed /\ t.woke = s.woke /\ t.missed = s.missed /\ t.grab = s.grab
    /\ t.fingers = s.fingers /\ t.touch = s.touch /\ t.lifted = s.lifted /\ t.over = s.over
    /\ t.resizing = s.resizing /\ t.dropped = s.dropped /\ t.held = s.held /\ t.sent = s.sent
    /\ t.naps = s.naps /\ t.asleep = s.asleep /\ t.locked = s.locked /\ t.exclusive = s.exclusive
    /\ t.bar = s.bar /\ t.scroll = s.scroll /\ t.through = s.through

\* The switcher of t, if it is open, is that of s.
SameSwitch(s, t) == I!Active(t) => I!Active(s) /\ t.sel = s.sel

LEMMA CycleFocusKeeps ==
    ASSUME NEW s, InputShape(s), NEW w
    PROVE  /\ InputShape(I!CycleFocus(s, w)) /\ RestStays(s, I!CycleFocus(s, w))
           /\ I!CycleFocus(s, w).stack = s.stack /\ I!CycleFocus(s, w).focus = s.focus
           /\ SameSwitch(s, I!CycleFocus(s, w))
           /\ I!Active(I!CycleFocus(s, w)) => I!Selected(s) = w
<1> DEFINE r == <<w>> \o I!Others(s.recent, {w})
           t == [s EXCEPT !.sel = I!NoSelection, !.recent = r]
<1>1. I!CycleFocus(s, w) = IF I!Active(s) /\ I!Selected(s) = w THEN s ELSE t
  BY DEF I!CycleFocus
<1> HIDE DEF r
<1>2. InputShape(t) /\ RestStays(s, t) /\ t.stack = s.stack /\ t.focus = s.focus /\ t.sel = I!NoSelection
  BY DEF InputShape, RestStays, I!NoSelection
<1>3. RestStays(s, s)
  BY DEF RestStays
<1> QED
  BY <1>1, <1>2, <1>3 DEF SameSwitch, I!Active

LEMMA RetainKeeps ==
    ASSUME NEW s, InputShape(s)
    PROVE  /\ InputShape(I!Retain(s)) /\ RestStays(s, I!Retain(s))
           /\ I!Retain(s).stack = s.stack /\ I!Retain(s).focus = s.focus /\ I!Retain(s).sel = s.sel
<1> DEFINE r == I!Kept(s.recent, I!Available(s))
<1>1. I!Retain(s) = [s EXCEPT !.recent = r]
  BY DEF I!Retain
<1> HIDE DEF r
<1> QED
  BY <1>1 DEF InputShape, RestStays

LEMMA FinishKeeps ==
    ASSUME NEW s, InputShape(s)
    PROVE  /\ InputShape(I!Finish(s)) /\ RestStays(s, I!Finish(s))
           /\ I!Finish(s).stack = s.stack /\ I!Finish(s).focus = s.focus
           /\ ~I!Active(I!Finish(s))
<1> DEFINE t == [s EXCEPT !.sel = I!NoSelection]
           w == I!Selected(s)
<1>1. I!Finish(s) = IF I!Active(s) THEN I!CycleFocus(t, w) ELSE s
  BY DEF I!Finish
<1>2. InputShape(t) /\ RestStays(s, t) /\ t.stack = s.stack /\ t.focus = s.focus /\ ~I!Active(t)
  BY DEF InputShape, RestStays, I!NoSelection, I!Active
<1>3. RestStays(s, s)
  BY DEF RestStays
<1> HIDE DEF t, w
<1>4. /\ InputShape(I!CycleFocus(t, w)) /\ RestStays(t, I!CycleFocus(t, w))
      /\ I!CycleFocus(t, w).stack = t.stack /\ I!CycleFocus(t, w).focus = t.focus
      /\ SameSwitch(t, I!CycleFocus(t, w))
  BY <1>2, CycleFocusKeeps
<1>5. RestStays(s, I!CycleFocus(t, w))
  BY <1>2, <1>4 DEF RestStays
<1> QED
  BY <1>1, <1>2, <1>3, <1>4, <1>5 DEF SameSwitch

LEMMA ReleaseKeeps ==
    ASSUME NEW s, InputShape(s)
    PROVE  /\ InputShape(I!Release(s)) /\ RestStays([s EXCEPT !.slipped = {}], I!Release(s))
           /\ I!Release(s).stack = s.stack /\ I!Release(s).focus = s.focus
           /\ SameSwitch(s, I!Release(s))
           /\ I!Active(I!Release(s)) => s.sel.modifier \in s.pressed
<1> DEFINE t == [s EXCEPT !.slipped = {}]
<1>1. I!Release(s) = IF I!Active(t) /\ t.sel.modifier \notin t.pressed THEN I!Finish(t) ELSE t
  BY DEF I!Release
<1>2. InputShape(t) /\ t.stack = s.stack /\ t.focus = s.focus /\ t.sel = s.sel /\ t.pressed = s.pressed
  BY DEF InputShape
<1>3. RestStays(t, t)
  BY DEF RestStays
<1>4. I!Active(t) <=> I!Active(s)
  BY <1>2 DEF I!Active
<1>5. RestStays(t, I!Release(s)) /\ InputShape(I!Release(s)) /\ I!Release(s).stack = s.stack /\ I!Release(s).focus = s.focus
  <2> HIDE DEF t
  <2> QED
    BY <1>1, <1>2, <1>3, FinishKeeps
<1>6. SameSwitch(s, I!Release(s)) /\ (I!Active(I!Release(s)) => s.sel.modifier \in s.pressed)
  <2> HIDE DEF t
  <2> QED
    BY <1>1, <1>2, <1>4, FinishKeeps DEF SameSwitch
<1> QED
  BY <1>5, <1>6

LEMMA SetFocusKeeps ==
    ASSUME NEW s, InputShape(s), NEW target
    PROVE  /\ InputShape(I!SetFocus(s, target)) /\ RestStays(s, I!SetFocus(s, target))
           /\ I!SetFocus(s, target).stack = s.stack /\ I!SetFocus(s, target).focus = target
           /\ SameSwitch(s, I!SetFocus(s, target))
           /\ I!Active(I!SetFocus(s, target)) => s.focus = target \/ I!Selected(s) = target
<1> DEFINE t == [s EXCEPT !.focus = target]
           r == I!Retain(t)
<1>1. I!SetFocus(s, target) = IF s.focus = target THEN s
                              ELSE IF target \in Wins THEN I!CycleFocus(r, target) ELSE I!Finish(t)
  BY DEF I!SetFocus, I!FocusChanged
<1>2. InputShape(t) /\ RestStays(s, t) /\ t.stack = s.stack /\ t.focus = target /\ t.sel = s.sel
  BY DEF InputShape, RestStays
<1>3. RestStays(s, s)
  BY DEF RestStays
<1> HIDE DEF t
<1>4. InputShape(r) /\ RestStays(t, r) /\ r.stack = s.stack /\ r.focus = target /\ r.sel = s.sel
  BY <1>2, RetainKeeps
<1>5. I!Active(r) <=> I!Active(s)
  BY <1>4 DEF I!Active
<1>6. I!Selected(r) = I!Selected(s)
  BY <1>4 DEF I!Selected
<1> HIDE DEF r
<1>7. CASE s.focus = target
  BY <1>1, <1>3, <1>7 DEF SameSwitch
<1>8. CASE s.focus # target /\ target \in Wins
  <2>1. I!SetFocus(s, target) = I!CycleFocus(r, target)
    BY <1>1, <1>8
  <2>2. RestStays(s, I!CycleFocus(r, target))
    BY <1>2, <1>4, CycleFocusKeeps DEF RestStays
  <2> QED
    BY <1>4, <1>5, <1>6, <2>1, <2>2, CycleFocusKeeps DEF SameSwitch
<1>9. CASE s.focus # target /\ target \notin Wins
  <2>1. I!SetFocus(s, target) = I!Finish(t)
    BY <1>1, <1>9
  <2>2. RestStays(s, I!Finish(t))
    BY <1>2, FinishKeeps DEF RestStays
  <2> QED
    BY <1>2, <2>1, <2>2, FinishKeeps DEF SameSwitch
<1> QED
  BY <1>7, <1>8, <1>9

LEMMA RestChains ==
    ASSUME NEW s, NEW t, NEW u, RestStays(s, t), RestStays(t, u)
    PROVE  RestStays(s, u)
  BY DEF RestStays

LEMMA RestIsReflexive == \A s : RestStays(s, s)
  BY DEF RestStays

LEMMA WithoutKeeps ==
    ASSUME NEW q \in Seq(Wins), NEW w \in I!ToSet(q)
    PROVE  /\ I!Without(q, w) \in Seq(Wins)
           /\ I!ToSet(I!Without(q, w)) \subseteq I!ToSet(q)
           /\ I!ToSet(q) \subseteq I!ToSet(I!Without(q, w)) \cup {w}
<1> DEFINE i == CHOOSE i \in DOMAIN q : q[i] = w
           a == SubSeq(q, 1, i - 1)
           b == SubSeq(q, i + 1, Len(q))
<1>1. i \in DOMAIN q /\ q[i] = w
  BY DEF I!ToSet
<1>2. i \in 1..Len(q) /\ Len(q) \in Nat
  BY <1>1
<1> HIDE DEF i
<1>3. a \in Seq(Wins) /\ Len(a) = i - 1 /\ \A k \in 1..(i - 1) : a[k] = q[k]
  BY <1>2
<1>4. b \in Seq(Wins) /\ Len(b) = Len(q) - i /\ \A k \in 1..(Len(q) - i) : b[k] = q[k + i]
  BY <1>2
<1>5. I!Without(q, w) = a \o b
  BY DEF I!Without, I!RemoveAt, i
<1> HIDE DEF a, b
<1>6. a \o b \in Seq(Wins) /\ Len(a \o b) = Len(q) - 1
  <2>1. a \o b \in Seq(Wins) /\ Len(a \o b) = Len(a) + Len(b)
    BY <1>3, <1>4
  <2> QED
    BY <1>2, <1>3, <1>4, <2>1
<1>7. \A k \in 1..(i - 1) : (a \o b)[k] = q[k]
  BY <1>2, <1>3, <1>4
<1>8. \A k \in i..(Len(q) - 1) : (a \o b)[k] = q[k + 1]
  <2> SUFFICES ASSUME NEW k \in i..(Len(q) - 1) PROVE (a \o b)[k] = q[k + 1]
    OBVIOUS
  <2>1. (a \o b)[k] = b[k - (i - 1)]
    BY <1>2, <1>3, <1>4
  <2>2. k - (i - 1) \in 1..(Len(q) - i) /\ k - (i - 1) + i = k + 1
    BY <1>2
  <2> QED
    BY <2>1, <2>2, <1>4
<1> DEFINE c == a \o b
<1>9. c \in Seq(Wins) /\ DOMAIN c = 1..(Len(q) - 1)
  BY <1>2, <1>6
<1>10. DOMAIN q = 1..Len(q)
  OBVIOUS
<1>11. (\A k \in 1..(i - 1) : c[k] = q[k]) /\ (\A k \in i..(Len(q) - 1) : c[k] = q[k + 1])
  BY <1>7, <1>8
<1>12. I!Without(q, w) = c
  BY <1>5
<1> HIDE DEF c
<1>13. \A k \in DOMAIN c : \E j \in DOMAIN q : c[k] = q[j]
  <2> SUFFICES ASSUME NEW k \in DOMAIN c PROVE \E j \in DOMAIN q : c[k] = q[j]
    OBVIOUS
  <2>1. CASE k < i
    BY <2>1, <1>2, <1>9, <1>10, <1>11
  <2>2. CASE k >= i
    <3>1. k + 1 \in DOMAIN q /\ c[k] = q[k + 1]
      BY <2>2, <1>2, <1>9, <1>10, <1>11
    <3> QED
      BY <3>1
  <2> QED
    BY <2>1, <2>2, <1>2, <1>9
<1>14. \A j \in DOMAIN q : q[j] = w \/ \E k \in DOMAIN c : c[k] = q[j]
  <2> SUFFICES ASSUME NEW j \in DOMAIN q, j # i PROVE \E k \in DOMAIN c : c[k] = q[j]
    BY <1>1
  <2>1. CASE j < i
    BY <2>1, <1>2, <1>9, <1>10, <1>11
  <2>2. CASE j > i
    <3>1. j - 1 \in i..(Len(q) - 1) /\ j - 1 \in DOMAIN c /\ (j - 1) + 1 = j
      BY <2>2, <1>2, <1>9, <1>10
    <3> QED
      BY <3>1, <1>11
  <2> QED
    BY <2>1, <2>2, <1>2, <1>10
<1> QED
  BY <1>9, <1>12, <1>13, <1>14 DEF I!ToSet

\* A window put in front of a list.
LEMMA InFront ==
    ASSUME NEW q \in Seq(Wins), NEW w \in Wins
    PROVE  /\ <<w>> \o q \in Seq(Wins)
           /\ I!ToSet(<<w>> \o q) = I!ToSet(q) \cup {w}
<1> DEFINE c == <<w>> \o q
<1>1. c \in Seq(Wins) /\ Len(c) = Len(q) + 1 /\ DOMAIN c = 1..(Len(q) + 1) /\ DOMAIN q = 1..Len(q) /\ Len(q) \in Nat
  OBVIOUS
<1>2. c[1] = w
  OBVIOUS
<1>3. \A k \in 2..(Len(q) + 1) : c[k] = q[k - 1]
  OBVIOUS
<1> HIDE DEF c
<1>4. \A k \in DOMAIN c : k = 1 \/ (k \in 2..(Len(q) + 1) /\ k - 1 \in DOMAIN q)
  BY <1>1
<1>5. \A j \in DOMAIN q : j + 1 \in DOMAIN c /\ c[j + 1] = q[j]
  <2> SUFFICES ASSUME NEW j \in DOMAIN q PROVE j + 1 \in DOMAIN c /\ c[j + 1] = q[j]
    OBVIOUS
  <2>1. j + 1 \in 2..(Len(q) + 1) /\ (j + 1) - 1 = j
    BY <1>1
  <2> QED
    BY <2>1, <1>1, <1>3
<1>6. 1 \in DOMAIN c
  BY <1>1
<1>7. I!ToSet(c) \subseteq I!ToSet(q) \cup {w}
  BY <1>2, <1>3, <1>4 DEF I!ToSet
<1>8. I!ToSet(q) \cup {w} \subseteq I!ToSet(c)
  BY <1>2, <1>5, <1>6 DEF I!ToSet
<1>9. c \in Seq(Wins)
  BY <1>1
<1> QED
  BY <1>7, <1>8, <1>9 DEF c

LEMMA StackHasWindows ==
    ASSUME NEW s, InputShape(s)
    PROVE  I!Available(s) \subseteq Wins
  BY DEF InputShape, I!Available, I!ToSet

\* What is in front shows its window, if the switcher is open.
FocusShows(s) == I!Active(s) => s.focus = I!Selected(s) \/ I!Selected(s) \notin I!Available(s)

LEMMA ActivateKeeps ==
    ASSUME NEW s, InputShape(s), NEW w
    PROVE  LET t == I!ActivateWindow(s, w)
           IN  /\ InputShape(t) /\ RestStays(s, t)
               /\ I!Available(t) = I!Available(s)
               /\ t.focus = IF s.locked \/ w \notin I!Available(s) THEN s.focus ELSE w
               /\ SameSwitch(s, t)
               /\ FocusShows(s) => FocusShows(t)
               /\ I!Active(t) /\ ~s.locked /\ w \in I!Available(s) => s.focus = w \/ I!Selected(s) = w
<1>1. CASE s.locked \/ w \notin I!Available(s)
  BY <1>1, RestIsReflexive DEF I!ActivateWindow, SameSwitch
<1>2. CASE ~s.locked /\ w \in I!Available(s)
  <2> DEFINE q == <<w>> \o I!Without(s.stack, w)
             r == [s EXCEPT !.stack = q]
             t == I!SetFocus(r, w)
  <2>1. I!ActivateWindow(s, w) = t
    BY <1>2 DEF I!ActivateWindow
  <2>2. w \in Wins /\ s.stack \in Seq(Wins) /\ w \in I!ToSet(s.stack)
    BY <1>2, StackHasWindows DEF InputShape, I!Available
  <2>3. I!Without(s.stack, w) \in Seq(Wins) /\ I!ToSet(s.stack) = I!ToSet(I!Without(s.stack, w)) \cup {w}
    BY <2>2, WithoutKeeps
  <2>4. q \in Seq(Wins) /\ I!ToSet(q) = I!ToSet(s.stack)
    BY <2>2, <2>3, InFront
  <2> HIDE DEF q
  <2>5. InputShape(r) /\ RestStays(s, r) /\ r.stack = q /\ r.focus = s.focus /\ r.sel = s.sel
    BY <2>4 DEF InputShape, RestStays
  <2> HIDE DEF r
  <2>6. /\ InputShape(t) /\ RestStays(r, t) /\ t.stack = r.stack /\ t.focus = w /\ SameSwitch(r, t)
        /\ I!Active(t) => r.focus = w \/ I!Selected(r) = w
    BY <2>5, SetFocusKeeps
  <2> HIDE DEF t
  <2>7. I!Available(t) = I!Available(s)
    BY <2>4, <2>5, <2>6 DEF I!Available
  <2>8. I!Active(t) => I!Active(s) /\ t.sel = s.sel /\ I!Selected(t) = I!Selected(s) /\ I!Selected(r) = I!Selected(s)
    BY <2>5, <2>6 DEF SameSwitch, I!Active, I!Selected
  <2>9. FocusShows(s) => FocusShows(t)
    BY <2>5, <2>6, <2>7, <2>8 DEF FocusShows
  <2> QED
    BY <1>2, <2>1, <2>5, <2>6, <2>7, <2>8, <2>9, RestChains DEF SameSwitch
<1> QED
  BY <1>1, <1>2

LEMMA Least ==
    ASSUME NEW T, T \subseteq Nat, T # {}
    PROVE  \E x \in T : \A y \in T : x <= y
<1> DEFINE R == OpToRel(<, Nat)
<1>1. IsWellFoundedOn(R, Nat)
  BY NatLessThanWellFounded
<1>2. \A x, y \in Nat : x < y => <<x, y>> \in R
  BY DEF OpToRel
<1> HIDE DEF R
<1>3. PICK x \in T : \A y \in T : ~(<<y, x>> \in R)
  BY <1>1, WFMin
<1>4. ASSUME NEW y \in T PROVE x <= y
  <2>1. x \in Nat /\ y \in Nat
    OBVIOUS
  <2>2. ~(y < x)
    BY <1>2, <1>3, <2>1
  <2> QED
    BY <2>1, <2>2
<1> QED
  BY <1>4

LEMMA NextIsThere ==
    ASSUME NEW s, NEW reverse, I!NextIndex(s, reverse) # 0
    PROVE  s.sel.order[I!NextIndex(s, reverse)] \in I!Available(s)
<1> DEFINE n == Len(s.sel.order)
           At(k) == IF reverse THEN ((s.sel.index + n * 2 - 1 - k) % n) + 1
                    ELSE ((s.sel.index + k - 1) % n) + 1
           hits == {k \in 1..n : s.sel.order[At(k)] \in I!Available(s)}
           first == CHOOSE k \in hits : \A j \in hits : k <= j
<1>1. I!NextIndex(s, reverse) = IF hits = {} THEN 0 ELSE At(first)
  BY DEF I!NextIndex
<1>2. hits # {}
  BY <1>1
<1>3. hits \subseteq Nat
  OBVIOUS
<1>4. \A k \in hits : s.sel.order[At(k)] \in I!Available(s)
  OBVIOUS
<1> HIDE DEF hits
<1>5. first \in hits
  BY <1>2, <1>3, Least
<1> HIDE DEF At, first
<1> QED
  BY <1>1, <1>2, <1>4, <1>5

LEMMA SelectKeeps ==
    ASSUME NEW s, InputShape(s), NEW reverse, NEW modifier
    PROVE  LET t == I!Select(s, reverse, modifier)
           IN  /\ InputShape(t) /\ RestStays(s, t) /\ t.stack = s.stack /\ t.focus = s.focus
               /\ t.sel.modifier = modifier
<1> DEFINE u == IF s.focus \in I!Available(s) THEN I!CycleFocus(s, s.focus) ELSE s
           order == I!CycleOrder(u)
           start == IF s.focus \in I!ToSet(order) THEN CHOOSE i \in DOMAIN order : order[i] = s.focus
                    ELSE IF reverse THEN 1 ELSE Len(order)
           origin == IF s.focus \in Wins THEN s.focus ELSE I!None
           sel == [order |-> order, index |-> start, modifier |-> modifier, origin |-> origin]
<1>1. I!Select(s, reverse, modifier) = [u EXCEPT !.sel = sel]
  BY DEF I!Select
<1>2. InputShape(u) /\ RestStays(s, u) /\ u.stack = s.stack /\ u.focus = s.focus
  BY CycleFocusKeeps, RestIsReflexive
<1> HIDE DEF u, order, start, origin
<1>3. DOMAIN sel = {"order", "index", "origin", "modifier"} /\ sel.modifier = modifier
  OBVIOUS
<1> HIDE DEF sel
<1>4. InputShape([u EXCEPT !.sel = sel]) /\ RestStays(u, [u EXCEPT !.sel = sel])
  BY <1>2, <1>3 DEF InputShape, RestStays
<1>5. /\ [u EXCEPT !.sel = sel].stack = s.stack /\ [u EXCEPT !.sel = sel].focus = s.focus
      /\ [u EXCEPT !.sel = sel].sel.modifier = modifier
  BY <1>2, <1>3 DEF InputShape
<1> QED
  BY <1>1, <1>2, <1>4, <1>5, RestChains

LEMMA CycleStepKeeps ==
    ASSUME NEW s, InputShape(s), NEW reverse, NEW modifier
    PROVE  LET t == I!CycleStep(s, reverse, modifier)
           IN  /\ InputShape(t) /\ RestStays(s, t) /\ t.stack = s.stack /\ t.focus = s.focus
               /\ I!Active(t) => t.sel.modifier = modifier /\ I!Selected(t) \in I!Available(t)
<1> DEFINE r == I!Retain(s)
           f == IF I!Active(r) /\ r.sel.modifier # modifier THEN I!Finish(r) ELSE r
           u == IF I!Active(f) THEN f ELSE I!Select(f, reverse, modifier)
           i == I!NextIndex(u, reverse)
           closed == [r EXCEPT !.sel = I!NoSelection]
           stepped == [u EXCEPT !.sel.index = i]
<1>1. I!CycleStep(s, reverse, modifier) = IF s.stack = <<>> \/ i = 0 THEN closed ELSE stepped
  BY DEF I!CycleStep
<1>2. InputShape(r) /\ RestStays(s, r) /\ r.stack = s.stack /\ r.focus = s.focus
  BY RetainKeeps
<1> HIDE DEF r
<1>3. /\ InputShape(f) /\ RestStays(r, f) /\ f.stack = s.stack /\ f.focus = s.focus
      /\ I!Active(f) => f.sel.modifier = modifier
  BY <1>2, FinishKeeps, RestIsReflexive
<1> HIDE DEF f
<1>4. InputShape(u) /\ RestStays(f, u) /\ u.stack = s.stack /\ u.focus = s.focus /\ u.sel.modifier = modifier
  BY <1>3, SelectKeeps, RestIsReflexive
<1> HIDE DEF u
<1>5. InputShape(closed) /\ RestStays(r, closed) /\ closed.stack = s.stack /\ closed.focus = s.focus /\ ~I!Active(closed)
  BY <1>2 DEF InputShape, RestStays, I!NoSelection, I!Active
<1>6. /\ InputShape(stepped) /\ RestStays(u, stepped) /\ stepped.stack = s.stack /\ stepped.focus = s.focus
      /\ stepped.sel.modifier = modifier /\ stepped.sel.order = u.sel.order /\ stepped.sel.index = i
  BY <1>4 DEF InputShape, RestStays
<1>7. i # 0 => u.sel.order[i] \in I!Available(u)
  BY NextIsThere
<1>8. i # 0 => I!Selected(stepped) \in I!Available(stepped)
  BY <1>4, <1>6, <1>7 DEF I!Selected, I!Available
<1>9. RestStays(s, f)
  BY <1>2, <1>3, RestChains
<1>10. RestStays(s, u)
  BY <1>4, <1>9, RestChains
<1>11. RestStays(s, closed) /\ RestStays(s, stepped)
  BY <1>2, <1>5, <1>6, <1>10, RestChains
<1> HIDE DEF closed, stepped
<1> QED
  BY <1>1, <1>5, <1>6, <1>8, <1>11

LEMMA CycleKeeps ==
    ASSUME NEW s, InputShape(s), NEW reverse, NEW modifier
    PROVE  LET t == I!CycleWindows(s, reverse, modifier)
           IN  /\ InputShape(t) /\ RestStays(s, t) /\ I!Available(t) = I!Available(s)
               /\ ~s.locked => FocusShows(t)
               /\ I!Active(t) => t.sel.modifier = modifier
<1> DEFINE u == I!CycleStep(s, reverse, modifier)
           w == I!Selected(u)
<1>1. I!CycleWindows(s, reverse, modifier) = IF I!Active(u) THEN I!ActivateWindow(u, w) ELSE u
  BY DEF I!CycleWindows
<1>2. /\ InputShape(u) /\ RestStays(s, u) /\ u.stack = s.stack /\ u.focus = s.focus
      /\ I!Active(u) => u.sel.modifier = modifier /\ w \in I!Available(u)
  BY CycleStepKeeps
<1>3. I!Available(u) = I!Available(s) /\ (u.locked <=> s.locked)
  BY <1>2 DEF I!Available, RestStays
<1>4. CASE ~I!Active(u)
  BY <1>1, <1>2, <1>3, <1>4 DEF FocusShows
<1>5. CASE I!Active(u)
  <2> DEFINE t == I!ActivateWindow(u, w)
  <2>1. /\ InputShape(t) /\ RestStays(u, t) /\ I!Available(t) = I!Available(u) /\ SameSwitch(u, t)
        /\ t.focus = IF u.locked \/ w \notin I!Available(u) THEN u.focus ELSE w
    BY <1>2, ActivateKeeps
  <2>0. I!CycleWindows(s, reverse, modifier) = t
    BY <1>1, <1>5
  <2> HIDE DEF t, u
  <2>2. RestStays(s, t)
    BY <1>2, <2>1, RestChains
  <2>3. I!Active(t) => t.sel.modifier = modifier
    BY <1>2, <1>5, <2>1 DEF SameSwitch
  <2>4. ~s.locked /\ I!Active(t) => t.focus = w /\ I!Selected(t) = w
    BY <1>2, <1>3, <1>5, <2>1 DEF SameSwitch, I!Selected
  <2> QED
    BY <1>3, <2>0, <2>1, <2>2, <2>3, <2>4 DEF FocusShows
<1> QED
  BY <1>4, <1>5

LEMMA CancelKeeps ==
    ASSUME NEW s, InputShape(s)
    PROVE  LET t == I!CancelWindowCycle(s)
           IN  /\ InputShape(t) /\ RestStays(s, t) /\ I!Available(t) = I!Available(s)
               /\ ~I!Active(t)
<1> DEFINE u == [s EXCEPT !.sel = I!NoSelection]
           w == s.sel.origin
           c == I!ActivateWindow(u, w)
<1>1. I!CancelWindowCycle(s) = IF I!Active(s) /\ w # I!None THEN c ELSE u
  BY DEF I!CancelWindowCycle
<1>2. InputShape(u) /\ RestStays(s, u) /\ u.stack = s.stack /\ ~I!Active(u)
  BY DEF InputShape, RestStays, I!NoSelection, I!Active
<1>3. I!Available(u) = I!Available(s)
  BY <1>2 DEF I!Available
<1> HIDE DEF u
<1>4. InputShape(c) /\ RestStays(u, c) /\ I!Available(c) = I!Available(u) /\ ~I!Active(c)
  BY <1>2, ActivateKeeps DEF SameSwitch
<1> HIDE DEF c
<1> QED
  BY <1>1, <1>2, <1>3, <1>4, RestChains

-----------------------------------------------------------------------------
\* Keys are where they belong, but for those of K, which were just let go of.
KeysKept(s, K) ==
    /\ s.forwarded \subseteq s.down \cup s.kept \cup K
    /\ s.suppressed \subseteq s.down \cup K
    /\ s.pressed = s.down
    /\ s.suppressed \cap s.forwarded \subseteq s.kept

\* What the worker will repeat once it has read everything.
Messages == [press : BOOLEAN, key : {"Volume"}]
MediaFollows(s, w) ==
    /\ s.sent \in Seq(Messages) /\ s.held \in {I!NoKey, "Volume"} /\ w \in {I!NoKey, "Volume"}
    /\ s.sent = <<>> => w \in {I!NoKey, s.held}
    /\ s.sent # <<>> => s.held = IF s.sent[Len(s.sent)].press THEN "Volume" ELSE I!NoKey
    /\ s.locked => s.held = I!NoKey

\* A drag has its button, a resize its grab, a finger its place.
DragsHold(s) ==
    /\ s.grab # I!NoGrab => s.clicks # {}
    /\ s.clicks \subseteq s.buttons \cup s.missed
    /\ s.swallowed \subseteq s.buttons \cup s.missed
    /\ s.resizing \subseteq I!Available(s)
    /\ \A w \in s.resizing \ s.dropped : \/ s.grab.kind = "resize" /\ s.grab.window = w
                                         \/ s.touch.kind = "resize" /\ s.touch.window = w
    /\ IsFiniteSet(s.fingers)
    /\ s.touch.kind = "none" => s.touch = I!NoTouch
    /\ s.touch.kind = "down" => s.touch.points >= 1
    /\ s.touch.kind = "down" /\ ~s.lifted => s.touch.points \in 1..Cardinality(s.fingers)
    /\ s.touch.kind \in {"move", "resize"} /\ ~s.lifted => s.touch.slot \in s.fingers
    /\ s.touch.kind \in {"move", "resize"} => s.touch.on # I!Behind

LockIsQuiet(s) ==
    s.locked => /\ s.focus \in Wins => s.focus = s.through
                /\ s.over \notin Wins
                /\ ~s.bar
                /\ s.grab.kind \in {"none", "click"}
                /\ ~I!Active(s)

ModifierIsHeld(s) == I!Active(s) => s.sel.modifier \in s.down \cup s.slipped

\* The inductive invariant of the compositor's record, with the worker's key.
InputHolds(s, w) ==
    InputShape(s) /\ KeysKept(s, {}) /\ MediaFollows(s, w) /\ DragsHold(s) /\ LockIsQuiet(s)
    /\ FocusShows(s) /\ ModifierIsHeld(s)

\* The same while a key is being let go of: the switcher has not noticed.
Releasing(s, w, key) ==
    InputShape(s) /\ KeysKept(s, {key}) /\ MediaFollows(s, w) /\ DragsHold(s) /\ LockIsQuiet(s) /\ FocusShows(s)

\* Most of it does not depend on the keyboard's focus.
LEMMA FocusTurns ==
    ASSUME NEW s, NEW t, RestStays(s, t), I!Available(t) = I!Available(s), NEW w, NEW K
    PROVE  /\ KeysKept(s, K) => KeysKept(t, K)
           /\ MediaFollows(s, w) => MediaFollows(t, w)
           /\ DragsHold(s) => DragsHold(t)
<1>1. KeysKept(s, K) => KeysKept(t, K)
  BY DEF RestStays, KeysKept
<1>2. MediaFollows(s, w) => MediaFollows(t, w)
  BY DEF RestStays, MediaFollows
<1>3. DragsHold(s) => DragsHold(t)
  BY DEF RestStays, DragsHold
<1> QED
  BY <1>1, <1>2, <1>3

\* The focus goes to what is no window, or to a window of an open session.
LEMMA SetFocusHolds ==
    ASSUME NEW s, NEW w, NEW K, NEW target, s.locked => target \notin Wins,
           InputShape(s), KeysKept(s, K), MediaFollows(s, w), DragsHold(s), LockIsQuiet(s), FocusShows(s)
    PROVE  LET t == I!SetFocus(s, target)
           IN  /\ InputShape(t) /\ KeysKept(t, K) /\ MediaFollows(t, w) /\ DragsHold(t) /\ LockIsQuiet(t) /\ FocusShows(t)
               /\ ModifierIsHeld(s) => ModifierIsHeld(t)
<1> DEFINE t == I!SetFocus(s, target)
<1>1. /\ InputShape(t) /\ RestStays(s, t) /\ t.stack = s.stack /\ t.focus = target /\ SameSwitch(s, t)
      /\ I!Active(t) => s.focus = target \/ I!Selected(s) = target
  BY SetFocusKeeps
<1> HIDE DEF t
<1>2. I!Available(t) = I!Available(s)
  BY <1>1 DEF I!Available
<1>3. KeysKept(t, K) /\ MediaFollows(t, w) /\ DragsHold(t)
  BY <1>1, <1>2, FocusTurns
<1>4. I!Active(t) => I!Selected(t) = I!Selected(s)
  BY <1>1 DEF SameSwitch, I!Selected
<1>5. FocusShows(t)
  BY <1>1, <1>2, <1>4 DEF FocusShows, SameSwitch
<1>6. LockIsQuiet(t)
  BY <1>1 DEF LockIsQuiet, RestStays, SameSwitch
<1>7. ModifierIsHeld(s) => ModifierIsHeld(t)
  BY <1>1 DEF ModifierIsHeld, RestStays, SameSwitch
<1> QED
  BY <1>1, <1>3, <1>5, <1>6, <1>7 DEF t

LEMMA ActivateHolds ==
    ASSUME NEW s, NEW w, InputHolds(s, w), NEW x
    PROVE  InputHolds(I!ActivateWindow(s, x), w)
<1> DEFINE t == I!ActivateWindow(s, x)
<1>1. /\ InputShape(t) /\ RestStays(s, t)
      /\ I!Available(t) = I!Available(s)
      /\ t.focus = IF s.locked \/ x \notin I!Available(s) THEN s.focus ELSE x
      /\ SameSwitch(s, t)
      /\ FocusShows(s) => FocusShows(t)
  BY ActivateKeeps DEF InputHolds
<1> HIDE DEF t
<1>2. KeysKept(t, {}) /\ MediaFollows(t, w) /\ DragsHold(t)
  BY <1>1, FocusTurns DEF InputHolds
<1>3. LockIsQuiet(t)
  BY <1>1 DEF LockIsQuiet, RestStays, SameSwitch, InputHolds
<1>4. ModifierIsHeld(t)
  BY <1>1 DEF ModifierIsHeld, RestStays, SameSwitch, InputHolds
<1> QED
  BY <1>1, <1>2, <1>3, <1>4 DEF InputHolds, t

\* The filter begins with a look at the modifiers.
LEMMA ReleaseHolds ==
    ASSUME NEW s, NEW w, NEW K, InputShape(s), KeysKept(s, K), MediaFollows(s, w), DragsHold(s), LockIsQuiet(s), FocusShows(s)
    PROVE  LET t == I!Release(s)
           IN  /\ InputShape(t) /\ KeysKept(t, K) /\ MediaFollows(t, w) /\ DragsHold(t) /\ LockIsQuiet(t) /\ FocusShows(t)
               /\ ModifierIsHeld(t)
               /\ RestStays([s EXCEPT !.slipped = {}], t) /\ t.focus = s.focus
<1> DEFINE u == [s EXCEPT !.slipped = {}]
           t == I!Release(s)
<1>1. /\ InputShape(t) /\ RestStays(u, t)
      /\ t.stack = s.stack /\ t.focus = s.focus
      /\ SameSwitch(s, t)
      /\ I!Active(t) => s.sel.modifier \in s.pressed
  BY ReleaseKeeps
<1>2. /\ u.forwarded = s.forwarded /\ u.suppressed = s.suppressed /\ u.down = s.down /\ u.pressed = s.pressed
      /\ u.kept = s.kept /\ u.sent = s.sent /\ u.held = s.held /\ u.locked = s.locked /\ u.over = s.over
      /\ u.bar = s.bar /\ u.grab = s.grab /\ u.stack = s.stack /\ u.through = s.through
  BY DEF InputShape
<1>3. /\ u.clicks = s.clicks /\ u.buttons = s.buttons /\ u.missed = s.missed /\ u.swallowed = s.swallowed
      /\ u.resizing = s.resizing /\ u.dropped = s.dropped /\ u.fingers = s.fingers /\ u.touch = s.touch
      /\ u.lifted = s.lifted
  BY DEF InputShape
<1> HIDE DEF t, u
<1>4. I!Available(t) = I!Available(s) /\ I!Available(u) = I!Available(s)
  BY <1>1, <1>2 DEF I!Available
<1>5. KeysKept(u, K) /\ MediaFollows(u, w) /\ DragsHold(u)
  <2>1. KeysKept(u, K) /\ MediaFollows(u, w)
    BY <1>2 DEF KeysKept, MediaFollows
  <2>2. DragsHold(u)
    BY <1>2, <1>3, <1>4 DEF DragsHold
  <2> QED
    BY <2>1, <2>2
<1>6. KeysKept(t, K) /\ MediaFollows(t, w) /\ DragsHold(t)
  BY <1>1, <1>4, <1>5, FocusTurns
<1>7. LockIsQuiet(t)
  BY <1>1, <1>2 DEF LockIsQuiet, RestStays, SameSwitch
<1>8. FocusShows(t)
  BY <1>1, <1>4 DEF FocusShows, SameSwitch, I!Selected
<1>9. ModifierIsHeld(t)
  BY <1>1, <1>2 DEF ModifierIsHeld, RestStays, SameSwitch, KeysKept
<1> QED
  BY <1>1, <1>6, <1>7, <1>8, <1>9 DEF t, u

-----------------------------------------------------------------------------
\* A key that has just been pressed.
JustPressed(s, key) == key \in s.down /\ key \notin s.suppressed /\ (key \in s.forwarded => key \in s.kept)

\* What the keys, the drags, the lock and the switcher look at stays.
KeysStay(s, t) ==
    /\ t.down = s.down /\ t.pressed = s.pressed /\ t.forwarded = s.forwarded
    /\ t.suppressed = s.suppressed /\ t.kept = s.kept
MediaStays(s, t) == t.held = s.held /\ t.sent = s.sent /\ t.locked = s.locked
DragsStay(s, t) ==
    /\ t.grab = s.grab /\ t.clicks = s.clicks /\ t.buttons = s.buttons /\ t.missed = s.missed
    /\ t.swallowed = s.swallowed /\ t.resizing = s.resizing /\ t.dropped = s.dropped
    /\ t.fingers = s.fingers /\ t.touch = s.touch /\ t.lifted = s.lifted
LockStays(s, t) == t.locked = s.locked /\ t.over = s.over /\ t.bar = s.bar
SwitchStays(s, t) == t.sel = s.sel /\ t.focus = s.focus /\ t.stack = s.stack /\ t.through = s.through

LEMMA Staying ==
    ASSUME NEW s, NEW t, NEW w, NEW K
    PROVE  /\ KeysStay(s, t) /\ KeysKept(s, K) => KeysKept(t, K)
           /\ MediaStays(s, t) /\ MediaFollows(s, w) => MediaFollows(t, w)
           /\ DragsStay(s, t) /\ t.stack = s.stack /\ DragsHold(s) => DragsHold(t)
           /\ LockStays(s, t) /\ SwitchStays(s, t) /\ t.grab = s.grab /\ LockIsQuiet(s) => LockIsQuiet(t)
           /\ SwitchStays(s, t) /\ FocusShows(s) => FocusShows(t)
           /\ SwitchStays(s, t) /\ t.down = s.down /\ t.slipped = s.slipped /\ ModifierIsHeld(s) => ModifierIsHeld(t)
<1>1. KeysStay(s, t) /\ KeysKept(s, K) => KeysKept(t, K)
  BY DEF KeysStay, KeysKept
<1>2. MediaStays(s, t) /\ MediaFollows(s, w) => MediaFollows(t, w)
  BY DEF MediaStays, MediaFollows
<1>3. DragsStay(s, t) /\ t.stack = s.stack /\ DragsHold(s) => DragsHold(t)
  BY DEF DragsStay, DragsHold, I!Available
<1>4. LockStays(s, t) /\ SwitchStays(s, t) /\ t.grab = s.grab /\ LockIsQuiet(s) => LockIsQuiet(t)
  BY DEF LockStays, SwitchStays, LockIsQuiet, I!Active
<1>5. SwitchStays(s, t) /\ FocusShows(s) => FocusShows(t)
  BY DEF SwitchStays, FocusShows, I!Active, I!Selected, I!Available
<1>6. SwitchStays(s, t) /\ t.down = s.down /\ t.slipped = s.slipped /\ ModifierIsHeld(s) => ModifierIsHeld(t)
  BY DEF SwitchStays, ModifierIsHeld, I!Active
<1> QED
  BY <1>1, <1>2, <1>3, <1>4, <1>5, <1>6

LEMMA PressedKeyHolds ==
    ASSUME NEW s, NEW w, InputHolds(s, w), NEW key, key \notin s.down
    PROVE  LET t == [s EXCEPT !.down = @ \cup {key}, !.pressed = @ \cup {key}]
           IN  InputHolds(t, w) /\ JustPressed(t, key)
<1> DEFINE t == [s EXCEPT !.down = @ \cup {key}, !.pressed = @ \cup {key}]
<1>1. /\ InputShape(t) /\ MediaStays(s, t) /\ DragsStay(s, t) /\ LockStays(s, t) /\ SwitchStays(s, t)
      /\ t.down = s.down \cup {key} /\ t.pressed = s.pressed \cup {key} /\ t.forwarded = s.forwarded
      /\ t.suppressed = s.suppressed /\ t.kept = s.kept /\ t.slipped = s.slipped
  BY DEF InputHolds, InputShape, MediaStays, DragsStay, LockStays, SwitchStays
<1> HIDE DEF t
<1>2. KeysKept(t, {}) /\ JustPressed(t, key)
  BY <1>1 DEF InputHolds, KeysKept, JustPressed
<1>3. ModifierIsHeld(t)
  BY <1>1 DEF InputHolds, ModifierIsHeld, SwitchStays, I!Active
<1>4. MediaFollows(t, w) /\ DragsHold(t) /\ LockIsQuiet(t) /\ FocusShows(t)
  BY <1>1, Staying DEF InputHolds, DragsStay, SwitchStays
<1> QED
  BY <1>1, <1>2, <1>3, <1>4 DEF InputHolds, t

\* Its press is kept from the clients, or told to them.
LEMMA PressIsKept ==
    ASSUME NEW s, NEW w, InputHolds(s, w), NEW key, JustPressed(s, key)
    PROVE  /\ InputHolds([s EXCEPT !.suppressed = @ \cup {key}], w)
           /\ InputHolds(I!Forward(s, key), w)
<1> DEFINE t == [s EXCEPT !.suppressed = @ \cup {key}]
           u == [s EXCEPT !.forwarded = @ \cup {key}]
<1>1. /\ InputShape(t) /\ MediaStays(s, t) /\ DragsStay(s, t) /\ LockStays(s, t) /\ SwitchStays(s, t)
      /\ t.down = s.down /\ t.pressed = s.pressed /\ t.forwarded = s.forwarded
      /\ t.suppressed = s.suppressed \cup {key} /\ t.kept = s.kept /\ t.slipped = s.slipped
  BY DEF InputHolds, InputShape, MediaStays, DragsStay, LockStays, SwitchStays
<1>2. /\ InputShape(u) /\ MediaStays(s, u) /\ DragsStay(s, u) /\ LockStays(s, u) /\ SwitchStays(s, u)
      /\ u.down = s.down /\ u.pressed = s.pressed /\ u.forwarded = s.forwarded \cup {key}
      /\ u.suppressed = s.suppressed /\ u.kept = s.kept /\ u.slipped = s.slipped
  BY DEF InputHolds, InputShape, MediaStays, DragsStay, LockStays, SwitchStays
<1>0. I!Forward(s, key) = u
  BY DEF I!Forward
<1> HIDE DEF t, u
<1>3. KeysKept(t, {}) /\ KeysKept(u, {})
  BY <1>1, <1>2 DEF InputHolds, KeysKept, JustPressed
<1>4. MediaFollows(t, w) /\ DragsHold(t) /\ LockIsQuiet(t) /\ FocusShows(t) /\ ModifierIsHeld(t)
  BY <1>1, Staying DEF InputHolds, DragsStay, SwitchStays
<1>5. MediaFollows(u, w) /\ DragsHold(u) /\ LockIsQuiet(u) /\ FocusShows(u) /\ ModifierIsHeld(u)
  BY <1>2, Staying DEF InputHolds, DragsStay, SwitchStays
<1> QED
  BY <1>0, <1>1, <1>2, <1>3, <1>4, <1>5 DEF InputHolds, t

\* A message to the worker is the last one it will read.
LEMMA LastMessage ==
    ASSUME NEW q \in Seq(Messages), NEW m \in Messages, NEW r, r = Append(q, m)
    PROVE  r \in Seq(Messages) /\ r # <<>> /\ r[Len(r)] = m
<1>1. r \in Seq(Messages) /\ Len(r) = Len(q) + 1 /\ r[Len(q) + 1] = m
  OBVIOUS
<1>2. r # <<>>
  BY <1>1
<1> QED
  BY <1>1, <1>2

\* The rest of the messages ends as they did.
LEMMA FirstMessage ==
    ASSUME NEW r \in Seq(Messages), r # <<>>
    PROVE  /\ Tail(r) \in Seq(Messages) /\ Head(r) \in Messages
           /\ Tail(r) # <<>> => Tail(r)[Len(Tail(r))] = r[Len(r)]
           /\ Tail(r) = <<>> => Head(r) = r[Len(r)]
<1> DEFINE q == Tail(r)
<1>1. Len(r) \in Nat /\ Len(r) # 0 /\ Head(r) = r[1] /\ r[1] \in Messages
  OBVIOUS
<1>2. q \in Seq(Messages) /\ Len(q) = Len(r) - 1
  OBVIOUS
<1>3. \A i \in 1..Len(q) : q[i] = r[i + 1]
  OBVIOUS
<1> HIDE DEF q
<1>4. q # <<>> => Len(q) \in 1..Len(q) /\ Len(q) + 1 = Len(r)
  BY <1>1, <1>2
<1>5. q = <<>> => Len(r) = 1
  BY <1>1, <1>2
<1> QED
  BY <1>1, <1>2, <1>3, <1>4, <1>5 DEF q

LEMMA MediaReleaseKeeps ==
    ASSUME NEW s, NEW w, NEW key, key # I!NoKey, InputShape(s),
           MediaFollows([s EXCEPT !.locked = FALSE], w), s.locked => s.held \in {I!NoKey, key}
    PROVE  LET t == I!MediaRelease(s, key)
           IN  /\ InputShape(t) /\ MediaFollows(t, w)
               /\ KeysStay(s, t) /\ DragsStay(s, t) /\ LockStays(s, t) /\ SwitchStays(s, t) /\ t.slipped = s.slipped
               /\ t.held = IF s.held = key THEN I!NoKey ELSE s.held
<1> DEFINE o == [s EXCEPT !.locked = FALSE]
           q == Append(s.sent, [press |-> FALSE, key |-> key])
           u == [s EXCEPT !.held = I!NoKey, !.sent = q]
<1>1. I!MediaRelease(s, key) = IF s.held = key THEN u ELSE s
  BY DEF I!MediaRelease
<1>2. o.sent = s.sent /\ o.held = s.held /\ ~o.locked
  BY DEF InputShape
<1> HIDE DEF o
<1>3. s.sent = o.sent /\ s.held \in {I!NoKey, "Volume"}
  BY <1>2 DEF MediaFollows
<1>4. CASE s.held = key
  <2>1. key = "Volume"
    BY <1>3, <1>4
  <2>2. q \in Seq(Messages) /\ q # <<>> /\ ~q[Len(q)].press
    <3> DEFINE m == [press |-> FALSE, key |-> "Volume"]
    <3>1. s.sent \in Seq(Messages) /\ m \in Messages /\ ~m.press
      BY <1>3 DEF MediaFollows, Messages
    <3>2. q = Append(s.sent, m)
      BY <2>1
    <3> HIDE DEF m, q
    <3>3. q \in Seq(Messages) /\ q # <<>> /\ q[Len(q)] = m
      BY <3>1, <3>2, LastMessage
    <3> QED
      BY <3>1, <3>3
  <2> HIDE DEF q
  <2>3. /\ InputShape(u) /\ KeysStay(s, u) /\ DragsStay(s, u) /\ LockStays(s, u) /\ SwitchStays(s, u)
        /\ u.slipped = s.slipped /\ u.held = I!NoKey /\ u.sent = q
    BY DEF InputShape, KeysStay, DragsStay, LockStays, SwitchStays
  <2> HIDE DEF u
  <2>4. w \in {I!NoKey, "Volume"}
    BY <1>2 DEF MediaFollows
  <2>5. MediaFollows(u, w)
    BY <2>2, <2>3, <2>4 DEF MediaFollows
  <2> QED
    BY <1>1, <1>4, <2>3, <2>5
<1>5. CASE s.held # key
  <2>1. MediaFollows(s, w)
    BY <1>2, <1>5 DEF MediaFollows
  <2> QED
    BY <1>1, <1>5, <2>1 DEF KeysStay, DragsStay, LockStays, SwitchStays
<1> QED
  BY <1>4, <1>5

LEMMA MediaPressHolds ==
    ASSUME NEW s, NEW w, InputHolds(s, w), ~s.locked
    PROVE  InputHolds(I!MediaPress(s, "Volume"), w)
<1> DEFINE q == Append(s.sent, [press |-> TRUE, key |-> "Volume"])
           u == [s EXCEPT !.held = "Volume", !.sent = q]
<1>1. I!MediaPress(s, "Volume") = u
  BY DEF I!MediaPress
<1>2. q \in Seq(Messages) /\ q # <<>> /\ q[Len(q)].press
  <2> DEFINE m == [press |-> TRUE, key |-> "Volume"]
  <2>1. s.sent \in Seq(Messages) /\ m \in Messages /\ m.press
    BY DEF InputHolds, MediaFollows, Messages
  <2>2. q = Append(s.sent, m)
    OBVIOUS
  <2> HIDE DEF m, q
  <2>3. q \in Seq(Messages) /\ q # <<>> /\ q[Len(q)] = m
    BY <2>1, <2>2, LastMessage
  <2> QED
    BY <2>1, <2>3
<1> HIDE DEF q
<1>3. /\ InputShape(u) /\ KeysStay(s, u) /\ DragsStay(s, u) /\ LockStays(s, u) /\ SwitchStays(s, u)
      /\ u.slipped = s.slipped /\ u.held = "Volume" /\ u.sent = q
  BY DEF InputHolds, InputShape, KeysStay, DragsStay, LockStays, SwitchStays
<1> HIDE DEF u
<1>4. w \in {I!NoKey, "Volume"}
  BY DEF InputHolds, MediaFollows
<1>5. MediaFollows(u, w)
  BY <1>2, <1>3, <1>4 DEF MediaFollows, LockStays
<1>6. KeysKept(u, {}) /\ DragsHold(u) /\ LockIsQuiet(u) /\ FocusShows(u) /\ ModifierIsHeld(u)
  BY <1>3, Staying DEF InputHolds, KeysStay, DragsStay, SwitchStays
<1> QED
  BY <1>1, <1>3, <1>5, <1>6 DEF InputHolds

\* A lock ends the switcher and the repeat, takes the keyboard and the pointer
\* from the windows and breaks off what was dragged.
LEMMA SetLockedHolds ==
    ASSUME NEW s, NEW w, InputHolds(s, w)
    PROVE  InputHolds(I!SetLocked(s), w)
<1> DEFINE a == [s EXCEPT !.locked = TRUE]
           b == I!Finish(a)
           c == I!MediaStop(b)
           d == I!SetFocus(c, I!None)
           gone == IF d.grab.kind = "resize" THEN {d.grab.window} \cap d.resizing ELSE {}
           e == [d EXCEPT !.grab = I!NoGrab, !.dropped = @ \cup gone]
           f == [e EXCEPT !.bar = FALSE, !.over = I!None]
<1>1. I!SetLocked(s) = IF s.locked THEN s ELSE f
  BY DEF I!SetLocked, I!UnsetGrab
<1> SUFFICES ASSUME ~s.locked PROVE InputHolds(f, w)
  BY <1>1
<1>2. /\ InputShape(a) /\ KeysStay(s, a) /\ DragsStay(s, a) /\ a.stack = s.stack
      /\ a.held = s.held /\ a.sent = s.sent /\ a.locked
  BY DEF InputHolds, InputShape, KeysStay, DragsStay
<1> HIDE DEF a
<1>3. InputShape(b) /\ RestStays(a, b) /\ b.stack = a.stack /\ ~I!Active(b)
  BY <1>2, FinishKeeps
<1> HIDE DEF b
<1>4. I!Available(b) = I!Available(a)
  BY <1>3 DEF I!Available
<1>5. KeysKept(b, {}) /\ DragsHold(b)
  <2>1. KeysKept(a, {}) /\ DragsHold(a)
    BY <1>2, Staying DEF InputHolds
  <2> QED
    BY <2>1, <1>3, <1>4, FocusTurns
<1>6. b.held = s.held /\ b.sent = s.sent /\ b.locked
  BY <1>2, <1>3 DEF RestStays
<1>7. /\ InputShape(c) /\ MediaFollows(c, w) /\ KeysStay(b, c) /\ DragsStay(b, c) /\ LockStays(b, c) /\ SwitchStays(b, c)
  <2> DEFINE o == [b EXCEPT !.locked = FALSE]
  <2>1. o.sent = s.sent /\ o.held = s.held /\ ~o.locked
    BY <1>3, <1>6 DEF InputShape
  <2>2. I!MediaStop(b) = IF b.held = I!NoKey THEN b ELSE I!MediaRelease(b, b.held)
    BY DEF I!MediaStop
  <2> HIDE DEF o
  <2>3. MediaFollows(o, w)
    BY <2>1 DEF InputHolds, MediaFollows
  <2>4. CASE b.held = I!NoKey
    BY <1>3, <1>6, <2>1, <2>2, <2>3, <2>4 DEF MediaFollows, KeysStay, DragsStay, LockStays, SwitchStays
  <2>5. CASE b.held # I!NoKey
    BY <1>3, <2>2, <2>3, <2>5, MediaReleaseKeeps DEF o
  <2> QED
    BY <2>4, <2>5
<1> HIDE DEF c
<1>8. KeysKept(c, {}) /\ DragsHold(c) /\ c.locked /\ ~I!Active(c)
  BY <1>3, <1>5, <1>6, <1>7, Staying DEF LockStays, SwitchStays, I!Active
<1>9. InputShape(d) /\ RestStays(c, d) /\ d.stack = c.stack /\ d.focus = I!None /\ SameSwitch(c, d)
  BY <1>7, SetFocusKeeps
<1> HIDE DEF d
<1>10. KeysKept(d, {}) /\ MediaFollows(d, w) /\ DragsHold(d) /\ ~I!Active(d) /\ d.locked
  <2>1. I!Available(d) = I!Available(c)
    BY <1>9 DEF I!Available
  <2> QED
    BY <2>1, <1>7, <1>8, <1>9, FocusTurns DEF SameSwitch, RestStays
<1> HIDE DEF gone
<1>11. /\ InputShape(e) /\ KeysStay(d, e) /\ MediaStays(d, e) /\ SwitchStays(d, e) /\ e.slipped = d.slipped
       /\ e.grab = I!NoGrab /\ e.clicks = d.clicks /\ e.buttons = d.buttons /\ e.missed = d.missed
       /\ e.swallowed = d.swallowed /\ e.resizing = d.resizing /\ e.dropped = d.dropped \cup gone
       /\ e.fingers = d.fingers /\ e.touch = d.touch /\ e.lifted = d.lifted
  <2>1. I!NoGrab \in GrabRecord
    BY DEF I!NoGrab, GrabRecord
  <2> QED
    BY <1>9, <2>1 DEF InputShape, KeysStay, MediaStays, SwitchStays
<1>12. DragsHold(e)
  <2>1. I!NoGrab.kind = "none"
    BY DEF I!NoGrab
  <2>2. \A x \in e.resizing \ e.dropped : e.touch.kind = "resize" /\ e.touch.window = x
    BY <1>10, <1>11 DEF DragsHold, gone
  <2>3. I!Available(e) = I!Available(d)
    BY <1>11 DEF SwitchStays, I!Available
  <2> QED
    BY <1>10, <1>11, <2>1, <2>2, <2>3 DEF DragsHold
<1> HIDE DEF e
<1>13. /\ InputShape(f) /\ KeysStay(e, f) /\ MediaStays(e, f) /\ DragsStay(e, f) /\ SwitchStays(e, f)
       /\ ~f.bar /\ f.over = I!None
  BY <1>11 DEF InputShape, KeysStay, MediaStays, DragsStay, SwitchStays
<1> HIDE DEF f
<1>14. KeysKept(f, {}) /\ MediaFollows(f, w) /\ DragsHold(f)
  <2>1. KeysKept(e, {}) /\ MediaFollows(e, w)
    BY <1>10, <1>11, Staying
  <2> QED
    BY <2>1, <1>12, <1>13, Staying DEF SwitchStays
<1>15. ~I!Active(f) /\ f.focus = I!None /\ f.grab = I!NoGrab
  BY <1>9, <1>10, <1>11, <1>13 DEF SwitchStays, DragsStay, I!Active
<1>16. LockIsQuiet(f)
  BY <1>13, <1>15, InputAssumption DEF LockIsQuiet, I!NoGrab
<1> QED
  BY <1>13, <1>14, <1>15, <1>16 DEF InputHolds, FocusShows, ModifierIsHeld

LEMMA CommonActionHolds ==
    ASSUME NEW s, NEW w, InputHolds(s, w), NEW action, NEW key,
           action = "media" => key = "Volume",
           action \in {"cycle", "cycle back"} => I!Modifier(s) \in s.down
    PROVE  InputHolds(I!CommonKeyAction(s, action, key), w)
<1> DEFINE t == I!CommonKeyAction(s, action, key)
<1>1. CASE s.locked \/ action \notin {"bar", "lock", "cycle", "cycle back", "cancel cycle", "media"}
  BY <1>1 DEF I!CommonKeyAction
<1>2. CASE ~s.locked /\ action = "bar"
  <2> DEFINE u == [s EXCEPT !.bar = ~@]
  <2>1. t = u
    BY <1>2 DEF I!CommonKeyAction
  <2>2. /\ InputShape(u) /\ KeysStay(s, u) /\ MediaStays(s, u) /\ DragsStay(s, u) /\ SwitchStays(s, u)
        /\ u.slipped = s.slipped
    BY DEF InputHolds, InputShape, KeysStay, MediaStays, DragsStay, SwitchStays
  <2> HIDE DEF u
  <2>3. KeysKept(u, {}) /\ MediaFollows(u, w) /\ DragsHold(u) /\ FocusShows(u) /\ ModifierIsHeld(u)
    BY <2>2, Staying DEF InputHolds, KeysStay, SwitchStays
  <2>4. LockIsQuiet(u)
    BY <1>2, <2>2 DEF LockIsQuiet, MediaStays
  <2> QED
    BY <2>1, <2>2, <2>3, <2>4 DEF InputHolds
<1>3. CASE ~s.locked /\ action = "lock"
  <2>1. t = I!SetLocked(s)
    BY <1>3 DEF I!CommonKeyAction
  <2> QED
    BY <2>1, SetLockedHolds
<1>4. CASE ~s.locked /\ action \in {"cycle", "cycle back"}
  <2>1. t = I!CycleWindows(s, FALSE, I!Modifier(s)) \/ t = I!CycleWindows(s, TRUE, I!Modifier(s))
    BY <1>4 DEF I!CommonKeyAction
  <2> DEFINE m == I!Modifier(s)
             forth == I!CycleWindows(s, FALSE, m)
             back == I!CycleWindows(s, TRUE, m)
  <2> HIDE DEF m
  <2>5. /\ InputShape(forth) /\ RestStays(s, forth) /\ I!Available(forth) = I!Available(s)
        /\ FocusShows(forth)
        /\ I!Active(forth) => forth.sel.modifier = m
    BY <1>4, CycleKeeps DEF InputHolds
  <2>6. /\ InputShape(back) /\ RestStays(s, back) /\ I!Available(back) = I!Available(s)
        /\ FocusShows(back)
        /\ I!Active(back) => back.sel.modifier = m
    BY <1>4, CycleKeeps DEF InputHolds
  <2>7. t = forth \/ t = back
    BY <2>1 DEF m
  <2> HIDE DEF t, forth, back
  <2>2. /\ InputShape(t) /\ RestStays(s, t) /\ I!Available(t) = I!Available(s)
        /\ FocusShows(t)
        /\ I!Active(t) => t.sel.modifier = I!Modifier(s)
    BY <2>5, <2>6, <2>7 DEF m
  <2>3. KeysKept(t, {}) /\ MediaFollows(t, w) /\ DragsHold(t)
    BY <2>2, FocusTurns DEF InputHolds
  <2>4. LockIsQuiet(t) /\ ModifierIsHeld(t)
    BY <1>4, <2>2 DEF RestStays, LockIsQuiet, ModifierIsHeld
  <2> QED
    BY <2>2, <2>3, <2>4 DEF InputHolds, t
<1>5. CASE ~s.locked /\ action = "cancel cycle"
  <2>1. t = I!CancelWindowCycle(s)
    BY <1>5 DEF I!CommonKeyAction
  <2>2. InputShape(t) /\ RestStays(s, t) /\ I!Available(t) = I!Available(s) /\ ~I!Active(t)
    BY <2>1, CancelKeeps DEF InputHolds
  <2> HIDE DEF t
  <2>3. KeysKept(t, {}) /\ MediaFollows(t, w) /\ DragsHold(t)
    BY <2>2, FocusTurns DEF InputHolds
  <2>4. LockIsQuiet(t) /\ ModifierIsHeld(t) /\ FocusShows(t)
    BY <1>5, <2>2 DEF RestStays, LockIsQuiet, ModifierIsHeld, FocusShows
  <2> QED
    BY <2>2, <2>3, <2>4 DEF InputHolds, t
<1>6. CASE ~s.locked /\ action = "media"
  <2>1. t = I!MediaPress(s, "Volume")
    BY <1>6 DEF I!CommonKeyAction
  <2> QED
    BY <1>6, <2>1, MediaPressHolds
<1> QED
  BY <1>1, <1>2, <1>3, <1>4, <1>5, <1>6

LEMMA InterceptHolds ==
    ASSUME NEW s, NEW w, InputHolds(s, w), NEW key, JustPressed(s, key), NEW action,
           action = "media" => key = "Volume",
           action \in {"cycle", "cycle back"} => I!Modifier(s) \in s.down
    PROVE  InputHolds(I!Intercept(s, key, action), w)
<1> DEFINE t == [s EXCEPT !.suppressed = @ \cup {key}]
<1>1. InputHolds(t, w)
  BY PressIsKept
<1>2. t.down = s.down /\ t.pressed = s.pressed
  BY DEF InputHolds, InputShape
<1>3. I!Intercept(s, key, action) = I!CommonKeyAction(t, action, key)
  BY DEF I!Intercept
<1> HIDE DEF t
<1>4. I!Modifier(t) = I!Modifier(s)
  BY <1>2 DEF I!Modifier
<1> QED
  BY <1>1, <1>2, <1>3, <1>4, CommonActionHolds

\* A shortcut that needs a modifier is one only while it is held.
LEMMA ShortcutsAreBound ==
    ASSUME NEW s, NEW key \in I!Keys, NEW action \in I!Shortcuts(s.pressed, key)
    PROVE  /\ action = "media" => key = "Volume"
           /\ action \in {"cycle", "cycle back"} => I!Modifier(s) \in s.pressed
<1>1. CASE key = "Tab"
  <2>1. "Super" \in s.pressed \/ "Alt" \in s.pressed
    <3> SUFFICES ASSUME "Super" \notin s.pressed, "Alt" \notin s.pressed PROVE FALSE
      OBVIOUS
    <3>1. ("Super" \in s.pressed) = ("Alt" \in s.pressed)
      OBVIOUS
    <3>2. I!Shortcuts(s.pressed, key) = {}
      BY <1>1, <3>1 DEF I!Shortcuts
    <3> QED
      BY <3>2
  <2>2. I!Modifier(s) \in s.pressed
    BY <2>1 DEF I!Modifier
  <2>3. action # "media"
    BY <1>1 DEF I!Shortcuts
  <2> QED
    BY <2>2, <2>3
<1>2. CASE key = "Volume"
  BY <1>2 DEF I!Shortcuts
<1>3. CASE key = "Text"
  BY <1>3 DEF I!Shortcuts
<1>4. CASE key \notin {"Tab", "Volume", "Text"}
  BY <1>4 DEF I!Shortcuts
<1> QED
  BY <1>1, <1>2, <1>3, <1>4

LEMMA FilterPressedHolds ==
    ASSUME NEW s, NEW w, InputHolds(s, w), NEW key \in I!Keys, JustPressed(s, key), NEW r \in I!FilterPressed(s, key)
    PROVE  InputHolds(r, w)
<1> DEFINE t == I!Release(s)
           u == [s EXCEPT !.slipped = {}]
           closed == [t EXCEPT !.bar = FALSE]
<1>1. InputHolds(t, w) /\ RestStays(u, t)
  BY ReleaseHolds DEF InputHolds
<1>2. JustPressed(t, key)
  <2>1. u.down = s.down /\ u.suppressed = s.suppressed /\ u.forwarded = s.forwarded /\ u.kept = s.kept
    BY DEF InputHolds, InputShape
  <2> HIDE DEF t, u
  <2> QED
    BY <1>1, <2>1 DEF JustPressed, RestStays
<1>3. \/ \E a \in I!Shortcuts(t.pressed, key) : r = I!Intercept(t, key, a)
      \/ r = I!Intercept(t, key, "cancel cycle")
      \/ r = I!Intercept(t, key, "bar key")
      \/ r = I!Intercept(closed, key, "bar key")
      \/ r = I!Forward(t, key)
  <2> HIDE DEF t, closed
  <2>1. I!FilterPressed(s, key) \subseteq
          {I!Intercept(t, key, a) : a \in I!Shortcuts(t.pressed, key)}
          \cup {I!Intercept(t, key, "cancel cycle"), I!Intercept(t, key, "bar key"),
                I!Intercept(closed, key, "bar key"), I!Forward(t, key)}
    BY DEF I!FilterPressed, t, closed
  <2> QED
    BY <2>1
<1>4. InputHolds(closed, w) /\ JustPressed(closed, key)
  <2> HIDE DEF t
  <2>1. /\ InputShape(closed) /\ KeysStay(t, closed) /\ MediaStays(t, closed) /\ DragsStay(t, closed)
        /\ SwitchStays(t, closed) /\ closed.slipped = t.slipped /\ closed.over = t.over /\ ~closed.bar
    BY <1>1 DEF InputHolds, InputShape, KeysStay, MediaStays, DragsStay, SwitchStays
  <2> HIDE DEF closed
  <2>2. KeysKept(closed, {}) /\ MediaFollows(closed, w) /\ DragsHold(closed) /\ FocusShows(closed) /\ ModifierIsHeld(closed)
    BY <1>1, <2>1, Staying DEF InputHolds, KeysStay, SwitchStays
  <2>3. LockIsQuiet(closed)
    BY <1>1, <2>1 DEF InputHolds, LockIsQuiet, MediaStays, DragsStay, SwitchStays, I!Active
  <2> QED
    BY <1>2, <2>1, <2>2, <2>3 DEF InputHolds, JustPressed, KeysStay
<1> HIDE DEF t, closed
<1>5. ASSUME NEW a \in I!Shortcuts(t.pressed, key) PROVE InputHolds(I!Intercept(t, key, a), w)
  <2>1. t.pressed = t.down
    BY <1>1 DEF InputHolds, KeysKept
  <2>2. (a = "media" => key = "Volume") /\ (a \in {"cycle", "cycle back"} => I!Modifier(t) \in t.down)
    BY <2>1, ShortcutsAreBound
  <2> QED
    BY <1>1, <1>2, <2>2, InterceptHolds
<1>6. ASSUME NEW a, a \in {"cancel cycle", "bar key"}
      PROVE  InputHolds(I!Intercept(t, key, a), w) /\ InputHolds(I!Intercept(closed, key, a), w)
  <2>1. a # "media" /\ a \notin {"cycle", "cycle back"}
    BY <1>6
  <2> QED
    BY <1>1, <1>2, <1>4, <2>1, InterceptHolds
<1>8. InputHolds(I!Forward(t, key), w)
  BY <1>1, <1>2, PressIsKept
<1> QED
  BY <1>3, <1>5, <1>6, <1>8

LEMMA KeyPressedHolds ==
    ASSUME NEW s, NEW w, InputHolds(s, w), NEW key \in I!Keys, JustPressed(s, key), NEW r \in I!KeyPressed(s, key)
    PROVE  InputHolds(r, w)
<1>1. CASE ~I!TakesAll(s)
  BY <1>1, FilterPressedHolds DEF I!KeyPressed
<1>2. CASE I!TakesAll(s)
  <2> DEFINE a == I!SetFocus(s, I!Layer)
             t == I!Release(a)
             b == [a EXCEPT !.slipped = {}]
  <2>1. InputHolds(a, w) /\ RestStays(s, a)
    BY InputAssumption, SetFocusHolds, SetFocusKeeps DEF InputHolds
  <2>2. r = I!Forward(t, key) \/ r = [t EXCEPT !.suppressed = @ \cup {key}]
    BY <1>2 DEF I!KeyPressed
  <2> HIDE DEF a
  <2>3. InputHolds(t, w) /\ RestStays(b, t)
    BY <2>1, ReleaseHolds DEF InputHolds
  <2>4. b.down = a.down /\ b.suppressed = a.suppressed /\ b.forwarded = a.forwarded /\ b.kept = a.kept
    BY <2>1 DEF InputHolds, InputShape
  <2> HIDE DEF t, b
  <2>5. JustPressed(t, key)
    BY <2>1, <2>3, <2>4 DEF JustPressed, RestStays
  <2> QED
    BY <2>2, <2>3, <2>5, PressIsKept
<1> QED
  BY <1>1, <1>2

LEMMA FilterReleasedHolds ==
    ASSUME NEW s, NEW w, NEW key, Releasing(s, w, key), ModifierIsHeld(s)
    PROVE  InputHolds(I!FilterReleased(s, key), w)
<1> DEFINE a == [s EXCEPT !.suppressed = @ \ {key}]
           b == [s EXCEPT !.forwarded = @ \ {key}, !.kept = @ \ {key}]
           t == I!FilterReleased(s, key)
<1>1. t = IF key \in s.suppressed THEN a ELSE b
  BY DEF I!FilterReleased
<1>2. /\ InputShape(a) /\ MediaStays(s, a) /\ DragsStay(s, a) /\ LockStays(s, a) /\ SwitchStays(s, a)
      /\ a.slipped = s.slipped /\ a.down = s.down /\ a.pressed = s.pressed
      /\ a.forwarded = s.forwarded /\ a.kept = s.kept /\ a.suppressed = s.suppressed \ {key}
  BY DEF Releasing, InputShape, MediaStays, DragsStay, LockStays, SwitchStays
<1>3. /\ InputShape(b) /\ MediaStays(s, b) /\ DragsStay(s, b) /\ LockStays(s, b) /\ SwitchStays(s, b)
      /\ b.slipped = s.slipped /\ b.down = s.down /\ b.pressed = s.pressed
      /\ b.forwarded = s.forwarded \ {key} /\ b.kept = s.kept \ {key} /\ b.suppressed = s.suppressed
  BY DEF Releasing, InputShape, MediaStays, DragsStay, LockStays, SwitchStays
<1> HIDE DEF a, b
<1>4. key \in s.suppressed => KeysKept(a, {})
  BY <1>2 DEF Releasing, KeysKept
<1>5. key \notin s.suppressed => KeysKept(b, {})
  BY <1>3 DEF Releasing, KeysKept
<1>6. MediaFollows(a, w) /\ DragsHold(a) /\ LockIsQuiet(a) /\ FocusShows(a) /\ ModifierIsHeld(a)
  BY <1>2, Staying DEF Releasing, DragsStay, SwitchStays
<1>7. MediaFollows(b, w) /\ DragsHold(b) /\ LockIsQuiet(b) /\ FocusShows(b) /\ ModifierIsHeld(b)
  BY <1>3, Staying DEF Releasing, DragsStay, SwitchStays
<1> QED
  BY <1>1, <1>2, <1>3, <1>4, <1>5, <1>6, <1>7 DEF InputHolds

LEMMA KeyReleasedHolds ==
    ASSUME NEW s, NEW w, NEW key \in I!Keys, Releasing(s, w, key)
    PROVE  InputHolds(I!KeyReleased(s, key), w)
<1> DEFINE t == I!MediaRelease(s, key)
           u == I!SetFocus(t, I!Layer)
<1>1. Releasing(t, w, key)
  <2> DEFINE o == [s EXCEPT !.locked = FALSE]
  <2>1. o.sent = s.sent /\ o.held = s.held /\ ~o.locked
    BY DEF Releasing, InputShape
  <2> HIDE DEF o
  <2>2. MediaFollows(o, w) /\ (s.locked => s.held \in {I!NoKey, key}) /\ key # I!NoKey
    BY <2>1 DEF Releasing, MediaFollows, I!Keys, I!NoKey
  <2>3. /\ InputShape(t) /\ MediaFollows(t, w)
        /\ KeysStay(s, t) /\ DragsStay(s, t) /\ LockStays(s, t) /\ SwitchStays(s, t)
    BY <2>2, MediaReleaseKeeps DEF Releasing, o
  <2> HIDE DEF t
  <2> QED
    BY <2>3, Staying DEF Releasing, DragsStay, SwitchStays
<1>2. Releasing(u, w, key)
  <2> HIDE DEF t
  <2> QED
    BY <1>1, InputAssumption, SetFocusHolds DEF Releasing
<1>3. I!KeyReleased(s, key) = IF I!TakesAll(t) THEN I!FilterReleased(I!Release(u), key) ELSE I!FilterReleased(I!Release(t), key)
  BY DEF I!KeyReleased
<1> HIDE DEF t, u
<1>4. Releasing(I!Release(t), w, key) /\ ModifierIsHeld(I!Release(t))
  BY <1>1, ReleaseHolds DEF Releasing
<1>5. Releasing(I!Release(u), w, key) /\ ModifierIsHeld(I!Release(u))
  BY <1>2, ReleaseHolds DEF Releasing
<1> QED
  BY <1>3, <1>4, <1>5, FilterReleasedHolds

\* Every press and release of a key.
LEMMA KeysHold ==
    ASSUME InputHolds(in, worker), NEW key \in I!Keys, I!PressKey(key) \/ I!ReleaseKey(key)
    PROVE  InputHolds(in', worker')
<1>1. CASE I!PressKey(key)
  <2> DEFINE s == [in EXCEPT !.down = @ \cup {key}, !.pressed = @ \cup {key}]
             a == [s EXCEPT !.asleep = FALSE]
  <2>1. /\ key \notin in.down /\ worker' = worker
        /\ IF s.asleep THEN in' = [a EXCEPT !.suppressed = @ \cup {key}] ELSE in' \in I!KeyPressed(s, key)
    BY <1>1 DEF I!PressKey, I!SwallowWakeKey
  <2>2. InputHolds(s, worker) /\ JustPressed(s, key)
    BY <2>1, PressedKeyHolds
  <2> HIDE DEF s
  <2>3. /\ InputShape(a) /\ KeysStay(s, a) /\ MediaStays(s, a) /\ DragsStay(s, a) /\ LockStays(s, a) /\ SwitchStays(s, a)
        /\ a.slipped = s.slipped
    BY <2>2 DEF InputHolds, InputShape, KeysStay, MediaStays, DragsStay, LockStays, SwitchStays
  <2> HIDE DEF a
  <2>4. InputHolds(a, worker) /\ JustPressed(a, key)
    BY <2>2, <2>3, Staying DEF InputHolds, JustPressed, KeysStay, DragsStay, SwitchStays
  <2>5. CASE s.asleep
    BY <2>1, <2>4, <2>5, PressIsKept
  <2>6. CASE ~s.asleep
    BY <2>1, <2>2, <2>6, KeyPressedHolds
  <2> QED
    BY <2>5, <2>6
<1>2. CASE I!ReleaseKey(key)
  <2> DEFINE s == [in EXCEPT !.down = @ \ {key}, !.pressed = @ \ {key}]
             a == [s EXCEPT !.asleep = FALSE]
             b == [a EXCEPT !.suppressed = @ \ {key}, !.slipped = @ \cup {key},
                            !.kept = @ \cup ({key} \cap a.forwarded)]
  <2>1. in' = (IF s.asleep THEN b ELSE I!KeyReleased(s, key)) /\ worker' = worker
    BY <1>2 DEF I!ReleaseKey, I!SwallowWakeKey
  <2>2. /\ InputShape(s) /\ MediaStays(in, s) /\ DragsStay(in, s) /\ LockStays(in, s) /\ SwitchStays(in, s)
        /\ s.slipped = in.slipped /\ s.down = in.down \ {key} /\ s.pressed = in.pressed \ {key}
        /\ s.forwarded = in.forwarded /\ s.suppressed = in.suppressed /\ s.kept = in.kept
    BY DEF InputHolds, InputShape, MediaStays, DragsStay, LockStays, SwitchStays
  <2> HIDE DEF s
  <2>3. Releasing(s, worker, key)
    <3>1. KeysKept(s, {key})
      BY <2>2 DEF InputHolds, KeysKept
    <3> QED
      BY <2>2, <3>1, Staying DEF InputHolds, Releasing, DragsStay, SwitchStays
  <2>4. /\ InputShape(a) /\ KeysStay(s, a) /\ MediaStays(s, a) /\ DragsStay(s, a) /\ LockStays(s, a) /\ SwitchStays(s, a)
        /\ a.slipped = s.slipped
    BY <2>2 DEF InputShape, KeysStay, MediaStays, DragsStay, LockStays, SwitchStays
  <2> HIDE DEF a
  <2>5. /\ InputShape(b) /\ MediaStays(a, b) /\ DragsStay(a, b) /\ LockStays(a, b) /\ SwitchStays(a, b)
        /\ b.slipped = a.slipped \cup {key} /\ b.down = a.down /\ b.pressed = a.pressed
        /\ b.forwarded = a.forwarded /\ b.suppressed = a.suppressed \ {key}
        /\ b.kept = a.kept \cup ({key} \cap a.forwarded)
    BY <2>4 DEF InputShape, MediaStays, DragsStay, LockStays, SwitchStays
  <2> HIDE DEF b
  <2>6. Releasing(a, worker, key)
    BY <2>3, <2>4, Staying DEF Releasing, DragsStay, SwitchStays
  <2>7. KeysKept(b, {})
    BY <2>5, <2>6 DEF Releasing, KeysKept
  <2>8. MediaFollows(b, worker) /\ DragsHold(b) /\ LockIsQuiet(b) /\ FocusShows(b)
    BY <2>5, <2>6, Staying DEF Releasing, DragsStay, SwitchStays
  <2>9. ModifierIsHeld(b)
    BY <2>2, <2>4, <2>5 DEF InputHolds, ModifierIsHeld, SwitchStays, KeysStay, I!Active
  <2>10. InputHolds(b, worker)
    BY <2>5, <2>7, <2>8, <2>9 DEF InputHolds
  <2> QED
    BY <2>1, <2>3, <2>10, KeyReleasedHolds
<1> QED
  BY <1>1, <1>2

-----------------------------------------------------------------------------
\* A button or a finger changes what is dragged and what the lock looks at, and
\* nothing of the keys, the worker or the switcher.
AroundStays(s, t) == KeysStay(s, t) /\ MediaStays(s, t) /\ SwitchStays(s, t) /\ t.slipped = s.slipped

LEMMA DragsChange ==
    ASSUME NEW s, NEW t, NEW w, InputHolds(s, w), InputShape(t), AroundStays(s, t), DragsHold(t), LockIsQuiet(t)
    PROVE  InputHolds(t, w)
  BY Staying DEF InputHolds, AroundStays, KeysStay

\* A window with the whole screen that is pressed has the keyboard, and counts as
\* let through if that is behind the lock.
LEMMA FocusFullHolds ==
    ASSUME NEW s, NEW w, InputHolds(s, w), NEW x
    PROVE  LET t == I!FocusFull(s, x)
           IN  InputHolds(t, w) /\ DragsStay(s, t) /\ t.locked = s.locked /\ t.stack = s.stack
<1> DEFINE a == I!SetFocus(s, x)
           v == IF s.locked THEN x ELSE a.through
           t == [a EXCEPT !.through = v]
<1>1. I!FocusFull(s, x) = t
  BY DEF I!FocusFull
<1>2. /\ InputShape(a) /\ RestStays(s, a) /\ a.stack = s.stack /\ a.focus = x /\ SameSwitch(s, a)
      /\ I!Active(a) => s.focus = x \/ I!Selected(s) = x
  BY SetFocusKeeps DEF InputHolds
<1>3. s.locked => v = x
  OBVIOUS
<1> HIDE DEF a, v
<1>4. /\ InputShape(t) /\ KeysStay(a, t) /\ MediaStays(a, t) /\ DragsStay(a, t) /\ LockStays(a, t)
      /\ t.slipped = a.slipped /\ t.sel = a.sel /\ t.focus = x /\ t.stack = s.stack /\ t.through = v
  BY <1>2 DEF InputShape, KeysStay, MediaStays, DragsStay, LockStays
<1> HIDE DEF t
<1>5. I!Available(a) = I!Available(s) /\ I!Available(t) = I!Available(s)
  BY <1>2, <1>4 DEF I!Available
<1>6. KeysKept(t, {}) /\ MediaFollows(t, w) /\ DragsHold(t)
  <2>1. KeysKept(a, {}) /\ MediaFollows(a, w) /\ DragsHold(a)
    BY <1>2, <1>5, FocusTurns DEF InputHolds
  <2> QED
    BY <1>2, <1>4, <2>1, Staying
<1>7. (I!Active(t) <=> I!Active(a)) /\ I!Selected(t) = I!Selected(a)
  BY <1>4 DEF I!Active, I!Selected
<1>8. LockIsQuiet(t)
  BY <1>2, <1>3, <1>4, <1>7 DEF InputHolds, LockIsQuiet, RestStays, LockStays, DragsStay, SameSwitch
<1>9. FocusShows(t)
  BY <1>2, <1>4, <1>5, <1>7 DEF InputHolds, FocusShows, SameSwitch, I!Selected
<1>10. ModifierIsHeld(t)
  BY <1>2, <1>4, <1>7 DEF InputHolds, ModifierIsHeld, RestStays, KeysStay, SameSwitch
<1>11. DragsStay(s, t) /\ t.locked = s.locked
  BY <1>2, <1>4 DEF RestStays, DragsStay, LockStays
<1> QED
  BY <1>1, <1>4, <1>6, <1>8, <1>9, <1>10, <1>11 DEF InputHolds

LEMMA UpdateFocusHolds ==
    ASSUME NEW s, NEW w, InputHolds(s, w), NEW under, NEW full
    PROVE  LET t == I!UpdateKeyboardFocus(s, under, full)
           IN  InputHolds(t, w) /\ DragsStay(s, t) /\ t.locked = s.locked
<1> DEFINE a == I!SetFocus(s, I!Layer)
           b == I!ActivateWindow(s, under)
           c == I!FocusFull(s, under)
<1>1. I!UpdateKeyboardFocus(s, under, full) \in {s, a, b, c}
  BY DEF I!UpdateKeyboardFocus
<1>2. InputHolds(a, w) /\ RestStays(s, a)
  BY InputAssumption, SetFocusHolds, SetFocusKeeps DEF InputHolds
<1>3. InputHolds(b, w) /\ RestStays(s, b)
  BY ActivateHolds, ActivateKeeps DEF InputHolds
<1>4. InputHolds(c, w) /\ DragsStay(s, c) /\ c.locked = s.locked
  BY FocusFullHolds
<1> HIDE DEF a, b, c
<1>5. \A t : RestStays(s, t) => DragsStay(s, t) /\ t.locked = s.locked
  BY DEF RestStays, DragsStay
<1> QED
  BY <1>1, <1>2, <1>3, <1>4, <1>5, RestIsReflexive

\* A press that no window takes for a drag starts a click.
LEMMA PressedHolds ==
    ASSUME NEW s, NEW w, InputHolds(s, w), NEW b \in s.buttons
    PROVE  InputHolds(I!Pressed(s, b), w)
<1> DEFINE click == [kind |-> "click", window |-> I!None]
           g == IF s.grab = I!NoGrab THEN click ELSE s.grab
           t == [s EXCEPT !.clicks = @ \cup {b}, !.grab = g]
<1>1. I!Pressed(s, b) = t
  BY DEF InputHolds, InputShape, I!Pressed
<1>2. g \in GrabRecord /\ (g # s.grab => g.kind = "click" /\ s.grab.kind = "none")
  BY DEF InputHolds, InputShape, GrabRecord, I!NoGrab
<1> HIDE DEF g
<1>3. /\ InputShape(t) /\ AroundStays(s, t) /\ LockStays(s, t)
      /\ t.grab = g /\ t.clicks = s.clicks \cup {b} /\ t.buttons = s.buttons /\ t.missed = s.missed
      /\ t.swallowed = s.swallowed /\ t.resizing = s.resizing /\ t.dropped = s.dropped
      /\ t.fingers = s.fingers /\ t.touch = s.touch /\ t.lifted = s.lifted
  BY <1>2 DEF InputHolds, InputShape, AroundStays, KeysStay, MediaStays, SwitchStays, LockStays
<1> HIDE DEF t
<1>4. DragsHold(t)
  BY <1>2, <1>3 DEF InputHolds, DragsHold, AroundStays, SwitchStays, I!Available
<1>5. LockIsQuiet(t)
  BY <1>2, <1>3 DEF InputHolds, LockIsQuiet, AroundStays, SwitchStays, LockStays, I!Active
<1> QED
  BY <1>1, <1>3, <1>4, <1>5, DragsChange

\* One that a window takes: the drag has its button.
LEMMA DragStarts ==
    ASSUME NEW s, NEW w, InputHolds(s, w), NEW b \in s.buttons, NEW x \in I!Available(s),
           s.grab = I!NoGrab, ~s.locked, NEW kind \in {"move", "tile", "resize"}, NEW u,
           u = IF kind = "resize" THEN I!StartFloatingResize(s, x)
               ELSE [s EXCEPT !.grab = [kind |-> kind, window |-> x]]
    PROVE  InputHolds(I!Pressed(u, b), w)
<1> DEFINE g == [kind |-> kind, window |-> x]
           t == I!Pressed(u, b)
<1>1. x \in Wins
  BY StackHasWindows DEF InputHolds
<1>2. g \in GrabRecord /\ g.kind = kind /\ g.window = x /\ g # I!NoGrab
  BY <1>1 DEF GrabRecord, I!NoGrab
<1> HIDE DEF g
<1>3. /\ DOMAIN u = DOMAIN s /\ InputShape(u) /\ AroundStays(s, u) /\ LockStays(s, u)
      /\ u.grab = g /\ u.clicks = s.clicks /\ u.buttons = s.buttons /\ u.missed = s.missed
      /\ u.swallowed = s.swallowed
      /\ u.fingers = s.fingers /\ u.touch = s.touch /\ u.lifted = s.lifted
      /\ u.resizing = (IF kind = "resize" THEN s.resizing \cup {x} ELSE s.resizing)
      /\ u.dropped = (IF kind = "resize" THEN s.dropped \ {x} ELSE s.dropped)
  <2> DEFINE a == [s EXCEPT !.grab = g]
             c == [s EXCEPT !.grab = g, !.resizing = @ \cup {x}, !.dropped = @ \ {x}]
  <2>1. u = IF kind = "resize" THEN c ELSE a
    BY DEF I!StartFloatingResize, g
  <2>2. CASE kind = "resize"
    <3>1. u = c
      BY <2>1, <2>2
    <3>2. /\ DOMAIN c = DOMAIN s /\ InputShape(c) /\ AroundStays(s, c) /\ LockStays(s, c)
          /\ c.grab = g /\ c.clicks = s.clicks /\ c.buttons = s.buttons /\ c.missed = s.missed
          /\ c.swallowed = s.swallowed
          /\ c.fingers = s.fingers /\ c.touch = s.touch /\ c.lifted = s.lifted
      BY <1>2 DEF InputHolds, InputShape, AroundStays, KeysStay, MediaStays, SwitchStays, LockStays
    <3>3. c.resizing = s.resizing \cup {x} /\ c.dropped = s.dropped \ {x}
      BY DEF InputHolds, InputShape
    <3> HIDE DEF c
    <3> QED
      BY <2>2, <3>1, <3>2, <3>3
  <2>3. CASE kind # "resize"
    BY <1>2, <2>1, <2>3 DEF InputHolds, InputShape, AroundStays, KeysStay, MediaStays, SwitchStays, LockStays
  <2> QED
    BY <2>2, <2>3
<1>4. /\ InputShape(t) /\ AroundStays(u, t) /\ LockStays(u, t)
      /\ t.grab = g /\ t.clicks = u.clicks \cup {b} /\ t.buttons = u.buttons /\ t.missed = u.missed
      /\ t.swallowed = u.swallowed /\ t.resizing = u.resizing /\ t.dropped = u.dropped
      /\ t.fingers = u.fingers /\ t.touch = u.touch /\ t.lifted = u.lifted
  <2>1. t = [u EXCEPT !.clicks = @ \cup {b}, !.grab = g]
    BY <1>2, <1>3 DEF I!Pressed, InputShape
  <2> HIDE DEF t
  <2> QED
    BY <1>2, <1>3, <2>1 DEF InputShape, AroundStays, KeysStay, MediaStays, SwitchStays, LockStays
<1> HIDE DEF t
<1>5. AroundStays(s, t)
  BY <1>3, <1>4 DEF AroundStays, KeysStay, MediaStays, SwitchStays
<1>6. I!Available(t) = I!Available(s)
  BY <1>5 DEF AroundStays, SwitchStays, I!Available
<1>7. s.grab.kind = "none"
  BY DEF I!NoGrab
<1>8. \A y \in t.resizing \ t.dropped : \/ t.grab.kind = "resize" /\ t.grab.window = y
                                        \/ t.touch.kind = "resize" /\ t.touch.window = y
  <2>1. CASE kind = "resize"
    BY <1>2, <1>3, <1>4, <1>7, <2>1 DEF InputHolds, DragsHold
  <2>2. CASE kind # "resize"
    BY <1>2, <1>3, <1>4, <1>7, <2>2 DEF InputHolds, DragsHold
  <2> QED
    BY <2>1, <2>2
<1>9. t.resizing \subseteq I!Available(t)
  BY <1>3, <1>4, <1>6 DEF InputHolds, DragsHold
<1>10. DragsHold(t)
  BY <1>3, <1>4, <1>8, <1>9 DEF InputHolds, DragsHold
<1>11. LockIsQuiet(t)
  BY <1>3, <1>4 DEF LockIsQuiet, LockStays
<1> QED
  BY <1>4, <1>5, <1>10, <1>11, DragsChange DEF t

LEMMA ButtonPressedHolds ==
    ASSUME NEW s, NEW w, InputHolds(s, w), NEW b \in s.buttons,
           NEW under \in I!Available(s) \cup {I!Layer, I!None}, NEW border \in BOOLEAN, NEW full \in BOOLEAN,
           NEW r \in I!ButtonPressed(s, b, under, border, full)
    PROVE  InputHolds(r, w)
<1>1. CASE s.bar
  <2> DEFINE a == [s EXCEPT !.swallowed = @ \cup {b}]
             c == [s EXCEPT !.swallowed = @ \cup {b}, !.bar = FALSE]
  <2>1. r = a \/ r = c
    BY <1>1 DEF I!ButtonPressed
  <2>2. /\ InputShape(r) /\ AroundStays(s, r) /\ r.grab = s.grab /\ r.clicks = s.clicks /\ r.buttons = s.buttons
        /\ r.missed = s.missed /\ r.swallowed = s.swallowed \cup {b} /\ r.resizing = s.resizing
        /\ r.dropped = s.dropped /\ r.fingers = s.fingers /\ r.touch = s.touch /\ r.lifted = s.lifted
    <3>1. CASE r = a
      BY <3>1 DEF InputHolds, InputShape, AroundStays, KeysStay, MediaStays, SwitchStays
    <3>2. CASE r = c
      BY <3>2 DEF InputHolds, InputShape, AroundStays, KeysStay, MediaStays, SwitchStays
    <3> QED
      BY <2>1, <3>1, <3>2
  <2> HIDE DEF a, c
  <2>3. DragsHold(r)
    BY <2>2 DEF InputHolds, DragsHold, AroundStays, SwitchStays, I!Available
  <2>4. LockIsQuiet(r)
    BY <1>1, <2>2 DEF InputHolds, LockIsQuiet, AroundStays, MediaStays
  <2> QED
    BY <2>2, <2>3, <2>4, DragsChange
<1>2. CASE ~s.bar
  <2> DEFINE t == I!ActivateWindow(s, under)
             takes == s.grab = I!NoGrab /\ ~s.locked /\ under \in Wins
             move == [t EXCEPT !.grab = [kind |-> "move", window |-> under]]
             tile == [t EXCEPT !.grab = [kind |-> "tile", window |-> under]]
             resize == I!StartFloatingResize(t, under)
  <2>1. \/ takes /\ r \in {I!Pressed(move, b), I!Pressed(tile, b), I!Pressed(resize, b)}
        \/ \E x \in {under, I!None}, f \in BOOLEAN : r = I!Pressed(I!UpdateKeyboardFocus(s, x, f), b)
    <3> HIDE DEF t, move, tile, resize
    <3>1. I!StartSuperDrag(s, b, under) \subseteq {move, tile, resize}
      BY DEF I!StartSuperDrag, move, tile, resize, t
    <3>2. I!StartBorderResize(s, under) \subseteq {move, tile, resize}
      BY DEF I!StartBorderResize, move, tile, resize, t
    <3> QED
      BY <1>2, <3>1, <3>2 DEF I!ButtonPressed
  <2>2. InputHolds(t, w) /\ RestStays(s, t) /\ I!Available(t) = I!Available(s)
    BY ActivateHolds, ActivateKeeps DEF InputHolds
  <2> HIDE DEF t
  <2>3. takes => /\ b \in t.buttons /\ under \in I!Available(t) /\ t.grab = I!NoGrab /\ ~t.locked
    BY <2>2, InputAssumption DEF RestStays
  <2>4. takes => InputHolds(I!Pressed(move, b), w)
    BY <2>2, <2>3, DragStarts
  <2>5. takes => InputHolds(I!Pressed(tile, b), w)
    BY <2>2, <2>3, DragStarts
  <2>6. takes => InputHolds(I!Pressed(resize, b), w)
    BY <2>2, <2>3, DragStarts
  <2>7. ASSUME NEW x, NEW f PROVE InputHolds(I!Pressed(I!UpdateKeyboardFocus(s, x, f), b), w)
    <3> DEFINE u == I!UpdateKeyboardFocus(s, x, f)
    <3>1. InputHolds(u, w) /\ DragsStay(s, u)
      BY UpdateFocusHolds
    <3> HIDE DEF u
    <3>2. b \in u.buttons
      BY <3>1 DEF DragsStay
    <3> QED
      BY <3>1, <3>2, PressedHolds DEF u
  <2> QED
    BY <2>1, <2>4, <2>5, <2>6, <2>7
<1> QED
  BY <1>1, <1>2

\* A button leaves the touch screen alone.
FingersStay(s, t) == t.fingers = s.fingers /\ t.touch = s.touch /\ t.lifted = s.lifted

LEMMA ButtonReleasedHolds ==
    ASSUME NEW s, NEW w, InputHolds(s, w), NEW b, NEW a,
           a = [s EXCEPT !.buttons = @ \ {b}, !.woke = @ \ {b}]
    PROVE  InputHolds(I!ButtonReleased(a, b), w)
<1>1. /\ InputShape(a) /\ AroundStays(s, a) /\ LockStays(s, a) /\ FingersStay(s, a)
      /\ a.grab = s.grab /\ a.clicks = s.clicks /\ a.buttons = s.buttons \ {b} /\ a.missed = s.missed
      /\ a.swallowed = s.swallowed /\ a.resizing = s.resizing /\ a.dropped = s.dropped
  BY DEF InputHolds, InputShape, AroundStays, KeysStay, MediaStays, SwitchStays, LockStays, FingersStay
<1>2. /\ s.grab # I!NoGrab => s.clicks # {}
      /\ s.clicks \subseteq s.buttons \cup s.missed
      /\ s.swallowed \subseteq s.buttons \cup s.missed
      /\ s.resizing \subseteq I!Available(s)
      /\ \A x \in s.resizing \ s.dropped : \/ s.grab.kind = "resize" /\ s.grab.window = x
                                           \/ s.touch.kind = "resize" /\ s.touch.window = x
  BY DEF InputHolds, DragsHold
<1>3. CASE b \in a.swallowed
  <2> DEFINE t == [a EXCEPT !.swallowed = @ \ {b}, !.missed = (@ \ {b}) \cup ({b} \cap a.clicks)]
  <2>1. I!ButtonReleased(a, b) = t
    BY <1>3 DEF I!ButtonReleased
  <2>2. /\ InputShape(t) /\ AroundStays(a, t) /\ LockStays(a, t) /\ FingersStay(a, t)
        /\ t.grab = a.grab /\ t.clicks = a.clicks /\ t.buttons = a.buttons
        /\ t.missed = (a.missed \ {b}) \cup ({b} \cap a.clicks)
        /\ t.swallowed = a.swallowed \ {b} /\ t.resizing = a.resizing /\ t.dropped = a.dropped
    BY <1>1 DEF InputShape, AroundStays, KeysStay, MediaStays, SwitchStays, LockStays, FingersStay
  <2> HIDE DEF t
  <2>3. AroundStays(s, t) /\ LockStays(s, t) /\ FingersStay(s, t)
    BY <1>1, <2>2 DEF AroundStays, KeysStay, MediaStays, SwitchStays, LockStays, FingersStay
  <2>4. I!Available(t) = I!Available(s)
    BY <2>3 DEF AroundStays, SwitchStays, I!Available
  <2>5. DragsHold(t)
    BY <1>1, <1>2, <2>2, <2>3, <2>4 DEF InputHolds, DragsHold, FingersStay
  <2>6. LockIsQuiet(t)
    BY <1>1, <2>2, <2>3 DEF InputHolds, LockIsQuiet, AroundStays, SwitchStays, LockStays, I!Active
  <2> QED
    BY <2>1, <2>2, <2>3, <2>5, <2>6, DragsChange
<1>4. CASE b \notin a.swallowed
  <2> DEFINE t == [a EXCEPT !.clicks = @ \ {b}]
             e == I!EndResize(t)
             u == [e EXCEPT !.grab = I!NoGrab]
  <2>1. I!ButtonReleased(a, b) = IF t.clicks = {} /\ t.grab # I!NoGrab THEN u ELSE t
    BY <1>4 DEF I!ButtonReleased
  <2>2. /\ InputShape(t) /\ AroundStays(a, t) /\ LockStays(a, t) /\ FingersStay(a, t)
        /\ t.grab = a.grab /\ t.clicks = a.clicks \ {b} /\ t.buttons = a.buttons /\ t.missed = a.missed
        /\ t.swallowed = a.swallowed /\ t.resizing = a.resizing /\ t.dropped = a.dropped
    BY <1>1 DEF InputShape, AroundStays, KeysStay, MediaStays, SwitchStays, LockStays, FingersStay
  <2> HIDE DEF t
  <2>3. AroundStays(s, t) /\ LockStays(s, t) /\ FingersStay(s, t)
    BY <1>1, <2>2 DEF AroundStays, KeysStay, MediaStays, SwitchStays, LockStays, FingersStay
  <2>4. I!Available(t) = I!Available(s)
    BY <2>3 DEF AroundStays, SwitchStays, I!Available
  <2>5. ~(t.clicks = {} /\ t.grab # I!NoGrab) => DragsHold(t)
    BY <1>1, <1>2, <1>4, <2>2, <2>3, <2>4 DEF InputHolds, DragsHold, FingersStay
  <2>6. LockIsQuiet(t)
    BY <1>1, <2>2, <2>3 DEF InputHolds, LockIsQuiet, AroundStays, SwitchStays, LockStays, I!Active
  <2>7. /\ InputShape(e) /\ AroundStays(t, e) /\ LockStays(t, e) /\ FingersStay(t, e)
        /\ e.clicks = t.clicks /\ e.buttons = t.buttons /\ e.missed = t.missed
        /\ e.swallowed = t.swallowed /\ e.dropped = t.dropped
        /\ e.resizing = IF t.grab.kind = "resize" THEN t.resizing \ {t.grab.window} ELSE t.resizing
    <3>1. CASE t.grab.kind = "resize"
      <4> DEFINE r == t.resizing \ {t.grab.window}
      <4>1. e = [t EXCEPT !.resizing = r]
        BY <3>1 DEF I!EndResize
      <4>2. r = IF t.grab.kind = "resize" THEN t.resizing \ {t.grab.window} ELSE t.resizing
        BY <3>1
      <4> HIDE DEF r, e
      <4>3. e.resizing = r
        BY <2>2, <4>1 DEF InputShape
      <4>4. /\ InputShape(e) /\ AroundStays(t, e) /\ LockStays(t, e) /\ FingersStay(t, e)
            /\ e.clicks = t.clicks /\ e.buttons = t.buttons /\ e.missed = t.missed
            /\ e.swallowed = t.swallowed /\ e.dropped = t.dropped
        BY <2>2, <4>1 DEF InputShape, AroundStays, KeysStay, MediaStays, SwitchStays, LockStays, FingersStay
      <4> QED
        BY <4>2, <4>3, <4>4
    <3>2. CASE t.grab.kind # "resize"
      BY <2>2, <3>2 DEF I!EndResize, AroundStays, KeysStay, MediaStays, SwitchStays, LockStays, FingersStay
    <3> QED
      BY <3>1, <3>2
  <2> HIDE DEF e
  <2>8. /\ InputShape(u) /\ AroundStays(e, u) /\ LockStays(e, u) /\ FingersStay(e, u)
        /\ u.grab = I!NoGrab /\ u.clicks = e.clicks /\ u.buttons = e.buttons /\ u.missed = e.missed
        /\ u.swallowed = e.swallowed /\ u.resizing = e.resizing /\ u.dropped = e.dropped
    <3>1. I!NoGrab \in GrabRecord
      BY DEF I!NoGrab, GrabRecord
    <3> QED
      BY <2>7, <3>1 DEF InputShape, AroundStays, KeysStay, MediaStays, SwitchStays, LockStays, FingersStay
  <2> HIDE DEF u
  <2>9. AroundStays(s, u) /\ LockStays(s, u) /\ FingersStay(s, u)
    <3>1. AroundStays(s, u)
      BY <2>3, <2>7, <2>8 DEF AroundStays, KeysStay, MediaStays, SwitchStays
    <3>2. LockStays(s, u) /\ FingersStay(s, u)
      BY <2>3, <2>7, <2>8 DEF LockStays, FingersStay
    <3> QED
      BY <3>1, <3>2
  <2>10. I!Available(u) = I!Available(s)
    BY <2>9 DEF AroundStays, SwitchStays, I!Available
  <2>11. DragsHold(u)
    <3>1. u.resizing \subseteq s.resizing /\ u.dropped = s.dropped
      BY <1>1, <2>2, <2>7, <2>8
    <3>2. \A x \in u.resizing \ u.dropped : u.touch.kind = "resize" /\ u.touch.window = x
      <4>1. u.touch = s.touch
        BY <2>9 DEF FingersStay
      <4>2. \A x \in u.resizing : ~(s.grab.kind = "resize" /\ s.grab.window = x)
        BY <1>1, <2>2, <2>7, <2>8
      <4> QED
        BY <1>2, <3>1, <4>1, <4>2
    <3>3. u.swallowed \subseteq u.buttons \cup u.missed /\ u.clicks \subseteq u.buttons \cup u.missed
      BY <1>1, <1>2, <1>4, <2>2, <2>7, <2>8
    <3>4. u.grab = I!NoGrab
      BY <2>8
    <3> QED
      BY <1>2, <2>9, <2>10, <3>1, <3>2, <3>3, <3>4 DEF InputHolds, DragsHold, FingersStay
  <2>12. LockIsQuiet(u)
    BY <2>8, <2>9 DEF InputHolds, LockIsQuiet, AroundStays, SwitchStays, LockStays, I!Active, I!NoGrab
  <2> QED
    BY <2>1, <2>2, <2>3, <2>5, <2>6, <2>8, <2>9, <2>11, <2>12, DragsChange
<1> QED
  BY <1>3, <1>4

\* Every press and release of a button.
LEMMA ButtonsHold ==
    ASSUME InputHolds(in, worker), NEW b, NEW under, NEW border \in BOOLEAN, NEW full \in BOOLEAN,
           I!PressButton(b, under, border, full) \/ I!ReleaseButton(b)
    PROVE  InputHolds(in', worker')
<1>1. CASE I!PressButton(b, under, border, full)
  <2> DEFINE s == [in EXCEPT !.buttons = @ \cup {b}, !.missed = @ \ ({b} \ in.swallowed)]
             a == [s EXCEPT !.asleep = FALSE, !.woke = @ \cup {b}]
  <2>1. /\ worker' = worker /\ under \in I!Available(in) \cup {I!Layer, I!None}
        /\ IF s.asleep THEN in' = a ELSE in' \in I!ButtonPressed(s, b, under, border, full)
    BY <1>1 DEF I!PressButton
  <2>2. /\ InputShape(s) /\ AroundStays(in, s) /\ LockStays(in, s) /\ FingersStay(in, s)
        /\ s.grab = in.grab /\ s.clicks = in.clicks /\ s.buttons = in.buttons \cup {b}
        /\ s.missed = in.missed \ ({b} \ in.swallowed)
        /\ s.swallowed = in.swallowed /\ s.resizing = in.resizing /\ s.dropped = in.dropped
    BY DEF InputHolds, InputShape, AroundStays, KeysStay, MediaStays, SwitchStays, LockStays, FingersStay
  <2> HIDE DEF s
  <2>3. InputHolds(s, worker)
    <3>1. DragsHold(s)
      BY <2>2 DEF InputHolds, DragsHold, AroundStays, SwitchStays, I!Available, FingersStay
    <3>2. LockIsQuiet(s)
      BY <2>2 DEF InputHolds, LockIsQuiet, AroundStays, SwitchStays, LockStays, I!Active
    <3> QED
      BY <2>2, <3>1, <3>2, DragsChange
  <2>4. InputShape(a) /\ AroundStays(s, a) /\ LockStays(s, a) /\ DragsStay(s, a)
    BY <2>2 DEF InputShape, AroundStays, KeysStay, MediaStays, SwitchStays, LockStays, DragsStay
  <2> HIDE DEF a
  <2>5. InputHolds(a, worker)
    BY <2>3, <2>4, Staying DEF InputHolds, AroundStays, DragsStay, SwitchStays, KeysStay
  <2>6. b \in s.buttons /\ I!Available(s) = I!Available(in)
    BY <2>2 DEF AroundStays, SwitchStays, I!Available
  <2> QED
    BY <2>1, <2>3, <2>5, <2>6, ButtonPressedHolds
<1>2. CASE I!ReleaseButton(b)
  <2> DEFINE s == [in EXCEPT !.buttons = @ \ {b}, !.woke = @ \ {b}]
             a == [s EXCEPT !.asleep = FALSE, !.missed = @ \cup ({b} \cap (s.clicks \cup s.swallowed))]
  <2>1. in' = (IF s.asleep THEN a ELSE I!ButtonReleased(s, b)) /\ worker' = worker
    BY <1>2 DEF I!ReleaseButton
  <2>2. InputHolds(I!ButtonReleased(s, b), worker)
    BY ButtonReleasedHolds
  <2>3. /\ InputShape(s) /\ AroundStays(in, s) /\ LockStays(in, s) /\ FingersStay(in, s)
        /\ s.grab = in.grab /\ s.clicks = in.clicks /\ s.buttons = in.buttons \ {b} /\ s.missed = in.missed
        /\ s.swallowed = in.swallowed /\ s.resizing = in.resizing /\ s.dropped = in.dropped
    BY DEF InputHolds, InputShape, AroundStays, KeysStay, MediaStays, SwitchStays, LockStays, FingersStay
  <2> HIDE DEF s
  <2>4. /\ InputShape(a) /\ AroundStays(s, a) /\ LockStays(s, a) /\ FingersStay(s, a)
        /\ a.grab = s.grab /\ a.clicks = s.clicks /\ a.buttons = s.buttons
        /\ a.missed = s.missed \cup ({b} \cap (s.clicks \cup s.swallowed))
        /\ a.swallowed = s.swallowed /\ a.resizing = s.resizing /\ a.dropped = s.dropped
    BY <2>3 DEF InputShape, AroundStays, KeysStay, MediaStays, SwitchStays, LockStays, FingersStay
  <2> HIDE DEF a
  <2>5. AroundStays(in, a) /\ LockStays(in, a) /\ FingersStay(in, a)
    BY <2>3, <2>4 DEF AroundStays, KeysStay, MediaStays, SwitchStays, LockStays, FingersStay
  <2>6. DragsHold(a)
    BY <2>3, <2>4, <2>5 DEF InputHolds, DragsHold, AroundStays, SwitchStays, I!Available, FingersStay
  <2>7. LockIsQuiet(a)
    BY <2>3, <2>4, <2>5 DEF InputHolds, LockIsQuiet, AroundStays, SwitchStays, LockStays, I!Active
  <2> QED
    BY <2>1, <2>2, <2>4, <2>5, <2>6, <2>7, DragsChange
<1> QED
  BY <1>1, <1>2

\* A client asks for a drag, a drag finds its window gone, and the pointer moves.
LEMMA PointerHolds ==
    ASSUME InputHolds(in, worker), NEW x, NEW full \in BOOLEAN, NEW layer,
           I!MoveRequest(x) \/ I!ResizeRequest(x) \/ I!Motion \/ I!MovePointer(x, full, layer)
    PROVE  InputHolds(in', worker')
<1>1. /\ in.grab # I!NoGrab => in.clicks # {}
      /\ in.clicks \subseteq in.buttons \cup in.missed
      /\ in.swallowed \subseteq in.buttons \cup in.missed
      /\ in.resizing \subseteq I!Available(in)
      /\ \A y \in in.resizing \ in.dropped : \/ in.grab.kind = "resize" /\ in.grab.window = y
                                             \/ in.touch.kind = "resize" /\ in.touch.window = y
  BY DEF InputHolds, DragsHold
<1>2. in.grab \in GrabRecord /\ I!Available(in) \subseteq Wins
  BY StackHasWindows DEF InputHolds, InputShape
<1>3. CASE I!MoveRequest(x) \/ I!Motion
  <2> DEFINE move == [kind |-> "move", window |-> x]
             g == IF I!MoveRequest(x) THEN move ELSE I!NoGrab
             t == [in EXCEPT !.grab = g]
  <2>1. in' = t /\ worker' = worker
    BY <1>3 DEF I!MoveRequest, I!Motion
  <2>2. g \in GrabRecord /\ g.kind \in {"none", "move"} /\ (g # I!NoGrab => g.kind = "move" /\ I!MoveRequest(x))
    BY <1>2 DEF GrabRecord, I!NoGrab, I!MoveRequest
  <2>3. /\ I!MoveRequest(x) => in.grab.kind = "click" /\ x \in I!Available(in) /\ in.over = x
        /\ ~I!MoveRequest(x) => in.grab.window \notin I!Available(in)
    BY <1>3 DEF I!MoveRequest, I!Motion
  <2> HIDE DEF g
  <2>4. /\ InputShape(t) /\ AroundStays(in, t) /\ LockStays(in, t) /\ FingersStay(in, t)
        /\ t.grab = g /\ t.clicks = in.clicks /\ t.buttons = in.buttons /\ t.missed = in.missed
        /\ t.swallowed = in.swallowed /\ t.resizing = in.resizing /\ t.dropped = in.dropped
    BY <2>2 DEF InputHolds, InputShape, AroundStays, KeysStay, MediaStays, SwitchStays, LockStays, FingersStay
  <2> HIDE DEF t
  <2>5. I!Available(t) = I!Available(in)
    BY <2>4 DEF AroundStays, SwitchStays, I!Available
  <2>6. t.grab # I!NoGrab => t.clicks # {}
    BY <1>1, <2>2, <2>3, <2>4 DEF I!NoGrab
  <2>7. \A y \in t.resizing \ t.dropped : \/ t.grab.kind = "resize" /\ t.grab.window = y
                                          \/ t.touch.kind = "resize" /\ t.touch.window = y
    BY <1>1, <2>3, <2>4 DEF FingersStay
  <2>8. DragsHold(t)
    BY <1>1, <2>4, <2>5, <2>6, <2>7 DEF InputHolds, DragsHold, FingersStay
  <2>9. LockIsQuiet(t)
    BY <1>2, <2>2, <2>3, <2>4 DEF InputHolds, LockIsQuiet, AroundStays, SwitchStays, LockStays, I!Active, I!NoGrab
  <2> QED
    BY <2>1, <2>4, <2>8, <2>9, DragsChange
<1>4. CASE I!ResizeRequest(x)
  <2> DEFINE g == [kind |-> "resize", window |-> x]
             t == [in EXCEPT !.grab = g, !.resizing = @ \cup {x}, !.dropped = @ \ {x}]
  <2>1. in' = t /\ worker' = worker /\ in.grab.kind = "click" /\ x \in I!Available(in) /\ in.over = x
    BY <1>4 DEF I!ResizeRequest, I!StartFloatingResize
  <2>2. g \in GrabRecord /\ g.kind = "resize" /\ g.window = x
    BY <1>2, <2>1 DEF GrabRecord
  <2> HIDE DEF g
  <2>3. /\ InputShape(t) /\ AroundStays(in, t) /\ LockStays(in, t) /\ FingersStay(in, t)
        /\ t.grab = g /\ t.clicks = in.clicks /\ t.buttons = in.buttons /\ t.missed = in.missed
        /\ t.swallowed = in.swallowed /\ t.resizing = in.resizing \cup {x} /\ t.dropped = in.dropped \ {x}
    BY <2>2 DEF InputHolds, InputShape, AroundStays, KeysStay, MediaStays, SwitchStays, LockStays, FingersStay
  <2> HIDE DEF t
  <2>4. I!Available(t) = I!Available(in)
    BY <2>3 DEF AroundStays, SwitchStays, I!Available
  <2>5. in.clicks # {}
    BY <1>1, <2>1 DEF I!NoGrab
  <2>6. \A y \in t.resizing \ t.dropped : \/ t.grab.kind = "resize" /\ t.grab.window = y
                                          \/ t.touch.kind = "resize" /\ t.touch.window = y
    BY <1>1, <2>1, <2>2, <2>3 DEF FingersStay
  <2>7. DragsHold(t)
    BY <1>1, <2>1, <2>3, <2>4, <2>5, <2>6 DEF InputHolds, DragsHold, FingersStay
  <2>8. LockIsQuiet(t)
    BY <1>2, <2>1, <2>3 DEF InputHolds, LockIsQuiet, AroundStays, SwitchStays, LockStays, I!Active
  <2> QED
    BY <2>1, <2>3, <2>7, <2>8, DragsChange
<1>5. CASE I!MovePointer(x, full, layer)
  <2> DEFINE under == I!SurfaceUnder(in, x, full, layer)
             o == IF in.grab = I!NoGrab THEN under ELSE IF in.grab.kind = "click" THEN in.over ELSE I!None
             t == [in EXCEPT !.over = o]
  <2>1. in' = t /\ worker' = worker
    BY <1>5 DEF I!MovePointer
  <2>2. in.locked => o \in {I!Layer, I!None, in.over}
    BY DEF I!SurfaceUnder
  <2> HIDE DEF o
  <2>3. InputShape(t) /\ AroundStays(in, t) /\ DragsStay(in, t) /\ t.over = o /\ t.bar = in.bar
    BY DEF InputHolds, InputShape, AroundStays, KeysStay, MediaStays, SwitchStays, DragsStay
  <2> HIDE DEF t
  <2>4. DragsHold(t)
    BY <2>3, Staying DEF InputHolds, AroundStays, SwitchStays
  <2>5. LockIsQuiet(t)
    BY <2>2, <2>3, InputAssumption DEF InputHolds, LockIsQuiet, AroundStays, MediaStays, SwitchStays, DragsStay, I!Active
  <2> QED
    BY <2>1, <2>3, <2>4, <2>5, DragsChange
<1> QED
  BY <1>3, <1>4, <1>5

LEMMA ScrollHolds ==
    ASSUME InputHolds(in, worker), NEW amount, NEW tiling, I!Scroll(amount, tiling)
    PROVE  InputHolds(in', worker')
<1>1. PICK s, n : in' = [s EXCEPT !.scroll = n] /\ (s = in \/ \E x : s = I!ActivateWindow(in, x)) /\ worker' = worker
  <2> DEFINE against == in.scroll # 0 /\ (in.scroll > 0) # (amount > 0)
             sum == (IF against THEN 0 ELSE in.scroll) + amount
             n == IF sum > 1 THEN sum - 2 ELSE IF sum < -1 THEN sum + 2 ELSE sum
  <2>1. \/ in' = [in EXCEPT !.scroll = 0]
        \/ \E x \in I!Available(in) : \/ in' = [I!ActivateWindow(in, x) EXCEPT !.scroll = n]
                                      \/ in' = [in EXCEPT !.scroll = n]
    BY DEF I!Scroll
  <2>2. worker' = worker
    BY DEF I!Scroll
  <2> HIDE DEF n
  <2> QED
    BY <2>1, <2>2
<1>2. InputHolds(s, worker)
  BY <1>1, ActivateHolds
<1> DEFINE t == [s EXCEPT !.scroll = n]
<1>3. InputShape(t) /\ AroundStays(s, t) /\ DragsStay(s, t) /\ LockStays(s, t)
  BY <1>2 DEF InputHolds, InputShape, AroundStays, KeysStay, MediaStays, SwitchStays, DragsStay, LockStays
<1> HIDE DEF t
<1>4. DragsHold(t) /\ LockIsQuiet(t)
  BY <1>2, <1>3, Staying DEF InputHolds, AroundStays, SwitchStays, DragsStay
<1>5. InputHolds(t, worker)
  BY <1>2, <1>3, <1>4, DragsChange
<1> QED
  BY <1>1, <1>5 DEF t

-----------------------------------------------------------------------------
\* The rest of the drags does not look at the fingers.
GrabHolds(s) ==
    /\ s.grab # I!NoGrab => s.clicks # {}
    /\ s.clicks \subseteq s.buttons \cup s.missed
    /\ s.swallowed \subseteq s.buttons \cup s.missed
    /\ s.resizing \subseteq I!Available(s)
    /\ \A w \in s.resizing \ s.dropped : \/ s.grab.kind = "resize" /\ s.grab.window = w
                                         \/ s.touch.kind = "resize" /\ s.touch.window = w
TouchHolds(s) ==
    /\ IsFiniteSet(s.fingers)
    /\ s.touch.kind = "none" => s.touch = I!NoTouch
    /\ s.touch.kind = "down" => s.touch.points >= 1
    /\ s.touch.kind = "down" /\ ~s.lifted => s.touch.points \in 1..Cardinality(s.fingers)
    /\ s.touch.kind \in {"move", "resize"} /\ ~s.lifted => s.touch.slot \in s.fingers
    /\ s.touch.kind \in {"move", "resize"} => s.touch.on # I!Behind

LEMMA DragsHaveTwoSides == \A s : DragsHold(s) <=> GrabHolds(s) /\ TouchHolds(s)
  BY DEF DragsHold, GrabHolds, TouchHolds

\* A finger leaves the pointer's buttons and its grab alone.
GrabStays(s, t) ==
    /\ t.grab = s.grab /\ t.clicks = s.clicks /\ t.buttons = s.buttons /\ t.missed = s.missed
    /\ t.swallowed = s.swallowed

LEMMA NewTouch == I!NoTouch \in TouchRecord /\ I!NoTouch.kind = "none"
  BY DEF I!NoTouch, TouchRecord

\* A finger comes, goes or ends a resize: the window it ends is no longer
\* resized, or its resize counts as dropped.
LEMMA TouchChange ==
    ASSUME NEW s, NEW t, NEW w, InputHolds(s, w), InputShape(t), AroundStays(s, t), LockStays(s, t), GrabStays(s, t),
           TouchHolds(t), t.resizing \subseteq s.resizing,
           \A x \in t.resizing \ t.dropped : \/ s.touch = t.touch /\ x \notin s.dropped
                                             \/ x \notin s.dropped /\ ~(s.touch.kind = "resize" /\ s.touch.window = x)
    PROVE  InputHolds(t, w)
<1>1. GrabHolds(s)
  BY DragsHaveTwoSides DEF InputHolds
<1>2. GrabHolds(t)
  <2>1. \A x \in t.resizing \ t.dropped : \/ t.grab.kind = "resize" /\ t.grab.window = x
                                          \/ t.touch.kind = "resize" /\ t.touch.window = x
    BY <1>1 DEF GrabHolds, GrabStays
  <2>2. I!Available(t) = I!Available(s)
    BY DEF AroundStays, SwitchStays, I!Available
  <2> QED
    BY <1>1, <2>1, <2>2 DEF GrabHolds, GrabStays
<1>3. DragsHold(t)
  BY <1>2, DragsHaveTwoSides
<1>4. LockIsQuiet(t)
  BY Staying DEF InputHolds, AroundStays, GrabStays
<1> QED
  BY <1>3, <1>4, DragsChange

LEMMA TouchDownHolds ==
    ASSUME InputHolds(in, worker), NEW f \in Fingers, NEW under, NEW full, I!TouchDown(f, under, full)
    PROVE  InputHolds(in', worker')
<1> DEFINE s == [in EXCEPT !.fingers = @ \cup {f}]
           a == [s EXCEPT !.asleep = FALSE, !.lifted = TRUE]
           t == I!UpdateKeyboardFocus(s, under, full)
           on == IF t.locked THEN I!Behind ELSE under
           first == [kind |-> "down", window |-> I!None, slot |-> f, points |-> 1, on |-> on]
           b == [t EXCEPT !.touch = first]
           c == [t EXCEPT !.touch.points = @ + 1]
<1>0. on \in Wins \cup {I!None, I!Layer, I!Behind}
  BY StackHasWindows DEF I!TouchDown, InputHolds
<1>1. /\ worker' = worker /\ f \notin in.fingers
      /\ in' = IF s.asleep THEN a
               ELSE IF t.touch.kind = "none" THEN b ELSE IF t.touch.kind = "down" THEN c ELSE t
  BY DEF I!TouchDown
<1> HIDE DEF on
<1>2. /\ InputShape(s) /\ AroundStays(in, s) /\ LockStays(in, s) /\ GrabStays(in, s)
      /\ s.fingers = in.fingers \cup {f} /\ s.touch = in.touch /\ s.lifted = in.lifted
      /\ s.resizing = in.resizing /\ s.dropped = in.dropped
  BY DEF InputHolds, InputShape, AroundStays, KeysStay, MediaStays, SwitchStays, LockStays, GrabStays
<1> HIDE DEF s
<1>3. TouchHolds(in) /\ in.touch \in TouchRecord
  BY DragsHaveTwoSides DEF InputHolds, InputShape
<1>4. IsFiniteSet(s.fingers) /\ Cardinality(s.fingers) = Cardinality(in.fingers) + 1 /\ Cardinality(in.fingers) \in Nat
  BY <1>1, <1>2, <1>3, FS_AddElement, FS_CardinalityType DEF TouchHolds
<1>5. TouchHolds(s)
  BY <1>2, <1>3, <1>4 DEF TouchHolds, TouchRecord
<1>6. InputHolds(s, worker)
  BY <1>2, <1>5, TouchChange
<1>7. /\ InputShape(a) /\ AroundStays(s, a) /\ LockStays(s, a) /\ GrabStays(s, a)
      /\ a.fingers = s.fingers /\ a.touch = s.touch /\ a.lifted
      /\ a.resizing = s.resizing /\ a.dropped = s.dropped
  BY <1>2 DEF InputShape, AroundStays, KeysStay, MediaStays, SwitchStays, LockStays, GrabStays
<1> HIDE DEF a
<1>8. InputHolds(a, worker)
  <2>1. TouchHolds(a)
    BY <1>5, <1>7 DEF TouchHolds
  <2> QED
    BY <1>6, <1>7, <2>1, TouchChange
<1>9. InputHolds(t, worker) /\ DragsStay(s, t)
  BY <1>6, UpdateFocusHolds
<1> HIDE DEF t
<1>10. t.touch = in.touch /\ t.fingers = s.fingers /\ t.lifted = in.lifted
  BY <1>2, <1>9 DEF DragsStay
<1>11. CASE ~s.asleep /\ t.touch.kind = "none"
  <2>1. first \in TouchRecord /\ first.kind = "down" /\ first.points = 1
    BY <1>0 DEF TouchRecord
  <2> HIDE DEF first
  <2>2. /\ InputShape(b) /\ AroundStays(t, b) /\ LockStays(t, b) /\ GrabStays(t, b)
        /\ b.fingers = t.fingers /\ b.touch = first /\ b.lifted = t.lifted
        /\ b.resizing = t.resizing /\ b.dropped = t.dropped
    BY <1>9, <2>1 DEF InputHolds, InputShape, AroundStays, KeysStay, MediaStays, SwitchStays, LockStays, GrabStays
  <2> HIDE DEF b
  <2>3. TouchHolds(b)
    BY <1>4, <1>10, <2>1, <2>2 DEF TouchHolds
  <2>4. t.touch.kind # "resize"
    BY <1>11
  <2>5. InputHolds(b, worker)
    BY <1>9, <2>2, <2>3, <2>4, TouchChange
  <2> QED
    BY <1>1, <1>11, <2>5
<1>12. CASE ~s.asleep /\ t.touch.kind = "down"
  <2> DEFINE more == [in.touch EXCEPT !.points = @ + 1]
  <2>1. more \in TouchRecord /\ more.kind = "down" /\ more.points = in.touch.points + 1
    BY <1>3, <1>10, <1>12 DEF TouchRecord
  <2>0. c = [t EXCEPT !.touch = more]
    BY <1>10
  <2> HIDE DEF more, c
  <2>2. /\ InputShape(c) /\ AroundStays(t, c) /\ LockStays(t, c) /\ GrabStays(t, c)
        /\ c.fingers = t.fingers /\ c.touch = more /\ c.lifted = t.lifted
        /\ c.resizing = t.resizing /\ c.dropped = t.dropped
    BY <1>9, <2>0, <2>1 DEF InputHolds, InputShape, AroundStays, KeysStay, MediaStays, SwitchStays, LockStays, GrabStays
  <2>3. TouchHolds(c)
    <3>1. in.touch.points \in Nat
      BY <1>3 DEF TouchRecord
    <3> QED
      BY <1>3, <1>4, <1>10, <1>12, <2>1, <2>2, <3>1 DEF TouchHolds
  <2>4. t.touch.kind # "resize"
    BY <1>12
  <2>5. InputHolds(c, worker)
    BY <1>9, <2>2, <2>3, <2>4, TouchChange
  <2> QED
    BY <1>1, <1>12, <2>5
<1> HIDE DEF b, c
<1> QED
  BY <1>1, <1>8, <1>9, <1>11, <1>12

LEMMA TouchUpHolds ==
    ASSUME InputHolds(in, worker), NEW f \in Fingers, I!TouchUp(f)
    PROVE  InputHolds(in', worker')
<1> DEFINE s == [in EXCEPT !.fingers = @ \ {f}]
           a == [s EXCEPT !.asleep = FALSE, !.lifted = TRUE]
           b == [s EXCEPT !.touch = I!NoTouch]
           c == [s EXCEPT !.touch.points = @ - 1]
           e == I!EndTouchResize(s)
           d == [e EXCEPT !.touch = I!NoTouch]
<1>1. /\ worker' = worker /\ f \in in.fingers
      /\ in' = IF s.asleep THEN a
               ELSE IF s.touch.kind = "down" THEN (IF s.touch.points = 1 THEN b ELSE c)
               ELSE IF s.touch.kind \in {"move", "resize"} /\ s.touch.slot = f THEN d ELSE s
  BY DEF I!TouchUp
<1>2. /\ InputShape(s) /\ AroundStays(in, s) /\ LockStays(in, s) /\ GrabStays(in, s)
      /\ s.fingers = in.fingers \ {f} /\ s.touch = in.touch /\ s.lifted = in.lifted
      /\ s.resizing = in.resizing /\ s.dropped = in.dropped
  BY DEF InputHolds, InputShape, AroundStays, KeysStay, MediaStays, SwitchStays, LockStays, GrabStays
<1> HIDE DEF s
<1>3. TouchHolds(in) /\ in.touch \in TouchRecord
  BY DragsHaveTwoSides DEF InputHolds, InputShape
<1>4. IsFiniteSet(s.fingers) /\ Cardinality(s.fingers) = Cardinality(in.fingers) - 1 /\ Cardinality(in.fingers) \in Nat
  BY <1>1, <1>2, <1>3, FS_RemoveElement, FS_CardinalityType DEF TouchHolds
<1>5. CASE s.asleep
  <2>1. /\ InputShape(a) /\ AroundStays(s, a) /\ LockStays(s, a) /\ GrabStays(s, a)
        /\ a.fingers = s.fingers /\ a.touch = s.touch /\ a.lifted
        /\ a.resizing = s.resizing /\ a.dropped = s.dropped
    BY <1>2 DEF InputShape, AroundStays, KeysStay, MediaStays, SwitchStays, LockStays, GrabStays
  <2> HIDE DEF a
  <2>2. TouchHolds(a)
    BY <1>2, <1>3, <1>4, <2>1 DEF TouchHolds
  <2>3. AroundStays(in, a) /\ LockStays(in, a) /\ GrabStays(in, a)
    BY <1>2, <2>1 DEF AroundStays, KeysStay, MediaStays, SwitchStays, LockStays, GrabStays
  <2>4. InputHolds(a, worker)
    BY <1>2, <2>1, <2>2, <2>3, TouchChange
  <2> QED
    BY <1>1, <1>5, <2>4
<1>6. CASE ~s.asleep /\ s.touch.kind = "down"
  <2> DEFINE less == [in.touch EXCEPT !.points = @ - 1]
             n == IF s.touch.points = 1 THEN I!NoTouch ELSE less
             u == [s EXCEPT !.touch = n]
  <2>0. in.touch.points \in Nat /\ in.touch.points >= 1
    BY <1>2, <1>3, <1>6 DEF TouchRecord, TouchHolds
  <2>1. s.touch.points # 1 => less \in TouchRecord /\ less.kind = "down" /\ less.points = in.touch.points - 1 /\ less.points >= 1
    BY <1>2, <1>3, <1>6, <2>0 DEF TouchRecord
  <2>2. in' = u
    BY <1>1, <1>2, <1>6
  <2>3. n \in TouchRecord
    BY <2>1, NewTouch
  <2> HIDE DEF n, less
  <2>4. /\ InputShape(u) /\ AroundStays(s, u) /\ LockStays(s, u) /\ GrabStays(s, u)
        /\ u.fingers = s.fingers /\ u.touch = n /\ u.lifted = s.lifted
        /\ u.resizing = s.resizing /\ u.dropped = s.dropped
    BY <1>2, <2>3 DEF InputShape, AroundStays, KeysStay, MediaStays, SwitchStays, LockStays, GrabStays
  <2> HIDE DEF u
  <2>5. TouchHolds(u)
    <3>1. CASE s.touch.points = 1
      BY <1>4, <2>4, <3>1, NewTouch DEF TouchHolds, n
    <3>2. CASE s.touch.points # 1
      BY <1>2, <1>3, <1>4, <1>6, <2>0, <2>1, <2>4, <3>2 DEF TouchHolds, n
    <3> QED
      BY <3>1, <3>2
  <2>6. AroundStays(in, u) /\ LockStays(in, u) /\ GrabStays(in, u)
    BY <1>2, <2>4 DEF AroundStays, KeysStay, MediaStays, SwitchStays, LockStays, GrabStays
  <2>7. in.touch.kind # "resize"
    BY <1>2, <1>6
  <2>8. InputHolds(u, worker)
    BY <1>2, <2>4, <2>5, <2>6, <2>7, TouchChange
  <2> QED
    BY <1>1, <2>2, <2>8
<1>7. CASE ~s.asleep /\ s.touch.kind \in {"move", "resize"} /\ s.touch.slot = f
  <2> DEFINE r == IF s.touch.kind = "resize" THEN s.resizing \ {s.touch.window} ELSE s.resizing
  <2>1. /\ InputShape(e) /\ AroundStays(s, e) /\ LockStays(s, e) /\ GrabStays(s, e)
        /\ e.fingers = s.fingers /\ e.lifted = s.lifted
        /\ e.resizing = r /\ e.dropped = s.dropped
    <3>1. CASE s.touch.kind = "resize"
      <4>1. e = [s EXCEPT !.resizing = r]
        BY <3>1 DEF I!EndTouchResize
      <4> HIDE DEF r, e
      <4> QED
        BY <1>2, <4>1 DEF InputShape, AroundStays, KeysStay, MediaStays, SwitchStays, LockStays, GrabStays
    <3>2. CASE s.touch.kind # "resize"
      BY <1>2, <3>2 DEF I!EndTouchResize, AroundStays, KeysStay, MediaStays, SwitchStays, LockStays, GrabStays
    <3> QED
      BY <3>1, <3>2
  <2> HIDE DEF e
  <2>2. /\ InputShape(d) /\ AroundStays(e, d) /\ LockStays(e, d) /\ GrabStays(e, d)
        /\ d.fingers = e.fingers /\ d.touch = I!NoTouch /\ d.lifted = e.lifted
        /\ d.resizing = e.resizing /\ d.dropped = e.dropped
    BY <2>1, NewTouch DEF InputShape, AroundStays, KeysStay, MediaStays, SwitchStays, LockStays, GrabStays
  <2> HIDE DEF d
  <2>3. TouchHolds(d)
    BY <1>4, <2>1, <2>2, NewTouch DEF TouchHolds
  <2>4. AroundStays(in, d) /\ LockStays(in, d) /\ GrabStays(in, d)
    BY <1>2, <2>1, <2>2 DEF AroundStays, KeysStay, MediaStays, SwitchStays, LockStays, GrabStays
  <2>5. /\ d.resizing \subseteq in.resizing /\ d.dropped = in.dropped
        /\ \A x \in d.resizing : ~(in.touch.kind = "resize" /\ in.touch.window = x)
    BY <1>2, <2>1, <2>2
  <2>6. InputHolds(d, worker)
    BY <2>2, <2>3, <2>4, <2>5, TouchChange
  <2> QED
    BY <1>1, <1>7, <2>6
<1>8. CASE ~s.asleep /\ s.touch.kind # "down" /\ ~(s.touch.kind \in {"move", "resize"} /\ s.touch.slot = f)
  <2>1. TouchHolds(s)
    BY <1>2, <1>3, <1>4, <1>8 DEF TouchHolds
  <2>2. InputHolds(s, worker)
    BY <1>2, <2>1, TouchChange
  <2> QED
    BY <1>1, <1>8, <2>2
<1> QED
  BY <1>5, <1>6, <1>7, <1>8

LEMMA TouchEnds ==
    ASSUME InputHolds(in, worker), I!TouchCancel \/ I!TouchMotion
    PROVE  InputHolds(in', worker')
<1>1. TouchHolds(in) /\ GrabHolds(in)
  BY DragsHaveTwoSides DEF InputHolds
<1>2. CASE I!TouchCancel
  <2> DEFINE gone == IF in.touch.kind = "resize" THEN {in.touch.window} \cap in.resizing ELSE {}
             t == [in EXCEPT !.fingers = {}, !.touch = I!NoTouch, !.dropped = @ \cup gone]
  <2>1. in' = t /\ worker' = worker
    BY <1>2 DEF I!TouchCancel
  <2>2. \A x \in in.resizing \ gone : ~(in.touch.kind = "resize" /\ in.touch.window = x)
    OBVIOUS
  <2> HIDE DEF gone
  <2>3. /\ InputShape(t) /\ AroundStays(in, t) /\ LockStays(in, t) /\ GrabStays(in, t)
        /\ t.fingers = {} /\ t.touch = I!NoTouch
        /\ t.resizing = in.resizing /\ t.dropped = in.dropped \cup gone
    BY NewTouch DEF InputHolds, InputShape, AroundStays, KeysStay, MediaStays, SwitchStays, LockStays, GrabStays
  <2> HIDE DEF t
  <2>4. TouchHolds(t)
    BY <2>3, NewTouch, FS_EmptySet DEF TouchHolds
  <2>5. \A x \in t.resizing \ t.dropped : x \notin in.dropped /\ ~(in.touch.kind = "resize" /\ in.touch.window = x)
    BY <2>2, <2>3
  <2> QED
    BY <2>1, <2>3, <2>4, <2>5, TouchChange
<1>3. CASE I!TouchMotion
  <2> DEFINE t == [in EXCEPT !.touch = I!NoTouch]
  <2>1. in' = t /\ worker' = worker /\ in.touch.window \notin I!Available(in)
    BY <1>3 DEF I!TouchMotion
  <2>2. /\ InputShape(t) /\ AroundStays(in, t) /\ LockStays(in, t) /\ GrabStays(in, t)
        /\ t.fingers = in.fingers /\ t.touch = I!NoTouch
        /\ t.resizing = in.resizing /\ t.dropped = in.dropped
    BY NewTouch DEF InputHolds, InputShape, AroundStays, KeysStay, MediaStays, SwitchStays, LockStays, GrabStays
  <2> HIDE DEF t
  <2>3. TouchHolds(t)
    BY <1>1, <2>2, NewTouch DEF TouchHolds
  <2>4. \A x \in t.resizing \ t.dropped : x \notin in.dropped /\ ~(in.touch.kind = "resize" /\ in.touch.window = x)
    BY <1>1, <2>1, <2>2 DEF GrabHolds
  <2> QED
    BY <2>1, <2>2, <2>3, <2>4, TouchChange
<1> QED
  BY <1>2, <1>3

LEMMA TouchRequestHolds ==
    ASSUME InputHolds(in, worker), NEW x, NEW kind \in {"move", "resize"}, I!TouchRequest(x, kind)
    PROVE  InputHolds(in', worker')
<1> DEFINE g == [in.touch EXCEPT !.kind = kind, !.window = x]
           l == in.lifted \/ in.touch.slot \notin in.fingers
           r == IF kind = "resize" THEN in.resizing \cup {x} ELSE in.resizing
           d == IF kind = "resize" THEN in.dropped \ {x} ELSE in.dropped
           t == [in EXCEPT !.touch = g, !.lifted = l, !.resizing = r, !.dropped = d]
<1>1. in.touch.kind = "down" /\ x \in I!Available(in) /\ in.touch.on = x /\ in' = t /\ worker' = worker
  BY DEF I!TouchRequest
<1>2. TouchHolds(in) /\ GrabHolds(in) /\ in.touch \in TouchRecord /\ x \in Wins
  BY <1>1, DragsHaveTwoSides, StackHasWindows DEF InputHolds, InputShape
<1>3. g \in TouchRecord /\ g.kind = kind /\ g.window = x /\ g.slot = in.touch.slot /\ g.on # I!Behind
  BY <1>1, <1>2, InputAssumption DEF TouchRecord
<1>4. ~l => in.touch.slot \in in.fingers
  OBVIOUS
<1>5. /\ \A y \in r : y \in in.resizing \/ (y = x /\ kind = "resize")
      /\ \A y \in r \ d : (y \in in.resizing \ in.dropped) \/ (y = x /\ kind = "resize")
  OBVIOUS
<1> HIDE DEF g, l, r, d
<1>6. /\ InputShape(t) /\ AroundStays(in, t) /\ LockStays(in, t) /\ GrabStays(in, t)
      /\ t.fingers = in.fingers /\ t.touch = g /\ t.lifted = l /\ t.resizing = r /\ t.dropped = d
  BY <1>3 DEF InputHolds, InputShape, AroundStays, KeysStay, MediaStays, SwitchStays, LockStays, GrabStays
<1> HIDE DEF t
<1>7. TouchHolds(t)
  BY <1>2, <1>3, <1>4, <1>6 DEF TouchHolds
<1>8. GrabHolds(t)
  <2>1. I!Available(t) = I!Available(in)
    BY <1>6 DEF AroundStays, SwitchStays, I!Available
  <2>2. t.resizing \subseteq I!Available(t)
    BY <1>1, <1>2, <1>5, <1>6, <2>1 DEF GrabHolds
  <2>3. \A y \in t.resizing \ t.dropped : \/ t.grab.kind = "resize" /\ t.grab.window = y
                                          \/ t.touch.kind = "resize" /\ t.touch.window = y
    BY <1>1, <1>2, <1>3, <1>5, <1>6 DEF GrabHolds, GrabStays
  <2> QED
    BY <1>2, <1>6, <2>2, <2>3 DEF GrabHolds, GrabStays
<1>9. DragsHold(t) /\ LockIsQuiet(t)
  BY <1>6, <1>7, <1>8, DragsHaveTwoSides, Staying DEF InputHolds, AroundStays, GrabStays
<1> QED
  BY <1>1, <1>6, <1>9, DragsChange

-----------------------------------------------------------------------------
LEMMA OpenHolds ==
    ASSUME InputHolds(in, worker), NEW x \in Wins, I!Open(x)
    PROVE  InputHolds(in', worker')
<1> DEFINE q == <<x>> \o in.stack
           s == [in EXCEPT !.stack = q]
           t == I!ActivateWindow(s, x)
<1>1. in' = t /\ worker' = worker /\ x \notin I!Available(in)
  BY DEF I!Open
<1>2. q \in Seq(Wins) /\ I!ToSet(q) = I!Available(in) \cup {x}
  BY InFront DEF InputHolds, InputShape, I!Available
<1> HIDE DEF q
<1>3. /\ InputShape(s) /\ KeysStay(in, s) /\ MediaStays(in, s) /\ DragsStay(in, s) /\ LockStays(in, s)
      /\ s.slipped = in.slipped /\ s.focus = in.focus /\ s.sel = in.sel /\ s.stack = q /\ s.through = in.through
  BY <1>2 DEF InputHolds, InputShape, KeysStay, MediaStays, DragsStay, LockStays
<1> HIDE DEF s
<1>4. I!Available(s) = I!Available(in) \cup {x}
  BY <1>2, <1>3 DEF I!Available
<1>5. /\ InputShape(t) /\ RestStays(s, t)
      /\ I!Available(t) = I!Available(s)
      /\ t.focus = IF s.locked \/ x \notin I!Available(s) THEN s.focus ELSE x
      /\ SameSwitch(s, t)
      /\ I!Active(t) /\ ~s.locked /\ x \in I!Available(s) => s.focus = x \/ I!Selected(s) = x
  BY <1>3, ActivateKeeps
<1> HIDE DEF t
<1>6. KeysKept(s, {}) /\ MediaFollows(s, worker) /\ DragsHold(s)
  <2>1. KeysKept(s, {}) /\ MediaFollows(s, worker)
    BY <1>3, Staying DEF InputHolds
  <2>2. DragsHold(s)
    BY <1>3, <1>4 DEF InputHolds, DragsHold, DragsStay
  <2> QED
    BY <2>1, <2>2
<1>7. KeysKept(t, {}) /\ MediaFollows(t, worker) /\ DragsHold(t)
  BY <1>5, <1>6, FocusTurns
<1>8. I!Active(s) <=> I!Active(in)
  BY <1>3 DEF I!Active
<1>9. s.locked = in.locked /\ s.over = in.over /\ s.bar = in.bar /\ s.grab = in.grab
  BY <1>3 DEF LockStays, DragsStay
<1>10. LockIsQuiet(t)
  BY <1>3, <1>5, <1>8, <1>9 DEF InputHolds, LockIsQuiet, RestStays, SameSwitch
<1>11. ModifierIsHeld(t)
  BY <1>3, <1>5, <1>8 DEF InputHolds, ModifierIsHeld, RestStays, SameSwitch, KeysStay
<1>12. FocusShows(t)
  <2> SUFFICES ASSUME I!Active(t) PROVE t.focus = I!Selected(t) \/ I!Selected(t) \notin I!Available(t)
    BY DEF FocusShows
  <2>1. I!Active(in) /\ ~s.locked /\ I!Selected(t) = I!Selected(in) /\ I!Selected(s) = I!Selected(in)
    BY <1>3, <1>5, <1>8, <1>9 DEF SameSwitch, InputHolds, LockIsQuiet, I!Selected
  <2>2. t.focus = x /\ (in.focus = x \/ I!Selected(in) = x)
    BY <1>3, <1>4, <1>5, <2>1
  <2>3. in.focus = I!Selected(in) \/ I!Selected(in) \notin I!Available(in)
    BY <2>1 DEF InputHolds, FocusShows
  <2> QED
    BY <1>4, <1>5, <2>1, <2>2, <2>3
<1> QED
  BY <1>1, <1>5, <1>7, <1>10, <1>11, <1>12 DEF InputHolds

\* The end of a turn gives no window the keyboard of a locked session.
LEMMA PassHolds ==
    ASSUME NEW s, NEW w, InputHolds(s, w)
    PROVE  LET t == I!PassFocus(s)
           IN  InputHolds(t, w) /\ t.locked = s.locked /\ (s.locked => t.focus \notin Wins)
<1> DEFINE top == IF s.locked \/ s.stack = <<>> THEN I!None ELSE Head(s.stack)
           t == I!SetFocus(s, top)
<1>1. I!PassFocus(s) = t
  BY DEF I!PassFocus
<1>2. s.locked => top \notin Wins
  BY InputAssumption
<1> HIDE DEF top
<1>3. InputHolds(t, w)
  BY <1>2, SetFocusHolds DEF InputHolds
<1>4. t.focus = top /\ t.locked = s.locked
  BY SetFocusKeeps DEF InputHolds, RestStays
<1> QED
  BY <1>1, <1>2, <1>3, <1>4

LEMMA RefreshHolds ==
    ASSUME NEW s, NEW w, InputHolds(s, w)
    PROVE  LET t == I!RefreshFocus(s)
           IN  InputHolds(t, w) /\ t.locked = s.locked /\ (s.locked => t.focus \notin Wins)
<1>1. I!MayKeepFocus(s) /\ s.locked => s.focus \notin Wins
  BY InputAssumption DEF I!MayKeepFocus
<1> QED
  BY <1>1, PassHolds DEF I!RefreshFocus

LEMMA TurnEndsHolds ==
    ASSUME InputHolds(in, worker), I!TurnEnds
    PROVE  InputHolds(in', worker')
<1> DEFINE s == I!RefreshFocus(in)
           t == [s EXCEPT !.through = I!None]
<1>1. in' = t /\ worker' = worker
  BY DEF I!TurnEnds
<1>2. InputHolds(s, worker) /\ s.locked = in.locked /\ (in.locked => s.focus \notin Wins)
  BY RefreshHolds
<1> HIDE DEF s
<1>3. /\ InputShape(t) /\ KeysStay(s, t) /\ MediaStays(s, t) /\ DragsStay(s, t) /\ LockStays(s, t)
      /\ t.slipped = s.slipped /\ t.sel = s.sel /\ t.focus = s.focus /\ t.stack = s.stack
  BY <1>2 DEF InputHolds, InputShape, KeysStay, MediaStays, DragsStay, LockStays
<1> HIDE DEF t
<1>4. KeysKept(t, {}) /\ MediaFollows(t, worker) /\ DragsHold(t)
  BY <1>2, <1>3, Staying DEF InputHolds
<1>5. LockIsQuiet(t)
  BY <1>2, <1>3 DEF InputHolds, LockIsQuiet, LockStays, DragsStay, I!Active
<1>6. FocusShows(t) /\ ModifierIsHeld(t)
  BY <1>2, <1>3 DEF InputHolds, FocusShows, ModifierIsHeld, KeysStay, I!Active, I!Selected, I!Available
<1> QED
  BY <1>1, <1>3, <1>4, <1>5, <1>6 DEF InputHolds

LEMMA CloseHolds ==
    ASSUME InputHolds(in, worker), NEW x, I!Close(x)
    PROVE  InputHolds(in', worker')
<1> DEFINE q == I!Without(in.stack, x)
           o == IF in.over = x THEN I!None ELSE in.over
           g == [in.touch EXCEPT !.on = IF in.touch.on = x THEN I!None ELSE in.touch.on]
           s == [in EXCEPT !.stack = q, !.over = o, !.touch = g, !.resizing = @ \ {x}, !.dropped = @ \ {x}]
<1>1. in' = I!RefreshFocus(s) /\ worker' = worker /\ x \in I!Available(in)
  BY DEF I!Close
<1>2. /\ q \in Seq(Wins) /\ I!ToSet(q) \subseteq I!Available(in) /\ I!Available(in) \subseteq I!ToSet(q) \cup {x}
  BY <1>1, WithoutKeeps DEF InputHolds, InputShape, I!Available
<1>3. in.over \notin Wins => o \notin Wins
  BY InputAssumption
<1>14. in.touch \in TouchRecord
  BY DEF InputHolds, InputShape
<1>0. g \in TouchRecord /\ g.kind = in.touch.kind /\ g.window = in.touch.window /\ g.slot = in.touch.slot
      /\ g.points = in.touch.points /\ (in.touch.on # I!Behind => g.on # I!Behind)
      /\ (in.touch = I!NoTouch => g = I!NoTouch)
  <2>1. g.kind = in.touch.kind /\ g.window = in.touch.window /\ g.slot = in.touch.slot /\ g.points = in.touch.points
    BY <1>14 DEF TouchRecord
  <2>2. g.on = IF in.touch.on = x THEN I!None ELSE in.touch.on
    BY <1>14 DEF TouchRecord
  <2>3. g \in TouchRecord
    BY <1>14 DEF TouchRecord, I!None
  <2>4. in.touch = I!NoTouch => g = I!NoTouch
    BY DEF I!NoTouch, I!None
  <2> HIDE DEF g
  <2>5. in.touch.on # I!Behind => g.on # I!Behind
    BY <2>2 DEF I!None, I!Behind
  <2> QED
    BY <2>1, <2>3, <2>4, <2>5
<1> HIDE DEF q, o, g
<1>4. /\ InputShape(s) /\ KeysStay(in, s) /\ MediaStays(in, s)
      /\ s.slipped = in.slipped /\ s.focus = in.focus /\ s.through = in.through /\ s.sel = in.sel /\ s.stack = q
      /\ s.over = o /\ s.bar = in.bar /\ s.grab = in.grab
  BY <1>0, <1>2 DEF InputHolds, InputShape, KeysStay, MediaStays
<1>5. /\ s.clicks = in.clicks /\ s.buttons = in.buttons /\ s.missed = in.missed /\ s.swallowed = in.swallowed
      /\ s.resizing = in.resizing \ {x} /\ s.dropped = in.dropped \ {x}
      /\ s.fingers = in.fingers /\ s.touch = g /\ s.lifted = in.lifted
  BY DEF InputHolds, InputShape
<1> HIDE DEF s
<1>6. I!Available(s) \subseteq I!Available(in) /\ I!Available(in) \subseteq I!Available(s) \cup {x}
  BY <1>2, <1>4 DEF I!Available
<1>7. KeysKept(s, {}) /\ MediaFollows(s, worker)
  BY <1>4, Staying DEF InputHolds
<1>8. DragsHold(s)
  <2>1. TouchHolds(s)
    BY <1>0, <1>5, DragsHaveTwoSides DEF InputHolds, TouchHolds
  <2>2. GrabHolds(s)
    <3>1. GrabHolds(in)
      BY DragsHaveTwoSides DEF InputHolds
    <3> QED
      BY <1>0, <1>4, <1>5, <1>6, <3>1 DEF GrabHolds
  <2> QED
    BY <2>1, <2>2, DragsHaveTwoSides
<1>9. (I!Active(s) <=> I!Active(in)) /\ (I!Active(s) => I!Selected(s) = I!Selected(in))
  BY <1>4 DEF I!Active, I!Selected
<1>10. LockIsQuiet(s)
  BY <1>3, <1>4, <1>9 DEF InputHolds, LockIsQuiet, MediaStays
<1>11. FocusShows(s)
  BY <1>4, <1>6, <1>9 DEF InputHolds, FocusShows
<1>12. ModifierIsHeld(s)
  BY <1>4, <1>9 DEF InputHolds, ModifierIsHeld, KeysStay
<1>13. InputHolds(s, worker)
  BY <1>4, <1>7, <1>8, <1>10, <1>11, <1>12 DEF InputHolds
<1> QED
  BY <1>1, <1>13, RefreshHolds

LEMMA AroundHolds ==
    ASSUME InputHolds(in, worker), NEW layer,
           \/ I!Lock \/ I!Unlock \/ I!Sleep \/ I!PauseSession \/ I!LayerChanges(layer)
           \/ I!WorkerReads \/ I!WorkerRepeats
    PROVE  InputHolds(in', worker')
<1>1. CASE I!Lock
  BY <1>1, SetLockedHolds DEF I!Lock
<1>2. CASE I!Unlock
  <2> DEFINE t == [in EXCEPT !.locked = FALSE]
  <2>1. in' = t /\ worker' = worker
    BY <1>2 DEF I!Unlock
  <2>2. /\ InputShape(t) /\ KeysStay(in, t) /\ DragsStay(in, t) /\ SwitchStays(in, t)
        /\ t.slipped = in.slipped /\ ~t.locked /\ t.sent = in.sent /\ t.held = in.held
    BY DEF InputHolds, InputShape, KeysStay, DragsStay, SwitchStays
  <2> HIDE DEF t
  <2>3. KeysKept(t, {}) /\ DragsHold(t) /\ FocusShows(t) /\ ModifierIsHeld(t)
    BY <2>2, Staying DEF InputHolds, KeysStay, SwitchStays
  <2>4. MediaFollows(t, worker) /\ LockIsQuiet(t)
    BY <2>2 DEF InputHolds, MediaFollows, LockIsQuiet
  <2> QED
    BY <2>1, <2>2, <2>3, <2>4 DEF InputHolds
<1>3. CASE I!Sleep
  <2> DEFINE t == [in EXCEPT !.asleep = TRUE, !.naps = @ + 1]
  <2>1. in' = t /\ worker' = worker
    BY <1>3 DEF I!Sleep
  <2>2. InputShape(t) /\ AroundStays(in, t) /\ DragsStay(in, t) /\ LockStays(in, t)
    BY DEF InputHolds, InputShape, AroundStays, KeysStay, MediaStays, SwitchStays, DragsStay, LockStays
  <2> HIDE DEF t
  <2>3. DragsHold(t) /\ LockIsQuiet(t)
    BY <2>2, Staying DEF InputHolds, AroundStays, SwitchStays, DragsStay
  <2> QED
    BY <2>1, <2>2, <2>3, DragsChange
<1>4. CASE I!PauseSession
  <2> DEFINE o == [in EXCEPT !.locked = FALSE]
             t == I!MediaRelease(in, in.held)
  <2>1. in' = t /\ worker' = worker /\ in.held # I!NoKey
    BY <1>4 DEF I!PauseSession, I!MediaStop
  <2>2. o.sent = in.sent /\ o.held = in.held /\ ~o.locked
    BY DEF InputHolds, InputShape
  <2> HIDE DEF o
  <2>3. MediaFollows(o, worker)
    BY <2>2 DEF InputHolds, MediaFollows
  <2>4. /\ InputShape(t) /\ MediaFollows(t, worker)
        /\ KeysStay(in, t) /\ DragsStay(in, t) /\ LockStays(in, t) /\ SwitchStays(in, t) /\ t.slipped = in.slipped
    BY <2>1, <2>3, MediaReleaseKeeps DEF InputHolds, o
  <2> HIDE DEF t
  <2>5. KeysKept(t, {}) /\ DragsHold(t) /\ LockIsQuiet(t) /\ FocusShows(t) /\ ModifierIsHeld(t)
    BY <2>4, Staying DEF InputHolds, KeysStay, DragsStay, SwitchStays
  <2> QED
    BY <2>1, <2>4, <2>5 DEF InputHolds
<1>5. CASE I!LayerChanges(layer)
  <2> DEFINE t == [in EXCEPT !.exclusive = layer]
  <2>1. in' = (IF layer = I!None /\ in.focus = I!Layer THEN I!PassFocus(t) ELSE t) /\ worker' = worker
    BY <1>5 DEF I!LayerChanges
  <2>2. InputShape(t) /\ AroundStays(in, t) /\ DragsStay(in, t) /\ LockStays(in, t)
    BY DEF InputHolds, InputShape, AroundStays, KeysStay, MediaStays, SwitchStays, DragsStay, LockStays
  <2> HIDE DEF t
  <2>3. DragsHold(t) /\ LockIsQuiet(t)
    BY <2>2, Staying DEF InputHolds, AroundStays, SwitchStays, DragsStay
  <2>4. InputHolds(t, worker)
    BY <2>2, <2>3, DragsChange
  <2>5. InputHolds(I!PassFocus(t), worker)
    BY <2>4, PassHolds
  <2> QED
    BY <2>1, <2>4, <2>5
<1>6. CASE I!WorkerReads
  <2> DEFINE q == Tail(in.sent)
             m == Head(in.sent)
             t == [in EXCEPT !.sent = q]
  <2>1. /\ in' = t /\ in.sent # <<>>
        /\ m.press => worker' \in {m.key, I!NoKey}
        /\ ~m.press => worker' = IF worker = m.key THEN I!NoKey ELSE worker
    BY <1>6 DEF I!WorkerReads
  <2>2. /\ in.sent \in Seq(Messages) /\ in.held \in {I!NoKey, "Volume"} /\ worker \in {I!NoKey, "Volume"}
        /\ in.held = IF in.sent[Len(in.sent)].press THEN "Volume" ELSE I!NoKey
        /\ in.locked => in.held = I!NoKey
    BY <2>1 DEF InputHolds, MediaFollows
  <2>3. /\ q \in Seq(Messages) /\ m \in Messages
        /\ q # <<>> => q[Len(q)] = in.sent[Len(in.sent)]
        /\ q = <<>> => m = in.sent[Len(in.sent)]
    BY <2>1, <2>2, FirstMessage
  <2>4. m.key = "Volume"
    BY <2>3 DEF Messages
  <2> HIDE DEF q, m
  <2>5. /\ InputShape(t) /\ KeysStay(in, t) /\ DragsStay(in, t) /\ LockStays(in, t) /\ SwitchStays(in, t)
        /\ t.slipped = in.slipped /\ t.held = in.held /\ t.sent = q /\ t.locked = in.locked
    BY DEF InputHolds, InputShape, KeysStay, DragsStay, LockStays, SwitchStays
  <2> HIDE DEF t
  <2>6. KeysKept(t, {}) /\ DragsHold(t) /\ LockIsQuiet(t) /\ FocusShows(t) /\ ModifierIsHeld(t)
    BY <2>5, Staying DEF InputHolds, KeysStay, DragsStay, SwitchStays
  <2>7. worker' \in {I!NoKey, "Volume"} /\ (q = <<>> => worker' \in {I!NoKey, in.held})
    BY <2>1, <2>2, <2>3, <2>4
  <2>8. MediaFollows(t, worker')
    BY <2>2, <2>3, <2>5, <2>7 DEF MediaFollows
  <2> QED
    BY <2>1, <2>5, <2>6, <2>8 DEF InputHolds
<1>7. CASE I!WorkerRepeats
  <2>1. in' = in /\ worker' = I!NoKey
    BY <1>7 DEF I!WorkerRepeats
  <2>2. MediaFollows(in, I!NoKey)
    BY DEF InputHolds, MediaFollows
  <2> QED
    BY <2>1, <2>2 DEF InputHolds
<1> QED
  BY <1>1, <1>2, <1>3, <1>4, <1>5, <1>6, <1>7

-----------------------------------------------------------------------------
LEMMA NewInputHolds ==
    ASSUME I!InputInit
    PROVE  InputHolds(in, worker)
<1>1. /\ DOMAIN in = {"down", "pressed", "forwarded", "suppressed", "kept", "slipped", "buttons", "clicks",
                   "swallowed", "woke", "missed", "grab", "fingers", "touch", "lifted", "over", "resizing",
                   "dropped", "stack", "focus", "through", "recent", "sel", "held", "sent", "naps", "asleep", "locked",
                   "exclusive", "bar", "scroll"}
      /\ in.sel = I!NoSelection /\ in.stack = <<>> /\ in.grab = I!NoGrab /\ in.touch = I!NoTouch
  BY DEF I!InputInit
<1>2. /\ in.down = {} /\ in.pressed = {} /\ in.forwarded = {} /\ in.suppressed = {} /\ in.kept = {}
      /\ in.clicks = {} /\ in.swallowed = {} /\ in.resizing = {} /\ in.fingers = {}
      /\ in.held = I!NoKey /\ in.sent = <<>> /\ ~in.locked /\ worker = I!NoKey
  BY DEF I!InputInit
<1>3. DOMAIN in.sel = {"order", "index", "origin", "modifier"} /\ in.stack \in Seq(Wins)
  BY <1>1 DEF I!NoSelection
<1>4. in.grab \in GrabRecord /\ in.touch \in TouchRecord
  BY <1>1, NewTouch DEF I!NoGrab, GrabRecord
<1>5. InputShape(in)
  BY <1>1, <1>3, <1>4 DEF InputShape
<1>6. KeysKept(in, {}) /\ LockIsQuiet(in)
  BY <1>2 DEF KeysKept, LockIsQuiet
<1>7. MediaFollows(in, worker)
  BY <1>2 DEF MediaFollows
<1>8. GrabHolds(in)
  BY <1>1, <1>2 DEF GrabHolds
<1>9. TouchHolds(in)
  BY <1>1, <1>2, NewTouch, FS_EmptySet DEF TouchHolds
<1>10. FocusShows(in) /\ ModifierIsHeld(in)
  BY <1>1 DEF FocusShows, ModifierIsHeld, I!Active
<1> QED
  BY <1>5, <1>6, <1>7, <1>8, <1>9, <1>10, DragsHaveTwoSides DEF InputHolds

LEMMA InputHoldsStep ==
    ASSUME InputHolds(in, worker), I!KeysNext \/ I!SwitcherNext \/ I!MediaNext \/ I!PointerNext \/ I!TouchNext
    PROVE  InputHolds(in', worker')
<1>1. ASSUME NEW K \in SUBSET I!Keys, I!Uses(K) PROVE InputHolds(in', worker')
  BY <1>1, KeysHold DEF I!Uses
<1>2. ASSUME NEW W, I!MovesOver(W) PROVE InputHolds(in', worker')
  <2>1. PICK x \in W \cup {I!None}, full \in BOOLEAN, l \in {"above", "below", I!None} : I!MovePointer(x, full, l)
    BY <1>2 DEF I!MovesOver
  <2> QED
    BY <2>1, PointerHolds
<1>3. ASSUME NEW b, NEW u, NEW border \in BOOLEAN, NEW full \in BOOLEAN, I!PressButton(b, u, border, full)
      PROVE  InputHolds(in', worker')
  BY <1>3, ButtonsHold
<1>4. ASSUME NEW b, I!ReleaseButton(b) PROVE InputHolds(in', worker')
  <2>1. TRUE \in BOOLEAN
    OBVIOUS
  <2> QED
    BY <1>4, <2>1, ButtonsHold
<1>5. I!Ordinary \in Wins
  BY InputAssumption DEF I!Ordinary
<1>6. Inhibiting \subseteq Wins
  BY InputAssumption
<1>7. CASE I!KeysNext
  <2>1. CASE I!Uses(I!Keys \ {"Volume"})
    BY <1>1, <2>1
  <2>2. CASE \E x \in Inhibiting : I!Open(x)
    BY <1>6, <2>2, OpenHolds
  <2>3. CASE I!MovesOver(Inhibiting)
    BY <1>2, <2>3
  <2>4. CASE (\E l \in {I!None, "panel", "lock screen"} : I!LayerChanges(l)) \/ I!TurnEnds \/ I!Lock \/ I!Unlock \/ I!Sleep
    BY <2>4, AroundHolds, TurnEndsHolds
  <2>5. CASE \E amount \in {1, -1}, tiling \in BOOLEAN : I!Scroll(amount, tiling)
    BY <2>5, ScrollHolds
  <2> QED
    BY <1>7, <2>1, <2>2, <2>3, <2>4, <2>5 DEF I!KeysNext
<1>8. CASE I!SwitcherNext
  <2>1. CASE I!Uses({"Super", "Alt", "Tab", "Escape"})
    BY <1>1, <2>1 DEF I!Keys
  <2>2. CASE \E x \in Wins : I!Open(x) \/ I!Close(x)
    BY <2>2, OpenHolds, CloseHolds
  <2>3. CASE I!TurnEnds \/ I!Lock \/ I!Unlock \/ I!Sleep
    BY <2>3, AroundHolds, TurnEndsHolds
  <2> QED
    BY <1>8, <2>1, <2>2, <2>3 DEF I!SwitcherNext
<1>9. CASE I!MediaNext
  <2>1. CASE I!Uses({"Volume", "Super", "Text"})
    BY <1>1, <2>1 DEF I!Keys
  <2>2. CASE \/ \E l \in {I!None, "lock screen"} : I!LayerChanges(l)
             \/ I!Lock \/ I!Unlock \/ I!Sleep \/ I!PauseSession
             \/ I!WorkerReads \/ I!WorkerRepeats
    BY <2>2, AroundHolds
  <2> QED
    BY <1>9, <2>1, <2>2 DEF I!MediaNext
<1>10. CASE I!PointerNext
  <2>1. CASE I!Uses({"Super", "Text"})
    BY <1>1, <2>1 DEF I!Keys
  <2>2. CASE \E b \in Buttons, u \in {I!Ordinary, I!Layer, I!None}, border, full \in BOOLEAN :
               I!PressButton(b, u, border, full)
    BY <1>3, <2>2
  <2>3. CASE \E b \in Buttons : I!ReleaseButton(b)
    BY <1>4, <2>3
  <2>4. CASE I!MovesOver({I!Ordinary})
    BY <1>2, <2>4
  <2>5. CASE I!Open(I!Ordinary) \/ I!Close(I!Ordinary)
    BY <1>5, <2>5, OpenHolds, CloseHolds
  <2>6. CASE I!MoveRequest(I!Ordinary) \/ I!ResizeRequest(I!Ordinary) \/ I!Motion
    <3>1. TRUE \in BOOLEAN
      OBVIOUS
    <3> QED
      BY <2>6, <3>1, PointerHolds
  <2>7. CASE I!TurnEnds \/ I!Lock \/ I!Unlock \/ I!Sleep
    BY <2>7, AroundHolds, TurnEndsHolds
  <2> QED
    BY <1>10, <2>1, <2>2, <2>3, <2>4, <2>5, <2>6, <2>7 DEF I!PointerNext
<1>11. CASE I!TouchNext
  <2>1. CASE \E f \in Fingers, u \in {I!Ordinary, I!Layer, I!None} , full \in BOOLEAN : I!TouchDown(f, u, full)
    BY <2>1, TouchDownHolds
  <2>2. CASE \E f \in Fingers : I!TouchUp(f)
    BY <2>2, TouchUpHolds
  <2>3. CASE I!TouchCancel \/ I!TouchMotion
    BY <2>3, TouchEnds
  <2>4. CASE I!TouchRequest(I!Ordinary, "move") \/ I!TouchRequest(I!Ordinary, "resize")
    BY <2>4, TouchRequestHolds
  <2>5. CASE \E u \in {I!Ordinary, I!None}, border \in BOOLEAN : I!PressButton(I!Left, u, border, FALSE)
    BY <1>3, <2>5
  <2>6. CASE I!ReleaseButton(I!Left)
    BY <1>4, <2>6
  <2>7. CASE I!Open(I!Ordinary) \/ I!Close(I!Ordinary)
    BY <1>5, <2>7, OpenHolds, CloseHolds
  <2>8. CASE I!TurnEnds \/ I!Lock \/ I!Unlock \/ I!Sleep
    BY <2>8, AroundHolds, TurnEndsHolds
  <2> QED
    BY <1>11, <2>1, <2>2, <2>3, <2>4, <2>5, <2>6, <2>7, <2>8 DEF I!TouchNext
<1> QED
  BY <1>7, <1>8, <1>9, <1>10, <1>11

LEMMA InputHoldsMeans ==
    ASSUME InputHolds(in, worker)
    PROVE  I!InputIsPaired
<1>1. I!KeysAreLetGo /\ I!RepeatsWhatIsHeld
  BY DEF InputHolds, KeysKept, MediaFollows, I!KeysAreLetGo, I!RepeatsWhatIsHeld
<1>2. I!SwitcherFollowsTheKeys
  BY DEF InputHolds, FocusShows, ModifierIsHeld, LockIsQuiet, I!SwitcherFollowsTheKeys
<1>3. I!DragsEnd
  <2>1. GrabHolds(in) /\ TouchHolds(in) /\ in.touch \in TouchRecord
    BY DragsHaveTwoSides DEF InputHolds, InputShape
  <2>2. in.touch # I!NoTouch /\ ~in.lifted => in.fingers # {}
    <3>1. CASE in.touch.kind = "down"
      <4>1. in.fingers = {} => Cardinality(in.fingers) = 0
        BY FS_EmptySet
      <4> QED
        BY <2>1, <3>1, <4>1 DEF TouchHolds
    <3>2. CASE in.touch.kind # "down"
      BY <2>1, <3>2 DEF TouchHolds, TouchRecord
    <3> QED
      BY <3>1, <3>2
  <2>3. in.resizing \subseteq {in.grab.window, in.touch.window} \cup in.dropped
    BY <2>1 DEF GrabHolds
  <2> QED
    BY <2>1, <2>2, <2>3 DEF GrabHolds, I!DragsEnd
<1>4. I!LockedStaysQuiet
  BY DEF InputHolds, LockIsQuiet, DragsHold, I!LockedStaysQuiet
<1> QED
  BY <1>1, <1>2, <1>3, <1>4 DEF I!InputIsPaired

\* The inductive invariant, where the input is at work.
InputInv == working \in InputScenes => InputHolds(in, worker)

\* For as long as the desktop runs: a key, a button or a finger that something
\* took is let go of there, the switcher follows its modifier, a media key
\* repeats only while it is held, a drag ends, and behind the lock a window has
\* the keyboard for a turn at most, if it had the whole screen and was pressed
\* (input_handler.rs, window_cycle.rs, media.rs, shell/grabs.rs).
THEOREM InputPaired == DeskSpec => []InputIsPaired
<1>1. DeskInit => InputInv
  BY NewInputHolds DEF DeskInit, InputInv
<1>2. InputInv /\ [DeskNext]_deskVars => InputInv'
  <2> SUFFICES ASSUME InputInv, [DeskNext]_deskVars, working' \in InputScenes PROVE InputHolds(in', worker')
    BY DEF InputInv
  <2>1. working' = working /\ InputHolds(in, worker)
    BY DEF InputInv, DeskNext, deskVars
  <2>2. CASE UNCHANGED inputVars
    BY <2>1, <2>2 DEF inputVars
  <2>3. CASE InputNext
    BY <2>1, <2>3, InputHoldsStep DEF InputNext
  <2> QED
    BY <2>1, <2>2, <2>3 DEF DeskNext, deskVars, InputScenes, HealthScenes
<1>3. InputInv => InputIsPaired
  BY InputHoldsMeans DEF InputInv, InputIsPaired
<1> QED
  BY <1>1, <1>2, <1>3, PTL DEF DeskSpec
=============================================================================
