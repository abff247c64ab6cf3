----------------------------- MODULE SessionLock -----------------------------
(***************************************************************************)
(* What the compositor promises about the session lock and the displays,   *)
(* to those who rely on it (Suspend): nothing but an Unlock unlocks the    *)
(* session, and it wakes the displays; every other step leaves the lock as *)
(* it is or turns it on, and the screensaver never replaces dark displays. *)
(* Idle is shown to implement it.                                          *)
(***************************************************************************)

VARIABLES locked, stage

lockVars == <<locked, stage>>

StartUnlocked == locked = FALSE /\ stage = "active"

MayLock == locked' \in {locked, TRUE}

LockSession == locked' = TRUE /\ stage' = stage

UnlockSession == locked' = FALSE /\ stage' = "active"

WakeDisplays == locked' = locked /\ stage' = "active"

BlankDisplays == MayLock /\ stage' = "blank"

StartSaver == MayLock /\ stage = "active" /\ stage' = "screensaver"

LockNext ==
    LockSession \/ UnlockSession \/ WakeDisplays \/ BlankDisplays \/ StartSaver

LockSpec == StartUnlocked /\ [][LockNext]_lockVars
=============================================================================
