-------------------------------- MODULE Frames --------------------------------
(***************************************************************************)
(* mindwm/src/udev.rs with recovery.rs and recover.rs: the repaint loop of *)
(* the outputs of one GPU.  A loop goes round by a timer, a page flip, a   *)
(* vblank that is held back, a reset or a callback at the end of the turn; *)
(* it is stopped while the displays are off or the session is paused.      *)
(* Helper threads release CRTCs and probe connectors; the kernel loses     *)
(* flips and refuses frames.  Times are choices: a timer fires at any      *)
(* moment, a deadline may be over or not.  So is how hard a reset goes,    *)
(* which is Health's subject.  Left out: what is drawn, direct scan-out,   *)
(* leases, several GPUs, timers that cannot be inserted.                   *)
(***************************************************************************)
EXTENDS Integers, FiniteSets, FiniteSetsExt

CONSTANTS
    Crtcs,
    MaxHelpers   \* bound: release threads at work at a time

ASSUME FramesAssumption == MaxHelpers \in Nat

VARIABLES
    surfaces,    \* the outputs that draw: CRTC to SurfaceData
    device,      \* active, session, probing, rescan_pending, hotplug (timer)
    blanked,     \* idle.stage = Blank
    kicks,       \* CRTCs whose render is queued for the end of the turn
    helpers,     \* release threads: what each was started for
    event        \* CRTCs with a page flip event on its way

frameVars == <<surfaces, device, blanked, kicks, helpers, event>>

None == 0
Ids == 1 .. MaxHelpers

Surface ==
    [dirty : BOOLEAN,
     repaint_timer : {"none", "soon", "idle"},
     throttle : BOOLEAN,                    \* vblank_throttle_timer
     flip : {"none", "timed", "bare"},      \* with and without its deadline
     refused : 0 .. 2,                      \* 2 stands for more than one
     releasing : {None} \cup Ids,
     recovery_timer : BOOLEAN,
     held : BOOLEAN,        \* the DRM compositor holds a frame for its flip
     uncleared : BOOLEAN]   \* auxiliary: switching the display off failed

NewSurface ==
    [dirty |-> TRUE, repaint_timer |-> "none", throttle |-> FALSE, flip |-> "none",
     refused |-> 0, releasing |-> None, recovery_timer |-> FALSE, held |-> FALSE, uncleared |-> FALSE]

NoHelper == [owner |-> {}, crtcs |-> {}]

\* A thread whose surfaces no longer wait for it.
OvertakenHelper == [owner |-> {}, crtcs |-> Crtcs]

FramesTypeOK ==
    /\ DOMAIN surfaces \subseteq Crtcs
    /\ \A c \in DOMAIN surfaces : surfaces[c] \in Surface
    /\ device \in [active : BOOLEAN, session : BOOLEAN, probing : BOOLEAN,
                   rescan_pending : BOOLEAN, hotplug : BOOLEAN]
    /\ blanked \in BOOLEAN
    /\ kicks \subseteq Crtcs
    /\ event \subseteq Crtcs
    /\ helpers \in [Ids -> [owner : SUBSET Crtcs, crtcs : SUBSET Crtcs]]

FramesInit ==
    /\ \E lit \in SUBSET Crtcs : surfaces = [c \in lit |-> NewSurface]
    /\ device = [active |-> TRUE, session |-> TRUE, probing |-> FALSE,
                 rescan_pending |-> FALSE, hotplug |-> FALSE]
    /\ blanked = FALSE
    /\ kicks = DOMAIN surfaces
    /\ helpers = [i \in Ids |-> NoHelper]
    /\ event = {}

-----------------------------------------------------------------------------
(* One surface.                                                            *)

Recovering(s) == s.releasing # None \/ s.recovery_timer

Busy(s) == s.flip # "none" \/ s.throttle \/ Recovering(s)

CancelTimers(s) ==
    [s EXCEPT !.repaint_timer = "none", !.throttle = FALSE, !.recovery_timer = FALSE,
              !.flip = IF @ = "none" THEN @ ELSE "bare"]

\* What a release, a blank and a resume begin with.
Halted(s) == [CancelTimers(s) EXCEPT !.flip = "none", !.refused = 0]

ForgetFrame(s) == [s EXCEPT !.held = FALSE, !.uncleared = FALSE]

\* Mutant: the frame stays with the DRM compositor.
StrandFrameHolding(s) ==
    IF Recovering(s)
    THEN s
    ELSE [s EXCEPT !.throttle = FALSE, !.flip = "none", !.dirty = TRUE]

StrandFrame(s) ==
    IF Recovering(s)
    THEN s
    ELSE [s EXCEPT !.held = @ /\ s.flip = "none" /\ ~s.throttle,
                   !.throttle = FALSE, !.flip = "none", !.dirty = TRUE]

\* Mutant: an armed timer is left alone, the idle tick included.
RepaintOutputUnlessArmed(s) ==
    [s EXCEPT !.dirty = TRUE,
              !.repaint_timer = IF ~Busy(s) /\ @ = "none" THEN "soon" ELSE @]

\* repaint_outputs for one surface.
RepaintOutput(s) ==
    [s EXCEPT !.dirty = TRUE,
              !.repaint_timer = IF ~Busy(s) /\ (@ = "none" \/ (@ = "idle" /\ s.refused = 0))
                                THEN "soon" ELSE @]

-----------------------------------------------------------------------------
(* Recovery.  An output is taken alone or with the whole device, as its    *)
(* own history asks for.  reset_displays and the watchdog recover several  *)
(* outputs one after another.                                              *)

Free == {i \in Ids : helpers[i] = NoHelper}

\* recover_output leaves an output alone whose reset is under way.
Taken(base, C, cause) ==
    {c \in C : base[c].releasing = None /\ (base[c].recovery_timer => cause = "Requested")}

\* start_release for the outputs in `own`, each with a thread; those in `late` wait.
ReleasedAlone(base, own, late, id) ==
    [surfaces |-> [c \in DOMAIN base |->
                     IF c \in own THEN [Halted(base[c]) EXCEPT !.releasing = id[c]]
                     ELSE IF c \in late THEN [Halted(base[c]) EXCEPT !.recovery_timer = TRUE]
                     ELSE base[c]],
     helpers |-> [i \in Ids |->
                     LET mine == {c \in own : id[c] = i}
                     IN  IF mine = {} THEN helpers[i] ELSE [owner |-> mine, crtcs |-> mine]]]

\* start_release with ResetDevice, for c.
ReleasedDevice(base, c, id) ==
    [surfaces |-> [d \in DOMAIN base |-> [Halted(base[d]) EXCEPT !.releasing = id]],
     helpers |-> [helpers EXCEPT ![id] = [owner |-> {c}, crtcs |-> DOMAIN base]]]

UnderWay(base) == \E c \in DOMAIN base : base[c].releasing # None

\* Some are taken alone, each with a thread of its own.  Who waits does so for
\* another's release or for the back-off, which a request does not have.
MayStart(base, taken, cause) ==
    {o \in SUBSET taken : o = taken \/ o # {} \/ UnderWay(base) \/ cause # "Requested"}

Alone(base, taken, own) ==
    {ReleasedAlone(base, own, taken \ own, id) :
        id \in {f \in [own -> Free] : \A c, d \in own : c # d => f[c] # f[d]}}

SomeAlone(base, taken, cause) ==
    UNION {Alone(base, taken, own) : own \in MayStart(base, taken, cause)}

\* Or one of them takes the device, which nobody else then needs to.
Whole(base, c) == {ReleasedDevice(base, c, id) : id \in Free}

WholeDevice(base, taken) ==
    IF UnderWay(base) THEN {} ELSE UNION {Whole(base, c) : c \in taken}

\* What recover_output leads to.
Recoveries(base, C, cause) ==
    LET taken == Taken(base, C, cause)
    IN  IF ~device.active
        THEN {[surfaces |-> [c \in DOMAIN base |-> IF c \in taken THEN Halted(base[c]) ELSE base[c]],
               helpers |-> helpers]}
        ELSE SomeAlone(base, taken, cause) \cup WholeDevice(base, taken)

Recover(base, C, cause) ==
    \E w \in Recoveries(base, C, cause) : surfaces' = w.surfaces /\ helpers' = w.helpers

-----------------------------------------------------------------------------
(* Drawing.                                                                *)

Lit(c) == ~blanked /\ device.active /\ c \in DOMAIN surfaces

\* The frame is queued.  Behind a frame that is still held no flip starts.
Flipped(base, c, s) ==
    /\ device.active
    /\ surfaces' = [base EXCEPT ![c] = [s EXCEPT !.refused = 0, !.flip = "timed", !.held = TRUE]]
    /\ event' \in (IF s.held THEN {event} ELSE {event, event \cup {c}})
    /\ UNCHANGED helpers

\* Nothing to draw, or no renderer; or the session is paused.
NotFlipped(base, c, s) ==
    /\ \/ \E when \in {"soon", "idle"} :
              surfaces' = [base EXCEPT ![c] = [s EXCEPT !.repaint_timer = when]]
       \/ ~device.active /\ surfaces' = [base EXCEPT ![c] = s]
    /\ UNCHANGED <<helpers, event>>

\* frame_refused.  What no reset can fix is only retried.
FrameRefused(base, c, s) ==
    /\ device.active
    /\ UNCHANGED event
    /\ LET n == Min({2, s.refused + 1})
       IN  \/ /\ surfaces' = [base EXCEPT ![c] = [s EXCEPT !.refused = n, !.repaint_timer = "soon"]]
              /\ UNCHANGED helpers
           \/ /\ n = 2
              /\ Recover([base EXCEPT ![c] = [s EXCEPT !.refused = n]], {c}, "Refused")

RenderSurface(base, c) ==
    IF blanked \/ c \notin DOMAIN base
    THEN surfaces' = base /\ UNCHANGED <<helpers, event>>
    ELSE IF Busy(base[c])
    THEN surfaces' = [base EXCEPT ![c].dirty = TRUE] /\ UNCHANGED <<helpers, event>>
    ELSE LET s == [base[c] EXCEPT !.repaint_timer = "none", !.dirty = FALSE]
         IN  Flipped(base, c, s) \/ NotFlipped(base, c, s) \/ FrameRefused(base, c, s)

Kick(c) ==
    /\ c \in kicks
    /\ kicks' = kicks \ {c}
    /\ RenderSurface(surfaces, c)
    /\ UNCHANGED <<device, blanked>>

RepaintTimer(c) ==
    /\ c \in DOMAIN surfaces
    /\ surfaces[c].repaint_timer # "none"
    /\ RenderSurface([surfaces EXCEPT ![c].repaint_timer = "none"], c)
    /\ UNCHANGED <<device, blanked, kicks>>

\* A callback that draws.
Draws(c) ==
    /\ Lit(c)
    /\ ~Busy(surfaces[c])
    /\ Kick(c)

RequestRepaint(C) ==
    /\ surfaces' = [c \in DOMAIN surfaces |->
                       IF c \in C THEN RepaintOutput(surfaces[c]) ELSE surfaces[c]]
    /\ UNCHANGED <<device, blanked, kicks, helpers, event>>

RepaintNow(c) ==
    /\ c \in DOMAIN surfaces
    /\ LET s == surfaces[c]
           now == ~Busy(s) /\ s.refused = 0 /\ s.repaint_timer # "none"
       IN  /\ surfaces' = [surfaces EXCEPT ![c].dirty = TRUE,
                                           ![c].repaint_timer = IF now THEN "none" ELSE @]
           /\ kicks' = IF now THEN kicks \cup {c} ELSE kicks
    /\ UNCHANGED <<device, blanked, helpers, event>>

\* A turn that panics: its timers and callbacks are gone, whatever they were for.
TurnPanics(c) ==
    /\ surfaces' = [d \in DOMAIN surfaces |->
                       RepaintOutput(IF d = c THEN [surfaces[d] EXCEPT !.repaint_timer = "none"]
                                     ELSE surfaces[d])]
    /\ kicks' = {}
    /\ UNCHANGED <<device, blanked, helpers, event>>

-----------------------------------------------------------------------------
(* Page flips.                                                             *)

\* The rest of frame_finish, for a vblank that is taken.
FinishFlip(c, s) ==
    LET t == [s EXCEPT !.throttle = FALSE, !.flip = "none"]
    IN  surfaces' = [surfaces EXCEPT ![c] =
            IF device.active THEN [ForgetFrame(t) EXCEPT !.repaint_timer = "soon"] ELSE t]

FrameFinish(c) ==
    /\ c \in event
    /\ event' = event \ {c}
    /\ IF c \notin DOMAIN surfaces \/ surfaces[c].releasing # None \/ surfaces[c].flip = "none"
       THEN UNCHANGED surfaces
       ELSE \/ FinishFlip(c, surfaces[c])
            \/ surfaces' = [surfaces EXCEPT ![c].throttle = TRUE, ![c].flip = "bare"]
    /\ UNCHANGED <<device, blanked, kicks, helpers>>

Throttled(c) ==
    /\ c \in DOMAIN surfaces
    /\ surfaces[c].throttle
    /\ FinishFlip(c, surfaces[c])
    /\ UNCHANGED <<device, blanked, kicks, helpers, event>>

FlipTimedOut(c) ==
    /\ c \in DOMAIN surfaces
    /\ surfaces[c].flip = "timed"
    /\ IF blanked \/ ~device.active
       THEN surfaces' = [surfaces EXCEPT ![c].flip = "none"] /\ UNCHANGED helpers
       ELSE Recover([surfaces EXCEPT ![c].flip = "bare"], {c}, "StuckFlip")
    /\ UNCHANGED <<device, blanked, kicks, event>>

-----------------------------------------------------------------------------
(* Resets.                                                                 *)

ResetDisplays ==
    /\ ~blanked
    /\ Recover(surfaces, DOMAIN surfaces, "Requested")
    /\ UNCHANGED <<device, blanked, kicks, event>>

\* Only the step that takes the whole device is put off.
RecoveryTimer(c) ==
    /\ c \in DOMAIN surfaces
    /\ surfaces[c].recovery_timer
    /\ LET base == [surfaces EXCEPT ![c].recovery_timer = FALSE]
       IN  IF ~device.active
           THEN surfaces' = base /\ UNCHANGED helpers
           ELSE IF \E o \in DOMAIN surfaces \ {c} : surfaces[o].releasing # None
           THEN UNCHANGED <<surfaces, helpers>>
           ELSE \E id \in Free :
                   LET w == ReleasedDevice(base, c, id)
                   IN  surfaces' = w.surfaces /\ helpers' = w.helpers
    /\ UNCHANGED <<device, blanked, kicks, event>>

\* blank_surface; clearing drops the frames, unless it fails.
BlankSurface(s, fails) ==
    IF fails THEN [s EXCEPT !.uncleared = s.held] ELSE ForgetFrame(s)

\* The surfaces an answer is for.
\* Mutant: only the one the release was started for.
ReleasedOwner(i) == {c \in DOMAIN surfaces \cap helpers[i].owner : surfaces[c].releasing = i}

Released(i) == {c \in DOMAIN surfaces \cap helpers[i].crtcs : surfaces[c].releasing = i}

\* The kernel sends the event of a flip it held before it lets go.
FinishRelease(i) ==
    LET released == Released(i)
        taken == released \cap helpers[i].owner # {}
    IN  /\ \E fails \in BOOLEAN :
             surfaces' = [c \in DOMAIN surfaces |->
               IF c \notin released THEN surfaces[c]
               ELSE IF ~taken THEN [surfaces[c] EXCEPT !.releasing = None]
               ELSE LET s == [ForgetFrame(surfaces[c]) EXCEPT !.releasing = None, !.dirty = TRUE]
                    IN  IF blanked /\ device.active THEN BlankSurface(s, fails) ELSE s]
        /\ kicks' = IF taken /\ device.active /\ ~blanked THEN kicks \cup released ELSE kicks
        /\ event' = event \ released

Rescanned(i) ==
    IF /\ device.rescan_pending /\ ~device.probing
       /\ \A c \in DOMAIN surfaces \ Released(i) : surfaces[c].releasing = None
    THEN [device EXCEPT !.rescan_pending = FALSE, !.hotplug = TRUE]
    ELSE device

ReleaseDone(i) ==
    /\ helpers[i] # NoHelper
    /\ FinishRelease(i)
    /\ device' = Rescanned(i)
    /\ helpers' = [helpers EXCEPT ![i] = NoHelper]
    /\ UNCHANGED blanked

Overtaken == [i \in Ids |-> IF helpers[i] = NoHelper THEN NoHelper
                            ELSE OvertakenHelper]

\* What resuming and taking a device back make of a surface.
Afresh(s) == [ForgetFrame(Halted(s)) EXCEPT !.releasing = None, !.dirty = TRUE]

\* check_outputs_alive.  `stuck` have a flip past its deadline, `stopped` have
\* been found twice with an overdue timer or none at all.
Watchdog ==
    /\ ~blanked
    /\ device.active
    /\ \E stuck \in SUBSET {c \in DOMAIN surfaces : ~Recovering(surfaces[c])
                                                   /\ surfaces[c].flip # "none"},
          stopped \in SUBSET {c \in DOMAIN surfaces : ~Busy(surfaces[c])} :
          /\ stuck \cup stopped # {}
          /\ \E w \in Recoveries(surfaces, stuck, "StuckFlip") :
               /\ surfaces' = [c \in DOMAIN surfaces |->
                                  IF c \in stopped THEN [w.surfaces[c] EXCEPT !.repaint_timer = "soon"]
                                  ELSE w.surfaces[c]]
               /\ helpers' = w.helpers
    /\ UNCHANGED <<device, blanked, kicks, event>>

ReactivateDevice ==
    /\ ~blanked
    /\ device.session
    /\ ~device.active
    /\ device' = [device EXCEPT !.active = TRUE]
    /\ surfaces' = [c \in DOMAIN surfaces |-> Afresh(surfaces[c])]
    /\ helpers' = Overtaken
    /\ kicks' = DOMAIN surfaces
    /\ UNCHANGED <<blanked, event>>

-----------------------------------------------------------------------------
(* The session, the displays' power and their connectors.                  *)

PauseSession ==
    /\ device.session
    /\ device' = [device EXCEPT !.active = FALSE, !.session = FALSE]
    /\ UNCHANGED <<surfaces, blanked, kicks, helpers, event>>

\* activate may fail, which leaves the device to the watchdog.
ActivateSession ==
    /\ ~device.session
    /\ surfaces' = [c \in DOMAIN surfaces |-> Afresh(surfaces[c])]
    /\ helpers' = Overtaken
    /\ \E takes \in BOOLEAN :
          /\ device' = [device EXCEPT !.active = takes, !.session = TRUE]
          /\ kicks' = IF takes THEN kicks \cup DOMAIN surfaces ELSE kicks
    /\ UNCHANGED <<blanked, event>>

SetBlanked ==
    /\ ~blanked
    /\ blanked' = TRUE
    /\ \E fails \in BOOLEAN :
          surfaces' = [c \in DOMAIN surfaces |->
             LET s == Halted(surfaces[c])
             IN  IF s.releasing # None \/ ~device.active THEN s ELSE BlankSurface(s, fails)]
    /\ UNCHANGED <<device, kicks, helpers, event>>

SetUnblanked ==
    /\ blanked
    /\ blanked' = FALSE
    /\ surfaces' = [c \in DOMAIN surfaces |-> [surfaces[c] EXCEPT !.dirty = TRUE]]
    /\ kicks' = kicks \cup DOMAIN surfaces
    /\ UNCHANGED <<device, helpers, event>>

\* The request, and after_output_change, which repaints the whole device.
SetOutputMode ==
    /\ \A c \in DOMAIN surfaces : ~Recovering(surfaces[c])
    /\ surfaces' = [c \in DOMAIN surfaces |-> RepaintOutput(StrandFrame(surfaces[c]))]
    /\ UNCHANGED <<device, blanked, kicks, helpers, event>>

\* connector_connected and connector_disconnected for every change of a scan.
Outputs(now) ==
    /\ surfaces' = [c \in now |-> IF c \in DOMAIN surfaces
                                  THEN IF now = DOMAIN surfaces THEN surfaces[c]
                                       ELSE StrandFrame(surfaces[c])
                                  ELSE NewSurface]
    /\ kicks' = IF now = DOMAIN surfaces THEN kicks ELSE kicks \cup now

SetOutputEnabled(c) ==
    /\ \A d \in DOMAIN surfaces : ~Recovering(surfaces[d])
    /\ IF c \in DOMAIN surfaces
       THEN DOMAIN surfaces # {c} /\ Outputs(DOMAIN surfaces \ {c})
       ELSE Outputs(DOMAIN surfaces \cup {c})
    /\ UNCHANGED <<device, blanked, helpers, event>>

HotplugChanged ==
    /\ ~device.hotplug
    /\ device' = [device EXCEPT !.hotplug = TRUE]
    /\ UNCHANGED <<surfaces, blanked, kicks, helpers, event>>

ProbeConnectors ==
    /\ device.hotplug
    /\ device' = IF device.probing
                 THEN [device EXCEPT !.hotplug = FALSE, !.rescan_pending = TRUE]
                 ELSE [device EXCEPT !.hotplug = FALSE, !.probing = TRUE]
    /\ UNCHANGED <<surfaces, blanked, kicks, helpers, event>>

ProbeDone ==
    /\ device.probing
    /\ IF \E c \in DOMAIN surfaces : surfaces[c].releasing # None
       THEN /\ device' = [device EXCEPT !.probing = FALSE, !.rescan_pending = TRUE]
            /\ UNCHANGED <<surfaces, kicks>>
       ELSE /\ device' = [device EXCEPT !.probing = FALSE, !.rescan_pending = FALSE,
                                        !.hotplug = @ \/ device.rescan_pending]
            /\ \E now \in SUBSET Crtcs : Outputs(now)
    /\ UNCHANGED <<blanked, helpers, event>>

-----------------------------------------------------------------------------
\* The loop itself: callbacks, timers, events and answers.
Turn ==
    \/ \E c \in Crtcs :
          \/ Kick(c) \/ RepaintTimer(c) \/ FrameFinish(c) \/ Throttled(c)
          \/ FlipTimedOut(c) \/ RecoveryTimer(c)
    \/ \E i \in Ids : ReleaseDone(i)
    \/ Watchdog

Changes == \/ \E c \in Crtcs : RepaintNow(c) \/ RequestRepaint({c})
           \/ RequestRepaint(Crtcs)

Panics == \E c \in Crtcs : TurnPanics(c)

Session == PauseSession \/ ActivateSession \/ ReactivateDevice

Power == SetBlanked \/ SetUnblanked

Plug == \/ HotplugChanged \/ ProbeConnectors \/ ProbeDone
        \/ \E c \in Crtcs : SetOutputEnabled(c)

Asked == ResetDisplays \/ SetOutputMode

FramesNext == Turn \/ Changes \/ Panics \/ Session \/ Power \/ Plug \/ Asked

\* Timers fire and the kernel lets go of a CRTC in the end.  A callback is run
\* at the end of its turn, so that handlers cannot get in its way forever; nor
\* can the releases of another output, which are short and get rarer.
FramesFairness ==
    /\ \A c \in Crtcs :
          /\ WF_frameVars(Kick(c)) /\ SF_frameVars(Draws(c))
          /\ WF_frameVars(RepaintTimer(c)) /\ WF_frameVars(Throttled(c))
          /\ WF_frameVars(FlipTimedOut(c))
          /\ SF_frameVars(RecoveryTimer(c) /\ ~surfaces'[c].recovery_timer)
    /\ \A i \in Ids : WF_frameVars(ReleaseDone(i))

FramesSpec == FramesInit /\ [][FramesNext]_frameVars /\ FramesFairness

-----------------------------------------------------------------------------
(* A lit output always has something of its own that continues its loop:   *)
(* no order of flips, refusals, resets, pauses, blanks and connector       *)
(* changes leaves it to the watchdog.  And a change that is to be drawn    *)
(* never waits for the idle tick (Repaint, busy, repaint_outputs).         *)
LoopIsAlive ==
    \A c \in DOMAIN surfaces : Lit(c) =>
       LET s == surfaces[c]
       IN  /\ Busy(s) \/ s.repaint_timer # "none" \/ c \in kicks
           /\ s.dirty /\ ~Busy(s) /\ c \notin kicks /\ s.refused = 0 => s.repaint_timer # "idle"

(* A frame is handed back whenever its flip is given up on, so that the    *)
(* next one can be queued: a lit output that may draw holds none, unless   *)
(* the kernel refused to switch it off before (forget_frame).              *)
FramesAreHandedBack ==
    \A c \in DOMAIN surfaces :
       Lit(c) /\ ~Busy(surfaces[c]) /\ surfaces[c].held => surfaces[c].uncleared

(* No CRTC is released by two threads at once or drawn on while one works  *)
(* on it, but for threads that a resume overtook (start_release).          *)
HelpersWorkAlone ==
    \A i \in Ids : helpers[i].owner # {} =>
       /\ \A c \in helpers[i].crtcs \cap DOMAIN surfaces :
             surfaces[c].releasing = i /\ surfaces[c].flip = "none"
       /\ \A j \in Ids \ {i} :
             helpers[j].owner # {} => helpers[i].crtcs \cap helpers[j].crtcs = {}

(* A scan that was put off still has something that will repeat it: a      *)
(* probe or a release whose answer is to come (release_done).              *)
RescanIsNotLost ==
    device.rescan_pending =>
       \/ device.probing
       \/ \E i \in Ids : helpers[i] # NoHelper
       \/ \E c \in DOMAIN surfaces : surfaces[c].releasing # None

(* What is given up on one path is taken up by another: frames, CRTCs and  *)
(* scans (strand_frame, start_release, release_done).                      *)
FramesAreSound == FramesAreHandedBack /\ HelpersWorkAlone /\ RescanIsNotLost

Redraws(c) ==
    /\ Lit(c)
    /\ ~Busy(surfaces[c])
    /\ Kick(c) \/ RepaintTimer(c)

(* An output that stays lit is drawn again and again, whatever the kernel  *)
(* loses or refuses, and without the watchdog's help.                      *)
LoopsGoOn ==
    \A c \in Crtcs : []<>~Lit(c) \/ []<><<Redraws(c)>>_frameVars
=============================================================================
