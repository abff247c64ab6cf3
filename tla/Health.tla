-------------------------------- MODULE Health --------------------------------
(***************************************************************************)
(* mindwm: recovery.rs with the Health of an output in udev.rs (how hard   *)
(* and how soon a display that stops taking frames is reset), recover.rs   *)
(* (panics of the event loop) and watchdog.rs (the thread that watches the *)
(* loop).  Frames has the rest of the repaint loop and no clock; here time *)
(* passes.  One output is followed in seconds; the other outputs of its    *)
(* GPU appear as the resets of the whole device they ask for.  The loop    *)
(* and its watcher are followed in quarters of a second, TICK.             *)
(***************************************************************************)
EXTENDS Integers

VARIABLES
    out,      \* SurfaceData: Health, the flip, the release, the timer
    loop      \* Beats, the watcher's announced, Recovery

healthVars == <<out, loop>>

None == -1

-----------------------------------------------------------------------------
(* The policy.                                                             *)

\* DrmError and io::Error, and with them Failure::of: what the kernel says
\* about a frame it does not take.
Failure == {"Busy", "Permission", "TestFailed", "Rejected", "Temporary", "Renderer"}

\* Failures that a reset cannot help.
Waited == {"Permission", "Renderer"}

StepOf(recoveries) == IF recoveries <= 1 THEN 1 ELSE IF recoveries >= 4 THEN 4 ELSE recoveries

Resubmit == 1
ResetState == 2
Relight == 3
ResetDevice == 4

Refused(failure) == [kind |-> "Refused", failure |-> failure]

Cause(kind) == [kind |-> kind, failure |-> "Busy"]

FirstStep(cause) ==
    CASE cause.kind = "StuckFlip" -> Resubmit
      [] cause.kind = "Refused" -> IF cause.failure \in {"TestFailed", "Rejected"} THEN Relight ELSE ResetState
      [] cause.kind = "Requested" -> Relight
      [] cause.kind = "Device" -> ResetDevice

Backoff(recoveries) ==
    CASE recoveries <= 4 -> 0
      [] recoveries = 5 -> 5
      [] recoveries = 6 -> 15
      [] recoveries = 7 -> 30
      [] recoveries > 7 -> 60

REFUSED_FOR == 2
SETTLE == 10

\* recoveries is a u8 that saturates at 255; from 8 on nothing tells the
\* numbers apart, and no age beyond the longest backoff.
MostRecoveries == 8
Oldest == 60

-----------------------------------------------------------------------------
(* One output.                                                             *)

NewOut ==
    [refused_since |-> None, last_refusal |-> "Busy", tried |-> FALSE,
     recoveries |-> 0, recovered_at |-> None, flipped |-> FALSE, flip |-> FALSE,
     releasing |-> 0,                    \* the step, 0 for no release
     timer |-> None, timer_step |-> 0,   \* recovery_timer: the seconds left
     timer_auto |-> FALSE,
     flashes |-> [i \in 1..3 |-> SETTLE]]   \* auxiliary: how long ago it was
                         \* last switched off of its own accord, the latest
                         \* first; SETTLE for that long or never

Idle(o) == o.releasing = 0 /\ o.timer = None

\* Mutant: a frame that is shown is enough, however soon.
SettleAtOnce(o) ==
    IF o.flipped THEN [o EXCEPT !.recoveries = 0, !.recovered_at = None] ELSE o

Settle(o) ==
    IF o.flipped /\ (o.recovered_at = None \/ o.recovered_at >= SETTLE)
    THEN [o EXCEPT !.recoveries = 0, !.recovered_at = None]
    ELSE o

RefusalsOver(o) == [o EXCEPT !.refused_since = None, !.last_refusal = "Busy"]

\* start_release for the output that asked.  The auxiliary flashes counts
\* what switches the display off without being asked to.
StartRelease(o, step, auto) ==
    [RefusalsOver(o) EXCEPT
        !.flip = FALSE, !.timer = None, !.timer_step = 0, !.timer_auto = FALSE,
        !.releasing = step, !.recovered_at = 0, !.flipped = FALSE,
        !.flashes = IF auto /\ step >= Relight
                    THEN [i \in 1..3 |-> IF i = 1 THEN 0 ELSE @[i - 1]]
                    ELSE @]

RecoverOutput(o, cause) ==
    IF o.releasing # 0 \/ (o.timer # None /\ cause.kind # "Requested")
    THEN o
    ELSE LET settled == Settle([o EXCEPT !.flip = FALSE, !.timer = None])
             most(a, b) == IF a > b THEN a ELSE b
             n == most(IF settled.recoveries = MostRecoveries THEN MostRecoveries ELSE settled.recoveries + 1,
                       FirstStep(cause))
             counted == [RefusalsOver(settled) EXCEPT !.recoveries = n]
             wait == IF cause.kind = "Requested" \/ counted.recovered_at = None
                     THEN 0
                     ELSE most(0, Backoff(n) - counted.recovered_at)
             auto == cause.kind # "Requested"
         IN IF wait = 0
            THEN StartRelease(counted, StepOf(n), auto)
            ELSE [counted EXCEPT !.timer = wait, !.timer_step = StepOf(n), !.timer_auto = auto]

Draws == Idle(out) /\ ~out.flip

FrameTaken ==
    /\ Draws
    /\ out' = [RefusalsOver(out) EXCEPT !.flip = TRUE, !.tried = TRUE]

FrameRefused(failure) ==
    /\ Draws
    /\ LET o == [out EXCEPT !.tried = TRUE, !.last_refusal = failure,
                            !.refused_since = IF @ = None THEN 0 ELSE @]
           first == out.refused_since = None
       IN out' = IF failure \notin Waited /\ ~(failure = "TestFailed" /\ first)
                    /\ o.refused_since >= REFUSED_FOR
                 THEN RecoverOutput(o, Refused(failure))
                 ELSE o

FrameFinish ==
    /\ out.flip
    /\ out' = Settle([out EXCEPT !.flip = FALSE, !.flipped = TRUE])

FlipTimedOut ==
    /\ out.flip
    /\ out' = RecoverOutput(out, Cause("StuckFlip"))

ResetDisplays == out' = RecoverOutput(out, Cause("Requested"))

\* Another output resets the device: this one is released with it, and its
\* own clock of recoveries is left alone.
DeviceReset ==
    /\ out.releasing = 0
    /\ out' = [RefusalsOver(out) EXCEPT !.flip = FALSE, !.timer = None, !.timer_step = 0,
                                        !.timer_auto = FALSE, !.releasing = ResetDevice]

RecoveryTimer ==
    /\ out.timer = 0
    /\ out' = StartRelease(out, out.timer_step, out.timer_auto)

ReleaseDone ==
    /\ out.releasing # 0
    /\ out' = [out EXCEPT !.releasing = 0]

\* A refused frame is tried again within retry_delay, at most a quarter of a
\* second: a display that draws has been tried once a second.  A timer is
\* served when it is due.
Older(age) == IF age = None \/ age = Oldest THEN age ELSE age + 1

SecondPasses ==
    /\ out.timer # 0
    /\ (Draws /\ out.refused_since # None) => out.tried
    /\ out' = [out EXCEPT !.refused_since = IF @ > REFUSED_FOR THEN @ ELSE Older(@),
                          !.recovered_at = Older(@), !.tried = FALSE,
                          !.timer = IF @ = None THEN @ ELSE @ - 1,
                          !.flashes = [i \in 1..3 |-> IF @[i] < SETTLE THEN @[i] + 1 ELSE SETTLE]]

DisplayNext ==
    /\ UNCHANGED loop
    /\ \/ FrameTaken \/ FrameFinish \/ FlipTimedOut
       \/ \E f \in Failure : FrameRefused(f)
       \/ ResetDisplays \/ DeviceReset
       \/ RecoveryTimer \/ ReleaseDone
       \/ SecondPasses

-----------------------------------------------------------------------------
(* The event loop, in quarters of a second, and processor time in multiples *)
(* of HITCH.                                                               *)

STALL == 4
GIVE_UP == 40
GIVE_UP_ANYWHERE == 120
HITCH == 1
SPIN_WINDOW == 4
SPIN_LIMIT == 16

\* Bounds: a turn costs at most MaxBusy, and the loop is in one call at a time.
MaxBusy == 5
Calls == {"running", "ioctl", "futex"}

NewLoop ==
    [alive |-> "running",   \* or exited, by giving_up, or aborted
     silent |-> 0,          \* silent_for: since the last beat
     call |-> "running",    \* where_is
     worst |-> 0, announced |-> None,             \* the watcher's
     worst_busy |-> 0, next_hitch |-> HITCH,      \* Beats.announced
     run |-> 0, last |-> None,                    \* Recovery
     looked |-> TRUE,
     longest |-> 0, said |-> 0, spin |-> 0]   \* auxiliary: the longest silence,
                                  \* the worst turn in the journal, the
                                  \* panics close together without a good turn

Beat(l, busy) ==
    [l EXCEPT !.silent = 0, !.call = "running",
              !.worst_busy = IF busy > @ THEN busy ELSE @,
              !.said = IF busy >= l.next_hitch THEN busy ELSE @,
              !.next_hitch = IF busy >= @ THEN busy * 2 ELSE @]

\* dispatch and after_dispatch come to an end.
TurnEnds(busy) ==
    /\ loop.alive = "running"
    /\ loop' = [Beat(loop, busy) EXCEPT !.run = 0, !.spin = 0]

Note(l) ==
    [l EXCEPT !.run = IF l.last # None /\ l.last < SPIN_WINDOW THEN @ + 1 ELSE 1, !.last = 0]

TurnPanics ==
    /\ loop.alive = "running"
    /\ LET l == [Note(Beat(loop, 0)) EXCEPT
                    !.spin = IF loop.last # None /\ loop.last < SPIN_WINDOW THEN @ + 1 ELSE 1]
       IN loop' = [l EXCEPT !.alive = IF l.run >= SPIN_LIMIT THEN "exited" ELSE @]

\* The loop is stuck in a call, or goes from one to the next.
Blocks(call) ==
    /\ loop.alive = "running"
    /\ loop.call # call
    /\ loop' = [loop EXCEPT !.call = call]

GivesUp(silent, call) == silent >= GIVE_UP_ANYWHERE \/ (silent >= GIVE_UP /\ call = "futex")

\* One round of LoopWatch::run.  The abort comes a fifth of a second after
\* the look, whatever the loop does meanwhile.
Look ==
    /\ loop.alive = "running"
    /\ ~loop.looked
    /\ loop' =
         IF loop.silent >= STALL
         THEN [loop EXCEPT
                 !.looked = TRUE,
                 !.worst = IF loop.silent > @ THEN loop.silent ELSE @,
                 !.announced = IF @ = None \/ loop.silent >= @ THEN loop.silent * 2 ELSE @,
                 !.alive = IF GivesUp(loop.silent, loop.call) THEN "aborted" ELSE @]
         ELSE [loop EXCEPT !.looked = TRUE, !.announced = None]

\* The watcher sleeps TICK between two looks, so it has looked once in
\* every quarter of a second.
QuarterPasses ==
    /\ loop.alive = "running"
    /\ loop.looked
    /\ loop' = [loop EXCEPT !.looked = FALSE, !.silent = @ + 1,
                            !.last = IF @ = None \/ @ = SPIN_WINDOW THEN @ ELSE @ + 1,
                            !.longest = IF loop.silent + 1 > @ THEN loop.silent + 1 ELSE @]

LoopNext ==
    /\ UNCHANGED out
    /\ \/ \E busy \in {0, 2, 3, MaxBusy} : TurnEnds(busy)
       \/ TurnPanics
       \/ \E call \in Calls : Blocks(call)
       \/ Look
       \/ QuarterPasses

\* Bound: a loop that comes back does so within a second and a half; longer
\* silences are followed until the watcher ends them.
LoopBound == loop'.longest \in 0 .. 6 \cup {loop'.silent}

HealthInit == out = NewOut /\ loop = NewLoop

HealthTypeOK ==
    /\ out.refused_since \in None .. REFUSED_FOR + 1
    /\ out.recoveries \in 0 .. MostRecoveries
    /\ out.recovered_at \in None .. Oldest
    /\ out.timer \in None .. Oldest
    /\ out.releasing \in 0 .. ResetDevice
    /\ loop.run \in 0 .. SPIN_LIMIT

-----------------------------------------------------------------------------
(* Properties.                                                             *)

\* A display that does not come back is not flashed: of the times the
\* compositor switches it off without being asked, no three fall within five
\* seconds.  The pauses of recovery.rs's backoff, the
\* step a cause starts from and the moment an output has settled have to
\* agree for that, whatever works, fails and is asked for in between.
DisplayIsNotFlashed ==
    LET f == out.flashes IN f[3] < SETTLE => f[3] - f[1] >= 5

\* Frames the kernel refuses for a reason a reset may cure are not retried
\* for longer than REFUSED_FOR: the output is then reset, or waits for its
\* turn.  A run may be older while the device is not ours, since those
\* refusals are waited out; it ends with the first that is not.
RefusalsEndInAReset ==
    (out.refused_since > REFUSED_FOR /\ out.tried) => out.last_refusal \in Waited

\* A desktop that is frozen does not stay so: the watcher ends the session
\* after thirty seconds, ten when the loop stays in a lock, and never for a
\* hitch of less than ten.  What it reports as the worst stall is within one
\* tick of the longest there was.
FreezesEnd ==
    /\ loop.silent <= GIVE_UP_ANYWHERE
    /\ loop.alive = "aborted" => loop.silent >= GIVE_UP
    /\ (loop.looked /\ loop.longest > STALL) => loop.worst >= loop.longest - 1

\* The session ends over a panic after sixteen that follow each other within
\* a second without one turn that went through, then and only then.
SpinsEnd == (loop.alive = "exited") <=> (loop.spin >= SPIN_LIMIT)

\* The worst turn of the session is at most twice one the journal names.
WorstTurnIsNamed == loop.worst_busy >= HITCH => loop.worst_busy < 2 * loop.said

\* The policy of resets and the watch on the event loop, in seconds.
HealthIsSound ==
    /\ HealthTypeOK
    /\ DisplayIsNotFlashed
    /\ RefusalsEndInAReset
    /\ FreezesEnd
    /\ SpinsEnd
    /\ WorstTurnIsNamed
=============================================================================
