------------------------------ MODULE MCDesktop ------------------------------
(***************************************************************************)
(* The compositor under its user's hands: the idle clock and the lock,     *)
(* with timeouts that are equal, one second apart, two seconds apart and   *)
(* never; keys, buttons and fingers; where the pointer may go; and the     *)
(* clocks of display resets and of the event loop's watcher.  They share   *)
(* nothing here: one is at work, the others stay as they began.            *)
(***************************************************************************)
EXTENDS Idle, Sequences

CONSTANTS Wins, Inhibiting, Buttons, Fingers, MaxPresses, MaxNaps, MaxSent,
          ScreenSets, Reach, Widths, Heights, Fractions, Gaps, MaxTiles

VARIABLES
    working,        \* which of them is at work
    in, worker,     \* Input
    plan,           \* Geometry
    out, loop       \* Health

I == INSTANCE Input
G == INSTANCE Geometry
H == INSTANCE Health

\* What stands for no window, or for a panel, is not the name of a window, and
\* there are windows with no say over shortcuts.
ASSUME InputAssumption ==
    /\ {I!None, I!Layer, I!Behind} \cap Wins = {}
    /\ Inhibiting \subseteq Wins /\ Wins \ Inhibiting # {}

inputVars == <<in, worker>>
healthVars == <<out, loop>>
deskVars == <<working, vars, inputVars, plan, healthVars>>

Away == 0

InputScenes == {"keys", "switcher", "media", "pointer", "touch"}
HealthScenes == {"display", "loop"}

DeskInit ==
    /\ working \in {"idle", "geometry"} \cup InputScenes \cup HealthScenes
    /\ Init
    /\ working # "idle" => prefs = CHOOSE p \in IdleSettings : TRUE
    /\ IF working \in InputScenes THEN I!InputInit ELSE in = Away /\ worker = Away
    /\ IF working = "geometry" THEN G!PlanInit ELSE plan = Away
    /\ IF working \in HealthScenes THEN H!HealthInit ELSE out = Away /\ loop = Away

InputNext ==
    /\ \/ working = "keys" /\ I!KeysNext
       \/ working = "switcher" /\ I!SwitcherNext
       \/ working = "media" /\ I!MediaNext
       \/ working = "pointer" /\ I!PointerNext
       \/ working = "touch" /\ I!TouchNext
    /\ I!InputBound
    /\ UNCHANGED <<vars, plan, healthVars>>

DeskNext ==
    /\ UNCHANGED working
    /\ \/ working = "idle" /\ Next /\ UNCHANGED <<inputVars, plan, healthVars>>
       \/ InputNext
       \/ working = "geometry" /\ G!PointerPlanNext /\ UNCHANGED <<vars, inputVars, healthVars>>
       \/ working = "display" /\ H!DisplayNext /\ UNCHANGED <<vars, inputVars, plan>>
       \/ working = "loop" /\ H!LoopNext /\ H!LoopBound /\ UNCHANGED <<vars, inputVars, plan>>

DeskSpec == DeskInit /\ [][DeskNext]_deskVars

\* What each promises, where it is at work: see its module.
InputIsPaired == working \in InputScenes => I!InputIsPaired
PointerGeometryIsSound == working = "geometry" => G!PointerGeometryIsSound
HealthIsSound == working \in HealthScenes => H!HealthIsSound

\* Screens side by side, of unequal heights, offset, and one above another.
MCScreenSets ==
    LET Rect(x, y, w, h) == [x |-> x, y |-> y, w |-> w, h |-> h]
    IN {<<Rect(0, 0, 8, 8)>>,
        <<Rect(0, 0, 8, 8), Rect(8, 0, 6, 5)>>,
        <<Rect(0, 0, 8, 8), Rect(8, 3, 6, 5)>>,
        <<Rect(0, 0, 6, 4), Rect(2, 4, 8, 6)>>,
        <<Rect(0, 2, 5, 5), Rect(5, 0, 5, 4), Rect(5, 4, 4, 6)>>}
=============================================================================
