------------------------------ MODULE MCWindows ------------------------------
(***************************************************************************)
(* An xdg window, its dialog and an X11 window under every two kinds of    *)
(* requests; or the tiling of two windows on two screens; or the geometry  *)
(* of a layout.                                                            *)
(***************************************************************************)
EXTENDS Windows, Tiling, Geometry, TLC

CONSTANTS a, d, legacy

MCParent == (a :> NoWindow) @@ (d :> a) @@ (legacy :> NoWindow)
MCClient == (a :> a) @@ (d :> a) @@ (legacy :> legacy)
MCStickyLists == {{}, {a}}
MCScreens == <<"left", "right">>

VARIABLES
    cast,    \* the windows there are
    scene    \* the two kinds of requests that meet, or another part at work

vars == <<wm, cast, scene, layoutVars, planVars>>

Meetings == {k \in SUBSET {"screen", "keyboard", "minimizing", "switching"} : Cardinality(k) = 2}

Init ==
    /\ WindowsInit
    /\ LayoutInit
    /\ PlanInit
    /\ scene \in Meetings \cup {{"tiling"}, {"geometry"}}
    /\ cast = IF "screen" \in scene THEN {a, legacy} ELSE {a, d}

Next ==
    /\ UNCHANGED <<cast, scene>>
    /\ \/ scene = {"tiling"} /\ LayoutNext /\ UNCHANGED <<wm, planVars>>
       \/ scene = {"geometry"} /\ PlanNext /\ UNCHANGED <<wm, layoutVars>>
       \/ /\ scene \in Meetings
          /\ UNCHANGED <<layoutVars, planVars>>
          /\ \/ \E w \in cast : Lifecycle(w)
             \/ "screen" \in scene /\ Screen
             \/ "keyboard" \in scene /\ Keyboard
             \/ "minimizing" \in scene /\ Minimizing
             \/ "switching" \in scene /\ Switching
             \/ AfterDispatch

Spec == Init /\ [][Next]_vars

\* The tiles are in order and their rectangles fit (layout.rs).
TilesAreSound == LayoutIsSound /\ GeometryIsSound
=============================================================================
