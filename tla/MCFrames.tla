------------------------------ MODULE MCFrames ------------------------------
(***************************************************************************)
(* Two outputs under one kind of disturbance at a time, of those that      *)
(* concern the whole device, and one output under every two.  A            *)
(* disturbance happens once; what undoes it may be repeated.               *)
(***************************************************************************)
EXTENDS Frames

VARIABLE due    \* the disturbances that are still to come

Kinds == {"pause", "blank", "plug", "changes", "asked", "panic"}

Init ==
    /\ FramesInit
    /\ \/ DOMAIN surfaces = Crtcs /\ due \in {{"pause"}, {"plug"}, {"asked"}}
       \/ /\ Cardinality(DOMAIN surfaces) = 1
          /\ due \in {k \in SUBSET (Kinds \ {"plug"}) : Cardinality(k) = 2}

Once(kind, Action) ==
    /\ kind \in due
    /\ Action
    /\ due' = due \ {kind}

Next ==
    \/ /\ UNCHANGED due
       /\ \/ Turn
          \/ ActivateSession \/ ReactivateDevice
          \/ SetUnblanked
          \/ ProbeConnectors \/ ProbeDone
          \/ "changes" \in due /\ Changes
    \/ Once("asked", Asked)
    \/ Once("panic", Panics)
    \/ Once("pause", PauseSession)
    \/ Once("blank", SetBlanked)
    \/ Once("plug", HotplugChanged \/ \E c \in Crtcs : SetOutputEnabled(c))

Spec == Init /\ [][Next]_<<frameVars, due>> /\ FramesFairness
=============================================================================
