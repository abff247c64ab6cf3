---------------------------- MODULE WakeupProofs ----------------------------
(***************************************************************************)
(* Three systems that share nothing but their hazard: that whoever waits   *)
(* is never woken.  For any tasks and devices, the research kernel's       *)
(* scheduler, wait queues and mutex lose no wake-up.  For any outputs and  *)
(* helper threads, the repaint loop of a lit output always has something   *)
(* that continues it, and frames, CRTCs and scans that one path gives up   *)
(* are taken up by another: each surface keeps a condition of its own,     *)
(* SurfaceOK, and Releases ties the surfaces to the threads at work on     *)
(* them.  For any models and any number of connection tasks, no restart or *)
(* sleep request to the model supervisor is lost.                          *)
(***************************************************************************)
EXTENDS Frames, KernelSched, ModelSupervisor, FiniteSetTheorems, WellFoundedInduction, TLAPS

\* The repaint loop of a GPU's outputs.

HandedBack(s) == ~Busy(s) /\ s.held => s.uncleared

Going(s, kicked) ==
    /\ Busy(s) \/ s.repaint_timer # "none" \/ kicked
    /\ s.dirty /\ ~Busy(s) /\ ~kicked /\ s.refused = 0 => s.repaint_timer # "idle"

\* Nothing can happen to a surface by itself.
Still(s) == s.flip = "none" /\ ~s.throttle /\ ~s.recovery_timer

Sound(s, active, dark) ==
    /\ s \in Surface
    /\ s.releasing # None => Still(s)
    /\ dark => Still(s)
    /\ active => HandedBack(s)

SurfaceOK(s, active, dark, kicked) ==
    /\ Sound(s, active, dark)
    /\ active /\ ~dark => Going(s, kicked)

SurfacesOK == \A c \in DOMAIN surfaces : SurfaceOK(surfaces[c], device.active, blanked, c \in kicks)

\* A surface waits for a thread exactly while that thread has it, and the
\* outputs of a device stay the same until it is done.
Releases(sf, hs) ==
    /\ \A i \in Ids : hs[i].owner # {} =>
          /\ hs[i].owner \subseteq hs[i].crtcs
          /\ hs[i].crtcs \subseteq DOMAIN sf
          /\ \A c \in hs[i].crtcs : sf[c].releasing = i
    /\ \A c \in DOMAIN sf : sf[c].releasing # None =>
          /\ hs[sf[c].releasing].owner # {}
          /\ c \in hs[sf[c].releasing].crtcs

RescanOK(dev, hs) ==
    dev.rescan_pending => dev.probing \/ \E i \in Ids : hs[i] # NoHelper

FramesInv ==
    /\ FramesTypeOK
    /\ SurfacesOK
    /\ Releases(surfaces, helpers)
    /\ RescanOK(device, helpers)

-----------------------------------------------------------------------------
(* One surface.                                                            *)

LEMMA NoId == None \notin Ids
  BY FramesAssumption DEF None, Ids

LEMMA CancelFields ==
  ASSUME NEW s \in Surface
  PROVE  /\ CancelTimers(s) \in Surface
         /\ CancelTimers(s).repaint_timer = "none"
         /\ CancelTimers(s).throttle = FALSE
         /\ CancelTimers(s).recovery_timer = FALSE
         /\ CancelTimers(s).releasing = s.releasing
         /\ CancelTimers(s).held = s.held
         /\ CancelTimers(s).uncleared = s.uncleared
         /\ CancelTimers(s).dirty = s.dirty
  BY DEF Surface, CancelTimers

LEMMA HaltedFields ==
  ASSUME NEW s \in Surface
  PROVE  /\ Halted(s) \in Surface
         /\ Still(Halted(s))
         /\ Halted(s).repaint_timer = "none"
         /\ Halted(s).releasing = s.releasing
         /\ Halted(s).held = s.held
         /\ Halted(s).uncleared = s.uncleared
         /\ Halted(s).dirty = s.dirty
  <1> DEFINE t == CancelTimers(s)
  <1>1. t \in Surface /\ t.throttle = FALSE /\ t.recovery_timer = FALSE
    BY CancelFields
  <1>2. Halted(s) = [t EXCEPT !.flip = "none", !.refused = 0]
    BY DEF Halted
  <1> HIDE DEF t
  <1>3. [t EXCEPT !.flip = "none", !.refused = 0] \in Surface
    <2>1. [t EXCEPT !.flip = "none"] \in Surface
      BY <1>1 DEF Surface
    <2>2. ASSUME NEW u \in Surface PROVE [u EXCEPT !.refused = 0] \in Surface
      BY DEF Surface
    <2>3. [t EXCEPT !.flip = "none", !.refused = 0] = [[t EXCEPT !.flip = "none"] EXCEPT !.refused = 0]
      OBVIOUS
    <2> QED BY <2>1, <2>2, <2>3
  <1>5. Still(Halted(s))
    BY <1>1, <1>2 DEF Surface, Still
  <1>4. /\ Halted(s).repaint_timer = t.repaint_timer
        /\ Halted(s).releasing = t.releasing
        /\ Halted(s).held = t.held
        /\ Halted(s).uncleared = t.uncleared
        /\ Halted(s).dirty = t.dirty
    BY <1>1, <1>2 DEF Surface
  <1> QED BY <1>2, <1>3, <1>4, <1>5, CancelFields DEF t

LEMMA AfreshFields ==
  ASSUME NEW s \in Surface
  PROVE  /\ Afresh(s) \in Surface
         /\ Still(Afresh(s))
         /\ Afresh(s).releasing = None
         /\ ~Afresh(s).held
  <1> DEFINE t == Halted(s)
  <1>1. t \in Surface /\ Still(t)
    BY HaltedFields
  <1>2. Afresh(s) = [[t EXCEPT !.held = FALSE, !.uncleared = FALSE]
                       EXCEPT !.releasing = None, !.dirty = TRUE]
    BY DEF Afresh, ForgetFrame
  <1> HIDE DEF t
  <1> QED BY <1>1, <1>2 DEF Surface, Still

LEMMA StrandFields ==
  ASSUME NEW s \in Surface
  PROVE  /\ StrandFrame(s) \in Surface
         /\ StrandFrame(s).releasing = s.releasing
         /\ StrandFrame(s).recovery_timer = s.recovery_timer
         /\ Still(s) => Still(StrandFrame(s))
         /\ HandedBack(s) => HandedBack(StrandFrame(s))
  BY ZenonT(60) DEF Surface, StrandFrame, Recovering, Busy, HandedBack, Still

LEMMA RepaintFields ==
  ASSUME NEW s \in Surface
  PROVE  /\ RepaintOutput(s) \in Surface
         /\ RepaintOutput(s).releasing = s.releasing
         /\ Still(s) => Still(RepaintOutput(s))
         /\ HandedBack(s) => HandedBack(RepaintOutput(s))
         /\ Going(RepaintOutput(s), FALSE)
  BY DEF Surface, RepaintOutput, Recovering, Busy, HandedBack, Still, Going

\* A reset keeps its surface busy whatever else is true of it.
LEMMA Resetting ==
  ASSUME NEW s \in Surface, NEW kicked, NEW active,
         Recovering(s), s.releasing # None => Still(s)
  PROVE  SurfaceOK(s, active, FALSE, kicked)
  BY DEF SurfaceOK, Sound, HandedBack, Going, Busy

LEMMA MoreKicks ==
  ASSUME NEW s, NEW active, NEW dark, NEW kicked,
         SurfaceOK(s, active, dark, kicked)
  PROVE  SurfaceOK(s, active, dark, TRUE)
  BY DEF SurfaceOK, Sound, Going

\* An armed timer may replace any other.
LEMMA ArmedSoon ==
  ASSUME NEW s \in Surface, NEW active, NEW dark, NEW kicked,
         SurfaceOK(s, active, dark, kicked)
  PROVE  /\ SurfaceOK([s EXCEPT !.repaint_timer = "soon"], active, dark, kicked)
         /\ [s EXCEPT !.repaint_timer = "soon"].releasing = s.releasing
  BY DEF SurfaceOK, Sound, Surface, Still, HandedBack, Going, Busy, Recovering

-----------------------------------------------------------------------------
(* Threads.                                                                *)

LEMMA SameReleases ==
  ASSUME NEW sf, NEW hs, NEW new, Releases(sf, hs),
         DOMAIN new = DOMAIN sf,
         \A c \in DOMAIN sf : new[c].releasing = sf[c].releasing
  PROVE  Releases(new, hs)
  BY Zenon DEF Releases

\* When nobody waits for a thread no thread has an output.
LEMMA NobodyReleases ==
  ASSUME NEW sf, NEW hs, \A i \in Ids : hs[i].owner = {},
         \A c \in DOMAIN sf : sf[c].releasing = None
  PROVE  Releases(sf, hs)
  BY DEF Releases

LEMMA NoOwners ==
  ASSUME FramesInv, \A c \in DOMAIN surfaces : surfaces[c].releasing = None
  PROVE  \A i \in Ids : helpers[i].owner = {}
  <1> SUFFICES ASSUME NEW i \in Ids, helpers[i].owner # {} PROVE FALSE
    OBVIOUS
  <1>1. PICK c \in helpers[i].owner : TRUE
    OBVIOUS
  <1>2. c \in DOMAIN surfaces /\ surfaces[c].releasing = i
    BY <1>1 DEF FramesInv, Releases
  <1> QED BY <1>2, NoId

LEMMA WhoWaits ==
  ASSUME FramesInv, NEW c \in DOMAIN surfaces, surfaces[c].releasing # None
  PROVE  /\ surfaces[c].releasing \in Ids
         /\ helpers[surfaces[c].releasing] # NoHelper
  BY DEF FramesInv, FramesTypeOK, Surface, Releases, NoHelper

\* The threads N, which had nothing to do, take outputs that nobody worked on.
Handed(sf, hs, new, nhs, N) ==
    /\ Releases(sf, hs)
    /\ DOMAIN new = DOMAIN sf
    /\ \A c \in DOMAIN sf : sf[c].releasing \in {None} \cup Ids
    /\ \A i \in N : hs[i].owner = {}
    /\ \A i \in N : /\ nhs[i].owner # {}
                    /\ nhs[i].owner \subseteq nhs[i].crtcs
                    /\ nhs[i].crtcs \subseteq DOMAIN sf
                    /\ \A c \in nhs[i].crtcs : new[c].releasing = i
    /\ \A i \in Ids \ N : nhs[i] = hs[i]
    /\ \A c \in DOMAIN sf :
          \/ new[c].releasing = sf[c].releasing
          \/ /\ sf[c].releasing = None
             /\ new[c].releasing \in N
             /\ c \in nhs[new[c].releasing].crtcs

LEMMA NewThreads ==
  ASSUME NEW sf, NEW hs, NEW new, NEW nhs, NEW N \in SUBSET Ids, Handed(sf, hs, new, nhs, N)
  PROVE  Releases(new, nhs)
  <1> USE DEF Handed
  <1>1. ASSUME NEW i \in Ids, nhs[i].owner # {}
        PROVE  /\ nhs[i].owner \subseteq nhs[i].crtcs
               /\ nhs[i].crtcs \subseteq DOMAIN sf
               /\ \A c \in nhs[i].crtcs : new[c].releasing = i
    <2>1. CASE i \in N
      BY <2>1
    <2>2. CASE i \notin N
      <3>1. nhs[i] = hs[i]
        BY <2>2
      <3>2. /\ hs[i].owner \subseteq hs[i].crtcs
            /\ hs[i].crtcs \subseteq DOMAIN sf
            /\ \A c \in hs[i].crtcs : sf[c].releasing = i
        BY <1>1, <3>1 DEF Releases
      <3>3. ASSUME NEW c \in hs[i].crtcs PROVE new[c].releasing = i
        <4>1. sf[c].releasing = i /\ c \in DOMAIN sf /\ i # None
          BY <3>2, NoId
        <4> QED BY <4>1
      <3> QED BY <3>1, <3>2, <3>3
    <2> QED BY <2>1, <2>2
  <1>2. ASSUME NEW c \in DOMAIN sf, new[c].releasing # None
        PROVE  /\ nhs[new[c].releasing].owner # {}
               /\ c \in nhs[new[c].releasing].crtcs
    <2>1. CASE new[c].releasing = sf[c].releasing
      <3>1. /\ sf[c].releasing \in Ids
            /\ hs[sf[c].releasing].owner # {}
            /\ c \in hs[sf[c].releasing].crtcs
        BY <1>2, <2>1 DEF Releases
      <3>2. nhs[sf[c].releasing] = hs[sf[c].releasing]
        BY <3>1
      <3> QED BY <2>1, <3>1, <3>2
    <2>2. CASE new[c].releasing # sf[c].releasing
      BY <2>2
    <2> QED BY <2>1, <2>2
  <1> QED BY <1>1, <1>2 DEF Releases

-----------------------------------------------------------------------------
(* Recovery.                                                               *)

Work == [owner : SUBSET Crtcs, crtcs : SUBSET Crtcs]

\* Threads at work stay at work.
Started(hs) ==
    /\ hs \in [Ids -> Work]
    /\ \A i \in Ids : helpers[i] # NoHelper => hs[i] # NoHelper

LEMMA FreeThread ==
  ASSUME FramesInv, NEW i \in Free
  PROVE  i \in Ids /\ helpers[i].owner = {}
  BY DEF Free, NoHelper

\* The outputs in `own` are given to threads, those in `deferred` are put off.
Releasable(base, own, deferred, id) ==
    /\ own \subseteq DOMAIN surfaces
    /\ deferred \subseteq DOMAIN surfaces
    /\ DOMAIN base = DOMAIN surfaces
    /\ \A d \in DOMAIN surfaces : base[d] \in Surface /\ base[d].releasing = surfaces[d].releasing
    /\ \A d \in own \cup deferred : base[d].releasing = None
    /\ id \in [own -> Free]
    /\ \A c, d \in own : c # d => id[c] # id[d]

\* What a release leaves behind.
GivenOver(w, base, own, deferred) ==
    /\ DOMAIN w.surfaces = DOMAIN surfaces
    /\ \A d \in own \cup deferred :
          /\ w.surfaces[d] \in Surface
          /\ Recovering(w.surfaces[d])
          /\ w.surfaces[d].releasing # None => Still(w.surfaces[d])
    /\ \A d \in DOMAIN surfaces \ (own \cup deferred) : w.surfaces[d] = base[d]
    /\ Releases(w.surfaces, w.helpers)
    /\ Started(w.helpers)

LEMMA AloneOK ==
  ASSUME FramesInv, NEW base, NEW own, NEW deferred, NEW id, Releasable(base, own, deferred, id)
  PROVE  GivenOver(ReleasedAlone(base, own, deferred, id), base, own, deferred)
  <1> DEFINE new == [c \in DOMAIN base |->
                       IF c \in own THEN [Halted(base[c]) EXCEPT !.releasing = id[c]]
                       ELSE IF c \in deferred THEN [Halted(base[c]) EXCEPT !.recovery_timer = TRUE]
                       ELSE base[c]]
             mine(i) == {c \in own : id[c] = i}
             nhs == [i \in Ids |-> IF mine(i) = {} THEN helpers[i]
                                   ELSE [owner |-> mine(i), crtcs |-> mine(i)]]
             N == {i \in Ids : mine(i) # {}}
  <1> USE DEF Releasable
  <1>w. ReleasedAlone(base, own, deferred, id) = [surfaces |-> new, helpers |-> nhs]
    BY DEF ReleasedAlone
  <1>d. DOMAIN new = DOMAIN surfaces
    OBVIOUS
  <1>1. ASSUME NEW c \in own
        PROVE  /\ new[c] \in Surface
               /\ new[c].releasing = id[c] /\ id[c] \in Ids
               /\ Still(new[c])
    <2>1. id[c] \in Ids
      BY DEF Free
    <2>2. new[c] = [Halted(base[c]) EXCEPT !.releasing = id[c]]
      OBVIOUS
    <2>3. Halted(base[c]) \in Surface /\ Still(Halted(base[c]))
      BY HaltedFields
    <2> HIDE DEF new
    <2> QED BY <2>1, <2>2, <2>3 DEF Surface, Still
  <1>2. ASSUME NEW c \in deferred, c \notin own
        PROVE  /\ new[c] \in Surface
               /\ new[c].releasing = None
               /\ new[c].recovery_timer
    <2>2. new[c] = [Halted(base[c]) EXCEPT !.recovery_timer = TRUE]
      BY <1>2
    <2>3. Halted(base[c]) \in Surface /\ Halted(base[c]).releasing = None
      BY HaltedFields
    <2> HIDE DEF new
    <2> QED BY <2>2, <2>3 DEF Surface
  <1>3. ASSUME NEW c \in DOMAIN surfaces, c \notin own \cup deferred
        PROVE  new[c] = base[c]
    BY <1>3
  <1>4. \A i \in N : nhs[i].owner = mine(i) /\ nhs[i].crtcs = mine(i) /\ mine(i) # {}
    OBVIOUS
  <1>5. \A i \in Ids \ N : nhs[i] = helpers[i]
    OBVIOUS
  <1>6. \A i \in Ids : mine(i) \subseteq own
    OBVIOUS
  <1>7. \A i \in N : i \in Free
    <2> SUFFICES ASSUME NEW i \in N PROVE i \in Free
      OBVIOUS
    <2>1. PICK c \in own : id[c] = i
      OBVIOUS
    <2> QED BY <2>1
  <1>8. \A c \in own : c \in mine(id[c]) /\ id[c] \in N
    BY <1>1
  <1>9. nhs \in [Ids -> Work]
    <2>1. helpers \in [Ids -> Work] /\ DOMAIN surfaces \subseteq Crtcs
      BY DEF FramesInv, FramesTypeOK, Work
    <2> QED BY <2>1 DEF Work
  <1>10. \A c \in DOMAIN surfaces : surfaces[c].releasing \in {None} \cup Ids
    BY DEF FramesInv, FramesTypeOK, Surface
  <1>11. \A i \in N : \A c \in mine(i) : new[c].releasing = i
    BY <1>1
  <1> HIDE DEF new, nhs
  <1>12. Releases(new, nhs)
    <2>1. Releases(surfaces, helpers)
      BY DEF FramesInv
    <2>2. \A i \in N : helpers[i].owner = {}
      BY <1>7, FreeThread
    <2>3. \A i \in N : /\ nhs[i].owner # {}
                       /\ nhs[i].owner \subseteq nhs[i].crtcs
                       /\ nhs[i].crtcs \subseteq DOMAIN surfaces
                       /\ \A c \in nhs[i].crtcs : new[c].releasing = i
      BY <1>4, <1>6, <1>11
    <2>4. ASSUME NEW c \in DOMAIN surfaces
          PROVE  \/ new[c].releasing = surfaces[c].releasing
                 \/ /\ surfaces[c].releasing = None
                    /\ new[c].releasing \in N
                    /\ c \in nhs[new[c].releasing].crtcs
      <3>1. CASE c \in own
        BY <3>1, <1>1, <1>8, <1>4
      <3>2. CASE c \in deferred /\ c \notin own
        BY <3>2, <1>2
      <3>3. CASE c \notin own \cup deferred
        BY <3>3, <1>3
      <3> QED BY <3>1, <3>2, <3>3
    <2>5. N \in SUBSET Ids
      OBVIOUS
    <2> HIDE DEF N
    <2>6. Handed(surfaces, helpers, new, nhs, N)
      BY <1>d, <1>5, <1>10, <2>1, <2>2, <2>3, <2>4 DEF Handed
    <2> QED BY <2>5, <2>6, NewThreads
  <1>13. Started(nhs)
    <2>1. ASSUME NEW i \in Ids, helpers[i] # NoHelper PROVE nhs[i] # NoHelper
      <3>1. i \notin N
        BY <1>7, <2>1 DEF Free
      <3> QED BY <1>5, <2>1, <3>1
    <2> QED BY <1>9, <2>1 DEF Started
  <1>14. \A d \in own \cup deferred :
            /\ new[d] \in Surface
            /\ Recovering(new[d])
            /\ new[d].releasing # None => Still(new[d])
    BY <1>1, <1>2, NoId DEF Recovering
  <1>15. \A d \in DOMAIN surfaces \ (own \cup deferred) : new[d] = base[d]
    BY <1>3
  <1> HIDE DEF new, nhs
  <1> QED BY <1>w, <1>d, <1>12, <1>13, <1>14, <1>15 DEF GivenOver

LEMMA DeviceOK ==
  ASSUME FramesInv, NEW base, NEW c \in DOMAIN surfaces, NEW id \in Free,
         DOMAIN base = DOMAIN surfaces,
         \A d \in DOMAIN surfaces : base[d] \in Surface /\ surfaces[d].releasing = None
  PROVE  LET w == ReleasedDevice(base, c, id)
         IN  /\ DOMAIN w.surfaces = DOMAIN surfaces
             /\ \A d \in DOMAIN surfaces : /\ w.surfaces[d] \in Surface
                                           /\ Recovering(w.surfaces[d])
                                           /\ Still(w.surfaces[d])
             /\ Releases(w.surfaces, w.helpers)
             /\ Started(w.helpers)
  <1> DEFINE new == [d \in DOMAIN base |-> [Halted(base[d]) EXCEPT !.releasing = id]]
             thread == [owner |-> {c}, crtcs |-> DOMAIN base]
             nhs == [helpers EXCEPT ![id] = thread]
  <1>w. ReleasedDevice(base, c, id) = [surfaces |-> new, helpers |-> nhs]
    BY DEF ReleasedDevice
  <1>d. DOMAIN new = DOMAIN surfaces
    OBVIOUS
  <1>i. id \in Ids /\ helpers[id].owner = {} /\ helpers[id] = NoHelper
    BY FreeThread DEF Free
  <1>t. helpers \in [Ids -> Work] /\ DOMAIN surfaces \subseteq Crtcs
    BY DEF FramesInv, FramesTypeOK, Work
  <1>1. ASSUME NEW d \in DOMAIN surfaces
        PROVE  /\ new[d] \in Surface
               /\ new[d].releasing = id
               /\ Still(new[d])
    <2>2. new[d] = [Halted(base[d]) EXCEPT !.releasing = id]
      OBVIOUS
    <2>3. Halted(base[d]) \in Surface /\ Still(Halted(base[d]))
      BY HaltedFields
    <2> HIDE DEF new
    <2> QED BY <1>i, <2>2, <2>3 DEF Surface, Still
  <1>2. thread \in Work /\ thread.owner = {c} /\ thread.crtcs = DOMAIN surfaces
    BY <1>t DEF Work
  <1>3. nhs[id] = thread /\ \A i \in Ids \ {id} : nhs[i] = helpers[i]
    BY <1>i, <1>t
  <1>4. nhs \in [Ids -> Work]
    BY <1>t, <1>2
  <1>5. \A d \in DOMAIN surfaces : surfaces[d].releasing \in {None} \cup Ids
    BY DEF FramesInv, FramesTypeOK, Surface
  <1> HIDE DEF new, nhs, thread
  <1>6. Releases(new, nhs)
    <2>1. Handed(surfaces, helpers, new, nhs, {id})
      BY <1>d, <1>i, <1>1, <1>2, <1>3, <1>5 DEF Handed, FramesInv
    <2> QED BY <1>i, <2>1, NewThreads
  <1>7. Started(nhs)
    BY <1>3, <1>4, <1>i DEF Started
  <1>8. \A d \in DOMAIN surfaces : Recovering(new[d])
    BY <1>1, <1>i, NoId DEF Recovering
  <1> QED BY <1>w, <1>d, <1>1, <1>6, <1>7, <1>8

\* What recover_output is called with: only the outputs C may be unsound.
Recoverable(base, C, kicked) ==
    /\ DOMAIN base = DOMAIN surfaces
    /\ C \subseteq DOMAIN surfaces
    /\ kicked \subseteq Crtcs
    /\ \A d \in DOMAIN surfaces : /\ base[d] \in Surface
                                  /\ base[d].releasing = surfaces[d].releasing
                                  /\ base[d].releasing # None => Still(base[d])
    /\ \A d \in DOMAIN surfaces \ C : SurfaceOK(base[d], device.active, FALSE, d \in kicked)

Recovered(w, kicked) ==
    /\ DOMAIN w.surfaces = DOMAIN surfaces
    /\ \A d \in DOMAIN surfaces : SurfaceOK(w.surfaces[d], device.active, FALSE, d \in kicked)
    /\ Releases(w.surfaces, w.helpers)
    /\ Started(w.helpers)

LEMMA RecoveriesOK ==
  ASSUME FramesInv, NEW base, NEW C, NEW cause, NEW kicked,
         Recoverable(base, C, kicked),
         NEW w \in Recoveries(base, C, cause)
  PROVE  Recovered(w, kicked)
  <1> DEFINE taken == Taken(base, C, cause)
  <1>a. device.active \in BOOLEAN /\ helpers \in [Ids -> Work] /\ Releases(surfaces, helpers)
    BY DEF FramesInv, FramesTypeOK, Work
  <1>b. Started(helpers)
    BY <1>a DEF Started
  <1>c. /\ taken \subseteq C
        /\ taken \subseteq DOMAIN surfaces
        /\ \A c \in taken : base[c].releasing = None
        /\ \A c \in C \ taken : Recovering(base[c])
    BY DEF Taken, Recoverable, Recovering
  <1>e. /\ DOMAIN base = DOMAIN surfaces
        /\ \A d \in DOMAIN surfaces : /\ base[d] \in Surface
                                      /\ base[d].releasing = surfaces[d].releasing
                                      /\ base[d].releasing # None => Still(base[d])
    BY DEF Recoverable
  <1>f. ASSUME NEW d \in DOMAIN surfaces, d \notin taken
        PROVE  SurfaceOK(base[d], device.active, FALSE, d \in kicked)
    <2>1. CASE d \in C
      BY <1>f, <2>1, <1>a, <1>c, <1>e, Resetting
    <2>2. CASE d \notin C
      BY <2>2 DEF Recoverable
    <2> QED BY <2>1, <2>2
  <1>1. CASE ~device.active
    <2> DEFINE new == [c \in DOMAIN base |-> IF c \in taken THEN Halted(base[c]) ELSE base[c]]
    <2>1. w = [surfaces |-> new, helpers |-> helpers]
      BY <1>1 DEF Recoveries
    <2>2. ASSUME NEW d \in DOMAIN surfaces
          PROVE  /\ SurfaceOK(new[d], device.active, FALSE, d \in kicked)
                 /\ new[d].releasing = surfaces[d].releasing
      <3>1. CASE d \in taken
        <4>1. new[d] = Halted(base[d])
          BY <3>1, <1>e
        <4>2. /\ Halted(base[d]) \in Surface
              /\ Still(Halted(base[d]))
              /\ Halted(base[d]).releasing = base[d].releasing
          BY <1>e, HaltedFields
        <4> HIDE DEF new
        <4> QED BY <4>1, <4>2, <1>1, <1>e DEF SurfaceOK, Sound
      <3>2. CASE d \notin taken
        <4>1. new[d] = base[d]
          BY <3>2, <1>e
        <4> HIDE DEF new
        <4> QED BY <4>1, <3>2, <1>e, <1>f
      <3> QED BY <3>1, <3>2
    <2>3. DOMAIN new = DOMAIN surfaces
      BY <1>e
    <2> HIDE DEF new
    <2>4. Releases(new, helpers)
      BY <2>2, <2>3, <1>a, SameReleases
    <2> QED BY <2>1, <2>2, <2>3, <2>4, <1>b DEF Recovered
  <1>2. CASE device.active /\ \E own \in SUBSET taken :
                \E id \in [own -> Free] :
                   /\ \A c, d \in own : c # d => id[c] # id[d]
                   /\ w = ReleasedAlone(base, own, taken \ own, id)
    <2>0. PICK own \in SUBSET taken :
             \E id \in [own -> Free] :
                /\ \A c, d \in own : c # d => id[c] # id[d]
                /\ w = ReleasedAlone(base, own, taken \ own, id)
      BY <1>2
    <2>1. PICK id \in [own -> Free] :
             /\ \A c, d \in own : c # d => id[c] # id[d]
             /\ w = ReleasedAlone(base, own, taken \ own, id)
      BY <2>0
    <2> DEFINE deferred == taken \ own
    <2>2. /\ own \in SUBSET DOMAIN surfaces
          /\ deferred \in SUBSET DOMAIN surfaces
          /\ own \cup deferred = taken
      BY <1>c
    <2> HIDE DEF deferred, taken
    <2>3. GivenOver(w, base, own, deferred)
      <3>1. w = ReleasedAlone(base, own, deferred, id)
        BY <2>1 DEF deferred
      <3>2. \A d \in own \cup deferred : base[d].releasing = None
        BY <1>c, <2>2
      <3>3. /\ DOMAIN base = DOMAIN surfaces
            /\ \A d \in DOMAIN surfaces : base[d] \in Surface /\ base[d].releasing = surfaces[d].releasing
        BY <1>e
      <3>4. Releasable(base, own, deferred, id)
        BY <2>1, <2>2, <3>2, <3>3 DEF Releasable
      <3> QED BY <3>1, <3>4, AloneOK
    <2>4. ASSUME NEW d \in DOMAIN surfaces
          PROVE  SurfaceOK(w.surfaces[d], device.active, FALSE, d \in kicked)
      <3>1. CASE d \in taken
        <4>1. /\ w.surfaces[d] \in Surface
              /\ Recovering(w.surfaces[d])
              /\ w.surfaces[d].releasing # None => Still(w.surfaces[d])
          BY <3>1, <2>2, <2>3 DEF GivenOver
        <4> QED BY <4>1, Resetting
      <3>2. CASE d \notin taken
        BY <3>2, <2>2, <2>3, <1>f DEF GivenOver
      <3> QED BY <3>1, <3>2
    <2> QED BY <2>3, <2>4 DEF Recovered, GivenOver
  <1>3. CASE /\ device.active
             /\ \A c \in DOMAIN base : base[c].releasing = None
             /\ \E c \in taken, id \in Free : w = ReleasedDevice(base, c, id)
    <2>1. PICK c \in taken, id \in Free : w = ReleasedDevice(base, c, id)
      BY <1>3
    <2>2. /\ DOMAIN w.surfaces = DOMAIN surfaces
          /\ \A d \in DOMAIN surfaces : /\ w.surfaces[d] \in Surface
                                        /\ Recovering(w.surfaces[d])
                                        /\ Still(w.surfaces[d])
          /\ Releases(w.surfaces, w.helpers)
          /\ Started(w.helpers)
      BY <1>3, <1>c, <1>e, <2>1, DeviceOK
    <2>3. ASSUME NEW d \in DOMAIN surfaces
          PROVE  SurfaceOK(w.surfaces[d], device.active, FALSE, d \in kicked)
      BY <2>2, <1>a, Resetting
    <2> QED BY <2>2, <2>3 DEF Recovered
  <1>4. CASE device.active
    <2> HIDE DEF taken
    <2>1. w \in SomeAlone(base, taken, cause) \/ w \in WholeDevice(base, taken)
      BY <1>4 DEF Recoveries, taken
    <2>2. ASSUME w \in SomeAlone(base, taken, cause)
          PROVE  \E own \in SUBSET taken : w \in Alone(base, taken, own)
      BY <2>2 DEF SomeAlone, MayStart
    <2>3. ASSUME NEW own \in SUBSET taken, w \in Alone(base, taken, own)
          PROVE  \E id \in [own -> Free] :
                    /\ \A c, d \in own : c # d => id[c] # id[d]
                    /\ w = ReleasedAlone(base, own, taken \ own, id)
      BY <2>3 DEF Alone
    <2>5. ASSUME w \in WholeDevice(base, taken)
          PROVE  ~UnderWay(base) /\ \E c \in taken : \E id \in Free : w = ReleasedDevice(base, c, id)
      BY <2>5 DEF WholeDevice, Whole
    <2>4. ~UnderWay(base) => \A c \in DOMAIN base : base[c].releasing = None
      BY DEF UnderWay
    <2> QED BY <2>1, <2>2, <2>3, <2>4, <2>5, <1>2, <1>3, <1>4
  <1> QED BY <1>1, <1>4, <1>a

-----------------------------------------------------------------------------
(* Putting a step together.                                                *)

OthersTyped ==
    /\ device \in [active : BOOLEAN, session : BOOLEAN, probing : BOOLEAN,
                   rescan_pending : BOOLEAN, hotplug : BOOLEAN]
    /\ blanked \in BOOLEAN
    /\ kicks \subseteq Crtcs
    /\ event \subseteq Crtcs
    /\ helpers \in [Ids -> Work]

LEMMA Assemble ==
  ASSUME DOMAIN surfaces' \subseteq Crtcs, OthersTyped', SurfacesOK',
         Releases(surfaces', helpers'), RescanOK(device', helpers')
  PROVE  FramesInv'
  BY DEF FramesInv, FramesTypeOK, OthersTyped, Work, SurfacesOK, SurfaceOK, Sound

LEMMA Known ==
  ASSUME FramesInv
  PROVE  /\ DOMAIN surfaces \subseteq Crtcs
         /\ OthersTyped
         /\ device.active \in BOOLEAN
         /\ \A c \in DOMAIN surfaces :
               /\ SurfaceOK(surfaces[c], device.active, blanked, c \in kicks)
               /\ Sound(surfaces[c], device.active, blanked)
               /\ surfaces[c] \in Surface
  BY DEF FramesInv, FramesTypeOK, OthersTyped, Work, SurfacesOK, SurfaceOK

\* A step that neither starts nor ends a thread.
LEMMA Undisturbed ==
  ASSUME FramesInv,
         DOMAIN surfaces' = DOMAIN surfaces,
         \A c \in DOMAIN surfaces : surfaces'[c].releasing = surfaces[c].releasing,
         helpers' = helpers,
         device'.rescan_pending = device.rescan_pending,
         device'.probing = device.probing
  PROVE  Releases(surfaces', helpers') /\ RescanOK(device', helpers')
  <1>1. Releases(surfaces, helpers) /\ RescanOK(device, helpers)
    BY DEF FramesInv
  <1>2. Releases(surfaces', helpers)
    BY <1>1, SameReleases
  <1>3. RescanOK(device', helpers)
    BY <1>1 DEF RescanOK
  <1> QED BY <1>2, <1>3

\* A step that may start threads.
LEMMA MoreThreads ==
  ASSUME FramesInv, NEW hs, Started(hs)
  PROVE  RescanOK(device, hs)
  BY DEF FramesInv, RescanOK, Started

-----------------------------------------------------------------------------
(* Drawing.                                                                *)

\* What render_surface begins with: only c may have lost its timer.
Drawable(base, c) ==
    /\ DOMAIN base = DOMAIN surfaces
    /\ \A d \in DOMAIN surfaces : d # c => base[d] = surfaces[d]
    /\ c \in DOMAIN surfaces => /\ Sound(base[c], device.active, blanked)
                                /\ base[c].releasing = surfaces[c].releasing

LEMMA RefusedOften ==
  ASSUME NEW n \in 0 .. 2
  PROVE  Min({2, n + 1}) \in 0 .. 2
  <1>1. \E m \in {2, n + 1} : \A k \in {2, n + 1} : m <= k
    <2>1. CASE n + 1 <= 2
      BY <2>1
    <2>2. CASE ~(n + 1 <= 2)
      BY <2>2
    <2> QED BY <2>1, <2>2
  <1>2. Min({2, n + 1}) \in {2, n + 1} /\ \A k \in {2, n + 1} : Min({2, n + 1}) <= k
    BY <1>1 DEF Min
  <1>3. Min({2, n + 1}) <= 2
    BY <1>2
  <1> QED BY <1>2, <1>3

LEMMA RenderKeeps ==
  ASSUME FramesInv, NEW c \in Crtcs, NEW base, Drawable(base, c),
         RenderSurface(base, c),
         kicks' \subseteq kicks, kicks \ {c} \subseteq kicks',
         UNCHANGED <<device, blanked>>
  PROVE  FramesInv'
  <1>0. /\ DOMAIN surfaces \subseteq Crtcs
        /\ OthersTyped
        /\ device.active \in BOOLEAN
        /\ blanked \in BOOLEAN
        /\ kicks' \subseteq Crtcs
    BY Known DEF OthersTyped
  <1>1. ASSUME NEW d \in DOMAIN surfaces, d # c
        PROVE  SurfaceOK(base[d], device.active, blanked, d \in kicks')
    <2>1. base[d] = surfaces[d] /\ SurfaceOK(surfaces[d], device.active, blanked, d \in kicks)
      BY <1>1, Known DEF Drawable
    <2>2. (d \in kicks') = (d \in kicks)
      BY <1>1
    <2> QED BY <2>1, <2>2
  \* The cases in which no thread is started.
  <1>2. ASSUME NEW s, surfaces' = [base EXCEPT ![c] = s],
               c \in DOMAIN surfaces,
               s.releasing = surfaces[c].releasing,
               SurfaceOK(s, device.active, blanked, c \in kicks'),
               helpers' = helpers,
               event' \subseteq Crtcs
        PROVE  FramesInv'
    <2>1. /\ DOMAIN surfaces' = DOMAIN surfaces
          /\ surfaces'[c] = s
          /\ \A d \in DOMAIN surfaces : d # c => surfaces'[d] = base[d]
      BY <1>2 DEF Drawable
    <2>2. SurfacesOK'
      BY <1>1, <1>2, <2>1 DEF SurfacesOK
    <2>3. \A d \in DOMAIN surfaces : surfaces'[d].releasing = surfaces[d].releasing
      BY <1>2, <2>1 DEF Drawable
    <2>4. OthersTyped'
      BY <1>0, <1>2 DEF OthersTyped
    <2> QED BY <1>0, <1>2, <2>1, <2>2, <2>3, <2>4, Undisturbed, Assemble
  <1>3. CASE blanked \/ c \notin DOMAIN base
    <2>1. surfaces' = base /\ helpers' = helpers /\ event' = event
      BY <1>3 DEF RenderSurface
    <2>2. DOMAIN surfaces' = DOMAIN surfaces
      BY <2>1 DEF Drawable
    <2>3. ASSUME NEW d \in DOMAIN surfaces
          PROVE  /\ SurfaceOK(base[d], device.active, blanked, d \in kicks')
                 /\ base[d].releasing = surfaces[d].releasing
      <3>1. CASE d = c
        BY <3>1, <1>3 DEF Drawable, SurfaceOK
      <3>2. CASE d # c
        BY <3>2, <1>1 DEF Drawable
      <3> QED BY <3>1, <3>2
    <2>4. SurfacesOK'
      BY <2>1, <2>2, <2>3 DEF SurfacesOK
    <2>5. OthersTyped'
      BY <1>0, <2>1 DEF OthersTyped
    <2> QED BY <1>0, <2>1, <2>2, <2>3, <2>4, <2>5, Undisturbed, Assemble
  <1>4. CASE ~blanked /\ c \in DOMAIN base /\ Busy(base[c])
    <2>1. surfaces' = [base EXCEPT ![c].dirty = TRUE] /\ helpers' = helpers /\ event' = event
      BY <1>4 DEF RenderSurface
    <2> DEFINE s == [base[c] EXCEPT !.dirty = TRUE]
    <2>2. surfaces' = [base EXCEPT ![c] = s]
      BY <2>1
    <2>3. Sound(base[c], device.active, blanked) /\ c \in DOMAIN surfaces
          /\ base[c].releasing = surfaces[c].releasing
      BY <1>4 DEF Drawable
    <2>4. /\ SurfaceOK(s, device.active, blanked, c \in kicks')
          /\ s.releasing = surfaces[c].releasing
      BY <1>4, <2>3 DEF SurfaceOK, Sound, Going, HandedBack, Busy, Recovering, Still, Surface
    <2> HIDE DEF s
    <2> QED BY <1>0, <2>1, <2>2, <2>3, <2>4, <1>2 DEF OthersTyped
  <1>5. CASE ~blanked /\ c \in DOMAIN base /\ ~Busy(base[c])
    <2> DEFINE s == [base[c] EXCEPT !.repaint_timer = "none", !.dirty = FALSE]
    <2>1. Flipped(base, c, s) \/ NotFlipped(base, c, s) \/ FrameRefused(base, c, s)
      BY <1>5 DEF RenderSurface
    <2>2. Sound(base[c], device.active, blanked) /\ c \in DOMAIN surfaces
          /\ base[c].releasing = surfaces[c].releasing
      BY <1>5 DEF Drawable
    <2>3. /\ Sound(s, device.active, FALSE)
          /\ s \in Surface
          /\ ~Busy(s)
          /\ ~s.dirty
          /\ s.releasing = surfaces[c].releasing
          /\ s.releasing = None
      BY <1>5, <2>2 DEF Sound, HandedBack, Busy, Recovering, Still, Surface
    <2> HIDE DEF s
    <2>4. CASE Flipped(base, c, s)
      <3> DEFINE f == [s EXCEPT !.refused = 0, !.flip = "timed", !.held = TRUE]
      <3>1. /\ surfaces' = [base EXCEPT ![c] = f]
            /\ event' \in {event, event \cup {c}}
            /\ helpers' = helpers
        BY <2>4 DEF Flipped
      <3>2. /\ SurfaceOK(f, device.active, blanked, c \in kicks')
            /\ f.releasing = surfaces[c].releasing
        <4>1. [s EXCEPT !.refused = 0] \in Surface
          BY <2>3 DEF Surface
        <4>2. f = [[s EXCEPT !.refused = 0] EXCEPT !.flip = "timed", !.held = TRUE]
          OBVIOUS
        <4>3. f \in Surface /\ f.flip = "timed" /\ f.releasing = s.releasing
          BY <4>1, <4>2, <2>3 DEF Surface
        <4> HIDE DEF f
        <4> QED BY <4>3, <2>3, <1>5 DEF SurfaceOK, Sound, HandedBack, Going, Busy
      <3>3. event' \subseteq Crtcs
        BY <1>0, <3>1 DEF OthersTyped
      <3> HIDE DEF f
      <3> QED BY <2>2, <3>1, <3>2, <3>3, <1>2
    <2>5. CASE NotFlipped(base, c, s)
      <3>1. event' \subseteq Crtcs /\ helpers' = helpers
        BY <1>0, <2>5 DEF NotFlipped, OthersTyped
      <3>2. CASE \E when \in {"soon", "idle"} : surfaces' = [base EXCEPT ![c] = [s EXCEPT !.repaint_timer = when]]
        <4>1. PICK when \in {"soon", "idle"} : surfaces' = [base EXCEPT ![c] = [s EXCEPT !.repaint_timer = when]]
          BY <3>2
        <4> DEFINE f == [s EXCEPT !.repaint_timer = when]
        <4>2. /\ SurfaceOK(f, device.active, blanked, c \in kicks')
              /\ f.releasing = surfaces[c].releasing
          BY <2>3, <1>5 DEF SurfaceOK, Sound, HandedBack, Going, Busy, Recovering, Still, Surface
        <4>3. surfaces' = [base EXCEPT ![c] = f]
          BY <4>1
        <4> HIDE DEF f
        <4> QED BY <2>2, <3>1, <4>2, <4>3, <1>2
      <3>3. CASE ~device.active /\ surfaces' = [base EXCEPT ![c] = s]
        <4>1. SurfaceOK(s, device.active, blanked, c \in kicks')
          BY <3>3, <2>3, <1>5 DEF SurfaceOK, Sound
        <4> QED BY <2>2, <2>3, <3>1, <3>3, <4>1, <1>2
      <3> QED BY <2>5, <3>2, <3>3 DEF NotFlipped
    <2>6. CASE FrameRefused(base, c, s)
      <3> DEFINE n == Min({2, s.refused + 1})
                 r == [s EXCEPT !.refused = n]
                 stopped == [base EXCEPT ![c] = r]
      <3>1. /\ event' = event
            /\ \/ surfaces' = [base EXCEPT ![c] = [s EXCEPT !.refused = n, !.repaint_timer = "soon"]]
                  /\ helpers' = helpers
               \/ Recover(stopped, {c}, "Refused")
        BY <2>6 DEF FrameRefused
      <3>2. n \in 0 .. 2
        BY <2>3, RefusedOften DEF Surface
      <3> HIDE DEF n
      <3>3. /\ r \in Surface
            /\ r.releasing = None
            /\ Sound(r, device.active, FALSE)
            /\ ~Busy(r)
            /\ ~r.dirty
        BY <2>3, <3>2 DEF Sound, HandedBack, Busy, Recovering, Still, Surface
      <3>4. CASE /\ surfaces' = [base EXCEPT ![c] = [s EXCEPT !.refused = n, !.repaint_timer = "soon"]]
                 /\ helpers' = helpers
        <4> DEFINE f == [r EXCEPT !.repaint_timer = "soon"]
        <4>1. surfaces' = [base EXCEPT ![c] = f]
          BY <3>4
        <4> HIDE DEF r
        <4>2. /\ SurfaceOK(f, device.active, blanked, c \in kicks')
              /\ f.releasing = None
          BY <3>3, <1>5 DEF SurfaceOK, Sound, HandedBack, Going, Busy, Recovering, Still, Surface
        <4> HIDE DEF f
        <4> QED BY <1>0, <2>2, <2>3, <3>1, <3>4, <4>1, <4>2, <1>2 DEF OthersTyped
      <3>5. CASE Recover(stopped, {c}, "Refused")
        <4>1. PICK w \in Recoveries(stopped, {c}, "Refused") :
                 surfaces' = w.surfaces /\ helpers' = w.helpers
          BY <3>5 DEF Recover
        <4>2. /\ DOMAIN stopped = DOMAIN surfaces
              /\ stopped[c] = r
              /\ \A d \in DOMAIN surfaces : d # c => stopped[d] = surfaces[d]
          BY <2>2 DEF Drawable
        <4> HIDE DEF r, stopped
        <4>3. Recoverable(stopped, {c}, kicks')
          <5>1. ASSUME NEW d \in DOMAIN surfaces
                PROVE  /\ stopped[d] \in Surface
                       /\ stopped[d].releasing = surfaces[d].releasing
                       /\ stopped[d].releasing # None => Still(stopped[d])
            <6>1. CASE d = c
              BY <6>1, <4>2, <3>3, <2>3
            <6>2. CASE d # c
              BY <6>2, <4>2, Known DEF Sound
            <6> QED BY <6>1, <6>2
          <5>2. ASSUME NEW d \in DOMAIN surfaces \ {c}
                PROVE  SurfaceOK(stopped[d], device.active, FALSE, d \in kicks')
            <6>1. stopped[d] = base[d]
              BY <4>2 DEF Drawable
            <6>2. SurfaceOK(base[d], device.active, blanked, d \in kicks')
              BY <1>1
            <6>3. blanked = FALSE
              BY <1>5, <1>0
            <6> QED BY <6>1, <6>2, <6>3
          <5> QED BY <1>0, <2>2, <4>2, <5>1, <5>2 DEF Recoverable
        <4>4. Recovered(w, kicks')
          BY <4>1, <4>3, RecoveriesOK
        <4>5. SurfacesOK' /\ DOMAIN surfaces' = DOMAIN surfaces
          BY <1>5, <4>1, <4>4 DEF Recovered, SurfacesOK, SurfaceOK, Sound
        <4>6. OthersTyped'
          BY <1>0, <3>1, <4>1, <4>4 DEF Recovered, Started, OthersTyped
        <4>7. Releases(surfaces', helpers') /\ RescanOK(device', helpers')
          BY <4>1, <4>4, MoreThreads DEF Recovered
        <4> QED BY <1>0, <4>5, <4>6, <4>7, Assemble
      <3> QED BY <3>1, <3>4, <3>5
    <2> QED BY <2>1, <2>4, <2>5, <2>6
  <1>6. DOMAIN base = DOMAIN surfaces
    BY DEF Drawable
  <1> QED BY <1>3, <1>4, <1>5, <1>0

\* A step that changes surfaces one by one and leaves the threads alone.
LEMMA EachSurface ==
  ASSUME FramesInv, OthersTyped',
         DOMAIN surfaces' = DOMAIN surfaces,
         \A d \in DOMAIN surfaces :
            /\ SurfaceOK(surfaces'[d], device'.active, blanked', d \in kicks')
            /\ surfaces'[d].releasing = surfaces[d].releasing,
         helpers' = helpers,
         device'.rescan_pending = device.rescan_pending,
         device'.probing = device.probing
  PROVE  FramesInv'
  <1>1. SurfacesOK'
    BY DEF SurfacesOK
  <1>2. DOMAIN surfaces' \subseteq Crtcs
    BY Known
  <1> QED BY <1>1, <1>2, Undisturbed, Assemble

LEMMA OneSurface ==
  ASSUME FramesInv, NEW c \in DOMAIN surfaces, NEW s,
         surfaces' = [surfaces EXCEPT ![c] = s],
         s.releasing = surfaces[c].releasing,
         SurfaceOK(s, device.active, blanked, c \in kicks),
         event' \subseteq Crtcs,
         UNCHANGED <<device, blanked, kicks, helpers>>
  PROVE  FramesInv'
  <1>1. ASSUME NEW d \in DOMAIN surfaces
        PROVE  /\ SurfaceOK(surfaces'[d], device'.active, blanked', d \in kicks')
               /\ surfaces'[d].releasing = surfaces[d].releasing
    <2>1. CASE d = c
      BY <2>1
    <2>2. CASE d # c
      <3>1. surfaces'[d] = surfaces[d] /\ SurfaceOK(surfaces[d], device.active, blanked, d \in kicks)
        BY <2>2, Known
      <3> QED BY <3>1
    <2> QED BY <2>1, <2>2
  <1>2. OthersTyped'
    BY Known DEF OthersTyped
  <1>3. DOMAIN surfaces' = DOMAIN surfaces
    OBVIOUS
  <1> QED BY <1>1, <1>2, <1>3, EachSurface

LEMMA KickKeeps ==
  ASSUME FramesInv, NEW c \in Crtcs, Kick(c)
  PROVE  FramesInv'
  <1>1. Drawable(surfaces, c)
    BY Known DEF Drawable
  <1>2. RenderSurface(surfaces, c) /\ kicks' = kicks \ {c} /\ UNCHANGED <<device, blanked>>
    BY DEF Kick
  <1> QED BY <1>1, <1>2, RenderKeeps

LEMMA RepaintTimerKeeps ==
  ASSUME FramesInv, NEW c \in Crtcs, RepaintTimer(c)
  PROVE  FramesInv'
  <1> DEFINE s == [surfaces[c] EXCEPT !.repaint_timer = "none"]
             base == [surfaces EXCEPT ![c] = s]
  <1>1. /\ c \in DOMAIN surfaces
        /\ RenderSurface(base, c)
        /\ UNCHANGED <<device, blanked, kicks>>
    BY DEF RepaintTimer
  <1>2. Sound(s, device.active, blanked) /\ s.releasing = surfaces[c].releasing
    BY <1>1, Known DEF Sound, HandedBack, Busy, Recovering, Still, Surface
  <1> HIDE DEF s
  <1>3. Drawable(base, c)
    BY <1>1, <1>2 DEF Drawable
  <1> HIDE DEF base
  <1> QED BY <1>1, <1>3, RenderKeeps

LEMMA RequestRepaintKeeps ==
  ASSUME FramesInv, NEW C, RequestRepaint(C)
  PROVE  FramesInv'
  <1>1. /\ surfaces' = [c \in DOMAIN surfaces |->
                          IF c \in C THEN RepaintOutput(surfaces[c]) ELSE surfaces[c]]
        /\ UNCHANGED <<device, blanked, kicks, helpers, event>>
    BY DEF RequestRepaint
  <1>2. ASSUME NEW d \in DOMAIN surfaces
        PROVE  /\ SurfaceOK(surfaces'[d], device'.active, blanked', d \in kicks')
               /\ surfaces'[d].releasing = surfaces[d].releasing
    <2>1. SurfaceOK(surfaces[d], device.active, blanked, d \in kicks) /\ surfaces[d] \in Surface
      BY Known
    <2>2. CASE d \in C
      <3>1. surfaces'[d] = RepaintOutput(surfaces[d])
        BY <1>1, <2>2
      <3>2. /\ Sound(RepaintOutput(surfaces[d]), device.active, blanked)
            /\ RepaintOutput(surfaces[d]).releasing = surfaces[d].releasing
            /\ Going(RepaintOutput(surfaces[d]), FALSE)
        BY <2>1, RepaintFields DEF SurfaceOK, Sound
      <3>3. Going(RepaintOutput(surfaces[d]), d \in kicks)
        BY <3>2 DEF Going
      <3> QED BY <1>1, <3>1, <3>2, <3>3 DEF SurfaceOK
    <2>3. CASE d \notin C
      <3>1. surfaces'[d] = surfaces[d]
        BY <1>1, <2>3
      <3> QED BY <1>1, <2>1, <3>1
    <2> QED BY <2>2, <2>3
  <1>3. OthersTyped'
    BY <1>1, Known DEF OthersTyped
  <1>4. DOMAIN surfaces' = DOMAIN surfaces
    BY <1>1
  <1> QED BY <1>1, <1>2, <1>3, <1>4, EachSurface

LEMMA RepaintNowKeeps ==
  ASSUME FramesInv, NEW c \in Crtcs, RepaintNow(c)
  PROVE  FramesInv'
  <1> DEFINE s == surfaces[c]
             now == ~Busy(s) /\ s.refused = 0 /\ s.repaint_timer # "none"
             r == [s EXCEPT !.dirty = TRUE, !.repaint_timer = IF now THEN "none" ELSE @]
  <1>1. /\ c \in DOMAIN surfaces
        /\ surfaces' = [surfaces EXCEPT ![c] = r]
        /\ kicks' = IF now THEN kicks \cup {c} ELSE kicks
        /\ UNCHANGED <<device, blanked, helpers, event>>
    BY DEF RepaintNow
  <1>2. SurfaceOK(s, device.active, blanked, c \in kicks) /\ s \in Surface
    BY <1>1, Known
  <1>3. /\ SurfaceOK(r, device.active, blanked, c \in kicks')
        /\ r.releasing = s.releasing
    <2> HIDE DEF s
    <2>1. CASE now
      <3>1. r = [s EXCEPT !.dirty = TRUE, !.repaint_timer = "none"] /\ c \in kicks'
        BY <1>1, <2>1
      <3> HIDE DEF now, r
      <3> QED BY <1>2, <3>1 DEF SurfaceOK, Sound, HandedBack, Going, Busy, Recovering, Still, Surface
    <2>2. CASE ~now
      <3>1. r = [s EXCEPT !.dirty = TRUE] /\ kicks' = kicks
        BY <1>1, <1>2, <2>2 DEF Surface
      <3> HIDE DEF r
      <3> QED BY <1>2, <2>2, <3>1 DEF SurfaceOK, Sound, HandedBack, Going, Busy, Recovering, Still, Surface
    <2> QED BY <2>1, <2>2
  <1>4. kicks' \subseteq Crtcs /\ \A d \in DOMAIN surfaces : d # c => (d \in kicks') = (d \in kicks)
    BY <1>1, Known DEF OthersTyped
  <1>5. OthersTyped'
    BY <1>1, <1>4, Known DEF OthersTyped
  <1> HIDE DEF s, now, r
  <1>6. ASSUME NEW d \in DOMAIN surfaces
        PROVE  /\ SurfaceOK(surfaces'[d], device'.active, blanked', d \in kicks')
               /\ surfaces'[d].releasing = surfaces[d].releasing
    <2>1. CASE d = c
      BY <2>1, <1>1, <1>3 DEF s
    <2>2. CASE d # c
      BY <2>2, <1>1, <1>4, Known
    <2> QED BY <2>1, <2>2
  <1>7. DOMAIN surfaces' = DOMAIN surfaces
    BY <1>1
  <1> QED BY <1>1, <1>5, <1>6, <1>7, EachSurface

LEMMA TurnPanicsKeeps ==
  ASSUME FramesInv, NEW c \in Crtcs, TurnPanics(c)
  PROVE  FramesInv'
  <1> DEFINE r(d) == IF d = c THEN [surfaces[d] EXCEPT !.repaint_timer = "none"] ELSE surfaces[d]
  <1>1. /\ surfaces' = [d \in DOMAIN surfaces |-> RepaintOutput(r(d))]
        /\ kicks' = {}
        /\ UNCHANGED <<device, blanked, helpers, event>>
    BY DEF TurnPanics
  <1>2. ASSUME NEW d \in DOMAIN surfaces
        PROVE  /\ SurfaceOK(surfaces'[d], device'.active, blanked', d \in kicks')
               /\ surfaces'[d].releasing = surfaces[d].releasing
    <2>1. Sound(r(d), device.active, blanked) /\ r(d) \in Surface /\ r(d).releasing = surfaces[d].releasing
      BY Known DEF Sound, HandedBack, Busy, Recovering, Still, Surface
    <2>2. surfaces'[d] = RepaintOutput(r(d))
      BY <1>1
    <2> HIDE DEF r
    <2>3. /\ Sound(RepaintOutput(r(d)), device.active, blanked)
          /\ RepaintOutput(r(d)).releasing = surfaces[d].releasing
          /\ Going(RepaintOutput(r(d)), FALSE)
      BY <2>1, RepaintFields DEF Sound
    <2>4. Going(RepaintOutput(r(d)), d \in kicks')
      BY <2>3 DEF Going
    <2> QED BY <1>1, <2>2, <2>3, <2>4 DEF SurfaceOK
  <1>3. OthersTyped'
    BY <1>1, Known DEF OthersTyped
  <1>4. DOMAIN surfaces' = DOMAIN surfaces
    BY <1>1
  <1> QED BY <1>1, <1>2, <1>3, <1>4, EachSurface

-----------------------------------------------------------------------------
(* Page flips.                                                             *)

LEMMA FinishFlipKeeps ==
  ASSUME FramesInv, NEW c \in DOMAIN surfaces, FinishFlip(c, surfaces[c]), event' \subseteq Crtcs,
         UNCHANGED <<device, blanked, kicks, helpers>>
  PROVE  FramesInv'
  <1> DEFINE s == surfaces[c]
             t == [s EXCEPT !.throttle = FALSE, !.flip = "none"]
             r == IF device.active THEN [ForgetFrame(t) EXCEPT !.repaint_timer = "soon"] ELSE t
  <1>1. surfaces' = [surfaces EXCEPT ![c] = r]
    BY DEF FinishFlip
  <1>2. Sound(s, device.active, blanked) /\ s \in Surface
    BY Known
  <1> HIDE DEF s
  <1>3. /\ t \in Surface
        /\ t.releasing = s.releasing
        /\ Still(s) => Still(t)
    BY <1>2 DEF Surface, Still
  <1> HIDE DEF t
  <1>4. CASE device.active
    <2> DEFINE f == ForgetFrame(t)
    <2>1. /\ f \in Surface
          /\ f.releasing = t.releasing
          /\ ~f.held
          /\ Still(t) => Still(f)
      BY <1>3 DEF Surface, Still, ForgetFrame
    <2>2. r = [f EXCEPT !.repaint_timer = "soon"]
      BY <1>4
    <2> HIDE DEF f, r
    <2>3. /\ r \in Surface
          /\ r.releasing = f.releasing
          /\ ~r.held
          /\ r.repaint_timer = "soon"
          /\ Still(f) => Still(r)
      BY <2>1, <2>2 DEF Surface, Still
    <2>4. SurfaceOK(r, device.active, blanked, c \in kicks)
      BY <1>2, <1>3, <2>1, <2>3 DEF SurfaceOK, Sound, HandedBack, Going
    <2> QED BY <1>1, <1>3, <2>1, <2>3, <2>4, OneSurface DEF s
  <1>5. CASE ~device.active
    <2>1. r = t
      BY <1>5
    <2> HIDE DEF r
    <2>2. SurfaceOK(r, device.active, blanked, c \in kicks)
      BY <1>2, <1>3, <1>5, <2>1 DEF SurfaceOK, Sound
    <2> QED BY <1>1, <1>3, <2>1, <2>2, OneSurface DEF s
  <1> QED BY <1>4, <1>5, Known

LEMMA FrameFinishKeeps ==
  ASSUME FramesInv, NEW c \in Crtcs, FrameFinish(c)
  PROVE  FramesInv'
  <1>1. event' \subseteq Crtcs /\ UNCHANGED <<device, blanked, kicks, helpers>>
    BY Known DEF FrameFinish, OthersTyped
  <1>2. CASE UNCHANGED surfaces
    <2>1. OthersTyped'
      BY <1>1, Known DEF OthersTyped
    <2> QED BY <1>1, <1>2, <2>1, Known, EachSurface
  <1>3. CASE c \in DOMAIN surfaces /\ FinishFlip(c, surfaces[c])
    BY <1>1, <1>3, FinishFlipKeeps
  <1>4. CASE /\ c \in DOMAIN surfaces
             /\ surfaces[c].releasing = None
             /\ surfaces[c].flip # "none"
             /\ surfaces' = [surfaces EXCEPT ![c].throttle = TRUE, ![c].flip = "bare"]
    <2> DEFINE s == surfaces[c]
               r == [s EXCEPT !.throttle = TRUE, !.flip = "bare"]
    <2>1. surfaces' = [surfaces EXCEPT ![c] = r]
      BY <1>4
    <2>2. Sound(s, device.active, blanked) /\ s \in Surface
      BY <1>4, Known
    <2>3. ~Still(s) /\ s.releasing = None
      BY <1>4 DEF Still
    <2> HIDE DEF s
    <2>4. /\ SurfaceOK(r, device.active, blanked, c \in kicks)
          /\ r.releasing = s.releasing
      BY <2>2, <2>3 DEF SurfaceOK, Sound, HandedBack, Going, Busy, Surface
    <2> HIDE DEF r
    <2> QED BY <1>1, <1>4, <2>1, <2>4, OneSurface DEF s
  <1> QED BY <1>2, <1>3, <1>4 DEF FrameFinish

LEMMA ThrottledKeeps ==
  ASSUME FramesInv, NEW c \in Crtcs, Throttled(c)
  PROVE  FramesInv'
  <1>1. event' \subseteq Crtcs
    BY Known DEF Throttled, OthersTyped
  <1> QED BY <1>1, FinishFlipKeeps DEF Throttled

LEMMA RecoverKeeps ==
  ASSUME FramesInv, NEW base, NEW C, NEW cause, ~blanked,
         Recoverable(base, C, kicks), Recover(base, C, cause),
         UNCHANGED <<device, blanked, kicks, event>>
  PROVE  FramesInv'
  <1>1. PICK w \in Recoveries(base, C, cause) : surfaces' = w.surfaces /\ helpers' = w.helpers
    BY DEF Recover
  <1>2. Recovered(w, kicks)
    BY <1>1, RecoveriesOK
  <1>3. SurfacesOK' /\ DOMAIN surfaces' = DOMAIN surfaces
    BY <1>1, <1>2 DEF Recovered, SurfacesOK, SurfaceOK, Sound
  <1>4. OthersTyped'
    BY <1>1, <1>2, Known DEF Recovered, Started, OthersTyped
  <1>5. Releases(surfaces', helpers') /\ RescanOK(device', helpers')
    BY <1>1, <1>2, MoreThreads DEF Recovered
  <1> QED BY <1>3, <1>4, <1>5, Known, Assemble

LEMMA FlipTimedOutKeeps ==
  ASSUME FramesInv, NEW c \in Crtcs, FlipTimedOut(c)
  PROVE  FramesInv'
  <1> DEFINE s == surfaces[c]
  <1>1. /\ c \in DOMAIN surfaces
        /\ s.flip = "timed"
        /\ UNCHANGED <<device, blanked, kicks, event>>
    BY DEF FlipTimedOut
  <1>2. Sound(s, device.active, blanked) /\ s \in Surface
    BY <1>1, Known
  <1>3. ~blanked /\ s.releasing = None
    BY <1>1, <1>2 DEF Sound, Still
  <1>4. event' \subseteq Crtcs
    BY <1>1, Known DEF OthersTyped
  <1>5. CASE ~device.active
    <2> DEFINE r == [s EXCEPT !.flip = "none"]
    <2>1. surfaces' = [surfaces EXCEPT ![c] = r] /\ helpers' = helpers
      BY <1>5 DEF FlipTimedOut
    <2>2. SurfaceOK(r, device.active, blanked, c \in kicks) /\ r.releasing = s.releasing
      BY <1>2, <1>3, <1>5 DEF SurfaceOK, Sound, Surface
    <2> HIDE DEF r
    <2> QED BY <1>1, <1>4, <2>1, <2>2, OneSurface
  <1>6. CASE device.active
    <2> DEFINE r == [s EXCEPT !.flip = "bare"]
               base == [surfaces EXCEPT ![c] = r]
    <2>1. Recover(base, {c}, "StuckFlip")
      BY <1>3, <1>6 DEF FlipTimedOut
    <2>2. r \in Surface /\ r.releasing = None
      BY <1>2, <1>3 DEF Surface
    <2>3. /\ DOMAIN base = DOMAIN surfaces
          /\ base[c] = r
          /\ \A d \in DOMAIN surfaces : d # c => base[d] = surfaces[d]
      BY <1>1
    <2> HIDE DEF r, base
    <2>4. Recoverable(base, {c}, kicks)
      <3>1. ASSUME NEW d \in DOMAIN surfaces
            PROVE  /\ base[d] \in Surface
                   /\ base[d].releasing = surfaces[d].releasing
                   /\ base[d].releasing # None => Still(base[d])
        <4>1. CASE d = c
          BY <4>1, <2>2, <2>3, <1>3
        <4>2. CASE d # c
          BY <4>2, <2>3, Known DEF Sound
        <4> QED BY <4>1, <4>2
      <3>2. ASSUME NEW d \in DOMAIN surfaces \ {c}
            PROVE  SurfaceOK(base[d], device.active, FALSE, d \in kicks)
        <4>1. base[d] = surfaces[d] /\ blanked = FALSE
          BY <2>3, <1>3, Known DEF OthersTyped
        <4> QED BY <4>1, Known
      <3> QED BY <1>1, <2>3, <3>1, <3>2, Known DEF Recoverable, OthersTyped
    <2> QED BY <1>1, <1>3, <2>1, <2>4, RecoverKeeps
  <1> QED BY <1>5, <1>6, Known

-----------------------------------------------------------------------------
(* Resets.                                                                 *)

LEMMA SurfacesRecoverable ==
  ASSUME FramesInv, ~blanked, NEW C \in SUBSET DOMAIN surfaces
  PROVE  Recoverable(surfaces, C, kicks)
  <1>1. blanked = FALSE /\ kicks \subseteq Crtcs
    BY Known DEF OthersTyped
  <1> QED BY <1>1, Known DEF Recoverable, Sound

LEMMA ResetDisplaysKeeps ==
  ASSUME FramesInv, ResetDisplays
  PROVE  FramesInv'
  BY SurfacesRecoverable, RecoverKeeps DEF ResetDisplays

LEMMA RecoveryTimerKeeps ==
  ASSUME FramesInv, NEW c \in Crtcs, RecoveryTimer(c)
  PROVE  FramesInv'
  <1> DEFINE s == surfaces[c]
             r == [s EXCEPT !.recovery_timer = FALSE]
             base == [surfaces EXCEPT ![c] = r]
  <1>1. /\ c \in DOMAIN surfaces
        /\ s.recovery_timer
        /\ UNCHANGED <<device, blanked, kicks, event>>
    BY DEF RecoveryTimer
  <1>2. Sound(s, device.active, blanked) /\ s \in Surface
    BY <1>1, Known
  <1>3. ~blanked /\ s.releasing = None
    BY <1>1, <1>2 DEF Sound, Still
  <1>4. r \in Surface /\ r.releasing = None
    BY <1>2, <1>3 DEF Surface
  <1>5. /\ DOMAIN base = DOMAIN surfaces
        /\ base[c] = r
        /\ \A d \in DOMAIN surfaces : d # c => base[d] = surfaces[d]
    BY <1>1
  <1>6. event' \subseteq Crtcs
    BY <1>1, Known DEF OthersTyped
  <1>7. CASE ~device.active
    <2>1. surfaces' = base /\ helpers' = helpers
      BY <1>7 DEF RecoveryTimer
    <2>2. SurfaceOK(r, device.active, blanked, c \in kicks)
      <3> HIDE DEF r
      <3> QED BY <1>3, <1>4, <1>7 DEF SurfaceOK, Sound
    <2> HIDE DEF r
    <2> QED BY <1>1, <1>3, <1>4, <1>6, <2>1, <2>2, OneSurface
  <1>8. CASE UNCHANGED <<surfaces, helpers>>
    <2>1. OthersTyped'
      BY <1>1, <1>8, Known DEF OthersTyped
    <2> QED BY <1>1, <1>8, <2>1, Known, EachSurface
  <1>9. CASE /\ device.active
             /\ ~\E o \in DOMAIN surfaces \ {c} : surfaces[o].releasing # None
             /\ \E id \in Free : LET w == ReleasedDevice(base, c, id)
                                 IN  surfaces' = w.surfaces /\ helpers' = w.helpers
    <2>1. PICK id \in Free : LET w == ReleasedDevice(base, c, id)
                             IN  surfaces' = w.surfaces /\ helpers' = w.helpers
      BY <1>9
    <2> DEFINE w == ReleasedDevice(base, c, id)
    <2>2. surfaces' = w.surfaces /\ helpers' = w.helpers
      BY <2>1
    <2>3. \A d \in DOMAIN surfaces : base[d] \in Surface /\ surfaces[d].releasing = None
      BY <1>3, <1>4, <1>5, <1>9, Known
    <2> HIDE DEF base
    <2>4. /\ DOMAIN w.surfaces = DOMAIN surfaces
          /\ \A d \in DOMAIN surfaces : /\ w.surfaces[d] \in Surface
                                        /\ Recovering(w.surfaces[d])
                                        /\ Still(w.surfaces[d])
          /\ Releases(w.surfaces, w.helpers)
          /\ Started(w.helpers)
      BY <1>1, <1>5, <2>3, DeviceOK
    <2> HIDE DEF w
    <2>5. blanked' = FALSE /\ device' = device
      BY <1>1, <1>3, Known DEF OthersTyped
    <2>6. ASSUME NEW d \in DOMAIN surfaces
          PROVE  SurfaceOK(surfaces'[d], device'.active, FALSE, d \in kicks')
      BY <2>2, <2>4, Resetting
    <2>7. SurfacesOK' /\ DOMAIN surfaces' = DOMAIN surfaces
      BY <2>2, <2>4, <2>5, <2>6 DEF SurfacesOK
    <2>8. OthersTyped'
      BY <1>1, <2>2, <2>4, Known DEF Started, OthersTyped
    <2>9. Releases(surfaces', helpers') /\ RescanOK(device', helpers')
      BY <1>1, <2>2, <2>4, MoreThreads
    <2> QED BY <2>7, <2>8, <2>9, Known, Assemble
  <1> QED BY <1>7, <1>8, <1>9, Known DEF RecoveryTimer

LEMMA WatchdogKeeps ==
  ASSUME FramesInv, Watchdog
  PROVE  FramesInv'
  <1>1. ~blanked /\ UNCHANGED <<device, blanked, kicks, event>>
    BY DEF Watchdog
  <1>2. PICK stuck \in SUBSET DOMAIN surfaces, stopped \in SUBSET DOMAIN surfaces :
           \E w \in Recoveries(surfaces, stuck, "StuckFlip") :
              /\ surfaces' = [c \in DOMAIN surfaces |->
                                IF c \in stopped THEN [w.surfaces[c] EXCEPT !.repaint_timer = "soon"]
                                ELSE w.surfaces[c]]
              /\ helpers' = w.helpers
    <2>1. PICK stuck \in SUBSET {c \in DOMAIN surfaces : ~Recovering(surfaces[c])
                                                         /\ surfaces[c].flip # "none"},
               stopped \in SUBSET {c \in DOMAIN surfaces : ~Busy(surfaces[c])} :
             \E w \in Recoveries(surfaces, stuck, "StuckFlip") :
                /\ surfaces' = [c \in DOMAIN surfaces |->
                                  IF c \in stopped THEN [w.surfaces[c] EXCEPT !.repaint_timer = "soon"]
                                  ELSE w.surfaces[c]]
                /\ helpers' = w.helpers
      BY DEF Watchdog
    <2>2. stuck \in SUBSET DOMAIN surfaces /\ stopped \in SUBSET DOMAIN surfaces
      OBVIOUS
    <2> QED BY <2>1, <2>2
  <1>3. PICK w \in Recoveries(surfaces, stuck, "StuckFlip") :
              /\ surfaces' = [c \in DOMAIN surfaces |->
                                IF c \in stopped THEN [w.surfaces[c] EXCEPT !.repaint_timer = "soon"]
                                ELSE w.surfaces[c]]
              /\ helpers' = w.helpers
    BY <1>2
  <1>4. Recovered(w, kicks)
    BY <1>1, SurfacesRecoverable, RecoveriesOK
  <1>5. blanked = FALSE
    BY <1>1, Known DEF OthersTyped
  <1>6. ASSUME NEW d \in DOMAIN surfaces
        PROVE  /\ SurfaceOK(surfaces'[d], device.active, FALSE, d \in kicks)
               /\ surfaces'[d].releasing = w.surfaces[d].releasing
    <2>1. SurfaceOK(w.surfaces[d], device.active, FALSE, d \in kicks) /\ w.surfaces[d] \in Surface
      BY <1>4 DEF Recovered, SurfaceOK, Sound
    <2>2. CASE d \in stopped
      <3>1. surfaces'[d] = [w.surfaces[d] EXCEPT !.repaint_timer = "soon"]
        BY <1>3, <2>2
      <3> DEFINE s == w.surfaces[d]
                 kicked == d \in kicks
                 active == device.active
      <3>2. s \in Surface /\ SurfaceOK(s, active, FALSE, kicked)
        BY <2>1
      <3> HIDE DEF s, kicked, active
      <3>3. /\ SurfaceOK([s EXCEPT !.repaint_timer = "soon"], active, FALSE, kicked)
            /\ [s EXCEPT !.repaint_timer = "soon"].releasing = s.releasing
        BY <3>2, ArmedSoon
      <3> QED BY <3>1, <3>3 DEF s, kicked, active
    <2>3. CASE d \notin stopped
      <3>1. surfaces'[d] = w.surfaces[d]
        BY <1>3, <2>3
      <3> QED BY <2>1, <3>1
    <2> QED BY <2>2, <2>3
  <1>7. DOMAIN surfaces' = DOMAIN surfaces
    BY <1>3
  <1>8. SurfacesOK'
    BY <1>1, <1>5, <1>6, <1>7 DEF SurfacesOK
  <1>9. OthersTyped'
    BY <1>1, <1>3, <1>4, Known DEF Recovered, Started, OthersTyped
  <1>10. RescanOK(device', helpers')
    BY <1>1, <1>3, <1>4, MoreThreads DEF Recovered
  <1>11. Releases(surfaces', helpers')
    BY <1>3, <1>4, <1>6, <1>7, SameReleases DEF Recovered
  <1> QED BY <1>7, <1>8, <1>9, <1>10, <1>11, Known, Assemble

LEMMA ReleaseDoneKeeps ==
  ASSUME FramesInv, NEW i \in Ids, ReleaseDone(i)
  PROVE  FramesInv'
  <1> DEFINE released == Released(i)
             taken == released \cap helpers[i].owner # {}
  <1>0. /\ helpers \in [Ids -> Work]
        /\ Releases(surfaces, helpers)
        /\ RescanOK(device, helpers)
        /\ DOMAIN surfaces \subseteq Crtcs
    BY Known DEF FramesInv, OthersTyped
  <1>1. /\ helpers[i] # NoHelper
        /\ device' = Rescanned(i)
        /\ helpers' = [helpers EXCEPT ![i] = NoHelper]
        /\ blanked' = blanked
    BY DEF ReleaseDone
  <1>2. /\ released \subseteq DOMAIN surfaces
        /\ \A c \in DOMAIN surfaces : c \in released <=> surfaces[c].releasing = i
    <2>1. ASSUME NEW c \in DOMAIN surfaces, surfaces[c].releasing = i
          PROVE  c \in helpers[i].crtcs
      BY <1>0, <2>1, NoId DEF Releases
    <2> QED BY <2>1 DEF Released
  <1>3. released # {} => taken
    <2> SUFFICES ASSUME NEW c \in released PROVE taken
      OBVIOUS
    <2>1. helpers[i].owner # {}
      BY <1>0, <1>2, NoId DEF Releases
    <2>2. PICK o \in helpers[i].owner : TRUE
      BY <2>1
    <2>3. o \in DOMAIN surfaces /\ surfaces[o].releasing = i
      BY <1>0, <2>1, <2>2 DEF Releases
    <2> QED BY <1>2, <2>2, <2>3
  <1>4. /\ kicks' = IF taken /\ device.active /\ ~blanked THEN kicks \cup released ELSE kicks
        /\ event' = event \ released
    BY DEF ReleaseDone, FinishRelease
  <1>5. PICK fails \in BOOLEAN :
           surfaces' = [c \in DOMAIN surfaces |->
             IF c \notin released THEN surfaces[c]
             ELSE IF ~taken THEN [surfaces[c] EXCEPT !.releasing = None]
             ELSE LET s == [ForgetFrame(surfaces[c]) EXCEPT !.releasing = None, !.dirty = TRUE]
                  IN  IF blanked /\ device.active THEN BlankSurface(s, fails) ELSE s]
    BY DEF ReleaseDone, FinishRelease
  <1> HIDE DEF released, taken
  <1>6. DOMAIN surfaces' = DOMAIN surfaces
    BY <1>5
  <1>7. /\ OthersTyped'
        /\ device'.active = device.active
    <2>1. device' \in [active : BOOLEAN, session : BOOLEAN, probing : BOOLEAN,
                       rescan_pending : BOOLEAN, hotplug : BOOLEAN]
          /\ device'.active = device.active
      BY <1>1, Known DEF Rescanned, OthersTyped
    <2>2. kicks' \subseteq Crtcs /\ event' \subseteq Crtcs
      BY <1>0, <1>2, <1>4, Known DEF OthersTyped
    <2>3. helpers' \in [Ids -> Work]
      BY <1>0, <1>1 DEF Work, NoHelper
    <2> QED BY <1>1, <2>1, <2>2, <2>3, Known DEF OthersTyped
  <1>8. ASSUME NEW c \in DOMAIN surfaces, c \notin released
        PROVE  surfaces'[c] = surfaces[c]
    BY <1>5, <1>8
  <1>9. ASSUME NEW c \in DOMAIN surfaces, c \in released
        PROVE  /\ surfaces'[c].releasing = None
               /\ surfaces'[c] \in Surface
               /\ Still(surfaces'[c])
               /\ ~surfaces'[c].held
    <2> DEFINE f == ForgetFrame(surfaces[c])
               s == [f EXCEPT !.releasing = None, !.dirty = TRUE]
    <2>1. surfaces'[c] = IF blanked /\ device.active THEN BlankSurface(s, fails) ELSE s
      BY <1>5, <1>3, <1>9
    <2>2. surfaces[c] \in Surface /\ Still(surfaces[c])
      BY <1>2, <1>9, Known, NoId DEF Sound
    <2>3. f \in Surface /\ Still(f) /\ ~f.held
      BY <2>2 DEF ForgetFrame, Surface, Still
    <2> HIDE DEF f
    <2>4. s \in Surface /\ Still(s) /\ ~s.held /\ s.releasing = None
      BY <2>3 DEF Surface, Still
    <2> HIDE DEF s
    <2>5. /\ BlankSurface(s, fails) \in Surface
          /\ Still(BlankSurface(s, fails))
          /\ ~BlankSurface(s, fails).held
          /\ BlankSurface(s, fails).releasing = None
      BY <2>4 DEF BlankSurface, ForgetFrame, Surface, Still
    <2> QED BY <2>1, <2>4, <2>5
  <1>10. ASSUME NEW c \in DOMAIN surfaces
         PROVE  SurfaceOK(surfaces'[c], device.active, blanked, c \in kicks')
    <2>1. CASE c \in released
      <3>1. device.active /\ ~blanked => c \in kicks'
        BY <2>1, <1>3, <1>4
      <3>2. Sound(surfaces'[c], device.active, blanked)
        BY <2>1, <1>9 DEF Sound, HandedBack
      <3> QED BY <3>1, <3>2 DEF SurfaceOK, Going
    <2>2. CASE c \notin released
      <3>1. (c \in kicks') = (c \in kicks)
        BY <2>2, <1>4
      <3> QED BY <3>1, <2>2, <1>8, Known
    <2> QED BY <2>1, <2>2
  <1>11. SurfacesOK'
    BY <1>1, <1>6, <1>7, <1>10 DEF SurfacesOK
  <1>12. \A j \in Ids \ {i} : helpers'[j] = helpers[j]
    BY <1>0, <1>1
  <1>13. helpers'[i] = NoHelper /\ helpers'[i].owner = {}
    BY <1>0, <1>1 DEF NoHelper
  <1>14. Releases(surfaces', helpers')
    <2>1. ASSUME NEW j \in Ids, helpers'[j].owner # {}
          PROVE  /\ helpers'[j].owner \subseteq helpers'[j].crtcs
                 /\ helpers'[j].crtcs \subseteq DOMAIN surfaces'
                 /\ \A c \in helpers'[j].crtcs : surfaces'[c].releasing = j
      <3>1. j # i /\ helpers'[j] = helpers[j]
        BY <2>1, <1>12, <1>13
      <3>2. /\ helpers[j].owner \subseteq helpers[j].crtcs
            /\ helpers[j].crtcs \subseteq DOMAIN surfaces
            /\ \A c \in helpers[j].crtcs : surfaces[c].releasing = j
        BY <2>1, <3>1, <1>0 DEF Releases
      <3>3. \A c \in helpers[j].crtcs : surfaces'[c] = surfaces[c]
        BY <3>1, <3>2, <1>2, <1>8
      <3> QED BY <3>1, <3>2, <3>3, <1>6
    <2>2. ASSUME NEW c \in DOMAIN surfaces', surfaces'[c].releasing # None
          PROVE  /\ helpers'[surfaces'[c].releasing].owner # {}
                 /\ c \in helpers'[surfaces'[c].releasing].crtcs
      <3>1. c \in DOMAIN surfaces /\ c \notin released
        BY <2>2, <1>6, <1>9
      <3>2. surfaces'[c] = surfaces[c] /\ surfaces[c].releasing # i
        BY <3>1, <1>2, <1>8
      <3>3. surfaces[c].releasing \in Ids
        BY <2>2, <3>1, <3>2, WhoWaits
      <3> QED BY <2>2, <3>1, <3>2, <3>3, <1>0, <1>12 DEF Releases
    <2> QED BY <2>1, <2>2 DEF Releases
  <1>15. RescanOK(device', helpers')
    <2> SUFFICES ASSUME device'.rescan_pending, ~device'.probing
                 PROVE  \E j \in Ids : helpers'[j] # NoHelper
      BY DEF RescanOK
    <2>1. device' = device /\ device.rescan_pending /\ ~device.probing
      BY <1>1, Known DEF Rescanned, OthersTyped
    <2>2. \E c \in DOMAIN surfaces \ released : surfaces[c].releasing # None
      <3> SUFFICES ASSUME \A c \in DOMAIN surfaces \ released : surfaces[c].releasing = None
                   PROVE  FALSE
        OBVIOUS
      <3>1. device' = [device EXCEPT !.rescan_pending = FALSE, !.hotplug = TRUE]
        BY <1>1, <2>1 DEF Rescanned, released
      <3> QED BY <3>1, <2>1, Known DEF OthersTyped
    <2>3. PICK c \in DOMAIN surfaces \ released : surfaces[c].releasing # None
      BY <2>2
    <2>4. surfaces[c].releasing \in Ids \ {i} /\ helpers[surfaces[c].releasing] # NoHelper
      BY <2>3, <1>2, WhoWaits
    <2> QED BY <2>4, <1>12
  <1> QED BY <1>0, <1>6, <1>7, <1>11, <1>14, <1>15, Assemble

-----------------------------------------------------------------------------
(* The session, the displays' power and their connectors.                  *)

\* Resuming and taking a device back: every surface begins again.
LEMMA BeginAgain ==
  ASSUME FramesInv,
         surfaces' = [c \in DOMAIN surfaces |-> Afresh(surfaces[c])],
         helpers' = Overtaken,
         kicks' \subseteq Crtcs,
         device'.active => DOMAIN surfaces \subseteq kicks',
         device' \in [active : BOOLEAN, session : BOOLEAN, probing : BOOLEAN,
                      rescan_pending : BOOLEAN, hotplug : BOOLEAN],
         device'.rescan_pending = device.rescan_pending,
         device'.probing = device.probing,
         UNCHANGED <<blanked, event>>
  PROVE  FramesInv'
  <1>1. DOMAIN surfaces' = DOMAIN surfaces
    OBVIOUS
  <1>2. \A i \in Ids : /\ helpers'[i].owner = {}
                       /\ helpers[i] # NoHelper => helpers'[i] # NoHelper
                       /\ helpers'[i] \in Work
    <2>1. OvertakenHelper \in Work /\ NoHelper \in Work
      BY DEF OvertakenHelper, NoHelper, Work
    <2>2. OvertakenHelper.owner = {} /\ NoHelper.owner = {}
      BY DEF OvertakenHelper, NoHelper
    <2>3. ASSUME NEW i \in Ids, helpers[i] # NoHelper, OvertakenHelper = NoHelper PROVE FALSE
      <3>1. Crtcs = {}
        BY <2>3 DEF OvertakenHelper, NoHelper
      <3>2. helpers[i] \in Work
        BY Known DEF OthersTyped
      <3> QED BY <2>3, <3>1, <3>2 DEF Work, NoHelper
    <2> QED BY <2>1, <2>2, <2>3 DEF Overtaken
  <1>3. ASSUME NEW c \in DOMAIN surfaces
        PROVE  /\ SurfaceOK(surfaces'[c], device'.active, blanked', c \in kicks')
               /\ surfaces'[c].releasing = None
    <2>1. surfaces'[c] = Afresh(surfaces[c])
      OBVIOUS
    <2>2. /\ Afresh(surfaces[c]) \in Surface
          /\ Still(Afresh(surfaces[c]))
          /\ Afresh(surfaces[c]).releasing = None
          /\ ~Afresh(surfaces[c]).held
      BY Known, AfreshFields
    <2>3. device'.active => c \in kicks'
      OBVIOUS
    <2> QED BY <2>1, <2>2, <2>3 DEF SurfaceOK, Sound, HandedBack, Going
  <1>4. SurfacesOK'
    BY <1>1, <1>3 DEF SurfacesOK
  <1>5. OthersTyped'
    <2>1. helpers' \in [Ids -> Work]
      BY <1>2 DEF Overtaken
    <2> QED BY <2>1, Known DEF OthersTyped
  <1>6. Releases(surfaces', helpers')
    BY <1>1, <1>2, <1>3, NobodyReleases
  <1>7. RescanOK(device', helpers')
    BY <1>2 DEF FramesInv, RescanOK
  <1> QED BY <1>1, <1>4, <1>5, <1>6, <1>7, Known, Assemble

LEMMA ReactivateDeviceKeeps ==
  ASSUME FramesInv, ReactivateDevice
  PROVE  FramesInv'
  <1>1. /\ device' = [device EXCEPT !.active = TRUE]
        /\ surfaces' = [c \in DOMAIN surfaces |-> Afresh(surfaces[c])]
        /\ helpers' = Overtaken
        /\ kicks' = DOMAIN surfaces
        /\ UNCHANGED <<blanked, event>>
    BY DEF ReactivateDevice
  <1>2. /\ device' \in [active : BOOLEAN, session : BOOLEAN, probing : BOOLEAN,
                        rescan_pending : BOOLEAN, hotplug : BOOLEAN]
        /\ device'.rescan_pending = device.rescan_pending
        /\ device'.probing = device.probing
    BY <1>1, Known DEF OthersTyped
  <1> QED BY <1>1, <1>2, Known, BeginAgain

LEMMA ActivateSessionKeeps ==
  ASSUME FramesInv, ActivateSession
  PROVE  FramesInv'
  <1>1. PICK takes \in BOOLEAN :
          /\ device' = [device EXCEPT !.active = takes, !.session = TRUE]
          /\ kicks' = IF takes THEN kicks \cup DOMAIN surfaces ELSE kicks
    BY DEF ActivateSession
  <1>2. /\ surfaces' = [c \in DOMAIN surfaces |-> Afresh(surfaces[c])]
        /\ helpers' = Overtaken
        /\ UNCHANGED <<blanked, event>>
    BY DEF ActivateSession
  <1>3. /\ device' \in [active : BOOLEAN, session : BOOLEAN, probing : BOOLEAN,
                        rescan_pending : BOOLEAN, hotplug : BOOLEAN]
        /\ device'.rescan_pending = device.rescan_pending
        /\ device'.probing = device.probing
        /\ device'.active = takes
    BY <1>1, Known DEF OthersTyped
  <1>4. kicks' \subseteq Crtcs /\ (device'.active => DOMAIN surfaces \subseteq kicks')
    BY <1>1, <1>3, Known DEF OthersTyped
  <1> QED BY <1>2, <1>3, <1>4, BeginAgain

LEMMA PauseSessionKeeps ==
  ASSUME FramesInv, PauseSession
  PROVE  FramesInv'
  <1>1. /\ device' = [device EXCEPT !.active = FALSE, !.session = FALSE]
        /\ UNCHANGED <<surfaces, blanked, kicks, helpers, event>>
    BY DEF PauseSession
  <1>2. /\ device' \in [active : BOOLEAN, session : BOOLEAN, probing : BOOLEAN,
                        rescan_pending : BOOLEAN, hotplug : BOOLEAN]
        /\ device'.rescan_pending = device.rescan_pending
        /\ device'.probing = device.probing
        /\ device'.active = FALSE
    BY <1>1, Known DEF OthersTyped
  <1>3. OthersTyped'
    BY <1>1, <1>2, Known DEF OthersTyped
  <1>4. \A d \in DOMAIN surfaces : SurfaceOK(surfaces[d], FALSE, blanked, d \in kicks)
    BY Known DEF SurfaceOK, Sound
  <1> QED BY <1>1, <1>2, <1>3, <1>4, EachSurface

LEMMA SetBlankedKeeps ==
  ASSUME FramesInv, SetBlanked
  PROVE  FramesInv'
  <1>1. ~blanked /\ blanked' = TRUE /\ UNCHANGED <<device, kicks, helpers, event>>
    BY DEF SetBlanked
  <1>2. PICK fails \in BOOLEAN :
          surfaces' = [c \in DOMAIN surfaces |->
             LET s == Halted(surfaces[c])
             IN  IF s.releasing # None \/ ~device.active THEN s ELSE BlankSurface(s, fails)]
    BY DEF SetBlanked
  <1>3. ASSUME NEW d \in DOMAIN surfaces
        PROVE  /\ SurfaceOK(surfaces'[d], device'.active, blanked', d \in kicks')
               /\ surfaces'[d].releasing = surfaces[d].releasing
    <2> DEFINE s == Halted(surfaces[d])
    <2>1. surfaces'[d] = IF s.releasing # None \/ ~device.active THEN s ELSE BlankSurface(s, fails)
      BY <1>2
    <2>2. s \in Surface /\ Still(s) /\ s.releasing = surfaces[d].releasing
      BY Known, HaltedFields
    <2> HIDE DEF s
    <2>3. CASE s.releasing # None \/ ~device.active
      BY <1>1, <2>1, <2>2, <2>3 DEF SurfaceOK, Sound, HandedBack, Busy, Recovering
    <2>4. CASE ~(s.releasing # None \/ ~device.active)
      <3> DEFINE b == BlankSurface(s, fails)
      <3>1. /\ b \in Surface
            /\ Still(b)
            /\ b.releasing = s.releasing
            /\ b.held => b.uncleared
        <4>1. CASE fails
          BY <2>2, <4>1 DEF BlankSurface, Surface, Still
        <4>2. CASE ~fails
          BY <2>2, <4>2 DEF BlankSurface, ForgetFrame, Surface, Still
        <4> QED BY <4>1, <4>2
      <3> HIDE DEF b
      <3>2. surfaces'[d] = b
        BY <2>1, <2>4 DEF b
      <3> QED BY <1>1, <2>2, <3>1, <3>2 DEF SurfaceOK, Sound, HandedBack
    <2> QED BY <2>3, <2>4
  <1>4. OthersTyped'
    BY <1>1, Known DEF OthersTyped
  <1>5. DOMAIN surfaces' = DOMAIN surfaces
    BY <1>2
  <1> QED BY <1>1, <1>3, <1>4, <1>5, EachSurface

LEMMA SetUnblankedKeeps ==
  ASSUME FramesInv, SetUnblanked
  PROVE  FramesInv'
  <1>1. /\ blanked /\ blanked' = FALSE
        /\ surfaces' = [c \in DOMAIN surfaces |-> [surfaces[c] EXCEPT !.dirty = TRUE]]
        /\ kicks' = kicks \cup DOMAIN surfaces
        /\ UNCHANGED <<device, helpers, event>>
    BY DEF SetUnblanked
  <1>2. ASSUME NEW d \in DOMAIN surfaces
        PROVE  /\ SurfaceOK(surfaces'[d], device'.active, blanked', d \in kicks')
               /\ surfaces'[d].releasing = surfaces[d].releasing
    <2> DEFINE s == surfaces[d]
    <2>1. surfaces'[d] = [s EXCEPT !.dirty = TRUE]
      BY <1>1
    <2>2. Sound(s, device.active, blanked) /\ s \in Surface /\ d \in kicks'
      BY <1>1, Known
    <2> HIDE DEF s
    <2>3. /\ Sound([s EXCEPT !.dirty = TRUE], device.active, FALSE)
          /\ [s EXCEPT !.dirty = TRUE].releasing = s.releasing
      BY <2>2 DEF Sound, HandedBack, Busy, Recovering, Still, Surface
    <2> QED BY <1>1, <2>1, <2>2, <2>3 DEF SurfaceOK, Going, s
  <1>3. OthersTyped'
    BY <1>1, Known DEF OthersTyped
  <1>4. DOMAIN surfaces' = DOMAIN surfaces
    BY <1>1
  <1> QED BY <1>1, <1>2, <1>3, <1>4, EachSurface

LEMMA SetOutputModeKeeps ==
  ASSUME FramesInv, SetOutputMode
  PROVE  FramesInv'
  <1>1. /\ surfaces' = [c \in DOMAIN surfaces |-> RepaintOutput(StrandFrame(surfaces[c]))]
        /\ UNCHANGED <<device, blanked, kicks, helpers, event>>
    BY DEF SetOutputMode
  <1>2. ASSUME NEW d \in DOMAIN surfaces
        PROVE  /\ SurfaceOK(surfaces'[d], device'.active, blanked', d \in kicks')
               /\ surfaces'[d].releasing = surfaces[d].releasing
    <2> DEFINE s == StrandFrame(surfaces[d])
               r == RepaintOutput(s)
    <2>1. surfaces'[d] = r
      BY <1>1
    <2>2. Sound(s, device.active, blanked) /\ s \in Surface /\ s.releasing = surfaces[d].releasing
      BY Known, StrandFields DEF Sound
    <2> HIDE DEF s
    <2>3. /\ Sound(r, device.active, blanked)
          /\ r.releasing = s.releasing
          /\ Going(r, FALSE)
      BY <2>2, RepaintFields DEF Sound
    <2> HIDE DEF r
    <2>4. Going(r, d \in kicks)
      BY <2>3 DEF Going
    <2> QED BY <1>1, <2>1, <2>2, <2>3, <2>4 DEF SurfaceOK
  <1>3. OthersTyped'
    BY <1>1, Known DEF OthersTyped
  <1>4. DOMAIN surfaces' = DOMAIN surfaces
    BY <1>1
  <1> QED BY <1>1, <1>2, <1>3, <1>4, EachSurface

LEMMA NewSurfaceFields ==
  /\ NewSurface \in Surface
  /\ Still(NewSurface)
  /\ NewSurface.releasing = None
  /\ ~NewSurface.held
  BY DEF NewSurface, Surface, Still

\* Outputs come and go only while no thread works on one.
LEMMA OutputsKeep ==
  ASSUME FramesInv, \A c \in DOMAIN surfaces : surfaces[c].releasing = None,
         NEW now \in SUBSET Crtcs, Outputs(now),
         device' \in [active : BOOLEAN, session : BOOLEAN, probing : BOOLEAN,
                      rescan_pending : BOOLEAN, hotplug : BOOLEAN],
         device'.active = device.active,
         device'.rescan_pending => device.rescan_pending /\ device'.probing = device.probing,
         UNCHANGED <<blanked, helpers, event>>
  PROVE  FramesInv'
  <1>1. /\ surfaces' = [c \in now |-> IF c \in DOMAIN surfaces
                                      THEN IF now = DOMAIN surfaces THEN surfaces[c]
                                           ELSE StrandFrame(surfaces[c])
                                      ELSE NewSurface]
        /\ kicks' = IF now = DOMAIN surfaces THEN kicks ELSE kicks \cup now
    BY DEF Outputs
  <1>2. DOMAIN surfaces' = now
    BY <1>1
  <1>3. ASSUME NEW d \in now
        PROVE  /\ SurfaceOK(surfaces'[d], device'.active, blanked', d \in kicks')
               /\ surfaces'[d].releasing = None
    <2>1. CASE now = DOMAIN surfaces
      BY <2>1, <1>1, Known
    <2>2. CASE now # DOMAIN surfaces /\ d \in DOMAIN surfaces
      <3> DEFINE s == StrandFrame(surfaces[d])
      <3>1. surfaces'[d] = s /\ d \in kicks'
        BY <2>2, <1>1
      <3>2. Sound(s, device.active, blanked) /\ s.releasing = None
        BY <2>2, Known, StrandFields DEF Sound
      <3> HIDE DEF s
      <3> QED BY <3>1, <3>2 DEF SurfaceOK, Going
    <2>3. CASE now # DOMAIN surfaces /\ d \notin DOMAIN surfaces
      <3>1. surfaces'[d] = NewSurface /\ d \in kicks'
        BY <2>3, <1>1
      <3> QED BY <3>1, NewSurfaceFields DEF SurfaceOK, Sound, HandedBack, Going
    <2> QED BY <2>1, <2>2, <2>3
  <1>4. SurfacesOK'
    BY <1>2, <1>3 DEF SurfacesOK
  <1>5. OthersTyped'
    BY <1>1, Known DEF OthersTyped
  <1>6. Releases(surfaces', helpers')
    BY <1>2, <1>3, NoOwners, NobodyReleases
  <1>7. RescanOK(device', helpers')
    BY DEF FramesInv, RescanOK
  <1> QED BY <1>2, <1>4, <1>5, <1>6, <1>7, Assemble

LEMMA SetOutputEnabledKeeps ==
  ASSUME FramesInv, NEW c \in Crtcs, SetOutputEnabled(c)
  PROVE  FramesInv'
  <1>1. /\ \A d \in DOMAIN surfaces : surfaces[d].releasing = None
        /\ UNCHANGED <<device, blanked, helpers, event>>
    BY DEF SetOutputEnabled, Recovering
  <1>2. \E now \in SUBSET Crtcs : Outputs(now)
    <2>1. Outputs(DOMAIN surfaces \ {c}) \/ Outputs(DOMAIN surfaces \cup {c})
      BY DEF SetOutputEnabled
    <2> QED BY <2>1, Known
  <1> QED BY <1>1, <1>2, Known, OutputsKeep DEF OthersTyped

LEMMA HotplugChangedKeeps ==
  ASSUME FramesInv, HotplugChanged
  PROVE  FramesInv'
  <1>1. /\ device' = [device EXCEPT !.hotplug = TRUE]
        /\ UNCHANGED <<surfaces, blanked, kicks, helpers, event>>
    BY DEF HotplugChanged
  <1>2. /\ OthersTyped'
        /\ device'.active = device.active
        /\ device'.rescan_pending = device.rescan_pending
        /\ device'.probing = device.probing
    BY <1>1, Known DEF OthersTyped
  <1> QED BY <1>1, <1>2, Known, EachSurface

\* A step that changes nothing but what is known of the connectors.
LEMMA DeviceOnly ==
  ASSUME FramesInv, UNCHANGED <<surfaces, blanked, kicks, helpers, event>>,
         device' \in [active : BOOLEAN, session : BOOLEAN, probing : BOOLEAN,
                      rescan_pending : BOOLEAN, hotplug : BOOLEAN],
         device'.active = device.active,
         RescanOK(device', helpers)
  PROVE  FramesInv'
  <1>1. OthersTyped' /\ SurfacesOK'
    BY Known DEF OthersTyped, SurfacesOK
  <1>2. Releases(surfaces', helpers')
    BY DEF FramesInv
  <1> QED BY <1>1, <1>2, Known, Assemble

LEMMA ProbeConnectorsKeeps ==
  ASSUME FramesInv, ProbeConnectors
  PROVE  FramesInv'
  <1>1. UNCHANGED <<surfaces, blanked, kicks, helpers, event>>
    BY DEF ProbeConnectors
  <1>2. CASE device.probing
    <2>1. device' = [device EXCEPT !.hotplug = FALSE, !.rescan_pending = TRUE]
      BY <1>2 DEF ProbeConnectors
    <2> QED BY <1>1, <1>2, <2>1, Known, DeviceOnly DEF OthersTyped, RescanOK
  <1>3. CASE ~device.probing
    <2>1. device' = [device EXCEPT !.hotplug = FALSE, !.probing = TRUE]
      BY <1>3 DEF ProbeConnectors
    <2> QED BY <1>1, <1>3, <2>1, Known, DeviceOnly DEF OthersTyped, RescanOK
  <1> QED BY <1>2, <1>3

LEMMA ProbeDoneKeeps ==
  ASSUME FramesInv, ProbeDone
  PROVE  FramesInv'
  <1>1. CASE \E c \in DOMAIN surfaces : surfaces[c].releasing # None
    <2>1. /\ device' = [device EXCEPT !.probing = FALSE, !.rescan_pending = TRUE]
          /\ UNCHANGED <<surfaces, kicks, blanked, helpers, event>>
      BY <1>1 DEF ProbeDone
    <2>2. \E i \in Ids : helpers[i] # NoHelper
      BY <1>1, WhoWaits
    <2> QED BY <2>1, <2>2, Known, DeviceOnly DEF OthersTyped, RescanOK
  <1>2. CASE \A c \in DOMAIN surfaces : surfaces[c].releasing = None
    <2>1. /\ device' = [device EXCEPT !.probing = FALSE, !.rescan_pending = FALSE,
                                      !.hotplug = @ \/ device.rescan_pending]
          /\ UNCHANGED <<blanked, helpers, event>>
      BY <1>2 DEF ProbeDone
    <2>2. PICK now \in SUBSET Crtcs : Outputs(now)
      BY <1>2 DEF ProbeDone
    <2>3. /\ device' \in [active : BOOLEAN, session : BOOLEAN, probing : BOOLEAN,
                          rescan_pending : BOOLEAN, hotplug : BOOLEAN]
          /\ device'.active = device.active
          /\ ~device'.rescan_pending
      BY <2>1, Known DEF OthersTyped
    <2> QED BY <1>2, <2>1, <2>2, <2>3, OutputsKeep
  <1> QED BY <1>1, <1>2

-----------------------------------------------------------------------------
(* The invariant.                                                          *)

LEMMA FramesInvInit == FramesInit => FramesInv
  <1> SUFFICES ASSUME FramesInit PROVE FramesInv
    OBVIOUS
  <1>1. PICK lit \in SUBSET Crtcs : surfaces = [c \in lit |-> NewSurface]
    BY DEF FramesInit
  <1>2. /\ device = [active |-> TRUE, session |-> TRUE, probing |-> FALSE,
                     rescan_pending |-> FALSE, hotplug |-> FALSE]
        /\ blanked = FALSE
        /\ kicks = lit
        /\ helpers = [i \in Ids |-> NoHelper]
        /\ event = {}
    BY <1>1 DEF FramesInit
  <1>3. DOMAIN surfaces = lit /\ \A c \in lit : surfaces[c] = NewSurface
    BY <1>1
  <1>4. SurfacesOK
    BY <1>2, <1>3, NewSurfaceFields DEF SurfacesOK, SurfaceOK, Sound, HandedBack, Going
  <1>5. FramesTypeOK
    <2>1. NoHelper \in Work
      BY DEF NoHelper, Work
    <2> QED BY <1>2, <1>3, <2>1, NewSurfaceFields DEF FramesTypeOK, Work
  <1>6. Releases(surfaces, helpers)
    BY <1>2, <1>3, NewSurfaceFields, NobodyReleases DEF NoHelper
  <1> QED BY <1>2, <1>4, <1>5, <1>6 DEF FramesInv, RescanOK

LEMMA FramesInvStep == FramesInv /\ [FramesNext]_frameVars => FramesInv'
  <1> SUFFICES ASSUME FramesInv, [FramesNext]_frameVars PROVE FramesInv'
    OBVIOUS
  <1>1. CASE Turn
    <2>1. ASSUME NEW c \in Crtcs,
                 Kick(c) \/ RepaintTimer(c) \/ FrameFinish(c) \/ Throttled(c)
                 \/ FlipTimedOut(c) \/ RecoveryTimer(c)
          PROVE  FramesInv'
      BY <2>1, KickKeeps, RepaintTimerKeeps, FrameFinishKeeps, ThrottledKeeps,
         FlipTimedOutKeeps, RecoveryTimerKeeps
    <2>2. ASSUME NEW i \in Ids, ReleaseDone(i) PROVE FramesInv'
      BY <2>2, ReleaseDoneKeeps
    <2> QED BY <1>1, <2>1, <2>2, WatchdogKeeps DEF Turn
  <1>2. CASE Changes \/ Panics
    BY <1>2, RepaintNowKeeps, RequestRepaintKeeps, TurnPanicsKeeps DEF Changes, Panics
  <1>3. CASE Session \/ Power
    BY <1>3, PauseSessionKeeps, ActivateSessionKeeps, ReactivateDeviceKeeps,
       SetBlankedKeeps, SetUnblankedKeeps DEF Session, Power
  <1>4. CASE Plug \/ Asked
    BY <1>4, HotplugChangedKeeps, ProbeConnectorsKeeps, ProbeDoneKeeps, SetOutputEnabledKeeps,
       ResetDisplaysKeeps, SetOutputModeKeeps DEF Plug, Asked
  <1>5. CASE UNCHANGED frameVars
    BY <1>5 DEF frameVars, FramesInv, FramesTypeOK, SurfacesOK
  <1> QED BY <1>1, <1>2, <1>3, <1>4, <1>5 DEF FramesNext

LEMMA FramesAlways == FramesSpec => []FramesInv
  BY FramesInvInit, FramesInvStep, PTL DEF FramesSpec

(* Whatever the kernel loses or refuses and however pauses, blanks, resets *)
(* and connector changes fall together, a lit output has a timer, a flip,  *)
(* a reset or a callback that continues its loop (SurfaceData::busy).      *)
THEOREM LoopAlive == FramesSpec => []LoopIsAlive
  <1>1. FramesInv => LoopIsAlive
    BY DEF FramesInv, SurfacesOK, SurfaceOK, Going, LoopIsAlive, Lit
  <1> QED BY <1>1, FramesAlways, PTL

(* Frames that are given up go back to the DRM compositor, helper threads  *)
(* never work on one CRTC together or under a frame, and a scan that was   *)
(* put off is repeated (strand_frame, start_release, release_done).        *)
THEOREM FramesSound == FramesSpec => []FramesAreSound
  <1>1. FramesInv => FramesAreHandedBack
    BY DEF FramesInv, SurfacesOK, SurfaceOK, Sound, HandedBack, FramesAreHandedBack, Lit
  <1>2. FramesInv => HelpersWorkAlone
    <2> SUFFICES ASSUME FramesInv, NEW i \in Ids, helpers[i].owner # {}
                 PROVE  /\ \A c \in helpers[i].crtcs \cap DOMAIN surfaces :
                              surfaces[c].releasing = i /\ surfaces[c].flip = "none"
                        /\ \A j \in Ids \ {i} :
                              helpers[j].owner # {} => helpers[i].crtcs \cap helpers[j].crtcs = {}
      BY DEF HelpersWorkAlone
    <2>1. \A j \in Ids : helpers[j].owner # {} =>
             /\ helpers[j].crtcs \subseteq DOMAIN surfaces
             /\ \A c \in helpers[j].crtcs : surfaces[c].releasing = j
      BY DEF FramesInv, Releases
    <2>2. \A c \in helpers[i].crtcs : Still(surfaces[c])
      BY <2>1, NoId, Known DEF Sound
    <2> QED BY <2>1, <2>2 DEF Still
  <1>3. FramesInv => RescanIsNotLost
    BY DEF FramesInv, RescanOK, RescanIsNotLost
  <1> QED BY <1>1, <1>2, <1>3, FramesAlways, PTL DEF FramesAreSound

\* Every surface, thread and flag stays in the set the program keeps it in.
THEOREM FramesTyped == FramesSpec => []FramesTypeOK
  BY FramesAlways, PTL DEF FramesInv

-----------------------------------------------------------------------------
\* The research kernel's tasks.

All == Tasks \cup {Idle}

States == {"running", "runnable", "blocked", "zombie"}

Cpu == [state : [All -> States], onRq : [All -> BOOLEAN], runq : Seq(Tasks), current : All, resched : BOOLEAN]

\* Where a task is when its call is over; what it is at within a wait, and within a poll.
Out == {"unborn", "user", "return", "gone"}
InWait == {"check", "enlist", "sleep", "asleep", "awake"}
InPoll == {"prepare", "scan", "poll sleep", "poll asleep", "poll awake", "prepare again"}

Call == [for : SUBSET Queues, interruptible : BOOLEAN, deadline : BOOLEAN, again : BOOLEAN]

SchedTypeOK ==
    /\ cpu \in Cpu
    /\ at \in [Tasks -> Out \cup InWait \cup InPoll]
    /\ call \in [Tasks -> Call]
    /\ waiters \in [Queues -> Seq(Tasks)]
    /\ sleepers \in Seq(Tasks)
    /\ late \subseteq Tasks /\ timedOut \subseteq Tasks /\ interruptible \subseteq Tasks /\ pending \subseteq Tasks
    /\ giving \subseteq Devices
    /\ owner \in Tasks \cup {NoTask}

On(list, t) == \E i \in DOMAIN list : list[i] = t

\* The run queue, of a CPU whose current task may be about to die.
Queued(c) ==
    /\ \A i, j \in DOMAIN c.runq : c.runq[i] = c.runq[j] => i = j
    /\ \A i \in DOMAIN c.runq : /\ c.runq[i] # c.current
                                /\ c.state[c.runq[i]] = "runnable" /\ c.onRq[c.runq[i]]
    /\ c.state[Idle] \in {"running", "runnable"}

\* The tasks that have given up the CPU, and may get it again.
Away == {"return", "awake", "poll awake"}

CpuInv ==
    /\ Queued(cpu)
    /\ \A t \in Tasks : t # cpu.current => at[t] \in Away \cup {"unborn", "gone"}
    /\ \A t \in Tasks : at[t] = "unborn" => t # cpu.current /\ ~On(cpu.runq, t)
    /\ \A t \in Tasks : cpu.state[t] = "zombie" <=> at[t] = "gone"
    /\ \A t \in Tasks : at[t] = "gone" => t # cpu.current

\* What a call is, by where its task is.
Called(t) ==
    /\ at[t] \in Out => call[t] = NoCall
    /\ at[t] \in InWait => /\ call[t].for # {} /\ ~call[t].again
                           /\ Lock \in call[t].for => call[t] = [NoCall EXCEPT !.for = {Lock}]
    /\ at[t] \in InPoll => call[t].for = Devices /\ call[t].interruptible
    /\ at[t] \in {"asleep", "poll asleep"} => call[t].deadline

\* Who may be on a queue, among the timers, open to signals.
Listed == {"sleep", "asleep", "awake", "scan", "poll sleep", "poll asleep", "poll awake"}
Left(t) ==
    /\ \A q \in Queues : On(waiters[q], t) => q \in call[t].for /\ at[t] \in Listed \cup {"prepare again"}
    /\ On(sleepers, t) => at[t] \in {"asleep", "awake", "poll asleep", "poll awake"}
    /\ t \in interruptible => at[t] \in Listed

\* Who is blocked has enlisted, and nothing it waits for has come since.
Enlisted(t) ==
    /\ at[t] \in IF t = cpu.current THEN {"sleep", "asleep", "scan", "poll sleep", "poll asleep"} ELSE {"awake", "poll awake"}
    /\ at[t] \in InWait \/ call[t].again =>
          \A q \in call[t].for : On(waiters[q], t) /\ (q = Lock \/ at[t] = "scan" \/ q \notin giving)

Placed(t) == Called(t) /\ Left(t) /\ (cpu.state[t] = "blocked" => Enlisted(t))

\* While the mutex is free and somebody sleeps for it, somebody is about to try again.
WantsLock(t) == Lock \in call[t].for
MutexInv ==
    owner = NoTask /\ (\E t \in Tasks : WantsLock(t) /\ cpu.state[t] = "blocked") =>
        \E t \in Tasks : WantsLock(t) /\ cpu.state[t] # "blocked"

SchedInv == SchedTypeOK /\ CpuInv /\ (\A t \in Tasks : Placed(t)) /\ MutexInv

-----------------------------------------------------------------------------
(* Sublists, and the places they are made of. *)

\* A set of places has a least one.
LEMMA SchedLeast ==
    ASSUME NEW L, L \subseteq Nat, L # {}
    PROVE  \E x \in L : \A y \in L : x <= y
<1> DEFINE R == OpToRel(<, Nat)
<1>1. IsWellFoundedOn(R, Nat)
  BY NatLessThanWellFounded
<1>2. \A x, y \in Nat : x < y => <<x, y>> \in R
  BY DEF OpToRel
<1> HIDE DEF R
<1>3. PICK x \in L : \A y \in L : ~(<<y, x>> \in R)
  BY <1>1, WFMin
<1>4. ASSUME NEW y \in L PROVE x <= y
  <2>1. x \in Nat /\ y \in Nat
    OBVIOUS
  <2>2. ~(y < x)
    BY <1>2, <1>3, <2>1
  <2> QED
    BY <2>1, <2>2
<1> QED
  BY <1>4

\* The places are taken in order, each once.
LEMMA PlacesInOrder ==
    ASSUME NEW n \in Nat, NEW K \in SUBSET (1..n)
    PROVE  /\ Cardinality(K) \in Nat
           /\ \A m \in 1..Cardinality(K) : \E i \in K : Cardinality({j \in K : j <= i}) = m
           /\ \A i \in K : Cardinality({j \in K : j <= i}) \in 1..Cardinality(K)
           /\ \A i, k \in K : Cardinality({j \in K : j <= i}) = Cardinality({j \in K : j <= k}) => i = k
<1> DEFINE Low(i) == {j \in K : j <= i}
           f == [i \in K |-> Cardinality(Low(i))]
           m == Cardinality(K)
<1>0. \A A : Cardinality(A) = Cardinality(A)
  BY DEF Cardinality, Cardinality
<1>1. IsFiniteSet(K) /\ m \in Nat
  <2>1. IsFiniteSet(1..n)
    BY FS_Interval
  <2> QED
    BY <2>1, FS_Subset, FS_CardinalityType
<1>2. \A i \in K : IsFiniteSet(Low(i)) /\ Cardinality(Low(i)) \in 1..m
  <2> SUFFICES ASSUME NEW i \in K PROVE IsFiniteSet(Low(i)) /\ Cardinality(Low(i)) \in 1..m
    OBVIOUS
  <2>1. Low(i) \in SUBSET K /\ i \in Low(i)
    OBVIOUS
  <2> HIDE DEF Low
  <2>2. IsFiniteSet(Low(i)) /\ Cardinality(Low(i)) <= m
    BY <1>1, <2>1, FS_Subset
  <2>3. Cardinality(Low(i)) \in Nat /\ Cardinality(Low(i)) # 0
    BY <2>1, <2>2, FS_CardinalityType, FS_EmptySet
  <2> HIDE DEF m
  <2> QED
    BY <1>1, <2>2, <2>3
<1>3. \A i, k \in K : Cardinality(Low(i)) = Cardinality(Low(k)) => i = k
  <2> SUFFICES ASSUME NEW i \in K, NEW k \in K, i < k PROVE Cardinality(Low(i)) # Cardinality(Low(k))
    <3>1. \A i, k \in K : i < k \/ k < i \/ i = k
      OBVIOUS
    <3> HIDE DEF Low
    <3> QED
      BY <3>1
  <2>1. Low(i) \in SUBSET Low(k) /\ k \in Low(k) /\ k \notin Low(i)
    <3>1. \A j \in K : j \in Nat
      OBVIOUS
    <3>2. i \in Nat /\ k \in Nat /\ ~(k <= i)
      BY <3>1
    <3>3. \A j \in K : j <= i => j <= k
      BY <3>1, <3>2
    <3>4. \A j \in Low(i) : j \in Low(k)
      BY <3>3
    <3>5. k \in Low(k) /\ k \notin Low(i)
      BY <3>2
    <3> HIDE DEF Low
    <3> QED
      BY <3>4, <3>5
  <2> HIDE DEF Low
  <2> QED
    BY <1>2, <2>1, FS_Subset
<1> HIDE DEF Low, m
<1>4. f \in [K -> 1..m] /\ \A i, k \in K : f[i] = f[k] => i = k
  BY <1>2, <1>3
<1>5. f \in Injection(K, 1..m)
  BY <1>4 DEF Injection, IsInjective
<1>6. IsFiniteSet(1..m) /\ Cardinality(1..m) = m
  BY <1>1, FS_Interval
<1> HIDE DEF f
<1>7. f \in Surjection(K, 1..m)
  BY <1>5, <1>6, FS_Injection DEF m
<1>8. \A x \in 1..m : \E i \in K : f[i] = x
  BY <1>7 DEF Surjection
<1>9. \A x \in 1..m : \E i \in K : Cardinality(Low(i)) = x
  BY <1>8 DEF f
<1> QED
  BY <1>0, <1>1, <1>2, <1>3, <1>9 DEF Low, m

\* A sublist has what is at the places, each place once.
LEMMA OnlyDoes ==
    ASSUME NEW X, NEW l \in Seq(X), NEW K \in SUBSET DOMAIN l
    PROVE  /\ Only(l, K) \in Seq(X)
           /\ \A x : On(Only(l, K), x) <=> \E i \in K : l[i] = x
           /\ (\A i, j \in K : l[i] = l[j] => i = j) =>
                 \A i, j \in DOMAIN Only(l, K) : Only(l, K)[i] = Only(l, K)[j] => i = j
<1> DEFINE n == Cardinality(K)
           Rank(i) == Cardinality({j \in K : j <= i})
           Place(k) == CHOOSE i \in K : Rank(i) = k
           s == Only(l, K)
<1>1. Len(l) \in Nat /\ DOMAIN l = 1..Len(l) /\ K \in SUBSET (1..Len(l))
  OBVIOUS
<1>2. /\ n \in Nat
      /\ \A k \in 1..n : \E i \in K : Rank(i) = k
      /\ \A i \in K : Rank(i) \in 1..n
      /\ \A i, k \in K : Rank(i) = Rank(k) => i = k
  <2> HIDE DEF n
  <2> QED
    BY <1>1, PlacesInOrder DEF n
<1>3. s = [k \in 1..n |-> l[Place(k)]]
  BY DEF Only
<1> HIDE DEF n, Rank, s
<1>4. \A k \in 1..n : Place(k) \in K /\ Rank(Place(k)) = k
  BY <1>2
<1>5. \A i \in K : Place(Rank(i)) = i /\ Rank(i) \in 1..n
  BY <1>2
<1> HIDE DEF Place
<1>6. DOMAIN s = 1..n /\ \A k \in 1..n : s[k] = l[Place(k)]
  BY <1>3
<1>7. \A i \in K : l[i] \in X
  OBVIOUS
<1>8. s \in Seq(X)
  BY <1>2, <1>3, <1>4, <1>7
<1>9. \A x : On(s, x) <=> \E i \in K : l[i] = x
  BY <1>4, <1>5, <1>6 DEF On
<1>10. ASSUME \A i, j \in K : l[i] = l[j] => i = j, NEW i \in DOMAIN s, NEW j \in DOMAIN s, s[i] = s[j]
       PROVE  i = j
  BY <1>4, <1>6, <1>10
<1> QED
  BY <1>8, <1>9, <1>10 DEF s

-----------------------------------------------------------------------------
(* The functions of the run queue. *)

LEMMA WakeAllDoes ==
    ASSUME NEW c \in Cpu, Queued(c), NEW l \in Seq(Tasks), NEW d, d = WakeAll(c, l)
    PROVE  /\ d \in Cpu /\ Queued(d) /\ d.current = c.current
           /\ \A t \in All : d.state[t] = IF On(l, t) /\ c.state[t] # "zombie" THEN "runnable" ELSE c.state[t]
           /\ \A t \in Tasks : On(d.runq, t) => On(c.runq, t) \/ On(l, t)
<1> DEFINE woken == {t \in Range(l) : c.state[t] # "zombie"}
           queued == {t \in Range(c.runq) : c.onRq[t]} \cup {c.current}
           new == {i \in DOMAIN l : l[i] \in woken \ queued /\ \A j \in DOMAIN l : j < i => l[j] # l[i]}
           more == Only(l, new)
<1>1. \A t : t \in woken <=> On(l, t) /\ c.state[t] # "zombie"
  BY DEF Range, On
<1>2. c.runq \in Seq(Tasks) /\ DOMAIN c.state = All /\ DOMAIN c.onRq = All /\ woken \subseteq Tasks
  BY DEF Cpu, Range
<1>3. \A i \in DOMAIN c.runq : c.runq[i] \in queued
  BY DEF Queued, Range
<1>4. /\ d.state = [t \in All |-> IF t \in woken THEN "runnable" ELSE c.state[t]]
      /\ d.onRq = [t \in All |-> t \in woken \/ c.onRq[t]]
      /\ d.runq = c.runq \o more
      /\ d.current = c.current /\ d.resched = c.resched
      /\ d = [state |-> d.state, onRq |-> d.onRq, runq |-> d.runq, current |-> d.current, resched |-> d.resched]
  BY <1>2 DEF WakeAll, Cpu
<1>5. new \in SUBSET DOMAIN l /\ \A i \in new : l[i] \in woken /\ l[i] \notin queued
  OBVIOUS
<1>6. \A i, j \in new : l[i] = l[j] => i = j
  <2>1. \A i \in DOMAIN l : i \in Nat
    OBVIOUS
  <2>2. \A i, j \in new : l[i] = l[j] => ~(i < j) /\ ~(j < i)
    OBVIOUS
  <2>3. \A i, j \in Nat : ~(i < j) /\ ~(j < i) => i = j
    OBVIOUS
  <2> HIDE DEF new
  <2> QED
    BY <1>5, <2>1, <2>2, <2>3
<1> HIDE DEF woken, queued, new, more
<1>7. /\ more \in Seq(Tasks)
      /\ \A x : On(more, x) <=> \E i \in new : l[i] = x
      /\ \A i, j \in DOMAIN more : more[i] = more[j] => i = j
  BY <1>5, <1>6, OnlyDoes DEF more
<1>8. \A i \in DOMAIN more : more[i] \in woken /\ more[i] \notin queued
  BY <1>5, <1>7 DEF On
<1>9. d \in Cpu
  <2>1. d.runq \in Seq(Tasks)
    BY <1>2, <1>4, <1>7
  <2>2. d.state \in [All -> States] /\ d.onRq \in [All -> BOOLEAN] /\ d.current \in All /\ d.resched \in BOOLEAN
    <3>1. \A t \in All : c.state[t] \in States /\ c.onRq[t] \in BOOLEAN
      BY DEF Cpu
    <3>2. c.current \in All /\ c.resched \in BOOLEAN
      BY DEF Cpu
    <3> QED
      BY <1>4, <3>1, <3>2 DEF States
  <2> QED
    BY <1>4, <2>1, <2>2 DEF Cpu
<1>10. \A i \in DOMAIN d.runq : \/ i \in DOMAIN c.runq /\ d.runq[i] = c.runq[i]
                                \/ /\ i \notin DOMAIN c.runq /\ i - Len(c.runq) \in DOMAIN more
                                   /\ d.runq[i] = more[i - Len(c.runq)]
  BY <1>2, <1>4, <1>7
<1>11. Queued(d)
  <2>1. ASSUME NEW i \in DOMAIN d.runq, NEW j \in DOMAIN d.runq, d.runq[i] = d.runq[j] PROVE i = j
    <3>1. CASE i \in DOMAIN c.runq /\ j \in DOMAIN c.runq
      BY <1>10, <2>1, <3>1 DEF Queued
    <3>2. CASE i \notin DOMAIN c.runq /\ j \notin DOMAIN c.runq
      <4>1. i - Len(c.runq) = j - Len(c.runq)
        BY <1>7, <1>10, <2>1, <3>2
      <4>2. i \in Int /\ j \in Int /\ Len(c.runq) \in Int
        BY <1>2, <1>9 DEF Cpu
      <4> QED
        BY <4>1, <4>2
    <3>3. CASE i \in DOMAIN c.runq /\ j \notin DOMAIN c.runq
      BY <1>3, <1>8, <1>10, <2>1, <3>3
    <3>4. CASE i \notin DOMAIN c.runq /\ j \in DOMAIN c.runq
      BY <1>3, <1>8, <1>10, <2>1, <3>4
    <3> QED
      BY <3>1, <3>2, <3>3, <3>4
  <2>2. \A i \in DOMAIN d.runq : d.runq[i] # d.current
    <3>1. c.current \in queued
      BY DEF queued
    <3> QED
      BY <1>4, <1>8, <1>10, <3>1 DEF Queued
  <2>3. \A i \in DOMAIN d.runq : d.runq[i] \in All
    BY <1>9 DEF Cpu, All
  <2>4. \A i \in DOMAIN c.runq : c.state[c.runq[i]] = "runnable" /\ c.onRq[c.runq[i]]
    BY DEF Queued
  <2>5. \A i \in DOMAIN d.runq : d.state[d.runq[i]] = "runnable" /\ d.onRq[d.runq[i]]
    <3> SUFFICES ASSUME NEW i \in DOMAIN d.runq PROVE d.state[d.runq[i]] = "runnable" /\ d.onRq[d.runq[i]]
      OBVIOUS
    <3>1. d.runq[i] \in All
      BY <2>3
    <3>2. CASE d.runq[i] \in woken
      BY <1>4, <3>1, <3>2
    <3>3. CASE d.runq[i] \notin woken
      <4>1. i \in DOMAIN c.runq /\ d.runq[i] = c.runq[i]
        BY <1>8, <1>10, <3>3
      <4>2. c.state[d.runq[i]] = "runnable" /\ c.onRq[d.runq[i]]
        BY <2>4, <4>1
      <4> QED
        BY <1>4, <3>1, <3>3, <4>2, ZenonT(60)
    <3> QED
      BY <3>2, <3>3
  <2>6. d.state[Idle] \in {"running", "runnable"}
    BY <1>4 DEF Queued, All
  <2> QED
    BY <2>1, <2>2, <2>5, <2>6 DEF Queued
<1>12. \A t \in Tasks : On(d.runq, t) => On(c.runq, t) \/ On(l, t)
  BY <1>1, <1>8, <1>10 DEF On
<1> QED
  BY <1>1, <1>4, <1>9, <1>11, <1>12

\* Before schedule() looks for the next task: the current one is at the end of the queue, or nowhere.
LEMMA RequeueDoes ==
    ASSUME NEW c \in Cpu, Queued(c), NEW q, q = Requeue(c)
    PROVE  /\ q \in Cpu /\ q.current = c.current
           /\ \A t \in All : q.state[t] = IF t = c.current /\ c.state[t] = "running" THEN "runnable" ELSE c.state[t]
           /\ \A i, j \in DOMAIN q.runq : q.runq[i] = q.runq[j] => i = j
           /\ \A i \in DOMAIN q.runq : q.state[q.runq[i]] = "runnable" /\ q.onRq[q.runq[i]]
           /\ \A t \in All : On(q.runq, t) => On(c.runq, t) \/ t = c.current
<1> DEFINE cur == c.current
           state == [c.state EXCEPT ![cur] = "runnable"]
           settled == IF c.state[cur] = "running" THEN [c EXCEPT !.state[cur] = "runnable"] ELSE c
<1>1. c.state \in [All -> States] /\ c.onRq \in [All -> BOOLEAN] /\ c.runq \in Seq(Tasks) /\ cur \in All
  BY DEF Cpu
<1>2. /\ settled \in Cpu /\ settled.current = cur /\ settled.onRq = c.onRq /\ settled.runq = c.runq
      /\ settled.state = IF c.state[cur] = "running" THEN state ELSE c.state
  <2>1. CASE c.state[cur] = "running"
    <3>1. [c EXCEPT !.state[cur] = "runnable"] = [c EXCEPT !.state = state]
      OBVIOUS
    <3>2. state \in [All -> States]
      BY <1>1 DEF States
    <3> HIDE DEF state
    <3> QED
      BY <2>1, <3>1, <3>2 DEF Cpu
  <2>2. CASE c.state[cur] # "running"
    BY <2>2
  <2> QED
    BY <2>1, <2>2
<1>3. \A t \in All : settled.state[t] = IF t = cur /\ c.state[t] = "running" THEN "runnable" ELSE c.state[t]
  BY <1>1, <1>2
<1>4. q = IF settled.state[cur] = "runnable" /\ cur # Idle /\ ~c.onRq[cur]
          THEN [settled EXCEPT !.onRq[cur] = TRUE, !.runq = Append(@, cur)] ELSE settled
  <2>1. settled.onRq[cur] = c.onRq[cur]
    BY <1>2
  <2> QED
    BY <2>1 DEF Requeue
<1> HIDE DEF settled, state
<1>5. \A i \in DOMAIN c.runq : c.runq[i] # cur /\ c.state[c.runq[i]] = "runnable" /\ c.onRq[c.runq[i]]
  BY DEF Queued
<1>6. \A i, j \in DOMAIN c.runq : c.runq[i] = c.runq[j] => i = j
  BY DEF Queued
<1>7. \A i \in DOMAIN c.runq : c.runq[i] \in All
  BY <1>1 DEF All
<1> HIDE DEF cur
<1>8. CASE ~(settled.state[cur] = "runnable" /\ cur # Idle /\ ~c.onRq[cur])
  <2>1. q = settled
    BY <1>4, <1>8
  <2>2. \A i \in DOMAIN q.runq : q.state[q.runq[i]] = "runnable" /\ q.onRq[q.runq[i]]
    BY <1>2, <1>3, <1>5, <1>7, <2>1
  <2> QED
    BY <1>2, <1>3, <1>6, <2>1, <2>2 DEF cur
<1>9. CASE settled.state[cur] = "runnable" /\ cur # Idle /\ ~c.onRq[cur]
  <2>1. q = [settled EXCEPT !.onRq[cur] = TRUE, !.runq = Append(@, cur)]
    BY <1>4, <1>9
  <2> DEFINE rq == Append(c.runq, cur)
             onRq == [c.onRq EXCEPT ![cur] = TRUE]
  <2>2. cur \in Tasks
    BY <1>1, <1>9 DEF All
  <2>3. rq \in Seq(Tasks) /\ onRq \in [All -> BOOLEAN]
    BY <1>1, <2>2
  <2>4. /\ DOMAIN rq = 1..Len(c.runq) + 1 /\ rq[Len(c.runq) + 1] = cur
        /\ \A i \in DOMAIN c.runq : rq[i] = c.runq[i]
        /\ \A i \in DOMAIN rq : i \in DOMAIN c.runq \/ i = Len(c.runq) + 1
    BY <1>1, <2>2
  <2>5. \A t \in All : onRq[t] = (t = cur \/ c.onRq[t])
    BY <1>1
  <2>6. q.runq = rq /\ q.onRq = onRq /\ q.state = settled.state /\ q.current = cur /\ q \in Cpu
    <3>1. q = [settled EXCEPT !.onRq = onRq, !.runq = rq]
      BY <1>2, <2>1
    <3> HIDE DEF onRq, rq
    <3> QED
      BY <1>2, <2>3, <3>1 DEF Cpu
  <2> HIDE DEF onRq, rq
  <2>7. \A i, j \in DOMAIN q.runq : q.runq[i] = q.runq[j] => i = j
    BY <1>5, <1>6, <2>4, <2>6
  <2>8. \A i \in DOMAIN q.runq : q.state[q.runq[i]] = "runnable" /\ q.onRq[q.runq[i]]
    <3> SUFFICES ASSUME NEW i \in DOMAIN q.runq PROVE q.state[q.runq[i]] = "runnable" /\ q.onRq[q.runq[i]]
      OBVIOUS
    <3>1. CASE i \in DOMAIN c.runq
      <4>1. q.runq[i] = c.runq[i] /\ c.runq[i] \in All
        BY <1>7, <2>4, <2>6, <3>1
      <4>2. c.runq[i] # cur /\ c.state[c.runq[i]] = "runnable" /\ c.onRq[c.runq[i]]
        BY <1>5, <3>1
      <4> QED
        BY <1>3, <2>5, <2>6, <4>1, <4>2
    <3>2. CASE i = Len(c.runq) + 1
      BY <1>1, <1>9, <2>4, <2>5, <2>6, <3>2
    <3> QED
      BY <2>4, <2>6, <3>1, <3>2
  <2>9. \A t \in All : On(q.runq, t) => On(c.runq, t) \/ t = cur
    BY <2>4, <2>6 DEF On
  <2> QED
    BY <1>3, <2>6, <2>7, <2>8, <2>9 DEF cur
<1> QED
  BY <1>8, <1>9

\* Taking the first of the queue, or emptying a queue that is empty.
LEMMA PopDoes ==
    ASSUME NEW q \in Cpu, NEW n \in {0, 1}, n <= Len(q.runq), NEW p, p = Popped(q, n),
           \A i, j \in DOMAIN q.runq : q.runq[i] = q.runq[j] => i = j
    PROVE  /\ p \in Cpu /\ p.current = q.current /\ p.state = q.state
           /\ DOMAIN p.runq = 1..Len(q.runq) - n
           /\ \A i \in DOMAIN p.runq : i + n \in DOMAIN q.runq /\ p.runq[i] = q.runq[i + n] /\ (q.onRq[p.runq[i]] => p.onRq[p.runq[i]])
<1> DEFINE rq == SubSeq(q.runq, n + 1, Len(q.runq))
           onRq == [t \in All |-> q.onRq[t] /\ \A i \in 1..n : q.runq[i] # t]
<1>1. q.onRq \in [All -> BOOLEAN] /\ q.runq \in Seq(Tasks) /\ Len(q.runq) \in Nat
  BY DEF Cpu
<1>2. p = [q EXCEPT !.runq = rq, !.onRq = onRq]
  BY <1>1 DEF Popped
<1>3. /\ rq \in Seq(Tasks) /\ DOMAIN rq = 1..Len(q.runq) - n
      /\ \A i \in DOMAIN rq : i + n \in DOMAIN q.runq /\ rq[i] = q.runq[i + n]
  BY <1>1
<1>4. onRq \in [All -> BOOLEAN] /\ \A t \in All : onRq[t] = (q.onRq[t] /\ \A i \in 1..n : q.runq[i] # t)
  BY <1>1
<1> HIDE DEF rq, onRq
<1>5. p \in Cpu /\ p.current = q.current /\ p.state = q.state /\ p.runq = rq /\ p.onRq = onRq
  BY <1>2, <1>3, <1>4 DEF Cpu
<1>6. ASSUME NEW i \in DOMAIN p.runq PROVE q.onRq[p.runq[i]] => p.onRq[p.runq[i]]
  <2>1. p.runq[i] \in All
    BY <1>3, <1>5 DEF All
  <2>2. i \in 1..Len(q.runq) - n /\ \A j \in 1..n : j \in DOMAIN q.runq /\ j # i + n
    BY <1>1, <1>3, <1>5
  <2>3. \A j \in 1..n : q.runq[j] # p.runq[i]
    BY <1>3, <1>5, <2>2
  <2> QED
    BY <1>4, <1>5, <2>1, <2>3
<1> QED
  BY <1>3, <1>5, <1>6

\* schedule: the next task comes off the queue, or stays, or is the idle one; nobody else's state changes.
LEMMA ScheduleDoes ==
    ASSUME NEW c \in Cpu, Queued(c), NEW d, d = Schedule(c)
    PROVE  /\ d \in Cpu /\ Queued(d)
           /\ \/ On(c.runq, d.current)
              \/ d.current = c.current /\ c.state[c.current] \in {"running", "runnable"}
              \/ d.current = Idle
           /\ \A t \in All : d.state[t] = IF t = d.current THEN "running"
                                          ELSE IF t = c.current /\ c.state[t] = "running" THEN "runnable" ELSE c.state[t]
           /\ \A t \in All : On(d.runq, t) => On(c.runq, t) \/ t = c.current
<1> DEFINE q == Requeue(c)
           none == Popped(q, Len(q.runq))
           first == Popped(q, 1)
           rest == [none EXCEPT !.onRq[q.current] = FALSE]
<1>1. /\ q \in Cpu /\ q.current = c.current
      /\ \A t \in All : q.state[t] = IF t = c.current /\ c.state[t] = "running" THEN "runnable" ELSE c.state[t]
      /\ \A i, j \in DOMAIN q.runq : q.runq[i] = q.runq[j] => i = j
      /\ \A i \in DOMAIN q.runq : q.state[q.runq[i]] = "runnable" /\ q.onRq[q.runq[i]]
      /\ \A t \in All : On(q.runq, t) => On(c.runq, t) \/ t = c.current
  BY RequeueDoes
<1>2. q.runq \in Seq(Tasks) /\ q.current \in All /\ q.state \in [All -> States] /\ q.onRq \in [All -> BOOLEAN]
  BY <1>1 DEF Cpu
<1>3. Runnable(q) = DOMAIN q.runq
  BY <1>1 DEF Runnable
<1>4. d = IF Runnable(q) # {} THEN SwitchTo(Popped(q, Min(Runnable(q))), q.runq[Min(Runnable(q))])
          ELSE IF q.state[q.current] = "runnable" THEN SwitchTo(rest, q.current) ELSE SwitchTo(none, Idle)
  BY DEF Schedule
<1>5. q.state[Idle] \in {"running", "runnable"}
  BY <1>1 DEF Queued, All
<1> HIDE DEF q
\* Whatever runs next, the rest follows from what is left of the queue.
<1>6. ASSUME NEW p \in Cpu, NEW t \in All, p.state = q.state, d = SwitchTo(p, t),
             \A i \in DOMAIN p.runq : p.runq[i] # t /\ On(q.runq, p.runq[i]) /\ p.onRq[p.runq[i]],
             \A i, j \in DOMAIN p.runq : p.runq[i] = p.runq[j] => i = j
      PROVE  /\ d \in Cpu /\ Queued(d) /\ d.current = t
             /\ \A u \in All : d.state[u] = IF u = d.current THEN "running"
                                            ELSE IF u = c.current /\ c.state[u] = "running" THEN "runnable" ELSE c.state[u]
             /\ \A u \in All : On(d.runq, u) => On(c.runq, u) \/ u = c.current
  <2> DEFINE state == [p.state EXCEPT ![t] = "running"]
  <2>1. d = [p EXCEPT !.state = state, !.current = t, !.resched = FALSE]
    BY <1>6 DEF SwitchTo
  <2>2. p.state \in [All -> States] /\ p.runq \in Seq(Tasks)
    BY <1>6 DEF Cpu
  <2>3. state \in [All -> States] /\ \A u \in All : state[u] = IF u = t THEN "running" ELSE q.state[u]
    BY <1>6, <2>2 DEF States
  <2> HIDE DEF state
  <2>4. d \in Cpu /\ d.current = t /\ d.state = state /\ d.runq = p.runq /\ d.onRq = p.onRq
    BY <1>6, <2>1, <2>3 DEF Cpu
  <2>5. \A i \in DOMAIN d.runq : d.runq[i] \in All
    BY <2>2, <2>4 DEF All
  <2>6. \A i \in DOMAIN d.runq : d.runq[i] # t /\ d.onRq[d.runq[i]]
    BY <1>6, <2>4
  <2>7. \A i \in DOMAIN d.runq : d.state[d.runq[i]] = "runnable"
    <3>1. \A i \in DOMAIN d.runq : q.state[d.runq[i]] = "runnable"
      BY <1>1, <1>6, <2>4 DEF On
    <3> QED
      BY <2>3, <2>4, <2>5, <2>6, <3>1
  <2>8. d.state[Idle] \in {"running", "runnable"}
    BY <1>5, <2>3, <2>4 DEF All
  <2>9. Queued(d)
    BY <1>6, <2>4, <2>6, <2>7, <2>8 DEF Queued
  <2>10. \A u \in All : On(d.runq, u) => On(c.runq, u) \/ u = c.current
    <3>1. \A u \in All : On(d.runq, u) => On(q.runq, u)
      BY <1>6, <2>4 DEF On
    <3> QED
      BY <1>1, <3>1
  <2> QED
    BY <1>1, <2>3, <2>4, <2>9, <2>10
<1>7. CASE q.runq # <<>>
  <2>1. 1 \in DOMAIN q.runq /\ Len(q.runq) >= 1 /\ Runnable(q) # {}
    <3>1. Len(q.runq) >= 1 /\ DOMAIN q.runq = 1..Len(q.runq)
      BY <1>2, <1>7
    <3> QED
      BY <1>3, <3>1
  <2>2. Min(Runnable(q)) = 1
    <3>1. \A x \in Runnable(q) : x \in Nat /\ 1 <= x
      BY <1>2, <1>3
    <3>2. 1 \in Runnable(q)
      BY <1>3, <2>1
    <3> QED
      BY <3>1, <3>2 DEF Min
  <2>3. d = SwitchTo(first, q.runq[1])
    BY <1>4, <2>1, <2>2
  <2>4. q.runq[1] \in All
    BY <1>2, <2>1 DEF All
  <2>5. /\ first \in Cpu /\ first.current = q.current /\ first.state = q.state
        /\ DOMAIN first.runq = 1..Len(q.runq) - 1
        /\ \A i \in DOMAIN first.runq : /\ i + 1 \in DOMAIN q.runq /\ first.runq[i] = q.runq[i + 1]
                                        /\ q.onRq[first.runq[i]] => first.onRq[first.runq[i]]
    BY <1>1, <2>1, PopDoes
  <2> HIDE DEF first
  <2>6. \A i \in DOMAIN first.runq : i \in Nat /\ i >= 1
    BY <1>2, <2>5
  <2>7. \A i \in DOMAIN first.runq : first.runq[i] # q.runq[1] /\ On(q.runq, first.runq[i]) /\ first.onRq[first.runq[i]]
    <3>1. \A i \in DOMAIN first.runq : first.runq[i] # q.runq[1]
      BY <1>1, <2>1, <2>5, <2>6
    <3>2. \A i \in DOMAIN first.runq : On(q.runq, first.runq[i]) /\ first.onRq[first.runq[i]]
      BY <1>1, <2>5 DEF On
    <3> QED
      BY <3>1, <3>2
  <2>8. \A i, j \in DOMAIN first.runq : first.runq[i] = first.runq[j] => i = j
    <3>1. \A i, j \in DOMAIN first.runq : first.runq[i] = first.runq[j] => i + 1 = j + 1
      BY <1>1, <2>5
    <3> QED
      BY <2>6, <3>1
  <2>9. On(c.runq, q.runq[1]) \/ (q.runq[1] = c.current /\ c.state[c.current] \in {"running", "runnable"})
    <3>1. On(q.runq, q.runq[1]) /\ q.state[q.runq[1]] = "runnable"
      BY <1>1, <2>1 DEF On
    <3> QED
      BY <1>1, <2>4, <3>1
  <2> QED
    BY <1>6, <2>3, <2>4, <2>5, <2>7, <2>8, <2>9
<1>8. CASE q.runq = <<>>
  <2>1. Len(q.runq) = 0 /\ Runnable(q) = {} /\ 0 <= Len(q.runq)
    BY <1>3, <1>8
  <2>2. none = Popped(q, 0)
    BY <2>1
  <2>3. none \in Cpu /\ none.current = q.current /\ none.state = q.state /\ DOMAIN none.runq = 1..Len(q.runq) - 0
    BY <1>1, <2>1, <2>2, PopDoes
  <2>4. DOMAIN none.runq = {}
    BY <2>1, <2>3
  <2> HIDE DEF none
  <2>5. CASE q.state[q.current] = "runnable"
    <3> DEFINE onRq == [none.onRq EXCEPT ![q.current] = FALSE]
    <3>1. onRq \in [All -> BOOLEAN]
      BY <2>3 DEF Cpu
    <3>2. rest = [none EXCEPT !.onRq = onRq]
      OBVIOUS
    <3> HIDE DEF onRq
    <3>3. rest \in Cpu /\ rest.state = q.state /\ DOMAIN rest.runq = {}
      BY <2>3, <2>4, <3>1, <3>2 DEF Cpu
    <3>4. d = SwitchTo(rest, q.current)
      BY <1>4, <2>1, <2>5
    <3>5. c.state[c.current] \in {"running", "runnable"}
      BY <1>1, <1>2, <2>5
    <3> HIDE DEF rest
    <3> QED
      BY <1>1, <1>2, <1>6, <3>3, <3>4, <3>5
  <2>6. CASE q.state[q.current] # "runnable"
    <3>1. d = SwitchTo(none, Idle) /\ Idle \in All
      BY <1>4, <2>1, <2>6 DEF All
    <3> QED
      BY <1>6, <2>3, <2>4, <3>1
  <2> QED
    BY <2>5, <2>6
<1> QED
  BY <1>7, <1>8

-----------------------------------------------------------------------------
(* One task's own steps. *)

\* The idle task, nobody and the mutex's queue are what they are called.
LEMMA SchedNames ==
    /\ Idle \notin Tasks /\ NoTask \notin Tasks /\ Lock \notin Devices
    /\ \A q \in Devices : q # Lock /\ q \in Queues
    /\ Lock \in Queues
BY SchedAssumption DEF Queues

\* Who is on a list one has joined, left, or been taken off the end of.
LEMMA OnAppend ==
    ASSUME NEW X, NEW l \in Seq(X), NEW x \in X
    PROVE  Append(l, x) \in Seq(X) /\ \A y : On(Append(l, x), y) <=> On(l, y) \/ y = x
<1>1. /\ Append(l, x) \in Seq(X) /\ DOMAIN Append(l, x) = 1..Len(l) + 1 /\ Len(l) \in Nat
      /\ \A i \in DOMAIN l : i \in DOMAIN Append(l, x) /\ Append(l, x)[i] = l[i]
      /\ Append(l, x)[Len(l) + 1] = x
      /\ \A i \in 1..Len(l) + 1 : i \in DOMAIN l \/ i = Len(l) + 1
  OBVIOUS
<1> QED
  BY <1>1 DEF On

\* Taken off a list, and the others stay.
LEMMA OnWithout ==
    ASSUME NEW X, NEW l \in Seq(X), NEW x
    PROVE  Without(l, x) \in Seq(X) /\ \A y : On(Without(l, x), y) <=> On(l, y) /\ y # x
<1> DEFINE K == {i \in DOMAIN l : l[i] # x}
<1>1. Without(l, x) = Only(l, K) /\ K \in SUBSET DOMAIN l
  BY DEF Without
<1>2. Only(l, K) \in Seq(X) /\ \A y : On(Only(l, K), y) <=> \E i \in K : l[i] = y
  BY <1>1, OnlyDoes
<1> QED
  BY <1>1, <1>2 DEF On

\* The last of a list, and the list without it.
LEMMA OnFront ==
    ASSUME NEW X, NEW l \in Seq(X), l # <<>>
    PROVE  /\ Front(l) \in Seq(X) /\ Last(l) \in X /\ On(l, Last(l))
           /\ \A y : On(Front(l), y) => On(l, y)
           /\ \A y : On(l, y) => On(Front(l), y) \/ y = Last(l)
<1>1. Len(l) \in Nat /\ Len(l) >= 1 /\ DOMAIN l = 1..Len(l)
  OBVIOUS
<1> DEFINE f == SubSeq(l, 1, Len(l) - 1)
<1>2. Front(l) = f /\ Last(l) = l[Len(l)] /\ Len(l) \in 1..Len(l)
  BY <1>1 DEF Front, Last
<1>3. f \in Seq(X) /\ DOMAIN f = 1..Len(l) - 1 /\ \A i \in DOMAIN f : i \in 1..Len(l) /\ f[i] = l[i]
  <2>1. \A i \in 1..Len(l) : l[i] \in X
    BY <1>1
  <2>2. f = [i \in 1..Len(l) - 1 |-> l[i]]
    BY <1>1
  <2> HIDE DEF f
  <2>3. \A i \in 1..Len(l) - 1 : i \in 1..Len(l)
    BY <1>1
  <2>4. DOMAIN f = 1..Len(l) - 1 /\ \A i \in 1..Len(l) - 1 : f[i] = l[i]
    BY <2>2
  <2>5. \A m \in Nat : \A g \in [1..m -> X] : g \in Seq(X)
    OBVIOUS
  <2>6. Len(l) - 1 \in Nat /\ f \in [1..Len(l) - 1 -> X]
    BY <1>1, <2>1, <2>2, <2>3
  <2>7. f \in Seq(X)
    BY <2>5, <2>6, SMTT(30)
  <2> QED
    BY <2>3, <2>4, <2>7
<1>4. \A i \in 1..Len(l) : i \in 1..Len(l) - 1 \/ i = Len(l)
  <2>1. \A n \in Nat : \A i \in 1..n : i \in 1..n - 1 \/ i = n
    OBVIOUS
  <2> QED
    BY <1>1, <2>1
<1> HIDE DEF f
<1>5. l[Len(l)] \in X
  BY <1>1
<1> QED
  BY <1>1, <1>2, <1>3, <1>4, <1>5 DEF On

\* A task whose place nothing has disturbed, as every other task's steps leave it.
Kept(t) ==
    /\ at'[t] = at[t] \/ (at[t] = "user" /\ at'[t] = "return")
    /\ call'[t] = call[t]
    /\ \A q \in Queues : On(waiters'[q], t) => On(waiters[q], t)
    /\ On(sleepers', t) => On(sleepers, t)
    /\ t \in interruptible' => t \in interruptible
    /\ cpu'.state[t] = "blocked" =>
          /\ cpu.state[t] = "blocked"
          /\ t = cpu'.current <=> t = cpu.current
          /\ \A q \in Queues : On(waiters[q], t) => On(waiters'[q], t) /\ (q \in giving' => q \in giving)

\* A task nothing has disturbed is where the invariant has it.
LEMMA KeptIsPlaced ==
    ASSUME SchedTypeOK, NEW t \in Tasks, Placed(t), Kept(t)
    PROVE  Placed(t)'
<1>1. CASE at'[t] = at[t]
  <2>1. Called(t)'
    BY <1>1 DEF Placed, Called, Kept
  <2>2. Left(t)'
    BY <1>1 DEF Placed, Left, Kept
  <2>3. ASSUME cpu'.state[t] = "blocked" PROVE Enlisted(t)'
    <3>1. Enlisted(t) /\ call'[t] = call[t] /\ (t = cpu'.current <=> t = cpu.current)
      BY <2>3 DEF Placed, Kept
    <3>2. call[t].for \subseteq Queues
      BY DEF SchedTypeOK, Call
    <3>3. \A q \in Queues : On(waiters[q], t) => On(waiters'[q], t) /\ (q \in giving' => q \in giving)
      BY <2>3 DEF Kept
    <3>4. (at[t] \in IF t = cpu.current THEN {"sleep", "asleep", "scan", "poll sleep", "poll asleep"} ELSE {"awake", "poll awake"})'
      BY <1>1, <3>1 DEF Enlisted
    <3>5. ASSUME (at[t] \in InWait \/ call[t].again)', NEW q \in call'[t].for
          PROVE  (On(waiters[q], t) /\ (q = Lock \/ at[t] = "scan" \/ q \notin giving))'
      <4>1. at[t] \in InWait \/ call[t].again
        BY <1>1, <3>1, <3>5 DEF InWait
      <4>2. q \in Queues /\ On(waiters[q], t) /\ (q = Lock \/ at[t] = "scan" \/ q \notin giving)
        BY <3>1, <3>2, <3>5, <4>1 DEF Enlisted
      <4> QED
        BY <1>1, <3>3, <4>2
    <3> QED
      BY <3>4, <3>5 DEF Enlisted
  <2> QED
    BY <2>1, <2>2, <2>3 DEF Placed
<1>2. CASE at[t] = "user" /\ at'[t] = "return"
  <2>1. call'[t] = NoCall
    BY <1>2 DEF Placed, Called, Kept, Out
  <2>2. cpu.state[t] # "blocked"
    BY <1>2 DEF Placed, Enlisted
  <2>3. Left(t)'
    BY <1>2 DEF Placed, Left, Kept, Listed
  <2>4. Called(t)'
    BY <1>2, <2>1 DEF Called, Out, InWait, InPoll, NoCall
  <2> QED
    BY <2>2, <2>3, <2>4 DEF Placed, Kept
<1> QED
  BY <1>1, <1>2 DEF Kept

\* The state of the current task is all that changes.
StateOf(s) ==
    /\ cpu' \in Cpu
    /\ cpu'.current = cpu.current /\ cpu'.runq = cpu.runq /\ cpu'.onRq = cpu.onRq
    /\ \A t \in All : cpu'.state[t] = IF t = cpu.current THEN s ELSE cpu.state[t]

\* Blocked, Running and the rest set one task's state.
LEMMA StateSet ==
    ASSUME cpu \in Cpu, NEW s \in States, cpu' = [cpu EXCEPT !.state[cpu.current] = s]
    PROVE  StateOf(s)
<1> DEFINE state == [cpu.state EXCEPT ![cpu.current] = s]
<1>1. cpu' = [cpu EXCEPT !.state = state]
  OBVIOUS
<1>2. state \in [All -> States] /\ \A t \in All : state[t] = IF t = cpu.current THEN s ELSE cpu.state[t]
  BY DEF Cpu
<1> HIDE DEF state
<1> QED
  BY <1>1, <1>2 DEF Cpu, StateOf

\* A CPU left alone is one whose current task keeps its state.
LEMMA StateStays ==
    ASSUME cpu \in Cpu, cpu' = cpu
    PROVE  StateOf(cpu.state[cpu.current])
BY DEF StateOf

\* A step the current task takes for itself.
OwnStep(cur, p) ==
    /\ \A t \in Tasks \ {cur} :
          /\ call'[t] = call[t]
          /\ \A q \in Queues : On(waiters'[q], t) <=> On(waiters[q], t)
          /\ On(sleepers', t) => On(sleepers, t)
          /\ t \in interruptible' => t \in interruptible
    /\ giving' \subseteq giving
    /\ at' = [at EXCEPT ![cur] = p]
    /\ \/ owner' # NoTask
       \/ /\ owner' = owner
          /\ WantsLock(cur)' <=> WantsLock(cur)
          /\ WantsLock(cur) => cpu'.state[cur] # "blocked"

\* Of a step of the current task's own, only what it leaves of itself is to be shown.
LEMMA OwnStepKeeps ==
    ASSUME SchedInv, NEW cur \in Tasks, cur = cpu.current,
           NEW s \in {"running", "runnable", "blocked"}, StateOf(s),
           NEW p \in (Out \cup InWait \cup InPoll) \ {"unborn", "gone"}, OwnStep(cur, p),
           SchedTypeOK', Placed(cur)'
    PROVE  SchedInv'
<1>1. at \in [Tasks -> Out \cup InWait \cup InPoll] /\ \A t \in Tasks : at'[t] = IF t = cur THEN p ELSE at[t]
  BY DEF SchedInv, SchedTypeOK, OwnStep
<1>2. Tasks \subseteq All /\ Idle \in All /\ cur # Idle
  BY SchedNames DEF All
<1>3. \A t \in All : cpu'.state[t] = IF t = cur THEN s ELSE cpu.state[t]
  BY DEF StateOf
<1>4. cpu'.current = cur /\ cpu'.runq = cpu.runq /\ cpu'.onRq = cpu.onRq
  BY DEF StateOf
<1>5. at[cur] # "unborn" /\ at[cur] # "gone"
  BY DEF SchedInv, CpuInv
<1>6. CpuInv'
  <2>1. Queued(cpu')
    <3>1. \A i \in DOMAIN cpu.runq : cpu.runq[i] \in All
      BY DEF SchedInv, SchedTypeOK, Cpu, All
    <3>2. Queued(cpu)
      BY DEF SchedInv, CpuInv
    <3> QED
      BY <1>2, <1>3, <1>4, <3>1, <3>2 DEF Queued
  <2>2. \A t \in Tasks : t # cpu'.current => at'[t] \in Away \cup {"unborn", "gone"}
    BY <1>1, <1>4 DEF SchedInv, CpuInv
  <2>3. \A t \in Tasks : at'[t] = "unborn" => t # cpu'.current /\ ~On(cpu'.runq, t)
    BY <1>1, <1>4 DEF SchedInv, CpuInv
  <2>4. \A t \in Tasks : cpu'.state[t] = "zombie" <=> at'[t] = "gone"
    BY <1>1, <1>2, <1>3, <1>5 DEF SchedInv, CpuInv
  <2>5. \A t \in Tasks : at'[t] = "gone" => t # cpu'.current
    BY <1>1, <1>4 DEF SchedInv, CpuInv
  <2> QED
    BY <2>1, <2>2, <2>3, <2>4, <2>5 DEF CpuInv
<1>7. ASSUME NEW t \in Tasks, t # cur PROVE Placed(t)'
  <2>1. Kept(t)
    BY <1>1, <1>2, <1>3, <1>4, <1>7 DEF OwnStep, Kept
  <2> QED
    BY <2>1, KeptIsPlaced DEF SchedInv
<1>8. MutexInv'
  <2> SUFFICES ASSUME owner' = NoTask, NEW u \in Tasks, WantsLock(u)', cpu'.state[u] = "blocked"
               PROVE  \E t \in Tasks : WantsLock(t)' /\ cpu'.state[t] # "blocked"
    BY DEF MutexInv
  <2>1. owner = NoTask /\ (WantsLock(cur)' <=> WantsLock(cur)) /\ (WantsLock(cur) => cpu'.state[cur] # "blocked")
    BY DEF OwnStep
  <2>2. \A t \in Tasks : WantsLock(t)' <=> WantsLock(t)
    BY <2>1 DEF OwnStep, WantsLock
  <2>3. u # cur /\ WantsLock(u) /\ cpu.state[u] = "blocked"
    BY <1>2, <1>3, <2>1, <2>2
  <2>4. PICK t \in Tasks : WantsLock(t) /\ cpu.state[t] # "blocked"
    BY <2>1, <2>3 DEF SchedInv, MutexInv
  <2> QED
    BY <1>2, <1>3, <2>1, <2>2, <2>4
<1> QED
  BY <1>6, <1>7, <1>8 DEF SchedInv

\* What is known of the task that takes a step.
LEMMA CurrentIs ==
    ASSUME SchedInv, NEW p, Is(p)
    PROVE  /\ cpu.current \in Tasks /\ Current = cpu.current /\ at[cpu.current] = p
           /\ cpu \in Cpu /\ at[cpu.current] \notin {"unborn", "gone"}
           /\ cpu.state[cpu.current] \in {"running", "runnable", "blocked"}
           /\ Called(cpu.current) /\ Left(cpu.current) /\ (cpu.state[cpu.current] = "blocked" => Enlisted(cpu.current))
           /\ call[cpu.current] \in Call /\ call[cpu.current].for \in SUBSET Queues
           /\ call \in [Tasks -> Call] /\ waiters \in [Queues -> Seq(Tasks)] /\ sleepers \in Seq(Tasks)
           /\ at \in [Tasks -> Out \cup InWait \cup InPoll]
           /\ late \subseteq Tasks /\ timedOut \subseteq Tasks /\ interruptible \subseteq Tasks /\ pending \subseteq Tasks
           /\ giving \subseteq Devices /\ owner \in Tasks \cup {NoTask}
<1>1. cpu.current \in Tasks /\ Current = cpu.current /\ at[cpu.current] = p
  BY DEF Is, Current, SchedInv, SchedTypeOK, Cpu, All
<1>2. cpu \in Cpu /\ cpu.state[cpu.current] \in States
  BY <1>1 DEF SchedInv, SchedTypeOK, Cpu, All
<1>3. cpu.state[cpu.current] # "zombie" /\ at[cpu.current] \notin {"unborn", "gone"}
  BY <1>1 DEF SchedInv, CpuInv
<1>4. Placed(cpu.current)
  BY <1>1 DEF SchedInv
<1>5. call[cpu.current] \in Call /\ call[cpu.current].for \in SUBSET Queues
  BY <1>1 DEF SchedInv, SchedTypeOK, Call
<1> QED
  BY <1>1, <1>2, <1>3, <1>4, <1>5 DEF SchedInv, SchedTypeOK, Placed, States

\* The current task's own call, as Calls leaves it.
LEMMA CallsDoes ==
    ASSUME cpu.current \in Tasks, Current = cpu.current, call \in [Tasks -> Call], NEW c \in Call, Calls(c)
    PROVE  /\ call' \in [Tasks -> Call]
           /\ \A t \in Tasks : call'[t] = IF t = cpu.current THEN c ELSE call[t]
           /\ late' = late \ {cpu.current}
BY DEF Calls

\* The current task's place, as Go leaves it.
LEMMA GoDoes ==
    ASSUME cpu.current \in Tasks, Current = cpu.current, at \in [Tasks -> Out \cup InWait \cup InPoll],
           NEW p \in (Out \cup InWait \cup InPoll), Go(p)
    PROVE  /\ at' = [at EXCEPT ![cpu.current] = p] /\ at' \in [Tasks -> Out \cup InWait \cup InPoll]
           /\ at'[cpu.current] = p
BY DEF Go

\* The call of a task that waits for nothing.
LEMMA NoCallIs == NoCall \in Call /\ NoCall.for = {}
BY DEF NoCall, Call

\* The state the current task is left in, when it has not been touched.
LEMMA CpuStays ==
    ASSUME SchedInv, cpu.current \in Tasks, cpu' = cpu,
           NEW p \in (Out \cup InWait \cup InPoll) \ {"unborn", "gone"}, OwnStep(cpu.current, p),
           SchedTypeOK', Placed(cpu.current)'
    PROVE  SchedInv'
<1>1. cpu \in Cpu
  BY DEF SchedInv, SchedTypeOK
<1>2. cpu.state[cpu.current] \in States /\ cpu.state[cpu.current] # "zombie"
  BY <1>1 DEF SchedInv, CpuInv, Cpu
<1>3. cpu.state[cpu.current] \in {"running", "runnable", "blocked"}
  BY <1>2 DEF States
<1>4. StateOf(cpu.state[cpu.current])
  BY <1>1, StateStays
<1> DEFINE s == cpu.state[cpu.current]
           cur == cpu.current
<1> HIDE DEF s
<1>5. s \in {"running", "runnable", "blocked"} /\ StateOf(s)
  BY <1>3, <1>4 DEF s
<1>6. cur \in Tasks /\ cur = cpu.current /\ OwnStep(cur, p) /\ Placed(cur)'
  OBVIOUS
<1> HIDE DEF cur
<1> QED
  BY <1>5, <1>6, OwnStepKeeps

\* wait_until is called.
LEMMA WaitKeeps ==
    ASSUME SchedInv, NEW d \in Devices, Wait(d)
    PROVE  SchedInv'
<1> DEFINE cur == cpu.current
           c == [for |-> {d}, interruptible |-> TRUE, deadline |-> TRUE, again |-> FALSE]
<1>1. Is("user") /\ Calls(c) /\ Go("check") /\ cpu' = cpu
      /\ UNCHANGED <<waiters, sleepers, timedOut, interruptible, pending, giving, owner>>
  BY DEF Wait
<1>2. /\ cpu.current \in Tasks /\ Current = cpu.current /\ at[cpu.current] = "user"
      /\ Called(cpu.current) /\ Left(cpu.current) /\ (cpu.state[cpu.current] = "blocked" => Enlisted(cpu.current))
      /\ call \in [Tasks -> Call] /\ at \in [Tasks -> Out \cup InWait \cup InPoll]
  BY <1>1, CurrentIs
<1>3. c \in Call /\ Lock \notin c.for /\ c.for # {} /\ ~c.again
  BY SchedNames DEF Call
<1> HIDE DEF c
<1>4. /\ call' \in [Tasks -> Call] /\ late' = late \ {cpu.current}
      /\ \A t \in Tasks : call'[t] = IF t = cpu.current THEN c ELSE call[t]
  BY <1>1, <1>2, <1>3, CallsDoes
<1>5. at' = [at EXCEPT ![cpu.current] = "check"] /\ at' \in [Tasks -> Out \cup InWait \cup InPoll] /\ at'[cpu.current] = "check"
  BY <1>1, <1>2, GoDoes DEF InWait
<1>6. call[cpu.current] = NoCall /\ cpu.state[cpu.current] # "blocked"
  BY <1>2 DEF Called, Out, Enlisted
<1>7. OwnStep(cpu.current, "check")
  BY <1>1, <1>2, <1>3, <1>4, <1>5, <1>6, NoCallIs DEF OwnStep, WantsLock
<1>8. SchedTypeOK'
  BY <1>1, <1>4, <1>5 DEF SchedInv, SchedTypeOK
<1>9. Placed(cpu.current)'
  <2>1. Called(cpu.current)'
    BY <1>1, <1>2, <1>3, <1>4, <1>5 DEF Called, Out, InPoll
  <2>2. Left(cpu.current)'
    BY <1>1, <1>2 DEF Left, Listed
  <2> QED
    BY <1>1, <1>6, <2>1, <2>2 DEF Placed
<1> QED
  BY <1>1, <1>2, <1>7, <1>8, <1>9, CpuStays DEF Out, InWait, InPoll

\* A task whose call is over has nothing left behind.
LEMMA OutIsPlaced ==
    ASSUME NEW t \in Tasks, at'[t] \in Out, call'[t] = NoCall, cpu'.state[t] # "blocked",
           \A q \in Queues : ~On(waiters'[q], t), ~On(sleepers', t), t \notin interruptible'
    PROVE  Placed(t)'
BY DEF Placed, Called, Left, Out, InWait, InPoll

\* Mutex::lock takes the mutex or goes to wait for it.
LEMMA LockMutexKeeps ==
    ASSUME SchedInv, LockMutex
    PROVE  SchedInv'
<1> DEFINE c == [NoCall EXCEPT !.for = {Lock}]
<1>1. /\ Is("user") /\ cpu' = cpu /\ UNCHANGED <<waiters, sleepers, timedOut, interruptible, pending, giving>>
      /\ \/ owner = NoTask /\ owner' = Current /\ UNCHANGED <<at, call, late>>
         \/ owner # NoTask /\ Calls(c) /\ Go("check") /\ UNCHANGED owner
  BY DEF LockMutex
<1>2. /\ cpu.current \in Tasks /\ Current = cpu.current /\ at[cpu.current] = "user"
      /\ Called(cpu.current) /\ Left(cpu.current) /\ (cpu.state[cpu.current] = "blocked" => Enlisted(cpu.current))
      /\ call \in [Tasks -> Call] /\ at \in [Tasks -> Out \cup InWait \cup InPoll]
  BY <1>1, CurrentIs
<1>3. c \in Call /\ c.for = {Lock} /\ ~c.again
  BY SchedNames DEF Call, NoCall
<1>4. call[cpu.current] = NoCall /\ cpu.state[cpu.current] # "blocked"
  BY <1>2 DEF Called, Out, Enlisted
<1>5. CASE owner = NoTask /\ owner' = Current /\ UNCHANGED <<at, call, late>>
  <2>1. at' = [at EXCEPT ![cpu.current] = "user"] /\ owner' # NoTask
    BY <1>2, <1>5, SchedNames
  <2>2. OwnStep(cpu.current, "user")
    BY <1>1, <1>5, <2>1 DEF OwnStep
  <2>3. SchedTypeOK'
    BY <1>1, <1>2, <1>5 DEF SchedInv, SchedTypeOK
  <2>4. Placed(cpu.current)'
    BY <1>1, <1>2, <1>4, <1>5 DEF Placed, Called, Left
  <2> QED
    BY <1>1, <1>2, <2>2, <2>3, <2>4, CpuStays DEF Out, InWait, InPoll
<1>6. CASE owner # NoTask /\ Calls(c) /\ Go("check") /\ UNCHANGED owner
  <2> HIDE DEF c
  <2>1. /\ call' \in [Tasks -> Call] /\ late' = late \ {cpu.current}
        /\ \A t \in Tasks : call'[t] = IF t = cpu.current THEN c ELSE call[t]
    BY <1>2, <1>3, <1>6, CallsDoes
  <2>2. at' = [at EXCEPT ![cpu.current] = "check"] /\ at' \in [Tasks -> Out \cup InWait \cup InPoll] /\ at'[cpu.current] = "check"
    BY <1>2, <1>6, GoDoes DEF InWait
  <2>3. OwnStep(cpu.current, "check")
    BY <1>1, <1>2, <1>6, <2>1, <2>2 DEF OwnStep
  <2>4. SchedTypeOK'
    BY <1>1, <1>6, <2>1, <2>2 DEF SchedInv, SchedTypeOK
  <2>5. Called(cpu.current)'
    BY <1>1, <1>2, <1>3, <2>1, <2>2 DEF Called, Out, InPoll, c
  <2>6. Left(cpu.current)'
    BY <1>1, <1>2 DEF Left, Listed
  <2>7. Placed(cpu.current)'
    BY <1>1, <1>4, <2>5, <2>6 DEF Placed
  <2> QED
    BY <1>1, <1>2, <2>3, <2>4, <2>7, CpuStays DEF Out, InWait, InPoll
<1> QED
  BY <1>1, <1>5, <1>6

\* poll or epoll_wait is called.
LEMMA PollKeeps ==
    ASSUME SchedInv, NEW dl \in BOOLEAN, NEW again \in BOOLEAN, Poll(dl, again)
    PROVE  SchedInv'
<1> DEFINE c == [for |-> Devices, interruptible |-> TRUE, deadline |-> dl, again |-> again]
<1>1. Is("user") /\ Calls(c) /\ Go("prepare") /\ cpu' = cpu
      /\ UNCHANGED <<waiters, sleepers, timedOut, interruptible, pending, giving, owner>>
  BY DEF Poll
<1>2. /\ cpu.current \in Tasks /\ Current = cpu.current /\ at[cpu.current] = "user"
      /\ Called(cpu.current) /\ Left(cpu.current) /\ (cpu.state[cpu.current] = "blocked" => Enlisted(cpu.current))
      /\ call \in [Tasks -> Call] /\ at \in [Tasks -> Out \cup InWait \cup InPoll]
  BY <1>1, CurrentIs
<1>3. c \in Call /\ Lock \notin c.for /\ c.for = Devices /\ c.interruptible
  BY SchedNames DEF Call, Queues
<1> HIDE DEF c
<1>4. /\ call' \in [Tasks -> Call] /\ late' = late \ {cpu.current}
      /\ \A t \in Tasks : call'[t] = IF t = cpu.current THEN c ELSE call[t]
  BY <1>1, <1>2, <1>3, CallsDoes
<1>5. at' = [at EXCEPT ![cpu.current] = "prepare"] /\ at' \in [Tasks -> Out \cup InWait \cup InPoll] /\ at'[cpu.current] = "prepare"
  BY <1>1, <1>2, GoDoes DEF InPoll
<1>6. call[cpu.current] = NoCall /\ cpu.state[cpu.current] # "blocked"
  BY <1>2 DEF Called, Out, Enlisted
<1>7. OwnStep(cpu.current, "prepare")
  BY <1>1, <1>2, <1>3, <1>4, <1>5, <1>6, NoCallIs DEF OwnStep, WantsLock
<1>8. SchedTypeOK'
  BY <1>1, <1>4, <1>5 DEF SchedInv, SchedTypeOK
<1>9. Placed(cpu.current)'
  <2>1. Called(cpu.current)'
    BY <1>1, <1>2, <1>3, <1>4, <1>5 DEF Called, Out, InWait
  <2>2. Left(cpu.current)'
    BY <1>1, <1>2 DEF Left, Listed
  <2> QED
    BY <1>1, <1>6, <2>1, <2>2 DEF Placed
<1> QED
  BY <1>1, <1>2, <1>7, <1>8, <1>9, CpuStays DEF Out, InWait, InPoll

\* What Take and GiveUp leave of the caller and of what it wanted.
Over(cur) ==
    /\ at' = [at EXCEPT ![cur] = "return"] /\ at' \in [Tasks -> Out \cup InWait \cup InPoll] /\ at'[cur] = "return"
    /\ call' \in [Tasks -> Call] /\ call'[cur] = NoCall
    /\ \A t \in Tasks \ {cur} : call'[t] = call[t]
    /\ late' \subseteq Tasks /\ giving' \subseteq giving /\ owner' \in Tasks \cup {NoTask}
    /\ owner' = IF Met /\ Lock \in call[cur].for THEN cur ELSE owner

\* A call that is over leaves no call.
LEMMA TakeEnds ==
    ASSUME SchedInv, NEW p, Is(p), (Met /\ Take) \/ (~Met /\ GiveUp)
    PROVE  Over(cpu.current)
<1>1. /\ cpu.current \in Tasks /\ Current = cpu.current
      /\ call \in [Tasks -> Call] /\ at \in [Tasks -> Out \cup InWait \cup InPoll]
      /\ late \subseteq Tasks /\ owner \in Tasks \cup {NoTask}
  BY CurrentIs
<1>2. Calls(NoCall) /\ Go("return")
  BY DEF Take, GiveUp
<1>3. /\ call' \in [Tasks -> Call] /\ late' = late \ {cpu.current}
      /\ \A t \in Tasks : call'[t] = IF t = cpu.current THEN NoCall ELSE call[t]
  BY <1>1, <1>2, NoCallIs, CallsDoes
<1>4. at' = [at EXCEPT ![cpu.current] = "return"] /\ at' \in [Tasks -> Out \cup InWait \cup InPoll] /\ at'[cpu.current] = "return"
  BY <1>1, <1>2, GoDoes DEF Out
<1>5. giving' \subseteq giving /\ owner' = IF Met /\ Lock \in call[cpu.current].for THEN cpu.current ELSE owner
  BY <1>1 DEF Take, GiveUp
<1> QED
  BY <1>1, <1>3, <1>4, <1>5 DEF Over

\* The end of a call, with the caller off every list and able to run.
LEMMA EndKeeps ==
    ASSUME SchedInv, NEW cur \in Tasks, cur = cpu.current, Over(cur),
           WantsLock(cur) => Met,
           NEW s \in {"running", "runnable"}, StateOf(s),
           waiters' \in [Queues -> Seq(Tasks)],
           \A q \in Queues : \A t \in Tasks : On(waiters'[q], t) <=> On(waiters[q], t) /\ t # cur,
           sleepers' \in Seq(Tasks), \A t \in Tasks : On(sleepers', t) => On(sleepers, t) /\ t # cur,
           interruptible' = interruptible \ {cur},
           timedOut' \subseteq Tasks, pending' \subseteq Tasks
    PROVE  SchedInv'
<1>1. cur # NoTask
  BY SchedNames
<1>2. cpu' \in Cpu /\ cpu'.state[cur] # "blocked"
  BY DEF StateOf, All
<1>3. WantsLock(cur)' <=> FALSE
  BY <1>1, NoCallIs DEF Over, WantsLock
<1>4. owner' # NoTask \/ (owner' = owner /\ ~WantsLock(cur))
  BY <1>1 DEF Over, WantsLock
<1>5. OwnStep(cur, "return")
  BY <1>1, <1>3, <1>4 DEF OwnStep, Over
<1>6. SchedTypeOK'
  BY <1>1, <1>2 DEF SchedInv, SchedTypeOK, Over
<1>7. Placed(cur)'
  BY <1>1, <1>2, OutIsPlaced DEF Over, Out
<1> QED
  BY <1>1, <1>5, <1>6, <1>7, OwnStepKeeps DEF Out

\* Off every queue; off those it waits for, which are the only ones it is on.
LEMMA ClearedDoes ==
    ASSUME waiters \in [Queues -> Seq(Tasks)], NEW cur, Current = cur
    PROVE  /\ Cleared \in [Queues -> Seq(Tasks)]
           /\ \A q \in Queues : \A t \in Tasks : On(Cleared[q], t) <=> On(waiters[q], t) /\ t # cur
<1>1. \A q \in Queues : waiters[q] \in Seq(Tasks)
  OBVIOUS
<1>2. Cleared = [q \in Queues |-> Without(waiters[q], cur)]
  BY DEF Cleared
<1>3. \A q \in Queues : /\ Without(waiters[q], cur) \in Seq(Tasks)
                          /\ \A t \in Tasks : On(Without(waiters[q], cur), t) <=> On(waiters[q], t) /\ t # cur
  BY <1>1, OnWithout
<1> QED
  BY <1>2, <1>3

\* The head of wait_inner's loop.
LEMMA CheckKeeps ==
    ASSUME SchedInv, NEW cur \in Tasks, cur = cpu.current, Check
    PROVE  SchedInv'
<1>1. /\ Is("check") /\ cpu' = cpu /\ UNCHANGED <<waiters, sleepers, timedOut, interruptible, pending>>
      /\ \/ Met /\ Take
         \/ ~Met /\ (call[cur].interruptible \/ call[cur].deadline) /\ GiveUp
         \/ ~Met /\ Go("enlist") /\ UNCHANGED <<call, late, giving, owner>>
  BY DEF Check, Current
<1>2. /\ Current = cur /\ at[cur] = "check" /\ cpu \in Cpu
      /\ Called(cur) /\ Left(cur) /\ (cpu.state[cur] = "blocked" => Enlisted(cur))
      /\ cpu.state[cur] \in {"running", "runnable", "blocked"}
      /\ call \in [Tasks -> Call] /\ at \in [Tasks -> Out \cup InWait \cup InPoll]
      /\ waiters \in [Queues -> Seq(Tasks)] /\ sleepers \in Seq(Tasks) /\ timedOut \subseteq Tasks /\ pending \subseteq Tasks
  BY <1>1, CurrentIs
<1>3. cpu.state[cur] # "blocked" /\ ~On(sleepers, cur) /\ cur \notin interruptible /\ \A q \in Queues : ~On(waiters[q], cur)
  BY <1>2 DEF Left, Enlisted, Listed
<1>4. StateOf(cpu.state[cur])
  BY <1>1, <1>2, StateStays
<1>5. CASE (Met /\ Take) \/ (~Met /\ (call[cur].interruptible \/ call[cur].deadline) /\ GiveUp)
  <2>1. Over(cur)
    BY <1>1, <1>2, <1>5, TakeEnds
  <2>2. WantsLock(cur) => Met
    BY <1>2, <1>5 DEF Called, InWait, WantsLock, NoCall
  <2> DEFINE s == cpu.state[cur]
  <2> HIDE DEF s
  <2>3. s \in {"running", "runnable"} /\ StateOf(s)
    BY <1>2, <1>3, <1>4 DEF s
  <2> QED
    BY <1>1, <1>2, <1>3, <2>1, <2>2, <2>3, EndKeeps
<1>6. CASE Go("enlist") /\ UNCHANGED <<call, late, giving, owner>>
  <2>1. at' = [at EXCEPT ![cur] = "enlist"] /\ at' \in [Tasks -> Out \cup InWait \cup InPoll] /\ at'[cur] = "enlist"
    BY <1>2, <1>6, GoDoes DEF InWait
  <2>2. OwnStep(cur, "enlist")
    BY <1>1, <1>2, <1>3, <1>6, <2>1 DEF OwnStep, WantsLock
  <2>3. SchedTypeOK'
    BY <1>1, <1>6, <2>1 DEF SchedInv, SchedTypeOK
  <2>4. Placed(cur)'
    BY <1>1, <1>2, <1>3, <1>6, <2>1 DEF Placed, Called, Left, Out, InWait, InPoll
  <2> QED
    BY <1>1, <1>2, <2>2, <2>3, <2>4, CpuStays DEF Out, InWait, InPoll
<1> QED
  BY <1>1, <1>5, <1>6

\* The current task put on the queues it waits for.
LEMMA QueueDoes ==
    ASSUME waiters \in [Queues -> Seq(Tasks)], NEW cur \in Tasks, NEW Q \in SUBSET Queues,
           waiters' = [q \in Queues |-> IF q \in Q THEN Append(waiters[q], cur) ELSE waiters[q]]
    PROVE  /\ waiters' \in [Queues -> Seq(Tasks)]
           /\ \A q \in Queues : \A t \in Tasks : On(waiters'[q], t) <=> On(waiters[q], t) \/ (q \in Q /\ t = cur)
<1>1. \A q \in Queues : waiters[q] \in Seq(Tasks)
  OBVIOUS
<1>2. \A q \in Queues : /\ Append(waiters[q], cur) \in Seq(Tasks)
                          /\ \A t \in Tasks : On(Append(waiters[q], cur), t) <=> On(waiters[q], t) \/ t = cur
  BY <1>1, OnAppend
<1>3. \A q \in Queues : waiters'[q] = IF q \in Q THEN Append(waiters[q], cur) ELSE waiters[q]
  OBVIOUS
<1>4. waiters' \in [Queues -> Seq(Tasks)]
  BY <1>1, <1>2
<1> QED
  BY <1>2, <1>3, <1>4

\* wait_inner under the queue's lock: who goes on to sleep is listed and nothing has come.
LEMMA EnlistKeeps ==
    ASSUME SchedInv, NEW cur \in Tasks, cur = cpu.current, Enlist
    PROVE  SchedInv'
<1>1. /\ Is("enlist") /\ UNCHANGED <<sleepers, timedOut, pending>>
      /\ \/ Met /\ Take /\ UNCHANGED <<cpu, waiters, interruptible>>
         \/ /\ ~Met /\ cpu' = Blocked(cpu)
            /\ interruptible' = interruptible \cup {cur} \/ interruptible' = interruptible \ {cur}
            /\ waiters' = [q \in Queues |-> IF q \in call[cur].for THEN Append(waiters[q], cur) ELSE waiters[q]]
            /\ Go("sleep") /\ UNCHANGED <<call, late, giving, owner>>
  BY DEF Enlist, Current
<1>2. /\ Current = cur /\ at[cur] = "enlist" /\ cpu \in Cpu
      /\ Called(cur) /\ Left(cur) /\ (cpu.state[cur] = "blocked" => Enlisted(cur))
      /\ cpu.state[cur] \in {"running", "runnable", "blocked"}
      /\ call \in [Tasks -> Call] /\ at \in [Tasks -> Out \cup InWait \cup InPoll] /\ call[cur].for \in SUBSET Queues
      /\ waiters \in [Queues -> Seq(Tasks)] /\ sleepers \in Seq(Tasks) /\ timedOut \subseteq Tasks /\ pending \subseteq Tasks
      /\ interruptible \subseteq Tasks
  BY <1>1, CurrentIs
<1>3. cpu.state[cur] # "blocked" /\ ~On(sleepers, cur) /\ cur \notin interruptible /\ \A q \in Queues : ~On(waiters[q], cur)
  BY <1>2 DEF Left, Enlisted, Listed
<1>4. CASE Met /\ Take /\ UNCHANGED <<cpu, waiters, interruptible>>
  <2>1. Over(cur)
    BY <1>1, <1>2, <1>4, TakeEnds
  <2> DEFINE s == cpu.state[cur]
  <2>2. StateOf(s)
    BY <1>2, <1>4, StateStays
  <2>3. s \in {"running", "runnable"}
    BY <1>2, <1>3
  <2> HIDE DEF s
  <2> QED
    BY <1>1, <1>2, <1>3, <1>4, <2>1, <2>2, <2>3, EndKeeps
<1>5. CASE /\ ~Met /\ cpu' = Blocked(cpu)
           /\ interruptible' = interruptible \cup {cur} \/ interruptible' = interruptible \ {cur}
           /\ waiters' = [q \in Queues |-> IF q \in call[cur].for THEN Append(waiters[q], cur) ELSE waiters[q]]
           /\ Go("sleep") /\ UNCHANGED <<call, late, giving, owner>>
  <2>1. at' = [at EXCEPT ![cur] = "sleep"] /\ at' \in [Tasks -> Out \cup InWait \cup InPoll] /\ at'[cur] = "sleep"
    BY <1>2, <1>5, GoDoes DEF InWait
  <2>2. /\ waiters' \in [Queues -> Seq(Tasks)]
        /\ \A q \in Queues : \A t \in Tasks : On(waiters'[q], t) <=> On(waiters[q], t) \/ (q \in call[cur].for /\ t = cur)
    <3> DEFINE Q == call[cur].for
    <3>1. Q \in SUBSET Queues /\ waiters' = [q \in Queues |-> IF q \in Q THEN Append(waiters[q], cur) ELSE waiters[q]]
      BY <1>2, <1>5
    <3> HIDE DEF Q
    <3>2. /\ waiters' \in [Queues -> Seq(Tasks)]
          /\ \A q \in Queues : \A t \in Tasks : On(waiters'[q], t) <=> On(waiters[q], t) \/ (q \in Q /\ t = cur)
      BY <1>2, <3>1, QueueDoes
    <3> QED
      BY <3>2 DEF Q
  <2>3. StateOf("blocked")
    BY <1>2, <1>5, StateSet DEF Blocked, States
  <2>4. \A q \in call[cur].for : q # Lock => q \notin giving
    BY <1>2, <1>5 DEF Met, Holds
  <2>5. WantsLock(cur) => owner # NoTask
    BY <1>2, <1>5 DEF Met, Holds, WantsLock
  <2>6. OwnStep(cur, "sleep")
    BY <1>1, <1>5, <2>1, <2>2, <2>5 DEF OwnStep, WantsLock
  <2>7. SchedTypeOK'
    BY <1>1, <1>2, <1>5, <2>1, <2>2, <2>3 DEF SchedInv, SchedTypeOK, StateOf
  <2>8. Placed(cur)'
    <3>1. Called(cur)'
      BY <1>2, <1>5, <2>1 DEF Called, Out, InWait, InPoll
    <3>2. Left(cur)'
      BY <1>1, <1>3, <1>5, <2>1, <2>2 DEF Left, Listed
    <3>3. Enlisted(cur)'
      BY <1>2, <1>5, <2>1, <2>2, <2>3, <2>4 DEF Enlisted, StateOf
    <3> QED
      BY <3>1, <3>2, <3>3 DEF Placed
  <2> QED
    BY <2>3, <2>6, <2>7, <2>8, OwnStepKeeps DEF Out, InWait, InPoll
<1> QED
  BY <1>1, <1>4, <1>5

\* The timer is armed, for a wait or a poll.
LEMMA ArmKeeps ==
    ASSUME SchedInv, NEW cur \in Tasks, cur = cpu.current, Arm \/ PollArm
    PROVE  SchedInv'
<1> DEFINE here == IF Arm THEN "sleep" ELSE "poll sleep"
           place == IF Arm THEN "asleep" ELSE "poll asleep"
<1>1. /\ Is(here) /\ Go(place) /\ call[cur].deadline /\ sleepers' = Append(sleepers, cur)
      /\ UNCHANGED <<cpu, call, waiters, late, timedOut, interruptible, pending, giving, owner>>
  BY DEF Arm, PollArm, Current
<1>2. \/ here = "sleep" /\ place = "asleep"
      \/ here = "poll sleep" /\ place = "poll asleep"
  OBVIOUS
<1> HIDE DEF here, place
<1>3. /\ Current = cur /\ at[cur] = here
      /\ Called(cur) /\ Left(cur) /\ (cpu.state[cur] = "blocked" => Enlisted(cur))
      /\ at \in [Tasks -> Out \cup InWait \cup InPoll] /\ sleepers \in Seq(Tasks)
  BY <1>1, CurrentIs
<1>4. place \in InWait \cup InPoll
  BY <1>2 DEF InWait, InPoll
<1>5. at' = [at EXCEPT ![cur] = place] /\ at' \in [Tasks -> Out \cup InWait \cup InPoll] /\ at'[cur] = place
  BY <1>1, <1>3, <1>4, GoDoes
<1>6. sleepers' \in Seq(Tasks) /\ \A t \in Tasks : On(sleepers', t) <=> On(sleepers, t) \/ t = cur
  BY <1>1, <1>3, OnAppend
<1>7. ~WantsLock(cur)
  BY <1>1, <1>2, <1>3, SchedNames DEF WantsLock, Called, InWait, InPoll, NoCall
<1>8. OwnStep(cur, place)
  BY <1>1, <1>5, <1>6, <1>7 DEF OwnStep, WantsLock
<1>9. SchedTypeOK'
  BY <1>1, <1>5, <1>6 DEF SchedInv, SchedTypeOK
<1>10. Placed(cur)'
  <2>1. Called(cur)'
    BY <1>1, <1>2, <1>3, <1>5 DEF Called, Out, InWait, InPoll
  <2>2. Left(cur)'
    BY <1>1, <1>2, <1>3, <1>5 DEF Left, Listed
  <2>3. ASSUME cpu'.state[cur] = "blocked" PROVE Enlisted(cur)'
    BY <1>1, <1>2, <1>3, <1>5, <2>3 DEF Enlisted, InWait
  <2> QED
    BY <2>1, <2>2, <2>3 DEF Placed
<1> QED
  BY <1>1, <1>2, <1>4, <1>8, <1>9, <1>10, CpuStays DEF Out, InWait, InPoll

\* wait_inner after schedule().
LEMMA AwakeKeeps ==
    ASSUME SchedInv, NEW cur \in Tasks, cur = cpu.current, Awake
    PROVE  SchedInv'
<1>1. /\ Is("awake") /\ Go("check")
      /\ sleepers' = Without(sleepers, cur) /\ interruptible' = interruptible \ {cur}
      /\ waiters' = [q \in Queues |-> IF q \in call[cur].for THEN Without(waiters[q], cur) ELSE waiters[q]]
      /\ UNCHANGED <<cpu, call, late, timedOut, pending, giving, owner>>
  BY DEF Awake, Current
<1>2. /\ Current = cur /\ at[cur] = "awake"
      /\ Called(cur) /\ Left(cur) /\ (cpu.state[cur] = "blocked" => Enlisted(cur))
      /\ at \in [Tasks -> Out \cup InWait \cup InPoll] /\ sleepers \in Seq(Tasks) /\ interruptible \subseteq Tasks
      /\ waiters \in [Queues -> Seq(Tasks)]
  BY <1>1, CurrentIs
<1>3. cpu.state[cur] # "blocked"
  BY <1>2 DEF Enlisted
<1>4. at' = [at EXCEPT ![cur] = "check"] /\ at' \in [Tasks -> Out \cup InWait \cup InPoll] /\ at'[cur] = "check"
  BY <1>1, <1>2, GoDoes DEF InWait
<1>5. sleepers' \in Seq(Tasks) /\ \A t \in Tasks : On(sleepers', t) <=> On(sleepers, t) /\ t # cur
  BY <1>1, <1>2, OnWithout
<1>6. /\ waiters' \in [Queues -> Seq(Tasks)]
      /\ \A q \in Queues : \A t \in Tasks : On(waiters'[q], t) <=> On(waiters[q], t) /\ t # cur
  <2>1. \A q \in Queues : waiters[q] \in Seq(Tasks)
    BY <1>2
  <2>2. \A q \in Queues : /\ Without(waiters[q], cur) \in Seq(Tasks)
                            /\ \A t \in Tasks : On(Without(waiters[q], cur), t) <=> On(waiters[q], t) /\ t # cur
    BY <2>1, OnWithout
  <2>3. \A q \in Queues : waiters'[q] = IF q \in call[cur].for THEN Without(waiters[q], cur) ELSE waiters[q]
    BY <1>1
  <2>4. \A q \in Queues : q \notin call[cur].for => ~On(waiters[q], cur)
    BY <1>2 DEF Left
  <2>5. waiters' \in [Queues -> Seq(Tasks)]
    BY <1>1, <2>1, <2>2
  <2>6. ASSUME NEW q \in Queues, NEW t \in Tasks PROVE On(waiters'[q], t) <=> On(waiters[q], t) /\ t # cur
    <3>1. CASE q \in call[cur].for
      BY <2>2, <2>3, <3>1
    <3>2. CASE q \notin call[cur].for
      BY <2>3, <2>4, <3>2
    <3> QED
      BY <3>1, <3>2
  <2> QED
    BY <2>5, <2>6
<1>7. OwnStep(cur, "check")
  BY <1>1, <1>3, <1>4, <1>5, <1>6 DEF OwnStep, WantsLock
<1>8. SchedTypeOK'
  BY <1>1, <1>2, <1>4, <1>5, <1>6 DEF SchedInv, SchedTypeOK
<1>9. Placed(cur)'
  <2>1. Called(cur)'
    BY <1>1, <1>2, <1>4 DEF Called, Out, InWait, InPoll
  <2>2. Left(cur)'
    BY <1>1, <1>5, <1>6 DEF Left
  <2> QED
    BY <1>1, <1>3, <2>1, <2>2 DEF Placed
<1> QED
  BY <1>1, <1>7, <1>8, <1>9, CpuStays DEF Out, InWait, InPoll

\* PollTable::prepare and add.
LEMMA PollPrepareKeeps ==
    ASSUME SchedInv, NEW cur \in Tasks, cur = cpu.current, PollPrepare
    PROVE  SchedInv'
<1> DEFINE here == IF Is("prepare") THEN "prepare" ELSE "prepare again"
           registers == here = "prepare" \/ call[cur].again
           Q == {q \in Devices : registers /\ ~Contains(waiters[q], cur)}
<1>1. /\ Is(here) /\ Go("scan") /\ cpu' = Blocked(cpu) /\ interruptible' = interruptible \cup {cur}
      /\ UNCHANGED <<call, sleepers, late, timedOut, pending, giving, owner>>
  BY DEF PollPrepare, Current
<1>2. here \in {"prepare", "prepare again"} /\ (here = "prepare" <=> Is("prepare"))
  BY <1>1 DEF Is
<1> HIDE DEF here
<1>3. /\ Current = cur /\ at[cur] = here /\ cpu \in Cpu
      /\ Called(cur) /\ Left(cur)
      /\ call \in [Tasks -> Call] /\ at \in [Tasks -> Out \cup InWait \cup InPoll]
      /\ waiters \in [Queues -> Seq(Tasks)] /\ interruptible \subseteq Tasks
  BY <1>1, CurrentIs
<1>4. call[cur].for = Devices /\ call[cur].interruptible
  BY <1>2, <1>3 DEF Called, InPoll
<1>5. \A q \in Queues : Contains(waiters[q], cur) <=> On(waiters[q], cur)
  <2>1. \A q \in Queues : waiters[q] \in Seq(Tasks)
    BY <1>3
  <2> QED
    BY <2>1 DEF Contains, On
<1>6. waiters' = [q \in Queues |-> IF q \in Q THEN Append(waiters[q], cur) ELSE waiters[q]] /\ Q \in SUBSET Queues
  <2>1. Q \in SUBSET Queues
    BY SchedNames
  <2>2. CASE registers
    <3>1. waiters' = [q \in Queues |-> IF q \in Devices /\ ~Contains(waiters[q], cur) THEN Append(waiters[q], cur) ELSE waiters[q]]
      BY <1>2, <1>3, <2>2 DEF PollPrepare
    <3> QED
      BY <2>1, <2>2, <3>1
  <2>3. CASE ~registers
    <3>1. waiters' = waiters
      BY <1>2, <1>3, <2>3 DEF PollPrepare
    <3>2. Q = {}
      BY <2>3
    <3> HIDE DEF Q
    <3> QED
      BY <1>3, <3>1, <3>2
  <2> QED
    BY <2>2, <2>3
<1>7. registers => \A q \in Devices : q \in Q \/ On(waiters[q], cur)
  BY <1>5, SchedNames
<1>8. \A q \in Q : q \in call[cur].for
  BY <1>4
<1> HIDE DEF Q
<1>9. /\ waiters' \in [Queues -> Seq(Tasks)]
      /\ \A q \in Queues : \A t \in Tasks : On(waiters'[q], t) <=> On(waiters[q], t) \/ (q \in Q /\ t = cur)
  BY <1>3, <1>6, QueueDoes, ZenonT(60)
<1>10. at' = [at EXCEPT ![cur] = "scan"] /\ at' \in [Tasks -> Out \cup InWait \cup InPoll] /\ at'[cur] = "scan"
  BY <1>1, <1>3, GoDoes DEF InPoll
<1>11. StateOf("blocked")
  BY <1>1, <1>3, StateSet DEF Blocked, States
<1>12. OwnStep(cur, "scan")
  BY <1>1, <1>4, <1>9, <1>10, SchedNames DEF OwnStep, WantsLock
<1>13. SchedTypeOK'
  BY <1>1, <1>3, <1>9, <1>10, <1>11 DEF SchedInv, SchedTypeOK, StateOf
<1>14. Placed(cur)'
  <2>1. Called(cur)'
    BY <1>1, <1>4, <1>10 DEF Called, Out, InWait
  <2>2. Left(cur)'
    BY <1>1, <1>2, <1>3, <1>8, <1>9, <1>10 DEF Left, Listed
  <2>3. Enlisted(cur)'
    BY <1>1, <1>4, <1>7, <1>9, <1>10, <1>11, SchedNames DEF Enlisted, InWait, StateOf
  <2> QED
    BY <2>1, <2>2, <2>3 DEF Placed
<1> QED
  BY <1>11, <1>12, <1>13, <1>14, OwnStepKeeps DEF Out, InWait, InPoll

\* PollTable::block up to the schedule(), or cancel.
LEMMA PollScanKeeps ==
    ASSUME SchedInv, NEW cur \in Tasks, cur = cpu.current, PollScan
    PROVE  SchedInv'
<1>1. /\ Is("scan") /\ UNCHANGED <<sleepers, pending>>
      /\ \/ /\ cpu' = Running(cpu) /\ interruptible' = interruptible \ {cur} /\ waiters' = Cleared
            /\ (Met /\ Take) \/ (~Met /\ GiveUp)
            /\ UNCHANGED timedOut
         \/ /\ timedOut' = timedOut \/ timedOut' = timedOut \ {cur}
            /\ ~Met /\ Go("poll sleep")
            /\ UNCHANGED <<cpu, interruptible, waiters, call, late, giving, owner>>
  BY DEF PollScan, Current
<1>2. /\ Current = cur /\ at[cur] = "scan" /\ cpu \in Cpu
      /\ Called(cur) /\ Left(cur) /\ (cpu.state[cur] = "blocked" => Enlisted(cur))
      /\ call \in [Tasks -> Call] /\ at \in [Tasks -> Out \cup InWait \cup InPoll]
      /\ waiters \in [Queues -> Seq(Tasks)] /\ sleepers \in Seq(Tasks) /\ timedOut \subseteq Tasks /\ pending \subseteq Tasks
  BY <1>1, CurrentIs
<1>3. ~On(sleepers, cur) /\ call[cur].for = Devices /\ ~WantsLock(cur)
  BY <1>2, SchedNames DEF Left, Called, InPoll, WantsLock
<1>4. CASE /\ cpu' = Running(cpu) /\ interruptible' = interruptible \ {cur} /\ waiters' = Cleared
           /\ (Met /\ Take) \/ (~Met /\ GiveUp)
           /\ UNCHANGED timedOut
  <2>1. Over(cur)
    BY <1>1, <1>2, <1>4, TakeEnds
  <2>2. StateOf("running")
    BY <1>2, <1>4, StateSet DEF Running, States
  <2>3. /\ waiters' \in [Queues -> Seq(Tasks)]
        /\ \A q \in Queues : \A t \in Tasks : On(waiters'[q], t) <=> On(waiters[q], t) /\ t # cur
    BY <1>2, <1>4, ClearedDoes
  <2> QED
    BY <1>1, <1>2, <1>3, <1>4, <2>1, <2>2, <2>3, EndKeeps
<1>5. CASE /\ timedOut' = timedOut \/ timedOut' = timedOut \ {cur}
           /\ ~Met /\ Go("poll sleep")
           /\ UNCHANGED <<cpu, interruptible, waiters, call, late, giving, owner>>
  <2>1. at' = [at EXCEPT ![cur] = "poll sleep"] /\ at' \in [Tasks -> Out \cup InWait \cup InPoll] /\ at'[cur] = "poll sleep"
    BY <1>2, <1>5, GoDoes DEF InPoll
  <2>2. OwnStep(cur, "poll sleep")
    BY <1>1, <1>3, <1>5, <2>1 DEF OwnStep, WantsLock
  <2>3. SchedTypeOK'
    BY <1>1, <1>2, <1>5, <2>1 DEF SchedInv, SchedTypeOK
  <2>4. Called(cur)'
    BY <1>2, <1>5, <2>1 DEF Called, Out, InWait, InPoll
  <2>5. Left(cur)'
    BY <1>1, <1>2, <1>5, <2>1 DEF Left, Listed
  <2>6. ASSUME cpu'.state[cur] = "blocked" PROVE Enlisted(cur)'
    <3>1. \A q \in Devices : q \notin giving
      BY <1>2, <1>3, <1>5, SchedNames DEF Met, Holds
    <3>2. giving' = giving /\ waiters' = waiters /\ call' = call /\ cpu' = cpu
      BY <1>5
    <3>3. call[cur].again => \A q \in Devices : On(waiters[q], cur)
      BY <1>2, <1>3, <2>6, <3>2 DEF Enlisted
    <3> QED
      BY <1>3, <2>1, <3>1, <3>2, <3>3 DEF Enlisted, InWait
  <2>7. Placed(cur)'
    BY <2>4, <2>5, <2>6 DEF Placed
  <2> QED
    BY <1>2, <1>5, <2>2, <2>3, <2>7, CpuStays DEF Out, InWait, InPoll
<1> QED
  BY <1>1, <1>4, <1>5

\* PollTable::block after schedule().
LEMMA PollAwakeKeeps ==
    ASSUME SchedInv, NEW cur \in Tasks, cur = cpu.current, PollAwake
    PROVE  SchedInv'
<1>1. /\ Is("poll awake") /\ UNCHANGED <<cpu, pending>>
      /\ sleepers' = Without(sleepers, cur) /\ timedOut' = timedOut \ {cur} /\ interruptible' = interruptible \ {cur}
      /\ waiters' = waiters \/ waiters' = Cleared
      /\ \/ waiters' = Cleared /\ GiveUp
         \/ Go("prepare again") /\ UNCHANGED <<call, late, giving, owner>>
  BY DEF PollAwake, Current
<1>2. /\ Current = cur /\ at[cur] = "poll awake" /\ cpu \in Cpu
      /\ Called(cur) /\ Left(cur) /\ (cpu.state[cur] = "blocked" => Enlisted(cur))
      /\ cpu.state[cur] \in {"running", "runnable", "blocked"}
      /\ call \in [Tasks -> Call] /\ at \in [Tasks -> Out \cup InWait \cup InPoll] /\ late \subseteq Tasks
      /\ waiters \in [Queues -> Seq(Tasks)] /\ sleepers \in Seq(Tasks) /\ timedOut \subseteq Tasks /\ pending \subseteq Tasks
      /\ interruptible \subseteq Tasks /\ owner \in Tasks \cup {NoTask}
  BY <1>1, CurrentIs
<1>3. cpu.state[cur] # "blocked" /\ call[cur].for = Devices /\ ~WantsLock(cur)
  BY <1>2, SchedNames DEF Enlisted, Called, InPoll, WantsLock
<1>4. sleepers' \in Seq(Tasks) /\ \A t \in Tasks : On(sleepers', t) <=> On(sleepers, t) /\ t # cur
  BY <1>1, <1>2, OnWithout
<1>5. /\ Cleared \in [Queues -> Seq(Tasks)]
      /\ \A q \in Queues : \A t \in Tasks : On(Cleared[q], t) <=> On(waiters[q], t) /\ t # cur
  BY <1>2, ClearedDoes
<1>6. CASE waiters' = Cleared /\ GiveUp
  <2>1. Over(cur)
    <3>1. Calls(NoCall) /\ Go("return") /\ giving' = giving /\ owner' = owner
      BY <1>6 DEF GiveUp
    <3>2. /\ call' \in [Tasks -> Call] /\ late' = late \ {cur}
          /\ \A t \in Tasks : call'[t] = IF t = cur THEN NoCall ELSE call[t]
      BY <1>2, <3>1, NoCallIs, CallsDoes
    <3>3. at' = [at EXCEPT ![cur] = "return"] /\ at' \in [Tasks -> Out \cup InWait \cup InPoll] /\ at'[cur] = "return"
      BY <1>2, <3>1, GoDoes DEF Out
    <3> QED
      BY <1>2, <1>3, <3>1, <3>2, <3>3 DEF Over, WantsLock
  <2> DEFINE s == cpu.state[cur]
  <2>2. StateOf(s)
    BY <1>1, <1>2, StateStays
  <2>3. s \in {"running", "runnable"}
    BY <1>2, <1>3
  <2> HIDE DEF s
  <2> QED
    BY <1>1, <1>2, <1>3, <1>4, <1>5, <1>6, <2>1, <2>2, <2>3, EndKeeps
<1>7. CASE Go("prepare again") /\ UNCHANGED <<call, late, giving, owner>>
  <2>1. at' = [at EXCEPT ![cur] = "prepare again"] /\ at' \in [Tasks -> Out \cup InWait \cup InPoll] /\ at'[cur] = "prepare again"
    BY <1>2, <1>7, GoDoes DEF InPoll
  <2>2. /\ waiters' \in [Queues -> Seq(Tasks)]
        /\ \A q \in Queues : \A t \in Tasks \ {cur} : On(waiters'[q], t) <=> On(waiters[q], t)
        /\ \A q \in Queues : On(waiters'[q], cur) => On(waiters[q], cur)
    BY <1>1, <1>2, <1>5
  <2>3. OwnStep(cur, "prepare again")
    BY <1>1, <1>3, <1>4, <1>7, <2>1, <2>2 DEF OwnStep, WantsLock
  <2>4. SchedTypeOK'
    BY <1>1, <1>2, <1>4, <1>7, <2>1, <2>2 DEF SchedInv, SchedTypeOK
  <2>5. Called(cur)'
    BY <1>2, <1>7, <2>1 DEF Called, Out, InWait, InPoll
  <2>6. Left(cur)'
    BY <1>1, <1>2, <1>4, <1>7, <2>1, <2>2 DEF Left
  <2>7. Placed(cur)'
    BY <1>1, <1>3, <2>5, <2>6 DEF Placed
  <2> QED
    BY <1>1, <1>2, <2>3, <2>4, <2>7, CpuStays DEF Out, InWait, InPoll
<1> QED
  BY <1>1, <1>6, <1>7

\* return_to_user, when nobody asks for the CPU.
LEMMA DeliverKeeps ==
    ASSUME SchedInv, NEW cur \in Tasks, cur = cpu.current, Return, ~cpu.resched
    PROVE  SchedInv'
<1>1. /\ Is("return") /\ Go("user") /\ cpu' = cpu /\ pending' = pending \ {cur}
      /\ UNCHANGED <<call, waiters, sleepers, late, timedOut, interruptible, giving, owner>>
  BY DEF Return, Current
<1>2. /\ Current = cur /\ at[cur] = "return"
      /\ Called(cur) /\ Left(cur) /\ (cpu.state[cur] = "blocked" => Enlisted(cur))
      /\ at \in [Tasks -> Out \cup InWait \cup InPoll] /\ pending \subseteq Tasks
  BY <1>1, CurrentIs
<1>3. cpu.state[cur] # "blocked" /\ call[cur] = NoCall
  BY <1>2 DEF Enlisted, Called, Out
<1>4. at' = [at EXCEPT ![cur] = "user"] /\ at' \in [Tasks -> Out \cup InWait \cup InPoll] /\ at'[cur] = "user"
  BY <1>1, <1>2, GoDoes DEF Out
<1>5. OwnStep(cur, "user")
  BY <1>1, <1>3, <1>4 DEF OwnStep, WantsLock
<1>6. SchedTypeOK'
  BY <1>1, <1>2, <1>4 DEF SchedInv, SchedTypeOK
<1>7. Placed(cur)'
  BY <1>1, <1>2, <1>3, <1>4, OutIsPlaced DEF Left, Listed, Out
<1> QED
  BY <1>1, <1>5, <1>6, <1>7, CpuStays DEF Out, InWait, InPoll

\* What changes nothing the invariant speaks of.
LEMMA NothingMoves ==
    ASSUME SchedInv, UNCHANGED <<cpu, at, call, waiters, sleepers, timedOut, interruptible, pending, giving, owner>>, late' \subseteq Tasks
    PROVE  SchedInv'
<1>1. SchedTypeOK'
  BY DEF SchedInv, SchedTypeOK
<1>2. CpuInv'
  BY DEF SchedInv, CpuInv
<1>3. \A t \in Tasks : Placed(t)'
  BY DEF SchedInv, Placed, Called, Left, Enlisted
<1>4. MutexInv'
  BY DEF SchedInv, MutexInv, WantsLock
<1> QED
  BY <1>1, <1>2, <1>3, <1>4 DEF SchedInv

-----------------------------------------------------------------------------
(* Interrupts. *)

\* Interrupts: tasks are woken, and one in user mode is on its way out of the kernel.
Woken(list) ==
    /\ cpu' \in Cpu /\ Queued(cpu') /\ cpu'.current = cpu.current
    /\ \A t \in All : cpu'.state[t] = IF On(list, t) /\ cpu.state[t] # "zombie" THEN "runnable" ELSE cpu.state[t]
    /\ \A t \in Tasks : On(cpu'.runq, t) => On(cpu.runq, t) \/ On(list, t)
Entered == at' = at \/ FromUser

\* An interrupt moves nobody but the task it found in user mode.
LEMMA EnteredDoes ==
    ASSUME SchedInv, Entered
    PROVE  /\ at' \in [Tasks -> Out \cup InWait \cup InPoll]
           /\ \A t \in Tasks : at'[t] = at[t] \/ (t = cpu.current /\ at[t] = "user" /\ at'[t] = "return")
<1>1. at \in [Tasks -> Out \cup InWait \cup InPoll] /\ cpu.current \in All
  BY DEF SchedInv, SchedTypeOK, Cpu
<1>2. CASE at' = at
  BY <1>1, <1>2
<1>3. CASE at' # at
  <2>1. Is("user") /\ at' = [at EXCEPT ![cpu.current] = "return"]
    BY <1>3 DEF Entered, FromUser, Current
  <2>2. cpu.current \in Tasks /\ at[cpu.current] = "user"
    BY <2>1, CurrentIs
  <2> QED
    BY <1>1, <2>1, <2>2 DEF Out
<1> QED
  BY <1>2, <1>3

\* WakeAll wakes those of the list.
LEMMA WokenAll ==
    ASSUME SchedInv, NEW list \in Seq(Tasks), NEW resched \in BOOLEAN,
           cpu' = WakeAll([cpu EXCEPT !.resched = resched], list)
    PROVE  Woken(list)
<1> DEFINE c == [cpu EXCEPT !.resched = resched]
<1>1. c \in Cpu /\ c.state = cpu.state /\ c.onRq = cpu.onRq /\ c.runq = cpu.runq /\ c.current = cpu.current
  BY DEF SchedInv, SchedTypeOK, Cpu
<1>2. cpu' = WakeAll(c, list)
  OBVIOUS
<1> HIDE DEF c
<1>3. Queued(c)
  BY <1>1 DEF SchedInv, CpuInv, Queued
<1> DEFINE d == cpu'
<1>4. d = WakeAll(c, list)
  BY <1>2
<1> HIDE DEF d
<1>5. /\ d \in Cpu /\ Queued(d) /\ d.current = c.current
      /\ \A t \in All : d.state[t] = IF On(list, t) /\ c.state[t] # "zombie" THEN "runnable" ELSE c.state[t]
      /\ \A t \in Tasks : On(d.runq, t) => On(c.runq, t) \/ On(list, t)
  BY <1>1, <1>3, <1>4, WakeAllDoes
<1> QED
  BY <1>1, <1>5 DEF Woken, d

\* Nobody is woken when the CPU is left alone.
LEMMA WokenNone ==
    ASSUME SchedInv, cpu' = cpu
    PROVE  Woken(<<>>)
BY DEF SchedInv, SchedTypeOK, CpuInv, Woken, On

\* A step that wakes a list of tasks and takes nobody off a queue without waking it.
LEMMA WokenKeeps ==
    ASSUME SchedInv, NEW list \in Seq(Tasks), Woken(list), Entered, SchedTypeOK',
           \A t \in Tasks : On(list, t) => at[t] # "unborn",
           call' = call,
           \A t \in Tasks : \A q \in Queues : On(waiters'[q], t) => On(waiters[q], t),
           \A t \in Tasks : On(sleepers', t) => On(sleepers, t),
           interruptible' = interruptible,
           \A t \in Tasks : \/ On(list, t)
                            \/ \A q \in Queues : On(waiters[q], t) => On(waiters'[q], t) /\ (q \in giving' => q \in giving),
           owner' = owner \/ \A t \in Tasks : WantsLock(t) /\ cpu.state[t] = "blocked" =>
                                  \E u \in Tasks : WantsLock(u) /\ On(list, u)
    PROVE  SchedInv'
<1>2. /\ cpu' \in Cpu /\ Queued(cpu') /\ cpu'.current = cpu.current
      /\ \A t \in All : cpu'.state[t] = IF On(list, t) /\ cpu.state[t] # "zombie" THEN "runnable" ELSE cpu.state[t]
      /\ \A t \in Tasks : On(cpu'.runq, t) => On(cpu.runq, t) \/ On(list, t)
  BY DEF Woken
<1>3. Tasks \subseteq All
  BY DEF All
<1>4. /\ at' \in [Tasks -> Out \cup InWait \cup InPoll]
      /\ \A t \in Tasks : at'[t] = at[t] \/ (t = cpu.current /\ at[t] = "user" /\ at'[t] = "return")
  BY EnteredDoes
<1>5. CpuInv'
  <2>1. \A t \in Tasks : t # cpu'.current => at'[t] \in Away \cup {"unborn", "gone"}
    BY <1>2, <1>4 DEF SchedInv, CpuInv
  <2>2. \A t \in Tasks : at'[t] = "unborn" => t # cpu'.current /\ ~On(cpu'.runq, t)
    BY <1>2, <1>4 DEF SchedInv, CpuInv
  <2>3. \A t \in Tasks : cpu'.state[t] = "zombie" <=> at'[t] = "gone"
    BY <1>2, <1>3, <1>4 DEF SchedInv, CpuInv
  <2>4. \A t \in Tasks : at'[t] = "gone" => t # cpu'.current
    BY <1>2, <1>4 DEF SchedInv, CpuInv
  <2> QED
    BY <1>2, <2>1, <2>2, <2>3, <2>4 DEF CpuInv
<1>6. ASSUME NEW t \in Tasks PROVE Placed(t)'
  <2>1. Kept(t)
    <3>1. cpu'.state[t] = "blocked" => cpu.state[t] = "blocked" /\ ~On(list, t)
      BY <1>2, <1>3
    <3> QED
      BY <1>2, <1>4, <3>1 DEF Kept
  <2> QED
    BY <2>1, KeptIsPlaced DEF SchedInv
<1>7. MutexInv'
  <2> SUFFICES ASSUME owner' = NoTask, NEW u \in Tasks, WantsLock(u)', cpu'.state[u] = "blocked"
               PROVE  \E t \in Tasks : WantsLock(t)' /\ cpu'.state[t] # "blocked"
    BY DEF MutexInv
  <2>1. \A t \in Tasks : WantsLock(t)' <=> WantsLock(t)
    BY DEF WantsLock
  <2>2. WantsLock(u) /\ cpu.state[u] = "blocked"
    BY <1>2, <1>3, <2>1
  <2>3. CASE owner' = owner
    <3>1. PICK t \in Tasks : WantsLock(t) /\ cpu.state[t] # "blocked"
      BY <2>2, <2>3 DEF SchedInv, MutexInv
    <3> QED
      BY <1>2, <1>3, <2>1, <3>1
  <2>4. CASE owner' # owner
    <3>1. PICK t \in Tasks : WantsLock(t) /\ On(list, t)
      BY <2>2, <2>4
    <3> QED
      BY <1>2, <1>3, <2>1, <3>1
  <2> QED
    BY <2>3, <2>4
<1> QED
  BY <1>5, <1>6, <1>7 DEF SchedInv

\* MutexGuard::drop wakes one of those that wait, or nobody waits.
LEMMA UnlockMutexKeeps ==
    ASSUME SchedInv, UnlockMutex
    PROVE  SchedInv'
<1>1. /\ Is("user") /\ owner' = NoTask
      /\ \/ waiters[Lock] = <<>> /\ cpu' = cpu /\ waiters' = waiters
         \/ /\ waiters[Lock] # <<>> /\ waiters' = [waiters EXCEPT ![Lock] = Front(waiters[Lock])]
            /\ cpu' = WakeAll(cpu, <<Last(waiters[Lock])>>)
      /\ UNCHANGED <<at, call, sleepers, late, timedOut, interruptible, pending, giving>>
  BY DEF UnlockMutex, Wake
<1>2. /\ cpu \in Cpu /\ call \in [Tasks -> Call] /\ waiters \in [Queues -> Seq(Tasks)] /\ sleepers \in Seq(Tasks)
      /\ at \in [Tasks -> Out \cup InWait \cup InPoll]
  BY <1>1, CurrentIs
<1>3. \A t \in Tasks : WantsLock(t) /\ cpu.state[t] = "blocked" => On(waiters[Lock], t)
  <2> SUFFICES ASSUME NEW t \in Tasks, WantsLock(t), cpu.state[t] = "blocked" PROVE On(waiters[Lock], t)
    OBVIOUS
  <2>1. Called(t) /\ Enlisted(t)
    BY DEF SchedInv, Placed
  <2>2. at[t] \in InWait
    BY <1>2, <2>1, SchedNames, NoCallIs DEF WantsLock, Called
  <2> QED
    BY <2>1, <2>2 DEF WantsLock, Enlisted
<1>4. Lock \in Queues /\ waiters[Lock] \in Seq(Tasks)
  BY <1>2, SchedNames
<1>5. CASE waiters[Lock] = <<>> /\ cpu' = cpu /\ waiters' = waiters
  <2>1. Woken(<<>>) /\ Entered /\ <<>> \in Seq(Tasks) /\ \A t : ~On(<<>>, t)
    BY <1>1, <1>5, WokenNone DEF Entered, On
  <2>2. SchedTypeOK'
    BY <1>1, <1>5 DEF SchedInv, SchedTypeOK
  <2>3. \A t \in Tasks : ~(WantsLock(t) /\ cpu.state[t] = "blocked")
    BY <1>3, <1>5, <2>1
  <2> DEFINE none == <<>>
  <2> HIDE DEF none
  <2>4. none \in Seq(Tasks) /\ Woken(none) /\ \A t : ~On(none, t)
    BY <2>1 DEF none
  <2> QED
    BY <1>1, <1>5, <2>1, <2>2, <2>3, <2>4, WokenKeeps
<1>6. CASE /\ waiters[Lock] # <<>> /\ waiters' = [waiters EXCEPT ![Lock] = Front(waiters[Lock])]
           /\ cpu' = WakeAll(cpu, <<Last(waiters[Lock])>>)
  <2> DEFINE last == Last(waiters[Lock])
             front == Front(waiters[Lock])
             list == <<last>>
  <2>1. /\ front \in Seq(Tasks) /\ last \in Tasks /\ On(waiters[Lock], last)
        /\ \A y : On(front, y) => On(waiters[Lock], y)
        /\ \A y : On(waiters[Lock], y) => On(front, y) \/ y = last
    BY <1>4, <1>6, OnFront
  <2>2. waiters' = [waiters EXCEPT ![Lock] = front] /\ cpu' = WakeAll(cpu, list)
    BY <1>6
  <2> HIDE DEF last, front
  <2>3. list \in Seq(Tasks) /\ \A t : On(list, t) <=> t = last
    BY <2>1 DEF On
  <2> HIDE DEF list
  <2>4. Woken(list)
    <3>1. cpu.resched \in BOOLEAN /\ cpu = [cpu EXCEPT !.resched = cpu.resched]
      BY <1>2 DEF Cpu
    <3> DEFINE resched == cpu.resched
    <3>2. resched \in BOOLEAN /\ cpu' = WakeAll([cpu EXCEPT !.resched = resched], list)
      BY <2>2, <3>1
    <3> HIDE DEF resched
    <3> QED
      BY <2>3, <3>2, WokenAll
  <2>5. Entered
    BY <1>1 DEF Entered
  <2>6. waiters' \in [Queues -> Seq(Tasks)] /\ \A q \in Queues : waiters'[q] = IF q = Lock THEN front ELSE waiters[q]
    BY <1>2, <1>4, <2>1, <2>2
  <2>7. SchedTypeOK'
    BY <1>1, <2>4, <2>6 DEF SchedInv, SchedTypeOK, Woken
  <2>8. WantsLock(last) /\ at[last] # "unborn"
    BY <1>4, <2>1 DEF SchedInv, Placed, Left, WantsLock, Listed
  <2>9. \A t \in Tasks : \A q \in Queues : On(waiters'[q], t) => On(waiters[q], t)
    BY <2>1, <2>6
  <2>10. \A t \in Tasks : \A q \in Queues : On(waiters[q], t) => On(waiters'[q], t) \/ t = last
    BY <2>1, <2>6
  <2> QED
    BY <1>1, <2>1, <2>3, <2>4, <2>5, <2>7, <2>8, <2>9, <2>10, WokenKeeps
<1> QED
  BY <1>1, <1>5, <1>6

\* A device wakes all that wait for it.
LEMMA DeviceInterruptKeeps ==
    ASSUME SchedInv, NEW d \in Devices, DeviceInterrupt(d)
    PROVE  SchedInv'
<1> DEFINE list == waiters[d]
<1>1. /\ giving' = giving \cup {d} /\ waiters' = [waiters EXCEPT ![d] = <<>>] /\ cpu' = WakeAll(cpu, list) /\ Entered
      /\ UNCHANGED <<call, sleepers, late, timedOut, interruptible, pending, owner>>
  BY DEF DeviceInterrupt, Entered
<1>2. d \in Queues /\ waiters \in [Queues -> Seq(Tasks)] /\ list \in Seq(Tasks) /\ cpu \in Cpu
  BY SchedNames DEF SchedInv, SchedTypeOK
<1>3. /\ waiters' \in [Queues -> Seq(Tasks)]
      /\ \A q \in Queues : waiters'[q] = IF q = d THEN <<>> ELSE waiters[q]
  BY <1>1, <1>2
<1>4. \A t : ~On(<<>>, t)
  BY DEF On
<1>5. Woken(list)
  <2>1. cpu.resched \in BOOLEAN /\ cpu = [cpu EXCEPT !.resched = cpu.resched]
    BY <1>2 DEF Cpu
  <2> DEFINE resched == cpu.resched
  <2> HIDE DEF list
  <2>2. resched \in BOOLEAN /\ cpu' = WakeAll([cpu EXCEPT !.resched = resched], list)
    BY <1>1, <2>1
  <2> HIDE DEF resched
  <2> QED
    BY <1>2, <2>2, WokenAll
<1>6. SchedTypeOK'
  <2>1. at' \in [Tasks -> Out \cup InWait \cup InPoll]
    BY <1>1, EnteredDoes
  <2> QED
    BY <1>1, <1>3, <1>5, <2>1 DEF SchedInv, SchedTypeOK, Woken
<1>7. \A t \in Tasks : On(list, t) => at[t] # "unborn"
  BY <1>2 DEF SchedInv, Placed, Left, Listed
<1>8. \A t \in Tasks : \A q \in Queues : On(waiters'[q], t) => On(waiters[q], t)
  BY <1>3, <1>4
<1>9. \A t \in Tasks : On(list, t) \/ \A q \in Queues : On(waiters[q], t) => On(waiters'[q], t) /\ (q \in giving' => q \in giving)
  BY <1>1, <1>3
<1> HIDE DEF list
<1> QED
  BY <1>1, <1>2, <1>5, <1>6, <1>7, <1>8, <1>9, WokenKeeps

\* post_signal wakes its task or only marks it.
LEMMA SignalKeeps ==
    ASSUME SchedInv, NEW x \in Tasks, Signal(x)
    PROVE  SchedInv'
<1>1. /\ at[x] # "unborn" /\ pending' = pending \cup {x} /\ Entered
      /\ cpu' = WakeAll(cpu, <<x>>) \/ cpu' = cpu
      /\ UNCHANGED <<call, waiters, sleepers, late, timedOut, interruptible, giving, owner>>
  BY DEF Signal, Wake, Entered
<1>2. PICK list \in Seq(Tasks) : Woken(list) /\ \A t : On(list, t) => t = x
  <2>1. CASE cpu' = cpu
    <3>1. Woken(<<>>) /\ <<>> \in Seq(Tasks) /\ \A t : ~On(<<>>, t)
      BY <2>1, WokenNone DEF On
    <3> QED
      BY <3>1
  <2>2. CASE cpu' = WakeAll(cpu, <<x>>)
    <3> DEFINE l == <<x>>
               resched == cpu.resched
    <3>1. l \in Seq(Tasks) /\ \A t : On(l, t) => t = x
      BY DEF On
    <3>2. resched \in BOOLEAN /\ cpu = [cpu EXCEPT !.resched = resched]
      BY DEF SchedInv, SchedTypeOK, Cpu
    <3>3. cpu' = WakeAll([cpu EXCEPT !.resched = resched], l)
      BY <2>2, <3>2
    <3> HIDE DEF l, resched
    <3>4. Woken(l)
      BY <3>1, <3>2, <3>3, WokenAll
    <3> QED
      BY <3>1, <3>4
  <2> QED
    BY <1>1, <2>1, <2>2
<1>3. SchedTypeOK'
  <2>1. at' \in [Tasks -> Out \cup InWait \cup InPoll]
    BY <1>1, EnteredDoes
  <2> QED
    BY <1>1, <1>2, <2>1 DEF SchedInv, SchedTypeOK, Woken
<1> QED
  BY <1>1, <1>2, <1>3, WokenKeeps

\* The timer wakes those whose time has come.
LEMMA TickKeeps ==
    ASSUME SchedInv, Tick
    PROVE  SchedInv'
<1> DEFINE due == {i \in DOMAIN sleepers : sleepers[i] \in late}
           later == DOMAIN sleepers \ due
           list == Only(sleepers, due)
           rest == Only(sleepers, later)
<1>1. /\ sleepers' = rest /\ timedOut' = timedOut \cup Range(list) /\ Entered
      /\ \E over \in BOOLEAN : cpu' = WakeAll([cpu EXCEPT !.resched = @ \/ over], list)
      /\ UNCHANGED <<call, waiters, late, interruptible, pending, giving, owner>>
  BY DEF Tick, Entered
<1>2. sleepers \in Seq(Tasks) /\ cpu \in Cpu /\ timedOut \subseteq Tasks
  BY DEF SchedInv, SchedTypeOK
<1>3. list \in Seq(Tasks) /\ \A t : On(list, t) => On(sleepers, t)
  <2>1. due \in SUBSET DOMAIN sleepers
    OBVIOUS
  <2> HIDE DEF due
  <2>2. list \in Seq(Tasks) /\ \A t : On(list, t) <=> \E i \in due : sleepers[i] = t
    BY <1>2, <2>1, OnlyDoes
  <2> HIDE DEF list
  <2> QED
    BY <2>1, <2>2 DEF On
<1>4. rest \in Seq(Tasks) /\ \A t : On(rest, t) => On(sleepers, t)
  <2>1. later \in SUBSET DOMAIN sleepers
    OBVIOUS
  <2> HIDE DEF later
  <2>2. rest \in Seq(Tasks) /\ \A t : On(rest, t) <=> \E i \in later : sleepers[i] = t
    BY <1>2, <2>1, OnlyDoes
  <2> HIDE DEF rest
  <2> QED
    BY <2>1, <2>2 DEF On
<1> HIDE DEF list, rest
<1>5. Woken(list)
  <2>1. PICK over \in BOOLEAN : cpu' = WakeAll([cpu EXCEPT !.resched = @ \/ over], list)
    BY <1>1
  <2> DEFINE resched == cpu.resched \/ over
  <2>2. resched \in BOOLEAN /\ cpu' = WakeAll([cpu EXCEPT !.resched = resched], list)
    BY <1>2, <2>1 DEF Cpu
  <2> HIDE DEF resched
  <2> QED
    BY <1>3, <2>2, WokenAll
<1>6. SchedTypeOK'
  <2>1. at' \in [Tasks -> Out \cup InWait \cup InPoll]
    BY <1>1, EnteredDoes
  <2>2. Range(list) \subseteq Tasks
    BY <1>3 DEF Range
  <2> QED
    BY <1>1, <1>4, <1>5, <2>1, <2>2 DEF SchedInv, SchedTypeOK, Woken
<1>7. \A t \in Tasks : On(list, t) => at[t] # "unborn"
  BY <1>3 DEF SchedInv, Placed, Left
<1> QED
  BY <1>1, <1>3, <1>4, <1>5, <1>6, <1>7, WokenKeeps

-----------------------------------------------------------------------------
(* Giving up the CPU. *)

\* The CPU is given up, by a task `old` (or the idle one) whose state is settled first.
LEMMA SwitchKeeps ==
    ASSUME SchedInv, SchedTypeOK', NEW old \in All, old = cpu.current, NEW s \in States,
           cpu' = Schedule([cpu EXCEPT !.state[cpu.current] = s]),
           old = Idle => s \in {"running", "runnable"},
           UNCHANGED <<call, waiters, sleepers, interruptible, giving, owner>>,
           \A t \in Tasks : t # old => at'[t] = at[t],
           old \in Tasks => /\ at'[old] \in Away \cup {"gone"} /\ (s = "zombie" <=> at'[old] = "gone")
                            /\ Called(old)' /\ Left(old)'
                            /\ s = "blocked" => cpu.state[old] = "blocked"
                            /\ s = "blocked" /\ old # cpu'.current => Enlisted(old)'
    PROVE  SchedInv'
<1> DEFINE c == [cpu EXCEPT !.state[cpu.current] = s]
           d == cpu'
           state == [cpu.state EXCEPT ![cpu.current] = s]
<1>1. cpu \in Cpu /\ Queued(cpu) /\ cpu.current \in All
  BY DEF SchedInv, SchedTypeOK, CpuInv, Cpu
<1>2. state \in [All -> States] /\ \A t \in All : state[t] = IF t = old THEN s ELSE cpu.state[t]
  BY <1>1 DEF Cpu
<1>3. c = [cpu EXCEPT !.state = state]
  OBVIOUS
<1>4. d = Schedule(c)
  OBVIOUS
<1> HIDE DEF c, d, state
<1>5. c \in Cpu /\ c.state = state /\ c.runq = cpu.runq /\ c.onRq = cpu.onRq /\ c.current = old
  BY <1>1, <1>2, <1>3 DEF Cpu
<1>6. \A i \in DOMAIN cpu.runq : cpu.runq[i] \in All
  BY <1>1 DEF Cpu, All
<1>7. Idle \in All /\ Tasks \subseteq All /\ \A t \in All : t \in Tasks \/ t = Idle
  BY DEF All
<1>8. Queued(c)
  BY <1>1, <1>2, <1>5, <1>6, <1>7 DEF Queued
<1>9. /\ d \in Cpu /\ Queued(d)
      /\ \/ On(c.runq, d.current)
         \/ d.current = c.current /\ c.state[c.current] \in {"running", "runnable"}
         \/ d.current = Idle
      /\ \A t \in All : d.state[t] = IF t = d.current THEN "running"
                                     ELSE IF t = c.current /\ c.state[t] = "running" THEN "runnable" ELSE c.state[t]
      /\ \A t \in All : On(d.runq, t) => On(c.runq, t) \/ t = c.current
  BY <1>4, <1>5, <1>8, ScheduleDoes
<1>10. /\ cpu' \in Cpu /\ Queued(cpu')
       /\ \A t \in All : cpu'.state[t] = IF t = cpu'.current THEN "running"
                                         ELSE IF t = old THEN (IF s = "running" THEN "runnable" ELSE s) ELSE cpu.state[t]
       /\ \A t \in All : On(cpu'.runq, t) => On(cpu.runq, t) \/ t = old
  BY <1>2, <1>5, <1>9 DEF d
<1>11. \/ On(cpu.runq, cpu'.current) /\ cpu'.current # old
       \/ cpu'.current = old /\ s \in {"running", "runnable"}
       \/ cpu'.current = Idle
  <2>1. On(cpu.runq, d.current) => d.current # old
    BY <1>1 DEF Queued, On
  <2> QED
    BY <1>2, <1>5, <1>9, <2>1 DEF d
\* Who is given the CPU was waiting for it.
<1>12. cpu'.current \in Tasks => at'[cpu'.current] \in Away
  <2> SUFFICES ASSUME cpu'.current \in Tasks PROVE at'[cpu'.current] \in Away
    OBVIOUS
  <2>1. CASE On(cpu.runq, cpu'.current) /\ cpu'.current # old
    <3>1. cpu.state[cpu'.current] = "runnable"
      BY <1>1, <2>1 DEF Queued, On
    <3>2. at[cpu'.current] # "unborn" /\ at[cpu'.current] # "gone"
      BY <2>1, <3>1 DEF SchedInv, CpuInv
    <3> QED
      BY <2>1, <3>2 DEF SchedInv, CpuInv
  <2>2. CASE cpu'.current = old /\ s \in {"running", "runnable"}
    BY <2>2 DEF Away
  <2>3. CASE cpu'.current = Idle
    BY <2>3, SchedNames
  <2> QED
    BY <1>11, <2>1, <2>2, <2>3
<1>13. CpuInv'
  <2>1. \A t \in Tasks : t # cpu'.current => at'[t] \in Away \cup {"unborn", "gone"}
    BY DEF SchedInv, CpuInv
  <2>2. \A t \in Tasks : at'[t] = "unborn" => t # cpu'.current /\ ~On(cpu'.runq, t)
    <3> SUFFICES ASSUME NEW t \in Tasks, at'[t] = "unborn" PROVE t # cpu'.current /\ ~On(cpu'.runq, t)
      OBVIOUS
    <3>1. t # old /\ at[t] = "unborn"
      BY DEF Away
    <3>2. ~On(cpu.runq, t)
      BY <3>1 DEF SchedInv, CpuInv
    <3> QED
      BY <1>7, <1>10, <1>12, <3>1, <3>2 DEF Away
  <2>3. \A t \in Tasks : cpu'.state[t] = "zombie" <=> at'[t] = "gone"
    <3> SUFFICES ASSUME NEW t \in Tasks PROVE cpu'.state[t] = "zombie" <=> at'[t] = "gone"
      OBVIOUS
    <3>1. CASE t = cpu'.current
      BY <1>7, <1>10, <1>12, <3>1 DEF Away
    <3>2. CASE t # cpu'.current /\ t = old
      BY <1>7, <1>10, <3>2
    <3>3. CASE t # cpu'.current /\ t # old
      BY <1>7, <1>10, <3>3 DEF SchedInv, CpuInv
    <3> QED
      BY <3>1, <3>2, <3>3
  <2>4. \A t \in Tasks : at'[t] = "gone" => t # cpu'.current
    BY <1>12 DEF Away
  <2> QED
    BY <1>10, <2>1, <2>2, <2>3, <2>4 DEF CpuInv
<1>14. ASSUME NEW t \in Tasks PROVE Placed(t)'
  <2>1. CASE t # old
    <3>1. cpu'.state[t] = "blocked" => cpu.state[t] = "blocked" /\ t # cpu'.current
      BY <1>7, <1>10, <2>1
    <3>2. Kept(t)
      BY <2>1, <3>1 DEF Kept
    <3> QED
      BY <3>2, KeptIsPlaced DEF SchedInv
  <2>2. CASE t = old
    <3>1. cpu'.state[t] = "blocked" => s = "blocked" /\ old # cpu'.current
      BY <1>7, <1>10, <2>2
    <3> QED
      BY <2>2, <3>1 DEF Placed
  <2> QED
    BY <2>1, <2>2
<1>15. MutexInv'
  <2> SUFFICES ASSUME owner' = NoTask, NEW u \in Tasks, WantsLock(u)', cpu'.state[u] = "blocked"
               PROVE  \E t \in Tasks : WantsLock(t)' /\ cpu'.state[t] # "blocked"
    BY DEF MutexInv
  <2>1. \A t \in Tasks : WantsLock(t)' <=> WantsLock(t)
    BY DEF WantsLock
  <2>2. \A t \in Tasks : cpu'.state[t] = "blocked" => cpu.state[t] = "blocked"
    BY <1>7, <1>10
  <2>3. PICK t \in Tasks : WantsLock(t) /\ cpu.state[t] # "blocked"
    BY <2>1, <2>2 DEF SchedInv, MutexInv
  <2> QED
    BY <2>1, <2>2, <2>3
<1> QED
  BY <1>13, <1>14, <1>15 DEF SchedInv

\* The state of the CPU is well formed after schedule(), whoever calls it.
LEMMA ScheduleTyped ==
    ASSUME cpu \in Cpu, Queued(cpu), NEW s \in States, cpu.current = Idle => s \in {"running", "runnable"},
           cpu' = Schedule([cpu EXCEPT !.state[cpu.current] = s])
    PROVE  cpu' \in Cpu
<1> DEFINE c == [cpu EXCEPT !.state[cpu.current] = s]
           d == cpu'
           state == [cpu.state EXCEPT ![cpu.current] = s]
<1>1. state \in [All -> States] /\ \A t \in All : state[t] = IF t = cpu.current THEN s ELSE cpu.state[t]
  BY DEF Cpu
<1>2. c = [cpu EXCEPT !.state = state]
  OBVIOUS
<1>3. d = Schedule(c)
  OBVIOUS
<1> HIDE DEF c, d, state
<1>4. c \in Cpu /\ c.state = state /\ c.runq = cpu.runq /\ c.onRq = cpu.onRq /\ c.current = cpu.current
  BY <1>1, <1>2 DEF Cpu
<1>5. \A i \in DOMAIN cpu.runq : cpu.runq[i] \in All
  BY DEF Cpu, All
<1>6. Queued(c)
  BY <1>1, <1>4, <1>5 DEF Queued, All
<1>7. d \in Cpu
  BY <1>3, <1>4, <1>6, ScheduleDoes
<1> QED
  BY <1>7 DEF d

\* exit_current_task.
LEMMA ExitKeeps ==
    ASSUME SchedInv, NEW cur \in Tasks, cur = cpu.current, Exit
    PROVE  SchedInv'
<1>1. /\ Is("user") /\ Go("gone") /\ cpu' = Schedule([cpu EXCEPT !.state[cpu.current] = "zombie"])
      /\ UNCHANGED <<call, waiters, sleepers, late, timedOut, interruptible, pending, giving, owner>>
  BY DEF Exit, Current
<1>2. /\ Current = cur /\ at[cur] = "user" /\ cpu \in Cpu /\ Called(cur) /\ Left(cur)
      /\ at \in [Tasks -> Out \cup InWait \cup InPoll]
  BY <1>1, CurrentIs
<1>3. at' = [at EXCEPT ![cur] = "gone"] /\ at' \in [Tasks -> Out \cup InWait \cup InPoll] /\ at'[cur] = "gone"
  BY <1>1, <1>2, GoDoes DEF Out
<1>4. cur # Idle /\ cur \in All /\ "zombie" \in States
  BY SchedNames DEF All, States
<1>5. cpu' \in Cpu
  BY <1>1, <1>2, <1>4, ScheduleTyped DEF SchedInv, CpuInv
<1>6. SchedTypeOK'
  BY <1>1, <1>3, <1>5 DEF SchedInv, SchedTypeOK
<1>7. Called(cur)'
  BY <1>1, <1>2, <1>3 DEF Called, Out, InWait, InPoll
<1>8. Left(cur)'
  BY <1>1, <1>2 DEF Left, Listed
<1> QED
  BY <1>1, <1>2, <1>3, <1>4, <1>6, <1>7, <1>8, SwitchKeeps

\* return_to_user, when the CPU is to be given up.
LEMMA YieldKeeps ==
    ASSUME SchedInv, NEW cur \in Tasks, cur = cpu.current, Return, cpu.resched
    PROVE  SchedInv'
<1>1. /\ Is("return") /\ cpu' = Schedule([cpu EXCEPT !.state[cpu.current] = "runnable"])
      /\ UNCHANGED <<at, call, waiters, sleepers, late, timedOut, interruptible, pending, giving, owner>>
  BY DEF Return, Current
<1>2. /\ Current = cur /\ at[cur] = "return" /\ cpu \in Cpu /\ Called(cur) /\ Left(cur)
  BY <1>1, CurrentIs
<1>3. cur # Idle /\ cur \in All /\ "runnable" \in States
  BY SchedNames DEF All, States
<1>4. cpu' \in Cpu
  BY <1>1, <1>2, <1>3, ScheduleTyped DEF SchedInv, CpuInv
<1>5. SchedTypeOK'
  BY <1>1, <1>4 DEF SchedInv, SchedTypeOK
<1>6. Called(cur)'
  BY <1>1, <1>2 DEF Called
<1>7. Left(cur)'
  BY <1>1, <1>2 DEF Left
<1> QED
  BY <1>1, <1>2, <1>3, <1>5, <1>6, <1>7, SwitchKeeps DEF Away

\* schedule() within wait_inner or PollTable::block.
LEMMA SleepKeeps ==
    ASSUME SchedInv, NEW cur \in Tasks, cur = cpu.current, Sleep \/ PollSleep
    PROVE  SchedInv'
<1> DEFINE place == IF Sleep THEN "awake" ELSE "poll awake"
           s == cpu.state[cur]
<1>1. /\ Go(place) /\ cpu' = Schedule(cpu)
      /\ UNCHANGED <<call, waiters, sleepers, late, timedOut, interruptible, pending, giving, owner>>
      /\ \/ place = "awake" /\ (Is("asleep") \/ Is("sleep"))
         \/ place = "poll awake" /\ (Is("poll asleep") \/ Is("poll sleep"))
  BY DEF Sleep, PollSleep
<1> HIDE DEF place
<1>2. PICK here \in {"asleep", "sleep", "poll asleep", "poll sleep"} :
         /\ Is(here)
         /\ \/ place = "awake" /\ here \in {"asleep", "sleep"}
            \/ place = "poll awake" /\ here \in {"poll asleep", "poll sleep"}
  BY <1>1
<1>3. /\ Current = cur /\ at[cur] = here /\ cpu \in Cpu /\ Called(cur) /\ Left(cur)
      /\ s \in {"running", "runnable", "blocked"} /\ (s = "blocked" => Enlisted(cur))
      /\ at \in [Tasks -> Out \cup InWait \cup InPoll]
  BY <1>2, CurrentIs
<1>4. cpu = [cpu EXCEPT !.state[cpu.current] = s]
  BY <1>3 DEF Cpu
<1> HIDE DEF s
<1>5. cpu' = Schedule([cpu EXCEPT !.state[cpu.current] = s])
  BY <1>1, <1>4
<1>6. place \in InWait \cup InPoll /\ place \in Away
  BY <1>2 DEF InWait, InPoll, Away
<1>7. at' = [at EXCEPT ![cur] = place] /\ at' \in [Tasks -> Out \cup InWait \cup InPoll] /\ at'[cur] = place
  BY <1>1, <1>3, <1>6, GoDoes
<1>8. cur # Idle /\ cur \in All /\ s \in States /\ s # "zombie"
  BY <1>3, SchedNames DEF All, States
<1>9. cpu' \in Cpu
  BY <1>3, <1>5, <1>8, ScheduleTyped DEF SchedInv, CpuInv
<1>10. SchedTypeOK'
  BY <1>1, <1>7, <1>9 DEF SchedInv, SchedTypeOK
<1>11. Called(cur)'
  BY <1>1, <1>2, <1>3, <1>7 DEF Called, Out, InWait, InPoll
<1>12. Left(cur)'
  BY <1>1, <1>2, <1>3, <1>7 DEF Left, Listed
<1>13. ASSUME s = "blocked", cur # cpu'.current PROVE Enlisted(cur)'
  <2>1. Enlisted(cur)
    BY <1>3, <1>13
  <2> QED
    BY <1>1, <1>2, <1>3, <1>7, <1>13, <2>1 DEF Enlisted, InWait
<1>14. s = "blocked" => cpu.state[cur] = "blocked"
  BY DEF s
<1>15. place # "gone"
  BY <1>2
<1> QED
  BY <1>1, <1>5, <1>6, <1>7, <1>8, <1>10, <1>11, <1>12, <1>13, <1>14, <1>15, <1>3, SwitchKeeps

\* idle_loop.
LEMMA IdleLoopKeeps ==
    ASSUME SchedInv, IdleLoop
    PROVE  SchedInv'
<1>1. /\ cpu.current = Idle /\ cpu' = Schedule([cpu EXCEPT !.state[cpu.current] = "runnable"])
      /\ UNCHANGED <<at, call, waiters, sleepers, late, timedOut, interruptible, pending, giving, owner>>
  BY DEF IdleLoop, Current
<1>2. Idle \in All /\ Idle \notin Tasks /\ "runnable" \in States
  BY SchedNames DEF All, States
<1>3. cpu' \in Cpu
  BY <1>1, <1>2, ScheduleTyped DEF SchedInv, CpuInv, SchedTypeOK
<1>4. SchedTypeOK'
  BY <1>1, <1>3 DEF SchedInv, SchedTypeOK
<1> QED
  BY <1>1, <1>2, <1>4, SwitchKeeps

\* A new task is queued.
LEMMA SpawnKeeps ==
    ASSUME SchedInv, NEW x \in Tasks, Spawn(x)
    PROVE  SchedInv'
<1> DEFINE state == [cpu.state EXCEPT ![x] = "runnable"]
           onRq == [cpu.onRq EXCEPT ![x] = TRUE]
           runq == Append(cpu.runq, x)
<1>1. /\ at[x] = "unborn" /\ at' = [at EXCEPT ![x] = "return"]
      /\ cpu' = [cpu EXCEPT !.state = state, !.onRq = onRq, !.runq = runq]
      /\ UNCHANGED <<call, waiters, sleepers, late, timedOut, interruptible, pending, giving, owner>>
  BY DEF Spawn, Enqueue
<1>2. cpu \in Cpu /\ at \in [Tasks -> Out \cup InWait \cup InPoll] /\ x \in All /\ Tasks \subseteq All /\ x # Idle /\ Idle \in All
  BY SchedNames DEF SchedInv, SchedTypeOK, All
<1>3. /\ state \in [All -> States] /\ \A t \in All : state[t] = IF t = x THEN "runnable" ELSE cpu.state[t]
      /\ onRq \in [All -> BOOLEAN] /\ \A t \in All : onRq[t] = (t = x \/ cpu.onRq[t])
  BY <1>2 DEF Cpu, States
<1>4. /\ runq \in Seq(Tasks) /\ \A y : On(runq, y) <=> On(cpu.runq, y) \/ y = x
      /\ \A i \in DOMAIN runq : (i \in DOMAIN cpu.runq /\ runq[i] = cpu.runq[i]) \/ (i = Len(cpu.runq) + 1 /\ runq[i] = x)
  <2>1. cpu.runq \in Seq(Tasks)
    BY <1>2 DEF Cpu
  <2>2. runq \in Seq(Tasks) /\ \A y : On(runq, y) <=> On(cpu.runq, y) \/ y = x
    BY <2>1, OnAppend
  <2>3. \A i \in DOMAIN runq : (i \in DOMAIN cpu.runq /\ runq[i] = cpu.runq[i]) \/ (i = Len(cpu.runq) + 1 /\ runq[i] = x)
    BY <2>1
  <2> QED
    BY <2>2, <2>3
<1> HIDE DEF state, onRq, runq
<1>5. cpu' \in Cpu /\ cpu'.current = cpu.current /\ cpu'.state = state /\ cpu'.onRq = onRq /\ cpu'.runq = runq
  BY <1>1, <1>2, <1>3, <1>4 DEF Cpu
<1>6. at' \in [Tasks -> Out \cup InWait \cup InPoll] /\ \A t \in Tasks : at'[t] = IF t = x THEN "return" ELSE at[t]
  BY <1>1, <1>2 DEF Out
<1>7. x # cpu.current /\ ~On(cpu.runq, x) /\ cpu.state[x] # "zombie"
  BY <1>1 DEF SchedInv, CpuInv
<1>8. SchedTypeOK'
  BY <1>1, <1>5, <1>6 DEF SchedInv, SchedTypeOK
<1>9. Queued(cpu')
  <2>1. Queued(cpu)
    BY DEF SchedInv, CpuInv
  <2>2. \A i, j \in DOMAIN runq : runq[i] = runq[j] => i = j
    BY <1>4, <1>7, <2>1 DEF Queued, On
  <2>3. \A i \in DOMAIN runq : runq[i] # cpu.current
    BY <1>4, <1>7, <2>1 DEF Queued
  <2>4. \A i \in DOMAIN runq : state[runq[i]] = "runnable" /\ onRq[runq[i]]
    <3> SUFFICES ASSUME NEW i \in DOMAIN runq PROVE state[runq[i]] = "runnable" /\ onRq[runq[i]]
      OBVIOUS
    <3>1. runq[i] \in All
      BY <1>2, <1>4
    <3>2. runq[i] # x => cpu.state[runq[i]] = "runnable" /\ cpu.onRq[runq[i]]
      BY <1>4, <2>1 DEF Queued
    <3> QED
      BY <1>3, <3>1, <3>2
  <2> QED
    BY <1>2, <1>3, <1>5, <2>1, <2>2, <2>3, <2>4 DEF Queued
<1>10. CpuInv'
  <2>1. \A t \in Tasks : t # cpu'.current => at'[t] \in Away \cup {"unborn", "gone"}
    BY <1>5, <1>6 DEF SchedInv, CpuInv, Away
  <2>2. \A t \in Tasks : at'[t] = "unborn" => t # cpu'.current /\ ~On(cpu'.runq, t)
    BY <1>4, <1>5, <1>6 DEF SchedInv, CpuInv
  <2>3. \A t \in Tasks : cpu'.state[t] = "zombie" <=> at'[t] = "gone"
    BY <1>2, <1>3, <1>5, <1>6 DEF SchedInv, CpuInv
  <2>4. \A t \in Tasks : at'[t] = "gone" => t # cpu'.current
    BY <1>5, <1>6 DEF SchedInv, CpuInv
  <2> QED
    BY <1>9, <2>1, <2>2, <2>3, <2>4 DEF CpuInv
<1>11. ASSUME NEW t \in Tasks PROVE Placed(t)'
  <2>1. CASE t # x
    <3>1. Kept(t)
      BY <1>1, <1>2, <1>3, <1>5, <1>6, <2>1 DEF Kept
    <3> QED
      BY <3>1, KeptIsPlaced DEF SchedInv
  <2>2. CASE t = x
    <3>1. Called(x) /\ Left(x)
      BY DEF SchedInv, Placed
    <3>2. call'[x] = NoCall /\ at'[x] = "return" /\ cpu'.state[x] = "runnable"
      BY <1>1, <1>2, <1>3, <1>5, <1>6, <3>1 DEF Called, Out
    <3>3. (\A q \in Queues : ~On(waiters'[q], x)) /\ ~On(sleepers', x) /\ x \notin interruptible'
      BY <1>1, <3>1 DEF Left, Listed
    <3> QED
      BY <2>2, <3>2, <3>3, OutIsPlaced DEF Out
  <2> QED
    BY <2>1, <2>2
<1>12. MutexInv'
  <2> SUFFICES ASSUME owner' = NoTask, NEW u \in Tasks, WantsLock(u)', cpu'.state[u] = "blocked"
               PROVE  \E t \in Tasks : WantsLock(t)' /\ cpu'.state[t] # "blocked"
    BY DEF MutexInv
  <2>1. \A t \in Tasks : WantsLock(t)' <=> WantsLock(t)
    BY <1>1 DEF WantsLock
  <2>2. \A t \in Tasks : cpu'.state[t] = "blocked" => cpu.state[t] = "blocked"
    BY <1>2, <1>3, <1>5
  <2>3. PICK t \in Tasks : WantsLock(t) /\ cpu.state[t] # "blocked"
    BY <1>1, <2>1, <2>2 DEF SchedInv, MutexInv
  <2> QED
    BY <2>1, <2>2, <2>3
<1> QED
  BY <1>8, <1>10, <1>11, <1>12 DEF SchedInv

-----------------------------------------------------------------------------
(* The invariant, from the first state on. *)

\* The first task runs and the others are not born.
LEMMA SchedBegins ==
    ASSUME SchedInit
    PROVE  SchedInv
<1>1. PICK first \in Tasks :
         /\ cpu = [state |-> [t \in All |-> IF t = first THEN "running" ELSE "runnable"],
                   onRq |-> [t \in All |-> FALSE], runq |-> <<>>, current |-> first, resched |-> FALSE]
         /\ at = [t \in Tasks |-> IF t = first THEN "user" ELSE "unborn"]
  BY DEF SchedInit, All
<1>2. /\ call = [t \in Tasks |-> NoCall] /\ waiters = [q \in Queues |-> <<>>]
      /\ sleepers = <<>> /\ late = {} /\ timedOut = {} /\ interruptible = {} /\ pending = {} /\ giving = {} /\ owner = NoTask
  BY DEF SchedInit
<1>3. first \in All /\ Idle \in All /\ first # Idle /\ Tasks \subseteq All
  BY SchedNames DEF All
<1>4. \A t : ~On(<<>>, t)
  BY DEF On
<1>5. cpu \in Cpu
  BY <1>1, <1>3 DEF Cpu, States
<1>6. SchedTypeOK
  BY <1>1, <1>2, <1>5, NoCallIs DEF SchedTypeOK, Out
<1>7. CpuInv
  <2>1. Queued(cpu)
    BY <1>1, <1>3 DEF Queued
  <2> QED
    BY <1>1, <1>3, <1>4, <2>1 DEF CpuInv, Away
<1>8. \A t \in Tasks : Placed(t)
  BY <1>1, <1>2, <1>3, <1>4 DEF Placed, Called, Left, Out, InWait, InPoll
<1>9. MutexInv
  BY <1>1, <1>2, <1>3 DEF MutexInv
<1> QED
  BY <1>6, <1>7, <1>8, <1>9 DEF SchedInv

\* Every step keeps the invariant.
LEMMA SchedStep ==
    ASSUME SchedInv, SchedNext
    PROVE  SchedInv'
<1> DEFINE cur == cpu.current
<1>1. \A p : Is(p) => cur \in Tasks /\ cur = cpu.current
  BY CurrentIs
<1> HIDE DEF cur
<1>2. CASE Exit
  <2>1. cur \in Tasks /\ cur = cpu.current
    BY <1>1, <1>2 DEF Exit
  <2> QED
    BY <1>2, <2>1, ExitKeeps
<1>3. CASE Return
  <2>1. cur \in Tasks /\ cur = cpu.current
    BY <1>1, <1>3 DEF Return
  <2> QED
    BY <1>3, <2>1, YieldKeeps, DeliverKeeps
<1>4. CASE LockMutex \/ UnlockMutex
  BY <1>4, LockMutexKeeps, UnlockMutexKeeps
<1>5. CASE Check
  <2>1. cur \in Tasks /\ cur = cpu.current
    BY <1>1, <1>5 DEF Check
  <2> QED
    BY <1>5, <2>1, CheckKeeps
<1>6. CASE Enlist
  <2>1. cur \in Tasks /\ cur = cpu.current
    BY <1>1, <1>6 DEF Enlist
  <2> QED
    BY <1>6, <2>1, EnlistKeeps
<1>7. CASE Arm \/ PollArm
  <2>1. cur \in Tasks /\ cur = cpu.current
    BY <1>1, <1>7 DEF Arm, PollArm
  <2> QED
    BY <1>7, <2>1, ArmKeeps
<1>8. CASE Sleep \/ PollSleep
  <2>1. cur \in Tasks /\ cur = cpu.current
    BY <1>1, <1>8 DEF Sleep, PollSleep
  <2> QED
    BY <1>8, <2>1, SleepKeeps
<1>9. CASE Awake
  <2>1. cur \in Tasks /\ cur = cpu.current
    BY <1>1, <1>9 DEF Awake
  <2> QED
    BY <1>9, <2>1, AwakeKeeps
<1>10. CASE PollPrepare
  <2>1. cur \in Tasks /\ cur = cpu.current
    BY <1>1, <1>10 DEF PollPrepare
  <2> QED
    BY <1>10, <2>1, PollPrepareKeeps
<1>11. CASE PollScan
  <2>1. cur \in Tasks /\ cur = cpu.current
    BY <1>1, <1>11 DEF PollScan
  <2> QED
    BY <1>11, <2>1, PollScanKeeps
<1>12. CASE PollAwake
  <2>1. cur \in Tasks /\ cur = cpu.current
    BY <1>1, <1>12 DEF PollAwake
  <2> QED
    BY <1>12, <2>1, PollAwakeKeeps
<1>13. CASE Tick \/ IdleLoop
  BY <1>13, TickKeeps, IdleLoopKeeps
<1>14. CASE \E t \in Tasks : Spawn(t) \/ Signal(t)
  BY <1>14, SpawnKeeps, SignalKeeps
<1>15. CASE \E t \in Tasks : Deadline(t)
  <2>1. late' \subseteq Tasks
    BY <1>15 DEF Deadline, SchedInv, SchedTypeOK
  <2> QED
    BY <1>15, <2>1, NothingMoves DEF Deadline
<1>16. CASE \E d \in Devices : DeviceInterrupt(d) \/ Wait(d)
  BY <1>16, DeviceInterruptKeeps, WaitKeeps
<1>17. CASE \E again \in BOOLEAN : Poll(~again, again)
  <2>1. PICK again \in BOOLEAN : Poll(~again, again)
    BY <1>17
  <2> DEFINE dl == ~again
  <2>2. dl \in BOOLEAN /\ Poll(dl, again)
    BY <2>1
  <2> HIDE DEF dl
  <2> QED
    BY <2>2, PollKeeps
<1> QED
  BY <1>2, <1>3, <1>4, <1>5, <1>6, <1>7, <1>8, <1>9, <1>10, <1>11, <1>12, <1>13, <1>14, <1>15, <1>16, <1>17 DEF SchedNext

\* What the invariant says of who sleeps, of the mutex, of who is left behind, and of the run queue.
LEMMA SchedInvSuffices ==
    ASSUME SchedInv
    PROVE  WaitsAreSound
<1>1. \A q \in Queues : \A t : Contains(waiters[q], t) <=> On(waiters[q], t)
  <2>1. \A q \in Queues : waiters[q] \in Seq(Tasks)
    BY DEF SchedInv, SchedTypeOK
  <2> QED
    BY <2>1 DEF Contains, On
<1>2. \A t : Contains(sleepers, t) <=> On(sleepers, t)
  <2>1. sleepers \in Seq(Tasks)
    BY DEF SchedInv, SchedTypeOK
  <2> QED
    BY <2>1 DEF Contains, On
<1>3. \A t \in Tasks : call[t] \in Call /\ call[t].for \subseteq Queues /\ at[t] \in Out \cup InWait \cup InPoll
  BY DEF SchedInv, SchedTypeOK, Call
<1>4. SleepersAreEnlisted
  <2> SUFFICES ASSUME NEW t \in Asleep, NEW q \in call[t].for, at[t] = "awake" \/ call[t].again
               PROVE  Contains(waiters[q], t) /\ (q = Lock \/ q \notin giving)
    BY DEF SleepersAreEnlisted
  <2>1. t \in Tasks /\ at[t] \in {"awake", "poll awake"} /\ cpu.state[t] = "blocked"
    BY DEF Asleep
  <2>2. Enlisted(t) /\ q \in Queues
    BY <1>3, <2>1 DEF SchedInv, Placed
  <2>3. On(waiters[q], t) /\ (q = Lock \/ q \notin giving)
    BY <2>1, <2>2 DEF Enlisted, InWait
  <2> QED
    BY <1>1, <2>2, <2>3
<1>5. MutexIsHandedOver
  <2> SUFFICES ASSUME NEW u \in Asleep, call[u].for = {Lock}, owner = NoTask
               PROVE  \E t \in Tasks \ Asleep : call[t].for = {Lock} /\ cpu.state[t] # "zombie"
    BY DEF MutexIsHandedOver
  <2>1. u \in Tasks /\ cpu.state[u] = "blocked" /\ WantsLock(u)
    BY DEF Asleep, WantsLock
  <2>2. PICK t \in Tasks : WantsLock(t) /\ cpu.state[t] # "blocked"
    BY <2>1 DEF SchedInv, MutexInv
  <2>3. Called(t) /\ at[t] \in Out \cup InWait \cup InPoll
    BY <1>3 DEF SchedInv, Placed
  <2>4. at[t] \in InWait
    BY <2>2, <2>3, SchedNames, NoCallIs DEF WantsLock, Called
  <2>5. call[t].for = {Lock}
    BY <2>2, <2>3, <2>4 DEF WantsLock, Called, NoCall
  <2>6. cpu.state[t] # "zombie"
    BY <2>4 DEF SchedInv, CpuInv, InWait
  <2> QED
    BY <2>2, <2>5, <2>6 DEF Asleep
<1>6. NobodyIsLeftBehind
  <2> SUFFICES ASSUME NEW t \in Tasks, call[t] = NoCall
               PROVE  /\ \A q \in Queues : ~Contains(waiters[q], t)
                      /\ ~Contains(sleepers, t) /\ t \notin interruptible
    BY DEF NobodyIsLeftBehind
  <2>1. Called(t) /\ Left(t)
    BY DEF SchedInv, Placed
  <2>2. at[t] \in Out
    <3>1. call[t].for = {} /\ ~call[t].interruptible
      BY DEF NoCall
    <3>2. at[t] \notin InWait /\ at[t] \notin InPoll
      BY <2>1, <3>1 DEF Called
    <3> QED
      BY <1>3, <3>2
  <2>3. at[t] \notin Listed \cup {"prepare again"}
    BY <2>2 DEF Out, Listed
  <2> QED
    BY <1>1, <1>2, <2>1, <2>3 DEF Left, Listed
<1>7. RunQueueIsSound
  <2>1. Queued(cpu) /\ cpu.current \in All
    BY DEF SchedInv, CpuInv, SchedTypeOK, Cpu
  <2>2. cpu.state[cpu.current] # "zombie"
    BY <2>1 DEF Queued, All, SchedInv, CpuInv
  <2>3. IsInjective(cpu.runq)
    BY <2>1 DEF Queued, IsInjective
  <2>4. \A t \in Range(cpu.runq) : t # cpu.current /\ cpu.state[t] = "runnable" /\ cpu.onRq[t]
    BY <2>1 DEF Queued, Range
  <2> QED
    BY <2>2, <2>3, <2>4 DEF RunQueueIsSound, Current
<1> QED
  BY <1>4, <1>5, <1>6, <1>7 DEF WaitsAreSound

\* No wake-up is lost, whatever the number of tasks and devices: a task asleep in wait_inner or in
\* epoll_wait is on the queue of everything it waits for and nothing of it has come, the mutex is
\* handed over, a call that is over leaves its task on no queue and under no timer, and the run
\* queue holds each task once, never the current one, and only tasks that can run (research kernel, sched/).
THEOREM KernelWaits == SchedSpec => []WaitsAreSound
<1>1. SchedInit => SchedInv
  BY SchedBegins
<1>2. SchedInv /\ [SchedNext]_schedVars => SchedInv'
  <2> SUFFICES ASSUME SchedInv, [SchedNext]_schedVars PROVE SchedInv'
    OBVIOUS
  <2>1. CASE SchedNext
    BY <2>1, SchedStep
  <2>2. CASE UNCHANGED schedVars
    BY <2>2, NothingMoves DEF schedVars, SchedInv, SchedTypeOK
  <2> QED
    BY <2>1, <2>2
<1>3. SchedInv => WaitsAreSound
  BY SchedInvSuffices
<1> QED
  BY <1>1, <1>2, <1>3, PTL DEF SchedSpec

-----------------------------------------------------------------------------
\* The model supervisor.

\* The control points at which the supervisor holds a model it has picked,
\* a thinking mode it has read, and a process it has started.
HasModel == {"think", "publish", "spawn", "starting", "publishReady", "supervise", "recheck"}
HasThinking == {"publish", "spawn", "starting", "publishReady", "supervise", "recheck"}
HasServer == {"starting", "publishReady", "supervise", "recheck"}

\* What the supervisor has read is current, or a notification is coming.
ChoiceInv ==
    /\ pc \in HasModel => local.model = SelectModel \/ RestartComing
    /\ pc \in HasThinking => local.thinking = thinking \/ RestartComing
    /\ pc \in HasModel \cup {"select"} => ~sleeping \/ SleepChangeComing
    /\ pc \in HasServer => server.model = local.model /\ server.thinking = local.thinking

\* The inductive invariant.
Inv == TypeOK /\ ChoiceInv /\ NoMissedWakeUp /\ ReadyIsHonest

-----------------------------------------------------------------------------
\* Each variable keeps its type, in one lemma each.  First the control states.
LEMMA ControlStep == pc \in SupervisorStates /\ [Next]_vars => pc' \in SupervisorStates
<1> SUFFICES ASSUME pc \in SupervisorStates, [Next]_vars PROVE pc' \in SupervisorStates
  OBVIOUS
<1>1. ASSUME NEW c \in Clients, ClientOp(c) \/ ClientStep(c) PROVE pc' = pc
  BY <1>1 DEF ClientOp, SetModel, SetThinking, SetSleep, ChatStart, DismissNotice,
     ClientStep, RequestNotReady, RequestName, RequestNotify, SleepNotify, WakeSwap,
     WakeNotify, WakeReady, WakeTimeout, ChatCheck, ChatEnd
<1>2. CASE SupervisorStep
  BY <1>2 DEF SupervisorStep, TopAwake, TopSleep, SleepNotified, SelectNone, NoModelNotified,
     NoModelRetry, SelectSome, ReadThinking, PublishName, SpawnOk, BackoffNotified,
     BackoffElapsed, RestartKilled, GpuGivenUp, CpuFailed, PublishReady, SuperviseNotified,
     RecheckOk, Killed, ClearReady, Notified, At, SupervisorStates
<1>3. CASE StartOutcome \/ Failure
  BY <1>3 DEF StartOutcome, StartHealthy, StartNotified, Failure, SpawnFails, StartFails,
     ServerExits, HealthFails, RecheckFails, Notified, At, SupervisorStates
<1>4. CASE GpuCools \/ UNCHANGED vars
  BY <1>4 DEF GpuCools, vars
<1> QED
  BY <1>1, <1>2, <1>3, <1>4 DEF Next

\* Assigning a local keeps the record a record of locals.
LEMMA LocalFields ==
    ASSUME NEW l \in Locals
    PROVE  /\ \A v \in Models \cup {NoModel}, g \in BOOLEAN : [l EXCEPT !.model = v, !.gpu = g] \in Locals
           /\ \A v \in BOOLEAN : [l EXCEPT !.thinking = v] \in Locals
           /\ \A g \in BOOLEAN, f \in {"no", "recently", "cooled"} :
                  [l EXCEPT !.gpu = g, !.gpuFailed = f] \in Locals
           /\ \A f \in {"no", "recently", "cooled"} : [l EXCEPT !.gpuFailed = f] \in Locals
           /\ \A b \in MinBackoff..MaxBackoff, f \in {"no", "recently", "cooled"} :
                  [l EXCEPT !.backoff = b, !.gpuFailed = f] \in Locals
           /\ \A v \in Models \cup {NoModel}, g \in BOOLEAN, b \in MinBackoff..MaxBackoff :
                  [l EXCEPT !.last = v, !.gpu = g, !.backoff = b, !.gpuFailed = "no"] \in Locals
  BY DEF Locals

LEMMA BackoffRange ==
    ASSUME NEW l \in Locals
    PROVE  /\ MinBackoff \in MinBackoff..MaxBackoff
           /\ (IF 2 * l.backoff <= MaxBackoff THEN 2 * l.backoff ELSE MaxBackoff) \in MinBackoff..MaxBackoff
  BY DEF Locals, MinBackoff, MaxBackoff

\* The locals and the process, changed by the supervisor only.
LEMMA LocalStep == local \in Locals /\ server \in Server /\ link \in Models \cup {NoModel}
                   /\ thinking \in BOOLEAN /\ [Next]_vars => local' \in Locals /\ server' \in Server
<1> SUFFICES ASSUME local \in Locals, server \in Server, link \in Models \cup {NoModel},
                    thinking \in BOOLEAN, [Next]_vars
             PROVE  local' \in Locals /\ server' \in Server
  OBVIOUS
<1>1. ASSUME NEW c \in Clients, ClientOp(c) \/ ClientStep(c) PROVE local' = local /\ server' = server
  BY <1>1 DEF ClientOp, SetModel, SetThinking, SetSleep, ChatStart, DismissNotice,
     ClientStep, RequestNotReady, RequestName, RequestNotify, SleepNotify, WakeSwap,
     WakeNotify, WakeReady, WakeTimeout, ChatCheck, ChatEnd
<1>2. NoServer \in Server
  BY DEF NoServer, Server
<1>3. CASE \/ TopAwake \/ TopSleep \/ SleepNotified \/ SelectNone \/ NoModelNotified \/ NoModelRetry
           \/ PublishName \/ RestartKilled \/ CpuFailed \/ PublishReady \/ SuperviseNotified
           \/ RecheckOk \/ Killed \/ ClearReady \/ StartNotified \/ Failure \/ UNCHANGED vars
  BY <1>2, <1>3 DEF TopAwake, TopSleep, SleepNotified, SelectNone, NoModelNotified, NoModelRetry,
     PublishName, RestartKilled, CpuFailed, PublishReady, SuperviseNotified, RecheckOk, Killed,
     ClearReady, StartNotified, Failure, SpawnFails, StartFails, ServerExits, HealthFails,
     RecheckFails, Notified, vars
<1>4. CASE SelectSome
  <2> DEFINE fresh == IF local.last = SelectModel THEN local
                      ELSE [local EXCEPT !.last = SelectModel, !.gpu = WantsGpu,
                                         !.backoff = MinBackoff, !.gpuFailed = "no"]
             onGpu == fresh.gpu \/ (WantsGpu /\ fresh.gpuFailed = "cooled")
  <2>1. SelectModel \in Models \cup {NoModel}
    BY SupervisorAssumption DEF SelectModel
  <2>2. fresh \in Locals
    BY <2>1, SupervisorAssumption, LocalFields, BackoffRange
  <2>3. local' = [fresh EXCEPT !.model = SelectModel, !.gpu = onGpu]
    BY <1>4 DEF SelectSome, Picked
  <2>4. onGpu \in BOOLEAN
    OBVIOUS
  <2> HIDE DEF fresh, onGpu
  <2>5. local' \in Locals
    BY <2>1, <2>2, <2>3, <2>4, LocalFields
  <2>6. QED
    BY <1>4, <2>5 DEF SelectSome
<1>5. CASE ReadThinking \/ GpuGivenUp
  BY <1>2, <1>5, LocalFields DEF ReadThinking, GpuGivenUp
<1>6. CASE SpawnOk
  BY <1>6 DEF SpawnOk, Locals, Server
<1>7. CASE BackoffNotified \/ BackoffElapsed
  <2>1. Backoff \in Locals
    BY BackoffRange DEF Backoff, Locals
  <2>2. QED
    BY <1>7, <2>1 DEF BackoffNotified, BackoffElapsed, Notified
<1>8. CASE StartHealthy
  <2> DEFINE f == IF local.gpu THEN "no" ELSE local.gpuFailed
  <2>1. f \in {"no", "recently", "cooled"}
    BY DEF Locals
  <2>2. local' = [local EXCEPT !.backoff = MinBackoff, !.gpuFailed = f]
    BY <1>8 DEF StartHealthy
  <2>3. server' = server
    BY <1>8 DEF StartHealthy
  <2> HIDE DEF f
  <2>4. QED
    BY <2>1, <2>2, <2>3, LocalFields, BackoffRange
<1>9. CASE GpuCools
  BY <1>9, LocalFields DEF GpuCools
<1> QED
  BY <1>1, <1>3, <1>4, <1>5, <1>6, <1>7, <1>8, <1>9 DEF Next, SupervisorStep, StartOutcome

\* The connection tasks.
LEMMA TaskStep == task \in [Clients -> TaskStates] /\ [Next]_vars => task' \in [Clients -> TaskStates]
<1> SUFFICES ASSUME task \in [Clients -> TaskStates], [Next]_vars PROVE task' \in [Clients -> TaskStates]
  OBVIOUS
<1>1. ASSUME NEW c \in Clients, ClientOp(c) \/ ClientStep(c)
      PROVE  \E st \in TaskStates : task' = [task EXCEPT ![c] = st]
  BY <1>1 DEF ClientOp, SetModel, SetThinking, SetSleep, ChatStart, DismissNotice,
     ClientStep, RequestNotReady, RequestName, RequestNotify, SleepNotify, WakeSwap,
     WakeNotify, WakeReady, WakeTimeout, ChatCheck, ChatEnd, Begin, Goto, TaskStates
<1>2. CASE SupervisorStep \/ StartOutcome \/ Failure \/ GpuCools \/ UNCHANGED vars
  BY <1>2 DEF SupervisorStep, TopAwake, TopSleep, SleepNotified, SelectNone, NoModelNotified,
     NoModelRetry, SelectSome, ReadThinking, PublishName, SpawnOk, BackoffNotified,
     BackoffElapsed, RestartKilled, GpuGivenUp, CpuFailed, PublishReady, SuperviseNotified,
     RecheckOk, Killed, ClearReady, StartOutcome, StartHealthy, StartNotified, Failure, SpawnFails,
     StartFails, ServerExits, HealthFails, RecheckFails, GpuCools, Notified, vars
<1> QED
  BY <1>1, <1>2 DEF Next

\* The variables of Daemon that the tasks share.
LEMMA SharedStep == TypeOK /\ [Next]_vars =>
    /\ link' \in Models \cup {NoModel}
    /\ name' \in Models \cup {NoModel} \cup Labels
    /\ thinking' \in BOOLEAN /\ sleeping' \in BOOLEAN /\ ready' \in BOOLEAN
    /\ permit' \in BOOLEAN /\ cpuNotice' \in BOOLEAN
<1> DEFINE G == /\ link' \in Models \cup {NoModel}
                /\ name' \in Models \cup {NoModel} \cup Labels
                /\ thinking' \in BOOLEAN /\ sleeping' \in BOOLEAN /\ ready' \in BOOLEAN
                /\ permit' \in BOOLEAN /\ cpuNotice' \in BOOLEAN
<1> SUFFICES ASSUME TypeOK, [Next]_vars PROVE G
  OBVIOUS
<1> USE DEF TypeOK, shared
<1>0. "(loading)" \in Labels /\ "(sleeping)" \in Labels /\ "(no model)" \in Labels
  BY DEF Labels
<1>1. ASSUME NEW c \in Clients, ClientOp(c) PROVE G
  BY <1>1 DEF ClientOp, SetModel, SetThinking, SetSleep, ChatStart, DismissNotice
<1>2. ASSUME NEW c \in Clients, ClientStep(c) PROVE G
  BY <1>0, <1>2 DEF ClientStep, RequestNotReady, RequestName, RequestNotify, SleepNotify, WakeSwap,
     WakeNotify, WakeReady, WakeTimeout, ChatCheck, ChatEnd
<1>3. CASE TopSleep \/ SelectNone \/ TopAwake \/ NoModelRetry \/ SelectSome
           \/ ReadThinking \/ SpawnOk \/ BackoffElapsed \/ RestartKilled
  BY <1>0, <1>3 DEF TopSleep, SelectNone, TopAwake, NoModelRetry, SelectSome, ReadThinking,
     SpawnOk, BackoffElapsed, RestartKilled
<1>4. CASE PublishName
  BY <1>4 DEF PublishName, Locals
<1>5. CASE SleepNotified \/ NoModelNotified \/ BackoffNotified \/ StartNotified \/ SuperviseNotified
  BY <1>5 DEF SleepNotified, NoModelNotified, BackoffNotified, StartNotified, SuperviseNotified, Notified
<1>6. CASE GpuGivenUp \/ CpuFailed \/ PublishReady \/ RecheckOk \/ Killed \/ ClearReady \/ StartHealthy
  BY <1>6 DEF GpuGivenUp, CpuFailed, PublishReady, RecheckOk, Killed, ClearReady, StartHealthy
<1>7. CASE Failure \/ GpuCools \/ UNCHANGED vars
  BY <1>7 DEF Failure, SpawnFails, StartFails, ServerExits, HealthFails, RecheckFails, GpuCools, vars
<1> QED
  BY <1>1, <1>2, <1>3, <1>4, <1>5, <1>6, <1>7 DEF Next, SupervisorStep, StartOutcome

LEMMA TypeInit == Init => TypeOK
<1> SUFFICES ASSUME Init PROVE TypeOK
  OBVIOUS
<1>1. pc \in SupervisorStates /\ name \in Labels
  BY DEF Init, SupervisorStates, Labels
<1>2. local \in Locals
  BY SupervisorAssumption DEF Init, Locals, MinBackoff, MaxBackoff
<1>3. server \in Server /\ task \in [Clients -> TaskStates]
  BY DEF Init, NoServer, Server, TaskStates
<1> QED
  BY <1>1, <1>2, <1>3 DEF Init, TypeOK

LEMMA TypeStep == TypeOK /\ [Next]_vars => TypeOK'
  BY ControlStep, LocalStep, TaskStep, SharedStep DEF TypeOK

\* Type correctness of the supervisor, for any models and connection tasks.
THEOREM TypeCorrect == Spec => []TypeOK
<1>1. Init => TypeOK
  BY TypeInit
<1>2. TypeOK /\ [Next]_vars => TypeOK'
  BY TypeStep
<1> QED
  BY <1>1, <1>2, PTL DEF Spec

-----------------------------------------------------------------------------
\* A step of a connection task leaves the supervisor alone, keeps every
\* notification that was coming, and announces every change it makes.
LEMMA ClientKeeps ==
    ASSUME TypeOK, NEW c \in Clients, ClientOp(c) \/ ClientStep(c)
    PROVE  /\ pc' = pc /\ local' = local /\ server' = server
           /\ RestartComing => RestartComing'
           /\ SleepChangeComing => SleepChangeComing'
           /\ link' # link \/ thinking' # thinking => RestartComing'
           /\ sleeping' # sleeping => SleepChangeComing'
           /\ permit => permit'
           /\ ready' # ready => ~ready' /\ task'[c] = "req2"
           /\ (\E d \in Clients : task[d] \in {"req2", "req3"})
                 => permit' \/ \E d \in Clients : task'[d] \in {"req2", "req3"}
<1>1. task \in [Clients -> TaskStates] /\ sleeping \in BOOLEAN
  BY DEF TypeOK
<1>2. CASE \E m \in Models \cup {NoModel} : SetModel(c, m)
  BY <1>1, <1>2 DEF SetModel, Begin, Goto, RestartComing, SleepChangeComing
<1>6. CASE \E b \in BOOLEAN : SetThinking(c, b)
  BY <1>1, <1>6 DEF SetThinking, Begin, Goto, RestartComing, SleepChangeComing
<1>7. CASE \E b \in BOOLEAN : SetSleep(c, b)
  BY <1>1, <1>7 DEF SetSleep, Begin, Goto, RestartComing, SleepChangeComing
<1>8. CASE ChatStart(c) \/ DismissNotice(c)
  BY <1>1, <1>8 DEF ChatStart, DismissNotice, Begin, Goto, RestartComing, SleepChangeComing, shared
<1>3. CASE RequestNotReady(c) \/ RequestName(c) \/ RequestNotify(c) \/ SleepNotify(c)
  BY <1>1, <1>3 DEF RequestNotReady, RequestName, RequestNotify, SleepNotify,
     Goto, RestartComing, SleepChangeComing, shared
<1>4. CASE WakeSwap(c)
  <2>1. CASE sleeping
    BY <1>1, <1>4, <2>1 DEF WakeSwap, Goto, RestartComing, SleepChangeComing
  <2>2. CASE ~sleeping
    <3>1. sleeping' = sleeping
      BY <1>1, <1>4, <2>2 DEF WakeSwap
    <3>2. QED
      BY <1>1, <1>4, <2>2, <3>1 DEF WakeSwap, Goto, RestartComing, SleepChangeComing
  <2>3. QED
    BY <2>1, <2>2
<1>9. CASE WakeNotify(c) \/ WakeReady(c) \/ WakeTimeout(c)
  BY <1>1, <1>9 DEF WakeNotify, WakeReady, WakeTimeout,
     Goto, RestartComing, SleepChangeComing, shared
<1>5. CASE ChatCheck(c) \/ ChatEnd(c)
  BY <1>1, <1>5 DEF ChatCheck, ChatEnd, Goto, RestartComing, SleepChangeComing, shared
<1> QED
  BY <1>2, <1>3, <1>4, <1>5, <1>6, <1>7, <1>8, <1>9 DEF ClientOp, ClientStep

LEMMA ClientInv ==
    ASSUME Inv, NEW c \in Clients, ClientOp(c) \/ ClientStep(c)
    PROVE  (ChoiceInv /\ NoMissedWakeUp /\ ReadyIsHonest)'
<1> USE ClientKeeps
<1>1. SelectModel' = SelectModel \/ RestartComing'
  BY DEF SelectModel, Inv
<1>2. ChoiceInv'
  BY <1>1 DEF Inv, ChoiceInv, HasModel, HasThinking, HasServer
<1>3. NoMissedWakeUp'
  BY <1>1 DEF Inv, NoMissedWakeUp
<1>4. ReadyIsHonest'
  BY DEF Inv, ReadyIsHonest
<1> QED
  BY <1>2, <1>3, <1>4

\* A step that leaves the choices, the tasks and the permit alone changes
\* neither what should run nor which notifications are coming.
LEMMA QuietKeeps ==
    ASSUME UNCHANGED <<link, thinking, sleeping, permit, task>>
    PROVE  /\ SelectModel' = SelectModel
           /\ RestartComing' = RestartComing /\ SleepChangeComing' = SleepChangeComing
           /\ (permit \/ \E c \in Clients : task[c] \in {"req2", "req3"})'
                = (permit \/ \E c \in Clients : task[c] \in {"req2", "req3"})
  BY DEF SelectModel, RestartComing, SleepChangeComing

LEMMA SupervisorInv ==
    ASSUME Inv, SupervisorStep \/ StartOutcome \/ Failure \/ GpuCools \/ UNCHANGED vars
    PROVE  (ChoiceInv /\ NoMissedWakeUp /\ ReadyIsHonest)'
<1> USE DEF Inv, ChoiceInv, NoMissedWakeUp, ReadyIsHonest, At, shared
<1>1. CASE \/ SleepNotified \/ NoModelNotified \/ BackoffNotified
           \/ StartNotified \/ SuperviseNotified
  <2>1. pc' \in {"top", "restartKill", "kill"}
    BY <1>1 DEF SleepNotified, NoModelNotified, BackoffNotified, StartNotified,
       SuperviseNotified, Notified
  <2>2. ready' = ready /\ (pc = "supervise" \/ pc' # "kill")
    BY <1>1 DEF SleepNotified, NoModelNotified, BackoffNotified, StartNotified,
       SuperviseNotified, Notified
  <2>3. ready => pc' = "kill"
    BY <1>1 DEF SleepNotified, NoModelNotified, BackoffNotified, StartNotified,
       SuperviseNotified, Notified
  <2>4. QED
    BY <2>1, <2>2, <2>3 DEF HasModel, HasThinking, HasServer
<1>2. CASE TopAwake
  BY <1>2, QuietKeeps DEF TopAwake, HasModel, HasThinking, HasServer
<1>12. CASE TopSleep
  BY <1>12, QuietKeeps DEF TopSleep, HasModel, HasThinking, HasServer
<1>13. CASE SelectNone
  BY <1>13, QuietKeeps DEF SelectNone, HasModel, HasThinking, HasServer
<1>11. CASE NoModelRetry \/ BackoffElapsed
  BY <1>11, QuietKeeps DEF NoModelRetry, BackoffElapsed, HasModel, HasThinking, HasServer
<1>3. CASE SelectSome
  <2>1. local'.model = SelectModel
    BY <1>3 DEF SelectSome, Picked, TypeOK, Locals
  <2>2. QED
    BY <1>3, <2>1, QuietKeeps DEF SelectSome, HasModel, HasThinking, HasServer
<1>4. CASE ReadThinking
  <2>1. local'.thinking = thinking /\ local'.model = local.model
    BY <1>4 DEF ReadThinking, TypeOK, Locals
  <2>2. QED
    BY <1>4, <2>1, QuietKeeps DEF ReadThinking, HasModel, HasThinking, HasServer
<1>5. CASE PublishName \/ SpawnOk \/ PublishReady \/ RecheckOk \/ ClearReady
  BY <1>5, QuietKeeps DEF PublishName, SpawnOk, PublishReady, RecheckOk, ClearReady,
     HasModel, HasThinking, HasServer
<1>6. CASE RestartKilled \/ GpuGivenUp \/ CpuFailed \/ Killed
  BY <1>6, QuietKeeps DEF RestartKilled, GpuGivenUp, CpuFailed, Killed,
     HasModel, HasThinking, HasServer
<1>7. CASE StartHealthy
  <2>1. local'.thinking = local.thinking /\ local'.model = local.model
    BY <1>7 DEF StartHealthy, TypeOK, Locals
  <2>2. QED
    BY <1>7, <2>1, QuietKeeps DEF StartHealthy, HasModel, HasThinking, HasServer
<1>8. CASE Failure
  BY <1>8, QuietKeeps DEF Failure, SpawnFails, StartFails, ServerExits, HealthFails, RecheckFails,
     HasModel, HasThinking, HasServer
<1>9. CASE GpuCools
  <2>1. local'.thinking = local.thinking /\ local'.model = local.model
    BY <1>9 DEF GpuCools, TypeOK, Locals
  <2>2. QED
    BY <1>9, <2>1, QuietKeeps DEF GpuCools, HasModel, HasThinking, HasServer
<1>10. CASE UNCHANGED vars
  BY <1>10, QuietKeeps DEF vars, HasModel, HasThinking, HasServer
<1> QED
  BY <1>1, <1>2, <1>3, <1>4, <1>5, <1>6, <1>7, <1>8, <1>9, <1>10, <1>11, <1>12, <1>13
     DEF SupervisorStep, StartOutcome

-----------------------------------------------------------------------------
LEMMA InvInit == Init => Inv
  BY TypeInit DEF Init, Inv, ChoiceInv, NoMissedWakeUp, ReadyIsHonest, HasModel, HasThinking, HasServer

LEMMA InvStep == Inv /\ [Next]_vars => Inv'
<1> SUFFICES ASSUME Inv, [Next]_vars PROVE Inv'
  OBVIOUS
<1>1. TypeOK'
  BY TypeStep DEF Inv
<1>2. (ChoiceInv /\ NoMissedWakeUp /\ ReadyIsHonest)'
  BY ClientInv, SupervisorInv DEF Next
<1> QED
  BY <1>1, <1>2 DEF Inv

LEMMA Invariance == Spec => []Inv
<1>1. Init => Inv
  BY InvInit
<1>2. Inv /\ [Next]_vars => Inv'
  BY InvStep
<1> QED
  BY <1>1, <1>2, PTL DEF Spec

\* No restart or sleep request is lost: a supervised server runs what was
\* chosen or a notification that replaces it is coming (mindd.rs:120-252 with
\* models.rs:166-205 and mod.rs:141-147).
THEOREM NoLostRestart == Spec => []ServesTheChoice
<1>1. Inv => ServesTheChoice
  BY DEF Inv, ChoiceInv, ServesTheChoice, HasModel, HasThinking, HasServer
<1> QED
  BY <1>1, Invariance, PTL

\* A waiting supervisor has not missed the call that ends its wait.
THEOREM NoLostWakeUp == Spec => []NoMissedWakeUp
<1>1. Inv => NoMissedWakeUp
  BY DEF Inv
<1> QED
  BY <1>1, Invariance, PTL

\* The ready flag is true only of a server that is up or being taken down,
\* and a healthy server is not left marked as loading.
THEOREM ReadyHonest == Spec => []ReadyIsHonest
<1>1. Inv => ReadyIsHonest
  BY DEF Inv
<1> QED
  BY <1>1, Invariance, PTL

-----------------------------------------------------------------------------
(***************************************************************************)
(* What clients are shown of the server.                                   *)
(***************************************************************************)

\* A restart has put its label over the name, or a permit is out: the name
\* will be published again.
NameComing == permit \/ \E c \in Clients : task[c] = "req3"

\* From PublishName on the name is the picked model's, and asleep it is the
\* label, unless a restart has meanwhile relabelled it.
NameInv ==
    /\ pc \in {"spawn"} \cup HasServer => name = local.model \/ NameComing
    /\ pc = "sleepWait" => name = "(sleeping)" \/ NameComing

\* The process runs where the locals say, the time of a failure is kept for as
\* long as the graphics card is given up, and a healthy server on the card has
\* ended the notice.
GpuInv ==
    /\ WantsGpu /\ ~local.gpu => local.gpuFailed # "no"
    /\ pc \in HasServer => server.gpu = local.gpu
    /\ pc \in {"publishReady", "supervise", "recheck"} /\ server.gpu => ~cpuNotice

LabelInv == NameInv /\ GpuInv

LEMMA LabelInit == Init => LabelInv
  BY DEF Init, LabelInv, NameInv, GpuInv, HasServer

\* A connection task never sets the name without announcing a restart, and
\* only ever takes the notice away.
LEMMA ClientLabels ==
    ASSUME TypeOK, LabelInv, NEW c \in Clients, ClientOp(c) \/ ClientStep(c)
    PROVE  LabelInv'
<1>1. /\ pc' = pc /\ local' = local /\ server' = server
      /\ NameComing => NameComing'
      /\ name' # name => NameComing'
      /\ cpuNotice' => cpuNotice
  <2>1. task \in [Clients -> TaskStates] /\ cpuNotice \in BOOLEAN
    BY DEF TypeOK
  <2>2. CASE ClientOp(c)
    BY <2>1, <2>2 DEF ClientOp, SetModel, SetThinking, SetSleep, ChatStart, DismissNotice,
       Begin, Goto, NameComing, shared
  <2>3. CASE RequestNotReady(c) \/ RequestName(c) \/ RequestNotify(c) \/ SleepNotify(c)
    BY <2>1, <2>3 DEF RequestNotReady, RequestName, RequestNotify, SleepNotify, Goto, NameComing
  <2>4. CASE WakeSwap(c) \/ WakeNotify(c) \/ WakeReady(c) \/ WakeTimeout(c)
    BY <2>1, <2>4 DEF WakeSwap, WakeNotify, WakeReady, WakeTimeout, Goto, NameComing, shared
  <2>5. CASE ChatCheck(c) \/ ChatEnd(c)
    BY <2>1, <2>5 DEF ChatCheck, ChatEnd, Goto, NameComing, shared
  <2> QED
    BY <2>2, <2>3, <2>4, <2>5 DEF ClientStep
<1> QED
  BY <1>1 DEF LabelInv, NameInv, GpuInv

\* The supervisor's own steps on the name, ...
LEMMA SupervisorName ==
    ASSUME TypeOK, NameInv, SupervisorStep \/ StartOutcome \/ Failure \/ GpuCools \/ UNCHANGED vars
    PROVE  NameInv'
<1> USE DEF NameInv, HasServer, At, shared
<1>1. CASE \/ SleepNotified \/ NoModelNotified \/ BackoffNotified
           \/ StartNotified \/ SuperviseNotified
  <2>1. pc' \in {"top", "restartKill", "kill"}
    BY <1>1 DEF SleepNotified, NoModelNotified, BackoffNotified, StartNotified,
       SuperviseNotified, Notified
  <2> QED
    BY <2>1
<1>2. CASE TopAwake \/ TopSleep \/ SelectNone \/ NoModelRetry \/ BackoffElapsed \/ SelectSome
  BY <1>2 DEF TopAwake, TopSleep, SelectNone, NoModelRetry, BackoffElapsed, SelectSome, NameComing
<1>3. CASE ReadThinking \/ PublishName
  BY <1>3 DEF ReadThinking, PublishName
<1>4. CASE SpawnOk \/ PublishReady \/ RecheckOk \/ Failure
  BY <1>4 DEF SpawnOk, PublishReady, RecheckOk, Failure, SpawnFails, StartFails, ServerExits,
     HealthFails, RecheckFails, NameComing
<1>5. CASE RestartKilled \/ GpuGivenUp \/ CpuFailed \/ Killed \/ ClearReady
  BY <1>5 DEF RestartKilled, GpuGivenUp, CpuFailed, Killed, ClearReady
<1>6. CASE StartHealthy \/ GpuCools
  <2>1. local'.model = local.model
    BY <1>6 DEF StartHealthy, GpuCools, TypeOK, Locals
  <2> QED
    BY <1>6, <2>1 DEF StartHealthy, GpuCools, NameComing
<1>7. CASE UNCHANGED vars
  BY <1>7 DEF vars, NameComing
<1> QED
  BY <1>1, <1>2, <1>3, <1>4, <1>5, <1>6, <1>7 DEF SupervisorStep, StartOutcome

\* ... and on the graphics card.
LEMMA SupervisorGpu ==
    ASSUME TypeOK, GpuInv, SupervisorStep \/ StartOutcome \/ Failure \/ GpuCools \/ UNCHANGED vars
    PROVE  GpuInv'
<1> USE DEF GpuInv, HasServer, At, shared
<1>0. local \in Locals /\ WantsGpu \in BOOLEAN
  BY SupervisorAssumption DEF TypeOK
<1>1. CASE \/ SleepNotified \/ NoModelNotified \/ StartNotified \/ SuperviseNotified
           \/ RestartKilled \/ CpuFailed \/ Killed \/ ClearReady
           \/ TopAwake \/ TopSleep \/ SelectNone \/ NoModelRetry \/ PublishName
  <2>1. pc' \notin HasServer /\ local' = local
    BY <1>1 DEF SleepNotified, NoModelNotified, StartNotified, SuperviseNotified, RestartKilled,
       CpuFailed, Killed, ClearReady, TopAwake, TopSleep, SelectNone, NoModelRetry, PublishName, Notified
  <2> QED
    BY <2>1
<1>2. CASE BackoffNotified \/ BackoffElapsed \/ ReadThinking
  <2>1. pc' \notin HasServer
    BY <1>2 DEF BackoffNotified, BackoffElapsed, ReadThinking, Notified
  <2>2. local'.gpu = local.gpu /\ local'.gpuFailed = local.gpuFailed
    BY <1>0, <1>2 DEF BackoffNotified, BackoffElapsed, ReadThinking, Backoff, Locals
  <2> QED
    BY <2>1, <2>2
<1>3. CASE SelectSome
  <2>1. CASE local.last = SelectModel
    <3>1. local'.gpu = (local.gpu \/ (WantsGpu /\ local.gpuFailed = "cooled"))
          /\ local'.gpuFailed = local.gpuFailed
      BY <1>0, <1>3, <2>1 DEF SelectSome, Picked, Locals
    <3> QED
      BY <1>3, <3>1 DEF SelectSome
  <2>2. CASE local.last # SelectModel
    <3>1. WantsGpu => local'.gpu
      BY <1>0, <1>3, <2>2 DEF SelectSome, Picked, Locals
    <3> QED
      BY <1>3, <3>1 DEF SelectSome
  <2> QED
    BY <2>1, <2>2
<1>4. CASE SpawnOk
  BY <1>4 DEF SpawnOk
<1>5. CASE PublishReady \/ RecheckOk \/ Failure \/ UNCHANGED vars
  BY <1>5 DEF PublishReady, RecheckOk, Failure, SpawnFails, StartFails, ServerExits,
     HealthFails, RecheckFails, vars
<1>6. CASE GpuGivenUp
  <2>1. local'.gpuFailed = "recently"
    BY <1>0, <1>6 DEF GpuGivenUp, Locals
  <2> QED
    BY <1>6, <2>1 DEF GpuGivenUp
<1>7. CASE StartHealthy
  <2>1. local'.gpu = local.gpu /\ (~local.gpu => local'.gpuFailed = local.gpuFailed)
    BY <1>0, <1>7 DEF StartHealthy, Locals
  <2>2. local.gpu => ~cpuNotice'
    BY <1>7 DEF StartHealthy
  <2> QED
    BY <1>0, <1>7, <2>1, <2>2 DEF StartHealthy
<1>8. CASE GpuCools
  <2>1. local'.gpu = local.gpu /\ local'.gpuFailed = "cooled"
    BY <1>0, <1>8 DEF GpuCools, Locals
  <2> QED
    BY <1>8, <2>1 DEF GpuCools
<1> QED
  BY <1>1, <1>2, <1>3, <1>4, <1>5, <1>6, <1>7, <1>8 DEF SupervisorStep, StartOutcome

\* The name is that of the running server or about to be replaced, the notice
\* "running on the processor" is not shown while the graphics card serves, and
\* the card is never given up without the time that lets a later restart try it
\* again (mindd.rs:117-119, 137-158, models.rs:201-205).
THEOREM LabelsHonest == Spec => []LabelsAreHonest
<1>1. Init => Inv /\ LabelInv
  BY InvInit, LabelInit
<1>2. (Inv /\ LabelInv) /\ [Next]_vars => (Inv /\ LabelInv)'
  <2> SUFFICES ASSUME Inv, LabelInv, [Next]_vars PROVE (Inv /\ LabelInv)'
    OBVIOUS
  <2>1. Inv'
    BY InvStep
  <2>2. LabelInv'
    BY ClientLabels, SupervisorName, SupervisorGpu DEF Inv, LabelInv, Next
  <2> QED
    BY <2>1, <2>2
<1>3. Inv /\ LabelInv => LabelsAreHonest
  BY DEF Inv, LabelInv, NameInv, GpuInv, ChoiceInv, LabelsAreHonest, NameIsHonest, GpuIsHonest,
     NameComing, HasServer
<1> QED
  BY <1>1, <1>2, <1>3, PTL DEF Spec
=============================================================================
