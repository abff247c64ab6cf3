------------------------------ MODULE BarProofs ------------------------------
(***************************************************************************)
(* For any index of applications, screens, questions and deaths of the     *)
(* daemon: the Mind bar and the daemon's conversation end together, and    *)
(* the bar offers and shows what it holds.  What the bar shows is a matter *)
(* of the bar alone; what it waits for is on its way somewhere between it  *)
(* and the daemon.                                                         *)
(***************************************************************************)
EXTENDS MCParts, FiniteSetTheorems, SequenceTheorems, WellFoundedInduction, TLAPS

BarApps == [name : STRING, score : Nat, length : Nat]

BarPictures ==
    {B!NoPanel} \cup
    [drawn : {TRUE}, input : B!Inputs, selected : Nat, lines : Nat, results : Seq(STRING),
     streaming : BOOLEAN, pending : Nat, connected : BOOLEAN, ready : BOOLEAN, busy : BOOLEAN,
     tools : BOOLEAN, accent : {1, 2}]

BarStates ==
    [open : BOOLEAN, output : BarScreens \cup {B!NoOutput}, outputs : SUBSET BarScreens,
     locked : BOOLEAN, unseen : BOOLEAN, input : B!Inputs, apps : Seq(BarApps),
     results : Seq(Nat), selected : Nat, lines : Nat, streaming : BOOLEAN, busy : BOOLEAN,
     pending : Nat, connected : BOOLEAN, ready : BOOLEAN, tools : BOOLEAN, accent : {1, 2},
     dirty : BOOLEAN, panel : BarPictures, osd : BOOLEAN, since : BOOLEAN,
     last : [BarScreens -> {"none", "startup", "desktop"}], asks : Nat]

ResultsLive(s) ==
    /\ \A k \in DOMAIN s.results : s.results[k] \in DOMAIN s.apps
    /\ s.results # <<>> => s.selected \in DOMAIN s.results

PictureCurrent(s) == s.panel # B!NoPanel /\ ~s.dirty => s.panel = B!Content(s)

BarSeen(s) ==
    /\ s.open => s.output \in s.outputs \/ s.unseen
    /\ s.locked => ~s.open /\ ~s.osd
    /\ s.since => \E o \in BarScreens : s.last[o] = "startup"

\* The bar as it may be between two handlers.
BarHolds(s) == s \in BarStates /\ ResultsLive(s) /\ PictureCurrent(s) /\ BarSeen(s)

\* What is on its way: requests, lines of a connection, events.
BarRequests == [type : {"chat", "cancel", "confirm", "deny", "tool_result"}, id : Nat]
Lines == [type : {"welcome", "delta", "tool_call", "tool_result", "client_tool", "done", "error"}, id : Nat]
MindEvents == Lines \cup [type : {"connected", "disconnected", "unavailable"}, id : Nat]

TalkTyped ==
    /\ events \in Seq(MindEvents) /\ requests \in Seq(BarRequests)
    /\ manager \in [pc : {"connect", "hello", "announce", "serve", "close", "pause"}, conn : Nat,
                    reported : BOOLEAN, lost : BOOLEAN, late : BOOLEAN]
    /\ DOMAIN readers \subseteq 1..manager.conn
    /\ readers \in [DOMAIN readers -> [wire : Seq(Lines), open : BOOLEAN, ended : BOOLEAN]]
    /\ daemon \in [up : BOOLEAN, conn : Nat, pc : {"idle", "chat", "confirm", "tool"}, call : Nat,
                   calls : Nat, inbox : Seq(BarRequests), crashes : Nat]

\* What a queue of messages holds: one of some type, one about a call, as its
\* last question one about a call; and what a listener who now holds `now` for
\* true or false will hold for true when it has heard the queue.
Has(queue, types) == \E i \in DOMAIN queue : queue[i].type \in types
HasCall(queue, types, call) == \E i \in DOMAIN queue : queue[i].type \in types /\ queue[i].id = call
NoneAsks(queue) == ~Has(queue, {"tool_call"})
LastAsks(queue, call) ==
    \E i \in DOMAIN queue :
        /\ queue[i].type = "tool_call" /\ queue[i].id = call
        /\ \A j \in DOMAIN queue : j > i => queue[j].type # "tool_call"
WillHold(now, queue, makes, breaks) ==
    \/ now /\ ~Has(queue, breaks)
    \/ \E i \in DOMAIN queue :
          queue[i].type \in makes /\ \A j \in DOMAIN queue : j > i => queue[j].type \notin breaks

\* Only the last connection can stand, and then the daemon is at its other
\* end; an older one has nothing left to say but that it ended.
OneConnection ==
    /\ manager.reported => manager.pc = "connect"
    /\ B!Writable => daemon.up /\ daemon.conn = manager.conn
    /\ \A c \in DOMAIN readers :
          /\ c # manager.conn \/ readers[c].ended => ~readers[c].open /\ readers[c].wire = <<>>
          /\ manager.pc \in {"connect", "pause"} => ~readers[c].open
          /\ manager.pc \in {"connect", "hello"} => readers[c].wire = <<>>
    /\ manager.pc = "hello" /\ B!Writable => daemon.pc = "idle" /\ daemon.inbox = <<>>

\* A bar that thinks will hear an end: a question is on its way or at work, an
\* end is on its way back, or a connection's end is.
EndTypes == {"done", "error", "disconnected", "unavailable"}
ThinkingEnds ==
    bar.busy =>
        \/ manager.lost
        \/ Has(requests, {"chat"})
        \/ Has(events, EndTypes)
        \/ \E c \in DOMAIN readers : ~readers[c].open \/ Has(readers[c].wire, EndTypes)
        \/ B!Writable /\ (daemon.pc # "idle" \/ Has(daemon.inbox, {"chat"}))

\* An answer the daemon will take is on its way to it.
AnswerComes(types) ==
    \/ Has(requests, {"cancel"}) \/ HasCall(requests, types, daemon.call)
    \/ Has(daemon.inbox, {"cancel"}) \/ HasCall(daemon.inbox, types, daemon.call)

\* The user is asked, is about to be, or has answered.
ConfirmationComes ==
    B!Writable /\ daemon.pc = "confirm" =>
        \/ AnswerComes({"confirm", "deny"})
        \/ LastAsks(B!Connection.wire, daemon.call)
        \/ /\ NoneAsks(B!Connection.wire)
           /\ LastAsks(events, daemon.call) \/ (NoneAsks(events) /\ bar.pending = daemon.call)

\* A tool of the session is about to run, or its result is on its way.
ResultComes ==
    B!Writable /\ daemon.pc = "tool" =>
        \/ AnswerComes({"tool_result"})
        \/ HasCall(B!Connection.wire, {"client_tool"}, daemon.call)
        \/ HasCall(events, {"client_tool"}, daemon.call)

\* What the bar will make of the connection when it has heard everything.
Ons == {"connected"}
Offs == {"disconnected", "unavailable"}
ConnectionIsTold ==
    /\ manager.pc = "serve" /\ ~manager.late =>
          /\ \A c \in DOMAIN readers : c = manager.conn
          /\ manager.conn \in DOMAIN readers => WillHold(bar.connected, events, Ons, Offs)
    /\ manager.pc = "connect" /\ manager.reported => WillHold(~bar.connected, events, Offs, Ons)

TalkInv ==
    /\ TalkTyped
    /\ OneConnection
    /\ ThinkingEnds
    /\ ConfirmationComes
    /\ ResultComes
    /\ ConnectionIsTold

\* In the other scenes there is no conversation.
BarInv ==
    /\ working \in BarScenes => BarHolds(bar)
    /\ working = "talk" => TalkInv
    /\ working \in {"bar", "screens"} => manager.pc = "connect" /\ ~manager.reported
\* A strict order of T: nobody before himself, and of two one before the other.
StrictOrder(R, T) ==
    /\ \A i \in T : <<i, i>> \notin R
    /\ \A i, j \in T : i # j => <<i, j>> \in R \/ <<j, i>> \in R
    /\ \A i, j, l \in T : <<i, j>> \in R /\ <<j, l>> \in R => <<i, l>> \in R

LEMMA SameCardinality == \A T : B!Cardinality(T) = Cardinality(T)
  BY DEF B!Cardinality, Cardinality

\* In a finite set every rank is somebody's.
LEMMA RankTaken ==
    ASSUME NEW T, IsFiniteSet(T), NEW R, StrictOrder(R, T),
           NEW k \in 1..Cardinality(T)
    PROVE  \E i \in T : Cardinality({j \in T : <<j, i>> \in R}) = k - 1
<1> DEFINE Below(i) == {j \in T : <<j, i>> \in R}
           n == Cardinality(T)
           f == [i \in T |-> Cardinality(Below(i)) + 1]
<1>1. n \in Nat
  BY FS_CardinalityType
<1>2. ASSUME NEW i \in T
      PROVE  IsFiniteSet(Below(i)) /\ Cardinality(Below(i)) \in Nat /\ Cardinality(Below(i)) < n
  <2>1. Below(i) \subseteq T /\ i \notin Below(i)
    BY DEF StrictOrder
  <2>2. Below(i) \in SUBSET T /\ Below(i) # T
    BY <2>1
  <2> HIDE DEF Below
  <2>3. IsFiniteSet(Below(i)) /\ Cardinality(Below(i)) <= n /\ (n = Cardinality(Below(i)) => T = Below(i))
    BY <2>2, FS_Subset
  <2>4. Cardinality(Below(i)) \in Nat
    BY <2>3, FS_CardinalityType
  <2> QED
    BY <1>1, <2>2, <2>3, <2>4
<1>0. \A i, j \in T : i # j => <<i, j>> \in R \/ <<j, i>> \in R
  BY DEF StrictOrder
<1>3. ASSUME NEW i \in T, NEW j \in T, <<i, j>> \in R PROVE Cardinality(Below(i)) < Cardinality(Below(j))
  <2>1. Below(i) \in SUBSET Below(j) /\ i \in Below(j) /\ i \notin Below(i)
    BY <1>3 DEF StrictOrder
  <2> HIDE DEF Below
  <2>2. Cardinality(Below(i)) <= Cardinality(Below(j)) /\ Cardinality(Below(i)) # Cardinality(Below(j))
    BY <1>2, <2>1, FS_Subset
  <2> QED
    BY <1>2, <2>2
<1> HIDE DEF Below
<1>4. f \in [T -> 1..n]
  BY <1>1, <1>2
<1>5. f \in Injection(T, 1..n)
  <2>1. ASSUME NEW i \in T, NEW j \in T, f[i] = f[j] PROVE i = j
    <3>1. Cardinality(Below(i)) = Cardinality(Below(j)) /\ Cardinality(Below(i)) \in Nat
      BY <1>2, <2>1
    <3>2. ~(Cardinality(Below(i)) < Cardinality(Below(j))) /\ ~(Cardinality(Below(j)) < Cardinality(Below(i)))
      BY <3>1
    <3>3. <<i, j>> \notin R /\ <<j, i>> \notin R
      BY <1>3, <3>2
    <3> QED
      BY <1>0, <3>3
  <2> HIDE DEF f
  <2> QED
    BY <1>4, <2>1 DEF Injection, IsInjective
<1>6. IsFiniteSet(1..n) /\ Cardinality(1..n) = n
  BY <1>1, FS_Interval
<1> HIDE DEF f, n
<1>7. f \in Surjection(T, 1..n)
  BY <1>5, <1>6, FS_Injection DEF n
<1>8. PICK i \in T : f[i] = k
  BY <1>7 DEF Surjection, n
<1>9. Cardinality(Below(i)) = k - 1
  BY <1>2, <1>8 DEF f
<1> QED
  BY <1>9 DEF Below

\* So a list by rank is a list of the set's elements.
LEMMA InOrderHas ==
    ASSUME NEW T, IsFiniteSet(T), NEW R, StrictOrder(R, T),
           NEW most \in Nat
    PROVE  B!InOrder(T, R, most) \in Seq(T)
<1> DEFINE n == IF Cardinality(T) < most THEN Cardinality(T) ELSE most
<1>1. Cardinality(T) \in Nat
  BY FS_CardinalityType
<1>2. n \in Nat /\ 1..n \subseteq 1..Cardinality(T)
  BY <1>1
<1>3. ASSUME NEW k \in 1..n
      PROVE  (CHOOSE i \in T : B!Cardinality({j \in T : <<j, i>> \in R}) = k - 1) \in T
  <2>1. k \in 1..Cardinality(T)
    BY <1>2
  <2>2. PICK i \in T : Cardinality({j \in T : <<j, i>> \in R}) = k - 1
    BY <2>1, RankTaken
  <2>3. B!Cardinality({j \in T : <<j, i>> \in R}) = k - 1
    BY <2>2, SameCardinality
  <2> QED
    BY <2>3
<1>4. B!Cardinality(T) = Cardinality(T)
  BY SameCardinality
<1>5. B!InOrder(T, R, most) =
        [k \in 1..n |-> CHOOSE i \in T : B!Cardinality({j \in T : <<j, i>> \in R}) = k - 1]
  BY <1>4 DEF B!InOrder
<1>6. B!InOrder(T, R, most) \in [1..n -> T]
  BY <1>3, <1>5
<1> HIDE DEF n
<1> QED
  BY <1>2, <1>6

LEMMA Smallest ==
    ASSUME NEW L, L \subseteq Nat, L # {}
    PROVE  B!Min(L) \in L
<1> DEFINE R == OpToRel(<, Nat)
<1>1. IsWellFoundedOn(R, Nat)
  BY NatLessThanWellFounded
<1>2. \A x, y \in Nat : x < y => <<x, y>> \in R
  BY DEF OpToRel
<1> HIDE DEF R
<1>3. PICK x \in L : \A y \in L : ~(<<y, x>> \in R)
  BY <1>1, WFMin
<1>4. ASSUME NEW y \in L PROVE x <= y
  <2>1. x \in Nat /\ y \in Nat /\ ~(y < x)
    BY <1>2, <1>3
  <2> QED
    BY <2>1
<1> QED
  BY <1>4 DEF B!Min

\* Both lists of results are of places in the index.
LEMMA SearchLive ==
    ASSUME NEW apps \in Seq(BarApps)
    PROVE  B!Search(apps) \in Seq(DOMAIN apps)
<1> DEFINE found == {i \in DOMAIN apps : apps[i].score < 5}
           R == {p \in found \X found : B!Precedes(apps, p[1], p[2])}
<1>0. Len(apps) \in Nat /\ DOMAIN apps = 1..Len(apps)
  OBVIOUS
<1>1. found \subseteq DOMAIN apps /\ IsFiniteSet(found)
  <2>1. found \in SUBSET DOMAIN apps /\ IsFiniteSet(DOMAIN apps)
    BY <1>0, FS_Interval
  <2> HIDE DEF found
  <2> QED
    BY <2>1, FS_Subset
<1>2. \A i \in found : i \in Int /\ apps[i].score \in Nat /\ apps[i].length \in Nat
  <2> SUFFICES ASSUME NEW i \in found
               PROVE  i \in Int /\ apps[i].score \in Nat /\ apps[i].length \in Nat
    OBVIOUS
  <2>1. i \in DOMAIN apps /\ apps[i] \in BarApps
    OBVIOUS
  <2> QED
    BY <1>0, <2>1 DEF BarApps
<1> HIDE DEF found
<1>3. \A i, j \in found : <<i, j>> \in R <=> B!Precedes(apps, i, j)
  OBVIOUS
<1> HIDE DEF R
<1>4. StrictOrder(R, found)
  <2>1. \A i \in found : ~B!Precedes(apps, i, i)
    BY <1>2 DEF B!Precedes
  <2>2. \A i, j \in found : i # j => B!Precedes(apps, i, j) \/ B!Precedes(apps, j, i)
    BY <1>2 DEF B!Precedes
  <2>3. \A i, j, l \in found :
           B!Precedes(apps, i, j) /\ B!Precedes(apps, j, l) => B!Precedes(apps, i, l)
    BY <1>2 DEF B!Precedes
  <2> QED
    BY <1>3, <2>1, <2>2, <2>3 DEF StrictOrder
<1>5. B!InOrder(found, R, Rows) \in Seq(found)
  BY <1>1, <1>4, BarAssumption, InOrderHas
<1>6. B!Search(apps) = B!InOrder(found, R, Rows)
  BY DEF B!Search, found, R
<1> QED
  BY <1>1, <1>5, <1>6

LEMMA QuickLive ==
    ASSUME NEW apps \in Seq(BarApps)
    PROVE  B!QuickLaunches(apps) \in Seq(DOMAIN apps)
<1> DEFINE At(k) == {i \in DOMAIN apps : apps[i].name = Quick[k]}
           known == {k \in DOMAIN Quick : At(k) # {}}
           R == {p \in known \X known : p[1] < p[2]}
           shown == B!InOrder(known, R, Rows)
<1>0. Len(Quick) \in Nat /\ DOMAIN Quick = 1..Len(Quick) /\ DOMAIN apps = 1..Len(apps) /\ Len(apps) \in Nat
  BY BarAssumption
<1>1. \A k : At(k) \subseteq DOMAIN apps /\ At(k) \subseteq Nat
  BY <1>0
<1>2. known \subseteq DOMAIN Quick /\ IsFiniteSet(known) /\ \A k \in known : At(k) # {}
  <2>1. known \in SUBSET DOMAIN Quick /\ IsFiniteSet(DOMAIN Quick)
    BY <1>0, FS_Interval
  <2>2. \A k \in known : At(k) # {}
    OBVIOUS
  <2> HIDE DEF known
  <2> QED
    BY <2>1, <2>2, FS_Subset
<1>3. known \subseteq Int
  BY <1>0, <1>2
<1> HIDE DEF At, known
<1>4. \A i, j \in known : <<i, j>> \in R <=> i < j
  OBVIOUS
<1> HIDE DEF R
<1>5. StrictOrder(R, known)
  BY <1>3, <1>4 DEF StrictOrder
<1>6. shown \in Seq(known)
  BY <1>2, <1>5, BarAssumption, InOrderHas
<1> HIDE DEF shown
<1>7. \A k \in DOMAIN shown : B!Min(At(shown[k])) \in DOMAIN apps
  <2> SUFFICES ASSUME NEW k \in DOMAIN shown PROVE B!Min(At(shown[k])) \in DOMAIN apps
    OBVIOUS
  <2>1. shown[k] \in known
    BY <1>6
  <2> QED
    BY <1>1, <1>2, <2>1, Smallest
<1>8. B!QuickLaunches(apps) = [k \in DOMAIN shown |-> B!Min(At(shown[k]))]
  BY DEF B!QuickLaunches, shown, R, known, At
<1> QED
  BY <1>6, <1>7, <1>8

-----------------------------------------------------------------------------
(* What the bar's own handlers leave. *)

\* A handler that neither ends a wait nor begins one.
Kept(s, t) ==
    t.connected = s.connected /\ (t.busy => s.busy) /\ t.pending = s.pending

\* What is not the results', the input's or the conversation's.
Aside(s, t) ==
    /\ t.open = s.open /\ t.output = s.output /\ t.outputs = s.outputs /\ t.locked = s.locked
    /\ t.unseen = s.unseen /\ t.osd = s.osd /\ t.since = s.since /\ t.last = s.last

LEMMA ContentTyped ==
    ASSUME NEW s \in BarStates, ResultsLive(s)
    PROVE  B!Content(s) \in BarPictures /\ B!Content(s) # B!NoPanel
<1> DEFINE names == [k \in DOMAIN s.results |-> s.apps[s.results[k]].name]
<1>1. names \in Seq(STRING)
  <2>1. s.results \in Seq(Nat) /\ s.apps \in Seq(BarApps)
    BY DEF BarStates
  <2>2. ASSUME NEW k \in DOMAIN s.results PROVE s.apps[s.results[k]].name \in STRING
    <3>1. s.results[k] \in DOMAIN s.apps
      BY DEF ResultsLive
    <3>2. s.apps[s.results[k]] \in BarApps
      BY <2>1, <3>1
    <3> QED
      BY <3>2 DEF BarApps
  <2>3. names \in [1..Len(s.results) -> STRING] /\ Len(s.results) \in Nat
    BY <2>1, <2>2
  <2> QED
    BY <2>3
<1>2. B!Content(s).results = names
  BY DEF B!Content
<1> HIDE DEF names
<1>3. B!Content(s) \in BarPictures
  BY <1>1, <1>2 DEF BarPictures, BarStates, B!Content
<1>4. B!Content(s).drawn = TRUE /\ B!NoPanel.drawn = FALSE
  BY DEF B!Content, B!NoPanel
<1> QED
  BY <1>3, <1>4

LEMMA Refreshed ==
    ASSUME NEW s \in BarStates, BarSeen(s)
    PROVE  /\ BarHolds(B!RefreshResults(s))
           /\ Kept(s, B!RefreshResults(s)) /\ Aside(s, B!RefreshResults(s))
           /\ B!RefreshResults(s).dirty /\ B!RefreshResults(s).streaming = s.streaming
<1> DEFINE t == B!RefreshResults(s)
<1>1. s.apps \in Seq(BarApps)
  BY DEF BarStates
<1>2. B!Search(s.apps) \in Seq(DOMAIN s.apps) /\ B!QuickLaunches(s.apps) \in Seq(DOMAIN s.apps)
  BY <1>1, SearchLive, QuickLive
<1>3. PICK r \in Seq(DOMAIN s.apps) : t = [s EXCEPT !.results = r, !.selected = 1, !.dirty = TRUE]
  <2>1. <<>> \in Seq(DOMAIN s.apps)
    OBVIOUS
  <2> QED
    BY <1>2, <2>1 DEF B!RefreshResults
<1> HIDE DEF t
<1>4. r \in Seq(Nat)
  BY <1>1
<1>5. t \in BarStates /\ t.apps = s.apps /\ t.results = r /\ t.selected = 1 /\ t.dirty
  BY <1>3, <1>4 DEF BarStates
<1>6. Kept(s, t) /\ Aside(s, t) /\ t.streaming = s.streaming
  BY <1>3 DEF Kept, Aside, BarStates
<1>7. BarSeen(t)
  BY <1>6 DEF BarSeen, Aside
<1>8. ResultsLive(t)
  BY <1>5 DEF ResultsLive
<1>9. PictureCurrent(t)
  BY <1>5 DEF PictureCurrent
<1> QED
  BY <1>5, <1>6, <1>7, <1>8, <1>9 DEF BarHolds, t

\* A handler that only marks the picture old, and what it does to the rest.
Touched(s, t) ==
    /\ t \in BarStates /\ t.dirty
    /\ t.apps = s.apps /\ ((t.results = s.results /\ t.selected = s.selected) \/ t.results = <<>>)
    /\ t.output = s.output /\ t.outputs = s.outputs /\ t.locked = s.locked
    /\ t.unseen = s.unseen /\ t.osd = s.osd /\ t.since = s.since /\ t.last = s.last
    /\ t.open => s.open

LEMMA TouchedHolds ==
    ASSUME NEW s \in BarStates, NEW t, ResultsLive(s), BarSeen(s), Touched(s, t)
    PROVE  BarHolds(t)
<1>1. ResultsLive(t)
  BY DEF Touched, ResultsLive
<1>2. PictureCurrent(t)
  BY DEF Touched, PictureCurrent
<1>3. BarSeen(t)
  BY DEF Touched, BarSeen
<1> QED
  BY <1>1, <1>2, <1>3 DEF Touched, BarHolds

LEMMA Pushed ==
    ASSUME NEW s \in BarStates
    PROVE  Touched(s, B!Push(s)) /\ Kept(s, B!Push(s)) /\ B!Push(s).streaming = s.streaming
<1> DEFINE t == B!Push(s)
<1>1. PICK n \in Nat : t = [s EXCEPT !.lines = n, !.dirty = TRUE]
  <2>1. s.lines \in Nat /\ s.lines + 1 \in Nat
    BY DEF BarStates
  <2> QED
    BY <2>1 DEF B!Push
<1> HIDE DEF t
<1>2. t \in BarStates
  BY <1>1 DEF BarStates
<1> QED
  BY <1>1, <1>2 DEF Touched, Kept, BarStates, t

LEMMA Flushed ==
    ASSUME NEW s \in BarStates, s.dirty
    PROVE  Touched(s, B!FlushStreaming(s)) /\ Kept(s, B!FlushStreaming(s))
<1> DEFINE t == B!FlushStreaming(s)
           p == IF s.streaming THEN B!Push(s) ELSE s
<1>1. Touched(s, p) /\ Kept(s, p)
  <2>1. Touched(s, s) /\ Kept(s, s)
    BY DEF Touched, Kept
  <2> QED
    BY <2>1, Pushed
<1>2. t = [p EXCEPT !.streaming = FALSE]
  BY DEF B!FlushStreaming
<1> HIDE DEF t, p
<1>3. p \in BarStates
  BY <1>1 DEF Touched
<1>4. t \in BarStates
  BY <1>2, <1>3 DEF BarStates
<1>5. Aside(p, t) /\ Kept(p, t) /\ t.apps = p.apps /\ t.results = p.results /\ t.selected = p.selected
      /\ t.dirty = p.dirty
  BY <1>2, <1>3 DEF Aside, Kept, BarStates
<1> QED
  BY <1>1, <1>4, <1>5 DEF Touched, Kept, Aside, t

LEMMA Closed ==
    ASSUME NEW s \in BarStates
    PROVE  Touched(s, B!CloseBar(s)) /\ Kept(s, B!CloseBar(s)) /\ ~B!CloseBar(s).open
<1>1. B!CloseBar(s) \in BarStates
  BY DEF BarStates, B!CloseBar
<1> QED
  BY <1>1 DEF Touched, Kept, BarStates, B!CloseBar

LEMMA Opened ==
    ASSUME NEW s \in BarStates, BarSeen(s), ~s.locked
    PROVE  BarHolds(B!OpenBar(s)) /\ Kept(s, B!OpenBar(s))
<1> DEFINE t == [s EXCEPT !.open = TRUE, !.unseen = s.output \notin s.outputs]
<1>1. t \in BarStates
  BY DEF BarStates
<1>2. BarSeen(t) /\ Kept(s, t)
  BY DEF BarSeen, Kept, BarStates
<1>3. B!OpenBar(s) = B!RefreshResults(t)
  BY DEF B!OpenBar
<1> HIDE DEF t
<1> QED
  BY <1>1, <1>2, <1>3, Refreshed DEF Kept

LEMMA Stepped ==
    ASSUME NEW s, BarHolds(s), s.dirty, NEW back \in BOOLEAN
    PROVE  BarHolds(B!Step(s, back)) /\ Kept(s, B!Step(s, back))
<1>1. s \in BarStates /\ ResultsLive(s) /\ BarSeen(s)
  BY DEF BarHolds
<1>2. CASE Len(s.results) = 0
  <2>1. B!Step(s, back) = s
    BY <1>2 DEF B!Step
  <2> QED
    BY <2>1 DEF Kept
<1>3. CASE Len(s.results) # 0
  <2> DEFINE n == Len(s.results)
  <2>1. s.results \in Seq(Nat) /\ s.selected \in Nat
    BY <1>1 DEF BarStates
  <2>2. n \in Nat /\ n # 0 /\ DOMAIN s.results = 1..n /\ s.results # <<>>
    BY <1>3, <2>1
  <2> HIDE DEF n
  <2>3. \A i \in Int : i % n \in 0..(n - 1)
    BY <2>2
  <2>4. PICK i \in 1..n : B!Step(s, back) = [s EXCEPT !.selected = i]
    <3>1. ((s.selected + n - 2) % n) + 1 \in 1..n /\ (s.selected % n) + 1 \in 1..n
      <4>1. s.selected + n - 2 \in Int /\ s.selected \in Int
        BY <2>1, <2>2
      <4>2. (s.selected + n - 2) % n \in 0..(n - 1) /\ s.selected % n \in 0..(n - 1)
        BY <2>3, <4>1
      <4> QED
        BY <2>2, <4>2
    <3>2. B!Step(s, back) = IF back THEN [s EXCEPT !.selected = ((@ + n - 2) % n) + 1]
                            ELSE [s EXCEPT !.selected = (@ % n) + 1]
      BY <1>3 DEF B!Step, n
    <3> QED
      BY <3>1, <3>2
  <2> DEFINE t == B!Step(s, back)
  <2> HIDE DEF t
  <2>5. t = [s EXCEPT !.selected = i]
    BY <2>4 DEF t
  <2>6. t \in BarStates
    <3>1. i \in Nat
      BY <2>2
    <3> QED
      BY <1>1, <2>5, <3>1 DEF BarStates
  <2>7. t.results = s.results /\ t.apps = s.apps /\ t.selected = i /\ t.dirty /\ Kept(s, t) /\ Aside(s, t)
    BY <1>1, <2>5 DEF BarStates, Kept, Aside
  <2>8. ResultsLive(t)
    BY <1>1, <2>2, <2>7 DEF ResultsLive
  <2>9. BarSeen(t) /\ PictureCurrent(t)
    BY <1>1, <2>7 DEF BarSeen, PictureCurrent, Aside
  <2> QED
    BY <2>6, <2>7, <2>8, <2>9 DEF BarHolds, t
<1> QED
  BY <1>2, <1>3

\* What the user, the shell or a frame may do: nothing that ends a wait but
\* with a question to wait for, and no confirmation goes but by its answer.
BarStep ==
    /\ BarHolds(bar') /\ bar'.connected = bar.connected
    /\ \/ requests' = requests /\ Kept(bar, bar')
       \/ \E q \in BarRequests :
            /\ requests' = Append(requests, q)
            /\ bar'.busy => bar.busy \/ q.type = "chat"
            /\ bar'.pending = bar.pending \/ (q.type \in {"confirm", "deny"} /\ q.id = bar.pending)

LEMMA KeptOn == \A s, t, u : Kept(s, t) /\ Kept(t, u) => Kept(s, u)
  BY DEF Kept

LEMMA SilentStep ==
    ASSUME NEW t, BarHolds(t), Kept(bar, t), B!Silent(t)
    PROVE  BarStep
  BY DEF B!Silent, BarStep, Kept

LEMMA TellStep ==
    ASSUME NEW t, NEW q \in BarRequests, BarHolds(t), t.connected = bar.connected,
           t.busy => bar.busy \/ q.type = "chat",
           t.pending = bar.pending \/ (q.type \in {"confirm", "deny"} /\ q.id = bar.pending),
           B!Tell(t, q)
    PROVE  BarStep
  BY DEF B!Tell, BarStep

LEMMA AskStep ==
    ASSUME NEW s, BarHolds(s), Kept(bar, s), B!Ask(s)
    PROVE  BarStep
<1> DEFINE p == B!Push(s)
           t == [p EXCEPT !.busy = TRUE, !.streaming = FALSE, !.input = "",
                          !.results = <<>>, !.asks = @ + 1]
           q == [type |-> "chat", id |-> B!NoCall]
<1>1. s \in BarStates /\ ResultsLive(s) /\ BarSeen(s)
  BY DEF BarHolds
<1>2. Touched(s, p) /\ Kept(s, p)
  BY <1>1, Pushed
<1>3. B!Tell(t, q) /\ q \in BarRequests /\ q.type = "chat"
  BY DEF B!Ask, BarRequests, B!NoCall
<1> HIDE DEF p, q
<1>4. p \in BarStates
  BY <1>2 DEF Touched
<1>5. t \in BarStates
  <2>1. p.asks \in Nat /\ p.asks + 1 \in Nat /\ <<>> \in Seq(Nat) /\ "" \in B!Inputs
    <3>1. p.asks \in Nat
      BY <1>4 DEF BarStates
    <3>2. "" \in B!Inputs
      BY DEF B!Inputs
    <3>3. p.asks + 1 \in Nat
      BY <3>1
    <3>4. <<>> \in Seq(Nat)
      OBVIOUS
    <3> QED
      BY <3>1, <3>2, <3>3, <3>4
  <2> QED
    BY <1>4, <2>1 DEF BarStates
<1>6. Aside(p, t) /\ t.apps = p.apps /\ t.results = <<>> /\ t.dirty = p.dirty
      /\ t.connected = p.connected /\ t.pending = p.pending
  BY <1>4 DEF Aside, BarStates
<1> HIDE DEF t
<1>7. Touched(s, t)
  BY <1>2, <1>5, <1>6 DEF Touched, Aside
<1>8. BarHolds(t)
  BY <1>1, <1>7, TouchedHolds
<1>9. t.connected = bar.connected /\ t.pending = bar.pending
  BY <1>2, <1>6 DEF Kept
<1> QED
  BY <1>3, <1>8, <1>9, TellStep

LEMMA OpenWithStep ==
    ASSUME NEW s, BarHolds(s), ~s.locked, Kept(bar, s), NEW ask, B!OpenWith(s, ask)
    PROVE  BarStep
<1> DEFINE t == B!OpenBar(s)
           u == [t EXCEPT !.input = "?question"]
<1>1. s \in BarStates /\ BarSeen(s)
  BY DEF BarHolds
<1>2. BarHolds(t) /\ Kept(bar, t)
  BY <1>1, Opened, KeptOn
<1>3. \/ B!Silent(t)
      \/ B!Ask(t)
      \/ B!Silent(B!RefreshResults(u))
  BY DEF B!OpenWith
<1> HIDE DEF t
<1>4. t \in BarStates /\ BarSeen(t)
  BY <1>2 DEF BarHolds
<1>5. u \in BarStates
  BY <1>4 DEF BarStates, B!Inputs
<1>6. Aside(t, u) /\ Kept(t, u)
  BY <1>4 DEF Aside, Kept, BarStates
<1> HIDE DEF u
<1>7. BarSeen(u)
  BY <1>4, <1>6 DEF BarSeen, Aside
<1>8. BarHolds(B!RefreshResults(u)) /\ Kept(bar, B!RefreshResults(u))
  BY <1>2, <1>5, <1>6, <1>7, Refreshed, KeptOn
<1> QED
  BY <1>2, <1>3, <1>8, SilentStep, AskStep

LEMMA MarkHolds ==
    ASSUME NEW s, BarHolds(s)
    PROVE  /\ BarHolds([s EXCEPT !.dirty = TRUE]) /\ Kept(s, [s EXCEPT !.dirty = TRUE])
           /\ Aside(s, [s EXCEPT !.dirty = TRUE]) /\ [s EXCEPT !.dirty = TRUE].dirty
<1> DEFINE t == [s EXCEPT !.dirty = TRUE]
<1>1. s \in BarStates /\ ResultsLive(s) /\ BarSeen(s)
  BY DEF BarHolds
<1>2. t \in BarStates /\ Kept(s, t) /\ Aside(s, t) /\ t.dirty
      /\ t.apps = s.apps /\ t.results = s.results /\ t.selected = s.selected
  BY <1>1 DEF BarStates, Kept, Aside
<1> HIDE DEF t
<1>3. Touched(s, t)
  BY <1>2 DEF Touched, Aside
<1>4. BarHolds(t)
  BY <1>1, <1>3, TouchedHolds
<1> QED
  BY <1>2, <1>4 DEF t

LEMMA Targeted ==
    ASSUME NEW s, BarHolds(s), NEW t \in B!TargetMindbar(s)
    PROVE  BarHolds(t) /\ Kept(s, t) /\ t.open = s.open /\ t.locked = s.locked
<1>1. s \in BarStates /\ ResultsLive(s) /\ PictureCurrent(s) /\ BarSeen(s)
  BY DEF BarHolds
<1>2. CASE t = s
  BY <1>2 DEF Kept
<1>3. CASE t # s
  <2>1. PICK o : t = [s EXCEPT !.output = o] /\ o \in BarScreens \cup {B!NoOutput}
                 /\ ~(s.open /\ s.output \in s.outputs)
    <3>1. ~(s.open /\ s.output \in s.outputs)
      BY <1>3 DEF B!TargetMindbar
    <3>2. t \in {[s EXCEPT !.output = o] : o \in IF s.outputs = {} THEN {B!NoOutput} ELSE s.outputs}
      BY <3>1 DEF B!TargetMindbar
    <3>3. s.outputs \subseteq BarScreens
      BY <1>1 DEF BarStates
    <3> QED
      BY <3>1, <3>2, <3>3
  <2>2. t \in BarStates
    BY <1>1, <2>1 DEF BarStates
  <2>3. /\ Kept(s, t) /\ t.open = s.open /\ t.locked = s.locked /\ t.outputs = s.outputs
        /\ t.unseen = s.unseen /\ t.osd = s.osd /\ t.since = s.since /\ t.last = s.last
        /\ t.apps = s.apps /\ t.results = s.results /\ t.selected = s.selected
        /\ t.panel = s.panel /\ t.dirty = s.dirty /\ t.input = s.input /\ t.lines = s.lines
        /\ t.streaming = s.streaming /\ t.pending = s.pending /\ t.connected = s.connected
        /\ t.ready = s.ready /\ t.busy = s.busy /\ t.tools = s.tools /\ t.accent = s.accent
    BY <1>1, <2>1 DEF BarStates, Kept
  <2>4. B!Content(t) = B!Content(s)
    BY <2>3 DEF B!Content
  <2>5. ResultsLive(t) /\ PictureCurrent(t)
    BY <1>1, <2>3, <2>4 DEF ResultsLive, PictureCurrent
  <2>6. BarSeen(t)
    BY <1>1, <2>1, <2>3 DEF BarSeen
  <2> QED
    BY <2>2, <2>3, <2>5, <2>6 DEF BarHolds
<1> QED
  BY <1>2, <1>3

LEMMA CloseHolds ==
    ASSUME NEW s, BarHolds(s)
    PROVE  BarHolds(B!CloseBar(s)) /\ Kept(s, B!CloseBar(s))
  BY Closed, TouchedHolds DEF BarHolds

LEMMA LaunchHolds ==
    ASSUME NEW s \in BarStates, BarSeen(s), ResultsLive(s)
    PROVE  BarHolds(B!LaunchSelected(s)) /\ Kept(s, B!LaunchSelected(s))
<1> DEFINE c == B!CloseBar(s)
           t == [c EXCEPT !.input = ""]
<1>1. Touched(s, c) /\ Kept(s, c)
  BY Closed
<1>2. B!LaunchSelected(s) = t
  BY DEF B!LaunchSelected
<1> HIDE DEF c
<1>3. c \in BarStates
  BY <1>1 DEF Touched
<1>4. t \in BarStates
  BY <1>3 DEF BarStates, B!Inputs
<1>5. Aside(c, t) /\ Kept(c, t) /\ t.apps = c.apps /\ t.results = c.results /\ t.selected = c.selected
      /\ t.dirty = c.dirty
  BY <1>3 DEF Aside, Kept, BarStates
<1> HIDE DEF t
<1>6. Touched(s, t) /\ Kept(s, t)
  BY <1>1, <1>4, <1>5 DEF Touched, Kept, Aside
<1> QED
  BY <1>2, <1>6, TouchedHolds

\* A refreshed list over another input or an empty conversation.
LEMMA RetypedHolds ==
    ASSUME NEW s, BarHolds(s), NEW i \in B!Inputs
    PROVE  BarHolds(B!RefreshResults([s EXCEPT !.input = i])) /\ Kept(s, B!RefreshResults([s EXCEPT !.input = i]))
<1> DEFINE t == [s EXCEPT !.input = i]
<1>1. s \in BarStates /\ BarSeen(s)
  BY DEF BarHolds
<1>2. t \in BarStates /\ Aside(s, t) /\ Kept(s, t)
  BY <1>1 DEF BarStates, Aside, Kept
<1> HIDE DEF t
<1>3. BarSeen(t)
  BY <1>1, <1>2 DEF BarSeen, Aside
<1> QED
  BY <1>2, <1>3, Refreshed, KeptOn DEF t

LEMMA ClearedHolds ==
    ASSUME NEW s, BarHolds(s)
    PROVE  LET t == B!RefreshResults([s EXCEPT !.lines = 0, !.streaming = FALSE])
           IN  BarHolds(t) /\ Kept(s, t)
<1> DEFINE t == [s EXCEPT !.lines = 0, !.streaming = FALSE]
<1>1. s \in BarStates /\ BarSeen(s)
  BY DEF BarHolds
<1>2. t \in BarStates /\ Aside(s, t) /\ Kept(s, t)
  BY <1>1 DEF BarStates, Aside, Kept
<1> HIDE DEF t
<1>3. BarSeen(t)
  BY <1>1, <1>2 DEF BarSeen, Aside
<1>4. BarHolds(B!RefreshResults(t)) /\ Kept(s, B!RefreshResults(t))
  BY <1>2, <1>3, Refreshed, KeptOn
<1> QED
  BY <1>4 DEF t

LEMMA PushHolds ==
    ASSUME NEW s, BarHolds(s)
    PROVE  BarHolds(B!Push(s)) /\ Kept(s, B!Push(s))
  BY Pushed, TouchedHolds DEF BarHolds

LEMMA FlushHolds ==
    ASSUME NEW s, BarHolds(s), s.dirty
    PROVE  BarHolds(B!FlushStreaming(s)) /\ Kept(s, B!FlushStreaming(s)) /\ B!FlushStreaming(s).dirty
  BY Flushed, TouchedHolds DEF BarHolds, Touched

\* One answer to the confirmation that is asked.
LEMMA AnswerStep ==
    ASSUME NEW s, BarHolds(s), Kept(bar, s), s.busy = bar.busy, NEW approve \in BOOLEAN, B!Answer(s, approve)
    PROVE  BarStep
<1> DEFINE p == B!Push(s)
           t == [p EXCEPT !.pending = B!NoCall]
           q == [type |-> IF approve THEN "confirm" ELSE "deny", id |-> s.pending]
<1>1. s \in BarStates /\ ResultsLive(s) /\ BarSeen(s)
  BY DEF BarHolds
<1>2. Touched(s, p) /\ Kept(s, p)
  BY <1>1, Pushed
<1>3. B!Tell(t, q)
  BY DEF B!Answer
<1>4. s.pending \in Nat
  BY <1>1 DEF BarStates
<1>5. q \in BarRequests /\ q.type \in {"confirm", "deny"} /\ q.id = bar.pending
  BY <1>4 DEF BarRequests, Kept
<1> HIDE DEF p, q
<1>6. p \in BarStates
  BY <1>2 DEF Touched
<1>7. t \in BarStates /\ Aside(p, t) /\ t.apps = p.apps /\ t.results = p.results /\ t.selected = p.selected
      /\ t.dirty = p.dirty /\ t.connected = p.connected /\ t.busy = p.busy
  BY <1>6 DEF BarStates, Aside, B!NoCall
<1> HIDE DEF t
<1>8. Touched(s, t)
  BY <1>2, <1>7 DEF Touched, Aside
<1>9. BarHolds(t) /\ t.connected = bar.connected /\ (t.busy => bar.busy)
  BY <1>1, <1>2, <1>7, <1>8, TouchedHolds DEF Kept
<1> QED
  BY <1>3, <1>5, <1>9, TellStep

LEMMA EscapeStep ==
    ASSUME NEW s, BarHolds(s), s.dirty, Kept(bar, s), B!Escape(s)
    PROVE  BarStep
<1> DEFINE r == [s EXCEPT !.busy = FALSE]
           t == B!Push(B!FlushStreaming(r))
           q == [type |-> "cancel", id |-> B!NoCall]
<1>1. s \in BarStates /\ ResultsLive(s) /\ BarSeen(s)
  BY DEF BarHolds
<1>2. r \in BarStates /\ Aside(s, r) /\ r.apps = s.apps /\ r.results = s.results /\ r.selected = s.selected
      /\ r.dirty /\ r.connected = s.connected /\ r.pending = s.pending /\ ~r.busy
  BY <1>1 DEF BarStates, Aside
<1>3. B!Silent(B!CloseBar(s)) \/ B!Tell(t, q)
  BY DEF B!Escape
<1>4. q \in BarRequests
  BY DEF BarRequests, B!NoCall
<1> HIDE DEF r, q
<1>5. BarHolds(r)
  BY <1>1, <1>2, TouchedHolds DEF Touched, Aside
<1>6. BarHolds(B!FlushStreaming(r)) /\ Kept(r, B!FlushStreaming(r))
  BY <1>2, <1>5, FlushHolds
<1>7. BarHolds(t) /\ Kept(r, t)
  BY <1>6, PushHolds, KeptOn
<1> HIDE DEF t
<1>8. t.connected = bar.connected /\ ~t.busy /\ t.pending = bar.pending
  BY <1>2, <1>7 DEF Kept
<1>9. BarHolds(B!CloseBar(s)) /\ Kept(bar, B!CloseBar(s))
  BY CloseHolds, KeptOn
<1> QED
  BY <1>3, <1>4, <1>7, <1>8, <1>9, TellStep, SilentStep

LEMMA EnterStep ==
    ASSUME NEW s, BarHolds(s), s.dirty, Kept(bar, s), NEW shift \in BOOLEAN, B!Enter(s, shift)
    PROVE  BarStep
<1>1. s \in BarStates /\ ResultsLive(s) /\ BarSeen(s)
  BY DEF BarHolds
<1> DEFINE r == B!RefreshResults([s EXCEPT !.input = ""])
           d == [s EXCEPT !.dirty = TRUE]
<1>2. \/ B!Silent(B!LaunchSelected(s))
      \/ B!Silent(d)
      \/ B!Silent(B!Push(r))
      \/ B!Ask(d)
  BY DEF B!Enter
<1>3. BarHolds(B!LaunchSelected(s)) /\ Kept(bar, B!LaunchSelected(s))
  BY <1>1, LaunchHolds, KeptOn
<1>4. BarHolds(d) /\ Kept(bar, d)
  BY MarkHolds, KeptOn
<1>5. BarHolds(r) /\ Kept(bar, r)
  BY RetypedHolds, KeptOn DEF B!Inputs
<1> HIDE DEF r, d
<1>6. BarHolds(B!Push(r)) /\ Kept(bar, B!Push(r))
  BY <1>5, PushHolds, KeptOn
<1> QED
  BY <1>2, <1>3, <1>4, <1>6, SilentStep, AskStep

LEMMA KeyStep ==
    ASSUME BarHolds(bar), NEW key, B!HandleKey(key)
    PROVE  BarStep
<1> DEFINE s == [bar EXCEPT !.dirty = TRUE]
<1>1. BarHolds(s) /\ Kept(bar, s) /\ s.dirty
  BY MarkHolds
<1>2. s.busy = bar.busy
  BY DEF BarHolds, BarStates
<1>3. \/ \E approve \in BOOLEAN : B!Answer(s, approve)
      \/ B!Silent(s)
      \/ B!Escape(s)
      \/ \E shift \in BOOLEAN : B!Enter(s, shift)
      \/ \E back \in BOOLEAN : B!Silent(B!Step(s, back))
      \/ B!Silent(B!Push(s))
      \/ B!Silent(B!RefreshResults([s EXCEPT !.lines = 0, !.streaming = FALSE]))
      \/ \E i \in B!Inputs : B!Silent(B!RefreshResults([s EXCEPT !.input = i]))
  BY DEF B!HandleKey
<1> HIDE DEF s
<1>4. ASSUME NEW approve \in BOOLEAN, B!Answer(s, approve) PROVE BarStep
  BY <1>1, <1>2, <1>4, AnswerStep
<1>5. ASSUME B!Silent(s) PROVE BarStep
  BY <1>1, <1>5, SilentStep
<1>6. ASSUME B!Escape(s) PROVE BarStep
  BY <1>1, <1>6, EscapeStep
<1>7. ASSUME NEW shift \in BOOLEAN, B!Enter(s, shift) PROVE BarStep
  BY <1>1, <1>7, EnterStep
<1>8. ASSUME NEW back \in BOOLEAN, B!Silent(B!Step(s, back)) PROVE BarStep
  BY <1>1, <1>8, Stepped, KeptOn, SilentStep
<1>9. ASSUME B!Silent(B!Push(s)) PROVE BarStep
  BY <1>1, <1>9, PushHolds, KeptOn, SilentStep
<1>10. ASSUME B!Silent(B!RefreshResults([s EXCEPT !.lines = 0, !.streaming = FALSE])) PROVE BarStep
  BY <1>1, <1>10, ClearedHolds, KeptOn, SilentStep
<1>11. ASSUME NEW i \in B!Inputs, B!Silent(B!RefreshResults([s EXCEPT !.input = i])) PROVE BarStep
  BY <1>1, <1>11, RetypedHolds, KeptOn, SilentStep
<1> QED
  BY <1>3, <1>4, <1>5, <1>6, <1>7, <1>8, <1>9, <1>10, <1>11

LEMMA RequestStep ==
    ASSUME BarHolds(bar), NEW action, NEW ask, B!MindbarRequest(action, ask)
    PROVE  BarStep
<1>1. PICK s \in B!TargetMindbar(bar) :
         B!Silent(B!CloseBar(s)) \/ B!Silent(B!OpenBar(s)) \/ B!OpenWith(s, ask)
  BY DEF B!MindbarRequest
<1>2. BarHolds(s) /\ Kept(bar, s) /\ ~s.locked
  BY Targeted DEF B!MindbarRequest
<1>3. BarHolds(B!CloseBar(s)) /\ Kept(bar, B!CloseBar(s))
  BY <1>2, CloseHolds, KeptOn
<1>4. BarHolds(B!OpenBar(s)) /\ Kept(bar, B!OpenBar(s))
  BY <1>2, Opened, KeptOn DEF BarHolds
<1> QED
  BY <1>1, <1>2, <1>3, <1>4, SilentStep, OpenWithStep

-----------------------------------------------------------------------------
(* The other steps of the scenes. *)

LEMMA ClickStep ==
    ASSUME BarHolds(bar), NEW o, NEW what, NEW row \in Nat, row >= 1, B!Click(o, what, row)
    PROVE  BarStep
<1> DEFINE d == [bar EXCEPT !.dirty = TRUE]
           r == [bar EXCEPT !.selected = row]
<1>1. bar \in BarStates /\ ResultsLive(bar) /\ BarSeen(bar)
  BY DEF BarHolds
<1>2. \/ B!Silent(bar)
      \/ B!Silent(B!CloseBar(bar))
      \/ B!Silent(d)
      \/ B!Silent(B!LaunchSelected(r)) /\ row <= Len(bar.results)
  BY DEF B!Click
<1>3. BarHolds(d) /\ Kept(bar, d)
  BY MarkHolds
<1>4. Kept(bar, bar)
  BY DEF Kept
<1>5. BarHolds(B!CloseBar(bar)) /\ Kept(bar, B!CloseBar(bar))
  BY CloseHolds
<1>6. ASSUME B!Silent(B!LaunchSelected(r)), row <= Len(bar.results) PROVE BarStep
  <2>1. r \in BarStates /\ Aside(bar, r) /\ Kept(bar, r) /\ r.apps = bar.apps /\ r.results = bar.results
        /\ r.selected = row
    BY <1>1 DEF BarStates, Aside, Kept
  <2>2. row \in DOMAIN bar.results
    <3>1. bar.results \in Seq(Nat)
      BY <1>1 DEF BarStates
    <3> QED
      BY <1>6, <3>1
  <2> HIDE DEF r
  <2>3. ResultsLive(r) /\ BarSeen(r)
    BY <1>1, <2>1, <2>2 DEF ResultsLive, BarSeen, Aside
  <2> QED
    BY <1>6, <2>1, <2>3, LaunchHolds, KeptOn, SilentStep
<1> QED
  BY <1>2, <1>3, <1>4, <1>5, <1>6, SilentStep

\* A frame keeps a picture of the bar as it is.
LEMMA FrameStep ==
    ASSUME BarHolds(bar), NEW o \in BarScreens, NEW up \in BOOLEAN, NEW over, B!Frame(o, up, over)
    PROVE  BarStep
<1> DEFINE a == [bar EXCEPT !.osd = @ /\ ~over]
           r == B!RenderElement(a, o)
           t == B!BackdropElements(r, o, up)
<1>1. bar \in BarStates /\ ResultsLive(bar) /\ PictureCurrent(bar) /\ BarSeen(bar)
  BY DEF BarHolds
<1>2. B!Silent(t)
  BY DEF B!Frame, B!Silent
<1>3. PICK x \in BOOLEAN : a = [bar EXCEPT !.osd = x] /\ (x => bar.osd)
  <2>1. bar.osd \in BOOLEAN
    BY <1>1 DEF BarStates
  <2> QED
    BY <2>1
<1> HIDE DEF a
<1>4. a \in BarStates
  BY <1>1, <1>3 DEF BarStates
<1>5. /\ Kept(bar, a) /\ a.open = bar.open /\ a.output = bar.output /\ a.outputs = bar.outputs
      /\ a.locked = bar.locked /\ a.unseen = bar.unseen /\ a.since = bar.since /\ a.last = bar.last
      /\ a.osd = x /\ a.apps = bar.apps /\ a.results = bar.results /\ a.selected = bar.selected
      /\ a.panel = bar.panel /\ a.dirty = bar.dirty
  BY <1>1, <1>3 DEF BarStates, Kept
<1>6. B!Content(a) = B!Content(bar)
  BY <1>1, <1>3 DEF BarStates, B!Content
<1>7. ResultsLive(a) /\ PictureCurrent(a) /\ BarSeen(a)
  BY <1>1, <1>3, <1>5, <1>6 DEF ResultsLive, PictureCurrent, BarSeen
<1>8. BarHolds(r) /\ Kept(a, r)
  <2>1. CASE r = a
    BY <1>4, <1>7, <2>1 DEF BarHolds, Kept
  <2>2. CASE r # a
    <3>1. r = [a EXCEPT !.panel = B!Content(a), !.dirty = FALSE]
      BY <2>2 DEF B!RenderElement
    <3>2. B!Content(a) \in BarPictures
      BY <1>4, <1>7, ContentTyped
    <3> HIDE DEF r
    <3>3. r \in BarStates
      BY <1>4, <3>1, <3>2 DEF BarStates
    <3>4. /\ Kept(a, r) /\ Aside(a, r) /\ r.apps = a.apps /\ r.results = a.results /\ r.selected = a.selected
          /\ r.panel = B!Content(a)
      BY <1>4, <3>1 DEF BarStates, Kept, Aside
    <3>5. B!Content(r) = B!Content(a)
      BY <1>4, <3>1 DEF BarStates, B!Content
    <3> QED
      BY <1>7, <3>3, <3>4, <3>5 DEF BarHolds, ResultsLive, PictureCurrent, BarSeen, Aside
  <2> QED
    BY <2>1, <2>2
<1> HIDE DEF r
<1>9. r \in BarStates /\ ResultsLive(r) /\ PictureCurrent(r) /\ BarSeen(r)
  BY <1>8 DEF BarHolds
<1>10. PICK l \in [BarScreens -> {"none", "startup", "desktop"}] :
          t = [r EXCEPT !.since = ~up, !.last = l] /\ l[o] = IF up THEN "desktop" ELSE "startup"
  <2>1. r.last \in [BarScreens -> {"none", "startup", "desktop"}]
    BY <1>9 DEF BarStates
  <2> DEFINE l == [r.last EXCEPT ![o] = IF up THEN "desktop" ELSE "startup"]
  <2>2. l \in [BarScreens -> {"none", "startup", "desktop"}] /\ l[o] = IF up THEN "desktop" ELSE "startup"
    BY <2>1
  <2>3. t = [r EXCEPT !.since = ~up, !.last = l]
    BY DEF B!BackdropElements
  <2> QED
    BY <2>2, <2>3
<1> HIDE DEF t
<1>11. t \in BarStates
  BY <1>9, <1>10 DEF BarStates
<1>12. /\ Kept(r, t) /\ t.open = r.open /\ t.output = r.output /\ t.outputs = r.outputs
       /\ t.locked = r.locked /\ t.unseen = r.unseen /\ t.osd = r.osd
       /\ t.since = ~up /\ t.last = l /\ t.apps = r.apps /\ t.results = r.results /\ t.selected = r.selected
       /\ t.panel = r.panel /\ t.dirty = r.dirty
  BY <1>9, <1>10 DEF BarStates, Kept
<1>13. B!Content(t) = B!Content(r)
  BY <1>9, <1>10 DEF BarStates, B!Content
<1>14. BarHolds(t)
  BY <1>9, <1>10, <1>11, <1>12, <1>13 DEF BarHolds, ResultsLive, PictureCurrent, BarSeen
<1> QED
  BY <1>2, <1>5, <1>8, <1>12, <1>14, KeptOn, SilentStep

LEMMA AppsStep ==
    ASSUME BarHolds(bar), NEW apps \in AppLists, B!Silent(B!SetApps(bar, apps))
    PROVE  BarStep
<1> DEFINE t == [bar EXCEPT !.apps = apps]
<1>1. bar \in BarStates /\ BarSeen(bar) /\ apps \in Seq(BarApps)
  BY BarAssumption DEF BarHolds, BarApps
<1>2. t \in BarStates /\ Aside(bar, t) /\ Kept(bar, t)
  BY <1>1 DEF BarStates, Aside, Kept
<1>3. B!SetApps(bar, apps) = B!RefreshResults(t)
  BY DEF B!SetApps
<1> HIDE DEF t
<1>4. BarSeen(t)
  BY <1>1, <1>2 DEF BarSeen, Aside
<1> QED
  BY <1>2, <1>3, <1>4, Refreshed, KeptOn, SilentStep

\* What the compositor does to the bar without being asked.
LEMMA RestyledHolds ==
    ASSUME NEW s, BarHolds(s), NEW x \in BOOLEAN, NEW y \in {1, 2}
    PROVE  /\ BarHolds(B!InvalidateGraphics(s)) /\ Kept(s, B!InvalidateGraphics(s))
           /\ BarHolds(B!SetShowTools(s, x)) /\ Kept(s, B!SetShowTools(s, x))
           /\ BarHolds(B!SetAccent(s, y)) /\ Kept(s, B!SetAccent(s, y))
<1>1. s \in BarStates /\ ResultsLive(s) /\ PictureCurrent(s) /\ BarSeen(s) /\ Kept(s, s)
  BY DEF BarHolds, Kept
<1>2. BarHolds(B!InvalidateGraphics(s)) /\ Kept(s, B!InvalidateGraphics(s))
  <2> DEFINE t == B!InvalidateGraphics(s)
  <2>1. t = [s EXCEPT !.panel = B!NoPanel, !.osd = FALSE, !.dirty = TRUE]
    BY DEF B!InvalidateGraphics
  <2> HIDE DEF t
  <2>2. B!NoPanel \in BarPictures
    BY DEF BarPictures
  <2>3. t \in BarStates
    BY <1>1, <2>1, <2>2 DEF BarStates
  <2>4. /\ Kept(s, t) /\ t.open = s.open /\ t.output = s.output /\ t.outputs = s.outputs
        /\ t.locked = s.locked /\ t.unseen = s.unseen /\ ~t.osd /\ t.since = s.since /\ t.last = s.last
        /\ t.apps = s.apps /\ t.results = s.results /\ t.selected = s.selected /\ t.dirty
    BY <1>1, <2>1 DEF BarStates, Kept
  <2> QED
    BY <1>1, <2>3, <2>4 DEF BarHolds, ResultsLive, PictureCurrent, BarSeen, t
<1>3. ASSUME NEW t, t \in {[s EXCEPT !.tools = x, !.dirty = TRUE], [s EXCEPT !.accent = y, !.dirty = TRUE]}
      PROVE  BarHolds(t) /\ Kept(s, t)
  <2>1. t \in BarStates
    <3>1. CASE t = [s EXCEPT !.tools = x, !.dirty = TRUE]
      BY <1>1, <3>1 DEF BarStates
    <3>2. CASE t = [s EXCEPT !.accent = y, !.dirty = TRUE]
      BY <1>1, <3>2 DEF BarStates
    <3> QED
      BY <1>3, <3>1, <3>2
  <2>2. /\ Kept(s, t) /\ Aside(s, t)
        /\ t.apps = s.apps /\ t.results = s.results /\ t.selected = s.selected /\ t.dirty
    BY <1>1, <1>3 DEF BarStates, Kept, Aside
  <2>3. Touched(s, t)
    BY <2>1, <2>2 DEF Touched, Aside
  <2> QED
    BY <1>1, <2>2, <2>3, TouchedHolds
<1>4. BarHolds(B!SetShowTools(s, x)) /\ Kept(s, B!SetShowTools(s, x))
  BY <1>1, <1>3 DEF B!SetShowTools
<1>5. BarHolds(B!SetAccent(s, y)) /\ Kept(s, B!SetAccent(s, y))
  BY <1>1, <1>3 DEF B!SetAccent
<1> QED
  BY <1>2, <1>4, <1>5

\* The lock, the feedback card and the screens.
LEMMA ScreensStep ==
    ASSUME BarHolds(bar),
           \/ B!ToggleMindBar \/ B!ShowOsd \/ B!LockSession \/ B!UnlockSession
           \/ \E o \in BarScreens : B!Unplug(o) \/ B!Plug(o)
    PROVE  BarStep
<1>1. bar \in BarStates /\ ResultsLive(bar) /\ PictureCurrent(bar) /\ BarSeen(bar)
  BY DEF BarHolds
<1>2. CASE B!ToggleMindBar
  <2>1. PICK s \in B!TargetMindbar(bar) : B!Silent(B!ToggleBar(s))
    BY <1>2 DEF B!ToggleMindBar
  <2>2. BarHolds(s) /\ Kept(bar, s) /\ ~s.locked
    BY <1>2, Targeted DEF B!ToggleMindBar
  <2>3. BarHolds(B!CloseBar(s)) /\ Kept(bar, B!CloseBar(s))
    BY <2>2, CloseHolds, KeptOn
  <2>4. BarHolds(B!OpenBar(s)) /\ Kept(bar, B!OpenBar(s))
    BY <2>2, Opened, KeptOn DEF BarHolds
  <2> QED
    BY <2>1, <2>3, <2>4, SilentStep DEF B!ToggleBar
<1>3. ASSUME NEW t, t \in BarStates, Kept(bar, t), B!Silent(t), t.apps = bar.apps, t.results = bar.results,
             t.selected = bar.selected, t.panel = bar.panel, t.dirty = bar.dirty,
             B!Content(t) = B!Content(bar), BarSeen(t)
      PROVE  BarStep
  <2>1. BarHolds(t)
    BY <1>1, <1>3 DEF BarHolds, ResultsLive, PictureCurrent
  <2> QED
    BY <1>3, <2>1, SilentStep
<1>4. CASE B!ShowOsd
  <2> DEFINE t == [bar EXCEPT !.osd = TRUE]
  <2>1. B!Silent(t) /\ ~bar.locked
    BY <1>4 DEF B!ShowOsd
  <2>2. t \in BarStates /\ Kept(bar, t) /\ t.apps = bar.apps /\ t.results = bar.results
        /\ t.selected = bar.selected /\ t.panel = bar.panel /\ t.dirty = bar.dirty
    BY <1>1 DEF BarStates, Kept
  <2>3. B!Content(t) = B!Content(bar)
    BY <1>1 DEF BarStates, B!Content
  <2>4. BarSeen(t)
    BY <1>1, <2>1 DEF BarSeen, BarStates
  <2> QED
    BY <1>3, <2>1, <2>2, <2>3, <2>4
<1>5. CASE B!UnlockSession
  <2> DEFINE t == [bar EXCEPT !.locked = FALSE]
  <2>1. B!Silent(t)
    BY <1>5 DEF B!UnlockSession
  <2>2. t \in BarStates /\ Kept(bar, t) /\ t.apps = bar.apps /\ t.results = bar.results
        /\ t.selected = bar.selected /\ t.panel = bar.panel /\ t.dirty = bar.dirty
    BY <1>1 DEF BarStates, Kept
  <2>3. B!Content(t) = B!Content(bar)
    BY <1>1 DEF BarStates, B!Content
  <2>4. BarSeen(t)
    BY <1>1 DEF BarSeen, BarStates
  <2> QED
    BY <1>3, <2>1, <2>2, <2>3, <2>4
<1>6. ASSUME NEW o \in BarScreens, B!Plug(o) PROVE BarStep
  <2> DEFINE t == [bar EXCEPT !.outputs = @ \cup {o}]
  <2>1. B!Silent(t)
    BY <1>6 DEF B!Plug
  <2>2. t \in BarStates /\ Kept(bar, t) /\ t.apps = bar.apps /\ t.results = bar.results
        /\ t.selected = bar.selected /\ t.panel = bar.panel /\ t.dirty = bar.dirty
    BY <1>1 DEF BarStates, Kept
  <2>3. B!Content(t) = B!Content(bar)
    BY <1>1 DEF BarStates, B!Content
  <2>4. BarSeen(t)
    BY <1>1 DEF BarSeen, BarStates
  <2> QED
    BY <1>3, <2>1, <2>2, <2>3, <2>4
<1>7. CASE B!LockSession
  <2> DEFINE c == B!CloseBar(bar)
             t == [c EXCEPT !.locked = TRUE, !.osd = FALSE]
  <2>1. Touched(bar, c) /\ Kept(bar, c) /\ ~c.open
    BY <1>1, Closed
  <2>2. B!Silent(t)
    BY <1>7 DEF B!LockSession
  <2> HIDE DEF c
  <2>3. c \in BarStates
    BY <2>1 DEF Touched
  <2>4. /\ t \in BarStates /\ Kept(c, t) /\ t.apps = c.apps /\ t.results = c.results
        /\ t.selected = c.selected /\ t.dirty = c.dirty /\ t.open = c.open /\ ~t.osd
        /\ t.since = c.since /\ t.last = c.last
    BY <2>3 DEF BarStates, Kept
  <2> HIDE DEF t
  <2>5. BarHolds(t)
    BY <1>1, <2>1, <2>4 DEF BarHolds, Touched, ResultsLive, PictureCurrent, BarSeen
  <2> QED
    BY <2>1, <2>2, <2>4, <2>5, KeptOn, SilentStep
<1>8. ASSUME NEW o \in BarScreens, B!Unplug(o) PROVE BarStep
  <2> DEFINE s == [bar EXCEPT !.outputs = @ \ {o}]
             c == B!CloseBar(s)
             t == [c EXCEPT !.output = B!NoOutput]
  <2>1. IF s.output = o THEN B!Silent(t) ELSE B!Silent(s)
    BY <1>8 DEF B!Unplug
  <2>2. s \in BarStates /\ Kept(bar, s) /\ s.apps = bar.apps /\ s.results = bar.results
        /\ s.selected = bar.selected /\ s.panel = bar.panel /\ s.dirty = bar.dirty
        /\ s.since = bar.since /\ s.last = bar.last /\ s.locked = bar.locked /\ s.osd = bar.osd
        /\ s.open = bar.open /\ s.output = bar.output /\ s.unseen = bar.unseen
        /\ s.outputs = bar.outputs \ {o}
    BY <1>1 DEF BarStates, Kept
  <2>3. B!Content(s) = B!Content(bar)
    BY <1>1 DEF BarStates, B!Content
  <2> HIDE DEF s
  <2>4. CASE s.output # o
    <3>1. BarSeen(s)
      BY <1>1, <2>2, <2>4 DEF BarSeen
    <3> QED
      BY <1>3, <2>1, <2>2, <2>3, <2>4, <3>1
  <2>5. CASE s.output = o
    <3>1. Touched(s, c) /\ Kept(s, c) /\ ~c.open
      BY <2>2, Closed
    <3> HIDE DEF c
    <3>2. c \in BarStates
      BY <3>1 DEF Touched
    <3>3. /\ t \in BarStates /\ Kept(c, t) /\ t.apps = c.apps /\ t.results = c.results
          /\ t.selected = c.selected /\ t.dirty = c.dirty /\ t.open = c.open /\ t.osd = c.osd
          /\ t.since = c.since /\ t.last = c.last /\ t.locked = c.locked
      BY <3>2 DEF BarStates, Kept
    <3> HIDE DEF t
    <3>4. BarHolds(t)
      BY <1>1, <2>2, <3>1, <3>3 DEF BarHolds, Touched, ResultsLive, PictureCurrent, BarSeen
    <3> QED
      BY <2>1, <2>2, <2>5, <3>1, <3>3, <3>4, KeptOn, SilentStep
  <2> QED
    BY <2>4, <2>5
<1> QED
  BY <1>2, <1>4, <1>5, <1>6, <1>7, <1>8

\* An event of the daemon, whatever it says.
LEMMA EventHolds ==
    ASSUME NEW s, BarHolds(s), NEW e, e.id \in Nat
    PROVE  /\ BarHolds(B!OnMindEvent(s, e))
           /\ B!OnMindEvent(s, e).connected =
                IF e.type = "connected" THEN TRUE ELSE IF e.type \in Offs THEN FALSE ELSE s.connected
           /\ B!OnMindEvent(s, e).busy => s.busy
           /\ e.type \in EndTypes => ~B!OnMindEvent(s, e).busy
           /\ B!OnMindEvent(s, e).pending = IF e.type = "tool_call" THEN e.id ELSE s.pending
<1> DEFINE d == [s EXCEPT !.dirty = TRUE]
           t == B!OnMindEvent(s, e)
           f == B!FlushStreaming(d)
           p == B!Push(f)
           g == [d EXCEPT !.streaming = TRUE]
           h == B!FlushStreaming(g)
<1>1. BarHolds(d) /\ Kept(s, d) /\ d.dirty
  BY MarkHolds
<1>2. d \in BarStates /\ ResultsLive(d) /\ BarSeen(d) /\ d.busy = s.busy
  BY <1>1 DEF BarHolds, BarStates
<1>3. \/ e.type = "connected" /\ t = [d EXCEPT !.connected = TRUE]
      \/ e.type \in Offs /\ t = [d EXCEPT !.connected = FALSE, !.ready = FALSE, !.busy = FALSE]
      \/ e.type = "welcome" /\ t = [d EXCEPT !.ready = TRUE]
      \/ e.type = "delta" /\ t = [d EXCEPT !.streaming = TRUE]
      \/ e.type = "tool_call" /\ t = [p EXCEPT !.pending = e.id]
      \/ e.type \in {"tool_result", "client_tool"} /\ t = B!Push(d)
      \/ e.type = "done" /\ t = [h EXCEPT !.busy = FALSE]
      \/ /\ e.type \notin Offs \cup {"connected", "welcome", "delta", "tool_call", "tool_result", "client_tool", "done"}
         /\ t = [p EXCEPT !.busy = FALSE]
  BY DEF B!OnMindEvent, Offs
<1> HIDE DEF d, t
\* What the change of one field leaves.
<1>4. ASSUME NEW u, BarHolds(u), u.dirty
      PROVE  LET v == [u EXCEPT !.connected = TRUE]
                 w == [u EXCEPT !.connected = FALSE, !.ready = FALSE, !.busy = FALSE]
                 y == [u EXCEPT !.busy = FALSE]
             IN  /\ BarHolds(v) /\ v.connected /\ v.busy = u.busy /\ v.pending = u.pending
                 /\ BarHolds(w) /\ ~w.connected /\ ~w.busy /\ w.pending = u.pending
                 /\ BarHolds(y) /\ y.connected = u.connected /\ ~y.busy /\ y.pending = u.pending
  <2> DEFINE v == [u EXCEPT !.connected = TRUE]
             w == [u EXCEPT !.connected = FALSE, !.ready = FALSE, !.busy = FALSE]
             y == [u EXCEPT !.busy = FALSE]
  <2>1. u \in BarStates /\ ResultsLive(u) /\ BarSeen(u)
    BY <1>4 DEF BarHolds
  <2>2. v \in BarStates /\ w \in BarStates /\ y \in BarStates
    BY <2>1 DEF BarStates
  <2>3. /\ v.connected /\ v.busy = u.busy /\ v.pending = u.pending
        /\ Aside(u, v) /\ v.apps = u.apps /\ v.results = u.results /\ v.selected = u.selected /\ v.dirty
    BY <1>4, <2>1 DEF BarStates, Aside
  <2>4. /\ ~w.connected /\ ~w.busy /\ w.pending = u.pending
        /\ Aside(u, w) /\ w.apps = u.apps /\ w.results = u.results /\ w.selected = u.selected /\ w.dirty
    BY <1>4, <2>1 DEF BarStates, Aside
  <2>5. /\ y.connected = u.connected /\ ~y.busy /\ y.pending = u.pending
        /\ Aside(u, y) /\ y.apps = u.apps /\ y.results = u.results /\ y.selected = u.selected /\ y.dirty
    BY <1>4, <2>1 DEF BarStates, Aside
  <2> HIDE DEF v, w, y
  <2>6. BarHolds(v) /\ BarHolds(w) /\ BarHolds(y)
    BY <2>1, <2>2, <2>3, <2>4, <2>5, TouchedHolds DEF Touched, Aside
  <2> QED
    BY <2>3, <2>4, <2>5, <2>6 DEF v, w, y
<1>5. ASSUME NEW u, BarHolds(u), u.dirty
      PROVE  LET v == [u EXCEPT !.ready = TRUE]
                 w == [u EXCEPT !.streaming = TRUE]
                 y == [u EXCEPT !.pending = e.id]
             IN  /\ BarHolds(v) /\ v.connected = u.connected /\ v.busy = u.busy /\ v.pending = u.pending
                 /\ BarHolds(w) /\ w.connected = u.connected /\ w.busy = u.busy /\ w.pending = u.pending
                 /\ w.dirty
                 /\ BarHolds(y) /\ y.connected = u.connected /\ y.busy = u.busy /\ y.pending = e.id
  <2> DEFINE v == [u EXCEPT !.ready = TRUE]
             w == [u EXCEPT !.streaming = TRUE]
             y == [u EXCEPT !.pending = e.id]
  <2>1. u \in BarStates /\ ResultsLive(u) /\ BarSeen(u)
    BY <1>5 DEF BarHolds
  <2>2. v \in BarStates /\ w \in BarStates /\ y \in BarStates
    BY <2>1 DEF BarStates
  <2>3. /\ v.connected = u.connected /\ v.busy = u.busy /\ v.pending = u.pending
        /\ Aside(u, v) /\ v.apps = u.apps /\ v.results = u.results /\ v.selected = u.selected /\ v.dirty
    BY <1>5, <2>1 DEF BarStates, Aside
  <2>4. /\ w.connected = u.connected /\ w.busy = u.busy /\ w.pending = u.pending
        /\ Aside(u, w) /\ w.apps = u.apps /\ w.results = u.results /\ w.selected = u.selected /\ w.dirty
    BY <1>5, <2>1 DEF BarStates, Aside
  <2>5. /\ y.connected = u.connected /\ y.busy = u.busy /\ y.pending = e.id
        /\ Aside(u, y) /\ y.apps = u.apps /\ y.results = u.results /\ y.selected = u.selected /\ y.dirty
    BY <1>5, <2>1 DEF BarStates, Aside
  <2> HIDE DEF v, w, y
  <2>6. BarHolds(v) /\ BarHolds(w) /\ BarHolds(y)
    BY <2>1, <2>2, <2>3, <2>4, <2>5, TouchedHolds DEF Touched, Aside
  <2> QED
    BY <2>3, <2>4, <2>5, <2>6 DEF v, w, y
<1>6. BarHolds(f) /\ Kept(d, f) /\ f.dirty
  BY <1>1, FlushHolds
<1>7. BarHolds(p) /\ Kept(d, p) /\ p.dirty
  <2> HIDE DEF f
  <2>1. BarHolds(p) /\ Kept(d, p)
    BY <1>6, PushHolds, KeptOn
  <2>2. p.dirty
    BY <1>6, Pushed DEF Touched, BarHolds
  <2> QED
    BY <2>1, <2>2
<1>8. BarHolds(g) /\ g.dirty /\ g.connected = d.connected /\ g.busy = d.busy /\ g.pending = d.pending
  BY <1>1, <1>5
<1>9. BarHolds(h) /\ Kept(g, h) /\ h.dirty
  <2> HIDE DEF g
  <2> QED
    BY <1>8, FlushHolds
<1>10. BarHolds(B!Push(d)) /\ Kept(d, B!Push(d))
  BY <1>1, PushHolds
<1> HIDE DEF p, h, f, g
<1>11. CASE e.type = "connected" /\ t = [d EXCEPT !.connected = TRUE]
  <2>1. BarHolds(t) /\ t.pending = d.pending /\ t.connected /\ t.busy = d.busy
    BY <1>1, <1>4, <1>11
  <2>2. t.connected \in BOOLEAN
    BY <2>1 DEF BarHolds, BarStates
  <2> QED
    BY <1>1, <1>2, <1>11, <2>1, <2>2 DEF t, Kept, Offs, EndTypes
<1>12. CASE e.type \in Offs /\ t = [d EXCEPT !.connected = FALSE, !.ready = FALSE, !.busy = FALSE]
  <2>1. BarHolds(t) /\ t.pending = d.pending /\ ~t.connected /\ ~t.busy
    BY <1>1, <1>4, <1>12
  <2>2. t.connected \in BOOLEAN
    BY <2>1 DEF BarHolds, BarStates
  <2> QED
    BY <1>1, <1>2, <1>12, <2>1, <2>2 DEF t, Kept, Offs, EndTypes
<1>13. CASE e.type = "welcome" /\ t = [d EXCEPT !.ready = TRUE]
  BY <1>1, <1>2, <1>5, <1>13 DEF t, Kept, Offs, EndTypes
<1>14. CASE e.type = "delta" /\ t = [d EXCEPT !.streaming = TRUE]
  BY <1>1, <1>2, <1>5, <1>14 DEF t, Kept, Offs, EndTypes
<1>15. CASE e.type = "tool_call" /\ t = [p EXCEPT !.pending = e.id]
  <2>1. BarHolds(t) /\ t.connected = p.connected /\ t.busy = p.busy /\ t.pending = e.id
    BY <1>5, <1>7, <1>15
  <2> QED
    BY <1>1, <1>2, <1>7, <1>15, <2>1 DEF t, Kept, Offs, EndTypes
<1>16. CASE e.type \in {"tool_result", "client_tool"} /\ t = B!Push(d)
  BY <1>1, <1>2, <1>10, <1>16 DEF t, Kept, Offs, EndTypes
<1>17. CASE e.type = "done" /\ t = [h EXCEPT !.busy = FALSE]
  <2>1. BarHolds(t) /\ t.connected = h.connected /\ ~t.busy /\ t.pending = h.pending
    BY <1>4, <1>9, <1>17
  <2> QED
    BY <1>1, <1>2, <1>8, <1>9, <1>17, <2>1 DEF t, Kept, Offs, EndTypes
<1>18. CASE /\ e.type \notin Offs \cup {"connected", "welcome", "delta", "tool_call", "tool_result", "client_tool", "done"}
            /\ t = [p EXCEPT !.busy = FALSE]
  <2>1. BarHolds(t) /\ t.connected = p.connected /\ ~t.busy /\ t.pending = p.pending
    BY <1>4, <1>7, <1>18
  <2> QED
    BY <1>1, <1>2, <1>7, <1>18, <2>1 DEF t, Kept, Offs, EndTypes
<1> QED
  BY <1>3, <1>11, <1>12, <1>13, <1>14, <1>15, <1>16, <1>17, <1>18

-----------------------------------------------------------------------------
(* Queues that grow at their end and are taken from their front. *)

LEMMA Grown ==
    ASSUME NEW T, NEW q \in Seq(T), NEW x
    PROVE  /\ DOMAIN Append(q, x) = DOMAIN q \cup {Len(q) + 1}
           /\ Append(q, x)[Len(q) + 1] = x
           /\ \A i \in DOMAIN q : Append(q, x)[i] = q[i] /\ i < Len(q) + 1 /\ i \in Int
           /\ Len(q) \in Int
  OBVIOUS

LEMMA Taken ==
    ASSUME NEW T, NEW q \in Seq(T), q # <<>>
    PROVE  /\ Tail(q) \in Seq(T) /\ Head(q) = q[1] /\ 1 \in DOMAIN q /\ Head(q) \in T
           /\ \A i \in DOMAIN Tail(q) : i \in Int /\ i + 1 \in DOMAIN q /\ Tail(q)[i] = q[i + 1]
           /\ \A i \in DOMAIN q : i = 1 \/ (i \in Int /\ i > 1 /\ i - 1 \in DOMAIN Tail(q) /\ Tail(q)[i - 1] = q[i])
<1>1. Len(q) \in Nat /\ Len(q) > 0 /\ DOMAIN q = 1..Len(q)
  OBVIOUS
<1>2. Tail(q) \in Seq(T) /\ DOMAIN Tail(q) = 1..(Len(q) - 1)
  BY <1>1
<1>3. \A i \in 1..(Len(q) - 1) : Tail(q)[i] = q[i + 1]
  BY <1>1
<1>4. Head(q) = q[1] /\ 1 \in DOMAIN q /\ Head(q) \in T
  BY <1>1
<1>5. ASSUME NEW i \in DOMAIN q, i # 1 PROVE i > 1 /\ i - 1 \in DOMAIN Tail(q) /\ Tail(q)[i - 1] = q[i]
  <2>1. i - 1 \in 1..(Len(q) - 1) /\ (i - 1) + 1 = i /\ i > 1
    BY <1>1, <1>5
  <2> QED
    BY <1>2, <1>3, <2>1
<1> QED
  BY <1>1, <1>2, <1>3, <1>4, <1>5

LEMMA NothingInNone ==
    ASSUME NEW types, NEW call
    PROVE  ~Has(<<>>, types) /\ ~HasCall(<<>>, types, call) /\ ~LastAsks(<<>>, call)
  BY DEF Has, HasCall, LastAsks

LEMMA HasGrown ==
    ASSUME NEW T, NEW q \in Seq(T), NEW x, NEW types
    PROVE  Has(Append(q, x), types) <=> Has(q, types) \/ x.type \in types
<1> DEFINE t == Append(q, x)
<1>1. /\ DOMAIN t = DOMAIN q \cup {Len(q) + 1} /\ t[Len(q) + 1] = x
      /\ \A i \in DOMAIN q : t[i] = q[i]
  BY Grown
<1> HIDE DEF t
<1>2. Has(t, types) <=> Has(q, types) \/ x.type \in types
  BY <1>1 DEF Has
<1> QED
  BY <1>2 DEF t

LEMMA HasCallGrown ==
    ASSUME NEW T, NEW q \in Seq(T), NEW x, NEW types, NEW call
    PROVE  HasCall(Append(q, x), types, call) <=> HasCall(q, types, call) \/ (x.type \in types /\ x.id = call)
<1> DEFINE t == Append(q, x)
<1>1. /\ DOMAIN t = DOMAIN q \cup {Len(q) + 1} /\ t[Len(q) + 1] = x
      /\ \A i \in DOMAIN q : t[i] = q[i]
  BY Grown
<1> HIDE DEF t
<1>2. HasCall(t, types, call) <=> HasCall(q, types, call) \/ (x.type \in types /\ x.id = call)
  BY <1>1 DEF HasCall
<1> QED
  BY <1>2 DEF t

LEMMA HasTaken ==
    ASSUME NEW T, NEW q \in Seq(T), q # <<>>, NEW types
    PROVE  Has(q, types) <=> Head(q).type \in types \/ Has(Tail(q), types)
<1> DEFINE t == Tail(q)
<1>1. /\ Head(q) = q[1] /\ 1 \in DOMAIN q
      /\ \A i \in DOMAIN t : i + 1 \in DOMAIN q /\ t[i] = q[i + 1]
      /\ \A i \in DOMAIN q : i = 1 \/ (i - 1 \in DOMAIN t /\ t[i - 1] = q[i])
  BY Taken
<1> HIDE DEF t
<1>2. Has(q, types) => Head(q).type \in types \/ Has(t, types)
  BY <1>1 DEF Has
<1>3. Head(q).type \in types => Has(q, types)
  BY <1>1 DEF Has
<1>4. Has(t, types) => Has(q, types)
  BY <1>1 DEF Has
<1> QED
  BY <1>2, <1>3, <1>4 DEF t

LEMMA HasCallTaken ==
    ASSUME NEW T, NEW q \in Seq(T), q # <<>>, NEW types, NEW call
    PROVE  HasCall(q, types, call) => (Head(q).type \in types /\ Head(q).id = call) \/ HasCall(Tail(q), types, call)
<1> DEFINE t == Tail(q)
<1>1. /\ Head(q) = q[1] /\ 1 \in DOMAIN q
      /\ \A i \in DOMAIN q : i = 1 \/ (i - 1 \in DOMAIN t /\ t[i - 1] = q[i])
  BY Taken
<1> HIDE DEF t
<1>2. HasCall(q, types, call) => (Head(q).type \in types /\ Head(q).id = call) \/ HasCall(t, types, call)
  BY <1>1 DEF HasCall
<1> QED
  BY <1>2 DEF t

LEMMA LastGrown ==
    ASSUME NEW T, NEW q \in Seq(T), NEW x, NEW call
    PROVE  /\ x.type = "tool_call" /\ x.id = call => LastAsks(Append(q, x), call)
           /\ x.type # "tool_call" /\ LastAsks(q, call) => LastAsks(Append(q, x), call)
<1> DEFINE t == Append(q, x)
<1>1. /\ DOMAIN t = DOMAIN q \cup {Len(q) + 1} /\ t[Len(q) + 1] = x
      /\ \A i \in DOMAIN q : t[i] = q[i] /\ i < Len(q) + 1 /\ i \in Int
      /\ Len(q) \in Int
  BY Grown
<1> HIDE DEF t
<1>2. ASSUME x.type = "tool_call", x.id = call PROVE LastAsks(t, call)
  <2>1. Len(q) + 1 \in DOMAIN t /\ t[Len(q) + 1] = x /\ \A j \in DOMAIN t : ~(j > Len(q) + 1)
    BY <1>1
  <2> QED
    BY <1>2, <2>1 DEF LastAsks
<1>3. ASSUME x.type # "tool_call", LastAsks(q, call) PROVE LastAsks(t, call)
  BY <1>1, <1>3 DEF LastAsks
<1> QED
  BY <1>2, <1>3 DEF t

LEMMA LastTaken ==
    ASSUME NEW T, NEW q \in Seq(T), q # <<>>, NEW call, LastAsks(q, call)
    PROVE  \/ LastAsks(Tail(q), call)
           \/ Head(q).type = "tool_call" /\ Head(q).id = call /\ NoneAsks(Tail(q))
<1> DEFINE t == Tail(q)
<1>1. /\ Head(q) = q[1] /\ 1 \in DOMAIN q
      /\ \A i \in DOMAIN t : i \in Int /\ i + 1 \in DOMAIN q /\ t[i] = q[i + 1]
      /\ \A i \in DOMAIN q : i = 1 \/ (i \in Int /\ i > 1 /\ i - 1 \in DOMAIN t /\ t[i - 1] = q[i])
      /\ \A i \in DOMAIN t : i > 0
  BY Taken
<1> HIDE DEF t
<1>2. PICK i \in DOMAIN q : /\ q[i].type = "tool_call" /\ q[i].id = call
                            /\ \A j \in DOMAIN q : j > i => q[j].type # "tool_call"
  BY DEF LastAsks
<1>3. CASE i = 1
  <2>1. \A j \in DOMAIN t : j + 1 > i
    BY <1>1, <1>3
  <2>2. \A j \in DOMAIN t : t[j].type # "tool_call"
    BY <1>1, <1>2, <2>1
  <2>3. Head(q).type = "tool_call" /\ Head(q).id = call /\ NoneAsks(t)
    BY <1>1, <1>2, <1>3, <2>2 DEF NoneAsks, Has
  <2> QED
    BY <2>3 DEF t
<1>4. CASE i # 1
  <2>1. i \in Int /\ i - 1 \in DOMAIN t /\ t[i - 1] = q[i]
    BY <1>1, <1>4
  <2>2. \A j \in DOMAIN t : j > i - 1 => j + 1 > i
    BY <1>1, <2>1
  <2>3. \A j \in DOMAIN t : j > i - 1 => t[j].type # "tool_call"
    BY <1>1, <1>2, <2>2
  <2>4. LastAsks(t, call)
    BY <1>2, <2>1, <2>3 DEF LastAsks
  <2> QED
    BY <2>4 DEF t
<1> QED
  BY <1>3, <1>4

LEMMA WillHoldGrown ==
    ASSUME NEW T, NEW q \in Seq(T), NEW x, NEW now, NEW makes, NEW breaks
    PROVE  /\ x.type \in makes => WillHold(now, Append(q, x), makes, breaks)
           /\ x.type \notin breaks /\ WillHold(now, q, makes, breaks) => WillHold(now, Append(q, x), makes, breaks)
<1> DEFINE t == Append(q, x)
<1>1. /\ DOMAIN t = DOMAIN q \cup {Len(q) + 1} /\ t[Len(q) + 1] = x
      /\ \A i \in DOMAIN q : t[i] = q[i] /\ i < Len(q) + 1 /\ i \in Int
      /\ Len(q) \in Int
  BY Grown
<1> HIDE DEF t
<1>2. ASSUME x.type \in makes PROVE WillHold(now, t, makes, breaks)
  <2>1. Len(q) + 1 \in DOMAIN t /\ t[Len(q) + 1] = x /\ \A j \in DOMAIN t : ~(j > Len(q) + 1)
    BY <1>1
  <2> QED
    BY <1>2, <2>1 DEF WillHold
<1>3. ASSUME x.type \notin breaks, WillHold(now, q, makes, breaks) PROVE WillHold(now, t, makes, breaks)
  <2>1. CASE now /\ ~Has(q, breaks)
    BY <1>1, <1>3, <2>1 DEF WillHold, Has
  <2>2. ASSUME NEW i \in DOMAIN q, q[i].type \in makes, \A j \in DOMAIN q : j > i => q[j].type \notin breaks
        PROVE  WillHold(now, t, makes, breaks)
    <3>1. i \in DOMAIN t /\ t[i].type \in makes /\ \A j \in DOMAIN t : j > i => t[j].type \notin breaks
      BY <1>1, <1>3, <2>2
    <3> QED
      BY <3>1 DEF WillHold
  <2> QED
    BY <1>3, <2>1, <2>2 DEF WillHold
<1> QED
  BY <1>2, <1>3 DEF t

LEMMA WillHoldTaken ==
    ASSUME NEW T, NEW q \in Seq(T), q # <<>>, NEW now, NEW makes, NEW breaks, WillHold(now, q, makes, breaks),
           NEW then, Head(q).type \in makes => then, now /\ Head(q).type \notin breaks => then
    PROVE  WillHold(then, Tail(q), makes, breaks)
<1> DEFINE t == Tail(q)
<1>1. /\ Head(q) = q[1] /\ 1 \in DOMAIN q
      /\ \A i \in DOMAIN t : i \in Int /\ i + 1 \in DOMAIN q /\ t[i] = q[i + 1]
      /\ \A i \in DOMAIN q : i = 1 \/ (i \in Int /\ i > 1 /\ i - 1 \in DOMAIN t /\ t[i - 1] = q[i])
      /\ \A i \in DOMAIN t : i > 0
  BY Taken
<1>2. Has(q, breaks) <=> Head(q).type \in breaks \/ Has(t, breaks)
  BY HasTaken
<1> HIDE DEF t
<1>3. CASE now /\ ~Has(q, breaks)
  BY <1>2, <1>3 DEF WillHold, t
<1>4. ASSUME NEW i \in DOMAIN q, q[i].type \in makes, \A j \in DOMAIN q : j > i => q[j].type \notin breaks
      PROVE  WillHold(then, t, makes, breaks)
  <2>1. CASE i = 1
    <3>1. \A j \in DOMAIN t : j + 1 > i
      BY <1>1, <2>1
    <3>2. \A j \in DOMAIN t : t[j].type \notin breaks
      BY <1>1, <1>4, <3>1
    <3>3. then
      BY <1>1, <1>4, <2>1
    <3> QED
      BY <3>2, <3>3 DEF WillHold, Has
  <2>2. CASE i # 1
    <3>1. i \in Int /\ i - 1 \in DOMAIN t /\ t[i - 1] = q[i]
      BY <1>1, <2>2
    <3>2. \A j \in DOMAIN t : j > i - 1 => j + 1 > i
      BY <1>1, <3>1
    <3>3. \A j \in DOMAIN t : j > i - 1 => t[j].type \notin breaks
      BY <1>1, <1>4, <3>2
    <3> QED
      BY <1>4, <3>1, <3>3 DEF WillHold
  <2> QED
    BY <2>1, <2>2
<1> QED
  BY <1>3, <1>4 DEF WillHold, t

-----------------------------------------------------------------------------
(* The conversation, step by step. *)

\* Where the daemon can write there is one connection, the manager's.
LEMMA ServesOne ==
    ASSUME TalkInv, B!Serves
    PROVE  /\ B!Writable /\ daemon.conn = manager.conn /\ manager.conn \in DOMAIN readers
           /\ readers[manager.conn].open /\ ~readers[manager.conn].ended
           /\ manager.pc \notin {"connect", "pause"}
<1>1. daemon.conn = manager.conn /\ ~readers[manager.conn].ended /\ manager.pc \notin {"connect", "pause"}
  BY DEF TalkInv, OneConnection, B!Serves
<1> QED
  BY <1>1 DEF B!Serves, B!Writable, B!Known, B!Connection

LEMMA TalkBarStep ==
    ASSUME TalkInv, BarStep, B!Desk
    PROVE  TalkInv'
<1>0. TalkTyped /\ OneConnection /\ ThinkingEnds /\ ConfirmationComes /\ ResultComes /\ ConnectionIsTold
  BY DEF TalkInv
<1>1. events' = events /\ manager' = manager /\ readers' = readers /\ daemon' = daemon
  BY DEF B!Desk
<1>2. B!Writable' = B!Writable /\ B!Connection' = B!Connection
  BY <1>1 DEF B!Writable, B!Connection, B!Known
<1>3. requests \in Seq(BarRequests)
  BY <1>0 DEF TalkTyped
<1>4. \A types, call : /\ Has(requests, types) => Has(requests', types)
                       /\ HasCall(requests, types, call) => HasCall(requests', types, call)
  <2>1. CASE requests' = requests
    BY <2>1
  <2>2. ASSUME NEW q \in BarRequests, requests' = Append(requests, q)
        PROVE  \A types, call : /\ Has(requests, types) => Has(requests', types)
                                /\ HasCall(requests, types, call) => HasCall(requests', types, call)
    BY <1>3, <2>2, HasGrown, HasCallGrown
  <2> QED
    BY <2>1, <2>2 DEF BarStep
<1>5. TalkTyped'
  <2>1. requests' \in Seq(BarRequests)
    BY <1>3 DEF BarStep
  <2> QED
    BY <1>0, <1>1, <2>1 DEF TalkTyped
<1>6. OneConnection'
  BY <1>0, <1>1, <1>2 DEF OneConnection
<1>7. bar'.busy => bar.busy \/ Has(requests', {"chat"})
  <2>1. ASSUME NEW q \in BarRequests, requests' = Append(requests, q), q.type = "chat"
        PROVE  Has(requests', {"chat"})
    BY <1>3, <2>1, HasGrown
  <2> QED
    BY <2>1 DEF BarStep, Kept
<1>8. ThinkingEnds'
  BY <1>0, <1>1, <1>2, <1>4, <1>7 DEF ThinkingEnds
<1>9. \A types : AnswerComes(types) => AnswerComes(types)'
  BY <1>1, <1>4 DEF AnswerComes
<1>10. bar'.pending = bar.pending \/ HasCall(requests', {"confirm", "deny"}, bar.pending)
  <2>1. ASSUME NEW q \in BarRequests, requests' = Append(requests, q), q.type \in {"confirm", "deny"},
               q.id = bar.pending
        PROVE  HasCall(requests', {"confirm", "deny"}, bar.pending)
    BY <1>3, <2>1, HasCallGrown
  <2> QED
    BY <2>1 DEF BarStep, Kept
<1>11. ConfirmationComes'
  <2> SUFFICES ASSUME B!Writable, daemon.pc = "confirm" PROVE ConfirmationComes'
    BY <1>1, <1>2 DEF ConfirmationComes
  <2>1. CASE bar.pending = daemon.call /\ bar'.pending # bar.pending
    BY <1>1, <1>10, <2>1 DEF ConfirmationComes, AnswerComes
  <2>2. CASE bar'.pending = bar.pending \/ bar.pending # daemon.call
    BY <1>0, <1>1, <1>2, <1>9, <2>2 DEF ConfirmationComes, NoneAsks
  <2> QED
    BY <2>1, <2>2
<1>12. ResultComes'
  BY <1>0, <1>1, <1>2, <1>9 DEF ResultComes
<1>13. ConnectionIsTold'
  BY <1>0, <1>1 DEF ConnectionIsTold, BarStep
<1> QED
  BY <1>5, <1>6, <1>8, <1>11, <1>12, <1>13 DEF TalkInv

LEMMA TakeEventStep ==
    ASSUME TalkInv, BarHolds(bar), B!TakeEvent
    PROVE  TalkInv' /\ BarHolds(bar)'
<1> DEFINE e == Head(events)
<1>0. TalkTyped /\ OneConnection /\ ThinkingEnds /\ ConfirmationComes /\ ResultComes /\ ConnectionIsTold
  BY DEF TalkInv
<1>1. events \in Seq(MindEvents) /\ events # <<>> /\ requests \in Seq(BarRequests)
  BY <1>0 DEF TalkTyped, B!TakeEvent
<1>2. e \in MindEvents /\ Tail(events) \in Seq(MindEvents) /\ events' = Tail(events)
  BY <1>1, Taken DEF B!TakeEvent
<1>3. manager' = manager /\ readers' = readers /\ daemon' = daemon
  BY DEF B!TakeEvent
<1>4. B!Writable' = B!Writable /\ B!Connection' = B!Connection
  BY <1>3 DEF B!Writable, B!Connection, B!Known
<1>5. e.id \in Nat
  BY <1>2 DEF MindEvents, Lines
<1>6. bar' = B!OnMindEvent(bar, e)
  BY DEF B!TakeEvent, B!Tell, B!Silent
<1>7. requests' = IF e.type = "client_tool" THEN Append(requests, [type |-> "tool_result", id |-> e.id])
                  ELSE requests
  BY DEF B!TakeEvent, B!Tell, B!Silent
<1>8. /\ BarHolds(bar')
      /\ bar'.connected = IF e.type = "connected" THEN TRUE ELSE IF e.type \in Offs THEN FALSE ELSE bar.connected
      /\ bar'.busy => bar.busy
      /\ e.type \in EndTypes => ~bar'.busy
      /\ bar'.pending = IF e.type = "tool_call" THEN e.id ELSE bar.pending
  BY <1>5, <1>6, EventHolds
<1>9. /\ \A types : Has(events, types) <=> e.type \in types \/ Has(events', types)
      /\ \A types, call : HasCall(events, types, call) =>
            (e.type \in types /\ e.id = call) \/ HasCall(events', types, call)
      /\ \A call : LastAsks(events, call) =>
            LastAsks(events', call) \/ (e.type = "tool_call" /\ e.id = call /\ NoneAsks(events'))
  BY <1>1, <1>2, HasTaken, HasCallTaken, LastTaken
<1> HIDE DEF e
<1>10. /\ requests' \in Seq(BarRequests)
       /\ \A types, call : /\ Has(requests, types) => Has(requests', types)
                           /\ HasCall(requests, types, call) => HasCall(requests', types, call)
       /\ e.type = "client_tool" => HasCall(requests', {"tool_result"}, e.id)
  <2> DEFINE q == [type |-> "tool_result", id |-> e.id]
  <2>1. q \in BarRequests /\ q.type = "tool_result" /\ q.id = e.id
    BY <1>5 DEF BarRequests
  <2> HIDE DEF q
  <2>2. requests' = IF e.type = "client_tool" THEN Append(requests, q) ELSE requests
    BY <1>7 DEF q
  <2> QED
    BY <1>1, <2>1, <2>2, HasGrown, HasCallGrown
<1>11. TalkTyped'
  BY <1>0, <1>2, <1>3, <1>10 DEF TalkTyped
<1>12. OneConnection'
  BY <1>0, <1>3, <1>4 DEF OneConnection
<1>13. ThinkingEnds'
  BY <1>0, <1>3, <1>4, <1>8, <1>9, <1>10 DEF ThinkingEnds
<1>14. \A types : AnswerComes(types) => AnswerComes(types)'
  BY <1>3, <1>10 DEF AnswerComes
<1>15. ConfirmationComes'
  <2> SUFFICES ASSUME B!Writable, daemon.pc = "confirm" PROVE ConfirmationComes'
    BY <1>3, <1>4 DEF ConfirmationComes
  <2>1. NoneAsks(events) => e.type # "tool_call" /\ NoneAsks(events')
    BY <1>9 DEF NoneAsks
  <2>2. \/ AnswerComes({"confirm", "deny"})
        \/ LastAsks(B!Connection.wire, daemon.call)
        \/ /\ NoneAsks(B!Connection.wire)
           /\ LastAsks(events, daemon.call) \/ (NoneAsks(events) /\ bar.pending = daemon.call)
    BY <1>0 DEF ConfirmationComes
  <2>3. \/ AnswerComes({"confirm", "deny"})'
        \/ LastAsks(B!Connection.wire, daemon.call)
        \/ /\ NoneAsks(B!Connection.wire)
           /\ LastAsks(events', daemon.call) \/ (NoneAsks(events') /\ bar'.pending = daemon.call)
    BY <1>8, <1>9, <1>14, <2>1, <2>2
  <2> QED
    BY <1>3, <1>4, <2>3 DEF ConfirmationComes, NoneAsks
<1>16. ResultComes'
  <2> SUFFICES ASSUME B!Writable, daemon.pc = "tool" PROVE ResultComes'
    BY <1>3, <1>4 DEF ResultComes
  <2>1. HasCall(events, {"client_tool"}, daemon.call) =>
          HasCall(events', {"client_tool"}, daemon.call) \/ HasCall(requests', {"tool_result"}, daemon.call)
    BY <1>9, <1>10
  <2> QED
    BY <1>0, <1>3, <1>4, <1>14, <2>1 DEF ResultComes, AnswerComes
<1>17. ConnectionIsTold'
  <2>1. WillHold(bar.connected, events, Ons, Offs) => WillHold(bar'.connected, events', Ons, Offs)
    <3>1. (e.type \in Ons => bar'.connected) /\ (bar.connected /\ e.type \notin Offs => bar'.connected)
      BY <1>8 DEF Ons
    <3> QED
      BY <1>1, <1>2, <3>1, WillHoldTaken DEF e
  <2>2. WillHold(~bar.connected, events, Offs, Ons) => WillHold(~bar'.connected, events', Offs, Ons)
    <3>1. (e.type \in Offs => ~bar'.connected) /\ (~bar.connected /\ e.type \notin Ons => ~bar'.connected)
      BY <1>8 DEF Ons, Offs
    <3> QED
      BY <1>1, <1>2, <3>1, WillHoldTaken DEF e
  <2> QED
    BY <1>0, <1>3, <2>1, <2>2 DEF ConnectionIsTold
<1> QED
  BY <1>8, <1>11, <1>12, <1>13, <1>15, <1>16, <1>17 DEF TalkInv

\* A line more on a connection.
LEMMA LineSent ==
    ASSUME TalkTyped, NEW n \in DOMAIN readers, NEW e \in Lines,
           readers' = [readers EXCEPT ![n].wire = Append(@, e)]
    PROVE  /\ DOMAIN readers' = DOMAIN readers
           /\ \A c \in DOMAIN readers : c # n => readers'[c] = readers[c]
           /\ readers'[n].open = readers[n].open /\ readers'[n].ended = readers[n].ended
           /\ readers[n].wire \in Seq(Lines) /\ readers'[n].wire = Append(readers[n].wire, e)
           /\ readers' \in [DOMAIN readers' -> [wire : Seq(Lines), open : BOOLEAN, ended : BOOLEAN]]
           /\ \A c \in DOMAIN readers : ~readers[c].open \/ Has(readers[c].wire, EndTypes) =>
                 ~readers'[c].open \/ Has(readers'[c].wire, EndTypes)
<1> DEFINE R == [wire : Seq(Lines), open : BOOLEAN, ended : BOOLEAN]
           w == Append(readers[n].wire, e)
           r == [readers[n] EXCEPT !.wire = w]
<1>1. readers \in [DOMAIN readers -> R] /\ readers[n] \in R
  BY DEF TalkTyped
<1>2. readers[n].wire \in Seq(Lines) /\ w \in Seq(Lines)
  BY <1>1
<1>3. readers' = [readers EXCEPT ![n] = r]
  OBVIOUS
<1> HIDE DEF w
<1>4. r \in R /\ r.wire = w /\ r.open = readers[n].open /\ r.ended = readers[n].ended
  BY <1>1, <1>2
<1> HIDE DEF r
<1>5. /\ DOMAIN readers' = DOMAIN readers /\ readers'[n] = r
      /\ \A c \in DOMAIN readers : c # n => readers'[c] = readers[c]
      /\ readers' \in [DOMAIN readers' -> R]
  BY <1>1, <1>3, <1>4
<1>6. ASSUME NEW c \in DOMAIN readers, ~readers[c].open \/ Has(readers[c].wire, EndTypes)
      PROVE  ~readers'[c].open \/ Has(readers'[c].wire, EndTypes)
  <2>1. CASE c = n
    BY <1>2, <1>4, <1>5, <1>6, <2>1, HasGrown DEF w
  <2>2. CASE c # n
    BY <1>5, <1>6, <2>2
  <2> QED
    BY <2>1, <2>2
<1> QED
  BY <1>2, <1>4, <1>5, <1>6 DEF w

LEMMA ConnectStep ==
    ASSUME TalkInv, B!Connect
    PROVE  TalkInv'
<1>0. TalkTyped /\ OneConnection /\ ThinkingEnds /\ ConfirmationComes /\ ResultComes /\ ConnectionIsTold
  BY DEF TalkInv
<1>1. manager.pc = "connect" /\ bar' = bar /\ requests' = requests
  BY DEF B!Connect
<1>2. ~B!Writable /\ \A c \in DOMAIN readers : ~readers[c].open /\ readers[c].wire = <<>>
  BY <1>0, <1>1 DEF OneConnection, B!Writable, B!Known, B!Connection
<1>3. CASE daemon.up
  <2> DEFINE n == manager.conn + 1
             fresh == [wire |-> <<>>, open |-> TRUE, ended |-> FALSE]
  <2>1. /\ manager' = [manager EXCEPT !.pc = "hello", !.conn = n, !.reported = FALSE]
        /\ readers' = [c \in DOMAIN readers \cup {n} |-> IF c \in DOMAIN readers THEN readers[c] ELSE fresh]
        /\ daemon' = [daemon EXCEPT !.conn = n, !.pc = "idle", !.call = B!NoCall, !.inbox = <<>>]
        /\ events' = events
    BY <1>3 DEF B!Connect, B!Known
  <2>2. manager.conn \in Nat /\ DOMAIN readers \subseteq 1..manager.conn
    BY <1>0 DEF TalkTyped
  <2>3. n \in Nat /\ n \in 1..n /\ n \notin DOMAIN readers /\ \A c \in DOMAIN readers : c # n /\ c \in 1..n
    BY <2>2
  <2>4. manager'.pc = "hello" /\ manager'.conn = n /\ ~manager'.reported /\ manager'.lost = manager.lost
    BY <1>0, <2>1 DEF TalkTyped
  <2>5. daemon'.up /\ daemon'.conn = n /\ daemon'.pc = "idle" /\ daemon'.inbox = <<>>
    BY <1>0, <1>3, <2>1 DEF TalkTyped
  <2>6. fresh \in [wire : Seq(Lines), open : BOOLEAN, ended : BOOLEAN]
    OBVIOUS
  <2>7. fresh.wire = <<>> /\ fresh.open /\ ~fresh.ended
    OBVIOUS
  <2>8. manager' \in [pc : {"connect", "hello", "announce", "serve", "close", "pause"}, conn : Nat,
                      reported : BOOLEAN, lost : BOOLEAN, late : BOOLEAN]
    <3> HIDE DEF n
    <3> QED
      BY <1>0, <2>1, <2>3 DEF TalkTyped
  <2>9. daemon' \in [up : BOOLEAN, conn : Nat, pc : {"idle", "chat", "confirm", "tool"}, call : Nat,
                     calls : Nat, inbox : Seq(BarRequests), crashes : Nat]
    <3>1. <<>> \in Seq(BarRequests) /\ B!NoCall \in Nat
      BY DEF B!NoCall
    <3> HIDE DEF n
    <3> QED
      BY <1>0, <2>1, <2>3, <3>1 DEF TalkTyped
  <2> HIDE DEF n, fresh
  <2>10. /\ DOMAIN readers' = DOMAIN readers \cup {n} /\ readers'[n] = fresh
         /\ \A c \in DOMAIN readers : readers'[c] = readers[c]
    BY <2>1, <2>3
  <2>11. readers' \in [DOMAIN readers' -> [wire : Seq(Lines), open : BOOLEAN, ended : BOOLEAN]]
    BY <1>0, <2>1, <2>6, <2>10 DEF TalkTyped
  <2>12. TalkTyped'
    <3>1. DOMAIN readers' \subseteq 1..manager'.conn
      BY <2>3, <2>4, <2>10
    <3> QED
      BY <1>0, <1>1, <2>1, <2>8, <2>9, <2>11, <3>1 DEF TalkTyped
  <2>13. OneConnection'
    <3>1. \A c \in DOMAIN readers' : c # n => c \in DOMAIN readers /\ readers'[c] = readers[c]
      BY <2>10
    <3>2. \A c \in DOMAIN readers' :
            /\ c # n \/ readers'[c].ended => ~readers'[c].open /\ readers'[c].wire = <<>>
            /\ readers'[c].wire = <<>>
      BY <1>2, <2>7, <2>10, <3>1
    <3> QED
      BY <2>4, <2>5, <3>2 DEF OneConnection
  <2>14. ThinkingEnds'
    <3> SUFFICES ASSUME bar'.busy PROVE ThinkingEnds'
      BY DEF ThinkingEnds
    <3>1. \/ manager.lost
          \/ Has(requests, {"chat"})
          \/ Has(events, EndTypes)
          \/ \E c \in DOMAIN readers : ~readers[c].open
      BY <1>0, <1>1, <1>2, NothingInNone DEF ThinkingEnds
    <3>2. (\E c \in DOMAIN readers : ~readers[c].open) => \E c \in DOMAIN readers' : ~readers'[c].open
      BY <2>10
    <3> QED
      BY <1>1, <2>1, <2>4, <3>1, <3>2 DEF ThinkingEnds
  <2>15. ConfirmationComes' /\ ResultComes'
    BY <2>5 DEF ConfirmationComes, ResultComes
  <2>16. ConnectionIsTold'
    BY <2>4 DEF ConnectionIsTold
  <2> QED
    BY <2>12, <2>13, <2>14, <2>15, <2>16 DEF TalkInv
<1>4. CASE ~daemon.up
  <2> DEFINE e == B!Event("unavailable", B!NoCall)
  <2>1. /\ events' = IF manager.reported THEN events ELSE Append(events, e)
        /\ manager' = [manager EXCEPT !.reported = TRUE]
        /\ readers' = readers /\ daemon' = daemon
    BY <1>4 DEF B!Connect
  <2>2. e \in MindEvents /\ e.type = "unavailable"
    BY DEF MindEvents, B!Event, B!NoCall
  <2> HIDE DEF e
  <2>3. manager'.pc = "connect" /\ manager'.conn = manager.conn /\ manager'.reported
        /\ manager'.lost = manager.lost
    BY <1>0, <1>1, <2>1 DEF TalkTyped
  <2>4. events \in Seq(MindEvents)
    BY <1>0 DEF TalkTyped
  <2>5. events' \in Seq(MindEvents) /\ (Has(events, EndTypes) => Has(events', EndTypes))
    BY <2>1, <2>2, <2>4, HasGrown
  <2>6. TalkTyped'
    BY <1>0, <1>1, <2>1, <2>5 DEF TalkTyped
  <2>7. ~B!Writable' /\ B!Writable' = B!Writable
    BY <1>2, <2>1, <2>3 DEF B!Writable, B!Known, B!Connection
  <2>8. OneConnection'
    BY <1>0, <1>1, <2>1, <2>3, <2>7 DEF OneConnection
  <2>9. ThinkingEnds'
    BY <1>0, <1>1, <2>1, <2>3, <2>5, <2>7 DEF ThinkingEnds
  <2>10. ConfirmationComes' /\ ResultComes'
    BY <2>7 DEF ConfirmationComes, ResultComes
  <2>11. WillHold(~bar.connected, events', Offs, Ons)
    <3>1. manager.reported => WillHold(~bar.connected, events, Offs, Ons)
      BY <1>0, <1>1 DEF ConnectionIsTold
    <3>2. e.type \in Offs
      BY <2>2 DEF Offs
    <3> QED
      BY <2>1, <2>4, <3>1, <3>2, WillHoldGrown
  <2>12. ConnectionIsTold'
    BY <1>1, <2>3, <2>11 DEF ConnectionIsTold
  <2> QED
    BY <2>6, <2>8, <2>9, <2>10, <2>12 DEF TalkInv
<1> QED
  BY <1>3, <1>4

LEMMA HelloStep ==
    ASSUME TalkInv, B!Hello
    PROVE  TalkInv'
<1> DEFINE n == manager.conn
           e == B!Event("welcome", B!NoCall)
<1>0. TalkTyped /\ OneConnection /\ ThinkingEnds /\ ConfirmationComes /\ ResultComes /\ ConnectionIsTold
  BY DEF TalkInv
<1>1. manager.pc = "hello" /\ ~manager.reported /\ bar' = bar /\ events' = events /\ requests' = requests
      /\ daemon' = daemon
  BY <1>0 DEF B!Hello, OneConnection
<1>2. CASE B!Writable
  <2>1. manager' = [manager EXCEPT !.pc = "announce"]
        /\ readers' = [readers EXCEPT ![n].wire = Append(@, e)]
    BY <1>2 DEF B!Hello
  <2>2. e \in Lines
    BY DEF Lines, B!Event, B!NoCall
  <2> HIDE DEF e
  <2>3. manager'.pc = "announce" /\ manager'.conn = n /\ ~manager'.reported /\ manager'.lost = manager.lost
    BY <1>0, <1>1, <2>1 DEF TalkTyped
  <2>4. n \in DOMAIN readers /\ readers[n] \in [wire : Seq(Lines), open : BOOLEAN, ended : BOOLEAN]
        /\ readers[n].open
    BY <1>0, <1>2 DEF B!Writable, B!Known, B!Connection, TalkTyped
  <2>5. /\ DOMAIN readers' = DOMAIN readers
        /\ \A c \in DOMAIN readers : c # n => readers'[c] = readers[c]
        /\ readers'[n].open = readers[n].open /\ readers'[n].ended = readers[n].ended
        /\ \A c \in DOMAIN readers : ~readers[c].open \/ Has(readers[c].wire, EndTypes) =>
              ~readers'[c].open \/ Has(readers'[c].wire, EndTypes)
    BY <1>0, <2>1, <2>2, <2>4, LineSent
  <2>6. readers' \in [DOMAIN readers' -> [wire : Seq(Lines), open : BOOLEAN, ended : BOOLEAN]]
    BY <1>0, <2>1, <2>2, <2>4, LineSent
  <2>7. TalkTyped'
    BY <1>0, <1>1, <2>1, <2>3, <2>5, <2>6 DEF TalkTyped
  <2>8. daemon.pc = "idle" /\ daemon.up /\ daemon.conn = n /\ ~readers[n].ended
    BY <1>0, <1>1, <1>2, <2>4 DEF OneConnection
  <2>9. OneConnection'
    BY <1>0, <1>1, <2>3, <2>4, <2>5, <2>8 DEF OneConnection
  <2>10. B!Writable'
    BY <2>3, <2>4, <2>5 DEF B!Writable, B!Known, B!Connection
  <2>11. ThinkingEnds'
    BY <1>0, <1>1, <1>2, <2>3, <2>5, <2>10 DEF ThinkingEnds
  <2>12. ConfirmationComes' /\ ResultComes'
    BY <1>1, <2>8 DEF ConfirmationComes, ResultComes
  <2>13. ConnectionIsTold'
    BY <2>3 DEF ConnectionIsTold
  <2> QED
    BY <2>7, <2>9, <2>11, <2>12, <2>13 DEF TalkInv
<1>3. CASE ~B!Writable
  <2>1. manager' = [manager EXCEPT !.pc = "connect"] /\ readers' = readers
    BY <1>3 DEF B!Hello
  <2>2. manager'.pc = "connect" /\ manager'.conn = n /\ ~manager'.reported /\ manager'.lost = manager.lost
    BY <1>0, <1>1, <2>1 DEF TalkTyped
  <2>3. TalkTyped'
    BY <1>0, <1>1, <2>1, <2>2 DEF TalkTyped
  <2>4. ~B!Writable'
    BY <1>3, <2>1, <2>2 DEF B!Writable, B!Known, B!Connection
  <2>5. \A c \in DOMAIN readers : ~readers[c].open
    BY <1>0, <1>3 DEF OneConnection, B!Writable, B!Known, B!Connection
  <2>6. OneConnection'
    BY <1>0, <1>1, <2>1, <2>2, <2>4, <2>5 DEF OneConnection
  <2>7. ThinkingEnds'
    BY <1>0, <1>1, <1>3, <2>1, <2>2 DEF ThinkingEnds
  <2>8. ConfirmationComes' /\ ResultComes' /\ ConnectionIsTold'
    BY <2>2, <2>4 DEF ConfirmationComes, ResultComes, ConnectionIsTold
  <2> QED
    BY <2>3, <2>6, <2>7, <2>8 DEF TalkInv
<1> QED
  BY <1>2, <1>3

LEMMA AnnounceStep ==
    ASSUME TalkInv, B!Announce
    PROVE  TalkInv'
<1> DEFINE e == B!Event("connected", B!NoCall)
<1>0. TalkTyped /\ OneConnection /\ ThinkingEnds /\ ConfirmationComes /\ ResultComes /\ ConnectionIsTold
  BY DEF TalkInv
<1>1. manager.pc = "announce" /\ events' = Append(events, e) /\ bar' = bar /\ requests' = requests
      /\ daemon' = daemon /\ readers' = readers
  BY DEF B!Announce
<1>2. e \in MindEvents /\ e.type = "connected"
  BY DEF MindEvents, B!Event, B!NoCall
<1> HIDE DEF e
<1>3. PICK x \in BOOLEAN : manager' = [manager EXCEPT !.pc = "serve", !.late = x]
                           /\ (~x => \A c \in DOMAIN readers : ~(c < manager.conn))
  <2>1. manager.late \in BOOLEAN
    BY <1>0 DEF TalkTyped
  <2> QED
    BY <2>1 DEF B!Announce
<1>4. manager'.pc = "serve" /\ manager'.conn = manager.conn /\ manager'.reported = manager.reported
      /\ manager'.lost = manager.lost /\ manager'.late = x
  BY <1>0, <1>3 DEF TalkTyped
<1>5. events \in Seq(MindEvents)
  BY <1>0 DEF TalkTyped
<1>6. /\ events' \in Seq(MindEvents)
      /\ \A types : Has(events', types) <=> Has(events, types) \/ "connected" \in types
      /\ \A types, call : HasCall(events, types, call) => HasCall(events', types, call)
      /\ \A call : LastAsks(events, call) => LastAsks(events', call)
      /\ WillHold(bar.connected, events', Ons, Offs)
  BY <1>1, <1>2, <1>5, HasGrown, HasCallGrown, LastGrown, WillHoldGrown DEF Ons
<1>7. TalkTyped'
  BY <1>0, <1>1, <1>3, <1>4, <1>6 DEF TalkTyped
<1>8. B!Writable' = B!Writable /\ B!Connection' = B!Connection
  BY <1>1, <1>4 DEF B!Writable, B!Known, B!Connection
<1>9. OneConnection'
  BY <1>0, <1>1, <1>4, <1>8 DEF OneConnection
<1>10. ThinkingEnds'
  BY <1>0, <1>1, <1>4, <1>6, <1>8 DEF ThinkingEnds
<1>11. ConfirmationComes'
  BY <1>0, <1>1, <1>6, <1>8 DEF ConfirmationComes, AnswerComes, NoneAsks
<1>12. ResultComes'
  BY <1>0, <1>1, <1>6, <1>8 DEF ResultComes, AnswerComes
<1>13. ConnectionIsTold'
  <2>1. ASSUME ~x, NEW c \in DOMAIN readers PROVE c = manager.conn
    BY <1>0, <1>3, <2>1 DEF TalkTyped
  <2> QED
    BY <1>1, <1>4, <1>6, <2>1 DEF ConnectionIsTold
<1> QED
  BY <1>7, <1>9, <1>10, <1>11, <1>12, <1>13 DEF TalkInv

LEMMA WriteStep ==
    ASSUME TalkInv, B!Write
    PROVE  TalkInv'
<1> DEFINE q == Head(requests)
<1>0. TalkTyped /\ OneConnection /\ ThinkingEnds /\ ConfirmationComes /\ ResultComes /\ ConnectionIsTold
  BY DEF TalkInv
<1>1. manager.pc = "serve" /\ requests # <<>> /\ requests' = Tail(requests)
      /\ bar' = bar /\ events' = events /\ readers' = readers
  BY DEF B!Write
<1>2. requests \in Seq(BarRequests) /\ requests' \in Seq(BarRequests) /\ q \in BarRequests
  BY <1>0, <1>1, Taken DEF TalkTyped
<1>3. /\ \A types : Has(requests, types) => q.type \in types \/ Has(requests', types)
      /\ \A types, call : HasCall(requests, types, call) =>
            (q.type \in types /\ q.id = call) \/ HasCall(requests', types, call)
  BY <1>1, <1>2, HasTaken, HasCallTaken
<1>4. CASE B!Writable
  <2>1. daemon' = [daemon EXCEPT !.inbox = Append(@, q)] /\ manager' = manager
    BY <1>4 DEF B!Write
  <2> HIDE DEF q
  <2>2. daemon.inbox \in Seq(BarRequests)
    BY <1>0 DEF TalkTyped
  <2>3. /\ daemon'.inbox = Append(daemon.inbox, q) /\ daemon'.up = daemon.up /\ daemon'.conn = daemon.conn
        /\ daemon'.pc = daemon.pc /\ daemon'.call = daemon.call
    BY <1>0, <2>1 DEF TalkTyped
  <2>4. /\ \A types : Has(daemon'.inbox, types) <=> Has(daemon.inbox, types) \/ q.type \in types
        /\ \A types, call : HasCall(daemon'.inbox, types, call) <=>
              HasCall(daemon.inbox, types, call) \/ (q.type \in types /\ q.id = call)
    BY <2>2, <2>3, HasGrown, HasCallGrown
  <2>5. TalkTyped'
    <3>1. Append(daemon.inbox, q) \in Seq(BarRequests)
      BY <1>2, <2>2
    <3>2. daemon' = [daemon EXCEPT !.inbox = Append(daemon.inbox, q)]
      BY <2>1
    <3>3. daemon' \in [up : BOOLEAN, conn : Nat, pc : {"idle", "chat", "confirm", "tool"}, call : Nat,
                       calls : Nat, inbox : Seq(BarRequests), crashes : Nat]
      BY <1>0, <3>1, <3>2 DEF TalkTyped
    <3> QED
      BY <1>0, <1>1, <1>2, <2>1, <3>3 DEF TalkTyped
  <2>6. B!Writable' = B!Writable /\ B!Connection' = B!Connection
    BY <1>1, <2>1 DEF B!Writable, B!Known, B!Connection
  <2>7. OneConnection'
    BY <1>0, <1>1, <2>1, <2>3, <2>6 DEF OneConnection
  <2>8. ThinkingEnds'
    BY <1>0, <1>1, <1>3, <1>4, <2>1, <2>3, <2>4, <2>6 DEF ThinkingEnds
  <2>9. \A types : AnswerComes(types) => AnswerComes(types)'
    BY <1>3, <2>3, <2>4 DEF AnswerComes
  <2>10. ConfirmationComes'
    BY <1>0, <1>1, <2>3, <2>6, <2>9 DEF ConfirmationComes, NoneAsks
  <2>11. ResultComes'
    BY <1>0, <1>1, <2>3, <2>6, <2>9 DEF ResultComes
  <2>12. ConnectionIsTold'
    BY <1>0, <1>1, <2>1 DEF ConnectionIsTold
  <2> QED
    BY <2>5, <2>7, <2>8, <2>10, <2>11, <2>12 DEF TalkInv
<1>5. CASE ~B!Writable
  <2>1. PICK x \in BOOLEAN : /\ manager' = [manager EXCEPT !.pc = "close", !.lost = x]
                             /\ x <=> manager.lost \/ (q.type = "chat" /\ ~B!Known(manager.conn))
    <3>1. manager.lost \in BOOLEAN
      BY <1>0 DEF TalkTyped
    <3> QED
      BY <1>5, <3>1 DEF B!Write
  <2>2. daemon' = daemon
    BY <1>5 DEF B!Write
  <2> HIDE DEF q
  <2>3. manager'.pc = "close" /\ manager'.conn = manager.conn /\ manager'.reported = manager.reported
        /\ manager'.lost = x
    BY <1>0, <2>1 DEF TalkTyped
  <2>4. TalkTyped'
    BY <1>0, <1>1, <1>2, <2>1, <2>2, <2>3 DEF TalkTyped
  <2>5. ~B!Writable'
    BY <1>1, <1>5, <2>3 DEF B!Writable, B!Known, B!Connection
  <2>6. OneConnection'
    BY <1>0, <1>1, <2>2, <2>3, <2>5 DEF OneConnection
  <2>7. ThinkingEnds'
    <3> SUFFICES ASSUME bar'.busy PROVE ThinkingEnds'
      BY DEF ThinkingEnds
    <3>1. q.type = "chat" => x \/ \E c \in DOMAIN readers : ~readers[c].open
      BY <1>5, <2>1 DEF B!Writable, B!Known, B!Connection
    <3>2. \/ x
          \/ Has(requests', {"chat"})
          \/ Has(events, EndTypes)
          \/ \E c \in DOMAIN readers : ~readers[c].open \/ Has(readers[c].wire, EndTypes)
      BY <1>0, <1>1, <1>3, <1>5, <2>1, <3>1 DEF ThinkingEnds
    <3> QED
      BY <1>1, <2>3, <3>2 DEF ThinkingEnds
  <2>8. ConfirmationComes' /\ ResultComes' /\ ConnectionIsTold'
    BY <2>3, <2>5 DEF ConfirmationComes, ResultComes, ConnectionIsTold
  <2> QED
    BY <2>4, <2>6, <2>7, <2>8 DEF TalkInv
<1> QED
  BY <1>4, <1>5

\* The manager notices the end, closes and waits for the reader's.
LEMMA EndingStep ==
    ASSUME TalkInv, B!Notice \/ B!CloseConnection \/ B!Pause
    PROVE  TalkInv'
<1>0. TalkTyped /\ OneConnection /\ ThinkingEnds /\ ConfirmationComes /\ ResultComes /\ ConnectionIsTold
  BY DEF TalkInv
<1>1. bar' = bar /\ events' = events /\ requests' = requests /\ daemon' = daemon
  BY DEF B!Notice, B!CloseConnection, B!Pause
<1>2. CASE B!Notice
  <2>1. manager' = [manager EXCEPT !.pc = "close"] /\ manager.pc = "serve" /\ readers' = readers
    BY <1>2 DEF B!Notice
  <2>2. manager'.pc = "close" /\ manager'.conn = manager.conn /\ manager'.reported = manager.reported
        /\ manager'.lost = manager.lost
    BY <1>0, <2>1 DEF TalkTyped
  <2>3. TalkTyped'
    BY <1>0, <1>1, <2>1, <2>2 DEF TalkTyped
  <2>4. B!Writable' = B!Writable /\ B!Connection' = B!Connection
    BY <2>1, <2>2 DEF B!Writable, B!Known, B!Connection
  <2>5. OneConnection'
    BY <1>0, <1>1, <2>1, <2>2, <2>4 DEF OneConnection
  <2>6. ThinkingEnds'
    BY <1>0, <1>1, <2>1, <2>2, <2>4 DEF ThinkingEnds
  <2>7. ConfirmationComes'
    BY <1>0, <1>1, <2>4 DEF ConfirmationComes, AnswerComes, NoneAsks
  <2>8. ResultComes'
    BY <1>0, <1>1, <2>4 DEF ResultComes, AnswerComes
  <2>9. ConnectionIsTold'
    BY <2>2 DEF ConnectionIsTold
  <2> QED
    BY <2>3, <2>5, <2>6, <2>7, <2>8, <2>9 DEF TalkInv
<1>3. CASE B!CloseConnection
  <2>1. /\ manager' = [manager EXCEPT !.pc = "pause"] /\ manager.pc = "close"
        /\ readers' = [c \in DOMAIN readers |->
                         IF c = manager.conn THEN [readers[c] EXCEPT !.open = FALSE] ELSE readers[c]]
    BY <1>3 DEF B!CloseConnection
  <2>2. manager'.pc = "pause" /\ manager'.conn = manager.conn /\ manager'.reported = manager.reported
        /\ manager'.lost = manager.lost
    BY <1>0, <2>1 DEF TalkTyped
  <2>3. ASSUME NEW c \in DOMAIN readers
        PROVE  /\ readers'[c] \in [wire : Seq(Lines), open : BOOLEAN, ended : BOOLEAN]
               /\ readers'[c].wire = readers[c].wire /\ readers'[c].ended = readers[c].ended
               /\ ~readers'[c].open
    <3>1. readers[c] \in [wire : Seq(Lines), open : BOOLEAN, ended : BOOLEAN]
      BY <1>0 DEF TalkTyped
    <3>2. CASE c = manager.conn
      BY <2>1, <3>1, <3>2
    <3>3. CASE c # manager.conn
      BY <1>0, <2>1, <3>1, <3>3 DEF OneConnection
    <3> QED
      BY <3>2, <3>3
  <2>4. DOMAIN readers' = DOMAIN readers
    BY <2>1
  <2>5. TalkTyped'
    <3>1. readers' \in [DOMAIN readers' -> [wire : Seq(Lines), open : BOOLEAN, ended : BOOLEAN]]
      BY <2>1, <2>3, <2>4
    <3> QED
      BY <1>0, <1>1, <2>1, <2>2, <2>4, <3>1 DEF TalkTyped
  <2>6. ~B!Writable'
    BY <2>2, <2>3, <2>4 DEF B!Writable, B!Known, B!Connection
  <2>7. OneConnection'
    BY <1>0, <1>1, <2>1, <2>2, <2>3, <2>4, <2>6 DEF OneConnection
  <2>8. ThinkingEnds'
    <3>1. B!Writable => \E c \in DOMAIN readers' : ~readers'[c].open
      BY <2>3, <2>4 DEF B!Writable, B!Known
    <3> QED
      BY <1>0, <1>1, <2>2, <2>3, <2>4, <3>1 DEF ThinkingEnds
  <2>9. ConfirmationComes' /\ ResultComes' /\ ConnectionIsTold'
    BY <2>2, <2>6 DEF ConfirmationComes, ResultComes, ConnectionIsTold
  <2> QED
    BY <2>5, <2>7, <2>8, <2>9 DEF TalkInv
<1>4. CASE B!Pause
  <2>1. manager' = [manager EXCEPT !.pc = "connect"] /\ manager.pc = "pause" /\ readers' = readers
        /\ manager.conn \notin DOMAIN readers
    BY <1>4 DEF B!Pause, B!Known
  <2>2. manager'.pc = "connect" /\ manager'.conn = manager.conn /\ manager'.reported = manager.reported
        /\ manager'.lost = manager.lost /\ ~manager.reported
    BY <1>0, <2>1 DEF TalkTyped, OneConnection
  <2>3. TalkTyped'
    BY <1>0, <1>1, <2>1, <2>2 DEF TalkTyped
  <2>4. ~B!Writable' /\ ~B!Writable
    BY <2>1, <2>2 DEF B!Writable, B!Known
  <2>5. \A c \in DOMAIN readers : ~readers[c].open /\ readers[c].wire = <<>>
    BY <1>0, <2>1 DEF OneConnection
  <2>6. OneConnection'
    BY <2>1, <2>2, <2>4, <2>5 DEF OneConnection
  <2>7. ThinkingEnds'
    BY <1>0, <1>1, <2>1, <2>2, <2>4 DEF ThinkingEnds
  <2>8. ConfirmationComes' /\ ResultComes' /\ ConnectionIsTold'
    BY <2>2, <2>4 DEF ConfirmationComes, ResultComes, ConnectionIsTold
  <2> QED
    BY <2>3, <2>6, <2>7, <2>8 DEF TalkInv
<1> QED
  BY <1>2, <1>3, <1>4

LEMMA ReadStep ==
    ASSUME TalkInv, NEW c, B!Read(c)
    PROVE  TalkInv'
<1> DEFINE n == manager.conn
           R == [wire : Seq(Lines), open : BOOLEAN, ended : BOOLEAN]
           e == Head(readers[c].wire)
           d == B!Event("disconnected", B!NoCall)
<1>0. TalkTyped /\ OneConnection /\ ThinkingEnds /\ ConfirmationComes /\ ResultComes /\ ConnectionIsTold
  BY DEF TalkInv
<1>1. c \in DOMAIN readers /\ bar' = bar /\ requests' = requests /\ manager' = manager /\ daemon' = daemon
  BY DEF B!Read
<1>2. readers \in [DOMAIN readers -> R] /\ readers[c] \in R /\ events \in Seq(MindEvents)
  BY <1>0, <1>1 DEF TalkTyped
<1>3. \/ readers[c].wire # <<>> /\ events' = Append(events, e) /\ readers' = [readers EXCEPT ![c].wire = Tail(@)]
      \/ readers[c].wire = <<>> /\ ~readers[c].open /\ events' = events /\ readers' = [readers EXCEPT ![c].ended = TRUE]
      \/ readers[c].ended /\ events' = Append(events, d) /\ readers' = [x \in DOMAIN readers \ {c} |-> readers[x]]
  BY DEF B!Read
<1>4. CASE readers[c].wire # <<>> /\ events' = Append(events, e) /\ readers' = [readers EXCEPT ![c].wire = Tail(@)]
  <2> DEFINE w == Tail(readers[c].wire)
             r == [readers[c] EXCEPT !.wire = w]
  <2>1. c = n /\ ~readers[c].ended /\ manager.pc \notin {"connect", "hello"}
    BY <1>0, <1>1, <1>4 DEF OneConnection
  <2>2. readers[c].wire \in Seq(Lines) /\ w \in Seq(Lines) /\ e \in Lines /\ e \in MindEvents
        /\ e.type \notin Offs \cup Ons
    <3>1. readers[c].wire \in Seq(Lines)
      BY <1>2
    <3>2. w \in Seq(Lines) /\ e \in Lines
      BY <1>4, <3>1, Taken
    <3> QED
      BY <3>1, <3>2 DEF MindEvents, Lines, Offs, Ons
  <2>3. /\ \A types : Has(readers[c].wire, types) <=> e.type \in types \/ Has(w, types)
        /\ \A types, call : HasCall(readers[c].wire, types, call) =>
              (e.type \in types /\ e.id = call) \/ HasCall(w, types, call)
        /\ \A call : LastAsks(readers[c].wire, call) =>
              LastAsks(w, call) \/ (e.type = "tool_call" /\ e.id = call /\ NoneAsks(w))
    BY <1>4, <2>2, HasTaken, HasCallTaken, LastTaken
  <2>4. readers' = [readers EXCEPT ![c] = r]
    BY <1>4
  <2> HIDE DEF w, e
  <2>5. r \in R /\ r.wire = w /\ r.open = readers[c].open /\ r.ended = readers[c].ended
    BY <1>2, <2>2
  <2> HIDE DEF r
  <2>6. /\ DOMAIN readers' = DOMAIN readers /\ readers'[c] = r
        /\ \A x \in DOMAIN readers : x # c => readers'[x] = readers[x]
        /\ readers' \in [DOMAIN readers' -> R]
    BY <1>1, <1>2, <2>4, <2>5
  <2>7. /\ events' \in Seq(MindEvents)
        /\ \A types : Has(events', types) <=> Has(events, types) \/ e.type \in types
        /\ \A types, call : HasCall(events', types, call) <=>
              HasCall(events, types, call) \/ (e.type \in types /\ e.id = call)
        /\ \A call : /\ e.type = "tool_call" /\ e.id = call => LastAsks(events', call)
                     /\ e.type # "tool_call" /\ LastAsks(events, call) => LastAsks(events', call)
    BY <1>2, <1>4, <2>2, HasGrown, HasCallGrown, LastGrown
  <2>8. TalkTyped'
    BY <1>0, <1>1, <2>6, <2>7 DEF TalkTyped
  <2>9. B!Writable' = B!Writable /\ B!Connection' = r /\ B!Connection = readers[c]
    BY <1>1, <2>1, <2>5, <2>6 DEF B!Writable, B!Known, B!Connection
  <2>10. OneConnection'
    BY <1>0, <1>1, <2>1, <2>5, <2>6, <2>9 DEF OneConnection
  <2>11. ThinkingEnds'
    <3> SUFFICES ASSUME bar'.busy PROVE ThinkingEnds'
      BY DEF ThinkingEnds
    <3>1. ASSUME NEW x \in DOMAIN readers, ~readers[x].open \/ Has(readers[x].wire, EndTypes)
          PROVE  ~readers'[x].open \/ Has(readers'[x].wire, EndTypes) \/ Has(events', EndTypes)
      <4>1. CASE x = c
        BY <2>3, <2>5, <2>6, <2>7, <3>1, <4>1
      <4>2. CASE x # c
        BY <2>6, <3>1, <4>2
      <4> QED
        BY <4>1, <4>2
    <3> QED
      BY <1>0, <1>1, <2>6, <2>7, <2>9, <3>1 DEF ThinkingEnds
  <2>12. ConfirmationComes'
    <3> SUFFICES ASSUME B!Writable, daemon.pc = "confirm" PROVE ConfirmationComes'
      BY <1>1, <2>9 DEF ConfirmationComes
    <3>1. \/ AnswerComes({"confirm", "deny"})
          \/ LastAsks(readers[c].wire, daemon.call)
          \/ /\ NoneAsks(readers[c].wire)
             /\ LastAsks(events, daemon.call) \/ (NoneAsks(events) /\ bar.pending = daemon.call)
      BY <1>0, <2>9 DEF ConfirmationComes
    <3>2. NoneAsks(readers[c].wire) => NoneAsks(w) /\ e.type # "tool_call"
      BY <2>3 DEF NoneAsks
    <3>3. NoneAsks(events) /\ e.type # "tool_call" => NoneAsks(events')
      BY <2>7 DEF NoneAsks
    <3>4. \/ AnswerComes({"confirm", "deny"})
          \/ LastAsks(w, daemon.call)
          \/ /\ NoneAsks(w)
             /\ LastAsks(events', daemon.call) \/ (NoneAsks(events') /\ bar.pending = daemon.call)
      BY <2>3, <2>7, <3>1, <3>2, <3>3
    <3>5. AnswerComes({"confirm", "deny"})' <=> AnswerComes({"confirm", "deny"})
      BY <1>1 DEF AnswerComes
    <3>6. NoneAsks(w) <=> NoneAsks(B!Connection.wire)'
      BY <2>5, <2>9 DEF NoneAsks
    <3>7. NoneAsks(events') <=> NoneAsks(events)'
      BY DEF NoneAsks
    <3> QED
      BY <1>1, <2>5, <2>9, <3>4, <3>5, <3>6, <3>7 DEF ConfirmationComes
  <2>13. ResultComes'
    BY <1>0, <1>1, <2>3, <2>5, <2>7, <2>9 DEF ResultComes, AnswerComes
  <2>14. ConnectionIsTold'
    <3>1. WillHold(bar.connected, events, Ons, Offs) => WillHold(bar.connected, events', Ons, Offs)
      BY <1>2, <1>4, <2>2, WillHoldGrown DEF e
    <3> QED
      BY <1>0, <1>1, <2>1, <2>6, <3>1 DEF ConnectionIsTold
  <2> QED
    BY <2>8, <2>10, <2>11, <2>12, <2>13, <2>14 DEF TalkInv
<1>5. CASE readers[c].wire = <<>> /\ ~readers[c].open /\ events' = events /\ readers' = [readers EXCEPT ![c].ended = TRUE]
  <2> DEFINE r == [readers[c] EXCEPT !.ended = TRUE]
  <2>1. readers' = [readers EXCEPT ![c] = r]
    BY <1>5
  <2>2. r \in R /\ r.wire = readers[c].wire /\ r.open = readers[c].open /\ r.ended
    BY <1>2
  <2> HIDE DEF r
  <2>3. /\ DOMAIN readers' = DOMAIN readers /\ readers'[c] = r
        /\ \A x \in DOMAIN readers : x # c => readers'[x] = readers[x]
        /\ readers' \in [DOMAIN readers' -> R]
    BY <1>1, <1>2, <2>1, <2>2
  <2>4. \A x \in DOMAIN readers : readers'[x].wire = readers[x].wire /\ readers'[x].open = readers[x].open
    BY <2>2, <2>3
  <2>5. TalkTyped'
    BY <1>0, <1>1, <1>5, <2>3 DEF TalkTyped
  <2>6. B!Writable' = B!Writable /\ (B!Writable => B!Connection'.wire = B!Connection.wire)
    BY <1>1, <2>3, <2>4 DEF B!Writable, B!Known, B!Connection
  <2>7. OneConnection'
    BY <1>0, <1>1, <1>5, <2>2, <2>3, <2>4, <2>6 DEF OneConnection
  <2>8. ThinkingEnds'
    BY <1>0, <1>1, <1>5, <2>3, <2>4, <2>6 DEF ThinkingEnds
  <2>9. ConfirmationComes'
    BY <1>0, <1>1, <1>5, <2>6 DEF ConfirmationComes, AnswerComes, NoneAsks
  <2>10. ResultComes'
    BY <1>0, <1>1, <1>5, <2>6 DEF ResultComes, AnswerComes
  <2>11. ConnectionIsTold'
    BY <1>0, <1>1, <1>5, <2>3 DEF ConnectionIsTold
  <2> QED
    BY <2>5, <2>7, <2>8, <2>9, <2>10, <2>11 DEF TalkInv
<1>6. CASE readers[c].ended /\ events' = Append(events, d) /\ readers' = [x \in DOMAIN readers \ {c} |-> readers[x]]
  <2>1. d \in MindEvents /\ d.type = "disconnected"
    BY DEF MindEvents, B!Event, B!NoCall
  <2> HIDE DEF d
  <2>2. /\ DOMAIN readers' = DOMAIN readers \ {c} /\ \A x \in DOMAIN readers' : readers'[x] = readers[x]
        /\ readers' \in [DOMAIN readers' -> R]
    BY <1>2, <1>6
  <2>3. /\ events' \in Seq(MindEvents)
        /\ \A types : Has(events', types) <=> Has(events, types) \/ "disconnected" \in types
        /\ \A types, call : HasCall(events, types, call) => HasCall(events', types, call)
        /\ \A call : LastAsks(events, call) => LastAsks(events', call)
        /\ \A now : WillHold(now, events', Offs, Ons)
    BY <1>2, <1>6, <2>1, HasGrown, HasCallGrown, LastGrown, WillHoldGrown DEF Offs
  <2>4. TalkTyped'
    BY <1>0, <1>1, <2>2, <2>3 DEF TalkTyped
  <2>5. ~readers[c].open
    BY <1>0, <1>1, <1>6 DEF OneConnection
  <2>6. B!Writable' = B!Writable /\ (B!Writable => B!Connection' = B!Connection)
    BY <1>1, <2>2, <2>5 DEF B!Writable, B!Known, B!Connection
  <2>7. OneConnection'
    BY <1>0, <1>1, <2>2, <2>6 DEF OneConnection
  <2>8. ThinkingEnds'
    BY <2>3 DEF ThinkingEnds, EndTypes
  <2>9. ConfirmationComes'
    BY <1>0, <1>1, <2>3, <2>6 DEF ConfirmationComes, AnswerComes, NoneAsks
  <2>10. ResultComes'
    BY <1>0, <1>1, <2>3, <2>6 DEF ResultComes, AnswerComes
  <2>11. ConnectionIsTold'
    <3>1. manager.pc = "serve" /\ ~manager.late => c = manager.conn
      BY <1>0, <1>1 DEF ConnectionIsTold
    <3> QED
      BY <1>0, <1>1, <2>2, <2>3, <3>1 DEF ConnectionIsTold
  <2> QED
    BY <2>4, <2>7, <2>8, <2>9, <2>10, <2>11 DEF TalkInv
<1> QED
  BY <1>3, <1>4, <1>5, <1>6

DaemonStates ==
    [up : BOOLEAN, conn : Nat, pc : {"idle", "chat", "confirm", "tool"}, call : Nat,
     calls : Nat, inbox : Seq(BarRequests), crashes : Nat]

\* What a line of the daemon leaves, when it is at work on it or it is an end.
LEMMA DaemonSends ==
    ASSUME TalkInv, B!Serves, manager.pc # "hello", NEW e \in Lines, B!SendEvent(e),
           bar' = bar, events' = events, requests' = requests, manager' = manager,
           daemon' \in DaemonStates, daemon'.up = daemon.up, daemon'.conn = daemon.conn,
           daemon'.pc # "idle" \/ e.type \in EndTypes
    PROVE  /\ TalkTyped' /\ OneConnection' /\ ThinkingEnds' /\ ConnectionIsTold'
           /\ B!Writable /\ B!Writable' /\ B!Connection.wire \in Seq(Lines)
           /\ B!Connection'.wire = Append(B!Connection.wire, e)
<1> DEFINE n == manager.conn
<1>0. TalkTyped /\ OneConnection /\ ThinkingEnds /\ ConnectionIsTold
  BY DEF TalkInv
<1>1. /\ B!Writable /\ daemon.conn = n /\ n \in DOMAIN readers
      /\ readers[n].open /\ ~readers[n].ended /\ manager.pc \notin {"connect", "pause"}
  BY ServesOne
<1>2. readers' = [readers EXCEPT ![n].wire = Append(@, e)]
  BY <1>1 DEF B!SendEvent
<1>3. /\ DOMAIN readers' = DOMAIN readers
      /\ \A c \in DOMAIN readers : c # n => readers'[c] = readers[c]
      /\ readers'[n].open = readers[n].open /\ readers'[n].ended = readers[n].ended
      /\ readers[n].wire \in Seq(Lines) /\ readers'[n].wire = Append(readers[n].wire, e)
      /\ readers' \in [DOMAIN readers' -> [wire : Seq(Lines), open : BOOLEAN, ended : BOOLEAN]]
  BY <1>0, <1>1, <1>2, LineSent
<1>4. TalkTyped'
  BY <1>0, <1>3 DEF TalkTyped, DaemonStates
<1>5. B!Writable' /\ B!Connection = readers[n] /\ B!Connection' = readers'[n]
  BY <1>1, <1>3 DEF B!Writable, B!Known, B!Connection
<1>6. OneConnection'
  BY <1>0, <1>1, <1>3, <1>5 DEF OneConnection
<1>7. ThinkingEnds'
  <2>1. e.type \in EndTypes => Has(readers'[n].wire, EndTypes)
    BY <1>3, HasGrown
  <2> QED
    BY <1>1, <1>3, <1>5, <2>1 DEF ThinkingEnds
<1>8. ConnectionIsTold'
  BY <1>0, <1>3 DEF ConnectionIsTold
<1> QED
  BY <1>1, <1>3, <1>4, <1>5, <1>6, <1>7, <1>8

LEMMA DaemonReadsStep ==
    ASSUME TalkInv, B!DaemonReads
    PROVE  TalkInv'
<1> DEFINE q == Head(daemon.inbox)
           t == Tail(daemon.inbox)
           mine == q.id = daemon.call
           toConfirm == q.type = "cancel" \/ (mine /\ q.type \in {"confirm", "deny"})
           toTool == q.type = "cancel" \/ (mine /\ q.type = "tool_result")
           d == [daemon EXCEPT !.inbox = t]
<1>0. TalkTyped /\ OneConnection /\ ThinkingEnds /\ ConfirmationComes /\ ResultComes /\ ConnectionIsTold
  BY DEF TalkInv
<1>1. B!Serves /\ daemon.inbox # <<>> /\ bar' = bar /\ events' = events /\ requests' = requests
      /\ manager' = manager
  BY DEF B!DaemonReads
<1>2. B!Writable
  BY <1>1, ServesOne
<1>3. manager.pc # "hello"
  BY <1>0, <1>1, <1>2 DEF OneConnection
<1>4. daemon \in DaemonStates /\ daemon.inbox \in Seq(BarRequests)
  BY <1>0 DEF TalkTyped, DaemonStates
<1>5. q \in BarRequests /\ t \in Seq(BarRequests)
  BY <1>1, <1>4, Taken
<1>6. /\ \A types : Has(daemon.inbox, types) <=> q.type \in types \/ Has(t, types)
      /\ \A types, call : HasCall(daemon.inbox, types, call) =>
            (q.type \in types /\ q.id = call) \/ HasCall(t, types, call)
  BY <1>1, <1>4, HasTaken, HasCallTaken
<1>7. \/ daemon.pc = "idle" /\ q.type = "chat" /\ daemon' = [d EXCEPT !.pc = "chat"] /\ readers' = readers
      \/ daemon.pc = "chat" /\ daemon' = [d EXCEPT !.pc = "idle"] /\ B!SendEvent(B!Event("error", B!NoCall))
      \/ /\ daemon.pc = "confirm" /\ daemon' = [d EXCEPT !.pc = "chat", !.call = B!NoCall]
         /\ B!SendEvent(B!Event("tool_result", B!NoCall))
      \/ daemon.pc = "tool" /\ daemon' = [d EXCEPT !.pc = "chat", !.call = B!NoCall] /\ readers' = readers
      \/ /\ ~(daemon.pc = "idle" /\ q.type = "chat")
         /\ ~(daemon.pc = "confirm" /\ toConfirm) /\ ~(daemon.pc = "tool" /\ toTool)
         /\ daemon' = d /\ readers' = readers
  BY DEF B!DaemonReads
<1> HIDE DEF q, t
<1>8. d \in DaemonStates /\ d.inbox = t /\ d.up = daemon.up /\ d.conn = daemon.conn /\ d.pc = daemon.pc
      /\ d.call = daemon.call
  BY <1>4, <1>5 DEF DaemonStates
<1> HIDE DEF d
<1>9. B!NoCall \in Nat /\ \A type \in {"error", "tool_result"} : B!Event(type, B!NoCall) \in Lines
  BY DEF B!NoCall, B!Event, Lines
\* The daemon's own step, when it says nothing.
<1>10. ASSUME readers' = readers, daemon' \in DaemonStates, daemon'.up = daemon.up, daemon'.conn = daemon.conn,
              bar.busy => daemon'.pc # "idle" \/ (daemon.pc = "idle" /\ q.type # "chat" /\ daemon'.inbox = t)
       PROVE  /\ TalkTyped' /\ OneConnection' /\ ThinkingEnds' /\ ConnectionIsTold'
              /\ B!Writable' = B!Writable /\ B!Connection' = B!Connection
  <2>1. TalkTyped'
    BY <1>0, <1>1, <1>10 DEF TalkTyped, DaemonStates
  <2>2. B!Writable' = B!Writable /\ B!Connection' = B!Connection
    BY <1>1, <1>10 DEF B!Writable, B!Known, B!Connection
  <2>3. OneConnection'
    BY <1>0, <1>1, <1>3, <1>10, <2>2 DEF OneConnection
  <2>4. ThinkingEnds'
    BY <1>0, <1>1, <1>2, <1>6, <1>10, <2>2 DEF ThinkingEnds
  <2>5. ConnectionIsTold'
    BY <1>0, <1>1, <1>10 DEF ConnectionIsTold
  <2> QED
    BY <2>1, <2>2, <2>3, <2>4, <2>5
<1>11. CASE daemon.pc = "idle" /\ q.type = "chat" /\ daemon' = [d EXCEPT !.pc = "chat"] /\ readers' = readers
  <2>1. daemon' \in DaemonStates /\ daemon'.up = d.up /\ daemon'.conn = d.conn /\ daemon'.pc = "chat"
    BY <1>8, <1>11 DEF DaemonStates
  <2>2. TalkTyped' /\ OneConnection' /\ ThinkingEnds' /\ ConnectionIsTold'
    BY <1>8, <1>10, <1>11, <2>1
  <2> QED
    BY <2>1, <2>2 DEF TalkInv, ConfirmationComes, ResultComes
<1>12. CASE daemon.pc = "chat" /\ daemon' = [d EXCEPT !.pc = "idle"] /\ B!SendEvent(B!Event("error", B!NoCall))
  <2>1. daemon' \in DaemonStates /\ daemon'.up = d.up /\ daemon'.conn = d.conn /\ daemon'.pc = "idle"
    BY <1>8, <1>12 DEF DaemonStates
  <2>2. B!Event("error", B!NoCall).type \in EndTypes
    BY DEF B!Event, EndTypes
  <2>3. TalkTyped' /\ OneConnection' /\ ThinkingEnds' /\ ConnectionIsTold'
    BY <1>1, <1>3, <1>8, <1>9, <1>12, <2>1, <2>2, DaemonSends
  <2> QED
    BY <2>1, <2>3 DEF TalkInv, ConfirmationComes, ResultComes
<1>13. CASE /\ daemon.pc = "confirm" /\ daemon' = [d EXCEPT !.pc = "chat", !.call = B!NoCall]
            /\ B!SendEvent(B!Event("tool_result", B!NoCall))
  <2>1. daemon' \in DaemonStates /\ daemon'.up = d.up /\ daemon'.conn = d.conn /\ daemon'.pc = "chat"
    BY <1>8, <1>9, <1>13 DEF DaemonStates
  <2>2. TalkTyped' /\ OneConnection' /\ ThinkingEnds' /\ ConnectionIsTold'
    BY <1>1, <1>3, <1>8, <1>9, <1>13, <2>1, DaemonSends
  <2> QED
    BY <2>1, <2>2 DEF TalkInv, ConfirmationComes, ResultComes
<1>14. CASE daemon.pc = "tool" /\ daemon' = [d EXCEPT !.pc = "chat", !.call = B!NoCall] /\ readers' = readers
  <2>1. daemon' \in DaemonStates /\ daemon'.up = d.up /\ daemon'.conn = d.conn /\ daemon'.pc = "chat"
    BY <1>8, <1>9, <1>14 DEF DaemonStates
  <2>2. TalkTyped' /\ OneConnection' /\ ThinkingEnds' /\ ConnectionIsTold'
    BY <1>8, <1>10, <1>14, <2>1
  <2> QED
    BY <2>1, <2>2 DEF TalkInv, ConfirmationComes, ResultComes
<1>15. CASE /\ ~(daemon.pc = "idle" /\ q.type = "chat")
            /\ ~(daemon.pc = "confirm" /\ toConfirm) /\ ~(daemon.pc = "tool" /\ toTool)
            /\ daemon' = d /\ readers' = readers
  <2>1. /\ TalkTyped' /\ OneConnection' /\ ThinkingEnds' /\ ConnectionIsTold'
        /\ B!Writable' = B!Writable /\ B!Connection' = B!Connection
    BY <1>8, <1>10, <1>15
  <2>2. daemon.pc = "confirm" /\ AnswerComes({"confirm", "deny"}) => AnswerComes({"confirm", "deny"})'
    BY <1>1, <1>6, <1>8, <1>15 DEF AnswerComes
  <2>3. daemon.pc = "tool" /\ AnswerComes({"tool_result"}) => AnswerComes({"tool_result"})'
    BY <1>1, <1>6, <1>8, <1>15 DEF AnswerComes
  <2>4. daemon'.pc = daemon.pc /\ daemon'.call = daemon.call
    BY <1>8, <1>15
  <2>5. ConfirmationComes'
    BY <1>0, <1>1, <2>1, <2>2, <2>4 DEF ConfirmationComes, NoneAsks
  <2>6. ResultComes'
    BY <1>0, <1>1, <2>1, <2>3, <2>4 DEF ResultComes
  <2> QED
    BY <2>1, <2>5, <2>6 DEF TalkInv
<1> QED
  BY <1>7, <1>11, <1>12, <1>13, <1>14, <1>15

LEMMA DaemonWorksStep ==
    ASSUME TalkInv, B!DaemonWorks
    PROVE  TalkInv'
<1> DEFINE c == daemon.calls + 1
<1>0. TalkTyped /\ OneConnection
  BY DEF TalkInv
<1>1. B!Serves /\ bar' = bar /\ events' = events /\ requests' = requests /\ manager' = manager
      /\ daemon.pc # "idle"
  BY DEF B!DaemonWorks
<1>2. B!Writable
  BY <1>1, ServesOne
<1>3. manager.pc # "hello"
  BY <1>0, <1>1, <1>2 DEF OneConnection
<1>4. daemon \in DaemonStates /\ c \in Nat
  BY <1>0 DEF TalkTyped, DaemonStates
<1>5. B!NoCall \in Nat
  BY DEF B!NoCall
<1>6. \A type \in {"delta", "done", "error", "tool_call", "client_tool", "tool_result"}, id \in Nat :
         B!Event(type, id) \in Lines /\ B!Event(type, id).type = type /\ B!Event(type, id).id = id
  BY DEF B!Event, Lines
<1>7. \/ daemon.pc = "chat" /\ B!SendEvent(B!Event("delta", B!NoCall)) /\ daemon' = daemon
      \/ \E e \in {"done", "error"} :
            B!SendEvent(B!Event(e, B!NoCall)) /\ daemon' = [daemon EXCEPT !.pc = "idle"]
      \/ /\ B!SendEvent(B!Event("tool_call", c))
         /\ \E pc \in {"confirm", "chat"} :
               daemon' = [daemon EXCEPT !.calls = c, !.pc = pc,
                             !.call = IF pc = "confirm" THEN c ELSE B!NoCall]
      \/ /\ B!SendEvent(B!Event("client_tool", c))
         /\ daemon' = [daemon EXCEPT !.calls = c, !.call = c, !.pc = "tool"]
      \/ /\ B!SendEvent(B!Event("tool_result", B!NoCall))
         /\ daemon' = [daemon EXCEPT !.pc = "chat", !.call = B!NoCall]
  BY DEF B!DaemonWorks
<1> HIDE DEF c
<1>8. CASE daemon.pc = "chat" /\ B!SendEvent(B!Event("delta", B!NoCall)) /\ daemon' = daemon
  <2>1. TalkTyped' /\ OneConnection' /\ ThinkingEnds' /\ ConnectionIsTold'
    BY <1>1, <1>3, <1>4, <1>5, <1>6, <1>8, DaemonSends
  <2> QED
    BY <1>8, <2>1 DEF TalkInv, ConfirmationComes, ResultComes
<1>9. ASSUME NEW e \in {"done", "error"}, B!SendEvent(B!Event(e, B!NoCall)), daemon' = [daemon EXCEPT !.pc = "idle"]
      PROVE  TalkInv'
  <2>1. daemon' \in DaemonStates /\ daemon'.up = daemon.up /\ daemon'.conn = daemon.conn /\ daemon'.pc = "idle"
    BY <1>4, <1>9 DEF DaemonStates
  <2>2. B!Event(e, B!NoCall).type \in EndTypes /\ B!Event(e, B!NoCall) \in Lines
    BY <1>5, <1>6 DEF EndTypes
  <2>3. TalkTyped' /\ OneConnection' /\ ThinkingEnds' /\ ConnectionIsTold'
    BY <1>1, <1>3, <1>9, <2>1, <2>2, DaemonSends
  <2> QED
    BY <2>1, <2>3 DEF TalkInv, ConfirmationComes, ResultComes
<1>10. ASSUME B!SendEvent(B!Event("tool_call", c)), NEW pc \in {"confirm", "chat"},
              daemon' = [daemon EXCEPT !.calls = c, !.pc = pc, !.call = IF pc = "confirm" THEN c ELSE B!NoCall]
       PROVE  TalkInv'
  <2>1. daemon' \in DaemonStates /\ daemon'.up = daemon.up /\ daemon'.conn = daemon.conn /\ daemon'.pc = pc
        /\ (pc = "confirm" => daemon'.call = c)
    <3>1. (IF pc = "confirm" THEN c ELSE B!NoCall) \in Nat
      BY <1>4, <1>5
    <3> QED
      BY <1>4, <1>10, <3>1 DEF DaemonStates
  <2>2. B!Event("tool_call", c) \in Lines /\ B!Event("tool_call", c).type = "tool_call"
        /\ B!Event("tool_call", c).id = c
    BY <1>4, <1>6
  <2>3. TalkTyped' /\ OneConnection' /\ ThinkingEnds' /\ ConnectionIsTold'
        /\ B!Connection.wire \in Seq(Lines)
        /\ B!Connection'.wire = Append(B!Connection.wire, B!Event("tool_call", c))
    BY <1>1, <1>3, <1>10, <2>1, <2>2, DaemonSends
  <2>4. pc = "confirm" => LastAsks(B!Connection.wire, daemon.call)'
    BY <2>1, <2>2, <2>3, LastGrown
  <2>5. ConfirmationComes' /\ ResultComes'
    BY <2>1, <2>4 DEF ConfirmationComes, ResultComes
  <2> QED
    BY <2>3, <2>5 DEF TalkInv
<1>11. CASE /\ B!SendEvent(B!Event("client_tool", c))
            /\ daemon' = [daemon EXCEPT !.calls = c, !.call = c, !.pc = "tool"]
  <2>1. daemon' \in DaemonStates /\ daemon'.up = daemon.up /\ daemon'.conn = daemon.conn /\ daemon'.pc = "tool"
        /\ daemon'.call = c
    BY <1>4, <1>11 DEF DaemonStates
  <2>2. B!Event("client_tool", c) \in Lines /\ B!Event("client_tool", c).type = "client_tool"
        /\ B!Event("client_tool", c).id = c
    BY <1>4, <1>6
  <2>3. TalkTyped' /\ OneConnection' /\ ThinkingEnds' /\ ConnectionIsTold'
        /\ B!Connection.wire \in Seq(Lines)
        /\ B!Connection'.wire = Append(B!Connection.wire, B!Event("client_tool", c))
    BY <1>1, <1>3, <1>11, <2>1, <2>2, DaemonSends
  <2>4. HasCall(B!Connection.wire, {"client_tool"}, daemon.call)'
    BY <2>1, <2>2, <2>3, HasCallGrown
  <2>5. ConfirmationComes' /\ ResultComes'
    BY <2>1, <2>4 DEF ConfirmationComes, ResultComes
  <2> QED
    BY <2>3, <2>5 DEF TalkInv
<1>12. CASE /\ B!SendEvent(B!Event("tool_result", B!NoCall))
            /\ daemon' = [daemon EXCEPT !.pc = "chat", !.call = B!NoCall]
  <2>1. daemon' \in DaemonStates /\ daemon'.up = daemon.up /\ daemon'.conn = daemon.conn /\ daemon'.pc = "chat"
    BY <1>4, <1>5, <1>12 DEF DaemonStates
  <2>2. TalkTyped' /\ OneConnection' /\ ThinkingEnds' /\ ConnectionIsTold'
    BY <1>1, <1>3, <1>5, <1>6, <1>12, <2>1, DaemonSends
  <2> QED
    BY <2>1, <2>2 DEF TalkInv, ConfirmationComes, ResultComes
<1> QED
  BY <1>7, <1>8, <1>9, <1>10, <1>11, <1>12

LEMMA DaemonUpDownStep ==
    ASSUME TalkInv, B!DaemonStarts \/ B!DaemonDies
    PROVE  TalkInv'
<1>0. TalkTyped /\ OneConnection /\ ThinkingEnds /\ ConfirmationComes /\ ResultComes /\ ConnectionIsTold
  BY DEF TalkInv
<1>1. bar' = bar /\ events' = events /\ requests' = requests /\ manager' = manager
  BY DEF B!DaemonStarts, B!DaemonDies
<1>2. CASE B!DaemonStarts
  <2>1. daemon' = [daemon EXCEPT !.up = TRUE] /\ readers' = readers
    BY <1>2 DEF B!DaemonStarts
  <2>2. daemon'.up /\ daemon'.conn = daemon.conn /\ daemon'.pc = daemon.pc /\ daemon'.call = daemon.call
        /\ daemon'.inbox = daemon.inbox
    BY <1>0, <2>1 DEF TalkTyped
  <2>3. TalkTyped'
    BY <1>0, <1>1, <2>1 DEF TalkTyped
  <2>4. B!Writable' = B!Writable /\ B!Connection' = B!Connection
    BY <1>1, <2>1 DEF B!Writable, B!Known, B!Connection
  <2>5. OneConnection'
    BY <1>0, <1>1, <2>1, <2>2, <2>4 DEF OneConnection
  <2>6. ThinkingEnds'
    BY <1>0, <1>1, <2>1, <2>2, <2>4 DEF ThinkingEnds
  <2>7. ConfirmationComes'
    BY <1>0, <1>1, <2>2, <2>4 DEF ConfirmationComes, AnswerComes, NoneAsks
  <2>8. ResultComes'
    BY <1>0, <1>1, <2>2, <2>4 DEF ResultComes, AnswerComes
  <2>9. ConnectionIsTold'
    BY <1>0, <1>1, <2>1 DEF ConnectionIsTold
  <2> QED
    BY <2>3, <2>5, <2>6, <2>7, <2>8, <2>9 DEF TalkInv
<1>3. CASE B!DaemonDies
  <2>1. /\ daemon' = [daemon EXCEPT !.up = FALSE, !.pc = "idle", !.call = B!NoCall, !.inbox = <<>>,
                                    !.crashes = @ + 1]
        /\ readers' = [c \in DOMAIN readers |-> [readers[c] EXCEPT !.open = FALSE]]
    BY <1>3 DEF B!DaemonDies
  <2>2. daemon' \in DaemonStates /\ daemon'.pc = "idle"
    <3>1. daemon.crashes + 1 \in Nat
      BY <1>0 DEF TalkTyped
    <3>2. <<>> \in Seq(BarRequests) /\ B!NoCall \in Nat
      BY DEF B!NoCall
    <3> QED
      BY <1>0, <2>1, <3>1, <3>2 DEF TalkTyped, DaemonStates
  <2>3. ASSUME NEW c \in DOMAIN readers
        PROVE  /\ readers'[c] \in [wire : Seq(Lines), open : BOOLEAN, ended : BOOLEAN]
               /\ readers'[c].wire = readers[c].wire /\ readers'[c].ended = readers[c].ended
               /\ ~readers'[c].open
    <3>1. readers[c] \in [wire : Seq(Lines), open : BOOLEAN, ended : BOOLEAN]
      BY <1>0 DEF TalkTyped
    <3> QED
      BY <2>1, <3>1
  <2>4. DOMAIN readers' = DOMAIN readers
    BY <2>1
  <2>5. TalkTyped'
    <3>1. readers' \in [DOMAIN readers' -> [wire : Seq(Lines), open : BOOLEAN, ended : BOOLEAN]]
      BY <2>1, <2>3, <2>4
    <3> QED
      BY <1>0, <1>1, <2>2, <2>4, <3>1 DEF TalkTyped, DaemonStates
  <2>6. ~B!Writable'
    BY <1>1, <2>3, <2>4 DEF B!Writable, B!Known, B!Connection
  <2>7. OneConnection'
    BY <1>0, <1>1, <2>3, <2>4, <2>6 DEF OneConnection
  <2>8. ThinkingEnds'
    <3>1. B!Writable => \E c \in DOMAIN readers' : ~readers'[c].open
      BY <2>3, <2>4 DEF B!Writable, B!Known
    <3> QED
      BY <1>0, <1>1, <2>3, <2>4, <3>1 DEF ThinkingEnds
  <2>9. ConfirmationComes' /\ ResultComes'
    BY <2>6 DEF ConfirmationComes, ResultComes
  <2>10. ConnectionIsTold'
    BY <1>0, <1>1, <2>4 DEF ConnectionIsTold
  <2> QED
    BY <2>5, <2>7, <2>8, <2>9, <2>10 DEF TalkInv
<1> QED
  BY <1>2, <1>3

-----------------------------------------------------------------------------
(* The scenes. *)

LEMMA TalkSceneStep ==
    ASSUME BarHolds(bar), TalkInv, B!TalkNext
    PROVE  BarHolds(bar)' /\ TalkInv'
<1>1. ASSUME BarStep, B!Desk PROVE BarHolds(bar)' /\ TalkInv'
  BY <1>1, TalkBarStep DEF BarStep
<1>2. CASE /\ B!Desk
           /\ \/ \E key \in {"shift enter", "escape", "y"} : B!HandleKey(key)
              \/ bar.input = "" /\ B!HandleKey("text")
              \/ ~bar.open /\ B!MindbarRequest("ask", TRUE)
  BY <1>1, <1>2, KeyStep, RequestStep
<1>3. CASE B!TakeEvent
  BY <1>3, TakeEventStep
<1>4. ASSUME TalkInv', bar' = bar PROVE BarHolds(bar)' /\ TalkInv'
  BY <1>4
<1>5. CASE B!Connect \/ B!Hello \/ B!Announce \/ B!Write \/ B!Notice \/ B!CloseConnection \/ B!Pause
  <2>1. bar' = bar
    BY <1>5 DEF B!Connect, B!Hello, B!Announce, B!Write, B!Notice, B!CloseConnection, B!Pause
  <2> QED
    BY <1>4, <1>5, <2>1, ConnectStep, HelloStep, AnnounceStep, WriteStep, EndingStep
<1>6. ASSUME NEW c \in DOMAIN readers, B!Read(c) PROVE BarHolds(bar)' /\ TalkInv'
  <2>1. bar' = bar
    BY <1>6 DEF B!Read
  <2> QED
    BY <1>4, <1>6, <2>1, ReadStep
<1>7. CASE B!DaemonReads \/ B!DaemonWorks \/ B!DaemonStarts \/ B!DaemonDies
  <2>1. bar' = bar
    BY <1>7 DEF B!DaemonReads, B!DaemonWorks, B!DaemonStarts, B!DaemonDies
  <2> QED
    BY <1>4, <1>7, <2>1, DaemonReadsStep, DaemonWorksStep, DaemonUpDownStep
<1> QED
  BY <1>2, <1>3, <1>5, <1>6, <1>7 DEF B!TalkNext

LEMMA BarSceneStep ==
    ASSUME BarHolds(bar), B!BarNext \/ B!ScreensNext
    PROVE  BarHolds(bar)' /\ manager' = manager
<1>1. B!Desk /\ manager' = manager
  BY DEF B!BarNext, B!ScreensNext, B!Desk
<1> SUFFICES BarHolds(bar)'
  BY <1>1
<1>2. ASSUME BarStep PROVE BarHolds(bar)'
  BY <1>2 DEF BarStep
<1>3. ASSUME NEW t, BarHolds(t), B!Silent(t) PROVE BarHolds(bar)'
  BY <1>3 DEF B!Silent
<1>4. bar \in BarStates
  BY DEF BarHolds
<1>5. CASE B!BarNext
  <2>1. CASE \E key \in {"escape", "enter", "shift enter", "up", "down", "copy", "clear", "text", "y", "n"} :
                B!HandleKey(key)
    BY <1>2, <2>1, KeyStep
  <2>2. CASE \E what \in {"close", "copy", "row"}, row \in 1..Rows : B!Click(bar.output, what, row)
    <3>1. PICK what \in {"close", "copy", "row"}, row \in 1..Rows : B!Click(bar.output, what, row)
      BY <2>2
    <3>2. row \in Nat /\ row >= 1
      BY BarAssumption
    <3> QED
      BY <1>2, <3>1, <3>2, ClickStep
  <2>3. CASE \E action \in {"open", "ask"}, ask \in BOOLEAN : B!MindbarRequest(action, ask)
    BY <1>2, <2>3, RequestStep
  <2>4. CASE B!Frame(bar.output, TRUE, FALSE)
    <3>1. bar.output \in BarScreens
      BY <1>4, <2>4 DEF BarStates, B!Frame
    <3> QED
      BY <1>2, <2>4, <3>1, FrameStep
  <2>5. CASE \E apps \in AppLists : B!Silent(B!SetApps(bar, apps))
    BY <1>2, <2>5, AppsStep
  <2>6. ASSUME NEW type \in {"tool_call", "done", "disconnected"}, B!Silent(B!OnMindEvent(bar, B!Event(type, 1)))
        PROVE  BarHolds(bar)'
    <3>1. B!Event(type, 1).id \in Nat
      BY DEF B!Event
    <3> HIDE DEF B!Event
    <3> QED
      BY <1>3, <2>6, <3>1, EventHolds
  <2>7. CASE \/ B!Silent(B!InvalidateGraphics(bar)) \/ B!Silent(B!SetShowTools(bar, TRUE))
             \/ B!Silent(B!SetAccent(bar, 2))
    BY <1>3, <2>7, RestyledHolds
  <2> QED
    BY <1>5, <2>1, <2>2, <2>3, <2>4, <2>5, <2>6, <2>7 DEF B!BarNext
<1>6. CASE B!ScreensNext
  <2>1. CASE \/ B!ToggleMindBar \/ B!ShowOsd \/ B!LockSession \/ B!UnlockSession
             \/ \E o \in BarScreens : B!Unplug(o) \/ B!Plug(o)
    BY <1>2, <2>1, ScreensStep
  <2>2. CASE \E action \in {"close", "open"} : B!MindbarRequest(action, FALSE)
    BY <1>2, <2>2, RequestStep
  <2>3. CASE B!HandleKey("escape")
    BY <1>2, <2>3, KeyStep
  <2>4. CASE \E o \in BarScreens : B!Click(o, "close", 1)
    BY <1>2, <2>4, ClickStep
  <2>5. CASE \E o \in BarScreens, up \in BOOLEAN, over \in BOOLEAN : B!Frame(o, up, over)
    BY <1>2, <2>5, FrameStep
  <2>6. CASE B!Silent(B!InvalidateGraphics(bar))
    BY <1>3, <2>6, RestyledHolds
  <2> QED
    BY <1>6, <2>1, <2>2, <2>3, <2>4, <2>5, <2>6 DEF B!ScreensNext
<1> QED
  BY <1>1, <1>5, <1>6

LEMMA BarInvInit == Init => BarInv
<1> SUFFICES ASSUME Init, working \in BarScenes PROVE BarInv
  BY DEF BarInv, BarScenes
<1>1. B!BarInit
  BY DEF Init
<1>2. bar \in BarStates
  <2>1. B!NoPanel \in BarPictures /\ B!NoCall \in Nat /\ <<>> \in Seq(BarApps) /\ <<>> \in Seq(Nat)
        /\ "" \in B!Inputs
    BY DEF BarPictures, B!NoCall, B!Inputs
  <2>2. [o \in BarScreens |-> "none"] \in [BarScreens -> {"none", "startup", "desktop"}]
    OBVIOUS
  <2> QED
    BY <1>1, <2>1, <2>2 DEF BarStates, B!BarInit
<1>3. bar.results = <<>> /\ bar.dirty /\ ~bar.open /\ ~bar.locked /\ ~bar.since /\ ~bar.busy /\ ~bar.connected
  BY <1>1 DEF B!BarInit
<1>4. BarHolds(bar)
  BY <1>2, <1>3 DEF BarHolds, ResultsLive, PictureCurrent, BarSeen
<1>5. manager.pc = "connect" /\ ~manager.reported
  BY <1>1 DEF B!BarInit
<1>6. TalkInv
  <2>1. DOMAIN readers = {} /\ readers = <<>> /\ events = <<>> /\ requests = <<>>
    <3>1. readers = <<>> /\ events = <<>> /\ requests = <<>>
      BY <1>1 DEF B!BarInit
    <3>2. DOMAIN <<>> = {}
      OBVIOUS
    <3> QED
      BY <3>1, <3>2
  <2>2. manager = [pc |-> "connect", conn |-> 0, reported |-> FALSE, lost |-> FALSE, late |-> FALSE]
    BY <1>1 DEF B!BarInit
  <2>3. daemon = [up |-> FALSE, conn |-> 0, pc |-> "idle", call |-> B!NoCall, calls |-> 0,
                  inbox |-> <<>>, crashes |-> 0]
    BY <1>1 DEF B!BarInit
  <2>4. events \in Seq(MindEvents) /\ requests \in Seq(BarRequests)
    BY <2>1
  <2>5. manager \in [pc : {"connect", "hello", "announce", "serve", "close", "pause"}, conn : Nat,
                     reported : BOOLEAN, lost : BOOLEAN, late : BOOLEAN]
    BY <2>2
  <2>6. daemon \in DaemonStates
    <3>1. <<>> \in Seq(BarRequests) /\ B!NoCall \in Nat
      BY DEF B!NoCall
    <3> QED
      BY <2>3, <3>1 DEF DaemonStates
  <2>7. readers \in [DOMAIN readers -> [wire : Seq(Lines), open : BOOLEAN, ended : BOOLEAN]]
    BY <2>1
  <2>8. TalkTyped
    BY <2>1, <2>4, <2>5, <2>6, <2>7 DEF TalkTyped, DaemonStates
  <2>9. ~B!Writable
    BY <2>1 DEF B!Writable, B!Known
  <2> QED
    BY <1>3, <1>5, <2>1, <2>8, <2>9
    DEF TalkInv, OneConnection, ThinkingEnds, ConfirmationComes, ResultComes, ConnectionIsTold
<1> QED
  BY <1>4, <1>5, <1>6 DEF BarInv

LEMMA BarInvStep == BarInv /\ [Next]_vars => BarInv'
<1> SUFFICES ASSUME BarInv, [Next]_vars PROVE BarInv'
  OBVIOUS
<1>1. working' = working /\ (BarSceneNext \/ UNCHANGED barVars)
  BY DEF Next, vars, DaemonNext, ShellSceneNext, ServiceSceneNext
<1>2. CASE UNCHANGED barVars
  <2>1. bar' = bar /\ events' = events /\ requests' = requests /\ manager' = manager /\ readers' = readers
        /\ daemon' = daemon
    BY <1>2 DEF barVars
  <2>2. BarHolds(bar)' = BarHolds(bar) /\ TalkInv' = TalkInv
    BY <2>1 DEF TalkInv, TalkTyped, OneConnection, ThinkingEnds, ConfirmationComes, ResultComes,
                ConnectionIsTold, AnswerComes, B!Writable, B!Connection, B!Known, NoneAsks
  <2> QED
    BY <1>1, <2>1, <2>2 DEF BarInv
<1>3. CASE BarSceneNext
  <2>1. CASE working = "talk" /\ B!TalkNext
    BY <1>1, <2>1, TalkSceneStep DEF BarInv, BarScenes
  <2>2. CASE working \in {"bar", "screens"} /\ (B!BarNext \/ B!ScreensNext)
    BY <1>1, <2>2, BarSceneStep DEF BarInv, BarScenes
  <2> QED
    BY <1>3, <2>1, <2>2 DEF BarSceneNext
<1> QED
  BY <1>1, <1>2, <1>3

\* With nothing on its way, what it would have brought is there.
LEMMA InvIsSound == BarInv => BarIsSound
<1> SUFFICES ASSUME BarInv, working \in BarScenes PROVE B!BarIsSound
  BY DEF BarIsSound
<1>1. bar \in BarStates /\ ResultsLive(bar) /\ PictureCurrent(bar) /\ BarSeen(bar)
  BY DEF BarInv, BarHolds
<1>2. B!ResultsAreLive
  BY <1>1 DEF B!ResultsAreLive, B!ToSet, ResultsLive
<1>3. B!PanelIsCurrent
  BY <1>1 DEF B!PanelIsCurrent, PictureCurrent
<1>4. B!BarIsSeen
  BY <1>1 DEF B!BarIsSeen, BarSeen
<1>5. CASE working = "talk"
  <2>0. TalkInv
    BY <1>5 DEF BarInv
  <2>1. B!NobodyWaitsForNothing
    <3> SUFFICES ASSUME manager.pc = "serve", B!Writable, DOMAIN readers = {manager.conn},
                        B!Connection.wire = <<>>, events = <<>>, requests = <<>>, daemon.inbox = <<>>
                 PROVE  /\ bar.busy => daemon.pc # "idle" \/ manager.lost
                        /\ daemon.pc = "confirm" => bar.pending = daemon.call
                        /\ daemon.pc # "tool"
      BY DEF B!NobodyWaitsForNothing
    <3>1. \A c \in DOMAIN readers : readers[c].open /\ readers[c].wire = <<>>
      BY DEF B!Writable, B!Connection
    <3>2. \A types : ~AnswerComes(types)
      BY NothingInNone DEF AnswerComes
    <3> QED
      BY <2>0, <3>1, <3>2, NothingInNone DEF TalkInv, ThinkingEnds, ConfirmationComes, ResultComes
  <2>2. B!ConnectedIsHonest
    <3>1. ASSUME NEW now, NEW makes, NEW breaks, WillHold(now, <<>>, makes, breaks) PROVE now
      BY <3>1 DEF WillHold
    <3>2. ASSUME events = <<>>, WillHold(bar.connected, events, Ons, Offs) PROVE bar.connected
      BY <3>1, <3>2
    <3>3. ASSUME events = <<>>, WillHold(~bar.connected, events, Offs, Ons) PROVE ~bar.connected
      BY <3>1, <3>3
    <3> QED
      BY <2>0, <3>2, <3>3 DEF B!ConnectedIsHonest, TalkInv, ConnectionIsTold, B!Writable, B!Known
  <2> QED
    BY <1>2, <1>3, <1>4, <2>1, <2>2 DEF B!BarIsSound
<1>6. CASE working # "talk"
  <2>1. manager.pc = "connect" /\ ~manager.reported
    BY <1>6 DEF BarInv, BarScenes
  <2>2. B!NobodyWaitsForNothing /\ B!ConnectedIsHonest
    BY <2>1 DEF B!NobodyWaitsForNothing, B!ConnectedIsHonest
  <2> QED
    BY <1>2, <1>3, <1>4, <2>2 DEF B!BarIsSound
<1> QED
  BY <1>5, <1>6

\* For any index of applications, screens, questions, tool calls, and deaths
\* of the daemon, however far its messages have come: the Mind bar waits for
\* nothing in vain, tells the truth about its connection, offers what can be
\* launched, shows what it holds, and takes keys only where it can be seen.
THEOREM BarSound == Spec => []BarIsSound
<1> QED
  BY BarInvInit, BarInvStep, InvIsSound, PTL DEF Spec

=============================================================================
