----------------------------- MODULE LinkProofs ------------------------------
(***************************************************************************)
(* The compositor's socket in mindshell (ShellServices, in MCParts): an    *)
(* inductive invariant of the connection, its questions and what is said   *)
(* over it, for every number of connections and of changes outside, and    *)
(* LinkIsSound from it.  ServicesProofs takes it up for the theorem.       *)
(***************************************************************************)
EXTENDS MCParts, SequenceTheorems, TLAPS

-----------------------------------------------------------------------------
(* Queues. *)

LEMMA Grown ==
    ASSUME NEW T, NEW q \in Seq(T), NEW x
    PROVE  /\ DOMAIN Append(q, x) = DOMAIN q \cup {Len(q) + 1}
           /\ Append(q, x)[Len(q) + 1] = x
           /\ \A i \in DOMAIN q : Append(q, x)[i] = q[i] /\ i < Len(q) + 1 /\ i \in Int
           /\ Len(q) \in Int
  OBVIOUS

LEMMA Taken ==
    ASSUME NEW T, NEW q \in Seq(T), q # <<>>
    PROVE  /\ Tail(q) \in Seq(T) /\ Head(q) = q[1] /\ 1 \in DOMAIN q /\ Head(q) \in T
           /\ \A i \in DOMAIN Tail(q) : i \in Int /\ i + 1 \in DOMAIN q /\ Tail(q)[i] = q[i + 1]
           /\ \A i \in DOMAIN q : i = 1 \/ (i \in Int /\ i > 1 /\ i - 1 \in DOMAIN Tail(q) /\ Tail(q)[i - 1] = q[i])
<1>1. Len(q) \in Nat /\ Len(q) > 0 /\ DOMAIN q = 1..Len(q)
  OBVIOUS
<1>2. Tail(q) \in Seq(T) /\ DOMAIN Tail(q) = 1..(Len(q) - 1)
  BY <1>1
<1>3. \A i \in 1..(Len(q) - 1) : Tail(q)[i] = q[i + 1]
  BY <1>1
<1>4. Head(q) = q[1] /\ 1 \in DOMAIN q /\ Head(q) \in T
  BY <1>1
<1>5. ASSUME NEW i \in DOMAIN q, i # 1 PROVE i > 1 /\ i - 1 \in DOMAIN Tail(q) /\ Tail(q)[i - 1] = q[i]
  <2>1. i - 1 \in 1..(Len(q) - 1) /\ (i - 1) + 1 = i /\ i > 1
    BY <1>1, <1>5
  <2> QED
    BY <1>2, <1>3, <2>1
<1> QED
  BY <1>1, <1>2, <1>3, <1>4, <1>5

-----------------------------------------------------------------------------
(* The invariant. *)

\* The compositor's socket.
Values == BOOLEAN \cup {"active", "locked", ""} \cup Nat
Subjects == {"inhibit_idle", "game_scene", "desktop_bar", "unlock", "get_idle",
             "reply", "idle", "error", "Connected", "Disconnected"}
Wires == [kind : Subjects, value : Values, id : Nat]
Links == [wm : [idle : Values, holds : SUBSET Nat, scene : Values, bar : Values],
          n : Nat, up : BOOLEAN, tx : Seq(Wires), rx : Seq(Wires), events : Seq(Wires),
          replies : SUBSET Wires, pending : SUBSET Nat, next_id : Nat, asking : SUBSET Nat,
          idle : Values, game : BOOLEAN, running : BOOLEAN, noticed : BOOLEAN, settle : Nat,
          bar : Values, unlocking : BOOLEAN, turns : Nat, crossed : BOOLEAN, missed : BOOLEAN,
          lost : SUBSET Subjects]

\* Of the lines of some kind in a queue: there is one; and the last, unless
\* one of other kinds comes behind it, says value.
Holds(queue, kind) == \E i \in DOMAIN queue : queue[i].kind = kind
LastSays(queue, kind, others, value) ==
    \A i \in DOMAIN queue :
        queue[i].kind = kind /\ (\A j \in DOMAIN queue : j > i => queue[j].kind \notin others \cup {kind})
            => queue[i].value = value

\* What the compositor says is an answer or the idle state, and what the main
\* loop hears is the idle state or how the connection fares.
Kinds(l) ==
    /\ \A i \in DOMAIN l.rx : l.rx[i].kind = "idle" <=> l.rx[i].id = 0
    /\ \A i \in DOMAIN l.events : l.events[i].kind \in {"Connected", "Disconnected", "idle"}

\* Ids of questions: whoever asks waits for his own answer.
Questions(l) ==
    /\ l.next_id >= 1
    /\ l.pending \subseteq 1..(l.next_id - 1) /\ l.asking \subseteq 1..(l.next_id - 1)
    /\ \A id \in l.asking : id \in l.pending \/ \E r \in l.replies : r.id = id
    /\ \A r \in l.replies : r.id \in l.asking \ l.pending
    /\ \A r, q \in l.replies : r.id = q.id => r = q

\* The last that was said of the idle state is true.
IdleSaid(l) ==
    /\ LastSays(l.rx, "idle", {}, l.wm.idle)
    /\ l.up /\ ~Holds(l.rx, "idle") => LastSays(l.events, "idle", {"Connected"}, l.wm.idle)

\* The shell shows the idle state, or something is still to come that says it.
IdleComes(l) ==
    \/ ~l.up \/ Holds(l.events, "Connected")
    \/ l.next_id - 1 \in l.asking
    \/ Holds(l.rx, "idle") \/ Holds(l.events, "idle")
    \/ l.idle = l.wm.idle \/ l.crossed \/ l.missed

\* A game's hold is there, is on its way, or will be asked for again when the
\* questions of the new connection are through.
HoldComes(l) ==
    /\ LastSays(l.tx, "inhibit_idle", {}, l.game)
    /\ l.up /\ ~Holds(l.tx, "inhibit_idle") /\ "inhibit_idle" \notin l.lost =>
          \/ l.n \in l.wm.holds <=> l.game
          \/ l.game /\ (Holds(l.events, "Connected") \/ l.asking # {})

\* At the end of the questions: no hold is there without a game.
HoldGoes(l) ==
    /\ LastSays(l.tx, "inhibit_idle", {}, l.game)
    /\ l.up /\ ~Holds(l.tx, "inhibit_idle") /\ "inhibit_idle" \notin l.lost /\ ~l.game => l.n \notin l.wm.holds

\* The scene that was told last is that of the game, unless it has just begun.
SceneComes(l) ==
    "game_scene" \notin l.lost =>
        \/ l.game /\ l.settle > 0
        \/ /\ LastSays(l.tx, "game_scene", {}, l.game)
           /\ ~Holds(l.tx, "game_scene") => l.wm.scene = l.game

BarComes(l) ==
    "desktop_bar" \notin l.lost =>
        /\ LastSays(l.tx, "desktop_bar", {}, l.bar)
        /\ ~Holds(l.tx, "desktop_bar") => l.wm.bar = l.bar

Ends(l) ==
    /\ l.wm.holds \subseteq 1..l.n /\ (l.up => l.n >= 1)
    /\ ~l.up => l.tx = <<>> /\ l.rx = <<>>
    /\ l.noticed => l.game = l.running

LinkTyped ==
    link \in Links

\* The inductive invariant of the connection.
LinkSound(l) ==
    /\ Ends(l)
    /\ Kinds(l)
    /\ Questions(l)
    /\ IdleSaid(l)
    /\ IdleComes(l)
    /\ HoldComes(l)
    /\ SceneComes(l)
    /\ BarComes(l)

LinkInv == LinkTyped /\ LinkSound(link)

-----------------------------------------------------------------------------
(* The compositor's socket. *)

LEMMA LineIs ==
    ASSUME NEW kind \in Subjects, NEW value \in Values, NEW id \in Nat
    PROVE  /\ V!Line(kind, value, id) \in Wires /\ V!Line(kind, value, id).kind = kind
           /\ V!Line(kind, value, id).value = value /\ V!Line(kind, value, id).id = id
  BY DEF V!Line, Wires

\* What a queue says when a line is put behind it.
LEMMA LineBehind ==
    ASSUME NEW q \in Seq(Wires), NEW x \in Wires
    PROVE  /\ \A kind : Holds(Append(q, x), kind) <=> Holds(q, kind) \/ x.kind = kind
           /\ \A others : LastSays(Append(q, x), x.kind, others, x.value)
           /\ \A kind, others, value : x.kind # kind /\ (LastSays(q, kind, others, value) \/ x.kind \in others)
                                           => LastSays(Append(q, x), kind, others, value)
<1>1. /\ DOMAIN Append(q, x) = DOMAIN q \cup {Len(q) + 1}
      /\ Append(q, x)[Len(q) + 1] = x
      /\ \A i \in DOMAIN q : Append(q, x)[i] = q[i] /\ i < Len(q) + 1
      /\ Len(q) \in Int
  BY Grown
<1> DEFINE n == Len(q) + 1
           r == Append(q, x)
<1>2. /\ DOMAIN r = DOMAIN q \cup {n} /\ r[n] = x
      /\ \A i \in DOMAIN q : r[i] = q[i] /\ n > i
  BY <1>1
<1> HIDE DEF n, r
<1>3. \A kind : Holds(r, kind) <=> Holds(q, kind) \/ x.kind = kind
  BY <1>2 DEF Holds
<1>4. \A others : LastSays(r, x.kind, others, x.value)
  BY <1>2 DEF LastSays
<1>5. ASSUME NEW kind, NEW others, NEW value, x.kind # kind,
             LastSays(q, kind, others, value) \/ x.kind \in others
      PROVE  LastSays(r, kind, others, value)
  <2> SUFFICES ASSUME NEW i \in DOMAIN r, r[i].kind = kind,
                      \A j \in DOMAIN r : j > i => r[j].kind \notin others \cup {kind}
               PROVE  r[i].value = value
    BY DEF LastSays
  <2>1. i \in DOMAIN q /\ r[i] = q[i] /\ x.kind \notin others
    BY <1>2, <1>5
  <2>2. \A j \in DOMAIN q : j > i => q[j].kind \notin others \cup {kind}
    BY <1>2
  <2> QED
    BY <1>5, <2>1, <2>2 DEF LastSays
<1> QED
  BY <1>3, <1>4, <1>5 DEF r

\* And when its first is taken.
LEMMA LineTaken ==
    ASSUME NEW q \in Seq(Wires), q # <<>>
    PROVE  /\ \A kind : Holds(q, kind) <=> Holds(Tail(q), kind) \/ Head(q).kind = kind
           /\ \A kind, others, value : LastSays(q, kind, others, value) => LastSays(Tail(q), kind, others, value)
           /\ \A kind, others, value :
                 LastSays(q, kind, others, value) /\ Head(q).kind = kind
                    /\ (\A k \in others \cup {kind} : ~Holds(Tail(q), k)) => Head(q).value = value
           /\ Head(q) \in Wires /\ Tail(q) \in Seq(Wires)
           /\ \A i \in DOMAIN Tail(q) : \E j \in DOMAIN q : Tail(q)[i] = q[j]
           /\ \E j \in DOMAIN q : Head(q) = q[j]
<1> DEFINE t == Tail(q)
<1>1. /\ t \in Seq(Wires) /\ Head(q) = q[1] /\ 1 \in DOMAIN q /\ Head(q) \in Wires
      /\ \A i \in DOMAIN t : i \in Int /\ i + 1 \in DOMAIN q /\ t[i] = q[i + 1]
      /\ \A i \in DOMAIN q : i = 1 \/ (i \in Int /\ i > 1 /\ i - 1 \in DOMAIN t /\ t[i - 1] = q[i])
  BY Taken
<1> HIDE DEF t
<1>2. ASSUME NEW kind, Holds(t, kind) \/ Head(q).kind = kind PROVE Holds(q, kind)
  BY <1>1, <1>2 DEF Holds
<1>3. ASSUME NEW kind, Holds(q, kind) PROVE Holds(t, kind) \/ Head(q).kind = kind
  <2>1. PICK i \in DOMAIN q : q[i].kind = kind
    BY <1>3 DEF Holds
  <2> QED
    BY <1>1, <2>1 DEF Holds
<1>4. ASSUME NEW kind, NEW others, NEW value, LastSays(q, kind, others, value)
      PROVE  LastSays(t, kind, others, value)
  <2> SUFFICES ASSUME NEW i \in DOMAIN t, t[i].kind = kind,
                      \A j \in DOMAIN t : j > i => t[j].kind \notin others \cup {kind}
               PROVE  t[i].value = value
    BY DEF LastSays
  <2>1. i \in Int /\ i + 1 \in DOMAIN q /\ t[i] = q[i + 1]
    BY <1>1
  <2>2. ASSUME NEW j \in DOMAIN q, j > i + 1 PROVE q[j].kind \notin others \cup {kind}
    <3>1. j \in Int /\ j - 1 \in DOMAIN t /\ t[j - 1] = q[j] /\ j - 1 > i
      BY <1>1, <2>1, <2>2
    <3> QED
      BY <3>1
  <2> QED
    BY <1>4, <2>1, <2>2 DEF LastSays
<1>5. ASSUME NEW kind, NEW others, NEW value, LastSays(q, kind, others, value), Head(q).kind = kind,
             \A k \in others \cup {kind} : ~Holds(t, k)
      PROVE  Head(q).value = value
  <2>1. ASSUME NEW j \in DOMAIN q, j > 1 PROVE q[j].kind \notin others \cup {kind}
    <3>1. j - 1 \in DOMAIN t /\ t[j - 1] = q[j]
      BY <1>1, <2>1
    <3>2. Holds(t, q[j].kind)
      BY <3>1 DEF Holds
    <3> QED
      BY <1>5, <3>2
  <2> QED
    BY <1>1, <1>5, <2>1 DEF LastSays
<1>6. /\ \A i \in DOMAIN t : \E j \in DOMAIN q : t[i] = q[j]
      /\ \E j \in DOMAIN q : Head(q) = q[j]
  BY <1>1
<1>7. \A kind : Holds(q, kind) <=> Holds(t, kind) \/ Head(q).kind = kind
  BY <1>2, <1>3
<1>8. /\ Head(q) \in Wires /\ t \in Seq(Wires)
      /\ \A kind, others, value : LastSays(q, kind, others, value) => LastSays(t, kind, others, value)
  BY <1>1, <1>4
<1>9. \A kind, others, value :
         LastSays(q, kind, others, value) /\ Head(q).kind = kind
            /\ (\A k \in others \cup {kind} : ~Holds(t, k)) => Head(q).value = value
  BY <1>5
<1> QED
  BY <1>6, <1>7, <1>8, <1>9 DEF t

LEMMA NothingSaid ==
    /\ <<>> \in Seq(Wires) /\ DOMAIN <<>> = {}
    /\ \A kind : ~Holds(<<>>, kind)
    /\ \A kind, others, value : LastSays(<<>>, kind, others, value)
  BY DEF Holds, LastSays

\* m is l with a line sent, or forgotten.
Sent(l, kind, value, m) ==
    /\ m \in Links
    /\ m.wm = l.wm /\ m.n = l.n /\ m.up = l.up /\ m.rx = l.rx /\ m.events = l.events
    /\ m.replies = l.replies /\ m.pending = l.pending /\ m.next_id = l.next_id
    /\ m.asking = l.asking /\ m.idle = l.idle /\ m.game = l.game /\ m.running = l.running
    /\ m.noticed = l.noticed /\ m.settle = l.settle /\ m.bar = l.bar
    /\ m.crossed = l.crossed /\ m.missed = l.missed
    /\ m.tx = IF l.up THEN Append(l.tx, V!Line(kind, value, 0)) ELSE l.tx
    /\ m.lost = IF l.up THEN l.lost \ {kind} ELSE l.lost \cup {kind}

LEMMA SendIs ==
    ASSUME NEW l \in Links, NEW kind \in Subjects, NEW value \in Values
    PROVE  Sent(l, kind, value, V!Send(l, kind, value))
<1>1. V!Line(kind, value, 0) \in Wires
  BY LineIs
<1>2. Append(l.tx, V!Line(kind, value, 0)) \in Seq(Wires) /\ l.up \in BOOLEAN
  BY <1>1 DEF Links
<1>3. CASE l.up
  BY <1>2, <1>3 DEF V!Send, Links, Sent
<1>4. CASE ~l.up
  BY <1>4 DEF V!Send, Links, Sent
<1> QED
  BY <1>2, <1>3, <1>4

\* What is sent, or forgotten, leaves alone what was said of anything else.
LEMMA SendKeeps ==
    ASSUME NEW l \in Links, NEW kind \in Subjects, NEW value \in Values, Ends(l),
           NEW m, m = V!Send(l, kind, value)
    PROVE  /\ Ends(m)
           /\ Kinds(l) => Kinds(m)
           /\ Questions(l) => Questions(m)
           /\ IdleSaid(l) => IdleSaid(m)
           /\ IdleComes(l) => IdleComes(m)
           /\ HoldComes(l) /\ kind # "inhibit_idle" => HoldComes(m)
           /\ SceneComes(l) /\ kind # "game_scene" => SceneComes(m)
           /\ BarComes(l) /\ kind # "desktop_bar" => BarComes(m)
           /\ kind = "inhibit_idle" /\ value = l.game => HoldComes(m)
           /\ kind = "game_scene" /\ value = l.game => SceneComes(m)
           /\ kind = "desktop_bar" /\ value = l.bar => BarComes(m)
<1>1. Sent(l, kind, value, m)
  BY SendIs
<1>2. /\ \A other : other # kind =>
            /\ Holds(m.tx, other) <=> Holds(l.tx, other)
            /\ other \in m.lost <=> other \in l.lost
            /\ \A v : LastSays(l.tx, other, {}, v) => LastSays(m.tx, other, {}, v)
      /\ kind \notin m.lost => m.up /\ Holds(m.tx, kind)
      /\ LastSays(m.tx, kind, {}, value)
  <2>1. CASE l.up
    <3> DEFINE x == V!Line(kind, value, 0)
    <3>1. x \in Wires /\ x.kind = kind /\ x.value = value /\ l.tx \in Seq(Wires)
      BY LineIs DEF Links
    <3>2. m.tx = Append(l.tx, x) /\ m.lost = l.lost \ {kind} /\ m.up
      BY <1>1, <2>1 DEF Sent
    <3> HIDE DEF x
    <3>3. /\ \A k : Holds(m.tx, k) <=> Holds(l.tx, k) \/ x.kind = k
          /\ \A others : LastSays(m.tx, x.kind, others, x.value)
          /\ \A k, others, v : x.kind # k /\ (LastSays(l.tx, k, others, v) \/ x.kind \in others)
                                  => LastSays(m.tx, k, others, v)
      <4> DEFINE q == l.tx
      <4>1. q \in Seq(Wires) /\ m.tx = Append(q, x)
        BY <3>1, <3>2
      <4> HIDE DEF q
      <4>2. \A k : Holds(m.tx, k) <=> Holds(q, k) \/ x.kind = k
        BY <3>1, <4>1, LineBehind
      <4>3. \A others : LastSays(m.tx, x.kind, others, x.value)
        BY <3>1, <4>1, LineBehind
      <4>4. \A k, others, v : x.kind # k /\ (LastSays(q, k, others, v) \/ x.kind \in others)
                                  => LastSays(m.tx, k, others, v)
        BY <3>1, <4>1, LineBehind
      <4> QED
        BY <4>2, <4>3, <4>4 DEF q
    <3>4. LastSays(m.tx, kind, {}, value)
      BY <3>1, <3>3
    <3>5. ASSUME NEW k, NEW v, k # kind, LastSays(l.tx, k, {}, v) PROVE LastSays(m.tx, k, {}, v)
      BY <3>1, <3>3, <3>5
    <3>6. \A k : Holds(m.tx, k) <=> Holds(l.tx, k) \/ k = kind
      BY <3>1, <3>3
    <3> QED
      BY <3>2, <3>4, <3>5, <3>6
  <2>2. CASE ~l.up
    BY <1>1, <2>2, NothingSaid DEF Ends, Sent
  <2> QED
    BY <2>1, <2>2
<1>3. Ends(m)
  BY <1>1 DEF Ends, Sent
<1>4. Kinds(l) => Kinds(m)
  BY <1>1 DEF Kinds, Sent
<1>5. Questions(l) => Questions(m)
  BY <1>1 DEF Questions, Sent
<1>6. IdleSaid(l) => IdleSaid(m)
  BY <1>1 DEF IdleSaid, Sent
<1>7. IdleComes(l) => IdleComes(m)
  BY <1>1 DEF IdleComes, Sent
<1>8. HoldComes(l) /\ kind # "inhibit_idle" => HoldComes(m)
  BY <1>1, <1>2 DEF HoldComes, Sent
<1>9. SceneComes(l) /\ kind # "game_scene" => SceneComes(m)
  BY <1>1, <1>2 DEF SceneComes, Sent
<1>10. BarComes(l) /\ kind # "desktop_bar" => BarComes(m)
  BY <1>1, <1>2 DEF BarComes, Sent
<1>11. kind = "inhibit_idle" /\ value = l.game => HoldComes(m)
  BY <1>1, <1>2 DEF HoldComes, Sent
<1>12. kind = "game_scene" /\ value = l.game => SceneComes(m)
  BY <1>1, <1>2 DEF SceneComes, Sent
<1>13. kind = "desktop_bar" /\ value = l.bar => BarComes(m)
  BY <1>1, <1>2 DEF BarComes, Sent
<1> QED
  BY <1>3, <1>4, <1>5, <1>6, <1>7, <1>8, <1>9, <1>10, <1>11, <1>12, <1>13

\* The end of the questions.
LEMMA TaskEndsSound ==
    ASSUME NEW l \in Links, Ends(l), Kinds(l), Questions(l), IdleSaid(l), IdleComes(l), HoldGoes(l),
           SceneComes(l), BarComes(l)
    PROVE  V!TaskEnds(l) \in Links /\ LinkSound(V!TaskEnds(l))
<1>1. CASE l.game = TRUE
  <2>1. PICK v \in Values : v = TRUE
    BY DEF Values
  <2>2. PICK kind \in Subjects : kind = "inhibit_idle"
    BY DEF Subjects
  <2> DEFINE m == V!Send(l, kind, v)
  <2>3. V!TaskEnds(l) = m /\ v = l.game
    BY <1>1, <2>1, <2>2 DEF V!TaskEnds
  <2> HIDE DEF m
  <2>4. m = V!Send(l, kind, v)
    BY DEF m
  <2>5. m \in Links
    BY <2>4, SendIs DEF Sent
  <2>6. /\ Ends(m) /\ Kinds(m) /\ Questions(m) /\ IdleSaid(m) /\ IdleComes(m) /\ HoldComes(m)
        /\ SceneComes(m) /\ BarComes(m)
    BY <2>2, <2>3, <2>4, SendKeeps
  <2> QED
    BY <2>3, <2>5, <2>6 DEF LinkSound
<1>2. CASE l.game = FALSE
  <2>1. HoldComes(l)
    BY <1>2 DEF HoldComes, HoldGoes
  <2> QED
    BY <1>2, <2>1 DEF V!TaskEnds, LinkSound
<1> QED
  BY <1>1, <1>2 DEF Links

\* Everyone who asks but one waits for his own answer.
QuestionsBut(l, id) ==
    /\ l.next_id >= 1
    /\ l.pending \subseteq 1..(l.next_id - 1) /\ l.asking \subseteq 1..(l.next_id - 1)
    /\ \A a \in l.asking : a = id \/ a \in l.pending \/ \E r \in l.replies : r.id = a
    /\ \A r \in l.replies : r.id # id /\ r.id \in l.asking \ l.pending
    /\ \A r, q \in l.replies : r.id = q.id => r = q

\* Nobody answers.
LEMMA UnansweredSound ==
    ASSUME NEW l \in Links, NEW id \in Nat, Ends(l), Kinds(l), QuestionsBut(l, id), IdleSaid(l), IdleComes(l),
           HoldComes(l), SceneComes(l), BarComes(l)
    PROVE  V!Unanswered(l, id) \in Links /\ LinkSound(V!Unanswered(l, id))
<1> DEFINE missed == l.missed \/ id = l.next_id - 1
           m == [l EXCEPT !.asking = l.asking \ {id}, !.missed = missed]
<1>1. missed \in BOOLEAN
  BY DEF Links
<1>2. V!Unanswered(l, id) = V!TaskEnds(m)
  <2>1. [l EXCEPT !.asking = @ \ {id}, !.missed = @ \/ id = l.next_id - 1] = m
    BY DEF Links
  <2> QED
    BY <2>1 DEF V!Unanswered
<1> HIDE DEF missed
<1>3. /\ m \in Links
      /\ m.wm = l.wm /\ m.n = l.n /\ m.up = l.up /\ m.tx = l.tx /\ m.rx = l.rx /\ m.events = l.events
      /\ m.replies = l.replies /\ m.pending = l.pending /\ m.next_id = l.next_id
      /\ m.asking = l.asking \ {id} /\ m.idle = l.idle /\ m.game = l.game /\ m.running = l.running
      /\ m.noticed = l.noticed /\ m.settle = l.settle /\ m.bar = l.bar
      /\ m.crossed = l.crossed /\ m.missed = missed /\ m.lost = l.lost
  BY <1>1 DEF Links
<1> HIDE DEF m
<1>4. Ends(m) /\ Kinds(m)
  BY <1>3 DEF Ends, Kinds
<1>5. Questions(m)
  BY <1>3 DEF Questions, QuestionsBut
<1>6. IdleSaid(m)
  BY <1>3 DEF IdleSaid
<1>7. IdleComes(m)
  BY <1>3 DEF IdleComes, missed
<1>8. HoldGoes(m)
  BY <1>3 DEF HoldComes, HoldGoes
<1>9. SceneComes(m) /\ BarComes(m)
  BY <1>3 DEF SceneComes, BarComes
<1> QED
  BY <1>2, <1>3, <1>4, <1>5, <1>6, <1>7, <1>8, <1>9, TaskEndsSound

LEMMA ConnectStep ==
    ASSUME LinkInv, V!Connect
    PROVE  LinkInv'
<1> DEFINE x == V!Line("Connected", "", 0)
<1>1. x \in Wires /\ x.kind = "Connected"
  <2>1. "Connected" \in Subjects /\ "" \in Values /\ 0 \in Nat
    BY DEF Subjects, Values
  <2> QED
    BY <2>1 DEF V!Line, Wires
<1>2. /\ link \in Links /\ link.events \in Seq(Wires) /\ link.n \in Nat /\ link.up = FALSE
      /\ link.tx = <<>> /\ link.rx = <<>> /\ link.wm.holds \subseteq 1..link.n
  BY DEF V!Connect, LinkInv, LinkTyped, LinkSound, Ends, Links
<1>3. link' = [link EXCEPT !.up = TRUE, !.n = link.n + 1, !.events = Append(link.events, x)]
  BY <1>2 DEF V!Connect, Links
<1> HIDE DEF x
<1>4. Append(link.events, x) \in Seq(Wires) /\ link.n + 1 \in Nat
  BY <1>1, <1>2
<1>5. /\ link' \in Links
      /\ link'.wm = link.wm /\ link'.n = link.n + 1 /\ link'.up = TRUE /\ link'.tx = <<>> /\ link'.rx = <<>>
      /\ link'.events = Append(link.events, x)
      /\ link'.replies = link.replies /\ link'.pending = link.pending /\ link'.next_id = link.next_id
      /\ link'.asking = link.asking /\ link'.idle = link.idle /\ link'.game = link.game
      /\ link'.running = link.running /\ link'.noticed = link.noticed /\ link'.settle = link.settle
      /\ link'.bar = link.bar /\ link'.crossed = link.crossed /\ link'.missed = link.missed
      /\ link'.lost = link.lost
  BY <1>2, <1>3, <1>4 DEF Links
<1>6. /\ Holds(link'.events, "Connected")
      /\ LastSays(link'.events, "idle", {"Connected"}, link'.wm.idle)
      /\ \A i \in DOMAIN link'.events : link'.events[i] = x \/ \E j \in DOMAIN link.events : link'.events[i] = link.events[j]
  <2>1. Holds(link'.events, "Connected")
    BY <1>1, <1>2, <1>5, LineBehind
  <2>2. LastSays(link'.events, "idle", {"Connected"}, link'.wm.idle)
    BY <1>1, <1>2, <1>5, LineBehind
  <2>3. \A i \in DOMAIN link'.events : link'.events[i] = x \/ \E j \in DOMAIN link.events : link'.events[i] = link.events[j]
    BY <1>2, <1>5, Grown
  <2> QED
    BY <2>1, <2>2, <2>3
<1>7. Ends(link')
  <2>1. \A h \in link.wm.holds : h \in 1..(link.n + 1)
    BY <1>2
  <2> QED
    BY <1>2, <1>5, <2>1 DEF LinkInv, LinkSound, Ends
<1>8. Kinds(link')
  BY <1>1, <1>5, <1>6, NothingSaid DEF LinkInv, LinkSound, Kinds
<1>9. Questions(link')
  BY <1>5 DEF LinkInv, LinkSound, Questions
<1>10. IdleSaid(link') /\ IdleComes(link')
  BY <1>5, <1>6, NothingSaid DEF IdleSaid, IdleComes
<1>11. HoldComes(link')
  <2>1. link.n + 1 \notin link.wm.holds
    BY <1>2
  <2>2. LastSays(link'.tx, "inhibit_idle", {}, link'.game)
    BY <1>5, NothingSaid
  <2>3. link'.game \in BOOLEAN
    BY <1>5 DEF Links
  <2> QED
    BY <1>5, <1>6, <2>1, <2>2, <2>3 DEF HoldComes
<1>12. SceneComes(link') /\ BarComes(link')
  BY <1>2, <1>5 DEF LinkInv, LinkSound, SceneComes, BarComes
<1> QED
  BY <1>5, <1>7, <1>8, <1>9, <1>10, <1>11, <1>12 DEF LinkInv, LinkTyped, LinkSound

LEMMA DisconnectStep ==
    ASSUME LinkInv, NEW forgotten \in BOOLEAN, V!Disconnect(forgotten)
    PROVE  LinkInv'
<1> DEFINE x == V!Line("Disconnected", "", 0)
           holds == IF forgotten THEN link.wm.holds ELSE link.wm.holds \ {link.n}
           wm == [link.wm EXCEPT !.holds = holds]
           lost == link.lost \cup {link.tx[i].kind : i \in DOMAIN link.tx}
           errors == {V!Line("error", "", id) : id \in link.pending \cap link.asking}
<1>1. /\ x \in Wires /\ x.kind = "Disconnected"
      /\ \A id \in Nat : V!Line("error", "", id) \in Wires /\ V!Line("error", "", id).id = id
  <2>1. "Disconnected" \in Subjects /\ "error" \in Subjects /\ "" \in Values /\ 0 \in Nat
    BY DEF Subjects, Values
  <2>2. x \in Wires /\ x.kind = "Disconnected"
    BY <2>1 DEF V!Line, Wires
  <2>3. \A id \in Nat : V!Line("error", "", id) \in Wires /\ V!Line("error", "", id).id = id
    BY <2>1 DEF V!Line, Wires
  <2> QED
    BY <2>2, <2>3
<1>2. /\ link \in Links /\ link.events \in Seq(Wires) /\ link.wm.holds \subseteq 1..link.n
      /\ link.tx \in Seq(Wires) /\ link.pending \subseteq Nat /\ link.lost \subseteq Subjects
      /\ link.replies \subseteq Wires
      /\ link.wm \in [idle : Values, holds : SUBSET Nat, scene : Values, bar : Values]
  BY DEF LinkInv, LinkTyped, LinkSound, Ends, Links
<1>3. link' = [link EXCEPT !.up = FALSE, !.tx = <<>>, !.rx = <<>>, !.wm = wm, !.lost = lost,
                           !.replies = link.replies \cup errors, !.pending = {},
                           !.events = Append(link.events, x)]
  BY <1>2 DEF V!Disconnect, Links
<1>4. /\ wm \in [idle : Values, holds : SUBSET Nat, scene : Values, bar : Values]
      /\ wm.holds \subseteq link.wm.holds /\ wm.idle = link.wm.idle /\ wm.scene = link.wm.scene /\ wm.bar = link.wm.bar
  BY <1>2
<1>5. lost \subseteq Subjects /\ link.lost \subseteq lost /\ \A kind : kind \notin lost => ~Holds(link.tx, kind)
  <2>1. \A i \in DOMAIN link.tx : link.tx[i] \in Wires
    BY <1>2
  <2>2. \A i \in DOMAIN link.tx : link.tx[i].kind \in Subjects
    BY <2>1 DEF Wires
  <2> QED
    BY <1>2, <2>2 DEF Holds
<1>6. /\ errors \subseteq Wires
      /\ \A r \in errors : r.id \in link.pending \cap link.asking
      /\ \A r, q \in errors : r.id = q.id => r = q
      /\ \A id \in link.pending \cap link.asking : \E r \in errors : r.id = id
  <2> DEFINE error(id) == V!Line("error", "", id)
  <2>1. \A id \in link.pending \cap link.asking : error(id) \in Wires /\ error(id).id = id
    BY <1>1, <1>2
  <2>2. errors = {error(id) : id \in link.pending \cap link.asking}
    OBVIOUS
  <2> HIDE DEF error, errors
  <2> QED
    BY <2>1, <2>2
<1> HIDE DEF x, wm, lost, errors, holds
<1>7. Append(link.events, x) \in Seq(Wires)
  <2>1. link.events \in Seq(Wires) /\ x \in Wires
    BY <1>1, <1>2
  <2> QED
    BY <2>1
<1>8. link.replies \cup errors \subseteq Wires
  BY <1>2, <1>6
<1>9. /\ link' \in Links
      /\ link'.wm = wm /\ link'.n = link.n /\ link'.up = FALSE /\ link'.tx = <<>> /\ link'.rx = <<>>
      /\ link'.events = Append(link.events, x)
      /\ link'.replies = link.replies \cup errors /\ link'.pending = {} /\ link'.next_id = link.next_id
      /\ link'.asking = link.asking /\ link'.idle = link.idle /\ link'.game = link.game
      /\ link'.running = link.running /\ link'.noticed = link.noticed /\ link'.settle = link.settle
      /\ link'.bar = link.bar /\ link'.crossed = link.crossed /\ link'.missed = link.missed
      /\ link'.lost = lost
  BY <1>2, <1>3, <1>4, <1>5, <1>7, <1>8, NothingSaid DEF Links
<1>10. \A i \in DOMAIN link'.events : link'.events[i] = x \/ \E j \in DOMAIN link.events : link'.events[i] = link.events[j]
  BY <1>2, <1>9, Grown
<1>11. Ends(link')
  BY <1>4, <1>9 DEF LinkInv, LinkSound, Ends
<1>12. Kinds(link')
  BY <1>1, <1>9, <1>10, NothingSaid DEF LinkInv, LinkSound, Kinds
<1>13. Questions(link')
  BY <1>6, <1>9 DEF LinkInv, LinkSound, Questions
<1>14. IdleSaid(link') /\ IdleComes(link')
  BY <1>9, NothingSaid DEF IdleSaid, IdleComes
<1>15. HoldComes(link')
  BY <1>9, NothingSaid DEF HoldComes
<1>16. SceneComes(link') /\ BarComes(link')
  BY <1>4, <1>5, <1>9, NothingSaid DEF LinkInv, LinkSound, SceneComes, BarComes
<1> QED
  BY <1>9, <1>11, <1>12, <1>13, <1>14, <1>15, <1>16 DEF LinkInv, LinkTyped, LinkSound

\* The compositor answers.
LEMMA ReplySound ==
    ASSUME NEW l \in Links, LinkSound(l), l.up, NEW v \in Values, NEW id \in Nat, id # 0,
           NEW m, m = [l EXCEPT !.rx = Append(@, V!Line("reply", v, id))]
    PROVE  m \in Links /\ LinkSound(m)
<1> DEFINE x == V!Line("reply", v, id)
<1>1. x \in Wires /\ x.kind = "reply" /\ x.id = id
  BY LineIs DEF Subjects
<1>2. l.rx \in Seq(Wires)
  BY DEF Links
<1>3. m = [l EXCEPT !.rx = Append(l.rx, x)]
  OBVIOUS
<1> HIDE DEF x
<1>4. Append(l.rx, x) \in Seq(Wires)
  BY <1>1, <1>2
<1>5. /\ m \in Links
      /\ m.wm = l.wm /\ m.n = l.n /\ m.up = l.up /\ m.tx = l.tx /\ m.rx = Append(l.rx, x)
      /\ m.events = l.events /\ m.replies = l.replies /\ m.pending = l.pending /\ m.next_id = l.next_id
      /\ m.asking = l.asking /\ m.idle = l.idle /\ m.game = l.game /\ m.running = l.running
      /\ m.noticed = l.noticed /\ m.settle = l.settle /\ m.bar = l.bar
      /\ m.crossed = l.crossed /\ m.missed = l.missed /\ m.lost = l.lost
  BY <1>3, <1>4 DEF Links
<1>6. /\ \A kind : Holds(m.rx, kind) <=> Holds(l.rx, kind) \/ x.kind = kind
      /\ \A kind, others, value : x.kind # kind /\ (LastSays(l.rx, kind, others, value) \/ x.kind \in others)
                                     => LastSays(m.rx, kind, others, value)
      /\ \A i \in DOMAIN m.rx : m.rx[i] = x \/ \E j \in DOMAIN l.rx : m.rx[i] = l.rx[j]
  <2>1. \A kind : Holds(m.rx, kind) <=> Holds(l.rx, kind) \/ x.kind = kind
    BY <1>1, <1>2, <1>5, LineBehind
  <2>2. \A kind, others, value : x.kind # kind /\ (LastSays(l.rx, kind, others, value) \/ x.kind \in others)
                                     => LastSays(m.rx, kind, others, value)
    BY <1>1, <1>2, <1>5, LineBehind
  <2>3. \A i \in DOMAIN m.rx : m.rx[i] = x \/ \E j \in DOMAIN l.rx : m.rx[i] = l.rx[j]
    BY <1>2, <1>5, Grown
  <2> QED
    BY <2>1, <2>2, <2>3
<1>7. Ends(m) /\ Questions(m)
  BY <1>5 DEF LinkSound, Ends, Questions
<1>8. Kinds(m)
  BY <1>1, <1>5, <1>6 DEF LinkSound, Kinds
<1>9. IdleSaid(m) /\ IdleComes(m)
  BY <1>1, <1>5, <1>6 DEF LinkSound, IdleSaid, IdleComes
<1>10. HoldComes(m) /\ SceneComes(m) /\ BarComes(m)
  BY <1>5 DEF LinkSound, HoldComes, SceneComes, BarComes
<1> QED
  BY <1>5, <1>7, <1>8, <1>9, <1>10 DEF LinkSound

\* It goes idle or wakes, and says so.
LEMMA IdleToldSound ==
    ASSUME NEW l \in Links, LinkSound(l), l.up, NEW v \in {"active", "locked"},
           NEW m, m = [l EXCEPT !.wm.idle = v, !.rx = Append(@, V!Line("idle", v, 0))]
    PROVE  m \in Links /\ LinkSound(m)
<1> DEFINE x == V!Line("idle", v, 0)
           wm == [l.wm EXCEPT !.idle = v]
<1>1. x \in Wires /\ x.kind = "idle" /\ x.value = v /\ x.id = 0 /\ v \in Values
  <2>1. "idle" \in Subjects /\ v \in Values /\ 0 \in Nat
    BY DEF Subjects, Values
  <2> QED
    BY <2>1, LineIs
<1>2. l.rx \in Seq(Wires) /\ l.wm \in [idle : Values, holds : SUBSET Nat, scene : Values, bar : Values]
  BY DEF Links
<1>3. m = [l EXCEPT !.wm = wm, !.rx = Append(l.rx, x)]
  BY DEF Links
<1>4. /\ wm \in [idle : Values, holds : SUBSET Nat, scene : Values, bar : Values]
      /\ wm.holds = l.wm.holds /\ wm.idle = v /\ wm.scene = l.wm.scene /\ wm.bar = l.wm.bar
  BY <1>1, <1>2
<1> HIDE DEF x, wm
<1>5. Append(l.rx, x) \in Seq(Wires)
  BY <1>1, <1>2
<1>6. /\ m \in Links
      /\ m.wm = wm /\ m.n = l.n /\ m.up = l.up /\ m.tx = l.tx /\ m.rx = Append(l.rx, x)
      /\ m.events = l.events /\ m.replies = l.replies /\ m.pending = l.pending /\ m.next_id = l.next_id
      /\ m.asking = l.asking /\ m.idle = l.idle /\ m.game = l.game /\ m.running = l.running
      /\ m.noticed = l.noticed /\ m.settle = l.settle /\ m.bar = l.bar
      /\ m.crossed = l.crossed /\ m.missed = l.missed /\ m.lost = l.lost
  BY <1>3, <1>4, <1>5, ZenonT(60) DEF Links
<1>7. /\ Holds(m.rx, "idle") /\ LastSays(m.rx, "idle", {}, v)
      /\ \A i \in DOMAIN m.rx : m.rx[i] = x \/ \E j \in DOMAIN l.rx : m.rx[i] = l.rx[j]
  <2>1. Holds(m.rx, "idle")
    BY <1>1, <1>2, <1>6, LineBehind
  <2>2. LastSays(m.rx, x.kind, {}, x.value)
    <3> DEFINE q == l.rx
    <3>1. q \in Seq(Wires) /\ m.rx = Append(q, x) /\ x \in Wires
      BY <1>1, <1>2, <1>6
    <3> HIDE DEF q
    <3>2. \A others : LastSays(m.rx, x.kind, others, x.value)
      BY <3>1, LineBehind
    <3> QED
      BY <3>2
  <2>3. \A i \in DOMAIN m.rx : m.rx[i] = x \/ \E j \in DOMAIN l.rx : m.rx[i] = l.rx[j]
    BY <1>2, <1>6, Grown
  <2> QED
    BY <1>1, <2>1, <2>2, <2>3
<1>8. Ends(m) /\ Questions(m)
  BY <1>4, <1>6 DEF LinkSound, Ends, Questions
<1>9. Kinds(m)
  BY <1>1, <1>6, <1>7 DEF LinkSound, Kinds
<1>10. IdleSaid(m) /\ IdleComes(m)
  BY <1>4, <1>6, <1>7 DEF IdleSaid, IdleComes
<1>11. HoldComes(m) /\ SceneComes(m) /\ BarComes(m)
  BY <1>4, <1>6 DEF LinkSound, HoldComes, SceneComes, BarComes
<1> QED
  BY <1>6, <1>8, <1>9, <1>10, <1>11 DEF LinkSound

LEMMA ServeStep ==
    ASSUME LinkInv, V!Serve
    PROVE  LinkInv'
<1> DEFINE line == Head(link.tx)
           rest == Tail(link.tx)
           l == [link EXCEPT !.tx = rest]
           told(m, v) == IF line.id = 0 THEN m ELSE [m EXCEPT !.rx = Append(@, V!Line("reply", v, line.id))]
<1>1. /\ link \in Links /\ LinkSound(link) /\ link.up = TRUE /\ link.tx \in Seq(Wires) /\ link.tx # <<>>
  BY DEF LinkInv, LinkTyped, Links, V!Serve
<1>2. /\ \A kind : Holds(link.tx, kind) <=> Holds(rest, kind) \/ line.kind = kind
      /\ \A kind, v : LastSays(link.tx, kind, {}, v) => LastSays(rest, kind, {}, v)
      /\ \A kind, v : LastSays(link.tx, kind, {}, v) /\ line.kind = kind /\ ~Holds(rest, kind) => line.value = v
      /\ line \in Wires /\ rest \in Seq(Wires)
  <2>1. /\ \A kind : Holds(link.tx, kind) <=> Holds(rest, kind) \/ line.kind = kind
        /\ line \in Wires /\ rest \in Seq(Wires)
    BY <1>1, LineTaken
  <2>2. \A kind, others, v : LastSays(link.tx, kind, others, v) => LastSays(rest, kind, others, v)
    BY <1>1, LineTaken
  <2>3. \A kind, others, v :
           LastSays(link.tx, kind, others, v) /\ line.kind = kind
              /\ (\A k \in others \cup {kind} : ~Holds(rest, k)) => line.value = v
    BY <1>1, LineTaken
  <2> HIDE DEF line, rest
  <2>4. ASSUME NEW kind, NEW v, LastSays(link.tx, kind, {}, v), line.kind = kind, ~Holds(rest, kind)
        PROVE  line.value = v
    BY <2>3, <2>4
  <2> QED
    BY <2>1, <2>2, <2>4
<1>3. link' = CASE line.kind = "inhibit_idle" ->
                       [l EXCEPT !.wm.holds = IF line.value THEN @ \cup {l.n} ELSE @ \ {l.n}]
                [] line.kind = "game_scene" -> [l EXCEPT !.wm.scene = line.value]
                [] line.kind = "desktop_bar" -> [l EXCEPT !.wm.bar = line.value]
                [] line.kind = "unlock" ->
                       told([l EXCEPT !.wm.idle = "active",
                                       !.rx = Append(@, V!Line("idle", "active", 0))], "")
                [] line.kind = "get_idle" -> told(l, l.wm.idle)
                [] OTHER -> told(l, "")
  BY DEF V!Serve
<1> HIDE DEF line, rest
<1>4. line.value \in Values /\ line.id \in Nat /\ line.kind \in Subjects
  BY <1>2 DEF Wires
<1>5. /\ l \in Links
      /\ l.wm = link.wm /\ l.n = link.n /\ l.up = TRUE /\ l.tx = rest /\ l.rx = link.rx
      /\ l.events = link.events /\ l.replies = link.replies /\ l.pending = link.pending
      /\ l.next_id = link.next_id /\ l.asking = link.asking /\ l.idle = link.idle /\ l.game = link.game
      /\ l.running = link.running /\ l.noticed = link.noticed /\ l.settle = link.settle /\ l.bar = link.bar
      /\ l.crossed = link.crossed /\ l.missed = link.missed /\ l.lost = link.lost
  BY <1>1, <1>2 DEF Links
<1> HIDE DEF l
<1>6. l.wm \in [idle : Values, holds : SUBSET Nat, scene : Values, bar : Values] /\ l.n \in Nat
      /\ l.game \in BOOLEAN
  BY <1>5 DEF Links
<1>7. CASE line.kind \in {"inhibit_idle", "game_scene", "desktop_bar"}
  <2> DEFINE holds == IF line.value THEN l.wm.holds \cup {l.n} ELSE l.wm.holds \ {l.n}
  <2>1. PICK wm : /\ link' = [l EXCEPT !.wm = wm]
                  /\ wm \in [idle : Values, holds : SUBSET Nat, scene : Values, bar : Values]
                  /\ wm.idle = l.wm.idle
                  /\ wm.holds = IF line.kind = "inhibit_idle" THEN holds ELSE l.wm.holds
                  /\ wm.scene = IF line.kind = "game_scene" THEN line.value ELSE l.wm.scene
                  /\ wm.bar = IF line.kind = "desktop_bar" THEN line.value ELSE l.wm.bar
    <3>1. CASE line.kind = "inhibit_idle"
      <4> DEFINE wm == [l.wm EXCEPT !.holds = holds]
      <4>1. link' = [l EXCEPT !.wm = wm]
        BY <1>3, <1>5, <3>1 DEF Links
      <4>2. holds \in SUBSET Nat
        BY <1>6
      <4> HIDE DEF holds
      <4>3. wm \in [idle : Values, holds : SUBSET Nat, scene : Values, bar : Values]
            /\ wm.idle = l.wm.idle /\ wm.holds = holds /\ wm.scene = l.wm.scene /\ wm.bar = l.wm.bar
        BY <1>6, <4>2
      <4> HIDE DEF wm
      <4> QED
        BY <3>1, <4>1, <4>3
    <3>2. CASE line.kind = "game_scene"
      <4> DEFINE wm == [l.wm EXCEPT !.scene = line.value]
      <4>1. link' = [l EXCEPT !.wm = wm]
        BY <1>3, <1>5, <3>2 DEF Links
      <4>3. wm \in [idle : Values, holds : SUBSET Nat, scene : Values, bar : Values]
            /\ wm.idle = l.wm.idle /\ wm.holds = l.wm.holds /\ wm.scene = line.value /\ wm.bar = l.wm.bar
        BY <1>4, <1>6
      <4> HIDE DEF wm
      <4> QED
        BY <3>2, <4>1, <4>3
    <3>3. CASE line.kind = "desktop_bar"
      <4> DEFINE wm == [l.wm EXCEPT !.bar = line.value]
      <4>1. link' = [l EXCEPT !.wm = wm]
        BY <1>3, <1>5, <3>3 DEF Links
      <4>3. wm \in [idle : Values, holds : SUBSET Nat, scene : Values, bar : Values]
            /\ wm.idle = l.wm.idle /\ wm.holds = l.wm.holds /\ wm.scene = l.wm.scene /\ wm.bar = line.value
        BY <1>4, <1>6
      <4> HIDE DEF wm
      <4> QED
        BY <3>3, <4>1, <4>3
    <3> QED
      BY <1>7, <3>1, <3>2, <3>3
  <2>2. /\ link' \in Links
        /\ link'.wm = wm /\ link'.n = l.n /\ link'.up = TRUE /\ link'.tx = rest /\ link'.rx = l.rx
        /\ link'.events = l.events /\ link'.replies = l.replies /\ link'.pending = l.pending
        /\ link'.next_id = l.next_id /\ link'.asking = l.asking /\ link'.idle = l.idle /\ link'.game = l.game
        /\ link'.running = l.running /\ link'.noticed = l.noticed /\ link'.settle = l.settle /\ link'.bar = l.bar
        /\ link'.crossed = l.crossed /\ link'.missed = l.missed /\ link'.lost = l.lost
    BY <1>5, <2>1 DEF Links
  <2> HIDE DEF holds
  <2>3. Ends(link')
    <3>1. l.wm.holds \subseteq 1..l.n /\ l.n >= 1
      BY <1>1, <1>5 DEF LinkSound, Ends
    <3>2. wm.holds \subseteq 1..l.n
      BY <1>6, <2>1, <3>1 DEF holds
    <3> QED
      BY <1>1, <1>5, <2>2, <3>1, <3>2 DEF LinkSound, Ends
  <2>4. Kinds(link') /\ Questions(link')
    BY <1>1, <1>5, <2>2 DEF LinkSound, Kinds, Questions
  <2>5. IdleSaid(link') /\ IdleComes(link')
    BY <1>1, <1>5, <2>1, <2>2 DEF LinkSound, IdleSaid, IdleComes
  <2>6. HoldComes(link')
    <3>1. CASE line.kind = "inhibit_idle"
      <4>1. LastSays(link.tx, "inhibit_idle", {}, link.game)
        BY <1>1 DEF LinkSound, HoldComes
      <4>2. LastSays(rest, "inhibit_idle", {}, link.game)
        BY <1>2, <4>1
      <4>3. ~Holds(rest, "inhibit_idle") => line.value = link.game
        BY <1>2, <3>1, <4>1
      <4>4. line.value = TRUE => l.n \in holds
        BY DEF holds
      <4>5. line.value = FALSE => l.n \notin holds
        BY DEF holds
      <4>6. ~Holds(rest, "inhibit_idle") => (l.n \in holds <=> link.game)
        BY <1>5, <1>6, <4>3, <4>4, <4>5
      <4> QED
        BY <1>5, <2>1, <2>2, <3>1, <4>2, <4>6 DEF HoldComes
    <3>2. CASE line.kind # "inhibit_idle"
      <4>1. LastSays(rest, "inhibit_idle", {}, link.game)
        BY <1>1, <1>2 DEF LinkSound, HoldComes
      <4>2. Holds(rest, "inhibit_idle") <=> Holds(link.tx, "inhibit_idle")
        BY <1>2, <3>2
      <4> QED
        BY <1>1, <1>5, <2>1, <2>2, <3>2, <4>1, <4>2 DEF LinkSound, HoldComes
    <3> QED
      BY <3>1, <3>2
  <2>7. SceneComes(link')
    <3>1. \A v : LastSays(link.tx, "game_scene", {}, v) => LastSays(rest, "game_scene", {}, v)
      BY <1>2
    <3>2. \A v : LastSays(link.tx, "game_scene", {}, v) /\ line.kind = "game_scene" /\ ~Holds(rest, "game_scene")
                   => line.value = v
      BY <1>2
    <3>3. line.kind # "game_scene" => (Holds(rest, "game_scene") <=> Holds(link.tx, "game_scene"))
      BY <1>2
    <3> QED
      BY <1>1, <1>5, <2>1, <2>2, <3>1, <3>2, <3>3 DEF LinkSound, SceneComes
  <2>8. BarComes(link')
    <3>1. \A v : LastSays(link.tx, "desktop_bar", {}, v) => LastSays(rest, "desktop_bar", {}, v)
      BY <1>2
    <3>2. \A v : LastSays(link.tx, "desktop_bar", {}, v) /\ line.kind = "desktop_bar" /\ ~Holds(rest, "desktop_bar")
                   => line.value = v
      BY <1>2
    <3>3. line.kind # "desktop_bar" => (Holds(rest, "desktop_bar") <=> Holds(link.tx, "desktop_bar"))
      BY <1>2
    <3> QED
      BY <1>1, <1>5, <2>1, <2>2, <3>1, <3>2, <3>3 DEF LinkSound, BarComes
  <2> QED
    BY <2>2, <2>3, <2>4, <2>5, <2>6, <2>7, <2>8 DEF LinkInv, LinkTyped, LinkSound
<1>8. CASE line.kind \notin {"inhibit_idle", "game_scene", "desktop_bar"}
  <2>1. LinkSound(l)
    <3>1. Ends(l) /\ Kinds(l) /\ Questions(l)
      BY <1>1, <1>5 DEF LinkSound, Ends, Kinds, Questions
    <3>2. IdleSaid(l) /\ IdleComes(l)
      BY <1>1, <1>5 DEF LinkSound, IdleSaid, IdleComes
    <3>3. \A kind \in {"inhibit_idle", "game_scene", "desktop_bar"} :
             /\ Holds(rest, kind) <=> Holds(link.tx, kind)
             /\ \A v : LastSays(link.tx, kind, {}, v) => LastSays(rest, kind, {}, v)
      BY <1>2, <1>8
    <3>4. HoldComes(l) /\ SceneComes(l) /\ BarComes(l)
      BY <1>1, <1>5, <3>3 DEF LinkSound, HoldComes, SceneComes, BarComes
    <3> QED
      BY <3>1, <3>2, <3>4 DEF LinkSound
  <2>2. ASSUME NEW m \in Links, LinkSound(m), m.up = TRUE, NEW v \in Values PROVE told(m, v) \in Links /\ LinkSound(told(m, v))
    <3>1. CASE line.id = 0
      BY <2>2, <3>1
    <3>2. CASE line.id # 0
      BY <1>4, <2>2, <3>2, ReplySound
    <3> QED
      BY <3>1, <3>2
  <2>3. CASE line.kind = "unlock"
    <3>1. PICK v \in {"active", "locked"} : v = "active"
      OBVIOUS
    <3> DEFINE m == [l EXCEPT !.wm.idle = v, !.rx = Append(@, V!Line("idle", v, 0))]
    <3>2. link' = told(m, "")
      BY <1>3, <2>3, <3>1
    <3>3. m.up = l.up
      BY <1>5, SMTT(30) DEF Links
    <3>4. m \in Links /\ LinkSound(m)
      <4> HIDE DEF m
      <4>1. m = [l EXCEPT !.wm.idle = v, !.rx = Append(@, V!Line("idle", v, 0))]
        BY DEF m
      <4> QED
        BY <1>5, <2>1, <4>1, IdleToldSound
    <3> HIDE DEF m, told
    <3>5. "" \in Values
      BY DEF Values
    <3> QED
      BY <1>5, <2>2, <3>2, <3>3, <3>4, <3>5 DEF LinkInv, LinkTyped
  <2>4. CASE line.kind # "unlock"
    <3>1. PICK v \in Values : link' = told(l, v)
      <4>1. l.wm.idle \in Values /\ "" \in Values
        BY <1>6 DEF Values
      <4> HIDE DEF told
      <4>2. CASE line.kind = "get_idle"
        BY <1>3, <4>1, <4>2
      <4>3. CASE line.kind # "get_idle"
        BY <1>3, <1>8, <2>4, <4>1, <4>3
      <4> QED
        BY <4>2, <4>3
    <3> HIDE DEF told
    <3> QED
      BY <1>5, <2>1, <2>2, <3>1 DEF LinkInv, LinkTyped
  <2> QED
    BY <2>3, <2>4
<1> QED
  BY <1>7, <1>8

LEMMA IdlesStep ==
    ASSUME LinkInv, V!CompositorIdles
    PROVE  LinkInv'
<1>1. link \in Links /\ LinkSound(link) /\ link.turns + 1 \in Nat
  BY DEF LinkInv, LinkTyped, Links
<1>2. PICK new \in {"active", "locked"} :
         link' = [link EXCEPT !.wm.idle = new, !.turns = @ + 1,
                              !.rx = IF link.up THEN Append(@, V!Line("idle", new, 0)) ELSE @]
  BY DEF V!CompositorIdles
<1> DEFINE l == [link EXCEPT !.turns = @ + 1]
<1>3. /\ l \in Links
      /\ l.wm = link.wm /\ l.n = link.n /\ l.up = link.up /\ l.tx = link.tx /\ l.rx = link.rx
      /\ l.events = link.events /\ l.replies = link.replies /\ l.pending = link.pending
      /\ l.next_id = link.next_id /\ l.asking = link.asking /\ l.idle = link.idle /\ l.game = link.game
      /\ l.running = link.running /\ l.noticed = link.noticed /\ l.settle = link.settle /\ l.bar = link.bar
      /\ l.crossed = link.crossed /\ l.missed = link.missed /\ l.lost = link.lost
  BY <1>1 DEF Links
<1>4. LinkSound(l)
  <2> HIDE DEF l
  <2> QED
    BY <1>1, <1>3 DEF LinkSound, Ends, Kinds, Questions, IdleSaid, IdleComes, HoldComes, SceneComes, BarComes
<1>5. CASE link.up = TRUE
  <2>1. link' = [l EXCEPT !.wm.idle = new, !.rx = Append(@, V!Line("idle", new, 0))]
    BY <1>1, <1>2, <1>5 DEF Links
  <2> HIDE DEF l
  <2> QED
    BY <1>3, <1>4, <1>5, <2>1, IdleToldSound DEF LinkInv, LinkTyped
<1>6. CASE link.up = FALSE
  <2> DEFINE wm == [l.wm EXCEPT !.idle = new]
  <2>1. link' = [l EXCEPT !.wm = wm]
    BY <1>1, <1>2, <1>6 DEF Links
  <2> HIDE DEF l
  <2>2. l.wm \in [idle : Values, holds : SUBSET Nat, scene : Values, bar : Values] /\ new \in Values
    BY <1>3 DEF Links, Values
  <2>3. /\ wm \in [idle : Values, holds : SUBSET Nat, scene : Values, bar : Values]
        /\ wm.holds = l.wm.holds /\ wm.idle = new /\ wm.scene = l.wm.scene /\ wm.bar = l.wm.bar
    BY <2>2
  <2> HIDE DEF wm
  <2>4. /\ link' \in Links
        /\ link'.wm = wm /\ link'.n = l.n /\ link'.up = FALSE /\ link'.tx = l.tx /\ link'.rx = l.rx
        /\ link'.events = l.events /\ link'.replies = l.replies /\ link'.pending = l.pending
        /\ link'.next_id = l.next_id /\ link'.asking = l.asking /\ link'.idle = l.idle /\ link'.game = l.game
        /\ link'.running = l.running /\ link'.noticed = l.noticed /\ link'.settle = l.settle
        /\ link'.bar = l.bar /\ link'.crossed = l.crossed /\ link'.missed = l.missed /\ link'.lost = l.lost
    BY <1>3, <1>6, <2>1, <2>3 DEF Links
  <2>5. Ends(link') /\ Kinds(link') /\ Questions(link')
    BY <1>4, <1>3, <1>6, <2>3, <2>4 DEF LinkSound, Ends, Kinds, Questions
  <2>6. IdleSaid(link') /\ IdleComes(link')
    BY <1>3, <1>4, <1>6, <2>4, NothingSaid DEF LinkSound, Ends, IdleSaid, IdleComes
  <2>7. HoldComes(link') /\ SceneComes(link') /\ BarComes(link')
    BY <1>4, <2>3, <2>4 DEF LinkSound, HoldComes, SceneComes, BarComes
  <2> QED
    BY <2>4, <2>5, <2>6, <2>7 DEF LinkInv, LinkTyped, LinkSound
<1> QED
  BY <1>1, <1>5, <1>6 DEF Links

LEMMA ReadStep ==
    ASSUME LinkInv, V!Read
    PROVE  LinkInv'
<1> DEFINE line == Head(link.rx)
           rest == Tail(link.rx)
<1>1. /\ link \in Links /\ LinkSound(link) /\ link.rx \in Seq(Wires) /\ link.rx # <<>>
      /\ link.events \in Seq(Wires) /\ link.up = TRUE
  BY DEF LinkInv, LinkTyped, Links, V!Read, LinkSound, Ends
<1>2. /\ \A kind : Holds(link.rx, kind) <=> Holds(rest, kind) \/ line.kind = kind
      /\ line \in Wires /\ rest \in Seq(Wires)
      /\ \A i \in DOMAIN rest : \E j \in DOMAIN link.rx : rest[i] = link.rx[j]
      /\ \E j \in DOMAIN link.rx : line = link.rx[j]
  BY <1>1, LineTaken
<1>3. \A kind, others, v : LastSays(link.rx, kind, others, v) => LastSays(rest, kind, others, v)
  BY <1>1, LineTaken
<1>4. \A kind, others, v :
         LastSays(link.rx, kind, others, v) /\ line.kind = kind
            /\ (\A k \in others \cup {kind} : ~Holds(rest, k)) => line.value = v
  BY <1>1, LineTaken
<1>5. link' = IF line.id = 0 THEN [link EXCEPT !.rx = rest, !.events = Append(link.events, line)]
              ELSE [link EXCEPT !.rx = rest, !.pending = link.pending \ {line.id},
                                !.replies = IF line.id \in link.pending \cap link.asking
                                            THEN link.replies \cup {line} ELSE link.replies]
  BY <1>1 DEF V!Read, Links
<1> HIDE DEF line, rest
<1>6. line.value \in Values /\ line.id \in Nat /\ (line.kind = "idle" <=> line.id = 0)
  BY <1>1, <1>2 DEF Wires, LinkSound, Kinds
<1>7. LastSays(rest, "idle", {}, link.wm.idle)
  BY <1>1, <1>3 DEF LinkSound, IdleSaid
<1>8. CASE line.id = 0
  <2>1. link' = [link EXCEPT !.rx = rest, !.events = Append(link.events, line)]
    BY <1>5, <1>8
  <2>2. Append(link.events, line) \in Seq(Wires)
    BY <1>1, <1>2
  <2>3. /\ link' \in Links
        /\ link'.wm = link.wm /\ link'.n = link.n /\ link'.up = TRUE /\ link'.tx = link.tx /\ link'.rx = rest
        /\ link'.events = Append(link.events, line) /\ link'.replies = link.replies
        /\ link'.pending = link.pending /\ link'.next_id = link.next_id /\ link'.asking = link.asking
        /\ link'.idle = link.idle /\ link'.game = link.game /\ link'.running = link.running
        /\ link'.noticed = link.noticed /\ link'.settle = link.settle /\ link'.bar = link.bar
        /\ link'.crossed = link.crossed /\ link'.missed = link.missed /\ link'.lost = link.lost
    BY <1>1, <1>2, <2>1, <2>2 DEF Links
  <2>4. \A kind : Holds(link'.events, kind) <=> Holds(link.events, kind) \/ line.kind = kind
    BY <1>1, <1>2, <2>3, LineBehind
  <2>5. LastSays(link'.events, line.kind, {"Connected"}, line.value)
    <3> DEFINE q == link.events
    <3>1. q \in Seq(Wires) /\ link'.events = Append(q, line) /\ line \in Wires
      BY <1>1, <1>2, <2>3
    <3> HIDE DEF q
    <3>2. \A others : LastSays(link'.events, line.kind, others, line.value)
      BY <3>1, LineBehind
    <3> QED
      BY <3>2
  <2>6. \A i \in DOMAIN link'.events : link'.events[i] = line \/ \E j \in DOMAIN link.events : link'.events[i] = link.events[j]
    BY <1>1, <2>3, Grown
  <2>7. Ends(link') /\ Questions(link')
    BY <1>1, <2>3 DEF LinkSound, Ends, Questions
  <2>8. Kinds(link')
    BY <1>1, <1>2, <1>6, <1>8, <2>3, <2>6 DEF LinkSound, Kinds
  <2>9. IdleSaid(link')
    <3>1. ~Holds(rest, "idle") => line.value = link.wm.idle
      <4>1. LastSays(link.rx, "idle", {}, link.wm.idle)
        BY <1>1 DEF LinkSound, IdleSaid
      <4> QED
        BY <1>4, <1>6, <1>8, <4>1
    <3>2. ~Holds(rest, "idle") => LastSays(link'.events, "idle", {"Connected"}, link.wm.idle)
      BY <1>6, <1>8, <2>5, <3>1
    <3> QED
      BY <1>7, <2>3, <3>2 DEF IdleSaid
  <2>10. IdleComes(link')
    BY <1>6, <1>8, <2>4 DEF IdleComes
  <2>11. HoldComes(link') /\ SceneComes(link') /\ BarComes(link')
    BY <1>1, <2>3, <2>4 DEF LinkSound, HoldComes, SceneComes, BarComes
  <2> QED
    BY <2>3, <2>7, <2>8, <2>9, <2>10, <2>11 DEF LinkInv, LinkTyped, LinkSound
<1>9. CASE line.id # 0
  <2> DEFINE replies == IF line.id \in link.pending \cap link.asking THEN link.replies \cup {line} ELSE link.replies
             waiting == link.pending \ {line.id}
  <2>1. link' = [link EXCEPT !.rx = rest, !.pending = waiting, !.replies = replies]
    BY <1>5, <1>9
  <2>2. replies \in SUBSET Wires /\ waiting \in SUBSET Nat
    BY <1>1, <1>2 DEF Links
  <2> HIDE DEF replies, waiting
  <2>3. /\ link' \in Links
        /\ link'.wm = link.wm /\ link'.n = link.n /\ link'.up = TRUE /\ link'.tx = link.tx /\ link'.rx = rest
        /\ link'.events = link.events /\ link'.replies = replies
        /\ link'.pending = waiting /\ link'.next_id = link.next_id /\ link'.asking = link.asking
        /\ link'.idle = link.idle /\ link'.game = link.game /\ link'.running = link.running
        /\ link'.noticed = link.noticed /\ link'.settle = link.settle /\ link'.bar = link.bar
        /\ link'.crossed = link.crossed /\ link'.missed = link.missed /\ link'.lost = link.lost
    BY <1>1, <1>2, <2>1, <2>2 DEF Links
  <2>4. Ends(link') /\ Kinds(link')
    BY <1>1, <1>2, <2>3 DEF LinkSound, Ends, Kinds
  <2>5. Questions(link')
    BY <1>1, <2>3 DEF LinkSound, Questions, replies, waiting
  <2>6. Holds(rest, "idle") <=> Holds(link.rx, "idle")
    BY <1>2, <1>6, <1>9
  <2>7. IdleSaid(link') /\ IdleComes(link')
    BY <1>1, <1>7, <2>3, <2>6 DEF LinkSound, IdleSaid, IdleComes
  <2>8. HoldComes(link') /\ SceneComes(link') /\ BarComes(link')
    BY <1>1, <2>3 DEF LinkSound, HoldComes, SceneComes, BarComes
  <2> QED
    BY <2>3, <2>4, <2>5, <2>7, <2>8 DEF LinkInv, LinkTyped, LinkSound
<1> QED
  BY <1>8, <1>9

\* The task that asked is woken.
LEMMA TaskHearsStep ==
    ASSUME LinkInv, V!TaskHears
    PROVE  LinkInv'
<1>1. link \in Links /\ LinkSound(link)
  BY DEF LinkInv, LinkTyped
<1> DEFINE newer == \E e \in V!Range(link.events) \cup V!Range(link.rx) : e.kind = "idle"
<1>2. PICK r \in link.replies :
         LET l == [link EXCEPT !.replies = link.replies \ {r}]
         IN link' = IF r.kind = "error" THEN V!Unanswered(l, r.id)
                    ELSE V!TaskEnds([l EXCEPT !.asking = @ \ {r.id}, !.idle = r.value, !.missed = FALSE,
                                              !.crossed = r.value # l.wm.idle /\ ~newer])
  BY <1>1 DEF V!TaskHears, Links
<1>3. r \in Wires /\ r.id \in Nat /\ r.value \in Values /\ r.id \in link.asking /\ r.id \notin link.pending
  BY <1>1 DEF Links, Wires, LinkSound, Questions
<1>4. ~newer => ~Holds(link.events, "idle") /\ ~Holds(link.rx, "idle")
  BY DEF V!Range, Holds
<1> DEFINE l == [link EXCEPT !.replies = link.replies \ {r}]
<1>5. /\ l \in Links
      /\ l.wm = link.wm /\ l.n = link.n /\ l.up = link.up /\ l.tx = link.tx /\ l.rx = link.rx
      /\ l.events = link.events /\ l.replies = link.replies \ {r} /\ l.pending = link.pending
      /\ l.next_id = link.next_id /\ l.asking = link.asking /\ l.idle = link.idle /\ l.game = link.game
      /\ l.running = link.running /\ l.noticed = link.noticed /\ l.settle = link.settle /\ l.bar = link.bar
      /\ l.crossed = link.crossed /\ l.missed = link.missed /\ l.lost = link.lost
  BY <1>1 DEF Links
<1>6. link' = IF r.kind = "error" THEN V!Unanswered(l, r.id)
              ELSE V!TaskEnds([l EXCEPT !.asking = @ \ {r.id}, !.idle = r.value, !.missed = FALSE,
                                        !.crossed = r.value # l.wm.idle /\ ~newer])
  BY <1>2
<1> HIDE DEF l, newer
<1>7. Ends(l) /\ Kinds(l) /\ IdleSaid(l) /\ IdleComes(l)
  BY <1>1, <1>5 DEF LinkSound, Ends, Kinds, IdleSaid, IdleComes
<1>8. HoldComes(l) /\ SceneComes(l) /\ BarComes(l)
  BY <1>1, <1>5 DEF LinkSound, HoldComes, SceneComes, BarComes
<1>9. QuestionsBut(l, r.id)
  <2>1. \A a \in l.asking : a = r.id \/ a \in l.pending \/ \E q \in l.replies : q.id = a
    <3> SUFFICES ASSUME NEW a \in link.asking, a # r.id, a \notin link.pending PROVE \E q \in l.replies : q.id = a
      BY <1>5
    <3>1. PICK q \in link.replies : q.id = a
      BY <1>1 DEF LinkSound, Questions
    <3> QED
      BY <1>5, <3>1
  <2>2. \A q \in l.replies : q.id # r.id /\ q.id \in l.asking \ l.pending
    BY <1>1, <1>5 DEF LinkSound, Questions
  <2> QED
    BY <1>1, <1>5, <2>1, <2>2 DEF LinkSound, Questions, QuestionsBut
<1>10. CASE r.kind = "error"
  BY <1>3, <1>5, <1>6, <1>7, <1>8, <1>9, <1>10, UnansweredSound DEF LinkInv, LinkTyped
<1>11. CASE r.kind # "error"
  <2> DEFINE crossed == r.value # l.wm.idle /\ ~newer
             m == [l EXCEPT !.asking = l.asking \ {r.id}, !.idle = r.value, !.missed = FALSE, !.crossed = crossed]
  <2>1. crossed \in BOOLEAN
    OBVIOUS
  <2>2. link' = V!TaskEnds(m)
    <3>1. [l EXCEPT !.asking = @ \ {r.id}, !.idle = r.value, !.missed = FALSE, !.crossed = r.value # l.wm.idle /\ ~newer]
             = m
      BY <1>5 DEF Links
    <3> QED
      BY <1>6, <1>11, <3>1
  <2> HIDE DEF crossed
  <2>3. /\ m \in Links
        /\ m.wm = l.wm /\ m.n = l.n /\ m.up = l.up /\ m.tx = l.tx /\ m.rx = l.rx
        /\ m.events = l.events /\ m.replies = l.replies /\ m.pending = l.pending
        /\ m.next_id = l.next_id /\ m.asking = l.asking \ {r.id} /\ m.idle = r.value /\ m.game = l.game
        /\ m.running = l.running /\ m.noticed = l.noticed /\ m.settle = l.settle /\ m.bar = l.bar
        /\ m.crossed = crossed /\ m.missed = FALSE /\ m.lost = l.lost
    BY <1>3, <1>5, <2>1 DEF Links
  <2> HIDE DEF m
  <2>4. Ends(m) /\ Kinds(m) /\ IdleSaid(m)
    BY <1>7, <2>3 DEF Ends, Kinds, IdleSaid
  <2>5. Questions(m)
    BY <1>9, <2>3 DEF Questions, QuestionsBut
  <2>6. IdleComes(m)
    <3>1. CASE r.value = l.wm.idle
      BY <2>3, <3>1 DEF IdleComes
    <3>2. CASE r.value # l.wm.idle /\ ~newer
      BY <2>3, <3>2 DEF IdleComes, crossed
    <3>3. CASE newer
      <4>1. Holds(link.events, "idle") \/ Holds(link.rx, "idle")
        BY <3>3 DEF newer, V!Range, Holds
      <4> QED
        BY <1>5, <2>3, <4>1 DEF IdleComes
    <3> QED
      BY <3>1, <3>2, <3>3
  <2>7. HoldGoes(m)
    BY <1>8, <2>3 DEF HoldComes, HoldGoes
  <2>8. SceneComes(m) /\ BarComes(m)
    BY <1>8, <2>3 DEF SceneComes, BarComes
  <2> QED
    BY <2>2, <2>3, <2>4, <2>5, <2>6, <2>7, <2>8, TaskEndsSound DEF LinkInv, LinkTyped
<1> QED
  BY <1>10, <1>11

LEMMA TaskTimesOutStep ==
    ASSUME LinkInv, V!TaskTimesOut
    PROVE  LinkInv'
<1>1. PICK id \in link.asking : (\A r \in link.replies : r.id # id) /\ link' = V!Unanswered(link, id)
  BY DEF V!TaskTimesOut
<1>2. link \in Links /\ LinkSound(link) /\ id \in Nat
  BY DEF LinkInv, LinkTyped, Links
<1>3. QuestionsBut(link, id)
  BY <1>1, <1>2 DEF LinkSound, Questions, QuestionsBut
<1> QED
  BY <1>1, <1>2, <1>3, UnansweredSound DEF LinkInv, LinkTyped, LinkSound

LEMMA HostHearsStep ==
    ASSUME LinkInv, V!HostHears
    PROVE  LinkInv'
<1> DEFINE e == Head(link.events)
           rest == Tail(link.events)
           l == [link EXCEPT !.events = rest]
<1>1. /\ link \in Links /\ LinkSound(link) /\ link.events \in Seq(Wires) /\ link.events # <<>>
  BY DEF LinkInv, LinkTyped, Links, V!HostHears
<1>2. /\ \A kind : Holds(link.events, kind) <=> Holds(rest, kind) \/ e.kind = kind
      /\ e \in Wires /\ rest \in Seq(Wires)
      /\ \A i \in DOMAIN rest : \E j \in DOMAIN link.events : rest[i] = link.events[j]
      /\ \E j \in DOMAIN link.events : e = link.events[j]
  BY <1>1, LineTaken
<1>3. \A kind, others, v : LastSays(link.events, kind, others, v) => LastSays(rest, kind, others, v)
  BY <1>1, LineTaken
<1>4. \A kind, others, v :
         LastSays(link.events, kind, others, v) /\ e.kind = kind
            /\ (\A k \in others \cup {kind} : ~Holds(rest, k)) => e.value = v
  BY <1>1, LineTaken
<1>5. link' = CASE e.kind = "Connected" -> V!TaskBegins(l)
                [] e.kind = "Disconnected" -> l
                [] e.kind = "idle" -> [l EXCEPT !.idle = e.value, !.missed = FALSE, !.crossed = FALSE]
  BY DEF V!HostHears
<1> HIDE DEF e, rest
<1>6. e.value \in Values /\ e.kind \in {"Connected", "Disconnected", "idle"}
  BY <1>1, <1>2 DEF Wires, LinkSound, Kinds
<1>7. /\ l \in Links
      /\ l.wm = link.wm /\ l.n = link.n /\ l.up = link.up /\ l.tx = link.tx /\ l.rx = link.rx
      /\ l.events = rest /\ l.replies = link.replies /\ l.pending = link.pending
      /\ l.next_id = link.next_id /\ l.asking = link.asking /\ l.idle = link.idle /\ l.game = link.game
      /\ l.running = link.running /\ l.noticed = link.noticed /\ l.settle = link.settle /\ l.bar = link.bar
      /\ l.crossed = link.crossed /\ l.missed = link.missed /\ l.lost = link.lost
  BY <1>1, <1>2 DEF Links
<1> HIDE DEF l
<1>8. Ends(l) /\ Kinds(l) /\ Questions(l)
  BY <1>1, <1>2, <1>7 DEF LinkSound, Ends, Kinds, Questions
<1>9. IdleSaid(l)
  <2>1. LastSays(link.events, "idle", {"Connected"}, link.wm.idle) => LastSays(rest, "idle", {"Connected"}, link.wm.idle)
    BY <1>3
  <2> QED
    BY <1>1, <1>7, <2>1 DEF LinkSound, IdleSaid
<1>10. SceneComes(l) /\ BarComes(l)
  BY <1>1, <1>7 DEF LinkSound, SceneComes, BarComes
<1>11. CASE e.kind = "Connected"
  <2>1. link' = V!TaskBegins(l)
    BY <1>5, <1>11
  <2>2. CASE l.up = TRUE
    <3> DEFINE x == V!Line("get_idle", "", l.next_id)
               m == [l EXCEPT !.tx = Append(l.tx, x), !.pending = l.pending \cup {l.next_id},
                              !.next_id = l.next_id + 1, !.asking = l.asking \cup {l.next_id}]
    <3>1. l.next_id \in Nat /\ l.tx \in Seq(Wires) /\ l.pending \subseteq Nat /\ l.asking \subseteq Nat
      BY <1>7 DEF Links
    <3>2. x \in Wires /\ x.kind = "get_idle"
      <4>1. "get_idle" \in Subjects /\ "" \in Values
        BY DEF Subjects, Values
      <4> QED
        BY <3>1, <4>1 DEF V!Line, Wires
    <3>3. link' = m
      <4>1. V!TaskBegins(l) = [V!Request(l, "get_idle") EXCEPT !.asking = @ \cup {l.next_id}]
        BY <2>2 DEF V!TaskBegins
      <4> QED
        BY <1>7, <2>1, <4>1 DEF V!Request, Links
    <3> HIDE DEF x
    <3>4. Append(l.tx, x) \in Seq(Wires) /\ l.pending \cup {l.next_id} \subseteq Nat /\ l.next_id + 1 \in Nat
          /\ l.asking \cup {l.next_id} \subseteq Nat
      BY <3>1, <3>2
    <3>5. /\ m \in Links
          /\ m.wm = l.wm /\ m.n = l.n /\ m.up = TRUE /\ m.tx = Append(l.tx, x) /\ m.rx = l.rx
          /\ m.events = l.events /\ m.replies = l.replies /\ m.pending = l.pending \cup {l.next_id}
          /\ m.next_id = l.next_id + 1 /\ m.asking = l.asking \cup {l.next_id} /\ m.idle = l.idle
          /\ m.game = l.game /\ m.running = l.running /\ m.noticed = l.noticed /\ m.settle = l.settle
          /\ m.bar = l.bar /\ m.crossed = l.crossed /\ m.missed = l.missed /\ m.lost = l.lost
      BY <1>7, <2>2, <3>4 DEF Links
    <3> HIDE DEF m
    <3>6. /\ \A kind : Holds(m.tx, kind) <=> Holds(l.tx, kind) \/ x.kind = kind
          /\ \A kind, others, v : x.kind # kind /\ (LastSays(l.tx, kind, others, v) \/ x.kind \in others)
                                     => LastSays(m.tx, kind, others, v)
      <4>1. \A kind : Holds(m.tx, kind) <=> Holds(l.tx, kind) \/ x.kind = kind
        BY <3>1, <3>2, <3>5, LineBehind
      <4>2. \A kind, others, v : x.kind # kind /\ (LastSays(l.tx, kind, others, v) \/ x.kind \in others)
                                    => LastSays(m.tx, kind, others, v)
        BY <3>1, <3>2, <3>5, LineBehind
      <4> QED
        BY <4>1, <4>2
    <3>7. Ends(m) /\ Kinds(m)
      BY <1>8, <2>2, <3>5 DEF Ends, Kinds
    <3>8. Questions(m)
      <4>1. \A id : id \in 1..(l.next_id - 1) => id \in 1..l.next_id /\ id # l.next_id
        BY <3>1
      <4>2. l.next_id \in 1..l.next_id
        BY <1>8, <3>1 DEF Questions
      <4>3. m.next_id - 1 = l.next_id /\ m.next_id >= 1
        BY <3>1, <3>5
      <4> QED
        BY <1>8, <3>5, <4>1, <4>2, <4>3 DEF Questions
    <3>9. IdleSaid(m) /\ IdleComes(m)
      <4>1. m.next_id - 1 = l.next_id
        BY <3>1, <3>5
      <4> QED
        BY <1>9, <2>2, <3>5, <4>1 DEF IdleSaid, IdleComes
    <3>10. HoldComes(m)
      <4>1. LastSays(m.tx, "inhibit_idle", {}, link.game)
        BY <1>1, <1>7, <3>2, <3>6 DEF LinkSound, HoldComes
      <4>2. Holds(m.tx, "inhibit_idle") <=> Holds(link.tx, "inhibit_idle")
        BY <1>7, <3>2, <3>6
      <4>3. m.asking # {}
        BY <3>5
      <4> QED
        BY <1>1, <1>7, <2>2, <3>5, <4>1, <4>2, <4>3 DEF LinkSound, HoldComes
    <3>11. SceneComes(m)
      <4>1. \A v : LastSays(l.tx, "game_scene", {}, v) => LastSays(m.tx, "game_scene", {}, v)
        BY <3>2, <3>6
      <4>2. Holds(m.tx, "game_scene") <=> Holds(l.tx, "game_scene")
        BY <3>2, <3>6
      <4> QED
        BY <1>10, <3>5, <4>1, <4>2 DEF SceneComes
    <3>12. BarComes(m)
      <4>1. \A v : LastSays(l.tx, "desktop_bar", {}, v) => LastSays(m.tx, "desktop_bar", {}, v)
        BY <3>2, <3>6
      <4>2. Holds(m.tx, "desktop_bar") <=> Holds(l.tx, "desktop_bar")
        BY <3>2, <3>6
      <4> QED
        BY <1>10, <3>5, <4>1, <4>2 DEF BarComes
    <3> QED
      BY <3>3, <3>5, <3>7, <3>8, <3>9, <3>10, <3>11, <3>12 DEF LinkInv, LinkTyped, LinkSound
  <2>3. CASE l.up = FALSE
    <3> DEFINE m == [l EXCEPT !.missed = TRUE]
    <3>1. link' = V!TaskEnds(m)
      BY <2>1, <2>3 DEF V!TaskBegins
    <3>2. /\ m \in Links
          /\ m.wm = l.wm /\ m.n = l.n /\ m.up = FALSE /\ m.tx = l.tx /\ m.rx = l.rx
          /\ m.events = l.events /\ m.replies = l.replies /\ m.pending = l.pending
          /\ m.next_id = l.next_id /\ m.asking = l.asking /\ m.idle = l.idle /\ m.game = l.game
          /\ m.running = l.running /\ m.noticed = l.noticed /\ m.settle = l.settle /\ m.bar = l.bar
          /\ m.crossed = l.crossed /\ m.missed = TRUE /\ m.lost = l.lost
      BY <1>7, <2>3 DEF Links
    <3> HIDE DEF m
    <3>3. Ends(m) /\ Kinds(m) /\ Questions(m)
      BY <1>8, <2>3, <3>2 DEF Ends, Kinds, Questions
    <3>4. IdleSaid(m) /\ IdleComes(m)
      BY <1>9, <2>3, <3>2 DEF IdleSaid, IdleComes
    <3>5. HoldGoes(m)
      BY <1>1, <1>7, <3>2 DEF LinkSound, HoldComes, HoldGoes
    <3>6. SceneComes(m) /\ BarComes(m)
      BY <1>10, <3>2 DEF SceneComes, BarComes
    <3> QED
      BY <3>1, <3>2, <3>3, <3>4, <3>5, <3>6, TaskEndsSound DEF LinkInv, LinkTyped
  <2> QED
    BY <1>7, <2>2, <2>3 DEF Links
<1>12. CASE e.kind = "Disconnected"
  <2>1. link' = l
    BY <1>5, <1>12
  <2>2. \A kind \in {"Connected", "idle"} : Holds(rest, kind) <=> Holds(link.events, kind)
    BY <1>2, <1>12
  <2>3. IdleComes(l) /\ HoldComes(l)
    BY <1>1, <1>7, <2>2 DEF LinkSound, IdleComes, HoldComes
  <2> QED
    BY <1>7, <1>8, <1>9, <1>10, <2>1, <2>3 DEF LinkInv, LinkTyped, LinkSound
<1>13. CASE e.kind = "idle"
  <2>1. link' = [l EXCEPT !.idle = e.value, !.missed = FALSE, !.crossed = FALSE]
    BY <1>5, <1>13
  <2>2. /\ link' \in Links
        /\ link'.wm = l.wm /\ link'.n = l.n /\ link'.up = l.up /\ link'.tx = l.tx /\ link'.rx = l.rx
        /\ link'.events = l.events /\ link'.replies = l.replies /\ link'.pending = l.pending
        /\ link'.next_id = l.next_id /\ link'.asking = l.asking /\ link'.idle = e.value /\ link'.game = l.game
        /\ link'.running = l.running /\ link'.noticed = l.noticed /\ link'.settle = l.settle
        /\ link'.bar = l.bar /\ link'.crossed = FALSE /\ link'.missed = FALSE /\ link'.lost = l.lost
    BY <1>6, <1>7, <2>1 DEF Links
  <2>3. Ends(link') /\ Kinds(link') /\ Questions(link')
    BY <1>8, <2>2 DEF Ends, Kinds, Questions
  <2>4. IdleSaid(link')
    BY <1>9, <2>2 DEF IdleSaid
  <2>5. IdleComes(link')
    <3>1. SUFFICES ASSUME link.up, ~Holds(link.rx, "idle"), ~Holds(rest, "idle"), ~Holds(rest, "Connected")
                   PROVE  e.value = link.wm.idle
      BY <1>7, <2>2 DEF IdleComes
    <3>2. LastSays(link.events, "idle", {"Connected"}, link.wm.idle)
      BY <1>1, <3>1 DEF LinkSound, IdleSaid
    <3>3. \A k \in {"Connected"} \cup {"idle"} : ~Holds(rest, k)
      BY <3>1
    <3> QED
      BY <1>4, <1>13, <3>2, <3>3
  <2>6. HoldComes(link')
    <3>1. Holds(rest, "Connected") <=> Holds(link.events, "Connected")
      BY <1>2, <1>13
    <3> QED
      BY <1>1, <1>7, <2>2, <3>1 DEF LinkSound, HoldComes
  <2>7. SceneComes(link') /\ BarComes(link')
    BY <1>10, <2>2 DEF SceneComes, BarComes
  <2> QED
    BY <2>2, <2>3, <2>4, <2>5, <2>6, <2>7 DEF LinkInv, LinkTyped, LinkSound
<1> QED
  BY <1>6, <1>11, <1>12, <1>13

\* What the shell itself counts is about nothing that is said.
LEMMA CountedSound ==
    ASSUME NEW l \in Links, LinkSound(l), NEW m \in Links,
           m.wm = l.wm, m.n = l.n, m.up = l.up, m.tx = l.tx, m.rx = l.rx, m.events = l.events,
           m.replies = l.replies, m.pending = l.pending, m.next_id = l.next_id, m.asking = l.asking,
           m.idle = l.idle, m.game = l.game, m.settle = l.settle, m.bar = l.bar,
           m.crossed = l.crossed, m.missed = l.missed, m.lost = l.lost,
           m.noticed => m.game = m.running
    PROVE  LinkSound(m)
<1>1. Ends(m) /\ Kinds(m) /\ Questions(m)
  BY DEF LinkSound, Ends, Kinds, Questions
<1>2. IdleSaid(m) /\ IdleComes(m)
  BY DEF LinkSound, IdleSaid, IdleComes
<1>3. HoldComes(m) /\ SceneComes(m) /\ BarComes(m)
  BY DEF LinkSound, HoldComes, SceneComes, BarComes
<1> QED
  BY <1>1, <1>2, <1>3 DEF LinkSound

LEMMA GameTurnsStep ==
    ASSUME LinkInv, V!GameTurns
    PROVE  LinkInv'
<1>1. link \in Links /\ LinkSound(link) /\ link.turns + 1 \in Nat
  BY DEF LinkInv, LinkTyped, Links
<1>2. link' = [link EXCEPT !.running = ~@, !.noticed = FALSE, !.turns = @ + 1]
  BY DEF V!GameTurns
<1>3. /\ link' \in Links
      /\ link'.wm = link.wm /\ link'.n = link.n /\ link'.up = link.up /\ link'.tx = link.tx
      /\ link'.rx = link.rx /\ link'.events = link.events /\ link'.replies = link.replies
      /\ link'.pending = link.pending /\ link'.next_id = link.next_id /\ link'.asking = link.asking
      /\ link'.idle = link.idle /\ link'.game = link.game /\ link'.settle = link.settle
      /\ link'.bar = link.bar /\ link'.crossed = link.crossed /\ link'.missed = link.missed
      /\ link'.lost = link.lost /\ link'.noticed = FALSE
  BY <1>1, <1>2 DEF Links
<1> QED
  BY <1>1, <1>3, CountedSound DEF LinkInv, LinkTyped

LEMMA UnlockStep ==
    ASSUME LinkInv, V!Unlock
    PROVE  LinkInv'
<1>1. link \in Links /\ LinkSound(link) /\ link.turns + 1 \in Nat /\ (link.noticed => link.game = link.running)
  BY DEF LinkInv, LinkTyped, Links, LinkSound, Ends
<1>2. link' = [link EXCEPT !.unlocking = TRUE, !.turns = @ + 1]
  BY DEF V!Unlock
<1>3. /\ link' \in Links
      /\ link'.wm = link.wm /\ link'.n = link.n /\ link'.up = link.up /\ link'.tx = link.tx
      /\ link'.rx = link.rx /\ link'.events = link.events /\ link'.replies = link.replies
      /\ link'.pending = link.pending /\ link'.next_id = link.next_id /\ link'.asking = link.asking
      /\ link'.idle = link.idle /\ link'.game = link.game /\ link'.settle = link.settle
      /\ link'.bar = link.bar /\ link'.crossed = link.crossed /\ link'.missed = link.missed
      /\ link'.lost = link.lost /\ link'.noticed = link.noticed /\ link'.running = link.running
  BY <1>1, <1>2 DEF Links
<1> QED
  BY <1>1, <1>3, CountedSound DEF LinkInv, LinkTyped

LEMMA CheckPasswordStep ==
    ASSUME LinkInv, NEW ok \in BOOLEAN, V!CheckPassword(ok)
    PROVE  LinkInv'
<1> DEFINE l == [link EXCEPT !.unlocking = FALSE]
<1>1. link \in Links /\ LinkSound(link) /\ (link.noticed => link.game = link.running)
  BY DEF LinkInv, LinkTyped, LinkSound, Ends
<1>2. link' = IF ok /\ l.up THEN V!Send(l, "unlock", "") ELSE l
  BY DEF V!CheckPassword
<1>3. /\ l \in Links
      /\ l.wm = link.wm /\ l.n = link.n /\ l.up = link.up /\ l.tx = link.tx
      /\ l.rx = link.rx /\ l.events = link.events /\ l.replies = link.replies
      /\ l.pending = link.pending /\ l.next_id = link.next_id /\ l.asking = link.asking
      /\ l.idle = link.idle /\ l.game = link.game /\ l.settle = link.settle
      /\ l.bar = link.bar /\ l.crossed = link.crossed /\ l.missed = link.missed
      /\ l.lost = link.lost /\ l.noticed = link.noticed /\ l.running = link.running
  BY <1>1 DEF Links
<1> HIDE DEF l
<1>4. LinkSound(l)
  BY <1>1, <1>3, CountedSound
<1>5. PICK kind \in Subjects, value \in Values : kind = "unlock" /\ value = ""
  BY DEF Subjects, Values
<1> DEFINE m == V!Send(l, kind, value)
<1>6. link' = l \/ link' = m
  BY <1>2, <1>5
<1> HIDE DEF m
<1>7. m = V!Send(l, kind, value)
  BY DEF m
<1>8. m \in Links
  BY <1>3, <1>7, SendIs DEF Sent
<1>9. LinkSound(m)
  BY <1>3, <1>4, <1>5, <1>7, SendKeeps DEF LinkSound
<1> QED
  BY <1>3, <1>4, <1>6, <1>8, <1>9 DEF LinkInv, LinkTyped

LEMMA DesktopBarStep ==
    ASSUME LinkInv, V!DesktopBar(1)
    PROVE  LinkInv'
<1> DEFINE l == [link EXCEPT !.bar = 1, !.turns = @ + 1]
<1>1. link \in Links /\ LinkSound(link) /\ link.turns + 1 \in Nat
  BY DEF LinkInv, LinkTyped, Links
<1>2. PICK kind \in Subjects, value \in Values : kind = "desktop_bar" /\ value = 1
  BY DEF Subjects, Values
<1>3. link' = V!Send(l, kind, value)
  BY <1>2 DEF V!DesktopBar
<1>4. /\ l \in Links
      /\ l.wm = link.wm /\ l.n = link.n /\ l.up = link.up /\ l.tx = link.tx /\ l.rx = link.rx
      /\ l.events = link.events /\ l.replies = link.replies /\ l.pending = link.pending
      /\ l.next_id = link.next_id /\ l.asking = link.asking /\ l.idle = link.idle /\ l.game = link.game
      /\ l.running = link.running /\ l.noticed = link.noticed /\ l.settle = link.settle /\ l.bar = value
      /\ l.crossed = link.crossed /\ l.missed = link.missed /\ l.lost = link.lost
  BY <1>1, <1>2 DEF Links, Values
<1> HIDE DEF l
<1>5. Ends(l) /\ Kinds(l) /\ Questions(l)
  BY <1>1, <1>4 DEF LinkSound, Ends, Kinds, Questions
<1>6. IdleSaid(l) /\ IdleComes(l)
  BY <1>1, <1>4 DEF LinkSound, IdleSaid, IdleComes
<1>7. HoldComes(l) /\ SceneComes(l)
  BY <1>1, <1>4 DEF LinkSound, HoldComes, SceneComes
<1>8. link' \in Links
  BY <1>3, <1>4, SendIs DEF Sent
<1>9. LinkSound(link')
  BY <1>2, <1>3, <1>4, <1>5, <1>6, <1>7, SendKeeps DEF LinkSound
<1> QED
  BY <1>8, <1>9 DEF LinkInv, LinkTyped

LEMMA GameSettlesStep ==
    ASSUME LinkInv, V!GameSettles
    PROVE  LinkInv'
<1> DEFINE l == [link EXCEPT !.settle = @ - 1]
<1>1. link \in Links /\ LinkSound(link) /\ link.settle - 1 \in Nat
  BY DEF LinkInv, LinkTyped, Links, V!GameSettles
<1>2. PICK kind \in Subjects, value \in Values : kind = "game_scene" /\ value = TRUE
  BY DEF Subjects, Values
<1>3. link' = IF link.game THEN V!Send(l, kind, value) ELSE l
  BY <1>1, <1>2 DEF V!GameSettles, Links
<1>4. /\ l \in Links
      /\ l.wm = link.wm /\ l.n = link.n /\ l.up = link.up /\ l.tx = link.tx /\ l.rx = link.rx
      /\ l.events = link.events /\ l.replies = link.replies /\ l.pending = link.pending
      /\ l.next_id = link.next_id /\ l.asking = link.asking /\ l.idle = link.idle /\ l.game = link.game
      /\ l.running = link.running /\ l.noticed = link.noticed /\ l.settle = link.settle - 1
      /\ l.bar = link.bar /\ l.crossed = link.crossed /\ l.missed = link.missed /\ l.lost = link.lost
  BY <1>1 DEF Links
<1> HIDE DEF l
<1>5. Ends(l) /\ Kinds(l) /\ Questions(l)
  BY <1>1, <1>4 DEF LinkSound, Ends, Kinds, Questions
<1>6. IdleSaid(l) /\ IdleComes(l)
  BY <1>1, <1>4 DEF LinkSound, IdleSaid, IdleComes
<1>7. HoldComes(l) /\ BarComes(l)
  BY <1>1, <1>4 DEF LinkSound, HoldComes, BarComes
<1>8. CASE link.game = TRUE
  <2> DEFINE m == V!Send(l, kind, value)
  <2>1. link' = m
    BY <1>3, <1>8
  <2> HIDE DEF m
  <2>2. m = V!Send(l, kind, value) /\ value = l.game
    BY <1>2, <1>4, <1>8 DEF m
  <2>3. m \in Links
    BY <1>4, <2>2, SendIs DEF Sent
  <2>4. LinkSound(m)
    BY <1>2, <1>4, <1>5, <1>6, <1>7, <2>2, SendKeeps DEF LinkSound
  <2> QED
    BY <2>1, <2>3, <2>4 DEF LinkInv, LinkTyped
<1>9. CASE link.game = FALSE
  <2>1. SceneComes(l)
    BY <1>1, <1>4, <1>9 DEF LinkSound, SceneComes
  <2> QED
    BY <1>3, <1>4, <1>5, <1>6, <1>7, <1>9, <2>1 DEF LinkInv, LinkTyped, LinkSound
<1> QED
  BY <1>1, <1>8, <1>9 DEF Links

LEMMA GameChangedStep ==
    ASSUME LinkInv, V!GameChanged
    PROVE  LinkInv'
<1> DEFINE l == [link EXCEPT !.noticed = TRUE, !.game = link.running]
           held == V!Send(l, "inhibit_idle", link.running)
<1>1. link \in Links /\ LinkSound(link) /\ link.running \in BOOLEAN
  BY DEF LinkInv, LinkTyped, Links
<1>2. link' = IF link.game = link.running THEN l
              ELSE IF link.running THEN [held EXCEPT !.settle = @ + 1]
              ELSE V!Send(held, "game_scene", FALSE)
  BY DEF V!GameChanged
<1>3. /\ l \in Links
      /\ l.wm = link.wm /\ l.n = link.n /\ l.up = link.up /\ l.tx = link.tx /\ l.rx = link.rx
      /\ l.events = link.events /\ l.replies = link.replies /\ l.pending = link.pending
      /\ l.next_id = link.next_id /\ l.asking = link.asking /\ l.idle = link.idle /\ l.game = link.running
      /\ l.running = link.running /\ l.noticed = TRUE /\ l.settle = link.settle
      /\ l.bar = link.bar /\ l.crossed = link.crossed /\ l.missed = link.missed /\ l.lost = link.lost
  BY <1>1 DEF Links
<1> HIDE DEF l
<1>4. Ends(l) /\ Kinds(l) /\ Questions(l)
  BY <1>1, <1>3 DEF LinkSound, Ends, Kinds, Questions
<1>5. IdleSaid(l) /\ IdleComes(l) /\ BarComes(l)
  BY <1>1, <1>3 DEF LinkSound, IdleSaid, IdleComes, BarComes
<1>6. CASE link.game = link.running
  <2>1. HoldComes(l) /\ SceneComes(l)
    BY <1>1, <1>3, <1>6 DEF LinkSound, HoldComes, SceneComes
  <2> QED
    BY <1>2, <1>3, <1>4, <1>5, <1>6, <2>1 DEF LinkInv, LinkTyped, LinkSound
<1>7. CASE link.game # link.running
  <2>1. PICK kind \in Subjects, value \in Values : kind = "inhibit_idle" /\ value = link.running
    BY <1>1 DEF Subjects, Values
  <2>2. held = V!Send(l, kind, value)
    BY <2>1
  <2> HIDE DEF held
  <2>3. Sent(l, kind, value, held)
    BY <1>3, <2>2, SendIs
  <2>4. held \in Links /\ value = l.game
    BY <1>3, <2>1, <2>3 DEF Sent
  <2>5. /\ Ends(held) /\ Kinds(held) /\ Questions(held) /\ IdleSaid(held) /\ IdleComes(held)
        /\ HoldComes(held) /\ BarComes(held)
    BY <1>3, <1>4, <1>5, <2>1, <2>2, <2>4, SendKeeps
  <2>6. held.game = link.running
    BY <1>3, <2>3 DEF Sent
  <2>7. CASE link.running = TRUE
    <3> DEFINE m == [held EXCEPT !.settle = @ + 1]
    <3>1. link' = m
      BY <1>2, <1>7, <2>7
    <3>2. held \in Links /\ held.settle \in Nat /\ held.settle + 1 \in Nat
      BY <2>4 DEF Links
    <3>3. /\ m \in Links
          /\ m.wm = held.wm /\ m.n = held.n /\ m.up = held.up /\ m.tx = held.tx /\ m.rx = held.rx
          /\ m.events = held.events /\ m.replies = held.replies /\ m.pending = held.pending
          /\ m.next_id = held.next_id /\ m.asking = held.asking /\ m.idle = held.idle /\ m.game = held.game
          /\ m.running = held.running /\ m.noticed = held.noticed /\ m.settle = held.settle + 1
          /\ m.bar = held.bar /\ m.crossed = held.crossed /\ m.missed = held.missed /\ m.lost = held.lost
      BY <3>2 DEF Links
    <3> HIDE DEF m
    <3>4. Ends(m) /\ Kinds(m) /\ Questions(m)
      BY <2>5, <3>3 DEF Ends, Kinds, Questions
    <3>5. IdleSaid(m) /\ IdleComes(m) /\ BarComes(m) /\ HoldComes(m)
      BY <2>5, <3>3 DEF IdleSaid, IdleComes, BarComes, HoldComes
    <3>6. SceneComes(m)
      BY <2>6, <2>7, <3>2, <3>3 DEF SceneComes
    <3> QED
      BY <3>1, <3>3, <3>4, <3>5, <3>6 DEF LinkInv, LinkTyped, LinkSound
  <2>8. CASE link.running = FALSE
    <3>1. PICK kind2 \in Subjects, value2 \in Values : kind2 = "game_scene" /\ value2 = FALSE
      BY DEF Subjects, Values
    <3> DEFINE m == V!Send(held, kind2, value2)
    <3>2. link' = m
      BY <1>2, <1>7, <2>8, <3>1
    <3> HIDE DEF m
    <3>3. m = V!Send(held, kind2, value2) /\ value2 = held.game
      BY <2>6, <2>8, <3>1 DEF m
    <3>4. m \in Links
      BY <2>4, <3>3, SendIs DEF Sent
    <3>5. LinkSound(m)
      BY <2>4, <2>5, <3>1, <3>3, SendKeeps DEF LinkSound
    <3> QED
      BY <3>2, <3>4, <3>5 DEF LinkInv, LinkTyped
  <2> QED
    BY <1>1, <2>7, <2>8
<1> QED
  BY <1>6, <1>7

LEMMA LinkStep ==
    ASSUME LinkInv, V!LockNext \/ V!GameNext
    PROVE  LinkInv'
<1>1. ASSUME V!Wire PROVE LinkInv'
  BY <1>1, ConnectStep, DisconnectStep, ServeStep, ReadStep, TaskHearsStep, TaskTimesOutStep, HostHearsStep DEF V!Wire
<1>2. CASE V!LockNext
  BY <1>1, <1>2, IdlesStep, UnlockStep, CheckPasswordStep DEF V!LockNext
<1>3. CASE V!GameNext
  BY <1>1, <1>3, GameTurnsStep, GameChangedStep, GameSettlesStep, DesktopBarStep DEF V!GameNext
<1> QED
  BY <1>2, <1>3

LEMMA LinkFollows ==
    ASSUME LinkInv
    PROVE  V!LinkIsSound
<1>1. link \in Links /\ LinkSound(link) /\ link.game \in BOOLEAN /\ link.running \in BOOLEAN
  BY DEF LinkInv, LinkTyped, Links
<1>2. V!AnswersGoHome
  BY <1>1 DEF LinkSound, Questions, V!AnswersGoHome
<1>3. ASSUME V!Quiet
      PROVE  /\ ~Holds(link.tx, "inhibit_idle") /\ ~Holds(link.tx, "game_scene") /\ ~Holds(link.tx, "desktop_bar")
             /\ ~Holds(link.rx, "idle") /\ ~Holds(link.events, "idle") /\ ~Holds(link.events, "Connected")
             /\ link.up /\ link.asking = {} /\ link.noticed
  BY <1>3, NothingSaid DEF V!Quiet
<1>4. V!LockIsShown
  BY <1>1, <1>3 DEF LinkSound, IdleComes, V!LockIsShown
<1>5. V!GameHoldsTheScreen
  BY <1>1, <1>3 DEF LinkSound, Ends, HoldComes, V!GameHoldsTheScreen
<1>6. V!CompositorKnows
  BY <1>1, <1>3 DEF LinkSound, Ends, SceneComes, BarComes, V!CompositorKnows
<1> QED
  BY <1>2, <1>4, <1>5, <1>6 DEF V!LinkIsSound

=============================================================================
