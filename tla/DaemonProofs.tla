---------------------------- MODULE DaemonProofs ----------------------------
(***************************************************************************)
(* Three parts of the daemon, which share nothing.  For any connections,   *)
(* sessions, calls and rounds: no change runs without an approval that was *)
(* given in its round, and a session keeps the turns of the chats that had *)
(* it to themselves.                                                       *)
(* For any number of clients, transactions and reboots: a verdict on an    *)
(* update is sound unless a transaction was recorded in the middle of it.  *)
(* For any packages, clients and days: a rating belongs to the list and    *)
(* the news it is stored with, and one check runs at a time.               *)
(***************************************************************************)
EXTENDS Agent, UpdateRecord, UpdateWatcher, TLAPS

\* Where a call of the model is being worked on, ...
Calling == {"call", "waitConfirm", "waitTool", "run"}

\* ... and where the client has been shown it.
Seen == {"waitConfirm", "waitTool", "run"}

\* What one task's record always is: its own fields fit together, whoever else
\* is at work.
TaskOK(l) ==
    /\ l \in Locals
    /\ l.pc \in {"open", "stream", "call", "put"} => l.call = 0
    /\ l.pc \in Calling => l.place > 0 /\ l.place <= l.many
    /\ l.taken = {} <=> l.pc \in {"idle", "expire"}
    /\ l.taken # {} => l.sid \in Sids /\ l.turn \in Turns

TasksOK == conn \in [Conns -> Locals] /\ \A c \in Conns : TaskOK(conn[c])

\* The answers of a queue are to calls the client was shown, ...
Known(q, cs) == \A i \in 1..Len(q) : q[i].kind \in {"confirm", "result"} => q[i].call \in 1..Len(cs)

\* ... and were sent in the task's own turn and round.
OfTheRound(q, l) ==
    \A i \in 1..Len(q) : q[i].kind \in {"confirm", "result"} => q[i].turn = l.turn /\ q[i].round = l.round

\* The approval a call runs with: that of OnlyApprovedRuns.
Approved(l, cs) ==
    /\ l.by.kind = "confirm" /\ l.by.turn = l.turn /\ l.by.round = l.round
    /\ l.by.call = l.call \/ (l.by.call < l.call /\ cs[l.call] = l.place /\ cs[l.by.call] = cs[l.call])

\* What a task, its queue and the calls its client was shown have to do with
\* each other: the queue is emptied before a round's answer is taken, and the
\* call that is waited for is the last one shown.
CallOK(l, q, cs) ==
    /\ Len(q) <= MaxQueue
    /\ Known(q, cs)
    /\ l.pc = "stream" \/ l.pc \in Calling => OfTheRound(q, l)
    /\ l.pc \in Seen => l.call = Len(cs) /\ l.call > 0 /\ cs[l.call] \in {0, l.place}
    /\ l.pc = "run" /\ l.kind = "change" /\ ~l.autopilot /\ ~l.free => Approved(l, cs)

CallsOK ==
    /\ queue \in [Conns -> Seq(Requests)]
    /\ calls \in [Conns -> Seq(0..MaxCalls)]
    /\ \A c \in Conns : CallOK(conn[c], queue[c], calls[c])

BookOK ==
    /\ sessions \in [Sids -> SUBSET Turns]
    /\ finished \in [Sids -> SUBSET Turns]
    /\ turns \in 0..MaxTurns
    /\ mixed \subseteq Sids

\* c's chat works on session s.
WorksOn(c, s) == conn[c].sid = s /\ conn[c].taken # {}

\* A session that was never shared is either in the map with all its turns, or
\* out of it with the one chat that has all of them and its own.
TurnsInv ==
    \A s \in Sids \ mixed :
        /\ \A c, d \in Conns : WorksOn(c, s) /\ WorksOn(d, s) => c = d
        /\ \A c \in Conns : WorksOn(c, s) =>
              conn[c].taken = finished[s] \cup {conn[c].turn} /\ sessions[s] = {}
        /\ (\A c \in Conns : ~WorksOn(c, s)) => sessions[s] = finished[s]

AgentInv == TasksOK /\ CallsOK /\ BookOK /\ TurnsInv

\* m is l at another place of the same chat.
SameChat(l, m) == m.sid = l.sid /\ m.taken = l.taken /\ m.turn = l.turn

\* The records a chat goes on with.
AtPlace(l, st, p) == [l EXCEPT !.pc = st, !.place = p]
AtRound(l, st, r) == [l EXCEPT !.pc = st, !.round = r]
WithCall(l, st, kind, free, n) == [l EXCEPT !.pc = st, !.kind = kind, !.free = free, !.call = n]

-----------------------------------------------------------------------------
(***************************************************************************)
(* The records.                                                            *)
(***************************************************************************)

LEMMA QuietOK == TaskOK(Quiet) /\ \A s \in Sids : TaskOK([Quiet EXCEPT !.pc = "expire", !.sid = s])
<1>1. Quiet \in Locals
  BY AgentAssumption DEF Quiet, Locals, States
<1>2. \A s \in Sids : [Quiet EXCEPT !.pc = "expire", !.sid = s] \in Locals
  BY <1>1 DEF Locals, States
<1> QED
  BY <1>1, <1>2 DEF TaskOK, Quiet, Calling

\* A chat begins with a whole record.
LEMMA ChatOK ==
    ASSUME NEW s \in Sids, NEW n \in Turns, NEW old \in SUBSET Turns, NEW b \in BOOLEAN
    PROVE  TaskOK([Quiet EXCEPT !.pc = "open", !.sid = s, !.turn = n, !.autopilot = b,
                                !.taken = old \cup {n}])
<1> DEFINE l == [Quiet EXCEPT !.pc = "open", !.sid = s, !.turn = n, !.autopilot = b,
                              !.taken = old \cup {n}]
<1>1. Quiet \in Locals
  BY QuietOK DEF TaskOK
<1>2. n \in 0..MaxTurns
  BY AgentAssumption DEF Turns
<1>3. l \in Locals
  BY <1>1, <1>2 DEF Locals, States
<1>4. l.pc = "open" /\ l.call = 0 /\ l.sid = s /\ l.turn = n /\ l.taken # {}
  BY DEF Quiet
<1> SUFFICES TaskOK(l)
  OBVIOUS
<1> HIDE DEF l
<1> QED
  BY <1>3, <1>4 DEF TaskOK, Calling

\* A step that does not leave the chat: only the place, the call and its
\* approval change.  The check for a Cancel ends the turn or lets the stream
\* go on, the stream ends the turn, ...
LEMMA ToStream ==
    ASSUME NEW l, TaskOK(l), l.pc \in {"open", "stream"}, NEW st \in {"put", "stream"}
    PROVE  TaskOK([l EXCEPT !.pc = st]) /\ SameChat(l, [l EXCEPT !.pc = st])
  BY DEF TaskOK, SameChat, Locals, States, Calling

\* ... or makes calls; ...
LEMMA ToCall ==
    ASSUME NEW l, TaskOK(l), l.pc = "stream", NEW n \in 1..MaxCalls
    PROVE  /\ TaskOK([l EXCEPT !.pc = "call", !.many = n, !.place = 1])
           /\ SameChat(l, [l EXCEPT !.pc = "call", !.many = n, !.place = 1])
<1> DEFINE m == [l EXCEPT !.pc = "call", !.many = n, !.place = 1]
<1>1. l \in Locals /\ n \in 0..MaxCalls /\ 1 \in 0..MaxCalls
  BY AgentAssumption DEF TaskOK
<1>2. m \in Locals
  BY <1>1 DEF Locals, States
<1>3. m.pc = "call" /\ m.many = n /\ m.place = 1 /\ m.call = l.call /\ SameChat(l, m)
  BY <1>1 DEF Locals, SameChat
<1>4. 1 > 0 /\ 1 <= n
  BY AgentAssumption
<1> SUFFICES TaskOK(m) /\ SameChat(l, m)
  OBVIOUS
<1> HIDE DEF m
<1> QED
  BY <1>2, <1>3, <1>4 DEF TaskOK, SameChat

\* ... a call is shown; ...
LEMMA ToShown ==
    ASSUME NEW l, TaskOK(l), l.pc = "call", NEW st \in Seen,
           NEW kind \in {"observe", "change", "client"}, NEW free \in BOOLEAN, NEW n \in Nat,
           NEW m, m = WithCall(l, st, kind, free, n)
    PROVE  /\ TaskOK(m) /\ SameChat(l, m)
           /\ m.pc = st /\ m.kind = kind /\ m.free = free /\ m.call = n
           /\ m.autopilot = l.autopilot /\ m.place = l.place /\ m.round = l.round
<1>1. l \in Locals
  BY DEF TaskOK
<1>2. m \in Locals
  BY <1>1 DEF Locals, States, Seen, WithCall
<1>3. /\ m.pc = st /\ m.kind = kind /\ m.free = free /\ m.call = n
      /\ m.autopilot = l.autopilot /\ m.place = l.place /\ m.many = l.many /\ m.round = l.round
      /\ SameChat(l, m)
  BY <1>1 DEF Locals, SameChat, WithCall
<1> QED
  BY <1>2, <1>3 DEF TaskOK, SameChat, Calling, Seen

\* ... and an approved one runs.
LEMMA ToRun ==
    ASSUME NEW l, TaskOK(l), l.pc = "waitConfirm", NEW a \in Answers
    PROVE  LET m == [l EXCEPT !.pc = "run", !.by = a]
           IN  /\ TaskOK(m) /\ SameChat(l, m)
               /\ m.pc = "run" /\ m.by = a /\ m.call = l.call /\ m.place = l.place /\ m.round = l.round
<1> DEFINE m == [l EXCEPT !.pc = "run", !.by = a]
<1>1. l \in Locals
  BY DEF TaskOK
<1>2. m \in Locals
  BY <1>1 DEF Locals, States
<1>3. /\ m.pc = "run" /\ m.by = a /\ m.call = l.call /\ m.place = l.place
      /\ m.many = l.many /\ m.round = l.round /\ SameChat(l, m)
  BY <1>1 DEF Locals, SameChat
<1> SUFFICES /\ TaskOK(m) /\ SameChat(l, m)
             /\ m.pc = "run" /\ m.by = a /\ m.call = l.call /\ m.place = l.place /\ m.round = l.round
  OBVIOUS
<1> HIDE DEF m
<1> QED
  BY <1>2, <1>3 DEF TaskOK, SameChat, Calling

\* Two fields at once.
LEMMA ToPlace ==
    ASSUME NEW l \in Locals, NEW st \in States, NEW p \in 0..MaxCalls,
           NEW m, m = AtPlace(l, st, p)
    PROVE  /\ m \in Locals /\ m.pc = st /\ m.place = p /\ m.many = l.many
           /\ m.call = l.call /\ m.round = l.round
           /\ m.sid = l.sid /\ m.taken = l.taken /\ m.turn = l.turn
<1> DEFINE k == [l EXCEPT !.pc = st]
<1>1. k \in Locals /\ k.pc = st /\ k.many = l.many /\ k.call = l.call /\ k.round = l.round
      /\ k.sid = l.sid /\ k.taken = l.taken /\ k.turn = l.turn
  BY DEF Locals
<1>2. m = [k EXCEPT !.place = p]
  BY DEF AtPlace
<1> HIDE DEF k
<1> QED
  BY <1>1, <1>2 DEF Locals

LEMMA ToRound ==
    ASSUME NEW l \in Locals, NEW st \in States, NEW r \in 0..MaxRounds,
           NEW m, m = AtRound(l, st, r)
    PROVE  /\ m \in Locals /\ m.pc = st /\ m.call = l.call
           /\ m.sid = l.sid /\ m.taken = l.taken /\ m.turn = l.turn
<1> DEFINE k == [l EXCEPT !.pc = st]
<1>1. k \in Locals /\ k.pc = st /\ k.call = l.call
      /\ k.sid = l.sid /\ k.taken = l.taken /\ k.turn = l.turn
  BY DEF Locals
<1>2. m = [k EXCEPT !.round = r]
  BY DEF AtRound
<1> HIDE DEF k
<1> QED
  BY <1>1, <1>2 DEF Locals

\* The end of a call: the next call, the next round, or the end of the turn.
LEMMA NextCallOK ==
    ASSUME NEW c \in Conns, TaskOK(conn[c]), conn[c].pc \in Calling, NextCall(c)
    PROVE  \E m : /\ Step(c, m) /\ TaskOK(m) /\ SameChat(conn[c], m)
                  /\ m.pc \in {"call", "open", "put"}
                  /\ m.pc = "call" => m.round = conn[c].round
<1> DEFINE l == NoCall(conn[c])
           m == IF l.place < l.many THEN [l EXCEPT !.pc = "call", !.place = @ + 1]
                ELSE IF l.round + 1 < MaxRounds
                THEN [l EXCEPT !.pc = "open", !.round = @ + 1]
                ELSE [l EXCEPT !.pc = "put", !.round = 0]
<1>1. Step(c, m)
  BY DEF NextCall
<1>2. /\ conn[c].taken # {} /\ conn[c].sid \in Sids /\ conn[c].turn \in Turns /\ conn[c] \in Locals
      /\ conn[c].place > 0 /\ conn[c].place <= conn[c].many
  BY DEF TaskOK, Calling
<1>3. l \in Locals /\ l.call = 0 /\ l.round = conn[c].round /\ l.place = conn[c].place /\ SameChat(conn[c], l)
  <2>1. l \in Locals
    BY <1>2 DEF Locals, NoCall
  <2>2. l.call = 0 /\ l.round = conn[c].round /\ l.place = conn[c].place /\ SameChat(conn[c], l)
    BY <1>2 DEF Locals, NoCall, SameChat
  <2> QED
    BY <2>1, <2>2
<1> HIDE DEF l
<1>4. l.place \in Nat /\ l.many \in 0..MaxCalls /\ l.round \in Nat
  BY <1>3, AgentAssumption DEF Locals
<1>5. CASE l.place < l.many
  <2>1. m = AtPlace(l, "call", l.place + 1)
    BY <1>5 DEF AtPlace
  <2>2. l.place + 1 \in 0..MaxCalls /\ l.place + 1 <= l.many /\ l.place + 1 > 0
    BY <1>4, <1>5, AgentAssumption
  <2>3. "call" \in States
    BY DEF States
  <2> HIDE DEF m
  <2>4. /\ m \in Locals
        /\ m.pc = "call" /\ m.place = l.place + 1 /\ m.many = l.many /\ m.call = 0 /\ m.round = l.round
        /\ m.sid = l.sid /\ m.taken = l.taken /\ m.turn = l.turn
    BY <1>3, <2>1, <2>2, <2>3, ToPlace
  <2>5. TaskOK(m) /\ SameChat(conn[c], m)
    BY <1>2, <1>3, <2>2, <2>4 DEF TaskOK, SameChat
  <2> QED
    BY <1>1, <1>3, <2>4, <2>5
<1>6. CASE ~(l.place < l.many) /\ l.round + 1 < MaxRounds
  <2>1. m = AtRound(l, "open", l.round + 1)
    BY <1>6 DEF AtRound
  <2>2. l.round + 1 \in 0..MaxRounds
    BY <1>4, <1>6, AgentAssumption
  <2>3. "open" \in States
    BY DEF States
  <2> HIDE DEF m
  <2>4. m \in Locals /\ m.pc = "open" /\ m.call = 0 /\ m.sid = l.sid /\ m.taken = l.taken /\ m.turn = l.turn
    BY <1>3, <2>1, <2>2, <2>3, ToRound
  <2>5. TaskOK(m) /\ SameChat(conn[c], m)
    BY <1>2, <1>3, <2>4 DEF TaskOK, SameChat, Calling
  <2> QED
    BY <1>1, <2>4, <2>5
<1>7. CASE ~(l.place < l.many) /\ ~(l.round + 1 < MaxRounds)
  <2>1. m = AtRound(l, "put", 0)
    BY <1>7 DEF AtRound
  <2>2. 0 \in 0..MaxRounds
    BY AgentAssumption
  <2>3. "put" \in States
    BY DEF States
  <2> HIDE DEF m
  <2>4. m \in Locals /\ m.pc = "put" /\ m.call = 0 /\ m.sid = l.sid /\ m.taken = l.taken /\ m.turn = l.turn
    BY <1>3, <2>1, <2>2, <2>3, ToRound
  <2>5. TaskOK(m) /\ SameChat(conn[c], m)
    BY <1>2, <1>3, <2>4 DEF TaskOK, SameChat, Calling
  <2> QED
    BY <1>1, <2>4, <2>5
<1> QED
  BY <1>5, <1>6, <1>7

-----------------------------------------------------------------------------
(***************************************************************************)
(* The queues and the calls.                                               *)
(***************************************************************************)

\* The rest of a queue is as good as the queue.
LEMMA TailOK ==
    ASSUME NEW q \in Seq(Requests), q # <<>>, NEW cs, NEW l, Known(q, cs), Len(q) <= MaxQueue
    PROVE  /\ Tail(q) \in Seq(Requests) /\ Len(Tail(q)) <= MaxQueue /\ Known(Tail(q), cs)
           /\ OfTheRound(q, l) => OfTheRound(Tail(q), l)
<1>1. Tail(q) \in Seq(Requests) /\ Len(Tail(q)) = Len(q) - 1 /\ Len(q) \in Nat
  OBVIOUS
<1>2. \A i \in 1..Len(Tail(q)) : Tail(q)[i] = q[i + 1] /\ i + 1 \in 1..Len(q)
  BY <1>1
<1>3. Known(Tail(q), cs) /\ (OfTheRound(q, l) => OfTheRound(Tail(q), l))
  BY <1>2 DEF Known, OfTheRound
<1> QED
  BY <1>1, <1>3, AgentAssumption

\* Its head is an answer if it says so, to a call the client was shown.
LEMMA HeadOK ==
    ASSUME NEW q \in Seq(Requests), q # <<>>, Head(q).kind = "confirm", NEW cs, NEW l,
           Known(q, cs), OfTheRound(q, l)
    PROVE  /\ Head(q) \in Answers /\ Head(q).call \in 1..Len(cs)
           /\ Head(q).turn = l.turn /\ Head(q).round = l.round
<1>1. Head(q) = q[1] /\ 1 \in 1..Len(q) /\ q[1] \in Requests
  OBVIOUS
<1>2. Head(q) \in Answers
  <2>1. \A r \in [kind : {"chat", "cancel"}] : r.kind # "confirm"
    OBVIOUS
  <2> QED
    BY <1>1, <2>1 DEF Requests
<1> QED
  BY <1>1, <1>2 DEF Known, OfTheRound

\* A longer list of calls knows as much.
LEMMA MoreCalls ==
    ASSUME NEW cs \in Seq(0..MaxCalls), NEW id \in 0..MaxCalls, NEW q, Known(q, cs)
    PROVE  /\ Append(cs, id) \in Seq(0..MaxCalls) /\ Known(q, Append(cs, id))
           /\ Len(Append(cs, id)) = Len(cs) + 1 /\ Append(cs, id)[Len(cs) + 1] = id
<1>1. /\ Append(cs, id) \in Seq(0..MaxCalls) /\ Len(Append(cs, id)) = Len(cs) + 1
      /\ Append(cs, id)[Len(cs) + 1] = id /\ Len(cs) \in Nat
  OBVIOUS
<1>2. \A n \in 1..Len(cs) : n \in 1..Len(Append(cs, id))
  BY <1>1
<1> QED
  BY <1>1, <1>2 DEF Known

\* Only c's task, queue and calls change.
LEMMA CallsKept ==
    ASSUME CallsOK, TasksOK, NEW c \in Conns, NEW m \in Locals, Step(c, m),
           NEW q \in Seq(Requests), queue' = [queue EXCEPT ![c] = q],
           NEW cs \in Seq(0..MaxCalls), calls' = [calls EXCEPT ![c] = cs],
           CallOK(m, q, cs)
    PROVE  CallsOK'
<1>1. conn' = [conn EXCEPT ![c] = m] /\ conn \in [Conns -> Locals]
  BY DEF Step, TasksOK
<1>2. queue' \in [Conns -> Seq(Requests)] /\ calls' \in [Conns -> Seq(0..MaxCalls)]
  BY DEF CallsOK
<1>3. ASSUME NEW d \in Conns PROVE CallOK(conn[d], queue[d], calls[d])'
  <2>1. CASE d = c
    <3>1. conn'[d] = m /\ queue'[d] = q /\ calls'[d] = cs
      BY <1>1, <2>1 DEF CallsOK
    <3> QED
      BY <3>1 DEF CallOK, Known, OfTheRound, Approved
  <2>2. CASE d # c
    <3>1. conn'[d] = conn[d] /\ queue'[d] = queue[d] /\ calls'[d] = calls[d]
      BY <1>1, <2>2 DEF CallsOK
    <3>2. CallOK(conn[d], queue[d], calls[d])
      BY DEF CallsOK
    <3> QED
      BY <3>1, <3>2 DEF CallOK, Known, OfTheRound, Approved
  <2> QED
    BY <2>1, <2>2
<1> QED
  BY <1>2, <1>3 DEF CallsOK

\* One connection.
LEMMA One ==
    ASSUME CallsOK, TasksOK, NEW c \in Conns
    PROVE  /\ CallOK(conn[c], queue[c], calls[c]) /\ TaskOK(conn[c])
           /\ conn[c] \in Locals /\ queue[c] \in Seq(Requests) /\ calls[c] \in Seq(0..MaxCalls)
  BY DEF CallsOK, TasksOK, TaskOK

\* What does not change, as a change at one connection.
LEMMA Same ==
    ASSUME CallsOK, TasksOK, NEW c \in Conns
    PROVE  /\ UNCHANGED queue => queue' = [queue EXCEPT ![c] = queue[c]]
           /\ UNCHANGED calls => calls' = [calls EXCEPT ![c] = calls[c]]
           /\ UNCHANGED conn => Step(c, conn[c])
  BY DEF CallsOK, TasksOK, Step

\* A request is taken and dropped.
LEMMA Dropped ==
    ASSUME CallsOK, TasksOK, NEW c \in Conns, NEW kind, Recv(c, kind), UNCHANGED <<conn, calls>>
    PROVE  CallsOK'
<1>1. queue' = [queue EXCEPT ![c] = Tail(queue[c])] /\ queue[c] # <<>>
  BY DEF Recv
<1>2. CallOK(conn[c], Tail(queue[c]), calls[c]) /\ Tail(queue[c]) \in Seq(Requests)
  BY <1>1, One, Same, TailOK DEF CallOK
<1> QED
  BY <1>1, <1>2, One, Same, CallsKept

LEMMA SendOK ==
    ASSUME CallsOK, TasksOK, NEW c \in Conns, Send(c)
    PROVE  CallsOK'
<1> DEFINE q == queue[c]  cs == calls[c]  l == conn[c]
<1>1. PICK r \in [kind : {"chat", "cancel"}] \cup
               [kind : {"confirm", "result"}, call : 1..Len(cs), turn : {l.turn}, round : {l.round}] :
        queue' = [queue EXCEPT ![c] = Append(q, r)]
  BY DEF Send
<1>2. /\ q \in Seq(Requests) /\ Len(q) < MaxQueue /\ Len(q) \in Nat /\ cs \in Seq(0..MaxCalls)
      /\ Len(cs) \in Nat /\ CallOK(l, q, cs) /\ l \in Locals
  BY One, Same DEF Send
<1>3. r \in Requests
  <2>1. l.turn \in 0..MaxTurns /\ l.round \in 0..MaxRounds
    BY <1>2 DEF Locals
  <2>2. \A n \in 1..Len(cs) : n \in Nat \ {0}
    BY <1>2
  <2> QED
    BY <1>1, <2>1, <2>2 DEF Requests, Answers
<1>4. r.kind \in {"confirm", "result"} => r.call \in 1..Len(cs) /\ r.turn = l.turn /\ r.round = l.round
  BY <1>1
<1>5. /\ Append(q, r) \in Seq(Requests) /\ Len(Append(q, r)) = Len(q) + 1
      /\ \A i \in 1..Len(Append(q, r)) : Append(q, r)[i] = r \/ (i \in 1..Len(q) /\ Append(q, r)[i] = q[i])
  BY <1>2, <1>3
<1>6. Known(Append(q, r), cs) /\ (OfTheRound(q, l) => OfTheRound(Append(q, r), l))
  BY <1>2, <1>4, <1>5 DEF Known, OfTheRound, CallOK
<1>7. Len(Append(q, r)) <= MaxQueue
  BY <1>2, <1>5, AgentAssumption
<1>8. CallOK(l, Append(q, r), cs)
  BY <1>2, <1>6, <1>7 DEF CallOK
<1>9. UNCHANGED <<conn, calls>>
  BY DEF Send
<1> QED
  BY <1>1, <1>5, <1>8, <1>9, One, Same, CallsKept

\* The queue is emptied.
LEMMA DrainOK ==
    ASSUME CallsOK, TasksOK, NEW c \in Conns, At(c, "open") \/ At(c, "stream"), Drain(c)
    PROVE  /\ \E m : Step(c, m) /\ TaskOK(m) /\ SameChat(conn[c], m)
           /\ CallsOK'
<1>1. PICK st \in {"put", "stream"} : Goto(c, st)
  BY DEF Drain
<1> DEFINE m == [conn[c] EXCEPT !.pc = st]
<1>2. conn[c] \in Locals /\ TaskOK(conn[c]) /\ conn[c].pc \in {"open", "stream"}
  BY One DEF At
<1>3. TaskOK(m) /\ SameChat(conn[c], m)
  BY <1>2, ToStream
<1>4. m.pc = st
  BY <1>2 DEF Locals
<1>5. Step(c, m)
  BY <1>1 DEF Goto
<1> HIDE DEF m
<1>6. <<>> \in Seq(Requests) /\ CallOK(m, <<>>, calls[c])
  BY <1>4, AgentAssumption DEF CallOK, Known, OfTheRound, Calling, Seen
<1>7. queue' = [queue EXCEPT ![c] = <<>>] /\ UNCHANGED calls
  BY DEF Drain
<1>8. m \in Locals
  BY <1>3 DEF TaskOK
<1> QED
  BY <1>3, <1>5, <1>6, <1>7, <1>8, One, Same, CallsKept

\* A call ends: its answer was taken from the queue, or none came, and it may
\* have been shown and refused at once.
LEMMA EndOK ==
    ASSUME CallsOK, TasksOK, NEW c \in Conns, conn[c].pc \in Calling, NextCall(c),
           UNCHANGED queue \/ \E kind : Recv(c, kind),
           UNCHANGED calls \/ Show(c)
    PROVE  /\ \E m : Step(c, m) /\ TaskOK(m) /\ SameChat(conn[c], m)
           /\ CallsOK'
<1>1. PICK m : /\ Step(c, m) /\ TaskOK(m) /\ SameChat(conn[c], m)
               /\ m.pc \in {"call", "open", "put"}
               /\ m.pc = "call" => m.round = conn[c].round
  BY One, Same, NextCallOK
<1>2. CallOK(conn[c], queue[c], calls[c]) /\ OfTheRound(queue[c], conn[c])
  BY One, Same DEF CallOK
<1>3. PICK q \in Seq(Requests) : /\ queue' = [queue EXCEPT ![c] = q] /\ Len(q) <= MaxQueue
                                 /\ Known(q, calls[c]) /\ OfTheRound(q, conn[c])
  <2>1. CASE UNCHANGED queue
    BY <1>2, <2>1, One, Same DEF CallOK
  <2>2. ASSUME NEW kind, Recv(c, kind)
        PROVE  \E q \in Seq(Requests) : /\ queue' = [queue EXCEPT ![c] = q] /\ Len(q) <= MaxQueue
                                        /\ Known(q, calls[c]) /\ OfTheRound(q, conn[c])
    <3>1. queue' = [queue EXCEPT ![c] = Tail(queue[c])] /\ queue[c] # <<>>
      BY <2>2 DEF Recv
    <3> QED
      BY <1>2, <3>1, One, Same, TailOK DEF CallOK
  <2> QED
    BY <2>1, <2>2
<1>4. PICK cs \in Seq(0..MaxCalls) : calls' = [calls EXCEPT ![c] = cs] /\ Known(q, cs)
  <2>1. CASE UNCHANGED calls
    BY <1>3, <2>1, One, Same
  <2>2. CASE Show(c)
    <3>1. PICK id \in {0, conn[c].place} : calls' = [calls EXCEPT ![c] = Append(calls[c], id)]
      BY <2>2 DEF Show
    <3>2. id \in 0..MaxCalls
      BY <3>1, One, Same, AgentAssumption DEF Locals
    <3> QED
      BY <1>3, <3>1, <3>2, One, Same, MoreCalls
  <2> QED
    BY <2>1, <2>2
<1>5. m.pc = "call" => OfTheRound(q, m)
  BY <1>1, <1>3 DEF OfTheRound, SameChat
<1>7. CallOK(m, q, cs)
  BY <1>1, <1>3, <1>4, <1>5 DEF CallOK, Calling, Seen
<1>6. m \in Locals
  BY <1>1 DEF TaskOK
<1> QED
  BY <1>1, <1>3, <1>4, <1>7, <1>6, CallsKept

\* A call is shown, and waits or runs.
LEMMA ShownOK ==
    ASSUME CallsOK, TasksOK, NEW c \in Conns, conn[c].pc = "call", UNCHANGED queue,
           NEW st \in Seen, NEW kind \in {"observe", "change", "client"}, NEW free \in BOOLEAN,
           Shown(c, st, kind, free),
           st = "run" /\ kind = "change" => conn[c].autopilot \/ free
    PROVE  /\ \E m : Step(c, m) /\ TaskOK(m) /\ SameChat(conn[c], m)
           /\ CallsOK'
<1>1. PICK id \in {0, conn[c].place} : calls' = [calls EXCEPT ![c] = Append(calls[c], id)]
  BY DEF Shown, Show
<1> DEFINE n == Len(calls[c]) + 1
           cs == Append(calls[c], id)
           m == [conn[c] EXCEPT !.pc = st, !.kind = kind, !.free = free, !.call = n]
<1>2. CallOK(conn[c], queue[c], calls[c]) /\ calls[c] \in Seq(0..MaxCalls) /\ n \in Nat
  BY One, Same
<1>3. Step(c, m)
  BY DEF Shown
<1>4. /\ TaskOK(m) /\ SameChat(conn[c], m) /\ m.pc = st /\ m.kind = kind /\ m.free = free /\ m.call = n
      /\ m.autopilot = conn[c].autopilot /\ m.place = conn[c].place /\ m.round = conn[c].round
  <2>1. TaskOK(conn[c]) /\ m = WithCall(conn[c], st, kind, free, n)
    BY One DEF WithCall
  <2> HIDE DEF n, m
  <2> QED
    BY <1>2, <2>1, ToShown
<1>5. id \in 0..MaxCalls
  BY <1>1, One, Same, AgentAssumption DEF Locals
<1>6. cs \in Seq(0..MaxCalls) /\ Known(queue[c], cs) /\ Len(cs) = n /\ cs[n] = id
  BY <1>2, <1>5, MoreCalls DEF CallOK
<1>7. n > 0
  BY <1>2
<1> HIDE DEF m, n, cs
<1>8. OfTheRound(queue[c], m)
  BY <1>2, <1>4 DEF CallOK, OfTheRound, SameChat, Calling
<1>9. CallOK(m, queue[c], cs)
  BY <1>1, <1>2, <1>4, <1>6, <1>7, <1>8 DEF CallOK
<1>10. m \in Locals
  BY <1>4 DEF TaskOK
<1>11. calls' = [calls EXCEPT ![c] = cs]
  BY <1>1 DEF cs
<1> QED
  BY <1>3, <1>4, <1>6, <1>9, <1>10, <1>11, One, Same, CallsKept

\* The call that was waited for is approved by an answer with its id: that of
\* the call, or of an earlier one that had no id but the same place.
LEMMA ApprovedOK ==
    ASSUME CallsOK, TasksOK, NEW c \in Conns, conn[c].pc = "waitConfirm", Recv(c, "confirm"),
           SameId(c, Head(queue[c]).call, conn[c].call), UNCHANGED calls,
           Step(c, [conn[c] EXCEPT !.pc = "run", !.by = Head(queue[c])])
    PROVE  /\ \E m : Step(c, m) /\ TaskOK(m) /\ SameChat(conn[c], m)
           /\ CallsOK'
<1> DEFINE a == Head(queue[c])  q == Tail(queue[c])
           m == [conn[c] EXCEPT !.pc = "run", !.by = a]
<1>1. queue' = [queue EXCEPT ![c] = q] /\ queue[c] # <<>> /\ a.kind = "confirm"
  BY DEF Recv
<1>2. /\ CallOK(conn[c], queue[c], calls[c]) /\ OfTheRound(queue[c], conn[c])
      /\ calls[c] \in Seq(0..MaxCalls) /\ Len(calls[c]) \in Nat
  BY One, Same DEF CallOK, Calling
<1>3. a \in Answers /\ a.call \in 1..Len(calls[c]) /\ a.turn = conn[c].turn /\ a.round = conn[c].round
  BY <1>1, <1>2, One, Same, HeadOK DEF CallOK
<1>4. q \in Seq(Requests) /\ Len(q) <= MaxQueue /\ Known(q, calls[c]) /\ OfTheRound(q, conn[c])
  BY <1>1, <1>2, One, Same, TailOK DEF CallOK
<1>5. conn[c].call = Len(calls[c]) /\ conn[c].call > 0 /\ calls[c][conn[c].call] \in {0, conn[c].place}
  BY <1>2 DEF CallOK, Seen
<1>6. a.call = conn[c].call \/ (calls[c][a.call] = calls[c][conn[c].call] /\ calls[c][a.call] # 0)
  BY DEF SameId
<1>7. /\ TaskOK(m) /\ SameChat(conn[c], m) /\ m.pc = "run" /\ m.by = a
      /\ m.call = conn[c].call /\ m.place = conn[c].place /\ m.round = conn[c].round
  BY <1>3, One, Same, ToRun
<1>8. Step(c, m)
  OBVIOUS
<1> HIDE DEF m, a, q
<1>9. a.call = conn[c].call \/ a.call < conn[c].call
  BY <1>2, <1>3, <1>5
<1>10. Approved(m, calls[c])
  BY <1>1, <1>3, <1>5, <1>6, <1>7, <1>9 DEF Approved, SameChat
<1>11. OfTheRound(q, m)
  BY <1>4, <1>7 DEF OfTheRound, SameChat
<1>12. CallOK(m, q, calls[c])
  BY <1>4, <1>5, <1>7, <1>10, <1>11 DEF CallOK
<1>13. m \in Locals
  BY <1>7 DEF TaskOK
<1> QED
  BY <1>1, <1>4, <1>7, <1>8, <1>12, <1>13, One, Same, CallsKept

-----------------------------------------------------------------------------
(***************************************************************************)
(* The steps of a chat between its beginning and its end.                  *)
(***************************************************************************)

\* What the task does while it has a session.
ChatWorks(c) ==
    \/ StreamOpens(c) \/ StreamDrains(c) \/ StreamEnds(c)
    \/ CallRefused(c) \/ CallRuns(c) \/ CallAsks(c) \/ CallClient(c)
    \/ Confirmed(c) \/ ToolAnswered(c) \/ WaitCancelled(c) \/ WaitDrops(c) \/ WaitEnds(c)
    \/ ToolRuns(c)

\* Such a step stays in its chat, leaves the records whole and the book alone.
LEMMA WorkStep ==
    ASSUME CallsOK, TasksOK, NEW c \in Conns, ChatWorks(c)
    PROVE  /\ \E m : Step(c, m) /\ TaskOK(m) /\ SameChat(conn[c], m)
           /\ CallsOK' /\ UNCHANGED book
<1> DEFINE G == /\ \E m : Step(c, m) /\ TaskOK(m) /\ SameChat(conn[c], m)
                /\ CallsOK'
<1> SUFFICES G /\ UNCHANGED book
  OBVIOUS
<1>1. CASE StreamOpens(c) \/ StreamDrains(c)
  BY <1>1, DrainOK DEF StreamOpens, StreamDrains, Drain
<1>2. CASE StreamEnds(c)
  <2>1. conn[c].pc = "stream" /\ UNCHANGED <<queue, calls, book>>
    BY <1>2 DEF StreamEnds, At
  <2>2. PICK m : /\ Step(c, m) /\ TaskOK(m) /\ SameChat(conn[c], m)
                 /\ m.pc \in {"put", "call"} /\ m.round = conn[c].round
    <3>1. ASSUME Goto(c, "put")
          PROVE  \E m : /\ Step(c, m) /\ TaskOK(m) /\ SameChat(conn[c], m)
                        /\ m.pc \in {"put", "call"} /\ m.round = conn[c].round
      <4> DEFINE m == [conn[c] EXCEPT !.pc = "put"]
      <4>1. TaskOK(m) /\ SameChat(conn[c], m) /\ m.pc = "put" /\ m.round = conn[c].round
        BY <2>1, One, Same, ToStream DEF Locals
      <4> QED
        BY <3>1, <4>1 DEF Goto
    <3>2. ASSUME NEW n \in 1..MaxCalls, Step(c, [conn[c] EXCEPT !.pc = "call", !.many = n, !.place = 1])
          PROVE  \E m : /\ Step(c, m) /\ TaskOK(m) /\ SameChat(conn[c], m)
                        /\ m.pc \in {"put", "call"} /\ m.round = conn[c].round
      <4> DEFINE m == [conn[c] EXCEPT !.pc = "call", !.many = n, !.place = 1]
      <4>1. TaskOK(m) /\ SameChat(conn[c], m)
        BY <2>1, One, Same, ToCall
      <4>2. m.pc = "call" /\ m.round = conn[c].round
        BY One, Same DEF Locals
      <4> QED
        BY <3>2, <4>1, <4>2
    <3> QED
      BY <1>2, <3>1, <3>2 DEF StreamEnds
  <2>3. CallOK(m, queue[c], calls[c])
    BY <2>1, <2>2, One, Same DEF CallOK, OfTheRound, SameChat, Calling, Seen
  <2>4. m \in Locals
    BY <2>2 DEF TaskOK
  <2> QED
    BY <2>1, <2>2, <2>3, <2>4, One, Same, CallsKept
<1>3. CASE CallRuns(c) \/ CallAsks(c) \/ CallClient(c)
  <2>1. conn[c].pc = "call" /\ UNCHANGED <<queue, book>>
    BY <1>3 DEF CallRuns, CallAsks, CallClient, At
  <2>2. PICK st \in Seen, kind \in {"observe", "change", "client"}, free \in BOOLEAN :
          /\ Shown(c, st, kind, free)
          /\ st = "run" /\ kind = "change" => conn[c].autopilot \/ free
    BY <1>3 DEF CallRuns, CallAsks, CallClient, Seen
  <2>3. G
    BY <2>1, <2>2, ShownOK
  <2> QED
    BY <2>1, <2>3
<1>4. CASE Confirmed(c)
  <2>1. conn[c].pc = "waitConfirm" /\ UNCHANGED <<calls, book>> /\ Recv(c, "confirm")
    BY <1>4 DEF Confirmed, At
  <2>2. ASSUME Step(c, [conn[c] EXCEPT !.pc = "run", !.by = Head(queue[c])]) PROVE G
    BY <1>4, <2>1, <2>2, ApprovedOK DEF Confirmed
  <2>3. ASSUME NextCall(c) PROVE G
    BY <2>1, <2>3, EndOK DEF Calling
  <2> QED
    BY <1>4, <2>1, <2>2, <2>3 DEF Confirmed
<1>5. CASE CallRefused(c) \/ ToolAnswered(c) \/ WaitCancelled(c) \/ WaitEnds(c) \/ ToolRuns(c)
  <2>1. /\ conn[c].pc \in Calling /\ NextCall(c) /\ UNCHANGED book
        /\ UNCHANGED queue \/ \E kind : Recv(c, kind)
        /\ UNCHANGED calls \/ Show(c)
    BY <1>5 DEF CallRefused, ToolAnswered, WaitCancelled, WaitEnds, ToolRuns, At, Calling
  <2>2. G
    BY <2>1, EndOK
  <2> QED
    BY <2>1, <2>2
<1>6. CASE WaitDrops(c)
  <2>1. UNCHANGED <<conn, calls, book>> /\ \E kind : Recv(c, kind)
    BY <1>6 DEF WaitDrops
  <2>2. Step(c, conn[c]) /\ TaskOK(conn[c]) /\ SameChat(conn[c], conn[c])
    BY <2>1, One, Same DEF SameChat
  <2> QED
    BY <2>1, <2>2, Dropped
<1> QED
  BY <1>1, <1>2, <1>3, <1>4, <1>5, <1>6 DEF ChatWorks

\* A record put at c is the only one that changes.
LEMMA StepOK ==
    ASSUME TasksOK, NEW c \in Conns, NEW m, TaskOK(m), Step(c, m)
    PROVE  TasksOK' /\ \A d \in Conns : conn'[d] = IF d = c THEN m ELSE conn[d]
<1>1. conn' = [conn EXCEPT ![c] = m] /\ m \in Locals /\ conn \in [Conns -> Locals]
  BY DEF Step, TaskOK, TasksOK
<1>2. \A d \in Conns : conn'[d] = IF d = c THEN m ELSE conn[d]
  BY <1>1
<1>3. conn' \in [Conns -> Locals]
  BY <1>1
<1> QED
  BY <1>2, <1>3 DEF TasksOK

\* Steps inside a chat leave every session with the chats that had it.
LEMMA SameChatKeeps ==
    ASSUME AgentInv, NEW c \in Conns, NEW m, TaskOK(m), Step(c, m), SameChat(conn[c], m), UNCHANGED book
    PROVE  TasksOK' /\ BookOK' /\ TurnsInv'
<1>1. TasksOK' /\ \A d \in Conns : conn'[d] = IF d = c THEN m ELSE conn[d]
  BY StepOK DEF AgentInv
<1>2. \A d \in Conns : SameChat(conn[d], conn'[d])
  BY <1>1 DEF SameChat
<1>3. BookOK'
  BY DEF book, BookOK, AgentInv
<1>4. \A d \in Conns, s \in Sids : WorksOn(d, s)' = WorksOn(d, s)
  BY <1>2 DEF WorksOn, SameChat
<1>5. TurnsInv'
  BY <1>2, <1>4 DEF TurnsInv, AgentInv, SameChat, book
<1> QED
  BY <1>1, <1>3, <1>5

-----------------------------------------------------------------------------
(***************************************************************************)
(* The beginning and the end of a chat, and expiry.                        *)
(***************************************************************************)

LEMMA ChatBegins ==
    ASSUME AgentInv, NEW c \in Conns, Chat(c)
    PROVE  TasksOK' /\ BookOK' /\ TurnsInv' /\ CallsOK'
<1>1. PICK s \in Sids, b \in BOOLEAN :
        /\ Step(c, [Quiet EXCEPT !.pc = "open", !.sid = s, !.turn = turns',
                                 !.autopilot = b, !.taken = sessions[s] \cup {turns'}])
        /\ sessions' = [sessions EXCEPT ![s] = {}]
        /\ mixed' = mixed \cup {x \in {s} : \E d \in Conns \ {c} : conn[d].sid = s /\ conn[d].taken # {}}
  BY DEF Chat
<1> DEFINE m == [Quiet EXCEPT !.pc = "open", !.sid = s, !.turn = turns',
                              !.autopilot = b, !.taken = sessions[s] \cup {turns'}]
<1>2. conn[c].pc = "idle" /\ turns' = turns + 1 /\ turns < MaxTurns /\ finished' = finished
  BY DEF Chat, At
<1>3. turns' \in Turns /\ turns' \in 0..MaxTurns /\ sessions[s] \in SUBSET Turns
  BY <1>2, AgentAssumption DEF AgentInv, BookOK, Turns
<1>4. TaskOK(m)
  BY <1>3, ChatOK
<1>5. m.sid = s /\ m.taken = sessions[s] \cup {turns'} /\ m.turn = turns' /\ m.pc = "open"
  BY DEF Quiet
<1>6. Step(c, m)
  BY <1>1
<1> HIDE DEF m
<1>7. TasksOK' /\ \A d \in Conns : conn'[d] = IF d = c THEN m ELSE conn[d]
  BY <1>4, <1>6, StepOK DEF AgentInv
<1>8. /\ \A x \in Sids : sessions'[x] = IF x = s THEN {} ELSE sessions[x]
      /\ sessions' \in [Sids -> SUBSET Turns]
  BY <1>1 DEF AgentInv, BookOK
<1>9. BookOK'
  BY <1>1, <1>2, <1>3, <1>8 DEF AgentInv, BookOK
<1>10. conn[c].taken = {}
  BY <1>2 DEF AgentInv, TasksOK, TaskOK
<1>11. ASSUME NEW x \in Sids \ mixed'
       PROVE  /\ \A d, e \in Conns : WorksOn(d, x)' /\ WorksOn(e, x)' => d = e
              /\ \A d \in Conns : WorksOn(d, x)' =>
                    conn'[d].taken = finished'[x] \cup {conn'[d].turn} /\ sessions'[x] = {}
              /\ (\A d \in Conns : ~WorksOn(d, x)') => sessions'[x] = finished'[x]
  <2>1. x \in Sids \ mixed
    BY <1>1
  <2>2. CASE x # s
    <3>1. \A d \in Conns : WorksOn(d, x)' = WorksOn(d, x)
      BY <1>5, <1>7, <1>10, <2>2 DEF WorksOn
    <3>2. \A d \in Conns : WorksOn(d, x) => conn'[d] = conn[d]
      BY <1>7, <1>10 DEF WorksOn
    <3> QED
      BY <1>2, <1>8, <2>1, <2>2, <3>1, <3>2 DEF AgentInv, TurnsInv
  <2>3. CASE x = s
    <3>1. \A d \in Conns : ~WorksOn(d, s)
      BY <1>1, <1>10, <1>11, <2>3 DEF WorksOn
    <3>2. sessions[s] = finished[s]
      BY <2>1, <2>3, <3>1 DEF AgentInv, TurnsInv
    <3>3. \A d \in Conns : WorksOn(d, s)' => d = c
      BY <1>7, <3>1 DEF WorksOn
    <3>4. WorksOn(c, s)'
      BY <1>5, <1>7 DEF WorksOn
    <3> QED
      BY <1>2, <1>5, <1>7, <1>8, <2>3, <3>2, <3>3, <3>4
  <2> QED
    BY <2>2, <2>3
<1>12. TurnsInv'
  BY <1>11 DEF TurnsInv
<1>13. queue' = [queue EXCEPT ![c] = Tail(queue[c])] /\ queue[c] # <<>> /\ UNCHANGED calls
  BY DEF Chat, Recv
<1>14. Tail(queue[c]) \in Seq(Requests) /\ CallOK(m, Tail(queue[c]), calls[c])
  BY <1>5, <1>13, One, Same, TailOK DEF AgentInv, CallOK, Calling, Seen
<1>15. CallsOK'
  BY <1>4, <1>6, <1>13, <1>14, One, Same, CallsKept DEF AgentInv, TaskOK
<1> QED
  BY <1>7, <1>9, <1>12, <1>15

LEMMA ChatPut ==
    ASSUME AgentInv, NEW c \in Conns, Put(c)
    PROVE  TasksOK' /\ BookOK' /\ TurnsInv' /\ CallsOK'
<1> DEFINE s == conn[c].sid
           m == [Quiet EXCEPT !.pc = "expire", !.sid = s]
<1>1. /\ conn[c].pc = "put"
      /\ sessions' = [sessions EXCEPT ![s] = conn[c].taken]
      /\ finished' = [finished EXCEPT ![s] = @ \cup {conn[c].turn}]
      /\ Step(c, m) /\ UNCHANGED <<turns, mixed>>
  BY DEF Put, At
<1>2. TaskOK(conn[c])
  BY DEF AgentInv, TasksOK
<1>3. conn[c].taken # {} /\ s \in Sids /\ conn[c] \in Locals
  BY <1>1, <1>2 DEF TaskOK
<1>4. conn[c].taken \in SUBSET Turns
  BY <1>3 DEF Locals
<1>5. TaskOK(m) /\ m.taken = {} /\ m.pc = "expire"
  BY <1>3, QuietOK DEF Quiet
<1> HIDE DEF m
<1>6. TasksOK' /\ \A d \in Conns : conn'[d] = IF d = c THEN m ELSE conn[d]
  BY <1>1, <1>5, StepOK DEF AgentInv
<1>7. /\ \A x \in Sids : sessions'[x] = IF x = s THEN conn[c].taken ELSE sessions[x]
      /\ \A x \in Sids : finished'[x] = IF x = s THEN finished[s] \cup {conn[c].turn} ELSE finished[x]
  BY <1>1, <1>3 DEF AgentInv, BookOK
<1>8. ASSUME NEW x \in Sids \ mixed'
      PROVE  /\ \A d, e \in Conns : WorksOn(d, x)' /\ WorksOn(e, x)' => d = e
             /\ \A d \in Conns : WorksOn(d, x)' =>
                   conn'[d].taken = finished'[x] \cup {conn'[d].turn} /\ sessions'[x] = {}
             /\ (\A d \in Conns : ~WorksOn(d, x)') => sessions'[x] = finished'[x]
  <2>1. x \in Sids \ mixed
    BY <1>1
  <2>2. ~WorksOn(c, x)'
    BY <1>5, <1>6 DEF WorksOn
  <2>3. \A d \in Conns : d # c => conn'[d] = conn[d] /\ WorksOn(d, x)' = WorksOn(d, x)
    BY <1>6 DEF WorksOn
  <2>4. CASE x # s
    <3>1. ~WorksOn(c, x)
      BY <2>4 DEF WorksOn
    <3> QED
      BY <1>7, <2>1, <2>2, <2>3, <2>4, <3>1 DEF AgentInv, TurnsInv
  <2>5. CASE x = s
    <3>1. WorksOn(c, s)
      BY <1>3 DEF WorksOn
    <3>2. conn[c].taken = finished[s] \cup {conn[c].turn}
      BY <2>1, <2>5, <3>1 DEF AgentInv, TurnsInv
    <3>3. \A d \in Conns : ~WorksOn(d, x)'
      BY <2>1, <2>2, <2>3, <2>5, <3>1 DEF AgentInv, TurnsInv
    <3> QED
      BY <1>7, <2>5, <3>2, <3>3
  <2> QED
    BY <2>4, <2>5
<1>9. TurnsInv'
  BY <1>8 DEF TurnsInv
<1>10. BookOK'
  BY <1>1, <1>2, <1>3, <1>4 DEF AgentInv, BookOK, TaskOK
<1>11. UNCHANGED <<queue, calls>>
  BY DEF Put
<1>12. CallOK(m, queue[c], calls[c])
  BY <1>5, One, Same DEF AgentInv, CallOK, Calling, Seen
<1>13. CallsOK'
  BY <1>1, <1>5, <1>11, <1>12, One, Same, CallsKept DEF AgentInv, TaskOK
<1> QED
  BY <1>6, <1>9, <1>10, <1>13

\* Only what is in the map expires, with all its turns at once.
LEMMA Expires ==
    ASSUME AgentInv, NEW c \in Conns, Expire(c)
    PROVE  TasksOK' /\ BookOK' /\ TurnsInv' /\ CallsOK'
<1>1. PICK old \in SUBSET {s \in Sids : sessions[s] # {}} :
        /\ sessions' = [s \in Sids |-> IF s \in old THEN {} ELSE sessions[s]]
        /\ finished' = [s \in Sids |-> IF s \in old THEN {} ELSE finished[s]]
  BY DEF Expire
<1> DEFINE m == [conn[c] EXCEPT !.pc = "idle"]
<1>2. conn[c].pc = "expire" /\ Step(c, m) /\ UNCHANGED <<turns, mixed>>
  BY DEF Expire, At, Goto
<1>3. TaskOK(conn[c])
  BY DEF AgentInv, TasksOK
<1>4. TaskOK(m) /\ SameChat(conn[c], m) /\ m.pc = "idle"
  BY <1>2, <1>3 DEF TaskOK, SameChat, Locals, States, Calling
<1> HIDE DEF m
<1>5. TasksOK' /\ \A d \in Conns : conn'[d] = IF d = c THEN m ELSE conn[d]
  BY <1>2, <1>4, StepOK DEF AgentInv
<1>6. \A d \in Conns : SameChat(conn[d], conn'[d])
  BY <1>4, <1>5 DEF SameChat
<1>7. \A d \in Conns, s \in Sids : WorksOn(d, s)' = WorksOn(d, s)
  BY <1>6 DEF WorksOn, SameChat
<1>8. BookOK'
  BY <1>1, <1>2 DEF AgentInv, BookOK
<1>9. ASSUME NEW s \in Sids \ mixed'
      PROVE  /\ \A d, e \in Conns : WorksOn(d, s)' /\ WorksOn(e, s)' => d = e
             /\ \A d \in Conns : WorksOn(d, s)' =>
                   conn'[d].taken = finished'[s] \cup {conn'[d].turn} /\ sessions'[s] = {}
             /\ (\A d \in Conns : ~WorksOn(d, s)') => sessions'[s] = finished'[s]
  <2>1. s \in Sids \ mixed
    BY <1>2
  <2>2. /\ sessions'[s] = IF s \in old THEN {} ELSE sessions[s]
        /\ finished'[s] = IF s \in old THEN {} ELSE finished[s]
    BY <1>1
  <2>3. s \in old => sessions[s] # {}
    OBVIOUS
  <2>4. \A d \in Conns : WorksOn(d, s) => s \notin old
    BY <2>1, <2>3 DEF AgentInv, TurnsInv
  <2> QED
    BY <1>6, <1>7, <2>1, <2>2, <2>4 DEF AgentInv, TurnsInv, SameChat
<1>10. TurnsInv'
  BY <1>9 DEF TurnsInv
<1>11. UNCHANGED <<queue, calls>>
  BY DEF Expire
<1>12. CallOK(m, queue[c], calls[c])
  BY <1>4, One, Same DEF AgentInv, CallOK, Calling, Seen
<1>13. CallsOK'
  BY <1>2, <1>4, <1>11, <1>12, One, Same, CallsKept DEF AgentInv, TaskOK
<1> QED
  BY <1>5, <1>8, <1>10, <1>13

-----------------------------------------------------------------------------
LEMMA AgentInit == Init => AgentInv
<1> SUFFICES ASSUME Init PROVE AgentInv
  OBVIOUS
<1>1. TasksOK
  BY QuietOK DEF Init, TasksOK, TaskOK
<1>2. CallsOK
  <2>1. <<>> \in Seq(Requests) /\ <<>> \in Seq(0..MaxCalls) /\ Len(<<>>) = 0
    OBVIOUS
  <2>2. \A c \in Conns : CallOK(conn[c], queue[c], calls[c])
    BY <2>1, AgentAssumption DEF Init, Quiet, CallOK, Known, OfTheRound, Calling, Seen
  <2> QED
    BY <2>1, <2>2 DEF Init, CallsOK
<1>3. BookOK
  BY AgentAssumption DEF Init, BookOK
<1>4. \A c \in Conns : conn[c].taken = {}
  BY DEF Init, Quiet
<1>5. TurnsInv
  BY <1>4 DEF Init, TurnsInv, WorksOn
<1> QED
  BY <1>1, <1>2, <1>3, <1>5 DEF AgentInv

LEMMA AgentStep == AgentInv /\ [Next]_vars => AgentInv'
<1> SUFFICES ASSUME AgentInv, [Next]_vars PROVE AgentInv'
  OBVIOUS
<1> DEFINE Kept == TasksOK' /\ BookOK' /\ TurnsInv'
<1>1. ASSUME NEW c \in Conns, ChatWorks(c) PROVE Kept /\ CallsOK'
  <2>1. PICK m : Step(c, m) /\ TaskOK(m) /\ SameChat(conn[c], m)
    BY <1>1, WorkStep DEF AgentInv
  <2>2. CallsOK' /\ UNCHANGED book
    BY <1>1, WorkStep DEF AgentInv
  <2> QED
    BY <2>1, <2>2, SameChatKeeps
<1>2. ASSUME UNCHANGED <<conn, book>> PROVE Kept
  BY <1>2 DEF AgentInv, TasksOK, BookOK, TurnsInv, WorksOn, book
<1>3. ASSUME NEW c \in Conns, ChatRefused(c) \/ Stray(c) PROVE Kept /\ CallsOK'
  <2>1. UNCHANGED <<conn, calls, book>> /\ \E kind : Recv(c, kind)
    BY <1>3 DEF ChatRefused, Stray
  <2> QED
    BY <1>2, <2>1, Dropped DEF AgentInv
<1>4. ASSUME NEW c \in Conns, Send(c) PROVE Kept /\ CallsOK'
  <2>1. UNCHANGED <<conn, book>>
    BY <1>4 DEF Send
  <2> QED
    BY <1>2, <1>4, <2>1, SendOK DEF AgentInv
<1>5. ASSUME NEW c \in Conns, Chat(c) \/ Put(c) \/ Expire(c) PROVE Kept /\ CallsOK'
  BY <1>5, ChatBegins, ChatPut, Expires
<1>6. ASSUME UNCHANGED vars PROVE Kept /\ CallsOK'
  <2>1. UNCHANGED <<conn, book, queue, calls>>
    BY <1>6 DEF vars, book
  <2> QED
    BY <1>2, <2>1 DEF AgentInv, CallsOK, CallOK, Known, OfTheRound, Approved
<1> HIDE DEF Kept
<1>7. Kept /\ CallsOK'
  BY <1>1, <1>3, <1>4, <1>5, <1>6 DEF Next, Progress, Answer, ChatWorks
<1> QED
  BY <1>7 DEF Kept, AgentInv

LEMMA AgentInvariance == Spec => []AgentInv
<1>1. Init => AgentInv
  BY AgentInit
<1>2. AgentInv /\ [Next]_vars => AgentInv'
  BY AgentStep
<1> QED
  BY <1>1, <1>2, PTL DEF Spec

\* Type correctness of the connections' tasks, their queues and the sessions.
THEOREM AgentTyped == Spec => []TypeOK
<1>1. AgentInv => TypeOK
  BY DEF AgentInv, TasksOK, TaskOK, CallsOK, CallOK, BookOK, TypeOK
<1> QED
  BY <1>1, AgentInvariance, PTL

\* For any number of connections, rounds and calls, and for requests that come
\* late, twice or to another call: a change that is not on autopilot runs only
\* with an approval that was sent in the turn and the round it runs in, to that
\* call or to an earlier one that also had its place for an id
\* (server.rs:28-39, llm.rs:205, agent.rs:203-210 and 342-351).
THEOREM ApprovedRuns == Spec => []OnlyApprovedRuns
<1>1. AgentInv => OnlyApprovedRuns
  BY DEF AgentInv, CallsOK, CallOK, Approved, OnlyApprovedRuns, RunsAChange, Unasked
<1> QED
  BY <1>1, AgentInvariance, PTL

\* A session that no two chats have worked on at once remembers the turns of
\* all its chats, the cancelled and failed ones too, and one that is out of the
\* map is with the chat that has them (server.rs:288-306).
THEOREM TurnsKept == Spec => []TurnsAreKept
<1>1. AgentInv => TurnsAreKept
  <2> SUFFICES ASSUME AgentInv, NEW s \in Sids \ mixed
               PROVE  LET at == {c \in Conns : conn[c].sid = s /\ conn[c].taken # {}}
                      IN  IF at = {} THEN sessions[s] = finished[s]
                          ELSE \A c \in at : conn[c].taken = finished[s] \cup {conn[c].turn}
    BY DEF TurnsAreKept
  <2> QED
    BY DEF AgentInv, TurnsInv, WorksOn
<1> QED
  BY <1>1, AgentInvariance, PTL

-----------------------------------------------------------------------------
\* The record of the last update.

\* What a task that is between its findings and its verdict knows is up to
\* date.
Knows(t) ==
    /\ pc[t] \in {"verify", "lookup", "judge"} => found[t].basis = txn
    /\ pc[t] \in {"lookup", "judge"} => got[t].txn = txn

\* The inductive invariant.
Inv == RecordTypeOK /\ VerdictIsSound /\ (~overlap => \A t \in Tasks : Knows(t))

-----------------------------------------------------------------------------
(***************************************************************************)
(* Types.                                                                  *)
(***************************************************************************)

LEMMA NoneTyped == NoRecord \in Record /\ NoFindings \in Findings
  BY RecordAssumption DEF NoRecord, Record, NoFindings, Findings

LEMMA FreshTyped ==
    ASSUME NEW n \in 0..MaxTxn, NEW touched \in BOOLEAN
    PROVE  /\ Fresh(n, touched) \in Record
           /\ Fresh(n, touched).txn = n /\ Fresh(n, touched).verified = ""
<1>1. NoRecord \in Record /\ NoRecord.verified = ""
  BY NoneTyped DEF NoRecord
<1> QED
  BY <1>1 DEF Fresh, Record

LEMMA SnapTyped ==
    ASSUME NEW r \in Record, NEW snap \in BOOLEAN
    PROVE  /\ [r EXCEPT !.snap = snap] \in Record
           /\ [r EXCEPT !.snap = snap].txn = r.txn
           /\ [r EXCEPT !.snap = snap].verified = r.verified
           /\ [r EXCEPT !.snap = snap].basis = r.basis
  BY DEF Record

LEMMA StatesTyped ==
    /\ "idle" \in TaskStates /\ "run" \in TaskStates /\ "verify" \in TaskStates
    /\ "lookup" \in TaskStates /\ "judge" \in TaskStates /\ "pacman" \in TaskStates
    /\ "record" \in TaskStates
  BY DEF TaskStates

\* The initial state satisfies the invariant.
LEMMA InvInit == RecordInit => Inv
<1> SUFFICES ASSUME RecordInit PROVE Inv
  OBVIOUS
<1>1. RecordTypeOK
  <2>1. rec \in Record /\ got \in [Tasks -> Record] /\ found \in [Tasks -> Findings]
    BY NoneTyped DEF RecordInit
  <2>2. txn \in 0..MaxTxn /\ boots \in 0..MaxBoots /\ started \in 0..MaxTxn
    BY RecordAssumption DEF RecordInit
  <2>3. pc \in [Tasks -> TaskStates]
    BY StatesTyped DEF RecordInit
  <2> QED
    BY <2>1, <2>2, <2>3 DEF RecordInit, RecordTypeOK
<1>2. rec.verified = "" /\ rec.txn = txn /\ notices = {}
  BY DEF RecordInit, NoRecord
<1>3. VerdictIsSound
  BY <1>2 DEF VerdictIsSound
<1>4. \A t \in Tasks : Knows(t)
  BY DEF RecordInit, Knows
<1> QED
  BY <1>1, <1>3, <1>4 DEF Inv

\* A task gives up or is done: nothing it knows matters any more.
LEMMA Leaves ==
    ASSUME Inv, NEW t \in Tasks, GoesTo(t, "idle"), Forget(t), UNCHANGED <<txn, overlap>>
    PROVE  /\ pc' \in [Tasks -> TaskStates] /\ got' \in [Tasks -> Record]
           /\ found' \in [Tasks -> Findings]
           /\ ~overlap' => \A u \in Tasks : Knows(u)'
<1>1. pc' \in [Tasks -> TaskStates] /\ got' \in [Tasks -> Record] /\ found' \in [Tasks -> Findings]
  BY NoneTyped, StatesTyped DEF Inv, RecordTypeOK, GoesTo, Forget
<1>2. ASSUME NEW u \in Tasks, ~overlap PROVE Knows(u)'
  BY <1>2 DEF Inv, RecordTypeOK, GoesTo, Forget, Knows
<1> QED
  BY <1>1, <1>2

\* The steps of a check.
LEMMA CheckKeeps ==
    ASSUME Inv, NEW t \in Tasks, Check(t)
    PROVE  Inv'
<1>1. /\ rec \in Record /\ pc \in [Tasks -> TaskStates] /\ got \in [Tasks -> Record]
      /\ found \in [Tasks -> Findings] /\ txn \in 0..MaxTxn /\ got[t] \in Record /\ found[t] \in Findings
      /\ notices \subseteq {"reboot", "verified", "problems"} /\ broken \in BOOLEAN /\ stale \in BOOLEAN
  BY DEF Inv, RecordTypeOK
<1>2. CASE Start(t)
  <2>1. pc' = [pc EXCEPT ![t] = "run"] /\ UNCHANGED <<rec, machine, notices, got, found, started, overlap>>
    BY <1>2 DEF Start, GoesTo
  <2>2. RecordTypeOK' /\ VerdictIsSound'
    BY <1>1, <2>1, StatesTyped DEF Inv, RecordTypeOK, VerdictIsSound, machine
  <2>3. ASSUME ~overlap, NEW u \in Tasks PROVE Knows(u)'
    BY <1>1, <2>1, <2>3 DEF Inv, Knows, machine
  <2> QED
    BY <2>1, <2>2, <2>3 DEF Inv
<1>3. CASE Run(t)
  <2> DEFINE f == [problem |-> broken \/ stale, basis |-> txn]
  <2>1. /\ pc' = [pc EXCEPT ![t] = "verify"] /\ found' = [found EXCEPT ![t] = f]
        /\ UNCHANGED <<rec, machine, notices, got, started, overlap>>
    BY <1>3 DEF Run, GoesTo
  <2>2. f \in Findings /\ f.basis = txn
    BY <1>1 DEF Findings
  <2> HIDE DEF f
  <2>3. RecordTypeOK' /\ VerdictIsSound'
    BY <1>1, <2>1, <2>2, StatesTyped DEF Inv, RecordTypeOK, VerdictIsSound, machine
  <2>4. ASSUME ~overlap, NEW u \in Tasks PROVE Knows(u)'
    BY <1>1, <2>1, <2>2, <2>4 DEF Inv, Knows, machine
  <2> QED
    BY <2>1, <2>3, <2>4 DEF Inv
<1>4. CASE VerifyNothing(t)
  BY <1>4, Leaves DEF VerifyNothing, Inv, RecordTypeOK, VerdictIsSound, machine
<1>5. CASE VerifyReboot(t)
  <2>1. rec.verified = "" /\ notices' = notices \cup {"reboot"} /\ UNCHANGED <<rec, machine, started, overlap>>
    BY <1>5 DEF VerifyReboot, Verifiable
  <2>2. VerdictIsSound'
    BY <2>1 DEF Inv, VerdictIsSound, machine
  <2> QED
    BY <1>1, <1>5, <2>1, <2>2, Leaves DEF VerifyReboot, Inv, RecordTypeOK, machine
<1>6. CASE VerifyRecord(t)
  <2> DEFINE to == IF rec.snap THEN "judge" ELSE "lookup"
  <2>1. /\ pc[t] = "verify" /\ pc' = [pc EXCEPT ![t] = to] /\ got' = [got EXCEPT ![t] = rec]
        /\ UNCHANGED <<rec, machine, notices, found, started, overlap>>
    BY <1>6 DEF VerifyRecord, Verifiable, GoesTo
  <2>2. to \in TaskStates
    BY StatesTyped
  <2> HIDE DEF to
  <2>3. RecordTypeOK' /\ VerdictIsSound'
    BY <1>1, <2>1, <2>2 DEF Inv, RecordTypeOK, VerdictIsSound, machine
  <2>4. ASSUME ~overlap, NEW u \in Tasks PROVE Knows(u)'
    BY <1>1, <2>1, <2>4 DEF Inv, Knows, VerdictIsSound, machine
  <2> QED
    BY <2>1, <2>3, <2>4 DEF Inv
<1>7. CASE Lookup(t)
  <2>1. PICK snap \in BOOLEAN : got' = [got EXCEPT ![t].snap = snap]
    BY <1>7 DEF Lookup
  <2>2. /\ pc[t] = "lookup" /\ pc' = [pc EXCEPT ![t] = "judge"]
        /\ UNCHANGED <<rec, machine, notices, found, started, overlap>>
    BY <1>7 DEF Lookup, GoesTo
  <2> DEFINE g == [got[t] EXCEPT !.snap = snap]
  <2>3. g \in Record /\ g.txn = got[t].txn /\ got' = [got EXCEPT ![t] = g]
    BY <1>1, <2>1, SnapTyped
  <2> HIDE DEF g
  <2>4. RecordTypeOK' /\ VerdictIsSound'
    BY <1>1, <2>2, <2>3, StatesTyped DEF Inv, RecordTypeOK, VerdictIsSound, machine
  <2>5. ASSUME ~overlap, NEW u \in Tasks PROVE Knows(u)'
    BY <1>1, <2>2, <2>3, <2>5 DEF Inv, Knows, machine
  <2> QED
    BY <2>2, <2>4, <2>5 DEF Inv
<1>8. CASE Judge(t)
  <2> DEFINE verdict == IF found[t].problem THEN "problems" ELSE "ok"
             r == [got[t] EXCEPT !.verified = verdict, !.basis = found[t].basis]
  <2>1. pc[t] = "judge" /\ rec' = r /\ GoesTo(t, "idle") /\ Forget(t) /\ UNCHANGED <<machine, started, overlap>>
    BY <1>8 DEF Judge
  <2>2. notices' \subseteq {"reboot", "verified", "problems"} /\ "reboot" \notin notices'
    BY <1>1, <1>8 DEF Judge
  <2>3. verdict \in {"ok", "problems"}
    OBVIOUS
  <2> HIDE DEF verdict
  <2>4. r \in Record /\ r.txn = got[t].txn /\ r.basis = found[t].basis
    <3>1. got[t] \in Record /\ found[t] \in Findings
      BY <1>1
    <3> QED
      BY <2>3, <3>1 DEF Record, Findings, r
  <2> HIDE DEF r
  <2>5. ~overlap => got[t].txn = txn /\ found[t].basis = txn
    BY <2>1 DEF Inv, Knows
  <2>6. VerdictIsSound'
    <3>1. ASSUME ~overlap PROVE rec'.basis >= rec'.txn /\ rec'.txn = txn'
      BY <1>1, <2>1, <2>4, <2>5, <3>1 DEF machine
    <3> QED
      BY <2>1, <2>2, <3>1 DEF VerdictIsSound
  <2> QED
    BY <2>1, <2>2, <2>4, <2>6, Leaves DEF Inv, RecordTypeOK, machine
<1>9. CASE Timeout(t)
  BY <1>9, Leaves DEF Timeout, Inv, RecordTypeOK, VerdictIsSound, machine
<1> QED
  BY <1>2, <1>3, <1>4, <1>5, <1>6, <1>7, <1>8, <1>9 DEF Check

\* A fresh record: no verdict, and nobody in the middle of one.
LEMMA FreshRecord ==
    ASSUME Inv, NEW r \in Record, r.verified = "", r.txn = txn',
           rec' = r, overlap' = (overlap \/ Overlaps), UNCHANGED <<notices>>,
           ASSUME NEW u \in Tasks
           PROVE  pc'[u] \in {"verify", "lookup", "judge"} => pc[u] \in {"verify", "lookup", "judge"}
    PROVE  VerdictIsSound' /\ (~overlap' => \A t \in Tasks : Knows(t)')
<1>1. VerdictIsSound'
  BY DEF VerdictIsSound
<1>2. ASSUME ~overlap', NEW t \in Tasks PROVE Knows(t)'
  <2>1. pc[t] \notin {"verify", "lookup", "judge"}
    BY <1>2 DEF Overlaps
  <2> QED
    BY <2>1 DEF Knows
<1> QED
  BY <1>1, <1>2

\* Every step preserves the invariant.
LEMMA InvStep == Inv /\ [RecordNext]_recordVars => Inv'
<1> SUFFICES ASSUME Inv, [RecordNext]_recordVars PROVE Inv'
  OBVIOUS
<1>0. /\ rec \in Record /\ pc \in [Tasks -> TaskStates] /\ txn \in 0..MaxTxn /\ started \in 0..MaxTxn
      /\ boots \in 0..MaxBoots /\ overlap \in BOOLEAN /\ stale \in BOOLEAN /\ broken \in BOOLEAN
  BY DEF Inv, RecordTypeOK
<1>1. Updater \in Tasks
  BY DEF Tasks
<1>2. CASE \E t \in Tasks : Check(t)
  BY <1>2, CheckKeeps
<1>3. CASE ApplyStart
  <2>1. pc' = [pc EXCEPT ![Updater] = "pacman"] /\ started' = txn /\ UNCHANGED <<rec, machine, notices, got, found, overlap>>
    BY <1>3 DEF ApplyStart, GoesTo
  <2>2. RecordTypeOK' /\ VerdictIsSound'
    BY <1>0, <2>1, StatesTyped DEF Inv, RecordTypeOK, VerdictIsSound, machine
  <2>3. ASSUME ~overlap, NEW u \in Tasks PROVE Knows(u)'
    BY <1>0, <2>1, <2>3 DEF Inv, Knows, machine
  <2> QED
    BY <2>1, <2>2, <2>3 DEF Inv
<1>4. CASE PacmanEnds
  <2>1. pc' = [pc EXCEPT ![Updater] = "record"] /\ UNCHANGED <<rec, machine, notices, got, found, started, overlap>>
    BY <1>4 DEF PacmanEnds, GoesTo
  <2>2. RecordTypeOK' /\ VerdictIsSound'
    BY <1>0, <2>1, StatesTyped DEF Inv, RecordTypeOK, VerdictIsSound, machine
  <2>3. ASSUME ~overlap, NEW u \in Tasks PROVE Knows(u)'
    BY <1>0, <2>1, <2>3 DEF Inv, Knows, machine
  <2> QED
    BY <2>1, <2>2, <2>3 DEF Inv
<1>5. CASE ApplyRecord
  <2>1. /\ pc' = [pc EXCEPT ![Updater] = "run"] /\ started' = 0
        /\ UNCHANGED <<stale, broken, young, boots, notices, got, found>>
    BY <1>5 DEF ApplyRecord, GoesTo
  <2>2. pc' \in [Tasks -> TaskStates] /\ started' \in 0..MaxTxn
    <3>1. pc' \in [Tasks -> TaskStates]
      BY <1>0, <2>1, StatesTyped
    <3>2. started' \in 0..MaxTxn
      BY <2>1, RecordAssumption
    <3> QED
      BY <3>1, <3>2
  <2>3. CASE UNCHANGED <<txn, overlap>> /\ \E snap \in {rec.snap, TRUE} : rec' = [rec EXCEPT !.snap = snap]
    <3>1. rec.snap \in BOOLEAN
      BY <1>0 DEF Record
    <3>2. rec' \in Record /\ rec'.txn = rec.txn /\ rec'.verified = rec.verified /\ rec'.basis = rec.basis
      <4>1. PICK snap \in BOOLEAN : rec' = [rec EXCEPT !.snap = snap]
        BY <2>3, <3>1
      <4> QED
        BY <1>0, <4>1, SnapTyped
    <3>3. VerdictIsSound'
      BY <2>1, <2>3, <3>2 DEF Inv, VerdictIsSound
    <3>4. ASSUME ~overlap, NEW u \in Tasks PROVE Knows(u)'
      BY <1>0, <2>1, <2>3, <3>4 DEF Inv, Knows
    <3> QED
      BY <2>1, <2>2, <2>3, <3>2, <3>3, <3>4 DEF Inv, RecordTypeOK
  <2>4. CASE /\ txn < MaxTxn /\ txn' = txn + 1 /\ overlap' = (overlap \/ Overlaps)
             /\ \E touched, snap \in BOOLEAN : rec' = [Fresh(txn', touched) EXCEPT !.snap = snap]
    <3>1. txn' \in 0..MaxTxn
      BY <1>0, <2>4, RecordAssumption
    <3>2. rec' \in Record /\ rec'.txn = txn' /\ rec'.verified = ""
      <4>1. PICK touched, snap \in BOOLEAN : rec' = [Fresh(txn', touched) EXCEPT !.snap = snap]
        BY <2>4
      <4>2. Fresh(txn', touched) \in Record /\ Fresh(txn', touched).txn = txn' /\ Fresh(txn', touched).verified = ""
        BY <3>1, FreshTyped
      <4> HIDE DEF Fresh
      <4> QED
        BY <4>1, <4>2, SnapTyped
    <3>3. ASSUME NEW u \in Tasks
          PROVE  pc'[u] \in {"verify", "lookup", "judge"} => pc[u] \in {"verify", "lookup", "judge"}
      BY <1>0, <2>1
    <3>4. VerdictIsSound' /\ (~overlap' => \A t \in Tasks : Knows(t)')
      BY <2>1, <2>4, <3>2, <3>3, FreshRecord
    <3>5. overlap' \in BOOLEAN
      BY <2>4
    <3> QED
      BY <2>1, <2>2, <3>1, <3>2, <3>4, <3>5 DEF Inv, RecordTypeOK
  <2> QED
    BY <1>5, <2>3, <2>4 DEF ApplyRecord
<1>6. CASE Transaction
  <2>1. txn' \in 0..MaxTxn
    BY <1>0, <1>6, RecordAssumption DEF Transaction
  <2>2. PICK touched, nowStale, breaks \in BOOLEAN :
           /\ rec' = Fresh(txn', touched) /\ stale' = (stale \/ nowStale) /\ broken' = (broken \/ breaks)
    BY <1>6 DEF Transaction
  <2>3. rec' \in Record /\ rec'.txn = txn' /\ rec'.verified = ""
    BY <2>1, <2>2, FreshTyped
  <2>4. overlap' = (overlap \/ Overlaps) /\ UNCHANGED <<young, boots, notices, pc, got, found, started>>
    BY <1>6 DEF Transaction
  <2>5. VerdictIsSound' /\ (~overlap' => \A t \in Tasks : Knows(t)')
    BY <2>3, <2>4, FreshRecord
  <2>6. overlap' \in BOOLEAN /\ stale' \in BOOLEAN /\ broken' \in BOOLEAN
    BY <2>2, <2>4
  <2> QED
    BY <2>1, <2>3, <2>4, <2>5, <2>6 DEF Inv, RecordTypeOK
<1>7. CASE Repair
  BY <1>7 DEF Repair, Inv, RecordTypeOK, VerdictIsSound, Knows
<1>8. CASE Reboot
  <2>1. boots' \in 0..MaxBoots /\ started' \in 0..MaxTxn
    BY <1>0, <1>8, RecordAssumption DEF Reboot
  <2>2. pc' \in [Tasks -> TaskStates] /\ got' \in [Tasks -> Record] /\ found' \in [Tasks -> Findings]
    BY <1>8, StatesTyped, NoneTyped DEF Reboot
  <2>3. \A t \in Tasks : Knows(t)'
    BY <1>8 DEF Reboot, Knows
  <2> QED
    BY <1>8, <2>1, <2>2, <2>3 DEF Reboot, Inv, RecordTypeOK, VerdictIsSound
<1>9. CASE Settle
  BY <1>9 DEF Settle, Inv, RecordTypeOK, VerdictIsSound, Knows
<1>10. CASE UNCHANGED recordVars
  BY <1>10 DEF recordVars, Inv, RecordTypeOK, VerdictIsSound, Knows
<1> QED
  BY <1>2, <1>3, <1>4, <1>5, <1>6, <1>7, <1>8, <1>9, <1>10 DEF RecordNext

-----------------------------------------------------------------------------
(***************************************************************************)
(* The theorem.                                                            *)
(***************************************************************************)

\* Whatever the interleaving of timer, clients, installs, transactions and
\* reboots: unless a transaction was recorded between a check's findings and
\* its verdict, a verdict rests on later findings than the transaction it is
\* about, the record is the last transaction's and no hint to reboot outlives
\* it (health.rs:149-221, updates.rs:349-354).
THEOREM VerdictsAreSound == RecordSpec => []VerdictIsSound
<1>1. Inv => VerdictIsSound
  BY DEF Inv
<1> QED
  BY <1>1, InvInit, InvStep, PTL DEF RecordSpec

-----------------------------------------------------------------------------
\* Looking for updates, rating and installing them.

\* The copy of a check that will ask the model is rated by the rules alone.
Unrefined(s) == ~s.byModel /\ s.risk # NotRated

\* The inductive invariant: every status in memory, in the file and in the
\* hands of a task is sound, and only rule ratings go to the model.
UpdatesInv ==
    /\ UpdatesTypeOK
    /\ Sound(status) /\ Sound(saved)
    /\ \A t \in UpdateTasks : Sound(copy[t])
    /\ \A t \in UpdateTasks : stage[t] \in {"storeAssess", "assess"} => Unrefined(copy[t])

-----------------------------------------------------------------------------
(***************************************************************************)
(* The operators on a status.                                              *)
(***************************************************************************)

LEMMA RiskRange ==
    ASSUME NEW pkgs, NEW manual \in BOOLEAN
    PROVE  /\ RuleRisk(pkgs, manual) \in NotRated..High
           /\ RuleRisk(pkgs, manual) # NotRated
           /\ RuleRisk(pkgs, TRUE) = High
  BY DEF RuleRisk, NotRated, Low, Medium, High

LEMMA RulesAreSound ==
    ASSUME NEW s \in Status, NEW from \in Days
    PROVE  /\ RuleAssessment(s, from) \in Status
           /\ Sound(RuleAssessment(s, from))
           /\ Unrefined(RuleAssessment(s, from))
           /\ RuleAssessment(s, from).pkgs = s.pkgs
<1> DEFINE manual == ManualSince(s.news, from)
           risk == RuleRisk(s.pkgs, manual)
<1>1. manual \in BOOLEAN
  BY DEF ManualSince
<1>2. risk \in NotRated..High /\ risk # NotRated /\ (manual => risk = High)
  BY <1>1, RiskRange
<1>3. RuleAssessment(s, from) = [s EXCEPT !.manual = manual, !.risk = risk, !.byModel = FALSE, !.about = s.pkgs]
  BY DEF RuleAssessment
<1>4. risk \in Int /\ risk >= risk - 1
  BY <1>2 DEF NotRated, High
<1> HIDE DEF manual, risk
<1>5. RuleAssessment(s, from) \in Status
  BY <1>1, <1>2, <1>3 DEF Status
<1>6. /\ RuleAssessment(s, from).manual = manual /\ RuleAssessment(s, from).risk = risk
      /\ RuleAssessment(s, from).byModel = FALSE /\ RuleAssessment(s, from).pkgs = s.pkgs
      /\ RuleAssessment(s, from).about = s.pkgs
  BY <1>3 DEF Status
<1>7. risk = RuleRisk(s.pkgs, manual)
  BY DEF risk
<1> QED
  BY <1>2, <1>4, <1>5, <1>6, <1>7 DEF Sound, Unrefined

LEMMA ModelIsSound ==
    ASSUME NEW s \in Status, NEW answer \in Low..High, Sound(s), Unrefined(s)
    PROVE  ModelAssessment(s, answer) \in Status /\ Sound(ModelAssessment(s, answer))
<1> DEFINE risk == ModelRisk(answer, s)
<1>1. s.risk \in NotRated..High /\ s.manual \in BOOLEAN
  BY DEF Status
<1>2. risk \in NotRated..High /\ risk # NotRated /\ risk \in Int /\ risk >= s.risk - 1 /\ (s.manual => risk = High)
  BY <1>1 DEF ModelRisk, NotRated, Low, High
<1>3. ModelAssessment(s, answer) = [s EXCEPT !.risk = risk, !.byModel = TRUE, !.about = s.pkgs]
  BY DEF ModelAssessment
<1>4. s.pkgs # {} => s.risk = RuleRisk(s.pkgs, s.manual)
  BY DEF Sound, Unrefined
<1> HIDE DEF risk
<1>5. ModelAssessment(s, answer) \in Status
  BY <1>2, <1>3 DEF Status
<1>6. /\ ModelAssessment(s, answer).manual = s.manual /\ ModelAssessment(s, answer).risk = risk
      /\ ModelAssessment(s, answer).byModel = TRUE /\ ModelAssessment(s, answer).pkgs = s.pkgs
      /\ ModelAssessment(s, answer).about = s.pkgs
  BY <1>3 DEF Status
<1> QED
  BY <1>2, <1>4, <1>5, <1>6 DEF Sound

LEMMA MergeIsSound ==
    ASSUME NEW s \in Status, NEW f \in Fetched, NEW from \in Days, Sound(s)
    PROVE  /\ Merged(s, f, from).status \in Status /\ Sound(Merged(s, f, from).status)
           /\ Merged(s, f, from).assess => Unrefined(Merged(s, f, from).status)
<1> DEFINE pkgs == IF f.failed THEN s.pkgs ELSE f.pkgs
           error == s.error \/ f.failed
           news == IF f.news = Unread THEN s.news ELSE f.news
           listed == [s EXCEPT !.pkgs = pkgs, !.error = error, !.news = news, !.checking = FALSE]
           changed == listed.pkgs # s.pkgs \/ s.risk = NotRated
           rated == IF changed \/ ~s.byModel THEN RuleAssessment(listed, from) ELSE listed
           assessNow == (changed \/ ~rated.byModel) /\ rated.pkgs # {} /\ ~s.assessing
           assessing == rated.assessing \/ assessNow
<1>1. pkgs \in SUBSET Packages /\ error \in BOOLEAN /\ news \in MaybeDay
  BY UpdateAssumption DEF Status, Fetched
<1> HIDE DEF pkgs, error, news
<1>2. listed \in Status
  BY <1>1 DEF Status
<1>3. listed.risk = s.risk /\ listed.byModel = s.byModel /\ listed.manual = s.manual /\ listed.about = s.about
  BY DEF Status
<1>4. Merged(s, f, from).status = [rated EXCEPT !.assessing = assessing] /\ Merged(s, f, from).assess = assessNow
  BY DEF Merged, pkgs, error, news
<1> HIDE DEF listed
<1>5. CASE changed \/ ~s.byModel
  <2>1. rated \in Status /\ Sound(rated) /\ Unrefined(rated)
    BY <1>1, <1>2, <1>5, RulesAreSound
  <2>2. assessing \in BOOLEAN
    OBVIOUS
  <2> HIDE DEF rated, assessing, assessNow
  <2>3. [rated EXCEPT !.assessing = assessing] \in Status
    BY <2>1, <2>2 DEF Status
  <2>4. /\ [rated EXCEPT !.assessing = assessing].pkgs = rated.pkgs
        /\ [rated EXCEPT !.assessing = assessing].risk = rated.risk
        /\ [rated EXCEPT !.assessing = assessing].manual = rated.manual
        /\ [rated EXCEPT !.assessing = assessing].byModel = rated.byModel
        /\ [rated EXCEPT !.assessing = assessing].about = rated.about
    BY <2>1 DEF Status
  <2>5. QED
    BY <1>4, <2>1, <2>3, <2>4 DEF Sound, Unrefined
<1>6. CASE ~changed /\ s.byModel
  <2>1. rated = listed /\ listed.pkgs = s.pkgs /\ ~assessNow
    BY <1>3, <1>6
  <2>2. assessing \in BOOLEAN
    OBVIOUS
  <2> HIDE DEF rated, assessing, assessNow, changed
  <2>3. [listed EXCEPT !.assessing = assessing] \in Status
    BY <1>2, <2>2 DEF Status
  <2>4. /\ [listed EXCEPT !.assessing = assessing].pkgs = s.pkgs
        /\ [listed EXCEPT !.assessing = assessing].risk = s.risk
        /\ [listed EXCEPT !.assessing = assessing].manual = s.manual
        /\ [listed EXCEPT !.assessing = assessing].byModel = s.byModel
        /\ [listed EXCEPT !.assessing = assessing].about = s.about
    BY <1>2, <1>3, <2>1 DEF Status
  <2>5. QED
    BY <1>4, <2>1, <2>3, <2>4 DEF Sound, Unrefined
<1> QED
  BY <1>5, <1>6

\* A fresh status, one read back, and the flag updates of check and apply.
LEMMA EmptyIsSound == EmptyStatus \in Status /\ Sound(EmptyStatus)
  BY UpdateAssumption DEF EmptyStatus, Status, Sound, NotRated, High, MaybeDay

LEMMA FlagsAreSound ==
    ASSUME NEW s \in Status, Sound(s)
    PROVE  /\ Loaded(s) \in Status /\ Sound(Loaded(s))
           /\ [s EXCEPT !.checking = TRUE, !.error = FALSE] \in Status
           /\ Sound([s EXCEPT !.checking = TRUE, !.error = FALSE])
           /\ \A b \in BOOLEAN : [s EXCEPT !.applying = b] \in Status /\ Sound([s EXCEPT !.applying = b])
           /\ [s EXCEPT !.applying = FALSE, !.pkgs = {}, !.risk = Low, !.about = {}] \in Status
           /\ Sound([s EXCEPT !.applying = FALSE, !.pkgs = {}, !.risk = Low, !.about = {}])
<1>1. Low \in NotRated..High
  BY DEF Low, NotRated, High
<1>2. /\ Loaded(s) \in Status
      /\ [s EXCEPT !.checking = TRUE, !.error = FALSE] \in Status
      /\ \A b \in BOOLEAN : [s EXCEPT !.applying = b] \in Status
      /\ [s EXCEPT !.applying = FALSE, !.pkgs = {}, !.risk = Low, !.about = {}] \in Status
  BY <1>1 DEF Loaded, Status
<1>3. Sound(Loaded(s)) /\ Sound([s EXCEPT !.checking = TRUE, !.error = FALSE])
  BY DEF Loaded, Status, Sound
<1>4. \A b \in BOOLEAN : Sound([s EXCEPT !.applying = b])
  BY DEF Status, Sound
<1>5. Sound([s EXCEPT !.applying = FALSE, !.pkgs = {}, !.risk = Low, !.about = {}])
  BY DEF Status, Sound
<1> QED
  BY <1>2, <1>3, <1>4, <1>5

LEMMA ForModelIsSound ==
    ASSUME NEW s \in Status, Sound(s), Unrefined(s)
    PROVE  ForModel(s) \in Status /\ Sound(ForModel(s)) /\ Unrefined(ForModel(s))
<1>1. NoDay \in MaybeDay
  BY DEF MaybeDay
<1>2. ForModel(s) \in Status
  BY <1>1 DEF ForModel, Status
<1>3. /\ ForModel(s).pkgs = s.pkgs /\ ForModel(s).risk = s.risk
      /\ ForModel(s).manual = s.manual /\ ForModel(s).byModel = s.byModel /\ ForModel(s).about = s.about
  BY DEF ForModel, Status
<1> QED
  BY <1>2, <1>3 DEF Sound, Unrefined

\* A verdict that lands: the risk of the copy on a status with the same list
\* and the same news.
LEMMA LandingIsSound ==
    ASSUME NEW s \in Status, NEW c \in Status, Sound(s), Sound(c), NEW matches \in BOOLEAN,
           matches => s.pkgs = c.pkgs /\ s.manual = c.manual
    PROVE  LET landed == [s EXCEPT !.risk = IF matches THEN c.risk ELSE @,
                                   !.byModel = IF matches THEN c.byModel ELSE @,
                                   !.about = IF matches THEN c.about ELSE @,
                                   !.assessing = FALSE]
           IN  landed \in Status /\ Sound(landed)
<1> DEFINE risk == IF matches THEN c.risk ELSE s.risk
           byModel == IF matches THEN c.byModel ELSE s.byModel
           about == IF matches THEN c.about ELSE s.about
           landed == [s EXCEPT !.risk = risk, !.byModel = byModel, !.about = about, !.assessing = FALSE]
<1>1. risk \in NotRated..High /\ byModel \in BOOLEAN /\ about \in SUBSET Packages
  BY DEF Status
<1>2. \/ risk = s.risk /\ byModel = s.byModel /\ about = s.about
      \/ risk = c.risk /\ byModel = c.byModel /\ about = c.about /\ s.pkgs = c.pkgs /\ s.manual = c.manual
  OBVIOUS
<1> HIDE DEF risk, byModel, about
<1>3. landed \in Status
  BY <1>1 DEF Status
<1>4. /\ landed.pkgs = s.pkgs /\ landed.manual = s.manual /\ landed.risk = risk
      /\ landed.byModel = byModel /\ landed.about = about
  BY DEF Status
<1>5. Sound(landed)
  BY <1>2, <1>4 DEF Sound
<1> QED
  BY <1>3, <1>5 DEF risk, byModel, about

-----------------------------------------------------------------------------
(***************************************************************************)
(* The invariant: initially, and step by step.                             *)
(***************************************************************************)

\* The initial state satisfies the invariant.
LEMMA UpdatesInvInit == UpdatesInit => UpdatesInv
<1> SUFFICES ASSUME UpdatesInit PROVE UpdatesInv
  OBVIOUS
<1>1. 0 \in Days
  BY UpdateAssumption DEF Days
<1>2. stage \in [UpdateTasks -> Stages]
  BY DEF UpdatesInit, Stages
<1> QED
  BY <1>1, <1>2, EmptyIsSound DEF UpdatesInit, UpdatesInv, UpdatesTypeOK

\* Moving one task to a state where its copy is not waiting for the model.
LEMMA MoveTask ==
    ASSUME UpdatesInv, NEW t \in UpdateTasks, NEW to \in Stages \ {"storeAssess", "assess"},
           NEW c \in Status, Sound(c), MoveTo(t, to), copy' = [copy EXCEPT ![t] = c]
    PROVE  /\ stage' \in [UpdateTasks -> Stages]
           /\ copy' \in [UpdateTasks -> Status]
           /\ \A u \in UpdateTasks : Sound(copy'[u])
           /\ \A u \in UpdateTasks : stage'[u] \in {"storeAssess", "assess"} => Unrefined(copy'[u])
<1>1. stage \in [UpdateTasks -> Stages] /\ copy \in [UpdateTasks -> Status]
  BY DEF UpdatesInv, UpdatesTypeOK
<1>2. /\ \A u \in UpdateTasks : Sound(copy[u])
      /\ \A u \in UpdateTasks : stage[u] \in {"storeAssess", "assess"} => Unrefined(copy[u])
  BY DEF UpdatesInv
<1>3. stage' \in [UpdateTasks -> Stages] /\ copy' \in [UpdateTasks -> Status]
  BY <1>1 DEF MoveTo
<1>4. \A u \in UpdateTasks : copy'[u] = IF u = t THEN c ELSE copy[u]
  BY <1>1
<1>5. \A u \in UpdateTasks : stage'[u] = IF u = t THEN to ELSE stage[u]
  BY <1>1 DEF MoveTo
<1> QED
  BY <1>2, <1>3, <1>4, <1>5

\* The same, when the copy stays.
LEMMA KeepCopy ==
    ASSUME UpdatesInv, NEW t \in UpdateTasks, UNCHANGED copy
    PROVE  copy[t] \in Status /\ Sound(copy[t]) /\ copy' = [copy EXCEPT ![t] = copy[t]]
  BY DEF UpdatesInv, UpdatesTypeOK

\* A check that returns.
LEMMA ReturnKeeps ==
    ASSUME UpdatesInv, NEW t \in UpdateTasks, NEW s \in Status, Sound(s), Return(t, s)
    PROVE  /\ stage' \in [UpdateTasks -> Stages]
           /\ copy' \in [UpdateTasks -> Status]
           /\ \A u \in UpdateTasks : Sound(copy'[u])
           /\ \A u \in UpdateTasks : stage'[u] \in {"storeAssess", "assess"} => Unrefined(copy'[u])
<1>1. "apply" \in Stages \ {"storeAssess", "assess"} /\ "idle" \in Stages \ {"storeAssess", "assess"}
  BY DEF Stages
<1>2. CASE MoveTo(t, "apply") /\ copy' = [copy EXCEPT ![t] = ListOf(s)]
  <2>1. ListOf(s) \in Status /\ Sound(ListOf(s))
    BY EmptyIsSound DEF ListOf, EmptyStatus, Status, Sound
  <2> QED
    BY <1>1, <1>2, <2>1, MoveTask
<1>3. CASE MoveTo(t, "idle") /\ copy' = [copy EXCEPT ![t] = EmptyStatus]
  BY <1>1, <1>3, EmptyIsSound, MoveTask
<1> QED
  BY <1>2, <1>3 DEF Return

\* One task's steps of a check.
LEMMA CheckSteps ==
    ASSUME UpdatesInv, NEW t \in UpdateTasks,
           CheckBusy(t) \/ CheckBegins(t) \/ Merge(t) \/ Store(t) \/ Save(t)
              \/ Assess(t) \/ Verdict(t)
    PROVE  UpdatesInv'
<1>1. /\ status \in Status /\ saved \in Status /\ lastDay \in Days /\ day \in Days
      /\ stage \in [UpdateTasks -> Stages] /\ copy \in [UpdateTasks -> Status]
      /\ since \in [UpdateTasks -> Days] /\ Sound(status) /\ Sound(saved)
      /\ copy[t] \in Status /\ Sound(copy[t]) /\ since[t] \in Days
  BY DEF UpdatesInv, UpdatesTypeOK
<1>2. CASE CheckBusy(t)
  BY <1>1, <1>2, ReturnKeeps DEF CheckBusy, UpdatesInv, UpdatesTypeOK
<1>3. CASE CheckBegins(t)
  <2>1. status' \in Status /\ Sound(status')
    BY <1>1, <1>3, FlagsAreSound DEF CheckBegins
  <2>3. since' \in [UpdateTasks -> Days]
    BY <1>1, <1>3 DEF CheckBegins
  <2>4. "fetch" \in Stages \ {"storeAssess", "assess"}
    BY DEF Stages
  <2> QED
    BY <1>1, <1>3, <2>1, <2>3, <2>4, KeepCopy, MoveTask, SMTT(30) DEF CheckBegins, UpdatesInv, UpdatesTypeOK
<1>5. CASE Merge(t)
  <2>0. PICK f \in Fetched :
           /\ copy' = [copy EXCEPT ![t] = Merged(status, f, since[t]).status]
           /\ MoveTo(t, IF Merged(status, f, since[t]).assess THEN "storeAssess" ELSE "store")
    BY <1>5 DEF Merge
  <2> DEFINE m == Merged(status, f, since[t])
             to == IF m.assess THEN "storeAssess" ELSE "store"
  <2>1. m.status \in Status /\ Sound(m.status) /\ (m.assess => Unrefined(m.status))
    BY <1>1, MergeIsSound
  <2>2. copy' = [copy EXCEPT ![t] = m.status] /\ stage' = [stage EXCEPT ![t] = to]
    BY <2>0 DEF MoveTo
  <2>3. to \in Stages /\ (to \in {"storeAssess", "assess"} => m.assess)
    BY DEF Stages
  <2> HIDE DEF m, to
  <2>4. stage' \in [UpdateTasks -> Stages] /\ copy' \in [UpdateTasks -> Status]
    BY <1>1, <2>1, <2>2, <2>3
  <2>5. /\ \A u \in UpdateTasks : Sound(copy'[u])
        /\ \A u \in UpdateTasks : stage'[u] \in {"storeAssess", "assess"} => Unrefined(copy'[u])
    BY <1>1, <2>1, <2>2, <2>3 DEF UpdatesInv
  <2>6. since' \in [UpdateTasks -> Days]
    BY <1>1, <1>5, UpdateAssumption DEF Merge, Days
  <2> QED
    BY <1>1, <1>5, <2>4, <2>5, <2>6 DEF Merge, UpdatesInv, UpdatesTypeOK
<1>6. CASE Store(t)
  <2>1. status' = copy[t] /\ UNCHANGED <<saved, lastDay, day, since>>
    BY <1>6 DEF Store
  <2>2. CASE stage[t] = "store" /\ MoveTo(t, "save") /\ copy' = [copy EXCEPT ![t] = Loaded(@)]
    <3>1. "save" \in Stages \ {"storeAssess", "assess"}
      BY DEF Stages
    <3>2. Loaded(copy[t]) \in Status /\ Sound(Loaded(copy[t])) /\ copy' = [copy EXCEPT ![t] = Loaded(copy[t])]
      BY <1>1, <2>2, FlagsAreSound
    <3> QED
      BY <1>1, <2>1, <2>2, <3>1, <3>2, MoveTask DEF UpdatesInv, UpdatesTypeOK
  <2>3. CASE stage[t] = "storeAssess" /\ MoveTo(t, "assess") /\ copy' = [copy EXCEPT ![t] = ForModel(@)]
    <3> DEFINE c == ForModel(copy[t])
    <3>1. c \in Status /\ Sound(c) /\ Unrefined(c)
      BY <1>1, <2>3, ForModelIsSound DEF UpdatesInv
    <3>2. copy' = [copy EXCEPT ![t] = c] /\ stage' = [stage EXCEPT ![t] = "assess"] /\ "assess" \in Stages
      BY <2>3 DEF MoveTo, Stages
    <3> HIDE DEF c
    <3>3. stage' \in [UpdateTasks -> Stages] /\ copy' \in [UpdateTasks -> Status]
      BY <1>1, <3>1, <3>2
    <3>4. /\ \A u \in UpdateTasks : Sound(copy'[u])
          /\ \A u \in UpdateTasks : stage'[u] \in {"storeAssess", "assess"} => Unrefined(copy'[u])
      BY <1>1, <3>1, <3>2 DEF UpdatesInv
    <3> QED
      BY <1>1, <2>1, <3>3, <3>4 DEF UpdatesInv, UpdatesTypeOK
  <2> QED
    BY <1>6, <2>2, <2>3 DEF Store
<1>7. CASE Save(t)
  <2>1. saved' \in Status /\ Sound(saved')
    BY <1>1, <1>7, FlagsAreSound DEF Save
  <2> QED
    BY <1>1, <1>7, <2>1, ReturnKeeps, SMTT(30) DEF Save, UpdatesInv, UpdatesTypeOK
<1>8. CASE Assess(t)
  <2>1. PICK c \in Status : Sound(c) /\ copy' = [copy EXCEPT ![t] = c]
    <3>1. Unrefined(copy[t])
      BY <1>8 DEF Assess, UpdatesInv
    <3>2. CASE UNCHANGED copy
      BY <1>1, <3>2, KeepCopy
    <3>3. CASE \E answer \in Low..High : copy' = [copy EXCEPT ![t] = ModelAssessment(@, answer)]
      BY <1>1, <3>1, <3>3, ModelIsSound
    <3> QED
      BY <1>8, <3>2, <3>3 DEF Assess
  <2>2. "verdict" \in Stages \ {"storeAssess", "assess"}
    BY DEF Stages
  <2> QED
    BY <1>1, <1>8, <2>1, <2>2, MoveTask DEF Assess, UpdatesInv, UpdatesTypeOK
<1>9. CASE Verdict(t)
  <2> DEFINE matches == status.pkgs = copy[t].pkgs /\ status.manual = copy[t].manual
             landed == [status EXCEPT !.risk = IF matches THEN copy[t].risk ELSE @,
                                      !.byModel = IF matches THEN copy[t].byModel ELSE @,
                                      !.about = IF matches THEN copy[t].about ELSE @,
                                      !.assessing = FALSE]
  <2>1. matches \in BOOLEAN /\ (matches => status.pkgs = copy[t].pkgs /\ status.manual = copy[t].manual)
    OBVIOUS
  <2>2. status' = landed /\ saved' = Loaded(landed) /\ Return(t, landed) /\ UNCHANGED <<lastDay, day, since>>
    BY <1>9 DEF Verdict
  <2> HIDE DEF matches
  <2>3. landed \in Status /\ Sound(landed)
    BY <1>1, <2>1, LandingIsSound
  <2> HIDE DEF landed
  <2>4. saved' \in Status /\ Sound(saved')
    BY <2>2, <2>3, FlagsAreSound
  <2> QED
    BY <1>1, <2>2, <2>3, <2>4, ReturnKeeps DEF UpdatesInv, UpdatesTypeOK
<1> QED
  BY <1>2, <1>3, <1>5, <1>6, <1>7, <1>8, <1>9

\* One task's steps of an install.
LEMMA ApplySteps ==
    ASSUME UpdatesInv, NEW t \in UpdateTasks,
           ApplyBusy(t) \/ ApplyBegins(t) \/ PacmanOk(t) \/ PacmanFails(t) \/ ApplyEnds(t)
    PROVE  UpdatesInv'
<1>1. /\ status \in Status /\ saved \in Status /\ lastDay \in Days /\ day \in Days
      /\ since \in [UpdateTasks -> Days] /\ Sound(status) /\ Sound(saved)
  BY DEF UpdatesInv, UpdatesTypeOK
<1>2. /\ "idle" \in Stages \ {"storeAssess", "assess"}
      /\ "pacman" \in Stages \ {"storeAssess", "assess"}
      /\ "installed" \in Stages \ {"storeAssess", "assess"}
      /\ "failed" \in Stages \ {"storeAssess", "assess"}
  BY DEF Stages
<1>3. CASE ApplyBusy(t)
  BY <1>1, <1>2, <1>3, EmptyIsSound, MoveTask DEF ApplyBusy, UpdatesInv, UpdatesTypeOK
<1>4. CASE ApplyBegins(t)
  <2>1. status' \in Status /\ Sound(status')
    BY <1>1, <1>4, FlagsAreSound DEF ApplyBegins
  <2> QED
    BY <1>1, <1>2, <1>4, <2>1, EmptyIsSound, MoveTask DEF ApplyBegins, UpdatesInv, UpdatesTypeOK
<1>5. CASE PacmanOk(t)
  BY <1>1, <1>2, <1>5, KeepCopy, MoveTask DEF PacmanOk, UpdatesInv, UpdatesTypeOK
<1>6. CASE PacmanFails(t)
  BY <1>1, <1>2, <1>6, KeepCopy, MoveTask DEF PacmanFails, UpdatesInv, UpdatesTypeOK
<1>7. CASE ApplyEnds(t)
  <2>1. status' \in Status /\ Sound(status')
    BY <1>1, <1>7, FlagsAreSound DEF ApplyEnds
  <2>2. saved' \in Status /\ Sound(saved')
    BY <1>7, <2>1, FlagsAreSound DEF ApplyEnds
  <2> QED
    BY <1>1, <1>2, <1>7, <2>1, <2>2, KeepCopy, MoveTask, SMTT(30) DEF ApplyEnds, UpdatesInv, UpdatesTypeOK
<1> QED
  BY <1>3, <1>4, <1>5, <1>6, <1>7

\* Every step preserves the invariant.
LEMMA UpdatesInvStep == UpdatesInv /\ [UpdatesNext]_updateVars => UpdatesInv'
<1> SUFFICES ASSUME UpdatesInv, [UpdatesNext]_updateVars PROVE UpdatesInv'
  OBVIOUS
<1>1. Watcher \in UpdateTasks /\ Requesters \subseteq UpdateTasks
  BY DEF UpdateTasks
<1>2. CASE \E t \in UpdateTasks : TaskStep(t)
  BY <1>2, CheckSteps, ApplySteps DEF TaskStep
<1>3. CASE \E c \in Requesters : ClientCheck(c) \/ ClientApply(c)
  BY <1>1, <1>3, CheckSteps, ApplySteps DEF ClientCheck, ClientApply
<1>4. CASE WatchCheck \/ WatchApply
  BY <1>1, <1>4, CheckSteps, ApplySteps DEF WatchCheck, WatchApply
<1>6. CASE Restart
  <2>1. stage' \in [UpdateTasks -> Stages] /\ \A t \in UpdateTasks : stage'[t] \notin {"storeAssess", "assess"}
    BY <1>6 DEF Restart, Stages
  <2>2. copy' \in [UpdateTasks -> Status] /\ (\A t \in UpdateTasks : Sound(copy'[t])) /\ since' \in [UpdateTasks -> Days]
    BY <1>6, EmptyIsSound, UpdateAssumption DEF Restart, Days
  <2> QED
    BY <1>6, <2>1, <2>2 DEF Restart, UpdatesInv, UpdatesTypeOK
<1>7. CASE NextDay
  <2>1. day' \in Days
    BY <1>7, UpdateAssumption DEF NextDay, Days, UpdatesInv, UpdatesTypeOK
  <2> QED
    BY <1>7, <2>1 DEF NextDay, UpdatesInv, UpdatesTypeOK
<1>8. CASE UserPacman
  BY <1>8 DEF UserPacman, UpdatesInv, UpdatesTypeOK
<1>9. CASE UNCHANGED updateVars
  BY <1>9 DEF updateVars, UpdatesInv, UpdatesTypeOK
<1> QED
  BY <1>2, <1>3, <1>4, <1>6, <1>7, <1>8, <1>9 DEF UpdatesNext

-----------------------------------------------------------------------------
(***************************************************************************)
(* One check and one rating at a time.  A check writes back a status it    *)
(* copied earlier, so the flags in the copies matter as much as the one    *)
(* in memory: none of them says that a check is running, and one taken     *)
(* while the model rates a list says so.                                   *)
(***************************************************************************)

SerialInv ==
    /\ ~saved.checking
    /\ \A t \in UpdateTasks : stage[t] \in {"store", "storeAssess"} => ~copy[t].checking
    /\ \A t \in UpdateTasks : stage[t] = "storeAssess" => copy[t].assessing /\ \A u \in UpdateTasks : stage[u] \notin Assessing
    /\ \A t, u \in UpdateTasks : stage[t] = "store" /\ stage[u] \in Assessing => copy[t].assessing
    /\ ChecksAreSerial

\* The flags of a merged copy.
LEMMA MergeFlags ==
    ASSUME NEW s \in Status, NEW f \in Fetched, NEW from \in Days
    PROVE  /\ ~Merged(s, f, from).status.checking
           /\ s.assessing => Merged(s, f, from).status.assessing /\ ~Merged(s, f, from).assess
           /\ Merged(s, f, from).assess => Merged(s, f, from).status.assessing
<1> DEFINE pkgs == IF f.failed THEN s.pkgs ELSE f.pkgs
           error == s.error \/ f.failed
           news == IF f.news = Unread THEN s.news ELSE f.news
           listed == [s EXCEPT !.pkgs = pkgs, !.error = error, !.news = news, !.checking = FALSE]
           changed == listed.pkgs # s.pkgs \/ s.risk = NotRated
           rated == IF changed \/ ~s.byModel THEN RuleAssessment(listed, from) ELSE listed
           assessNow == (changed \/ ~rated.byModel) /\ rated.pkgs # {} /\ ~s.assessing
           assessing == rated.assessing \/ assessNow
<1>1. pkgs \in SUBSET Packages /\ error \in BOOLEAN /\ news \in MaybeDay
  BY UpdateAssumption DEF Status, Fetched
<1>4. Merged(s, f, from).status = [rated EXCEPT !.assessing = assessing] /\ Merged(s, f, from).assess = assessNow
  BY DEF Merged
<1> HIDE DEF pkgs, error, news
<1>2. listed \in Status /\ ~listed.checking /\ listed.assessing = s.assessing
  BY <1>1 DEF Status
<1> HIDE DEF listed
<1>3. rated \in Status /\ ~rated.checking /\ rated.assessing = s.assessing
  <2>1. /\ RuleAssessment(listed, from) \in Status
        /\ ~RuleAssessment(listed, from).checking
        /\ RuleAssessment(listed, from).assessing = listed.assessing
    <3>1. RuleAssessment(listed, from) \in Status
      BY <1>2, RulesAreSound
    <3> QED
      BY <1>2, <3>1 DEF RuleAssessment, Status
  <2> QED
    BY <1>2, <2>1
<1>5. assessNow => ~s.assessing
  OBVIOUS
<1> HIDE DEF rated, assessNow
<1>6. [rated EXCEPT !.assessing = assessing].assessing = assessing /\ ~[rated EXCEPT !.assessing = assessing].checking
  BY <1>3 DEF Status
<1> QED
  BY <1>3, <1>4, <1>5, <1>6

\* A task that neither checks nor rates, before or after, and leaves both
\* flags alone.
LEMMA SerialQuiet ==
    ASSUME UpdatesInv, SerialInv, NEW t \in UpdateTasks, NEW to, MoveTo(t, to),
           stage[t] \notin Checking \cup Assessing, to \notin Checking \cup Assessing,
           NEW c, copy' = [copy EXCEPT ![t] = c],
           status'.checking = status.checking, status'.assessing = status.assessing, ~saved'.checking
    PROVE  SerialInv'
<1>1. \A u \in UpdateTasks : stage'[u] = IF u = t THEN to ELSE stage[u]
  BY DEF UpdatesInv, UpdatesTypeOK, MoveTo
<1>2. \A u \in UpdateTasks : u # t => copy'[u] = copy[u]
  BY DEF UpdatesInv, UpdatesTypeOK
<1>3. ChecksAreSerial'
  BY <1>1 DEF SerialInv, ChecksAreSerial
<1> QED
  BY <1>1, <1>2, <1>3 DEF SerialInv, Checking

LEMMA SerialStep == UpdatesInv /\ SerialInv /\ [UpdatesNext]_updateVars => SerialInv'
<1> SUFFICES ASSUME UpdatesInv, SerialInv, [UpdatesNext]_updateVars PROVE SerialInv'
  OBVIOUS
<1>0. /\ status \in Status /\ saved \in Status /\ stage \in [UpdateTasks -> Stages] /\ copy \in [UpdateTasks -> Status]
      /\ since \in [UpdateTasks -> Days]
  BY DEF UpdatesInv, UpdatesTypeOK
<1> USE DEF Checking, Assessing
<1>1. \A s \in Status : ~Loaded(s).checking
  BY DEF Loaded, Status
<1>2. ASSUME NEW t \in UpdateTasks, Merge(t) PROVE SerialInv'
  <2>1. PICK f \in Fetched :
           /\ copy' = [copy EXCEPT ![t] = Merged(status, f, since[t]).status]
           /\ MoveTo(t, IF Merged(status, f, since[t]).assess THEN "storeAssess" ELSE "store")
    BY <1>2 DEF Merge
  <2> DEFINE m == Merged(status, f, since[t])
             to == IF m.assess THEN "storeAssess" ELSE "store"
  <2>2. ~m.status.checking /\ (status.assessing => m.status.assessing /\ ~m.assess) /\ (m.assess => m.status.assessing)
    BY <1>0, MergeFlags
  <2>3. stage[t] = "fetch" /\ UNCHANGED <<status, saved>>
    BY <1>2 DEF Merge
  <2>4. copy' = [copy EXCEPT ![t] = m.status] /\ stage' = [stage EXCEPT ![t] = to]
    BY <2>1 DEF MoveTo
  <2>5. to \in {"store", "storeAssess"} /\ (to = "storeAssess" <=> m.assess)
    OBVIOUS
  <2> HIDE DEF m, to
  <2>6. /\ \A u \in UpdateTasks : stage'[u] = IF u = t THEN to ELSE stage[u]
        /\ \A u \in UpdateTasks : copy'[u] = IF u = t THEN m.status ELSE copy[u]
    BY <1>0, <2>4
  <2>7. \A u \in UpdateTasks \ {t} : stage[u] \notin {"fetch", "store", "storeAssess"}
    BY <2>3 DEF SerialInv, ChecksAreSerial
  <2>8. ChecksAreSerial'
    BY <2>3, <2>5, <2>6 DEF SerialInv, ChecksAreSerial
  <2>9. (\E u \in UpdateTasks : stage[u] \in Assessing) => status.assessing
    BY DEF SerialInv, ChecksAreSerial
  <2> QED
    BY <2>2, <2>3, <2>5, <2>6, <2>7, <2>8, <2>9 DEF SerialInv
<1>3. ASSUME NEW t \in UpdateTasks, Store(t) PROVE SerialInv'
  <2>1. status' = copy[t] /\ UNCHANGED saved /\ ~copy[t].checking
    BY <1>3 DEF Store, SerialInv
  <2>2. \A u \in UpdateTasks \ {t} : stage[u] \notin {"fetch", "store", "storeAssess"}
    BY <1>3 DEF Store, SerialInv, ChecksAreSerial
  <2>3. CASE stage[t] = "store" /\ MoveTo(t, "save") /\ copy' = [copy EXCEPT ![t] = Loaded(@)]
    <3>0. \A u \in UpdateTasks : u # t => copy'[u] = copy[u]
      BY <1>0, <2>3
    <3>1. \A u \in UpdateTasks : stage'[u] = IF u = t THEN "save" ELSE stage[u]
      BY <1>0, <2>3 DEF MoveTo
    <3>2. \A u \in UpdateTasks : stage[u] \in Assessing => status'.assessing
      BY <2>1, <2>3 DEF SerialInv
    <3>3. ChecksAreSerial'
      BY <2>1, <2>2, <3>1, <3>2 DEF SerialInv, ChecksAreSerial
    <3> QED
      BY <2>1, <2>2, <2>3, <3>0, <3>1, <3>3 DEF SerialInv
  <2>4. CASE stage[t] = "storeAssess" /\ MoveTo(t, "assess") /\ copy' = [copy EXCEPT ![t] = ForModel(@)]
    <3>1. \A u \in UpdateTasks : stage'[u] = IF u = t THEN "assess" ELSE stage[u]
      BY <1>0, <2>4 DEF MoveTo
    <3>2. status'.assessing /\ \A u \in UpdateTasks : stage[u] \notin Assessing
      BY <2>1, <2>4 DEF SerialInv
    <3>3. ChecksAreSerial'
      BY <2>1, <2>2, <3>1, <3>2 DEF SerialInv, ChecksAreSerial
    <3> QED
      BY <2>1, <2>2, <3>1, <3>3 DEF SerialInv
  <2> QED
    BY <1>3, <2>3, <2>4 DEF Store
<1>4. ASSUME NEW t \in UpdateTasks, NEW s, stage[t] = "save", UNCHANGED status, ~saved'.checking, Return(t, s)
      PROVE  SerialInv'
  <2>1. PICK to, c : to \in {"apply", "idle"} /\ MoveTo(t, to) /\ copy' = [copy EXCEPT ![t] = c]
    BY <1>4 DEF Return
  <2> QED
    BY <1>4, <2>1, SerialQuiet
<1>5. ASSUME NEW t \in UpdateTasks, Assess(t) PROVE SerialInv'
  <2>1. stage[t] = "assess" /\ MoveTo(t, "verdict") /\ UNCHANGED <<status, saved>>
    BY <1>5 DEF Assess
  <2>2. PICK c : copy' = [copy EXCEPT ![t] = c]
    <3>1. CASE UNCHANGED copy
      BY <1>0, <3>1, KeepCopy
    <3> QED
      BY <1>5, <3>1 DEF Assess
  <2>3. \A u \in UpdateTasks : stage'[u] = IF u = t THEN "verdict" ELSE stage[u]
    BY <1>0, <2>1 DEF MoveTo
  <2>4. \A u \in UpdateTasks : u # t => copy'[u] = copy[u]
    BY <1>0, <2>2
  <2>5. ChecksAreSerial'
    BY <2>1, <2>3 DEF SerialInv, ChecksAreSerial
  <2> QED
    BY <2>1, <2>3, <2>4, <2>5 DEF SerialInv
<1>6. ASSUME NEW t \in UpdateTasks, Verdict(t) PROVE SerialInv'
  <2> DEFINE matches == status.pkgs = copy[t].pkgs /\ status.manual = copy[t].manual
             landed == [status EXCEPT !.risk = IF matches THEN copy[t].risk ELSE @,
                                      !.byModel = IF matches THEN copy[t].byModel ELSE @,
                                      !.about = IF matches THEN copy[t].about ELSE @,
                                      !.assessing = FALSE]
  <2>1. stage[t] = "verdict" /\ status' = landed /\ saved' = Loaded(landed) /\ Return(t, landed)
    BY <1>6 DEF Verdict
  <2>2. landed.checking = status.checking
    BY <1>0 DEF Status
  <2>3. ~saved'.checking
    BY <1>0, <2>1 DEF Loaded, Status
  <2> HIDE DEF landed, matches
  <2>4. PICK to, c : to \in {"apply", "idle"} /\ MoveTo(t, to) /\ copy' = [copy EXCEPT ![t] = c]
    BY <2>1 DEF Return
  <2>5. \A u \in UpdateTasks : stage'[u] = IF u = t THEN to ELSE stage[u]
    BY <1>0, <2>4 DEF MoveTo
  <2>6. \A u \in UpdateTasks : u # t => copy'[u] = copy[u]
    BY <1>0, <2>4
  <2>7. \A u \in UpdateTasks : stage'[u] \notin Assessing
    BY <2>1, <2>4, <2>5 DEF SerialInv, ChecksAreSerial
  <2>8. ChecksAreSerial'
    BY <2>1, <2>2, <2>4, <2>5, <2>7 DEF SerialInv, ChecksAreSerial
  <2> QED
    BY <2>3, <2>4, <2>5, <2>6, <2>7, <2>8 DEF SerialInv
<1>7. ASSUME NEW t \in UpdateTasks, Save(t) PROVE SerialInv'
  BY <1>0, <1>1, <1>4, <1>7 DEF Save
<1>8. ASSUME NEW t \in UpdateTasks, stage[t] = "idle", CheckBegins(t) PROVE SerialInv'
  <2>1. /\ ~status.checking /\ MoveTo(t, "fetch") /\ UNCHANGED <<saved, copy>>
        /\ status' = [status EXCEPT !.checking = TRUE, !.error = FALSE]
    BY <1>8 DEF CheckBegins
  <2>2. status'.checking /\ status'.assessing = status.assessing
    BY <1>0, <2>1 DEF Status
  <2>3. \A u \in UpdateTasks : stage'[u] = IF u = t THEN "fetch" ELSE stage[u]
    BY <1>0, <2>1 DEF MoveTo
  <2>4. \A u \in UpdateTasks : stage[u] \notin {"fetch", "store", "storeAssess"}
    BY <2>1 DEF SerialInv, ChecksAreSerial
  <2>5. ChecksAreSerial'
    BY <1>8, <2>2, <2>3, <2>4 DEF SerialInv, ChecksAreSerial
  <2> QED
    BY <2>1, <2>3, <2>4, <2>5 DEF SerialInv
<1>9. ASSUME NEW t \in UpdateTasks, stage[t] = "idle", CheckBusy(t) PROVE SerialInv'
  <2>1. UNCHANGED <<status, saved>> /\ Return(t, status)
    BY <1>9 DEF CheckBusy
  <2>2. PICK to, c : to \in {"apply", "idle"} /\ MoveTo(t, to) /\ copy' = [copy EXCEPT ![t] = c]
    BY <2>1 DEF Return
  <2>3. ~saved'.checking
    BY <2>1 DEF SerialInv
  <2> QED
    BY <1>9, <2>1, <2>2, <2>3, SerialQuiet
<1>10. ASSUME NEW t \in UpdateTasks, stage[t] \in {"idle", "apply"}, ApplyBusy(t) \/ ApplyBegins(t) PROVE SerialInv'
  <2>1. PICK to \in {"idle", "pacman"} : MoveTo(t, to) /\ copy' = [copy EXCEPT ![t] = EmptyStatus]
    BY <1>10 DEF ApplyBusy, ApplyBegins
  <2>2. ~saved'.checking /\ status'.checking = status.checking /\ status'.assessing = status.assessing
    BY <1>0, <1>10 DEF ApplyBusy, ApplyBegins, SerialInv, Status
  <2> QED
    BY <1>10, <2>1, <2>2, SerialQuiet
<1>11. ASSUME NEW t \in UpdateTasks, PacmanOk(t) \/ PacmanFails(t) PROVE SerialInv'
  <2>1. PICK to \in {"installed", "failed"} : MoveTo(t, to) /\ stage[t] = "pacman" /\ UNCHANGED <<status, saved, copy>>
    BY <1>11 DEF PacmanOk, PacmanFails
  <2>2. ~saved'.checking /\ copy' = [copy EXCEPT ![t] = copy[t]]
    BY <2>1, KeepCopy DEF SerialInv
  <2> QED
    BY <2>1, <2>2, SerialQuiet
<1>12. ASSUME NEW t \in UpdateTasks, ApplyEnds(t) PROVE SerialInv'
  <2>1. /\ stage[t] \in {"installed", "failed"} /\ MoveTo(t, "idle") /\ UNCHANGED copy /\ saved' = Loaded(status')
        /\ status' = IF stage[t] = "installed"
                     THEN [status EXCEPT !.applying = FALSE, !.pkgs = {}, !.risk = Low, !.about = {}]
                     ELSE [status EXCEPT !.applying = FALSE]
    BY <1>12 DEF ApplyEnds
  <2>2. status' \in Status
    <3>1. Sound(status)
      BY DEF UpdatesInv
    <3> QED
      BY <1>0, <2>1, <3>1, FlagsAreSound
  <2>3. status'.checking = status.checking /\ status'.assessing = status.assessing
    BY <1>0, <2>1 DEF Status
  <2>4. ~saved'.checking /\ copy' = [copy EXCEPT ![t] = copy[t]]
    BY <1>1, <2>1, <2>2, KeepCopy
  <2> QED
    BY <2>1, <2>3, <2>4, SerialQuiet
<1>13. CASE Restart
  <2>1. \A t \in UpdateTasks : stage'[t] = "idle"
    BY <1>13 DEF Restart
  <2>2. ~status'.checking /\ ~saved'.checking
    BY <1>13 DEF Restart, SerialInv
  <2> QED
    BY <2>1, <2>2 DEF SerialInv, ChecksAreSerial
<1>14. CASE NextDay \/ UserPacman \/ UNCHANGED updateVars
  BY <1>14 DEF NextDay, UserPacman, updateVars, SerialInv, ChecksAreSerial
<1>15. Watcher \in UpdateTasks /\ Requesters \subseteq UpdateTasks
  BY DEF UpdateTasks
<1>16. CASE \E t \in UpdateTasks : TaskStep(t)
  BY <1>2, <1>3, <1>5, <1>6, <1>7, <1>11, <1>12, <1>16 DEF TaskStep
<1>17. CASE \E c \in Requesters : ClientCheck(c) \/ ClientApply(c)
  BY <1>8, <1>9, <1>10, <1>15, <1>17 DEF ClientCheck, ClientApply
<1>18. CASE WatchCheck \/ WatchApply
  BY <1>8, <1>9, <1>10, <1>15, <1>18 DEF WatchCheck, WatchApply
<1> QED
  BY <1>13, <1>14, <1>16, <1>17, <1>18 DEF UpdatesNext

-----------------------------------------------------------------------------
(***************************************************************************)
(* The theorems.                                                           *)
(***************************************************************************)

\* Status, file, copies and fetched lists keep their types: in particular
\* check and apply never store a risk outside the three words the rest of
\* the system knows (updates.rs:108-218).
THEOREM UpdatesTyped == UpdatesSpec => []UpdatesTypeOK
<1>1. UpdatesInv => UpdatesTypeOK
  BY DEF UpdatesInv
<1> QED
  BY <1>1, UpdatesInvInit, UpdatesInvStep, PTL DEF UpdatesSpec

\* A rating always belongs to the list and the news it is stored with, in
\* memory and in updates.json, for any number of clients that check and
\* install while the model thinks (updates.rs:261-329).
THEOREM RatingsAreSound == UpdatesSpec => []RatingIsSound
<1>1. UpdatesInv => RatingIsSound
  BY DEF UpdatesInv, RatingIsSound
<1> QED
  BY <1>1, UpdatesInvInit, UpdatesInvStep, PTL DEF UpdatesSpec

\* One check at a time fetches and rates, and the model rates one list at a
\* time, although every check writes back a copy that is older than what other
\* tasks did meanwhile ("one at a time", updates.rs:291-294).
THEOREM SerialChecks == UpdatesSpec => []ChecksAreSerial
<1>1. UpdatesInit => SerialInv
  <2> SUFFICES ASSUME UpdatesInit PROVE SerialInv
    OBVIOUS
  <2>1. ~saved.checking /\ ~status.checking /\ \A t \in UpdateTasks : stage[t] = "idle"
    BY DEF UpdatesInit, EmptyStatus
  <2> QED
    BY <2>1 DEF SerialInv, ChecksAreSerial, Checking, Assessing
<1>2. SerialInv => ChecksAreSerial
  BY DEF SerialInv
<1> QED
  BY <1>1, <1>2, UpdatesInvInit, UpdatesInvStep, SerialStep, PTL DEF UpdatesSpec
=============================================================================
