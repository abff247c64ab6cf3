------------------------------- MODULE Agent -------------------------------
(***************************************************************************)
(* mindd/src/daemon/server.rs (handle, Conn) and agent.rs (run_chat,       *)
(* run_tool): one task per connection takes a session out of the shared    *)
(* map, lets the language model and its tool calls work on it, and puts it *)
(* back.  While a chat runs, the connection's other requests are taken     *)
(* from its queue by whoever waits: the stream drops all but Cancel, a     *)
(* wait drops all but its own answer and Cancel.                           *)
(*                                                                         *)
(* A session is the set of turns it remembers (none: it is not in the      *)
(* map); what a turn is made of is the module Conversation.  The model is  *)
(* awake (ModelSupervisor).  The calls a client was shown are numbered; a  *)
(* call has an id of its own, as llama-server's random ones are, or, when  *)
(* the answer names none, the id call_<place> that calls of other answers  *)
(* have too.  A client answers calls it was shown, late and twice; one     *)
(* that has hung up is one that sends nothing more.  Whether changes are   *)
(* allowed at all (Daemon.system_changes) is read once, when a call        *)
(* starts, and chosen there: CallRefused is the other choice.              *)
(***************************************************************************)
EXTENDS Naturals, Sequences, FiniteSets

CONSTANTS
    Conns,       \* connections
    Sids,        \* session ids
    NoSid,
    MaxRounds,   \* max_tool_rounds
    MaxCalls,    \* bound: tool calls in one answer of the model
    MaxTurns,    \* bound: chats, over all connections
    MaxQueue     \* bound: requests waiting in one connection

ASSUME AgentAssumption ==
    /\ NoSid \notin Sids
    /\ MaxRounds \in Nat \ {0} /\ MaxCalls \in Nat /\ MaxTurns \in Nat /\ MaxQueue \in Nat

VARIABLES
    sessions,   \* Daemon.sessions: the turns each session remembers
    conn,       \* each connection's task: control state and locals
    queue,      \* the requests of each connection that nobody has read
    calls,      \* the calls each client was shown: 0 for an id of its own, else the place that call_<place> names
    turns,      \* auxiliary: chats so far
    finished,   \* auxiliary: the turns put back into each session
    mixed       \* auxiliary: sessions that two chats have worked on at once

vars == <<sessions, conn, queue, calls, turns, finished, mixed>>

Turns == 1..MaxTurns

States ==
    {"idle", "open", "stream", "call", "waitConfirm", "waitTool", "run", "put", "expire"}

\* A Confirm or ToolResult answers a call by its number; turn and round are
\* auxiliary: what was going on when it was sent.  The fields that nobody has
\* read yet (a Chat's session and autopilot, a Confirm's approval) are chosen
\* when they are.
Answers == [kind : {"confirm", "result"}, call : Nat \ {0}, turn : 0..MaxTurns, round : 0..MaxRounds]
Requests == [kind : {"chat", "cancel"}] \cup Answers
NoAnswer == [kind |-> "none", call |-> 0, turn |-> 0, round |-> 0]

\* The current call is the one at place of the many of the answer, with its
\* number once it is shown.  kind is what policy_for makes of it; free: its
\* category is one of autopilot_categories; by is auxiliary: the approval that
\* let it run.
Locals ==
    [pc : States, sid : Sids \cup {NoSid}, taken : SUBSET Turns, turn : 0..MaxTurns,
     autopilot : BOOLEAN, round : 0..MaxRounds, many : 0..MaxCalls, place : 0..MaxCalls,
     call : Nat, kind : {"none", "observe", "change", "client"}, free : BOOLEAN,
     by : Answers \cup {NoAnswer}]

NoCall(l) == [l EXCEPT !.call = 0, !.kind = "none", !.free = FALSE, !.by = NoAnswer]

Quiet ==
    [pc |-> "idle", sid |-> NoSid, taken |-> {}, turn |-> 0, autopilot |-> FALSE,
     round |-> 0, many |-> 0, place |-> 0, call |-> 0, kind |-> "none", free |-> FALSE, by |-> NoAnswer]

TypeOK ==
    /\ sessions \in [Sids -> SUBSET Turns]
    /\ conn \in [Conns -> Locals]
    /\ \A c \in Conns : queue[c] \in Seq(Requests) /\ Len(queue[c]) <= MaxQueue
    /\ \A c \in Conns : calls[c] \in Seq(0..MaxCalls)
    /\ turns \in 0..MaxTurns
    /\ finished \in [Sids -> SUBSET Turns]
    /\ mixed \subseteq Sids
    /\ \A c \in Conns : conn[c].pc \in {"open", "stream", "call", "put"} => conn[c].call = 0

Init ==
    /\ sessions = [s \in Sids |-> {}]
    /\ conn = [c \in Conns |-> Quiet]
    /\ queue = [c \in Conns |-> <<>>]
    /\ calls = [c \in Conns |-> <<>>]
    /\ turns = 0
    /\ finished = [s \in Sids |-> {}]
    /\ mixed = {}

book == <<sessions, turns, finished, mixed>>

At(c, st) == conn[c].pc = st
Step(c, new) == conn' = [conn EXCEPT ![c] = new]
Goto(c, st) == Step(c, [conn[c] EXCEPT !.pc = st])

\* self.rx.recv(): the oldest request is taken.
Recv(c, kind) ==
    /\ queue[c] # <<>>
    /\ Head(queue[c]).kind = kind
    /\ queue' = [queue EXCEPT ![c] = Tail(@)]

-----------------------------------------------------------------------------
(***************************************************************************)
(* The Chat request: a session is taken out of the map, ...                *)
(***************************************************************************)

\* The session the client names, else the connection's last one, else a new
\* one; sid keeps current_session between chats.
Chat(c) ==
    /\ At(c, "idle")
    /\ Recv(c, "chat")
    /\ turns < MaxTurns
    /\ turns' = turns + 1
    /\ \E s \in Sids, autopilot \in BOOLEAN :
          /\ Step(c, [Quiet EXCEPT !.pc = "open", !.sid = s, !.turn = turns',
                                   !.autopilot = autopilot,
                                   !.taken = sessions[s] \cup {turns'}])
          /\ sessions' = [sessions EXCEPT ![s] = {}]
          /\ mixed' = mixed \cup {x \in {s} : \E d \in Conns \ {c} :
                                      conn[d].sid = s /\ conn[d].taken # {}}
    /\ UNCHANGED <<calls, finished>>

\* The model is loading, or asleep for too long: the request ends in an error.
ChatRefused(c) ==
    /\ At(c, "idle")
    /\ Recv(c, "chat")
    /\ UNCHANGED <<conn, calls, book>>

\* A Confirm, ToolResult or Cancel that nobody waits for.
Stray(c) ==
    /\ At(c, "idle")
    /\ \E kind \in {"confirm", "result", "cancel"} : Recv(c, kind)
    /\ UNCHANGED <<conn, calls, book>>

-----------------------------------------------------------------------------
(***************************************************************************)
(* ... run_chat: the model streams an answer, its calls are run, ...       *)
(***************************************************************************)

\* check_cancel drains the whole queue; only Cancel is looked at.
Drain(c) ==
    /\ queue' = [queue EXCEPT ![c] = <<>>]
    /\ Goto(c, IF \E i \in 1..Len(queue[c]) : queue[c][i].kind = "cancel" THEN "put" ELSE "stream")
    /\ UNCHANGED <<calls, book>>

\* It is called once before the request goes out, ...
StreamOpens(c) == At(c, "open") /\ Drain(c)

\* ... and again and again until the answer is complete.
StreamDrains(c) ==
    /\ At(c, "stream")
    /\ queue[c] # <<>>
    /\ Drain(c)

\* The answer is complete, without calls or with some; or the server fails.
StreamEnds(c) ==
    /\ At(c, "stream")
    /\ \/ Goto(c, "put")
       \/ \E n \in 1..MaxCalls : Step(c, [conn[c] EXCEPT !.pc = "call", !.many = n, !.place = 1])
    /\ UNCHANGED <<queue, calls, book>>

\* The call is shown to the client, with an id of its own or with its place for an id.
Show(c) == \E id \in {0, conn[c].place} : calls' = [calls EXCEPT ![c] = Append(@, id)]
Shown(c, st, kind, free) ==
    /\ Show(c)
    /\ Step(c, [conn[c] EXCEPT !.pc = st, !.kind = kind, !.free = free, !.call = Len(calls[c]) + 1])

\* Two calls have the same id.
SameId(c, m, n) == m = n \/ (calls[c][m] = calls[c][n] /\ calls[c][m] # 0)

\* The end of one call: the next of this answer, the next round, or, after
\* the last round, the end of the turn.
NextCall(c) ==
    LET l == NoCall(conn[c])
    IN  Step(c, IF l.place < l.many THEN [l EXCEPT !.pc = "call", !.place = @ + 1]
                ELSE IF l.round + 1 < MaxRounds
                THEN [l EXCEPT !.pc = "open", !.round = @ + 1]
                ELSE [l EXCEPT !.pc = "put", !.round = 0])

\* run_tool, up to its first await: an unknown or forbidden call, or a
\* change while changes are turned off, is refused at once, shown or not; ...
CallRefused(c) ==
    /\ At(c, "call")
    /\ NextCall(c)
    /\ Show(c) \/ UNCHANGED calls
    /\ UNCHANGED <<queue, book>>

\* ... what only looks, or changes on autopilot (this chat's or the
\* configuration's, which autopilot stands for, or its category's), runs
\* without a question; ...
CallRuns(c) ==
    /\ At(c, "call")
    /\ \E kind \in {"observe", "change"}, free \in BOOLEAN :
          /\ kind = "change" => conn[c].autopilot \/ free
          /\ Shown(c, "run", kind, free)
    /\ UNCHANGED <<queue, book>>

\* ... a change waits for the user; ...
CallAsks(c) ==
    /\ At(c, "call")
    /\ ~conn[c].autopilot
    /\ Shown(c, "waitConfirm", "change", FALSE)
    /\ UNCHANGED <<queue, book>>

\* ... and a tool of the client waits for its result.
CallClient(c) ==
    /\ At(c, "call")
    /\ Shown(c, "waitTool", "client", FALSE)
    /\ UNCHANGED <<queue, book>>

\* Mutant: any Confirm is taken for this call's.
ConfirmedByAny(c) ==
    /\ At(c, "waitConfirm")
    /\ Recv(c, "confirm")
    /\ \/ Step(c, [conn[c] EXCEPT !.pc = "run", !.by = Head(queue[c])])
       \/ NextCall(c)
    /\ UNCHANGED <<calls, book>>

\* wait_confirm: an answer with this call's id, yes or no, ...
Confirmed(c) ==
    /\ At(c, "waitConfirm")
    /\ Recv(c, "confirm")
    /\ SameId(c, Head(queue[c]).call, conn[c].call)
    /\ \/ Step(c, [conn[c] EXCEPT !.pc = "run", !.by = Head(queue[c])])
       \/ NextCall(c)
    /\ UNCHANGED <<calls, book>>

\* (wait_tool_result likewise)
ToolAnswered(c) ==
    /\ At(c, "waitTool")
    /\ Recv(c, "result")
    /\ SameId(c, Head(queue[c]).call, conn[c].call)
    /\ NextCall(c)
    /\ UNCHANGED <<calls, book>>

\* ... Cancel, which ends the wait only, ...
WaitCancelled(c) ==
    /\ At(c, "waitConfirm") \/ At(c, "waitTool")
    /\ Recv(c, "cancel")
    /\ NextCall(c)
    /\ UNCHANGED <<calls, book>>

\* ... anything else, which is dropped, ...
WaitDrops(c) ==
    /\ \/ At(c, "waitConfirm") /\ \E kind \in {"chat", "result"} : Recv(c, kind)
       \/ At(c, "waitTool") /\ \E kind \in {"chat", "confirm"} : Recv(c, kind)
       \/ At(c, "waitConfirm") /\ Recv(c, "confirm") /\ ~SameId(c, Head(queue[c]).call, conn[c].call)
       \/ At(c, "waitTool") /\ Recv(c, "result") /\ ~SameId(c, Head(queue[c]).call, conn[c].call)
    /\ UNCHANGED <<conn, calls, book>>

\* Mutant: only a lost connection ends the wait, and this one is not lost.
WaitHasNoDeadline(c) ==
    /\ FALSE
    /\ NextCall(c)
    /\ UNCHANGED <<queue, calls, book>>

\* ... the deadline, or the end of the connection.
WaitEnds(c) ==
    /\ At(c, "waitConfirm") \/ At(c, "waitTool")
    /\ NextCall(c)
    /\ UNCHANGED <<queue, calls, book>>

\* tools::execute, which has a time limit of its own.
ToolRuns(c) ==
    /\ At(c, "run")
    /\ NextCall(c)
    /\ UNCHANGED <<queue, calls, book>>

-----------------------------------------------------------------------------
(***************************************************************************)
(* ... and the session goes back.                                          *)
(***************************************************************************)

\* Mutant: a chat that was cancelled or failed forgets its turn.
PutForgets(c) ==
    /\ At(c, "put")
    /\ LET s == conn[c].sid
       IN  /\ sessions' = [sessions EXCEPT ![s] = IF @ # {} THEN @ ELSE conn[c].taken \ {conn[c].turn}]
           /\ finished' = [finished EXCEPT ![s] = @ \cup {conn[c].turn}]
    /\ Step(c, [Quiet EXCEPT !.pc = "expire", !.sid = conn[c].sid])
    /\ UNCHANGED <<queue, calls, turns, mixed>>

\* trim_session, then insert, over whatever is there by now.
Put(c) ==
    /\ At(c, "put")
    /\ LET s == conn[c].sid
       IN  /\ sessions' = [sessions EXCEPT ![s] = conn[c].taken]
           /\ finished' = [finished EXCEPT ![s] = @ \cup {conn[c].turn}]
    /\ Step(c, [Quiet EXCEPT !.pc = "expire", !.sid = conn[c].sid])
    /\ UNCHANGED <<queue, calls, turns, mixed>>

\* Done or Error goes out, and the sessions go that were created more than
\* six hours ago, however recently they were used.
Expire(c) ==
    /\ At(c, "expire")
    /\ Goto(c, "idle")
    /\ \E old \in SUBSET {s \in Sids : sessions[s] # {}} :
          /\ sessions' = [s \in Sids |-> IF s \in old THEN {} ELSE sessions[s]]
          /\ finished' = [s \in Sids |-> IF s \in old THEN {} ELSE finished[s]]
    /\ UNCHANGED <<queue, calls, turns, mixed>>

-----------------------------------------------------------------------------
(***************************************************************************)
(* The clients.                                                            *)
(***************************************************************************)

\* A client may send anything at any time, an answer to any call it was shown too.
Send(c) ==
    /\ Len(queue[c]) < MaxQueue
    /\ \E r \in [kind : {"chat", "cancel"}] \cup
               [kind : {"confirm", "result"}, call : 1..Len(calls[c]), turn : {conn[c].turn}, round : {conn[c].round}] :
          queue' = [queue EXCEPT ![c] = Append(@, r)]
    /\ UNCHANGED <<conn, calls, book>>

\* What the daemon's task does by itself.
Progress(c) ==
    \/ StreamOpens(c) \/ StreamEnds(c) \/ CallRefused(c) \/ CallRuns(c) \/ CallAsks(c) \/ CallClient(c)
    \/ WaitEnds(c) \/ ToolRuns(c) \/ Put(c) \/ Expire(c)

Answer(c) ==
    \/ Chat(c) \/ ChatRefused(c) \/ Stray(c)
    \/ StreamDrains(c)
    \/ Confirmed(c) \/ ToolAnswered(c) \/ WaitCancelled(c) \/ WaitDrops(c)

Next == \E c \in Conns : Progress(c) \/ Answer(c) \/ Send(c)

Spec == Init /\ [][Next]_vars

\* The tasks go on: the HTTP client gives up after ten minutes, the waits
\* after ten and two, tools after theirs.
FairSpec == Spec /\ \A c \in Conns : WF_vars(Progress(c))

-----------------------------------------------------------------------------
(***************************************************************************)
(* Properties.                                                             *)
(***************************************************************************)

Unasked(c) == conn[c].autopilot \/ conn[c].free
RunsAChange(c) == conn[c].pc = "run" /\ conn[c].kind = "change"

\* A change that is not on autopilot runs only after an approval that the
\* client sent while this answer of the model was at work, never one left over
\* from an earlier round or chat, a cancelled or timed-out question; and the
\* approval was meant for this call, or for one of an earlier answer that named
\* no id either and had the same place (server.rs:28-39, llm.rs:205,
\* agent.rs:203-210 and 342-351).
OnlyApprovedRuns ==
    \A c \in Conns : RunsAChange(c) /\ ~Unasked(c) =>
        LET by == conn[c].by  call == conn[c].call IN
        /\ by.kind = "confirm" /\ by.turn = conn[c].turn /\ by.round = conn[c].round
        /\ by.call = call \/ (by.call < call /\ calls[c][call] = conn[c].place /\ calls[c][by.call] = calls[c][call])

\* "A policy layer classifies every tool call as ... change (the requesting
\* client must confirm unless autopilot is on for that category)"
\* (docs/ARCHITECTURE.md:219-221): what runs is what the client confirmed.
\* A call_0 of one answer has the id of the call_0 of another (llm.rs:205).
ApprovalIsItsOwn ==
    \A c \in Conns : RunsAChange(c) /\ ~Unasked(c) => conn[c].by.call = conn[c].call

\* A session that no two chats work on at once remembers every turn since it
\* was created, cancelled and failed ones too, and one that is taken out
\* comes back (server.rs:288-306).
TurnsAreKept ==
    \A s \in Sids \ mixed :
        LET at == {c \in Conns : conn[c].sid = s /\ conn[c].taken # {}}
        IN  IF at = {} THEN sessions[s] = finished[s]
            ELSE \A c \in at : conn[c].taken = finished[s] \cup {conn[c].turn}

\* Every chat comes to an end, whatever the client sends or fails to send.
ChatsEnd == \A c \in Conns : conn[c].pc # "idle" ~> conn[c].pc = "idle"
=============================================================================
