---------------------------- MODULE Conversation ----------------------------
(***************************************************************************)
(* mindd/src/daemon/agent.rs (place_status, fit_context, the pushes of     *)
(* run_chat) and server.rs (trim_session): the messages of one session,    *)
(* from turn to turn.  Before a turn the daemon says what is going on, in  *)
(* a status block or, when nothing changed, a clock line; before the model *)
(* is asked the messages are cut to the size of its context; after the     *)
(* turn the oldest ones beyond a cap go.                                   *)
(*                                                                         *)
(* Sizes are small numbers instead of characters: a tool result is Big or  *)
(* 1, everything else is 1, and so is a result that was emptied.           *)
(***************************************************************************)
EXTENDS Integers, Sequences, SequencesExt, FiniteSetsExt

CONSTANTS
    Bodies,        \* contents of the status block
    Big,           \* size of a long tool result
    Budget,        \* context_chars less the tool definitions
    MaxMessages,   \* trim_session's cap, 60 in the code
    MaxTurns,      \* bound: turns
    MaxRounds,     \* max_tool_rounds
    MaxCalls       \* bound: calls in one answer

VARIABLES
    messages,   \* Session.messages
    body,       \* status_body: what is going on
    phase,      \* "idle", "ask", "asked", "calls" or "done"
    calls,      \* calls of the last answer that have no result yet
    turn,       \* turns so far
    round,      \* the turn's rounds so far
    sent,       \* auxiliary: the messages the model saw last
    same        \* auxiliary: no cut and no new status since then

convVars == <<messages, body, phase, calls, turn, round, sent, same>>

\* n is the turn of a question, the calls of an assistant message, or the
\* body of a status block.
Message(role, name, n, size) == [role |-> role, name |-> name, n |-> n, size |-> size]

System == Message("system", "none", 0, 1)
IsStatus(m) == m.role = "user" /\ m.name # "none"
IsBlock(m) == IsStatus(m) /\ m.name = "status"
IsClock(m) == IsStatus(m) /\ m.name = "clock"
IsQuestion(m) == m.role = "user" /\ m.name = "none"
IsTool(m) == m.role = "tool"

Total(ms) == FoldSeq(LAMBDA m, sum : m.size + sum, 0, ms)
Without(ms, gone) ==
    FoldLeftDomain(LAMBDA kept, i : IF i \in gone THEN kept ELSE Append(kept, ms[i]), <<>>, ms)

ConvInit ==
    /\ messages = <<System>>
    /\ body \in Bodies
    /\ phase = "idle"
    /\ calls = 0
    /\ turn = 0
    /\ round = 0
    /\ sent = <<>>
    /\ same = TRUE

-----------------------------------------------------------------------------
(***************************************************************************)
(* A turn begins.                                                          *)
(***************************************************************************)

\* The block again only when its content changed, and then the old lines go.
PlaceStatus(ms, b) ==
    IF \E i \in DOMAIN ms : i = SelectLastInSeq(ms, IsBlock) /\ ms[i].n = b
    THEN Append(ms, Message("user", "clock", 0, 1))
    ELSE Append(SelectSeq(ms, LAMBDA m : ~IsStatus(m)), Message("user", "status", b, 1))

\* refresh_status, then run_chat's push of the question.
StartTurn ==
    /\ phase = "idle"
    /\ turn < MaxTurns
    /\ LET placed == PlaceStatus(messages, body)
       IN  /\ messages' = Append(placed, Message("user", "none", turn + 1, 1))
           /\ same' = (same /\ placed[Len(placed)].name = "clock")
    /\ phase' = "ask"
    /\ turn' = turn + 1
    /\ round' = 0
    /\ UNCHANGED <<body, calls, sent>>

\* Updates, notices, the performance mode: they change at any time.
StatusChanges ==
    /\ \E b \in Bodies \ {body} : body' = b
    /\ UNCHANGED <<messages, phase, calls, turn, round, sent, same>>

-----------------------------------------------------------------------------
(***************************************************************************)
(* fit_context.                                                            *)
(***************************************************************************)

\* Old clock lines go first.
DropClocks(ms) ==
    Without(ms, {i \in DOMAIN ms : IsClock(ms[i]) /\ i < SelectLastInSeq(ms, IsClock)})

\* Old tool results lose their bodies, the oldest first, until it fits; the
\* last message keeps its own.
EmptyResults(ms) ==
    LET long == {i \in 2..(Len(ms) - 1) : IsTool(ms[i]) /\ ms[i].size > 1}
        emptied(u) == [i \in DOMAIN ms |->
                          IF i \in long /\ i < u THEN [ms[i] EXCEPT !.size = 1] ELSE ms[i]]
        enough == {u \in 1..Len(ms) : Total(emptied(u)) <= Budget}
    IN  emptied(IF enough = {} THEN Len(ms) ELSE Min(enough))

\* The newest question, with the daemon's lines right before it.
KeepFrom(ms) ==
    LET q == SelectLastInSeq(ms, IsQuestion)
    IN  Min({k \in 2..q : \A i \in k..(q - 1) : IsStatus(ms[i])})

\* Mutant: results are not dropped along with their call.
DropTurnsLoosely(ms) ==
    LET gone(u) == {i \in 2..(u - 1) : i # SelectLastInSeq(ms, IsBlock)}
        stops == {u \in 2..KeepFrom(ms) :
                     u = KeepFrom(ms) \/ Total(Without(ms, gone(u))) <= Budget}
    IN  Without(ms, gone(Min(stops)))

\* Whole messages go from the front until it fits, the results of a dropped
\* call with it; the system message, the status block and the newest
\* question stay.
DropTurns(ms) ==
    LET gone(u) == {i \in 2..(u - 1) : i # SelectLastInSeq(ms, IsBlock)}
        stops == {u \in 2..KeepFrom(ms) :
                     \/ u = KeepFrom(ms)
                     \/ ~IsTool(ms[u]) /\ Total(Without(ms, gone(u))) <= Budget}
    IN  Without(ms, gone(Min(stops)))

Fit(ms) ==
    IF Total(ms) <= Budget THEN ms
    ELSE LET short == EmptyResults(DropClocks(ms))
         IN  IF Total(short) <= Budget THEN short ELSE DropTurns(short)

-----------------------------------------------------------------------------
(***************************************************************************)
(* The rounds of a turn, and its end.                                      *)
(***************************************************************************)

Ask ==
    /\ phase = "ask"
    /\ messages' = Fit(messages)
    /\ sent' = messages'
    /\ same' = TRUE
    /\ phase' = "asked"
    /\ UNCHANGED <<body, calls, turn, round>>

\* The answer: text, or calls that are then answered one by one.
Answered ==
    /\ phase = "asked"
    /\ \E n \in 0..MaxCalls :
          /\ messages' = Append(messages, Message("assistant", "none", n, 1))
          /\ phase' = IF n = 0 THEN "done" ELSE "calls"
          /\ calls' = n
    /\ UNCHANGED <<body, turn, round, sent, same>>

\* The request fails or is cancelled: what was said stays.
Failed ==
    /\ phase = "asked"
    /\ phase' = "done"
    /\ UNCHANGED <<messages, body, calls, turn, round, sent, same>>

\* One call's result; after the last, the next round, if there is one.
ToolResult ==
    /\ phase = "calls"
    /\ calls' = calls - 1
    /\ \E size \in {1, Big} : messages' = Append(messages, Message("tool", "none", 0, size))
    /\ IF calls > 1
       THEN UNCHANGED <<phase, round>>
       ELSE IF round + 1 < MaxRounds
       THEN phase' = "ask" /\ round' = round + 1
       ELSE phase' = "done" /\ UNCHANGED round
    /\ UNCHANGED <<body, turn, sent, same>>

\* Beyond the cap the daemon's lines all go, and the oldest of the rest; never
\* start with a tool result whose call was dropped.
TrimSession(ms) ==
    LET rest == SelectSeq(Tail(ms), LAMBDA m : ~IsStatus(m))
        over == Len(rest) + 1 - MaxMessages
        starts == {k \in (over + 1)..(Len(rest) + 1) :
                      k = Len(rest) + 1 \/ ~IsTool(rest[k])}
    IN  IF over <= 0 THEN ms ELSE <<Head(ms)>> \o SubSeq(rest, Min(starts), Len(rest))

EndTurn ==
    /\ phase = "done"
    /\ messages' = TrimSession(messages)
    /\ same' = (same /\ messages' = messages)
    /\ phase' = "idle"
    /\ UNCHANGED <<body, calls, turn, round, sent>>

ConvNext ==
    \/ StartTurn \/ StatusChanges \/ Ask \/ Answered \/ Failed \/ ToolResult \/ EndTurn

-----------------------------------------------------------------------------
(***************************************************************************)
(* Properties.                                                             *)
(***************************************************************************)

\* The results right after message i.
ResultsOf(ms, i) ==
    {j \in DOMAIN ms : j > i /\ \A k \in (i + 1)..j : IsTool(ms[k])}

\* A tool result never outlives the call that made it, and no call that the
\* model sees is without its results.
ResultsFollowCalls ==
    /\ \A j \in DOMAIN messages : IsTool(messages[j]) =>
          \E i \in 1..(j - 1) : messages[i].n > 0 /\ messages[i].role = "assistant"
                                /\ j \in ResultsOf(messages, i)
    /\ phase = "asked" =>
          \A i \in DOMAIN messages : messages[i].role = "assistant" =>
              Cardinality(ResultsOf(messages, i)) = messages[i].n

\* When the model is asked, it sees the system message first and only there,
\* one status block, which is before the newest question, and that question.
OneStatusAndTheQuestion ==
    phase = "asked" =>
        /\ {i \in DOMAIN messages : messages[i].role = "system"} = {1}
        /\ \E i \in DOMAIN messages :
              /\ {j \in DOMAIN messages : IsBlock(messages[j])} = {i}
              /\ \E q \in DOMAIN messages : messages[q] = Message("user", "none", turn, 1) /\ i < q

\* Whatever fit_context and trim_session cut out between the turns, and
\* however small the context is, results follow their calls and the model
\* sees one status and the question (agent.rs:286-290, server.rs:329).
PromptIsWellFormed == ResultsFollowCalls /\ OneStatusAndTheQuestion

\* What is sent fits the context, unless nothing more could go: only the
\* block is left before the newest question's own lines, and only the last
\* message may be a long result.
FitsOrCannotShrink ==
    phase = "asked" /\ Total(messages) > Budget =>
        /\ \A i \in 2..(KeepFrom(messages) - 1) : IsBlock(messages[i])
        /\ \A i \in 1..(Len(messages) - 1) : messages[i].size = 1

\* llama-server's cache: unless the status changed or something had to be
\* cut, what the model saw last stays where it is, to the byte
\* (agent.rs:125-136).
CachedPrefixStays == same => IsPrefix(sent, messages)

\* What the model is sent, however small the context and whatever was cut.
PromptIsSound == PromptIsWellFormed /\ FitsOrCannotShrink /\ CachedPrefixStays
=============================================================================
