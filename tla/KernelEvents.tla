----------------------------- MODULE KernelEvents -----------------------------
(***************************************************************************)
(* The files of the research kernel that stand for events                  *)
(* (kernel/src/syscall/poll.rs): an eventfd, whose counter is read and     *)
(* written back in two steps; a timerfd; and the interests of an epoll.    *)
(* How a task sleeps on their queues is KernelSched's subject; here a      *)
(* sleeper that is woken begins its loop again.                            *)
(***************************************************************************)
EXTENDS Integers, Sequences, FiniteSets, SequencesExt

CONSTANTS
    Callers,    \* tasks that read and write the eventfd
    MaxCount,   \* u64::MAX - 1
    MaxEventCalls,   \* how many calls they make
    MaxNow,     \* how far time goes
    Fds, MaxHeld

VARIABLES
    count,      \* EventFd.count
    semaphore,
    request,       \* per caller: [op, v, at, c]; at is ready, loaded, asleep or idle
    made,       \* how many calls began
    sum,        \* history: [written, taken] by finished calls
    raced,      \* history: a counter was written back that had changed since it was read
    now,
    timer,      \* TimerState: [next, interval, expirations]
    waiting,    \* somebody sleeps on the timer
    armed,      \* history: [first: its first expiry or 0, read: the expirations read since]
    fds,        \* the file behind every descriptor, or 0
    files,      \* how many files were opened
    hot,        \* the files that are ready
    interests,  \* Epoll.interests: [fd, file, data, on, oneshot, told]; told is history: whether its event,
                \* or only its data, has been reported since it was set
    cut,        \* history: epoll_wait had more to report than it was asked for
    shared      \* history: two interests had the same data at once

countVars == <<count, semaphore, request, made, sum, raced>>
timerVars == <<now, timer, waiting, armed>>
epollVars == <<fds, files, hot, interests, cut, shared>>
NoCallMade == [op |-> "none", v |-> 0, at |-> "idle", c |-> 0]

EventInit ==
    /\ count = 0 /\ semaphore \in BOOLEAN /\ request = [t \in Callers |-> NoCallMade] /\ made = 0
    /\ sum = [written |-> 0, taken |-> 0] /\ raced = FALSE
    /\ now = 0 /\ timer = [next |-> 0, interval |-> 0, expirations |-> 0] /\ waiting = FALSE
    /\ armed = [first |-> 0, read |-> 0]
    /\ fds = [f \in Fds |-> 0] /\ files = 0 /\ hot = {} /\ interests = <<>> /\ cut = FALSE /\ shared = FALSE

-----------------------------------------------------------------------------
(* eventfd *)

Ask(t, op, v) ==
    /\ request[t].at = "idle" /\ made < MaxEventCalls /\ made' = made + 1
    /\ request' = [request EXCEPT ![t] = [op |-> op, v |-> v, at |-> "ready", c |-> 0]]
    /\ UNCHANGED <<count, semaphore, sum, raced>>

Can(t) == IF request[t].op = "read" THEN count > 0 ELSE MaxCount - count >= request[t].v

\* The counter is loaded; it is written back by a later step.
LoadCount(t) ==
    /\ request[t].at = "ready" /\ Can(t)
    /\ request' = [request EXCEPT ![t].at = "loaded", ![t].c = count,
                            ![t].v = IF request[t].op = "write" THEN @ ELSE IF semaphore THEN 1 ELSE count]
    /\ UNCHANGED <<count, semaphore, made, sum, raced>>

\* The store, and wake_all.
StoreCount(t) ==
    LET c == request[t].c  v == request[t].v  reads == request[t].op = "read" IN
    /\ request[t].at = "loaded"
    /\ count' = IF reads THEN c - v ELSE c + v
    /\ raced' = (raced \/ count # c)
    /\ sum' = IF reads THEN [sum EXCEPT !.taken = @ + v] ELSE [sum EXCEPT !.written = @ + v]
    /\ request' = [x \in Callers |-> IF x = t THEN NoCallMade
                                  ELSE IF request[x].at = "asleep" THEN [request[x] EXCEPT !.at = "ready"]
                                  ELSE request[x]]
    /\ UNCHANGED <<semaphore, made>>

\* EAGAIN, or asleep until it can; a signal ends the sleep with EINTR.
CannotYet(t, blocks) ==
    /\ request[t].at = "ready" /\ ~Can(t)
    /\ request' = [request EXCEPT ![t] = IF blocks THEN [@ EXCEPT !.at = "asleep"] ELSE NoCallMade]
    /\ UNCHANGED <<count, semaphore, made, sum, raced>>

Interrupted(t) ==
    /\ request[t].at = "asleep" /\ request' = [request EXCEPT ![t] = NoCallMade]
    /\ UNCHANGED <<count, semaphore, made, sum, raced>>

\* Nothing that was written to an eventfd is lost or read twice, as long as no store overwrote a counter that
\* had changed since it was loaded (EventFd::read and write do not exclude each other); the counter never
\* wraps; and who sleeps cannot go on: every read wakes the writers, every write the readers.
CountIsSound ==
    /\ ~raced => count = sum.written - sum.taken
    /\ count \in 0..MaxCount
    /\ \A t \in Callers : request[t].at = "asleep" => ~Can(t)

-----------------------------------------------------------------------------
(* timerfd *)

\* timerfd_settime, relative: a value of 0 disarms.
Settime(value, interval) ==
    /\ timer' = [next |-> IF value = 0 THEN 0 ELSE now + value,
                 interval |-> IF value = 0 THEN 0 ELSE interval, expirations |-> 0]
    /\ armed' = [first |-> timer'.next, read |-> 0]
    /\ UNCHANGED <<now, waiting>>

\* timerfd_tick, after d units of time; wake_all when something expired.
TimerfdTick(d) ==
    /\ now + d <= MaxNow /\ now' = now + d
    /\ IF timer.next = 0 \/ now' < timer.next THEN UNCHANGED <<timer, waiting>>
       ELSE /\ waiting' = FALSE
            /\ LET missed == IF timer.interval = 0 THEN 1 ELSE (now' - timer.next) \div timer.interval + 1 IN
               timer' = [timer EXCEPT !.expirations = @ + missed,
                                      !.next = IF timer.interval = 0 THEN 0 ELSE @ + missed * timer.interval]
    /\ UNCHANGED armed

ReadTimer ==
    /\ ~waiting
    /\ IF timer.expirations > 0
       THEN /\ timer' = [timer EXCEPT !.expirations = 0] /\ UNCHANGED waiting
            /\ armed' = [armed EXCEPT !.read = @ + timer.expirations]
       ELSE waiting' = TRUE /\ UNCHANGED <<timer, armed>>
    /\ UNCHANGED now

\* A timer counts every expiry once, however late and however seldom the tick comes, and the next one lies
\* ahead of the last tick; a reader sleeps only while there is none to read.
TimerIsSound ==
    /\ timer.next # 0 => timer.next > now
    /\ LET past == IF armed.first = 0 \/ now < armed.first THEN 0
                   ELSE IF timer.interval = 0 THEN 1 ELSE (now - armed.first) \div timer.interval + 1
       IN armed.read + timer.expirations = past
    /\ waiting => timer.expirations = 0

-----------------------------------------------------------------------------
(* epoll *)

OpenFile(f) ==
    /\ fds[f] = 0 /\ files < MaxHeld /\ files' = files + 1
    /\ fds' = [fds EXCEPT ![f] = files']
    /\ UNCHANGED <<hot, interests, cut, shared>>

\* close: an interest keeps its file all the same.
CloseFile(f) ==
    /\ fds[f] # 0 /\ fds' = [fds EXCEPT ![f] = 0]
    /\ UNCHANGED <<files, hot, interests, cut, shared>>

Watching(f) == {i \in DOMAIN interests : interests[i].fd = f /\ interests[i].file = fds[f]}

Shares(l) == \E i, j \in DOMAIN l : i # j /\ l[i].data = l[j].data

\* epoll_ctl: an interest is found by its descriptor and the file that is there now. The data is the caller's to
\* choose: here, as programs do, some descriptor.
EpollCtl(f, op, data, oneshot) ==
    /\ fds[f] # 0
    /\ LET new == [fd |-> f, file |-> fds[f], data |-> data, on |-> TRUE, oneshot |-> oneshot, told |-> "nothing"] IN
       \/ op = "add" /\ Watching(f) = {} /\ interests' = Append(interests, new)
       \/ op = "mod" /\ \E i \in Watching(f) : interests' = [interests EXCEPT ![i] = new]
       \/ op = "del" /\ \E i \in Watching(f) : interests' = RemoveAt(interests, i)
    /\ shared' = (shared \/ Shares(interests'))
    /\ UNCHANGED <<fds, files, hot, cut>>

BecomesReady(f) == /\ f \in 1..files /\ hot' = hot \cup {f} /\ UNCHANGED <<fds, files, interests, cut, shared>>
BecomesIdle(f) == /\ hot' = hot \ {f} /\ UNCHANGED <<fds, files, interests, cut, shared>>

\* epoll_wait with something to report: the first ones that are ready. Every one-shot interest is switched off
\* that has the data of one of all that are ready: also one that was not reported, or is not ready itself.
EpollWait(max) ==
    LET due == {i \in DOMAIN interests : interests[i].on /\ interests[i].file \in hot}
        told == {i \in due : Cardinality({j \in due : j < i}) < max}
        Like(i, s) == \E j \in s : interests[j].data = interests[i].data
    IN /\ due # {}
       /\ interests' = [i \in DOMAIN interests |->
              [interests[i] EXCEPT !.on = @ /\ ~(interests[i].oneshot /\ Like(i, due)),
                                   !.told = IF i \in told THEN "event"
                                            ELSE IF @ = "nothing" /\ Like(i, told) THEN "data" ELSE @]]
       /\ cut' = (cut \/ told # due)
       /\ UNCHANGED <<fds, files, hot, shared>>

\* A file is watched once per descriptor, and a one-shot interest is switched off only when its event was
\* reported, or, where callers give two interests the same data, at least its data; as long as epoll_wait was
\* asked for as many events as there were.
InterestsAreSound ==
    /\ \A i, j \in DOMAIN interests :
          interests[i].fd = interests[j].fd /\ interests[i].file = interests[j].file => i = j
    /\ ~cut => \A i \in DOMAIN interests : \/ interests[i].on \/ interests[i].told = "event"
                                           \/ shared /\ interests[i].told = "data"

-----------------------------------------------------------------------------
CountNext == \E t \in Callers :
    \/ \E v \in 1..MaxCount : Ask(t, "write", v)
    \/ Ask(t, "read", 0) \/ LoadCount(t) \/ StoreCount(t) \/ Interrupted(t)
    \/ \E blocks \in BOOLEAN : CannotYet(t, blocks)

TimerNext ==
    \/ \E value, interval \in 0..2 : Settime(value, interval)
    \/ \E d \in 1..3 : TimerfdTick(d)
    \/ ReadTimer

EpollNext ==
    \/ \E f \in Fds : \/ OpenFile(f) \/ CloseFile(f)
                      \/ \E op \in {"add", "mod", "del"}, data \in Fds, oneshot \in BOOLEAN : EpollCtl(f, op, data, oneshot)
    \/ \E f \in 1..MaxHeld : BecomesReady(f) \/ BecomesIdle(f)
    \/ \E max \in 1..2 : EpollWait(max)

EventsAreSound == CountIsSound /\ TimerIsSound /\ InterestsAreSound
=============================================================================
