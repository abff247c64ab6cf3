----------------------------- MODULE KernelPipe ------------------------------
(***************************************************************************)
(* A pipe or FIFO of the research kernel (kernel/src/fs/pipe.rs): a ring   *)
(* of bytes, a count of readers and of writers, and one wait queue for     *)
(* everybody.  The kernel is not preempted, so a task goes from one sleep  *)
(* to the next in one step.  Sleeping and waking are as KernelSched means  *)
(* them to be: wake_all wakes everyone, who look again when they run.      *)
(* A byte is the task that wrote it.                                       *)
(***************************************************************************)
EXTENDS Integers, Sequences, FiniteSets, SequencesExt

CONSTANTS
    PipeTasks,
    PIPE_BUF_SIZE,   \* 65536 in the code
    Atomic           \* the longest write that goes in whole: 4096 in the code

VARIABLES
    pipe,     \* [data, head, len, readers, writers]
    end,      \* what each task has open: "none", "reader", "writer", "duplex"
    doing,    \* its call: [op, left, len, nonblock], op "none" in user mode
    slept,    \* the tasks asleep on the pipe's queue
    signalled,\* the tasks with a signal pending
    stream    \* history: the bytes that went in and have not come out

pipeVars == <<pipe, end, doing, slept, signalled, stream>>

Ends == {"reader", "writer", "duplex"}
NoOp == [op |-> "none", left |-> 0, len |-> 0, nonblock |-> FALSE]
ToRead(t) == end[t] \in {"reader", "duplex"}
ToWrite(t) == end[t] \in {"writer", "duplex"}

PipeInit ==
    /\ pipe = [data |-> [i \in 0..PIPE_BUF_SIZE - 1 |-> CHOOSE t \in PipeTasks : TRUE], head |-> 0, len |-> 0,
               readers |-> 0, writers |-> 0]
    /\ end = [t \in PipeTasks |-> "none"]
    /\ doing = [t \in PipeTasks |-> NoOp]
    /\ slept = {} /\ signalled = {} /\ stream = <<>>

Space == PIPE_BUF_SIZE - pipe.len
Idles(t) == doing[t].op = "none" /\ t \notin signalled
Runs(t, op) == doing[t].op = op /\ t \notin slept
Returns(t) == doing' = [doing EXCEPT ![t] = NoOp]

\* wait_until, once its condition has been found false: a signal, or sleep.
WaitOr(t, failed) ==
    IF t \in signalled THEN failed
    ELSE slept' = slept \cup {t} /\ UNCHANGED <<pipe, end, doing, signalled, stream>>

-----------------------------------------------------------------------------
\* open_fifo: an end counts from the start of the open, and wakes who waits for one.
Open(t, kind, nonblock) ==
    /\ Idles(t) /\ end[t] = "none"
    /\ ~(kind = "writer" /\ nonblock /\ pipe.readers = 0)
    /\ pipe' = [pipe EXCEPT !.readers = IF kind = "writer" THEN @ ELSE @ + 1,
                            !.writers = IF kind = "reader" THEN @ ELSE @ + 1]
    /\ end' = [end EXCEPT ![t] = kind]
    /\ LET waits == ~nonblock /\ \/ kind = "reader" /\ pipe.writers = 0
                                 \/ kind = "writer" /\ pipe.readers = 0
       IN /\ slept' = IF waits THEN {t} ELSE {}
          /\ doing' = IF waits THEN [doing EXCEPT ![t].op = "open"] ELSE doing
    /\ UNCHANGED <<signalled, stream>>

\* The opener runs again: its peer is there, or a signal is, or it sleeps on.
Opening(t) ==
    /\ Runs(t, "open")
    /\ IF (end[t] = "reader" /\ pipe.writers > 0) \/ (end[t] = "writer" /\ pipe.readers > 0)
       THEN Returns(t) /\ UNCHANGED <<pipe, end, slept, signalled, stream>>
       ELSE WaitOr(t, /\ pipe' = [pipe EXCEPT !.readers = IF end[t] = "reader" THEN @ - 1 ELSE @,
                                              !.writers = IF end[t] = "writer" THEN @ - 1 ELSE @]
                      /\ end' = [end EXCEPT ![t] = "none"]
                      /\ Returns(t)
                      /\ UNCHANGED <<slept, signalled, stream>>)

\* The end counted off, and nobody told.
CloseQuietly(t) ==
    /\ Idles(t) /\ end[t] # "none"
    /\ pipe' = [pipe EXCEPT !.readers = IF ToRead(t) THEN @ - 1 ELSE @,
                            !.writers = IF ToWrite(t) THEN @ - 1 ELSE @]
    /\ end' = [end EXCEPT ![t] = "none"]
    /\ UNCHANGED <<doing, slept, signalled, stream>>

\* release of the last reference to an end.
Close(t) ==
    /\ Idles(t) /\ end[t] # "none"
    /\ pipe' = [pipe EXCEPT !.readers = IF ToRead(t) THEN @ - 1 ELSE @,
                            !.writers = IF ToWrite(t) THEN @ - 1 ELSE @]
    /\ end' = [end EXCEPT ![t] = "none"]
    /\ slept' = {}
    /\ UNCHANGED <<doing, signalled, stream>>

BeginCall(t, op, n, nonblock) ==
    /\ Idles(t) /\ n > 0
    /\ (op = "read" /\ ToRead(t)) \/ (op = "write" /\ ToWrite(t))
    /\ doing' = [doing EXCEPT ![t] = [op |-> op, left |-> n, len |-> n, nonblock |-> nonblock]]
    /\ UNCHANGED <<pipe, end, slept, signalled, stream>>

\* read: what there is, the end of the data, or a wait for either.
Read(t) ==
    /\ Runs(t, "read")
    /\ LET n == IF doing[t].left < pipe.len THEN doing[t].left ELSE pipe.len
       IN IF n > 0
          THEN /\ pipe' = [pipe EXCEPT !.head = (@ + n) % PIPE_BUF_SIZE, !.len = @ - n]
               /\ stream' = SubSeq(stream, n + 1, Len(stream))
               /\ slept' = {}
               /\ Returns(t) /\ UNCHANGED <<end, signalled>>
          ELSE IF pipe.writers = 0 \/ doing[t].nonblock
               THEN Returns(t) /\ UNCHANGED <<pipe, end, slept, signalled, stream>>
               ELSE WaitOr(t, Returns(t) /\ UNCHANGED <<pipe, end, slept, signalled, stream>>)

\* write: in whole up to Atomic bytes, otherwise piece by piece.
Need(t) == IF doing[t].len <= Atomic THEN doing[t].len ELSE 1

Write(t) ==
    /\ Runs(t, "write")
    /\ IF pipe.readers = 0
       THEN /\ signalled' = signalled \cup {t}
            /\ Returns(t) /\ UNCHANGED <<pipe, end, slept, stream>>
       ELSE IF Space >= Need(t)
       THEN LET n == IF doing[t].left < Space THEN doing[t].left ELSE Space
            IN /\ pipe' = [pipe EXCEPT
                     !.data = [j \in DOMAIN @ |->
                         LET i == ((j - pipe.head - pipe.len) % PIPE_BUF_SIZE) + 1
                         IN IF i <= n THEN t ELSE @[j]],
                     !.len = @ + n]
               /\ stream' = stream \o [i \in 1..n |-> t]
               /\ slept' = {}
               /\ IF n = doing[t].left THEN Returns(t) ELSE doing' = [doing EXCEPT ![t].left = @ - n]
               /\ UNCHANGED <<end, signalled>>
       ELSE IF doing[t].nonblock
       THEN Returns(t) /\ UNCHANGED <<pipe, end, slept, signalled, stream>>
       ELSE WaitOr(t, Returns(t) /\ UNCHANGED <<pipe, end, slept, signalled, stream>>)

\* A signal wakes a task that sleeps here; on the way to user mode it is delivered.
Interrupt(t) ==
    /\ t \notin signalled /\ doing[t].op # "none"
    /\ signalled' = signalled \cup {t} /\ slept' = slept \ {t}
    /\ UNCHANGED <<pipe, end, doing, stream>>

Deliver(t) ==
    /\ doing[t].op = "none" /\ t \in signalled
    /\ signalled' = signalled \ {t}
    /\ UNCHANGED <<pipe, end, doing, slept, stream>>

PipeNext ==
    \E t \in PipeTasks :
        \/ Opening(t) \/ Close(t) \/ Read(t) \/ Write(t) \/ Interrupt(t) \/ Deliver(t)
        \/ \E kind \in Ends, nonblock \in BOOLEAN : Open(t, kind, nonblock)
        \/ \E op \in {"read", "write"} :
              \/ BeginCall(t, op, PIPE_BUF_SIZE, TRUE)
              \/ \E n \in 1..PIPE_BUF_SIZE : BeginCall(t, op, n, FALSE)

-----------------------------------------------------------------------------
\* The ring holds, from head, the bytes that went in and have not come out, in the order they went in
\* (read_some and write_some wrap around the buffer).
RingIsInOrder ==
    stream = [i \in 1..pipe.len |-> pipe.data[(pipe.head + i - 1) % PIPE_BUF_SIZE]]

\* "POSIX: writes of <= PIPE_BUF (4096) bytes are atomic" (fs/pipe.rs, write): the bytes of such a write
\* lie side by side, whoever else writes.
SmallWritesAreWhole ==
    \A t \in PipeTasks : doing[t].op = "write" /\ doing[t].len <= Atomic => doing[t].left = doing[t].len

\* Nobody sleeps through what it waits for: data or the last writer's leaving, room or the last reader's
\* leaving, or the other end of the FIFO.
PipeSleepersMustWait ==
    \A t \in slept :
        \/ doing[t].op = "read" /\ pipe.len = 0 /\ pipe.writers > 0
        \/ doing[t].op = "write" /\ Space < Need(t) /\ pipe.readers > 0
        \/ doing[t].op = "open" /\ end[t] = "reader" /\ pipe.writers = 0
        \/ doing[t].op = "open" /\ end[t] = "writer" /\ pipe.readers = 0

\* The counts are the ends that are open or being opened, through every way an open can fail.
EndsAreCounted ==
    /\ pipe.readers = Cardinality({t \in PipeTasks : ToRead(t)})
    /\ pipe.writers = Cardinality({t \in PipeTasks : ToWrite(t)})

PipeIsSound == RingIsInOrder /\ SmallWritesAreWhole /\ PipeSleepersMustWait /\ EndsAreCounted
=============================================================================
