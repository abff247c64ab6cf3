------------------------------ MODULE KernelTty ------------------------------
(***************************************************************************)
(* The terminals of the research kernel (kernel/src/dev/tty.rs): the line  *)
(* discipline of one terminal with its reader, its writer and its pty      *)
(* master, and the table of ptys with the names in /dev/pts.  What is      *)
(* typed is numbered in order, and a line is the numbers of its bytes;     *)
(* output is only counted.  A byte that edits or signals has no number.    *)
(***************************************************************************)
EXTENDS Integers, Sequences, FiniteSets, SequencesExt

CONSTANTS
    MaxTyped,   \* how many bytes that are kept are typed
    MaxLine,    \* 4095 in the code: a longer line is passed on as it is
    MaxRaw,     \* 65536 bytes of raw input, and what the master has not read
    Masters,    \* 1..n: openings of /dev/ptmx, in order
    MAX_PTYS

VARIABLES
    mode,       \* termios: [canon, min, time, echo]
    setting,    \* ioctl(TCSETS) between its two locks: the lines are to be flushed, to be moved, or left as they are
    input,      \* TtyInput: [line, lines, raw, lnext]
    typing,     \* input_bytes at work: [t: the termios it copied, left, wake], or Nobody
    typed,      \* how many bytes were kept so far
    got,        \* history: the last byte read
    out,        \* to_master
    reader,     \* of the terminal: idle or asleep (on read_wq)
    writer,     \* idle or asleep (on write_wq)
    master,     \* idle, asleep (on master_wq) or gone
    hangup,
    mixed,      \* history: raw bytes were left unread when lines came back, or were typed while lines were to be moved
    ptys,       \* PTYS: the master of every index, or 0
    names,      \* the indices that have a name in /dev/pts
    step,       \* per opening of ptmx: unused, making, open, closing, closed
    index,      \* and its index
    crossed     \* history: a release was under way while its index was given out again

ttyVars == <<mode, setting, input, typing, typed, got, out, reader, writer, master, hangup, mixed>>
ptyVars == <<ptys, names, step, index, crossed>>

Nobody == [left |-> -1, wake |-> FALSE]

Modes == {[canon |-> TRUE, min |-> 1, time |-> 0, echo |-> TRUE]}
         \cup [canon : {FALSE}, min : {0, 2}, time : {0}, echo : {FALSE}]
         \cup [canon : {FALSE}, min : {0}, time : {1}, echo : {FALSE}]

TtyInit ==
    /\ mode \in {m \in Modes : m.canon} /\ setting = "none"
    /\ input = [line |-> <<>>, lines |-> <<>>, raw |-> <<>>, lnext |-> FALSE]
    /\ typing = Nobody /\ typed = 0 /\ got = 0 /\ out = 0
    /\ reader = "idle" /\ writer = "idle" /\ master = "idle"
    /\ hangup = FALSE /\ mixed = FALSE

\* A call of a task is not preempted: it begins while no other is at work, nor an interrupt that brings input.
Calls == setting = "none" /\ typing = Nobody

\* Who is woken begins its loop again, as a new call does.
Wake(who) == IF who = "asleep" THEN "idle" ELSE who

\* readable_now.
Readable == \/ hangup
            \/ IF mode.canon THEN input.lines # <<>> ELSE Len(input.raw) >= Max({mode.min, 1})

\* The sink of a pty: all of it or nothing; the master is woken.
Sink(n) ==
    IF out + n <= MaxRaw /\ n > 0 /\ master # "gone" THEN out' = out + n /\ master' = Wake(master)
    ELSE UNCHANGED <<out, master>>

-----------------------------------------------------------------------------
(* input_bytes: the settings are copied once, then byte after byte is      *)
(* taken under the lock; readers are woken at the end.  The console's      *)
(* bytes come with an interrupt, also between the two locks of TCSETS.     *)

InputStart(n) ==
    /\ typing = Nobody /\ typed < MaxTyped /\ master # "gone"
    /\ typing' = [t |-> mode, left |-> n, wake |-> FALSE]
    /\ UNCHANGED <<mode, setting, input, typed, got, out, reader, writer, master, hangup, mixed>>

\* The byte is kept: in the line, which goes to the lines when it ends or is too long, or in the raw queue,
\* unless that is full.
Keep(eol) ==
    LET line == Append(input.line, typed + 1) IN
    /\ typed < MaxTyped /\ typed' = typed + 1
    /\ input' = IF typing.t.canon
                THEN IF eol \/ Len(line) >= MaxLine
                     THEN [input EXCEPT !.line = <<>>, !.lines = Append(@, line), !.lnext = FALSE]
                     ELSE [input EXCEPT !.line = line, !.lnext = FALSE]
                ELSE [input EXCEPT !.raw = IF Len(@) < MaxRaw THEN Append(@, typed + 1) ELSE @, !.lnext = FALSE]
    /\ typing' = [typing EXCEPT !.left = @ - 1, !.wake = @ \/ ~typing.t.canon \/ eol \/ Len(line) >= MaxLine]
    /\ mixed' = (mixed \/ (~typing.t.canon /\ setting = "move" /\ (input.lines # <<>> \/ input.line # <<>>)))
    /\ Sink(IF typing.t.echo THEN 1 ELSE 0)

\* VLNEXT, VINTR (the lines that are complete stay), VERASE, VKILL and VEOF, when the byte before was no VLNEXT.
Edit(b) ==
    /\ ~input.lnext
    /\ CASE b = "lnext" -> input' = [input EXCEPT !.lnext = TRUE] /\ typing' = [typing EXCEPT !.left = @ - 1]
         [] b = "intr" -> /\ input' = [input EXCEPT !.line = <<>>, !.raw = <<>>]
                          /\ typing' = [typing EXCEPT !.left = @ - 1]
         [] b = "erase" -> /\ typing.t.canon
                           /\ input' = [input EXCEPT !.line = IF @ = <<>> THEN @ ELSE Front(@)]
                           /\ typing' = [typing EXCEPT !.left = @ - 1]
         [] b = "kill" -> /\ typing.t.canon
                          /\ input' = [input EXCEPT !.line = <<>>] /\ typing' = [typing EXCEPT !.left = @ - 1]
         [] b = "eof" -> /\ typing.t.canon
                         /\ input' = [input EXCEPT !.lines = Append(@, input.line), !.line = <<>>]
                         /\ typing' = [typing EXCEPT !.left = @ - 1, !.wake = TRUE]
    /\ Sink(IF typing.t.echo THEN 1 ELSE 0)
    /\ UNCHANGED <<typed, mixed>>

InputByte(b) ==
    /\ typing.left > 0
    /\ b = "eof" => Len(input.lines) < MaxTyped
    /\ IF b \in {"char", "eol"} THEN Keep(b = "eol") ELSE Edit(b)
    /\ UNCHANGED <<mode, setting, got, reader, writer, hangup>>

InputEnd ==
    /\ typing.left = 0
    /\ reader' = IF typing.wake THEN Wake(reader) ELSE reader
    /\ typing' = Nobody
    /\ UNCHANGED <<mode, setting, input, typed, got, out, writer, master, hangup, mixed>>

-----------------------------------------------------------------------------
(* Tty::read: a turn of its loop. *)

Taken(s, n) == SubSeq(s, 1, Min({n, Len(s)}))
Rest(s, n) == SubSeq(s, n + 1, Len(s))

\* The terminal hung up, a line or part of it, raw bytes, or nothing at once when VMIN and VTIME are 0.
ReadTakes(n) ==
    /\ Calls /\ reader = "idle"
    /\ \/ hangup /\ UNCHANGED <<input, got>>
       \/ /\ ~hangup /\ mode.canon /\ input.lines # <<>>
          /\ LET line == Head(input.lines) IN
             /\ input' = [input EXCEPT !.lines = IF Len(line) > n THEN <<Rest(line, n)>> \o Tail(@) ELSE Tail(@)]
             /\ got' = IF line = <<>> THEN got ELSE Last(Taken(line, n))
       \/ /\ ~hangup /\ ~mode.canon /\ input.raw # <<>> /\ Len(input.raw) >= mode.min
          /\ input' = [input EXCEPT !.raw = Rest(@, n)]
          /\ got' = Last(Taken(input.raw, n))
       \/ /\ ~hangup /\ ~mode.canon /\ input.raw = <<>> /\ mode.min = 0 /\ mode.time = 0
          /\ UNCHANGED <<input, got>>
    /\ reader' = "idle"
    /\ UNCHANGED <<mode, setting, typing, typed, out, writer, master, hangup, mixed>>

\* It sleeps until the terminal is readable.  With VTIME the wait has an end, but the loop begins again then.
ReadSleeps ==
    /\ Calls /\ reader = "idle"
    /\ ~Readable /\ ~(~mode.canon /\ mode.min = 0 /\ mode.time = 0)
    /\ reader' = "asleep"
    /\ UNCHANGED <<mode, setting, input, typing, typed, got, out, writer, master, hangup, mixed>>

\* A signal, EAGAIN, or the end of VTIME.
ReadWakes ==
    /\ reader = "asleep" /\ reader' = "idle"
    /\ UNCHANGED <<mode, setting, input, typing, typed, got, out, writer, master, hangup, mixed>>

\* Tty::write of a chunk of n bytes: EIO after a hangup, taken by the sink, asleep while the queue is full;
\* while it is only too full for the chunk the loop goes round.
Write(n) ==
    /\ Calls /\ writer = "idle"
    /\ \/ hangup /\ writer' = "idle" /\ UNCHANGED <<out, master>>
       \/ ~hangup /\ out + n <= MaxRaw /\ Sink(n) /\ writer' = "idle"
       \/ /\ ~hangup /\ out + n > MaxRaw /\ UNCHANGED <<out, master>>
          /\ writer' \in {"idle"} \cup (IF out < MaxRaw THEN {} ELSE {"asleep"})
    /\ UNCHANGED <<mode, setting, input, typing, typed, got, reader, hangup, mixed>>

\* PtyMaster::read.
MasterReads(n) ==
    /\ Calls /\ master = "idle"
    /\ \/ out >= n /\ out' = out - n /\ master' = "idle" /\ writer' = Wake(writer)
       \/ out = 0 /\ master' \in {"idle", "asleep"} /\ UNCHANGED <<out, writer>>
    /\ UNCHANGED <<mode, setting, input, typing, typed, got, reader, hangup, mixed>>

\* PtyMaster::release: do_hangup.
MasterCloses ==
    /\ Calls /\ master = "idle"
    /\ master' = "gone" /\ hangup' = TRUE
    /\ reader' = Wake(reader) /\ writer' = Wake(writer)
    /\ UNCHANGED <<mode, setting, input, typing, typed, got, out, mixed>>

\* TCSETS, TCSETSW and TCSETSF, under the lock of the settings; ...
TcsetsStores(m, flush) ==
    /\ Calls /\ m # mode /\ mode' = m
    /\ setting' = IF flush THEN "flush" ELSE IF mode.canon /\ ~m.canon THEN "move" ELSE "leave"
    /\ mixed' = (mixed \/ (~flush /\ ~mode.canon /\ m.canon /\ input.raw # <<>>))
    /\ UNCHANGED <<input, typing, typed, got, out, reader, writer, master, hangup>>

\* ... and under the input's: when lines are given up, what is finished and what is not moves to the raw queue.
TcsetsMoves ==
    /\ setting # "none" /\ typing = Nobody /\ setting' = "none"
    /\ input' = CASE setting = "flush" -> [input EXCEPT !.line = <<>>, !.lines = <<>>, !.raw = <<>>]
                  [] setting = "move" -> [input EXCEPT !.line = <<>>, !.lines = <<>>,
                                                       !.raw = @ \o FlattenSeq(input.lines) \o input.line]
                  [] OTHER -> input
    /\ reader' = Wake(reader)
    /\ UNCHANGED <<mode, typing, typed, got, out, writer, master, hangup, mixed>>

\* TCFLSH.
Tcflsh ==
    /\ Calls
    /\ input' = [input EXCEPT !.line = <<>>, !.lines = <<>>, !.raw = <<>>]
    /\ UNCHANGED <<mode, setting, typing, typed, got, out, reader, writer, master, hangup, mixed>>

TtyNext ==
    \/ \E n \in 1..2 : InputStart(n) \/ ReadTakes(n) \/ Write(n) \/ MasterReads(n)
    \/ \E b \in {"char", "eol", "lnext", "intr", "erase", "kill", "eof"} : InputByte(b)
    \/ InputEnd \/ ReadSleeps \/ ReadWakes \/ MasterCloses \/ Tcflsh
    \/ \E m \in Modes, flush \in BOOLEAN : TcsetsStores(m, flush)
    \/ TcsetsMoves

Increasing(s) == \A i \in 1..(Len(s) - 1) : s[i] < s[i + 1]

\* What is typed is read in the order it was typed, through any change between lines and raw bytes (unless
\* raw bytes were left behind when lines came back, or came between the two locks of TCSETS: they are put
\* before the lines that are moved); who sleeps on the terminal has nothing to wait for: the
\* reader is asleep only while there is nothing to read, the writer while the queue is full, the master while
\* it is empty, and nobody after the hangup.
TtyIsSound ==
    /\ ~mixed /\ setting = "none" => Increasing(<<got>> \o input.raw \o FlattenSeq(input.lines) \o input.line)
    /\ reader = "asleep" => ~Readable \/ typing.wake \/ setting # "none"
    /\ writer = "asleep" => ~hangup /\ out = MaxRaw
    /\ master = "asleep" => out = 0

-----------------------------------------------------------------------------
(* The table of ptys and their names. *)

PtyInit ==
    /\ ptys = [i \in 1..MAX_PTYS |-> 0] /\ names = {}
    /\ step = [m \in Masters |-> "unused"] /\ index = [m \in Masters |-> 0] /\ crossed = FALSE

\* open_ptmx: an index under the lock, then the name; an error of create is ignored.
TakeIndex(m) ==
    /\ step[m] = "unused"
    /\ \E i \in 1..MAX_PTYS :
        /\ ptys[i] = 0 /\ \A j \in 1..(i - 1) : ptys[j] # 0
        /\ ptys' = [ptys EXCEPT ![i] = m] /\ index' = [index EXCEPT ![m] = i]
        /\ crossed' = (crossed \/ \E o \in Masters : step[o] = "closing" /\ index[o] = i)
    /\ step' = [step EXCEPT ![m] = "making"]
    /\ UNCHANGED names

MakeName(m) ==
    /\ step[m] = "making" /\ step' = [step EXCEPT ![m] = "open"]
    /\ names' = names \cup {index[m]}
    /\ UNCHANGED <<ptys, index, crossed>>

\* PtyMaster::release: the index, then the name.
FreeIndex(m) ==
    /\ step[m] = "open" /\ step' = [step EXCEPT ![m] = "closing"]
    /\ ptys' = [ptys EXCEPT ![index[m]] = 0]
    /\ UNCHANGED <<names, index, crossed>>

DropName(m) ==
    /\ step[m] = "closing" /\ step' = [step EXCEPT ![m] = "closed"]
    /\ names' = names \ {index[m]}
    /\ UNCHANGED <<ptys, index, crossed>>

PtyNext == \E m \in Masters : TakeIndex(m) \/ MakeName(m) \/ FreeIndex(m) \/ DropName(m)

\* No two open masters share an index; an open one has its name in /dev/pts, and no name is left over when
\* nobody is at work.  A release that is overtaken between the index and the name takes the name of the new
\* one with it: from then on nothing is said.
PtysAreSound ==
    /\ \A m, o \in Masters : {step[m], step[o]} \subseteq {"making", "open"} /\ index[m] = index[o] => m = o
    /\ ~crossed => /\ \A m \in Masters : step[m] = "open" => index[m] \in names
                   /\ \A i \in names : \E m \in Masters : step[m] \in {"open", "closing"} /\ index[m] = i
    /\ \A i \in 1..MAX_PTYS : ptys[i] # 0 => step[ptys[i]] \in {"making", "open"}

\* The terminal and the table of ptys.
TerminalsAreSound == TtyIsSound /\ PtysAreSound
=============================================================================
