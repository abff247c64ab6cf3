------------------------------ MODULE KernelFds ------------------------------
(***************************************************************************)
(* The descriptor tables of the research kernel's processes                *)
(* (kernel/src/fs/file.rs, and the calls of syscall/fs.rs, proc/fork.rs,   *)
(* exec.rs and exit.rs that use them).  An open file is a number; a pipe   *)
(* makes two of them, its ends.  A table is only the descriptors up to the *)
(* highest it ever had, as the Vec is.                                     *)
(***************************************************************************)
EXTENDS Integers, Sequences, FiniteSets, SequencesExt

CONSTANTS
    FdProcs,      \* 1..n: processes, 1 the first
    MAX_FDS,
    MaxFiles    \* how many files are opened in all

VARIABLES
    table,      \* FdTable.fds of every process: a sequence, fd 0 at index 1; NoTable before and after
    twin,       \* of every file opened so far, the other end of its pipe, or 0
    dropped,    \* history: the files the program itself let go of, somewhere
    given       \* history: the last descriptor given out and the lowest that was free

fdVars == <<table, twin, dropped, given>>

Fd(f, cloexec) == [file |-> f, cloexec |-> cloexec]
Empty == Fd(0, FALSE)
NoTable == <<Fd(-1, FALSE)>>

FdInit ==
    /\ table = [p \in FdProcs |-> IF p = 1 THEN <<>> ELSE NoTable]
    /\ twin = <<>> /\ dropped = {} /\ given = <<0, 0>>

Running == {p \in FdProcs : table[p] # NoTable}
Used(fds) == {i \in DOMAIN fds : fds[i].file # 0}

\* FdTable::alloc: the first gap from min on, else the end of the table or min beyond it; -1 is EMFILE.
\* The limit is looked at only when the table has to grow.
Slot(fds, min) ==
    LET gaps == {i \in min..(Len(fds) - 1) : fds[i + 1].file = 0}
        end == Max({min, Len(fds)})
    IN IF gaps # {} THEN Min(gaps) ELSE IF end >= MAX_FDS THEN -1 ELSE end

\* The table with an entry at a place, grown with gaps as far as needed.
Put(fds, fd, entry) ==
    [i \in 1..Max({Len(fds), fd + 1}) |->
        IF i = fd + 1 THEN entry ELSE IF i <= Len(fds) THEN fds[i] ELSE Empty]

\* What no table holds any more is dropped by its last Arc; so nothing is kept about it but twin.
Note(fd, fds, min) == <<fd, Min({i \in min..MAX_FDS : i >= Len(fds) \/ fds[i + 1].file = 0})>>

\* openat, memfd, sockets: a new file at the lowest descriptor; with none left it is dropped.
Open(p, cloexec) ==
    /\ Len(twin) < MaxFiles
    /\ twin' = Append(twin, 0)
    /\ LET fd == Slot(table[p], 0) IN
       IF fd = -1 THEN UNCHANGED <<table, given>>
       ELSE /\ table' = [table EXCEPT ![p] = Put(@, fd, Fd(Len(twin'), cloexec))]
            /\ given' = Note(fd, table[p], 0)
    /\ UNCHANGED dropped

\* pipe2: when the second end finds no place the first is closed again.  When the two numbers cannot be
\* written to the caller's memory both stay open, and nobody knows them.
Pipe2(p) ==
    /\ Len(twin) + 2 <= MaxFiles
    /\ LET r == Len(twin) + 1
           one == Slot(table[p], 0)
           half == Put(table[p], one, Fd(r, FALSE))
           two == Slot(half, 0)
       IN /\ twin' = twin \o <<r + 1, r>>
          /\ IF one = -1 THEN UNCHANGED <<table, given>>
             ELSE IF two = -1
             THEN table' = [table EXCEPT ![p] = Put(half, one, Empty)] /\ UNCHANGED given
             ELSE /\ table' = [table EXCEPT ![p] = Put(half, two, Fd(r + 1, FALSE))]
                  /\ given' = Note(two, half, 0)
    /\ UNCHANGED dropped

\* dup, and fcntl's F_DUPFD with and without FD_CLOEXEC: a descriptor from min on.
Dup(p, fd, min, cloexec) ==
    /\ fd + 1 \in Used(table[p])
    /\ LET new == Slot(table[p], min) IN
       /\ new # -1
       /\ table' = [table EXCEPT ![p] = Put(@, new, Fd(@[fd + 1].file, cloexec))]
       /\ given' = Note(new, table[p], min)
    /\ UNCHANGED <<twin, dropped>>

Holds(fds, f) == \E i \in DOMAIN fds : fds[i].file = f

\* The files a process no longer has after its table became fds.
LetGo(p, fds) == {f \in 1..Len(twin) : Holds(table[p], f) /\ ~Holds(fds, f)}

\* dup2 and dup3: FdTable::set, which lets go of what was there.
Dup3(p, fd, new, cloexec) ==
    /\ fd + 1 \in Used(table[p]) /\ new # fd /\ new < MAX_FDS
    /\ LET fds == Put(table[p], new, Fd(table[p][fd + 1].file, cloexec)) IN
       table' = [table EXCEPT ![p] = fds] /\ dropped' = dropped \cup LetGo(p, fds)
    /\ UNCHANGED <<twin, given>>

\* close.
CloseFd(p, fd) ==
    /\ fd + 1 \in Used(table[p])
    /\ LET fds == [table[p] EXCEPT ![fd + 1] = Empty] IN
       table' = [table EXCEPT ![p] = fds] /\ dropped' = dropped \cup LetGo(p, fds)
    /\ UNCHANGED <<twin, given>>

\* close_range, the table's length cutting the range.
CloseRange(p, lo, hi) ==
    /\ Len(table[p]) > 0 /\ lo < hi
    /\ LET fds == [i \in DOMAIN table[p] |-> IF i - 1 \in lo..hi THEN Empty ELSE table[p][i]] IN
       table' = [table EXCEPT ![p] = fds] /\ dropped' = dropped \cup LetGo(p, fds)
    /\ UNCHANGED <<twin, given>>

\* F_SETFD.
SetCloexec(p, fd) ==
    /\ fd + 1 \in Used(table[p])
    /\ table' = [table EXCEPT ![p][fd + 1].cloexec = ~@]
    /\ UNCHANGED <<twin, dropped, given>>

\* exec: close_on_exec.
ExecCloses(p) ==
    /\ LET fds == [i \in DOMAIN table[p] |-> IF table[p][i].cloexec THEN Empty ELSE table[p][i]] IN
       table' = [table EXCEPT ![p] = fds] /\ dropped' = dropped \cup LetGo(p, fds)
    /\ UNCHANGED <<twin, given>>

\* fork without CLONE_FILES: duplicate.
ForkCopies(p, child) ==
    /\ table[child] = NoTable
    /\ table' = [table EXCEPT ![child] = table[p]]
    /\ UNCHANGED <<twin, dropped, given>>

\* The last thread's exit: clear.
ExitCloses(p) ==
    /\ dropped' = dropped \cup LetGo(p, <<>>)
    /\ table' = [table EXCEPT ![p] = NoTable]
    /\ UNCHANGED <<twin, given>>

FdNext ==
    \E p \in Running :
        \/ \E cloexec \in BOOLEAN : Open(p, cloexec)
        \/ Pipe2(p)
        \/ \E fd \in 0..(MAX_FDS - 1) :
            \/ \E min \in 0..MAX_FDS, cloexec \in BOOLEAN : Dup(p, fd, min, cloexec)
            \/ \E new \in 0..MAX_FDS, cloexec \in BOOLEAN : Dup3(p, fd, new, cloexec)
            \/ CloseFd(p, fd) \/ SetCloexec(p, fd)
            \/ \E hi \in 0..MAX_FDS : CloseRange(p, fd, hi)
        \/ ExecCloses(p) \/ ExitCloses(p)
        \/ \E child \in FdProcs : ForkCopies(p, child)

\* No table grows past the limit, a descriptor given out is the lowest that was free from the least one
\* asked for (POSIX programs rely on it), and both ends of a pipe are there until somebody lets go of one: a
\* pipe2 that fails half way leaves no end behind that would keep a reader waiting for ever.
FdsAreSound ==
    /\ \A p \in Running : Len(table[p]) <= MAX_FDS
    /\ given[1] = given[2]
    /\ \A p \in Running : \A i \in Used(table[p]) :
          LET f == table[p][i].file IN
          twin[f] # 0 /\ {f, twin[f]} \cap dropped = {} => Holds(table[p], twin[f])
=============================================================================
