------------------------------ MODULE AuditLog ------------------------------
(***************************************************************************)
(* mindd/src/daemon/audit.rs: entries are appended under a lock; a full    *)
(* log becomes <log>.1, over the previous one.  tail takes no lock: it     *)
(* reads the end of the log and, when that is too short, the end of the    *)
(* rotated one, and entries and a rotation may come in between.            *)
(*                                                                         *)
(* An entry is its number; a file holds RotateAt entries and last_lines    *)
(* reads at most Window of them, which are at least as many as anyone asks *)
(* for: entries are shorter than eight kilobytes.                          *)
(***************************************************************************)
EXTENDS Naturals, Sequences, SequencesExt

CONSTANTS
    RotateAt,     \* entries in a full log, 64 MiB in the code
    Window,       \* entries in eight windows, 8 MiB in the code
    MaxEntries,   \* bound: entries recorded
    Limit         \* entries a History request wants, 1000 at most

ASSUME AuditAssumption ==
    /\ RotateAt \in Nat /\ Window \in Nat /\ MaxEntries \in Nat /\ Limit \in Nat
    /\ Limit <= Window

VARIABLES
    log,       \* the log file
    logOpen,   \* it could be opened
    older,     \* <log>.1
    entries,   \* entries so far
    written,   \* auxiliary: those that were written, in order
    reader,    \* a tail at work: "rest" or "older"
    lines,     \* what it has read, and after it is done its answer
    since,     \* auxiliary: how many were written when it started
    turned     \* auxiliary: the log was rotated while it was at work

auditVars == <<log, logOpen, older, entries, written, reader, lines, since, turned>>

AuditInit ==
    /\ log = <<>>
    /\ logOpen = TRUE
    /\ older = <<>>
    /\ entries = 0
    /\ written = <<>>
    /\ reader = "rest"
    /\ lines = <<>>
    /\ since = 0
    /\ turned = FALSE

\* The log with one more entry, unless the write fails.
Written(l) ==
    \/ log' = Append(l, entries') /\ written' = Append(written, entries')
    \/ log' = l /\ UNCHANGED written

\* The full log becomes <log>.1; the new one is opened, or cannot be.
Rotated ==
    /\ older' = log
    /\ turned' = TRUE
    /\ \/ Written(<<>>) /\ UNCHANGED logOpen
       \/ logOpen' = FALSE /\ log' = <<>> /\ UNCHANGED written

Record ==
    /\ entries < MaxEntries
    /\ entries' = entries + 1
    /\ \/ ~logOpen /\ UNCHANGED <<log, logOpen, older, written, turned>>
       \/ logOpen /\ Len(log) >= RotateAt /\ Rotated
       \/ logOpen /\ Len(log) < RotateAt /\ Written(log) /\ UNCHANGED <<logOpen, older, turned>>
    /\ UNCHANGED <<reader, lines, since>>

\* The last n of a file, within the window.
LastLines(f, n) ==
    LET k == IF n < Window THEN n ELSE Window
    IN  IF Len(f) <= k THEN f ELSE SubSeq(f, Len(f) - k + 1, Len(f))

\* tail: the log is read, ...
TailStarts ==
    /\ reader = "rest"
    /\ lines' = LastLines(log, Limit)
    /\ reader' = IF Len(lines') < Limit THEN "older" ELSE "rest"
    /\ since' = Len(written)
    /\ turned' = FALSE
    /\ UNCHANGED <<log, logOpen, older, entries, written>>

\* Mutant: as many from the older log, too.
TailAddsAll ==
    /\ reader = "older"
    /\ lines' = LastLines(older, Limit) \o lines
    /\ reader' = "rest"
    /\ UNCHANGED <<log, logOpen, older, entries, written, since, turned>>

\* ... then what is missing, from the older one.
TailAdds ==
    /\ reader = "older"
    /\ lines' = LastLines(older, Limit - Len(lines)) \o lines
    /\ reader' = "rest"
    /\ UNCHANGED <<log, logOpen, older, entries, written, since, turned>>

\* The daemon starts again: the log is opened to append, or cannot be.
Reopen ==
    /\ logOpen' \in BOOLEAN
    /\ reader' = "rest"
    /\ lines' = <<>>
    /\ since' = 0
    /\ UNCHANGED <<log, older, entries, written, turned>>

AuditNext == Record \/ TailStarts \/ TailAdds \/ Reopen

AuditSpec == AuditInit /\ [][AuditNext]_auditVars

-----------------------------------------------------------------------------
\* What the two files held when the tail started, unless they were rotated since.
Logs == older \o log
LogsThen == SubSeq(Logs, 1, Len(Logs) - (Len(written) - since))

\* The two files hold the newest entries in order, nothing twice and nothing
\* left out, after rotations, failed writes and restarts; and the answer of
\* tail is the end of what was written when it started, as many as were
\* asked for or as the files held, unless the log was rotated under it
\* (audit.rs:41-64).
TailIsTheEnd ==
    /\ IsSuffix(Logs, written)
    /\ reader = "rest" /\ lines # <<>> /\ ~turned =>
          /\ IsSuffix(lines, SubSeq(written, 1, since))
          /\ Len(lines) = Limit \/ lines = LogsThen
=============================================================================
