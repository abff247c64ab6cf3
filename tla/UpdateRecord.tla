---------------------------- MODULE UpdateRecord ----------------------------
(***************************************************************************)
(* The record of the last pacman transaction, last-update.json, and its    *)
(* verification: mindd/src/daemon/health.rs (run_and_notify,               *)
(* verify_last_update), the end of apply in updates.rs, the health timer   *)
(* of mindd.rs and the pacman hook packages/mindos-mind/update-mark.  The  *)
(* timer, an install and requests of clients check the system at the same  *)
(* time; no lock protects the file, and a check awaits commands between    *)
(* what it reads and what it writes.                                       *)
(*                                                                         *)
(* Transactions are numbered in the order they happen (the code keeps      *)
(* their time).  Of a finding only matters whether it is a problem (warn   *)
(* or danger, not pacnew), of the packages whether they touch the kernel   *)
(* or the GPU driver.                                                      *)
(***************************************************************************)
EXTENDS Naturals

CONSTANTS
    Clients,      \* tasks that serve a Health request or the health_check tool
    Timer,        \* the task of the health timer
    Updater,      \* the task that runs apply
    MaxTxn,       \* bound: transactions
    MaxBoots      \* bound: reboots

ASSUME RecordAssumption ==
    /\ Timer # Updater /\ Timer \notin Clients /\ Updater \notin Clients
    /\ MaxTxn \in Nat /\ MaxBoots \in Nat

VARIABLES
    rec,       \* last-update.json
    txn,       \* transactions so far
    stale,     \* the running kernel is no longer installed
    broken,    \* something else is wrong that the checks would find
    young,     \* booted less than 90 seconds ago
    boots,     \* reboots so far
    notices,   \* which of the three verification notices are posted
    pc,        \* where each task is
    got,       \* the record each task has read
    found,     \* the findings of each task, and the last transaction before them
    started,   \* the last transaction before the updater's run
    overlap    \* auxiliary: a record was written between findings and verdict

recordVars == <<rec, txn, stale, broken, young, boots, notices, pc, got, found, started, overlap>>

Tasks == Clients \cup {Timer, Updater}

\* basis is auxiliary: the last transaction the verdict's findings could see.
Record ==
    [txn : 0..MaxTxn, touched : BOOLEAN, snap : BOOLEAN, verified : {"", "ok", "problems"},
     basis : 0..MaxTxn]

\* No file yet.
NoRecord == [txn |-> 0, touched |-> FALSE, snap |-> FALSE, verified |-> "", basis |-> 0]

\* update-mark, and the record apply makes up.
Fresh(n, touched) == [NoRecord EXCEPT !.txn = n, !.touched = touched]

Findings == [problem : BOOLEAN, basis : 0..MaxTxn]
NoFindings == [problem |-> FALSE, basis |-> 0]

\* "pacman" and "record" are the updater's, the others those of a check.
TaskStates == {"idle", "run", "verify", "lookup", "judge", "pacman", "record"}

RecordTypeOK ==
    /\ rec \in Record
    /\ txn \in 0..MaxTxn
    /\ stale \in BOOLEAN /\ broken \in BOOLEAN /\ young \in BOOLEAN
    /\ boots \in 0..MaxBoots
    /\ notices \subseteq {"reboot", "verified", "problems"}
    /\ pc \in [Tasks -> TaskStates]
    /\ got \in [Tasks -> Record]
    /\ found \in [Tasks -> Findings]
    /\ started \in 0..MaxTxn
    /\ overlap \in BOOLEAN

RecordInit ==
    /\ rec = NoRecord
    /\ txn = 0
    /\ stale = FALSE /\ broken = FALSE /\ young = TRUE
    /\ boots = 0
    /\ notices = {}
    /\ pc = [t \in Tasks |-> "idle"]
    /\ got = [t \in Tasks |-> NoRecord]
    /\ found = [t \in Tasks |-> NoFindings]
    /\ started = 0
    /\ overlap = FALSE

machine == <<txn, stale, broken, young, boots>>

GoesTo(t, to) == pc' = [pc EXCEPT ![t] = to]
Forget(t) == got' = [got EXCEPT ![t] = NoRecord] /\ found' = [found EXCEPT ![t] = NoFindings]
Overlaps == \E t \in Tasks : pc[t] \in {"verify", "lookup", "judge"}

-----------------------------------------------------------------------------
(***************************************************************************)
(* run_and_notify.                                                         *)
(***************************************************************************)

Start(t) ==
    /\ t # Updater
    /\ pc[t] = "idle"
    /\ GoesTo(t, "run")
    /\ UNCHANGED <<rec, machine, notices, got, found, started, overlap>>

\* run: the commands, as if they all looked at one moment.
Run(t) ==
    /\ pc[t] = "run"
    /\ found' = [found EXCEPT ![t] = [problem |-> broken \/ stale, basis |-> txn]]
    /\ GoesTo(t, "verify")
    /\ UNCHANGED <<rec, machine, notices, got, started, overlap>>

\* verify_last_update, up to the await: nothing to verify, ...
VerifyNothing(t) ==
    /\ pc[t] = "verify"
    /\ rec.txn = 0 \/ rec.verified # "" \/ young
    /\ GoesTo(t, "idle")
    /\ Forget(t)
    /\ UNCHANGED <<rec, machine, notices, started, overlap>>

Verifiable(t) == pc[t] = "verify" /\ rec.txn # 0 /\ rec.verified = "" /\ ~young

\* ... too early to judge, ...
VerifyReboot(t) ==
    /\ Verifiable(t)
    /\ rec.touched /\ stale
    /\ notices' = notices \cup {"reboot"}
    /\ GoesTo(t, "idle")
    /\ Forget(t)
    /\ UNCHANGED <<rec, machine, started, overlap>>

\* Mutant: kernel updates are left to the reboot for good.
VerifyRecordUntouched(t) ==
    /\ Verifiable(t)
    /\ ~rec.touched
    /\ got' = [got EXCEPT ![t] = rec]
    /\ GoesTo(t, IF rec.snap THEN "judge" ELSE "lookup")
    /\ UNCHANGED <<rec, machine, notices, found, started, overlap>>

\* ... or a record to judge, whose snapshot may have to be looked up.
VerifyRecord(t) ==
    /\ Verifiable(t)
    /\ ~(rec.touched /\ stale)
    /\ got' = [got EXCEPT ![t] = rec]
    /\ GoesTo(t, IF rec.snap THEN "judge" ELSE "lookup")
    /\ UNCHANGED <<rec, machine, notices, found, started, overlap>>

\* pre_snapshot_for finds a snapshot or none.
Lookup(t) ==
    /\ pc[t] = "lookup"
    /\ \E snap \in BOOLEAN : got' = [got EXCEPT ![t].snap = snap]
    /\ GoesTo(t, "judge")
    /\ UNCHANGED <<rec, machine, notices, found, started, overlap>>

\* Mutant: the hint to reboot is left to the user.
JudgeKeepingTheHint(t) ==
    /\ pc[t] = "judge"
    /\ LET problem == found[t].problem
       IN  /\ rec' = [got[t] EXCEPT !.verified = IF problem THEN "problems" ELSE "ok",
                                    !.basis = found[t].basis]
           /\ notices' = IF problem THEN (notices \ {"verified"}) \cup {"problems"}
                         ELSE notices \cup {"verified"}
    /\ GoesTo(t, "idle")
    /\ Forget(t)
    /\ UNCHANGED <<machine, started, overlap>>

\* The verdict, its notice and the record with it, as it was read.
Judge(t) ==
    /\ pc[t] = "judge"
    /\ LET problem == found[t].problem
       IN  /\ rec' = [got[t] EXCEPT !.verified = IF problem THEN "problems" ELSE "ok",
                                    !.basis = found[t].basis]
           /\ notices' = IF problem THEN (notices \ {"reboot", "verified"}) \cup {"problems"}
                         ELSE (notices \ {"reboot"}) \cup {"verified"}
    /\ GoesTo(t, "idle")
    /\ Forget(t)
    /\ UNCHANGED <<machine, started, overlap>>

\* tokio::time::timeout drops a check that waits for a command.
Timeout(t) ==
    /\ pc[t] \in {"run", "lookup"}
    /\ GoesTo(t, "idle")
    /\ Forget(t)
    /\ UNCHANGED <<rec, machine, notices, started, overlap>>

-----------------------------------------------------------------------------
(***************************************************************************)
(* apply, from pacman on.                                                  *)
(***************************************************************************)

ApplyStart ==
    /\ pc[Updater] = "idle"
    /\ GoesTo(Updater, "pacman")
    /\ started' = txn
    /\ UNCHANGED <<rec, machine, notices, got, found, overlap>>

\* pacman has ended; the snapshot is being looked up.
PacmanEnds ==
    /\ pc[Updater] = "pacman"
    /\ GoesTo(Updater, "record")
    /\ UNCHANGED <<rec, machine, notices, got, found, started, overlap>>

\* The hook's record of this run or, if there is none, one of its own, gets
\* the snapshot and is saved, with nothing awaited in between; the system is
\* checked at once.
ApplyRecord ==
    /\ pc[Updater] = "record"
    /\ \/ /\ rec.txn > started
          /\ \E snap \in {rec.snap, TRUE} : rec' = [rec EXCEPT !.snap = snap]
          /\ UNCHANGED <<txn, overlap>>
       \/ /\ rec.txn <= started
          /\ txn < MaxTxn
          /\ txn' = txn + 1
          /\ \E touched, snap \in BOOLEAN : rec' = [Fresh(txn', touched) EXCEPT !.snap = snap]
          /\ overlap' = (overlap \/ Overlaps)
    /\ started' = 0
    /\ GoesTo(Updater, "run")
    /\ UNCHANGED <<stale, broken, young, boots, notices, got, found>>

-----------------------------------------------------------------------------
(***************************************************************************)
(* The machine.                                                            *)
(***************************************************************************)

\* A pacman run, the updater's or another one, has installed something: the
\* hook writes a fresh record.
Transaction ==
    /\ txn < MaxTxn
    /\ txn' = txn + 1
    /\ \E touched, nowStale, breaks \in BOOLEAN :
          /\ nowStale => touched
          /\ rec' = Fresh(txn', touched)
          /\ stale' = (stale \/ nowStale)
          /\ broken' = (broken \/ breaks)
    /\ overlap' = (overlap \/ Overlaps)
    /\ UNCHANGED <<young, boots, notices, pc, got, found, started>>

\* The user repairs what is wrong.
Repair ==
    /\ broken
    /\ broken' = FALSE
    /\ UNCHANGED <<rec, txn, stale, young, boots, notices, pc, got, found, started, overlap>>

\* A reboot runs the installed kernel and ends every task.
Reboot ==
    /\ boots < MaxBoots
    /\ boots' = boots + 1
    /\ stale' = FALSE
    /\ young' = TRUE
    /\ pc' = [t \in Tasks |-> "idle"]
    /\ got' = [t \in Tasks |-> NoRecord]
    /\ found' = [t \in Tasks |-> NoFindings]
    /\ started' = 0
    /\ UNCHANGED <<rec, txn, broken, notices, overlap>>

\* Ninety seconds have passed.
Settle ==
    /\ young
    /\ young' = FALSE
    /\ UNCHANGED <<rec, txn, stale, broken, boots, notices, pc, got, found, started, overlap>>

Check(t) ==
    \/ Start(t) \/ Run(t) \/ VerifyNothing(t) \/ VerifyReboot(t) \/ VerifyRecord(t)
    \/ Lookup(t) \/ Judge(t) \/ Timeout(t)

RecordNext ==
    \/ \E t \in Tasks : Check(t)
    \/ ApplyStart \/ PacmanEnds \/ ApplyRecord
    \/ Transaction \/ Repair \/ Reboot \/ Settle

RecordSpec == RecordInit /\ [][RecordNext]_recordVars

\* The timer goes on for ever, its commands do not run into the timeout every
\* time, and ninety seconds pass.  Nothing is asked of the other tasks.
Fairness ==
    /\ WF_recordVars(Start(Timer))
    /\ SF_recordVars(Run(Timer)) /\ SF_recordVars(Lookup(Timer))
    /\ WF_recordVars(VerifyNothing(Timer)) /\ WF_recordVars(VerifyReboot(Timer)) /\ WF_recordVars(VerifyRecord(Timer))
    /\ WF_recordVars(Judge(Timer))
    /\ WF_recordVars(Settle)

FairRecordSpec == RecordSpec /\ Fairness

-----------------------------------------------------------------------------
(***************************************************************************)
(* Properties.                                                             *)
(***************************************************************************)

\* As long as no transaction is recorded between a check's findings and its
\* verdict: a verdict rests on findings made after the transaction it is
\* about, the record is the last transaction's, and a hint to reboot is
\* gone as soon as the update it speaks of has been judged
\* (health.rs:149-221, updates.rs:349-354).
VerdictIsSound ==
    ~overlap =>
        /\ rec.verified # "" => rec.basis >= rec.txn
        /\ rec.txn = txn
        /\ "reboot" \in notices => rec.verified = ""

\* A recorded update is judged in the end, or waits for a reboot, whatever
\* the other tasks do with the file (health.rs:171-221, mindd.rs:65-82).
EventuallyJudged ==
    rec.txn # 0 /\ rec.verified = "" ~> rec.verified # "" \/ (rec.touched /\ stale)

=============================================================================
