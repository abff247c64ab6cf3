--------------------------- MODULE UpdateWatcher ---------------------------
(***************************************************************************)
(* mindd/src/daemon/updates.rs: looking for package updates, rating them   *)
(* with rules and with the language model, and installing them.  The       *)
(* watcher task and the tasks of clients (Check now, Install) share one    *)
(* UpdateStatus behind a mutex that is held for single accesses only: a    *)
(* check copies the status, works on the copy and writes it back.  Every   *)
(* access is a step of its own.                                            *)
(*                                                                         *)
(* Dates are days, as news_since compares them.  The auto-update switch,   *)
(* the running game and the readiness of the model are read once at a      *)
(* time and may have any value then, so they are choices, not variables;   *)
(* so is the moment the watcher's timer ends.  Notices are another module. *)
(***************************************************************************)
EXTENDS Integers, FiniteSets

CONSTANTS
    Packages,        \* packages that can have an update, with their version
    SystemPackages,  \* those tag_for tags "kernel", "gpu" or "core"
    Lists,           \* the lists of them that the mirrors can have
    BigBatch,        \* a list longer than this is risky (150 in the code)
    Requesters,      \* tasks spawned for Check now and Install
    Watcher,         \* the watcher task
    MaxDay           \* bound: days that pass

ASSUME UpdateAssumption ==
    /\ SystemPackages \subseteq Packages
    /\ IsFiniteSet(Packages)
    /\ Lists \subseteq SUBSET Packages
    /\ {} \in Lists
    /\ BigBatch \in Nat
    /\ Watcher \notin Requesters
    /\ MaxDay \in Nat

VARIABLES
    status,     \* Daemon.updates, an UpdateStatus
    saved,      \* updates.json, as load will read it
    lastDay,    \* day of the record in last-update.json
    day,        \* today
    stage,      \* where each task is
    copy,       \* the UpdateStatus each check works on
    since       \* day of the last update when each check began

updateVars == <<status, saved, lastDay, day, stage, copy, since>>

UpdateTasks == Requesters \cup {Watcher}

\* Risks in their order; NotRated is the empty string of a fresh status.
NotRated == -1
Low == 0
Medium == 1
High == 2

\* Days; the news are the day of the latest that ask for manual steps, NoDay
\* if none do.  Unread is a feed that could not be read.
NoDay == -1
Unread == -2
Days == 0..MaxDay
MaybeDay == Days \cup {NoDay}

\* about is auxiliary: the list the risk was found for.
Status ==
    [pkgs : SUBSET Packages, about : SUBSET Packages, risk : NotRated..High, manual : BOOLEAN, byModel : BOOLEAN,
     news : MaybeDay, error : BOOLEAN, checking : BOOLEAN, assessing : BOOLEAN,
     applying : BOOLEAN]

\* A status no check has filled yet (UpdateStatus::default).
EmptyStatus ==
    [pkgs |-> {}, about |-> {}, risk |-> NotRated, manual |-> FALSE, byModel |-> FALSE, news |-> NoDay,
     error |-> FALSE, checking |-> FALSE, assessing |-> FALSE, applying |-> FALSE]

\* Mutant: the flags are kept.
LoadedAsIs(s) == s

\* load: a status read back from the file has its three flags cleared.
Loaded(s) == [s EXCEPT !.checking = FALSE, !.assessing = FALSE, !.applying = FALSE]

\* What check_packages and fetch_news gave.
Fetched == [pkgs : Lists, failed : BOOLEAN, news : MaybeDay \cup {Unread}]

Stages ==
    {"idle", "fetch", "store", "storeAssess", "save", "assess", "verdict",
     "apply", "pacman", "installed", "failed"}

Checking == {"fetch", "store", "storeAssess"}
Assessing == {"assess", "verdict"}

UpdatesTypeOK ==
    /\ status \in Status
    /\ saved \in Status
    /\ lastDay \in Days
    /\ day \in Days
    /\ stage \in [UpdateTasks -> Stages]
    /\ copy \in [UpdateTasks -> Status]
    /\ since \in [UpdateTasks -> Days]

UpdatesInit ==
    /\ status = EmptyStatus
    /\ saved = EmptyStatus
    /\ lastDay = 0
    /\ day = 0
    /\ stage = [t \in UpdateTasks |-> "idle"]
    /\ copy = [t \in UpdateTasks |-> EmptyStatus]
    /\ since = [t \in UpdateTasks |-> 0]

-----------------------------------------------------------------------------
(***************************************************************************)
(* Rating a list.                                                          *)
(***************************************************************************)

\* rule_assessment: packages the system hangs on, or many of them, are
\* "medium"; news that ask for manual steps are "high".
RuleRisk(pkgs, manual) ==
    IF manual THEN High
    ELSE IF pkgs \cap SystemPackages # {} \/ Cardinality(pkgs) > BigBatch THEN Medium
    ELSE Low

\* news_since: compared by day, so news of the day of the update still count.
ManualSince(news, from) == news # NoDay /\ news >= from

RuleAssessment(s, from) ==
    LET manual == ManualSince(s.news, from)
    IN  [s EXCEPT !.manual = manual, !.risk = RuleRisk(s.pkgs, manual), !.byModel = FALSE, !.about = s.pkgs]

\* model_assessment: the model's word is at most one step under the rules',
\* and a manual intervention stays "high".
ModelRisk(answer, s) ==
    IF s.manual THEN High
    ELSE IF answer + 1 < s.risk THEN s.risk - 1
    ELSE answer

ModelAssessment(s, answer) ==
    [s EXCEPT !.risk = ModelRisk(answer, s), !.byModel = TRUE, !.about = s.pkgs]

\* The copy a check makes of the status, with what it has fetched.
Merged(s, f, from) ==
    LET listed == [s EXCEPT !.pkgs = IF f.failed THEN @ ELSE f.pkgs,
                            !.error = @ \/ f.failed,
                            !.news = IF f.news = Unread THEN @ ELSE f.news,
                            !.checking = FALSE]
        changed == listed.pkgs # s.pkgs \/ s.risk = NotRated
        rated == IF changed \/ ~s.byModel THEN RuleAssessment(listed, from) ELSE listed
        assessNow == (changed \/ ~rated.byModel) /\ rated.pkgs # {} /\ ~s.assessing
    IN  [status |-> [rated EXCEPT !.assessing = @ \/ assessNow], assess |-> assessNow]

-----------------------------------------------------------------------------
(***************************************************************************)
(* check: one task t, step by step.                                        *)
(***************************************************************************)

MoveTo(t, to) == stage' = [stage EXCEPT ![t] = to]

\* Which list the watcher may install on its own, with auto-update on and no
\* game running.
MayAutoApply(s) == s.pkgs # {} /\ s.risk = Low /\ ~s.manual /\ ~s.error

\* Of what is to be installed only the list is looked at again.
ListOf(s) == [EmptyStatus EXCEPT !.pkgs = s.pkgs]

\* A check returns its copy.  Only the watcher looks at it, and decides.
Return(t, s) ==
    \/ /\ t = Watcher
       /\ MayAutoApply(s)
       /\ MoveTo(t, "apply")
       /\ copy' = [copy EXCEPT ![t] = ListOf(s)]
    \/ /\ MoveTo(t, "idle")
       /\ copy' = [copy EXCEPT ![t] = EmptyStatus]

\* Another check is running: its status so far is the answer.
CheckBusy(t) ==
    /\ status.checking
    /\ Return(t, status)
    /\ UNCHANGED <<status, saved, lastDay, day, since>>

CheckBegins(t) ==
    /\ ~status.checking
    /\ status' = [status EXCEPT !.checking = TRUE, !.error = FALSE]
    /\ since' = [since EXCEPT ![t] = lastDay]
    /\ MoveTo(t, "fetch")
    /\ UNCHANGED <<saved, lastDay, day, copy>>

\* checkupdates and the news feed, either of which may fail, and the copy of
\* the status that takes them in.  The mirrors may have any updates and the
\* feed any news up to today.
Merge(t) ==
    /\ stage[t] = "fetch"
    /\ \E f \in Fetched :
          /\ f.failed => f.pkgs = {}
          /\ f.news <= day
          /\ LET m == Merged(status, f, since[t])
             IN  /\ copy' = [copy EXCEPT ![t] = m.status]
                 /\ MoveTo(t, IF m.assess THEN "storeAssess" ELSE "store")
    /\ since' = [since EXCEPT ![t] = 0]
    /\ UNCHANGED <<status, saved, lastDay, day>>

\* Of a copy that goes to the model only the list and its rating are looked
\* at again.
ForModel(s) == [s EXCEPT !.error = FALSE, !.applying = FALSE, !.news = NoDay]

\* The copy is written back over whatever the status has become.  Its flags
\* are not looked at any more: the file is read without them.
Store(t) ==
    /\ stage[t] \in {"store", "storeAssess"}
    /\ status' = copy[t]
    /\ \/ stage[t] = "store" /\ MoveTo(t, "save") /\ copy' = [copy EXCEPT ![t] = Loaded(@)]
       \/ stage[t] = "storeAssess" /\ MoveTo(t, "assess") /\ copy' = [copy EXCEPT ![t] = ForModel(@)]
    /\ UNCHANGED <<saved, lastDay, day, since>>

Save(t) ==
    /\ stage[t] = "save"
    /\ saved' = Loaded(copy[t])
    /\ Return(t, copy[t])
    /\ UNCHANGED <<status, lastDay, day, since>>

\* The model answers, or does not (not ready, asleep, a game, no JSON).
Assess(t) ==
    /\ stage[t] = "assess"
    /\ \/ UNCHANGED copy
       \/ \E answer \in Low..High :
             copy' = [copy EXCEPT ![t] = ModelAssessment(@, answer)]
    /\ MoveTo(t, "verdict")
    /\ UNCHANGED <<status, saved, lastDay, day, since>>

\* Mutant: only the news are compared, not the lists.
VerdictOnAnyList(t) ==
    /\ stage[t] = "verdict"
    /\ LET matches == status.manual = copy[t].manual
           landed == [status EXCEPT !.risk = IF matches THEN copy[t].risk ELSE @,
                                    !.byModel = IF matches THEN copy[t].byModel ELSE @,
                                    !.about = IF matches THEN copy[t].about ELSE @,
                                    !.assessing = FALSE]
       IN  /\ status' = landed
           /\ saved' = Loaded(landed)
           /\ Return(t, landed)
    /\ UNCHANGED <<lastDay, day, since>>

\* The verdict lands if it is about the list that is pending now; otherwise
\* an unrated list is checked again soon.
Verdict(t) ==
    /\ stage[t] = "verdict"
    /\ LET matches == status.pkgs = copy[t].pkgs /\ status.manual = copy[t].manual
           landed == [status EXCEPT !.risk = IF matches THEN copy[t].risk ELSE @,
                                    !.byModel = IF matches THEN copy[t].byModel ELSE @,
                                    !.about = IF matches THEN copy[t].about ELSE @,
                                    !.assessing = FALSE]
       IN  /\ status' = landed
           /\ saved' = Loaded(landed)
           /\ Return(t, landed)
    /\ UNCHANGED <<lastDay, day, since>>

-----------------------------------------------------------------------------
(***************************************************************************)
(* apply.                                                                  *)
(***************************************************************************)

ApplyBusy(t) ==
    /\ status.applying
    /\ MoveTo(t, "idle")
    /\ copy' = [copy EXCEPT ![t] = EmptyStatus]
    /\ UNCHANGED <<status, saved, lastDay, day, since>>

ApplyBegins(t) ==
    /\ ~status.applying
    /\ status' = [status EXCEPT !.applying = TRUE]
    /\ MoveTo(t, "pacman")
    /\ copy' = [copy EXCEPT ![t] = EmptyStatus]
    /\ UNCHANGED <<saved, lastDay, day, since>>

\* pacman -Syu installs what the mirrors have by now.  The record of the run
\* is written whether it succeeds or not.
PacmanOk(t) ==
    /\ stage[t] = "pacman"
    /\ lastDay' = day
    /\ MoveTo(t, "installed")
    /\ UNCHANGED <<status, saved, day, copy, since>>

PacmanFails(t) ==
    /\ stage[t] = "pacman"
    /\ lastDay' = day
    /\ MoveTo(t, "failed")
    /\ UNCHANGED <<status, saved, day, copy, since>>

\* The status after the run, saved under the lock.
ApplyEnds(t) ==
    /\ stage[t] \in {"installed", "failed"}
    /\ status' = IF stage[t] = "installed"
                 THEN [status EXCEPT !.applying = FALSE, !.pkgs = {}, !.risk = Low, !.about = {}]
                 ELSE [status EXCEPT !.applying = FALSE]
    /\ saved' = Loaded(status')
    /\ MoveTo(t, "idle")
    /\ UNCHANGED <<lastDay, day, copy, since>>

-----------------------------------------------------------------------------
(***************************************************************************)
(* The callers.                                                            *)
(***************************************************************************)

\* Request::Updates and Request::ApplyUpdates.
ClientCheck(c) == stage[c] = "idle" /\ (CheckBusy(c) \/ CheckBegins(c))
ClientApply(c) == stage[c] = "idle" /\ (ApplyBusy(c) \/ ApplyBegins(c))

\* watch: a tick, or the check_now a stale verdict left, ends the wait.
WatchCheck == stage[Watcher] = "idle" /\ (CheckBusy(Watcher) \/ CheckBegins(Watcher))

WatchApply == stage[Watcher] = "apply" /\ (ApplyBusy(Watcher) \/ ApplyBegins(Watcher))

\* The daemon stops and starts again: the tasks are gone, the status is read
\* from its file.
Restart ==
    /\ status' = saved
    /\ stage' = [t \in UpdateTasks |-> "idle"]
    /\ copy' = [t \in UpdateTasks |-> EmptyStatus]
    /\ since' = [t \in UpdateTasks |-> 0]
    /\ UNCHANGED <<saved, lastDay, day>>

-----------------------------------------------------------------------------
(***************************************************************************)
(* The calendar, and pacman in a terminal.                                 *)
(***************************************************************************)

NextDay ==
    /\ day < MaxDay
    /\ day' = day + 1
    /\ UNCHANGED <<status, saved, lastDay, stage, copy, since>>

\* The pacman hook records every transaction, whoever ran it.
UserPacman ==
    /\ lastDay' = day
    /\ UNCHANGED <<status, saved, day, stage, copy, since>>

TaskStep(t) ==
    \/ Merge(t) \/ Store(t) \/ Save(t) \/ Assess(t) \/ Verdict(t)
    \/ PacmanOk(t) \/ PacmanFails(t) \/ ApplyEnds(t)

UpdatesNext ==
    \/ \E t \in UpdateTasks : TaskStep(t)
    \/ \E c \in Requesters : ClientCheck(c) \/ ClientApply(c)
    \/ WatchCheck \/ WatchApply
    \/ Restart
    \/ NextDay \/ UserPacman

UpdatesSpec == UpdatesInit /\ [][UpdatesNext]_updateVars

-----------------------------------------------------------------------------
(***************************************************************************)
(* Properties.                                                             *)
(***************************************************************************)

\* A rating belongs to the list and the news it is shown with: it was found
\* for this list, by the rules or by the model, which is at most one step
\* below them and never below "high" when the news ask for manual steps.
Sound(s) ==
    /\ s.risk # NotRated => s.about = s.pkgs
    /\ s.pkgs # {} /\ s.risk # NotRated =>
        /\ ~s.byModel => s.risk = RuleRisk(s.pkgs, s.manual)
        /\ s.risk >= RuleRisk(s.pkgs, s.manual) - 1
        /\ s.manual => s.risk = High

\* No verdict ever lands on another list than the one it is about, in memory
\* or in the file, although the model answers up to three minutes after the
\* list was copied and checks, installs and restarts go on meanwhile
\* (updates.rs:306-322).
RatingIsSound == Sound(status) /\ Sound(saved)

\* One check at a time fetches and rates, the flag is up exactly while it
\* does, and the model rates one list at a time ("one at a time",
\* updates.rs:291-294), whatever older copies are written back.
ChecksAreSerial ==
    /\ status.checking <=> \E t \in UpdateTasks : stage[t] \in Checking
    /\ \A t, u \in UpdateTasks : stage[t] \in Checking /\ stage[u] \in Checking => t = u
    /\ \A t, u \in UpdateTasks : stage[t] \in Assessing /\ stage[u] \in Assessing => t = u
    /\ \A t \in UpdateTasks : stage[t] \in Assessing => status.assessing

-----------------------------------------------------------------------------
(***************************************************************************)
(* What the documentation and the code's own messages say, and the code    *)
(* does not do.                                                            *)
(***************************************************************************)

\* docs/UPDATES.md:44-47: the watcher installs on its own only when "no
\* package is tagged kernel, gpu or core".
AutoApplySparesTheSystem ==
    stage[Watcher] = "apply" => copy[Watcher].pkgs \cap SystemPackages = {}
=============================================================================
