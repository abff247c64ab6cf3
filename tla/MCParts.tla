------------------------------- MODULE MCParts -------------------------------
(***************************************************************************)
(* Parts of the daemon and of the shell that share nothing, checked side   *)
(* by side: one of them is at work, the others stay as they began.  The    *)
(* notices are either one whose text changes or two with one text each;    *)
(* the Mind bar, the shell's windows and its services are scenes.          *)
(***************************************************************************)
EXTENDS Conversation, Downloads, Preferences, AuditLog, Suspend

CONSTANTS Ids, HealthIds, Texts, Actions, Writers, NoNotice, MaxQueue,
          AppLists, Quick, BarScreens, Rows, KeptLines, MaxTransit, MaxAsks, MaxToolCalls, MaxCrashes,
          Connectors, Panels, MaxPlugs, MaxRequests,
          Notes, NoteLimit, Launches, MaxConnections

VARIABLES
    working,   \* which of them is at work
    list, file, pending, conn, snapshot, chan, view, asked, raced,            \* notices
    bar, events, requests, manager, readers, daemon,                          \* Mind bar
    monitors, shell, agent, shellEvents, shellDesk, shellView, plugs,            \* windows of the shell
    link, layout, notes, login, tray, helper, reading, instance               \* services of the shell

N == INSTANCE Notices
B == INSTANCE MindBar
S == INSTANCE Shell WITH events <- shellEvents, desk <- shellDesk, view <- shellView
V == INSTANCE ShellServices

\* The notices are a Vec, and the health check's among them.
ASSUME NoticesAssumption == IsFiniteSet(Ids) /\ HealthIds \subseteq Ids

\* The index is a Vec of entries, and so is quick_launches.
ASSUME BarAssumption ==
    /\ AppLists \subseteq Seq([name : STRING, score : Nat, length : Nat])
    /\ Quick \in Seq(STRING)
    /\ Rows \in Nat /\ KeptLines \in Nat

\* Ids of notifications are u32 and begin with 1; the limit is a usize.
ASSUME ServicesAssumption ==
    /\ Notes \subseteq Nat \ {0} /\ NoteLimit \in Nat
    /\ MaxTurns \in Nat

noticeVars == <<list, file, pending, conn, snapshot, chan, view, asked, raced>>

barVars == <<bar, events, requests, manager, readers, daemon>>

shellVars == <<monitors, shell, agent, shellEvents, shellDesk, shellView, plugs>>

serviceVars == <<link, layout, notes, login, tray, helper, reading, instance>>

daemonVars == <<convVars, downloadVars, prefVars, auditVars, noticeVars, suspendVars>>

vars == <<working, daemonVars, barVars, shellVars, serviceVars>>

DaemonParts == {"conversation", "downloads", "preferences", "audit", "suspend", "one notice", "two notices"}
BarScenes == {"talk", "bar", "screens"}
ShellScenes == {"lock", "panels", "auth", "greeter", "fade", "reload"}
ServiceScenes == {"lock link", "game link", "layout", "notify", "login", "tray", "helper", "reading", "instance"}

\* The value of what is not there: the bar and the shell are, in their scenes.
Away == 0

Init ==
    /\ working \in DaemonParts \cup BarScenes \cup ShellScenes \cup ServiceScenes
    /\ ConvInit
    /\ DownloadInit
    /\ PrefInit
    /\ AuditInit
    /\ N!Init
    /\ SuspendInit
    /\ working # "suspend" => inhibitor /\ lockOnSleep
    /\ working # "conversation" => body = CHOOSE b \in Bodies : TRUE
    /\ IF working \in BarScenes THEN B!BarInit
       ELSE bar = Away /\ events = Away /\ requests = Away /\ manager = Away /\ readers = Away /\ daemon = Away
    /\ IF working \in ShellScenes
       THEN S!ShellInit(working = "greeter", IF working \in {"lock", "greeter"} THEN 2 ELSE 1)
       ELSE /\ monitors = Away /\ shell = Away /\ agent = Away /\ plugs = Away
            /\ shellEvents = Away /\ shellDesk = Away /\ shellView = Away
    /\ IF working \in ServiceScenes THEN V!ServicesInit(working)
       ELSE /\ link = Away /\ layout = Away /\ notes = Away /\ login = Away
            /\ tray = Away /\ helper = Away /\ reading = Away /\ instance = Away

\* The notices that are listed after this step, and their texts.
Shown == {id \in Ids : list'[id] # N!Missing}
Plain == \A id \in Ids : list'[id].text \in {NoNotice, CHOOSE t \in Texts : TRUE}

DaemonNext ==
    /\ \/ working = "conversation" /\ ConvNext
          /\ UNCHANGED <<downloadVars, prefVars, auditVars, noticeVars, suspendVars>>
       \/ working = "downloads" /\ DownloadNext
          /\ UNCHANGED <<convVars, prefVars, auditVars, noticeVars, suspendVars>>
       \/ working = "preferences" /\ PrefNext
          /\ UNCHANGED <<convVars, downloadVars, auditVars, noticeVars, suspendVars>>
       \/ working = "audit" /\ AuditNext
          /\ UNCHANGED <<convVars, downloadVars, prefVars, noticeVars, suspendVars>>
       \/ working \in {"one notice", "two notices"} /\ N!Next
          /\ (working = "one notice" => Shown \subseteq {CHOOSE id \in Ids : TRUE})
          /\ (working = "two notices" => Plain)
          /\ UNCHANGED <<convVars, downloadVars, prefVars, auditVars, suspendVars>>
       \/ working = "suspend" /\ SuspendNext
          /\ UNCHANGED <<convVars, downloadVars, prefVars, auditVars, noticeVars>>
    /\ UNCHANGED <<barVars, shellVars, serviceVars>>

BarSceneNext ==
    /\ \/ working = "talk" /\ B!TalkNext /\ B!TalkBound
       \/ working = "bar" /\ B!BarNext /\ B!BarBound
       \/ working = "screens" /\ B!ScreensNext
    /\ UNCHANGED <<daemonVars, shellVars, serviceVars>>

ShellSceneNext ==
    /\ \/ working = "lock" /\ S!LockNext
       \/ working = "panels" /\ S!PanelsNext
       \/ working = "auth" /\ S!AuthNext
       \/ working = "greeter" /\ S!GreeterNext
       \/ working = "fade" /\ S!FadeNext
       \/ working = "reload" /\ S!ReloadNext
    /\ UNCHANGED <<daemonVars, barVars, serviceVars>>

ServiceSceneNext ==
    /\ V!ServicesNext(working)
    /\ UNCHANGED <<daemonVars, barVars, shellVars>>

Next ==
    /\ UNCHANGED working
    /\ DaemonNext \/ BarSceneNext \/ ShellSceneNext \/ ServiceSceneNext

Spec == Init /\ [][Next]_vars

\* What each part promises, where it is at work: see its module.
EventsTellTheList == working \in {"one notice", "two notices"} => N!EventsTellTheList
BarIsSound == working \in BarScenes => B!BarIsSound
ShellIsSound == working \in ShellScenes => S!ShellIsSound
ServicesAreSound == working \in ServiceScenes => V!ServicesAreSound

App(n, score, length) == [name |-> n, score |-> score, length |-> length]

MCAppLists == {<<>>, <<App("files", 5, 5)>>,
               <<App("steam", 4, 5), App("files", 1, 5), App("editor", 1, 6)>>}

MCQuick == <<"files", "steam">>

MCPanels == {{[id |-> "bar", output |-> "primary"]},
             {[id |-> "bar", output |-> "*"], [id |-> "dock", output |-> "B"]}}

=============================================================================
