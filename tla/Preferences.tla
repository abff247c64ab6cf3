----------------------------- MODULE Preferences -----------------------------
(***************************************************************************)
(* mindd/src/daemon/mod.rs (set_permissions, set_auto_update) and          *)
(* models.rs (set_thinking, load_prefs, save_prefs): a setting is kept in  *)
(* memory and in mind-prefs.json.  Each setter loads the file, changes its *)
(* own setting and saves the whole through one temporary file; no lock     *)
(* keeps two connection tasks apart.  The daemon may die at any step and   *)
(* reads the file when it starts again.                                    *)
(***************************************************************************)
EXTENDS Naturals

CONSTANTS
    Settings,     \* "thinking", "auto_update", "system_changes", "aur"
    Setters,      \* connection tasks
    MaxSets       \* bound: requests that change a setting

ASSUME PrefAssumption == MaxSets \in Nat

VARIABLES
    memory,    \* the atomics: each setting's value
    prefsFile, \* mind-prefs.json
    tmpFile,   \* mind-prefs.json.tmp
    setter,    \* each connection task: where it is, its setting, what it will save
    sets,      \* requests so far; a request sets its number, 0 is the default
    wanted,    \* auxiliary: the value of each setting's last request that was saved
    unsaved,   \* auxiliary: settings whose last request could not be saved
    overlap    \* auxiliary: two setters have been at work at once

prefVars == <<memory, prefsFile, tmpFile, setter, sets, wanted, unsaved, overlap>>

Prefs == [Settings -> 0..MaxSets]
Defaults == [k \in Settings |-> 0]
Content(is, prefs) == [is |-> is, prefs |-> prefs]
AtRest == [at |-> "rest", key |-> "none", prefs |-> Defaults]

PrefTypeOK ==
    /\ memory \in Prefs
    /\ prefsFile \in [is : {"torn", "whole"}, prefs : Prefs]
    /\ tmpFile \in [is : {"absent", "torn", "whole"}, prefs : Prefs]
    /\ setter \in [Setters -> [at : {"rest", "write", "fill", "rename"},
                               key : Settings \cup {"none"}, prefs : Prefs]]
    /\ \A s \in Setters : setter[s].at # "rest" => setter[s].key \in Settings
    /\ sets \in 0..MaxSets
    /\ wanted \in Prefs
    /\ unsaved \subseteq Settings

PrefInit ==
    /\ memory = Defaults
    /\ prefsFile = Content("whole", Defaults)
    /\ tmpFile = Content("absent", Defaults)
    /\ setter = [s \in Setters |-> AtRest]
    /\ sets = 0
    /\ wanted = Defaults
    /\ unsaved = {}
    /\ overlap = FALSE

\* Mutant: the file is not read, the setting is saved alone.
LoadNothing == Defaults

\* A file that does not parse is an empty one.
LoadPrefs == IF prefsFile.is = "whole" THEN prefsFile.prefs ELSE Defaults

Working == {s \in Setters : setter[s].at # "rest"}

\* The permissions and auto_update are in memory before they are saved,
\* thinking only after.
Set(s) ==
    /\ setter[s].at = "rest"
    /\ sets < MaxSets
    /\ sets' = sets + 1
    /\ \E k \in Settings :
          /\ setter' = [setter EXCEPT ![s] =
                [at |-> "write", key |-> k, prefs |-> [LoadPrefs EXCEPT ![k] = sets']]]
          /\ memory' = [memory EXCEPT ![k] = IF k = "thinking" THEN @ ELSE sets']
    /\ overlap' = (overlap \/ Working # {})
    /\ UNCHANGED <<prefsFile, tmpFile, wanted, unsaved>>

\* save_prefs: fs::write truncates the temporary file, ...
Truncate(s) ==
    /\ setter[s].at = "write"
    /\ tmpFile' = Content("torn", Defaults)
    /\ setter' = [setter EXCEPT ![s].at = "fill"]
    /\ UNCHANGED <<memory, prefsFile, sets, wanted, unsaved, overlap>>

\* ... fills it, ...
Fill(s) ==
    /\ setter[s].at = "fill"
    /\ tmpFile' = IF tmpFile.is = "absent" THEN tmpFile ELSE Content("whole", setter[s].prefs)
    /\ setter' = [setter EXCEPT ![s].at = "rename"]
    /\ UNCHANGED <<memory, prefsFile, sets, wanted, unsaved, overlap>>

\* ... and the rename puts in place what is there, whoever wrote it; set_thinking
\* then stores its value.
Rename(s) ==
    /\ setter[s].at = "rename"
    /\ tmpFile.is # "absent"
    /\ LET k == setter[s].key
       IN  /\ memory' = [memory EXCEPT ![k] = IF k = "thinking" THEN setter[s].prefs[k] ELSE @]
           /\ wanted' = [wanted EXCEPT ![k] = setter[s].prefs[k]]
           /\ unsaved' = unsaved \ {k}
    /\ prefsFile' = tmpFile
    /\ tmpFile' = Content("absent", Defaults)
    /\ setter' = [setter EXCEPT ![s] = AtRest]
    /\ UNCHANGED <<sets, overlap>>

\* The disk is full, or the temporary file has gone: the request fails, and
\* what is in memory stays there.
SaveFails(s) ==
    /\ setter[s].at \in {"fill", "rename"}
    /\ setter' = [setter EXCEPT ![s] = AtRest]
    /\ unsaved' = unsaved \cup {setter[s].key}
    /\ UNCHANGED <<memory, prefsFile, tmpFile, sets, wanted, overlap>>

\* Daemon::new reads the settings again.
Restart ==
    /\ memory' = LoadPrefs
    /\ setter' = [s \in Setters |-> AtRest]
    /\ unsaved' = {}
    /\ UNCHANGED <<prefsFile, tmpFile, sets, wanted, overlap>>

PrefNext ==
    \/ \E s \in Setters : Set(s) \/ Truncate(s) \/ Fill(s) \/ Rename(s) \/ SaveFails(s)
    \/ Restart

PrefSpec == PrefInit /\ [][PrefNext]_prefVars

-----------------------------------------------------------------------------
\* As long as no two setters have been at work at once, mind-prefs.json
\* parses and holds the last saved value of every setting, not only of the
\* one just set, through failed saves and crashes at any step; and what the
\* daemon goes by is that value too, except for a setting that is being
\* changed or could not be saved (mod.rs:104-131, models.rs:42-56).
SettingsAgree ==
    ~overlap =>
        /\ prefsFile = Content("whole", wanted)
        /\ \A k \in Settings :
              memory[k] # wanted[k] => k \in unsaved \/ \E s \in Working : setter[s].key = k
=============================================================================
