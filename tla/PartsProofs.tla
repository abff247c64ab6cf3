---------------------------- MODULE PartsProofs ----------------------------
(***************************************************************************)
(* For any settings, files, connection tasks and any number of requests:   *)
(* the settings are kept and agree, only whole models are installed, the   *)
(* machine sleeps locked, the audit log's tail is its end, and the shell   *)
(* is told of every notice.                                                *)
(***************************************************************************)
EXTENDS MCParts, FiniteSetTheorems, SequenceTheorems, TLAPS

-----------------------------------------------------------------------------
(***************************************************************************)
(* Preferences.                                                            *)
(***************************************************************************)

\* A setter has loaded every setting's saved value, will save them all with
\* its own, and the temporary file is its own.
HasTheRest(s) ==
    LET k == setter[s].key  p == setter[s].prefs IN
    /\ p = [wanted EXCEPT ![k] = p[k]]
    /\ k # "thinking" => memory[k] = p[k]
    /\ setter[s].at = "fill" => tmpFile.is # "absent"
    /\ setter[s].at = "rename" => tmpFile = Content("whole", p)

\* While setters have kept apart.
Alone ==
    /\ prefsFile = Content("whole", wanted)
    /\ \A s, t \in Working : s = t
    /\ \A s \in Working : HasTheRest(s)
    /\ \A k \in Settings :
          memory[k] # wanted[k] => k \in unsaved \/ \E s \in Working : setter[s].key = k

PrefInv == PrefTypeOK /\ (~overlap => Alone)

LEMMA DefaultsAreSettings == Defaults \in Prefs
  BY PrefAssumption DEF Defaults, Prefs

LEMMA PrefTypeStep == PrefTypeOK /\ [PrefNext]_prefVars => PrefTypeOK'
<1> SUFFICES ASSUME PrefTypeOK, [PrefNext]_prefVars PROVE PrefTypeOK'
  OBVIOUS
<1> USE DefaultsAreSettings DEF PrefTypeOK
<1>0. AtRest \in [at : {"rest", "write", "fill", "rename"}, key : Settings \cup {"none"}, prefs : Prefs]
  BY DEF AtRest
<1>9. ASSUME NEW s \in Setters, setter' = [setter EXCEPT ![s] = AtRest]
      PROVE  /\ setter' \in [Setters -> [at : {"rest", "write", "fill", "rename"},
                                         key : Settings \cup {"none"}, prefs : Prefs]]
             /\ \A u \in Setters : setter'[u].at # "rest" => setter'[u].key \in Settings
  <2>1. \A u \in Setters : setter'[u] = IF u = s THEN AtRest ELSE setter[u]
    BY <1>9
  <2> QED
    BY <1>0, <1>9, <2>1 DEF AtRest
<1>1. LoadPrefs \in Prefs
  BY DEF LoadPrefs
<1>2. ASSUME NEW s \in Setters, Set(s) PROVE PrefTypeOK'
  <2>1. PICK k \in Settings :
           /\ setter' = [setter EXCEPT ![s] =
                 [at |-> "write", key |-> k, prefs |-> [LoadPrefs EXCEPT ![k] = sets']]]
           /\ memory' = [memory EXCEPT ![k] = IF k = "thinking" THEN @ ELSE sets']
    BY <1>2 DEF Set
  <2>2. sets' \in 0..MaxSets
    BY <1>2, PrefAssumption DEF Set
  <2>3. [LoadPrefs EXCEPT ![k] = sets'] \in Prefs /\ memory' \in Prefs
    BY <1>1, <2>1, <2>2 DEF Prefs
  <2> QED
    BY <1>2, <2>1, <2>2, <2>3 DEF Set
<1>3. ASSUME NEW s \in Setters, Truncate(s) PROVE PrefTypeOK'
  BY <1>3 DEF Truncate, Content
<1>4. ASSUME NEW s \in Setters, Fill(s) PROVE PrefTypeOK'
  BY <1>4 DEF Fill, Content
<1>5. ASSUME NEW s \in Setters, Rename(s) PROVE PrefTypeOK'
  <2>1. \A k \in Settings : setter[s].prefs[k] \in 0..MaxSets
    BY DEF Prefs
  <2>2. memory' \in Prefs /\ wanted' \in Prefs /\ unsaved' \subseteq Settings
    BY <1>5, <2>1 DEF Rename, Prefs
  <2>3. prefsFile' \in [is : {"torn", "whole"}, prefs : Prefs]
    BY <1>5 DEF Rename
  <2> QED
    BY <1>5, <1>9, <2>2, <2>3 DEF Rename, Content
<1>6. ASSUME NEW s \in Setters, SaveFails(s) PROVE PrefTypeOK'
  BY <1>6, <1>9 DEF SaveFails
<1>7. CASE Restart
  BY <1>0, <1>1, <1>7 DEF Restart, AtRest
<1>8. CASE UNCHANGED prefVars
  BY <1>8 DEF prefVars
<1> QED
  BY <1>2, <1>3, <1>4, <1>5, <1>6, <1>7, <1>8 DEF PrefNext

LEMMA PrefInvInit == PrefInit => PrefInv
<1> SUFFICES ASSUME PrefInit PROVE PrefInv
  OBVIOUS
<1>1. PrefTypeOK
  BY DefaultsAreSettings, PrefAssumption DEF PrefInit, PrefTypeOK, Content, AtRest
<1>2. Working = {}
  BY DEF PrefInit, Working, AtRest
<1> QED
  BY <1>1, <1>2 DEF PrefInit, PrefInv, Alone, Content

\* What a setter saves is every setting's saved value but for its own.
LEMMA AloneStep == PrefInv /\ ~overlap' /\ [PrefNext]_prefVars => Alone'
<1> SUFFICES ASSUME PrefInv, ~overlap', [PrefNext]_prefVars PROVE Alone'
  OBVIOUS
<1>0. PrefTypeOK /\ Alone
  <2>1. ~overlap
    BY DEF PrefNext, Set, Truncate, Fill, Rename, SaveFails, Restart, prefVars
  <2> QED
    BY <2>1 DEF PrefInv
<1>1. LoadPrefs = wanted /\ wanted \in Prefs /\ memory \in Prefs
  BY <1>0 DEF LoadPrefs, Alone, Content, PrefTypeOK
<1>2. ASSUME NEW s \in Setters, Set(s) PROVE Alone'
  <2>1. PICK k \in Settings :
           /\ setter' = [setter EXCEPT ![s] =
                 [at |-> "write", key |-> k, prefs |-> [LoadPrefs EXCEPT ![k] = sets']]]
           /\ memory' = [memory EXCEPT ![k] = IF k = "thinking" THEN @ ELSE sets']
    BY <1>2 DEF Set
  <2>2. Working = {}
    BY <1>2 DEF Set
  <2>3. Working' = {s} /\ setter'[s] = [at |-> "write", key |-> k, prefs |-> [wanted EXCEPT ![k] = sets']]
    BY <1>0, <1>1, <2>1, <2>2 DEF Working, PrefTypeOK
  <2>4. UNCHANGED <<prefsFile, wanted, unsaved>>
    BY <1>2 DEF Set
  <2>5. \A j \in Settings : memory'[j] # wanted'[j] => j \in unsaved' \/ j = k
    BY <1>0, <1>1, <2>1, <2>2, <2>4 DEF Alone, Prefs
  <2>6. k # "thinking" => memory'[k] = sets'
    BY <1>1, <2>1 DEF Prefs
  <2>7. [wanted EXCEPT ![k] = sets'][k] = sets'
    BY <1>1 DEF Prefs
  <2>8. HasTheRest(s)'
    <3>1. setter'[s].at = "write" /\ setter'[s].key = k /\ setter'[s].prefs = [wanted EXCEPT ![k] = sets']
      BY <2>3
    <3>2. setter'[s].prefs = [wanted' EXCEPT ![k] = setter'[s].prefs[k]] /\ setter'[s].prefs[k] = sets'
      BY <2>4, <2>7, <3>1
    <3> QED
      BY <2>4, <2>6, <3>1, <3>2 DEF HasTheRest
  <2>9. \A j \in Settings : memory'[j] # wanted'[j] => j \in unsaved' \/ \E u \in Working' : setter'[u].key = j
    BY <2>3, <2>5
  <2> QED
    BY <1>0, <2>3, <2>4, <2>8, <2>9 DEF Alone
<1>3. ASSUME NEW s \in Setters, Truncate(s) \/ Fill(s) PROVE Alone'
  <2>1. s \in Working /\ Working = {s}
    BY <1>0, <1>3 DEF Truncate, Fill, Working, Alone
  <2>2. PICK at \in {"fill", "rename"} : setter' = [setter EXCEPT ![s].at = at]
    BY <1>3 DEF Truncate, Fill
  <2>3. /\ Working' = {s} /\ setter'[s].at = at
        /\ setter'[s].key = setter[s].key /\ setter'[s].prefs = setter[s].prefs
    BY <1>0, <2>1, <2>2 DEF Working, PrefTypeOK
  <2>4. UNCHANGED <<memory, prefsFile, wanted, unsaved>>
    BY <1>3 DEF Truncate, Fill
  <2>5. /\ setter'[s].at = "fill" => tmpFile'.is # "absent"
        /\ setter'[s].at = "rename" => tmpFile' = Content("whole", setter[s].prefs)
    BY <1>0, <1>3, <2>1, <2>3 DEF Truncate, Fill, Alone, HasTheRest, Content, PrefTypeOK
  <2>6. HasTheRest(s)'
    BY <1>0, <2>1, <2>3, <2>4, <2>5 DEF Alone, HasTheRest
  <2> QED
    BY <1>0, <2>1, <2>3, <2>4, <2>6 DEF Alone
<1>4. ASSUME NEW s \in Setters, Rename(s) PROVE Alone'
  <2> DEFINE k == setter[s].key
             p == setter[s].prefs
  <2>1. Working = {s} /\ k \in Settings /\ p \in Prefs
    BY <1>0, <1>4 DEF Rename, Working, Alone, PrefTypeOK
  <2>2. Working' = {}
    BY <1>0, <1>4, <2>1 DEF Rename, Working, PrefTypeOK, AtRest
  <2>3. wanted' = p /\ prefsFile' = Content("whole", p)
    BY <1>0, <1>4, <2>1 DEF Rename, Alone, HasTheRest
  <2>4. /\ memory' = [memory EXCEPT ![k] = IF k = "thinking" THEN p[k] ELSE @]
        /\ unsaved' = unsaved \ {k}
    BY <1>4 DEF Rename
  <2>5. memory'[k] = p[k]
    BY <1>0, <1>1, <2>1, <2>4 DEF Alone, HasTheRest, Prefs
  <2>6. \A j \in Settings \ {k} : memory'[j] = memory[j] /\ p[j] = wanted[j]
    BY <1>0, <1>1, <2>1, <2>4 DEF Alone, HasTheRest, Prefs
  <2>7. \A j \in Settings : memory'[j] # wanted'[j] => j \in unsaved'
    BY <1>0, <2>1, <2>3, <2>4, <2>5, <2>6 DEF Alone
  <2> QED
    BY <2>2, <2>3, <2>7 DEF Alone
<1>5. ASSUME NEW s \in Setters, SaveFails(s) PROVE Alone'
  <2>1. Working = {s}
    BY <1>0, <1>5 DEF SaveFails, Working, Alone
  <2>2. Working' = {}
    BY <1>0, <1>5, <2>1 DEF SaveFails, Working, PrefTypeOK, AtRest
  <2>3. unsaved' = unsaved \cup {setter[s].key} /\ UNCHANGED <<memory, prefsFile, wanted>>
    BY <1>5 DEF SaveFails
  <2> QED
    BY <1>0, <2>1, <2>2, <2>3 DEF Alone
<1>6. CASE Restart
  <2>1. Working' = {} /\ memory' = wanted /\ UNCHANGED <<prefsFile, wanted>>
    BY <1>1, <1>6 DEF Restart, Working, AtRest
  <2> QED
    BY <1>0, <2>1 DEF Alone
<1>7. CASE UNCHANGED prefVars
  BY <1>0, <1>7 DEF prefVars, Alone, HasTheRest, Working
<1> QED
  BY <1>2, <1>3, <1>4, <1>5, <1>6, <1>7 DEF PrefNext

\* The file, the temporary file and every copy of the settings keep their
\* types: what does not parse is never taken for settings (models.rs:42-56).
THEOREM PreferencesTyped == PrefSpec => []PrefTypeOK
<1>1. PrefInit => PrefTypeOK
  BY PrefInvInit DEF PrefInv
<1> QED
  BY <1>1, PrefTypeStep, PTL DEF PrefSpec

\* Whatever settings are changed, however often, and wherever the daemon dies:
\* the file parses and agrees with what was saved and what the daemon goes by,
\* as long as no two setters overlap (mod.rs:104-131, models.rs:42-56).
THEOREM PreferencesAgree == PrefSpec => []SettingsAgree
<1>1. PrefInv /\ [PrefNext]_prefVars => PrefInv'
  BY PrefTypeStep, AloneStep DEF PrefInv
<1>2. PrefInv => SettingsAgree
  BY DEF PrefInv, Alone, SettingsAgree
<1> QED
  BY <1>1, <1>2, PrefInvInit, PTL DEF PrefSpec

-----------------------------------------------------------------------------
(***************************************************************************)
(* Downloads.                                                              *)
(***************************************************************************)

Starting == {s \in Starters : starter[s] # NoStarter}
Active == {i \in Fetchers : fetcher[i].at \in {"curl", "move", "remove"}}

\* One download is under way until it is marked as done, from its announcement
\* to the end of its curl.
OneDownload ==
    /\ \A s, t \in Starting : s = t
    /\ \A i, j \in Active : i = j
    /\ Starting = {} \/ Active = {}
    /\ download.done => Starting = {} /\ Active = {}

\* A task has a number of its own, which no later download takes.
NumbersAreNew ==
    /\ \A i \in Fetchers : i > announced => fetcher[i].at = "none"
    /\ Starting # {} => announced \in Fetchers /\ fetcher[announced].at = "none"

\* What a task is about to put in place, or to choose, is whole.
TasksHaveWhole ==
    /\ \A s \in Starting : starter[s].file \in Files /\ starter[s].url \in Urls
    /\ \A i \in Fetchers :
          /\ fetcher[i].at # "none" => fetcher[i].file \in Files /\ fetcher[i].url \in Urls
          /\ fetcher[i].at = "move" => part[fetcher[i].file].len = Whole
          /\ fetcher[i].at = "use" => model[fetcher[i].file].len = Whole

WholeInPlace ==
    /\ \A f \in Files : model[f].len \in {0, Whole}
    /\ chosen # NoFile => model[chosen].len = Whole

\* What is in a .part was left there, or is of the url that is being fetched into it.
Foreign(f) == part[f].from \ part[f].left
OwnBytes ==
    /\ \A f \in Files : \A u \in Foreign(f) : \E i \in Active : fetcher[i].file = f /\ fetcher[i].url = u
    /\ \A f \in Files : model[f].from \subseteq {model[f].url} \cup model[f].left

DownloadInv == DownloadTypeOK /\ OneDownload /\ NumbersAreNew /\ TasksHaveWhole /\ WholeInPlace /\ OwnBytes

FetcherStates == {"none", "curl", "move", "remove", "use"}
FetcherSet == [at : FetcherStates, file : Files \cup {NoFile}, url : Urls \cup {NoUrl}]
StarterSet == [file : Files \cup {NoFile}, url : Urls \cup {NoUrl}]
PartSet == [len : 0..Whole, from : SUBSET Urls, left : SUBSET Urls]
ModelSet == [len : 0..Whole, from : SUBSET Urls, left : SUBSET Urls, url : Urls \cup {NoUrl}]

LEMMA DownloadInvInit == DownloadInit => DownloadInv
<1> SUFFICES ASSUME DownloadInit PROVE DownloadInv
  OBVIOUS
<1>1. \A i \in Fetchers : fetcher[i] = NoFetcher
  BY DEF DownloadInit
<1>4. fetcher \in [Fetchers -> FetcherSet]
  BY DEF DownloadInit, NoFetcher, FetcherStates, FetcherSet
<1>2. Starting = {} /\ Active = {}
  BY <1>1 DEF DownloadInit, Starting, Active, NoFetcher
<1>5. /\ \A f \in Files : part[f] = NoPart /\ model[f] = NoModel
      /\ part \in [Files -> PartSet] /\ model \in [Files -> ModelSet]
      /\ starter \in [Starters -> StarterSet]
  BY DEF DownloadInit, NoPart, NoModel, NoStarter, PartSet, ModelSet, StarterSet, Whole
<1>3. DownloadTypeOK
  <2>1. download \in [file : Files \cup {NoFile}, done : BOOLEAN, error : BOOLEAN]
    BY DEF DownloadInit, NoDownload
  <2>2. announced \in 0..MaxDownloads
    BY DownloadAssumption DEF DownloadInit
  <2> QED
    BY <1>4, <1>5, <2>1, <2>2 DEF DownloadInit, DownloadTypeOK, FetcherStates, FetcherSet, PartSet, ModelSet, StarterSet
<1>6. OwnBytes /\ WholeInPlace
  BY <1>5 DEF DownloadInit, OwnBytes, Foreign, WholeInPlace, NoPart, NoModel
<1> QED
  BY <1>1, <1>2, <1>3, <1>6 DEF DownloadInit, DownloadInv, OneDownload, NumbersAreNew, TasksHaveWhole, NoFetcher

\* Moving a task on: the others stay where they are.
LEMMA Fetched ==
    ASSUME DownloadTypeOK, NEW i \in Fetchers, NEW at \in FetcherStates, Fetch(i, at)
    PROVE  /\ fetcher' \in [Fetchers -> FetcherSet]
           /\ fetcher'[i].at = at /\ fetcher'[i].file = fetcher[i].file /\ fetcher'[i].url = fetcher[i].url
           /\ \A j \in Fetchers \ {i} : fetcher'[j] = fetcher[j]
  BY DEF DownloadTypeOK, Fetch, FetcherStates, FetcherSet

\* The bytes in a .part and in a model stay whose they were as long as the task that fetches goes on.
LEMMA BytesKept ==
    ASSUME OwnBytes, UNCHANGED <<part, model>>, Active \subseteq Active',
           \A i \in Active : fetcher'[i].file = fetcher[i].file /\ fetcher'[i].url = fetcher[i].url
    PROVE  OwnBytes'
<1>1. \A f \in Files : \A u \in Foreign(f) : \E i \in Active' : fetcher'[i].file = f /\ fetcher'[i].url = u
  BY DEF OwnBytes
<1>2. \A f \in Files : Foreign(f)' = Foreign(f)
  BY DEF Foreign
<1> QED
  BY <1>1, <1>2 DEF OwnBytes

LEMMA DownloadInvStep == DownloadInv /\ [DownloadNext]_downloadVars => DownloadInv'
<1> SUFFICES ASSUME DownloadInv, [DownloadNext]_downloadVars PROVE DownloadInv'
  OBVIOUS
<1>0. /\ DownloadTypeOK /\ OneDownload /\ NumbersAreNew /\ TasksHaveWhole /\ WholeInPlace /\ OwnBytes
      /\ announced \in Nat /\ MaxDownloads \in Nat
  BY DownloadAssumption DEF DownloadInv, DownloadTypeOK
<1>1. ASSUME NEW s \in Starters, Announce(s) PROVE DownloadInv'
  <2>1. PICK f \in Files, u \in Urls : /\ download' = [file |-> f, done |-> FALSE, error |-> FALSE]
                                       /\ starter' = [starter EXCEPT ![s] = [file |-> f, url |-> u]]
    BY <1>1 DEF Announce
  <2>2. /\ announced' = announced + 1 /\ announced' \in Fetchers /\ announced' \in 0..MaxDownloads
        /\ UNCHANGED <<flag, fetcher, part, model, chosen>>
    BY <1>0, <1>1 DEF Announce, Fetchers
  <2>3. Starting = {} /\ Active = {}
    BY <1>0, <1>1 DEF Announce, OneDownload
  <2>8. /\ starter' \in [Starters -> StarterSet] /\ starter'[s] = [file |-> f, url |-> u]
        /\ \A t \in Starters \ {s} : starter'[t] = starter[t]
    BY <1>0, <2>1 DEF DownloadTypeOK, StarterSet
  <2>4. Starting' = {s} /\ Active' = {}
    BY <2>2, <2>3, <2>8, DownloadAssumption DEF Starting, Active, NoStarter
  <2>5. DownloadTypeOK'
    BY <1>0, <2>1, <2>2, <2>8 DEF DownloadTypeOK, StarterSet
  <2>6. OneDownload'
    BY <2>1, <2>4 DEF OneDownload
  <2>7. NumbersAreNew'
    BY <1>0, <2>2 DEF NumbersAreNew, Fetchers
  <2>9. TasksHaveWhole'
    BY <1>0, <2>2, <2>4, <2>8 DEF TasksHaveWhole
  <2>10. OwnBytes'
    BY <1>0, <2>2, <2>3, BytesKept
  <2> QED
    BY <1>0, <2>2, <2>5, <2>6, <2>7, <2>9, <2>10 DEF DownloadInv, WholeInPlace
<1>2. ASSUME NEW s \in Starters, Spawn(s) PROVE DownloadInv'
  <2>1. /\ s \in Starting /\ Starting = {s} /\ Active = {} /\ announced \in Fetchers
        /\ starter[s].file \in Files /\ starter[s].url \in Urls
    BY <1>0, <1>2 DEF Spawn, Starting, OneDownload, NumbersAreNew, TasksHaveWhole
  <2> DEFINE began == [at |-> "curl", file |-> starter[s].file, url |-> starter[s].url]
  <2>2. /\ fetcher' = [fetcher EXCEPT ![announced] = began]
        /\ starter' = [starter EXCEPT ![s] = NoStarter] /\ flag' = FALSE
        /\ UNCHANGED <<download, part, model, chosen, announced>>
    BY <1>2 DEF Spawn
  <2>3. /\ fetcher'[announced] = began /\ fetcher' \in [Fetchers -> FetcherSet]
        /\ \A j \in Fetchers \ {announced} : fetcher'[j] = fetcher[j]
        /\ starter'[s] = NoStarter /\ starter' \in [Starters -> StarterSet]
        /\ \A t \in Starters \ {s} : starter'[t] = starter[t]
    BY <1>0, <2>1, <2>2 DEF DownloadTypeOK, FetcherSet, FetcherStates, StarterSet, NoStarter
  <2>4. Starting' = {} /\ Active' = {announced}
    BY <2>1, <2>3 DEF Starting, Active
  <2>5. DownloadTypeOK'
    BY <1>0, <2>2, <2>3 DEF DownloadTypeOK, FetcherSet, FetcherStates, StarterSet
  <2>6. OneDownload'
    BY <1>0, <2>1, <2>2, <2>4 DEF OneDownload
  <2>7. NumbersAreNew' /\ TasksHaveWhole'
    BY <1>0, <2>1, <2>2, <2>3, <2>4 DEF NumbersAreNew, TasksHaveWhole
  <2>8. OwnBytes'
    BY <1>0, <2>1, <2>2, BytesKept
  <2> QED
    BY <1>0, <2>2, <2>5, <2>6, <2>7, <2>8 DEF DownloadInv, WholeInPlace
<1>3. CASE CancelDownload
  BY <1>0, <1>3 DEF CancelDownload, DownloadInv, DownloadTypeOK, OneDownload, NumbersAreNew,
     TasksHaveWhole, WholeInPlace, OwnBytes, Foreign, Starting, Active
<1>4. ASSUME NEW i \in Fetchers, CurlWrites(i) PROVE DownloadInv'
  <2> DEFINE f == fetcher[i].file
             p == [len |-> part[f].len + 1, from |-> part[f].from \cup {fetcher[i].url}, left |-> part[f].left]
  <2>1. i \in Active /\ f \in Files /\ fetcher[i].url \in Urls
    BY <1>0, <1>4 DEF CurlWrites, Active, TasksHaveWhole
  <2>2. /\ part[f] \in PartSet /\ part[f].len < Whole /\ part' = [part EXCEPT ![f] = p]
        /\ UNCHANGED <<download, flag, starter, fetcher, model, chosen, announced>>
    BY <1>0, <1>4, <2>1 DEF CurlWrites, DownloadTypeOK, PartSet
  <2>4. p \in PartSet
    BY <2>1, <2>2 DEF PartSet, Whole
  <2>9. part \in [Files -> PartSet] /\ p.from = part[f].from \cup {fetcher[i].url} /\ p.left = part[f].left
    BY <1>0 DEF DownloadTypeOK, PartSet
  <2>5. /\ part' \in [Files -> PartSet] /\ part'[f] = p
        /\ \A g \in Files \ {f} : part'[g] = part[g]
    <3> HIDE DEF p, f
    <3> QED
      BY <2>1, <2>2, <2>4, <2>9
  <2>3. \A j \in Fetchers : fetcher[j].at # "move"
    BY <1>0, <1>4, <2>1 DEF CurlWrites, Active, OneDownload
  <2>6. Active' = Active /\ Starting' = Starting
    BY <2>2 DEF Active, Starting
  <2>7. OwnBytes'
    <3>1. ASSUME NEW g \in Files, NEW u \in Foreign(g)' PROVE u \in Foreign(g) \/ (g = f /\ u = fetcher[i].url)
      <4> HIDE DEF p, f
      <4>1. CASE g = f
        BY <2>5, <2>9, <4>1 DEF Foreign
      <4>2. CASE g # f
        BY <2>5, <4>2 DEF Foreign
      <4> QED
        BY <4>1, <4>2
    <3>2. \A g \in Files : \A u \in Foreign(g)' : \E j \in Active : fetcher[j].file = g /\ fetcher[j].url = u
      BY <1>0, <2>1, <3>1 DEF OwnBytes
    <3> QED
      BY <1>0, <2>2, <2>6, <3>2 DEF OwnBytes
  <2>8. DownloadTypeOK'
    BY <1>0, <2>2, <2>5 DEF DownloadTypeOK, PartSet
  <2> QED
    BY <1>0, <2>2, <2>3, <2>6, <2>7, <2>8 DEF DownloadInv, OneDownload, NumbersAreNew,
       TasksHaveWhole, WholeInPlace
<1>5. ASSUME NEW i \in Fetchers, CurlSucceeds(i) \/ CurlFails(i) PROVE DownloadInv'
  <2>1. PICK at \in {"move", "remove"} : Fetch(i, at) /\ (at = "move" => part[fetcher[i].file].len = Whole)
    BY <1>5 DEF CurlSucceeds, CurlFails
  <2>2. fetcher[i].at = "curl" /\ UNCHANGED <<download, flag, starter, part, model, chosen, announced>>
    BY <1>5 DEF CurlSucceeds, CurlFails
  <2>3. /\ fetcher' \in [Fetchers -> FetcherSet]
        /\ fetcher'[i].at = at /\ fetcher'[i].file = fetcher[i].file /\ fetcher'[i].url = fetcher[i].url
        /\ \A j \in Fetchers \ {i} : fetcher'[j] = fetcher[j]
    BY <1>0, <2>1, Fetched DEF FetcherStates
  <2>4. Starting' = Starting /\ Active' = Active
    BY <2>2, <2>3 DEF Starting, Active
  <2>5. DownloadTypeOK' /\ OneDownload'
    BY <1>0, <2>2, <2>3, <2>4 DEF DownloadTypeOK, OneDownload, FetcherStates, FetcherSet
  <2>6. NumbersAreNew' /\ TasksHaveWhole'
    BY <1>0, <2>1, <2>2, <2>3, <2>4 DEF NumbersAreNew, TasksHaveWhole
  <2>7. OwnBytes'
    BY <1>0, <2>2, <2>3, <2>4, BytesKept DEF Active
  <2> QED
    BY <1>0, <2>2, <2>5, <2>6, <2>7 DEF DownloadInv, WholeInPlace
<1>6. ASSUME NEW i \in Fetchers, Move(i) PROVE DownloadInv'
  <2> DEFINE f == fetcher[i].file
             p == part[f]
             q == [len |-> p.len, from |-> p.from, left |-> p.left, url |-> fetcher[i].url]
  <2>1. /\ f \in Files /\ p.len = Whole /\ Active = {i} /\ Starting = {} /\ i <= announced
        /\ UNCHANGED <<flag, starter, chosen, announced>> /\ fetcher[i].url \in Urls
    BY <1>0, <1>6 DEF Move, TasksHaveWhole, OneDownload, Active, NumbersAreNew, Fetchers
  <2>10. /\ p \in PartSet /\ NoPart \in PartSet /\ LeftBehind(p) \in PartSet /\ q \in ModelSet
         /\ q.len = Whole /\ LeftBehind(p).left = p.from /\ LeftBehind(p).from = p.from
         /\ NoPart.from = {} /\ q.from = p.from /\ q.left = p.left /\ q.url = fetcher[i].url
    BY <1>0, <2>1 DEF DownloadTypeOK, PartSet, ModelSet, NoPart, LeftBehind, Whole
  <2>2. PICK at \in {"use", "none"}, error \in BOOLEAN :
           /\ Fetch(i, at) /\ Finish(error)
           /\ \/ model' = [model EXCEPT ![f] = q] /\ part' = [part EXCEPT ![f] = NoPart]
              \/ at = "none" /\ UNCHANGED model /\ part' = [part EXCEPT ![f] = LeftBehind(p)]
    BY <1>6 DEF Move
  <2>3. /\ fetcher' \in [Fetchers -> FetcherSet]
        /\ fetcher'[i].at = at /\ fetcher'[i].file = fetcher[i].file /\ fetcher'[i].url = fetcher[i].url
        /\ \A j \in Fetchers \ {i} : fetcher'[j] = fetcher[j]
    BY <1>0, <2>2, Fetched DEF FetcherStates
  <2>4. Starting' = {} /\ Active' = {}
    BY <2>1, <2>3 DEF Starting, Active
  <2>5. /\ model' \in [Files -> ModelSet] /\ part' \in [Files -> PartSet]
        /\ \A g \in Files : model'[g].len \in {model[g].len, Whole}
        /\ at = "use" => model'[f].len = Whole
        /\ part'[f] \in {NoPart, LeftBehind(p)} /\ model'[f] \in {model[f], q}
        /\ \A g \in Files \ {f} : part'[g] = part[g] /\ model'[g] = model[g]
    <3>1. part \in [Files -> PartSet] /\ model \in [Files -> ModelSet]
      BY <1>0 DEF DownloadTypeOK, PartSet, ModelSet
    <3> HIDE DEF p, q, f
    <3> QED
      BY <2>1, <2>2, <2>10, <3>1
  <2>6. DownloadTypeOK' /\ OneDownload'
    BY <1>0, <2>1, <2>2, <2>3, <2>4, <2>5 DEF DownloadTypeOK, OneDownload, FetcherStates, FetcherSet, PartSet,
       ModelSet, Finish
  <2>11. OwnBytes'
    <3>1. \A u \in Foreign(f) : u = fetcher[i].url
      BY <1>0, <2>1 DEF OwnBytes
    <3>2. part'[f].from \subseteq part'[f].left
      BY <2>5, <2>10
    <3>3. \A g \in Files : Foreign(g)' = {}
      BY <1>0, <2>1, <2>5, <3>2 DEF Foreign, OwnBytes
    <3>4. \A g \in Files : model'[g].from \subseteq {model'[g].url} \cup model'[g].left
      BY <1>0, <2>1, <2>5, <2>10, <3>1 DEF OwnBytes, Foreign
    <3> QED
      BY <3>3, <3>4 DEF OwnBytes
  <2>7. NumbersAreNew'
    BY <1>0, <2>1, <2>3, <2>4 DEF NumbersAreNew, Fetchers
  <2>8. TasksHaveWhole'
    <3>1. \A j \in Fetchers \ {i} : fetcher[j].at # "move"
      BY <2>1 DEF Active
    <3> QED
      BY <1>0, <2>1, <2>2, <2>3, <2>4, <2>5, <3>1 DEF TasksHaveWhole
  <2>9. WholeInPlace'
    BY <1>0, <2>1, <2>5 DEF WholeInPlace, DownloadTypeOK
  <2> QED
    BY <2>6, <2>7, <2>8, <2>9, <2>11 DEF DownloadInv
<1>7. ASSUME NEW i \in Fetchers, RemovePart(i) PROVE DownloadInv'
  <2>1. /\ fetcher[i].file \in Files /\ Active = {i} /\ Starting = {} /\ i <= announced
        /\ Finish(TRUE) /\ Fetch(i, "none")
        /\ \/ part' = [part EXCEPT ![fetcher[i].file] = NoPart]
           \/ part' = [part EXCEPT ![fetcher[i].file] = LeftBehind(part[fetcher[i].file])]
        /\ UNCHANGED <<flag, starter, model, chosen, announced>>
    <3>1. fetcher[i].at = "remove" /\ i \in Active /\ fetcher[i].file \in Files
      BY <1>0, <1>7 DEF RemovePart, Active, TasksHaveWhole
    <3>2. Active = {i} /\ Starting = {}
      BY <1>0, <3>1 DEF OneDownload
    <3>3. i <= announced
      BY <1>0, <3>1 DEF NumbersAreNew, Fetchers
    <3> QED
      BY <1>7, <3>1, <3>2, <3>3 DEF RemovePart
  <2>2. /\ fetcher' \in [Fetchers -> FetcherSet]
        /\ fetcher'[i].at = "none" /\ fetcher'[i].file = fetcher[i].file /\ fetcher'[i].url = fetcher[i].url
        /\ \A j \in Fetchers \ {i} : fetcher'[j] = fetcher[j] /\ fetcher[j].at # "move"
    BY <1>0, <2>1, Fetched DEF FetcherStates, Active
  <2>3. Starting' = {} /\ Active' = {}
    BY <2>1, <2>2 DEF Starting, Active
  <2>7. /\ \A g \in Files : NoPart \in PartSet /\ LeftBehind(part[g]) \in PartSet
        /\ part \in [Files -> PartSet]
    BY <1>0 DEF DownloadTypeOK, PartSet, NoPart, LeftBehind, Whole
  <2>6. /\ part' \in [Files -> PartSet] /\ part'[fetcher[i].file] \in {NoPart, LeftBehind(part[fetcher[i].file])}
        /\ \A g \in Files \ {fetcher[i].file} : part'[g] = part[g]
    BY <2>1, <2>7
  <2>4. DownloadTypeOK' /\ OneDownload'
    BY <1>0, <2>1, <2>2, <2>3, <2>6 DEF DownloadTypeOK, OneDownload, FetcherStates, FetcherSet, PartSet, Finish
  <2>8. OwnBytes'
    <3>1. \A g \in Files : part[g] \in PartSet
      BY <2>7
    <3>2. \A g \in Files : Foreign(g)' = {}
      BY <1>0, <2>1, <2>6, <3>1 DEF Foreign, OwnBytes, NoPart, LeftBehind, PartSet
    <3> QED
      BY <1>0, <2>1, <3>2 DEF OwnBytes
  <2>5. NumbersAreNew' /\ TasksHaveWhole'
    <3>1. NumbersAreNew'
      BY <1>0, <2>1, <2>2, <2>3 DEF NumbersAreNew
    <3>2. TasksHaveWhole'
      BY <1>0, <2>1, <2>2, <2>3 DEF TasksHaveWhole
    <3> QED
      BY <3>1, <3>2
  <2> QED
    BY <1>0, <2>1, <2>4, <2>5, <2>8 DEF DownloadInv, WholeInPlace
<1>8. ASSUME NEW i \in Fetchers, UseAfter(i) PROVE DownloadInv'
  <2>1. /\ fetcher[i].at = "use" /\ fetcher[i].file \in Files /\ model[fetcher[i].file].len = Whole
        /\ chosen' = fetcher[i].file /\ Fetch(i, "none")
        /\ UNCHANGED <<download, flag, starter, part, model, announced>>
    BY <1>0, <1>8 DEF UseAfter, TasksHaveWhole
  <2>2. /\ fetcher' \in [Fetchers -> FetcherSet]
        /\ fetcher'[i].at = "none" /\ fetcher'[i].file = fetcher[i].file /\ fetcher'[i].url = fetcher[i].url
        /\ \A j \in Fetchers \ {i} : fetcher'[j] = fetcher[j]
    BY <1>0, <2>1, Fetched DEF FetcherStates
  <2>3. Starting' = Starting /\ Active' = Active
    BY <2>1, <2>2 DEF Starting, Active
  <2>4. DownloadTypeOK' /\ OneDownload'
    BY <1>0, <2>1, <2>2, <2>3 DEF DownloadTypeOK, OneDownload, FetcherStates, FetcherSet
  <2>5. NumbersAreNew' /\ TasksHaveWhole'
    BY <1>0, <2>1, <2>2, <2>3 DEF NumbersAreNew, TasksHaveWhole
  <2>6. OwnBytes'
    BY <1>0, <2>1, <2>2, <2>3, BytesKept DEF Active
  <2> QED
    BY <1>0, <2>1, <2>4, <2>5, <2>6 DEF DownloadInv, WholeInPlace
<1>9. CASE DownloadCrash
  <2>1. /\ \A i \in Fetchers : fetcher'[i].at = "none"
        /\ Starting' = {} /\ Active' = {} /\ UNCHANGED <<model, chosen, announced>>
    BY <1>9 DEF DownloadCrash, NoFetcher, Starting, Active
  <2>2. /\ download' \in [file : Files \cup {NoFile}, done : BOOLEAN, error : BOOLEAN] /\ flag' \in BOOLEAN
        /\ starter' \in [Starters -> StarterSet]
    BY <1>9 DEF DownloadCrash, NoDownload, NoStarter, StarterSet
  <2>3. fetcher' \in [Fetchers -> FetcherSet]
    BY <1>9 DEF DownloadCrash, NoFetcher, FetcherStates, FetcherSet
  <2>5. \A f \in Files : /\ part[f] \in PartSet /\ part'[f] = LeftBehind(part[f])
                         /\ part'[f] \in PartSet /\ part'[f].left = part'[f].from
    BY <1>0, <1>9 DEF DownloadCrash, DownloadTypeOK, PartSet, LeftBehind
  <2>6. part' \in [Files -> PartSet]
    BY <1>9, <2>5 DEF DownloadCrash
  <2>4. DownloadTypeOK'
    BY <1>0, <2>1, <2>2, <2>3, <2>6 DEF DownloadTypeOK, FetcherStates, FetcherSet, StarterSet, PartSet
  <2>7. OwnBytes'
    BY <1>0, <2>1, <2>5 DEF OwnBytes, Foreign
  <2> QED
    BY <1>0, <2>1, <2>4, <2>7 DEF DownloadInv, OneDownload, NumbersAreNew, TasksHaveWhole, WholeInPlace
<1>10. CASE UNCHANGED downloadVars
  BY <1>0, <1>10 DEF downloadVars, DownloadInv, DownloadTypeOK, OneDownload, NumbersAreNew,
     TasksHaveWhole, WholeInPlace, OwnBytes, Foreign, Starting, Active
<1> QED
  BY <1>1, <1>2, <1>3, <1>4, <1>5, <1>6, <1>7, <1>8, <1>9, <1>10 DEF DownloadNext

\* At most one task writes to a .part file, no model is in place or chosen that
\* is cut short, and a model holds nothing of another url than the one asked
\* for but what a crash or a failed rename or removal had left, for any files,
\* urls and connection tasks that ask for downloads, cancel them and crash with
\* them (models.rs:218-262).
THEOREM ModelsAreWhole == DownloadSpec => []OnlyWholeModels
<1>1. DownloadInv => OnlyWholeModels
  <2> SUFFICES ASSUME DownloadInv, NEW f \in Files PROVE Cardinality(WritersOf(f)) <= 1
    BY DEF DownloadInv, WholeInPlace, OwnBytes, OnlyWholeModels
  <2>1. WritersOf(f) \subseteq Active /\ \A i, j \in WritersOf(f) : i = j
    BY DEF DownloadInv, OneDownload, WritersOf, Active
  <2>2. CASE WritersOf(f) = {}
    BY <2>2, FS_EmptySet
  <2>3. CASE WritersOf(f) # {}
    <3>1. PICK i : WritersOf(f) = {i}
      BY <2>1, <2>3
    <3> QED
      BY <3>1, FS_Singleton
  <2> QED
    BY <2>2, <2>3
<1> QED
  BY <1>1, DownloadInvInit, DownloadInvStep, PTL DEF DownloadSpec

-----------------------------------------------------------------------------
(***************************************************************************)
(* Suspend.                                                                *)
(***************************************************************************)

WatcherStates == {"wait", "lock", "blank", "release", "take", "relock", "wake", "report"}

SuspendTypeOK ==
    /\ locked \in BOOLEAN
    /\ machine \in {"up", "announced", "asleep"}
    /\ signals \in Seq(BOOLEAN)
    /\ inhibitor \in BOOLEAN
    /\ lockOnSleep \in BOOLEAN
    /\ watcher \in WatcherStates

\* The signal that the watcher has read last, if any, announced a suspend.
AfterAnnounced == watcher \in {"lock", "blank", "release"} \/ (watcher = "wait" /\ ~inhibitor)

\* Suspends and resumes are signalled in turn, however far the watcher is
\* behind, and it asks for an inhibitor only when it has none.
SignalsAlternate ==
    /\ \A i \in 1..Len(signals) : ~signals[i] => IF i = 1 THEN AfterAnnounced ELSE signals[i - 1]
    /\ machine # "up" => IF signals = <<>> THEN AfterAnnounced ELSE signals[Len(signals)]
    /\ watcher = "take" => ~inhibitor

\* A suspend without an excuse finds the session locked, or the watcher still
\* to read of it, or waiting for the lock with its inhibitor held.
LockIsComing ==
    machine # "up" /\ excused = {} =>
        \/ locked
        \/ inhibitor /\ signals = <<TRUE>> /\ watcher \in {"wait", "relock", "wake", "report"}
        \/ inhibitor /\ signals = <<>> /\ watcher = "lock"

\* A reply that says the session is locked is still true.
ReplyIsTrue ==
    machine # "up" /\ excused = {} /\ watcher = "lock" /\ Confirms("lock") => locked

SuspendInv == SuspendTypeOK /\ SignalsAlternate /\ LockIsComing /\ ReplyIsTrue /\ SleepsLocked

LEMMA TailOf ==
    ASSUME NEW s \in Seq(BOOLEAN), s # <<>>
    PROVE  /\ Tail(s) \in Seq(BOOLEAN) /\ Len(Tail(s)) = Len(s) - 1 /\ Len(s) \in Nat \ {0}
           /\ Head(s) = s[1] /\ \A i \in 1..Len(Tail(s)) : Tail(s)[i] = s[i + 1]
           /\ Tail(s) = <<>> <=> Len(s) = 1
<1>1. Tail(s) \in Seq(BOOLEAN) /\ Len(s) \in Nat \ {0}
  OBVIOUS
<1>2. Len(Tail(s)) = Len(s) - 1 /\ Head(s) = s[1]
  OBVIOUS
<1>3. \A i \in 1..Len(Tail(s)) : Tail(s)[i] = s[i + 1]
  OBVIOUS
<1>4. Tail(s) = <<>> <=> Len(s) = 1
  BY <1>1, <1>2
<1> QED
  BY <1>1, <1>2, <1>3, <1>4

LEMMA AppendTo ==
    ASSUME NEW s \in Seq(BOOLEAN), NEW b \in BOOLEAN
    PROVE  /\ Append(s, b) \in Seq(BOOLEAN) /\ Len(Append(s, b)) = Len(s) + 1 /\ Len(s) \in Nat
           /\ \A i \in 1..Len(s) : Append(s, b)[i] = s[i]
           /\ Append(s, b)[Len(s) + 1] = b /\ Append(s, b) # <<>>
           /\ s = <<>> => Append(s, b) = <<b>>
           /\ s = <<>> <=> Len(s) = 0
<1>1. Append(s, b) \in Seq(BOOLEAN) /\ Len(Append(s, b)) = Len(s) + 1 /\ Len(s) \in Nat
  OBVIOUS
<1>2. \A i \in 1..Len(s) : Append(s, b)[i] = s[i]
  OBVIOUS
<1>3. Append(s, b)[Len(s) + 1] = b
  OBVIOUS
<1>4. Append(s, b) # <<>> /\ (s = <<>> <=> Len(s) = 0)
  OBVIOUS
<1>5. s = <<>> => Append(s, b) = <<b>>
  OBVIOUS
<1> QED
  BY <1>1, <1>2, <1>3, <1>4, <1>5

LEMMA SuspendInvInit == SuspendInit => SuspendInv
<1> SUFFICES ASSUME SuspendInit PROVE SuspendInv
  OBVIOUS
<1>1. signals = <<>> /\ machine = "up" /\ watcher = "wait" /\ locked = FALSE
  BY DEF SuspendInit, Compositor!StartUnlocked
<1>2. <<>> \in Seq(BOOLEAN) /\ 1..Len(<<>>) = {}
  OBVIOUS
<1>3. SuspendTypeOK
  BY <1>1, <1>2 DEF SuspendInit, SuspendTypeOK, WatcherStates
<1>4. SignalsAlternate
  BY <1>1, <1>2 DEF SignalsAlternate
<1> QED
  BY <1>1, <1>3, <1>4 DEF SuspendInv, LockIsComing, ReplyIsTrue, SleepsLocked

\* A signal is read: what follows it in the queue is of the other kind.
LEMMA SignalRead ==
    ASSUME SuspendInv, signals # <<>>, signals' = Tail(signals), machine' = machine,
           signals[1] => AfterAnnounced', watcher' = "take" => ~inhibitor'
    PROVE  SignalsAlternate' /\ signals' \in Seq(BOOLEAN)
<1> DEFINE n == Len(signals)
<1>1. /\ signals' \in Seq(BOOLEAN) /\ Len(signals') = n - 1 /\ n \in Nat \ {0}
      /\ \A i \in 1..(n - 1) : signals'[i] = signals[i + 1]
      /\ signals' = <<>> <=> n = 1
  BY TailOf DEF SuspendInv, SuspendTypeOK
<1>2. /\ \A i \in 1..n : ~signals[i] => IF i = 1 THEN AfterAnnounced ELSE signals[i - 1]
      /\ machine # "up" => signals[n]
  BY DEF SuspendInv, SignalsAlternate
<1>3. ASSUME NEW i \in 1..(n - 1), ~signals'[i]
      PROVE  IF i = 1 THEN AfterAnnounced' ELSE signals'[i - 1]
  <2>1. ~signals[i + 1] /\ i + 1 \in 1..n /\ i + 1 # 1 /\ (i + 1) - 1 = i
    BY <1>1, <1>3
  <2>2. signals[i]
    BY <1>2, <2>1
  <2>3. CASE i = 1
    BY <2>2, <2>3
  <2>4. CASE i # 1
    <3>1. i - 1 \in 1..(n - 1) /\ (i - 1) + 1 = i
      BY <1>1, <2>4
    <3>2. signals'[i - 1] = signals[i]
      BY <1>1, <3>1
    <3> QED
      BY <2>2, <2>4, <3>2
  <2> QED
    BY <2>3, <2>4
<1>4. ASSUME machine' # "up"
      PROVE  IF signals' = <<>> THEN AfterAnnounced' ELSE signals'[Len(signals')]
  <2>1. signals[n]
    BY <1>2, <1>4
  <2>2. CASE n = 1
    BY <1>1, <2>1, <2>2
  <2>3. CASE n # 1
    <3>1. n - 1 \in 1..(n - 1) /\ (n - 1) + 1 = n
      BY <1>1, <2>3
    <3>2. signals'[n - 1] = signals[n]
      BY <1>1, <3>1
    <3> QED
      BY <1>1, <2>1, <2>3, <3>2
  <2> QED
    BY <2>2, <2>3
<1> QED
  BY <1>1, <1>3, <1>4 DEF SignalsAlternate

\* A signal comes: of the other kind than the one before it.
LEMMA SignalComes ==
    ASSUME SuspendInv, NEW b \in BOOLEAN, signals' = Append(signals, b), UNCHANGED <<watcher, inhibitor>>,
           b = (machine' # "up"), ~b => machine # "up"
    PROVE  SignalsAlternate' /\ signals' \in Seq(BOOLEAN)
<1> DEFINE n == Len(signals)
<1>1. /\ signals' \in Seq(BOOLEAN) /\ Len(signals') = n + 1 /\ n \in Nat
      /\ \A i \in 1..n : signals'[i] = signals[i]
      /\ signals'[n + 1] = b /\ signals' # <<>> /\ (signals = <<>> <=> n = 0)
  BY AppendTo DEF SuspendInv, SuspendTypeOK
<1>2. /\ \A i \in 1..n : ~signals[i] => IF i = 1 THEN AfterAnnounced ELSE signals[i - 1]
      /\ machine # "up" => IF signals = <<>> THEN AfterAnnounced ELSE signals[n]
      /\ AfterAnnounced' = AfterAnnounced
  BY DEF SuspendInv, SignalsAlternate, AfterAnnounced
<1>3. ASSUME NEW i \in 1..(n + 1), ~signals'[i]
      PROVE  IF i = 1 THEN AfterAnnounced' ELSE signals'[i - 1]
  <2>1. CASE i \in 1..n
    <3>1. ~signals[i] /\ (i # 1 => i - 1 \in 1..n)
      BY <1>1, <1>3, <2>1
    <3>2. i # 1 => signals'[i - 1] = signals[i - 1]
      BY <1>1, <3>1
    <3> QED
      BY <1>2, <2>1, <3>1, <3>2
  <2>2. CASE i = n + 1
    <3>1. machine # "up"
      BY <1>1, <1>3, <2>2
    <3>2. n # 0 => signals'[n] = signals[n] /\ i # 1 /\ i - 1 = n
      BY <1>1, <2>2
    <3> QED
      BY <1>1, <1>2, <2>2, <3>1, <3>2
  <2> QED
    BY <1>1, <2>1, <2>2
<1>4. machine' # "up" => IF signals' = <<>> THEN AfterAnnounced' ELSE signals'[Len(signals')]
  BY <1>1
<1> QED
  BY <1>1, <1>2, <1>3, <1>4 DEF SignalsAlternate, SuspendInv, AfterAnnounced

LEMMA SuspendInvStep == SuspendInv /\ [SuspendNext]_suspendVars => SuspendInv'
<1> SUFFICES ASSUME SuspendInv, [SuspendNext]_suspendVars PROVE SuspendInv'
  OBVIOUS
<1>0. SuspendTypeOK /\ SignalsAlternate /\ LockIsComing /\ ReplyIsTrue /\ SleepsLocked
  BY DEF SuspendInv
<1> USE DEF desk, logind, SuspendTypeOK, WatcherStates
<1>1. CASE Prepare
  <2>1. /\ watcher = "wait" /\ signals # <<>> /\ signals[1] /\ signals' = Tail(signals)
        /\ UNCHANGED <<locked, stage, machine, inhibitor, lockOnSleep>>
    BY <1>0, <1>1, TailOf DEF Prepare
  <2>2. \/ watcher' = "lock" /\ reply' = NoReply /\ excused' = excused
        \/ watcher' = "release" /\ excused' # {}
    BY <1>1 DEF Prepare, Request
  <2>3. SignalsAlternate' /\ signals' \in Seq(BOOLEAN)
    BY <2>1, <2>2, SignalRead DEF AfterAnnounced
  <2>4. signals = <<TRUE>> => signals' = <<>>
    BY <1>0, <2>1, TailOf
  <2>5. LockIsComing'
    BY <1>0, <2>1, <2>2, <2>4 DEF LockIsComing
  <2>6. ReplyIsTrue'
    BY <2>2 DEF ReplyIsTrue, Confirms, NoReply
  <2> QED
    BY <1>0, <2>1, <2>2, <2>3, <2>5, <2>6 DEF SuspendInv, SleepsLocked
<1>2. CASE Confirmed
  <2>1. UNCHANGED <<locked, stage, machine, signals, lockOnSleep, inhibitor, excused>>
    BY <1>2 DEF Confirmed
  <2>2. \/ watcher = "lock" /\ Confirms("lock") /\ watcher' = "blank"
        \/ watcher = "relock" /\ watcher' = "wake"
        \/ watcher = "blank" /\ watcher' = "release"
        \/ watcher = "wake" /\ watcher' = "report"
    BY <1>2 DEF Confirmed, Request
  <2>3. AfterAnnounced' = AfterAnnounced
    BY <2>1, <2>2 DEF AfterAnnounced
  <2>4. SignalsAlternate'
    BY <1>0, <2>1, <2>2, <2>3 DEF SignalsAlternate
  <2>5. LockIsComing' /\ ReplyIsTrue'
    BY <1>0, <2>1, <2>2 DEF LockIsComing, ReplyIsTrue
  <2> QED
    BY <1>0, <2>1, <2>2, <2>4, <2>5 DEF SuspendInv, SleepsLocked
<1>3. CASE Unconfirmed
  <2>1. UNCHANGED <<locked, stage, machine, signals, lockOnSleep, inhibitor>> /\ excused' # {}
    BY <1>3 DEF Unconfirmed
  <2>2. \/ watcher \in {"lock", "blank"} /\ watcher' = "release"
        \/ watcher \in {"relock", "wake"} /\ watcher' = "report"
    BY <1>3 DEF Unconfirmed
  <2>3. AfterAnnounced' = AfterAnnounced
    BY <2>1, <2>2 DEF AfterAnnounced
  <2>4. SignalsAlternate'
    BY <1>0, <2>1, <2>2, <2>3 DEF SignalsAlternate
  <2> QED
    BY <1>0, <2>1, <2>2, <2>4 DEF SuspendInv, LockIsComing, ReplyIsTrue, SleepsLocked
<1>4. CASE Release
  <2>1. /\ UNCHANGED <<locked, stage, machine, signals, lockOnSleep, excused>>
        /\ watcher = "release" /\ watcher' = "wait" /\ inhibitor' = FALSE
    BY <1>4 DEF Release
  <2>2. SignalsAlternate'
    BY <1>0, <2>1 DEF SignalsAlternate, AfterAnnounced
  <2> QED
    BY <1>0, <2>1, <2>2 DEF SuspendInv, LockIsComing, ReplyIsTrue, SleepsLocked
<1>5. CASE Back
  <2>1. /\ watcher = "wait" /\ signals # <<>> /\ ~signals[1] /\ signals' = Tail(signals)
        /\ watcher' = "take" /\ UNCHANGED <<locked, stage, machine, inhibitor, lockOnSleep, excused>>
    BY <1>0, <1>5, TailOf DEF Back
  <2>2. ~inhibitor
    <3>1. 1 \in 1..Len(signals)
      BY <1>0, <2>1, TailOf
    <3> QED
      BY <1>0, <2>1, <3>1 DEF SignalsAlternate, AfterAnnounced
  <2>3. SignalsAlternate' /\ signals' \in Seq(BOOLEAN)
    BY <2>1, <2>2, SignalRead
  <2> QED
    BY <1>0, <2>1, <2>2, <2>3 DEF SuspendInv, LockIsComing, ReplyIsTrue, SleepsLocked
<1>6. CASE Take
  <2>1. /\ watcher = "take" /\ watcher' \in {"relock", "report"} /\ inhibitor' \in BOOLEAN /\ ~inhibitor
        /\ UNCHANGED <<locked, stage, machine, signals, lockOnSleep, excused>>
    BY <1>0, <1>6 DEF Take, Request, SignalsAlternate
  <2>2. AfterAnnounced' = AfterAnnounced
    BY <2>1 DEF AfterAnnounced
  <2>3. SignalsAlternate'
    BY <1>0, <2>1, <2>2 DEF SignalsAlternate
  <2> QED
    BY <1>0, <2>1, <2>3 DEF SuspendInv, LockIsComing, ReplyIsTrue, SleepsLocked
<1>7. CASE Report
  <2>1. /\ watcher = "report" /\ watcher' = "wait"
        /\ UNCHANGED <<locked, stage, machine, signals, lockOnSleep, inhibitor, excused>>
    BY <1>7 DEF Report
  <2>2. SignalsAlternate'
    BY <1>0, <2>1 DEF SignalsAlternate, AfterAnnounced
  <2> QED
    BY <1>0, <2>1, <2>2 DEF SuspendInv, LockIsComing, ReplyIsTrue, SleepsLocked
<1>8. CASE Handle
  <2>1. UNCHANGED <<machine, signals, lockOnSleep, inhibitor, watcher, excused>>
    BY <1>8 DEF Handle
  <2>2. locked' \in {locked, TRUE}
    BY <1>8 DEF Handle, Compositor!LockSession, Compositor!BlankDisplays, Compositor!WakeDisplays,
       Compositor!MayLock
  <2>3. reply' = reply \/ reply'.locked = locked'
    BY <1>8 DEF Handle
  <2>4. SignalsAlternate'
    BY <1>0, <2>1 DEF SignalsAlternate, AfterAnnounced
  <2>5. LockIsComing' /\ ReplyIsTrue'
    BY <1>0, <2>1, <2>2, <2>3 DEF LockIsComing, ReplyIsTrue, Confirms
  <2> QED
    BY <1>0, <2>1, <2>2, <2>4, <2>5 DEF SuspendInv, SleepsLocked
<1>9. CASE Elsewhere
  <2>1. UNCHANGED <<machine, signals, lockOnSleep, inhibitor, watcher, reply>>
    BY <1>9 DEF Elsewhere
  <2>2. locked' \in BOOLEAN
    BY <1>0, <1>9 DEF Elsewhere, Compositor!LockNext, Compositor!LockSession, Compositor!UnlockSession,
       Compositor!WakeDisplays, Compositor!BlankDisplays, Compositor!StartSaver, Compositor!MayLock
  <2>3. excused' = {} => excused = {} /\ (locked => locked')
    BY <1>9 DEF Elsewhere
  <2>4. SignalsAlternate'
    BY <1>0, <2>1 DEF SignalsAlternate, AfterAnnounced
  <2> QED
    BY <1>0, <2>1, <2>2, <2>3, <2>4 DEF SuspendInv, LockIsComing, ReplyIsTrue, Confirms, SleepsLocked
<1>10. CASE SetLockOnSleep
  <2>1. /\ UNCHANGED <<locked, stage, machine, signals, inhibitor, watcher, reply, excused>>
        /\ lockOnSleep' \in BOOLEAN
    BY <1>10 DEF SetLockOnSleep
  <2> QED
    BY <1>0, <2>1 DEF SuspendInv, SignalsAlternate, AfterAnnounced, LockIsComing, ReplyIsTrue, Confirms,
       SleepsLocked
<1>11. CASE PrepareForSleep
  <2>1. /\ machine = "up" /\ machine' = "announced" /\ signals' = Append(signals, TRUE)
        /\ UNCHANGED <<locked, stage, inhibitor, lockOnSleep, watcher, reply>>
    BY <1>11 DEF PrepareForSleep
  <2>2. SignalsAlternate' /\ signals' \in Seq(BOOLEAN)
    BY <2>1, SignalComes
  <2>3. excused' = {} => inhibitor /\ signals = <<>> /\ watcher \notin {"lock", "blank", "release"}
    BY <1>11 DEF PrepareForSleep, Behind
  <2>4. signals = <<>> => signals' = <<TRUE>>
    BY <1>0, <2>1, AppendTo
  <2>5. LockIsComing' /\ ReplyIsTrue'
    BY <1>0, <2>1, <2>3, <2>4 DEF LockIsComing, ReplyIsTrue, SignalsAlternate
  <2> QED
    BY <1>0, <2>1, <2>2, <2>5 DEF SuspendInv, SleepsLocked
<1>12. CASE Sleep
  <2>1. /\ machine = "announced" /\ machine' = "asleep"
        /\ UNCHANGED <<locked, stage, signals, inhibitor, lockOnSleep, watcher, reply>>
        /\ excused' = {} => excused = {} /\ ~inhibitor
    BY <1>12 DEF Sleep
  <2>2. SignalsAlternate'
    BY <1>0, <2>1 DEF SignalsAlternate, AfterAnnounced
  <2>3. excused' = {} => locked
    BY <1>0, <2>1 DEF LockIsComing
  <2> QED
    BY <1>0, <2>1, <2>2, <2>3 DEF SuspendInv, LockIsComing, ReplyIsTrue, SleepsLocked
<1>13. CASE Resume
  <2>1. /\ machine = "asleep" /\ machine' = "up" /\ signals' = Append(signals, FALSE)
        /\ UNCHANGED <<locked, stage, inhibitor, lockOnSleep, watcher>>
    BY <1>13 DEF Resume
  <2>2. SignalsAlternate' /\ signals' \in Seq(BOOLEAN)
    BY <2>1, SignalComes
  <2> QED
    BY <1>0, <2>1, <2>2 DEF SuspendInv, LockIsComing, ReplyIsTrue, SleepsLocked
<1>14. CASE UNCHANGED suspendVars
  BY <1>0, <1>14 DEF suspendVars, SuspendInv, SignalsAlternate, AfterAnnounced, LockIsComing,
     ReplyIsTrue, Confirms, SleepsLocked
<1> QED
  BY <1>1, <1>2, <1>3, <1>4, <1>5, <1>6, <1>7, <1>8, <1>9, <1>10, <1>11, <1>12, <1>13, <1>14
     DEF SuspendNext

\* The machine never sleeps with an open session without one of the excuses,
\* however many suspends and resumes overtake the watcher and whatever the
\* compositor still handles late (sleepwatch.rs:86-125).
THEOREM SleepIsLocked == SuspendSpec => []SleepsLocked
<1>1. SuspendInv => SleepsLocked
  BY DEF SuspendInv
<1> QED
  BY <1>1, SuspendInvInit, SuspendInvStep, PTL DEF SuspendSpec

-----------------------------------------------------------------------------
(***************************************************************************)
(* The audit log.                                                          *)
(***************************************************************************)

\* IsSuffix, element by element.
Ends(s, t) ==
    /\ Len(s) <= Len(t)
    /\ \A i \in 1..Len(s) : s[i] = t[Len(t) - Len(s) + i]

LEMMA SuffixIsTheEnd ==
  ASSUME NEW s \in Seq(Nat), NEW t \in Seq(Nat)
  PROVE  IsSuffix(s, t) <=> Ends(s, t)
<1>1. Len(s) \in Nat /\ Len(t) \in Nat
  OBVIOUS
<1>2. /\ Reverse(s) \in Seq(Nat) /\ Len(Reverse(s)) = Len(s)
      /\ \A i \in 1..Len(s) : Reverse(s)[i] = s[Len(s) - i + 1]
  BY <1>1 DEF Reverse
<1>3. /\ Reverse(t) \in Seq(Nat) /\ Len(Reverse(t)) = Len(t)
      /\ \A i \in 1..Len(t) : Reverse(t)[i] = t[Len(t) - i + 1]
  BY <1>1 DEF Reverse
<1> DEFINE r == Reverse(s)  u == Reverse(t)
<1> HIDE DEF r, u
<1>4. IsPrefix(r, u) <=> Len(s) <= Len(t) /\ \A i \in 1..Len(s) : r[i] = u[i]
  <2>1. r \in Seq(Nat) /\ u \in Seq(Nat) /\ Len(r) = Len(s) /\ Len(u) = Len(t)
    BY <1>2, <1>3 DEF r, u
  <2>2. ASSUME Len(s) <= Len(t)
        PROVE  SubSeq(r, 1, Len(r)) = SubSeq(u, 1, Len(r)) <=> \A i \in 1..Len(s) : r[i] = u[i]
    <3>1. SubSeq(r, 1, Len(r)) = r
      BY <2>1
    <3>2. /\ SubSeq(u, 1, Len(r)) \in Seq(Nat) /\ Len(SubSeq(u, 1, Len(r))) = Len(s)
          /\ \A i \in 1..Len(s) : SubSeq(u, 1, Len(r))[i] = u[i]
      BY <1>1, <2>1, <2>2
    <3> DEFINE v == SubSeq(u, 1, Len(r))
    <3> HIDE DEF v
    <3>3. v = r <=> \A i \in 1..Len(s) : r[i] = v[i]
      BY <2>1, <3>2, SeqEqual DEF v
    <3> QED
      BY <3>1, <3>2, <3>3 DEF v
  <2> QED
    BY <2>1, <2>2 DEF IsPrefix
<1>5. ASSUME Len(s) <= Len(t)
      PROVE  (\A i \in 1..Len(s) : r[i] = u[i]) <=> \A i \in 1..Len(s) : s[i] = t[Len(t) - Len(s) + i]
  <2>1. ASSUME NEW i \in 1..Len(s) PROVE r[i] = s[Len(s) - i + 1] /\ u[i] = t[Len(t) - i + 1]
    <3>1. i \in 1..Len(t)
      BY <1>1, <1>5
    <3> QED
      BY <1>2, <1>3, <3>1 DEF r, u
  <2>2. ASSUME \A i \in 1..Len(s) : r[i] = u[i], NEW i \in 1..Len(s)
        PROVE  s[i] = t[Len(t) - Len(s) + i]
    <3>1. Len(s) - i + 1 \in 1..Len(s) /\ Len(s) - (Len(s) - i + 1) + 1 = i
          /\ Len(t) - (Len(s) - i + 1) + 1 = Len(t) - Len(s) + i
      BY <1>1
    <3> QED
      BY <2>1, <2>2, <3>1
  <2>3. ASSUME \A i \in 1..Len(s) : s[i] = t[Len(t) - Len(s) + i], NEW i \in 1..Len(s)
        PROVE  r[i] = u[i]
    <3>1. Len(s) - i + 1 \in 1..Len(s) /\ Len(t) - Len(s) + (Len(s) - i + 1) = Len(t) - i + 1
      BY <1>1
    <3> QED
      BY <2>1, <2>3, <3>1
  <2> QED
    BY <2>2, <2>3
<1> QED
  BY <1>4, <1>5 DEF IsSuffix, Ends, r, u

LEMMA JoinAt ==
  ASSUME NEW s \in Seq(Nat), NEW t \in Seq(Nat)
  PROVE  /\ s \o t \in Seq(Nat) /\ Len(s \o t) = Len(s) + Len(t)
         /\ \A i \in 1..(Len(s) + Len(t)) :
               (s \o t)[i] = IF i <= Len(s) THEN s[i] ELSE t[i - Len(s)]
  BY ConcatProperties

LEMMA GrownAt ==
  ASSUME NEW s \in Seq(Nat), NEW e \in Nat
  PROVE  /\ Append(s, e) \in Seq(Nat) /\ Len(Append(s, e)) = Len(s) + 1
         /\ \A i \in 1..Len(s) : Append(s, e)[i] = s[i]
         /\ Append(s, e)[Len(s) + 1] = e
  OBVIOUS

LEMMA CutAt ==
  ASSUME NEW s \in Seq(Nat), NEW m \in 1..(Len(s) + 1), NEW n \in 0..Len(s), m <= n + 1
  PROVE  /\ SubSeq(s, m, n) \in Seq(Nat) /\ Len(SubSeq(s, m, n)) = n - m + 1
         /\ \A i \in 1..(n - m + 1) : SubSeq(s, m, n)[i] = s[m + i - 1]
  BY SubSeqProperties

\* The first k of a file.
LEMMA FirstOnes ==
  ASSUME NEW s \in Seq(Nat), NEW k \in 0..Len(s)
  PROVE  /\ SubSeq(s, 1, k) \in Seq(Nat) /\ Len(SubSeq(s, 1, k)) = k
         /\ \A i \in 1..k : SubSeq(s, 1, k)[i] = s[i]
<1>1. 1 \in 1..(Len(s) + 1) /\ k \in 0..Len(s) /\ 1 <= k + 1 /\ k - 1 + 1 = k
  OBVIOUS
<1> DEFINE a == SubSeq(s, 1, k)
<1>2. a \in Seq(Nat) /\ Len(a) = k - 1 + 1 /\ \A i \in 1..(k - 1 + 1) : a[i] = s[1 + i - 1]
  BY <1>1, CutAt
<1> HIDE DEF a
<1>3. ASSUME NEW i \in 1..k PROVE a[i] = s[i]
  <2>1. 1 + i - 1 = i
    OBVIOUS
  <2> QED
    BY <1>1, <1>2, <2>1
<1>4. a \in Seq(Nat) /\ Len(a) = k
  BY <1>1, <1>2
<1> QED
  BY <1>3, <1>4 DEF a

LEMMA EndsGrow ==
  ASSUME NEW s \in Seq(Nat), NEW t \in Seq(Nat), NEW e \in Nat, Ends(s, t)
  PROVE  Ends(Append(s, e), Append(t, e))
<1> DEFINE a == Append(s, e)  b == Append(t, e)
<1>1. /\ Len(a) = Len(s) + 1 /\ (\A i \in 1..Len(s) : a[i] = s[i]) /\ a[Len(s) + 1] = e
      /\ Len(b) = Len(t) + 1 /\ (\A i \in 1..Len(t) : b[i] = t[i]) /\ b[Len(t) + 1] = e
  BY GrownAt
<1> HIDE DEF a, b
<1>2. Len(s) \in Nat /\ Len(t) \in Nat
  OBVIOUS
<1>3. Len(b) - Len(a) = Len(t) - Len(s) /\ Len(s) <= Len(t)
  BY <1>1, <1>2 DEF Ends
<1>4. ASSUME NEW i \in 1..Len(a) PROVE a[i] = b[Len(t) - Len(s) + i]
  <2>1. CASE i = Len(s) + 1
    <3>1. Len(t) - Len(s) + i = Len(t) + 1
      BY <1>2, <2>1
    <3> QED
      BY <1>1, <2>1, <3>1
  <2>2. CASE i # Len(s) + 1
    <3>1. i \in 1..Len(s) /\ Len(t) - Len(s) + i \in 1..Len(t)
      BY <1>1, <1>2, <1>3, <2>2
    <3> QED
      BY <1>1, <3>1 DEF Ends
  <2> QED
    BY <2>1, <2>2
<1>5. Len(a) <= Len(b)
  BY <1>1, <1>2, <1>3
<1>6. Ends(a, b)
  BY <1>3, <1>4, <1>5 DEF Ends
<1> QED
  BY <1>6 DEF a, b

LEMMA EndsOfJoin ==
  ASSUME NEW s \in Seq(Nat), NEW t \in Seq(Nat), NEW u \in Seq(Nat), Ends(s \o t, u)
  PROVE  Ends(t, u)
<1>1. Len(s) \in Nat /\ Len(t) \in Nat /\ Len(u) \in Nat
  OBVIOUS
<1>2. ASSUME NEW i \in 1..Len(t) PROVE t[i] = u[Len(u) - Len(t) + i]
  <2>1. /\ Len(s) + i \in 1..(Len(s) + Len(t)) /\ (Len(s) + i) - Len(s) = i /\ ~(Len(s) + i <= Len(s))
        /\ Len(u) - (Len(s) + Len(t)) + (Len(s) + i) = Len(u) - Len(t) + i
    BY <1>1
  <2>2. Len(s \o t) = Len(s) + Len(t) /\ (s \o t)[Len(s) + i] = t[i]
    BY <2>1, JoinAt
  <2>3. (s \o t)[Len(s) + i] = u[Len(u) - (Len(s) + Len(t)) + (Len(s) + i)]
    BY <2>1, <2>2 DEF Ends
  <2> QED
    BY <2>1, <2>2, <2>3
<1> QED
  BY <1>1, <1>2, JoinAt DEF Ends

\* The last k of a file.
LEMMA LastOnes ==
  ASSUME NEW s \in Seq(Nat), NEW k \in 0..Len(s)
  PROVE  LET l == SubSeq(s, Len(s) - k + 1, Len(s))
         IN  l \in Seq(Nat) /\ Len(l) = k /\ Ends(l, s)
<1> DEFINE l == SubSeq(s, Len(s) - k + 1, Len(s))
<1>1. Len(s) \in Nat /\ k \in Nat /\ k <= Len(s)
  OBVIOUS
<1>2. /\ l \in Seq(Nat) /\ Len(l) = Len(s) - (Len(s) - k + 1) + 1
      /\ \A i \in 1..(Len(s) - (Len(s) - k + 1) + 1) : l[i] = s[Len(s) - k + 1 + i - 1]
  BY <1>1, CutAt
<1> HIDE DEF l
<1>3. Len(l) = k
  BY <1>1, <1>2
<1>4. ASSUME NEW i \in 1..k PROVE l[i] = s[Len(s) - k + i]
  <2>1. /\ i \in 1..(Len(s) - (Len(s) - k + 1) + 1)
        /\ Len(s) - k + 1 + i - 1 = Len(s) - k + i
    BY <1>1
  <2> QED
    BY <1>2, <2>1
<1> QED
  BY <1>1, <1>2, <1>3, <1>4 DEF Ends, l

LEMMA EndsTogether ==
  ASSUME NEW s \in Seq(Nat), NEW t \in Seq(Nat), NEW u \in Seq(Nat), Ends(s, t), Ends(t, u)
  PROVE  Ends(s, u)
<1>1. Len(s) \in Nat /\ Len(t) \in Nat /\ Len(u) \in Nat
  OBVIOUS
<1>2. ASSUME NEW i \in 1..Len(s) PROVE s[i] = u[Len(u) - Len(s) + i]
  <2>1. /\ Len(t) - Len(s) + i \in 1..Len(t)
        /\ Len(u) - Len(t) + (Len(t) - Len(s) + i) = Len(u) - Len(s) + i
    BY <1>1 DEF Ends
  <2> QED
    BY <2>1 DEF Ends
<1> QED
  BY <1>1, <1>2 DEF Ends

\* Without their last k, one file is still the end of the other.
LEMMA EndsBefore ==
  ASSUME NEW s \in Seq(Nat), NEW t \in Seq(Nat), NEW k \in 0..Len(s), Ends(s, t)
  PROVE  Ends(SubSeq(s, 1, Len(s) - k), SubSeq(t, 1, Len(t) - k))
<1> DEFINE a == SubSeq(s, 1, Len(s) - k)  b == SubSeq(t, 1, Len(t) - k)
<1>1. Len(s) \in Nat /\ Len(t) \in Nat /\ k \in Nat /\ k <= Len(s) /\ Len(s) <= Len(t)
  BY DEF Ends
<1>2. Len(a) = Len(s) - k /\ \A i \in 1..(Len(s) - k) : a[i] = s[i]
  BY <1>1, CutAt
<1>3. Len(b) = Len(t) - k /\ \A i \in 1..(Len(t) - k) : b[i] = t[i]
  BY <1>1, CutAt
<1> HIDE DEF a, b
<1>4. ASSUME NEW i \in 1..Len(a) PROVE a[i] = b[Len(b) - Len(a) + i]
  <2>1. /\ i \in 1..Len(s) /\ i \in 1..(Len(s) - k)
        /\ Len(b) - Len(a) + i = Len(t) - Len(s) + i /\ Len(t) - Len(s) + i \in 1..(Len(t) - k)
    BY <1>1, <1>2, <1>3
  <2> QED
    BY <2>1, <1>2, <1>3 DEF Ends
<1>5. Len(a) <= Len(b)
  BY <1>1, <1>2, <1>3
<1>6. Ends(a, b)
  BY <1>4, <1>5 DEF Ends
<1> QED
  BY <1>6 DEF a, b

LEMMA CutOfGrown ==
  ASSUME NEW s \in Seq(Nat), NEW e \in Nat, NEW k \in 0..Len(s)
  PROVE  SubSeq(Append(s, e), 1, k) = SubSeq(s, 1, k)
<1> DEFINE a == SubSeq(Append(s, e), 1, k)  b == SubSeq(s, 1, k)
<1>1. Len(s) \in Nat /\ k \in Nat /\ k <= Len(s)
  OBVIOUS
<1>2. b \in Seq(Nat) /\ Len(b) = k /\ \A i \in 1..k : b[i] = s[i]
  BY <1>1, CutAt
<1>3. a \in Seq(Nat) /\ Len(a) = k /\ \A i \in 1..k : a[i] = Append(s, e)[i]
  <2> DEFINE g == Append(s, e)
  <2>1. g \in Seq(Nat) /\ Len(g) = Len(s) + 1
    BY GrownAt
  <2> HIDE DEF g
  <2>2. /\ SubSeq(g, 1, k) \in Seq(Nat) /\ Len(SubSeq(g, 1, k)) = k
        /\ \A i \in 1..k : SubSeq(g, 1, k)[i] = g[i]
    BY <1>1, <2>1, CutAt
  <2> QED
    BY <2>2 DEF g
<1> HIDE DEF a, b
<1>4. ASSUME NEW i \in 1..k PROVE a[i] = b[i]
  <2>1. i \in 1..Len(s)
    BY <1>1
  <2>2. Append(s, e)[i] = s[i]
    BY <2>1, GrownAt
  <2> QED
    BY <1>2, <1>3, <2>2
<1> QED
  BY <1>2, <1>3, <1>4, SeqEqual DEF a, b

LEMMA LastLinesAre ==
  ASSUME NEW f \in Seq(Nat), NEW n \in Nat, n <= Limit
  PROVE  /\ LastLines(f, n) \in Seq(Nat) /\ Ends(LastLines(f, n), f)
         /\ Len(f) <= n => LastLines(f, n) = f
         /\ Len(f) > n => Len(LastLines(f, n)) = n
<1>1. n <= Window /\ Len(f) \in Nat
  BY AuditAssumption
<1>2. CASE Len(f) <= n
  <2>1. LastLines(f, n) = f
    BY <1>1, <1>2, AuditAssumption DEF LastLines
  <2> QED
    BY <1>1, <1>2, <2>1 DEF Ends
<1>3. CASE Len(f) > n
  <2>1. LastLines(f, n) = SubSeq(f, Len(f) - n + 1, Len(f))
    BY <1>1, <1>3, AuditAssumption DEF LastLines
  <2> QED
    BY <1>1, <1>3, <2>1, LastOnes
<1> QED
  BY <1>1, <1>2, <1>3

\* What has been written since the tail started.
More == Len(written) - since

\* The log as it was when the tail started.
LogThen == SubSeq(log, 1, Len(log) - More)

AuditTypeOK ==
    /\ log \in Seq(Nat) /\ older \in Seq(Nat) /\ written \in Seq(Nat) /\ lines \in Seq(Nat)
    /\ entries \in Nat /\ since \in 0..Len(written)
    /\ reader \in {"rest", "older"}

\* A tail on its way has read the whole log, which was too short; one that is
\* done has the end of both.
HasTheLog ==
    /\ Len(lines) < Limit
    /\ ~turned => More <= Len(log) /\ lines = LogThen

HasTheEnd ==
    lines # <<>> /\ ~turned =>
        /\ More <= Len(Logs)
        /\ Ends(lines, SubSeq(written, 1, since))
        /\ Len(lines) = Limit \/ lines = LogsThen

AuditInv ==
    /\ AuditTypeOK
    /\ Ends(Logs, written)
    /\ reader = "older" => HasTheLog
    /\ reader = "rest" => HasTheEnd

LEMMA AuditInvInit == AuditInit => AuditInv
<1> SUFFICES ASSUME AuditInit PROVE AuditInv
  OBVIOUS
<1>1. Logs = <<>> /\ Len(Logs) = 0
  BY DEF AuditInit, Logs
<1>2. Ends(Logs, written)
  BY <1>1 DEF AuditInit, Ends
<1> QED
  BY <1>2 DEF AuditInit, AuditInv, AuditTypeOK, HasTheLog, HasTheEnd

LEMMA RecordKeeps == AuditInv /\ Record => AuditInv'
<1> SUFFICES ASSUME AuditInv, Record PROVE AuditInv'
  OBVIOUS
<1>1. AuditTypeOK
  BY DEF AuditInv
<1> DEFINE e == entries'
<1>2. e \in Nat /\ UNCHANGED <<reader, lines, since>>
  BY <1>1 DEF Record, AuditTypeOK
<1>3. CASE UNCHANGED <<log, logOpen, older, written, turned>>
  BY <1>1, <1>2, <1>3 DEF AuditInv, AuditTypeOK, HasTheLog, HasTheEnd, Logs, LogsThen, LogThen, More
<1>4. CASE /\ log' = Append(log, e) /\ written' = Append(written, e)
           /\ UNCHANGED <<logOpen, older, turned>>
  <2>1. /\ log' \in Seq(Nat) /\ Len(log') = Len(log) + 1
        /\ written' \in Seq(Nat) /\ Len(written') = Len(written) + 1
    BY <1>1, <1>2, <1>4, GrownAt DEF AuditTypeOK
  <2>2. Logs \in Seq(Nat) /\ Len(Logs) = Len(older) + Len(log)
    BY <1>1, JoinAt DEF Logs, AuditTypeOK
  <2>3. Logs' = Append(Logs, e)
    <3> DEFINE a == older \o Append(log, e)  b == Append(older \o log, e)
    <3>1. a \in Seq(Nat) /\ Len(a) = Len(older) + (Len(log) + 1)
      BY <1>1, <1>2, GrownAt, JoinAt DEF AuditTypeOK
    <3>2. b \in Seq(Nat) /\ Len(b) = (Len(older) + Len(log)) + 1
      BY <1>1, <1>2, <2>2, GrownAt DEF AuditTypeOK, Logs
    <3>3. ASSUME NEW i \in 1..Len(a) PROVE a[i] = b[i]
      BY <1>1, <1>2 DEF AuditTypeOK
    <3>4. Len(a) = Len(b)
      BY <1>1, <3>1, <3>2 DEF AuditTypeOK
    <3>5. a = b
      <4> HIDE DEF a, b
      <4> QED
        BY <3>1, <3>2, <3>3, <3>4, SeqEqual
    <3> QED
      BY <1>4, <3>5 DEF Logs
  <2>4. Ends(Logs', written')
    BY <1>1, <1>2, <1>4, <2>2, <2>3, EndsGrow DEF AuditInv, AuditTypeOK
  <2>5. More \in Nat /\ More' = More + 1 /\ since' \in 0..Len(written')
    BY <1>1, <1>2, <2>1 DEF AuditTypeOK, More
  <2>6. More <= Len(log) => LogThen' = LogThen
    <3> SUFFICES ASSUME More <= Len(log) PROVE LogThen' = LogThen
      OBVIOUS
    <3>1. Len(log') - More' = Len(log) - More /\ Len(log) - More \in 0..Len(log)
      BY <1>1, <2>1, <2>5 DEF AuditTypeOK
    <3>2. SubSeq(Append(log, e), 1, Len(log) - More) = SubSeq(log, 1, Len(log) - More)
      BY <1>1, <1>2, <3>1, CutOfGrown DEF AuditTypeOK
    <3> QED
      BY <1>4, <3>1, <3>2 DEF LogThen
  <2>7. More <= Len(Logs) => LogsThen' = LogsThen
    <3> SUFFICES ASSUME More <= Len(Logs) PROVE LogsThen' = LogsThen
      OBVIOUS
    <3>1. Len(Logs') = Len(Logs) + 1
      BY <1>2, <2>2, <2>3, GrownAt
    <3>2. Len(Logs') - More' = Len(Logs) - More /\ Len(Logs) - More \in 0..Len(Logs)
      BY <1>1, <2>2, <2>5, <3>1 DEF AuditTypeOK
    <3>3. SubSeq(Append(Logs, e), 1, Len(Logs) - More) = SubSeq(Logs, 1, Len(Logs) - More)
      BY <1>2, <2>2, <3>2, CutOfGrown
    <3>4. LogsThen = SubSeq(Logs, 1, Len(Logs) - More)
      BY DEF LogsThen, More
    <3>5. LogsThen' = SubSeq(Logs', 1, Len(Logs') - More')
      BY DEF LogsThen, More
    <3> QED
      BY <2>3, <3>2, <3>3, <3>4, <3>5
  <2>8. SubSeq(written', 1, since') = SubSeq(written, 1, since)
    BY <1>1, <1>2, <1>4, CutOfGrown DEF AuditTypeOK
  <2>9. Len(Logs') = Len(Logs) + 1
    BY <1>2, <2>2, <2>3, GrownAt
  <2>10. (reader = "older" => HasTheLog)'
    BY <1>1, <1>2, <1>4, <2>1, <2>5, <2>6 DEF AuditInv, AuditTypeOK, HasTheLog
  <2>11. (reader = "rest" => HasTheEnd)'
    <3> SUFFICES ASSUME reader = "rest", lines # <<>>, ~turned
                 PROVE  /\ More' <= Len(Logs')
                        /\ Ends(lines, SubSeq(written', 1, since'))
                        /\ Len(lines) = Limit \/ lines = LogsThen'
      BY <1>2, <1>4 DEF HasTheEnd
    <3>1. /\ More <= Len(Logs)
          /\ Ends(lines, SubSeq(written, 1, since))
          /\ Len(lines) = Limit \/ lines = LogsThen
      BY DEF AuditInv, HasTheEnd
    <3>2. More' <= Len(Logs')
      <4>1. Len(Logs) \in Nat
        BY <2>2
      <4> QED
        BY <2>5, <2>9, <3>1, <4>1
    <3> QED
      BY <2>7, <2>8, <3>1, <3>2
  <2>12. AuditTypeOK'
    BY <1>1, <1>2, <1>4, <2>1, <2>5 DEF AuditTypeOK
  <2> QED
    BY <2>4, <2>10, <2>11, <2>12 DEF AuditInv
<1>5. CASE log' = log /\ UNCHANGED <<logOpen, older, written, turned>>
  BY <1>3, <1>5
<1>6. CASE Rotated
  <2>1. older' = log /\ turned' = TRUE
    BY <1>6 DEF Rotated
  <2>2. Ends(log, written)
    BY <1>1, EndsOfJoin DEF AuditInv, AuditTypeOK, Logs
  <2>3. CASE log' = <<e>> /\ written' = Append(written, e)
    <3>1. /\ log' \in Seq(Nat) /\ written' \in Seq(Nat) /\ Len(written') = Len(written) + 1
      BY <1>1, <1>2, <2>3, GrownAt DEF AuditTypeOK
    <3>2. Logs' = Append(log, e)
      BY <1>1, <1>2, <2>1, <2>3, AppendIsConcat DEF AuditTypeOK, Logs
    <3>3. Ends(Logs', written')
      BY <1>1, <1>2, <2>2, <2>3, <3>2, EndsGrow DEF AuditTypeOK
    <3>4. AuditTypeOK'
      BY <1>1, <1>2, <2>1, <3>1 DEF AuditTypeOK
    <3> QED
      BY <1>2, <2>1, <3>3, <3>4 DEF AuditInv, HasTheLog, HasTheEnd
  <2>4. CASE log' = <<>> /\ UNCHANGED written
    <3>1. log' \in Seq(Nat)
      BY <2>4
    <3>2. Logs' = log
      BY <1>1, <2>1, <2>4, ConcatEmptySeq DEF AuditTypeOK, Logs
    <3>3. Ends(Logs', written')
      BY <2>2, <2>4, <3>2
    <3>4. AuditTypeOK'
      BY <1>1, <1>2, <2>1, <2>4, <3>1 DEF AuditTypeOK
    <3> QED
      BY <1>2, <2>1, <3>3, <3>4 DEF AuditInv, HasTheLog, HasTheEnd
  <2> QED
    BY <1>6, <2>3, <2>4 DEF Rotated, Written
<1> QED
  BY <1>3, <1>4, <1>5, <1>6 DEF Record, Written

LEMMA TailStartsKeeps == AuditInv /\ TailStarts => AuditInv'
<1> SUFFICES ASSUME AuditInv, TailStarts PROVE AuditInv'
  OBVIOUS
<1>1. AuditTypeOK /\ Ends(Logs, written)
  BY DEF AuditInv
<1>2. /\ lines' = LastLines(log, Limit)
      /\ reader' = IF Len(lines') < Limit THEN "older" ELSE "rest"
      /\ since' = Len(written) /\ turned' = FALSE
      /\ UNCHANGED <<log, logOpen, older, entries, written>>
  BY DEF TailStarts
<1>3. /\ lines' \in Seq(Nat) /\ Ends(lines', log)
      /\ Len(log) <= Limit => lines' = log
      /\ Len(log) > Limit => Len(lines') = Limit
  <2>1. log \in Seq(Nat) /\ Limit \in Nat /\ Limit <= Limit
    BY <1>1, AuditAssumption DEF AuditTypeOK
  <2> DEFINE l == LastLines(log, Limit)
  <2>2. /\ l \in Seq(Nat) /\ Ends(l, log)
        /\ Len(log) <= Limit => l = log
        /\ Len(log) > Limit => Len(l) = Limit
    BY <2>1, LastLinesAre
  <2>3. lines' = l
    BY <1>2
  <2> HIDE DEF l
  <2> QED
    BY <2>2, <2>3
<1>4. Len(written) \in Nat /\ Len(log) \in Nat /\ Len(older) \in Nat /\ Limit \in Nat
  BY <1>1, AuditAssumption DEF AuditTypeOK
<1>5. More' = 0 /\ Ends(log, written) /\ SubSeq(written', 1, since') = written
  BY <1>1, <1>2, <1>4, EndsOfJoin, SubSeqFull DEF AuditTypeOK, Logs, More
<1>6. Len(lines') < Limit => lines' = log
  BY <1>3, <1>4
<1>7. SubSeq(log, 1, Len(log) - 0) = log
  BY <1>1, <1>4, SubSeqFull DEF AuditTypeOK
<1>8. (reader = "older" => HasTheLog)'
  BY <1>2, <1>4, <1>5, <1>6, <1>7 DEF HasTheLog, LogThen
<1>9. Ends(lines', written)
  BY <1>1, <1>3, <1>5, EndsTogether DEF AuditTypeOK
<1>10. reader' = "rest" => Len(lines') = Limit
  BY <1>2, <1>3, <1>4
<1>11. Len(Logs') \in Nat
  BY <1>1, <1>2, JoinAt DEF AuditTypeOK, Logs
<1>12. (reader = "rest" => HasTheEnd)'
  <2>1. More' <= Len(Logs')
    BY <1>5, <1>11
  <2>2. Ends(lines', SubSeq(written', 1, since'))
    BY <1>5, <1>9
  <2> QED
    BY <1>10, <2>1, <2>2 DEF HasTheEnd
<1>13. AuditTypeOK'
  BY <1>1, <1>2, <1>3, <1>4 DEF AuditTypeOK
<1> QED
  BY <1>1, <1>2, <1>8, <1>12, <1>13 DEF AuditInv, Logs

LEMMA TailAddsKeeps == AuditInv /\ TailAdds => AuditInv'
<1> SUFFICES ASSUME AuditInv, TailAdds PROVE AuditInv'
  OBVIOUS
<1>1. AuditTypeOK /\ Ends(Logs, written) /\ HasTheLog
  BY DEF AuditInv, TailAdds
<1> DEFINE more == LastLines(older, Limit - Len(lines))
<1>2. /\ lines' = more \o lines /\ reader' = "rest"
      /\ UNCHANGED <<log, logOpen, older, entries, written, since, turned>>
  BY DEF TailAdds
<1>3. /\ Len(lines) \in Nat /\ Len(older) \in Nat /\ Len(log) \in Nat /\ Limit \in Nat
      /\ Limit - Len(lines) \in Nat /\ Limit - Len(lines) <= Limit
      /\ Len(written) \in Nat /\ More \in Nat
  BY <1>1, AuditAssumption DEF AuditTypeOK, HasTheLog, More
<1>4. /\ more \in Seq(Nat) /\ Ends(more, older)
      /\ Len(older) <= Limit - Len(lines) => more = older
      /\ Len(older) > Limit - Len(lines) => Len(more) = Limit - Len(lines)
  BY <1>1, <1>3, LastLinesAre DEF AuditTypeOK
<1> HIDE DEF more
<1>5. lines' \in Seq(Nat) /\ Len(lines') = Len(more) + Len(lines)
  BY <1>1, <1>2, <1>4, JoinAt DEF AuditTypeOK
<1>6. AuditTypeOK'
  BY <1>1, <1>2, <1>5 DEF AuditTypeOK
<1>7. ASSUME ~turned PROVE HasTheEnd'
  <2>1. More <= Len(log) /\ lines = LogThen
    BY <1>1, <1>7 DEF HasTheLog
  <2>2. Logs \in Seq(Nat) /\ Len(Logs) = Len(older) + Len(log) /\ More <= Len(Logs)
    BY <1>1, <1>3, <2>1, JoinAt DEF AuditTypeOK, Logs
  <2>3. LogsThen = older \o lines
    <3> DEFINE k == Len(log) - More  a == SubSeq(older \o log, 1, Len(older) + k)  b == older \o SubSeq(log, 1, k)
    <3>1. k \in 0..Len(log) /\ Len(Logs) - More = Len(older) + k
      BY <1>3, <2>1, <2>2
    <3>2. /\ a \in Seq(Nat) /\ Len(a) = Len(older) + k
          /\ \A i \in 1..(Len(older) + k) : a[i] = (older \o log)[i]
      <4> DEFINE n == Len(older) + k
      <4>1. n \in 0..Len(Logs)
        BY <1>3, <2>2, <3>1
      <4>2. /\ SubSeq(Logs, 1, n) \in Seq(Nat) /\ Len(SubSeq(Logs, 1, n)) = n
            /\ \A i \in 1..n : SubSeq(Logs, 1, n)[i] = Logs[i]
        <5> HIDE DEF n
        <5> QED
          BY <2>2, <4>1, FirstOnes
      <4> QED
        BY <4>2 DEF Logs
    <3> DEFINE c == SubSeq(log, 1, k)
    <3>3. c \in Seq(Nat) /\ Len(c) = k /\ \A i \in 1..k : c[i] = log[i]
      <4>1. log \in Seq(Nat)
        BY <1>1 DEF AuditTypeOK
      <4> HIDE DEF k
      <4> QED
        BY <3>1, <4>1, FirstOnes
    <3>4. /\ b \in Seq(Nat) /\ Len(b) = Len(older) + k
          /\ \A i \in 1..(Len(older) + k) : b[i] = IF i <= Len(older) THEN older[i] ELSE c[i - Len(older)]
      <4> HIDE DEF c
      <4>1. /\ older \o c \in Seq(Nat) /\ Len(older \o c) = Len(older) + k
            /\ \A i \in 1..(Len(older) + k) :
                  (older \o c)[i] = IF i <= Len(older) THEN older[i] ELSE c[i - Len(older)]
        BY <1>1, <3>3, JoinAt DEF AuditTypeOK
      <4> QED
        BY <4>1 DEF c
    <3>5. ASSUME NEW i \in 1..(Len(older) + k) PROVE a[i] = b[i]
      <4>1. i \in 1..(Len(older) + Len(log)) /\ (~(i <= Len(older)) => i - Len(older) \in 1..k)
        BY <1>3, <3>1
      <4>2. (older \o log)[i] = IF i <= Len(older) THEN older[i] ELSE log[i - Len(older)]
        BY <1>1, <4>1, JoinAt DEF AuditTypeOK
      <4> HIDE DEF a, b, c
      <4> QED
        BY <3>2, <3>3, <3>4, <4>1, <4>2
    <3>6. a = b
      <4> HIDE DEF a, b
      <4> QED
        BY <3>2, <3>4, <3>5, SeqEqual
    <3>7. LogsThen = a
      BY <3>1 DEF LogsThen, Logs, More
    <3> QED
      BY <2>1, <3>6, <3>7 DEF LogThen
  <2>4. Ends(LogsThen, SubSeq(written, 1, since))
    <3>1. More \in 0..Len(Logs) /\ Len(written) - More = since
      BY <1>1, <1>3, <2>2 DEF AuditTypeOK, More
    <3>2. Ends(SubSeq(Logs, 1, Len(Logs) - More), SubSeq(written, 1, Len(written) - More))
      BY <1>1, <2>2, <3>1, EndsBefore DEF AuditTypeOK
    <3> QED
      BY <3>1, <3>2 DEF LogsThen, More
  <2>5. Ends(more \o lines, older \o lines)
    <3> DEFINE a == more \o lines  b == older \o lines
    <3>1. /\ Len(a) = Len(more) + Len(lines)
          /\ \A i \in 1..(Len(more) + Len(lines)) :
                a[i] = IF i <= Len(more) THEN more[i] ELSE lines[i - Len(more)]
      BY <1>1, <1>4, JoinAt DEF AuditTypeOK
    <3>2. /\ Len(b) = Len(older) + Len(lines)
          /\ \A i \in 1..(Len(older) + Len(lines)) :
                b[i] = IF i <= Len(older) THEN older[i] ELSE lines[i - Len(older)]
      BY <1>1, JoinAt DEF AuditTypeOK
    <3> HIDE DEF a, b
    <3>3. Len(more) \in Nat /\ Len(more) <= Len(older)
      BY <1>4 DEF Ends
    <3> DEFINE d == Len(older) - Len(more)
    <3>4. Len(b) - Len(a) = d /\ Len(a) <= Len(b)
      BY <1>3, <3>1, <3>2, <3>3
    <3>5. ASSUME NEW i \in 1..Len(a) PROVE a[i] = b[d + i]
      <4>1. CASE i <= Len(more)
        <5>1. d + i \in 1..(Len(older) + Len(lines)) /\ d + i <= Len(older) /\ i \in 1..Len(more)
          BY <1>3, <3>3, <4>1
        <5>2. more[i] = older[d + i]
          BY <1>4, <5>1 DEF Ends
        <5> QED
          BY <3>1, <3>2, <4>1, <5>1, <5>2
      <4>2. CASE ~(i <= Len(more))
        <5>1. /\ d + i \in 1..(Len(older) + Len(lines)) /\ ~(d + i <= Len(older))
              /\ (d + i) - Len(older) = i - Len(more)
          BY <1>3, <3>1, <3>3, <4>2
        <5> QED
          BY <3>1, <3>2, <4>2, <5>1
      <4> QED
        BY <4>1, <4>2
    <3>6. Ends(a, b)
      BY <3>4, <3>5 DEF Ends
    <3> QED
      BY <3>6 DEF a, b
  <2>6. SubSeq(written, 1, since) \in Seq(Nat) /\ older \o lines \in Seq(Nat)
    <3>1. since \in 0..Len(written)
      BY <1>1 DEF AuditTypeOK
    <3> QED
      BY <1>1, <1>3, <3>1, CutAt, JoinAt DEF AuditTypeOK
  <2>7. Ends(lines', SubSeq(written, 1, since))
    <3> DEFINE a == more \o lines  b == older \o lines  u == SubSeq(written, 1, since)
    <3>1. a \in Seq(Nat) /\ b \in Seq(Nat) /\ u \in Seq(Nat) /\ Ends(a, b) /\ Ends(b, u) /\ lines' = a
      BY <1>2, <1>5, <2>3, <2>4, <2>5, <2>6
    <3> HIDE DEF a, b, u
    <3>2. Ends(a, u)
      BY <3>1, EndsTogether
    <3> QED
      BY <3>1, <3>2 DEF u
  <2>8. Len(lines') = Limit \/ lines' = LogsThen
    <3>1. CASE Len(older) <= Limit - Len(lines)
      BY <1>2, <1>4, <2>3, <3>1
    <3>2. CASE Len(older) > Limit - Len(lines)
      <4>1. Len(more) = Limit - Len(lines)
        BY <1>4, <3>2
      <4> QED
        BY <1>3, <1>5, <4>1
    <3> QED
      BY <1>3, <3>1, <3>2
  <2> QED
    BY <1>2, <2>2, <2>7, <2>8 DEF HasTheEnd, LogsThen, Logs, More
<1>8. turned => HasTheEnd'
  BY <1>2 DEF HasTheEnd
<1> QED
  BY <1>1, <1>2, <1>6, <1>7, <1>8 DEF AuditInv, Logs

LEMMA AuditInvStep == AuditInv /\ [AuditNext]_auditVars => AuditInv'
<1> SUFFICES ASSUME AuditInv, [AuditNext]_auditVars PROVE AuditInv'
  OBVIOUS
<1>1. CASE Reopen
  BY <1>1 DEF Reopen, AuditInv, AuditTypeOK, HasTheLog, HasTheEnd, Logs, LogsThen, More
<1>2. CASE UNCHANGED auditVars
  BY <1>2 DEF auditVars, AuditInv, AuditTypeOK, HasTheLog, HasTheEnd, Logs, LogsThen, LogThen, More
<1> QED
  BY <1>1, <1>2, RecordKeeps, TailStartsKeeps, TailAddsKeeps DEF AuditNext

\* The files hold the newest entries in order, and the answer of tail is the end
\* of what was written, whatever is recorded or not written beside it, unless the
\* log is rotated under it, for logs and windows of any size (audit.rs:41-64).
THEOREM TailIsEnd == AuditSpec => []TailIsTheEnd
<1>1. AuditInv => TailIsTheEnd
  <2> SUFFICES ASSUME AuditInv PROVE TailIsTheEnd
    OBVIOUS
  <2>1. AuditTypeOK /\ Ends(Logs, written)
    BY DEF AuditInv
  <2>2. Logs \in Seq(Nat) /\ SubSeq(written, 1, since) \in Seq(Nat)
    <3>1. since \in 0..Len(written) /\ Len(written) \in Nat
      BY <2>1 DEF AuditTypeOK
    <3> QED
      BY <2>1, <3>1, CutAt, JoinAt DEF AuditTypeOK, Logs
  <2>3. IsSuffix(Logs, written)
    BY <2>1, <2>2, SuffixIsTheEnd DEF AuditTypeOK
  <2>4. Ends(lines, SubSeq(written, 1, since)) => IsSuffix(lines, SubSeq(written, 1, since))
    BY <2>1, <2>2, SuffixIsTheEnd DEF AuditTypeOK
  <2> QED
    BY <2>3, <2>4 DEF AuditInv, HasTheEnd, TailIsTheEnd
<1> QED
  BY <1>1, AuditInvInit, AuditInvStep, PTL DEF AuditSpec
-----------------------------------------------------------------------------
(***************************************************************************)
(* Notices.                                                                *)
(***************************************************************************)

\* The events a task has yet to send say what the list says, each of
\* another notice.
TrueToList(w) ==
    /\ \A i \in DOMAIN pending[w] :
          /\ pending[w][i].kind # "notices"
          /\ N!Says(pending[w][i], pending[w][i].id) = list[pending[w][i].id].text
    /\ \A i, j \in DOMAIN pending[w] : pending[w][i].id = pending[w][j].id => i = j

\* A task will tell of this notice.
Announcing(id) == \E w \in Writers : \E i \in DOMAIN pending[w] : pending[w][i].id = id

ToldOf(id) ==
    \/ Announcing(id)
    \/ N!Leave(view, chan, id, list[id].text)
    \/ N!Asked(id) /\ N!Leave(view, chan, id, NoNotice)

InOrder ==
    /\ \A u, w \in Writers : N!Busy(u) /\ N!Busy(w) => u = w
    /\ \A w \in Writers : TrueToList(w)
    /\ conn = "cloned" => snapshot = N!TextsOf(list)
    /\ conn = "live" => \A id \in Ids : ToldOf(id)

NoticesInv == N!TypeOK /\ file = list /\ (~raced => InOrder)

-----------------------------------------------------------------------------
LEMMA EventShape ==
    ASSUME NEW e \in N!Events
    PROVE  \/ e.kind = "notice" /\ e.id \in Ids /\ e.text \in Texts
           \/ e.kind = "notice_gone" /\ e.id \in Ids
           \/ e.kind = "notices" /\ e.view \in N!Views
  BY DEF N!Events

\* An event sets what it is about.
LEMMA EventTells ==
    ASSUME NEW v \in N!Views, NEW e \in N!Events
    PROVE  /\ N!MindEvent(v, e) \in N!Views
           /\ \A id \in Ids : N!MindEvent(v, e)[id] = IF N!About(e, id) THEN N!Says(e, id) ELSE v[id]
<1>1. CASE e.kind = "notice"
  <2>1. e.id \in Ids /\ e.text \in Texts
    BY <1>1, EventShape
  <2>2. N!MindEvent(v, e) = [v EXCEPT ![e.id] = e.text]
    BY <1>1 DEF N!MindEvent
  <2> QED
    BY <1>1, <2>1, <2>2 DEF N!About, N!Says, N!Views
<1>2. CASE e.kind = "notice_gone"
  <2>1. e.id \in Ids
    BY <1>2, EventShape
  <2>2. N!MindEvent(v, e) = [v EXCEPT ![e.id] = NoNotice]
    BY <1>2 DEF N!MindEvent
  <2> QED
    BY <1>2, <2>1, <2>2 DEF N!About, N!Says, N!Views
<1>3. CASE e.kind = "notices"
  <2>1. e.view \in N!Views /\ N!MindEvent(v, e) = e.view
    BY <1>3, EventShape DEF N!MindEvent
  <2> QED
    BY <1>3, <2>1 DEF N!About, N!Says
<1> QED
  BY <1>1, <1>2, <1>3, EventShape

\* One more event settles what it is about, and nothing else.
LEMMA EventAdded ==
    ASSUME NEW v, NEW s \in Seq(N!Events), NEW e \in N!Events, NEW id
    PROVE  /\ N!About(e, id) => N!Leave(v, Append(s, e), id, N!Says(e, id))
           /\ \A x : ~N!About(e, id) /\ N!Leave(v, s, id, x) => N!Leave(v, Append(s, e), id, x)
<1> DEFINE t == Append(s, e)
<1>1. Len(t) = Len(s) + 1 /\ Len(s) \in Nat /\ DOMAIN t = 1..Len(t) /\ DOMAIN s = 1..Len(s)
  OBVIOUS
<1>2. t[Len(t)] = e /\ \A i \in DOMAIN s : t[i] = s[i]
  OBVIOUS
<1> HIDE DEF t
<1>3. \A i \in DOMAIN t : i \in DOMAIN s \/ i = Len(t)
  BY <1>1
<1>4. DOMAIN s \subseteq DOMAIN t /\ Len(t) \in DOMAIN t /\ \A i \in DOMAIN t : ~(i > Len(t))
  BY <1>1
<1>5. ASSUME N!About(e, id) PROVE N!Leave(v, t, id, N!Says(e, id))
  BY <1>2, <1>4, <1>5 DEF N!Leave
<1>6. ASSUME NEW x, ~N!About(e, id), N!Leave(v, s, id, x) PROVE N!Leave(v, t, id, x)
  <2>1. CASE v[id] = x /\ \A i \in DOMAIN s : ~N!About(s[i], id)
    BY <1>2, <1>3, <1>6, <2>1 DEF N!Leave
  <2>2. ASSUME NEW i \in DOMAIN s, N!About(s[i], id), N!Says(s[i], id) = x,
               \A j \in DOMAIN s : j > i => ~N!About(s[j], id)
        PROVE  N!Leave(v, t, id, x)
    <3>1. \A j \in DOMAIN t : j > i => ~N!About(t[j], id)
      BY <1>2, <1>3, <1>6, <2>2
    <3> QED
      BY <1>2, <1>4, <2>2, <3>1 DEF N!Leave
  <2> QED
    BY <1>6, <2>1, <2>2 DEF N!Leave
<1> QED
  BY <1>5, <1>6 DEF t

\* What is read counts no longer, and is in the copy instead.
LEMMA EventRead ==
    ASSUME NEW v \in N!Views, NEW s \in Seq(N!Events), s # <<>>, NEW id \in Ids, NEW x,
           N!Leave(v, s, id, x)
    PROVE  N!Leave(N!MindEvent(v, Head(s)), Tail(s), id, x)
<1> DEFINE t == Tail(s)
           u == N!MindEvent(v, Head(s))
<1>1. Len(s) \in Nat \ {0} /\ Len(t) = Len(s) - 1 /\ DOMAIN t = 1..Len(t) /\ DOMAIN s = 1..Len(s)
  OBVIOUS
<1>2. \A i \in DOMAIN t : t[i] = s[i + 1]
  OBVIOUS
<1>3. Head(s) = s[1] /\ s[1] \in N!Events
  OBVIOUS
<1>4. u[id] = IF N!About(s[1], id) THEN N!Says(s[1], id) ELSE v[id]
  BY <1>3, EventTells
<1> HIDE DEF t, u
<1>5. \A i \in DOMAIN t : i + 1 \in DOMAIN s
  <2> SUFFICES ASSUME NEW i \in 1..Len(t) PROVE i + 1 \in 1..Len(s)
    BY <1>1
  <2> QED
    BY <1>1
<1>6. ASSUME v[id] = x, \A i \in DOMAIN s : ~N!About(s[i], id)
      PROVE  N!Leave(u, t, id, x)
  BY <1>1, <1>2, <1>4, <1>5, <1>6 DEF N!Leave
<1>7. ASSUME NEW i \in DOMAIN s, N!About(s[i], id), N!Says(s[i], id) = x,
             \A j \in DOMAIN s : j > i => ~N!About(s[j], id)
      PROVE  N!Leave(u, t, id, x)
  <2>1. CASE i = 1
    <3>1. \A j \in DOMAIN t : ~N!About(t[j], id)
      BY <1>1, <1>2, <1>5, <1>7, <2>1
    <3> QED
      BY <1>4, <1>7, <2>1, <3>1 DEF N!Leave
  <2>2. CASE i # 1
    <3>1. i - 1 \in DOMAIN t /\ t[i - 1] = s[i]
      BY <1>1, <1>2, <2>2
    <3>2. \A j \in DOMAIN t : j > i - 1 => ~N!About(t[j], id)
      BY <1>1, <1>2, <1>5, <1>7
    <3> QED
      BY <1>7, <3>1, <3>2 DEF N!Leave
  <2> QED
    BY <2>1, <2>2
<1> QED
  BY <1>6, <1>7 DEF N!Leave, t, u

\* A copy in which the user dismisses notices.
LEMMA CopyChanged ==
    ASSUME NEW v, NEW u, NEW s, NEW id, NEW x, N!Leave(v, s, id, x)
    PROVE  /\ u[id] = v[id] => N!Leave(u, s, id, x)
           /\ N!Leave(u, s, id, x) \/ N!Leave(u, s, id, u[id])
  BY DEF N!Leave

\* The events of a withdrawal: one for each notice.
LEMMA EventsOfSet ==
    ASSUME NEW M, IsFiniteSet(M)
    PROVE  /\ N!SetToSeq(M) \in Seq(M)
           /\ \A i, j \in DOMAIN N!SetToSeq(M) : N!SetToSeq(M)[i] = N!SetToSeq(M)[j] => i = j
           /\ \A e \in M : \E i \in DOMAIN N!SetToSeq(M) : N!SetToSeq(M)[i] = e
<1> DEFINE n == Cardinality(M)
           s == N!SetToSeq(M)
<1>1. n \in Nat /\ ExistsBijection(1..n, M)
  BY FS_CardinalityType
<1>2. \E f \in [1..n -> M] : N!IsInjective(f)
  <2>1. PICK f \in Bijection(1..n, M) : TRUE
    BY <1>1 DEF ExistsBijection
  <2>2. f \in [1..n -> M] /\ IsInjective(f)
    BY <2>1 DEF Bijection, Injection
  <2> QED
    BY <2>2 DEF IsInjective, N!IsInjective
<1>0. n = N!Cardinality(M)
  BY DEF Cardinality, N!Cardinality
<1>3. s \in [1..n -> M] /\ N!IsInjective(s)
  BY <1>0, <1>2 DEF N!SetToSeq
<1>4. IsFiniteSet(1..n) /\ Cardinality(1..n) = n
  BY <1>1, FS_Interval
<1>5. s \in Injection(1..n, M)
  BY <1>3 DEF Injection, IsInjective, N!IsInjective
<1> HIDE DEF s
<1>6. s \in Surjection(1..n, M)
  BY <1>4, <1>5, FS_Injection
<1>7. s \in Seq(M) /\ DOMAIN s = 1..n
  BY <1>1, <1>3
<1>8. \A e \in M : \E i \in DOMAIN s : s[i] = e
  BY <1>6, <1>7 DEF Surjection
<1>9. \A i, j \in DOMAIN s : s[i] = s[j] => i = j
  BY <1>3, <1>7 DEF N!IsInjective
<1> QED
  BY <1>7, <1>8, <1>9 DEF s

LEMMA WithdrawalTells ==
    ASSUME NEW removed \in SUBSET Ids
    PROVE  LET s == N!SetToSeq({N!Gone(id) : id \in removed}) IN
           /\ s \in Seq(N!Events)
           /\ \A i \in DOMAIN s : s[i].kind = "notice_gone" /\ s[i].id \in removed
           /\ \A i, j \in DOMAIN s : s[i].id = s[j].id => i = j
           /\ \A id \in removed : \E i \in DOMAIN s : s[i].id = id
<1> DEFINE M == {N!Gone(id) : id \in removed}
           s == N!SetToSeq(M)
           f == [id \in removed |-> N!Gone(id)]
<1>1. IsFiniteSet(removed)
  BY NoticesAssumption, FS_Subset
<1>2. f \in Surjection(removed, M)
  BY DEF Surjection
<1>3. IsFiniteSet(M)
  <2> HIDE DEF f, M
  <2> QED
    BY <1>1, <1>2, FS_Surjection
<1>4. \A e \in M : e \in N!Events /\ e.kind = "notice_gone" /\ e.id \in removed /\ e = N!Gone(e.id)
  BY DEF N!Gone, N!Events
<1>5. \A id \in removed : N!Gone(id) \in M /\ N!Gone(id).id = id
  BY DEF N!Gone
<1> HIDE DEF f, M
<1>6. /\ s \in Seq(M)
      /\ \A i, j \in DOMAIN s : s[i] = s[j] => i = j
      /\ \A e \in M : \E i \in DOMAIN s : s[i] = e
  BY <1>3, EventsOfSet
<1> HIDE DEF s
<1>7. \A i \in DOMAIN s : s[i] \in M
  BY <1>6
<1>8. s \in Seq(N!Events)
  BY <1>4, <1>6
<1>9. \A id \in removed : \E i \in DOMAIN s : s[i].id = id
  BY <1>5, <1>6
<1>10. \A i, j \in DOMAIN s : s[i].id = s[j].id => i = j
  BY <1>4, <1>6, <1>7
<1> QED
  BY <1>4, <1>7, <1>8, <1>9, <1>10 DEF s, M

LEMMA NoticesInvInit == N!Init => NoticesInv
<1> SUFFICES ASSUME N!Init PROVE NoticesInv
  OBVIOUS
<1>1. N!Empty \in N!Views /\ [id \in Ids |-> N!Missing] \in N!Lists
  BY DEF N!Empty, N!Views, N!Lists
<1>2. N!TypeOK
  <2>1. list \in N!Lists /\ file \in N!Lists /\ snapshot \in N!Views /\ view \in N!Views
    BY <1>1 DEF N!Init
  <2>2. chan \in Seq(N!Events) /\ pending \in [Writers -> Seq(N!Events)]
    BY DEF N!Init
  <2>3. conn \in {"off", "open", "subscribed", "cloned", "live"} /\ asked \subseteq N!Targets /\ raced \in BOOLEAN
    BY DEF N!Init
  <2> QED
    BY <2>1, <2>2, <2>3 DEF N!TypeOK
<1>3. InOrder
  BY DEF N!Init, InOrder, TrueToList, N!Busy
<1> QED
  BY <1>2, <1>3 DEF NoticesInv, N!Init

\* What a change of the list has to keep to: its events tell all of it, and
\* what the shell has dropped is dropped.
Tells(new, evs) ==
    /\ \A i \in DOMAIN evs :
          /\ evs[i].kind # "notices"
          /\ evs[i].id \in Ids
          /\ N!Says(evs[i], evs[i].id) = new[evs[i].id].text
    /\ \A i, j \in DOMAIN evs : evs[i].id = evs[j].id => i = j
    /\ \A id \in Ids : new[id].text = list[id].text \/ \E i \in DOMAIN evs : evs[i].id = id

LEMMA ChangeKeeps ==
    ASSUME NoticesInv, NEW w \in Writers, ~N!Busy(w), NEW new \in N!Lists, NEW evs \in Seq(N!Events),
           N!Change(w, new, evs), Tells(new, evs), asked' \subseteq N!Targets,
           \A id \in Ids : N!Asked(id) => N!Asked(id)' \/ new[id].text = NoNotice
    PROVE  NoticesInv'
<1>1. N!TypeOK /\ list' = new /\ file' = new /\ pending' = [pending EXCEPT ![w] = evs]
      /\ UNCHANGED <<conn, snapshot, chan, view>>
  BY DEF NoticesInv, N!Change
<1>2. N!TypeOK'
  <2>1. pending' \in [Writers -> Seq(N!Events)]
    BY <1>1 DEF N!TypeOK
  <2>2. raced' \in BOOLEAN
    BY DEF N!Change
  <2> QED
    BY <1>1, <2>1, <2>2 DEF N!TypeOK
<1>3. ASSUME ~raced' PROVE InOrder'
  <2>1. ~raced /\ conn # "cloned" /\ \A u \in Writers : ~N!Busy(u)
    BY <1>3 DEF N!Change
  <2>2. InOrder
    BY <2>1 DEF NoticesInv
  <2>3. \A u \in Writers : pending'[u] = IF u = w THEN evs ELSE <<>>
    BY <1>1, <2>1 DEF N!TypeOK, N!Busy
  <2>4. (\A t, u \in Writers : N!Busy(t) /\ N!Busy(u) => t = u)'
    BY <2>3 DEF N!Busy
  <2>5. ASSUME NEW u \in Writers PROVE TrueToList(u)'
    BY <1>1, <2>3 DEF TrueToList, Tells
  <2>6. ASSUME conn = "live", NEW id \in Ids PROVE ToldOf(id)'
    <3>1. CASE \E i \in DOMAIN evs : evs[i].id = id
      BY <2>3, <3>1 DEF ToldOf, Announcing
    <3>2. CASE new[id].text = list[id].text
      <4>1. ~Announcing(id)
        BY <2>1 DEF Announcing, N!Busy
      <4>2. \/ N!Leave(view, chan, id, list[id].text)
            \/ N!Asked(id) /\ N!Leave(view, chan, id, NoNotice)
        BY <2>2, <2>6, <4>1 DEF InOrder, ToldOf
      <4>3. list'[id].text = list[id].text /\ view' = view /\ chan' = chan
        BY <1>1, <3>2
      <4>4. CASE N!Leave(view, chan, id, list[id].text)
        BY <4>3, <4>4 DEF ToldOf
      <4>5. CASE N!Asked(id) /\ N!Leave(view, chan, id, NoNotice)
        <5>1. CASE N!Asked(id)'
          BY <4>3, <4>5, <5>1 DEF ToldOf
        <5>2. CASE new[id].text = NoNotice
          BY <1>1, <4>3, <4>5, <5>2 DEF ToldOf
        <5> QED
          BY <4>5, <5>1, <5>2
      <4> QED
        BY <4>2, <4>4, <4>5
    <3> QED
      BY <3>1, <3>2 DEF Tells
  <2> QED
    BY <1>1, <2>1, <2>4, <2>5, <2>6 DEF InOrder
<1> QED
  BY <1>1, <1>2, <1>3 DEF NoticesInv

LEMMA PostKeeps ==
    ASSUME NoticesInv, NEW w \in Writers, NEW id \in Ids, NEW n \in N!Notice, N!Post(w, id, n)
    PROVE  NoticesInv'
<1> DEFINE new == [list EXCEPT ![id] = n]
           evs == IF n.text # list[id].text THEN <<N!Posted(id, n.text)>> ELSE <<>>
<1>1. list \in N!Lists /\ asked \subseteq N!Targets
  BY DEF NoticesInv, N!TypeOK
<1>2. new \in N!Lists /\ new[id] = n /\ \A x \in Ids \ {id} : new[x] = list[x]
  BY <1>1 DEF N!Lists
<1>3. N!Posted(id, n.text) \in N!Events
  BY DEF N!Posted, N!Events, N!Notice
<1>4. evs \in Seq(N!Events)
  BY <1>3
<1>5. ~N!Busy(w) /\ N!Change(w, new, evs) /\ asked' = asked
  BY DEF N!Post
<1>6. N!Posted(id, n.text).kind = "notice" /\ N!Posted(id, n.text).id = id
      /\ N!Says(N!Posted(id, n.text), id) = n.text
  BY DEF N!Posted, N!Says
<1> HIDE DEF new
<1>7. CASE n.text # list[id].text
  <2>1. evs = <<N!Posted(id, n.text)>> /\ DOMAIN evs = {1} /\ evs[1] = N!Posted(id, n.text)
    BY <1>7
  <2> HIDE DEF evs
  <2>2. Tells(new, evs)
    BY <1>2, <1>6, <2>1 DEF Tells
  <2> QED
    BY <1>1, <1>2, <1>4, <1>5, <2>2, ChangeKeeps DEF N!Asked
<1>8. CASE n.text = list[id].text
  <2>1. evs = <<>>
    BY <1>8
  <2> HIDE DEF evs
  <2>2. Tells(new, evs)
    BY <1>2, <1>8, <2>1 DEF Tells
  <2> QED
    BY <1>1, <1>2, <1>4, <1>5, <2>2, ChangeKeeps DEF N!Asked
<1> QED
  BY <1>7, <1>8

\* Dismissed by the daemon or by the shell, or of the health check.
LEMMA WithdrawKeeps ==
    ASSUME NoticesInv, NEW w \in Writers, ~N!Busy(w), NEW ids \in SUBSET Ids, N!Withdraw(w, ids),
           asked' \subseteq asked, \A id \in Ids \ ids : N!Asked(id) => N!Asked(id)'
    PROVE  NoticesInv'
<1> DEFINE removed == {id \in ids : list[id] # N!Missing}
           new == [id \in Ids |-> IF id \in removed THEN N!Missing ELSE list[id]]
           evs == N!SetToSeq({N!Gone(id) : id \in removed})
<1>1. list \in N!Lists /\ asked \subseteq N!Targets /\ N!TypeOK
  BY DEF NoticesInv, N!TypeOK
<1>2. N!Missing.text = NoNotice
  BY DEF N!Missing
<1>3. CASE removed = {}
  <2>1. UNCHANGED <<list, file, pending, conn, snapshot, chan, view, raced>>
    BY <1>3 DEF N!Withdraw
  <2>2. N!TypeOK'
    BY <1>1, <2>1 DEF N!TypeOK
  <2>3. ASSUME ~raced PROVE InOrder'
    <3>1. InOrder
      BY <2>3 DEF NoticesInv
    <3>2. (\A u, t \in Writers : N!Busy(u) /\ N!Busy(t) => u = t)'
          /\ \A u \in Writers : TrueToList(u)'
      BY <2>1, <3>1 DEF InOrder, N!Busy, TrueToList
    <3>3. (conn = "cloned" => snapshot = N!TextsOf(list))'
      BY <2>1, <3>1 DEF InOrder, N!TextsOf
    <3>4. ASSUME conn = "live", NEW id \in Ids PROVE ToldOf(id)'
      <4>1. ToldOf(id)
        BY <3>1, <3>4 DEF InOrder
      <4>2. CASE Announcing(id)
        BY <2>1, <4>2 DEF ToldOf, Announcing
      <4>3. CASE N!Leave(view, chan, id, list[id].text)
        BY <2>1, <4>3 DEF ToldOf
      <4>4. CASE N!Asked(id) /\ N!Leave(view, chan, id, NoNotice)
        <5>1. CASE id \in ids
          <6>1. list[id].text = NoNotice
            BY <1>2, <1>3, <5>1
          <6> QED
            BY <2>1, <4>4, <6>1 DEF ToldOf
        <5>2. CASE id \notin ids
          BY <2>1, <4>4, <5>2 DEF ToldOf
        <5> QED
          BY <5>1, <5>2
      <4> QED
        BY <4>1, <4>2, <4>3, <4>4 DEF ToldOf
    <3> QED
      BY <2>1, <3>2, <3>3, <3>4 DEF InOrder
  <2> QED
    BY <2>1, <2>2, <2>3 DEF NoticesInv
<1>4. CASE removed # {}
  <2>1. N!Change(w, new, evs)
    BY <1>4 DEF N!Withdraw
  <2>2. \A id \in Ids : new[id] = IF id \in removed THEN N!Missing ELSE list[id]
    OBVIOUS
  <2>3. new \in N!Lists /\ removed \in SUBSET Ids
    BY <1>1 DEF N!Lists
  <2>4. \A id \in ids : new[id].text = NoNotice
    BY <1>2, <2>2
  <2> HIDE DEF new
  <2>5. /\ evs \in Seq(N!Events)
        /\ \A i \in DOMAIN evs : evs[i].kind = "notice_gone" /\ evs[i].id \in removed
        /\ \A i, j \in DOMAIN evs : evs[i].id = evs[j].id => i = j
        /\ \A id \in removed : \E i \in DOMAIN evs : evs[i].id = id
    BY <2>3, WithdrawalTells
  <2> HIDE DEF evs, removed
  <2>6. \A i \in DOMAIN evs : N!Says(evs[i], evs[i].id) = NoNotice
    BY <2>5 DEF N!Says
  <2>7. \A i \in DOMAIN evs : evs[i].kind # "notices" /\ evs[i].id \in Ids
    BY <2>3, <2>5
  <2>8. Tells(new, evs)
    BY <1>2, <2>2, <2>3, <2>5, <2>6, <2>7 DEF Tells
  <2>9. asked' \subseteq N!Targets
    BY <1>1
  <2>10. \A id \in Ids : N!Asked(id) => N!Asked(id)' \/ new[id].text = NoNotice
    BY <2>4
  <2> QED
    BY <2>1, <2>3, <2>5, <2>8, <2>9, <2>10, ChangeKeeps
<1> QED
  BY <1>3, <1>4

LEMMA DismissalsKeep ==
    ASSUME NoticesInv, NEW w \in Writers,
           \/ \E target \in N!Targets : N!Dismiss(w, target) \/ N!DismissNotice(w, target)
           \/ \E keep \in SUBSET HealthIds : N!RetainPrefix(w, keep)
    PROVE  NoticesInv'
<1>1. ~N!Busy(w)
  BY DEF N!Dismiss, N!DismissNotice, N!RetainPrefix
<1>2. N!Targets \subseteq SUBSET Ids
  BY DEF N!Targets
<1>3. ASSUME NEW target \in N!Targets, N!Dismiss(w, target) PROVE NoticesInv'
  BY <1>1, <1>2, <1>3, WithdrawKeeps DEF N!Dismiss, N!Asked
<1>4. ASSUME NEW target \in N!Targets, N!DismissNotice(w, target) PROVE NoticesInv'
  <2>1. asked' = asked \ {target} /\ N!Withdraw(w, target) /\ target \in SUBSET Ids
    BY <1>2, <1>4 DEF N!DismissNotice
  <2>2. \A id \in Ids \ target : N!Asked(id) => N!Asked(id)'
    BY <2>1 DEF N!Asked
  <2> QED
    BY <1>1, <2>1, <2>2, WithdrawKeeps
<1>5. ASSUME NEW keep \in SUBSET HealthIds, N!RetainPrefix(w, keep) PROVE NoticesInv'
  <2>1. HealthIds \ keep \in SUBSET Ids /\ N!Withdraw(w, HealthIds \ keep) /\ asked' = asked
    BY <1>5, NoticesAssumption DEF N!RetainPrefix
  <2>2. \A id \in Ids : N!Asked(id) => N!Asked(id)'
    BY <2>1 DEF N!Asked
  <2> QED
    BY <1>1, <2>1, <2>2, WithdrawKeeps
<1> QED
  BY <1>3, <1>4, <1>5

LEMMA TailOfEvents ==
    ASSUME NEW s \in Seq(N!Events), s # <<>>
    PROVE  /\ Tail(s) \in Seq(N!Events) /\ Head(s) \in N!Events
           /\ 1 \in DOMAIN s /\ Head(s) = s[1]
           /\ \A i \in DOMAIN Tail(s) : i + 1 \in DOMAIN s /\ Tail(s)[i] = s[i + 1]
           /\ \A i \in DOMAIN s : i = 1 \/ (i - 1 \in DOMAIN Tail(s) /\ Tail(s)[i - 1] = s[i])
<1>1. Tail(s) \in Seq(N!Events) /\ Len(s) \in Nat \ {0} /\ Len(Tail(s)) = Len(s) - 1
  OBVIOUS
<1>2. Head(s) = s[1] /\ \A i \in 1..(Len(s) - 1) : Tail(s)[i] = s[i + 1]
  OBVIOUS
<1>3. DOMAIN s = 1..Len(s) /\ DOMAIN Tail(s) = 1..(Len(s) - 1)
  BY <1>1
<1>4. s[1] \in N!Events
  BY <1>1, <1>3
<1> QED
  BY <1>1, <1>2, <1>3, <1>4

\* The list stays, and the events to be sent: so does all but what the shell
\* will have.
LEMMA ListStays ==
    ASSUME NoticesInv, UNCHANGED <<list, file, pending, raced>>, N!TypeOK',
           ~raced /\ conn' = "cloned" => snapshot' = N!TextsOf(list),
           ~raced /\ conn' = "live" => \A id \in Ids : ToldOf(id)'
    PROVE  NoticesInv'
<1>1. file' = list'
  BY DEF NoticesInv
<1>2. ASSUME ~raced PROVE InOrder'
  <2>1. InOrder
    BY <1>2 DEF NoticesInv
  <2>2. (\A u, t \in Writers : N!Busy(u) /\ N!Busy(t) => u = t)'
        /\ \A u \in Writers : TrueToList(u)'
    BY <2>1 DEF InOrder, N!Busy, TrueToList
  <2>3. (conn = "cloned" => snapshot = N!TextsOf(list))'
    BY <1>2 DEF N!TextsOf
  <2> QED
    BY <1>2, <2>2, <2>3 DEF InOrder
<1> QED
  BY <1>1, <1>2 DEF NoticesInv

LEMMA BroadcastKeeps ==
    ASSUME NoticesInv, NEW w \in Writers, N!Broadcast(w)
    PROVE  NoticesInv'
<1> DEFINE p == pending[w]
           e == Head(p)
<1>1. N!TypeOK /\ p \in Seq(N!Events) /\ p # <<>>
  BY DEF NoticesInv, N!TypeOK, N!Broadcast, N!Busy
<1> HIDE DEF p
<1>2. /\ Tail(p) \in Seq(N!Events) /\ e \in N!Events
      /\ 1 \in DOMAIN p /\ e = p[1]
      /\ \A i \in DOMAIN Tail(p) : i + 1 \in DOMAIN p /\ Tail(p)[i] = p[i + 1]
      /\ \A i \in DOMAIN p : i = 1 \/ (i - 1 \in DOMAIN Tail(p) /\ Tail(p)[i - 1] = p[i])
  BY <1>1, TailOfEvents
<1>3. /\ \A u \in Writers : pending'[u] = IF u = w THEN Tail(p) ELSE pending[u]
      /\ pending' \in [Writers -> Seq(N!Events)]
  BY <1>1, <1>2 DEF N!TypeOK, N!Broadcast, p
<1>4. UNCHANGED <<list, file, conn, snapshot, view, asked, raced>>
  BY DEF N!Broadcast
<1> HIDE DEF e
<1>5. chan' = IF conn \in {"subscribed", "cloned", "live"} THEN Append(chan, e) ELSE chan
  BY DEF N!Broadcast, e, p
<1>6. N!TypeOK'
  <2>1. chan' \in Seq(N!Events)
    BY <1>1, <1>2, <1>5 DEF N!TypeOK
  <2> QED
    BY <1>1, <1>3, <1>4, <2>1 DEF N!TypeOK
<1>7. ASSUME ~raced PROVE InOrder'
  <2>1. InOrder
    BY <1>7 DEF NoticesInv
  <2>2. \A u \in Writers : N!Busy(u)' => N!Busy(u)
    BY <1>1, <1>3 DEF N!Busy, p
  <2>3. (\A u, t \in Writers : N!Busy(u) /\ N!Busy(t) => u = t)'
    BY <2>1, <2>2 DEF InOrder
  <2>4. TrueToList(w)
    BY <2>1 DEF InOrder
  <2>5. /\ \A i \in DOMAIN p : p[i].kind # "notices" /\ N!Says(p[i], p[i].id) = list[p[i].id].text
        /\ \A i, j \in DOMAIN p : p[i].id = p[j].id => i = j
    BY <2>4 DEF TrueToList, p
  <2>6. ASSUME NEW u \in Writers PROVE TrueToList(u)'
    <3>1. CASE u = w
      <4>1. pending'[u] = Tail(p)
        BY <1>3, <3>1
      <4>2. \A i \in DOMAIN Tail(p) : /\ Tail(p)[i].kind # "notices"
                                      /\ N!Says(Tail(p)[i], Tail(p)[i].id) = list[Tail(p)[i].id].text
        BY <1>2, <2>5
      <4>3. \A i, j \in DOMAIN Tail(p) : i \in Int /\ j \in Int
        BY <1>2
      <4>4. \A i, j \in DOMAIN Tail(p) : Tail(p)[i].id = Tail(p)[j].id => i + 1 = j + 1
        BY <1>2, <2>5
      <4>5. \A i, j \in DOMAIN Tail(p) : Tail(p)[i].id = Tail(p)[j].id => i = j
        BY <4>3, <4>4
      <4> QED
        BY <1>4, <4>1, <4>2, <4>5 DEF TrueToList
    <3>2. CASE u # w
      <4>1. TrueToList(u) /\ pending'[u] = pending[u]
        BY <1>3, <2>1, <3>2 DEF InOrder
      <4> QED
        BY <1>4, <4>1 DEF TrueToList
    <3> QED
      BY <3>1, <3>2
  <2>7. (conn = "cloned" => snapshot = N!TextsOf(list))'
    BY <1>4, <2>1 DEF InOrder, N!TextsOf
  <2>8. ASSUME conn = "live", NEW id \in Ids PROVE ToldOf(id)'
    <3>1. chan' = Append(chan, e) /\ chan \in Seq(N!Events)
      BY <1>1, <1>5, <2>8 DEF N!TypeOK
    <3>2. e.kind # "notices" /\ N!Says(e, e.id) = list[e.id].text
      BY <1>2, <2>5
    <3>3. ToldOf(id)
      BY <2>1, <2>8 DEF InOrder
    <3>4. CASE e.id = id
      <4>1. N!About(e, id)
        BY <3>4 DEF N!About
      <4>2. N!Leave(view, Append(chan, e), id, list[id].text)
        BY <1>2, <3>1, <3>2, <3>4, <4>1, EventAdded
      <4> QED
        BY <1>4, <3>1, <4>2 DEF ToldOf
    <3>5. CASE e.id # id
      <4>1. ~N!About(e, id)
        BY <3>2, <3>5 DEF N!About
      <4>2. \A x : N!Leave(view, chan, id, x) => N!Leave(view, Append(chan, e), id, x)
        BY <1>2, <3>1, <4>1, EventAdded
      <4>3. ASSUME NEW u \in Writers, NEW i \in DOMAIN pending[u], pending[u][i].id = id
            PROVE  Announcing(id)'
        <5>1. CASE u = w
          <6>1. i - 1 \in DOMAIN Tail(p) /\ Tail(p)[i - 1].id = id
            BY <1>2, <3>5, <4>3, <5>1 DEF p
          <6> QED
            BY <1>3, <5>1, <6>1 DEF Announcing
        <5>2. CASE u # w
          BY <1>3, <4>3, <5>2 DEF Announcing
        <5> QED
          BY <5>1, <5>2
      <4>4. CASE Announcing(id)
        BY <4>3, <4>4 DEF Announcing, ToldOf
      <4>5. CASE N!Leave(view, chan, id, list[id].text)
        BY <1>4, <3>1, <4>2, <4>5 DEF ToldOf
      <4>6. CASE N!Asked(id) /\ N!Leave(view, chan, id, NoNotice)
        <5>1. N!Asked(id)'
          BY <1>4, <4>6 DEF N!Asked
        <5> QED
          BY <1>4, <3>1, <4>2, <4>6, <5>1 DEF ToldOf
      <4> QED
        BY <3>3, <4>4, <4>5, <4>6 DEF ToldOf
    <3> QED
      BY <3>4, <3>5
  <2> QED
    BY <1>4, <2>3, <2>6, <2>7, <2>8 DEF InOrder
<1>8. file' = list'
  BY <1>4 DEF NoticesInv
<1> QED
  BY <1>4, <1>6, <1>7, <1>8 DEF NoticesInv

LEMMA ConnectionsKeep ==
    ASSUME NoticesInv, N!Connect \/ N!Subscribe \/ N!Disconnect \/ N!Restart
    PROVE  NoticesInv'
<1>1. N!TypeOK /\ file = list
  BY DEF NoticesInv
<1>2. CASE N!Connect \/ N!Subscribe
  <2>1. UNCHANGED <<list, file, pending, snapshot, chan, view, asked, raced>> /\ conn' \in {"open", "subscribed"}
    BY <1>2 DEF N!Connect, N!Subscribe
  <2>2. N!TypeOK'
    BY <1>1, <2>1 DEF N!TypeOK
  <2> QED
    BY <2>1, <2>2, ListStays
<1>3. N!Empty \in N!Views
  BY DEF N!Empty, N!Views
<1>4. \A n \in 0..Len(chan) : SubSeq(chan, 1, n) \in Seq(N!Events)
  BY <1>1 DEF N!TypeOK
<1>5. CASE N!Disconnect
  <2>1. UNCHANGED <<list, file, pending, view, asked, raced>> /\ conn' = "off" /\ snapshot' = N!Empty
    BY <1>5 DEF N!Disconnect
  <2>2. chan' \in Seq(N!Events)
    BY <1>4, <1>5 DEF N!Disconnect
  <2>3. N!TypeOK'
    BY <1>1, <1>3, <2>1, <2>2 DEF N!TypeOK
  <2> QED
    BY <2>1, <2>3, ListStays
<1>6. CASE N!Restart
  <2>1. /\ list' = file /\ UNCHANGED <<file, view, raced>>
        /\ conn' = "off" /\ snapshot' = N!Empty /\ asked' = {}
        /\ pending' = [w \in Writers |-> <<>>]
    BY <1>6 DEF N!Restart
  <2>2. chan' \in Seq(N!Events)
    BY <1>4, <1>6 DEF N!Restart
  <2>3. pending' \in [Writers -> Seq(N!Events)] /\ \A w \in Writers : pending'[w] = <<>>
    BY <2>1
  <2>4. N!TypeOK'
    BY <1>1, <1>3, <2>1, <2>2, <2>3 DEF N!TypeOK
  <2>5. InOrder'
    BY <2>1, <2>3 DEF InOrder, N!Busy, TrueToList
  <2> QED
    BY <1>1, <2>1, <2>4, <2>5 DEF NoticesInv
<1> QED
  BY <1>2, <1>5, <1>6

\* No event is to be sent, or those of one change, which the copy has.
LEMMA CopyKeeps == ASSUME NoticesInv, N!CopyList PROVE NoticesInv'
<1>1. /\ UNCHANGED <<list, file, pending, chan, view, asked>>
      /\ snapshot' = N!TextsOf(list) /\ conn' = "cloned"
      /\ raced' = (raced /\ \E w \in Writers : N!Busy(w))
  BY DEF N!CopyList
<1>2. N!TypeOK /\ file = list
  BY DEF NoticesInv
<1>3. N!TypeOK'
  <2>1. N!TextsOf(list) \in N!Views
    BY <1>2 DEF N!TypeOK, N!TextsOf, N!Views, N!Lists, N!Notice, N!Missing
  <2>2. raced' \in BOOLEAN
    BY <1>1
  <2> QED
    BY <1>1, <1>2, <2>1, <2>2 DEF N!TypeOK
<1>4. ASSUME ~raced' PROVE InOrder'
  <2>1. (\A u, t \in Writers : N!Busy(u) /\ N!Busy(t) => u = t) /\ \A w \in Writers : TrueToList(w)
    <3>1. CASE raced
      <4>1. \A w \in Writers : ~N!Busy(w)
        BY <1>1, <1>4, <3>1
      <4> QED
        BY <4>1 DEF N!Busy, TrueToList
    <3>2. CASE ~raced
      BY <3>2 DEF NoticesInv, InOrder
    <3> QED
      BY <3>1, <3>2
  <2>2. (\A u, t \in Writers : N!Busy(u) /\ N!Busy(t) => u = t)' /\ \A w \in Writers : TrueToList(w)'
    BY <1>1, <2>1 DEF N!Busy, TrueToList
  <2>3. (snapshot = N!TextsOf(list))'
    BY <1>1 DEF N!TextsOf
  <2> QED
    BY <1>1, <2>2, <2>3 DEF InOrder
<1> QED
  BY <1>1, <1>2, <1>3, <1>4 DEF NoticesInv

LEMMA SendKeeps == ASSUME NoticesInv, N!SendList PROVE NoticesInv'
<1> DEFINE e == N!All(snapshot)
<1>1. /\ UNCHANGED <<list, file, pending, view, asked, raced>>
      /\ conn = "cloned" /\ conn' = "live" /\ snapshot' = N!Empty /\ chan' = Append(chan, e)
  BY DEF N!SendList
<1>2. N!TypeOK
  BY DEF NoticesInv
<1>3. e \in N!Events /\ e.kind = "notices" /\ e.view = snapshot /\ chan \in Seq(N!Events)
  BY <1>2 DEF N!TypeOK, N!All, N!Events
<1> HIDE DEF e
<1>4. N!TypeOK'
  <2>1. N!Empty \in N!Views /\ chan' \in Seq(N!Events)
    BY <1>1, <1>3 DEF N!Empty, N!Views
  <2> QED
    BY <1>1, <1>2, <2>1 DEF N!TypeOK
<1>5. ASSUME ~raced, NEW id \in Ids PROVE ToldOf(id)'
  <2>1. snapshot = N!TextsOf(list)
    BY <1>1, <1>5 DEF NoticesInv, InOrder
  <2>2. N!About(e, id) /\ N!Says(e, id) = list[id].text
    BY <1>3, <1>5, <2>1 DEF N!About, N!Says, N!TextsOf
  <2>3. N!Leave(view, Append(chan, e), id, list[id].text)
    BY <1>3, <2>2, EventAdded
  <2> QED
    BY <1>1, <2>3 DEF ToldOf
<1> QED
  BY <1>1, <1>4, <1>5, ListStays

LEMMA ReceiveKeeps == ASSUME NoticesInv, N!Receive PROVE NoticesInv'
<1>1. /\ UNCHANGED <<list, file, pending, conn, snapshot, asked, raced>>
      /\ chan # <<>> /\ view' = N!MindEvent(view, Head(chan)) /\ chan' = Tail(chan)
  BY DEF N!Receive
<1>2. N!TypeOK /\ view \in N!Views /\ chan \in Seq(N!Events)
  BY DEF NoticesInv, N!TypeOK
<1>3. N!TypeOK'
  <2>1. view' \in N!Views /\ chan' \in Seq(N!Events)
    BY <1>1, <1>2, TailOfEvents, EventTells
  <2> QED
    BY <1>1, <1>2, <2>1 DEF N!TypeOK
<1>4. ASSUME ~raced, conn = "live", NEW id \in Ids PROVE ToldOf(id)'
  <2>1. ToldOf(id)
    BY <1>4 DEF NoticesInv, InOrder
  <2>2. \A x : N!Leave(view, chan, id, x) => N!Leave(N!MindEvent(view, Head(chan)), Tail(chan), id, x)
    BY <1>1, <1>2, EventRead
  <2>3. CASE Announcing(id)
    BY <1>1, <2>3 DEF Announcing, ToldOf
  <2>4. CASE N!Leave(view, chan, id, list[id].text)
    BY <1>1, <2>2, <2>4 DEF ToldOf
  <2>5. CASE N!Asked(id) /\ N!Leave(view, chan, id, NoNotice)
    <3>1. N!Asked(id)'
      BY <1>1, <2>5 DEF N!Asked
    <3> QED
      BY <1>1, <2>2, <2>5, <3>1 DEF ToldOf
  <2> QED
    BY <2>1, <2>3, <2>4, <2>5 DEF ToldOf
<1>5. ~raced /\ conn' = "cloned" => snapshot' = N!TextsOf(list)
  BY <1>1 DEF NoticesInv, InOrder
<1> QED
  BY <1>1, <1>3, <1>4, <1>5, ListStays

\* What the shell drops it has asked for.
LEMMA ShellDismissKeeps ==
    ASSUME NoticesInv, NEW target \in N!Targets, N!ShellDismiss(target)
    PROVE  NoticesInv'
<1>1. /\ UNCHANGED <<list, file, pending, conn, snapshot, chan, raced>>
      /\ view' = [id \in Ids |-> IF id \in target THEN NoNotice ELSE view[id]]
      /\ asked' = asked \cup {target}
  BY DEF N!ShellDismiss
<1>2. N!TypeOK /\ view \in N!Views
  BY DEF NoticesInv, N!TypeOK
<1>3. N!TypeOK'
  <2>1. view' \in N!Views
    BY <1>1, <1>2 DEF N!Views
  <2> QED
    BY <1>1, <1>2, <2>1 DEF N!TypeOK
<1>4. \A id \in Ids : (id \in target \/ N!Asked(id)) => N!Asked(id)'
  BY <1>1 DEF N!Asked
<1>5. ASSUME ~raced, conn = "live", NEW id \in Ids PROVE ToldOf(id)'
  <2>1. ToldOf(id)
    BY <1>5 DEF NoticesInv, InOrder
  <2>2. view'[id] = IF id \in target THEN NoNotice ELSE view[id]
    BY <1>1
  <2>3. \A x : N!Leave(view, chan, id, x) => N!Leave(view', chan, id, x) \/ N!Leave(view', chan, id, view'[id])
    BY CopyChanged
  <2>4. \A x : view'[id] = view[id] /\ N!Leave(view, chan, id, x) => N!Leave(view', chan, id, x)
    BY CopyChanged
  <2>5. CASE Announcing(id)
    BY <1>1, <2>5 DEF Announcing, ToldOf
  <2>6. CASE N!Leave(view, chan, id, list[id].text)
    <3>1. CASE id \in target
      BY <1>1, <1>4, <2>2, <2>3, <2>6, <3>1 DEF ToldOf
    <3>2. CASE id \notin target
      BY <1>1, <2>2, <2>4, <2>6, <3>2 DEF ToldOf
    <3> QED
      BY <3>1, <3>2
  <2>7. CASE N!Asked(id) /\ N!Leave(view, chan, id, NoNotice)
    <3>1. N!Leave(view', chan, id, NoNotice)
      BY <2>2, <2>3, <2>4, <2>7
    <3> QED
      BY <1>1, <1>4, <2>7, <3>1 DEF ToldOf
  <2> QED
    BY <2>1, <2>5, <2>6, <2>7 DEF ToldOf
<1>6. ~raced /\ conn' = "cloned" => snapshot' = N!TextsOf(list)
  BY <1>1 DEF NoticesInv, InOrder
<1> QED
  BY <1>1, <1>3, <1>5, <1>6, ListStays

LEMMA NoticesInvStep == NoticesInv /\ [N!Next]_noticeVars => NoticesInv'
<1> SUFFICES ASSUME NoticesInv, [N!Next]_noticeVars PROVE NoticesInv'
  OBVIOUS
<1>1. ASSUME NEW w \in Writers, NEW id \in Ids, NEW n \in N!Notice, N!Post(w, id, n) PROVE NoticesInv'
  BY <1>1, PostKeeps
<1>2. ASSUME NEW w \in Writers, NEW target \in N!Targets, N!Dismiss(w, target) \/ N!DismissNotice(w, target)
      PROVE  NoticesInv'
  BY <1>2, DismissalsKeep
<1>3. ASSUME NEW w \in Writers, NEW keep \in SUBSET HealthIds, N!RetainPrefix(w, keep) PROVE NoticesInv'
  BY <1>3, DismissalsKeep
<1>4. ASSUME NEW w \in Writers, N!Broadcast(w) PROVE NoticesInv'
  BY <1>4, BroadcastKeeps
<1>5. CASE N!Connect \/ N!Subscribe \/ N!Disconnect \/ N!Restart
  BY <1>5, ConnectionsKeep
<1>6. CASE N!CopyList \/ N!SendList \/ N!Receive
  BY <1>6, CopyKeeps, SendKeeps, ReceiveKeeps
<1>7. ASSUME NEW target \in N!Targets, N!ShellDismiss(target) PROVE NoticesInv'
  BY <1>7, ShellDismissKeeps
<1>8. CASE UNCHANGED noticeVars
  <2>1. UNCHANGED <<list, file, pending, conn, snapshot, chan, view, asked, raced>>
    BY <1>8 DEF noticeVars
  <2>2. N!TypeOK'
    BY <2>1 DEF NoticesInv, N!TypeOK
  <2>3. InOrder => InOrder'
    BY <2>1 DEF InOrder, N!Busy, TrueToList, N!TextsOf, ToldOf, Announcing, N!Asked
  <2> QED
    BY <2>1, <2>2, <2>3 DEF NoticesInv
<1> QED
  BY <1>1, <1>2, <1>3, <1>4, <1>5, <1>6, <1>7, <1>8 DEF N!Next

\* Events that are followed by one change's.
LEMMA ThenTold ==
    ASSUME NEW v, NEW s \in Seq(N!Events), NEW p \in Seq(N!Events), NEW id, NEW x,
           \A i \in DOMAIN p : p[i].kind # "notices",
           \A i, j \in DOMAIN p : p[i].id = p[j].id => i = j
    PROVE  /\ N!Leave(v, s, id, x) /\ (\A i \in DOMAIN p : p[i].id # id) => N!Leave(v, s \o p, id, x)
           /\ (\E i \in DOMAIN p : p[i].id = id /\ N!Says(p[i], id) = x) => N!Leave(v, s \o p, id, x)
<1> DEFINE t == s \o p
           n == Len(s)
<1>1. t \in Seq(N!Events) /\ n \in Nat /\ Len(t) = n + Len(p)
  OBVIOUS
<1>2. DOMAIN s = 1..n /\ DOMAIN p = 1..Len(p) /\ DOMAIN t = 1..(n + Len(p)) /\ Len(p) \in Nat
  BY <1>1
<1>3. (\A i \in DOMAIN s : t[i] = s[i]) /\ \A i \in DOMAIN p : t[n + i] = p[i]
  OBVIOUS
<1> HIDE DEF t, n
<1>4. /\ \A i \in DOMAIN s : i \in DOMAIN t /\ i <= n
      /\ \A i \in DOMAIN p : n + i \in DOMAIN t /\ n + i > n
  BY <1>1, <1>2
<1>5. \A i \in DOMAIN t : i \in DOMAIN s \/ (i - n \in DOMAIN p /\ t[i] = p[i - n])
  <2>1. \A i \in DOMAIN t : i \in DOMAIN s \/ (i - n \in DOMAIN p /\ n + (i - n) = i)
    BY <1>1, <1>2
  <2> QED
    BY <1>3, <2>1
<1>6. ASSUME N!Leave(v, s, id, x), \A i \in DOMAIN p : p[i].id # id PROVE N!Leave(v, t, id, x)
  <2>0. \A i \in DOMAIN p : ~N!About(p[i], id)
    BY <1>6 DEF N!About
  <2>1. CASE v[id] = x /\ \A i \in DOMAIN s : ~N!About(s[i], id)
    BY <1>3, <1>5, <2>0, <2>1 DEF N!Leave
  <2>2. ASSUME NEW i \in DOMAIN s, N!About(s[i], id), N!Says(s[i], id) = x,
               \A j \in DOMAIN s : j > i => ~N!About(s[j], id)
        PROVE  N!Leave(v, t, id, x)
    <3>1. \A j \in DOMAIN t : j > i => ~N!About(t[j], id)
      BY <1>3, <1>5, <2>0, <2>2
    <3> QED
      BY <1>3, <1>4, <2>2, <3>1 DEF N!Leave
  <2> QED
    BY <1>6, <2>1, <2>2 DEF N!Leave
<1>7. ASSUME NEW i \in DOMAIN p, p[i].id = id, N!Says(p[i], id) = x PROVE N!Leave(v, t, id, x)
  <2>1. N!About(t[n + i], id) /\ N!Says(t[n + i], id) = x
    BY <1>3, <1>7 DEF N!About
  <2>2. ASSUME NEW j \in DOMAIN t, j > n + i PROVE ~N!About(t[j], id)
    <3>1. j - n \in DOMAIN p /\ t[j] = p[j - n] /\ j - n # i
      BY <1>1, <1>2, <1>5, <2>2
    <3> QED
      BY <1>7, <3>1 DEF N!About
  <2> QED
    BY <1>4, <2>1, <2>2 DEF N!Leave
<1> QED
  BY <1>6, <1>7 DEF t

\* At most one task has events on their way, all of them true; before them
\* come the copy of the list, or what is on the shell's channel.
LEMMA InvTells == NoticesInv => N!EventsTellTheList
<1> SUFFICES ASSUME NoticesInv, conn \in {"cloned", "live"}, ~raced, NEW id \in Ids
             PROVE  \/ N!Leave(view, N!OnItsWay, id, list[id].text)
                    \/ N!Asked(id) /\ N!Leave(view, N!OnItsWay, id, NoNotice)
  BY DEF N!EventsTellTheList
<1> DEFINE s == chan \o (IF conn = "cloned" THEN <<N!All(snapshot)>> ELSE <<>>)
           p == IF \E w \in Writers : N!Busy(w) THEN pending[CHOOSE w \in Writers : N!Busy(w)] ELSE <<>>
           q == N!OnItsWay
<1>1. N!TypeOK /\ InOrder
  BY DEF NoticesInv
<1>2. q = s \o p
  BY DEF N!OnItsWay
<1>3. \A w \in Writers : pending[w] = p \/ pending[w] = <<>>
  <2>1. CASE \E w \in Writers : N!Busy(w)
    <3>1. (CHOOSE w \in Writers : N!Busy(w)) \in Writers /\ N!Busy(CHOOSE w \in Writers : N!Busy(w))
      BY <2>1
    <3>2. p = pending[CHOOSE w \in Writers : N!Busy(w)]
      BY <2>1
    <3> QED
      BY <1>1, <3>1, <3>2 DEF InOrder, N!Busy
  <2>2. CASE ~\E w \in Writers : N!Busy(w)
    BY <2>2 DEF N!Busy
  <2> QED
    BY <2>1, <2>2
<1>4. p = <<>> \/ \E w \in Writers : p = pending[w]
  <2>1. CASE \E w \in Writers : N!Busy(w)
    <3>1. (CHOOSE w \in Writers : N!Busy(w)) \in Writers
      BY <2>1
    <3> QED
      BY <2>1, <3>1
  <2> QED
    BY <2>1
<1>5. /\ p \in Seq(N!Events)
      /\ \A i \in DOMAIN p : p[i].kind # "notices" /\ N!Says(p[i], p[i].id) = list[p[i].id].text
      /\ \A i, j \in DOMAIN p : p[i].id = p[j].id => i = j
  <2> HIDE DEF p
  <2>1. CASE p = <<>>
    BY <2>1
  <2>2. CASE \E w \in Writers : p = pending[w]
    <3>1. PICK w \in Writers : p = pending[w]
      BY <2>2
    <3>2. p \in Seq(N!Events) /\ TrueToList(w)
      BY <1>1, <3>1 DEF InOrder, N!TypeOK
    <3> QED
      BY <3>1, <3>2 DEF TrueToList
  <2> QED
    BY <1>4, <2>1, <2>2
<1>6. chan \in Seq(N!Events) /\ N!All(snapshot) \in N!Events
  BY <1>1 DEF N!TypeOK, N!All, N!Events
<1> HIDE DEF p, q
<1>7. s \in Seq(N!Events)
  <2>1. CASE conn = "cloned"
    BY <1>6, <2>1
  <2>2. CASE conn # "cloned"
    BY <1>6, <2>2
  <2> QED
    BY <2>1, <2>2
<1>8. Announcing(id) <=> \E i \in DOMAIN p : p[i].id = id
  BY <1>3, <1>4 DEF Announcing
<1>9. ASSUME NEW x, N!Leave(view, s, id, x), ~Announcing(id) PROVE N!Leave(view, q, id, x)
  <2> HIDE DEF s
  <2> QED
    BY <1>2, <1>5, <1>7, <1>8, <1>9, ThenTold
<1>10. CASE Announcing(id)
  <2>1. \E i \in DOMAIN p : p[i].id = id /\ N!Says(p[i], id) = list[id].text
    BY <1>5, <1>8, <1>10
  <2> HIDE DEF s
  <2>2. N!Leave(view, q, id, list[id].text)
    BY <1>2, <1>5, <1>7, <2>1, ThenTold
  <2> QED
    BY <2>2 DEF q
<1>11. CASE ~Announcing(id) /\ conn = "cloned"
  <2>1. s = Append(chan, N!All(snapshot))
    BY <1>6, <1>11
  <2>2. N!About(N!All(snapshot), id) /\ N!Says(N!All(snapshot), id) = list[id].text
    BY <1>1, <1>11 DEF N!All, N!About, N!Says, InOrder, N!TextsOf
  <2> HIDE DEF s
  <2>3. N!Leave(view, s, id, list[id].text)
    BY <1>6, <2>1, <2>2, EventAdded
  <2> QED
    BY <1>9, <1>11, <2>3 DEF q
<1>12. CASE ~Announcing(id) /\ conn = "live"
  <2>1. s = chan
    BY <1>6, <1>12
  <2> HIDE DEF s
  <2>2. \/ N!Leave(view, chan, id, list[id].text)
        \/ N!Asked(id) /\ N!Leave(view, chan, id, NoNotice)
    BY <1>1, <1>12 DEF InOrder, ToldOf
  <2> QED
    BY <1>9, <1>12, <2>1, <2>2 DEF q
<1> QED
  BY <1>10, <1>11, <1>12

\* For any notices, tasks, subscriptions, dismissals, broken connections and
\* restarts of the daemon: unless changes have overlapped, what notices.rs
\* sends brings the shell's copy to the daemon's list.
THEOREM ShellIsTold == Spec => []EventsTellTheList
<1>1. Init => NoticesInv
  BY NoticesInvInit DEF Init
<1>2. [Next]_vars => [N!Next]_noticeVars
  BY DEF Next, vars, daemonVars, DaemonNext, BarSceneNext, ShellSceneNext, ServiceSceneNext
<1>3. NoticesInv /\ [Next]_vars => NoticesInv'
  BY <1>2, NoticesInvStep
<1>4. NoticesInv => EventsTellTheList
  BY InvTells DEF EventsTellTheList
<1> QED
  BY <1>1, <1>3, <1>4, PTL DEF Spec
=============================================================================
