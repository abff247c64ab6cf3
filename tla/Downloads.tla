------------------------------ MODULE Downloads ------------------------------
(***************************************************************************)
(* mindd/src/daemon/models.rs: the download of a model.  A connection task *)
(* announces it under the lock, clears the cancel flag after the unlock    *)
(* and spawns a task that runs curl, moves the file into place, marks the  *)
(* download as done and may then choose the model.  Any connection may     *)
(* raise the flag at any time; the daemon may crash and leave a .part that *)
(* the next curl goes on with (-C -).                                      *)
(*                                                                         *)
(* A request names the url and the file separately, and curl's -C - goes   *)
(* on from the length of the .part, whatever url its bytes are of.         *)
(***************************************************************************)
EXTENDS Naturals, FiniteSets

CONSTANTS
    Files,        \* names that valid_file_name and allowed_url accept
    NoFile,
    Urls,
    NoUrl,
    Starters,     \* connection tasks that ask for downloads
    MaxDownloads  \* bound: downloads that are announced

ASSUME DownloadAssumption ==
    /\ NoFile \notin Files /\ NoUrl \notin Urls
    /\ MaxDownloads \in Nat

VARIABLES
    download,   \* Daemon.download: the file, "none" before the first
    flag,       \* Daemon.download_cancel
    starter,    \* what each connection task has announced and not spawned
    fetcher,    \* each download's task: where it is, its file and its url
    part,       \* each .part: its length (0, 1, or 2 for all of it), the urls
                \* its bytes are of, and those whose bytes nobody was to go on with
    model,      \* each model in place: the same, and the url that was asked for
    chosen,     \* where default.gguf points
    announced   \* downloads so far

downloadVars == <<download, flag, starter, fetcher, part, model, chosen, announced>>

Whole == 2
NoDownload == [file |-> NoFile, done |-> TRUE, error |-> FALSE]
Fetchers == 1..MaxDownloads
NoStarter == [file |-> NoFile, url |-> NoUrl]
NoFetcher == [at |-> "none", file |-> NoFile, url |-> NoUrl]
NoPart == [len |-> 0, from |-> {}, left |-> {}]
NoModel == [len |-> 0, from |-> {}, left |-> {}, url |-> NoUrl]

DownloadTypeOK ==
    /\ download \in [file : Files \cup {NoFile}, done : BOOLEAN, error : BOOLEAN]
    /\ flag \in BOOLEAN
    /\ starter \in [Starters -> [file : Files \cup {NoFile}, url : Urls \cup {NoUrl}]]
    /\ fetcher \in [Fetchers -> [at : {"none", "curl", "move", "remove", "use"},
                                 file : Files \cup {NoFile}, url : Urls \cup {NoUrl}]]
    /\ part \in [Files -> [len : 0..Whole, from : SUBSET Urls, left : SUBSET Urls]]
    /\ model \in [Files -> [len : 0..Whole, from : SUBSET Urls, left : SUBSET Urls,
                             url : Urls \cup {NoUrl}]]
    /\ chosen \in Files \cup {NoFile}
    /\ announced \in 0..MaxDownloads

DownloadInit ==
    /\ download = NoDownload
    /\ flag = FALSE
    /\ starter = [s \in Starters |-> NoStarter]
    /\ fetcher = [i \in Fetchers |-> NoFetcher]
    /\ part = [f \in Files |-> NoPart]
    /\ model = [f \in Files |-> NoModel]
    /\ chosen = NoFile
    /\ announced = 0

Fetch(i, at) == fetcher' = [fetcher EXCEPT ![i].at = at]
Finish(error) == download' = [download EXCEPT !.done = TRUE, !.error = error]

\* What this file holds stays behind, for any later download of the name.
LeftBehind(p) == [p EXCEPT !.left = p.from]

\* start_download, under the lock: one at a time.
Announce(s) ==
    /\ starter[s] = NoStarter
    /\ announced < MaxDownloads
    /\ download.done
    /\ \E f \in Files, u \in Urls :
          /\ download' = [file |-> f, done |-> FALSE, error |-> FALSE]
          /\ starter' = [starter EXCEPT ![s] = [file |-> f, url |-> u]]
    /\ announced' = announced + 1
    /\ UNCHANGED <<flag, fetcher, part, model, chosen>>

\* ... the flag is cleared, along with a cancel that came in between, and the
\* task is spawned.
Spawn(s) ==
    /\ starter[s] # NoStarter
    /\ flag' = FALSE
    /\ fetcher' = [fetcher EXCEPT ![announced] =
                       [at |-> "curl", file |-> starter[s].file, url |-> starter[s].url]]
    /\ starter' = [starter EXCEPT ![s] = NoStarter]
    /\ UNCHANGED <<download, part, model, chosen, announced>>

CancelDownload ==
    /\ flag' = TRUE
    /\ UNCHANGED <<download, starter, fetcher, part, model, chosen, announced>>

\* run_curl: more bytes arrive; ...
CurlWrites(i) ==
    /\ fetcher[i].at = "curl"
    /\ LET p == part[fetcher[i].file]
       IN  /\ p.len < Whole
           /\ part' = [part EXCEPT ![fetcher[i].file] =
                           [len |-> p.len + 1, from |-> p.from \cup {fetcher[i].url}, left |-> p.left]]
    /\ UNCHANGED <<download, flag, starter, fetcher, model, chosen, announced>>

\* ... curl ends well with the whole file; ...
CurlSucceeds(i) ==
    /\ fetcher[i].at = "curl"
    /\ part[fetcher[i].file].len = Whole
    /\ Fetch(i, "move")
    /\ UNCHANGED <<download, flag, starter, part, model, chosen, announced>>

\* Mutant: a curl that failed has left something to use.
CurlFailsSoftly(i) ==
    /\ fetcher[i].at = "curl"
    /\ Fetch(i, "move")
    /\ UNCHANGED <<download, flag, starter, part, model, chosen, announced>>

\* ... it fails after its three retries, or is killed for the flag.
CurlFails(i) ==
    /\ fetcher[i].at = "curl"
    /\ Fetch(i, "remove")
    /\ UNCHANGED <<download, flag, starter, part, model, chosen, announced>>

\* The file is moved into place and the download marked as done; a failed
\* rename leaves both as they are, ...
Move(i) ==
    /\ fetcher[i].at = "move"
    /\ LET f == fetcher[i].file
       IN  \/ /\ model' = [model EXCEPT ![f] = [len |-> part[f].len, from |-> part[f].from,
                                                  left |-> part[f].left, url |-> fetcher[i].url]]
              /\ part' = [part EXCEPT ![f] = NoPart]
              /\ Finish(FALSE)
              /\ \E at \in {"use", "none"} : Fetch(i, at)
           \/ /\ Finish(TRUE)
              /\ Fetch(i, "none")
              /\ part' = [part EXCEPT ![f] = LeftBehind(@)]
              /\ UNCHANGED model
    /\ UNCHANGED <<flag, starter, chosen, announced>>

\* ... and so does a failed removal, whose error is dropped.
RemovePart(i) ==
    /\ fetcher[i].at = "remove"
    /\ \/ part' = [part EXCEPT ![fetcher[i].file] = NoPart]
       \/ part' = [part EXCEPT ![fetcher[i].file] = LeftBehind(@)]
    /\ Finish(TRUE)
    /\ Fetch(i, "none")
    /\ UNCHANGED <<flag, starter, model, chosen, announced>>

\* use_after: set_model, by when another download may be under way.
UseAfter(i) ==
    /\ fetcher[i].at = "use"
    /\ chosen' = fetcher[i].file
    /\ Fetch(i, "none")
    /\ UNCHANGED <<download, flag, starter, part, model, announced>>

\* The daemon dies with its curl, and starts again.
DownloadCrash ==
    /\ download' = NoDownload
    /\ flag' = FALSE
    /\ starter' = [s \in Starters |-> NoStarter]
    /\ fetcher' = [i \in Fetchers |-> NoFetcher]
    /\ part' = [f \in Files |-> LeftBehind(part[f])]
    /\ UNCHANGED <<model, chosen, announced>>

DownloadNext ==
    \/ \E s \in Starters : Announce(s) \/ Spawn(s)
    \/ CancelDownload
    \/ \E i \in Fetchers : CurlWrites(i) \/ CurlSucceeds(i) \/ CurlFails(i)
                           \/ Move(i) \/ RemovePart(i) \/ UseAfter(i)
    \/ DownloadCrash

DownloadSpec == DownloadInit /\ [][DownloadNext]_downloadVars

-----------------------------------------------------------------------------
\* Writers of a .part file, announced ones that are about to start included.
WritersOf(f) ==
    {i \in Fetchers : fetcher[i].file = f /\ fetcher[i].at \in {"curl", "move", "remove"}}

\* Two tasks never work on one .part; no model is in place, or chosen, that is
\* cut short: not after a cancel, a failed curl, a crash, or a second download
\* of the same file while the first is being put away; and every byte of a
\* model is of the url it was asked for from, or was left in the .part by a
\* crash, a failed rename or a failed removal (models.rs:218-262).  Those the
\* code does join to the bytes of the next url.
OnlyWholeModels ==
    /\ \A f \in Files : /\ Cardinality(WritersOf(f)) <= 1
                         /\ model[f].len \in {0, Whole}
                         /\ model[f].from \subseteq {model[f].url} \cup model[f].left
    /\ chosen # NoFile => model[chosen].len = Whole
=============================================================================
