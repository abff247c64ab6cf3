------------------------------ MODULE Notices ------------------------------
(***************************************************************************)
(* mindd/src/daemon/notices.rs and its main reader: the list of notices,   *)
(* its file, the events to subscribers, and the copy of the list that the  *)
(* desktop shell keeps from them (mindshell/src/mindwatch.rs, app.rs).     *)
(* Any task of the daemon may post and dismiss.  The list changes under    *)
(* its mutex; the events go out after the mutex is released, one by one,   *)
(* and a new subscriber's copy of the list is taken and sent in two steps. *)
(*                                                                         *)
(* Title, body and level of a notice are its text.  The order of the list, *)
(* newest first, is not represented.  chan is the whole way of an event:   *)
(* the connection's channel, the socket and the shell's event queue.       *)
(***************************************************************************)
EXTENDS Naturals, Sequences, SequencesExt

CONSTANTS
    Ids,         \* notice ids
    HealthIds,   \* a subset: those with the prefix "health:"
    Texts,       \* titles, bodies and levels
    Actions,     \* button lists
    Writers,     \* tasks of the daemon that post and dismiss
    NoNotice,
    MaxQueue     \* bound: events on their way to the shell

VARIABLES
    list,      \* Notices.list, by id
    file,      \* notices.json
    pending,   \* the events each task has yet to broadcast
    conn,      \* the shell's connection, as the daemon's task serves it
    snapshot,  \* the copy of the list that task holds
    chan,      \* events on their way to the shell
    view,      \* AppState.mind_notices: the shell's texts, by id
    asked,     \* dismissals the shell has asked for
    raced      \* auxiliary: two changes have overlapped since the connection

vars == <<list, file, pending, conn, snapshot, chan, view, asked, raced>>

Notice == [text : Texts, acts : Actions]
Missing == [text |-> NoNotice, acts |-> CHOOSE a \in Actions : TRUE]
Lists == [Ids -> Notice \cup {Missing}]
Views == [Ids -> Texts \cup {NoNotice}]

\* The list as a subscriber sees it.
TextsOf(l) == [id \in Ids |-> l[id].text]

\* DismissNotice names one id, or "*" for all.
Targets == {{id} : id \in Ids} \cup {Ids}

Posted(id, text) == [kind |-> "notice", id |-> id, text |-> text]
Gone(id) == [kind |-> "notice_gone", id |-> id]
All(v) == [kind |-> "notices", view |-> v]
Events ==
    [kind : {"notice"}, id : Ids, text : Texts] \cup [kind : {"notice_gone"}, id : Ids]
    \cup [kind : {"notices"}, view : Views]

TypeOK ==
    /\ list \in Lists /\ file \in Lists
    /\ pending \in [Writers -> Seq(Events)]
    /\ conn \in {"off", "open", "subscribed", "cloned", "live"}
    /\ snapshot \in Views
    /\ chan \in Seq(Events)
    /\ view \in Views
    /\ asked \subseteq Targets
    /\ raced \in BOOLEAN

Empty == [id \in Ids |-> NoNotice]

Init ==
    /\ list = [id \in Ids |-> Missing]
    /\ file = list
    /\ pending = [w \in Writers |-> <<>>]
    /\ conn = "off"
    /\ snapshot = Empty
    /\ chan = <<>>
    /\ view = Empty
    /\ asked = {}
    /\ raced = FALSE

-----------------------------------------------------------------------------
(***************************************************************************)
(* The store.                                                              *)
(***************************************************************************)

Busy(w) == pending[w] # <<>>

\* The list and its file change together, under the mutex; the events wait
\* for the task to go on.  A change overlaps another one whose events are
\* not out, or a copy of the list that is not sent.
Change(w, new, events) ==
    /\ list' = new
    /\ file' = new
    /\ pending' = [pending EXCEPT ![w] = events]
    /\ raced' = (raced \/ conn = "cloned" \/ \E u \in Writers : Busy(u))
    /\ UNCHANGED <<conn, snapshot, chan, view>>

\* Mutant: a notice is announced only when it is new.
PostOnlyNew(w, id, n) ==
    /\ ~Busy(w)
    /\ n # list[id]
    /\ Change(w, [list EXCEPT ![id] = n],
              IF list[id] = Missing THEN <<Posted(id, n.text)>> ELSE <<>>)
    /\ UNCHANGED asked

\* post: the same text with other buttons is stored and not announced; a
\* notice that is the same in every field changes nothing.
Post(w, id, n) ==
    /\ ~Busy(w)
    /\ n # list[id]
    /\ Change(w, [list EXCEPT ![id] = n],
              IF n.text # list[id].text THEN <<Posted(id, n.text)>> ELSE <<>>)
    /\ UNCHANGED asked

Withdraw(w, ids) ==
    LET removed == {id \in ids : list[id] # Missing}
    IN  IF removed = {}
        THEN UNCHANGED <<list, file, pending, conn, snapshot, chan, view, raced>>
        ELSE Change(w, [id \in Ids |-> IF id \in removed THEN Missing ELSE list[id]],
                    SetToSeq({Gone(id) : id \in removed}))

\* dismiss, called by the daemon's own tasks.
Dismiss(w, target) ==
    /\ ~Busy(w)
    /\ \E id \in target : list[id] # Missing
    /\ Withdraw(w, target)
    /\ UNCHANGED asked

\* Request::DismissNotice, on a connection of its own.
DismissNotice(w, target) ==
    /\ ~Busy(w)
    /\ target \in asked
    /\ Withdraw(w, target)
    /\ asked' = asked \ {target}

\* retain_prefix("health:", keep).
RetainPrefix(w, keep) ==
    /\ ~Busy(w)
    /\ \E id \in HealthIds \ keep : list[id] # Missing
    /\ Withdraw(w, HealthIds \ keep)
    /\ UNCHANGED asked

\* broadcast, of one event.
Broadcast(w) ==
    /\ Busy(w)
    /\ Len(chan) < MaxQueue
    /\ chan' = IF conn \in {"subscribed", "cloned", "live"}
               THEN Append(chan, Head(pending[w])) ELSE chan
    /\ pending' = [pending EXCEPT ![w] = Tail(@)]
    /\ UNCHANGED <<list, file, conn, snapshot, view, asked, raced>>

-----------------------------------------------------------------------------
(***************************************************************************)
(* The subscription.                                                       *)
(***************************************************************************)

\* mindwatch connects and sends Subscribe.
Connect ==
    /\ conn = "off"
    /\ conn' = "open"
    /\ UNCHANGED <<list, file, pending, snapshot, chan, view, asked, raced>>

\* Request::Subscribe: first the channel is registered, ...
Subscribe ==
    /\ conn = "open"
    /\ conn' = "subscribed"
    /\ UNCHANGED <<list, file, pending, snapshot, chan, view, asked, raced>>

\* ... then the list is copied.  What was missed before is made up for,
\* unless events of overlapping changes are still to come.
CopyList ==
    /\ conn = "subscribed"
    /\ snapshot' = TextsOf(list)
    /\ conn' = "cloned"
    /\ raced' = (raced /\ \E w \in Writers : Busy(w))
    /\ UNCHANGED <<list, file, pending, chan, view, asked>>

\* ... and sent.
SendList ==
    /\ conn = "cloned"
    /\ Len(chan) < MaxQueue
    /\ chan' = Append(chan, All(snapshot))
    /\ snapshot' = Empty
    /\ conn' = "live"
    /\ UNCHANGED <<list, file, pending, view, asked, raced>>

\* The connection breaks; what the daemon has not written is lost.
Disconnect ==
    /\ conn # "off"
    /\ conn' = "off"
    /\ snapshot' = Empty
    /\ \E n \in 0..Len(chan) : chan' = SubSeq(chan, 1, n)
    /\ UNCHANGED <<list, file, pending, view, asked, raced>>

\* The daemon stops and starts again: the list is read from its file.
Restart ==
    /\ list' = file
    /\ pending' = [w \in Writers |-> <<>>]
    /\ conn' = "off"
    /\ snapshot' = Empty
    /\ \E n \in 0..Len(chan) : chan' = SubSeq(chan, 1, n)
    /\ asked' = {}
    /\ UNCHANGED <<file, view, raced>>

-----------------------------------------------------------------------------
(***************************************************************************)
(* The shell.                                                              *)
(***************************************************************************)

\* mind_event.
MindEvent(v, e) ==
    CASE e.kind = "notice" -> [v EXCEPT ![e.id] = e.text]
      [] e.kind = "notice_gone" -> [v EXCEPT ![e.id] = NoNotice]
      [] e.kind = "notices" -> e.view

Receive ==
    /\ chan # <<>>
    /\ view' = MindEvent(view, Head(chan))
    /\ chan' = Tail(chan)
    /\ UNCHANGED <<list, file, pending, conn, snapshot, asked, raced>>

\* mind.dismiss: dropped here at once, and in the daemon by a request.
ShellDismiss(target) ==
    /\ \E id \in target : view[id] # NoNotice
    /\ view' = [id \in Ids |-> IF id \in target THEN NoNotice ELSE view[id]]
    /\ asked' = asked \cup {target}
    /\ UNCHANGED <<list, file, pending, conn, snapshot, chan, raced>>

Next ==
    \/ \E w \in Writers :
          \/ \E id \in Ids, n \in Notice : Post(w, id, n)
          \/ \E target \in Targets : Dismiss(w, target) \/ DismissNotice(w, target)
          \/ \E keep \in SUBSET HealthIds : RetainPrefix(w, keep)
          \/ Broadcast(w)
    \/ Connect \/ Subscribe \/ CopyList \/ SendList \/ Disconnect \/ Restart
    \/ Receive
    \/ \E target \in Targets : ShellDismiss(target)

Spec == Init /\ [][Next]_vars

-----------------------------------------------------------------------------
(***************************************************************************)
(* Properties.                                                             *)
(***************************************************************************)

\* The events on their way, in the order of their arrival.
OnItsWay ==
    chan \o (IF conn = "cloned" THEN <<All(snapshot)>> ELSE <<>>)
         \o (IF \E w \in Writers : Busy(w) THEN pending[CHOOSE w \in Writers : Busy(w)] ELSE <<>>)

\* The events about a notice, and the text they give it.
About(e, id) == e.kind = "notices" \/ e.id = id
Says(e, id) ==
    CASE e.kind = "notice" -> e.text
      [] e.kind = "notice_gone" -> NoNotice
      [] e.kind = "notices" -> e.view[id]

\* A copy of the list has text x for id once these events have arrived: the
\* last one about id says so, or none is about it and x is there already.
Leave(v, events, id, x) ==
    \/ v[id] = x /\ \A i \in DOMAIN events : ~About(events[i], id)
    \/ \E i \in DOMAIN events :
          /\ About(events[i], id)
          /\ Says(events[i], id) = x
          /\ \A j \in DOMAIN events : j > i => ~About(events[j], id)

Asked(id) == \E target \in asked : id \in target

\* As long as no two changes overlap, the events in the order they are sent
\* (notices.rs:67-136, server.rs:151-160) bring the shell's copy to the
\* daemon's list: none is missing, doubled up or left over, whenever the
\* shell subscribed, whatever was lost with an earlier connection; and a
\* reconnect repairs what an overlap has spoiled.  A notice the user has
\* just dismissed may still be in the list.
EventsTellTheList ==
    conn \in {"cloned", "live"} /\ ~raced =>
        \A id \in Ids :
            \/ Leave(view, OnItsWay, id, list[id].text)
            \/ Asked(id) /\ Leave(view, OnItsWay, id, NoNotice)
=============================================================================
