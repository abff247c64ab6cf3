------------------------------ MODULE MCDaemon ------------------------------
(***************************************************************************)
(* Tasks of the daemon.  The agent: two connections with three chats,      *)
(* without calls, on one session; one connection with two chats of two     *)
(* rounds and a call in each; or one connection with a chat of two rounds  *)
(* and two calls in each.  Or the record of the last update.  They share   *)
(* nothing: the parts that are not at work stay as they are.               *)
(***************************************************************************)
EXTENDS Agent, UpdateRecord

VARIABLE scene

AgentScenes == {"sessions", "rounds", "calls"}

\* The tasks that judge the record are not there.
NoRecordTasks ==
    /\ rec = NoRecord
    /\ txn = 0
    /\ stale = FALSE /\ broken = FALSE /\ young = FALSE
    /\ boots = 0
    /\ notices = {}
    /\ pc = [t \in Tasks |-> "away"]
    /\ got = [t \in Tasks |-> NoRecord]
    /\ found = [t \in Tasks |-> NoFindings]
    /\ started = 0
    /\ overlap = FALSE

DaemonInit ==
    /\ scene \in AgentScenes \cup {"record"}
    /\ Init
    /\ IF scene = "record" THEN RecordInit ELSE NoRecordTasks

Alone == CHOOSE c \in Conns : TRUE
OnlyOne == \A c \in Conns \ {Alone} : conn'[c] = conn[c] /\ queue'[c] = queue[c]
OneCallEach == \A c \in Conns : conn'[c].many <= 1

AgentNext ==
    /\ Next
    /\ CASE scene = "sessions" -> \A c \in Conns : conn'[c].pc # "call"
         [] scene = "rounds"   -> OnlyOne /\ OneCallEach /\ turns' <= 2
         [] scene = "calls"    -> OnlyOne /\ turns' <= 1

DaemonNext ==
    /\ UNCHANGED scene
    /\ \/ scene \in AgentScenes /\ AgentNext /\ UNCHANGED recordVars
       \/ scene = "record" /\ RecordNext /\ UNCHANGED vars

DaemonSpec ==
    /\ DaemonInit
    /\ [][DaemonNext]_<<scene, vars, recordVars>>
    /\ \A c \in Conns : WF_vars(Progress(c))
    /\ Fairness
=============================================================================
