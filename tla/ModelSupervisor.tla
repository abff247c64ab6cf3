-------------------------- MODULE ModelSupervisor --------------------------
(***************************************************************************)
(* mindd keeps one llama-server process running: the task supervise_model  *)
(* (mindd/src/bin/mindd.rs) starts it, waits until it answers, watches it, *)
(* and starts it again.  Connection tasks change what it should run        *)
(* (set_model, set_thinking) or whether it should run at all (set_sleep),  *)
(* and tell the supervisor through a tokio Notify, which holds at most one *)
(* permit.  The runtime is multi-threaded, so every access to an atomic or *)
(* to a mutex is a step of its own that other tasks may interleave with.   *)
(***************************************************************************)
EXTENDS Naturals, FiniteSets, TLC

CONSTANTS
    Models,      \* the .gguf files in models_dir
    NoModel,     \* no file: an absent default.gguf link, or nothing to run
    AutoModel,   \* what select_model picks when there is no default.gguf
    WantsGpu,    \* config.model.gpu_layers # 0
    Clients      \* connection tasks

ASSUME SupervisorAssumption ==
    /\ NoModel \notin Models
    /\ AutoModel \in Models \cup {NoModel}
    /\ WantsGpu \in BOOLEAN

VARIABLES
    link,        \* target of default.gguf, NoModel when the link is absent
    thinking,    \* Daemon.thinking
    sleeping,    \* Daemon.sleeping
    ready,       \* Daemon.ready
    name,        \* Daemon.model_name
    permit,      \* the permit held by Daemon.restart
    cpuNotice,   \* the "running on the processor" notice is posted
    pc,          \* where supervise_model is
    local,       \* the locals of supervise_model
    server,      \* the llama-server child process, or NoServer
    task         \* what each connection task is doing

shared == <<link, thinking, sleeping, ready, name, permit, cpuNotice>>
vars == <<shared, pc, local, server, task>>

\* No llama-server child.
NoServer == [model |-> NoModel, gpu |-> FALSE, thinking |-> FALSE]

Server == [model : Models \cup {NoModel}, gpu : BOOLEAN, thinking : BOOLEAN]

\* Seconds to wait after a failed start: doubled up to a minute.
MinBackoff == 2
MaxBackoff == 60

Locals ==
    [model : Models \cup {NoModel}, last : Models \cup {NoModel}, thinking : BOOLEAN,
     gpu : BOOLEAN, gpuFailed : {"no", "recently", "cooled"}, backoff : MinBackoff..MaxBackoff]

Labels == {"(loading)", "(sleeping)", "(no model)"}

SupervisorStates ==
    {"top", "sleepWait", "select", "noModelWait", "think", "publish", "spawn",
     "starting", "restartKill", "failKill", "backoffWait", "publishReady", "supervise",
     "recheck", "kill", "clear"}

TaskStates == {"idle", "req1", "req2", "req3", "notify", "chat", "wakeNotify", "wakeWait", "chatReady", "answering"}

\* llm::select_model: default.gguf wins, else the automatic choice.
SelectModel == IF link # NoModel THEN link ELSE AutoModel

TypeOK ==
    /\ link \in Models \cup {NoModel}
    /\ thinking \in BOOLEAN
    /\ sleeping \in BOOLEAN
    /\ ready \in BOOLEAN
    /\ name \in Models \cup {NoModel} \cup Labels
    /\ permit \in BOOLEAN
    /\ cpuNotice \in BOOLEAN
    /\ pc \in SupervisorStates
    /\ local \in Locals
    /\ server \in Server
    /\ task \in [Clients -> TaskStates]

Init ==
    /\ link \in Models \cup {NoModel}
    /\ thinking \in BOOLEAN
    /\ sleeping = FALSE
    /\ ready = FALSE
    /\ name = "(loading)"
    /\ permit = FALSE
    /\ cpuNotice = FALSE
    /\ pc = "top"
    /\ local = [model |-> NoModel, last |-> NoModel, thinking |-> FALSE,
                gpu |-> WantsGpu, gpuFailed |-> "no", backoff |-> MinBackoff]
    /\ server = NoServer
    /\ task = [c \in Clients |-> "idle"]

-----------------------------------------------------------------------------
(***************************************************************************)
(* The connection tasks.                                                   *)
(***************************************************************************)

Goto(c, st) == task' = [task EXCEPT ![c] = st]

\* A connection task handles one request at a time.
Begin(c, st) == task[c] = "idle" /\ Goto(c, st)

\* Daemon::set_model: the link is replaced (or removed, for "auto"), then
\* request_restart runs.
SetModel(c, m) ==
    /\ Begin(c, "req1")
    /\ link' = m
    /\ UNCHANGED <<thinking, sleeping, ready, name, permit, cpuNotice, pc, local, server>>

\* Mutant: no restart is asked for while the server is still loading.
SetThinkingWhenReady(c, enabled) ==
    /\ Begin(c, IF thinking # enabled /\ ready THEN "req1" ELSE "idle")
    /\ thinking' = enabled
    /\ UNCHANGED <<link, sleeping, ready, name, permit, cpuNotice, pc, local, server>>

\* Daemon::set_thinking: request_restart only when the value changed.
SetThinking(c, enabled) ==
    /\ Begin(c, IF thinking # enabled THEN "req1" ELSE "idle")
    /\ thinking' = enabled
    /\ UNCHANGED <<link, sleeping, ready, name, permit, cpuNotice, pc, local, server>>

\* Daemon::request_restart, one step per shared variable.
RequestNotReady(c) ==
    /\ task[c] = "req1"
    /\ Goto(c, "req2")
    /\ ready' = FALSE
    /\ UNCHANGED <<link, thinking, sleeping, name, permit, cpuNotice, pc, local, server>>

RequestName(c) ==
    /\ task[c] = "req2"
    /\ Goto(c, "req3")
    /\ name' = "(loading)"
    /\ UNCHANGED <<link, thinking, sleeping, ready, permit, cpuNotice, pc, local, server>>

RequestNotify(c) ==
    /\ task[c] = "req3"
    /\ Goto(c, "idle")
    /\ permit' = TRUE
    /\ UNCHANGED <<link, thinking, sleeping, ready, name, cpuNotice, pc, local, server>>

\* Mutant: waking up does not notify.
SetSleepSilentWake(c, value) ==
    /\ Begin(c, IF sleeping # value /\ value THEN "notify" ELSE "idle")
    /\ sleeping' = value
    /\ UNCHANGED <<link, thinking, ready, name, permit, cpuNotice, pc, local, server>>

\* Daemon::set_sleep: swap, and notify only when the value changed.
SetSleep(c, value) ==
    /\ Begin(c, IF sleeping # value THEN "notify" ELSE "idle")
    /\ sleeping' = value
    /\ UNCHANGED <<link, thinking, ready, name, permit, cpuNotice, pc, local, server>>

SleepNotify(c) ==
    /\ task[c] = "notify"
    /\ Goto(c, "idle")
    /\ permit' = TRUE
    /\ UNCHANGED <<link, thinking, sleeping, ready, name, cpuNotice, pc, local, server>>

\* Request::Chat: a sleeping daemon is woken first, else straight to the
\* ready check.
ChatStart(c) ==
    /\ Begin(c, IF sleeping THEN "chat" ELSE "chatReady")
    /\ UNCHANGED <<shared, pc, local, server>>

\* Daemon::wake_and_wait: set_sleep(false) ...
WakeSwap(c) ==
    /\ task[c] = "chat"
    /\ Goto(c, IF sleeping THEN "wakeNotify" ELSE "wakeWait")
    /\ sleeping' = FALSE
    /\ UNCHANGED <<link, thinking, ready, name, permit, cpuNotice, pc, local, server>>

WakeNotify(c) ==
    /\ task[c] = "wakeNotify"
    /\ Goto(c, "wakeWait")
    /\ permit' = TRUE
    /\ UNCHANGED <<link, thinking, sleeping, ready, name, cpuNotice, pc, local, server>>

\* ... then poll is_ready until it holds or the time is up.
WakeReady(c) ==
    /\ task[c] = "wakeWait"
    /\ ready
    /\ Goto(c, "chatReady")
    /\ UNCHANGED <<shared, pc, local, server>>

WakeTimeout(c) ==
    /\ task[c] = "wakeWait"
    /\ ~ready
    /\ Goto(c, "idle")
    /\ UNCHANGED <<shared, pc, local, server>>

\* The second check of the Chat handler: "the model is still loading".
ChatCheck(c) ==
    /\ task[c] = "chatReady"
    /\ Goto(c, IF ready THEN "answering" ELSE "idle")
    /\ UNCHANGED <<shared, pc, local, server>>

\* run_chat ends, with an answer or with an error.
ChatEnd(c) ==
    /\ task[c] = "answering"
    /\ Goto(c, "idle")
    /\ UNCHANGED <<shared, pc, local, server>>

ClientStep(c) ==
    \/ RequestNotReady(c) \/ RequestName(c) \/ RequestNotify(c)
    \/ SleepNotify(c)
    \/ WakeSwap(c) \/ WakeNotify(c) \/ WakeReady(c) \/ WakeTimeout(c)
    \/ ChatCheck(c) \/ ChatEnd(c)

\* Request::DismissNotice for the CPU notice.
DismissNotice(c) ==
    /\ Begin(c, "idle")
    /\ cpuNotice' = FALSE
    /\ UNCHANGED <<link, thinking, sleeping, ready, name, permit, pc, local, server>>

ClientOp(c) ==
    \/ \E m \in Models \cup {NoModel} : SetModel(c, m)
    \/ \E b \in BOOLEAN : SetThinking(c, b)
    \/ \E b \in BOOLEAN : SetSleep(c, b)
    \/ ChatStart(c)
    \/ DismissNotice(c)

-----------------------------------------------------------------------------
(***************************************************************************)
(* The supervisor, supervise_model.                                        *)
(***************************************************************************)

At(from, to) == pc = from /\ pc' = to

\* Loop head: sleep until notified.
TopAwake ==
    /\ ~sleeping
    /\ At("top", "select")
    /\ UNCHANGED <<shared, local, server, task>>

TopSleep ==
    /\ sleeping
    /\ At("top", "sleepWait")
    /\ name' = "(sleeping)"
    /\ UNCHANGED <<link, thinking, sleeping, ready, permit, cpuNotice, local, server, task>>

\* d.restart.notified() in a wait that leads back to the loop head.
Notified(from, to) ==
    /\ permit
    /\ permit' = FALSE
    /\ At(from, to)
    /\ UNCHANGED <<link, thinking, sleeping, ready, name, cpuNotice, server, task>>

\* Mutant: the wait goes on without looking at the flag again.
SleepNotifiedBlindly == Notified("sleepWait", "sleepWait") /\ UNCHANGED local

SleepNotified == Notified("sleepWait", "top") /\ UNCHANGED local

\* No model file: wait thirty seconds or for a notification.
SelectNone ==
    /\ SelectModel = NoModel
    /\ At("select", "noModelWait")
    /\ name' = "(no model)"
    /\ UNCHANGED <<link, thinking, sleeping, ready, permit, cpuNotice, local, server, task>>

NoModelNotified == Notified("noModelWait", "top") /\ UNCHANGED local

NoModelRetry ==
    /\ At("noModelWait", "top")
    /\ UNCHANGED <<shared, local, server, task>>

\* A new model gets a fresh try on the GPU; so does an old one once the
\* GPU has cooled down for GPU_RETRY_AFTER.
Picked(model) ==
    LET fresh == IF local.last = model THEN local
                 ELSE [local EXCEPT !.last = model, !.gpu = WantsGpu,
                                    !.backoff = MinBackoff, !.gpuFailed = "no"]
    IN  [fresh EXCEPT !.model = model,
                      !.gpu = fresh.gpu \/ (WantsGpu /\ fresh.gpuFailed = "cooled")]

SelectSome ==
    /\ SelectModel # NoModel
    /\ At("select", "think")
    /\ local' = Picked(SelectModel)
    /\ UNCHANGED <<shared, server, task>>

ReadThinking ==
    /\ At("think", "publish")
    /\ local' = [local EXCEPT !.thinking = thinking]
    /\ UNCHANGED <<shared, server, task>>

PublishName ==
    /\ At("publish", "spawn")
    /\ name' = local.model
    /\ UNCHANGED <<link, thinking, sleeping, ready, permit, cpuNotice, local, server, task>>

SpawnOk ==
    /\ At("spawn", "starting")
    /\ server' = [model |-> local.model, gpu |-> local.gpu, thinking |-> local.thinking]
    /\ UNCHANGED <<shared, local, task>>

SpawnFails ==
    /\ At("spawn", "backoffWait")
    /\ UNCHANGED <<shared, local, server, task>>

\* Mutant: the delay is not capped.
BackoffUncapped == [local EXCEPT !.backoff = 2 * @]

\* backoff = (backoff * 2).min(60)
Backoff == [local EXCEPT !.backoff = IF 2 * @ <= MaxBackoff THEN 2 * @ ELSE MaxBackoff]

BackoffNotified == Notified("backoffWait", "top") /\ local' = Backoff

BackoffElapsed ==
    /\ At("backoffWait", "top")
    /\ local' = Backoff
    /\ UNCHANGED <<shared, server, task>>

\* The health loop: a notification while the server starts, ...
StartNotified == Notified("starting", "restartKill") /\ UNCHANGED local

RestartKilled ==
    /\ At("restartKill", "top")
    /\ server' = NoServer
    /\ UNCHANGED <<shared, local, task>>

\* ... an early exit or no answer within five minutes, ...
StartFails ==
    /\ At("starting", "failKill")
    /\ UNCHANGED <<shared, local, server, task>>

\* Mutant: the time of the failure is not kept.
GpuGivenUpForgetful ==
    /\ local.gpu
    /\ At("failKill", "top")
    /\ server' = NoServer
    /\ local' = [local EXCEPT !.gpu = FALSE]
    /\ cpuNotice' = TRUE
    /\ UNCHANGED <<link, thinking, sleeping, ready, name, permit, task>>

\* (the GPU is given up for the CPU at once, and the notice posted; a failure
\* on the CPU waits for the backoff)
GpuGivenUp ==
    /\ local.gpu
    /\ At("failKill", "top")
    /\ server' = NoServer
    /\ local' = [local EXCEPT !.gpu = FALSE, !.gpuFailed = "recently"]
    /\ cpuNotice' = TRUE
    /\ UNCHANGED <<link, thinking, sleeping, ready, name, permit, task>>

CpuFailed ==
    /\ ~local.gpu
    /\ At("failKill", "backoffWait")
    /\ server' = NoServer
    /\ UNCHANGED <<shared, local, task>>

\* ... or a healthy server, which ends the CPU notice when it has the GPU.
StartHealthy ==
    /\ At("starting", "publishReady")
    /\ local' = [local EXCEPT !.backoff = MinBackoff,
                              !.gpuFailed = IF local.gpu THEN "no" ELSE @]
    /\ cpuNotice' = (cpuNotice /\ ~local.gpu)
    /\ UNCHANGED <<link, thinking, sleeping, ready, name, permit, server, task>>

PublishReady ==
    /\ At("publishReady", "supervise")
    /\ ready' = TRUE
    /\ UNCHANGED <<link, thinking, sleeping, name, permit, cpuNotice, local, server, task>>

\* The supervise loop: exit, notification, two failed health checks.
ServerExits ==
    /\ At("supervise", "clear")
    /\ server' = NoServer
    /\ UNCHANGED <<shared, local, task>>

\* Mutant: the notification is taken and the healthy server kept.
SuperviseNotifiedIgnored == Notified("supervise", "supervise") /\ UNCHANGED local

SuperviseNotified == Notified("supervise", "kill") /\ UNCHANGED local

HealthFails ==
    /\ At("supervise", "recheck")
    /\ UNCHANGED <<shared, local, server, task>>

RecheckOk ==
    /\ At("recheck", "supervise")
    /\ UNCHANGED <<shared, local, server, task>>

RecheckFails ==
    /\ At("recheck", "kill")
    /\ UNCHANGED <<shared, local, server, task>>

Killed ==
    /\ At("kill", "clear")
    /\ server' = NoServer
    /\ UNCHANGED <<shared, local, task>>

\* Mutant: the flag is left set.
ClearReadyForgotten ==
    /\ At("clear", "top")
    /\ UNCHANGED <<shared, local, server, task>>

ClearReady ==
    /\ At("clear", "top")
    /\ ready' = FALSE
    /\ UNCHANGED <<link, thinking, sleeping, name, permit, cpuNotice, local, server, task>>

\* GPU_RETRY_AFTER passes since the GPU failed.
GpuCools ==
    /\ local.gpuFailed = "recently"
    /\ local' = [local EXCEPT !.gpuFailed = "cooled"]
    /\ UNCHANGED <<shared, pc, server, task>>

\* What the supervisor does by itself; the other steps of Next are failures
\* of llama-server and timers that need not come.
SupervisorStep ==
    \/ TopAwake \/ TopSleep \/ SleepNotified
    \/ SelectNone \/ NoModelNotified \/ NoModelRetry \/ SelectSome
    \/ ReadThinking \/ PublishName \/ SpawnOk
    \/ BackoffNotified \/ BackoffElapsed
    \/ RestartKilled \/ GpuGivenUp \/ CpuFailed
    \/ PublishReady \/ SuperviseNotified \/ RecheckOk \/ Killed \/ ClearReady

Failure ==
    \/ SpawnFails \/ StartFails \/ ServerExits \/ HealthFails \/ RecheckFails

StartOutcome == StartHealthy \/ StartNotified

Next ==
    \/ \E c \in Clients : ClientOp(c) \/ ClientStep(c)
    \/ SupervisorStep
    \/ StartOutcome
    \/ Failure
    \/ GpuCools

Spec == Init /\ [][Next]_vars
-----------------------------------------------------------------------------
(***************************************************************************)
(* Properties.                                                             *)
(***************************************************************************)

\* A restart request that has changed its variable and not yet notified.
RestartComing == permit \/ \E c \in Clients : task[c] \in {"req1", "req2", "req3"}
SleepChangeComing == permit \/ \E c \in Clients : task[c] \in {"notify", "wakeNotify"}

\* No lost restart: a server under supervision runs the chosen model with the
\* chosen thinking mode, and does not outlive a sleep, unless a notification
\* that will replace it is on its way.  supervise_model reads the choices only
\* once per start (mindd.rs:121-152), so this rests on the order of store and
\* notify_one in set_model, set_thinking and set_sleep.
ServesTheChoice ==
    pc \in {"supervise", "recheck"} =>
        /\ server.model = SelectModel \/ RestartComing
        /\ server.thinking = thinking \/ RestartComing
        /\ ~sleeping \/ SleepChangeComing

\* A supervisor waiting for the end of sleep, or for a model to appear, has
\* not missed the call that ends its wait.
NoMissedWakeUp ==
    /\ pc = "sleepWait" => sleeping \/ SleepChangeComing
    /\ pc = "noModelWait" => SelectModel = NoModel \/ RestartComing

\* The daemon says it is ready only while a server is up or being taken down,
\* and a healthy server is not left marked as loading: request_restart clears
\* the flag from another task, at any moment of a start (models.rs:201-205).
ReadyIsHonest ==
    /\ ready => pc \in {"supervise", "recheck", "kill", "clear"}
    /\ pc \in {"supervise", "recheck"} /\ ~ready =>
          permit \/ \E c \in Clients : task[c] \in {"req2", "req3"}

\* The name is that of the running server, or a label that a coming restart
\* replaces.
NameIsHonest ==
    /\ pc \in {"supervise", "recheck"} =>
          name = server.model \/ permit \/ \E c \in Clients : task[c] = "req3"
    /\ pc = "sleepWait" =>
          name = "(sleeping)" \/ permit \/ \E c \in Clients : task[c] = "req3"

\* The notice "running on the processor" is not shown while the graphics card
\* serves, and the card is never given up without the time of the failure that
\* lets a later restart try it again (mindd.rs:117-119, 148).
GpuIsHonest ==
    /\ pc \in {"supervise", "recheck"} /\ server.gpu => ~cpuNotice
    /\ WantsGpu /\ ~local.gpu => local.gpuFailed # "no"

\* What clients are shown of the server is true or about to be replaced.
LabelsAreHonest == NameIsHonest /\ GpuIsHonest

\* Fairness: the supervisor's own steps and the requests of the connection
\* tasks go on; a server started again and again answers in the end.
Fairness ==
    /\ WF_vars(SupervisorStep)
    /\ WF_vars(StartOutcome)
    /\ SF_vars(SpawnOk)
    /\ SF_vars(StartHealthy)
    /\ SF_vars(SuperviseNotified)
    /\ \A c \in Clients : WF_vars(ClientStep(c))

FairSpec == Spec /\ Fairness

\* Once the requests stop, a daemon that is awake and has a model serves it
\* over and over again: no sequence of requests and failures leaves the
\* supervisor waiting for a notification that has already been used up.
EventuallyServes ==
    <>[](~sleeping /\ SelectModel # NoModel /\ \A c \in Clients : task[c] = "idle")
        => []<>(ready /\ server.model = SelectModel /\ server.thinking = thinking)

\* A daemon that stays asleep unloads the model for good.
EventuallyUnloads ==
    <>[](sleeping /\ \A c \in Clients : task[c] = "idle") => <>[](server = NoServer /\ ~ready)

\* For TLC: neither models nor connection tasks are told apart.
Symmetry == Permutations(Clients) \cup Permutations(Models)
=============================================================================
