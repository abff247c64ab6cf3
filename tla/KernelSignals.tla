---------------------------- MODULE KernelSignals ----------------------------
(***************************************************************************)
(* How one thread of the research kernel takes its signals                 *)
(* (kernel/src/proc/signal.rs, syscall/signal.rs): the mask, the frames of *)
(* the handlers that run, the temporary masks of sigsuspend, ppoll and     *)
(* pselect, and the restart of the system call a signal came into.  A step *)
(* of Return is one turn of the loop in deliver_pending.                   *)
(***************************************************************************)
EXTENDS Integers, Sequences, FiniteSets, SequencesExt

CONSTANTS
    NoMask,      \* Task.saved_mask when nothing is saved (u64::MAX)
    MaxFrames    \* how many handlers run inside one another

VARIABLES
    where,      \* "user", "suspended", "return" (in return_to_user) or "dead"
    mask,       \* the signals blocked
    posted,     \* the signals pending, the thread's and the process's
    action,     \* SigHandlers: "default", "ignore", or a handler that restarts or does not
    frames,     \* the handlers' frames on the user stack: [mask, rax]
    saved,      \* Task.saved_mask
    rax,        \* the value the system call returns: a result, or what asks for a restart
    syscall,    \* whether the kernel was entered by a system call (TrapFrame::is_syscall)
    did,        \* deliver_pending has done something
    wanted,     \* history: the mask the program set outside every handler
    borrowed    \* history: a temporary mask was used

signalVars == <<where, mask, posted, action, frames, saved, rax, syscall, did, wanted, borrowed>>

KILL == 9
USR1 == 10
SEGV == 11
Caught == {USR1, SEGV}
Actions == {"default", "ignore", "restart", "interrupt", "once"}
Masks == SUBSET Caught

SignalInit ==
    /\ where = "user" /\ mask = {} /\ posted = {}
    /\ action = [s \in Caught |-> "default"]
    /\ frames = <<>> /\ saved = NoMask /\ rax = "result" /\ syscall = FALSE /\ did = FALSE
    /\ wanted = {} /\ borrowed = FALSE

User == where = "user"
Returns(value) == where' = "return" /\ rax' = value /\ syscall' = TRUE /\ UNCHANGED did

\* kill and tgkill: what is ignored is dropped.
Post(s) ==
    /\ where # "dead" /\ s \notin posted /\ Len(frames) < MaxFrames
    /\ s \in Caught => action[s] # "ignore"
    /\ posted' = posted \cup {s}
    /\ UNCHANGED <<where, mask, action, frames, saved, rax, syscall, did, wanted, borrowed>>

\* An interrupt in user mode, and a call that ends or is cut short by a signal.
Trap ==
    /\ User /\ posted # {} /\ rax # "again"
    /\ where' = "return" /\ syscall' = FALSE
    /\ UNCHANGED <<mask, posted, action, frames, saved, rax, did, wanted, borrowed>>

Call(result) ==
    /\ User
    /\ result = "ERESTARTSYS" => posted \ mask # {}
    /\ Returns(result)
    /\ UNCHANGED <<mask, posted, action, frames, saved, wanted, borrowed>>

\* fault_signal: blocked or ignored, it gets its default action.
Fault ==
    /\ User /\ Len(frames) < MaxFrames
    /\ LET forced == action[SEGV] = "ignore" \/ SEGV \in mask
       IN /\ action' = IF forced THEN [action EXCEPT ![SEGV] = "default"] ELSE action
          /\ mask' = IF forced THEN mask \ {SEGV} ELSE mask
    /\ posted' = posted \cup {SEGV}
    /\ where' = "return" /\ syscall' = FALSE
    /\ UNCHANGED <<frames, saved, rax, did, wanted, borrowed>>

\* rt_sigaction: a signal that is ignored from now on is discarded.
Sigaction(s, a) ==
    /\ User /\ rax # "again" /\ action[s] # a
    /\ action' = [action EXCEPT ![s] = a]
    /\ posted' = IF a = "ignore" THEN posted \ {s} ELSE posted
    /\ Returns("result")
    /\ UNCHANGED <<mask, frames, saved, wanted, borrowed>>

Sigprocmask(m) ==
    /\ User /\ rax # "again" /\ mask # m
    /\ mask' = m
    /\ wanted' = IF frames = <<>> THEN m ELSE wanted
    /\ Returns("result")
    /\ UNCHANGED <<posted, action, frames, saved, borrowed>>

\* rt_sigsuspend: the old mask is kept for deliver_pending to restore.
Sigsuspend(m) ==
    /\ User /\ rax # "again"
    /\ mask' = m /\ saved' = mask /\ borrowed' = TRUE
    /\ where' = "suspended"
    /\ UNCHANGED <<posted, action, frames, rax, syscall, did, wanted>>

Resume ==
    /\ where = "suspended" /\ posted \ mask # {}
    /\ Returns("EINTR")
    /\ UNCHANGED <<mask, posted, action, frames, saved, wanted, borrowed>>

\* ppoll and pselect6: the mask is put back at once unless a signal can be delivered under it.
Ppoll(m) ==
    /\ User /\ rax # "again"
    /\ IF posted \ m # {} THEN mask' = m /\ saved' = mask /\ Returns("EINTR")
       ELSE Returns("result") /\ UNCHANGED <<mask, saved>>
    /\ borrowed' = TRUE
    /\ UNCHANGED <<posted, action, frames, wanted>>

\* rt_sigtimedwait: a signal of the set is taken without a handler; the mask is as before.
Sigtimedwait(want) ==
    /\ User /\ rax # "again" /\ posted \cap want # {}
    /\ \E s \in posted \cap want :
          (\A r \in posted \cap want : s <= r) /\ posted' = posted \ {s}
    /\ Returns("result")
    /\ UNCHANGED <<mask, action, frames, saved, wanted, borrowed>>

\* sigreturn: the mask and the registers of the frame.
Sigreturn ==
    /\ User /\ rax # "again" /\ frames # <<>>
    /\ mask' = Last(frames).mask
    /\ frames' = Front(frames)
    /\ Returns(Last(frames).rax)
    /\ UNCHANGED <<posted, action, saved, wanted, borrowed>>

-----------------------------------------------------------------------------
\* restart_syscall_check.
Restarted(restart) ==
    IF syscall /\ rax = "ERESTARTSYS" THEN (IF restart THEN "again" ELSE "EINTR") ELSE rax

\* dequeue: SIGKILL, then a fault, then the lowest number.
Next1 == LET d == posted \ mask
         IN IF KILL \in d THEN KILL ELSE IF SEGV \in d THEN SEGV ELSE USR1

\* The end of deliver_pending: the saved mask, or the restart of a call nothing came of.
Finish ==
    /\ where = "return" /\ posted \ mask = {}
    /\ IF did
       THEN /\ mask' = IF saved = NoMask THEN mask ELSE saved
            /\ saved' = NoMask /\ did' = FALSE
            /\ UNCHANGED <<where, rax>>
       ELSE /\ where' = "user" /\ rax' = Restarted(TRUE)
            /\ UNCHANGED <<mask, saved, did>>
    /\ UNCHANGED <<posted, action, frames, syscall, wanted, borrowed>>

\* setup_frame: the registers and the mask go on the user's stack, the handler runs with its signal blocked.
Handle(s, a) ==
    /\ frames' = Append(frames, [mask |-> mask, rax |-> Restarted(a = "restart")])
    /\ mask' = IF saved = NoMask THEN mask \cup {s} ELSE saved
    /\ saved' = NoMask /\ did' = FALSE
    /\ rax' = "result"
    /\ action' = IF a = "once" THEN [action EXCEPT ![s] = "default"] ELSE action
    /\ UNCHANGED where

\* One signal is taken: dropped, fatal, or the handler's.
Deliver ==
    /\ where = "return" /\ posted \ mask # {}
    /\ posted' = posted \ {Next1}
    /\ IF Next1 = KILL \/ action[Next1] = "default"
       THEN where' = "dead" /\ UNCHANGED <<mask, action, frames, saved, rax, did>>
       ELSE IF action[Next1] = "ignore"
       THEN did' = TRUE /\ UNCHANGED <<where, mask, action, frames, saved, rax>>
       ELSE Handle(Next1, action[Next1])
    /\ UNCHANGED <<syscall, wanted, borrowed>>

SignalNext ==
    \/ Trap \/ Fault \/ Resume \/ Sigreturn \/ Finish \/ Deliver
    \/ \E s \in {KILL} \cup Caught : Post(s)
    \/ \E r \in {"result", "ERESTARTSYS"} : Call(r)
    \/ \E s \in Caught, a \in Actions : Sigaction(s, a)
    \/ \E m \in Masks : Sigprocmask(m) \/ Sigsuspend(m) \/ Ppoll(m) \/ Sigtimedwait(m)

-----------------------------------------------------------------------------
\* The program never sees -ERESTARTSYS: whatever is delivered or dropped on the way out, the call is
\* restarted or ends with EINTR (restart_syscall_check and the loop of return_to_user).
RestartNeverLeaks == User => rax # "ERESTARTSYS"

\* A signal that is ignored is not pending, so it cuts no call short (rt_sigaction, send).
IgnoredIsDiscarded == \A s \in posted \ {KILL} : action[s] # "ignore"

\* Once the handlers have returned, the mask is the one the program set, unless it used a temporary one
\* (setup_frame saves it, sigreturn restores it).
MaskComesBack == User /\ frames = <<>> /\ ~borrowed => mask = wanted \/ mask = wanted \ {SEGV}

SignalsAreSound == RestartNeverLeaks /\ IgnoredIsDiscarded /\ MaskComesBack
=============================================================================
