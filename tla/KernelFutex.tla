----------------------------- MODULE KernelFutex -----------------------------
(***************************************************************************)
(* The futexes of the research kernel (kernel/src/syscall/futex.rs): one   *)
(* list of waiters for all keys.  A task goes from one sleep to the next   *)
(* in one step; reading the futex's word may fault and sleep on the        *)
(* address space's mutex, so other tasks can run between the registration  *)
(* and the comparison.  A key is a word of memory: the private and the     *)
(* shared key of one word are not told apart.                              *)
(***************************************************************************)
EXTENDS Integers, Sequences, FiniteSets, SequencesExt

CONSTANTS
    Waiters,    \* the threads that wait, and
    Wakers,     \* those that store and wake
    Words,      \* the words of memory used as futexes
    NoWord

FutexThreads == Waiters \cup Wakers
Values == 0..1
Bitsets == {{1}, {1, 2}}
AllBits == {1, 2}   \* u32::MAX

VARIABLES
    word,       \* memory
    entries,    \* WAITERS: [key, task, bitset, woken]
    step,       \* where a thread is: "user", "reading", "asleep", "awake"
    wants,      \* the value it expects, and the word: [key, val]
    stirred,    \* the threads asleep that something has made runnable
    poked,      \* the threads with a signal pending
    owed        \* history: the wake-ups reported to callers of FUTEX_WAKE that no waiter has left with

futexVars == <<word, entries, step, wants, stirred, poked, owed>>

NoWait == [key |-> NoWord, val |-> 0]

FutexInit ==
    /\ word = [w \in Words |-> 0]
    /\ entries = <<>>
    /\ step = [t \in FutexThreads |-> "user"]
    /\ wants = [t \in FutexThreads |-> NoWait]
    /\ stirred = {} /\ poked = {} /\ owed = 0

Stands(t, place) == step[t] = place /\ (place = "user" => t \notin poked)
GoTo(t, place) == step' = [step EXCEPT ![t] = place]

-----------------------------------------------------------------------------
\* The entries wake_key picks: the first n that match and have not been woken.
Matches(e, key, bitset) == e.key = key /\ ~e.woken /\ e.bitset \cap bitset # {}
Picked(list, n, test(_)) ==
    {i \in DOMAIN list : test(list[i]) /\ Cardinality({j \in 1..i : test(list[j])}) <= n}

\* wake_key: the list after it, the tasks to wake and how many they are.
WakeKey(list, key, n, bitset) ==
    LET hit == Picked(list, n, LAMBDA e : Matches(e, key, bitset))
    IN [entries |-> [i \in DOMAIN list |-> IF i \in hit THEN [list[i] EXCEPT !.woken = TRUE] ELSE list[i]],
        tasks |-> {list[i].task : i \in hit}, count |-> Cardinality(hit)]

Woke(r) ==
    /\ owed' = owed + r.count
    /\ stirred' = stirred \cup {t \in r.tasks : step[t] = "asleep"}

\* FUTEX_WAKE, FUTEX_WAKE_BITSET and wake, which exit uses.
FutexWake(t, key, n, bitset) ==
    /\ Stands(t, "user")
    /\ LET r == WakeKey(entries, key, n, bitset)
       IN Woke(r) /\ entries' = r.entries
    /\ UNCHANGED <<word, step, wants, poked>>

\* FUTEX_REQUEUE and FUTEX_CMP_REQUEUE: some are woken, some move to another key.  A comparison that fails
\* ends the call and changes nothing.
FutexRequeue(t, key, key2, n, m) ==
    /\ Stands(t, "user")
    /\ LET r == WakeKey(entries, key, n, AllBits)
           moved == Picked(r.entries, m, LAMBDA e : e.key = key /\ ~e.woken)
       IN /\ Woke(r)
          /\ entries' = [i \in DOMAIN entries |->
                            IF i \in moved THEN [r.entries[i] EXCEPT !.key = key2] ELSE r.entries[i]]
    /\ UNCHANGED <<word, step, wants, poked>>

\* FUTEX_WAKE_OP: the second word is written, its old value decides whether its waiters are woken too.
WakeOp(t, key, key2, old) ==
    /\ Stands(t, "user")
    /\ word' = [word EXCEPT ![key2] = 1 - @]   \* FUTEX_OP_XOR
    /\ LET r1 == WakeKey(entries, key, 1, AllBits)
           r2 == WakeKey(r1.entries, key2, IF word[key2] = old THEN 1 ELSE 0, AllBits)
       IN /\ Woke([tasks |-> r1.tasks \cup r2.tasks, count |-> r1.count + r2.count])
          /\ entries' = r2.entries
    /\ UNCHANGED <<step, wants, poked>>

StoreWord(t, w, v) ==
    /\ Stands(t, "user") /\ word[w] # v
    /\ word' = [word EXCEPT ![w] = v]
    /\ UNCHANGED <<entries, step, wants, stirred, poked, owed>>

-----------------------------------------------------------------------------
\* wait: registered first.
FutexWait(t, key, val, bitset) ==
    /\ Stands(t, "user")
    /\ entries' = Append(entries, [key |-> key, task |-> t, bitset |-> bitset, woken |-> FALSE])
    /\ wants' = [wants EXCEPT ![t] = [key |-> key, val |-> val]]
    /\ GoTo(t, "reading")
    /\ UNCHANGED <<word, stirred, poked, owed>>

\* retain: the rest of a list that a thread is on once at most.
Unlisted(list, t) ==
    LET on == {i \in DOMAIN list : list[i].task = t}
    IN IF on = {} THEN list ELSE RemoveAt(list, CHOOSE i \in on : TRUE)

\* remove_waiter: its entry, and whether it had been woken.
RemoveWaiter(t) ==
    /\ entries' = Unlisted(entries, t)
    /\ wants' = [wants EXCEPT ![t] = NoWait]
    /\ owed' = owed - Cardinality({i \in DOMAIN entries : entries[i].task = t /\ entries[i].woken})

\* The word is read: another value or a signal ends the call; otherwise the thread sleeps, unless the
\* fault left it running, when it comes straight back.  Without a fault nobody can have woken it by now.
Compare(t, faulted) ==
    /\ Stands(t, "reading")
    /\ faulted \/ \A e \in Range(entries) : e.task = t => ~e.woken
    /\ IF word[wants[t].key] # wants[t].val \/ t \in poked
       THEN RemoveWaiter(t) /\ GoTo(t, "user") /\ UNCHANGED stirred
       ELSE /\ GoTo(t, "asleep")
            /\ stirred' = IF faulted THEN stirred \cup {t} ELSE stirred
            /\ UNCHANGED <<entries, wants, owed>>
    /\ UNCHANGED <<word, poked>>

\* What follows schedule(): off the list; the mark, timed_out and the signal decide what is returned.
Wakes(t) ==
    /\ Stands(t, "asleep") /\ t \in stirred
    /\ stirred' = stirred \ {t}
    /\ RemoveWaiter(t)
    /\ GoTo(t, "user")
    /\ UNCHANGED <<word, poked>>

\* A signal wakes the sleeper; so does its deadline, which every wait has here and which may never come.
Poke(t) ==
    /\ t \notin poked /\ step[t] # "user"
    /\ poked' = poked \cup {t}
    /\ stirred' = IF step[t] = "asleep" THEN stirred \cup {t} ELSE stirred
    /\ UNCHANGED <<word, entries, step, wants, owed>>

Expire(t) ==
    /\ Stands(t, "asleep") /\ t \notin stirred
    /\ stirred' = stirred \cup {t}
    /\ UNCHANGED <<word, entries, step, wants, poked, owed>>

Handle(t) ==
    /\ step[t] = "user" /\ t \in poked
    /\ poked' = poked \ {t}
    /\ UNCHANGED <<word, entries, step, wants, stirred, owed>>

FutexNext ==
    \/ \E t \in Waiters :
          \/ Wakes(t) \/ Poke(t) \/ Expire(t) \/ Handle(t) \/ Compare(t, TRUE) \/ Compare(t, FALSE)
          \/ \E w \in Words, b \in Bitsets : FutexWait(t, w, 0, b)
    \/ \E t \in Wakers :
          \/ \E w \in Words, v \in Values : StoreWord(t, w, v)
          \/ \E w \in Words, n \in 1..2, b \in {{2}, AllBits} : FutexWake(t, w, n, b)
          \/ \E w \in Words, n \in 0..1 : \E w2 \in Words \ {w} : FutexRequeue(t, w, w2, n, 1)
          \/ \E w \in Words, old \in Values : \E w2 \in Words \ {w} : WakeOp(t, w, w2, old)

-----------------------------------------------------------------------------
\* Every wake-up FUTEX_WAKE reports belongs to one waiter: it has left the list with it, or its entry
\* carries it, and that waiter will run (wake_key counts what it marks, remove_waiter returns the mark).
WakesAreOwned ==
    /\ owed = Cardinality({i \in DOMAIN entries : entries[i].woken})
    /\ \A e \in Range(entries) : e.woken => step[e.task] = "reading" \/ e.task \in stirred

\* "register first so a wake between the value check and the sleep is not lost" (syscall/futex.rs, wait):
\* a thread is on the list, once, exactly while it is in the call.
WaitersAreListed ==
    \A t \in FutexThreads :
        Cardinality({i \in DOMAIN entries : entries[i].task = t}) = (IF step[t] = "user" THEN 0 ELSE 1)

FutexIsSound == WakesAreOwned /\ WaitersAreListed
=============================================================================
