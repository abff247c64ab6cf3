---------------------------- MODULE KernelProofs -----------------------------
(***************************************************************************)
(* The research kernel's channels (in MCKernel): for any tasks, sizes and  *)
(* limits, an inductive invariant of the pipe, of the futexes and of the   *)
(* files for events, and ChannelsAreSound from them.                       *)
(***************************************************************************)
EXTENDS MCKernel, FiniteSetTheorems, TLAPS

-----------------------------------------------------------------------------
(* The invariant of a pipe. *)

PipeTyped ==
    /\ pipe \in [data : [0..PIPE_BUF_SIZE - 1 -> PipeTasks], head : 0..PIPE_BUF_SIZE - 1,
                 len : 0..PIPE_BUF_SIZE, readers : Nat, writers : Nat]
    /\ end \in [PipeTasks -> {"none", "reader", "writer", "duplex"}]
    /\ doing \in [PipeTasks -> [op : {"none", "open", "read", "write"}, left : Nat, len : Nat, nonblock : BOOLEAN]]
    /\ slept \in SUBSET PipeTasks /\ signalled \in SUBSET PipeTasks
    /\ stream \in Seq(PipeTasks)

\* Who has which end.
ReadersOf(e) == {x \in PipeTasks : e[x] \in {"reader", "duplex"}}
WritersOf(e) == {x \in PipeTasks : e[x] \in {"writer", "duplex"}}

\* The bytes in the ring, and the ring when n more are put into it.
RingOf(d, h, l) == [i \in 1..l |-> d[(h + i - 1) % PIPE_BUF_SIZE]]
PutAt(d, h, l, n, z) == [j \in 0..PIPE_BUF_SIZE - 1 |-> IF ((j - h - l) % PIPE_BUF_SIZE) + 1 <= n THEN z ELSE d[j]]
Same(n, z) == [i \in 1..n |-> z]
Ring(p, s) == s = RingOf(p.data, p.head, p.len)

Counts(p, e) == p.readers = Cardinality(ReadersOf(e)) /\ p.writers = Cardinality(WritersOf(e))

\* A call is at an end that its task has, and has something left to do; a small
\* write has it all left.
CallFits(d, e) ==
    /\ d.op = "open" => e \in {"reader", "writer"}
    /\ d.op = "read" => e \in {"reader", "duplex"}
    /\ d.op = "write" => e \in {"writer", "duplex"}
    /\ d.op \in {"read", "write"} => d.left > 0 /\ d.len > 0
    /\ d.op = "write" /\ d.len <= Atomic => d.left = d.len

\* What the sleeper t waits for has not come.
MustSleep(p, d, e) ==
    \/ d.op = "read" /\ p.len = 0 /\ p.writers > 0
    \/ d.op = "write" /\ PIPE_BUF_SIZE - p.len < (IF d.len <= Atomic THEN d.len ELSE 1) /\ p.readers > 0
    \/ d.op = "open" /\ e = "reader" /\ p.writers = 0
    \/ d.op = "open" /\ e = "writer" /\ p.readers = 0

PipeInv ==
    /\ PipeTyped
    /\ Ring(pipe, stream)
    /\ Counts(pipe, end)
    /\ \A t \in PipeTasks : CallFits(doing[t], end[t])
    /\ \A t \in slept : MustSleep(pipe, doing[t], end[t])

LEMMA PipeFollows == PipeInv => PipeIsSound
<1> SUFFICES ASSUME PipeInv PROVE PipeIsSound
  OBVIOUS
<1> USE DEF PipeInv
<1>1. RingIsInOrder
  BY DEF Ring, RingOf, RingIsInOrder
<1>2. SmallWritesAreWhole
  BY DEF CallFits, SmallWritesAreWhole
<1>3. PipeSleepersMustWait
  BY DEF MustSleep, PipeSleepersMustWait, Space, Need
<1>4. EndsAreCounted
  BY DEF Counts, ReadersOf, WritersOf, EndsAreCounted, ToRead, ToWrite
<1> QED
  BY <1>1, <1>2, <1>3, <1>4 DEF PipeIsSound

-----------------------------------------------------------------------------
(* Ends. *)

LEMMA CountsAre ==
    ASSUME PipeInv, NEW t \in PipeTasks
    PROVE  /\ pipe.readers \in Nat /\ pipe.writers \in Nat
           /\ t \in ReadersOf(end) => pipe.readers > 0
           /\ t \in WritersOf(end) => pipe.writers > 0
<1>1. IsFiniteSet(ReadersOf(end)) /\ IsFiniteSet(WritersOf(end))
  BY KernelAssumption, FS_Subset DEF ReadersOf, WritersOf
<1> QED
  BY <1>1, FS_EmptySet, FS_CardinalityType DEF PipeInv, Counts

LEMMA EndOpens ==
    ASSUME PipeInv, NEW t \in PipeTasks, end[t] = "none", NEW kind \in {"reader", "writer", "duplex"},
           end' = [end EXCEPT ![t] = kind],
           pipe' = [pipe EXCEPT !.readers = IF kind = "writer" THEN @ ELSE @ + 1,
                                !.writers = IF kind = "reader" THEN @ ELSE @ + 1]
    PROVE  Counts(pipe', end') /\ pipe'.readers \in Nat /\ pipe'.writers \in Nat
<1>1. IsFiniteSet(ReadersOf(end)) /\ IsFiniteSet(WritersOf(end))
  BY KernelAssumption, FS_Subset DEF ReadersOf, WritersOf
<1>2. t \notin ReadersOf(end) /\ t \notin WritersOf(end)
  BY DEF ReadersOf, WritersOf
<1>3. /\ ReadersOf(end') = IF kind = "writer" THEN ReadersOf(end) ELSE ReadersOf(end) \cup {t}
      /\ WritersOf(end') = IF kind = "reader" THEN WritersOf(end) ELSE WritersOf(end) \cup {t}
  BY DEF ReadersOf, WritersOf, PipeInv, PipeTyped
<1>4. /\ Cardinality(ReadersOf(end) \cup {t}) = Cardinality(ReadersOf(end)) + 1
      /\ Cardinality(WritersOf(end) \cup {t}) = Cardinality(WritersOf(end)) + 1
  BY <1>1, <1>2, FS_AddElement
<1>5. /\ pipe'.readers = (IF kind = "writer" THEN pipe.readers ELSE pipe.readers + 1)
      /\ pipe'.writers = (IF kind = "reader" THEN pipe.writers ELSE pipe.writers + 1)
  BY DEF PipeInv, PipeTyped
<1> QED
  BY <1>3, <1>4, <1>5, CountsAre DEF Counts, PipeInv

LEMMA EndCloses ==
    ASSUME PipeInv, NEW t \in PipeTasks, end' = [end EXCEPT ![t] = "none"],
           pipe'.readers = (IF t \in ReadersOf(end) THEN pipe.readers - 1 ELSE pipe.readers),
           pipe'.writers = (IF t \in WritersOf(end) THEN pipe.writers - 1 ELSE pipe.writers)
    PROVE  Counts(pipe', end') /\ pipe'.readers \in Nat /\ pipe'.writers \in Nat
<1>1. IsFiniteSet(ReadersOf(end)) /\ IsFiniteSet(WritersOf(end))
  BY KernelAssumption, FS_Subset DEF ReadersOf, WritersOf
<1>3. ReadersOf(end') = ReadersOf(end) \ {t} /\ WritersOf(end') = WritersOf(end) \ {t}
  BY DEF ReadersOf, WritersOf, PipeInv, PipeTyped
<1>4. /\ Cardinality(ReadersOf(end) \ {t})
            = IF t \in ReadersOf(end) THEN Cardinality(ReadersOf(end)) - 1 ELSE Cardinality(ReadersOf(end))
      /\ Cardinality(WritersOf(end) \ {t})
            = IF t \in WritersOf(end) THEN Cardinality(WritersOf(end)) - 1 ELSE Cardinality(WritersOf(end))
  BY <1>1, FS_RemoveElement
<1>6. /\ pipe.readers = Cardinality(ReadersOf(end)) /\ pipe.writers = Cardinality(WritersOf(end))
      /\ pipe.readers \in Nat /\ pipe.writers \in Nat
  BY CountsAre DEF Counts, PipeInv
<1>7. (t \in ReadersOf(end) => pipe.readers > 0) /\ (t \in WritersOf(end) => pipe.writers > 0)
  BY CountsAre
<1>8. pipe'.readers = Cardinality(ReadersOf(end')) /\ pipe'.readers \in Nat
  <2>1. Cardinality(ReadersOf(end')) = Cardinality(ReadersOf(end) \ {t})
    BY <1>3, Zenon
  <2> QED
    BY <1>4, <1>6, <1>7, <2>1
<1>9. pipe'.writers = Cardinality(WritersOf(end')) /\ pipe'.writers \in Nat
  <2>1. Cardinality(WritersOf(end')) = Cardinality(WritersOf(end) \ {t})
    BY <1>3, Zenon
  <2> QED
    BY <1>4, <1>6, <1>7, <2>1
<1> QED
  BY <1>8, <1>9 DEF Counts


-----------------------------------------------------------------------------
(* The steps of a pipe. *)

LEMMA PipeStarts == PipeInit => PipeInv
<1> SUFFICES ASSUME PipeInit PROVE PipeInv
  OBVIOUS
<1> USE KernelAssumption DEF PipeInit
<1>1. PipeTyped
  BY DEF PipeTyped, NoOp
<1>2. Ring(pipe, stream)
  BY DEF Ring, RingOf
<1>3. Counts(pipe, end)
  <2>1. ReadersOf(end) = {} /\ WritersOf(end) = {}
    BY DEF ReadersOf, WritersOf
  <2> QED
    BY <2>1, FS_EmptySet DEF Counts
<1> QED
  BY <1>1, <1>2, <1>3 DEF PipeInv, CallFits, NoOp

\* What the pipe holds, and what its sleepers wait for, when a step leaves the ring alone.
LEMMA PipeKeeps ==
    ASSUME PipeInv, PipeTyped', Counts(pipe', end'),
           pipe'.data = pipe.data, pipe'.head = pipe.head, pipe'.len = pipe.len, stream' = stream,
           \A x \in PipeTasks : CallFits(doing'[x], end'[x]),
           \A x \in slept' : MustSleep(pipe', doing'[x], end'[x])
    PROVE  PipeInv'
  BY DEF PipeInv, Ring

LEMMA OpenKeeps ==
    ASSUME PipeInv, NEW t \in PipeTasks, NEW kind \in Ends, NEW nonblock \in BOOLEAN, Open(t, kind, nonblock)
    PROVE  PipeInv'
<1> USE DEF PipeInv, Open, Idles, Ends
<1>1. Counts(pipe', end') /\ pipe'.readers \in Nat /\ pipe'.writers \in Nat
  BY EndOpens
<1>2. pipe'.data = pipe.data /\ pipe'.head = pipe.head /\ pipe'.len = pipe.len
  BY DEF PipeTyped
<1>3. PipeTyped'
  <2>1. pipe' \in [data : [0..PIPE_BUF_SIZE - 1 -> PipeTasks], head : 0..PIPE_BUF_SIZE - 1,
                   len : 0..PIPE_BUF_SIZE, readers : Nat, writers : Nat]
    BY <1>1 DEF PipeTyped
  <2>2. end' \in [PipeTasks -> {"none", "reader", "writer", "duplex"}]
    BY DEF PipeTyped
  <2>3. doing' \in [PipeTasks -> [op : {"none", "open", "read", "write"}, left : Nat, len : Nat, nonblock : BOOLEAN]]
    BY DEF PipeTyped
  <2> QED
    BY <2>1, <2>2, <2>3 DEF PipeTyped
<1>4. \A x \in PipeTasks : CallFits(doing'[x], end'[x])
  BY DEF PipeTyped, CallFits
<1>5. \A x \in slept' : MustSleep(pipe', doing'[x], end'[x])
  BY KernelAssumption DEF PipeTyped, MustSleep
<1> QED
  BY <1>1, <1>2, <1>3, <1>4, <1>5, PipeKeeps

LEMMA ReturnKeeps ==
    ASSUME PipeInv, NEW t \in PipeTasks, Returns(t), t \notin slept, end' = end, pipe' = pipe,
           slept' = slept, signalled' \in SUBSET PipeTasks, stream' = stream
    PROVE  PipeInv'
<1> USE DEF PipeInv, Returns
<1>1. PipeTyped'
  BY DEF PipeTyped, NoOp
<1>2. \A x \in PipeTasks : CallFits(doing'[x], end'[x])
  BY DEF PipeTyped, CallFits, NoOp
<1>3. \A x \in slept' : MustSleep(pipe', doing'[x], end'[x])
  BY DEF PipeTyped
<1> QED
  BY <1>1, <1>2, <1>3, PipeKeeps

LEMMA SleepKeeps ==
    ASSUME PipeInv, NEW t \in PipeTasks, MustSleep(pipe, doing[t], end[t]), slept' = slept \cup {t},
           UNCHANGED <<pipe, end, doing, signalled, stream>>
    PROVE  PipeInv'
  BY DEF PipeInv, PipeTyped, Ring, Counts

LEMMA OpeningKeeps ==
    ASSUME PipeInv, NEW t \in PipeTasks, Opening(t)
    PROVE  PipeInv'
<1> USE DEF PipeInv, Opening, Runs
<1>1. CASE (end[t] = "reader" /\ pipe.writers > 0) \/ (end[t] = "writer" /\ pipe.readers > 0)
  BY <1>1, ReturnKeeps DEF PipeTyped
<1>2. CASE ~((end[t] = "reader" /\ pipe.writers > 0) \/ (end[t] = "writer" /\ pipe.readers > 0))
  <2>1. end[t] \in {"reader", "writer"} /\ doing[t].op = "open" /\ t \notin slept
    BY DEF CallFits
  <2>2. pipe.readers \in Nat /\ pipe.writers \in Nat
    BY DEF PipeTyped
  <2>3. CASE t \notin signalled
    <3>1. MustSleep(pipe, doing[t], end[t])
      BY <1>2, <2>1, <2>2 DEF MustSleep
    <3> QED
      BY <1>2, <2>3, <3>1, SleepKeeps DEF WaitOr
  <2>4. CASE t \in signalled
    <3>1. /\ pipe' = [pipe EXCEPT !.readers = IF end[t] = "reader" THEN @ - 1 ELSE @,
                                  !.writers = IF end[t] = "writer" THEN @ - 1 ELSE @]
          /\ end' = [end EXCEPT ![t] = "none"]
          /\ doing' = [doing EXCEPT ![t] = NoOp]
          /\ UNCHANGED <<slept, signalled, stream>>
      BY <1>2, <2>4 DEF WaitOr, Returns
    <3>2. /\ pipe'.readers = IF t \in ReadersOf(end) THEN pipe.readers - 1 ELSE pipe.readers
          /\ pipe'.writers = IF t \in WritersOf(end) THEN pipe.writers - 1 ELSE pipe.writers
      BY <2>1, <3>1 DEF ReadersOf, WritersOf, PipeTyped
    <3>3. Counts(pipe', end') /\ pipe'.readers \in Nat /\ pipe'.writers \in Nat
      BY <3>1, <3>2, EndCloses
    <3>4. pipe'.data = pipe.data /\ pipe'.head = pipe.head /\ pipe'.len = pipe.len
      BY <3>1 DEF PipeTyped
    <3>5. PipeTyped'
      <4>1. pipe' \in [data : [0..PIPE_BUF_SIZE - 1 -> PipeTasks], head : 0..PIPE_BUF_SIZE - 1,
                       len : 0..PIPE_BUF_SIZE, readers : Nat, writers : Nat]
        BY <3>1, <3>3 DEF PipeTyped
      <4> QED
        BY <3>1, <4>1 DEF PipeTyped, NoOp
    <3>6. \A x \in PipeTasks : CallFits(doing'[x], end'[x])
      BY <3>1 DEF PipeTyped, CallFits, NoOp
    <3>7. ASSUME NEW x \in slept' PROVE MustSleep(pipe', doing'[x], end'[x])
      <4>1. x # t /\ x \in PipeTasks /\ doing'[x] = doing[x] /\ end'[x] = end[x] /\ MustSleep(pipe, doing[x], end[x])
        BY <2>1, <3>1 DEF PipeTyped
      <4>2. CallFits(doing[x], end[x])
        BY <4>1
      <4>3. CASE end[t] = "reader"
        <5>1. pipe.writers = 0 /\ pipe'.writers = pipe.writers
          BY <1>2, <2>2, <3>1, <4>3 DEF PipeTyped
        <5>2. x \notin WritersOf(end) /\ t \in ReadersOf(end)
          BY <4>1, <4>3, <5>1, CountsAre DEF ReadersOf
        <5>3. end[x] \notin {"writer", "duplex"}
          BY <4>1, <5>2 DEF WritersOf
        <5> QED
          BY <4>1, <4>2, <5>1, <5>3 DEF MustSleep, CallFits
      <4>4. CASE end[t] = "writer"
        <5>1. pipe.readers = 0 /\ pipe'.readers = pipe.readers
          BY <1>2, <2>2, <3>1, <4>4 DEF PipeTyped
        <5>2. x \notin ReadersOf(end) /\ t \in WritersOf(end)
          BY <4>1, <4>4, <5>1, CountsAre DEF WritersOf
        <5>3. end[x] \notin {"reader", "duplex"}
          BY <4>1, <5>2 DEF ReadersOf
        <5> QED
          BY <4>1, <4>2, <5>1, <5>3 DEF MustSleep, CallFits
      <4> QED
        BY <2>1, <4>3, <4>4
    <3> QED
      BY <3>1, <3>3, <3>4, <3>5, <3>6, <3>7, PipeKeeps
  <2> QED
    BY <2>3, <2>4
<1> QED
  BY <1>1, <1>2

LEMMA CloseKeeps ==
    ASSUME PipeInv, NEW t \in PipeTasks, Close(t)
    PROVE  PipeInv'
<1> USE DEF PipeInv, Close, Idles
<1>1. /\ pipe'.readers = IF t \in ReadersOf(end) THEN pipe.readers - 1 ELSE pipe.readers
      /\ pipe'.writers = IF t \in WritersOf(end) THEN pipe.writers - 1 ELSE pipe.writers
  BY DEF ReadersOf, WritersOf, ToRead, ToWrite, PipeTyped
<1>2. Counts(pipe', end') /\ pipe'.readers \in Nat /\ pipe'.writers \in Nat
  BY <1>1, EndCloses
<1>3. pipe'.data = pipe.data /\ pipe'.head = pipe.head /\ pipe'.len = pipe.len
  BY DEF PipeTyped
<1>4. PipeTyped'
  <2>1. pipe' \in [data : [0..PIPE_BUF_SIZE - 1 -> PipeTasks], head : 0..PIPE_BUF_SIZE - 1,
                   len : 0..PIPE_BUF_SIZE, readers : Nat, writers : Nat]
    BY <1>2 DEF PipeTyped
  <2> QED
    BY <2>1 DEF PipeTyped
<1>5. \A x \in PipeTasks : CallFits(doing'[x], end'[x])
  BY DEF PipeTyped, CallFits
<1> QED
  BY <1>2, <1>3, <1>4, <1>5, PipeKeeps

LEMMA BeginKeeps ==
    ASSUME PipeInv, NEW t \in PipeTasks, NEW op \in {"read", "write"}, NEW n \in Nat, NEW nonblock \in BOOLEAN,
           BeginCall(t, op, n, nonblock)
    PROVE  PipeInv'
<1> USE DEF PipeInv, BeginCall, Idles
<1>1. PipeTyped'
  BY DEF PipeTyped
<1>2. \A x \in PipeTasks : CallFits(doing'[x], end'[x])
  BY DEF PipeTyped, CallFits, ToRead, ToWrite
<1>3. \A x \in slept' : MustSleep(pipe', doing'[x], end'[x])
  BY DEF PipeTyped, MustSleep
<1> QED
  BY <1>1, <1>2, <1>3, PipeKeeps

LEMMA SignalKeeps ==
    ASSUME PipeInv, NEW t \in PipeTasks, Interrupt(t) \/ Deliver(t)
    PROVE  PipeInv'
<1>1. CASE Interrupt(t)
  <2>1. PipeTyped' /\ slept' \in SUBSET slept
    BY <1>1 DEF PipeInv, PipeTyped, Interrupt
  <2> QED
    BY <1>1, <2>1, PipeKeeps DEF PipeInv, Interrupt
<1>2. CASE Deliver(t)
  <2>1. PipeTyped'
    BY <1>2 DEF PipeInv, PipeTyped, Deliver
  <2> QED
    BY <1>2, <2>1, PipeKeeps DEF PipeInv, Deliver
<1> QED
  BY <1>1, <1>2

-----------------------------------------------------------------------------
(* The ring. *)

LEMMA WrapHigh ==
    ASSUME NEW N \in Nat \ {0}, NEW x \in 0..(2 * N - 1)
    PROVE  x % N = IF x < N THEN x ELSE x - N
<1>1. CASE x < N
  BY <1>1
<1>2. CASE x >= N
  BY <1>2
<1> QED
  BY <1>1, <1>2

LEMMA WrapLow ==
    ASSUME NEW N \in Nat \ {0}, NEW x \in (1 - 2 * N)..(N - 1)
    PROVE  x % N = IF x >= 0 THEN x ELSE IF x >= -N THEN x + N ELSE x + 2 * N
<1>1. CASE x >= 0
  BY <1>1
<1>2. CASE x < 0 /\ x >= -N
  BY <1>2
<1>3. CASE x < -N
  BY <1>3
<1> QED
  BY <1>1, <1>2, <1>3

\* What is taken from the front of the ring is taken from the front of the stream,
LEMMA RingTakes ==
    ASSUME NEW d, NEW h \in 0..PIPE_BUF_SIZE - 1, NEW l \in 0..PIPE_BUF_SIZE, NEW n \in 1..l
    PROVE  SubSeq(RingOf(d, h, l), n + 1, l) = RingOf(d, (h + n) % PIPE_BUF_SIZE, l - n)
<1> DEFINE N == PIPE_BUF_SIZE  s == RingOf(d, h, l)
<1>1. N \in Nat \ {0}
  BY KernelAssumption
<1>2. SubSeq(s, n + 1, l) = [i \in 1..(l - n) |-> s[i + n]]
  BY <1>1
<1>3. ASSUME NEW i \in 1..(l - n) PROVE s[i + n] = d[(((h + n) % N) + i - 1) % N]
  <2> DEFINE g == h + n  m == h + n + i - 1  r == g % N  k == r + i - 1
  <2>1. /\ g \in 0..(2 * N - 1) /\ m \in 0..(2 * N - 1) /\ h + (i + n) - 1 = m /\ m = g + i - 1 /\ i \in 1..N
        /\ i + n \in 1..l /\ m < g + N /\ m - N < N
    BY <1>1
  <2> HIDE DEF N, g, m
  <2>2. r = IF g < N THEN g ELSE g - N
    BY <1>1, <2>1, WrapHigh
  <2> HIDE DEF r
  <2>3. m % N = IF m < N THEN m ELSE m - N
    BY <1>1, <2>1, WrapHigh
  <2>4. k \in 0..(2 * N - 1) /\ k = r + i - 1
    BY <1>1, <2>1, <2>2
  <2> HIDE DEF k
  <2>5. k % N = IF k < N THEN k ELSE k - N
    BY <1>1, <2>4, WrapHigh
  <2>6. m % N = k % N
    BY <1>1, <2>1, <2>2, <2>3, <2>4, <2>5
  <2>7. s[i + n] = d[(h + (i + n) - 1) % N]
    BY <2>1 DEF RingOf, N
  <2> QED
    BY <2>1, <2>6, <2>7 DEF g, k, r
<1> QED
  BY <1>2, <1>3 DEF RingOf

\* and what is put at the back of the one is put at the back of the other.
LEMMA RingAdds ==
    ASSUME NEW d, NEW h \in 0..PIPE_BUF_SIZE - 1, NEW l \in 0..PIPE_BUF_SIZE, NEW n \in 1..(PIPE_BUF_SIZE - l), NEW z \in PipeTasks,
           RingOf(d, h, l) \in Seq(PipeTasks)
    PROVE  RingOf(PutAt(d, h, l, n, z), h, l + n) = RingOf(d, h, l) \o Same(n, z)
<1> DEFINE N == PIPE_BUF_SIZE  f == PutAt(d, h, l, n, z)  s == RingOf(d, h, l)
<1>1. N \in Nat \ {0}
  BY KernelAssumption
<1>2. ASSUME NEW i \in 1..(l + n) PROVE f[(h + i - 1) % N] = IF i <= l THEN d[(h + i - 1) % N] ELSE z
  <2> DEFINE m == h + i - 1  j == m % N  k == j - h - l
  <2>1. m \in 0..(2 * N - 1) /\ m = h + i - 1
    BY <1>1
  <2> HIDE DEF N, m
  <2>2. j = IF m < N THEN m ELSE m - N
    BY <1>1, <2>1, WrapHigh
  <2> HIDE DEF j
  <2>3. j \in 0..N - 1
    BY <1>1, <2>1, <2>2
  <2>4. k \in (1 - 2 * N)..(N - 1) /\ k = j - h - l
    BY <1>1, <2>3 DEF N
  <2> HIDE DEF k
  <2>5. k % N = IF k >= 0 THEN k ELSE IF k >= -N THEN k + N ELSE k + 2 * N
    BY <1>1, <2>4, WrapLow
  <2>6. k % N = IF i <= l THEN i - 1 - l + N ELSE i - 1 - l
    BY <1>1, <2>1, <2>2, <2>4, <2>5 DEF N
  <2>7. f[j] = IF (k % N) + 1 <= n THEN z ELSE d[j]
    BY <2>3, <2>4 DEF PutAt, N
  <2>8. f[j] = IF i <= l THEN d[j] ELSE z
    BY <1>1, <2>6, <2>7 DEF N
  <2> QED
    BY <2>8 DEF j, m
<1>3. s = [i \in 1..l |-> d[(h + i - 1) % N]] /\ Len(s) = l
  BY <1>1 DEF RingOf
<1>4. RingOf(f, h, l + n) = [i \in 1..(l + n) |-> IF i <= l THEN s[i] ELSE z]
  <2>1. ASSUME NEW i \in 1..(l + n) PROVE f[(h + i - 1) % N] = IF i <= l THEN s[i] ELSE z
    <3>1. CASE i <= l
      <4>1. i \in 1..l
        BY <1>1, <3>1
      <4>2. s[i] = d[(h + i - 1) % N]
        BY <1>3, <4>1
      <4> QED
        BY <1>2, <3>1, <4>2
    <3>2. CASE ~(i <= l)
      BY <1>2, <3>2
    <3> QED
      BY <3>1, <3>2
  <2> HIDE DEF f, s
  <2> QED
    BY <2>1 DEF RingOf
<1>5. s \o Same(n, z) = [i \in 1..(l + n) |-> IF i <= l THEN s[i] ELSE z]
  <2> HIDE DEF s
  <2>1. s \in Seq(PipeTasks) /\ Len(s) = l
    BY <1>3 DEF s
  <2>2. Same(n, z) \in Seq(PipeTasks) /\ Len(Same(n, z)) = n
    BY DEF Same
  <2> QED
    BY <2>1, <2>2, SMTT(30) DEF Same
<1> QED
  BY <1>4, <1>5

LEMMA SameIsStream == ASSUME NEW n \in Nat, NEW z \in PipeTasks PROVE Same(n, z) \in Seq(PipeTasks)
  BY DEF Same

LEMMA PipePuts ==
    ASSUME NEW p, p.head \in 0..PIPE_BUF_SIZE - 1, p.len \in 0..PIPE_BUF_SIZE, NEW n \in 1..(PIPE_BUF_SIZE - p.len),
           NEW z \in PipeTasks, RingOf(p.data, p.head, p.len) \in Seq(PipeTasks)
    PROVE  RingOf(PutAt(p.data, p.head, p.len, n, z), p.head, p.len + n) = RingOf(p.data, p.head, p.len) \o Same(n, z)
<1> DEFINE h == p.head  l == p.len  d == p.data
<1>1. h \in 0..PIPE_BUF_SIZE - 1 /\ l \in 0..PIPE_BUF_SIZE /\ n \in 1..(PIPE_BUF_SIZE - l) /\ RingOf(d, h, l) \in Seq(PipeTasks)
  OBVIOUS
<1> HIDE DEF h, l, d
<1>2. RingOf(PutAt(d, h, l, n, z), h, l + n) = RingOf(d, h, l) \o Same(n, z)
  BY <1>1, RingAdds, ZenonT(60)
<1> QED
  BY <1>2 DEF h, l, d

LEMMA TakeKeeps ==
    ASSUME PipeInv, NEW t \in PipeTasks, NEW n \in 1..pipe.len,
           pipe' = [pipe EXCEPT !.head = (@ + n) % PIPE_BUF_SIZE, !.len = @ - n],
           stream' = SubSeq(stream, n + 1, Len(stream)),
           slept' = {}, Returns(t), UNCHANGED <<end, signalled>>
    PROVE  PipeInv'
<1>1. pipe.len \in 0..PIPE_BUF_SIZE /\ pipe.head \in 0..PIPE_BUF_SIZE - 1 /\ PIPE_BUF_SIZE \in Nat \ {0}
  BY KernelAssumption DEF PipeInv, PipeTyped
<1>2. /\ pipe'.head = (pipe.head + n) % PIPE_BUF_SIZE /\ pipe'.len = pipe.len - n
      /\ pipe'.data = pipe.data /\ pipe'.readers = pipe.readers /\ pipe'.writers = pipe.writers
  BY DEF PipeInv, PipeTyped
<1>3. PipeTyped'
  <2>1. pipe'.head \in 0..PIPE_BUF_SIZE - 1 /\ pipe'.len \in 0..PIPE_BUF_SIZE
    BY <1>1, <1>2, SMTT(30)
  <2>2. pipe' \in [data : [0..PIPE_BUF_SIZE - 1 -> PipeTasks], head : 0..PIPE_BUF_SIZE - 1,
                   len : 0..PIPE_BUF_SIZE, readers : Nat, writers : Nat]
    BY <1>2, <2>1 DEF PipeInv, PipeTyped
  <2>3. stream' \in Seq(PipeTasks)
    BY <1>1, SMTT(30) DEF PipeInv, PipeTyped
  <2> QED
    BY <2>2, <2>3 DEF PipeInv, PipeTyped, NoOp, Returns
<1>4. Ring(pipe', stream')
  <2>1. stream = RingOf(pipe.data, pipe.head, pipe.len)
    BY DEF PipeInv, Ring
  <2>2. Len(stream) = pipe.len
    BY <1>1, <2>1 DEF RingOf
  <2>3. SubSeq(RingOf(pipe.data, pipe.head, pipe.len), n + 1, pipe.len)
          = RingOf(pipe.data, (pipe.head + n) % PIPE_BUF_SIZE, pipe.len - n)
    BY <1>1, RingTakes
  <2>4. stream' = SubSeq(RingOf(pipe.data, pipe.head, pipe.len), n + 1, pipe.len)
    BY <2>1, <2>2, Zenon
  <2>5. stream' = RingOf(pipe'.data, pipe'.head, pipe'.len)
    BY <1>2, <2>3, <2>4, Zenon
  <2> QED
    BY <2>5 DEF Ring
<1>5. \A x \in PipeTasks : CallFits(doing'[x], end'[x])
  BY DEF PipeInv, PipeTyped, CallFits, NoOp, Returns
<1>6. Counts(pipe', end')
  BY <1>2 DEF PipeInv, Counts
<1> QED
  BY <1>3, <1>4, <1>5, <1>6 DEF PipeInv

LEMMA ReadKeeps ==
    ASSUME PipeInv, NEW t \in PipeTasks, Read(t)
    PROVE  PipeInv'
<1> DEFINE n == IF doing[t].left < pipe.len THEN doing[t].left ELSE pipe.len
<1>1. n \in 0..pipe.len /\ pipe.len \in Nat
  BY KernelAssumption, SMTT(30) DEF PipeInv, PipeTyped
<1>2. doing[t].op = "read" /\ t \notin slept /\ end[t] \in {"reader", "duplex"} /\ doing[t].left > 0
  BY DEF Read, Runs, PipeInv, CallFits
<1>3. CASE n > 0
  <2>1. /\ pipe' = [pipe EXCEPT !.head = (@ + n) % PIPE_BUF_SIZE, !.len = @ - n]
        /\ stream' = SubSeq(stream, n + 1, Len(stream))
        /\ slept' = {} /\ Returns(t) /\ UNCHANGED <<end, signalled>>
    BY <1>3 DEF Read
  <2>2. n \in 1..pipe.len
    BY <1>1, <1>3
  <2> HIDE DEF n
  <2> QED
    BY <2>1, <2>2, TakeKeeps
<1>4. CASE ~(n > 0)
  <2>1. pipe.len = 0
    BY <1>1, <1>2, <1>4 DEF PipeInv, PipeTyped
  <2>2. CASE Returns(t) /\ UNCHANGED <<pipe, end, slept, signalled, stream>>
    BY <1>2, <2>2, ReturnKeeps DEF PipeInv, PipeTyped
  <2>3. CASE ~(Returns(t) /\ UNCHANGED <<pipe, end, slept, signalled, stream>>)
    <3>1. pipe.writers # 0 /\ slept' = slept \cup {t} /\ UNCHANGED <<pipe, end, doing, signalled, stream>>
      BY <1>4, <2>3 DEF Read, WaitOr
    <3>2. MustSleep(pipe, doing[t], end[t])
      BY <1>2, <2>1, <3>1 DEF MustSleep, PipeInv, PipeTyped
    <3> QED
      BY <3>1, <3>2, SleepKeeps
  <2> QED
    BY <2>2, <2>3
<1> QED
  BY <1>3, <1>4

LEMMA PutKeeps ==
    ASSUME PipeInv, NEW t \in PipeTasks, NEW n \in 1..Space,
           pipe' = [pipe EXCEPT !.data = PutAt(@, pipe.head, pipe.len, n, t), !.len = @ + n],
           stream' = stream \o Same(n, t),
           slept' = {}, UNCHANGED <<end, signalled>>,
           NEW d \in [op : {"none", "open", "read", "write"}, left : Nat, len : Nat, nonblock : BOOLEAN],
           doing' = [doing EXCEPT ![t] = d], CallFits(d, end[t])
    PROVE  PipeInv'
<1>1. /\ pipe.len \in 0..PIPE_BUF_SIZE /\ pipe.head \in 0..PIPE_BUF_SIZE - 1 /\ PIPE_BUF_SIZE \in Nat \ {0}
      /\ n \in 1..(PIPE_BUF_SIZE - pipe.len)
  BY KernelAssumption DEF PipeInv, PipeTyped, Space
<1>2. /\ pipe'.head = pipe.head /\ pipe'.len = pipe.len + n
      /\ pipe'.data = PutAt(pipe.data, pipe.head, pipe.len, n, t)
      /\ pipe'.readers = pipe.readers /\ pipe'.writers = pipe.writers
  BY DEF PipeInv, PipeTyped
<1>3. doing' \in [PipeTasks -> [op : {"none", "open", "read", "write"}, left : Nat, len : Nat, nonblock : BOOLEAN]]
  BY DEF PipeInv, PipeTyped
<1>4. PipeTyped'
  <2>1. PutAt(pipe.data, pipe.head, pipe.len, n, t) \in [0..PIPE_BUF_SIZE - 1 -> PipeTasks]
    BY DEF PipeInv, PipeTyped, PutAt
  <2>2. pipe.len + n \in 0..PIPE_BUF_SIZE
    BY <1>1
  <2>3. pipe' \in [data : [0..PIPE_BUF_SIZE - 1 -> PipeTasks], head : 0..PIPE_BUF_SIZE - 1,
                   len : 0..PIPE_BUF_SIZE, readers : Nat, writers : Nat]
    BY <2>1, <2>2 DEF PipeInv, PipeTyped
  <2>4. stream' \in Seq(PipeTasks)
    <3>1. n \in Nat
      BY <1>1
    <3>2. stream \in Seq(PipeTasks) /\ Same(n, t) \in Seq(PipeTasks)
      BY <3>1, SameIsStream DEF PipeInv, PipeTyped
    <3> QED
      BY <3>2
  <2> QED
    BY <1>3, <2>3, <2>4 DEF PipeInv, PipeTyped
<1>5. Ring(pipe', stream')
  <2>1. stream \in Seq(PipeTasks) /\ stream = RingOf(pipe.data, pipe.head, pipe.len)
    BY DEF PipeInv, PipeTyped, Ring
  <2>2. RingOf(pipe.data, pipe.head, pipe.len) \in Seq(PipeTasks)
    BY <2>1, Zenon
  <2>3. RingOf(PutAt(pipe.data, pipe.head, pipe.len, n, t), pipe.head, pipe.len + n)
          = RingOf(pipe.data, pipe.head, pipe.len) \o Same(n, t)
    BY <1>1, <2>2, PipePuts
  <2>4. stream' = RingOf(pipe'.data, pipe'.head, pipe'.len)
    BY <1>2, <2>1, <2>3, Zenon
  <2> QED
    BY <2>4 DEF Ring
<1>6. ASSUME NEW x \in PipeTasks PROVE CallFits(doing'[x], end'[x])
  <2>1. CallFits(doing[x], end[x]) /\ end'[x] = end[x]
    BY DEF PipeInv
  <2>2. doing'[x] = IF x = t THEN d ELSE doing[x]
    BY DEF PipeInv, PipeTyped
  <2> QED
    BY <2>1, <2>2
<1>7. Counts(pipe', end')
  BY <1>2 DEF PipeInv, Counts
<1> QED
  BY <1>4, <1>5, <1>6, <1>7 DEF PipeInv

LEMMA WriteKeeps ==
    ASSUME PipeInv, NEW t \in PipeTasks, Write(t)
    PROVE  PipeInv'
<1> DEFINE n == IF doing[t].left < Space THEN doing[t].left ELSE Space
<1>1. /\ pipe.len \in 0..PIPE_BUF_SIZE /\ PIPE_BUF_SIZE \in Nat \ {0}
      /\ doing[t].left \in Nat /\ doing[t].len \in Nat /\ pipe.readers \in Nat /\ Space \in Nat /\ Space = PIPE_BUF_SIZE - pipe.len
  BY KernelAssumption, SMTT(30) DEF PipeInv, PipeTyped, Space
<1>2. /\ doing[t].op = "write" /\ t \notin slept /\ end[t] \in {"writer", "duplex"} /\ doing[t].left > 0 /\ doing[t].len > 0
      /\ doing[t].len <= Atomic => doing[t].left = doing[t].len
  BY DEF Write, Runs, PipeInv, CallFits
<1>3. CASE pipe.readers # 0 /\ Space >= Need(t)
  <2> DEFINE d == IF n = doing[t].left THEN NoOp ELSE [doing[t] EXCEPT !.left = @ - n]
  <2>1. /\ pipe' = [pipe EXCEPT
              !.data = [j \in DOMAIN @ |->
                  LET i == ((j - pipe.head - pipe.len) % PIPE_BUF_SIZE) + 1 IN IF i <= n THEN t ELSE @[j]],
              !.len = @ + n]
        /\ stream' = stream \o [i \in 1..n |-> t]
        /\ slept' = {} /\ UNCHANGED <<end, signalled>>
        /\ IF n = doing[t].left THEN Returns(t) ELSE doing' = [doing EXCEPT ![t].left = @ - n]
    BY <1>3 DEF Write
  <2>2. n \in 1..Space /\ n <= doing[t].left /\ (doing[t].len <= Atomic => n = doing[t].left)
    BY <1>1, <1>2, <1>3 DEF Need
  <2> HIDE DEF n
  <2>3. pipe' = [pipe EXCEPT !.data = PutAt(@, pipe.head, pipe.len, n, t), !.len = @ + n]
    <3>1. DOMAIN pipe.data = 0..PIPE_BUF_SIZE - 1
      BY DEF PipeInv, PipeTyped
    <3> QED
      BY <2>1, <3>1 DEF PutAt
  <2>4. d \in [op : {"none", "open", "read", "write"}, left : Nat, len : Nat, nonblock : BOOLEAN] /\ CallFits(d, end[t])
    <3>1. CASE n = doing[t].left
      <4>1. d = NoOp
        BY <3>1
      <4> HIDE DEF d
      <4> QED
        BY <4>1 DEF NoOp, CallFits
    <3>2. CASE n # doing[t].left
      <4>1. doing[t].left - n \in Nat /\ doing[t].left - n > 0 /\ ~(doing[t].len <= Atomic)
        BY <1>1, <2>2, <3>2
      <4>2. d = [doing[t] EXCEPT !.left = doing[t].left - n]
        BY <3>2
      <4> HIDE DEF d
      <4>3. doing[t] \in [op : {"none", "open", "read", "write"}, left : Nat, len : Nat, nonblock : BOOLEAN]
        BY DEF PipeInv, PipeTyped
      <4>4. d \in [op : {"none", "open", "read", "write"}, left : Nat, len : Nat, nonblock : BOOLEAN]
        BY <4>1, <4>2, <4>3
      <4>5. d.op = "write" /\ d.left = doing[t].left - n /\ d.len = doing[t].len
        BY <1>2, <4>2, <4>3
      <4> QED
        BY <1>2, <4>1, <4>4, <4>5 DEF CallFits
    <3> QED
      BY <3>1, <3>2
  <2>5. doing' = [doing EXCEPT ![t] = d]
    BY <2>1 DEF Returns
  <2>6. stream' = stream \o Same(n, t)
    BY <2>1 DEF Same
  <2> HIDE DEF d
  <2> QED
    BY <2>1, <2>2, <2>3, <2>4, <2>5, <2>6, PutKeeps
<1>4. CASE ~(pipe.readers # 0 /\ Space >= Need(t))
  <2>1. CASE Returns(t) /\ UNCHANGED <<pipe, end, slept, stream>> /\ signalled' \in SUBSET PipeTasks
    BY <1>2, <2>1, ReturnKeeps
  <2>2. CASE ~(Returns(t) /\ UNCHANGED <<pipe, end, slept, stream>> /\ signalled' \in SUBSET PipeTasks)
    <3>1. pipe.readers # 0
      BY <2>2 DEF Write, PipeInv, PipeTyped
    <3>2. slept' = slept \cup {t} /\ UNCHANGED <<pipe, end, doing, signalled, stream>>
      BY <1>4, <2>2, <3>1 DEF Write, WaitOr, PipeInv, PipeTyped
    <3>3. Space < Need(t)
      BY <1>1, <1>4, <3>1 DEF Need
    <3>4. MustSleep(pipe, doing[t], end[t])
      BY <1>1, <1>2, <3>1, <3>3 DEF MustSleep, Need, Space
    <3> QED
      BY <3>2, <3>4, SleepKeeps
  <2> QED
    BY <2>1, <2>2
<1> QED
  BY <1>3, <1>4

LEMMA PipeStays == PipeInv /\ UNCHANGED pipeVars => PipeInv'
  BY DEF PipeInv, PipeTyped, Ring, Counts, pipeVars

LEMMA PipeSteps == PipeInv /\ PipeNext => PipeInv'
<1> SUFFICES ASSUME PipeInv, PipeNext PROVE PipeInv'
  OBVIOUS
<1>1. PICK t \in PipeTasks :
         \/ Opening(t) \/ Close(t) \/ Read(t) \/ Write(t) \/ Interrupt(t) \/ Deliver(t)
         \/ \E kind \in Ends, nonblock \in BOOLEAN : Open(t, kind, nonblock)
         \/ \E op \in {"read", "write"} :
               \/ BeginCall(t, op, PIPE_BUF_SIZE, TRUE)
               \/ \E n \in 1..PIPE_BUF_SIZE : BeginCall(t, op, n, FALSE)
  BY DEF PipeNext
<1>2. CASE Opening(t)
  BY <1>2, OpeningKeeps
<1>3. CASE Close(t)
  BY <1>3, CloseKeeps
<1>4. CASE Read(t)
  BY <1>4, ReadKeeps
<1>5. CASE Write(t)
  BY <1>5, WriteKeeps
<1>6. CASE Interrupt(t) \/ Deliver(t)
  BY <1>6, SignalKeeps
<1>7. CASE \E kind \in Ends, nonblock \in BOOLEAN : Open(t, kind, nonblock)
  BY <1>7, OpenKeeps
<1>8. CASE \E op \in {"read", "write"} :
               \/ BeginCall(t, op, PIPE_BUF_SIZE, TRUE)
               \/ \E n \in 1..PIPE_BUF_SIZE : BeginCall(t, op, n, FALSE)
  <2>1. PICK op \in {"read", "write"} :
               \/ BeginCall(t, op, PIPE_BUF_SIZE, TRUE)
               \/ \E n \in 1..PIPE_BUF_SIZE : BeginCall(t, op, n, FALSE)
    BY <1>8
  <2>2. PIPE_BUF_SIZE \in Nat /\ 1..PIPE_BUF_SIZE \in SUBSET Nat
    BY KernelAssumption
  <2> QED
    BY <2>1, <2>2, BeginKeeps
<1> QED
  BY <1>1, <1>2, <1>3, <1>4, <1>5, <1>6, <1>7, <1>8

-----------------------------------------------------------------------------
(* Lists of which one is taken out. *)

LEMMA Removed ==
    ASSUME NEW S, NEW s \in Seq(S), NEW i \in DOMAIN s
    PROVE  /\ RemoveAt(s, i) \in Seq(S) /\ Len(RemoveAt(s, i)) = Len(s) - 1
           /\ \A k \in DOMAIN RemoveAt(s, i) : RemoveAt(s, i)[k] = IF k < i THEN s[k] ELSE s[k + 1]
<1> DEFINE a == SubSeq(s, 1, i - 1)
           b == SubSeq(s, i + 1, Len(s))
<1>1. Len(s) \in Nat /\ i \in Nat /\ 1 <= i /\ i <= Len(s)
  OBVIOUS
<1>2. a \in Seq(S) /\ Len(a) = i - 1 /\ \A k \in 1..(i - 1) : a[k] = s[k]
  BY <1>1
<1>3. b \in Seq(S) /\ Len(b) = Len(s) - i /\ \A k \in 1..(Len(s) - i) : b[k] = s[k + i]
  BY <1>1
<1>4. RemoveAt(s, i) = a \o b
  BY DEF RemoveAt
<1> HIDE DEF a, b
<1>5. a \o b \in Seq(S) /\ Len(a \o b) = Len(s) - 1
  BY <1>1, <1>2, <1>3
<1>6. ASSUME NEW k \in 1..(Len(s) - 1) PROVE (a \o b)[k] = IF k < i THEN s[k] ELSE s[k + 1]
  <2>1. CASE k < i
    BY <1>1, <1>2, <1>3, <2>1
  <2>2. CASE ~(k < i)
    <3>1. (a \o b)[k] = b[k - (i - 1)]
      BY <1>1, <1>2, <1>3, <2>2, SMTT(30)
    <3>2. k - (i - 1) \in 1..(Len(s) - i) /\ (k - (i - 1)) + i = k + 1
      BY <1>1, <2>2
    <3> QED
      BY <1>3, <2>2, <3>1, <3>2
  <2> QED
    BY <2>1, <2>2
<1>7. DOMAIN (a \o b) = 1..(Len(s) - 1)
  BY <1>1, <1>5
<1> QED
  BY <1>4, <1>5, <1>6, <1>7

\* Every other one is still there, at a place of its own.
From(i, k) == IF k < i THEN k ELSE k + 1
To(i, j) == IF j < i THEN j ELSE j - 1

LEMMA OthersRemain ==
    ASSUME NEW S, NEW s \in Seq(S), NEW i \in DOMAIN s
    PROVE  /\ RemoveAt(s, i) \in Seq(S)
           /\ \A k \in DOMAIN RemoveAt(s, i) :
                 /\ From(i, k) \in DOMAIN s /\ From(i, k) # i /\ To(i, From(i, k)) = k
                 /\ RemoveAt(s, i)[k] = s[From(i, k)]
           /\ \A j \in DOMAIN s : j # i =>
                 /\ To(i, j) \in DOMAIN RemoveAt(s, i) /\ From(i, To(i, j)) = j
                 /\ RemoveAt(s, i)[To(i, j)] = s[j]
<1> DEFINE r == RemoveAt(s, i)
<1>1. r \in Seq(S) /\ Len(r) = Len(s) - 1 /\ Len(s) \in Nat /\ i \in 1..Len(s)
  BY Removed
<1>2. \A k \in DOMAIN r : r[k] = IF k < i THEN s[k] ELSE s[k + 1]
  BY Removed
<1> HIDE DEF r
<1>3. DOMAIN r = 1..(Len(s) - 1) /\ DOMAIN s = 1..Len(s)
  BY <1>1
<1>4. ASSUME NEW k \in DOMAIN r
      PROVE  From(i, k) \in DOMAIN s /\ From(i, k) # i /\ To(i, From(i, k)) = k /\ r[k] = s[From(i, k)]
  BY <1>1, <1>2, <1>3 DEF From, To
<1>5. ASSUME NEW j \in DOMAIN s, j # i
      PROVE  To(i, j) \in DOMAIN r /\ From(i, To(i, j)) = j /\ r[To(i, j)] = s[j]
  BY <1>1, <1>2, <1>3, <1>5 DEF From, To
<1> QED
  BY <1>1, <1>4, <1>5 DEF r

-----------------------------------------------------------------------------
(* The invariant of the futexes. *)

Entry == [key : Words, task : FutexThreads, bitset : SUBSET AllBits, woken : BOOLEAN]

FutexTyped ==
    /\ entries \in Seq(Entry)
    /\ step \in [FutexThreads -> {"user", "reading", "asleep"}]
    /\ stirred \in SUBSET FutexThreads

\* The threads on the list, once each, are those in the call.
Listed(l) == \A i, j \in DOMAIN l : l[i].task = l[j].task => i = j
InCall(l, t) == \E i \in DOMAIN l : l[i].task = t

WokenIn(l) == {i \in DOMAIN l : l[i].woken}

FutexInv ==
    /\ FutexTyped
    /\ Listed(entries)
    /\ \A t \in FutexThreads : InCall(entries, t) <=> step[t] # "user"
    /\ owed = Cardinality(WokenIn(entries))
    /\ \A i \in DOMAIN entries : entries[i].woken => step[entries[i].task] = "reading" \/ entries[i].task \in stirred

LEMMA FutexFollows == FutexInv => FutexIsSound
<1> SUFFICES ASSUME FutexInv PROVE FutexIsSound
  OBVIOUS
<1>1. WakesAreOwned
  <2>1. ASSUME NEW e \in Range(entries), e.woken PROVE step[e.task] = "reading" \/ e.task \in stirred
    <3>1. PICK i \in DOMAIN entries : e = entries[i]
      BY DEF Range
    <3> QED
      BY <2>1, <3>1 DEF FutexInv
  <2> QED
    BY <2>1 DEF FutexInv, WakesAreOwned, WokenIn
<1>2. WaitersAreListed
  <2> SUFFICES ASSUME NEW t \in FutexThreads
               PROVE  Cardinality({i \in DOMAIN entries : entries[i].task = t}) = (IF step[t] = "user" THEN 0 ELSE 1)
    BY DEF WaitersAreListed
  <2>1. CASE step[t] = "user"
    <3>1. {i \in DOMAIN entries : entries[i].task = t} = {}
      BY <2>1 DEF FutexInv, InCall
    <3> QED
      BY <2>1, <3>1, FS_EmptySet
  <2>2. CASE step[t] # "user"
    <3>1. PICK i \in DOMAIN entries : entries[i].task = t
      BY <2>2 DEF FutexInv, InCall
    <3>2. {j \in DOMAIN entries : entries[j].task = t} = {i}
      BY <3>1 DEF FutexInv, Listed
    <3> QED
      BY <2>2, <3>2, FS_Singleton
  <2> QED
    BY <2>1, <2>2
<1> QED
  BY <1>1, <1>2 DEF FutexIsSound

LEMMA FutexStarts == FutexInit => FutexInv
<1> SUFFICES ASSUME FutexInit PROVE FutexInv
  OBVIOUS
<1>1. entries = <<>> /\ DOMAIN entries = {}
  BY DEF FutexInit
<1>2. WokenIn(entries) = {}
  BY <1>1 DEF WokenIn
<1>3. owed = Cardinality(WokenIn(entries))
  BY <1>2, FS_EmptySet DEF FutexInit
<1>4. FutexTyped
  BY DEF FutexInit, FutexTyped
<1> QED
  BY <1>1, <1>3, <1>4 DEF FutexInv, FutexInit, Listed, InCall

LEMMA PlacesAreFinite == ASSUME NEW S, NEW l \in Seq(S) PROVE IsFiniteSet(DOMAIN l)
<1>1. DOMAIN l = 1..Len(l) /\ Len(l) \in Nat
  OBVIOUS
<1> QED
  BY <1>1, FS_Interval

LEMMA WokenAreFinite == ASSUME NEW S, NEW l \in Seq(S) PROVE IsFiniteSet(WokenIn(l)) /\ Cardinality(WokenIn(l)) \in Nat
<1>1. IsFiniteSet(WokenIn(l))
  BY PlacesAreFinite, FS_Subset DEF WokenIn
<1> QED
  BY <1>1, FS_CardinalityType

-----------------------------------------------------------------------------
(* Waking. *)

\* The list when these of it are woken.
Wakened(l, hit) == [i \in DOMAIN l |-> IF i \in hit THEN [l[i] EXCEPT !.woken = TRUE] ELSE l[i]]

WakesThese(l, r, hit) ==
    /\ hit \in SUBSET DOMAIN l /\ \A i \in hit : ~l[i].woken
    /\ r = [entries |-> Wakened(l, hit), tasks |-> {l[i].task : i \in hit}, count |-> Cardinality(hit)]

LEMMA WakeKeyIs ==
    ASSUME NEW l, NEW key, NEW n, NEW bitset
    PROVE  \E hit : WakesThese(l, WakeKey(l, key, n, bitset), hit)
<1> DEFINE hit == Picked(l, n, LAMBDA e : Matches(e, key, bitset))
<1>1. hit \in SUBSET DOMAIN l /\ \A i \in hit : ~l[i].woken
  BY DEF Picked, Matches
<1>2. WakeKey(l, key, n, bitset) = [entries |-> Wakened(l, hit), tasks |-> {l[i].task : i \in hit}, count |-> Cardinality(hit)]
  BY DEF WakeKey, Wakened
<1> HIDE DEF hit
<1>3. WakesThese(l, WakeKey(l, key, n, bitset), hit)
  BY <1>1, <1>2 DEF WakesThese
<1> QED
  BY <1>3

\* What the caller is told, and who is stirred, when it wakes these.
LEMMA WokeThese ==
    ASSUME NEW l, NEW r, NEW hit, WakesThese(l, r, hit), Woke(r)
    PROVE  /\ hit \in SUBSET DOMAIN l /\ \A i \in hit : ~l[i].woken
           /\ r.entries = Wakened(l, hit) /\ owed' = owed + Cardinality(hit)
           /\ stirred \subseteq stirred'
           /\ \A x \in stirred' : x \in stirred \/ \E i \in hit : l[i].task = x
           /\ \A i \in hit : step[l[i].task] = "asleep" => l[i].task \in stirred'
<1>1. r.entries = Wakened(l, hit) /\ r.tasks = {l[i].task : i \in hit} /\ r.count = Cardinality(hit)
  BY DEF WakesThese
<1> QED
  BY <1>1 DEF WakesThese, Woke

LEMMA EntriesTyped ==
    ASSUME FutexInv
    PROVE  /\ entries \in Seq(Entry) /\ DOMAIN entries = 1..Len(entries) /\ Len(entries) \in Nat
           /\ \A i \in DOMAIN entries : entries[i] \in Entry /\ entries[i].task \in FutexThreads
<1>1. entries \in Seq(Entry)
  BY DEF FutexInv, FutexTyped
<1>2. DOMAIN entries = 1..Len(entries) /\ Len(entries) \in Nat /\ \A i \in DOMAIN entries : entries[i] \in Entry
  BY <1>1
<1>3. \A x \in Entry : x.task \in FutexThreads
  BY DEF Entry
<1> QED
  BY <1>1, <1>2, <1>3

\* A step that wakes these, and does nothing else to the tasks of the list.
LEMMA WakingKeeps ==
    ASSUME FutexInv, NEW hit \in SUBSET DOMAIN entries, \A i \in hit : ~entries[i].woken,
           entries' \in Seq(Entry), DOMAIN entries' = DOMAIN entries,
           \A i \in DOMAIN entries : /\ entries'[i].task = entries[i].task
                                     /\ entries'[i].woken <=> entries[i].woken \/ i \in hit,
           owed' = owed + Cardinality(hit), step' = step, stirred' \in SUBSET FutexThreads, stirred \subseteq stirred',
           \A i \in hit : step[entries[i].task] = "asleep" => entries[i].task \in stirred'
    PROVE  FutexInv'
<1>1. FutexTyped'
  BY DEF FutexInv, FutexTyped
<1>2. Listed(entries') /\ \A t \in FutexThreads : InCall(entries', t) <=> step'[t] # "user"
  BY DEF FutexInv, Listed, InCall
<1>3. owed' = Cardinality(WokenIn(entries'))
  <2>1. WokenIn(entries') = WokenIn(entries) \cup hit /\ WokenIn(entries) \cap hit = {}
    BY DEF WokenIn
  <2>2. IsFiniteSet(WokenIn(entries)) /\ IsFiniteSet(hit)
    BY PlacesAreFinite, FS_Subset DEF WokenIn, FutexInv, FutexTyped
  <2>3. Cardinality(WokenIn(entries) \cup hit) = Cardinality(WokenIn(entries)) + Cardinality(hit) - Cardinality({})
    BY <2>1, <2>2, FS_Union
  <2>4. Cardinality(WokenIn(entries')) = Cardinality(WokenIn(entries) \cup hit)
    BY <2>1, Zenon
  <2>5. Cardinality({}) = 0 /\ Cardinality(hit) \in Nat /\ Cardinality(WokenIn(entries)) \in Nat
    BY <2>2, FS_EmptySet, FS_CardinalityType
  <2> QED
    BY <2>3, <2>4, <2>5 DEF FutexInv
<1>4. ASSUME NEW i \in DOMAIN entries', entries'[i].woken
      PROVE  step'[entries'[i].task] = "reading" \/ entries'[i].task \in stirred'
  <2>1. entries'[i].task = entries[i].task /\ i \in DOMAIN entries
    OBVIOUS
  <2>2. CASE entries[i].woken
    BY <2>1, <2>2 DEF FutexInv
  <2>3. CASE i \in hit
    <3>1. entries[i].task \in FutexThreads
      BY <2>1, EntriesTyped
    <3>2. step[entries[i].task] # "user"
      BY <2>1, <3>1 DEF FutexInv, InCall
    <3> QED
      BY <2>1, <2>3, <3>1, <3>2 DEF FutexInv, FutexTyped
  <2> QED
    BY <1>4, <2>1, <2>2, <2>3
<1> QED
  BY <1>1, <1>2, <1>3, <1>4 DEF FutexInv

LEMMA WakenedIs ==
    ASSUME NEW l \in Seq(Entry), NEW hit \in SUBSET DOMAIN l
    PROVE  /\ Wakened(l, hit) \in Seq(Entry) /\ DOMAIN Wakened(l, hit) = DOMAIN l
           /\ \A i \in DOMAIN l : /\ Wakened(l, hit)[i].task = l[i].task
                                  /\ Wakened(l, hit)[i].woken <=> l[i].woken \/ i \in hit
<1>1. DOMAIN l = 1..Len(l) /\ Len(l) \in Nat /\ \A i \in DOMAIN l : l[i] \in Entry
  OBVIOUS
<1>2. ASSUME NEW i \in DOMAIN l PROVE Wakened(l, hit)[i] \in Entry
  BY <1>1 DEF Wakened, Entry
<1>3. DOMAIN Wakened(l, hit) = DOMAIN l
  BY DEF Wakened
<1>4. Wakened(l, hit) \in Seq(Entry)
  BY <1>1, <1>2 DEF Wakened
<1> QED
  BY <1>1, <1>3, <1>4 DEF Wakened, Entry

LEMMA FutexWakeKeeps ==
    ASSUME FutexInv, NEW t, NEW key, NEW n, NEW bitset, FutexWake(t, key, n, bitset)
    PROVE  FutexInv'
<1> DEFINE r == WakeKey(entries, key, n, bitset)
<1>1. Woke(r) /\ entries' = r.entries /\ step' = step
  BY DEF FutexWake
<1>2. PICK hit : WakesThese(entries, r, hit)
  BY WakeKeyIs
<1> HIDE DEF r
<1>3. /\ hit \in SUBSET DOMAIN entries /\ \A i \in hit : ~entries[i].woken
      /\ r.entries = Wakened(entries, hit) /\ owed' = owed + Cardinality(hit)
      /\ stirred \subseteq stirred'
      /\ \A x \in stirred' : x \in stirred \/ \E i \in hit : entries[i].task = x
      /\ \A i \in hit : step[entries[i].task] = "asleep" => entries[i].task \in stirred'
  BY <1>1, <1>2, WokeThese
<1>4. stirred' \in SUBSET FutexThreads
  BY <1>3, EntriesTyped DEF FutexInv, FutexTyped
<1>5. /\ entries' \in Seq(Entry) /\ DOMAIN entries' = DOMAIN entries
      /\ \A i \in DOMAIN entries : /\ entries'[i].task = entries[i].task
                                   /\ entries'[i].woken <=> entries[i].woken \/ i \in hit
  BY <1>1, <1>3, EntriesTyped, WakenedIs
<1> QED
  BY <1>1, <1>3, <1>4, <1>5, WakingKeeps

LEMMA RequeueKeeps ==
    ASSUME FutexInv, NEW t, NEW key, NEW key2 \in Words, NEW n, NEW m, FutexRequeue(t, key, key2, n, m)
    PROVE  FutexInv'
<1> DEFINE r == WakeKey(entries, key, n, AllBits)
           w == r.entries
<1>1. /\ Woke(r) /\ step' = step
      /\ \E moved : entries' = [i \in DOMAIN entries |-> IF i \in moved THEN [w[i] EXCEPT !.key = key2] ELSE w[i]]
  BY DEF FutexRequeue
<1>2. PICK hit : WakesThese(entries, r, hit)
  BY WakeKeyIs
<1> HIDE DEF r
<1>3. /\ hit \in SUBSET DOMAIN entries /\ \A i \in hit : ~entries[i].woken
      /\ r.entries = Wakened(entries, hit) /\ owed' = owed + Cardinality(hit)
      /\ stirred \subseteq stirred'
      /\ \A x \in stirred' : x \in stirred \/ \E i \in hit : entries[i].task = x
      /\ \A i \in hit : step[entries[i].task] = "asleep" => entries[i].task \in stirred'
  BY <1>1, <1>2, WokeThese
<1>4. stirred' \in SUBSET FutexThreads
  BY <1>3, EntriesTyped DEF FutexInv, FutexTyped
<1>5. /\ w \in Seq(Entry) /\ DOMAIN w = DOMAIN entries
      /\ \A i \in DOMAIN entries : w[i].task = entries[i].task /\ (w[i].woken <=> entries[i].woken \/ i \in hit)
  BY <1>3, EntriesTyped, WakenedIs
<1> HIDE DEF w
<1>6. PICK moved : entries' = [i \in DOMAIN entries |-> IF i \in moved THEN [w[i] EXCEPT !.key = key2] ELSE w[i]]
  BY <1>1
<1>7. ASSUME NEW i \in DOMAIN entries
      PROVE  entries'[i] \in Entry /\ entries'[i].task = w[i].task /\ entries'[i].woken = w[i].woken
  <2>1. w[i] \in Entry
    BY <1>5
  <2>2. entries'[i] = IF i \in moved THEN [w[i] EXCEPT !.key = key2] ELSE w[i]
    BY <1>6
  <2> QED
    BY <2>1, <2>2 DEF Entry
<1>8. entries' \in Seq(Entry) /\ DOMAIN entries' = DOMAIN entries
  BY <1>6, <1>7, EntriesTyped
<1>9. \A i \in DOMAIN entries : entries'[i].task = entries[i].task /\ (entries'[i].woken <=> entries[i].woken \/ i \in hit)
  BY <1>5, <1>7
<1> QED
  BY <1>1, <1>3, <1>4, <1>8, <1>9, WakingKeeps

LEMMA WakeOpKeeps ==
    ASSUME FutexInv, NEW t, NEW key, NEW key2, NEW old, WakeOp(t, key, key2, old)
    PROVE  FutexInv'
<1> DEFINE n == IF word[key2] = old THEN 1 ELSE 0
           r == WakeKey(entries, key, 1, AllBits)
           w == r.entries
           q == WakeKey(w, key2, n, AllBits)
<1>1. Woke([tasks |-> r.tasks \cup q.tasks, count |-> r.count + q.count]) /\ entries' = q.entries /\ step' = step
  BY DEF WakeOp
<1>2. PICK one : WakesThese(entries, r, one)
  BY WakeKeyIs
<1> HIDE DEF r, n
<1>3. PICK two : WakesThese(w, q, two)
  <2> HIDE DEF w
  <2> QED
    BY WakeKeyIs
<1> HIDE DEF q
<1>4. /\ one \in SUBSET DOMAIN entries /\ \A i \in one : ~entries[i].woken
      /\ w = Wakened(entries, one) /\ r.tasks = {entries[i].task : i \in one} /\ r.count = Cardinality(one)
  BY <1>2 DEF WakesThese
<1> HIDE DEF w
<1>5. /\ two \in SUBSET DOMAIN w /\ \A i \in two : ~w[i].woken
      /\ q.entries = Wakened(w, two) /\ q.tasks = {w[i].task : i \in two} /\ q.count = Cardinality(two)
  BY <1>3 DEF WakesThese
<1>6. /\ w \in Seq(Entry) /\ DOMAIN w = DOMAIN entries
      /\ \A i \in DOMAIN entries : w[i].task = entries[i].task /\ (w[i].woken <=> entries[i].woken \/ i \in one)
  BY <1>4, EntriesTyped, WakenedIs
<1>7. /\ entries' \in Seq(Entry) /\ DOMAIN entries' = DOMAIN w
      /\ \A i \in DOMAIN w : entries'[i].task = w[i].task /\ (entries'[i].woken <=> w[i].woken \/ i \in two)
  BY <1>1, <1>5, <1>6, WakenedIs
<1> DEFINE hit == one \cup two
<1>8. hit \in SUBSET DOMAIN entries /\ (\A i \in hit : ~entries[i].woken) /\ one \cap two = {}
  BY <1>4, <1>5, <1>6
<1>9. owed' = owed + Cardinality(hit)
  <2>1. IsFiniteSet(one) /\ IsFiniteSet(two)
    <3>1. IsFiniteSet(DOMAIN entries)
      BY EntriesTyped, PlacesAreFinite
    <3> QED
      BY <1>8, <3>1, FS_Subset
  <2>2. Cardinality(hit) = Cardinality(one) + Cardinality(two) - Cardinality({})
    BY <1>8, <2>1, FS_Union
  <2>3. Cardinality({}) = 0 /\ Cardinality(one) \in Nat /\ Cardinality(two) \in Nat
    BY <2>1, FS_EmptySet, FS_CardinalityType
  <2>4. owed' = owed + (r.count + q.count)
    BY <1>1 DEF Woke
  <2>5. r.count = Cardinality(one) /\ q.count = Cardinality(two)
    BY <1>4, <1>5, Zenon
  <2> QED
    BY <2>2, <2>3, <2>4, <2>5
<1>10. /\ stirred \subseteq stirred'
       /\ \A x \in stirred' : x \in stirred \/ \E i \in hit : entries[i].task = x
       /\ \A i \in hit : step[entries[i].task] = "asleep" => entries[i].task \in stirred'
  <2>1. stirred' = stirred \cup {x \in r.tasks \cup q.tasks : step[x] = "asleep"}
    BY <1>1 DEF Woke
  <2>2. \A x : x \in r.tasks \cup q.tasks <=> \E i \in hit : entries[i].task = x
    BY <1>4, <1>5, <1>6
  <2> HIDE DEF hit
  <2> QED
    BY <2>1, <2>2
<1>11. stirred' \in SUBSET FutexThreads
  BY <1>8, <1>10, EntriesTyped DEF FutexInv, FutexTyped
<1>12. \A i \in DOMAIN entries : entries'[i].task = entries[i].task /\ (entries'[i].woken <=> entries[i].woken \/ i \in hit)
  BY <1>6, <1>7
<1> HIDE DEF hit
<1> QED
  BY <1>1, <1>6, <1>7, <1>8, <1>9, <1>10, <1>11, <1>12, WakingKeeps

-----------------------------------------------------------------------------
(* Coming and going. *)

LEMMA FutexWaitKeeps ==
    ASSUME FutexInv, NEW t \in FutexThreads, NEW key \in Words, NEW val, NEW bitset \in Bitsets, FutexWait(t, key, val, bitset)
    PROVE  FutexInv'
<1> DEFINE e == [key |-> key, task |-> t, bitset |-> bitset, woken |-> FALSE]
<1>1. step[t] = "user" /\ entries' = Append(entries, e) /\ step' = [step EXCEPT ![t] = "reading"] /\ owed' = owed /\ stirred' = stirred
  BY DEF FutexWait, Stands, GoTo
<1>2. e \in Entry /\ e.task = t /\ ~e.woken
  BY DEF Entry, Bitsets, AllBits
<1> HIDE DEF e
<1>3. /\ entries' \in Seq(Entry) /\ Len(entries') = Len(entries) + 1 /\ DOMAIN entries' = 1..(Len(entries) + 1)
      /\ \A i \in DOMAIN entries : i \in DOMAIN entries' /\ entries'[i] = entries[i]
      /\ entries'[Len(entries) + 1] = e
      /\ \A i \in DOMAIN entries' : i \in DOMAIN entries \/ i = Len(entries) + 1
  BY <1>1, <1>2, EntriesTyped
<1>4. ~InCall(entries, t)
  BY <1>1 DEF FutexInv
<1>5. FutexTyped'
  BY <1>1, <1>3 DEF FutexInv, FutexTyped
<1>6. Listed(entries')
  BY <1>2, <1>3, <1>4 DEF FutexInv, Listed, InCall
<1>7. ASSUME NEW x \in FutexThreads PROVE InCall(entries', x) <=> step'[x] # "user"
  <2>1. CASE x = t
    <3>1. InCall(entries', t)
      BY <1>2, <1>3, EntriesTyped DEF InCall
    <3>2. step'[t] = "reading"
      BY <1>1 DEF FutexInv, FutexTyped
    <3> QED
      BY <2>1, <3>1, <3>2
  <2>2. CASE x # t
    <3>1. InCall(entries', x) <=> InCall(entries, x)
      BY <1>2, <1>3, <2>2 DEF InCall
    <3>2. step'[x] = step[x]
      BY <1>1, <2>2 DEF FutexInv, FutexTyped
    <3> QED
      BY <3>1, <3>2 DEF FutexInv
  <2> QED
    BY <2>1, <2>2
<1>8. WokenIn(entries') = WokenIn(entries)
  BY <1>2, <1>3 DEF WokenIn
<1>9. owed' = Cardinality(WokenIn(entries'))
  BY <1>1, <1>8, Zenon DEF FutexInv
<1>10. ASSUME NEW i \in DOMAIN entries', entries'[i].woken
       PROVE  step'[entries'[i].task] = "reading" \/ entries'[i].task \in stirred'
  <2>1. i \in DOMAIN entries /\ entries'[i] = entries[i]
    BY <1>2, <1>3, <1>10
  <2>2. step[entries[i].task] = "reading" \/ entries[i].task \in stirred
    BY <1>10, <2>1 DEF FutexInv
  <2>3. entries[i].task # t /\ entries[i].task \in FutexThreads
    BY <1>4, <2>1, EntriesTyped DEF InCall
  <2> QED
    BY <1>1, <2>1, <2>2, <2>3 DEF FutexInv, FutexTyped
<1> QED
  BY <1>5, <1>6, <1>7, <1>9, <1>10 DEF FutexInv

\* A thread leaves the list.
LEMMA LeavingKeeps ==
    ASSUME FutexInv, NEW t \in FutexThreads, step[t] # "user", RemoveWaiter(t), step' = [step EXCEPT ![t] = "user"],
           stirred' \in SUBSET FutexThreads, \A x \in stirred : x # t => x \in stirred'
    PROVE  FutexInv'
<1>1. InCall(entries, t)
  BY DEF FutexInv
<1>2. PICK k \in DOMAIN entries : entries[k].task = t /\ entries' = RemoveAt(entries, k)
  BY <1>1 DEF RemoveWaiter, Unlisted, InCall
<1>3. \A i \in DOMAIN entries : entries[i].task = t => i = k
  BY <1>2 DEF FutexInv, Listed
<1>4. /\ entries' \in Seq(Entry)
      /\ \A i \in DOMAIN entries' :
            /\ From(k, i) \in DOMAIN entries /\ From(k, i) # k /\ To(k, From(k, i)) = i
            /\ entries'[i] = entries[From(k, i)]
      /\ \A j \in DOMAIN entries : j # k =>
            /\ To(k, j) \in DOMAIN entries' /\ From(k, To(k, j)) = j
            /\ entries'[To(k, j)] = entries[j]
  BY <1>2, EntriesTyped, OthersRemain
<1>5. FutexTyped'
  BY <1>4 DEF FutexInv, FutexTyped
<1>6. Listed(entries')
  BY <1>4 DEF FutexInv, Listed
<1>7. ASSUME NEW x \in FutexThreads PROVE InCall(entries', x) <=> step'[x] # "user"
  <2>1. CASE x = t
    <3>1. ~InCall(entries', t)
      BY <1>3, <1>4 DEF InCall
    <3>2. step'[t] = "user"
      BY DEF FutexInv, FutexTyped
    <3> QED
      BY <2>1, <3>1, <3>2
  <2>2. CASE x # t
    <3>1. InCall(entries', x) <=> InCall(entries, x)
      BY <1>2, <1>4, <2>2 DEF InCall
    <3>2. step'[x] = step[x]
      BY <2>2 DEF FutexInv, FutexTyped
    <3> QED
      BY <3>1, <3>2 DEF FutexInv
  <2> QED
    BY <2>1, <2>2
<1>8. owed' = Cardinality(WokenIn(entries'))
  <2> DEFINE W == WokenIn(entries)
             V == WokenIn(entries')
             U == {i \in DOMAIN entries : entries[i].task = t /\ entries[i].woken}
             f == [i \in V |-> From(k, i)]
  <2>1. IsFiniteSet(W) /\ Cardinality(W) \in Nat
    BY EntriesTyped, WokenAreFinite
  <2>2. IsFiniteSet(V) /\ Cardinality(V) \in Nat
    BY <1>4, WokenAreFinite
  <2>3. Cardinality(W \ {k}) = Cardinality(V)
    <3>1. f \in [V -> W \ {k}] /\ \A i, j \in V : f[i] = f[j] => i = j
      BY <1>4 DEF WokenIn
    <3>2. \A j \in W \ {k} : To(k, j) \in V /\ f[To(k, j)] = j
      BY <1>4 DEF WokenIn
    <3>3. f \in Bijection(V, W \ {k})
      <4> HIDE DEF V, W, f
      <4> QED
        BY <3>1, <3>2 DEF Bijection, Injection, Surjection, IsInjective
    <3> HIDE DEF V, W, f
    <3>4. ExistsBijection(V, W \ {k})
      BY <3>3 DEF ExistsBijection
    <3> QED
      BY <2>2, <3>4, FS_Bijection
  <2>4. Cardinality(W \ {k}) = IF k \in W THEN Cardinality(W) - 1 ELSE Cardinality(W)
    BY <2>1, FS_RemoveElement
  <2>5. Cardinality(U) = IF k \in W THEN 1 ELSE 0
    <3>1. CASE k \in W
      <4>1. U = {k}
        BY <1>2, <1>3, <3>1 DEF WokenIn
      <4> QED
        BY <3>1, <4>1, FS_Singleton
    <3>2. CASE k \notin W
      <4>1. U = {}
        BY <1>2, <1>3, <3>2 DEF WokenIn
      <4> QED
        BY <3>2, <4>1, FS_EmptySet
    <3> QED
      BY <3>1, <3>2
  <2>6. owed' = Cardinality(W) - Cardinality(U)
    BY DEF FutexInv, RemoveWaiter
  <2> HIDE DEF W, V, U
  <2>7. owed' = Cardinality(V)
    BY <2>1, <2>2, <2>3, <2>4, <2>5, <2>6
  <2> QED
    BY <2>7 DEF V
<1>9. ASSUME NEW i \in DOMAIN entries', entries'[i].woken
      PROVE  step'[entries'[i].task] = "reading" \/ entries'[i].task \in stirred'
  <2>1. PICK j \in DOMAIN entries : j # k /\ entries'[i] = entries[j]
    BY <1>4
  <2>2. step[entries[j].task] = "reading" \/ entries[j].task \in stirred
    BY <1>9, <2>1 DEF FutexInv
  <2>3. entries[j].task # t /\ entries[j].task \in FutexThreads
    BY <1>3, <2>1, EntriesTyped
  <2> QED
    BY <2>1, <2>2, <2>3 DEF FutexInv, FutexTyped
<1> QED
  BY <1>5, <1>6, <1>7, <1>8, <1>9 DEF FutexInv

\* A thread goes to sleep, or is stirred.
LEMMA StirringKeeps ==
    ASSUME FutexInv, entries' = entries, owed' = owed, stirred' \in SUBSET FutexThreads, stirred \subseteq stirred',
           step' \in [FutexThreads -> {"user", "reading", "asleep"}],
           \A x \in FutexThreads : step'[x] = "user" <=> step[x] = "user",
           \A i \in DOMAIN entries : entries[i].woken => \/ step'[entries[i].task] = step[entries[i].task]
                                                         \/ entries[i].task \in stirred'
    PROVE  FutexInv'
<1>1. FutexTyped'
  BY DEF FutexInv, FutexTyped
<1>2. ASSUME NEW i \in DOMAIN entries, entries[i].woken
      PROVE  step'[entries[i].task] = "reading" \/ entries[i].task \in stirred'
  BY <1>2 DEF FutexInv
<1> QED
  BY <1>1, <1>2 DEF FutexInv

LEMMA CompareKeeps ==
    ASSUME FutexInv, NEW t \in FutexThreads, NEW faulted \in BOOLEAN, Compare(t, faulted)
    PROVE  FutexInv'
<1>1. step[t] = "reading" /\ (faulted \/ \A i \in DOMAIN entries : entries[i].task = t => ~entries[i].woken)
  BY DEF Compare, Stands, Range
<1>2. CASE RemoveWaiter(t) /\ GoTo(t, "user") /\ UNCHANGED stirred
  BY <1>1, <1>2, LeavingKeeps DEF GoTo, FutexInv, FutexTyped
<1>3. CASE ~(RemoveWaiter(t) /\ GoTo(t, "user") /\ UNCHANGED stirred)
  <2>1. /\ step' = [step EXCEPT ![t] = "asleep"] /\ entries' = entries /\ owed' = owed
        /\ stirred' = IF faulted THEN stirred \cup {t} ELSE stirred
    BY <1>3 DEF Compare, GoTo
  <2>2. stirred' \in SUBSET FutexThreads /\ stirred \subseteq stirred'
    BY <2>1 DEF FutexInv, FutexTyped
  <2>3. /\ step' \in [FutexThreads -> {"user", "reading", "asleep"}]
        /\ \A x \in FutexThreads : step'[x] = "user" <=> step[x] = "user"
    BY <1>1, <2>1 DEF FutexInv, FutexTyped
  <2>4. ASSUME NEW i \in DOMAIN entries, entries[i].woken
        PROVE  step'[entries[i].task] = step[entries[i].task] \/ entries[i].task \in stirred'
    BY <1>1, <2>1, <2>4, EntriesTyped DEF FutexInv, FutexTyped
  <2> QED
    BY <2>1, <2>2, <2>3, <2>4, StirringKeeps
<1> QED
  BY <1>2, <1>3

LEMMA FutexSteps == FutexInv /\ FutexNext => FutexInv'
<1> SUFFICES ASSUME FutexInv, FutexNext PROVE FutexInv'
  OBVIOUS
<1>1. CASE \E t \in Waiters : Wakes(t)
  BY <1>1, LeavingKeeps DEF Wakes, Stands, GoTo, FutexThreads, FutexInv, FutexTyped
<1>2. CASE \E t \in Waiters : Poke(t) \/ Expire(t)
  <2>1. PICK t \in FutexThreads : Poke(t) \/ Expire(t)
    BY <1>2 DEF FutexThreads
  <2>2. /\ step' = step /\ entries' = entries /\ owed' = owed /\ stirred' \in SUBSET (stirred \cup {t})
        /\ stirred \subseteq stirred'
    BY <2>1 DEF Poke, Expire
  <2> QED
    BY <2>2, StirringKeeps DEF FutexInv, FutexTyped
<1>3. CASE \/ \E t \in Waiters : Handle(t)
           \/ \E t \in Wakers : \E w \in Words, v \in Values : StoreWord(t, w, v)
  <2>1. step' = step /\ entries' = entries /\ owed' = owed /\ stirred' = stirred
    BY <1>3 DEF Handle, StoreWord
  <2> QED
    BY <2>1, StirringKeeps DEF FutexInv, FutexTyped
<1>4. CASE \E t \in Waiters : Compare(t, TRUE) \/ Compare(t, FALSE)
  BY <1>4, CompareKeeps DEF FutexThreads
<1>5. CASE \E t \in Waiters : \E w \in Words, b \in Bitsets : FutexWait(t, w, 0, b)
  BY <1>5, FutexWaitKeeps DEF FutexThreads
<1>6. CASE \E t \in Wakers : \E w \in Words, n \in 1..2, b \in {{2}, AllBits} : FutexWake(t, w, n, b)
  BY <1>6, FutexWakeKeeps
<1>7. CASE \E t \in Wakers : \E w \in Words, n \in 0..1 : \E w2 \in Words \ {w} : FutexRequeue(t, w, w2, n, 1)
  BY <1>7, RequeueKeeps
<1>8. CASE \E t \in Wakers : \E w \in Words, old \in Values : \E w2 \in Words \ {w} : WakeOp(t, w, w2, old)
  BY <1>8, WakeOpKeeps
<1> QED
  BY <1>1, <1>2, <1>3, <1>4, <1>5, <1>6, <1>7, <1>8 DEF FutexNext

LEMMA FutexStays == FutexInv /\ UNCHANGED futexVars => FutexInv'
  BY DEF FutexInv, FutexTyped, futexVars

-----------------------------------------------------------------------------
(* The invariant of an eventfd. *)

Request == [op : {"none", "read", "write"}, v : Nat, at : {"idle", "ready", "loaded", "asleep"}, c : Nat]

CountTyped ==
    /\ count \in 0..MaxCount /\ semaphore \in BOOLEAN /\ raced \in BOOLEAN
    /\ request \in [Callers -> Request]
    /\ sum \in [written : Nat, taken : Nat]

CanDo(r, n) == IF r.op = "read" THEN n > 0 ELSE MaxCount - n >= r.v

\* What is to be written back fits.
RequestFits(r) ==
    /\ r.at # "idle" => r.op # "none"
    /\ r.at = "loaded" => IF r.op = "read" THEN r.v <= r.c /\ r.c <= MaxCount ELSE r.c + r.v <= MaxCount

CountInv ==
    /\ CountTyped
    /\ ~raced => count = sum.written - sum.taken
    /\ \A t \in Callers : RequestFits(request[t])
    /\ \A t \in Callers : request[t].at = "asleep" => ~CanDo(request[t], count)

LEMMA CountFollows == CountInv => CountIsSound
  BY DEF CountInv, CountTyped, CountIsSound, CanDo, Can

LEMMA CountStarts == EventInit => CountInv
<1> SUFFICES ASSUME EventInit PROVE CountInv
  OBVIOUS
<1>1. /\ count = 0 /\ semaphore \in BOOLEAN /\ request = [t \in Callers |-> NoCallMade]
      /\ sum = [written |-> 0, taken |-> 0] /\ raced \in BOOLEAN
  BY DEF EventInit
<1>2. NoCallMade \in Request /\ RequestFits(NoCallMade) /\ NoCallMade.at # "asleep"
  BY DEF RequestFits, NoCallMade, Request
<1>3. CountTyped
  BY <1>1, <1>2, KernelAssumption DEF CountTyped
<1> QED
  BY <1>1, <1>2, <1>3 DEF CountInv

\* A step that changes one request.
LEMMA RequestKeeps ==
    ASSUME CountInv, NEW t \in Callers, count' = count, semaphore' = semaphore, sum' = sum, raced' = raced,
           NEW r \in Request, request' = [request EXCEPT ![t] = r], RequestFits(r), r.at = "asleep" => ~CanDo(r, count)
    PROVE  CountInv'
<1>1. CountTyped'
  BY DEF CountInv, CountTyped
<1>2. ASSUME NEW x \in Callers
      PROVE  RequestFits(request'[x]) /\ (request'[x].at = "asleep" => ~CanDo(request'[x], count))
  <2>1. request'[x] = IF x = t THEN r ELSE request[x]
    BY DEF CountInv, CountTyped
  <2>2. RequestFits(request[x]) /\ (request[x].at = "asleep" => ~CanDo(request[x], count))
    BY DEF CountInv
  <2> QED
    BY <2>1, <2>2
<1> QED
  BY <1>1, <1>2 DEF CountInv

LEMMA AskKeeps ==
    ASSUME CountInv, NEW t \in Callers, NEW op \in {"read", "write"}, NEW v \in Nat, Ask(t, op, v)
    PROVE  CountInv'
<1> DEFINE r == [op |-> op, v |-> v, at |-> "ready", c |-> 0]
<1>1. request' = [request EXCEPT ![t] = r] /\ count' = count /\ semaphore' = semaphore /\ sum' = sum /\ raced' = raced
  BY DEF Ask
<1>2. r \in Request /\ RequestFits(r) /\ r.at # "asleep"
  BY DEF RequestFits, Request
<1> HIDE DEF r
<1> QED
  BY <1>1, <1>2, RequestKeeps

LEMMA LoadKeeps ==
    ASSUME CountInv, NEW t \in Callers, LoadCount(t)
    PROVE  CountInv'
<1> DEFINE w == IF request[t].op = "write" THEN request[t].v ELSE IF semaphore THEN 1 ELSE count
           r == [request[t] EXCEPT !.at = "loaded", !.c = count, !.v = w]
<1>1. request' = [request EXCEPT ![t] = r]
  BY DEF LoadCount, CountInv, CountTyped
<1>2. count' = count /\ semaphore' = semaphore /\ sum' = sum /\ raced' = raced
  BY DEF LoadCount
<1>3. /\ count \in 0..MaxCount /\ MaxCount \in Nat /\ request[t] \in Request /\ request[t].op \in {"read", "write"}
      /\ request[t].v \in Nat
  BY KernelAssumption DEF CountInv, CountTyped, LoadCount, RequestFits, Request
<1>4. IF request[t].op = "read" THEN count > 0 ELSE MaxCount - count >= request[t].v
  BY DEF LoadCount, Can
<1>5. w \in Nat /\ (request[t].op = "write" => w = request[t].v) /\ (request[t].op = "read" => w <= count)
  BY <1>3, <1>4
<1> HIDE DEF w
<1>6. r \in Request /\ r.op = request[t].op /\ r.at = "loaded" /\ r.c = count /\ r.v = w
  <2> DEFINE p == [request[t] EXCEPT !.at = "loaded"]
             q == [p EXCEPT !.c = count]
  <2>1. p \in Request /\ p.op = request[t].op /\ p.at = "loaded"
    BY <1>3 DEF Request
  <2> HIDE DEF p
  <2>2. q \in Request /\ q.op = p.op /\ q.at = p.at /\ q.c = count
    BY <1>3, <2>1 DEF Request
  <2>3. r = [q EXCEPT !.v = w]
    BY DEF p
  <2> HIDE DEF q, r
  <2>4. r \in Request /\ r.op = q.op /\ r.at = q.at /\ r.c = q.c /\ r.v = w
    BY <1>5, <2>2, <2>3 DEF Request
  <2> QED
    BY <2>1, <2>2, <2>4
<1> HIDE DEF r
<1>7. RequestFits(r)
  BY <1>3, <1>4, <1>5, <1>6 DEF RequestFits
<1> QED
  BY <1>1, <1>2, <1>6, <1>7, RequestKeeps

LEMMA StoreKeeps ==
    ASSUME CountInv, NEW t \in Callers, StoreCount(t)
    PROVE  CountInv'
<1> DEFINE c == request[t].c  v == request[t].v  reads == request[t].op = "read"
<1>1. /\ c \in Nat /\ v \in Nat /\ MaxCount \in Nat /\ count \in 0..MaxCount
      /\ IF reads THEN v <= c /\ c <= MaxCount ELSE c + v <= MaxCount
  BY KernelAssumption DEF CountInv, CountTyped, RequestFits, StoreCount, Request
<1>2. /\ count' = IF reads THEN c - v ELSE c + v
      /\ raced' = (raced \/ count # c)
      /\ sum' = IF reads THEN [sum EXCEPT !.taken = @ + v] ELSE [sum EXCEPT !.written = @ + v]
      /\ request' = [x \in Callers |-> IF x = t THEN NoCallMade
                                    ELSE IF request[x].at = "asleep" THEN [request[x] EXCEPT !.at = "ready"]
                                    ELSE request[x]]
      /\ semaphore' = semaphore
  BY DEF StoreCount
<1> HIDE DEF c, v, reads
<1>3. sum.written \in Nat /\ sum.taken \in Nat /\ sum \in [written : Nat, taken : Nat]
  BY DEF CountInv, CountTyped
<1>4. /\ sum' \in [written : Nat, taken : Nat]
      /\ sum'.written = (IF reads THEN sum.written ELSE sum.written + v)
      /\ sum'.taken = (IF reads THEN sum.taken + v ELSE sum.taken)
  BY <1>1, <1>2, <1>3
<1>5. count' \in 0..MaxCount
  BY <1>1, <1>2
<1>6. ASSUME NEW x \in Callers PROVE request'[x] \in Request /\ RequestFits(request'[x]) /\ request'[x].at # "asleep"
  <2>1. request[x] \in Request /\ RequestFits(request[x])
    BY DEF CountInv, CountTyped
  <2>2. CASE x = t
    BY <1>2, <2>2 DEF NoCallMade, Request, RequestFits
  <2>3. CASE x # t /\ request[x].at = "asleep"
    BY <1>2, <2>1, <2>3 DEF Request, RequestFits
  <2>4. CASE x # t /\ request[x].at # "asleep"
    BY <1>2, <2>1, <2>4
  <2> QED
    BY <2>2, <2>3, <2>4
<1>7. ~raced' => count' = sum'.written - sum'.taken
  <2>1. CASE raced \/ count # c
    BY <1>2, <2>1
  <2>2. CASE ~raced /\ count = c
    <3>1. count = sum.written - sum.taken
      BY <2>2 DEF CountInv
    <3> QED
      BY <1>1, <1>2, <1>3, <1>4, <2>2, <3>1
  <2> QED
    BY <2>1, <2>2
<1>8. CountTyped'
  BY <1>2, <1>4, <1>5, <1>6 DEF CountTyped, CountInv
<1> QED
  BY <1>6, <1>7, <1>8 DEF CountInv

LEMMA CannotKeeps ==
    ASSUME CountInv, NEW t \in Callers, NEW blocks \in BOOLEAN, CannotYet(t, blocks)
    PROVE  CountInv'
<1>1. count' = count /\ semaphore' = semaphore /\ sum' = sum /\ raced' = raced
  BY DEF CannotYet
<1>2. request[t] \in Request /\ RequestFits(request[t])
  BY DEF CountInv, CountTyped
<1>3. CASE blocks
  <2> DEFINE r == [request[t] EXCEPT !.at = "asleep"]
  <2>1. request' = [request EXCEPT ![t] = r]
    BY <1>3 DEF CannotYet
  <2>2. request[t].at = "ready" /\ ~CanDo(request[t], count)
    BY DEF CannotYet, Can, CanDo
  <2>3. r \in Request /\ r.op = request[t].op /\ r.v = request[t].v /\ r.at = "asleep"
    BY <1>2 DEF Request
  <2> HIDE DEF r
  <2>4. RequestFits(r) /\ ~CanDo(r, count)
    BY <1>2, <2>2, <2>3 DEF RequestFits, CanDo
  <2> QED
    BY <1>1, <2>1, <2>3, <2>4, RequestKeeps
<1>4. CASE ~blocks
  <2>1. request' = [request EXCEPT ![t] = NoCallMade]
    BY <1>4 DEF CannotYet
  <2>2. NoCallMade \in Request /\ RequestFits(NoCallMade) /\ NoCallMade.at # "asleep"
    BY DEF RequestFits, NoCallMade, Request
  <2> QED
    BY <1>1, <2>1, <2>2, RequestKeeps
<1> QED
  BY <1>3, <1>4

LEMMA CountSteps == CountInv /\ CountNext => CountInv'
<1> SUFFICES ASSUME CountInv, CountNext PROVE CountInv'
  OBVIOUS
<1>1. PICK t \in Callers :
         \/ \E v \in 1..MaxCount : Ask(t, "write", v)
         \/ Ask(t, "read", 0) \/ LoadCount(t) \/ StoreCount(t) \/ Interrupted(t)
         \/ \E blocks \in BOOLEAN : CannotYet(t, blocks)
  BY DEF CountNext
<1>2. CASE \E v \in 1..MaxCount : Ask(t, "write", v)
  <2>1. 1..MaxCount \in SUBSET Nat
    BY KernelAssumption
  <2> QED
    BY <1>2, <2>1, AskKeeps
<1>3. CASE Ask(t, "read", 0)
  BY <1>3, AskKeeps
<1>4. CASE LoadCount(t)
  BY <1>4, LoadKeeps
<1>5. CASE StoreCount(t)
  BY <1>5, StoreKeeps
<1>6. CASE Interrupted(t)
  <2>1. request' = [request EXCEPT ![t] = NoCallMade] /\ count' = count /\ semaphore' = semaphore /\ sum' = sum /\ raced' = raced
    BY <1>6 DEF Interrupted
  <2>2. NoCallMade \in Request /\ RequestFits(NoCallMade) /\ NoCallMade.at # "asleep"
    BY DEF RequestFits, NoCallMade, Request
  <2> QED
    BY <2>1, <2>2, RequestKeeps
<1>7. CASE \E blocks \in BOOLEAN : CannotYet(t, blocks)
  BY <1>7, CannotKeeps
<1> QED
  BY <1>1, <1>2, <1>3, <1>4, <1>5, <1>6, <1>7

LEMMA CountStays == CountInv /\ UNCHANGED countVars => CountInv'
  BY DEF CountInv, CountTyped, countVars

-----------------------------------------------------------------------------
(* The invariant of a timerfd. *)

TimerTyped ==
    /\ now \in Nat /\ waiting \in BOOLEAN
    /\ timer \in [next : Nat, interval : 0..2, expirations : Nat]
    /\ armed \in [first : Nat, read : Nat]

\* How often a timer that was to expire first at a, and from then on every v, has expired by n.
Past(a, v, n) == IF a = 0 \/ n < a THEN 0 ELSE IF v = 0 THEN 1 ELSE (n - a) \div v + 1
\* When it will expire next, or 0.
NextOne(a, v, n) == IF a = 0 THEN 0 ELSE IF n < a THEN a ELSE IF v = 0 THEN 0 ELSE a + Past(a, v, n) * v

TimerInv ==
    /\ TimerTyped
    /\ timer.next = NextOne(armed.first, timer.interval, now)
    /\ armed.read + timer.expirations = Past(armed.first, timer.interval, now)
    /\ waiting => timer.expirations = 0

\* The next expiry lies ahead, and the one before it does not.
LEMMA NextIsAhead ==
    ASSUME NEW a \in Nat, NEW v \in 0..2, NEW n \in Nat
    PROVE  /\ Past(a, v, n) \in Nat /\ NextOne(a, v, n) \in Nat
           /\ NextOne(a, v, n) # 0 => NextOne(a, v, n) > n
<1>1. CASE v = 0
  BY <1>1 DEF Past, NextOne
<1>2. CASE v = 1
  BY <1>2 DEF Past, NextOne
<1>3. CASE v = 2
  BY <1>3 DEF Past, NextOne
<1> QED
  BY <1>1, <1>2, <1>3

\* The tick: nothing has expired before the next expiry, and then one more, and one for every interval.
LEMMA TickCounts ==
    ASSUME NEW a \in Nat, NEW v \in 0..2, NEW n \in Nat, NEW n2 \in Nat, n2 >= n
    PROVE  LET x == NextOne(a, v, n)
               m == IF x = 0 \/ n2 < x THEN 0 ELSE IF v = 0 THEN 1 ELSE (n2 - x) \div v + 1
           IN  /\ m \in Nat
               /\ Past(a, v, n2) = Past(a, v, n) + m
               /\ NextOne(a, v, n2) = IF m = 0 THEN x ELSE IF v = 0 THEN 0 ELSE x + m * v
<1>1. CASE a = 0
  BY <1>1 DEF Past, NextOne
<1>2. CASE a # 0 /\ n2 < a
  BY <1>2 DEF Past, NextOne
<1>3. CASE a # 0 /\ n < a /\ n2 >= a
  <2>1. CASE v = 0
    BY <1>3, <2>1 DEF Past, NextOne
  <2>2. CASE v = 1
    BY <1>3, <2>2 DEF Past, NextOne
  <2>3. CASE v = 2
    BY <1>3, <2>3 DEF Past, NextOne
  <2> QED
    BY <2>1, <2>2, <2>3
<1>4. CASE a # 0 /\ n >= a
  <2>1. CASE v = 0
    BY <1>4, <2>1 DEF Past, NextOne
  <2>2. CASE v = 1
    BY <1>4, <2>2 DEF Past, NextOne
  <2>3. CASE v = 2
    BY <1>4, <2>3 DEF Past, NextOne
  <2> QED
    BY <2>1, <2>2, <2>3
<1> QED
  BY <1>1, <1>2, <1>3, <1>4

LEMMA TimerFollows == TimerInv => TimerIsSound
<1> SUFFICES ASSUME TimerInv PROVE TimerIsSound
  OBVIOUS
<1>1. now \in Nat /\ timer.interval \in 0..2 /\ armed.first \in Nat
  BY DEF TimerInv, TimerTyped
<1>2. timer.next # 0 => timer.next > now
  BY <1>1, NextIsAhead DEF TimerInv
<1>3. armed.read + timer.expirations = Past(armed.first, timer.interval, now)
  BY DEF TimerInv
<1> QED
  BY <1>2, <1>3 DEF TimerInv, TimerIsSound, Past

LEMMA TimerStarts == EventInit => TimerInv
<1> SUFFICES ASSUME EventInit PROVE TimerInv
  OBVIOUS
<1>1. /\ now = 0 /\ timer = [next |-> 0, interval |-> 0, expirations |-> 0] /\ waiting \in BOOLEAN
      /\ armed = [first |-> 0, read |-> 0]
  BY DEF EventInit
<1> QED
  BY <1>1 DEF TimerInv, TimerTyped, Past, NextOne

LEMMA SettimeKeeps ==
    ASSUME TimerInv, NEW value \in 0..2, NEW interval \in 0..2, Settime(value, interval)
    PROVE  TimerInv'
<1>1. now \in Nat
  BY DEF TimerInv, TimerTyped
<1> DEFINE a == IF value = 0 THEN 0 ELSE now + value
<1>2. a \in Nat /\ (a # 0 => now < a)
  BY <1>1
<1>3. timer' = [next |-> a, interval |-> IF value = 0 THEN 0 ELSE interval, expirations |-> 0]
  BY DEF Settime
<1>4. timer'.next = a /\ timer'.interval \in 0..2 /\ timer'.expirations = 0
  BY <1>3
<1>5. armed' = [first |-> a, read |-> 0] /\ now' = now /\ waiting' = waiting
  BY <1>4 DEF Settime
<1> HIDE DEF a
<1>6. armed'.first = a /\ armed'.read = 0
  BY <1>5
<1>7. TimerTyped'
  BY <1>2, <1>3, <1>4, <1>5 DEF TimerInv, TimerTyped
<1>8. Past(a, timer'.interval, now) = 0 /\ NextOne(a, timer'.interval, now) = a
  BY <1>1, <1>2 DEF Past, NextOne
<1> QED
  BY <1>4, <1>5, <1>6, <1>7, <1>8 DEF TimerInv

LEMMA TickKeeps ==
    ASSUME TimerInv, NEW d \in 1..3, TimerfdTick(d)
    PROVE  TimerInv'
<1> DEFINE a == armed.first  v == timer.interval  x == timer.next
           m == IF x = 0 \/ now' < x THEN 0 ELSE IF v = 0 THEN 1 ELSE (now' - x) \div v + 1
<1>1. now \in Nat /\ now' = now + d /\ now' \in Nat /\ now' >= now /\ a \in Nat /\ v \in 0..2 /\ x \in Nat
  BY DEF TimerInv, TimerTyped, TimerfdTick
<1>2. x = NextOne(a, v, now)
  BY DEF TimerInv
<1>3. /\ m \in Nat
      /\ Past(a, v, now') = Past(a, v, now) + m
      /\ NextOne(a, v, now') = IF m = 0 THEN x ELSE IF v = 0 THEN 0 ELSE x + m * v
  BY <1>1, <1>2, TickCounts, SMTT(30)
<1>4. armed' = armed
  BY DEF TimerfdTick
<1>5. CASE x = 0 \/ now' < x
  <2>1. timer' = timer /\ waiting' = waiting /\ m = 0
    BY <1>5 DEF TimerfdTick
  <2> HIDE DEF m
  <2>2. Past(a, v, now') = Past(a, v, now) /\ NextOne(a, v, now') = x
    <3>1. Past(a, v, now) \in Nat
      BY <1>1, NextIsAhead
    <3> QED
      BY <1>3, <2>1, <3>1
  <2>3. TimerTyped'
    BY <1>1, <1>4, <2>1 DEF TimerInv, TimerTyped
  <2> QED
    BY <1>4, <2>1, <2>2, <2>3 DEF TimerInv
<1>6. CASE ~(x = 0 \/ now' < x)
  <2>1. m = (IF v = 0 THEN 1 ELSE (now' - x) \div v + 1) /\ m # 0
    BY <1>1, <1>6, <1>3
  <2>2. /\ timer' = [timer EXCEPT !.expirations = @ + m, !.next = IF v = 0 THEN 0 ELSE @ + m * v]
        /\ waiting' = FALSE
    BY <1>6, <2>1 DEF TimerfdTick
  <2> HIDE DEF m
  <2>3. timer \in [next : Nat, interval : 0..2, expirations : Nat] /\ timer.expirations \in Nat
    BY DEF TimerInv, TimerTyped
  <2>4. timer'.expirations = timer.expirations + m /\ timer'.next = (IF v = 0 THEN 0 ELSE x + m * v) /\ timer'.interval = v
    BY <2>2, <2>3
  <2>5. timer'.next = NextOne(a, v, now') /\ timer'.next \in Nat
    <3>1. NextOne(a, v, now') \in Nat
      BY <1>1, NextIsAhead
    <3>2. NextOne(a, v, now') = IF v = 0 THEN 0 ELSE x + m * v
      BY <1>3, <2>1
    <3> QED
      BY <2>4, <3>1, <3>2
  <2>6. armed.read + timer'.expirations = Past(a, v, now')
    BY <1>3, <2>3, <2>4 DEF TimerInv, TimerTyped
  <2>7. TimerTyped'
    <3>1. timer' \in [next : Nat, interval : 0..2, expirations : Nat]
      <4>1. timer.expirations + m \in Nat
        BY <1>3, <2>3
      <4>2. (IF v = 0 THEN 0 ELSE x + m * v) \in Nat
        BY <2>4, <2>5
      <4> QED
        BY <2>2, <2>3, <4>1, <4>2
    <3> QED
      BY <1>1, <1>4, <2>2, <3>1 DEF TimerInv, TimerTyped
  <2> QED
    BY <1>4, <2>2, <2>4, <2>5, <2>6, <2>7 DEF TimerInv
<1> QED
  BY <1>5, <1>6

LEMMA TimerSteps == TimerInv /\ TimerNext => TimerInv'
<1> SUFFICES ASSUME TimerInv, TimerNext PROVE TimerInv'
  OBVIOUS
<1>1. CASE \E value, interval \in 0..2 : Settime(value, interval)
  BY <1>1, SettimeKeeps
<1>2. CASE \E d \in 1..3 : TimerfdTick(d)
  BY <1>2, TickKeeps
<1>3. CASE ReadTimer
  <2>1. CASE timer.expirations > 0
    <3>1. /\ timer' = [timer EXCEPT !.expirations = 0] /\ waiting' = waiting /\ now' = now
          /\ armed' = [armed EXCEPT !.read = @ + timer.expirations]
      BY <1>3, <2>1 DEF ReadTimer
    <3>2. /\ timer'.next = timer.next /\ timer'.interval = timer.interval /\ timer'.expirations = 0
          /\ armed'.first = armed.first /\ armed'.read = armed.read + timer.expirations
          /\ armed'.read \in Nat
      BY <3>1 DEF TimerInv, TimerTyped
    <3>3. TimerTyped'
      BY <3>1, <3>2 DEF TimerInv, TimerTyped
    <3> QED
      BY <3>1, <3>2, <3>3 DEF TimerInv
  <2>2. CASE ~(timer.expirations > 0)
    <3>1. waiting' = TRUE /\ timer' = timer /\ armed' = armed /\ now' = now /\ timer.expirations = 0
      BY <1>3, <2>2 DEF ReadTimer, TimerInv, TimerTyped
    <3> QED
      BY <3>1 DEF TimerInv, TimerTyped
  <2> QED
    BY <2>1, <2>2
<1> QED
  BY <1>1, <1>2, <1>3 DEF TimerNext

LEMMA TimerStays == TimerInv /\ UNCHANGED timerVars => TimerInv'
  BY DEF TimerInv, TimerTyped, timerVars

-----------------------------------------------------------------------------
(* The invariant of an epoll. *)

Interest == [fd : Fds, file : Nat, data : Fds, on : BOOLEAN, oneshot : BOOLEAN, told : {"nothing", "data", "event"}]

EpollTyped ==
    /\ fds \in [Fds -> Nat] /\ files \in Nat /\ cut \in BOOLEAN /\ shared \in BOOLEAN
    /\ interests \in Seq(Interest)

OnceEach(l) == \A i, j \in DOMAIN l : l[i].fd = l[j].fd /\ l[i].file = l[j].file => i = j
OnOrTold(l, s) == \A i \in DOMAIN l : l[i].on \/ l[i].told = "event" \/ (s /\ l[i].told = "data")

EpollInv ==
    /\ EpollTyped
    /\ OnceEach(interests)
    /\ ~shared => ~Shares(interests)
    /\ ~cut => OnOrTold(interests, shared)

LEMMA EpollFollows == EpollInv => InterestsAreSound
  BY DEF EpollInv, OnceEach, OnOrTold, InterestsAreSound

LEMMA EpollStarts == EventInit => EpollInv
<1> SUFFICES ASSUME EventInit PROVE EpollInv
  OBVIOUS
<1>1. fds = [f \in Fds |-> 0] /\ files = 0 /\ cut \in BOOLEAN /\ shared \in BOOLEAN /\ interests = <<>>
  BY DEF EventInit
<1>2. DOMAIN interests = {}
  BY <1>1
<1> QED
  BY <1>1, <1>2 DEF EpollInv, EpollTyped, OnceEach, OnOrTold, Shares

LEMMA EpollCtlKeeps ==
    ASSUME EpollInv, NEW f \in Fds, NEW op, NEW data \in Fds, NEW oneshot \in BOOLEAN, EpollCtl(f, op, data, oneshot)
    PROVE  EpollInv'
<1> DEFINE new == [fd |-> f, file |-> fds[f], data |-> data, on |-> TRUE, oneshot |-> oneshot, told |-> "nothing"]
<1>1. /\ fds' = fds /\ files' = files /\ cut' = cut
      /\ shared' = (shared \/ Shares(interests')) /\ shared \in BOOLEAN
  BY DEF EpollCtl, EpollInv, EpollTyped
<1>2. new \in Interest /\ new.fd = f /\ new.file = fds[f] /\ new.on
  BY DEF EpollInv, EpollTyped, Interest
<1>3. /\ interests \in Seq(Interest) /\ DOMAIN interests = 1..Len(interests) /\ Len(interests) \in Nat
      /\ OnceEach(interests) /\ (~cut => OnOrTold(interests, shared))
  BY DEF EpollInv, EpollTyped
<1>4. \/ Watching(f) = {} /\ interests' = Append(interests, new)
      \/ \E i \in Watching(f) : interests' = [interests EXCEPT ![i] = new]
      \/ \E i \in Watching(f) : interests' = RemoveAt(interests, i)
  BY DEF EpollCtl
<1> HIDE DEF new
<1>5. interests' \in Seq(Interest) /\ OnceEach(interests') /\ (~cut => OnOrTold(interests', shared))
  <2>1. CASE Watching(f) = {} /\ interests' = Append(interests, new)
    <3>1. /\ interests' \in Seq(Interest) /\ DOMAIN interests' = 1..(Len(interests) + 1)
          /\ \A i \in DOMAIN interests : interests'[i] = interests[i]
          /\ interests'[Len(interests) + 1] = new
          /\ \A i \in DOMAIN interests' : i \in DOMAIN interests \/ i = Len(interests) + 1
      BY <1>2, <1>3, <2>1
    <3>2. \A i \in DOMAIN interests : ~(interests[i].fd = f /\ interests[i].file = fds[f])
      BY <2>1 DEF Watching
    <3>3. OnceEach(interests')
      BY <1>2, <1>3, <3>1, <3>2 DEF OnceEach
    <3>4. ~cut => OnOrTold(interests', shared)
      BY <1>2, <1>3, <3>1 DEF OnOrTold
    <3> QED
      BY <3>1, <3>3, <3>4
  <2>2. CASE \E i \in Watching(f) : interests' = [interests EXCEPT ![i] = new]
    <3>1. PICK i \in DOMAIN interests : /\ interests[i].fd = f /\ interests[i].file = fds[f]
                                        /\ interests' = [interests EXCEPT ![i] = new]
      BY <2>2 DEF Watching
    <3>2. /\ interests' \in Seq(Interest) /\ DOMAIN interests' = DOMAIN interests
          /\ \A j \in DOMAIN interests : interests'[j] = IF j = i THEN new ELSE interests[j]
      BY <1>2, <1>3, <3>1
    <3>3. OnceEach(interests')
      BY <1>2, <1>3, <3>1, <3>2 DEF OnceEach
    <3>4. ~cut => OnOrTold(interests', shared)
      BY <1>2, <1>3, <3>2 DEF OnOrTold
    <3> QED
      BY <3>2, <3>3, <3>4
  <2>3. CASE \E i \in Watching(f) : interests' = RemoveAt(interests, i)
    <3>1. PICK i \in DOMAIN interests : interests' = RemoveAt(interests, i)
      BY <2>3 DEF Watching
    <3>2. /\ interests' \in Seq(Interest)
          /\ \A k \in DOMAIN interests' :
                /\ From(i, k) \in DOMAIN interests /\ To(i, From(i, k)) = k
                /\ interests'[k] = interests[From(i, k)]
      BY <1>3, <3>1, OthersRemain
    <3>3. OnceEach(interests')
      BY <1>3, <3>2 DEF OnceEach
    <3>4. ~cut => OnOrTold(interests', shared)
      BY <1>3, <3>2 DEF OnOrTold
    <3> QED
      BY <3>2, <3>3, <3>4
  <2> QED
    BY <1>4, <2>1, <2>2, <2>3
<1>6. ~shared' => ~Shares(interests')
  BY <1>1
<1>7. ~cut' => OnOrTold(interests', shared')
  BY <1>1, <1>5 DEF OnOrTold
<1> QED
  BY <1>1, <1>5, <1>6, <1>7 DEF EpollInv, EpollTyped

LEMMA EpollWaitKeeps ==
    ASSUME EpollInv, NEW max, EpollWait(max)
    PROVE  EpollInv'
<1> DEFINE due == {i \in DOMAIN interests : interests[i].on /\ interests[i].file \in hot}
           report == {i \in due : Cardinality({j \in due : j < i}) < max}
           Like(i, s) == \E j \in s : interests[j].data = interests[i].data
           Off(i) == interests[i].oneshot /\ Like(i, due)
           Told(i, t) == IF i \in report THEN "event" ELSE IF t = "nothing" /\ Like(i, report) THEN "data" ELSE t
<1>1. /\ interests' = [i \in DOMAIN interests |->
              [interests[i] EXCEPT !.on = @ /\ ~Off(i), !.told = Told(i, @)]]
      /\ cut' = (cut \/ report # due) /\ fds' = fds /\ files' = files /\ shared' = shared
  BY DEF EpollWait
<1>2. /\ interests \in Seq(Interest) /\ DOMAIN interests = 1..Len(interests) /\ Len(interests) \in Nat
      /\ \A i \in DOMAIN interests : interests[i] \in Interest
  <2>1. interests \in Seq(Interest)
    BY DEF EpollInv, EpollTyped
  <2> QED
    BY <2>1
<1>3. due \subseteq DOMAIN interests
  OBVIOUS
<1> HIDE DEF due, report, Off, Told
<1>4. ASSUME NEW i \in DOMAIN interests
      PROVE  /\ interests'[i] \in Interest /\ interests'[i].fd = interests[i].fd /\ interests'[i].file = interests[i].file
             /\ interests'[i].data = interests[i].data
             /\ interests'[i].on <=> interests[i].on /\ ~Off(i)
             /\ interests'[i].told = Told(i, interests[i].told)
  <2>1. interests[i] \in Interest
    BY <1>2
  <2>2. interests'[i] = [interests[i] EXCEPT !.on = @ /\ ~Off(i), !.told = Told(i, @)]
    BY <1>1
  <2>3. Told(i, interests[i].told) \in {"nothing", "data", "event"}
    BY <2>1 DEF Told, Interest
  <2> QED
    BY <2>1, <2>2, <2>3 DEF Interest
<1>5. DOMAIN interests' = DOMAIN interests
  BY <1>1
<1>6. interests' \in Seq(Interest)
  <2>1. interests' = [i \in 1..Len(interests) |-> interests'[i]]
    BY <1>1, <1>2
  <2>2. \A i \in 1..Len(interests) : interests'[i] \in Interest
    BY <1>2, <1>4
  <2> QED
    BY <1>2, <2>1, <2>2
<1>7. OnceEach(interests')
  BY <1>4, <1>5 DEF EpollInv, OnceEach
<1>8. ~shared' => ~Shares(interests')
  <2>1. ASSUME NEW i \in DOMAIN interests, NEW j \in DOMAIN interests, i # j, interests'[i].data = interests'[j].data
        PROVE  shared
    BY <1>4, <2>1 DEF EpollInv, Shares
  <2> QED
    BY <1>1, <1>5, <2>1 DEF Shares
<1>9. ~cut' => OnOrTold(interests', shared')
  <2> SUFFICES ASSUME ~cut', NEW i \in DOMAIN interests
               PROVE  interests'[i].on \/ interests'[i].told = "event" \/ (shared /\ interests'[i].told = "data")
    BY <1>1, <1>5 DEF OnOrTold
  <2>1. ~cut /\ report = due
    BY <1>1
  <2>2. interests[i].on \/ interests[i].told = "event" \/ (shared /\ interests[i].told = "data")
    BY <2>1 DEF EpollInv, OnOrTold
  <2>3. Off(i) /\ i \notin report => Like(i, report) /\ shared
    BY <1>3, <2>1 DEF Off, EpollInv, EpollTyped, Shares
  <2>4. interests[i].told \in {"nothing", "data", "event"}
    BY <1>2 DEF Interest
  <2> QED
    BY <1>4, <2>2, <2>3, <2>4 DEF Told
<1> QED
  BY <1>1, <1>6, <1>7, <1>9, <1>8 DEF EpollInv, EpollTyped

LEMMA EpollSteps == EpollInv /\ EpollNext => EpollInv'
<1> SUFFICES ASSUME EpollInv, EpollNext PROVE EpollInv'
  OBVIOUS
<1>1. CASE \E f \in Fds : OpenFile(f) \/ CloseFile(f)
  <2>1. PICK f \in Fds : OpenFile(f) \/ CloseFile(f)
    BY <1>1
  <2>2. interests' = interests /\ cut' = cut /\ shared' = shared
    BY <2>1 DEF OpenFile, CloseFile
  <2>3. files' \in Nat /\ fds' \in [Fds -> Nat]
    BY <2>1 DEF OpenFile, CloseFile, EpollInv, EpollTyped
  <2> QED
    BY <2>2, <2>3 DEF EpollInv, EpollTyped
<1>2. CASE \E f \in Fds : \E op \in {"add", "mod", "del"}, data \in Fds, oneshot \in BOOLEAN : EpollCtl(f, op, data, oneshot)
  BY <1>2, EpollCtlKeeps
<1>3. CASE \E f \in 1..MaxHeld : BecomesReady(f) \/ BecomesIdle(f)
  <2>1. interests' = interests /\ cut' = cut /\ fds' = fds /\ files' = files /\ shared' = shared
    BY <1>3 DEF BecomesReady, BecomesIdle
  <2> QED
    BY <2>1 DEF EpollInv, EpollTyped
<1>4. CASE \E max \in 1..2 : EpollWait(max)
  BY <1>4, EpollWaitKeeps
<1> QED
  BY <1>1, <1>2, <1>3, <1>4 DEF EpollNext

LEMMA EpollStays == EpollInv /\ UNCHANGED epollVars => EpollInv'
  BY DEF EpollInv, EpollTyped, epollVars

-----------------------------------------------------------------------------
(* The channels together: whichever part is at work, the others keep their invariants. *)

ChannelsInv == PipeInv /\ FutexInv /\ CountInv /\ TimerInv /\ EpollInv

LEMMA ChannelsStart == Init => ChannelsInv
  BY PipeStarts, FutexStarts, CountStarts, TimerStarts, EpollStarts DEF Init, ChannelsInv

LEMMA ChannelsStep == ChannelsInv /\ [Next]_vars => ChannelsInv'
<1> SUFFICES ASSUME ChannelsInv, [Next]_vars PROVE ChannelsInv'
  OBVIOUS
<1>1. /\ PipeNext \/ UNCHANGED pipeVars
      /\ FutexNext \/ UNCHANGED futexVars
      /\ CountNext \/ UNCHANGED countVars
      /\ TimerNext \/ UNCHANGED timerVars
      /\ EpollNext \/ UNCHANGED epollVars
  <2>1. CASE UNCHANGED vars
    BY <2>1 DEF vars, taskVars
  <2>2. CASE TasksNext
    BY <2>2 DEF TasksNext
  <2>3. CASE ProcessesNext
    BY <2>3 DEF ProcessesNext, taskVars
  <2> QED
    BY <2>1, <2>2, <2>3 DEF Next
<1> QED
  BY <1>1, PipeSteps, PipeStays, FutexSteps, FutexStays, CountSteps, CountStays, TimerSteps, TimerStays, EpollSteps, EpollStays
     DEF ChannelsInv

LEMMA ChannelsFollow == ChannelsInv => ChannelsAreSound
  BY PipeFollows, FutexFollows, CountFollows, TimerFollows, EpollFollows DEF ChannelsInv, ChannelsAreSound, EventsAreSound

\* For any tasks, any size of the ring and of a small write, and any limit of a counter: a pipe hands its
\* bytes over in their order, whole where they are few, and nobody sleeps on it for what has come
\* (fs/pipe.rs); every wake-up that FUTEX_WAKE reports belongs to one waiter, and a waiter is on the list
\* while it is in the call (syscall/futex.rs); a counter never wraps and loses nothing when no store raced
\* another, a timer counts every expiry once, and an epoll watches a file once per descriptor
\* (syscall/poll.rs).
THEOREM ChannelsSound == Spec => []ChannelsAreSound
<1>1. Spec => []ChannelsInv
  BY ChannelsStart, ChannelsStep, PTL DEF Spec
<1> QED
  BY <1>1, ChannelsFollow, PTL
=============================================================================
