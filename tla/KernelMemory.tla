---------------------------- MODULE KernelMemory ----------------------------
(***************************************************************************)
(* The memory of the research kernel's processes (kernel/src/mm): frames   *)
(* with reference counts, address spaces made of areas, demand paging and  *)
(* copy-on-write, one file's page cache.  Every operation holds its        *)
(* space's mutex, so each is one step; a range that is faulted in is so    *)
(* many faults.  Addresses and lengths are in pages; every area can be     *)
(* read.  The frame allocator's bitmap is the set of the frames in use.    *)
(***************************************************************************)
EXTENDS Integers, Sequences, FiniteSets, SequencesExt

CONSTANTS
    Spaces,    \* address spaces: the first is there from the start
    Top,       \* USER_TOP and MMAP_TOP
    Frames,    \* 1..n: the frames of memory there are
    MaxCalls,  \* how many calls are made in all
    MaxLost    \* how many references are leaked

Device == 0    \* a frame that was never allocated: it counts 0 references and keeps them
NoFrame == -1
Pages == 1..Top - 1   \* from MMAP_MIN
FilePages == 0..Top
Kinds == {"anon", "file", "shared", "phys"}   \* Backing, with vma.shared for the third
NoPte == [frame |-> NoFrame, w |-> FALSE, cow |-> FALSE]

VARIABLES
    space,    \* [live, areas, pte, brk, hint] of every address space
    ram,      \* [used, count]: the bitmap and REFCOUNTS
    cache,    \* the frames of the file's pages
    lost,     \* history: the references a failure has leaked
    calls,    \* history: how many calls were made
    opened    \* history: mprotect has granted write to a page that was there

memoryVars == <<space, ram, cache, lost, calls, opened>>

Area(start, len, w, kind, off) == [start |-> start, end |-> start + len, w |-> w, kind |-> kind, off |-> off]
Empty == [live |-> FALSE, areas |-> {}, pte |-> [p \in Pages |-> NoPte], brk |-> 1, hint |-> Top]
FirstSpace == CHOOSE a \in Spaces : \A b \in Spaces : a <= b

\* A process with nothing, or with one area.
MemoryInit ==
    /\ \E areas \in {{}} \cup {{Area(1, Top - 1, w, kind, 0)} : w \in BOOLEAN, kind \in Kinds} :
          space = [a \in Spaces |-> IF a = FirstSpace THEN [Empty EXCEPT !.live = TRUE, !.areas = areas] ELSE Empty]
    /\ ram = [used |-> {}, count |-> [f \in Frames \cup {Device} |-> 0]]
    /\ cache = [i \in FilePages |-> NoFrame]
    /\ lost = [f \in Frames |-> 0]
    /\ calls = 0 /\ opened = FALSE

-----------------------------------------------------------------------------
(* Frames.  Operations pass along m, which has every variable as a field. *)

Now == [space |-> space, ram |-> ram, cache |-> cache, lost |-> lost]
Become(m) == space' = m.space /\ ram' = m.ram /\ cache' = m.cache /\ lost' = m.lost /\ UNCHANGED opened

\* alloc_frame_ref: the lowest free frame, counted once; NoFrame when there is none.
FreeFrame(m) == IF Frames \subseteq m.ram.used THEN NoFrame ELSE Min(Frames \ m.ram.used)
Alloc(m, f) == [m EXCEPT !.ram.used = @ \cup {f}, !.ram.count[f] = 1]

RefInc(m, f) == [m EXCEPT !.ram.count[f] = IF @ = 0 THEN 0 ELSE @ + 1]

\* ref_dec: the last reference frees the frame.
RefDec(m, f) ==
    IF m.ram.count[f] = 0 THEN m
    ELSE [m EXCEPT !.ram.count[f] = @ - 1, !.ram.used = IF m.ram.count[f] = 1 THEN @ \ {f} ELSE @]

Drop(m, frames) == FoldLeft(RefDec, m, frames)

\* TmpInode::get_page: the page is allocated when it is not there; the caller gets a reference of its own.
GetPage(m, i) ==
    IF m.cache[i] # NoFrame THEN RefInc(m, m.cache[i])
    ELSE RefInc([Alloc(m, FreeFrame(m)) EXCEPT !.cache[i] = FreeFrame(m)], FreeFrame(m))

-----------------------------------------------------------------------------
(* Areas. *)

Overlaps(v, lo, hi) == v.start < hi /\ v.end > lo
RangeFree(m, a, lo, hi) == \A v \in m.space[a].areas : ~Overlaps(v, lo, hi)
FindVma(m, a, p) == {v \in m.space[a].areas : v.start <= p /\ p < v.end}

\* find_gap: the highest gap below the hint.
Gaps(m, a, len) == {p \in Pages : p + len <= m.space[a].hint /\ RangeFree(m, a, p, p + len)}

\* The parts of an area below and from an address: the backing's offset moves along.
Left(v, at) == [v EXCEPT !.end = at]
Right(v, at) == [v EXCEPT !.start = at, !.off = IF v.kind = "anon" THEN 0 ELSE @ + (at - v.start)]

\* unmap_pages.
Present(m, a, lo, hi) == {p \in Pages : lo <= p /\ p < hi /\ m.space[a].pte[p] # NoPte}
UnmapPages(m, a, lo, hi) ==
    LET gone == SetToSeq(Present(m, a, lo, hi))
    IN Drop([m EXCEPT !.space[a].pte = [p \in Pages |-> IF p \in Range(gone) THEN NoPte ELSE @[p]]],
            [i \in DOMAIN gone |-> m.space[a].pte[gone[i]].frame])

\* unmap_locked: what lies inside the range goes, areas that stick out are cut.
UnmapLocked(m, a, lo, hi) ==
    LET hit == {v \in m.space[a].areas : Overlaps(v, lo, hi)}
        kept == (m.space[a].areas \ hit) \cup {Left(v, lo) : v \in {x \in hit : x.start < lo}}
                    \cup {Right(v, hi) : v \in {x \in hit : x.end > hi}}
    IN UnmapPages([m EXCEPT !.space[a].areas = kept], a, lo, hi)

\* mmap: where the mapping goes, or nowhere; a hint that is taken is only a hint.
Places(m, a, at, len, fixed) ==
    IF fixed THEN {at} \cap {p \in Pages : p + len <= Top}
    ELSE IF at \in Pages /\ at + len <= Top /\ RangeFree(m, a, at, at + len) THEN {at}
    ELSE IF Gaps(m, a, len) = {} THEN {} ELSE {Max(Gaps(m, a, len))}

MapAt(m, a, start, v, fixed, hinted) ==
    LET cleared == IF fixed THEN UnmapLocked(m, a, start, v.end) ELSE m
    IN [cleared EXCEPT !.space[a].areas = @ \cup {v}, !.space[a].hint = IF fixed \/ hinted THEN @ ELSE start]

Mmap(a, at, len, w, kind, fixed) ==
    \E start \in Places(Now, a, at, len, fixed) :
        Become(MapAt(Now, a, start, Area(start, len, w, kind, 0), fixed, start = at))

Munmap(a, lo, len) ==
    /\ Present(Now, a, lo, lo + len) # {} \/ ~RangeFree(Now, a, lo, lo + len)
    /\ Become(UnmapLocked(Now, a, lo, lo + len))

\* The two splits of mprotect, then every area inside, and its pages: "never grant write to COW pages".
Split(areas, at) ==
    UNION {IF v.start < at /\ at < v.end THEN {Left(v, at), Right(v, at)} ELSE {v} : v \in areas}

Mprotect(a, lo, len, w) ==
    LET areas == Split(Split(space[a].areas, lo), lo + len)
        inside == {v \in areas : lo <= v.start /\ v.start < lo + len}
    IN /\ inside # {}
       /\ space' = [space EXCEPT
              ![a].areas = (areas \ inside) \cup {[v EXCEPT !.w = w] : v \in inside},
              ![a].pte = [p \in Pages |-> IF @[p] # NoPte /\ \E v \in inside : v.start <= p /\ p < v.end
                                          THEN [@[p] EXCEPT !.w = w /\ ~space[a].pte[p].cow] ELSE @[p]]]
       /\ opened' = (opened \/ \E p \in Pages : ~space[a].pte[p].w /\ space'[a].pte[p].w)
       /\ UNCHANGED <<ram, cache, lost>>

\* brk: the heap's area grows if it still ends where the heap does, otherwise another is added.
Heap(lo, hi) == Area(lo, hi - lo, TRUE, "anon", 0)
Brk(a, new) ==
    /\ new # space[a].brk
    /\ LET cur == space[a].brk
           old == {v \in space[a].areas : v.start = 1 /\ v.end = cur}
       IN IF new > cur
          THEN /\ RangeFree(Now, a, cur, new)
               /\ space' = [space EXCEPT ![a].brk = new,
                      ![a].areas = IF old # {} THEN (@ \ old) \cup {[v EXCEPT !.end = new] : v \in old}
                                   ELSE @ \cup {Heap(cur, new)}]
               /\ UNCHANGED <<ram, cache, lost, opened>>
          ELSE Become([UnmapLocked(Now, a, new, cur) EXCEPT !.space[a].brk = new])

-----------------------------------------------------------------------------
(* Page faults. *)

Map(m, a, p, f, w, cow) == [m EXCEPT !.space[a].pte[p] = [frame |-> f, w |-> w, cow |-> cow]]

\* Copy-on-write: the last user keeps the frame, others get a copy.
Copied(m, a, p) ==
    LET f == m.space[a].pte[p].frame
    IN IF m.ram.count[f] = 1 THEN Map(m, a, p, f, TRUE, FALSE)
       ELSE Map(RefDec(Alloc(m, FreeFrame(m)), f), a, p, FreeFrame(m), TRUE, FALSE)

\* A page of the file: shared as it is, copied at once for a private write, otherwise copy-on-write.
FilePage(m, a, v, p, write) ==
    LET i == v.off + (p - v.start)
        got == GetPage(m, i)
        f == got.cache[i]
    IN IF m.cache[i] = NoFrame /\ FreeFrame(m) = NoFrame THEN m
       ELSE IF v.kind = "shared" THEN Map(got, a, p, f, v.w, FALSE)
       ELSE IF ~write THEN Map(got, a, p, f, FALSE, v.w)
       ELSE IF FreeFrame(got) = NoFrame /\ got.lost[f] < MaxLost THEN [got EXCEPT !.lost[f] = @ + 1]   \* ENOMEM, the reference stays
       ELSE IF FreeFrame(got) = NoFrame THEN m
       ELSE Map(RefDec(Alloc(got, FreeFrame(got)), f), a, p, FreeFrame(got), v.w, FALSE)

\* populate_page; what cannot be done changes nothing, but for the reference above.
Populate(m, a, v, p, write) ==
    LET e == m.space[a].pte[p]
        full == FreeFrame(m) = NoFrame
    IN IF e # NoPte
       THEN IF write /\ ~e.w /\ e.cow /\ (m.ram.count[e.frame] = 1 \/ ~full) THEN Copied(m, a, p) ELSE m
       ELSE CASE v.kind = "anon" -> IF full THEN m ELSE Map(Alloc(m, FreeFrame(m)), a, p, FreeFrame(m), v.w, FALSE)
              [] v.kind = "phys" -> Map(m, a, p, Device, v.w, FALSE)
              [] OTHER -> FilePage(m, a, v, p, write)

\* fault, and populate_range for a page the kernel is about to use.
Fault(a, p, write) ==
    \E v \in FindVma(Now, a, p) :
        /\ write => v.w
        /\ Populate(Now, a, v, p, write) # Now
        /\ Become(Populate(Now, a, v, p, write))

\* TmpInode::truncate to nothing.
Truncate ==
    LET held == SetToSeq({i \in FilePages : cache[i] # NoFrame})
    IN /\ held # <<>>
       /\ Become([Drop(Now, [n \in DOMAIN held |-> cache[held[n]]]) EXCEPT !.cache = [i \in FilePages |-> NoFrame]])

-----------------------------------------------------------------------------
\* fork: private pages that can be written become copy-on-write in both; every page is counted once more.
Fork(a, child) ==
    LET hide(v) == v.kind \in {"anon", "file"}
        hidden(p) == space[a].pte[p].w /\ \E v \in FindVma(Now, a, p) : hide(v)
        pte == [p \in Pages |-> IF hidden(p) THEN [space[a].pte[p] EXCEPT !.w = FALSE, !.cow = TRUE]
                                ELSE space[a].pte[p]]
        held == SetToSeq({p \in Pages : pte[p] # NoPte})
    IN /\ space[a].live /\ ~space[child].live
       /\ Become(FoldLeft(RefInc, [Now EXCEPT !.space[a].pte = pte, !.space[child] = [space[a] EXCEPT !.pte = pte]],
                          [n \in DOMAIN held |-> pte[held[n]].frame]))

\* clear: exit drops the space, exec begins a new one.
Clear(a, live) ==
    /\ space[a].live /\ (a = FirstSpace => live)
    /\ Become([UnmapPages(Now, a, 1, Top) EXCEPT !.space[a] = [Empty EXCEPT !.live = live]])

-----------------------------------------------------------------------------
(* mremap. *)

Shrink(a, lo, old, new) == new < old /\ Munmap(a, lo + new, old - new)

\* In place, if the area ends there and nothing follows: the rest is mapped from offset + old.
Grow(a, lo, old, new) ==
    \E v \in FindVma(Now, a, lo) :
        /\ v.end = lo + old /\ lo + new <= Top
        /\ ~\E u \in space[a].areas : lo + old <= u.start /\ u.start < lo + new
        /\ LET rest == Area(lo + old, new - old, v.w, v.kind, IF v.kind = "anon" THEN 0 ELSE v.off + old)
           IN Become(MapAt(Now, a, lo + old, rest, TRUE, TRUE))

\* The pages an anonymous area has are copied one by one. copy_to_user fails at one that may not be written
\* or for which there is no memory; what was copied before stays.
CopyPages(m, a, lo, dst, n) ==
    LET into == CHOOSE u \in FindVma(m, a, dst) : TRUE
        copy(done, p) ==
            LET next == IF into.w THEN Populate(done.m, a, into, dst + (p - lo), TRUE) ELSE done.m
            IN IF done.ok THEN [m |-> next, ok |-> next # done.m] ELSE done
    IN FoldLeft(copy, [m |-> m, ok |-> TRUE], SetToSortSeq(Present(m, a, lo, lo + n), <))

Move(a, lo, old, new, at, fixed) ==
    \E v \in FindVma(Now, a, lo), dst \in Places(Now, a, at, new, fixed) :
        /\ fixed \/ v.end # lo + old \/ \E u \in space[a].areas : lo + old <= u.start /\ u.start < lo + new
        /\ LET mapped == MapAt(Now, a, dst, Area(dst, new, v.w, v.kind, v.off), fixed, FALSE)
               done == IF v.kind = "anon" THEN CopyPages(mapped, a, lo, dst, old) ELSE [m |-> mapped, ok |-> TRUE]
           IN Become(IF done.ok THEN UnmapLocked(done.m, a, lo, lo + old) ELSE done.m)

Mremap(a, lo, old, new, at, fixed) ==
    \/ at = 0 /\ ~fixed /\ Shrink(a, lo, old, new)
    \/ new > old /\ at = 0 /\ ~fixed /\ Grow(a, lo, old, new)
    \/ new > old /\ (fixed <=> at # 0) /\ Move(a, lo, old, new, at, fixed)

\* What a process asks of its address space.
Calls(a, p, n, w) ==
    \/ w /\ n = 1 /\ Brk(a, p)
    \/ Mprotect(a, p, n, w)
    \/ w /\ Munmap(a, p, n)
    \/ \E kind \in Kinds, fixed \in BOOLEAN : Mmap(a, p, n, w, kind, fixed)
    \/ \E k \in 1..Top - 1, at \in {0} \cup Pages : Mremap(a, p, n, k, at, w)

MemoryNext ==
    \/ /\ UNCHANGED calls
       /\ \E a \in Spaces, p \in Pages, w \in BOOLEAN : space[a].live /\ Fault(a, p, w)
    \/ /\ calls < MaxCalls /\ calls' = calls + 1
       /\ \/ Truncate
          \/ \E a \in Spaces : \/ \E child \in Spaces : Fork(a, child)
                               \/ \E live \in BOOLEAN : Clear(a, live)
          \/ \E a \in {x \in Spaces : space[x].live}, p \in Pages, w \in BOOLEAN :
                \E n \in 1..Top - p : Calls(a, p, n, w)

-----------------------------------------------------------------------------
Mappings(f) == {x \in Spaces \X Pages : space[x[1]].pte[x[2]].frame = f}

\* Every reference is counted: a frame's count is its mappings in all address spaces, its place in the
\* page cache and what failures have leaked; a frame is free exactly when nobody has it (ref_inc and
\* ref_dec in fork, fault, munmap, truncate and exit).
FramesAreCounted ==
    \A f \in Frames :
        /\ ram.count[f] = Cardinality(Mappings(f)) + Cardinality({i \in FilePages : cache[i] = f}) + lost[f]
        /\ f \in ram.used <=> ram.count[f] > 0

\* Areas do not overlap, every page mapped lies in one, and it can be written only where its area can
\* (mmap, munmap, mprotect, brk and mremap cut and join areas in any order).
AreasAreSound ==
    \A a \in Spaces :
        /\ \A u, v \in space[a].areas : u = v \/ ~Overlaps(u, v.start, v.end)
        /\ \A v \in space[a].areas : v.start < v.end
        /\ \A p \in Pages : space[a].pte[p] # NoPte =>
              \E v \in FindVma(Now, a, p) : space[a].pte[p].w => v.w

\* A page of a private area that can be written is nobody else's, whatever was forked, faulted in and
\* dropped: "never grant write to COW pages".  mprotect itself breaks it, for pages that were mapped
\* read-only without being marked copy-on-write, so the claim ends there.
PrivatePagesAreOwn ==
    ~opened => \A a \in Spaces, p \in Pages :
        space[a].pte[p].w /\ (\E v \in FindVma(Now, a, p) : v.kind \in {"anon", "file"}) =>
            ram.count[space[a].pte[p].frame] = 1

MemoryIsSound == FramesAreCounted /\ AreasAreSound /\ PrivatePagesAreOwn
=============================================================================
