------------------------------ MODULE KernelTree ------------------------------
(***************************************************************************)
(* The file system of the research kernel: the tree of a tmpfs, its mounts *)
(* and the resolution of paths (kernel/src/fs/tmpfs.rs, path.rs, and the   *)
(* calls of syscall/fs.rs).  Contents, modes and times are left out; a     *)
(* path has no trailing slash; relative paths begin at the working         *)
(* directory.  A failing call changes nothing and is left out unless it    *)
(* does change something.                                                  *)
(***************************************************************************)
EXTENDS Integers, Sequences, FiniteSets, SequencesExt

CONSTANTS
    Inos,       \* 1..n: the inodes there may be, given out in order
    Names,
    MaxLinks,   \* how many symbolic links are followed: 40 in the code
    MaxMounts,
    MaxNames,   \* the most links a file is given
    PathLen     \* the longest path used

VARIABLES
    node,       \* [kind, entries, parent, nlink, target, fs]
    cwd,
    mounts,     \* MOUNTS: [mountpoint, root]
    oops        \* history: what rename has done to the tree that the invariants do not cover

treeVars == <<node, cwd, mounts, oops>>

Root == 1
Free == [kind |-> "none", entries |-> [n \in Names \cup {".."} |-> 0], parent |-> 0, nlink |-> 0,
         target |-> <<>>, fs |-> 0]

TreeInit ==
    /\ node = [i \in Inos |-> IF i = Root THEN [Free EXCEPT !.kind = "dir", !.nlink = 1, !.fs = Root] ELSE Free]
    /\ cwd = Root /\ mounts = <<>> /\ oops = {}

Kind(i) == IF i = 0 THEN "none" ELSE node[i].kind
Dirs == {i \in Inos : node[i].kind = "dir"}
Paths == UNION {[1..n -> Names \cup {".."}] : n \in 1..PathLen}
Fresh == {i \in Inos : node[i].kind = "none" /\ \A j \in Inos : j < i => node[j].kind # "none"}
Entries(i) == {node[i].entries[n] : n \in DOMAIN node[i].entries} \ {0}

\* What an Arc keeps: the nodes reached by names from the roots, the working directory and the mounts.
Roots == {Root, cwd} \cup {m.mountpoint : m \in Range(mounts)} \cup {m.root : m \in Range(mounts)}
Below(s) == s \cup UNION {Entries(i) : i \in s}
Held == FoldLeft(LAMBDA s, i : Below(s), Roots, [i \in 1..Cardinality(Inos) |-> i])

-----------------------------------------------------------------------------
(* Path resolution: fs/path.rs. *)

\* cross_mount: the newest mount on a directory; uncross_mount: the oldest of a root.
CrossMount(i) ==
    LET over == {n \in DOMAIN mounts : mounts[n].mountpoint = i} IN IF over = {} THEN i ELSE mounts[Max(over)].root
UncrossMount(i) ==
    LET under == {n \in DOMAIN mounts : mounts[n].root = i} IN IF under = {} THEN i ELSE mounts[Min(under)].mountpoint

\* TmpInode::lookup of "..": the parent, while there is one.
Parent(i) == IF node[i].parent \in Held THEN node[i].parent ELSE i

DotDot(cur) == IF UncrossMount(cur) = Root THEN Root ELSE Parent(UncrossMount(cur))

Step(cur, comp) ==
    IF comp = ".." THEN DotDot(cur)
    ELSE IF node[cur].entries[comp] = 0 THEN 0 ELSE CrossMount(node[cur].entries[comp])

NotFound == [parent |-> 0, inode |-> 0, name |-> ""]   \* an error

\* resolve_inner, from the directory cur; a link is resolved from the directory it lies in.
Walk[cur \in Inos, comps \in Seq(Names \cup {".."}), follow \in BOOLEAN, depth \in 0..MaxLinks] ==
    IF comps = <<>> THEN [parent |-> cur, inode |-> cur, name |-> ""]
    ELSE LET comp == Head(comps)
             last == Len(comps) = 1
             next == IF Kind(cur) = "dir" THEN Step(cur, comp) ELSE 0
             via == IF depth = MaxLinks THEN NotFound ELSE Walk[cur, node[next].target, TRUE, depth + 1]
         IN IF Kind(cur) # "dir" \/ (next = 0 /\ ~last) THEN NotFound
            ELSE IF next = 0 THEN [parent |-> cur, inode |-> 0, name |-> comp]
            ELSE IF Kind(next) = "link" /\ (~last \/ follow)
                 THEN IF last THEN [via EXCEPT !.name = IF @ = "" THEN comp ELSE @]
                      ELSE IF via.inode = 0 THEN NotFound ELSE Walk[via.inode, Tail(comps), follow, depth]
            ELSE IF last THEN [parent |-> cur, inode |-> next, name |-> comp]
                 ELSE Walk[next, Tail(comps), follow, depth]

ResolvePath(base, path, follow) == Walk[base, path, follow, 0]

-----------------------------------------------------------------------------
(* The calls that change the tree.  Each takes what resolve_at made of its *)
(* paths: r and rn, with the parent, the node there (or 0) and the name.   *)

Sane == oops \cap {"looped", "hung"} = {}

\* TmpInode::create and symlink: a node of the directory's file system, under a name that is free.
Created(r, i, kind, target) ==
    [node EXCEPT ![i] = [Free EXCEPT !.kind = kind, !.parent = r.parent, !.nlink = 1, !.target = target,
                                     !.fs = node[r.parent].fs],
                 ![r.parent].entries[r.name] = i]

\* open with O_CREAT, mkdirat, mknodat and symlinkat.
Create(r, kind, target) ==
    /\ r.inode = 0 /\ r.parent # 0 /\ r.name \in Names
    /\ \E i \in Fresh : node' = Created(r, i, kind, target)
    /\ UNCHANGED <<cwd, mounts, oops>>

\* TmpInode::link: on the same file system, and no directory.
Linkable(i, rn) ==
    /\ Kind(i) \in {"file", "link"} /\ node[i].nlink < MaxNames
    /\ node[rn.parent].fs = node[i].fs

\* linkat: another name.
Link(r, rn) ==
    /\ rn.inode = 0 /\ rn.parent # 0 /\ rn.name \in Names /\ Linkable(r.inode, rn)
    /\ node' = [node EXCEPT ![r.inode].nlink = @ + 1, ![rn.parent].entries[rn.name] = r.inode]
    /\ UNCHANGED <<cwd, mounts, oops>>

\* What a parent has under the name: not what is mounted there, which resolve_path gives as the node.
Entry(r) == IF r.parent = 0 \/ r.name \notin Names THEN 0 ELSE node[r.parent].entries[r.name]

\* TmpInode::unlink and rmdir: a name is counted off, a directory has to be empty.
Removable(e) == e # 0 /\ (Kind(e) = "dir" => Entries(e) = {})
Removed(r, e) ==
    [node EXCEPT ![r.parent].entries[r.name] = 0, ![e].nlink = IF Kind(e) = "dir" THEN @ ELSE @ - 1]

\* unlinkat, with the kind that the flags ask for; a directory that is mounted on may go as well.
Unlink(r) ==
    /\ r.inode # 0 /\ Removable(Entry(r)) /\ (Kind(r.inode) = "dir") = (Kind(Entry(r)) = "dir")
    /\ node' = Removed(r, Entry(r))
    /\ UNCHANGED <<cwd, mounts, oops>>

\* What lies below a node, itself included.
Subtree(i) == FoldLeft(LAMBDA s, n : Below(s), {i}, [n \in 1..Cardinality(Inos) |-> n])

\* rename that would leave the directory's ".." as it was.
RenameLazily(r, rn) ==
    /\ r.inode # 0 /\ Entry(r) # 0 /\ rn.parent # 0 /\ node[rn.parent].fs = node[r.parent].fs
    /\ ~(Kind(Entry(rn)) = "dir" /\ Entries(Entry(rn)) # {}) /\ r.parent # rn.parent
    /\ node' = [node EXCEPT ![r.parent].entries[r.name] = 0, ![rn.parent].entries[rn.name] = Entry(r)]
    /\ oops' = oops \cup (IF Entry(rn) # 0 THEN {"replaced"} ELSE {})
    /\ UNCHANGED <<cwd, mounts>>

\* renameat and TmpInode::rename: taken out, then put in its new place, whatever is there unless that is a
\* directory with something in it (when the old name is put back, for which the kernel takes the lock of the
\* old directory while it holds the new one's: with one directory it spins for ever).  Nothing looks whether
\* the new place lies below the old one, and what is replaced keeps its link count.
Rename(r, rn) ==
    LET e == Entry(r)
        out == [node EXCEPT ![r.parent].entries[r.name] = 0]
        old == out[rn.parent].entries[rn.name]
    IN
    /\ r.inode # 0 /\ e # 0 /\ rn.parent # 0 /\ node[rn.parent].fs = node[r.parent].fs
    /\ IF Kind(old) = "dir" /\ Entries(old) # {}
       THEN r.parent = rn.parent /\ oops' = oops \cup {"hung"} /\ UNCHANGED node
       ELSE /\ node' = [out EXCEPT ![rn.parent].entries[rn.name] = e, ![e].parent = rn.parent]
            /\ oops' = oops \cup (IF old # 0 THEN {"replaced"} ELSE {})
                            \cup (IF rn.name = ".." THEN {"dotted"} ELSE {})
                            \cup (IF rn.parent \in Subtree(e) THEN {"looped"} ELSE {})
    /\ UNCHANGED <<cwd, mounts>>

Chdir(r) ==
    /\ r.inode # cwd /\ Kind(r.inode) = "dir" /\ cwd' = r.inode
    /\ UNCHANGED <<node, mounts, oops>>

\* mount of a new tmpfs, and of a tree that is mounted already, as devtmpfs is.
Mount(r, again) ==
    /\ Len(mounts) < MaxMounts /\ Kind(r.inode) = "dir"
    /\ IF again
       THEN /\ mounts # <<>>
            /\ mounts' = Append(mounts, [mountpoint |-> r.inode, root |-> Head(mounts).root])
            /\ UNCHANGED node
       ELSE \E i \in Fresh :
            /\ node' = [node EXCEPT ![i] = [Free EXCEPT !.kind = "dir", !.nlink = 1, !.fs = i]]
            /\ mounts' = Append(mounts, [mountpoint |-> r.inode, root |-> i])
    /\ UNCHANGED <<cwd, oops>>

Umount(n) ==
    /\ mounts' = RemoveAt(mounts, n)
    /\ UNCHANGED <<node, cwd, oops>>

\* What can be written as a path, resolved.
Resolved(base, follow) == {ResolvePath(base, p, follow) : p \in Paths} \ {NotFound}

TreeNext ==
    LET plain == Resolved(cwd, FALSE)
        followed == Resolved(cwd, TRUE)
    IN
    /\ Sane
    /\ \/ \E r \in followed : Create(r, "dir", <<>>) \/ Create(r, "file", <<>>) \/ Chdir(r)
       \/ \E r \in plain : \/ \E n \in Names : Create(r, "link", <<"..", n>>)
                            \/ Unlink(r)
                            \/ \E rn \in plain : Link(r, rn) \/ Rename(r, rn)
       \/ \E r \in Resolved(Root, TRUE), again \in BOOLEAN : Mount(r, again)
       \/ \E n \in DOMAIN mounts : Umount(n)

\* The names a node has, those in directories that are gone included: dropping a directory counts nothing off.
NamesOf(i) == {x \in Inos \X DOMAIN Free.entries : node[x[1]].entries[x[2]] = i}

\* A directory has one name at most, and its ".." is the directory that name is in; a file's link count is
\* the number of its names (create, link, unlink, rename and rmdir in any order).  rename counts nothing off
\* what it replaces, so from then on the count is only a bound.
NamesAreSound ==
    Sane => \A i \in Held :
        /\ Kind(i) = "dir" => /\ Cardinality(NamesOf(i)) <= 1
                              /\ \A x \in NamesOf(i) : node[i].parent = x[1] /\ node[i].fs = node[x[1]].fs
        /\ Kind(i) \in {"file", "link"} => /\ node[i].nlink >= Cardinality(NamesOf(i))
                                           /\ "replaced" \notin oops => node[i].nlink = Cardinality(NamesOf(i))

\* The way down and ".." lead back, also across a mount (cross_mount and uncross_mount), as long as one tree
\* is mounted in one place and no place is mounted on twice.
Plain == /\ \A m, n \in DOMAIN mounts : m # n => mounts[m].root # mounts[n].root
         /\ \A m, n \in DOMAIN mounts : mounts[m].mountpoint # mounts[n].root /\ (m # n => mounts[m].mountpoint # mounts[n].mountpoint)
DotDotUndoes ==
    Sane /\ Plain => \A d \in Held \cap Dirs, n \in Names :
        Kind(Step(d, n)) = "dir" /\ d \notin {m.mountpoint : m \in Range(mounts)} => DotDot(Step(d, n)) = d

\* What create, link, unlink, rename, mount and umount leave in any order.
TreeIsSound == NamesAreSound /\ DotDotUndoes
=============================================================================
