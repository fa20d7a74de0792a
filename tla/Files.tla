--------------------------------- MODULE Files ---------------------------------
(***************************************************************************)
(* The file descriptors of the processes and the system calls on them      *)
(* (sys_fs.c, the descriptors in fork_process and _exit, the lookup in     *)
(* execve), on top of the virtual file system of module Vfs, from the      *)
(* mounts of kinit on.                                                     *)
(*                                                                         *)
(* A handler runs to its end with interrupts disabled and is one action.   *)
(* What is read and written, and the offsets, are left out.                *)
(***************************************************************************)
EXTENDS Vfs

CONSTANTS
    Pid,           \* processes
    Init1,         \* the first of them
    NumFiles,      \* NUM_FILEDES
    Opened,        \* the paths that programs open
    Looked,        \* the paths of stat, as programs give them
    Paths,         \* the paths whose lookup is checked
    Executable,    \* the path of execve
    Entries,       \* the indices of readdir
    MaxUsed,       \* bound on the slots in use
    MaxRefs,       \* bound on the counters of the tar entries, taken together
    MaxDuped,      \* bound on the inodes with duplicated descriptors at one time
    Cases          \* uses that are known to break the code

Slot   == 0..(NumFiles - 1)
Desc   == Pid \X Slot     \* identities of descriptors: one of them is unused whenever a slot is
NoDesc == <<>>
Unused == [ino |-> None, users |-> 0]

ASSUME FilesAssumption ==
    /\ IsFiniteSet(Pid) /\ Init1 \in Pid /\ NumFiles \in Nat \ {0}
    /\ {MaxUsed, MaxRefs, MaxDuped} \cup Entries \subseteq Nat
    /\ \A path \in Opened \cup Looked \cup Paths \cup {Executable} : path \in Seq(STRING)
    /\ Cases \subseteq {"root_parent", "stat_missing", "pipe_full"}

VARIABLES
    fs,      \* the file system
    step,    \* how far kinit is
    fd,      \* process_t.fd
    desc,    \* file_desc_t: the inode and the number of slots
    duped,   \* the inodes of descriptors that dup or dup2 was called for
    alive    \* the processes

vars == <<fs, step, fd, desc, duped, alive>>

\* The functions below map a record of the variables to the one after them.
files == [fs |-> fs, fd |-> fd, desc |-> desc, duped |-> duped]

InUse(s, p, i) == s.fd[p][i] # NoDesc
InoOf(s, p, i) == s.desc[s.fd[p][i]].ino

HoldersIn(s, n) == {h \in Pid \X Slot : InUse(s, h[1], h[2]) /\ InoOf(s, h[1], h[2]) = n}

\* Only who shares a descriptor matters: it is named by one of its slots.
Becomes(s) ==
    LET Name(d)  == CHOOSE h \in Pid \X Slot : s.fd[h[1]][h[2]] = d
        shared   == {s.fd[h[1]][h[2]] : h \in Pid \X Slot} \ {NoDesc}
        names    == {Name(d) : d \in shared}
    IN  /\ fs' = s.fs
        /\ fd' = [p \in Pid |-> [i \in Slot |-> IF InUse(s, p, i) THEN Name(s.fd[p][i]) ELSE NoDesc]]
        /\ desc' = [h \in Desc |-> IF h \in names THEN s.desc[s.fd[h[1]][h[2]]] ELSE Unused]
        /\ duped' = {n \in s.duped : HoldersIn(s, n) # {} \/ s.fs.ino[n].users # 0}

\* The first free slot of p, or -1
FreeSlot(s, p) ==
    LET free == {i \in Slot : s.fd[p][i] = NoDesc}
    IN  IF free = {} THEN -1 ELSE Min(free)

\* A new descriptor in slot i of p
NewDesc(s, p, i, n) ==
    LET d == CHOOSE d \in Desc : s.desc[d].users = 0
    IN  [s EXCEPT !.fd[p][i] = d, !.desc[d] = [ino |-> n, users |-> 1]]

fd_get(s, d) == [s EXCEPT !.desc[d].users = @ + 1]
fd_put(s, d) ==
    IF s.desc[d].users = 1 THEN [s EXCEPT !.desc[d] = Unused]
    ELSE [s EXCEPT !.desc[d].users = @ - 1]

close(s, p, i) ==
    LET n == InoOf(s, p, i)
    IN  IF n = None THEN s
        ELSE [fd_put(s, s.fd[p][i]) EXCEPT !.fs = vfs_free(vfs_close(@, n), n),
                                           !.fd[p][i] = NoDesc]

open(s, p, path) ==
    LET i == FreeSlot(s, p)
        r == vfs_namei(s.fs, canonicalize_path(path))
    IN  CASE i = -1 -> s
          [] i # -1 /\ r.n = None -> [s EXCEPT !.fs = r.t]
          [] OTHER -> NewDesc([s EXCEPT !.fs = vfs_open(r.t, r.n)], p, i, r.n)

\* Slot j of p shares the descriptor of slot i.
ShareDesc(s, p, i, j) ==
    fd_get([s EXCEPT !.fd[p][j] = s.fd[p][i], !.duped = @ \cup {InoOf(s, p, i)}], s.fd[p][i])

dup(s, p, i) ==
    LET j == FreeSlot(s, p) IN IF j = -1 THEN s ELSE ShareDesc(s, p, i, j)

dup2(s, p, i, j) ==
    CASE i = j -> s
      [] i # j /\ s.fd[p][j] = NoDesc -> ShareDesc(s, p, i, j)
      [] OTHER -> ShareDesc(close(s, p, j), p, i, j)

\* With one free slot the call fails, and the slot keeps a descriptor
\* without an inode.
pipe(s, p, k) ==
    LET i  == FreeSlot(s, p)
        s1 == NewDesc(s, p, i, None)
        j  == FreeSlot(s1, p)
        s2 == NewDesc(s1, p, j, End(k, "w"))
        t  == new_pipe(s.fs, k)
    IN  CASE i = -1 -> s
          [] i # -1 /\ j = -1 -> s1
          [] OTHER -> [s2 EXCEPT !.desc[s2.fd[p][i]].ino = End(k, "r"),
                                 !.fs = vfs_open(vfs_open(t, End(k, "r")), End(k, "w"))]

\* Mutant of fork_files: the inodes are not opened again.
fork_files_shared(s, p, c) ==
    FoldLeft(LAMBDA u, i : IF u.fd[c][i] = NoDesc THEN u ELSE fd_get(u, u.fd[c][i]),
             [s EXCEPT !.fd[c] = s.fd[p]], [k \in 1..NumFiles |-> k - 1])

\* The loop of fork_process over the descriptors
fork_files(s, p, c) ==
    LET Step(u, i) ==
            IF u.fd[c][i] = NoDesc THEN u
            ELSE [fd_get(u, u.fd[c][i]) EXCEPT !.fs = vfs_open(@, InoOf(u, c, i))]
    IN  FoldLeft(Step, [s EXCEPT !.fd[c] = s.fd[p]], [k \in 1..NumFiles |-> k - 1])

\* The loop of _exit over the descriptors
close_all(s, p) ==
    FoldLeft(LAMBDA u, i : IF u.fd[p][i] = NoDesc THEN u ELSE close(u, p, i),
             s, [k \in 1..NumFiles |-> k - 1])

-----------------------------------------------------------------------------
(* Boot *)

Init ==
    /\ \E image \in Images : fs = vfs_init(image)
    /\ step = 1
    /\ fd = [p \in Pid |-> [i \in Slot |-> NoDesc]]
    /\ desc = [d \in Desc |-> Unused]
    /\ duped = {}
    /\ alive = {Init1}

Booting(k) == step = k /\ step' = step + 1 /\ alive' = alive

BootMount == \E k \in 1..3 :
    /\ Booting(k)
    /\ Becomes([files EXCEPT !.fs = Mounted(@, k)])

\* keyboard_init: the read end of the first pipe is slot 0, that of the second
\* is mounted; the handler of the interrupt writes to the other ends.
keyboard_init ==
    /\ Booting(4)
    /\ LET k0 == vfs_open(vfs_open(new_pipe(fs, 0), End(0, "w")), End(0, "r"))
           k1 == vfs_open(Mounted(k0, 4), End(1, "w"))
       IN  Becomes([NewDesc(files, Init1, 0, End(0, "r")) EXCEPT !.fs = k1])

\* fopen("/dev/debug", "w"), twice
BootOpen ==
    /\ step \in {5, 6} /\ Booting(step)
    /\ Becomes(open(files, Init1, <<"dev", "debug">>))

\* execve looks its program up and keeps it.
BootExec ==
    /\ Booting(7)
    /\ Becomes([files EXCEPT !.fs = vfs_namei(@, Executable).t])

-----------------------------------------------------------------------------
(* System calls *)

\* No slot is left with an inode that is gone.
Intact(s) == \A p \in Pid, i \in Slot :
                InUse(s, p, i) => InoOf(s, p, i) = None \/ s.fs.ino[InoOf(s, p, i)].live

\* A system call of p.  After a freed inode was used nothing is known.
Call(p) == step = 8 /\ p \in alive /\ Intact(files) /\ ~fs.stale /\ UNCHANGED step

AllRefs(s) == FoldSet(LAMBDA n, x : x + s.fs.ino[n].refs, 0,
                      {n \in TarNodes : s.fs.ino[n].refs # 0})

\* The bounds.  (A device in the mount tree is not freed: every dup and close
\* of it takes one from its users, which wrap around in the code.)
Bounded(s) ==
    /\ Cardinality(s.duped) <= MaxDuped
    /\ Cardinality({h \in Pid \X Slot : InUse(s, h[1], h[2])}) <= MaxUsed
    /\ AllRefs(s) <= MaxRefs
    /\ \A n \in Nodes : s.fs.ino[n].users < 0 => ~s.fs.ino[n].live

Does(s) == Bounded(s) /\ Becomes(s) /\ UNCHANGED alive

Open(p)  == Call(p) /\ \E path \in Opened : Does(open(files, p, path))
Close(p) == Call(p) /\ \E i \in Slot : InUse(files, p, i) /\ Does(close(files, p, i))
Dup(p)   == Call(p) /\ \E i \in Slot : InUse(files, p, i) /\ Does(dup(files, p, i))
Dup2(p)  == Call(p) /\ \E i, j \in Slot : InUse(files, p, i) /\ Does(dup2(files, p, i, j))

Pipe(p) ==
    /\ Call(p)
    /\ Cardinality({i \in Slot : ~InUse(files, p, i)}) # 1 \/ "pipe_full" \in Cases
    /\ \E k \in Pipes \ {0, 1} :
        /\ ~fs.ino[End(k, "r")].live /\ ~fs.ino[End(k, "w")].live
        /\ Does(pipe(files, p, k))

\* .. of the root is the inode the root was mounted on, which is freed.
Stat(p) ==
    /\ Call(p)
    /\ \E path \in Looked :
        LET r == vfs_namei(fs, path)
        IN  /\ r.n # None \/ "stat_missing" \in Cases
            /\ Does([files EXCEPT !.fs = IF r.n = None THEN r.t ELSE vfs_free(r.t, r.n)])

\* vfs_finddir needs no readdir here, since tar has a finddir of its own.
Readdir(p) ==
    /\ Call(p)
    /\ \E n \in {InoOf(files, p, i) : i \in {j \in Slot : InUse(files, p, j)}} \ {None},
          k \in Entries :
        /\ n # fs.root \/ k # 1 \/ "root_parent" \in Cases
        /\ LET r == vfs_readdir(fs, n, k)
           IN  Does([files EXCEPT !.fs = IF r.n = None THEN r.t ELSE vfs_free(r.t, r.n)])

Exec(p) == Call(p) /\ Does([files EXCEPT !.fs = vfs_namei(@, Executable).t])

Fork(p) ==
    /\ Call(p)
    /\ \E c \in Pid \ alive :
        /\ Bounded(fork_files(files, p, c)) /\ Becomes(fork_files(files, p, c))
        /\ alive' = alive \cup {c}

Exit(p) == Call(p) /\ p # Init1 /\ Becomes(close_all(files, p)) /\ alive' = alive \ {p}

Next ==
    \/ BootMount \/ keyboard_init \/ BootOpen \/ BootExec
    \/ \E p \in Pid :
        \/ Open(p) \/ Close(p) \/ Dup(p) \/ Dup2(p) \/ Pipe(p)
        \/ Stat(p) \/ Readdir(p) \/ Exec(p) \/ Fork(p) \/ Exit(p)

Spec == Init /\ [][Next]_vars

-----------------------------------------------------------------------------
(* Properties *)

Holders(n) == HoldersIn(files, n)

\* What the keyboard driver has opened
Driver(n) == IF step > 4 /\ n \in {End(0, "w"), End(1, "w")} THEN 1 ELSE 0

\* Every variable has its type.
TypeOK ==
    /\ fs.ino \in [Nodes -> [live : BOOLEAN, name : Names, users : Int, refs : Nat,
                             parent : Nodes \cup {None}, child : Nodes \cup {None},
                             older : Nodes \cup {None}, younger : Nodes \cup {None}]]
    /\ fs.root \in Nodes /\ fs.stale \in BOOLEAN /\ fs.image \in Images
    /\ step \in 1..8
    /\ fd \in [Pid -> [Slot -> Desc \cup {NoDesc}]]
    /\ desc \in [Desc -> [ino : Nodes \cup {None}, users : Nat]]
    /\ duped \subseteq Nodes /\ alive \subseteq Pid

\* A descriptor counts the slots that share it, in all processes, and an inode
\* the slots that lead to it and the opens of the keyboard driver, as long as
\* none of its descriptors has been duplicated: a duplicate is closed, but
\* never opened.
UsersCounted ==
    /\ \A d \in Desc : desc[d].users = Cardinality({s \in Pid \X Slot : fd[s[1]][s[2]] = d})
    /\ \A n \in Nodes \ duped :
        fs.ino[n].live => fs.ino[n].users = Cardinality(Holders(n)) + Driver(n)

\* No slot leads to a freed inode, and none is used, whoever closed what in
\* whichever order, but for inodes with a duplicated descriptor.
NoDanglingInode ==
    /\ \A n \in Nodes \ duped : Holders(n) # {} => fs.ino[n].live
    /\ fs.stale => duped # {}

\* Through the pointers of the mount tree, and from file system to file
\* system, every path leads to what it names, and so does every entry that
\* readdir lists, . and .. and mounts over entries of the image included.  (..
\* of the root is the inode that the root was mounted on, which is freed.)
PathsResolve ==
    step = 8 /\ Intact(files) => \A path \in Paths :
        LET n == vfs_namei(fs, path).n
        IN  /\ n = Resolved(fs, path)
            /\ n # None /\ fs.ino[n].live => \A k \in 0..(MaxEntries + 1) :
                LET de == vfs_readdir(fs, n, k)
                IN  (n # fs.root \/ k # 1) /\ de.n # None =>
                        de.n = Resolved(fs, Append(path, de.name))

\* While no file of an image is open, a stat leaves no inode behind, of the
\* file or of the directories on the way, and takes none away that execve
\* keeps.  (A directory that is open is never given back: vfs.c:49.)
LookupNeutral ==
    step = 8 /\ (\A n \in TarNodes : fs.ino[n].users = 0) => \A path \in Paths :
        LET r == vfs_namei(fs, path)
        IN  r.n # None => \A n \in Nodes :
                in_vfs_tree(fs, n) \/ vfs_free(r.t, r.n).ino[n] = fs.ino[n]

==============================================================================
