---------------------------------- MODULE Vfs ----------------------------------
(***************************************************************************)
(* The virtual file system: the inodes, the tree of mounted ones, and the  *)
(* lookup of paths through it and through the tar file systems below       *)
(* (vfs.c, tarfs.c).                                                       *)
(*                                                                         *)
(* The functions of the code map a file system t to the one after them.    *)
(* t.ino holds the inodes by identity.  A tar entry has at most one inode  *)
(* at a time, entry->buffer, so the two share an identity: live says       *)
(* whether it is allocated, refs is the entry's own counter of users.      *)
(* t.image holds the files of the image.  t.stale becomes TRUE when the    *)
(* code reads an inode it has freed.                                       *)
(* A path is a sequence of names.                                          *)
(***************************************************************************)
EXTENDS Naturals, Integers, FiniteSets, SequencesExt

CONSTANTS
    Dirs,          \* the directories of the image; <<>> is its root
    Images,        \* the sets of files that the image may hold
    Pipes          \* the pipes that may be made: 0 and 1 are the keyboard's

Plain == UNION Images

ASSUME ImageAssumption ==
    /\ {<<>>, <<"mnt">>, <<"mnt", "tarfs">>} \subseteq Dirs /\ Dirs \cap Plain = {}
    /\ \A p \in Dirs \cup Plain : p \in Seq(ToSet(p)) /\ (p # <<>> => Front(p) \in Dirs)
    /\ IsFiniteSet(Dirs \cup Plain) /\ {0, 1} \subseteq Pipes

\* Identities of inodes.  The image is mounted twice, so entries have two.
None  == <<"none">>
Root0 == <<"root0">>                  \* what vfs_init makes
Debug == <<"debug">>                  \* what debug_dev_init makes
End(i, side) == <<"pipe", i, side>>
Tar(k, path) == <<"tar", k, path>>

TarNodes  == {Tar(k, path) : k \in {1, 2}, path \in Dirs \cup Plain}
PipeNodes == {End(i, side) : i \in Pipes, side \in {"r", "w"}}
Nodes     == TarNodes \cup PipeNodes \cup {Root0, Debug}

\* What kinit mounts, in order
Mounts == <<[path |-> <<>>, n |-> Tar(1, <<>>)],
            [path |-> <<"mnt", "tarfs">>, n |-> Tar(2, <<>>)],
            [path |-> <<"dev", "debug">>, n |-> Debug],
            [path |-> <<"dev", "kbdraw">>, n |-> End(1, "r")]>>

NoName == ""                          \* of an inode that calloc just made

\* The names of inodes
Names == {NoName, "/", "tarfs", "debug", "[pipe]"} \cup UNION {ToSet(p) : p \in Dirs \cup Plain}

IsTar(n) == n[1] = "tar"
IsDir(n) == IsTar(n) /\ n[3] \in Dirs

Blank == [live |-> FALSE, name |-> NoName, users |-> 0, refs |-> 0,
          parent |-> None, child |-> None, older |-> None, younger |-> None]

\* calloc of an inode
Make(t, n, name) == [t EXCEPT !.ino[n] = [Blank EXCEPT !.live = TRUE, !.name = name]]

in_vfs_tree(t, n) == t.ino[n].parent # None

\* The code looks into n.
Read(t, n) == [t EXCEPT !.stale = @ \/ ~t.ino[n].live]

-----------------------------------------------------------------------------
(* tarfs.c *)

\* Mutant of tar_get_inode: the first user is not counted.
tar_get_inode_uncounted(t, n) ==
    IF t.ino[n].live THEN [t EXCEPT !.ino[n].refs = @ + 1]
    ELSE Make(t, n, IF n[3] = <<>> THEN "tarfs" ELSE Last(n[3]))

tar_get_inode(t, n) ==
    IF t.ino[n].live THEN [t EXCEPT !.ino[n].refs = @ + 1]
    ELSE [Make(t, n, IF n[3] = <<>> THEN "tarfs" ELSE Last(n[3])) EXCEPT !.ino[n].refs = 1]

\* Mutant of flush_tar: the entry keeps its reference.
flush_tar_kept(t, n) == t

flush_tar(t, n) ==
    IF t.ino[n].refs = 1 THEN [t EXCEPT !.ino[n] = Blank]
    ELSE [t EXCEPT !.ino[n].refs = @ - 1]

Result(t, n) == [t |-> t, n |-> n]
Got(t, n) == Result(tar_get_inode(t, n), n)

tar_finddir(t, dir, name) ==
    LET k == dir[2]  path == dir[3]
        Up == name = ".." /\ path # <<>>
    IN  CASE name = "." -> Got(t, dir)
          [] Up -> Got(t, Tar(k, Front(path)))
          [] name # "." /\ ~Up /\ Append(path, name) \in Dirs \cup t.image ->
                Got(t, Tar(k, Append(path, name)))
          [] OTHER -> Result(t, None)

\* The entries of a directory, in some order that stays the same
Children(t, path) == SetToSeq({c \in Dirs \cup t.image : c # <<>> /\ Front(c) = path})

MaxEntries == Cardinality(Dirs \cup Plain)

Dirent(t, n, name) == [t |-> t, n |-> n, name |-> name]

tar_readdir(t, dir, num) ==
    LET k == dir[2]  path == dir[3]  cs == Children(t, path)
        Entry(p, name) == Dirent(tar_get_inode(t, Tar(k, p)), Tar(k, p), name)
    IN  CASE num = 0 -> Entry(path, ".")
          [] num = 1 -> Entry(Front(path), "..")
          [] num - 1 \in DOMAIN cs -> Entry(cs[num - 1], Last(cs[num - 1]))
          [] OTHER -> Dirent(t, None, NoName)

-----------------------------------------------------------------------------
(* vfs.c *)

\* Mutant of vfs_free: a node that is open is freed too.
vfs_free_open(t, n) ==
    CASE ~t.ino[n].live -> Read(t, n)
      [] t.ino[n].live /\ in_vfs_tree(t, n) -> t
      [] OTHER -> IF IsTar(n) THEN flush_tar(t, n) ELSE [t EXCEPT !.ino[n] = Blank]

\* users is unsigned in the code: it is "> 0" unless it is 0.
vfs_free(t, n) ==
    CASE ~t.ino[n].live -> Read(t, n)
      [] t.ino[n].live /\ (in_vfs_tree(t, n) \/ t.ino[n].users # 0) -> t
      [] OTHER -> IF IsTar(n) THEN flush_tar(t, n) ELSE [t EXCEPT !.ino[n] = Blank]

vfs_open(t, n)  == [Read(t, n) EXCEPT !.ino[n].users = @ + 1]
vfs_close(t, n) == [Read(t, n) EXCEPT !.ino[n].users = @ - 1]

\* The sibling of that name, from n on towards the older ones: each mount
\* links at most one node to a directory.
Sibling(t, n, name) ==
    FoldLeft(LAMBDA m, k : IF m = None \/ t.ino[m].name = name THEN m ELSE t.ino[m].older,
             n, [k \in DOMAIN Mounts |-> k])

vfs_finddir(t, n, name) ==
    LET mounted == Sibling(t, t.ino[n].child, name)
    IN  CASE ~IsDir(n) -> Result(t, None)
          [] IsDir(n) /\ in_vfs_tree(t, n) /\ name = "." -> Result(t, n)
          [] IsDir(n) /\ in_vfs_tree(t, n) /\ name = ".." -> Result(t, t.ino[n].parent)
          [] IsDir(n) /\ in_vfs_tree(t, n) /\ name \notin {".", ".."} /\ mounted # None ->
                Result(t, mounted)
          [] OTHER -> IF IsTar(n) THEN tar_finddir(t, n, name) ELSE Result(t, None)

\* Mutant of vfs_readdir: .. of a mounted directory leads to itself.
vfs_readdir_self(t, n, num) ==
    LET de   == tar_readdir(t, n, num)
        over == Sibling(t, t.ino[n].child, de.name)
    IN  CASE ~IsDir(n) -> Dirent(t, None, NoName)
          [] IsDir(n) /\ in_vfs_tree(t, n) /\ num \in {0, 1} ->
                Dirent(t, n, IF num = 0 THEN "." ELSE "..")
          [] IsDir(n) /\ in_vfs_tree(t, n) /\ num > 1 /\ de.n # None /\ over # None ->
                Dirent(vfs_free(de.t, de.n), over, de.name)
          [] OTHER -> de

\* Of the directories, only tar's are read: no other driver has any.
vfs_readdir(t, n, num) ==
    LET de   == tar_readdir(t, n, num)
        over == Sibling(t, t.ino[n].child, de.name)
    IN  CASE ~IsDir(n) -> Dirent(t, None, NoName)
          [] IsDir(n) /\ in_vfs_tree(t, n) /\ num = 0 -> Dirent(t, n, ".")
          [] IsDir(n) /\ in_vfs_tree(t, n) /\ num = 1 -> Dirent(t, t.ino[n].parent, "..")
          [] IsDir(n) /\ in_vfs_tree(t, n) /\ num > 1 /\ de.n # None /\ over # None ->
                Dirent(vfs_free(de.t, de.n), over, de.name)
          [] OTHER -> de

\* The deepest mounted node on the path, and the names that are left
vfs_find_root(t, path) ==
    LET Step(r, k) ==
            LET m == Sibling(t, t.ino[r.n].child, path[k])
            IN  IF m = None \/ Len(r.rest) # Len(path) - k + 1 THEN r
                ELSE [n |-> m, rest |-> Tail(r.rest)]
    IN  FoldLeftDomain(Step, [n |-> t.root, rest |-> path], path)

\* Next becomes the youngest child of dir in the mount tree.
Link(t, dir, next) ==
    [t EXCEPT !.ino[next].parent = dir, !.ino[next].older = t.ino[dir].child,
              !.ino[dir].child = next]

\* The loop of vfs_namei_mount: a directory is given back when the next name
\* has been found in it, or has not.
Walk(t, path, mounting) ==
    LET r == vfs_find_root(t, path)
        Step(s, name) ==
            LET f == vfs_finddir(Read(s.t, s.n), s.n, name)
                u == IF mounting /\ f.n # None THEN Link(f.t, s.n, f.n) ELSE f.t
            IN  IF s.n = None THEN s ELSE Result(vfs_free(u, s.n), f.n)
    IN  FoldLeft(Step, Result(t, r.n), r.rest)

vfs_namei(t, path) == Walk(t, path, FALSE)

\* The parent and the neighbours of a node that is replaced
HeadChild(t, up, old, new) ==
    IF t.ino[up].child # old THEN t ELSE [t EXCEPT !.ino[up].child = new]
YoungerOf(t, n, m) == IF n = None THEN t ELSE [t EXCEPT !.ino[n].younger = m]
OlderOf(t, n, m)   == IF n = None THEN t ELSE [t EXCEPT !.ino[n].older = m]

\* new takes old's place in the mount tree.  The neighbours are linked to old,
\* which is freed next, and the new root keeps the old one as its parent.
Replace(t, old, new) ==
    LET up    == t.ino[old].parent
        older == t.ino[old].older
        younger == t.ino[old].younger
        t1 == [t EXCEPT !.ino[new].parent = up, !.ino[old].parent = None,
                        !.ino[new].older = older, !.ino[new].younger = younger,
                        !.ino[new].name = t.ino[old].name]
        t2 == YoungerOf(HeadChild(t1, up, old, new), older, old)
        t3 == OlderOf(t2, younger, old)
    IN  IF t.root = old THEN [t3 EXCEPT !.root = new] ELSE t3

vfs_mount(t, path, new) ==
    LET w == Walk(t, path, TRUE)
    IN  IF w.n = None THEN w.t
        ELSE vfs_free(vfs_free(Replace(w.t, w.n, new), w.n), new)

\* . and .. are taken out.  (.. at the root pops an empty stack in the code,
\* through a null pointer; here it stays at the root.)
canonicalize_path(path) ==
    FoldLeft(LAMBDA s, name : CASE name = "." -> s
                                [] name = ".." -> IF s = <<>> THEN s ELSE Front(s)
                                [] OTHER -> Append(s, name), <<>>, path)

-----------------------------------------------------------------------------
(* What kinit makes and mounts *)

vfs_init(image) ==
    LET t == [ino |-> [n \in Nodes |-> Blank], root |-> Root0, stale |-> FALSE,
              image |-> image]
    IN  [Make(t, Root0, "/") EXCEPT !.ino[Root0].parent = Root0]

tarfs_init(t, k) == [Make(t, Tar(k, <<>>), "tarfs") EXCEPT !.ino[Tar(k, <<>>)].refs = 1]

debug_dev_init(t) == Make(t, Debug, "debug")

new_pipe(t, i) == Make(Make(t, End(i, "r"), "[pipe]"), End(i, "w"), "[pipe]")

Mounted(t, k) ==
    LET made == CASE k \in {1, 2} -> tarfs_init(t, k)
                  [] k = 3 -> debug_dev_init(t)
                  [] k = 4 -> new_pipe(t, 1)
    IN  vfs_mount(made, Mounts[k].path, Mounts[k].n)

-----------------------------------------------------------------------------
(* What a path names, defined without the mount tree's pointers *)

\* The mount with the longest path that the path begins with, and the entry of
\* that file system that is left.
Named(t, path) ==
    LET Holds(p) == p \in Dirs \cup t.image
        hits == {j \in DOMAIN Mounts : /\ IsPrefix(Mounts[j].path, path)
                                       /\ Holds(Mounts[j].path)}
        best == CHOOSE j \in hits : \A h \in hits : Len(Mounts[h].path) <= Len(Mounts[j].path)
        n    == Mounts[best].n
        rest == SubSeq(path, Len(Mounts[best].path) + 1, Len(path))
    IN  CASE rest = <<>> -> n
          [] rest # <<>> /\ IsTar(n) /\ Holds(rest) -> Tar(n[2], rest)
          [] OTHER -> None

\* A path names something when all that it passes through are directories.
Resolved(t, path) ==
    LET Seen == {Named(t, canonicalize_path(SubSeq(path, 1, j))) : j \in 0..(Len(path) - 1)}
    IN  IF None \notin Seen /\ (\A n \in Seen : IsDir(n)) THEN Named(t, canonicalize_path(path)) ELSE None

==============================================================================
