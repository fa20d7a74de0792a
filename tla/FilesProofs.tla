----------------------------- MODULE FilesProofs -----------------------------
(***************************************************************************)
(* Types, counters of users and lifetimes of inodes in Files, for any      *)
(* image, any number of processes, descriptors and pipes.                  *)
(*                                                                         *)
(* Of an inode whose descriptors were duplicated nothing is claimed, so    *)
(* the invariant speaks of each inode by itself (Counted): alive, it has   *)
(* as many users as slots and the keyboard driver lead to it; freed, it    *)
(* has none.  That a lookup meets no freed inode rests on the mount tree   *)
(* (Trees): what hangs in it stays, and leads to what hangs in it.         *)
(***************************************************************************)
EXTENDS Files, SchedulerProofs

-----------------------------------------------------------------------------
(* Inodes *)

Record == [live : BOOLEAN, name : Names, users : Int, refs : Nat,
           parent : Nodes \cup {None}, child : Nodes \cup {None},
           older : Nodes \cup {None}, younger : Nodes \cup {None}]

FileSystem == [ino : [Nodes -> Record], root : Nodes, stale : BOOLEAN, image : Images]

\* The inodes that the keyboard driver keeps open
Keys == {End(0, "w"), End(1, "w")}

InTree(t) == {n \in Nodes : in_vfs_tree(t, n)}

\* A freed inode is blank, but for closes that came too late; the entry of a live
\* one knows of it.
Whole(n, x) ==
    /\ x.live /\ IsTar(n) => x.refs >= 1
    /\ ~x.live => /\ x.users <= 0 /\ x.refs = 0 /\ x.name = NoName /\ x.parent = None
                  /\ x.child = None /\ x.older = None /\ x.younger = None
Kept(t) == \A n \in Nodes : Whole(n, t.ino[n])

\* The mount tree is closed: its pointers lead to nodes that hang in it.  The
\* parent of the root is the exception.
Trees(t) ==
    /\ t.root \in InTree(t)
    /\ \A n \in InTree(t) : {t.ino[n].child, t.ino[n].older} \subseteq InTree(t) \cup {None}
    /\ \A n \in InTree(t) \ {t.root} : t.ino[n].parent \in InTree(t)
    /\ InTree(t) \cap Keys = {}

\* Inode x has been opened c times more often than closed.
Counts(x, c) == IF x.live THEN x.users = c ELSE x.users = 0 /\ c = 0

\* What a lookup does to an inode
Passing(x, y) ==
    /\ x.parent = None <=> y.parent = None
    /\ x.parent # None => y.parent = x.parent /\ y.child = x.child /\ y.older = x.older
    /\ \A c \in Nat : Counts(x, c) => Counts(y, c)

\* What a lookup does to a file system
Passes(t, u) ==
    /\ u \in FileSystem /\ Kept(u) /\ u.root = t.root /\ u.image = t.image
    /\ u.ino[Root0].live => t.ino[Root0].live
    /\ \A n \in Nodes : Passing(t.ino[n], u.ino[n])

\* The mount tree stays as it is.
SameTree(t, u) ==
    /\ u.root = t.root
    /\ \A n \in Nodes : t.ino[n].parent = None <=> u.ino[n].parent = None
    /\ \A n \in InTree(t) : /\ u.ino[n].parent = t.ino[n].parent /\ u.ino[n].child = t.ino[n].child
                           /\ u.ino[n].older = t.ino[n].older

\* The identities of inodes
LEMMA NodeNames ==
  /\ None \notin Nodes /\ Root0 \in Nodes /\ Debug \in Nodes /\ TarNodes \subseteq Nodes
  /\ \A n \in Nodes : IsTar(n) <=> n \in TarNodes
  /\ \A n \in TarNodes : n[2] \in {1, 2} /\ n[3] \in Dirs \cup Plain /\ n = Tar(n[2], n[3])
  /\ \A k \in {1, 2}, p \in Dirs \cup Plain :
        Tar(k, p) \in TarNodes /\ Tar(k, p)[2] = k /\ Tar(k, p)[3] = p
  /\ \A i \in Pipes, side \in {"r", "w"} : End(i, side) \in Nodes /\ ~IsTar(End(i, side))
  /\ \A i, j \in Pipes, a, b \in {"r", "w"} : End(i, a) = End(j, b) => i = j /\ a = b
  /\ Root0 \notin TarNodes /\ Debug \notin TarNodes /\ Root0 # Debug
  /\ \A i \in Pipes, side \in {"r", "w"} : End(i, side) # Root0 /\ End(i, side) # Debug
  /\ Keys \subseteq Nodes /\ Keys \cap TarNodes = {}
<1>1. None \notin Nodes
  BY DEF None, Nodes, TarNodes, PipeNodes, Tar, End, Root0, Debug
<1>2. Root0 \in Nodes /\ Debug \in Nodes /\ TarNodes \subseteq Nodes
  BY DEF Nodes
<1>3. \A k, p : Tar(k, p)[1] = "tar" /\ Tar(k, p)[2] = k /\ Tar(k, p)[3] = p
  BY DEF Tar
<1>4. \A i, side : End(i, side)[1] = "pipe" /\ End(i, side)[2] = i /\ End(i, side)[3] = side
  BY DEF End
<1>5. Root0[1] = "root0" /\ Debug[1] = "debug"
  BY DEF Root0, Debug
<1>6. \A n \in TarNodes : /\ n[2] \in {1, 2} /\ n[3] \in Dirs \cup Plain /\ n = Tar(n[2], n[3])
                          /\ n[1] = "tar"
  BY <1>3 DEF TarNodes
<1>7. \A n \in Nodes : n[1] = "tar" => n \in TarNodes
  BY <1>4, <1>5 DEF Nodes, PipeNodes
<1>8. \A k \in {1, 2}, p \in Dirs \cup Plain : Tar(k, p) \in TarNodes
  BY DEF TarNodes
<1>9. \A i \in Pipes, side \in {"r", "w"} : End(i, side) \in Nodes
  BY DEF Nodes, PipeNodes
<1>10. Keys \subseteq Nodes
  BY <1>9, ImageAssumption DEF Keys
<1>11. Keys \cap TarNodes = {}
  BY <1>4, <1>6 DEF Keys
<1>12. \A i, side : End(i, side) # Root0 /\ End(i, side) # Debug
  BY <1>4, <1>5
<1>13. \A n \in Nodes : IsTar(n) <=> n \in TarNodes
  BY <1>6, <1>7 DEF IsTar
<1>14. \A i \in Pipes, side \in {"r", "w"} : ~IsTar(End(i, side))
  BY <1>4 DEF IsTar
<1>15. \A i, j \in Pipes, a, b \in {"r", "w"} : End(i, a) = End(j, b) => i = j /\ a = b
  BY <1>4
<1>16. Root0 \notin TarNodes /\ Debug \notin TarNodes /\ Root0 # Debug
  BY <1>5, <1>6
<1> QED BY <1>1, <1>2, <1>3, <1>6, <1>8, <1>9, <1>10, <1>11, <1>12, <1>13, <1>14, <1>15, <1>16

\* The fields of a file system
LEMMA Fields ==
  ASSUME NEW t \in FileSystem
  PROVE  /\ t.ino \in [Nodes -> Record] /\ t.root \in Nodes /\ t.stale \in BOOLEAN
         /\ t.image \in Images
         /\ \A n \in Nodes :
              /\ t.ino[n] \in Record /\ t.ino[n].live \in BOOLEAN /\ t.ino[n].name \in Names
              /\ t.ino[n].users \in Int /\ t.ino[n].refs \in Nat
              /\ t.ino[n].parent \in Nodes \cup {None} /\ t.ino[n].child \in Nodes \cup {None}
              /\ t.ino[n].older \in Nodes \cup {None} /\ t.ino[n].younger \in Nodes \cup {None}
<1>1. /\ t.ino \in [Nodes -> Record] /\ t.root \in Nodes /\ t.stale \in BOOLEAN
      /\ t.image \in Images
  BY DEF FileSystem
<1>2. ASSUME NEW n \in Nodes
      PROVE  /\ t.ino[n] \in Record /\ t.ino[n].live \in BOOLEAN /\ t.ino[n].name \in Names
             /\ t.ino[n].users \in Int /\ t.ino[n].refs \in Nat
             /\ t.ino[n].parent \in Nodes \cup {None} /\ t.ino[n].child \in Nodes \cup {None}
             /\ t.ino[n].older \in Nodes \cup {None} /\ t.ino[n].younger \in Nodes \cup {None}
  <2>1. t.ino[n] \in Record
    BY <1>1
  <2> QED BY <2>1 DEF Record
<1> QED BY <1>1, <1>2

LEMMA BlankRecord ==
  /\ Blank \in Record /\ ~Blank.live /\ Blank.name = NoName /\ Blank.users = 0 /\ Blank.refs = 0
  /\ Blank.parent = None /\ Blank.child = None /\ Blank.older = None /\ Blank.younger = None
<1>1. /\ ~Blank.live /\ Blank.name = NoName /\ Blank.users = 0 /\ Blank.refs = 0
      /\ Blank.parent = None /\ Blank.child = None /\ Blank.older = None /\ Blank.younger = None
  BY DEF Blank
<1>2. Blank \in Record
  <2>1. NoName \in Names /\ 0 \in Int /\ 0 \in Nat /\ FALSE \in BOOLEAN
    BY DEF Names
  <2> QED BY <2>1 DEF Blank, Record
<1> QED BY <1>1, <1>2

-----------------------------------------------------------------------------
(* One inode changes *)

SetIno(t, n, x) == [t EXCEPT !.ino[n] = x]

LEMMA SetInoIs ==
  ASSUME NEW t \in FileSystem, NEW n \in Nodes, NEW x \in Record, NEW u, u = SetIno(t, n, x)
  PROVE  /\ u \in FileSystem /\ u.root = t.root /\ u.stale = t.stale /\ u.image = t.image
         /\ u.ino[n] = x /\ \A m \in Nodes \ {n} : u.ino[m] = t.ino[m]
BY DEF SetIno, FileSystem

LEMMA PassingSame == \A x : Passing(x, x)
BY DEF Passing

LEMMA SetInoPasses ==
  ASSUME NEW t \in FileSystem, Kept(t), NEW n \in Nodes, NEW x \in Record, Whole(n, x),
         Passing(t.ino[n], x), n = Root0 /\ x.live => t.ino[n].live, NEW u, u = SetIno(t, n, x)
  PROVE  Passes(t, u)
<1>1. /\ u \in FileSystem /\ u.root = t.root /\ u.image = t.image
      /\ u.ino[n] = x /\ \A m \in Nodes \ {n} : u.ino[m] = t.ino[m]
  BY SetInoIs
<1>4. Root0 \in Nodes
  BY NodeNames
<1>2. Kept(u)
  BY <1>1 DEF Kept
<1>3. \A m \in Nodes : Passing(t.ino[m], u.ino[m])
  BY <1>1, PassingSame
<1>5. u.ino[Root0].live => t.ino[Root0].live
  BY <1>1, <1>4
<1> QED BY <1>1, <1>2, <1>3, <1>5 DEF Passes

LEMMA PassesSame == ASSUME NEW t \in FileSystem, Kept(t) PROVE Passes(t, t)
BY PassingSame DEF Passes

LEMMA PassesTrans ==
  ASSUME NEW t, NEW u, NEW w, Passes(t, u), Passes(u, w)
  PROVE  Passes(t, w)
<1>1. ASSUME NEW x, NEW y, NEW z, Passing(x, y), Passing(y, z) PROVE Passing(x, z)
  BY <1>1 DEF Passing
<1> QED BY <1>1 DEF Passes

LEMMA SameTreeTrees ==
  ASSUME NEW t, Trees(t), NEW u, SameTree(t, u)
  PROVE  InTree(u) = InTree(t) /\ Trees(u)
<1>1. InTree(u) = InTree(t)
  BY DEF SameTree, InTree, in_vfs_tree
<1> QED BY <1>1 DEF Trees, SameTree

LEMMA PassesTrees ==
  ASSUME NEW t, Trees(t), NEW u, Passes(t, u)
  PROVE  InTree(u) = InTree(t) /\ Trees(u) /\ SameTree(t, u)
<1>1. \A n \in Nodes : t.ino[n].parent = None <=> u.ino[n].parent = None
  BY DEF Passes, Passing
<1>2. \A n \in InTree(t) : /\ u.ino[n].parent = t.ino[n].parent /\ u.ino[n].child = t.ino[n].child
                           /\ u.ino[n].older = t.ino[n].older
  BY DEF Passes, Passing, InTree, in_vfs_tree
<1>3. SameTree(t, u)
  BY <1>1, <1>2 DEF Passes, SameTree
<1> QED BY <1>3, SameTreeTrees

\* What hangs in the tree is alive.
LEMMA TreeLive ==
  ASSUME NEW t, Kept(t), NEW n \in InTree(t)
  PROVE  n \in Nodes /\ (t.ino[n].live = FALSE => FALSE) /\ t.ino[n].parent # None
BY DEF Kept, Whole, InTree, in_vfs_tree

\* An entry of the image gets one more user ...
Up(n, x) ==
    IF x.live THEN [x EXCEPT !.refs = @ + 1]
    ELSE [Blank EXCEPT !.live = TRUE, !.refs = 1,
                       !.name = IF n[3] = <<>> THEN "tarfs" ELSE Last(n[3])]

LEMMA LastName == \A p \in Dirs \cup Plain : p # <<>> => Last(p) \in Names
<1> SUFFICES ASSUME NEW p \in Dirs \cup Plain, p # <<>> PROVE Last(p) \in Names
  OBVIOUS
<1>1. p \in Seq(ToSet(p))
  BY ImageAssumption
<1>2. PICK s \in Seq(ToSet(p)) : s = p
  BY <1>1
<1>3. Len(s) \in Nat /\ Len(s) >= 1 /\ s[Len(s)] \in ToSet(p)
  BY <1>2
<1>4. ToSet(p) \subseteq Names
  BY DEF Names
<1> QED BY <1>2, <1>3, <1>4 DEF Last

LEMMA WholeLive ==
  ASSUME NEW n, NEW y, y.live, IsTar(n) => y.refs >= 1
  PROVE  Whole(n, y)
BY DEF Whole

LEMMA WholeBlank == ASSUME NEW n PROVE Whole(n, Blank)
BY BlankRecord DEF Whole

LEMMA UpIs ==
  ASSUME NEW n \in TarNodes, NEW x \in Record, Whole(n, x), NEW y, y = Up(n, x)
  PROVE  /\ y \in Record /\ Whole(n, y) /\ Passing(x, y) /\ y.live /\ y.refs = x.refs + 1
         /\ y.users = IF x.live THEN x.users ELSE 0
<1>1. n[3] \in Dirs \cup Plain
  BY NodeNames
<1>2. PICK name \in Names : name = IF n[3] = <<>> THEN "tarfs" ELSE Last(n[3])
  BY <1>1, LastName DEF Names
<1>3. CASE x.live
  <2>1. y = [x EXCEPT !.refs = x.refs + 1] /\ x.refs \in Nat
    BY <1>3 DEF Up, Record
  <2>2. y \in Record /\ y.live /\ y.refs = x.refs + 1 /\ y.users = x.users
        /\ y.parent = x.parent /\ y.child = x.child /\ y.older = x.older
    BY <1>3, <2>1 DEF Record
  <2>3. Whole(n, y)
    <3>1. y.refs >= 1
      BY <2>1, <2>2
    <3> QED BY <2>2, <3>1, WholeLive
  <2>4. Passing(x, y)
    BY <1>3, <2>2 DEF Passing, Counts
  <2> QED BY <1>3, <2>2, <2>3, <2>4
<1>4. CASE ~x.live
  <2>1. y = [Blank EXCEPT !.live = TRUE, !.refs = 1, !.name = name]
    BY <1>2, <1>4 DEF Up
  <2>2. y = [live |-> TRUE, name |-> name, users |-> 0, refs |-> 1,
             parent |-> None, child |-> None, older |-> None, younger |-> None]
    BY <2>1 DEF Blank
  <2>3. y \in Record
    BY <2>2 DEF Record
  <2>4. y.live /\ y.refs = 1 /\ y.users = 0 /\ y.parent = None
    BY <2>2
  <2>5. x.refs = 0 /\ x.parent = None
    BY <1>4 DEF Whole
  <2>6. Whole(n, y)
    BY <2>4, WholeLive
  <2>7. Passing(x, y)
    BY <1>4, <2>4, <2>5 DEF Passing, Counts
  <2> QED BY <1>4, <2>3, <2>4, <2>5, <2>6, <2>7
<1> QED BY <1>3, <1>4

LEMMA GetInode ==
  ASSUME NEW t \in FileSystem, Kept(t), NEW n \in TarNodes, NEW u, u = tar_get_inode(t, n)
  PROVE  /\ Passes(t, u) /\ u.stale = t.stale /\ u.ino[n] = Up(n, t.ino[n]) /\ u.ino[n].live
         /\ \A m \in Nodes \ {n} : u.ino[m] = t.ino[m]
<1>1. n \in Nodes /\ t.ino[n] \in Record /\ Whole(n, t.ino[n])
  BY NodeNames, Fields DEF Kept
<1>2. PICK y : y = Up(n, t.ino[n])
  OBVIOUS
<1>3. y \in Record /\ Whole(n, y) /\ Passing(t.ino[n], y) /\ y.live
  BY <1>1, <1>2, UpIs
<1>4. u = SetIno(t, n, y)
  <2>1. CASE t.ino[n].live
    BY <1>2, <2>1 DEF tar_get_inode, SetIno, Up
  <2>2. CASE ~t.ino[n].live
    <3>1. t.ino \in [Nodes -> Record] /\ t = [ino |-> t.ino, root |-> t.root,
                                  stale |-> t.stale, image |-> t.image]
      BY DEF FileSystem
    <3> QED BY <1>1, <1>2, <2>2, <3>1 DEF tar_get_inode, SetIno, Up, Make, Blank
  <2> QED BY <2>1, <2>2
<1>5. n # Root0
  BY NodeNames
<1>6. Passes(t, u)
  BY <1>1, <1>3, <1>4, <1>5, SetInoPasses
<1> QED BY <1>1, <1>2, <1>3, <1>4, <1>6, SetInoIs

\* ... or one less, and none is a freed inode.
Down(n, x) == IF IsTar(n) /\ x.refs # 1 THEN [x EXCEPT !.refs = @ - 1] ELSE Blank

LEMMA DownIs ==
  ASSUME NEW n \in Nodes, NEW x \in Record, Whole(n, x), x.live, x.users = 0, x.parent = None,
         NEW y, y = Down(n, x)
  PROVE  y \in Record /\ Whole(n, y) /\ Passing(x, y)
<1>1. CASE IsTar(n) /\ x.refs # 1
  <2>1. x.refs \in Nat /\ x.refs >= 1
    BY <1>1 DEF Record, Whole
  <2>2. y = [x EXCEPT !.refs = x.refs - 1] /\ x.refs - 1 \in Nat /\ x.refs - 1 >= 1
    BY <1>1, <2>1 DEF Down
  <2>3. y \in Record /\ y.live /\ y.refs = x.refs - 1 /\ y.users = x.users
        /\ y.parent = x.parent /\ y.child = x.child /\ y.older = x.older
    BY <2>2 DEF Record
  <2>4. Whole(n, y)
    <3>1. y.refs >= 1
      BY <2>2, <2>3
    <3> QED BY <2>3, <3>1, WholeLive
  <2>5. Passing(x, y)
    BY <2>3 DEF Passing, Counts
  <2> QED BY <2>3, <2>4, <2>5
<1>2. CASE ~(IsTar(n) /\ x.refs # 1)
  <2>1. y = Blank
    BY <1>2 DEF Down
  <2>2. Whole(n, y)
    BY <2>1, WholeBlank
  <2>3. Passing(x, y)
    BY <2>1, BlankRecord DEF Passing, Counts
  <2> QED BY <2>1, <2>2, <2>3, BlankRecord
<1> QED BY <1>1, <1>2

\* A lookup that gives back what it has found leaves nothing behind.
LEMMA DownUp ==
  ASSUME NEW n \in TarNodes, NEW x \in Record, Whole(n, x), x.users = 0
  PROVE  Down(n, Up(n, x)) = x
<1>1. IsTar(n)
  BY NodeNames
<1>2. CASE x.live
  <2>1. x.refs \in Nat /\ x.refs >= 1
    BY <1>1, <1>2 DEF Record, Whole
  <2>2. PICK y : y = [x EXCEPT !.refs = x.refs + 1]
    OBVIOUS
  <2>3. y = Up(n, x) /\ y.refs = x.refs + 1
    BY <1>2, <2>2 DEF Up, Record
  <2>4. Down(n, y) = [y EXCEPT !.refs = x.refs]
    BY <1>1, <2>1, <2>3 DEF Down
  <2>5. [y EXCEPT !.refs = x.refs] = x
    BY <2>2 DEF Record
  <2> QED BY <2>3, <2>4, <2>5
<1>3. CASE ~x.live
  <2>1. x = Blank
    BY <1>3 DEF Whole, Record, Blank
  <2>2. PICK y : y = Up(n, x)
    OBVIOUS
  <2>3. y.refs = 1
    BY <1>3, <2>2 DEF Up, Blank
  <2>4. Down(n, y) = Blank
    BY <2>3 DEF Down
  <2> QED BY <2>1, <2>2, <2>4
<1> QED BY <1>2, <1>3

LEMMA ReadIs ==
  ASSUME NEW t \in FileSystem, NEW n, NEW u, u = Read(t, n)
  PROVE  /\ u \in FileSystem /\ u.ino = t.ino /\ u.root = t.root /\ u.image = t.image
         /\ (t.ino[n].live => u = t) /\ (t.stale => u.stale)
<1>1. t = [ino |-> t.ino, root |-> t.root, stale |-> t.stale, image |-> t.image]
      /\ t.stale \in BOOLEAN /\ t.ino \in [Nodes -> Record] /\ t.root \in Nodes /\ t.image \in Images
  BY DEF FileSystem
<1>2. PICK b \in BOOLEAN : b = (t.stale \/ ~t.ino[n].live)
  OBVIOUS
<1>3. u = [ino |-> t.ino, root |-> t.root, stale |-> b, image |-> t.image]
  BY <1>1, <1>2 DEF Read
<1>4. t.ino[n].live => u = t
  <2> SUFFICES ASSUME t.ino[n].live PROVE u = t
    OBVIOUS
  <2>1. b = t.stale
    BY <1>1, <1>2
  <2> QED BY <1>1, <1>3, <2>1
<1>5. t.stale => u.stale
  <2>1. u.stale = b
    BY <1>3
  <2>2. t.stale => b
    BY <1>2
  <2> QED BY <2>1, <2>2
<1>6. u \in FileSystem
  BY <1>1, <1>3 DEF FileSystem
<1> QED BY <1>3, <1>4, <1>5, <1>6

LEMMA ReadPasses ==
  ASSUME NEW t \in FileSystem, Kept(t), NEW n, NEW u, u = Read(t, n)
  PROVE  Passes(t, u)
<1>1. u \in FileSystem /\ u.ino = t.ino /\ u.root = t.root /\ u.image = t.image
  BY ReadIs
<1> QED BY <1>1, PassingSame DEF Passes, Kept

\* vfs_free frees what is neither open nor in the mount tree.
LEMMA Free ==
  ASSUME NEW t \in FileSystem, Kept(t), NEW n \in Nodes, NEW u, u = vfs_free(t, n)
  PROVE  /\ Passes(t, u) /\ (t.ino[n].live => u.stale = t.stale) /\ (t.stale => u.stale)
         /\ \A m \in Nodes \ {n} : u.ino[m] = t.ino[m]
         /\ u.ino[n] = IF t.ino[n].live /\ t.ino[n].parent = None /\ t.ino[n].users = 0
                       THEN Down(n, t.ino[n]) ELSE t.ino[n]
<1>1. t.ino[n] \in Record /\ Whole(n, t.ino[n])
  BY Fields DEF Kept
<1>2. CASE ~t.ino[n].live
  <2>1. u = Read(t, n)
    BY <1>2 DEF vfs_free
  <2> QED BY <1>2, <2>1, ReadIs, ReadPasses
<1>3. CASE t.ino[n].live /\ ~(t.ino[n].parent = None /\ t.ino[n].users = 0)
  <2>1. u = t
    BY <1>3 DEF vfs_free, in_vfs_tree
  <2> QED BY <1>3, <2>1, PassesSame
<1>4. CASE t.ino[n].live /\ t.ino[n].parent = None /\ t.ino[n].users = 0
  <2>1. PICK y : y = Down(n, t.ino[n])
    OBVIOUS
  <2>2. y \in Record /\ Whole(n, y) /\ Passing(t.ino[n], y)
    BY <1>1, <1>4, <2>1, DownIs
  <2>3. u = IF IsTar(n) THEN flush_tar(t, n) ELSE [t EXCEPT !.ino[n] = Blank]
    BY <1>4 DEF vfs_free, in_vfs_tree
  <2>4. u = SetIno(t, n, y)
    <3>1. CASE IsTar(n) /\ t.ino[n].refs # 1
      BY <2>1, <2>3, <3>1 DEF flush_tar, SetIno, Down
    <3>2. CASE IsTar(n) /\ t.ino[n].refs = 1
      BY <2>1, <2>3, <3>2 DEF flush_tar, SetIno, Down
    <3>3. CASE ~IsTar(n)
      BY <2>1, <2>3, <3>3 DEF SetIno, Down
    <3> QED BY <3>1, <3>2, <3>3
  <2>5. Passes(t, u)
    BY <1>4, <2>2, <2>4, SetInoPasses
  <2>6. u.stale = t.stale /\ u.ino[n] = y /\ \A m \in Nodes \ {n} : u.ino[m] = t.ino[m]
    BY <2>2, <2>4, SetInoIs
  <2> QED BY <1>4, <2>1, <2>5, <2>6
<1> QED BY <1>2, <1>3, <1>4

\* The users of an inode change.
LEMMA SetUsers ==
  ASSUME NEW t \in FileSystem, Kept(t), NEW n \in Nodes, NEW v \in Int,
         ~t.ino[n].live => v <= 0,
         NEW y, y = [t.ino[n] EXCEPT !.users = v], NEW u, u = SetIno(t, n, y)
  PROVE  /\ u \in FileSystem /\ Kept(u) /\ SameTree(t, u)
         /\ u.image = t.image /\ u.stale = t.stale
         /\ (\A m \in Nodes : u.ino[m].live = t.ino[m].live)
         /\ (\A m \in Nodes \ {n} : u.ino[m] = t.ino[m])
         /\ u.ino[n].users = v /\ u.ino[n].parent = t.ino[n].parent
<1>1. t.ino[n] \in Record /\ Whole(n, t.ino[n])
  BY Fields DEF Kept
<1>3. /\ y \in Record /\ y.users = v /\ y.live = t.ino[n].live /\ y.refs = t.ino[n].refs
      /\ y.name = t.ino[n].name /\ y.parent = t.ino[n].parent /\ y.child = t.ino[n].child
      /\ y.older = t.ino[n].older /\ y.younger = t.ino[n].younger
  BY <1>1 DEF Record
<1>4. Whole(n, y)
  BY <1>1, <1>3 DEF Whole
<1>5. /\ u \in FileSystem /\ u.root = t.root /\ u.stale = t.stale /\ u.image = t.image
      /\ u.ino[n] = y /\ \A m \in Nodes \ {n} : u.ino[m] = t.ino[m]
  <2>1. y \in Record
    BY <1>3
  <2> QED BY <2>1, SetInoIs
<1>6. Kept(u)
  BY <1>4, <1>5 DEF Kept
<1>7. \A m \in Nodes : /\ u.ino[m].parent = t.ino[m].parent /\ u.ino[m].child = t.ino[m].child
                       /\ u.ino[m].older = t.ino[m].older
  BY <1>3, <1>5
<1>8. SameTree(t, u)
  BY <1>5, <1>7 DEF SameTree, InTree
<1> QED BY <1>3, <1>5, <1>6, <1>8

LEMMA OpenIs ==
  ASSUME NEW t \in FileSystem, Kept(t), NEW n \in Nodes, t.ino[n].live, NEW u, u = vfs_open(t, n)
  PROVE  /\ u \in FileSystem /\ Kept(u) /\ SameTree(t, u)
         /\ u.image = t.image /\ u.stale = t.stale
         /\ (\A m \in Nodes : u.ino[m].live = t.ino[m].live)
         /\ (\A m \in Nodes \ {n} : u.ino[m] = t.ino[m])
         /\ u.ino[n].users = t.ino[n].users + 1 /\ u.ino[n].parent = t.ino[n].parent
<1>1. t.ino[n].users \in Int
  BY Fields
<1>2. PICK v \in Int : v = t.ino[n].users + 1
  BY <1>1
<1>3. Read(t, n) = t
  BY ReadIs
<1>4. PICK y : y = [t.ino[n] EXCEPT !.users = v]
  OBVIOUS
<1>5. u = SetIno(t, n, y)
  BY <1>2, <1>3, <1>4 DEF vfs_open, SetIno
<1> QED BY <1>2, <1>4, <1>5, SetUsers

LEMMA CloseIs ==
  ASSUME NEW t \in FileSystem, Kept(t), NEW n \in Nodes, NEW u, u = vfs_close(t, n)
  PROVE  /\ u \in FileSystem /\ Kept(u) /\ SameTree(t, u)
         /\ u.image = t.image /\ (t.ino[n].live => u.stale = t.stale) /\ (t.stale => u.stale)
         /\ (\A m \in Nodes : u.ino[m].live = t.ino[m].live)
         /\ (\A m \in Nodes \ {n} : u.ino[m] = t.ino[m])
         /\ u.ino[n].users = t.ino[n].users - 1 /\ u.ino[n].parent = t.ino[n].parent
<1>1. t.ino[n].users \in Int /\ Whole(n, t.ino[n])
  BY Fields DEF Kept
<1>2. PICK v \in Int : v = t.ino[n].users - 1
  BY <1>1
<1>3. PICK r : r = Read(t, n)
  OBVIOUS
<1>4. /\ r \in FileSystem /\ r.ino = t.ino /\ r.root = t.root /\ r.image = t.image
      /\ (t.ino[n].live => r = t) /\ (t.stale => r.stale)
  BY <1>3, ReadIs
<1>5. Kept(r) /\ SameTree(t, r)
  BY <1>4 DEF Kept, SameTree, InTree
<1>6. ~r.ino[n].live => v <= 0
  BY <1>1, <1>2, <1>4 DEF Whole
<1>10. PICK y : y = [r.ino[n] EXCEPT !.users = v]
  OBVIOUS
<1>7. u = SetIno(r, n, y)
  BY <1>2, <1>3, <1>4, <1>10 DEF vfs_close, SetIno
<1>8. /\ u \in FileSystem /\ Kept(u) /\ SameTree(r, u)
      /\ u.image = r.image /\ u.stale = r.stale
      /\ (\A m \in Nodes : u.ino[m].live = r.ino[m].live)
      /\ (\A m \in Nodes \ {n} : u.ino[m] = r.ino[m])
      /\ u.ino[n].users = v /\ u.ino[n].parent = r.ino[n].parent
  BY <1>4, <1>5, <1>6, <1>7, <1>10, SetUsers
<1>9. SameTree(t, u)
  BY <1>4, <1>8 DEF SameTree, InTree, in_vfs_tree
<1> QED BY <1>2, <1>4, <1>8, <1>9

-----------------------------------------------------------------------------
(* Folds.  Turn is what the folds of the model do in one round, whichever  *)
(* job it is.                                                              *)

SiblingTurn(t, name, m) == IF m = None \/ t.ino[m].name = name THEN m ELSE t.ino[m].older

RootTurn(t, path, r, k) ==
    LET m == Sibling(t, t.ino[r.n].child, path[k])
    IN  IF m = None \/ Len(r.rest) # Len(path) - k + 1 THEN r
        ELSE [n |-> m, rest |-> Tail(r.rest)]

WalkTurn(mounting, s, name) ==
    LET f == vfs_finddir(Read(s.t, s.n), s.n, name)
        u == IF mounting /\ f.n # None THEN Link(f.t, s.n, f.n) ELSE f.t
    IN  IF s.n = None THEN s ELSE Result(vfs_free(u, s.n), f.n)

CanonTurn(s, name) == CASE name = "." -> s
                        [] name = ".." -> IF s = <<>> THEN s ELSE Front(s)
                        [] OTHER -> Append(s, name)

Copied(s, p, c) == [s EXCEPT !.fd[c] = s.fd[p]]

ForkTurn(c, u, i) ==
    IF u.fd[c][i] = NoDesc THEN u
    ELSE [fd_get(u, u.fd[c][i]) EXCEPT !.fs = vfs_open(@, InoOf(u, c, i))]

CloseTurn(p, u, i) == IF u.fd[p][i] = NoDesc THEN u ELSE close(u, p, i)

Turn(job, x, e) ==
    CASE job[1] = "sibling" -> SiblingTurn(job[2], job[3], x)
      [] job[1] = "root"    -> RootTurn(job[2], job[3], x, e)
      [] job[1] = "walk"    -> WalkTurn(job[2], x, e)
      [] job[1] = "canon"   -> CanonTurn(x, e)
      [] job[1] = "fork"    -> ForkTurn(job[2], x, e)
      [] job[1] = "close"   -> CloseTurn(job[2], x, e)

Iterates(job, base, q, f) ==
    f = [s \in SUBSET DOMAIN q |-> IF s = {} THEN base
                                   ELSE Turn(job, f[s \ {Max(s)}], q[Max(s)])]

SiblingIter(t, name, base, q, f) ==
    f = [s \in SUBSET DOMAIN q |-> IF s = {} THEN base
                                   ELSE SiblingTurn(t, name, f[s \ {Max(s)}])]
RootIter(t, path, base, q, f) ==
    f = [s \in SUBSET DOMAIN q |-> IF s = {} THEN base
                                   ELSE RootTurn(t, path, f[s \ {Max(s)}], q[Max(s)])]
WalkIter(m, base, q, f) ==
    f = [s \in SUBSET DOMAIN q |-> IF s = {} THEN base
                                   ELSE WalkTurn(m, f[s \ {Max(s)}], q[Max(s)])]
WalkChoice(m, base, q) == CHOOSE f : WalkIter(m, base, q, f)
CanonIter(base, q, f) ==
    f = [s \in SUBSET DOMAIN q |-> IF s = {} THEN base
                                   ELSE CanonTurn(f[s \ {Max(s)}], q[Max(s)])]
ForkIter(c, base, q, f) ==
    f = [s \in SUBSET DOMAIN q |-> IF s = {} THEN base
                                   ELSE ForkTurn(c, f[s \ {Max(s)}], q[Max(s)])]
CloseIter(p, base, q, f) ==
    f = [s \in SUBSET DOMAIN q |-> IF s = {} THEN base
                                   ELSE CloseTurn(p, f[s \ {Max(s)}], q[Max(s)])]
LEMMA SiblingFold == ASSUME NEW t, NEW n, NEW name, NEW q, q = [k \in DOMAIN Mounts |-> k]
  PROVE Sibling(t, n, name) = (CHOOSE f : SiblingIter(t, name, n, q, f))[DOMAIN q]
BY DEF Sibling, FoldLeft, MapThenFoldSet, SiblingTurn, SiblingIter
LEMMA RootFold == ASSUME NEW t, NEW path, NEW q, q = [k \in DOMAIN path |-> k], NEW b, b = [n |-> t.root, rest |-> path]
  PROVE vfs_find_root(t, path) = (CHOOSE f : RootIter(t, path, b, q, f))[DOMAIN q]
BY DEF vfs_find_root, FoldLeftDomain, FoldLeft, MapThenFoldSet, RootTurn, RootIter
LEMMA WalkFold == ASSUME NEW t, NEW path, NEW m,
         NEW q, q = vfs_find_root(t, path).rest, NEW b, b = Result(t, vfs_find_root(t, path).n)
  PROVE Walk(t, path, m) = WalkChoice(m, b, q)[DOMAIN q]
BY DEF Walk, FoldLeft, MapThenFoldSet, WalkTurn, WalkIter, WalkChoice
LEMMA CanonFold == ASSUME NEW q
  PROVE canonicalize_path(q) = (CHOOSE f : CanonIter(<<>>, q, f))[DOMAIN q]
BY DEF canonicalize_path, FoldLeft, MapThenFoldSet, CanonTurn, CanonIter
LEMMA ForkFold == ASSUME NEW s, NEW p, NEW c, NEW q, q = [k \in 1..NumFiles |-> k - 1], NEW b, b = Copied(s, p, c)
  PROVE fork_files(s, p, c) = (CHOOSE f : ForkIter(c, b, q, f))[DOMAIN q]
BY DEF fork_files, FoldLeft, MapThenFoldSet, ForkTurn, ForkIter, Copied
LEMMA CloseFold == ASSUME NEW s, NEW p, NEW q, q = [k \in 1..NumFiles |-> k - 1]
  PROVE close_all(s, p) = (CHOOSE f : CloseIter(p, s, q, f))[DOMAIN q]
BY DEF close_all, FoldLeft, MapThenFoldSet, CloseTurn, CloseIter
LEMMA MaxIs ==
  ASSUME NEW n \in Nat, NEW s \in SUBSET (1..n), n \in s
  PROVE  Max(s) = n
<1>1. \A y \in s : n >= y
  OBVIOUS
<1>2. \A x \in s : (\A y \in s : x >= y) => x = n
  BY <1>1
<1> QED BY <1>1, <1>2 DEF Max

IteratesTo(job, base, q, n, f) ==
    f = [s \in SUBSET (1..n) |-> IF s = {} THEN base
                                 ELSE Turn(job, f[s \ {Max(s)}], q[Max(s)])]

LEMMA FoldExists ==
  ASSUME NEW job, NEW base, NEW q
  PROVE  \A n \in Nat : \E f : IteratesTo(job, base, q, n, f)
<1> DEFINE U == {n \in Nat : \E f : IteratesTo(job, base, q, n, f)}
<1>1. 0 \in U
  <2>1. PICK f : f = [s \in SUBSET (1..0) |-> base]
    OBVIOUS
  <2>2. \A s \in SUBSET (1..0) : s = {}
    OBVIOUS
  <2>3. f = [s \in SUBSET (1..0) |-> IF s = {} THEN base
                                 ELSE Turn(job, f[s \ {Max(s)}], q[Max(s)])]
    BY <2>1, <2>2
  <2> QED BY <2>3 DEF IteratesTo
<1>2. ASSUME NEW n \in Nat, n \in U PROVE n + 1 \in U
  <2>1. PICK f : IteratesTo(job, base, q, n, f)
    BY <1>2
  <2>2. PICK g : g = [s \in SUBSET (1..(n + 1)) |->
                        IF n + 1 \in s THEN Turn(job, f[s \ {n + 1}], q[n + 1]) ELSE f[s]]
    OBVIOUS
  <2>3. \A s \in SUBSET (1..n) : f[s] = IF s = {} THEN base
                                 ELSE Turn(job, f[s \ {Max(s)}], q[Max(s)])
    BY <2>1 DEF IteratesTo
  <2>4. \A s \in SUBSET (1..n) : s \in SUBSET (1..(n + 1)) /\ n + 1 \notin s
    OBVIOUS
  <2>5. \A s \in SUBSET (1..n) : g[s] = f[s]
    BY <2>2, <2>4
  <2>6. ASSUME NEW s \in SUBSET (1..(n + 1))
        PROVE  g[s] = IF s = {} THEN base ELSE Turn(job, g[s \ {Max(s)}], q[Max(s)])
    <3>1. CASE n + 1 \in s
      <4>1. Max(s) = n + 1 /\ s # {}
        BY <3>1, MaxIs
      <4>2. s \ {n + 1} \in SUBSET (1..n)
        OBVIOUS
      <4>3. g[s] = Turn(job, f[s \ {n + 1}], q[n + 1])
        BY <2>2, <3>1
      <4>4. g[s \ {n + 1}] = f[s \ {n + 1}]
        BY <2>5, <4>2
      <4> QED BY <4>1, <4>3, <4>4
    <3>2. CASE n + 1 \notin s
      <4>1. s \in SUBSET (1..n)
        <5>1. \A x \in s : x \in 1..n
          BY <3>2
        <5> QED BY <5>1
      <4>2. PICK r : r = s \ {Max(s)}
        OBVIOUS
      <4>3. r \in SUBSET (1..n)
        BY <4>1, <4>2
      <4>4. g[s] = f[s] /\ g[r] = f[r]
        BY <2>5, <4>1, <4>3
      <4> QED BY <2>3, <4>1, <4>2, <4>4
    <3> QED BY <3>1, <3>2
  <2>7. g = [s \in SUBSET (1..(n + 1)) |-> IF s = {} THEN base
                                 ELSE Turn(job, g[s \ {Max(s)}], q[Max(s)])]
    BY <2>2, <2>6
  <2>8. IteratesTo(job, base, q, n + 1, g)
    BY <2>7 DEF IteratesTo
  <2> QED BY <2>8
<1> HIDE DEF U
<1>3. \A n \in Nat : n \in U
  BY <1>1, <1>2, InductSet
<1> QED BY <1>3 DEF U

\* The rounds of a fold, one after the other
Runs(job, base, q, N, v) ==
    \E u : u[0] = base /\ u[N] = v /\ \A k \in 1..N : u[k] = Turn(job, u[k - 1], q[k])

LEMMA FoldRuns ==
  ASSUME NEW job, NEW base, NEW q, NEW N \in Nat, DOMAIN q = 1..N
  PROVE  /\ \E f : Iterates(job, base, q, f)
         /\ \A f : Iterates(job, base, q, f) => Runs(job, base, q, N, f[DOMAIN q])
<1>1. \A f : Iterates(job, base, q, f) <=> IteratesTo(job, base, q, N, f)
  BY DEF Iterates, IteratesTo
<1>2. \E f : Iterates(job, base, q, f)
  BY <1>1, FoldExists
<1>3. ASSUME NEW f, Iterates(job, base, q, f) PROVE Runs(job, base, q, N, f[DOMAIN q])
  <2>1. PICK u : u = [k \in 0..N |-> f[1..k]]
    OBVIOUS
  <2>2. \A s \in SUBSET (1..N) : f[s] = IF s = {} THEN base
                                 ELSE Turn(job, f[s \ {Max(s)}], q[Max(s)])
    BY <1>1, <1>3 DEF IteratesTo
  <2>3. u[0] = base
    <3>1. 1..0 = {} /\ {} \in SUBSET (1..N)
      OBVIOUS
    <3>2. f[{}] = base
      BY <2>2, <3>1
    <3> QED BY <2>1, <3>1, <3>2
  <2>4. u[N] = f[DOMAIN q]
    BY <2>1
  <2>5. ASSUME NEW k \in 1..N PROVE u[k] = Turn(job, u[k - 1], q[k])
    <3>1. 1..k \in SUBSET (1..N) /\ 1..k \in SUBSET (1..k) /\ 1..k # {} /\ k \in 1..k /\ k \in Nat
      <4>1. \A x \in 1..k : x \in 1..N
        OBVIOUS
      <4>2. k \in 1..k /\ k \in Nat
        OBVIOUS
      <4> QED BY <4>1, <4>2
    <3>2. Max(1..k) = k
      BY <3>1, MaxIs
    <3>3. (1..k) \ {k} = 1..(k - 1)
      OBVIOUS
    <3>4. f[1..k] = Turn(job, f[1..(k - 1)], q[k])
      BY <2>2, <3>1, <3>2, <3>3
    <3> QED BY <2>1, <3>4
  <2> QED BY <2>3, <2>4, <2>5 DEF Runs
<1> QED BY <1>2, <1>3

LEMMA SiblingRuns ==
  ASSUME NEW t, NEW n, NEW name
  PROVE  \E u : /\ u[0] = n /\ u[4] = Sibling(t, n, name)
                /\ \A k \in 1..4 : u[k] = SiblingTurn(t, name, u[k - 1])
<1>1. PICK q : q = [k \in DOMAIN Mounts |-> k]
  OBVIOUS
<1>2. PICK job : job = <<"sibling", t, name>>
  OBVIOUS
<1>3. \A x, e : Turn(job, x, e) = SiblingTurn(t, name, x)
  BY <1>2 DEF Turn
<1>4. \A f : SiblingIter(t, name, n, q, f) <=> Iterates(job, n, q, f)
  BY <1>3 DEF SiblingIter, Iterates
<1>5. DOMAIN q = 1..4
  BY <1>1 DEF Mounts
<1>6. PICK f : f = CHOOSE g : SiblingIter(t, name, n, q, g)
  OBVIOUS
<1>7. SiblingIter(t, name, n, q, f)
  BY <1>4, <1>5, <1>6, FoldRuns
<1>8. Sibling(t, n, name) = f[DOMAIN q]
  BY <1>1, <1>6, SiblingFold
<1>9. Runs(job, n, q, 4, Sibling(t, n, name))
  BY <1>4, <1>5, <1>7, <1>8, FoldRuns
<1> QED BY <1>3, <1>9 DEF Runs

LEMMA RootRuns ==
  ASSUME NEW t, NEW S, NEW path \in Seq(S)
  PROVE  \E u : /\ u[0] = [n |-> t.root, rest |-> path] /\ u[Len(path)] = vfs_find_root(t, path)
                /\ \A k \in 1..Len(path) : u[k] = RootTurn(t, path, u[k - 1], k)
<1>1. PICK q : q = [k \in DOMAIN path |-> k]
  OBVIOUS
<1>2. PICK job : job = <<"root", t, path>>
  OBVIOUS
<1>b. PICK b : b = [n |-> t.root, rest |-> path]
  OBVIOUS
<1>3. \A x, e : Turn(job, x, e) = RootTurn(t, path, x, e)
  BY <1>2 DEF Turn
<1>4. \A f : RootIter(t, path, b, q, f) <=> Iterates(job, b, q, f)
  BY <1>3 DEF RootIter, Iterates
<1>5. DOMAIN q = 1..Len(path) /\ Len(path) \in Nat /\ \A k \in 1..Len(path) : q[k] = k
  BY <1>1
<1>6. PICK f : f = CHOOSE g : RootIter(t, path, b, q, g)
  OBVIOUS
<1>7. RootIter(t, path, b, q, f)
  BY <1>4, <1>5, <1>6, FoldRuns
<1>8. vfs_find_root(t, path) = f[DOMAIN q]
  BY <1>1, <1>b, <1>6, RootFold
<1>9. Runs(job, b, q, Len(path), vfs_find_root(t, path))
  BY <1>4, <1>5, <1>7, <1>8, FoldRuns
<1> QED BY <1>3, <1>5, <1>b, <1>9 DEF Runs

Walked(t, path, m, r) ==
    \E u : /\ u[0] = Result(t, r.n) /\ u[Len(r.rest)] = Walk(t, path, m)
           /\ \A k \in 1..Len(r.rest) : u[k] = WalkTurn(m, u[k - 1], r.rest[k])

LEMMA WalkRuns ==
  ASSUME NEW t, NEW path, NEW m, NEW r, r = vfs_find_root(t, path), NEW S, r.rest \in Seq(S)
  PROVE  Walked(t, path, m, r)
<1>1. PICK q \in Seq(S) : q = r.rest
  OBVIOUS
<1>2. PICK job : job = <<"walk", m>>
  OBVIOUS
<1>b. PICK b : b = Result(t, r.n)
  OBVIOUS
<1>3. \A x, e : Turn(job, x, e) = WalkTurn(m, x, e)
  BY <1>2 DEF Turn
<1>4. \A f : WalkIter(m, b, q, f) <=> Iterates(job, b, q, f)
  BY <1>3 DEF WalkIter, Iterates
<1>5. DOMAIN q = 1..Len(q) /\ Len(q) \in Nat
  OBVIOUS
<1>6. PICK f : f = CHOOSE g : WalkIter(m, b, q, g)
  OBVIOUS
<1>7. WalkIter(m, b, q, f)
  BY <1>4, <1>5, <1>6, FoldRuns
<1>8. Walk(t, path, m) = f[DOMAIN q]
  <2>1. q = vfs_find_root(t, path).rest /\ b = Result(t, vfs_find_root(t, path).n)
    BY <1>1, <1>b
  <2>2. Walk(t, path, m) = WalkChoice(m, b, q)[DOMAIN q]
    BY <2>1, WalkFold
  <2>3. WalkChoice(m, b, q) = f
    BY <1>6 DEF WalkChoice
  <2> QED BY <2>2, <2>3
<1>9. Runs(job, b, q, Len(q), Walk(t, path, m))
  BY <1>4, <1>5, <1>7, <1>8, FoldRuns
<1> QED BY <1>1, <1>3, <1>b, <1>9 DEF Runs, Walked

LEMMA CanonRuns ==
  ASSUME NEW S, NEW path \in Seq(S)
  PROVE  \E u : /\ u[0] = <<>> /\ u[Len(path)] = canonicalize_path(path)
                /\ \A k \in 1..Len(path) : u[k] = CanonTurn(u[k - 1], path[k])
<1>2. PICK job : job = <<"canon">>
  OBVIOUS
<1>3. \A x, e : Turn(job, x, e) = CanonTurn(x, e)
  BY <1>2 DEF Turn
<1>4. \A f : CanonIter(<<>>, path, f) <=> Iterates(job, <<>>, path, f)
  BY <1>3 DEF CanonIter, Iterates
<1>5. DOMAIN path = 1..Len(path) /\ Len(path) \in Nat
  OBVIOUS
<1>6. PICK f : f = CHOOSE g : CanonIter(<<>>, path, g)
  OBVIOUS
<1>7. CanonIter(<<>>, path, f)
  BY <1>4, <1>5, <1>6, FoldRuns
<1>8. canonicalize_path(path) = f[DOMAIN path]
  BY <1>6, CanonFold
<1>9. Runs(job, <<>>, path, Len(path), canonicalize_path(path))
  BY <1>4, <1>5, <1>7, <1>8, FoldRuns
<1> QED BY <1>3, <1>9 DEF Runs

LEMMA ForkRuns ==
  ASSUME NEW s, NEW p, NEW c, NEW b, b = Copied(s, p, c)
  PROVE  \E u : /\ u[0] = b /\ u[NumFiles] = fork_files(s, p, c)
                /\ \A k \in 1..NumFiles : u[k] = ForkTurn(c, u[k - 1], k - 1)
<1>1. PICK q : q = [k \in 1..NumFiles |-> k - 1]
  OBVIOUS
<1>2. PICK job : job = <<"fork", c>>
  OBVIOUS
<1>3. \A x, e : Turn(job, x, e) = ForkTurn(c, x, e)
  BY <1>2 DEF Turn
<1>4. \A f : ForkIter(c, b, q, f) <=> Iterates(job, b, q, f)
  BY <1>3 DEF ForkIter, Iterates
<1>5. DOMAIN q = 1..NumFiles /\ NumFiles \in Nat /\ \A k \in 1..NumFiles : q[k] = k - 1
  BY <1>1, FilesAssumption
<1>6. PICK f : f = CHOOSE g : ForkIter(c, b, q, g)
  OBVIOUS
<1>7. ForkIter(c, b, q, f)
  BY <1>4, <1>5, <1>6, FoldRuns
<1>8. fork_files(s, p, c) = f[DOMAIN q]
  BY <1>1, <1>6, ForkFold
<1>9. Runs(job, b, q, NumFiles, fork_files(s, p, c))
  BY <1>4, <1>5, <1>7, <1>8, FoldRuns
<1> QED BY <1>3, <1>5, <1>9 DEF Runs

LEMMA CloseRuns ==
  ASSUME NEW s, NEW p
  PROVE  \E u : /\ u[0] = s /\ u[NumFiles] = close_all(s, p)
                /\ \A k \in 1..NumFiles : u[k] = CloseTurn(p, u[k - 1], k - 1)
<1>1. PICK q : q = [k \in 1..NumFiles |-> k - 1]
  OBVIOUS
<1>2. PICK job : job = <<"close", p>>
  OBVIOUS
<1>3. \A x, e : Turn(job, x, e) = CloseTurn(p, x, e)
  BY <1>2 DEF Turn
<1>4. \A f : CloseIter(p, s, q, f) <=> Iterates(job, s, q, f)
  BY <1>3 DEF CloseIter, Iterates
<1>5. DOMAIN q = 1..NumFiles /\ NumFiles \in Nat /\ \A k \in 1..NumFiles : q[k] = k - 1
  BY <1>1, FilesAssumption
<1>6. PICK f : f = CHOOSE g : CloseIter(p, s, q, g)
  OBVIOUS
<1>7. CloseIter(p, s, q, f)
  BY <1>4, <1>5, <1>6, FoldRuns
<1>8. close_all(s, p) = f[DOMAIN q]
  BY <1>1, <1>6, CloseFold
<1>9. Runs(job, s, q, NumFiles, close_all(s, p))
  BY <1>4, <1>5, <1>7, <1>8, FoldRuns
<1> QED BY <1>3, <1>5, <1>9 DEF Runs

-----------------------------------------------------------------------------
(* Lookups *)

LEMMA SiblingIn ==
  ASSUME NEW t, Trees(t), NEW n \in InTree(t) \cup {None}, NEW name
  PROVE  Sibling(t, n, name) \in InTree(t) \cup {None}
<1>1. ASSUME NEW m \in InTree(t) \cup {None}
      PROVE  SiblingTurn(t, name, m) \in InTree(t) \cup {None}
  BY DEF SiblingTurn, Trees
<1>2. PICK u : /\ u[0] = n /\ u[4] = Sibling(t, n, name)
               /\ \A k \in 1..4 : u[k] = SiblingTurn(t, name, u[k - 1])
  BY SiblingRuns
<1>3. /\ u[1] = SiblingTurn(t, name, u[0]) /\ u[2] = SiblingTurn(t, name, u[1])
      /\ u[3] = SiblingTurn(t, name, u[2]) /\ u[4] = SiblingTurn(t, name, u[3])
  BY <1>2
<1> QED BY <1>1, <1>2, <1>3

LEMMA SiblingOf ==
  ASSUME NEW t, NEW n, NEW name
  PROVE  /\ n = None => Sibling(t, n, name) = None
         /\ n # None /\ t.ino[n].name = name => Sibling(t, n, name) = n
         /\ n # None /\ t.ino[n].name # name /\ t.ino[n].older = None => Sibling(t, n, name) = None
<1>2. PICK u : /\ u[0] = n /\ u[4] = Sibling(t, n, name)
               /\ \A k \in 1..4 : u[k] = SiblingTurn(t, name, u[k - 1])
  BY SiblingRuns
<1>3. /\ u[1] = SiblingTurn(t, name, u[0]) /\ u[2] = SiblingTurn(t, name, u[1])
      /\ u[3] = SiblingTurn(t, name, u[2]) /\ u[4] = SiblingTurn(t, name, u[3])
  BY <1>2
<1>4. \A m : m = None \/ t.ino[m].name = name => SiblingTurn(t, name, m) = m
  BY DEF SiblingTurn
<1>5. \A m : m # None /\ t.ino[m].name # name => SiblingTurn(t, name, m) = t.ino[m].older
  BY DEF SiblingTurn
<1>6. n = None \/ t.ino[n].name = name => Sibling(t, n, name) = n
  BY <1>2, <1>3, <1>4
<1>7. n # None /\ t.ino[n].name # name /\ t.ino[n].older = None => Sibling(t, n, name) = None
  BY <1>2, <1>3, <1>4, <1>5
<1> QED BY <1>6, <1>7

LEMMA RootFound ==
  ASSUME NEW t, Trees(t), NEW S, NEW path \in Seq(S), NEW r, r = vfs_find_root(t, path)
  PROVE  r.n \in InTree(t) /\ r.rest \in Seq(S)
<1>1. PICK u : /\ u[0] = [n |-> t.root, rest |-> path] /\ u[Len(path)] = vfs_find_root(t, path)
               /\ \A k \in 1..Len(path) : u[k] = RootTurn(t, path, u[k - 1], k)
  BY RootRuns
<1>2. Len(path) \in Nat
  BY LenProperties
<1>3. PICK U : U = {k \in Nat : k <= Len(path) => u[k].n \in InTree(t) /\ u[k].rest \in Seq(S)}
  OBVIOUS
<1>4. 0 \in U
  BY <1>1, <1>3 DEF Trees
<1>5. ASSUME NEW k \in Nat, k \in U PROVE k + 1 \in U
  <2> SUFFICES ASSUME k + 1 <= Len(path)
               PROVE  u[k + 1].n \in InTree(t) /\ u[k + 1].rest \in Seq(S)
    BY <1>3
  <2>1. PICK v : v = u[k]
    OBVIOUS
  <2>2. v.n \in InTree(t) /\ v.rest \in Seq(S)
    BY <1>2, <1>3, <1>5, <2>1
  <2>3. k + 1 \in 1..Len(path) /\ (k + 1) - 1 = k
    BY <1>2
  <2>4. u[k + 1] = RootTurn(t, path, v, k + 1)
    BY <1>1, <2>1, <2>3
  <2>5. PICK m : m = Sibling(t, t.ino[v.n].child, path[k + 1])
    OBVIOUS
  <2>6. m \in InTree(t) \cup {None}
    <3>1. t.ino[v.n].child \in InTree(t) \cup {None}
      BY <2>2 DEF Trees
    <3> QED BY <2>5, <3>1, SiblingIn
  <2>7. CASE m = None \/ Len(v.rest) # Len(path) - (k + 1) + 1
    <3>1. u[k + 1] = v
      BY <2>4, <2>5, <2>7 DEF RootTurn
    <3> QED BY <2>2, <3>1
  <2>8. CASE ~(m = None \/ Len(v.rest) # Len(path) - (k + 1) + 1)
    <3>1. u[k + 1] = [n |-> m, rest |-> Tail(v.rest)]
      BY <2>4, <2>5, <2>8 DEF RootTurn
    <3>2. Len(v.rest) >= 1
      BY <1>2, <2>8
    <3>3. v.rest # <<>>
      BY <3>2, EmptySeq
    <3>4. Tail(v.rest) \in Seq(S)
      BY <2>2, <3>3
    <3> QED BY <2>6, <2>8, <3>1, <3>4
  <2> QED BY <2>7, <2>8
<1>6. Len(path) \in U
  BY <1>2, <1>4, <1>5, InductSet
<1> QED BY <1>1, <1>2, <1>3, <1>6

\* What a directory gives for a name: nothing, a node of the mount tree, the inode
\* the root was mounted on, or an entry of the image with one more user.
Finds(t, n, name, f) ==
    \/ f.t = t /\ f.n = None
    \/ f.t = t /\ f.n \in InTree(t)
    \/ f.t = t /\ name = ".." /\ n = t.root /\ f.n = t.ino[t.root].parent
    \/ f.n \in TarNodes /\ f.t = tar_get_inode(t, f.n)

LEMMA ImagePaths ==
  ASSUME NEW t \in FileSystem
  PROVE  t.image \subseteq Plain /\ Dirs \cup t.image \subseteq Dirs \cup Plain
BY DEF FileSystem, Plain

LEMMA TarFindDir ==
  ASSUME NEW t \in FileSystem, NEW n \in TarNodes, n[3] \in Dirs, NEW name,
         NEW f, f = tar_finddir(t, n, name)
  PROVE  Finds(t, n, name, f)
<1>1. PICK k, path : k = n[2] /\ path = n[3]
  OBVIOUS
<1>2. k \in {1, 2} /\ path \in Dirs
  BY <1>1, NodeNames
<1>3. ASSUME NEW m \in TarNodes, f = Got(t, m) PROVE Finds(t, n, name, f)
  BY <1>3 DEF Got, Result, Finds
<1>4. CASE name = "."
  <2>1. f = Got(t, n)
    BY <1>4 DEF tar_finddir
  <2> QED BY <1>3, <2>1
<1>5. CASE name # "." /\ name = ".." /\ path # <<>>
  <2>1. f = Got(t, Tar(k, Front(path)))
    BY <1>1, <1>5 DEF tar_finddir
  <2>2. Front(path) \in Dirs \cup Plain
    BY <1>2, <1>5, ImageAssumption
  <2>3. Tar(k, Front(path)) \in TarNodes
    BY <1>2, <2>2, NodeNames
  <2> QED BY <1>3, <2>1, <2>3
<1>6. CASE name # "." /\ ~(name = ".." /\ path # <<>>) /\ Append(path, name) \in Dirs \cup t.image
  <2>1. f = Got(t, Tar(k, Append(path, name)))
    BY <1>1, <1>6 DEF tar_finddir
  <2>2. Append(path, name) \in Dirs \cup Plain
    BY <1>6, ImagePaths
  <2>3. Tar(k, Append(path, name)) \in TarNodes
    BY <1>2, <2>2, NodeNames
  <2> QED BY <1>3, <2>1, <2>3
<1>7. CASE name # "." /\ ~(name = ".." /\ path # <<>>) /\ Append(path, name) \notin Dirs \cup t.image
  <2>1. f = Result(t, None)
    BY <1>1, <1>7 DEF tar_finddir
  <2> QED BY <2>1 DEF Result, Finds
<1> QED BY <1>4, <1>5, <1>6, <1>7

LEMMA FindDir ==
  ASSUME NEW t \in FileSystem, Kept(t), Trees(t), NEW n \in Nodes, NEW name,
         NEW f, f = vfs_finddir(t, n, name)
  PROVE  Finds(t, n, name, f)
<1>1. PICK mounted : mounted = Sibling(t, t.ino[n].child, name)
  OBVIOUS
<1>2. CASE ~IsDir(n)
  BY <1>2 DEF vfs_finddir, Result, Finds
<1>3. CASE IsDir(n) /\ in_vfs_tree(t, n)
  <2>1. n \in InTree(t)
    BY <1>3 DEF InTree
  <2>2. CASE name = "."
    <3>1. f = Result(t, n)
      BY <1>3, <2>2 DEF vfs_finddir
    <3> QED BY <2>1, <3>1 DEF Result, Finds
  <2>3. CASE name = ".."
    <3>0. f = Result(t, t.ino[n].parent)
      BY <1>3, <2>3 DEF vfs_finddir
    <3>1. f.t = t /\ f.n = t.ino[n].parent
      BY <3>0 DEF Result
    <3>2. n = t.root \/ t.ino[n].parent \in InTree(t)
      BY <2>1 DEF Trees
    <3> QED BY <2>3, <3>1, <3>2 DEF Finds
  <2>4. CASE name # "." /\ name # ".." /\ mounted # None
    <3>1. f.t = t /\ f.n = mounted
      BY <1>1, <1>3, <2>4 DEF vfs_finddir, Result
    <3>2. mounted \in InTree(t)
      <4>1. t.ino[n].child \in InTree(t) \cup {None}
        BY <2>1 DEF Trees
      <4> QED BY <1>1, <2>4, <4>1, SiblingIn
    <3> QED BY <3>1, <3>2 DEF Finds
  <2>5. CASE name # "." /\ name # ".." /\ mounted = None
    <3>1. f = tar_finddir(t, n, name)
      BY <1>1, <1>3, <2>5 DEF vfs_finddir, IsDir
    <3> QED BY <1>3, <3>1, TarFindDir, NodeNames DEF IsDir
  <2> QED BY <2>2, <2>3, <2>4, <2>5
<1>4. CASE IsDir(n) /\ ~in_vfs_tree(t, n)
  <2>1. f = tar_finddir(t, n, name)
    BY <1>4 DEF vfs_finddir, IsDir
  <2> QED BY <1>4, <2>1, TarFindDir, NodeNames DEF IsDir
<1> QED BY <1>2, <1>3, <1>4

\* A lookup goes on at a live inode.
Going(t, s) ==
    /\ Passes(t, s.t) /\ s.t.stale = t.stale
    /\ s.n # None => s.n \in Nodes \ Keys /\ s.t.ino[s.n].live

LEMMA WalkLive ==
  ASSUME NEW t \in FileSystem, Kept(t), Trees(t), NEW s, Going(t, s), NEW name, name # "..",
         NEW m, m = FALSE, NEW w, w = WalkTurn(m, s, name)
  PROVE  Going(t, w)
<1>1. CASE s.n = None
  BY <1>1 DEF WalkTurn
<1>2. CASE s.n # None
  <2>1. PICK n, x : n = s.n /\ x = s.t
    OBVIOUS
  <2>2. n \in Nodes \ Keys /\ x.ino[n].live /\ Passes(t, x) /\ x.stale = t.stale
    BY <1>2, <2>1 DEF Going
  <2>3. x \in FileSystem /\ Kept(x) /\ Trees(x)
    BY <2>2, PassesTrees DEF Passes
  <2>4. Read(x, n) = x
    BY <2>2, <2>3, ReadIs
  <2>5. PICK f : f = vfs_finddir(x, n, name)
    OBVIOUS
  <2>6. Finds(x, n, name, f)
    BY <2>2, <2>3, <2>5, FindDir
  <2>7. PICK y : y = f.t
    OBVIOUS
  <2>8. PICK v : v = vfs_free(y, n)
    OBVIOUS
  <2>9. w = Result(v, f.n)
    BY <1>2, <2>1, <2>4, <2>5, <2>7, <2>8 DEF WalkTurn
  <2>10. /\ Passes(x, y) /\ y.stale = x.stale
         /\ f.n # None => f.n \in Nodes \ Keys /\ y.ino[f.n].live
         /\ f.n = n => \/ y = x /\ n \in InTree(x)
                       \/ n \in TarNodes /\ y.ino[n] = Up(n, x.ino[n])
         /\ y.ino[n].live
    <3>1. CASE y = x /\ f.n = None
      BY <2>2, <2>3, <3>1, PassesSame, NodeNames
    <3>2. CASE y = x /\ f.n \in InTree(x)
      <4>1. f.n \in Nodes \ Keys /\ x.ino[f.n].live
        <5>1. f.n \in Nodes /\ x.ino[f.n].parent # None
          BY <3>2 DEF InTree, in_vfs_tree
        <5>2. f.n \notin Keys
          BY <2>3, <3>2 DEF Trees
        <5> QED BY <2>3, <5>1, <5>2 DEF Kept, Whole
      <4> QED BY <2>2, <2>3, <3>2, <4>1, PassesSame
    <3>3. CASE f.n \in TarNodes /\ y = tar_get_inode(x, f.n)
      <4>1. /\ Passes(x, y) /\ y.stale = x.stale /\ y.ino[f.n] = Up(f.n, x.ino[f.n])
            /\ y.ino[f.n].live /\ \A k \in Nodes \ {f.n} : y.ino[k] = x.ino[k]
        BY <2>3, <3>3, GetInode
      <4>2. f.n \in Nodes \ Keys
        BY <3>3, NodeNames
      <4> QED BY <2>2, <3>3, <4>1, <4>2
    <3> QED BY <2>6, <2>7, <3>1, <3>2, <3>3 DEF Finds
  <2>11. y \in FileSystem /\ Kept(y)
    BY <2>10 DEF Passes
  <2>12. /\ Passes(y, v) /\ v.stale = y.stale
         /\ \A k \in Nodes \ {n} : v.ino[k] = y.ino[k]
         /\ v.ino[n] = IF y.ino[n].live /\ y.ino[n].parent = None /\ y.ino[n].users = 0
                       THEN Down(n, y.ino[n]) ELSE y.ino[n]
    BY <2>2, <2>8, <2>10, <2>11, Free
  <2>13. f.n # None => v.ino[f.n].live
    <3>1. CASE f.n # n
      BY <2>10, <2>12, <3>1
    <3>2. CASE f.n = n /\ y = x /\ n \in InTree(x)
      <4>1. y.ino[n].parent # None
        BY <3>2 DEF InTree, in_vfs_tree
      <4> QED BY <2>10, <2>12, <3>2, <4>1
    <3>3. CASE f.n = n /\ n \in TarNodes /\ y.ino[n] = Up(n, x.ino[n])
      <4>1. x.ino[n] \in Record /\ Whole(n, x.ino[n]) /\ IsTar(n)
        BY <2>2, <2>3, <3>3, Fields, NodeNames DEF Kept
      <4>2. x.ino[n].refs \in Nat /\ x.ino[n].refs >= 1
        BY <2>2, <4>1 DEF Record, Whole
      <4>3. PICK z : z = y.ino[n]
        OBVIOUS
      <4>4. z \in Record /\ z.live /\ z.refs = x.ino[n].refs + 1
        BY <3>3, <4>1, <4>3, UpIs
      <4>5. z.refs # 1
        BY <4>2, <4>4
      <4>6. Down(n, z) = [z EXCEPT !.refs = z.refs - 1]
        BY <4>1, <4>5 DEF Down
      <4>7. Down(n, z).live
        BY <4>4, <4>6 DEF Record
      <4> QED BY <2>12, <3>3, <4>3, <4>4, <4>7
    <3> QED BY <2>10, <3>1, <3>2, <3>3
  <2>14. Passes(t, v)
    <3>1. Passes(t, y)
      BY <2>2, <2>10, PassesTrans
    <3> QED BY <2>12, <3>1, PassesTrans
  <2>15. w.t = v /\ w.n = f.n
    <3>1. w = [t |-> v, n |-> f.n]
      BY <2>9 DEF Result
    <3> QED BY <3>1
  <2>16. v.stale = t.stale
    BY <2>2, <2>10, <2>12
  <2> QED BY <2>10, <2>13, <2>14, <2>15, <2>16 DEF Going
<1> QED BY <1>1, <1>2

\* Names; those that kinit gives are listed, since no prover knows a string to be
\* in STRING.
Word == STRING \cup {"dev", "debug"}

LEMMA StringPaths == ASSUME NEW path \in Seq(STRING) PROVE path \in Seq(Word)
<1>1. \A i \in 1..Len(path) : path[i] \in Word
  BY DEF Word
<1> QED BY <1>1

\* The names of a path that never goes up
Ahead == {name \in Word : name # ".."}

LEMMA Namei ==
  ASSUME NEW t \in FileSystem, Kept(t), Trees(t), NEW path \in Seq(Ahead),
         NEW r, r = vfs_namei(t, path)
  PROVE  Going(t, r)
<1>1. PICK q : q = vfs_find_root(t, path)
  OBVIOUS
<1>2. q.n \in InTree(t) /\ q.rest \in Seq(Ahead)
  BY <1>1, RootFound
<1>0. PICK m : m = FALSE
  OBVIOUS
<1>a. Walked(t, path, m, q)
  BY <1>1, <1>2, WalkRuns
<1>3. PICK u : /\ u[0] = Result(t, q.n) /\ u[Len(q.rest)] = Walk(t, path, m)
               /\ \A k \in 1..Len(q.rest) : u[k] = WalkTurn(m, u[k - 1], q.rest[k])
  BY <1>a DEF Walked
<1>4. Len(q.rest) \in Nat /\ \A k \in 1..Len(q.rest) : q.rest[k] \in Ahead
  BY <1>2
<1>5. PICK U : U = {k \in Nat : k <= Len(q.rest) => Going(t, u[k])}
  OBVIOUS
<1>6. 0 \in U
  <2>1. Passes(t, t)
    BY PassesSame
  <2>2. q.n \in Nodes \ Keys /\ t.ino[q.n].live
    <3>1. q.n \in Nodes /\ t.ino[q.n].parent # None
      BY <1>2 DEF InTree, in_vfs_tree
    <3>2. q.n \notin Keys
      BY <1>2 DEF Trees
    <3> QED BY <3>1, <3>2 DEF Kept, Whole
  <2>3. u[0].t = t /\ u[0].n = q.n
    BY <1>3 DEF Result
  <2>4. Going(t, u[0])
    BY <2>1, <2>2, <2>3 DEF Going
  <2> QED BY <1>5, <2>4
<1>7. ASSUME NEW k \in Nat, k \in U PROVE k + 1 \in U
  <2> SUFFICES ASSUME k + 1 <= Len(q.rest) PROVE Going(t, u[k + 1])
    BY <1>5
  <2>1. Going(t, u[k])
    BY <1>4, <1>5, <1>7
  <2>2. k + 1 \in 1..Len(q.rest) /\ (k + 1) - 1 = k
    BY <1>4
  <2>3. u[k + 1] = WalkTurn(m, u[k], q.rest[k + 1])
    BY <1>3, <2>2
  <2>4. q.rest[k + 1] # ".."
    BY <1>4, <2>2 DEF Ahead
  <2> QED BY <1>0, <2>1, <2>3, <2>4, WalkLive
<1>8. Len(q.rest) \in U
  BY <1>4, <1>6, <1>7, InductSet
<1>9. r = u[Len(q.rest)]
  BY <1>0, <1>3 DEF vfs_namei
<1> QED BY <1>4, <1>5, <1>8, <1>9

LEMMA CanonAhead ==
  ASSUME NEW path \in Seq(Word)
  PROVE  canonicalize_path(path) \in Seq(Ahead)
<1>1. PICK u : /\ u[0] = <<>> /\ u[Len(path)] = canonicalize_path(path)
               /\ \A k \in 1..Len(path) : u[k] = CanonTurn(u[k - 1], path[k])
  BY CanonRuns
<1>2. Len(path) \in Nat /\ \A k \in 1..Len(path) : path[k] \in Word
  OBVIOUS
<1>3. ASSUME NEW s \in Seq(Ahead), NEW name \in Word
      PROVE  CanonTurn(s, name) \in Seq(Ahead)
  <2>1. CASE name = "."
    BY <2>1 DEF CanonTurn
  <2>2. CASE name = ".." /\ s = <<>>
    BY <2>2 DEF CanonTurn
  <2>3. CASE name = ".." /\ s # <<>>
    <3>1. CanonTurn(s, name) = SubSeq(s, 1, Len(s) - 1)
      BY <2>3 DEF CanonTurn, Front
    <3>2. Len(s) - 1 \in 0..Len(s)
      BY <2>3, EmptySeq, LenProperties
    <3>3. \A i \in 1..(Len(s) - 1) : s[i] \in Ahead
      BY <3>2
    <3> QED BY <3>1, <3>2, <3>3
  <2>4. CASE name # "." /\ name # ".."
    <3>1. CanonTurn(s, name) = Append(s, name)
      BY <2>4 DEF CanonTurn
    <3> QED BY <2>4, <3>1 DEF Ahead
  <2> QED BY <2>1, <2>2, <2>3, <2>4
<1>4. PICK U : U = {k \in Nat : k <= Len(path) => u[k] \in Seq(Ahead)}
  OBVIOUS
<1>5. 0 \in U
  <2>1. <<>> \in Seq(Ahead)
    OBVIOUS
  <2> QED BY <1>1, <1>4, <2>1
<1>6. ASSUME NEW k \in Nat, k \in U PROVE k + 1 \in U
  <2> SUFFICES ASSUME k + 1 <= Len(path) PROVE u[k + 1] \in Seq(Ahead)
    BY <1>4
  <2>1. u[k] \in Seq(Ahead)
    BY <1>2, <1>4, <1>6
  <2>2. k + 1 \in 1..Len(path) /\ (k + 1) - 1 = k
    BY <1>2
  <2>3. u[k + 1] = CanonTurn(u[k], path[k + 1])
    BY <1>1, <2>2
  <2> QED BY <1>2, <1>3, <2>1, <2>2, <2>3
<1>7. Len(path) \in U
  BY <1>2, <1>5, <1>6, InductSet
<1> QED BY <1>1, <1>2, <1>4, <1>7

LEMMA NoClimbAhead ==
  ASSUME NEW path \in Seq(Word), ".." \notin ToSet(path)
  PROVE  path \in Seq(Ahead)
<1>1. \A i \in 1..Len(path) : path[i] \in Word /\ path[i] \in ToSet(path)
  BY DEF ToSet
<1>2. \A i \in 1..Len(path) : path[i] \in Ahead
  BY <1>1 DEF Ahead
<1> QED BY <1>2

\* On its way a lookup has one user more of the entry that it is at, and of no
\* other.  Only the mount tree is no concern.
Lent(t, s) ==
    s.n # None => /\ Passes(t, s.t) /\ s.n \in Nodes
                  /\ s.n \in InTree(t) \/ s.n \in TarNodes \/ s.n = Root0
                  /\ \A m \in Nodes \ InTree(t) :
                        s.t.ino[m] = IF m = s.n /\ m \in TarNodes THEN Up(m, t.ino[m])
                                     ELSE t.ino[m]

LEMMA GiveBack ==
  ASSUME NEW t \in FileSystem, Kept(t), Trees(t), \A n \in TarNodes : t.ino[n].users = 0,
         ~t.ino[Root0].live,
         NEW s, Lent(t, s), s.n # None, NEW u, u = vfs_free(s.t, s.n)
  PROVE  \A m \in Nodes \ InTree(t) : u.ino[m] = t.ino[m]
<1>1. PICK n, x : n = s.n /\ x = s.t
  OBVIOUS
<1>2. /\ n \in Nodes /\ Passes(t, x)
      /\ n \in InTree(t) \/ n \in TarNodes \/ n = Root0
      /\ \A m \in Nodes \ InTree(t) :
            x.ino[m] = IF m = n /\ m \in TarNodes THEN Up(m, t.ino[m]) ELSE t.ino[m]
  BY <1>1 DEF Lent
<1>3. x \in FileSystem /\ Kept(x) /\ InTree(x) = InTree(t)
  BY <1>2, PassesTrees DEF Passes
<1>4. /\ \A m \in Nodes \ {n} : u.ino[m] = x.ino[m]
      /\ u.ino[n] = IF x.ino[n].live /\ x.ino[n].parent = None /\ x.ino[n].users = 0
                    THEN Down(n, x.ino[n]) ELSE x.ino[n]
  BY <1>1, <1>2, <1>3, Free
<1>5. \A m \in Nodes \ InTree(t) : m # n => u.ino[m] = t.ino[m]
  BY <1>2, <1>4
<1>6. ASSUME n \notin InTree(t) PROVE u.ino[n] = t.ino[n]
  <2>1. CASE n = Root0
    <3>1. n \notin TarNodes
      BY <2>1, NodeNames
    <3> QED BY <1>2, <1>4, <1>6, <2>1, <3>1
  <2>2. CASE n \in TarNodes
    <3>1. PICK a : a = t.ino[n]
      OBVIOUS
    <3>2. a \in Record /\ Whole(n, a) /\ a.users = 0
      BY <1>2, <2>2, <3>1, Fields DEF Kept
    <3>3. x.ino[n] = Up(n, a)
      BY <1>2, <1>6, <2>2, <3>1
    <3>4. x.ino[n].live /\ x.ino[n].users = 0
      BY <2>2, <3>2, <3>3, UpIs
    <3>5. x.ino[n].parent = None
      BY <1>2, <1>3, <1>6 DEF InTree, in_vfs_tree
    <3>6. u.ino[n] = Down(n, Up(n, a))
      BY <1>4, <3>3, <3>4, <3>5
    <3> QED BY <2>2, <3>1, <3>2, <3>6, DownUp
  <2> QED BY <1>2, <1>6, <2>1, <2>2
<1> QED BY <1>5, <1>6

LEMMA WalkLent ==
  ASSUME NEW t \in FileSystem, Kept(t), Trees(t), \A n \in TarNodes : t.ino[n].users = 0,
         ~t.ino[Root0].live, t.ino[t.root].parent = Root0,
         NEW s, Lent(t, s), NEW name, NEW m, m = FALSE, NEW w, w = WalkTurn(m, s, name)
  PROVE  Lent(t, w)
<1>1. CASE s.n = None
  <2>1. w = s
    BY <1>1 DEF WalkTurn
  <2> QED BY <2>1
<1>2. CASE s.n # None
  <2>1. PICK n, x : n = s.n /\ x = s.t
    OBVIOUS
  <2>2. /\ n \in Nodes /\ Passes(t, x)
        /\ n \in InTree(t) \/ n \in TarNodes \/ n = Root0
        /\ \A k \in Nodes \ InTree(t) :
              x.ino[k] = IF k = n /\ k \in TarNodes THEN Up(k, t.ino[k]) ELSE t.ino[k]
    BY <1>2, <2>1 DEF Lent
  <2>3. x \in FileSystem /\ Kept(x) /\ Trees(x) /\ InTree(x) = InTree(t)
    BY <2>2, PassesTrees DEF Passes
  <2>4. PICK z : z = Read(x, n)
    OBVIOUS
  <2>5. /\ z \in FileSystem /\ z.ino = x.ino /\ z.root = x.root /\ z.image = x.image
        /\ Passes(x, z)
    BY <2>3, <2>4, ReadIs, ReadPasses
  <2>6. Kept(z) /\ Trees(z) /\ InTree(z) = InTree(t) /\ Passes(t, z)
    BY <2>2, <2>3, <2>5, PassesTrees, PassesTrans DEF Passes
  <2>7. PICK f : f = vfs_finddir(z, n, name)
    OBVIOUS
  <2>8. Finds(z, n, name, f)
    BY <2>2, <2>5, <2>6, <2>7, FindDir
  <2>9. PICK y : y = f.t
    OBVIOUS
  <2>10. PICK v : v = vfs_free(y, n)
    OBVIOUS
  <2>11. w = Result(v, f.n)
    BY <1>2, <2>1, <2>4, <2>7, <2>9, <2>10 DEF WalkTurn
  <2>12. PICK g : g = f.n
    OBVIOUS
  <2>13. w.t = v /\ w.n = g
    <3>1. w = [t |-> v, n |-> g]
      BY <2>11, <2>12 DEF Result
    <3> QED BY <3>1
  <2>14. SUFFICES ASSUME g # None PROVE Lent(t, w)
    BY <2>13 DEF Lent
  <2>15. /\ Passes(z, y) /\ g \in Nodes
         /\ g \in InTree(t) \/ g \in TarNodes \/ g = Root0
         /\ \A k \in Nodes \ InTree(t) :
               y.ino[k] = IF k = g /\ k \in TarNodes THEN Up(k, x.ino[k]) ELSE x.ino[k]
    <3>1. CASE y = z /\ g \in InTree(z)
      <4>1. Passes(z, y)
        BY <2>5, <2>6, <3>1, PassesSame
      <4>2. g \in Nodes /\ g \in InTree(t)
        BY <2>6, <3>1 DEF InTree
      <4> QED BY <2>5, <3>1, <4>1, <4>2
    <3>2. CASE y = z /\ g = z.ino[z.root].parent
      <4>1. z.ino[z.root].parent = Root0
        <5>1. t.root \in InTree(t) /\ z.root = t.root
          BY <2>6 DEF Trees, Passes
        <5>2. SameTree(t, z)
          BY <2>6, PassesTrees
        <5> QED BY <5>1, <5>2 DEF SameTree
      <4>2. g = Root0 /\ Root0 \in Nodes /\ Root0 \notin TarNodes
        BY <3>2, <4>1, NodeNames
      <4>3. Passes(z, y)
        BY <2>5, <2>6, <3>2, PassesSame
      <4> QED BY <2>5, <3>2, <4>2, <4>3
    <3>3. CASE g \in TarNodes /\ y = tar_get_inode(z, g)
      <4>1. /\ Passes(z, y) /\ y.ino[g] = Up(g, z.ino[g])
            /\ \A k \in Nodes \ {g} : y.ino[k] = z.ino[k]
        BY <2>5, <2>6, <3>3, GetInode
      <4>2. g \in Nodes
        BY <3>3, NodeNames
      <4> QED BY <2>5, <3>3, <4>1, <4>2
    <3> QED BY <2>8, <2>9, <2>12, <2>14, <3>1, <3>2, <3>3 DEF Finds
  <2>16. y \in FileSystem /\ Kept(y) /\ Passes(t, y)
    BY <2>6, <2>15, PassesTrans DEF Passes
  <2>17. /\ Passes(y, v)
         /\ \A k \in Nodes \ {n} : v.ino[k] = y.ino[k]
         /\ v.ino[n] = IF y.ino[n].live /\ y.ino[n].parent = None /\ y.ino[n].users = 0
                       THEN Down(n, y.ino[n]) ELSE y.ino[n]
    BY <2>2, <2>10, <2>16, Free
  <2>18. Passes(t, v) /\ InTree(y) = InTree(t)
    BY <2>16, <2>17, PassesTrans, PassesTrees
  <2>19. \A k \in Nodes \ InTree(t) :
            k # n => v.ino[k] = IF k = g /\ k \in TarNodes THEN Up(k, t.ino[k]) ELSE t.ino[k]
    BY <2>2, <2>15, <2>17
  <2>20. ASSUME n \notin InTree(t)
         PROVE  v.ino[n] = IF n = g /\ n \in TarNodes THEN Up(n, t.ino[n]) ELSE t.ino[n]
    <3>0. PICK a : a = t.ino[n]
      OBVIOUS
    <3>1. CASE n \in TarNodes
      <4>1. a \in Record /\ Whole(n, a) /\ a.users = 0
        BY <2>2, <3>0, <3>1, Fields DEF Kept
      <4>2. PICK b : b = Up(n, a)
        OBVIOUS
      <4>3. b \in Record /\ Whole(n, b) /\ b.live /\ b.users = 0
        BY <3>1, <4>1, <4>2, UpIs
      <4>4. x.ino[n] = b
        BY <2>2, <2>20, <3>0, <3>1, <4>2
      <4>5. y.ino[n].parent = None
        BY <2>2, <2>18, <2>20 DEF InTree, in_vfs_tree
      <4>6. CASE n = g
        <5>1. y.ino[n] = Up(n, b)
          BY <2>2, <2>15, <2>20, <3>1, <4>4, <4>6
        <5>2. y.ino[n].live /\ y.ino[n].users = 0
          BY <3>1, <4>3, <5>1, UpIs
        <5>3. v.ino[n] = Down(n, Up(n, b))
          BY <2>17, <4>5, <5>1, <5>2
        <5>4. v.ino[n] = b
          BY <3>1, <4>3, <5>3, DownUp
        <5> QED BY <3>0, <3>1, <4>2, <4>6, <5>4
      <4>7. CASE n # g
        <5>1. y.ino[n] = Up(n, a) /\ y.ino[n].live /\ y.ino[n].users = 0
          BY <2>2, <2>15, <2>20, <4>2, <4>3, <4>4, <4>7
        <5>2. v.ino[n] = Down(n, Up(n, a))
          BY <2>17, <4>5, <5>1
        <5>3. v.ino[n] = a
          BY <3>1, <4>1, <5>2, DownUp
        <5> QED BY <3>0, <4>7, <5>3
      <4> QED BY <4>6, <4>7
    <3>2. CASE n \notin TarNodes
      <4>1. y.ino[n] = t.ino[n]
        BY <2>2, <2>15, <2>20, <3>2
      <4>2. ~t.ino[n].live
        BY <2>2, <2>20, <3>2
      <4> QED BY <2>17, <3>2, <4>1, <4>2
    <3> QED BY <3>1, <3>2
  <2>21. \A k \in Nodes \ InTree(t) :
            v.ino[k] = IF k = g /\ k \in TarNodes THEN Up(k, t.ino[k]) ELSE t.ino[k]
    BY <2>19, <2>20
  <2> QED BY <2>13, <2>15, <2>18, <2>21 DEF Lent
<1> QED BY <1>1, <1>2

\* A lookup whose result is given back leaves no inode behind and takes none away.
LEMMA NameiNeutral ==
  ASSUME NEW t \in FileSystem, Kept(t), Trees(t), \A n \in TarNodes : t.ino[n].users = 0,
         ~t.ino[Root0].live, t.ino[t.root].parent = Root0,
         NEW path \in Seq(Word), NEW r, r = vfs_namei(t, path), r.n # None,
         NEW n \in Nodes, ~in_vfs_tree(t, n)
  PROVE  vfs_free(r.t, r.n).ino[n] = t.ino[n]
<1>1. PICK q : q = vfs_find_root(t, path)
  OBVIOUS
<1>2. q.n \in InTree(t) /\ q.rest \in Seq(Word)
  BY <1>1, RootFound
<1>0. PICK m : m = FALSE
  OBVIOUS
<1>a. Walked(t, path, m, q)
  BY <1>1, <1>2, WalkRuns
<1>3. PICK u : /\ u[0] = Result(t, q.n) /\ u[Len(q.rest)] = Walk(t, path, m)
               /\ \A k \in 1..Len(q.rest) : u[k] = WalkTurn(m, u[k - 1], q.rest[k])
  BY <1>a DEF Walked
<1>4. Len(q.rest) \in Nat
  BY <1>2
<1>5. PICK U : U = {k \in Nat : k <= Len(q.rest) => Lent(t, u[k])}
  OBVIOUS
<1>6. 0 \in U
  <2>1. Passes(t, t)
    BY PassesSame
  <2>2. q.n \in Nodes
    BY <1>2 DEF InTree
  <2>3. u[0].t = t /\ u[0].n = q.n
    BY <1>3 DEF Result
  <2>4. Lent(t, u[0])
    BY <1>2, <2>1, <2>2, <2>3 DEF Lent
  <2> QED BY <1>5, <2>4
<1>7. ASSUME NEW k \in Nat, k \in U PROVE k + 1 \in U
  <2> SUFFICES ASSUME k + 1 <= Len(q.rest) PROVE Lent(t, u[k + 1])
    BY <1>5
  <2>1. Lent(t, u[k])
    BY <1>4, <1>5, <1>7
  <2>2. k + 1 \in 1..Len(q.rest) /\ (k + 1) - 1 = k
    BY <1>4
  <2>3. u[k + 1] = WalkTurn(m, u[k], q.rest[k + 1])
    BY <1>3, <2>2
  <2> QED BY <1>0, <2>1, <2>3, WalkLent
<1>8. Len(q.rest) \in U
  BY <1>4, <1>6, <1>7, InductSet
<1>9. r = u[Len(q.rest)]
  BY <1>0, <1>3 DEF vfs_namei
<1>10. Lent(t, r)
  BY <1>4, <1>5, <1>8, <1>9
<1>11. n \in Nodes \ InTree(t)
  BY DEF InTree
<1> QED BY <1>10, <1>11, GiveBack

\* What a call was given is given back.
LEMMA FreeResult ==
  ASSUME NEW t, NEW r, Passes(t, r.t), r.t.stale = t.stale,
         r.n # None => r.n \in Nodes /\ r.t.ino[r.n].live,
         NEW u, u = IF r.n = None THEN r.t ELSE vfs_free(r.t, r.n)
  PROVE  Passes(t, u) /\ u.stale = t.stale
<1>1. CASE r.n = None
  BY <1>1
<1>2. CASE r.n # None
  <2>1. PICK x, n : x = r.t /\ n = r.n
    OBVIOUS
  <2>2. x \in FileSystem /\ Kept(x) /\ n \in Nodes /\ x.ino[n].live
    BY <1>2, <2>1 DEF Passes
  <2>3. u = vfs_free(x, n)
    BY <1>2, <2>1
  <2>4. Passes(x, u) /\ u.stale = x.stale
    BY <2>2, <2>3, Free
  <2> QED BY <2>1, <2>4, PassesTrans
<1> QED BY <1>1, <1>2

LEMMA InTreeLive ==
  ASSUME NEW t, Kept(t), Trees(t), NEW n \in InTree(t)
  PROVE  n \in Nodes \ Keys /\ t.ino[n].live
<1>1. n \in Nodes /\ t.ino[n].parent # None
  BY DEF InTree, in_vfs_tree
<1>2. n \notin Keys
  BY DEF Trees
<1> QED BY <1>1, <1>2 DEF Kept, Whole

LEMMA ChildrenOf ==
  ASSUME NEW t \in FileSystem, NEW path, NEW cs, cs = Children(t, path)
  PROVE  \A i \in DOMAIN cs : i \in Nat \ {0} /\ cs[i] \in Dirs \cup Plain
<1>1. PICK S : S = {c \in Dirs \cup t.image : c # <<>> /\ Front(c) = path}
  OBVIOUS
<1>2. S \subseteq Dirs \cup Plain
  BY <1>1, ImagePaths
<1>3. IsFiniteSet(S)
  <2>1. IsFiniteSet(Dirs \cup Plain)
    BY ImageAssumption
  <2> QED BY <1>2, <2>1, FS_Subset
<1>4. PICK N \in Nat : ExistsBijection(1..N, S)
  BY <1>3, FS_NatBijection
<1>5. Cardinality(S) = N
  BY <1>3, <1>4, FS_CountingElements
<1>6. PICK f \in Bijection(1..N, S) : TRUE
  BY <1>4 DEF ExistsBijection
<1>7. f \in [1..N -> S] /\ IsInjective(f)
  BY <1>6 DEF Bijection, Injection
<1>8. SetToSeq(S) \in [1..N -> S]
  BY <1>5, <1>7 DEF SetToSeq
<1>9. cs = SetToSeq(S)
  BY <1>1 DEF Children
<1>10. \A i \in DOMAIN cs : i \in Nat \ {0} /\ cs[i] \in S
  BY <1>8, <1>9
<1> QED BY <1>2, <1>10

LEMMA TarReaddir ==
  ASSUME NEW t \in FileSystem, Kept(t), NEW n \in TarNodes, n[3] \in Dirs, NEW num \in Nat,
         NEW r, r = tar_readdir(t, n, num)
  PROVE  /\ Passes(t, r.t) /\ r.t.stale = t.stale
         /\ r.n # None => r.n \in Nodes /\ r.t.ino[r.n].live
<1>1. PICK k, path, cs : k = n[2] /\ path = n[3] /\ cs = Children(t, path)
  OBVIOUS
<1>2. k \in {1, 2} /\ path \in Dirs
  BY <1>1, NodeNames
<1>3. ASSUME NEW p \in Dirs \cup Plain, NEW name,
             r = Dirent(tar_get_inode(t, Tar(k, p)), Tar(k, p), name)
      PROVE  /\ Passes(t, r.t) /\ r.t.stale = t.stale
             /\ r.n # None => r.n \in Nodes /\ r.t.ino[r.n].live
  <2>1. PICK m, u : m = Tar(k, p) /\ u = tar_get_inode(t, m)
    OBVIOUS
  <2>2. m \in TarNodes /\ m \in Nodes
    BY <1>2, <2>1, NodeNames
  <2>3. Passes(t, u) /\ u.stale = t.stale /\ u.ino[m].live
    BY <2>1, <2>2, GetInode
  <2>4. r.t = u /\ r.n = m
    BY <1>3, <2>1 DEF Dirent
  <2> QED BY <2>2, <2>3, <2>4
<1>4. CASE num = 0
  <2>1. r = Dirent(tar_get_inode(t, Tar(k, path)), Tar(k, path), ".")
    <3>1. num # 1 /\ num - 1 \notin DOMAIN cs
      BY <1>1, <1>4, ChildrenOf
    <3> QED BY <1>1, <1>4, <3>1 DEF tar_readdir
  <2> QED BY <1>2, <1>3, <2>1
<1>5. CASE num = 1
  <2>1. r = Dirent(tar_get_inode(t, Tar(k, Front(path))), Tar(k, Front(path)), "..")
    <3>1. num # 0 /\ num - 1 = 0
      BY <1>5
    <3>2. 0 \notin DOMAIN cs
      BY <1>1, ChildrenOf
    <3> QED BY <1>1, <1>5, <3>1, <3>2 DEF tar_readdir
  <2>2. Front(path) \in Dirs
    <3>1. CASE path = <<>>
      <4>1. Front(path) = <<>>
        BY <3>1, EmptySeq DEF Front
      <4> QED BY <4>1, ImageAssumption
    <3>2. CASE path # <<>>
      BY <1>2, <3>2, ImageAssumption
    <3> QED BY <3>1, <3>2
  <2> QED BY <1>3, <2>1, <2>2
<1>6. CASE num \notin {0, 1} /\ num - 1 \in DOMAIN cs
  <2>1. r = Dirent(tar_get_inode(t, Tar(k, cs[num - 1])), Tar(k, cs[num - 1]), Last(cs[num - 1]))
    BY <1>1, <1>6 DEF tar_readdir
  <2>2. cs[num - 1] \in Dirs \cup Plain
    BY <1>1, <1>6, ChildrenOf
  <2> QED BY <1>3, <2>1, <2>2
<1>7. CASE num \notin {0, 1} /\ num - 1 \notin DOMAIN cs
  <2>1. r = Dirent(t, None, NoName)
    BY <1>1, <1>7 DEF tar_readdir
  <2>2. r.t = t /\ r.n = None
    BY <2>1 DEF Dirent
  <2> QED BY <2>2, PassesSame
<1> QED BY <1>4, <1>5, <1>6, <1>7

LEMMA ReaddirPasses ==
  ASSUME NEW t \in FileSystem, Kept(t), Trees(t), NEW n \in Nodes, t.ino[n].live,
         NEW num \in Nat, n # t.root \/ num # 1, NEW r, r = vfs_readdir(t, n, num)
  PROVE  /\ Passes(t, r.t) /\ r.t.stale = t.stale
         /\ r.n # None => r.n \in Nodes /\ r.t.ino[r.n].live
<1>0. PICK de : de = tar_readdir(t, n, num)
  OBVIOUS
<1>1. PICK over : over = Sibling(t, t.ino[n].child, de.name)
  OBVIOUS
<1>2. CASE ~IsDir(n)
  <2>1. r = Dirent(t, None, NoName)
    BY <1>2 DEF vfs_readdir
  <2>2. r.t = t /\ r.n = None
    BY <2>1 DEF Dirent
  <2> QED BY <2>2, PassesSame
<1>3. ASSUME IsDir(n)
      PROVE  /\ Passes(t, de.t) /\ de.t.stale = t.stale
             /\ de.n # None => de.n \in Nodes /\ de.t.ino[de.n].live
  <2>1. n \in TarNodes /\ n[3] \in Dirs
    BY <1>3, NodeNames DEF IsDir
  <2> QED BY <1>0, <2>1, TarReaddir
<1>4. CASE IsDir(n) /\ in_vfs_tree(t, n) /\ num = 0
  <2>1. r = Dirent(t, n, ".")
    BY <1>4 DEF vfs_readdir
  <2>2. r.t = t /\ r.n = n
    BY <2>1 DEF Dirent
  <2> QED BY <2>2, PassesSame
<1>5. CASE IsDir(n) /\ in_vfs_tree(t, n) /\ num = 1
  <2>1. r = Dirent(t, t.ino[n].parent, "..")
    BY <1>5 DEF vfs_readdir
  <2>2. r.t = t /\ r.n = t.ino[n].parent
    BY <2>1 DEF Dirent
  <2>3. t.ino[n].parent \in InTree(t)
    BY <1>5 DEF Trees, InTree
  <2> QED BY <2>2, <2>3, PassesSame, InTreeLive
<1>6. CASE IsDir(n) /\ in_vfs_tree(t, n) /\ num > 1 /\ de.n # None /\ over # None
  <2>1. PICK x, m, u : x = de.t /\ m = de.n /\ u = vfs_free(x, m)
    OBVIOUS
  <2>2. r.t = u /\ r.n = over
    <3>1. r = Dirent(u, over, de.name)
      BY <1>0, <1>1, <1>6, <2>1 DEF vfs_readdir
    <3> QED BY <3>1 DEF Dirent
  <2>3. Passes(t, x) /\ x.stale = t.stale /\ m \in Nodes /\ x.ino[m].live
    BY <1>3, <1>6, <2>1
  <2>4. x \in FileSystem /\ Kept(x)
    BY <2>3 DEF Passes
  <2>5. Passes(x, u) /\ u.stale = x.stale
    BY <2>1, <2>3, <2>4, Free
  <2>6. Passes(t, u) /\ Kept(u) /\ InTree(u) = InTree(t) /\ Trees(u)
    BY <2>3, <2>5, PassesTrans, PassesTrees DEF Passes
  <2>7. over \in InTree(t)
    <3>1. t.ino[n].child \in InTree(t) \cup {None}
      BY <1>6 DEF Trees, InTree
    <3> QED BY <1>1, <1>6, <3>1, SiblingIn
  <2> QED BY <2>2, <2>3, <2>5, <2>6, <2>7, InTreeLive
<1>7. CASE IsDir(n) /\ ~in_vfs_tree(t, n)
  <2>1. r = de
    BY <1>0, <1>7 DEF vfs_readdir
  <2> QED BY <1>3, <1>7, <2>1
<1>8. CASE IsDir(n) /\ in_vfs_tree(t, n) /\ num > 1 /\ ~(de.n # None /\ over # None)
  <2>1. r = de
    BY <1>0, <1>1, <1>8 DEF vfs_readdir
  <2> QED BY <1>3, <1>8, <2>1
<1>9. num = 0 \/ num = 1 \/ num > 1
  OBVIOUS
<1> QED BY <1>2, <1>4, <1>5, <1>6, <1>7, <1>8, <1>9

-----------------------------------------------------------------------------
(* Descriptors and the slots that share them *)

Slots == Pid \X Slot
At(s, h) == s.fd[h[1]][h[2]]
SlotsOf(s, d) == {h \in Slots : At(s, h) = d}

States == [fs : FileSystem, fd : [Pid -> [Slot -> Desc \cup {NoDesc}]],
           desc : [Desc -> [ino : Nodes \cup {None}, users : Nat]], duped : SUBSET (Nodes \ Keys)]

\* A descriptor counts the slots that share it.
Shared(s) == \A d \in Desc : s.desc[d].users = Cardinality(SlotsOf(s, d))

\* No slot leads to the ends that the keyboard driver keeps.
Leading(s) == \A h \in Slots : At(s, h) # NoDesc => s.desc[At(s, h)].ino \in Nodes \ Keys

LEMMA SlotFacts ==
  /\ IsFiniteSet(Slots) /\ Desc = Slots /\ NoDesc \notin Slots
  /\ \A p \in Pid, i \in Slot : <<p, i>> \in Slots /\ <<p, i>>[1] = p /\ <<p, i>>[2] = i
  /\ \A h \in Slots : h[1] \in Pid /\ h[2] \in Slot /\ h = <<h[1], h[2]>>
  /\ \A s, n : HoldersIn(s, n) = {h \in Slots : At(s, h) # NoDesc /\ s.desc[At(s, h)].ino = n}
<1>1. IsFiniteSet(Slot)
  BY FilesAssumption, FS_Interval DEF Slot
<1>2. IsFiniteSet(Slots)
  BY <1>1, FilesAssumption, FS_Product DEF Slots
<1>3. Desc = Slots
  BY DEF Desc, Slots
<1>4. \A h \in Slots : h[1] \in Pid /\ h[2] \in Slot /\ h = <<h[1], h[2]>>
  BY DEF Slots
<1>5. NoDesc \notin Slots
  <2>1. \A a, b : <<>> # <<a, b>>
    OBVIOUS
  <2> QED BY <1>4, <2>1 DEF NoDesc
<1>6. \A p \in Pid, i \in Slot : <<p, i>> \in Slots /\ <<p, i>>[1] = p /\ <<p, i>>[2] = i
  BY DEF Slots
<1>7. \A s, n : HoldersIn(s, n) = {h \in Slots : At(s, h) # NoDesc /\ s.desc[At(s, h)].ino = n}
  BY DEF HoldersIn, InUse, InoOf, At, Slots
<1> QED BY <1>2, <1>3, <1>4, <1>5, <1>6, <1>7

LEMMA StateFields ==
  ASSUME NEW s \in States
  PROVE  /\ s.fs \in FileSystem /\ s.fd \in [Pid -> [Slot -> Desc \cup {NoDesc}]]
         /\ s.desc \in [Desc -> [ino : Nodes \cup {None}, users : Nat]]
         /\ s.duped \subseteq Nodes \ Keys
         /\ s = [fs |-> s.fs, fd |-> s.fd, desc |-> s.desc, duped |-> s.duped]
         /\ \A h \in Slots : At(s, h) \in Desc \cup {NoDesc}
         /\ \A d \in Desc : s.desc[d].users \in Nat /\ s.desc[d].ino \in Nodes \cup {None}
<1>1. /\ s.fs \in FileSystem /\ s.fd \in [Pid -> [Slot -> Desc \cup {NoDesc}]]
      /\ s.desc \in [Desc -> [ino : Nodes \cup {None}, users : Nat]]
      /\ s.duped \subseteq Nodes \ Keys
      /\ s = [fs |-> s.fs, fd |-> s.fd, desc |-> s.desc, duped |-> s.duped]
  BY DEF States
<1>2. \A h \in Slots : At(s, h) \in Desc \cup {NoDesc}
  BY <1>1, SlotFacts DEF At
<1>3. \A d \in Desc : s.desc[d].users \in Nat /\ s.desc[d].ino \in Nodes \cup {None}
  BY <1>1
<1> QED BY <1>1, <1>2, <1>3

LEMMA UsersZero ==
  ASSUME NEW s, Shared(s), NEW d \in Desc
  PROVE  /\ IsFiniteSet(SlotsOf(s, d)) /\ Cardinality(SlotsOf(s, d)) \in Nat
         /\ s.desc[d].users = 0 <=> \A h \in Slots : At(s, h) # d
         /\ s.desc[d].users = 1 => \A g, h \in Slots : At(s, g) = d /\ At(s, h) = d => g = h
<1>1. SlotsOf(s, d) \in SUBSET Slots
  BY DEF SlotsOf
<1>2. IsFiniteSet(SlotsOf(s, d))
  BY <1>1, SlotFacts, FS_Subset
<1>3. Cardinality(SlotsOf(s, d)) \in Nat
  BY <1>2, FS_CardinalityType
<1>4. s.desc[d].users = Cardinality(SlotsOf(s, d))
  BY DEF Shared
<1>5. s.desc[d].users = 0 <=> SlotsOf(s, d) = {}
  BY <1>2, <1>4, FS_EmptySet
<1>6. SlotsOf(s, d) = {} <=> \A h \in Slots : At(s, h) # d
  BY DEF SlotsOf
<1>7. ASSUME s.desc[d].users = 1, NEW g \in Slots, NEW h \in Slots, At(s, g) = d, At(s, h) = d
      PROVE  g = h
  <2>1. PICK x : SlotsOf(s, d) = {x}
    BY <1>2, <1>4, <1>7, FS_Singleton
  <2>2. g \in SlotsOf(s, d) /\ h \in SlotsOf(s, d)
    BY <1>7 DEF SlotsOf
  <2> QED BY <2>1, <2>2
<1> QED BY <1>2, <1>3, <1>5, <1>6, <1>7

\* While a slot is free, so is a descriptor.
LEMMA SomeUnused ==
  ASSUME NEW s \in States, Shared(s), NEW h \in Slots, At(s, h) = NoDesc
  PROVE  \E d \in Desc : s.desc[d].users = 0
<1> SUFFICES ASSUME \A d \in Desc : s.desc[d].users # 0 PROVE FALSE
  OBVIOUS
<1>1. \A d \in Slots : \E g \in Slots : At(s, g) = d
  BY UsersZero, SlotFacts
<1>2. PICK W : W = [d \in Slots |-> CHOOSE g \in Slots : At(s, g) = d]
  OBVIOUS
<1>3. \A d \in Slots : W[d] \in Slots /\ At(s, W[d]) = d
  BY <1>1, <1>2
<1>4. W \in [Slots -> Slots \ {h}]
  <2>1. \A d \in Slots : W[d] # h
    BY <1>3, SlotFacts
  <2> QED BY <1>2, <1>3, <2>1
<1>5. /\ IsFiniteSet(Slots) /\ IsFiniteSet(Slots \ {h})
      /\ Cardinality(Slots \ {h}) < Cardinality(Slots)
  <2>1. IsFiniteSet(Slots \ {h}) /\ Cardinality(Slots \ {h}) = Cardinality(Slots) - 1
    BY SlotFacts, FS_RemoveElement
  <2>2. Cardinality(Slots) \in Nat
    BY SlotFacts, FS_CardinalityType
  <2> QED BY <2>1, <2>2, SlotFacts
<1>6. PICK x, y \in Slots : x # y /\ W[x] = W[y]
  BY <1>4, <1>5, FS_PigeonHole
<1> QED BY <1>3, <1>6

\* Slot h of s gets descriptor d, which leads to n.
Attached(s, u, h, d, n) ==
    /\ \A g \in Slots : At(u, g) = IF g = h THEN d ELSE At(s, g)
    /\ \A e \in Desc : u.desc[e] = IF e = d THEN [ino |-> n, users |-> s.desc[d].users + 1]
                                   ELSE s.desc[e]

LEMMA AttachShared ==
  ASSUME NEW s \in States, Shared(s), NEW h \in Slots, At(s, h) = NoDesc, NEW d \in Desc,
         NEW n, NEW u, Attached(s, u, h, d, n)
  PROVE  Shared(u)
<1>1. \A e \in Desc : SlotsOf(u, e) = IF e = d THEN SlotsOf(s, d) \cup {h} ELSE SlotsOf(s, e)
  <2>1. ASSUME NEW e \in Desc, e # d PROVE SlotsOf(u, e) = SlotsOf(s, e)
    <3>1. At(s, h) # e
      BY SlotFacts
    <3> QED BY <2>1, <3>1 DEF Attached, SlotsOf
  <2>2. SlotsOf(u, d) = SlotsOf(s, d) \cup {h}
    BY DEF Attached, SlotsOf
  <2> QED BY <2>1, <2>2
<1>2. h \notin SlotsOf(s, d)
  BY SlotFacts DEF SlotsOf
<1>3. Cardinality(SlotsOf(s, d) \cup {h}) = Cardinality(SlotsOf(s, d)) + 1
  BY <1>2, UsersZero, FS_AddElement
<1>4. u.desc[d].users = s.desc[d].users + 1 /\ \A e \in Desc \ {d} : u.desc[e] = s.desc[e]
  BY DEF Attached
<1>5. s.desc[d].users = Cardinality(SlotsOf(s, d))
  BY DEF Shared
<1> QED BY <1>1, <1>3, <1>4, <1>5 DEF Shared

LEMMA AttachHolders ==
  ASSUME NEW s \in States, Shared(s), Leading(s), NEW h \in Slots, At(s, h) = NoDesc,
         NEW d \in Desc, NEW n \in Nodes \ Keys, s.desc[d].users = 0 \/ s.desc[d].ino = n,
         NEW u, Attached(s, u, h, d, n)
  PROVE  /\ Leading(u)
         /\ \A m : HoldersIn(u, m) = IF m = n THEN HoldersIn(s, n) \cup {h} ELSE HoldersIn(s, m)
         /\ \A m : h \notin HoldersIn(s, m)
<1>1. \A g \in Slots \ {h} : /\ At(u, g) = At(s, g)
                             /\ At(s, g) # NoDesc => u.desc[At(s, g)].ino = s.desc[At(s, g)].ino
  <2> SUFFICES ASSUME NEW g \in Slots \ {h}
               PROVE  /\ At(u, g) = At(s, g)
                      /\ At(s, g) # NoDesc => u.desc[At(s, g)].ino = s.desc[At(s, g)].ino
    OBVIOUS
  <2>1. At(u, g) = At(s, g)
    BY DEF Attached
  <2>2. CASE At(s, g) = d
    <3>1. s.desc[d].users # 0
      BY <2>2, UsersZero
    <3>2. u.desc[d].ino = n
      BY DEF Attached
    <3> QED BY <2>1, <2>2, <3>1, <3>2
  <2>3. CASE At(s, g) \in Desc \ {d}
    BY <2>1, <2>3 DEF Attached
  <2>4. At(s, g) \in Desc \cup {NoDesc}
    BY StateFields
  <2> QED BY <2>1, <2>2, <2>3, <2>4
<1>2. At(u, h) = d /\ d # NoDesc /\ u.desc[d].ino = n
  BY SlotFacts DEF Attached
<1>3. Leading(u)
  BY <1>1, <1>2 DEF Leading
<1>4. ASSUME NEW m
      PROVE  /\ HoldersIn(u, m) = IF m = n THEN HoldersIn(s, n) \cup {h} ELSE HoldersIn(s, m)
             /\ h \notin HoldersIn(s, m)
  <2>1. /\ HoldersIn(u, m) = {g \in Slots : At(u, g) # NoDesc /\ u.desc[At(u, g)].ino = m}
        /\ HoldersIn(s, m) = {g \in Slots : At(s, g) # NoDesc /\ s.desc[At(s, g)].ino = m}
    BY SlotFacts
  <2>2. \A g \in Slots : g \in HoldersIn(u, m) <=> (g \in HoldersIn(s, m) \/ (m = n /\ g = h))
    BY <1>1, <1>2, <2>1
  <2>3. HoldersIn(u, m) \subseteq Slots /\ HoldersIn(s, m) \subseteq Slots /\ h \notin HoldersIn(s, m)
    BY <2>1
  <2> QED BY <2>2, <2>3
<1> QED BY <1>3, <1>4

\* Slot h of s gives up descriptor d.
Detached(s, u, h, d) ==
    /\ \A g \in Slots : At(u, g) = IF g = h THEN NoDesc ELSE At(s, g)
    /\ \A e \in Desc : u.desc[e] =
          IF e # d THEN s.desc[e]
          ELSE IF s.desc[d].users = 1 THEN Unused
          ELSE [ino |-> s.desc[d].ino, users |-> s.desc[d].users - 1]

LEMMA DetachShared ==
  ASSUME NEW s \in States, Shared(s), NEW h \in Slots, NEW d \in Desc, At(s, h) = d,
         NEW u, Detached(s, u, h, d)
  PROVE  Shared(u)
<1>1. \A e \in Desc : SlotsOf(u, e) = IF e = d THEN SlotsOf(s, d) \ {h} ELSE SlotsOf(s, e)
  <2>0. \A e \in Desc : e # NoDesc
    BY SlotFacts
  <2>1. ASSUME NEW e \in Desc, e # d PROVE SlotsOf(u, e) = SlotsOf(s, e)
    BY <2>0, <2>1 DEF Detached, SlotsOf
  <2>2. SlotsOf(u, d) = SlotsOf(s, d) \ {h}
    BY <2>0 DEF Detached, SlotsOf
  <2> QED BY <2>1, <2>2
<1>2. h \in SlotsOf(s, d)
  BY DEF SlotsOf
<1>3. Cardinality(SlotsOf(s, d) \ {h}) = Cardinality(SlotsOf(s, d)) - 1
  BY <1>2, UsersZero, FS_RemoveElement
<1>4. u.desc[d].users = s.desc[d].users - 1 /\ \A e \in Desc \ {d} : u.desc[e] = s.desc[e]
  <2>1. CASE s.desc[d].users = 1
    BY <2>1 DEF Detached, Unused
  <2>2. CASE s.desc[d].users # 1
    BY <2>2 DEF Detached
  <2> QED BY <2>1, <2>2
<1>5. s.desc[d].users = Cardinality(SlotsOf(s, d))
  BY DEF Shared
<1> QED BY <1>1, <1>3, <1>4, <1>5 DEF Shared

LEMMA DetachHolders ==
  ASSUME NEW s \in States, Shared(s), Leading(s), NEW h \in Slots,
         NEW d \in Desc, At(s, h) = d, NEW n, n = s.desc[d].ino,
         NEW u, Detached(s, u, h, d)
  PROVE  /\ Leading(u)
         /\ \A m : HoldersIn(u, m) = IF m = n THEN HoldersIn(s, n) \ {h} ELSE HoldersIn(s, m)
         /\ h \in HoldersIn(s, n)
<1>1. \A g \in Slots \ {h} : /\ At(u, g) = At(s, g)
                             /\ At(s, g) # NoDesc => u.desc[At(s, g)].ino = s.desc[At(s, g)].ino
  <2> SUFFICES ASSUME NEW g \in Slots \ {h}
               PROVE  /\ At(u, g) = At(s, g)
                      /\ At(s, g) # NoDesc => u.desc[At(s, g)].ino = s.desc[At(s, g)].ino
    OBVIOUS
  <2>1. At(u, g) = At(s, g)
    BY DEF Detached
  <2>2. CASE At(s, g) = d
    <3>1. s.desc[d].users # 1
      BY <2>2, UsersZero
    <3>2. u.desc[d].ino = s.desc[d].ino
      BY <3>1 DEF Detached
    <3> QED BY <2>1, <2>2, <3>2
  <2>3. CASE At(s, g) \in Desc \ {d}
    BY <2>1, <2>3 DEF Detached
  <2>4. At(s, g) \in Desc \cup {NoDesc}
    BY StateFields
  <2> QED BY <2>1, <2>2, <2>3, <2>4
<1>2. At(u, h) = NoDesc /\ d # NoDesc
  BY SlotFacts DEF Detached
<1>3. Leading(u)
  BY <1>1, <1>2 DEF Leading
<1>4. ASSUME NEW m
      PROVE  HoldersIn(u, m) = IF m = n THEN HoldersIn(s, n) \ {h} ELSE HoldersIn(s, m)
  <2>1. /\ HoldersIn(u, m) = {g \in Slots : At(u, g) # NoDesc /\ u.desc[At(u, g)].ino = m}
        /\ HoldersIn(s, m) = {g \in Slots : At(s, g) # NoDesc /\ s.desc[At(s, g)].ino = m}
    BY SlotFacts
  <2>2. \A g \in Slots : g \in HoldersIn(u, m) <=> g \in HoldersIn(s, m) /\ g # h
    BY <1>1, <1>2, <2>1
  <2>3. HoldersIn(u, m) \subseteq Slots /\ HoldersIn(s, m) \subseteq Slots
    BY <2>1
  <2>4. m # n => h \notin HoldersIn(s, m)
    BY <2>1
  <2> QED BY <2>2, <2>3, <2>4
<1>5. h \in HoldersIn(s, n)
  BY <1>2, SlotFacts
<1> QED BY <1>3, <1>4, <1>5

LEMMA HoldersFinite ==
  ASSUME NEW s, NEW n
  PROVE  /\ IsFiniteSet(HoldersIn(s, n)) /\ Cardinality(HoldersIn(s, n)) \in Nat
         /\ \A h \in HoldersIn(s, n) : Cardinality(HoldersIn(s, n)) >= 1
<1>1. HoldersIn(s, n) \in SUBSET Slots
  BY SlotFacts
<1>2. IsFiniteSet(HoldersIn(s, n))
  BY <1>1, SlotFacts, FS_Subset
<1>3. Cardinality(HoldersIn(s, n)) \in Nat
  BY <1>2, FS_CardinalityType
<1>4. ASSUME NEW h \in HoldersIn(s, n) PROVE Cardinality(HoldersIn(s, n)) >= 1
  <2>1. Cardinality(HoldersIn(s, n)) # 0
    BY <1>2, <1>4, FS_EmptySet
  <2> QED BY <1>3, <2>1
<1> QED BY <1>2, <1>3, <1>4

\* What the keyboard driver has opened, after k - 1 steps of kinit
DriverAt(k, n) == IF k > 4 /\ n \in Keys THEN 1 ELSE 0

\* An inode counts the slots that lead to it and the driver, unless one of its
\* descriptors was duplicated.
Counted(s, k) ==
    \A n \in Nodes \ s.duped : Counts(s.fs.ino[n], Cardinality(HoldersIn(s, n)) + DriverAt(k, n))

\* A freed inode is used only by a close that came too late.
Late(s) == s.fs.stale => \E n \in s.duped : ~s.fs.ino[n].live /\ s.fs.ino[n].users < 0

\* The inode that the root was mounted on is gone.
Rooted(t) == ~t.ino[Root0].live /\ t.ino[t.root].parent = Root0

SInv(s, k) ==
    /\ s \in States /\ Kept(s.fs) /\ Trees(s.fs) /\ (k > 1 => Rooted(s.fs))
    /\ Shared(s) /\ Leading(s) /\ Counted(s, k) /\ Late(s)

LEMMA StaysRooted ==
  ASSUME NEW t, Trees(t), Rooted(t), NEW u,
         Passes(t, u) \/ (SameTree(t, u) /\ \A m \in Nodes : u.ino[m].live = t.ino[m].live)
  PROVE  Rooted(u)
<1>1. SameTree(t, u) /\ (u.ino[Root0].live => t.ino[Root0].live)
  <2>1. Root0 \in Nodes
    BY NodeNames
  <2> QED BY <2>1, PassesTrees DEF Passes
<1>2. t.root \in InTree(t) /\ u.root = t.root
  BY <1>1 DEF Trees, SameTree
<1>3. u.ino[u.root].parent = t.ino[t.root].parent
  BY <1>1, <1>2 DEF SameTree
<1> QED BY <1>1, <1>3 DEF Rooted

\* A slot is given an inode that has been opened for it.
LEMMA OpenSlot ==
  ASSUME NEW k, NEW s, SInv(s, k), NEW h \in Slots, At(s, h) = NoDesc,
         NEW d \in Desc, NEW n \in Nodes \ Keys, s.desc[d].users = 0 \/ s.desc[d].ino = n,
         s.fs.ino[n].live,
         NEW u \in States, Attached(s, u, h, d, n), u.fs = vfs_open(s.fs, n), u.duped = s.duped
  PROVE  SInv(u, k)
<1>1. s \in States /\ Kept(s.fs) /\ Trees(s.fs) /\ Shared(s) /\ Leading(s) /\ s.fs \in FileSystem
  BY StateFields DEF SInv
<1>2. PICK x, y : x = s.fs /\ y = u.fs
  OBVIOUS
<1>3. /\ y \in FileSystem /\ Kept(y) /\ SameTree(x, y) /\ y.stale = x.stale
      /\ (\A m \in Nodes : y.ino[m].live = x.ino[m].live)
      /\ (\A m \in Nodes \ {n} : y.ino[m] = x.ino[m])
      /\ y.ino[n].users = x.ino[n].users + 1
  BY <1>1, <1>2, OpenIs
<1>4. Trees(y)
  BY <1>1, <1>2, <1>3, SameTreeTrees
<1>5. Shared(u)
  BY <1>1, AttachShared
<1>6. /\ Leading(u)
      /\ \A m : HoldersIn(u, m) = IF m = n THEN HoldersIn(s, n) \cup {h} ELSE HoldersIn(s, m)
      /\ \A m : h \notin HoldersIn(s, m)
  BY <1>1, AttachHolders
<1>7. Counted(u, k)
  <2> SUFFICES ASSUME NEW m \in Nodes \ u.duped
               PROVE  Counts(y.ino[m], Cardinality(HoldersIn(u, m)) + DriverAt(k, m))
    BY <1>2 DEF Counted
  <2>1. Counts(x.ino[m], Cardinality(HoldersIn(s, m)) + DriverAt(k, m))
    BY <1>2 DEF SInv, Counted
  <2>2. CASE m # n
    BY <1>3, <1>6, <2>1, <2>2
  <2>3. CASE m = n
    <3>1. Cardinality(HoldersIn(u, n)) = Cardinality(HoldersIn(s, n)) + 1
      BY <1>6, HoldersFinite, FS_AddElement
    <3>2. Cardinality(HoldersIn(s, n)) \in Nat /\ DriverAt(k, n) = 0
      BY HoldersFinite DEF DriverAt
    <3>3. x.ino[n].live /\ y.ino[n].live
      BY <1>2, <1>3
    <3> QED BY <1>3, <2>1, <2>3, <3>1, <3>2, <3>3 DEF Counts
  <2> QED BY <2>2, <2>3
<1>8. Late(u)
  <2> SUFFICES ASSUME y.stale PROVE \E m \in u.duped : ~y.ino[m].live /\ y.ino[m].users < 0
    BY <1>2 DEF Late
  <2>1. PICK m \in s.duped : ~x.ino[m].live /\ x.ino[m].users < 0
    BY <1>2, <1>3 DEF SInv, Late
  <2>2. m \in Nodes /\ m # n
    BY <1>1, <1>2, <2>1, StateFields
  <2> QED BY <1>3, <2>1, <2>2
<1>9. k > 1 => Rooted(y)
  BY <1>1, <1>2, <1>3, StaysRooted DEF SInv
<1> QED BY <1>2, <1>3, <1>4, <1>5, <1>6, <1>7, <1>8, <1>9 DEF SInv

\* A slot shares a descriptor whose inode is not opened again.
LEMMA DupSlot ==
  ASSUME NEW k, NEW s, SInv(s, k), NEW h \in Slots, At(s, h) = NoDesc,
         NEW d \in Desc, NEW n \in Nodes \ Keys, s.desc[d].ino = n,
         NEW u \in States, Attached(s, u, h, d, n), u.fs = s.fs, u.duped = s.duped \cup {n}
  PROVE  SInv(u, k)
<1>1. s \in States /\ Kept(s.fs) /\ Trees(s.fs) /\ Shared(s) /\ Leading(s)
  BY DEF SInv
<1>2. Shared(u)
  BY <1>1, AttachShared
<1>3. /\ Leading(u)
      /\ \A m : HoldersIn(u, m) = IF m = n THEN HoldersIn(s, n) \cup {h} ELSE HoldersIn(s, m)
  BY <1>1, AttachHolders
<1>4. Counted(u, k)
  <2> SUFFICES ASSUME NEW m \in Nodes \ u.duped
               PROVE  Counts(u.fs.ino[m], Cardinality(HoldersIn(u, m)) + DriverAt(k, m))
    BY DEF Counted
  <2>1. m \in Nodes \ s.duped /\ m # n
    OBVIOUS
  <2>2. Counts(s.fs.ino[m], Cardinality(HoldersIn(s, m)) + DriverAt(k, m))
    BY <2>1 DEF SInv, Counted
  <2> QED BY <1>3, <2>1, <2>2
<1>5. Late(u)
  BY DEF SInv, Late
<1>6. k > 1 => Rooted(u.fs)
  BY DEF SInv
<1> QED BY <1>1, <1>2, <1>3, <1>4, <1>5, <1>6 DEF SInv

LEMMA CloseSlot ==
  ASSUME NEW k, NEW s, SInv(s, k), NEW h \in Slots,
         NEW d \in Desc, At(s, h) = d, NEW n, n = s.desc[d].ino,
         NEW u \in States, Detached(s, u, h, d), u.fs = vfs_free(vfs_close(s.fs, n), n),
         u.duped = s.duped
  PROVE  SInv(u, k) /\ (s.fs.ino[n].live => u.fs.stale = s.fs.stale)
<1>1. s \in States /\ Kept(s.fs) /\ Trees(s.fs) /\ Shared(s) /\ Leading(s) /\ s.fs \in FileSystem
  BY StateFields DEF SInv
<1>2. PICK x, z : x = s.fs /\ z = u.fs
  OBVIOUS
<1>3. PICK y : y = vfs_close(x, n)
  OBVIOUS
<1>4. n \in Nodes \ Keys
  BY <1>1, SlotFacts DEF Leading
<1>5. /\ y \in FileSystem /\ Kept(y) /\ SameTree(x, y)
      /\ (x.ino[n].live => y.stale = x.stale)
      /\ (\A m \in Nodes : y.ino[m].live = x.ino[m].live)
      /\ (\A m \in Nodes \ {n} : y.ino[m] = x.ino[m])
      /\ y.ino[n].users = x.ino[n].users - 1
  <2>1. x \in FileSystem /\ Kept(x) /\ n \in Nodes
    BY <1>1, <1>2, <1>4
  <2> QED BY <1>3, <2>1, CloseIs
<1>6. /\ Passes(y, z) /\ (y.ino[n].live => z.stale = y.stale)
      /\ \A m \in Nodes \ {n} : z.ino[m] = y.ino[m]
      /\ ~y.ino[n].live => z.ino[n] = y.ino[n]
  <2>1. z = vfs_free(y, n)
    BY <1>2, <1>3
  <2> QED BY <1>4, <1>5, <2>1, Free
<1>7. z \in FileSystem /\ Kept(z) /\ Trees(z)
  BY <1>1, <1>2, <1>5, <1>6, SameTreeTrees, PassesTrees DEF Passes
<1>8. Shared(u)
  BY <1>1, DetachShared
<1>9. /\ Leading(u)
      /\ \A m : HoldersIn(u, m) = IF m = n THEN HoldersIn(s, n) \ {h} ELSE HoldersIn(s, m)
      /\ h \in HoldersIn(s, n)
  BY <1>1, DetachHolders
<1>10. Cardinality(HoldersIn(s, n)) \in Nat /\ Cardinality(HoldersIn(s, n)) >= 1
       /\ Cardinality(HoldersIn(u, n)) = Cardinality(HoldersIn(s, n)) - 1
  BY <1>9, HoldersFinite, FS_RemoveElement
<1>11. ASSUME n \notin s.duped
       PROVE  x.ino[n].live /\ x.ino[n].users = Cardinality(HoldersIn(s, n))
  <2>1. Counts(x.ino[n], Cardinality(HoldersIn(s, n)) + DriverAt(k, n)) /\ DriverAt(k, n) = 0
    BY <1>2, <1>4, <1>11 DEF SInv, Counted, DriverAt
  <2> QED BY <1>10, <2>1 DEF Counts
<1>12. Counted(u, k)
  <2> SUFFICES ASSUME NEW m \in Nodes \ u.duped
               PROVE  Counts(z.ino[m], Cardinality(HoldersIn(u, m)) + DriverAt(k, m))
    BY <1>2 DEF Counted
  <2>1. CASE m # n
    <3>1. Counts(x.ino[m], Cardinality(HoldersIn(s, m)) + DriverAt(k, m))
      BY <1>2 DEF SInv, Counted
    <3> QED BY <1>5, <1>6, <1>9, <2>1, <3>1
  <2>2. CASE m = n
    <3>1. PICK c \in Nat : c = Cardinality(HoldersIn(s, n)) - 1
      BY <1>10
    <3>2. Counts(y.ino[n], c)
      BY <1>4, <1>5, <1>11, <2>2, <3>1 DEF Counts
    <3>3. Counts(z.ino[n], c)
      BY <1>4, <1>6, <3>2 DEF Passes, Passing
    <3>4. c = Cardinality(HoldersIn(u, n)) + DriverAt(k, n)
      BY <1>4, <1>10, <3>1 DEF DriverAt
    <3> QED BY <2>2, <3>3, <3>4
  <2> QED BY <2>1, <2>2
<1>13. x.ino[n].live => z.stale = x.stale
  BY <1>4, <1>5, <1>6
<1>14. Late(u)
  <2> SUFFICES ASSUME z.stale PROVE \E m \in u.duped : ~z.ino[m].live /\ z.ino[m].users < 0
    BY <1>2 DEF Late
  <2>1. CASE x.ino[n].live
    <3>1. PICK m \in s.duped : ~x.ino[m].live /\ x.ino[m].users < 0
      BY <1>2, <1>13, <2>1 DEF SInv, Late
    <3>2. m \in Nodes /\ m # n
      BY <1>1, <1>2, <2>1, <3>1, StateFields
    <3> QED BY <1>5, <1>6, <3>1, <3>2
  <2>2. CASE ~x.ino[n].live
    <3>1. n \in u.duped
      BY <1>11, <2>2
    <3>2. x.ino[n].users \in Int /\ x.ino[n].users <= 0
      BY <1>1, <1>2, <1>4, <2>2, Fields DEF Kept, Whole
    <3>3. z.ino[n].users < 0 /\ ~z.ino[n].live
      BY <1>4, <1>5, <1>6, <2>2, <3>2
    <3> QED BY <3>1, <3>3
  <2> QED BY <2>1, <2>2
<1>15. k > 1 => Rooted(z)
  <2> SUFFICES ASSUME k > 1 PROVE Rooted(z)
    OBVIOUS
  <2>1. Rooted(y) /\ Trees(y)
    BY <1>1, <1>2, <1>5, StaysRooted, SameTreeTrees DEF SInv
  <2> QED BY <1>6, <2>1, StaysRooted
<1> QED BY <1>2, <1>7, <1>8, <1>9, <1>12, <1>13, <1>14, <1>15 DEF SInv

\* Only the file system changes, as in a lookup.
LEMMA LookSlot ==
  ASSUME NEW k, NEW s, SInv(s, k), ~s.fs.stale, NEW t, Passes(s.fs, t), ~t.stale,
         NEW u, u = [s EXCEPT !.fs = t]
  PROVE  SInv(u, k)
<1>1. s \in States /\ Kept(s.fs) /\ Trees(s.fs) /\ Shared(s) /\ Leading(s)
  BY DEF SInv
<1>2. t \in FileSystem /\ Kept(t) /\ Trees(t)
  BY <1>1, PassesTrees DEF Passes
<1>3. u \in States /\ u.fs = t /\ u.fd = s.fd /\ u.desc = s.desc /\ u.duped = s.duped
  BY <1>1, <1>2 DEF States
<1>4. \A n : HoldersIn(u, n) = HoldersIn(s, n)
  BY <1>3, SlotFacts DEF At
<1>5. Shared(u) /\ Leading(u)
  BY <1>1, <1>3 DEF Shared, Leading, SlotsOf, At
<1>6. Counted(u, k)
  <2> SUFFICES ASSUME NEW n \in Nodes \ s.duped
               PROVE  Counts(t.ino[n], Cardinality(HoldersIn(s, n)) + DriverAt(k, n))
    BY <1>3, <1>4 DEF Counted
  <2>1. PICK c \in Nat : c = Cardinality(HoldersIn(s, n)) + DriverAt(k, n)
    BY HoldersFinite DEF DriverAt
  <2>2. Counts(s.fs.ino[n], c)
    BY <2>1 DEF SInv, Counted
  <2> QED BY <2>1, <2>2 DEF Passes, Passing
<1>7. Late(u)
  BY <1>3 DEF Late
<1>8. k > 1 => Rooted(t)
  BY <1>1, StaysRooted DEF SInv
<1> QED BY <1>2, <1>3, <1>5, <1>6, <1>7, <1>8 DEF SInv

-----------------------------------------------------------------------------
(* The operations on descriptors *)

LEMMA MinIs ==
  ASSUME NEW S \in SUBSET Nat, S # {}
  PROVE  Min(S) \in S
<1>1. \E x \in S : \A y \in S : x <= y
  <2> SUFFICES ASSUME \A x \in S : \E y \in S : ~(x <= y) PROVE FALSE
    OBVIOUS
  <2>1. PICK U : U = {n \in Nat : \A m \in S : m > n}
    OBVIOUS
  <2>2. 0 \in U
    <3>1. \A m \in S : m \in Nat /\ (m = 0 => \A y \in S : m <= y)
      OBVIOUS
    <3>2. \A m \in S : m # 0
      BY <3>1
    <3>3. \A m \in S : m > 0
      BY <3>1, <3>2
    <3> QED BY <2>1, <3>3
  <2>3. ASSUME NEW n \in Nat, n \in U PROVE n + 1 \in U
    <3>1. \A m \in S : m \in Nat /\ m > n
      BY <2>1, <2>3
    <3>2. n + 1 \in S => \A y \in S : n + 1 <= y
      BY <3>1
    <3>3. n + 1 \notin S
      BY <3>2
    <3>4. \A m \in S : m > n + 1
      BY <3>1, <3>3
    <3> QED BY <2>1, <3>4
  <2>4. \A n \in Nat : n \in U
    BY <2>2, <2>3, InductSet
  <2>5. PICK m \in S : TRUE
    OBVIOUS
  <2>6. m \in Nat /\ m > m
    BY <2>1, <2>4, <2>5
  <2> QED BY <2>6
<1> QED BY <1>1 DEF Min

LEMMA FreeSlotIs ==
  ASSUME NEW s, NEW p \in Pid, NEW i, i = FreeSlot(s, p)
  PROVE  \/ i = -1 /\ \A j \in Slot : s.fd[p][j] # NoDesc
         \/ i # -1 /\ i \in Slot /\ s.fd[p][i] = NoDesc
<1>1. PICK free : free = {j \in Slot : s.fd[p][j] = NoDesc}
  OBVIOUS
<1>2. i = IF free = {} THEN -1 ELSE Min(free)
  BY <1>1 DEF FreeSlot
<1>3. CASE free = {}
  BY <1>1, <1>2, <1>3
<1>4. CASE free # {}
  <2>1. free \in SUBSET Nat
    BY <1>1, FilesAssumption DEF Slot
  <2>2. i \in free /\ i \in Nat
    BY <1>2, <1>4, <2>1, MinIs
  <2> QED BY <1>1, <2>2
<1> QED BY <1>3, <1>4

WithSlot(fd0, p, i, d) == [fd0 EXCEPT ![p][i] = d]

\* Slot i of p gets descriptor d, and loses it.
Put(s, p, i, d, n, t, D) ==
    [fs |-> t, fd |-> WithSlot(s.fd, p, i, d),
     desc |-> [s.desc EXCEPT ![d] = [ino |-> n, users |-> s.desc[d].users + 1]], duped |-> D]

Lose(s, p, i, d, t) ==
    [fs |-> t, fd |-> WithSlot(s.fd, p, i, NoDesc),
     desc |-> [s.desc EXCEPT ![d] = IF s.desc[d].users = 1 THEN Unused
                                    ELSE [ino |-> s.desc[d].ino, users |-> s.desc[d].users - 1]],
     duped |-> s.duped]

LEMMA SetSlot ==
  ASSUME NEW fd0 \in [Pid -> [Slot -> Desc \cup {NoDesc}]], NEW p \in Pid, NEW i \in Slot,
         NEW d \in Desc \cup {NoDesc}, NEW fd1, fd1 = WithSlot(fd0, p, i, d)
  PROVE  /\ fd1 \in [Pid -> [Slot -> Desc \cup {NoDesc}]]
         /\ \A g \in Slots : fd1[g[1]][g[2]] = IF g = <<p, i>> THEN d ELSE fd0[g[1]][g[2]]
         /\ \A q \in Pid, j \in Slot : fd1[q][j] = IF q = p /\ j = i THEN d ELSE fd0[q][j]
<1>1. fd1 \in [Pid -> [Slot -> Desc \cup {NoDesc}]]
  BY DEF WithSlot
<1>2. \A q \in Pid, j \in Slot : fd1[q][j] = IF q = p /\ j = i THEN d ELSE fd0[q][j]
  BY DEF WithSlot
<1>3. ASSUME NEW g \in Slots
      PROVE  fd1[g[1]][g[2]] = IF g = <<p, i>> THEN d ELSE fd0[g[1]][g[2]]
  <2>1. PICK q, j : q = g[1] /\ j = g[2]
    OBVIOUS
  <2>2. q \in Pid /\ j \in Slot /\ g = <<q, j>>
    BY <2>1, SlotFacts
  <2>3. g = <<p, i>> <=> q = p /\ j = i
    BY <2>2
  <2> QED BY <1>2, <2>1, <2>2, <2>3
<1> QED BY <1>1, <1>2, <1>3

LEMMA PutIs ==
  ASSUME NEW s \in States, NEW p \in Pid, NEW i \in Slot, NEW d \in Desc,
         NEW n \in Nodes \cup {None}, NEW t \in FileSystem, NEW D \in SUBSET (Nodes \ Keys),
         NEW u, u = Put(s, p, i, d, n, t, D)
  PROVE  u \in States /\ u.fs = t /\ u.duped = D /\ Attached(s, u, <<p, i>>, d, n)
<1>1. PICK fd0, fd1 : fd0 = s.fd /\ fd1 = WithSlot(fd0, p, i, d)
  OBVIOUS
<1>2. fd0 \in [Pid -> [Slot -> Desc \cup {NoDesc}]]
  BY <1>1, StateFields
<1>3. /\ fd1 \in [Pid -> [Slot -> Desc \cup {NoDesc}]]
      /\ \A g \in Slots : fd1[g[1]][g[2]] = IF g = <<p, i>> THEN d ELSE fd0[g[1]][g[2]]
  BY <1>1, <1>2, SetSlot
<1>4. PICK x : x = [ino |-> n, users |-> s.desc[d].users + 1]
  OBVIOUS
<1>5. x \in [ino : Nodes \cup {None}, users : Nat]
  BY <1>4, StateFields
<1>6. PICK de : de = [s.desc EXCEPT ![d] = x]
  OBVIOUS
<1>7. /\ de \in [Desc -> [ino : Nodes \cup {None}, users : Nat]]
      /\ \A e \in Desc : de[e] = IF e = d THEN x ELSE s.desc[e]
  BY <1>5, <1>6, StateFields
<1>8. u = [fs |-> t, fd |-> fd1, desc |-> de, duped |-> D]
  BY <1>1, <1>4, <1>6 DEF Put
<1>9. u \in States
  BY <1>3, <1>7, <1>8 DEF States
<1>10. u.fs = t /\ u.fd = fd1 /\ u.desc = de /\ u.duped = D
  BY <1>8
<1>11. \A g \in Slots : At(u, g) = IF g = <<p, i>> THEN d ELSE At(s, g)
  BY <1>1, <1>3, <1>10 DEF At
<1>12. \A e \in Desc : u.desc[e] = IF e = d THEN [ino |-> n, users |-> s.desc[d].users + 1]
                                   ELSE s.desc[e]
  BY <1>4, <1>7, <1>10
<1> QED BY <1>9, <1>10, <1>11, <1>12 DEF Attached

LEMMA LoseIs ==
  ASSUME NEW s \in States, NEW p \in Pid, NEW i \in Slot, NEW d \in Desc, s.desc[d].users # 0,
         NEW t \in FileSystem, NEW u, u = Lose(s, p, i, d, t)
  PROVE  u \in States /\ u.fs = t /\ u.duped = s.duped /\ Detached(s, u, <<p, i>>, d)
<1>1. PICK fd0, fd1 : fd0 = s.fd /\ fd1 = WithSlot(fd0, p, i, NoDesc)
  OBVIOUS
<1>2. fd0 \in [Pid -> [Slot -> Desc \cup {NoDesc}]]
  BY <1>1, StateFields
<1>3. /\ fd1 \in [Pid -> [Slot -> Desc \cup {NoDesc}]]
      /\ \A g \in Slots : fd1[g[1]][g[2]] = IF g = <<p, i>> THEN NoDesc ELSE fd0[g[1]][g[2]]
  BY <1>1, <1>2, SetSlot
<1>4. PICK x : x = IF s.desc[d].users = 1 THEN Unused
                   ELSE [ino |-> s.desc[d].ino, users |-> s.desc[d].users - 1]
  OBVIOUS
<1>5. x \in [ino : Nodes \cup {None}, users : Nat]
  <2>1. s.desc[d].users \in Nat /\ s.desc[d].ino \in Nodes \cup {None}
    BY StateFields
  <2>2. s.desc[d].users - 1 \in Nat
    BY <2>1
  <2>3. CASE s.desc[d].users = 1
    BY <1>4, <2>3 DEF Unused
  <2>4. CASE s.desc[d].users # 1
    BY <1>4, <2>1, <2>2, <2>4
  <2> QED BY <2>3, <2>4
<1>6. PICK de : de = [s.desc EXCEPT ![d] = x]
  OBVIOUS
<1>7. /\ de \in [Desc -> [ino : Nodes \cup {None}, users : Nat]]
      /\ \A e \in Desc : de[e] = IF e = d THEN x ELSE s.desc[e]
  BY <1>5, <1>6, StateFields
<1>8. u = [fs |-> t, fd |-> fd1, desc |-> de, duped |-> s.duped]
  BY <1>1, <1>4, <1>6 DEF Lose
<1>9. u \in States
  BY <1>3, <1>7, <1>8, StateFields DEF States
<1>10. u.fs = t /\ u.fd = fd1 /\ u.desc = de /\ u.duped = s.duped
  BY <1>8
<1>11. \A g \in Slots : At(u, g) = IF g = <<p, i>> THEN NoDesc ELSE At(s, g)
  BY <1>1, <1>3, <1>10 DEF At
<1>12. \A e \in Desc : u.desc[e] = IF e # d THEN s.desc[e] ELSE x
  BY <1>7, <1>10
<1> QED BY <1>4, <1>9, <1>10, <1>11, <1>12 DEF Detached

LEMMA NewDescIs ==
  ASSUME NEW s \in States, Shared(s), NEW p \in Pid, NEW i \in Slot, s.fd[p][i] = NoDesc, NEW n
  PROVE  \E d \in Desc : s.desc[d].users = 0 /\ NewDesc(s, p, i, n) = Put(s, p, i, d, n, s.fs, s.duped)
<1>1. <<p, i>> \in Slots /\ At(s, <<p, i>>) = NoDesc
  BY SlotFacts DEF At
<1>2. \E d \in Desc : s.desc[d].users = 0
  BY <1>1, SomeUnused
<1>3. PICK d : d = CHOOSE e \in Desc : s.desc[e].users = 0
  OBVIOUS
<1>4. d \in Desc /\ s.desc[d].users = 0
  BY <1>2, <1>3
<1>5. s = [fs |-> s.fs, fd |-> s.fd, desc |-> s.desc, duped |-> s.duped]
  BY StateFields
<1>6. NewDesc(s, p, i, n) = [s EXCEPT !.fd[p][i] = d, !.desc[d] = [ino |-> n, users |-> 1]]
  BY <1>3 DEF NewDesc
<1>7. s.desc[d].users + 1 = 1
  BY <1>4
<1>8. NewDesc(s, p, i, n) = Put(s, p, i, d, n, s.fs, s.duped)
  BY <1>5, <1>6, <1>7 DEF Put, WithSlot
<1> QED BY <1>4, <1>8

\* Nobody but p gets a descriptor.
Spares(s, u, p) ==
    \A q \in Pid \ {p}, j \in Slot : s.fd[q][j] = NoDesc => u.fd[q][j] = NoDesc

LEMMA SlotSpares ==
  ASSUME NEW s, NEW u, NEW p \in Pid, NEW i \in Slot, NEW d, NEW n,
         Attached(s, u, <<p, i>>, d, n) \/ Detached(s, u, <<p, i>>, d)
  PROVE  Spares(s, u, p)
<1> SUFFICES ASSUME NEW q \in Pid \ {p}, NEW j \in Slot PROVE u.fd[q][j] = s.fd[q][j]
  BY DEF Spares
<1>1. PICK g : g = <<q, j>>
  OBVIOUS
<1>2. g \in Slots /\ g # <<p, i>> /\ g[1] = q /\ g[2] = j
  BY <1>1, SlotFacts
<1>3. At(u, g) = At(s, g)
  BY <1>2 DEF Attached, Detached
<1> QED BY <1>2, <1>3 DEF At

LEMMA HeldSlot ==
  ASSUME NEW k, NEW s, SInv(s, k), NEW p \in Pid, NEW i \in Slot, s.fd[p][i] # NoDesc,
         NEW d, d = s.fd[p][i], NEW n, n = InoOf(s, p, i)
  PROVE  /\ s \in States /\ d \in Desc /\ s.desc[d].users \in Nat /\ s.desc[d].users # 0
         /\ n = s.desc[d].ino /\ n \in Nodes \ Keys /\ s.desc[d] = [ino |-> n, users |-> s.desc[d].users]
         /\ <<p, i>> \in Slots /\ At(s, <<p, i>>) = d
<1>1. s \in States /\ Shared(s) /\ Leading(s)
  BY DEF SInv
<1>2. <<p, i>> \in Slots /\ At(s, <<p, i>>) = d
  BY SlotFacts DEF At
<1>3. d \in Desc
  BY <1>1, <1>2, StateFields, SlotFacts
<1>4. n = s.desc[d].ino
  BY DEF InoOf
<1>5. n \in Nodes \ Keys
  BY <1>1, <1>2, <1>4 DEF Leading
<1>6. s.desc[d] \in [ino : Nodes \cup {None}, users : Nat]
  BY <1>1, <1>3, StateFields
<1>7. s.desc[d] = [ino |-> n, users |-> s.desc[d].users] /\ s.desc[d].users \in Nat
  BY <1>4, <1>6
<1>8. s.desc[d].users # 0
  BY <1>1, <1>2, <1>3, UsersZero
<1> QED BY <1>1, <1>2, <1>3, <1>4, <1>5, <1>7, <1>8

LEMMA ShareKeeps ==
  ASSUME NEW k, NEW s, SInv(s, k), NEW p \in Pid, NEW i \in Slot, s.fd[p][i] # NoDesc,
         NEW j \in Slot, s.fd[p][j] = NoDesc, NEW u, u = ShareDesc(s, p, i, j)
  PROVE  SInv(u, k) /\ Spares(s, u, p)
<1>1. PICK d, n : d = s.fd[p][i] /\ n = InoOf(s, p, i)
  OBVIOUS
<1>2. /\ s \in States /\ d \in Desc /\ s.desc[d].users \in Nat /\ s.desc[d].users # 0
      /\ n = s.desc[d].ino /\ n \in Nodes \ Keys /\ s.desc[d] = [ino |-> n, users |-> s.desc[d].users]
      /\ <<p, i>> \in Slots /\ At(s, <<p, i>>) = d
  BY <1>1, HeldSlot
<1>3. PICK D : D = s.duped \cup {n}
  OBVIOUS
<1>4. u = Put(s, p, j, d, n, s.fs, D)
  <2>1. s = [fs |-> s.fs, fd |-> s.fd, desc |-> s.desc, duped |-> s.duped]
    BY <1>2, StateFields
  <2>2. PICK v : v = [s EXCEPT !.fd[p][j] = d, !.duped = D]
    OBVIOUS
  <2>3. v = [fs |-> s.fs, fd |-> WithSlot(s.fd, p, j, d), desc |-> s.desc, duped |-> D]
    BY <2>1, <2>2 DEF WithSlot
  <2>4. u = fd_get(v, d)
    BY <1>1, <1>3, <2>2 DEF ShareDesc
  <2>5. fd_get(v, d) = [fs |-> s.fs, fd |-> WithSlot(s.fd, p, j, d),
                        desc |-> [s.desc EXCEPT ![d].users = @ + 1], duped |-> D]
    BY <2>3 DEF fd_get
  <2>6. [s.desc EXCEPT ![d].users = @ + 1] = [s.desc EXCEPT ![d] = [ino |-> n, users |-> s.desc[d].users + 1]]
    <3>1. PICK x : x = s.desc[d]
      OBVIOUS
    <3>2. [x EXCEPT !.users = @ + 1] = [ino |-> n, users |-> x.users + 1]
      BY <1>2, <3>1
    <3> QED BY <3>1, <3>2
  <2> QED BY <2>4, <2>5, <2>6 DEF Put
<1>5. s.fs \in FileSystem /\ D \in SUBSET (Nodes \ Keys) /\ n \in Nodes \cup {None}
  BY <1>2, <1>3, StateFields
<1>6. u \in States /\ u.fs = s.fs /\ u.duped = D /\ Attached(s, u, <<p, j>>, d, n)
  BY <1>2, <1>4, <1>5, PutIs
<1>7. <<p, j>> \in Slots /\ At(s, <<p, j>>) = NoDesc
  BY SlotFacts DEF At
<1>8. SInv(u, k)
  BY <1>2, <1>3, <1>6, <1>7, DupSlot
<1> QED BY <1>6, <1>8, SlotSpares

LEMMA CloseKeeps ==
  ASSUME NEW k, NEW s, SInv(s, k), NEW p \in Pid, NEW i \in Slot, s.fd[p][i] # NoDesc,
         NEW u, u = close(s, p, i)
  PROVE  /\ SInv(u, k) /\ Spares(s, u, p)
         /\ \A j \in Slot : u.fd[p][j] = IF j = i THEN NoDesc ELSE s.fd[p][j]
<1>1. PICK d, n : d = s.fd[p][i] /\ n = InoOf(s, p, i)
  OBVIOUS
<1>2. /\ s \in States /\ d \in Desc /\ s.desc[d].users \in Nat /\ s.desc[d].users # 0
      /\ n = s.desc[d].ino /\ n \in Nodes \ Keys /\ s.desc[d] = [ino |-> n, users |-> s.desc[d].users]
      /\ <<p, i>> \in Slots /\ At(s, <<p, i>>) = d
  BY <1>1, HeldSlot
<1>3. PICK t : t = vfs_free(vfs_close(s.fs, n), n)
  OBVIOUS
<1>4. u = Lose(s, p, i, d, t)
  <2>1. s = [fs |-> s.fs, fd |-> s.fd, desc |-> s.desc, duped |-> s.duped]
    BY <1>2, StateFields
  <2>2. n # None
    BY <1>2, NodeNames
  <2>3. PICK de : de = [s.desc EXCEPT ![d] = IF s.desc[d].users = 1 THEN Unused
                              ELSE [ino |-> s.desc[d].ino, users |-> s.desc[d].users - 1]]
    OBVIOUS
  <2>4. PICK v : v = fd_put(s, d)
    OBVIOUS
  <2>5. v = [fs |-> s.fs, fd |-> s.fd, desc |-> de, duped |-> s.duped]
    <3>1. CASE s.desc[d].users = 1
      BY <2>1, <2>3, <2>4, <3>1 DEF fd_put
    <3>2. CASE s.desc[d].users # 1
      <4>1. v = [s EXCEPT !.desc[d].users = @ - 1]
        BY <2>4, <3>2 DEF fd_put
      <4>2. v = [fs |-> s.fs, fd |-> s.fd, desc |-> [s.desc EXCEPT ![d].users = @ - 1], duped |-> s.duped]
        BY <2>1, <4>1
      <4>3. PICK x : x = s.desc[d]
        OBVIOUS
      <4>4. [x EXCEPT !.users = @ - 1] = [ino |-> n, users |-> x.users - 1]
        BY <1>2, <4>3
      <4>5. [s.desc EXCEPT ![d].users = @ - 1] = de
        BY <1>2, <2>3, <3>2, <4>3, <4>4
      <4> QED BY <4>2, <4>5
    <3> QED BY <3>1, <3>2
  <2>6. u = [v EXCEPT !.fs = vfs_free(vfs_close(@, n), n), !.fd[p][i] = NoDesc]
    BY <1>1, <2>2, <2>4 DEF close
  <2>7. u = [fs |-> t, fd |-> WithSlot(s.fd, p, i, NoDesc), desc |-> de, duped |-> s.duped]
    BY <1>3, <2>5, <2>6 DEF WithSlot
  <2> QED BY <2>3, <2>7 DEF Lose
<1>5. t \in FileSystem
  <2>1. s.fs \in FileSystem /\ Kept(s.fs)
    BY <1>2, StateFields DEF SInv
  <2>2. PICK x, y : x = s.fs /\ y = vfs_close(x, n)
    OBVIOUS
  <2>3. y \in FileSystem /\ Kept(y)
    BY <1>2, <2>1, <2>2, CloseIs
  <2>4. t = vfs_free(y, n)
    BY <1>3, <2>2
  <2>5. Passes(y, t)
    BY <1>2, <2>3, <2>4, Free
  <2> QED BY <2>5 DEF Passes
<1>6. u \in States /\ u.fs = t /\ u.duped = s.duped /\ Detached(s, u, <<p, i>>, d)
  BY <1>2, <1>4, <1>5, LoseIs
<1>7. SInv(u, k)
  BY <1>2, <1>3, <1>6, CloseSlot
<1>8. ASSUME NEW j \in Slot PROVE u.fd[p][j] = IF j = i THEN NoDesc ELSE s.fd[p][j]
  <2>1. PICK g : g = <<p, j>>
    OBVIOUS
  <2>2. g \in Slots /\ g[1] = p /\ g[2] = j /\ (g = <<p, i>> <=> j = i)
    BY <2>1, SlotFacts
  <2>3. At(u, g) = IF g = <<p, i>> THEN NoDesc ELSE At(s, g)
    BY <1>6, <2>2 DEF Detached
  <2> QED BY <2>2, <2>3 DEF At
<1>9. Spares(s, u, p)
  BY <1>6, SlotSpares
<1> QED BY <1>7, <1>8, <1>9

LEMMA DupKeeps ==
  ASSUME NEW k, NEW s, SInv(s, k), NEW p \in Pid, NEW i \in Slot, s.fd[p][i] # NoDesc,
         NEW u, u = dup(s, p, i)
  PROVE  SInv(u, k) /\ Spares(s, u, p)
<1>1. PICK j : j = FreeSlot(s, p)
  OBVIOUS
<1>2. u = IF j = -1 THEN s ELSE ShareDesc(s, p, i, j)
  BY <1>1 DEF dup
<1>3. CASE j = -1
  BY <1>2, <1>3 DEF Spares
<1>4. CASE j # -1
  <2>1. j \in Slot /\ s.fd[p][j] = NoDesc
    BY <1>1, <1>4, FreeSlotIs
  <2>2. u = ShareDesc(s, p, i, j)
    BY <1>2, <1>4
  <2> QED BY <2>1, <2>2, ShareKeeps
<1> QED BY <1>3, <1>4

LEMMA Dup2Keeps ==
  ASSUME NEW k, NEW s, SInv(s, k), NEW p \in Pid, NEW i \in Slot, s.fd[p][i] # NoDesc,
         NEW j \in Slot, NEW u, u = dup2(s, p, i, j)
  PROVE  SInv(u, k) /\ Spares(s, u, p)
<1>1. CASE i = j
  <2>1. u = s
    BY <1>1 DEF dup2
  <2> QED BY <2>1 DEF Spares
<1>2. CASE i # j /\ s.fd[p][j] = NoDesc
  <2>1. u = ShareDesc(s, p, i, j)
    BY <1>2 DEF dup2
  <2> QED BY <1>2, <2>1, ShareKeeps
<1>3. CASE i # j /\ s.fd[p][j] # NoDesc
  <2>1. PICK v : v = close(s, p, j)
    OBVIOUS
  <2>2. u = ShareDesc(v, p, i, j)
    BY <1>3, <2>1 DEF dup2
  <2>3. SInv(v, k) /\ Spares(s, v, p) /\ v.fd[p][i] # NoDesc /\ v.fd[p][j] = NoDesc
    BY <1>3, <2>1, CloseKeeps
  <2>4. SInv(u, k) /\ Spares(v, u, p)
    BY <2>2, <2>3, ShareKeeps
  <2> QED BY <2>3, <2>4 DEF Spares
<1> QED BY <1>1, <1>2, <1>3

LEMMA WithFs ==
  ASSUME NEW s \in States, NEW t \in FileSystem, NEW u, u = [s EXCEPT !.fs = t]
  PROVE  /\ u \in States /\ u.fs = t /\ u.fd = s.fd /\ u.desc = s.desc /\ u.duped = s.duped
         /\ (\A h \in Slots : At(u, h) = At(s, h)) /\ (Shared(s) => Shared(u))
<1>1. u \in States /\ u.fs = t /\ u.fd = s.fd /\ u.desc = s.desc /\ u.duped = s.duped
  BY DEF States
<1> QED BY <1>1 DEF Shared, SlotsOf, At

\* Slot h of the state that has the descriptors of s
LEMMA AttachedSame ==
  ASSUME NEW s, NEW v, v.desc = s.desc, \A h \in Slots : At(v, h) = At(s, h),
         NEW u, NEW h, NEW d, NEW n, Attached(v, u, h, d, n)
  PROVE  Attached(s, u, h, d, n)
BY DEF Attached

LEMMA OpenKeeps ==
  ASSUME NEW k, NEW s, SInv(s, k), ~s.fs.stale, NEW p \in Pid, NEW path \in Seq(Word),
         NEW u, u = open(s, p, path)
  PROVE  SInv(u, k) /\ Spares(s, u, p) /\ u.duped = s.duped
<1>1. PICK i, x, q : i = FreeSlot(s, p) /\ x = s.fs /\ q = canonicalize_path(path)
  OBVIOUS
<1>2. PICK r : r = vfs_namei(x, q)
  OBVIOUS
<1>3. s \in States /\ x \in FileSystem /\ Kept(x) /\ Trees(x) /\ Shared(s) /\ Leading(s)
  BY <1>1, StateFields DEF SInv
<1>4. Going(x, r)
  <2>1. q \in Seq(Ahead)
    BY <1>1, CanonAhead
  <2> QED BY <1>2, <1>3, <2>1, Namei
<1>5. CASE i = -1
  <2>1. u = s
    BY <1>1, <1>5 DEF open
  <2> QED BY <2>1 DEF Spares
<1>6. CASE i # -1
  <2>1. i \in Slot /\ s.fd[p][i] = NoDesc /\ <<p, i>> \in Slots /\ At(s, <<p, i>>) = NoDesc
    BY <1>1, <1>6, FreeSlotIs, SlotFacts DEF At
  <2>2. PICK y, n : y = r.t /\ n = r.n
    OBVIOUS
  <2>3. PICK v : v = [s EXCEPT !.fs = y]
    OBVIOUS
  <2>4. Passes(x, y) /\ ~y.stale
    BY <1>1, <1>4, <2>2 DEF Going
  <2>5. SInv(v, k)
    BY <1>1, <2>3, <2>4, LookSlot
  <2>6. y \in FileSystem /\ Kept(y)
    BY <2>4 DEF Passes
  <2>7. /\ v \in States /\ v.fs = y /\ v.fd = s.fd /\ v.desc = s.desc /\ v.duped = s.duped
        /\ (\A h \in Slots : At(v, h) = At(s, h)) /\ Shared(v)
    BY <1>3, <2>3, <2>6, WithFs
  <2>8. CASE n = None
    <3>1. u = v
      BY <1>1, <1>2, <1>6, <2>2, <2>3, <2>8 DEF open
    <3> QED BY <2>5, <2>7, <3>1 DEF Spares
  <2>9. CASE n # None
    <3>1. n \in Nodes \ Keys /\ y.ino[n].live
      BY <1>4, <2>2, <2>9 DEF Going
    <3>2. PICK z : z = vfs_open(y, n)
      OBVIOUS
    <3>3. z \in FileSystem
      BY <2>6, <3>1, <3>2, OpenIs
    <3>4. PICK w : w = [s EXCEPT !.fs = z]
      OBVIOUS
    <3>5. /\ w \in States /\ w.fs = z /\ w.fd = s.fd /\ w.desc = s.desc /\ w.duped = s.duped
          /\ (\A h \in Slots : At(w, h) = At(s, h)) /\ Shared(w)
      BY <1>3, <3>3, <3>4, WithFs
    <3>6. u = NewDesc(w, p, i, n)
      BY <1>1, <1>2, <1>6, <2>2, <2>9, <3>2, <3>4 DEF open
    <3>7. w.fd[p][i] = NoDesc
      BY <2>1, <3>5
    <3>8. PICK d \in Desc : w.desc[d].users = 0 /\ u = Put(w, p, i, d, n, w.fs, w.duped)
      BY <2>1, <3>5, <3>6, <3>7, NewDescIs
    <3>9. PICK D : D = w.duped
      OBVIOUS
    <3>a. D \in SUBSET (Nodes \ Keys) /\ n \in Nodes \cup {None} /\ u = Put(w, p, i, d, n, z, D)
      BY <3>1, <3>5, <3>8, <3>9, StateFields
    <3>c. w \in States /\ i \in Slot /\ d \in Desc /\ z \in FileSystem
      BY <2>1, <3>3, <3>5, <3>8
    <3>b. u \in States /\ u.fs = z /\ u.duped = D /\ Attached(w, u, <<p, i>>, d, n)
      BY <3>a, <3>c, PutIs
    <3>10. u \in States /\ u.fs = w.fs /\ u.duped = w.duped /\ Attached(w, u, <<p, i>>, d, n)
      BY <3>5, <3>9, <3>b
    <3>11. Attached(v, u, <<p, i>>, d, n) /\ Attached(s, u, <<p, i>>, d, n)
      BY <2>7, <3>5, <3>10, AttachedSame
    <3>12. At(v, <<p, i>>) = NoDesc /\ v.desc[d].users = 0
      BY <2>1, <2>7, <3>5, <3>8
    <3>13. u.fs = vfs_open(v.fs, n) /\ u.duped = v.duped /\ v.fs.ino[n].live
      BY <2>7, <3>1, <3>2, <3>5, <3>10
    <3>14. SInv(u, k)
      BY <2>1, <2>5, <3>1, <3>10, <3>11, <3>12, <3>13, OpenSlot
    <3>15. Spares(s, u, p)
      BY <2>1, <3>11, SlotSpares
    <3> QED BY <2>7, <3>13, <3>14, <3>15
  <2> QED BY <2>8, <2>9
<1> QED BY <1>5, <1>6

\* What only looks at the file system
LEMMA LookKeeps ==
  ASSUME NEW k, NEW s, SInv(s, k), ~s.fs.stale, NEW t, Passes(s.fs, t), t.stale = s.fs.stale,
         NEW u, u = [s EXCEPT !.fs = t]
  PROVE  SInv(u, k) /\ u.fd = s.fd /\ u.duped = s.duped
<1>1. SInv(u, k)
  BY LookSlot
<1>2. s \in States /\ t \in FileSystem
  BY DEF SInv, Passes
<1> QED BY <1>1, <1>2, WithFs

LEMMA FreeGoing ==
  ASSUME NEW x, NEW r, Going(x, r), NEW t, t = IF r.n = None THEN r.t ELSE vfs_free(r.t, r.n)
  PROVE  Passes(x, t) /\ t.stale = x.stale
<1>1. Passes(x, r.t) /\ r.t.stale = x.stale /\ (r.n # None => r.n \in Nodes /\ r.t.ino[r.n].live)
  BY DEF Going
<1> QED BY <1>1, FreeResult

LEMMA StatKeeps ==
  ASSUME NEW k, NEW s, SInv(s, k), ~s.fs.stale, NEW path \in Seq(Ahead),
         NEW r, r = vfs_namei(s.fs, path), NEW t, t = IF r.n = None THEN r.t ELSE vfs_free(r.t, r.n),
         NEW u, u = [s EXCEPT !.fs = t]
  PROVE  SInv(u, k) /\ u.fd = s.fd /\ u.duped = s.duped
<1>1. PICK x : x = s.fs
  OBVIOUS
<1>2. x \in FileSystem /\ Kept(x) /\ Trees(x)
  BY <1>1, StateFields DEF SInv
<1>3. Going(x, r)
  BY <1>1, <1>2, Namei
<1>4. Passes(x, t) /\ t.stale = x.stale
  BY <1>3, FreeGoing
<1> QED BY <1>1, <1>4, LookKeeps

LEMMA ExecKeeps ==
  ASSUME NEW k, NEW s, SInv(s, k), ~s.fs.stale, NEW path \in Seq(Ahead),
         NEW u, u = [s EXCEPT !.fs = vfs_namei(@, path).t]
  PROVE  SInv(u, k) /\ u.fd = s.fd /\ u.duped = s.duped
<1>1. PICK x, r, t : x = s.fs /\ r = vfs_namei(x, path) /\ t = r.t
  OBVIOUS
<1>2. x \in FileSystem /\ Kept(x) /\ Trees(x)
  BY <1>1, StateFields DEF SInv
<1>3. Going(x, r)
  BY <1>1, <1>2, Namei
<1>4. Passes(x, t) /\ t.stale = x.stale
  BY <1>1, <1>3 DEF Going
<1>5. u = [s EXCEPT !.fs = t]
  BY <1>1
<1> QED BY <1>1, <1>4, <1>5, LookKeeps

LEMMA ReaddirKeeps ==
  ASSUME NEW k, NEW s, SInv(s, k), ~s.fs.stale, NEW n \in Nodes, s.fs.ino[n].live,
         NEW num \in Nat, n # s.fs.root \/ num # 1,
         NEW r, r = vfs_readdir(s.fs, n, num), NEW t, t = IF r.n = None THEN r.t ELSE vfs_free(r.t, r.n),
         NEW u, u = [s EXCEPT !.fs = t]
  PROVE  SInv(u, k) /\ u.fd = s.fd /\ u.duped = s.duped
<1>1. PICK x : x = s.fs
  OBVIOUS
<1>2. x \in FileSystem /\ Kept(x) /\ Trees(x)
  BY <1>1, StateFields DEF SInv
<1>3. Passes(x, r.t) /\ r.t.stale = x.stale /\ (r.n # None => r.n \in Nodes /\ r.t.ino[r.n].live)
  BY <1>1, <1>2, ReaddirPasses
<1>4. Passes(x, t) /\ t.stale = x.stale
  BY <1>3, FreeResult
<1> QED BY <1>1, <1>4, LookKeeps

\* A new inode
LEMMA MakeIs ==
  ASSUME NEW t \in FileSystem, Kept(t), NEW n \in Nodes, ~IsTar(n), n # Root0, ~t.ino[n].live,
         NEW name \in Names, NEW u, u = Make(t, n, name)
  PROVE  /\ Passes(t, u) /\ u.stale = t.stale /\ (\A m \in Nodes \ {n} : u.ino[m] = t.ino[m])
         /\ u.ino[n].live /\ u.ino[n].name = name /\ u.ino[n].users = 0 /\ u.ino[n].parent = None
         /\ u.ino[n].child = None /\ u.ino[n].older = None
<1>2. PICK y : y = [Blank EXCEPT !.live = TRUE, !.name = name]
  OBVIOUS
<1>1. y = [live |-> TRUE, name |-> name, users |-> 0, refs |-> 0,
           parent |-> None, child |-> None, older |-> None, younger |-> None]
  BY <1>2 DEF Blank
<1>3. u = SetIno(t, n, y)
  BY <1>2 DEF Make, SetIno
<1>4. y \in Record
  BY <1>1 DEF Record
<1>5. /\ y.live /\ y.name = name /\ y.users = 0 /\ y.parent = None /\ y.child = None /\ y.older = None
  BY <1>1
<1>6. t.ino[n].parent = None
  BY DEF Kept, Whole
<1>7. Whole(n, y)
  BY <1>5, WholeLive
<1>8. Passing(t.ino[n], y)
  BY <1>5, <1>6 DEF Passing, Counts
<1>9. u.stale = t.stale /\ u.ino[n] = y /\ \A m \in Nodes \ {n} : u.ino[m] = t.ino[m]
  BY <1>3, <1>4, SetInoIs
<1>10. Passes(t, u)
  BY <1>3, <1>4, <1>7, <1>8, SetInoPasses
<1> QED BY <1>5, <1>9, <1>10

LEMMA NewPipeIs ==
  ASSUME NEW t \in FileSystem, Kept(t), NEW i \in Pipes,
         ~t.ino[End(i, "r")].live, ~t.ino[End(i, "w")].live, NEW u, u = new_pipe(t, i)
  PROVE  /\ Passes(t, u) /\ u.stale = t.stale
         /\ \A n \in {End(i, "r"), End(i, "w")} :
               n \in Nodes /\ u.ino[n].live /\ u.ino[n].users = 0 /\ u.ino[n].parent = None
               /\ u.ino[n].child = None
         /\ \A n \in Nodes \ {End(i, "r"), End(i, "w")} : u.ino[n] = t.ino[n]
<1>1. PICK a, b, name : a = End(i, "r") /\ b = End(i, "w") /\ name = "[pipe]"
  OBVIOUS
<1>2. /\ a \in Nodes /\ ~IsTar(a) /\ a # Root0 /\ b \in Nodes /\ ~IsTar(b) /\ b # Root0 /\ a # b
      /\ name \in Names
  <2>1. "r" # "w" /\ "r" \in {"r", "w"} /\ "w" \in {"r", "w"}
    OBVIOUS
  <2> QED BY <1>1, <2>1, NodeNames DEF Names
<1>3. PICK v : v = Make(t, a, name)
  OBVIOUS
<1>4. ~t.ino[a].live /\ ~t.ino[b].live /\ u = Make(v, b, name)
  BY <1>1, <1>3 DEF new_pipe
<1>5. /\ Passes(t, v) /\ v.stale = t.stale /\ (\A m \in Nodes \ {a} : v.ino[m] = t.ino[m])
      /\ v.ino[a].live /\ v.ino[a].users = 0 /\ v.ino[a].parent = None /\ v.ino[a].child = None
  BY <1>2, <1>3, <1>4, MakeIs
<1>6. v \in FileSystem /\ Kept(v) /\ ~v.ino[b].live
  BY <1>2, <1>4, <1>5 DEF Passes
<1>7. /\ Passes(v, u) /\ u.stale = v.stale /\ (\A m \in Nodes \ {b} : u.ino[m] = v.ino[m])
      /\ u.ino[b].live /\ u.ino[b].users = 0 /\ u.ino[b].parent = None /\ u.ino[b].child = None
  BY <1>2, <1>4, <1>6, MakeIs
<1>8. Passes(t, u)
  BY <1>5, <1>7, PassesTrans
<1> QED BY <1>1, <1>2, <1>5, <1>7, <1>8

LEMMA AttachedAt ==
  ASSUME NEW s, NEW u, NEW p \in Pid, NEW i \in Slot, NEW h, h = <<p, i>>, NEW d, NEW n,
         Attached(s, u, h, d, n), NEW j \in Slot
  PROVE  u.fd[p][j] = IF j = i THEN d ELSE s.fd[p][j]
<1>1. PICK g : g = <<p, j>>
  OBVIOUS
<1>2. g \in Slots /\ g[1] = p /\ g[2] = j /\ (g = <<p, i>> <=> j = i)
  BY <1>1, SlotFacts
<1>3. At(u, g) = IF g = h THEN d ELSE At(s, g)
  BY <1>2 DEF Attached
<1> QED BY <1>2, <1>3 DEF At

LEMMA PipeKeeps ==
  ASSUME NEW k, NEW s, SInv(s, k), ~s.fs.stale, NEW p \in Pid, NEW e \in Pipes \ {0, 1},
         ~s.fs.ino[End(e, "r")].live, ~s.fs.ino[End(e, "w")].live,
         Cardinality({i \in Slot : ~InUse(s, p, i)}) # 1,
         NEW u, u = pipe(s, p, e)
  PROVE  SInv(u, k) /\ Spares(s, u, p)
<1>1. PICK i, x, t, a, b : /\ i = FreeSlot(s, p) /\ x = s.fs /\ t = new_pipe(x, e)
                           /\ a = End(e, "r") /\ b = End(e, "w")
  OBVIOUS
<1>2. s \in States /\ x \in FileSystem /\ Kept(x) /\ Shared(s)
  BY <1>1, StateFields DEF SInv
<1>3. a \in Nodes \ Keys /\ b \in Nodes \ Keys
  <2>1. 0 \in Pipes /\ 1 \in Pipes /\ "r" \in {"r", "w"} /\ "w" \in {"r", "w"}
    BY ImageAssumption
  <2>2. a # End(0, "w") /\ a # End(1, "w") /\ b # End(0, "w") /\ b # End(1, "w")
    BY <1>1, <2>1, NodeNames
  <2> QED BY <1>1, <2>1, <2>2, NodeNames DEF Keys
<1>4. Passes(x, t) /\ t.stale = x.stale /\ t.ino[a].live /\ t.ino[b].live
  BY <1>1, <1>2, NewPipeIs
<1>5. CASE i = -1
  <2>1. u = s
    BY <1>1, <1>5 DEF pipe
  <2> QED BY <2>1 DEF Spares
<1>6. CASE i # -1
  <2>1. i \in Slot /\ s.fd[p][i] = NoDesc /\ <<p, i>> \in Slots /\ At(s, <<p, i>>) = NoDesc
    BY <1>1, <1>6, FreeSlotIs, SlotFacts DEF At
  <2>2. PICK s1 : s1 = NewDesc(s, p, i, None)
    OBVIOUS
  <2>3. PICK c \in Desc : s.desc[c].users = 0 /\ s1 = Put(s, p, i, c, None, s.fs, s.duped)
    BY <1>2, <2>1, <2>2, NewDescIs
  <2>4. PICK D : D = s.duped
    OBVIOUS
  <2>5. D \in SUBSET (Nodes \ Keys) /\ s1 = Put(s, p, i, c, None, x, D) /\ None \in Nodes \cup {None}
    BY <1>1, <1>2, <2>3, <2>4, StateFields
  <2>6. s1 \in States /\ s1.fs = x /\ s1.duped = D /\ Attached(s, s1, <<p, i>>, c, None)
    BY <1>2, <2>1, <2>5, PutIs
  <2>7. Shared(s1)
    BY <1>2, <2>1, <2>6, AttachShared
  <2>9. \A j \in Slot : s1.fd[p][j] = IF j = i THEN c ELSE s.fd[p][j]
    <3>1. PICK h : h = <<p, i>>
      OBVIOUS
    <3>2. PICK n : n = None
      OBVIOUS
    <3>3. i \in Slot /\ Attached(s, s1, h, c, n)
      BY <2>1, <2>6, <3>1, <3>2
    <3>4. ASSUME NEW l \in Slot PROVE s1.fd[p][l] = IF l = i THEN c ELSE s.fd[p][l]
      <4>1. PICK g : g = <<p, l>>
        OBVIOUS
      <4>2. g \in Slots /\ g[1] = p /\ g[2] = l /\ (g = h <=> l = i)
        BY <3>1, <3>3, <4>1, SlotFacts
      <4>3. At(s1, g) = IF g = h THEN c ELSE At(s, g)
        BY <3>3, <4>2 DEF Attached
      <4> QED BY <4>2, <4>3 DEF At
    <3> QED BY <3>4
  <2>10. PICK j : j = FreeSlot(s1, p)
    OBVIOUS
  <2>11. j # -1
    <3> SUFFICES ASSUME j = -1 PROVE FALSE
      OBVIOUS
    <3>1. \A l \in Slot : s1.fd[p][l] # NoDesc
      BY <2>10, FreeSlotIs
    <3>2. \A l \in Slot \ {i} : InUse(s, p, l)
      BY <2>9, <3>1 DEF InUse
    <3>3. ~InUse(s, p, i)
      BY <2>1 DEF InUse
    <3>4. {l \in Slot : ~InUse(s, p, l)} = {i}
      BY <2>1, <3>2, <3>3
    <3> QED BY <3>4, FS_Singleton
  <2>12. /\ j \in Slot /\ s1.fd[p][j] = NoDesc /\ j # i /\ s.fd[p][j] = NoDesc
         /\ <<p, j>> \in Slots /\ At(s1, <<p, j>>) = NoDesc
    <3>1. j \in Slot /\ s1.fd[p][j] = NoDesc
      BY <2>10, <2>11, FreeSlotIs
    <3>2. c # NoDesc
      BY <2>3, SlotFacts
    <3> QED BY <2>9, <3>1, <3>2, SlotFacts DEF At
  <2>13. PICK s2 : s2 = NewDesc(s1, p, j, b)
    OBVIOUS
  <2>14. PICK d \in Desc : s1.desc[d].users = 0 /\ s2 = Put(s1, p, j, d, b, s1.fs, s1.duped)
    BY <2>6, <2>7, <2>12, <2>13, NewDescIs
  <2>15. d # c /\ s.desc[d].users = 0
    <3>1. s1.desc[c].users = 1 /\ \A f \in Desc \ {c} : s1.desc[f] = s.desc[f]
      BY <2>3, <2>6 DEF Attached
    <3> QED BY <2>14, <3>1
  <2>16. PICK t1, t2 : t1 = vfs_open(t, a) /\ t2 = vfs_open(t1, b)
    OBVIOUS
  <2>17. u = [s2 EXCEPT !.desc[s2.fd[p][i]].ino = a, !.fs = t2]
    BY <1>1, <2>2, <2>10, <2>11, <1>6, <2>13, <2>16 DEF pipe
  <2>18. s2.fd[p][i] = c
    <3>1. s1 \in States /\ b \in Nodes \cup {None} /\ s2 = Put(s1, p, j, d, b, x, D)
      BY <1>3, <2>6, <2>14
    <3>2. Attached(s1, s2, <<p, j>>, d, b)
      BY <1>2, <2>5, <2>12, <2>14, <3>1, PutIs
    <3>4. PICK h : h = <<p, j>>
      OBVIOUS
    <3>3. \A l \in Slot : s2.fd[p][l] = IF l = j THEN d ELSE s1.fd[p][l]
      BY <2>12, <3>2, <3>4, AttachedAt
    <3> QED BY <2>1, <2>9, <2>12, <3>3
  <2>19. PICK v0 : v0 = [s EXCEPT !.fs = t]
    OBVIOUS
  <2>20. t \in FileSystem /\ Kept(t) /\ ~t.stale
    BY <1>1, <1>4 DEF Passes
  <2>21. SInv(v0, k)
    BY <1>1, <1>4, <2>19, <2>20, LookSlot
  <2>22. /\ v0 \in States /\ v0.fs = t /\ v0.fd = s.fd /\ v0.desc = s.desc /\ v0.duped = s.duped
         /\ \A h \in Slots : At(v0, h) = At(s, h)
    BY <1>2, <2>19, <2>20, WithFs
  <2>23. t1 \in FileSystem /\ Kept(t1) /\ t1.ino[a].live /\ t1.ino[b].live
    BY <1>3, <1>4, <2>16, <2>20, OpenIs
  <2>24. t2 \in FileSystem
    BY <1>3, <2>16, <2>23, OpenIs
  <2>25. PICK v1 : v1 = Put(v0, p, i, c, a, t1, D)
    OBVIOUS
  <2>26. v1 \in States /\ v1.fs = t1 /\ v1.duped = D /\ Attached(v0, v1, <<p, i>>, c, a)
    <3>1. a \in Nodes \cup {None} /\ v0 \in States /\ c \in Desc
      BY <1>3, <2>22, <2>3
    <3> QED BY <2>1, <2>5, <2>23, <2>25, <3>1, PutIs
  <2>27. SInv(v1, k)
    <3>1. At(v0, <<p, i>>) = NoDesc /\ v0.desc[c].users = 0 /\ v0.fs.ino[a].live
          /\ v1.fs = vfs_open(v0.fs, a) /\ v1.duped = v0.duped
      BY <1>4, <2>1, <2>3, <2>4, <2>16, <2>22, <2>26
    <3> QED BY <1>3, <2>1, <2>21, <2>26, <3>1, OpenSlot
  <2>28. PICK v2 : v2 = Put(v1, p, j, d, b, t2, D)
    OBVIOUS
  <2>29. v2 \in States /\ v2.fs = t2 /\ v2.duped = D /\ Attached(v1, v2, <<p, j>>, d, b)
    <3>1. b \in Nodes \cup {None} /\ v1 \in States /\ d \in Desc
      BY <1>3, <2>26, <2>14
    <3> QED BY <2>5, <2>12, <2>24, <2>28, <3>1, PutIs
  <2>30. SInv(v2, k)
    <3>0. <<p, j>> # <<p, i>> /\ At(s, <<p, j>>) = NoDesc
      BY <2>12, SlotFacts DEF At
    <3>1. At(v1, <<p, j>>) = NoDesc
      BY <2>12, <2>22, <2>26, <3>0 DEF Attached
    <3>2. v1.desc[d].users = 0
      BY <2>15, <2>22, <2>26 DEF Attached
    <3>3. v1.fs.ino[b].live /\ v2.fs = vfs_open(v1.fs, b) /\ v2.duped = v1.duped
      BY <2>16, <2>23, <2>26, <2>29
    <3> QED BY <1>3, <2>12, <2>27, <2>29, <3>1, <3>2, <3>3, OpenSlot
  <2>31. u = v2
    <3>1. PICK de, f1 : de = s.desc /\ f1 = WithSlot(WithSlot(s.fd, p, i, c), p, j, d)
      OBVIOUS
    <3>2. v2 = [fs |-> t2, fd |-> f1, duped |-> D,
                desc |-> [[de EXCEPT ![c] = [ino |-> a, users |-> s.desc[c].users + 1]]
                            EXCEPT ![d] = [ino |-> b, users |-> v1.desc[d].users + 1]]]
      BY <2>22, <2>25, <2>28, <3>1 DEF Put
    <3>3. v1.desc[d].users = 0 /\ s.desc[c].users = 0 /\ s1.desc[d].users = 0
      BY <2>3, <2>14, <2>15, <2>22, <2>26 DEF Attached
    <3>4. v2.desc = [[de EXCEPT ![c] = [ino |-> a, users |-> 1]] EXCEPT ![d] = [ino |-> b, users |-> 1]]
      <4>1. 0 + 1 = 1
        OBVIOUS
      <4> QED BY <3>2, <3>3, <4>1
    <3>5. s2 = [fs |-> x, fd |-> f1, duped |-> D,
                desc |-> [[de EXCEPT ![c] = [ino |-> None, users |-> s.desc[c].users + 1]]
                            EXCEPT ![d] = [ino |-> b, users |-> s1.desc[d].users + 1]]]
      BY <1>1, <2>4, <2>5, <2>6, <2>14, <3>1 DEF Put
    <3>6. s2.desc = [[de EXCEPT ![c] = [ino |-> None, users |-> 1]] EXCEPT ![d] = [ino |-> b, users |-> 1]]
      <4>1. 0 + 1 = 1
        OBVIOUS
      <4> QED BY <3>3, <3>5, <4>1
    <3>7. u = [fs |-> t2, fd |-> f1, duped |-> D, desc |-> [s2.desc EXCEPT ![c].ino = a]]
      <4>1. PICK g : g = s2.desc
        OBVIOUS
      <4>2. s2 = [fs |-> x, fd |-> f1, duped |-> D, desc |-> g]
        BY <3>5, <4>1
      <4>3. PICK g2 : g2 = [g EXCEPT ![c].ino = a]
        OBVIOUS
      <4>4. u = [s2 EXCEPT !.desc[c].ino = a, !.fs = t2]
        BY <2>17, <2>18
      <4>5. u = [s2 EXCEPT !.desc = g2, !.fs = t2]
        BY <4>2, <4>3, <4>4
      <4>6. u = [fs |-> t2, fd |-> f1, duped |-> D, desc |-> g2]
        BY <4>2, <4>5
      <4> QED BY <4>1, <4>3, <4>6
    <3>8. de \in [Desc -> [ino : Nodes \cup {None}, users : Nat]] /\ c \in Desc /\ d \in Desc
      BY <1>2, <2>3, <2>14, <3>1, StateFields
    <3>9. PICK g : g = s2.desc
      OBVIOUS
    <3>10. g[c] = [ino |-> None, users |-> 1] /\ [g[c] EXCEPT !.ino = a] = [ino |-> a, users |-> 1]
      BY <2>15, <3>6, <3>8, <3>9
    <3>11. [g EXCEPT ![c].ino = a] = [g EXCEPT ![c] = [ino |-> a, users |-> 1]]
      BY <3>10
    <3>12. [g EXCEPT ![c] = [ino |-> a, users |-> 1]] = v2.desc
      BY <2>15, <3>4, <3>6, <3>8, <3>9
    <3> QED BY <3>2, <3>7, <3>9, <3>11, <3>12
  <2>32. Spares(s, u, p)
    <3>1. Spares(v0, v1, p)
      BY <2>1, <2>26, SlotSpares
    <3>2. Spares(v1, v2, p)
      BY <2>12, <2>29, SlotSpares
    <3> QED BY <2>22, <2>31, <3>1, <3>2 DEF Spares
  <2> QED BY <2>30, <2>31, <2>32
<1> QED BY <1>5, <1>6

\* _exit closes the slots one after the other.
LEMMA ExitKeeps ==
  ASSUME NEW k, NEW s, SInv(s, k), NEW p \in Pid, NEW u, u = close_all(s, p)
  PROVE  SInv(u, k) /\ Spares(s, u, p) /\ \A j \in Slot : u.fd[p][j] = NoDesc
<1>1. PICK w : /\ w[0] = s /\ w[NumFiles] = close_all(s, p)
               /\ \A i \in 1..NumFiles : w[i] = CloseTurn(p, w[i - 1], i - 1)
  BY CloseRuns
<1>2. NumFiles \in Nat /\ Slot = 0..(NumFiles - 1)
  BY FilesAssumption DEF Slot
<1>3. PICK U : U = {i \in Nat : i <= NumFiles =>
                      /\ SInv(w[i], k) /\ Spares(s, w[i], p)
                      /\ \A j \in Slot : j < i => w[i].fd[p][j] = NoDesc}
  OBVIOUS
<1>4. 0 \in U
  <2>1. \A j \in Slot : ~(j < 0)
    BY <1>2
  <2>2. Spares(s, s, p)
    BY DEF Spares
  <2> QED BY <1>1, <1>3, <2>1, <2>2
<1>5. ASSUME NEW i \in Nat, i \in U PROVE i + 1 \in U
  <2> SUFFICES ASSUME i + 1 <= NumFiles
               PROVE  /\ SInv(w[i + 1], k) /\ Spares(s, w[i + 1], p)
                      /\ \A j \in Slot : j < i + 1 => w[i + 1].fd[p][j] = NoDesc
    BY <1>3
  <2>1. PICK x, y : x = w[i] /\ y = w[i + 1]
    OBVIOUS
  <2>2. SInv(x, k) /\ Spares(s, x, p) /\ \A j \in Slot : j < i => x.fd[p][j] = NoDesc
    BY <1>2, <1>3, <1>5, <2>1
  <2>3. i + 1 \in 1..NumFiles /\ (i + 1) - 1 = i /\ i \in Slot
    BY <1>2
  <2>4. y = CloseTurn(p, x, i)
    BY <1>1, <2>1, <2>3
  <2>5. CASE x.fd[p][i] = NoDesc
    <3>1. y = x
      BY <2>4, <2>5 DEF CloseTurn
    <3>2. \A j \in Slot : j < i + 1 => j < i \/ j = i
      BY <1>2
    <3>3. \A j \in Slot : j < i + 1 => y.fd[p][j] = NoDesc
      BY <2>2, <2>5, <3>1, <3>2
    <3> QED BY <2>1, <2>2, <3>1, <3>3
  <2>6. CASE x.fd[p][i] # NoDesc
    <3>1. y = close(x, p, i)
      BY <2>4, <2>6 DEF CloseTurn
    <3>2. /\ SInv(y, k) /\ Spares(x, y, p)
          /\ \A j \in Slot : y.fd[p][j] = IF j = i THEN NoDesc ELSE x.fd[p][j]
      BY <2>2, <2>3, <2>6, <3>1, CloseKeeps
    <3>3. \A j \in Slot : j < i + 1 => j < i \/ j = i
      BY <1>2
    <3>4. \A j \in Slot : j < i + 1 => y.fd[p][j] = NoDesc
      BY <2>2, <3>2, <3>3
    <3>5. Spares(s, y, p)
      BY <2>2, <3>2 DEF Spares
    <3> QED BY <2>1, <3>2, <3>4, <3>5
  <2> QED BY <2>5, <2>6
<1>6. NumFiles \in U
  BY <1>2, <1>4, <1>5, InductSet
<1>7. SInv(u, k) /\ Spares(s, u, p) /\ \A j \in Slot : j < NumFiles => u.fd[p][j] = NoDesc
  BY <1>1, <1>2, <1>3, <1>6
<1>8. \A j \in Slot : j < NumFiles
  BY <1>2
<1> QED BY <1>7, <1>8

SlotsCopied(s, b, p, c) ==
    \A q \in Pid, i \in Slot : b.fd[q][i] = IF q = c THEN s.fd[p][i] ELSE s.fd[q][i]

LEMMA CopiedIs ==
  ASSUME NEW s \in States, NEW p \in Pid, NEW c \in Pid, NEW b, b = Copied(s, p, c)
  PROVE  /\ b \in States /\ b.fs = s.fs /\ b.desc = s.desc /\ b.duped = s.duped
         /\ SlotsCopied(s, b, p, c)
<1>1. PICK fd0, fd1 : fd0 = s.fd /\ fd1 = [fd0 EXCEPT ![c] = fd0[p]]
  OBVIOUS
<1>2. s = [fs |-> s.fs, fd |-> fd0, desc |-> s.desc, duped |-> s.duped]
  BY <1>1, StateFields
<1>3. b = [fs |-> s.fs, fd |-> fd1, desc |-> s.desc, duped |-> s.duped]
  BY <1>1, <1>2 DEF Copied
<1>4. fd0 \in [Pid -> [Slot -> Desc \cup {NoDesc}]]
  BY <1>1, StateFields
<1>5. /\ fd1 \in [Pid -> [Slot -> Desc \cup {NoDesc}]]
      /\ \A q \in Pid, i \in Slot : fd1[q][i] = IF q = c THEN fd0[p][i] ELSE fd0[q][i]
  BY <1>1, <1>4
<1>6. b \in States
  BY <1>3, <1>5, StateFields DEF States
<1>7. SlotsCopied(s, b, p, c)
  BY <1>1, <1>3, <1>5 DEF SlotsCopied
<1> QED BY <1>3, <1>6, <1>7

\* States with the same fields
LEMMA SameState ==
  ASSUME NEW s \in States, NEW u \in States, u.fs = s.fs, u.desc = s.desc, u.duped = s.duped,
         \A h \in Slots : At(u, h) = At(s, h)
  PROVE  u = s
<1>1. PICK f, g : f = s.fd /\ g = u.fd
  OBVIOUS
<1>2. f \in [Pid -> [Slot -> Desc \cup {NoDesc}]] /\ g \in [Pid -> [Slot -> Desc \cup {NoDesc}]]
  BY <1>1, StateFields
<1>3. ASSUME NEW q \in Pid, NEW i \in Slot PROVE g[q][i] = f[q][i]
  <2>1. PICK h : h = <<q, i>>
    OBVIOUS
  <2>2. h \in Slots /\ h[1] = q /\ h[2] = i
    BY <2>1, SlotFacts
  <2> QED BY <1>1, <2>2 DEF At
<1>4. \A q \in Pid : g[q] = f[q]
  BY <1>2, <1>3
<1>5. g = f
  BY <1>2, <1>4
<1>6. /\ s = [fs |-> s.fs, fd |-> f, desc |-> s.desc, duped |-> s.duped]
      /\ u = [fs |-> u.fs, fd |-> g, desc |-> u.desc, duped |-> u.duped]
  BY <1>1, StateFields
<1> QED BY <1>5, <1>6

\* u is fork_process at slot i of c, and v the state whose slots of c are those
\* that it has been at.
Forking(s, k, c, i, u, v) ==
    /\ SInv(v, k) /\ u.fs = v.fs /\ u.desc = v.desc /\ u.duped = v.duped
    /\ u.duped = s.duped
    /\ \A h \in Slots : At(v, h) = IF h[1] = c /\ h[2] >= i THEN NoDesc ELSE At(u, h)
    /\ \A n \in Nodes : s.fs.ino[n].live => u.fs.ino[n].live
    /\ \A d \in Desc : u.desc[d].ino = s.desc[d].ino

LEMMA ForkKeeps ==
  ASSUME NEW k, NEW s, SInv(s, k), NEW p \in Pid, NEW c \in Pid, p # c,
         \A i \in Slot : s.fd[c][i] = NoDesc,
         \A i \in Slot : s.fd[p][i] # NoDesc => s.fs.ino[InoOf(s, p, i)].live,
         NEW u, u = fork_files(s, p, c)
  PROVE  SInv(u, k) /\ Spares(s, u, c)
<1>1. PICK b : b = Copied(s, p, c)
  OBVIOUS
<1>2. PICK w : /\ w[0] = b /\ w[NumFiles] = fork_files(s, p, c)
               /\ \A i \in 1..NumFiles : w[i] = ForkTurn(c, w[i - 1], i - 1)
  BY <1>1, ForkRuns
<1>3. NumFiles \in Nat /\ Slot = 0..(NumFiles - 1)
  BY FilesAssumption DEF Slot
<1>4. s \in States
  BY DEF SInv
<1>a. /\ b \in States /\ b.fs = s.fs /\ b.desc = s.desc /\ b.duped = s.duped
      /\ SlotsCopied(s, b, p, c)
  BY <1>1, <1>4, CopiedIs
<1>5. /\ b \in States /\ b.fs = s.fs /\ b.desc = s.desc /\ b.duped = s.duped
      /\ \A q \in Pid, i \in Slot : b.fd[q][i] = IF q = c THEN s.fd[p][i] ELSE s.fd[q][i]
  BY <1>a DEF SlotsCopied
<1>6. PICK U : U = {i \in Nat : i <= NumFiles => /\ w[i].fd = b.fd /\ w[i] \in States
                                                 /\ \E v : Forking(s, k, c, i, w[i], v)}
  OBVIOUS
<1>7. 0 \in U
  <2>1. Forking(s, k, c, 0, b, s)
    <3>1. ASSUME NEW h \in Slots
          PROVE  At(s, h) = IF h[1] = c /\ h[2] >= 0 THEN NoDesc ELSE At(b, h)
      <4>1. h[1] \in Pid /\ h[2] \in Slot /\ h[2] >= 0
        BY <1>3, SlotFacts
      <4> QED BY <1>5, <4>1 DEF At
    <3> QED BY <1>5, <3>1 DEF Forking
  <2> QED BY <1>2, <1>5, <1>6, <2>1
<1>8. ASSUME NEW i \in Nat, i \in U PROVE i + 1 \in U
  <2> SUFFICES ASSUME i + 1 <= NumFiles
               PROVE  /\ w[i + 1].fd = b.fd /\ w[i + 1] \in States
                      /\ \E v : Forking(s, k, c, i + 1, w[i + 1], v)
    BY <1>6
  <2>1. PICK x, y : x = w[i] /\ y = w[i + 1]
    OBVIOUS
  <2>2. x.fd = b.fd /\ x \in States /\ \E v : Forking(s, k, c, i, x, v)
    BY <1>3, <1>6, <1>8, <2>1
  <2>3. PICK v : Forking(s, k, c, i, x, v)
    BY <2>2
  <2>4. i + 1 \in 1..NumFiles /\ (i + 1) - 1 = i /\ i \in Slot
    BY <1>3
  <2>5. y = ForkTurn(c, x, i)
    BY <1>2, <2>1, <2>4
  <2>6. PICK hc : hc = <<c, i>>
    OBVIOUS
  <2>7. hc \in Slots /\ hc[1] = c /\ hc[2] = i /\ At(x, hc) = x.fd[c][i]
    BY <2>4, <2>6, SlotFacts DEF At
  <2>8. \A h \in Slots : h # hc /\ h[1] = c => (h[2] >= i <=> h[2] >= i + 1)
    <3>1. ASSUME NEW h \in Slots, h # hc, h[1] = c PROVE h[2] >= i <=> h[2] >= i + 1
      <4>1. h[2] \in Nat /\ h = <<h[1], h[2]>>
        BY <1>3, SlotFacts
      <4>2. h[2] # i
        BY <2>6, <3>1, <4>1
      <4> QED BY <4>1, <4>2
    <3> QED BY <3>1
  <2>9. CASE x.fd[c][i] = NoDesc
    <3>1. y = x
      BY <2>5, <2>9 DEF ForkTurn
    <3>2. ASSUME NEW h \in Slots
          PROVE  At(v, h) = IF h[1] = c /\ h[2] >= i + 1 THEN NoDesc ELSE At(x, h)
      <4>1. At(v, h) = IF h[1] = c /\ h[2] >= i THEN NoDesc ELSE At(x, h)
        BY <2>3 DEF Forking
      <4>2. CASE h = hc
        BY <2>7, <2>9, <4>1, <4>2
      <4>3. CASE h # hc
        BY <2>8, <4>1, <4>3
      <4> QED BY <4>2, <4>3
    <3>3. Forking(s, k, c, i + 1, x, v)
      BY <2>3, <3>2 DEF Forking
    <3> QED BY <2>1, <2>2, <3>1, <3>3
  <2>10. CASE x.fd[c][i] # NoDesc
    <3>1. PICK d, n, z : d = x.fd[c][i] /\ n = x.desc[d].ino /\ z = vfs_open(x.fs, n)
      OBVIOUS
    <3>2. d = s.fd[p][i] /\ d # NoDesc /\ s.fd[p][i] # NoDesc
      BY <1>5, <2>2, <2>4, <2>10, <3>1
    <3>3. /\ d \in Desc /\ n = s.desc[d].ino /\ n \in Nodes \ Keys /\ s.fs.ino[n].live
      <4>1. PICK m : m = InoOf(s, p, i)
        OBVIOUS
      <4>2. /\ s \in States /\ d \in Desc /\ s.desc[d].users \in Nat /\ s.desc[d].users # 0
            /\ m = s.desc[d].ino /\ m \in Nodes \ Keys /\ s.desc[d] = [ino |-> m, users |-> s.desc[d].users]
            /\ <<p, i>> \in Slots /\ At(s, <<p, i>>) = d
        BY <2>4, <3>2, <4>1, HeldSlot
      <4>3. n = m
        BY <2>3, <3>1, <4>2 DEF Forking
      <4> QED BY <2>4, <3>2, <4>1, <4>2, <4>3
    <3>4. SInv(v, k) /\ v \in States /\ x.fs = v.fs /\ x.desc = v.desc /\ x.duped = v.duped
          /\ x.duped = s.duped
      BY <2>3 DEF Forking, SInv
    <3>5. x.fs \in FileSystem /\ Kept(x.fs) /\ x.fs.ino[n].live
      BY <2>3, <3>3, <3>4, StateFields DEF Forking, SInv
    <3>6. z \in FileSystem /\ \A m \in Nodes : z.ino[m].live = x.fs.ino[m].live
      <4>1. PICK f : f = x.fs
        OBVIOUS
      <4>2. f \in FileSystem /\ Kept(f) /\ n \in Nodes /\ f.ino[n].live /\ z = vfs_open(f, n)
        BY <3>1, <3>3, <3>5, <4>1
      <4>3. z \in FileSystem /\ \A m \in Nodes : z.ino[m].live = f.ino[m].live
        BY <4>2, OpenIs
      <4> QED BY <4>1, <4>3
    <3>7. PICK de : de = [x.desc EXCEPT ![d] = [ino |-> n, users |-> x.desc[d].users + 1]]
      OBVIOUS
    <3>8. y = [fs |-> z, fd |-> b.fd, desc |-> de, duped |-> s.duped]
      <4>1. PICK f, g, D : f = x.fs /\ g = x.desc /\ D = x.duped
        OBVIOUS
      <4>2. x = [fs |-> f, fd |-> b.fd, desc |-> g, duped |-> D]
        BY <2>2, <4>1, StateFields
      <4>3. g[d] \in [ino : Nodes \cup {None}, users : Nat]
        BY <2>2, <3>3, <4>1, StateFields
      <4>4. [g[d] EXCEPT !.users = @ + 1] = [ino |-> n, users |-> g[d].users + 1]
        BY <3>1, <4>1, <4>3
      <4>5. [g EXCEPT ![d].users = @ + 1] = de
        BY <3>7, <4>1, <4>4
      <4>6. fd_get(x, d) = [fs |-> f, fd |-> b.fd, desc |-> de, duped |-> D]
        BY <4>2, <4>5 DEF fd_get
      <4>7. InoOf(x, c, i) = n
        BY <3>1 DEF InoOf
      <4>8. y = [fd_get(x, d) EXCEPT !.fs = vfs_open(@, n)]
        BY <2>5, <2>10, <3>1, <4>7 DEF ForkTurn
      <4>9. y = [fs |-> vfs_open(f, n), fd |-> b.fd, desc |-> de, duped |-> D]
        BY <4>6, <4>8
      <4> QED BY <3>1, <3>4, <4>1, <4>9
    <3>9. PICK D : D = s.duped
      OBVIOUS
    <3>10. D \in SUBSET (Nodes \ Keys) /\ n \in Nodes \cup {None}
      BY <1>4, <3>3, <3>9, StateFields
    <3>11. PICK v1 : v1 = Put(v, c, i, d, n, z, D)
      OBVIOUS
    <3>12. v1 \in States /\ v1.fs = z /\ v1.duped = D /\ Attached(v, v1, <<c, i>>, d, n)
      <4>1. v \in States /\ i \in Slot /\ d \in Desc /\ z \in FileSystem
        BY <2>4, <3>3, <3>4, <3>6
      <4> QED BY <3>10, <3>11, <4>1, PutIs
    <3>13. Attached(v, v1, hc, d, n)
      BY <2>6, <3>12
    <3>14. At(v, hc) = NoDesc
      <4>1. hc[2] >= i
        BY <2>4, <2>7, <1>3
      <4> QED BY <2>3, <2>7, <4>1 DEF Forking
    <3>15. SInv(v1, k)
      <4>1. v.desc[d].ino = n /\ v.fs.ino[n].live /\ v1.fs = vfs_open(v.fs, n) /\ v1.duped = v.duped
        BY <3>1, <3>4, <3>5, <3>9, <3>12
      <4> QED BY <2>7, <3>3, <3>4, <3>12, <3>13, <3>14, <4>1, OpenSlot
    <3>16. y.fs = z /\ y.fd = b.fd /\ y.desc = de /\ y.duped = s.duped
      BY <3>8
    <3>17. v1.desc = de
      BY <3>4, <3>7, <3>11 DEF Put
    <3>18. y \in States
      <4>1. b.fd \in [Pid -> [Slot -> Desc \cup {NoDesc}]] /\ s.duped \subseteq Nodes \ Keys
            /\ de \in [Desc -> [ino : Nodes \cup {None}, users : Nat]]
        BY <1>4, <1>5, <3>12, <3>17, StateFields
      <4> QED BY <3>6, <3>8, <4>1 DEF States
    <3>19. ASSUME NEW h \in Slots
           PROVE  At(v1, h) = IF h[1] = c /\ h[2] >= i + 1 THEN NoDesc ELSE At(y, h)
      <4>1. At(v, h) = IF h[1] = c /\ h[2] >= i THEN NoDesc ELSE At(x, h)
        BY <2>3 DEF Forking
      <4>2. At(y, h) = At(x, h)
        BY <2>2, <3>16 DEF At
      <4>3. CASE h = hc
        <5>1. At(v1, h) = d /\ At(x, h) = d
          BY <2>7, <3>1, <3>13, <4>3 DEF Attached
        <5>2. ~(h[2] >= i + 1)
          BY <2>7, <4>3
        <5> QED BY <4>2, <5>1, <5>2
      <4>4. CASE h # hc
        <5>1. At(v1, h) = At(v, h)
          BY <3>13, <4>4 DEF Attached
        <5> QED BY <2>8, <4>1, <4>2, <4>4, <5>1
      <4> QED BY <4>3, <4>4
    <3>20. \A e \in Desc : de[e].ino = s.desc[e].ino
      <4>1. \A e \in Desc : v1.desc[e] = IF e = d THEN [ino |-> n, users |-> v.desc[d].users + 1]
                                        ELSE v.desc[e]
        BY <3>12 DEF Attached
      <4>2. \A e \in Desc : v.desc[e].ino = s.desc[e].ino
        BY <2>3, <3>4 DEF Forking
      <4>3. v1.desc[d].ino = n
        BY <3>3, <4>1
      <4> QED BY <3>3, <3>17, <4>1, <4>2, <4>3
    <3>21. \A m \in Nodes : s.fs.ino[m].live => z.ino[m].live
      BY <2>3, <3>6 DEF Forking
    <3>22. Forking(s, k, c, i + 1, y, v1)
      BY <3>9, <3>12, <3>15, <3>16, <3>17, <3>19, <3>20, <3>21 DEF Forking
    <3> QED BY <2>1, <3>16, <3>18, <3>22
  <2> QED BY <2>9, <2>10
<1>9. NumFiles \in U
  BY <1>3, <1>7, <1>8, InductSet
<1>10. u.fd = b.fd /\ u \in States /\ \E v : Forking(s, k, c, NumFiles, u, v)
  BY <1>2, <1>3, <1>6, <1>9
<1>11. PICK v : Forking(s, k, c, NumFiles, u, v)
  BY <1>10
<1>12. ASSUME NEW h \in Slots PROVE At(u, h) = At(v, h)
  <2>1. h[2] \in Slot
    BY SlotFacts
  <2>2. ~(h[2] >= NumFiles)
    BY <1>3, <2>1
  <2> QED BY <1>11, <2>2 DEF Forking
<1>13. v \in States /\ SInv(v, k) /\ u.fs = v.fs /\ u.desc = v.desc /\ u.duped = v.duped
  BY <1>11 DEF Forking, SInv
<1>14. u = v
  BY <1>10, <1>12, <1>13, SameState
<1>15. Spares(s, u, c)
  BY <1>5, <1>10 DEF Spares
<1> QED BY <1>13, <1>14, <1>15

-----------------------------------------------------------------------------
(* The names of descriptors.  Only who shares one matters.                 *)

NameOf(s, d) == CHOOSE h \in Slots : At(s, h) = d
NamesIn(s)   == {NameOf(s, d) : d \in {At(s, h) : h \in Slots} \ {NoDesc}}

\* The state that Becomes makes of s
Renames(s, w) ==
    /\ w.fs = s.fs
    /\ \A h \in Slots : At(w, h) = IF At(s, h) # NoDesc THEN NameOf(s, At(s, h)) ELSE NoDesc
    /\ \A h \in Slots : w.desc[h] = IF h \in NamesIn(s) THEN s.desc[At(s, h)] ELSE Unused
    /\ w.duped = {n \in s.duped : HoldersIn(s, n) # {} \/ s.fs.ino[n].users # 0}

LEMMA NameFacts ==
  ASSUME NEW s, NEW h \in Slots, At(s, h) # NoDesc
  PROVE  /\ NameOf(s, At(s, h)) \in Slots /\ At(s, NameOf(s, At(s, h))) = At(s, h)
         /\ NameOf(s, At(s, h)) \in NamesIn(s)
<1>1. \E g \in Slots : At(s, g) = At(s, h)
  OBVIOUS
<1>2. NameOf(s, At(s, h)) \in Slots /\ At(s, NameOf(s, At(s, h))) = At(s, h)
  BY <1>1 DEF NameOf
<1> QED BY <1>2 DEF NamesIn

LEMMA RenamesKeeps ==
  ASSUME NEW k, NEW s, SInv(s, k), NEW w \in States, Renames(s, w)
  PROVE  /\ SInv(w, k) /\ \A h \in Slots : At(w, h) = NoDesc <=> At(s, h) = NoDesc
<1>1. s \in States /\ Kept(s.fs) /\ Trees(s.fs) /\ Shared(s) /\ Leading(s) /\ (k > 1 => Rooted(s.fs))
  BY DEF SInv
<1>2. ASSUME NEW h \in Slots
      PROVE  /\ At(s, h) = NoDesc => At(w, h) = NoDesc
             /\ At(s, h) # NoDesc => /\ At(w, h) = NameOf(s, At(s, h)) /\ At(w, h) \in Slots
                                     /\ At(w, h) # NoDesc /\ At(s, At(w, h)) = At(s, h)
                                     /\ At(w, h) \in NamesIn(s)
                                     /\ w.desc[At(w, h)] = s.desc[At(s, h)]
  <2>1. At(w, h) = IF At(s, h) # NoDesc THEN NameOf(s, At(s, h)) ELSE NoDesc
    BY DEF Renames
  <2>2. CASE At(s, h) # NoDesc
    <3>1. PICK g : g = At(w, h)
      OBVIOUS
    <3>2. g = NameOf(s, At(s, h)) /\ g \in Slots /\ At(s, g) = At(s, h) /\ g \in NamesIn(s)
      BY <2>1, <2>2, <3>1, NameFacts
    <3>3. w.desc[g] = s.desc[At(s, h)]
      BY <3>2 DEF Renames
    <3> QED BY <2>2, <3>1, <3>2, <3>3, SlotFacts
  <2> QED BY <2>1, <2>2
<1>3. ASSUME NEW m PROVE HoldersIn(w, m) = HoldersIn(s, m)
  <2>1. /\ HoldersIn(w, m) = {g \in Slots : At(w, g) # NoDesc /\ w.desc[At(w, g)].ino = m}
        /\ HoldersIn(s, m) = {g \in Slots : At(s, g) # NoDesc /\ s.desc[At(s, g)].ino = m}
    BY SlotFacts
  <2>2. \A g \in Slots : g \in HoldersIn(w, m) <=> g \in HoldersIn(s, m)
    BY <1>2, <2>1
  <2>3. HoldersIn(w, m) \subseteq Slots /\ HoldersIn(s, m) \subseteq Slots
    BY <2>1
  <2> QED BY <2>2, <2>3
<1>4. Shared(w)
  <2> SUFFICES ASSUME NEW e \in Desc PROVE w.desc[e].users = Cardinality(SlotsOf(w, e))
    BY DEF Shared
  <2>0. e \in Slots
    BY SlotFacts
  <2>1. w.desc[e] = IF e \in NamesIn(s) THEN s.desc[At(s, e)] ELSE Unused
    BY <2>0 DEF Renames
  <2>2. CASE e \in NamesIn(s)
    <3>1. PICK d : d \in {At(s, h) : h \in Slots} \ {NoDesc} /\ e = NameOf(s, d)
      BY <2>2 DEF NamesIn
    <3>2. PICK h \in Slots : d = At(s, h) /\ d # NoDesc
      BY <3>1
    <3>3. At(s, e) = d /\ d \in Desc
      BY <1>1, <3>1, <3>2, NameFacts, StateFields
    <3>4. \A g \in Slots : At(w, g) = e <=> At(s, g) = d
      <4>1. ASSUME NEW g \in Slots, At(w, g) = e PROVE At(s, g) = d
        <5>1. At(s, g) # NoDesc
          BY <1>2, <2>0, <4>1, SlotFacts
        <5>2. At(s, At(w, g)) = At(s, g)
          BY <1>2, <5>1
        <5> QED BY <3>3, <4>1, <5>2
      <4>2. ASSUME NEW g \in Slots, At(s, g) = d PROVE At(w, g) = e
        BY <1>2, <3>1, <3>2, <4>2
      <4> QED BY <4>1, <4>2
    <3>5. SlotsOf(w, e) = SlotsOf(s, d)
      BY <3>4 DEF SlotsOf
    <3>6. s.desc[d].users = Cardinality(SlotsOf(s, d))
      BY <1>1, <3>3 DEF Shared
    <3> QED BY <2>1, <2>2, <3>3, <3>5, <3>6
  <2>3. CASE e \notin NamesIn(s)
    <3>1. \A g \in Slots : At(w, g) # e
      BY <1>2, <2>0, <2>3, SlotFacts
    <3>2. SlotsOf(w, e) = {}
      BY <3>1 DEF SlotsOf
    <3>3. w.desc[e].users = 0
      BY <2>1, <2>3 DEF Unused
    <3> QED BY <3>2, <3>3, FS_EmptySet
  <2> QED BY <2>2, <2>3
<1>5. Leading(w)
  BY <1>1, <1>2 DEF Leading
<1>6. w.fs = s.fs /\ w.duped = {n \in s.duped : HoldersIn(s, n) # {} \/ s.fs.ino[n].users # 0}
  BY DEF Renames
<1>7. Counted(w, k)
  <2> SUFFICES ASSUME NEW n \in Nodes \ w.duped
               PROVE  Counts(s.fs.ino[n], Cardinality(HoldersIn(s, n)) + DriverAt(k, n))
    BY <1>3, <1>6 DEF Counted
  <2>1. CASE n \notin s.duped
    BY <2>1 DEF SInv, Counted
  <2>2. CASE n \in s.duped
    <3>1. HoldersIn(s, n) = {} /\ s.fs.ino[n].users = 0
      BY <1>6, <2>2
    <3>2. n \notin Keys
      BY <1>1, <2>2, StateFields
    <3>3. Cardinality(HoldersIn(s, n)) = 0 /\ DriverAt(k, n) = 0
      BY <3>1, <3>2, FS_EmptySet DEF DriverAt
    <3> QED BY <3>1, <3>3 DEF Counts
  <2> QED BY <2>1, <2>2
<1>8. Late(w)
  <2> SUFFICES ASSUME s.fs.stale PROVE \E n \in w.duped : ~s.fs.ino[n].live /\ s.fs.ino[n].users < 0
    BY <1>6 DEF Late
  <2>1. PICK n \in s.duped : ~s.fs.ino[n].live /\ s.fs.ino[n].users < 0
    BY DEF SInv, Late
  <2>2. s.fs.ino[n].users # 0
    BY <2>1
  <2> QED BY <1>6, <2>1, <2>2
<1>9. \A h \in Slots : At(w, h) = NoDesc <=> At(s, h) = NoDesc
  BY <1>2
<1> QED BY <1>1, <1>4, <1>5, <1>6, <1>7, <1>8, <1>9 DEF SInv

\* An operation that keeps the invariant keeps it in the variables.
LEMMA BecomesRenames ==
  ASSUME NEW s, s \in States, Becomes(s)
  PROVE  files' \in States /\ Renames(s, files')
<1>1. /\ fs' = s.fs
      /\ fd' = [p \in Pid |-> [i \in Slot |-> IF InUse(s, p, i) THEN NameOf(s, s.fd[p][i]) ELSE NoDesc]]
      /\ desc' = [h \in Desc |-> IF h \in NamesIn(s) THEN s.desc[s.fd[h[1]][h[2]]] ELSE Unused]
      /\ duped' = {n \in s.duped : HoldersIn(s, n) # {} \/ s.fs.ino[n].users # 0}
  BY DEF Becomes, NameOf, NamesIn, Slots, At
<1>2. PICK w : w = files'
  OBVIOUS
<1>3. w = [fs |-> fs', fd |-> fd', desc |-> desc', duped |-> duped']
  BY <1>2 DEF files
<1>4. w.fs = fs' /\ w.fd = fd' /\ w.desc = desc' /\ w.duped = duped'
  BY <1>3
<1>5. \A p \in Pid, i \in Slot : w.fd[p][i] = IF s.fd[p][i] # NoDesc THEN NameOf(s, s.fd[p][i]) ELSE NoDesc
  BY <1>1, <1>4 DEF InUse
<1>6. \A h \in Slots : At(w, h) = IF At(s, h) # NoDesc THEN NameOf(s, At(s, h)) ELSE NoDesc
  BY <1>5, SlotFacts DEF At
<1>7. \A h \in Slots : w.desc[h] = IF h \in NamesIn(s) THEN s.desc[At(s, h)] ELSE Unused
  <2> SUFFICES ASSUME NEW h \in Slots
               PROVE  w.desc[h] = IF h \in NamesIn(s) THEN s.desc[At(s, h)] ELSE Unused
    OBVIOUS
  <2>1. h \in Desc
    BY SlotFacts
  <2> QED BY <1>1, <1>4, <2>1 DEF At
<1>8. Renames(s, w)
  BY <1>1, <1>4, <1>6, <1>7 DEF Renames
<1>9. fd' \in [Pid -> [Slot -> Desc \cup {NoDesc}]]
  <2>1. ASSUME NEW p \in Pid, NEW i \in Slot, s.fd[p][i] # NoDesc PROVE NameOf(s, s.fd[p][i]) \in Desc
    <3>1. PICK h : h = <<p, i>>
      OBVIOUS
    <3>2. h \in Slots /\ At(s, h) = s.fd[p][i]
      BY <3>1, SlotFacts DEF At
    <3>3. NameOf(s, At(s, h)) \in Slots
      BY <2>1, <3>2, NameFacts
    <3> QED BY <3>2, <3>3, SlotFacts
  <2> QED BY <1>1, <2>1 DEF InUse
<1>10. desc' \in [Desc -> [ino : Nodes \cup {None}, users : Nat]]
  <2>1. ASSUME NEW h \in Desc, h \in NamesIn(s)
        PROVE  s.desc[s.fd[h[1]][h[2]]] \in [ino : Nodes \cup {None}, users : Nat]
    <3>1. PICK d : d \in {At(s, g) : g \in Slots} \ {NoDesc} /\ h = NameOf(s, d)
      BY <2>1 DEF NamesIn
    <3>2. PICK g \in Slots : d = At(s, g) /\ d # NoDesc
      BY <3>1
    <3>3. At(s, h) = d /\ d \in Desc
      BY <3>1, <3>2, NameFacts, StateFields
    <3>4. s.desc[d] \in [ino : Nodes \cup {None}, users : Nat]
      BY <3>3, StateFields
    <3> QED BY <3>3, <3>4 DEF At
  <2>2. Unused \in [ino : Nodes \cup {None}, users : Nat]
    BY DEF Unused
  <2> QED BY <1>1, <2>1, <2>2
<1>11. fs' \in FileSystem /\ duped' \subseteq Nodes \ Keys
  BY <1>1, StateFields
<1>12. w \in States
  BY <1>3, <1>9, <1>10, <1>11 DEF States
<1> QED BY <1>2, <1>8, <1>12

-----------------------------------------------------------------------------
(* The mount tree grows.                                                   *)

\* Of an inode that changes hands only the links do.
Keep(x, z)  == z.live = x.live /\ z.users = x.users /\ z.refs = x.refs
Alike(x, z) == /\ Keep(x, z) /\ z.name = x.name /\ z.parent = x.parent /\ z.child = x.child
               /\ z.older = x.older

LinksSet(x, z, parent, child, older, younger, name) ==
    /\ z \in Record /\ Keep(x, z) /\ z.parent = parent /\ z.child = child /\ z.older = older
    /\ z.younger = younger /\ z.name = name

LEMMA RecordIs ==
  ASSUME NEW x \in Record
  PROVE  /\ x = [live |-> x.live, name |-> x.name, users |-> x.users, refs |-> x.refs,
                 parent |-> x.parent, child |-> x.child, older |-> x.older, younger |-> x.younger]
         /\ x.live \in BOOLEAN /\ x.name \in Names /\ x.users \in Int /\ x.refs \in Nat
         /\ x.parent \in Nodes \cup {None} /\ x.child \in Nodes \cup {None}
         /\ x.older \in Nodes \cup {None} /\ x.younger \in Nodes \cup {None}
BY DEF Record

WithParent(x, v)  == [x EXCEPT !.parent = v]
WithChild(x, v)   == [x EXCEPT !.child = v]
WithOlder(x, v)   == [x EXCEPT !.older = v]
WithYounger(x, v) == [x EXCEPT !.younger = v]
WithName(x, v)    == [x EXCEPT !.name = v]

LEMMA LinkFields ==
  ASSUME NEW x \in Record, NEW v \in Nodes \cup {None}, NEW z
  PROVE  /\ z = WithParent(x, v) => LinksSet(x, z, v, x.child, x.older, x.younger, x.name)
         /\ z = WithChild(x, v) => LinksSet(x, z, x.parent, v, x.older, x.younger, x.name)
         /\ z = WithOlder(x, v) => LinksSet(x, z, x.parent, x.child, v, x.younger, x.name)
         /\ z = WithYounger(x, v) => LinksSet(x, z, x.parent, x.child, x.older, v, x.name)
<1>1. /\ x = [live |-> x.live, name |-> x.name, users |-> x.users, refs |-> x.refs,
                 parent |-> x.parent, child |-> x.child, older |-> x.older, younger |-> x.younger]
      /\ x.live \in BOOLEAN /\ x.name \in Names /\ x.users \in Int /\ x.refs \in Nat
      /\ x.parent \in Nodes \cup {None} /\ x.child \in Nodes \cup {None}
      /\ x.older \in Nodes \cup {None} /\ x.younger \in Nodes \cup {None}
  BY RecordIs
<1>2. z = WithParent(x, v) => LinksSet(x, z, v, x.child, x.older, x.younger, x.name)
  BY <1>1 DEF WithParent, LinksSet, Keep, Record
<1>3. z = WithChild(x, v) => LinksSet(x, z, x.parent, v, x.older, x.younger, x.name)
  BY <1>1 DEF WithChild, LinksSet, Keep, Record
<1>4. z = WithOlder(x, v) => LinksSet(x, z, x.parent, x.child, v, x.younger, x.name)
  BY <1>1 DEF WithOlder, LinksSet, Keep, Record
<1>5. z = WithYounger(x, v) => LinksSet(x, z, x.parent, x.child, x.older, v, x.name)
  BY <1>1 DEF WithYounger, LinksSet, Keep, Record
<1> QED BY <1>2, <1>3, <1>4, <1>5

LEMMA NameField ==
  ASSUME NEW x \in Record, NEW v \in Names, NEW z, z = WithName(x, v)
  PROVE  LinksSet(x, z, x.parent, x.child, x.older, x.younger, v)
<1>1. /\ x = [live |-> x.live, name |-> x.name, users |-> x.users, refs |-> x.refs,
                 parent |-> x.parent, child |-> x.child, older |-> x.older, younger |-> x.younger]
      /\ x.live \in BOOLEAN /\ x.name \in Names /\ x.users \in Int /\ x.refs \in Nat
      /\ x.parent \in Nodes \cup {None} /\ x.child \in Nodes \cup {None}
      /\ x.older \in Nodes \cup {None} /\ x.younger \in Nodes \cup {None}
  BY RecordIs
<1> QED BY <1>1 DEF WithName, LinksSet, Keep, Record

\* u is t but for the links and names of nodes.
Relinked(t, u) ==
    /\ u \in FileSystem /\ u.root = t.root /\ u.stale = t.stale /\ u.image = t.image
    /\ \A m \in Nodes : Keep(t.ino[m], u.ino[m])

LEMMA SetLinks ==
  ASSUME NEW t \in FileSystem, NEW n \in Nodes, NEW z \in Record, Keep(t.ino[n], z),
         NEW u, u = SetIno(t, n, z)
  PROVE  Relinked(t, u) /\ u.ino[n] = z /\ \A m \in Nodes \ {n} : u.ino[m] = t.ino[m]
<1>2. /\ u \in FileSystem /\ u.root = t.root /\ u.stale = t.stale /\ u.image = t.image
      /\ u.ino[n] = z /\ \A m \in Nodes \ {n} : u.ino[m] = t.ino[m]
  BY SetInoIs
<1>3. \A m \in Nodes : Keep(t.ino[m], u.ino[m])
  BY <1>2 DEF Keep
<1> QED BY <1>2, <1>3 DEF Relinked

Upd(f, n, x) == [f EXCEPT ![n] = x]

Made(f, r, stale, image) == [ino |-> f, root |-> r, stale |-> stale, image |-> image]

LEMMA SetMade ==
  ASSUME NEW f, NEW r, NEW stale, NEW image, NEW t, t = Made(f, r, stale, image),
         NEW n, NEW x, NEW g, g = Upd(f, n, x)
  PROVE  SetIno(t, n, x) = Made(g, r, stale, image)
BY DEF SetIno, Made, Upd

LEMMA RelinkedTrans ==
  ASSUME NEW t, NEW u, NEW w, Relinked(t, u), Relinked(u, w)
  PROVE  Relinked(t, w)
BY DEF Relinked, Keep

LEMMA LinkIs ==
  ASSUME NEW t \in FileSystem, NEW dir \in Nodes, NEW y \in Nodes, y # dir, NEW u, u = Link(t, dir, y)
  PROVE  /\ Relinked(t, u) /\ (\A m \in Nodes \ {y, dir} : u.ino[m] = t.ino[m])
         /\ u.ino[y].parent = dir /\ u.ino[y].older = t.ino[dir].child
         /\ u.ino[y].child = t.ino[y].child /\ u.ino[y].younger = t.ino[y].younger
         /\ u.ino[y].name = t.ino[y].name
         /\ u.ino[dir].parent = t.ino[dir].parent /\ u.ino[dir].older = t.ino[dir].older
         /\ u.ino[dir].child = y /\ u.ino[dir].younger = t.ino[dir].younger
         /\ u.ino[dir].name = t.ino[dir].name
<1>1. PICK f, c : f = t.ino /\ c = t.ino[dir].child
  OBVIOUS
<1>2. /\ t = Made(f, t.root, t.stale, t.image)
      /\ f \in [Nodes -> Record] /\ c \in Nodes \cup {None}
  BY <1>1, Fields DEF FileSystem, Made
<1>3. PICK x1, x2, x3 : x1 = WithParent(f[y], dir) /\ x2 = WithOlder(x1, c) /\ x3 = WithChild(f[dir], y)
  OBVIOUS
<1>4. PICK t1, t2 : t1 = SetIno(t, y, x1) /\ t2 = SetIno(t1, y, x2)
  OBVIOUS
<1>5. /\ f[y] \in Record /\ f[dir] \in Record /\ dir \in Nodes \cup {None} /\ y \in Nodes \cup {None}
  BY <1>2
<1>6. LinksSet(f[y], x1, dir, f[y].child, f[y].older, f[y].younger, f[y].name)
  BY <1>3, <1>5, LinkFields
<1>7. x1 \in Record
  BY <1>6 DEF LinksSet
<1>8. LinksSet(x1, x2, x1.parent, x1.child, c, x1.younger, x1.name)
  BY <1>2, <1>3, <1>7, LinkFields
<1>9. LinksSet(f[dir], x3, f[dir].parent, y, f[dir].older, f[dir].younger, f[dir].name)
  BY <1>3, <1>5, LinkFields
<1>a. Relinked(t, t1) /\ t1.ino[y] = x1 /\ \A m \in Nodes \ {y} : t1.ino[m] = t.ino[m]
  <2>1. Keep(t.ino[y], x1) /\ x1 \in Record
    BY <1>1, <1>6 DEF LinksSet
  <2> QED BY <1>4, <2>1, SetLinks
<1>10. /\ Relinked(t, t1) /\ t1.ino[y] = x1 /\ (\A m \in Nodes \ {y} : t1.ino[m] = t.ino[m])
       /\ x1.parent = dir /\ x1.child = f[y].child /\ x1.older = f[y].older
       /\ x1.younger = f[y].younger /\ x1.name = f[y].name
  BY <1>6, <1>a DEF LinksSet
<1>11. t1 \in FileSystem
  BY <1>10 DEF Relinked
<1>b. Relinked(t1, t2) /\ t2.ino[y] = x2 /\ \A m \in Nodes \ {y} : t2.ino[m] = t1.ino[m]
  <2>1. Keep(t1.ino[y], x2) /\ x2 \in Record
    BY <1>8, <1>10 DEF LinksSet
  <2> QED BY <1>4, <1>11, <2>1, SetLinks
<1>12. /\ Relinked(t1, t2) /\ t2.ino[y] = x2 /\ (\A m \in Nodes \ {y} : t2.ino[m] = t1.ino[m])
       /\ x2.parent = x1.parent /\ x2.child = x1.child /\ x2.older = c
       /\ x2.younger = x1.younger /\ x2.name = x1.name
  BY <1>8, <1>b DEF LinksSet
<1>13. t2 \in FileSystem /\ t2.ino[dir] = f[dir]
  BY <1>1, <1>10, <1>12 DEF Relinked
<1>14. u = SetIno(t2, dir, x3)
  <2>1. PICK f1, f2, f3 : f1 = Upd(f, y, x1) /\ f2 = Upd(f1, y, x2) /\ f3 = Upd(f2, dir, x3)
    OBVIOUS
  <2>2. t1 = Made(f1, t.root, t.stale, t.image)
    BY <1>2, <1>4, <2>1, SetMade
  <2>3. t2 = Made(f2, t.root, t.stale, t.image)
    BY <1>4, <2>1, <2>2, SetMade
  <2>4. SetIno(t2, dir, x3) = Made(f3, t.root, t.stale, t.image)
    BY <2>1, <2>3, SetMade
  <2>5. u = Made([f EXCEPT ![y].parent = dir, ![y].older = c, ![dir].child = y],
                 t.root, t.stale, t.image)
    BY <1>1, <1>2 DEF Link, Made
  <2>6. [f EXCEPT ![y].parent = dir] = f1
    BY <1>3, <2>1 DEF WithParent, Upd
  <2>7. [f1 EXCEPT ![y].older = c] = f2
    BY <1>2, <1>3, <2>1 DEF WithOlder, Upd
  <2>8. f2[dir] = f[dir]
    BY <1>2, <2>1 DEF Upd
  <2>9. [f2 EXCEPT ![dir].child = y] = f3
    BY <1>3, <2>1, <2>8 DEF WithChild, Upd
  <2>10. [f EXCEPT ![y].parent = dir, ![y].older = c, ![dir].child = y] = f3
    BY <2>6, <2>7, <2>9
  <2> QED BY <2>4, <2>5, <2>10
<1>c. Relinked(t2, u) /\ u.ino[dir] = x3 /\ \A m \in Nodes \ {dir} : u.ino[m] = t2.ino[m]
  <2>1. Keep(t2.ino[dir], x3) /\ x3 \in Record
    BY <1>9, <1>13 DEF LinksSet
  <2> QED BY <1>13, <1>14, <2>1, SetLinks
<1>15. /\ Relinked(t2, u) /\ u.ino[dir] = x3 /\ (\A m \in Nodes \ {dir} : u.ino[m] = t2.ino[m])
       /\ x3.parent = f[dir].parent /\ x3.child = y /\ x3.older = f[dir].older
       /\ x3.younger = f[dir].younger /\ x3.name = f[dir].name
  BY <1>9, <1>c DEF LinksSet
<1>16. Relinked(t, u)
  BY <1>10, <1>12, <1>15, RelinkedTrans
<1> QED BY <1>1, <1>10, <1>12, <1>15, <1>16

SetParent(t, n, v)  == SetIno(t, n, WithParent(t.ino[n], v))
SetChild(t, n, v)   == SetIno(t, n, WithChild(t.ino[n], v))
SetOlder(t, n, v)   == SetIno(t, n, WithOlder(t.ino[n], v))
SetYounger(t, n, v) == SetIno(t, n, WithYounger(t.ino[n], v))
SetName(t, n, v)    == SetIno(t, n, WithName(t.ino[n], v))

\* Only n changes, and those are its links then.
LinksAt(t, u, n, parent, child, older, name) ==
    /\ Relinked(t, u) /\ \A m \in Nodes \ {n} : u.ino[m] = t.ino[m]
    /\ u.ino[n].parent = parent /\ u.ino[n].child = child /\ u.ino[n].older = older
    /\ u.ino[n].name = name

LEMMA SetIs ==
  ASSUME NEW t \in FileSystem, NEW n \in Nodes, NEW v \in Nodes \cup {None}, NEW u,
         NEW x, x = t.ino[n]
  PROVE  /\ u = SetParent(t, n, v) => LinksAt(t, u, n, v, x.child, x.older, x.name)
         /\ u = SetChild(t, n, v) => LinksAt(t, u, n, x.parent, v, x.older, x.name)
         /\ u = SetOlder(t, n, v) => LinksAt(t, u, n, x.parent, x.child, v, x.name)
         /\ u = SetYounger(t, n, v) => LinksAt(t, u, n, x.parent, x.child, x.older, x.name)
<1>0. x \in Record
  BY Fields
<1>1. ASSUME NEW z, NEW a, NEW b, NEW c, NEW d, LinksSet(x, z, a, b, c, d, x.name), u = SetIno(t, n, z)
      PROVE  LinksAt(t, u, n, a, b, c, x.name)
  <2>1. /\ z \in Record /\ Keep(t.ino[n], z)
        /\ z.parent = a /\ z.child = b /\ z.older = c /\ z.name = x.name
    BY <1>1 DEF LinksSet
  <2>2. Relinked(t, u) /\ u.ino[n] = z /\ \A m \in Nodes \ {n} : u.ino[m] = t.ino[m]
    BY <1>1, <2>1, SetLinks
  <2> QED BY <2>1, <2>2 DEF LinksAt
<1>2. ASSUME u = SetParent(t, n, v) PROVE LinksAt(t, u, n, v, x.child, x.older, x.name)
  <2>1. PICK z : z = WithParent(x, v)
    OBVIOUS
  <2>2. LinksSet(x, z, v, x.child, x.older, x.younger, x.name)
    BY <1>0, <2>1, LinkFields
  <2>3. u = SetIno(t, n, z)
    BY <1>2, <2>1 DEF SetParent
  <2> QED BY <1>1, <2>2, <2>3
<1>3. ASSUME u = SetChild(t, n, v) PROVE LinksAt(t, u, n, x.parent, v, x.older, x.name)
  <2>1. PICK z : z = WithChild(x, v)
    OBVIOUS
  <2>2. LinksSet(x, z, x.parent, v, x.older, x.younger, x.name)
    BY <1>0, <2>1, LinkFields
  <2>3. u = SetIno(t, n, z)
    BY <1>3, <2>1 DEF SetChild
  <2> QED BY <1>1, <2>2, <2>3
<1>4. ASSUME u = SetOlder(t, n, v) PROVE LinksAt(t, u, n, x.parent, x.child, v, x.name)
  <2>1. PICK z : z = WithOlder(x, v)
    OBVIOUS
  <2>2. LinksSet(x, z, x.parent, x.child, v, x.younger, x.name)
    BY <1>0, <2>1, LinkFields
  <2>3. u = SetIno(t, n, z)
    BY <1>4, <2>1 DEF SetOlder
  <2> QED BY <1>1, <2>2, <2>3
<1>5. ASSUME u = SetYounger(t, n, v) PROVE LinksAt(t, u, n, x.parent, x.child, x.older, x.name)
  <2>1. PICK z : z = WithYounger(x, v)
    OBVIOUS
  <2>2. LinksSet(x, z, x.parent, x.child, x.older, v, x.name)
    BY <1>0, <2>1, LinkFields
  <2>3. u = SetIno(t, n, z)
    BY <1>5, <2>1 DEF SetYounger
  <2> QED BY <1>1, <2>2, <2>3
<1> QED BY <1>2, <1>3, <1>4, <1>5

LEMMA SetNameIs ==
  ASSUME NEW t \in FileSystem, NEW n \in Nodes, NEW v \in Names, NEW u, u = SetName(t, n, v),
         NEW x, x = t.ino[n]
  PROVE  LinksAt(t, u, n, x.parent, x.child, x.older, v)
<1>0. x \in Record
  BY Fields
<1>1. PICK z : z = WithName(x, v)
  OBVIOUS
<1>2. LinksSet(x, z, x.parent, x.child, x.older, x.younger, v)
  BY <1>0, <1>1, NameField
<1>3. u = SetIno(t, n, z)
  BY <1>1 DEF SetName
<1>4. /\ z \in Record /\ Keep(t.ino[n], z)
      /\ z.parent = x.parent /\ z.child = x.child /\ z.older = x.older /\ z.name = v
  BY <1>2 DEF LinksSet
<1>5. Relinked(t, u) /\ u.ino[n] = z /\ \A m \in Nodes \ {n} : u.ino[m] = t.ino[m]
  BY <1>3, <1>4, SetLinks
<1> QED BY <1>4, <1>5 DEF LinksAt

LEMMA ReplaceIs ==
  ASSUME NEW t \in FileSystem, NEW old \in Nodes, NEW new \in Nodes, NEW up \in Nodes,
         old # new, up # old, up # new, t.root # old,
         NEW older \in Nodes \cup {None}, older # old, older # new, older = t.ino[old].older,
         t.ino[old].parent = up, t.ino[old].younger = None, t.ino[up].child = old,
         NEW u, u = Replace(t, old, new)
  PROVE  /\ Relinked(t, u)
         /\ \A m \in Nodes \ {old, new, up} : Alike(t.ino[m], u.ino[m])
         /\ \A m \in Nodes \ {old, new, up, older} : u.ino[m] = t.ino[m]
         /\ u.ino[up].parent = t.ino[up].parent /\ u.ino[up].older = t.ino[up].older
         /\ u.ino[up].child = new /\ u.ino[up].name = t.ino[up].name
         /\ u.ino[old].parent = None
         /\ u.ino[new].parent = up /\ u.ino[new].older = older
         /\ u.ino[new].child = t.ino[new].child /\ u.ino[new].name = t.ino[old].name
<1>1. PICK name : name = t.ino[old].name
  OBVIOUS
<1>0. name \in Names /\ None \in Nodes \cup {None} /\ up \in Nodes \cup {None} /\ new \in Nodes \cup {None}
      /\ old \in Nodes \cup {None}
  BY <1>1, Fields
<1>2. PICK t1, t2, t3, t4, t5, t6, t7 :
        /\ t1 = SetParent(t, new, up) /\ t2 = SetParent(t1, old, None) /\ t3 = SetOlder(t2, new, older)
        /\ t4 = SetYounger(t3, new, None) /\ t5 = SetName(t4, new, name)
        /\ t6 = SetChild(t5, up, new)
        /\ t7 = IF older = None THEN t6 ELSE SetYounger(t6, older, old)
  OBVIOUS
<1>3. LinksAt(t, t1, new, up, t.ino[new].child, t.ino[new].older, t.ino[new].name)
  BY <1>0, <1>2, SetIs
<1>4. t1 \in FileSystem
  BY <1>3 DEF LinksAt, Relinked
<1>5. LinksAt(t1, t2, old, None, t1.ino[old].child, t1.ino[old].older, t1.ino[old].name)
  BY <1>0, <1>2, <1>4, SetIs
<1>6. t2 \in FileSystem
  BY <1>5 DEF LinksAt, Relinked
<1>7. LinksAt(t2, t3, new, t2.ino[new].parent, t2.ino[new].child, older, t2.ino[new].name)
  BY <1>2, <1>6, SetIs
<1>8. t3 \in FileSystem
  BY <1>7 DEF LinksAt, Relinked
<1>9. LinksAt(t3, t4, new, t3.ino[new].parent, t3.ino[new].child, t3.ino[new].older, t3.ino[new].name)
  BY <1>0, <1>2, <1>8, SetIs
<1>10. t4 \in FileSystem
  BY <1>9 DEF LinksAt, Relinked
<1>11. LinksAt(t4, t5, new, t4.ino[new].parent, t4.ino[new].child, t4.ino[new].older, name)
  BY <1>0, <1>2, <1>10, SetNameIs
<1>12. t5 \in FileSystem
  BY <1>11 DEF LinksAt, Relinked
<1>13. LinksAt(t5, t6, up, t5.ino[up].parent, new, t5.ino[up].older, t5.ino[up].name)
  BY <1>0, <1>2, <1>12, SetIs
<1>14. t6 \in FileSystem
  BY <1>13 DEF LinksAt, Relinked
<1>15. /\ Relinked(t6, t7) /\ \A m \in Nodes : Alike(t6.ino[m], t7.ino[m])
       /\ \A m \in Nodes \ {older} : t7.ino[m] = t6.ino[m]
  <2>1. CASE older = None
    BY <1>2, <1>14, <2>1 DEF Relinked, Alike, Keep
  <2>2. CASE older # None
    <3>1. older \in Nodes /\ t7 = SetYounger(t6, older, old)
      BY <1>2, <2>2
    <3>2. LinksAt(t6, t7, older, t6.ino[older].parent, t6.ino[older].child, t6.ino[older].older, t6.ino[older].name)
      BY <1>0, <1>14, <3>1, SetIs
    <3> QED BY <3>1, <3>2 DEF LinksAt, Relinked, Alike
  <2> QED BY <2>1, <2>2
<1>16. u = t7
  <2>1. [t EXCEPT !.ino[new].parent = up] = t1
    BY <1>2 DEF SetParent, SetIno, WithParent
  <2>2. [t1 EXCEPT !.ino[old].parent = None] = t2
    BY <1>2 DEF SetParent, SetIno, WithParent
  <2>3. [t2 EXCEPT !.ino[new].older = older] = t3
    BY <1>2 DEF SetOlder, SetIno, WithOlder
  <2>4. [t3 EXCEPT !.ino[new].younger = None] = t4
    BY <1>2 DEF SetYounger, SetIno, WithYounger
  <2>5. [t4 EXCEPT !.ino[new].name = name] = t5
    BY <1>2 DEF SetName, SetIno, WithName
  <2>6. [t5 EXCEPT !.ino[up].child = new] = t6
    BY <1>2 DEF SetChild, SetIno, WithChild
  <2>7. [t EXCEPT !.ino[new].parent = up, !.ino[old].parent = None,
                  !.ino[new].older = older, !.ino[new].younger = None, !.ino[new].name = name] = t5
    BY <2>1, <2>2, <2>3, <2>4, <2>5
  <2>8. t5.ino[up].child = old
    BY <1>3, <1>5, <1>7, <1>9, <1>11 DEF LinksAt
  <2>9. older # None => [t6 EXCEPT !.ino[older].younger = old] = t7
    BY <1>2 DEF SetYounger, SetIno, WithYounger
  <2>10. older = None => t7 = t6
    BY <1>2
  <2>11. [t EXCEPT !.ino[new].parent = t.ino[old].parent, !.ino[old].parent = None,
                   !.ino[new].older = t.ino[old].older, !.ino[new].younger = t.ino[old].younger,
                   !.ino[new].name = t.ino[old].name] = t5
    BY <1>1, <2>7
  <2>12. CASE older = None
    <3>1. u = [t5 EXCEPT !.ino[up].child = new]
      BY <2>8, <2>11, <2>12 DEF Replace, HeadChild, YoungerOf, OlderOf
    <3> QED BY <2>6, <2>10, <2>12, <3>1
  <2>13. CASE older # None
    <3>1. u = [[t5 EXCEPT !.ino[up].child = new] EXCEPT !.ino[older].younger = old]
      BY <2>8, <2>11, <2>13 DEF Replace, HeadChild, YoungerOf, OlderOf
    <3> QED BY <2>6, <2>9, <2>13, <3>1
  <2> QED BY <2>12, <2>13
<1>17. /\ \A m \in Nodes \ {old, new, up} : t6.ino[m] = t.ino[m]
       /\ t6.ino[up].parent = t.ino[up].parent /\ t6.ino[up].older = t.ino[up].older
       /\ t6.ino[up].child = new /\ t6.ino[up].name = t.ino[up].name
       /\ t6.ino[old].parent = None
       /\ t6.ino[new].parent = up /\ t6.ino[new].older = older
       /\ t6.ino[new].child = t.ino[new].child /\ t6.ino[new].name = name
  BY <1>3, <1>5, <1>7, <1>9, <1>11, <1>13 DEF LinksAt
<1>18. Relinked(t, t6)
  BY <1>3, <1>5, <1>7, <1>9, <1>11, <1>13, RelinkedTrans DEF LinksAt
<1>19. Relinked(t, u)
  BY <1>15, <1>16, <1>18, RelinkedTrans
<1>20. \A m \in Nodes \ {old, new, up} : Alike(t.ino[m], u.ino[m])
  BY <1>15, <1>16, <1>17
<1>21. \A m \in Nodes \ {old, new, up, older} : u.ino[m] = t.ino[m]
  BY <1>15, <1>16, <1>17
<1> QED BY <1>1, <1>15, <1>16, <1>17, <1>19, <1>20, <1>21 DEF Alike

\* At boot the entries have no inode, but those that hang in the tree, and the
\* one to be mounted.
Settled(t, new) ==
    /\ t \in FileSystem /\ Kept(t) /\ Trees(t)
    /\ \A n \in TarNodes \ (InTree(t) \cup {new}) : ~t.ino[n].live /\ t.ino[n].users = 0

\* What linking and mounting change no more than
Grown(t, u, new) ==
    /\ Settled(u, new) /\ u.root = t.root /\ u.stale = t.stale
    /\ \A n \in Nodes : u.ino[n].users = t.ino[n].users
    /\ \A n \in Nodes \ TarNodes : u.ino[n].live = t.ino[n].live
    /\ u.ino[u.root].parent = t.ino[t.root].parent

Linked(t, u, dir, y, name, new) ==
    /\ Grown(t, u, new) /\ InTree(u) = InTree(t) \cup {y}
    /\ \A m \in Nodes \ {dir, y} : u.ino[m] = t.ino[m]
    /\ u.ino[dir].child = y /\ u.ino[dir].older = t.ino[dir].older
    /\ u.ino[dir].name = t.ino[dir].name /\ u.ino[dir].parent = t.ino[dir].parent
    /\ u.ino[y].live /\ u.ino[y].refs = 1 /\ u.ino[y].users = 0 /\ u.ino[y].name = name
    /\ u.ino[y].parent = dir /\ u.ino[y].child = None /\ u.ino[y].older = t.ino[dir].child
    /\ u.ino[y].younger = None

LEMMA UpBlank ==
  ASSUME NEW n \in TarNodes, NEW x, ~x.live, n[3] # <<>>, NEW y, y = Up(n, x)
  PROVE  /\ y.live /\ y.refs = 1 /\ y.users = 0 /\ y.name = Last(n[3]) /\ y.parent = None
         /\ y.child = None /\ y.older = None /\ y.younger = None
<1>1. PICK name : name = Last(n[3])
  OBVIOUS
<1>2. y = [Blank EXCEPT !.live = TRUE, !.refs = 1, !.name = name]
  BY <1>1 DEF Up
<1>3. y = [live |-> TRUE, name |-> name, users |-> 0, refs |-> 1,
             parent |-> None, child |-> None, older |-> None, younger |-> None]
  BY <1>2 DEF Blank
<1> QED BY <1>1, <1>3

LEMMA LinkGrows ==
  ASSUME NEW new, NEW t, Settled(t, new), NEW dir \in InTree(t),
         NEW y \in TarNodes \ (InTree(t) \cup {new}), y[3] # <<>>,
         NEW u, u = Link(tar_get_inode(t, y), dir, y), NEW name, name = Last(y[3])
  PROVE  Linked(t, u, dir, y, name, new)
<1>1. /\ t \in FileSystem /\ Kept(t) /\ Trees(t) /\ ~t.ino[y].live /\ t.ino[y].users = 0
      /\ y \in Nodes /\ y \in TarNodes /\ y \notin Keys /\ dir \in Nodes \ Keys /\ t.ino[dir].live /\ dir # y
      /\ y # None /\ dir # None
  BY InTreeLive, NodeNames DEF Settled
<1>2. PICK g : g = tar_get_inode(t, y)
  OBVIOUS
<1>3. /\ Passes(t, g) /\ g.stale = t.stale /\ g.ino[y] = Up(y, t.ino[y]) /\ g.ino[y].live
      /\ \A m \in Nodes \ {y} : g.ino[m] = t.ino[m]
  BY <1>1, <1>2, GetInode
<1>4. /\ g.ino[y].refs = 1 /\ g.ino[y].users = 0 /\ g.ino[y].name = name
      /\ g.ino[y].child = None /\ g.ino[y].younger = None
  BY <1>1, <1>3, UpBlank
<1>5. g \in FileSystem /\ Kept(g) /\ g.root = t.root
  BY <1>3 DEF Passes
<1>6. u = Link(g, dir, y)
  BY <1>2
<1>7. /\ Relinked(g, u) /\ (\A m \in Nodes \ {y, dir} : u.ino[m] = g.ino[m])
         /\ u.ino[y].parent = dir /\ u.ino[y].older = g.ino[dir].child
         /\ u.ino[y].child = g.ino[y].child /\ u.ino[y].younger = g.ino[y].younger
         /\ u.ino[y].name = g.ino[y].name
         /\ u.ino[dir].parent = g.ino[dir].parent /\ u.ino[dir].older = g.ino[dir].older
         /\ u.ino[dir].child = y /\ u.ino[dir].younger = g.ino[dir].younger
         /\ u.ino[dir].name = g.ino[dir].name
  BY <1>1, <1>5, <1>6, LinkIs
<1>8. \A m \in Nodes \ {y, dir} : u.ino[m] = t.ino[m]
  BY <1>3, <1>7
<1>9. /\ u \in FileSystem /\ u.root = t.root /\ u.stale = t.stale
      /\ Keep(g.ino[y], u.ino[y]) /\ Keep(t.ino[dir], u.ino[dir])
  BY <1>1, <1>3, <1>5, <1>7 DEF Relinked
<1>10. InTree(u) = InTree(t) \cup {y}
  <2>1. \A m \in Nodes : m \in InTree(u) <=> m \in InTree(t) \/ m = y
    BY <1>1, <1>3, <1>7, <1>8 DEF InTree, in_vfs_tree
  <2>2. InTree(u) \subseteq Nodes /\ InTree(t) \subseteq Nodes
    BY DEF InTree
  <2> QED BY <1>1, <2>1, <2>2
<1>11. Kept(u)
  <2> SUFFICES ASSUME NEW m \in Nodes PROVE Whole(m, u.ino[m])
    BY DEF Kept
  <2>1. CASE m \notin {y, dir}
    BY <1>1, <1>8, <2>1 DEF Kept
  <2>2. CASE m = y
    <3>1. u.ino[y].live /\ u.ino[y].refs >= 1
      BY <1>3, <1>4, <1>9 DEF Keep
    <3> QED BY <2>2, <3>1, WholeLive
  <2>3. CASE m = dir
    <3>1. Whole(dir, t.ino[dir]) /\ t.ino[dir].live
      BY <1>1 DEF Kept
    <3>2. u.ino[dir].live /\ (IsTar(dir) => u.ino[dir].refs >= 1)
      BY <1>9, <3>1 DEF Whole, Keep
    <3> QED BY <2>3, <3>2, WholeLive
  <2> QED BY <2>1, <2>2, <2>3
<1>12. Trees(u)
  <2>1. u.root \in InTree(u)
    BY <1>1, <1>9, <1>10 DEF Trees
  <2>2. ASSUME NEW n \in InTree(u) PROVE {u.ino[n].child, u.ino[n].older} \subseteq InTree(u) \cup {None}
    <3>1. t.ino[dir].child \in InTree(t) \cup {None} /\ t.ino[dir].older \in InTree(t) \cup {None}
      BY <1>1 DEF Trees
    <3>2. CASE n = y
      BY <1>1, <1>3, <1>4, <1>7, <1>10, <3>1, <3>2
    <3>3. CASE n = dir
      BY <1>1, <1>3, <1>7, <1>10, <3>1, <3>3
    <3>4. CASE n \notin {y, dir}
      <4>1. n \in InTree(t) /\ n \in Nodes
        BY <1>10, <2>2, <3>4 DEF InTree
      <4>2. t.ino[n].child \in InTree(t) \cup {None} /\ t.ino[n].older \in InTree(t) \cup {None}
        BY <1>1, <4>1 DEF Trees
      <4> QED BY <1>8, <1>10, <3>4, <4>1, <4>2
    <3> QED BY <3>2, <3>3, <3>4
  <2>3. ASSUME NEW n \in InTree(u) \ {u.root} PROVE u.ino[n].parent \in InTree(u)
    <3>1. CASE n = y
      BY <1>7, <1>10, <3>1
    <3>2. CASE n # y
      <4>1. n \in InTree(t) \ {t.root} /\ n \in Nodes
        BY <1>9, <1>10, <2>3, <3>2 DEF InTree
      <4>2. t.ino[n].parent \in InTree(t)
        BY <1>1, <4>1 DEF Trees
      <4>3. u.ino[n].parent = t.ino[n].parent
        BY <1>1, <1>3, <1>7, <1>8, <3>2, <4>1
      <4> QED BY <1>10, <4>2, <4>3
    <3> QED BY <3>1, <3>2
  <2>4. InTree(u) \cap Keys = {}
    BY <1>1, <1>10 DEF Trees
  <2> QED BY <2>1, <2>2, <2>3, <2>4 DEF Trees
<1>13. Settled(u, new)
  <2>1. ASSUME NEW n \in TarNodes \ (InTree(u) \cup {new}) PROVE ~u.ino[n].live /\ u.ino[n].users = 0
    <3>1. n \in TarNodes \ (InTree(t) \cup {new}) /\ n \in Nodes \ {y, dir}
      BY <1>10, <2>1, NodeNames
    <3> QED BY <1>8, <3>1 DEF Settled
  <2> QED BY <1>9, <1>11, <1>12, <2>1 DEF Settled
<1>14. Grown(t, u, new)
  <2>1. \A n \in Nodes : u.ino[n].users = t.ino[n].users
    BY <1>1, <1>4, <1>8, <1>9 DEF Keep
  <2>2. \A n \in Nodes \ TarNodes : u.ino[n].live = t.ino[n].live
    BY <1>1, <1>8, <1>9 DEF Keep
  <2>3. u.ino[u.root].parent = t.ino[t.root].parent
    <3>1. t.root \in InTree(t) /\ t.root \in Nodes /\ t.root # y
      BY <1>1 DEF Trees, InTree
    <3> QED BY <1>1, <1>3, <1>7, <1>8, <1>9, <3>1
  <2> QED BY <1>9, <1>13, <2>1, <2>2, <2>3 DEF Grown
<1>15. u.ino[y].live /\ u.ino[y].refs = 1 /\ u.ino[y].users = 0
  BY <1>3, <1>4, <1>9 DEF Keep
<1>16. g.ino[dir] = t.ino[dir]
  BY <1>1, <1>3
<1> QED BY <1>4, <1>7, <1>8, <1>10, <1>14, <1>15, <1>16 DEF Linked

\* One round of a mount's walk, where nothing is mounted yet
Turned(t, w, dir, y, name, new) ==
    \/ w.t = t /\ w.n = None /\ (dir[3] \in Dirs => Append(dir[3], name) \notin Dirs)
    \/ w.n = y /\ y \in TarNodes /\ Linked(t, w.t, dir, y, name, new)

LEMMA MountTurn ==
  ASSUME NEW new, NEW t, Settled(t, new), NEW dir \in InTree(t), dir \in TarNodes,
         NEW name, name # ".", name # "..", Sibling(t, t.ino[dir].child, name) = None,
         NEW y, y = Tar(dir[2], Append(dir[3], name)), y \notin InTree(t) \cup {new},
         NEW m, m = TRUE, NEW s, s.t = t, s.n = dir, NEW w, w = WalkTurn(m, s, name)
  PROVE  Turned(t, w, dir, y, name, new)
<1> SUFFICES \/ w.t = t /\ w.n = None /\ (dir[3] \in Dirs => Append(dir[3], name) \notin Dirs)
             \/ w.n = y /\ y \in TarNodes /\ Linked(t, w.t, dir, y, name, new)
  BY DEF Turned
<1>1. /\ t \in FileSystem /\ Kept(t) /\ Trees(t) /\ dir \in Nodes \ Keys /\ t.ino[dir].live
      /\ dir # None /\ IsTar(dir)
  BY InTreeLive, NodeNames DEF Settled
<1>2. t.ino[dir].parent # None /\ in_vfs_tree(t, dir)
  BY DEF InTree, in_vfs_tree
<1>3. Read(t, dir) = t
  BY <1>1, ReadIs
<1>4. PICK f : f = vfs_finddir(t, dir, name)
  OBVIOUS
<1>5. PICK u : u = IF m /\ f.n # None THEN Link(f.t, dir, f.n) ELSE f.t
  OBVIOUS
<1>6. w = Result(vfs_free(u, dir), f.n)
  BY <1>1, <1>3, <1>4, <1>5 DEF WalkTurn
<1>7. w.t = vfs_free(u, dir) /\ w.n = f.n
  BY <1>6 DEF Result
<1>8. ASSUME f.t = t, f.n = None PROVE w.t = t /\ w.n = None
  <2>1. u = t
    BY <1>5, <1>8
  <2>2. vfs_free(t, dir) = t
    BY <1>1, <1>2 DEF vfs_free
  <2> QED BY <1>7, <1>8, <2>1, <2>2
<1>9. CASE dir[3] \notin Dirs
  <2>1. ~IsDir(dir)
    BY <1>9 DEF IsDir
  <2>2. f = Result(t, None)
    BY <1>4, <2>1 DEF vfs_finddir
  <2>3. f.t = t /\ f.n = None
    BY <2>2 DEF Result
  <2> QED BY <1>8, <1>9, <2>3
<1>10. CASE dir[3] \in Dirs
  <2>1. IsDir(dir)
    BY <1>1, <1>10 DEF IsDir
  <2>2. f = tar_finddir(t, dir, name)
    BY <1>1, <1>2, <1>4, <2>1 DEF vfs_finddir
  <2>3. CASE Append(dir[3], name) \in Dirs \cup t.image
    <3>1. f = Got(t, y)
      BY <2>2, <2>3 DEF tar_finddir
    <3>2. f.t = tar_get_inode(t, y) /\ f.n = y
      BY <3>1 DEF Got, Result
    <3>3. Append(dir[3], name) \in Dirs \cup Plain
      BY <1>1, <2>3, ImagePaths
    <3>4. y \in TarNodes /\ y[3] = Append(dir[3], name) /\ y # None
      <4>1. PICK k, p : k = dir[2] /\ p = Append(dir[3], name)
        OBVIOUS
      <4>2. k \in {1, 2} /\ p \in Dirs \cup Plain /\ y = Tar(k, p)
        BY <3>3, <4>1, NodeNames
      <4>3. y \in TarNodes /\ y[3] = p
        BY <4>2, NodeNames
      <4> QED BY <4>1, <4>3, NodeNames
    <3>5. u = Link(tar_get_inode(t, y), dir, y)
      BY <1>5, <3>2, <3>4
    <3>6. y[3] # <<>> /\ name = Last(y[3])
      <4>1. dir[3] \in Seq(ToSet(dir[3]))
        BY <1>10, ImageAssumption
      <4>2. PICK S, p : S = ToSet(dir[3]) \cup {name} /\ p = dir[3]
        OBVIOUS
      <4>3. p \in Seq(S) /\ name \in S
        BY <4>1, <4>2
      <4>4. PICK q : q = Append(p, name)
        OBVIOUS
      <4>5. Len(q) = Len(p) + 1 /\ q[Len(q)] = name /\ Len(p) \in Nat
        BY <4>3, <4>4
      <4>6. q # <<>>
        BY <4>5, EmptySeq
      <4> QED BY <3>4, <4>2, <4>4, <4>5, <4>6 DEF Last
    <3>7. Linked(t, u, dir, y, name, new)
      BY <3>4, <3>5, <3>6, LinkGrows
    <3>8. vfs_free(u, dir) = u
      <4>1. Kept(u) /\ dir \in InTree(u) /\ Trees(u)
        BY <3>7 DEF Linked, Grown, Settled
      <4>2. u.ino[dir].live /\ in_vfs_tree(u, dir)
        BY <4>1, InTreeLive DEF InTree
      <4> QED BY <4>2 DEF vfs_free
    <3> QED BY <1>7, <3>2, <3>4, <3>7, <3>8
  <2>4. CASE Append(dir[3], name) \notin Dirs \cup t.image
    <3>1. f = Result(t, None)
      BY <2>2, <2>4 DEF tar_finddir
    <3>2. f.t = t /\ f.n = None
      BY <3>1 DEF Result
    <3> QED BY <1>8, <2>4, <3>2
  <2> QED BY <2>3, <2>4
<1> QED BY <1>9, <1>10

\* new hangs below dir then.
Planted(t, u, dir, new, name) ==
    /\ Grown(t, u, new) /\ InTree(u) = InTree(t) \cup {new}
    /\ \A m \in InTree(t) \ {dir} : Alike(t.ino[m], u.ino[m])
    /\ u.ino[dir].child = new /\ u.ino[dir].older = t.ino[dir].older
    /\ u.ino[dir].name = t.ino[dir].name
    /\ u.ino[new].name = name /\ u.ino[new].child = None /\ u.ino[new].older = t.ino[dir].child

LEMMA PlantGrows ==
  ASSUME NEW new, NEW t, Settled(t, new), NEW dir \in InTree(t),
         NEW y \in TarNodes \ (InTree(t) \cup {new}), NEW name, NEW v, Linked(t, v, dir, y, name, new),
         new \in Nodes \ (InTree(t) \cup Keys), t.ino[new].live, t.ino[new].child = None,
         NEW u, u = vfs_free(vfs_free(Replace(v, y, new), y), new)
  PROVE  Planted(t, u, dir, new, name)
<1>1. /\ t \in FileSystem /\ Kept(t) /\ Trees(t) /\ ~t.ino[y].live /\ t.ino[y].users = 0
      /\ y \in Nodes /\ y \notin Keys /\ dir \in Nodes \ Keys /\ t.ino[dir].live /\ dir # y
      /\ new \in Nodes /\ new # y /\ new # dir /\ y # None /\ dir # None /\ new # None
  BY InTreeLive, NodeNames DEF Settled
<1>2. /\ v \in FileSystem /\ Kept(v) /\ Trees(v) /\ v.root = t.root /\ v.stale = t.stale
      /\ InTree(v) = InTree(t) \cup {y}
      /\ \A m \in Nodes \ {dir, y} : v.ino[m] = t.ino[m]
  BY DEF Linked, Grown, Settled
<1>3. PICK older : older = t.ino[dir].child
  OBVIOUS
<1>4. /\ older \in InTree(t) \cup {None} /\ older \in Nodes \cup {None} /\ older # y /\ older # new
      /\ (older # None => v.ino[older].live)
  <2>1. older \in InTree(t) \cup {None}
    BY <1>1, <1>3 DEF Trees
  <2>2. older # None => older \in InTree(v)
    BY <1>2, <2>1
  <2> QED BY <1>1, <1>2, <2>1, <2>2, InTreeLive DEF InTree
<1>5. PICK r : r = Replace(v, y, new)
  OBVIOUS
<1>6. /\ Relinked(v, r)
      /\ \A m \in Nodes \ {y, new, dir} : Alike(v.ino[m], r.ino[m])
      /\ \A m \in Nodes \ {y, new, dir, older} : r.ino[m] = v.ino[m]
      /\ r.ino[dir].parent = v.ino[dir].parent /\ r.ino[dir].older = v.ino[dir].older
      /\ r.ino[dir].child = new /\ r.ino[dir].name = v.ino[dir].name
      /\ r.ino[y].parent = None
      /\ r.ino[new].parent = dir /\ r.ino[new].older = older
      /\ r.ino[new].child = v.ino[new].child /\ r.ino[new].name = v.ino[y].name
  <2>1. v.root # y
    BY <1>1, <1>2 DEF Trees
  <2>2. /\ v.ino[y].older = older /\ v.ino[y].parent = dir /\ v.ino[y].younger = None
        /\ v.ino[dir].child = y
    BY <1>3 DEF Linked
  <2> QED BY <1>1, <1>2, <1>4, <1>5, <2>1, <2>2, ReplaceIs
<1>7. /\ r \in FileSystem /\ r.root = t.root /\ r.stale = t.stale
      /\ \A m \in Nodes : Keep(v.ino[m], r.ino[m])
  BY <1>2, <1>6 DEF Relinked
<1>8. v.ino[y].live /\ v.ino[y].refs = 1 /\ v.ino[y].users = 0 /\ v.ino[y].name = name
  BY DEF Linked
<1>9. v.ino[new] = t.ino[new] /\ v.ino[new].live /\ v.ino[new].child = None /\ v.ino[dir].live
  <2>1. dir \in InTree(v)
    BY <1>2
  <2> QED BY <1>1, <1>2, <2>1, InTreeLive
<1>10. Kept(r)
  <2> SUFFICES ASSUME NEW m \in Nodes PROVE Whole(m, r.ino[m])
    BY DEF Kept
  <2>1. Whole(m, v.ino[m])
    BY <1>2 DEF Kept
  <2>2. CASE m \in {y, new, dir, older}
    <3>1. v.ino[m].live
      BY <1>1, <1>4, <1>8, <1>9, <2>2, NodeNames
    <3>2. r.ino[m].live /\ (IsTar(m) => r.ino[m].refs >= 1)
      BY <1>7, <2>1, <3>1 DEF Keep, Whole
    <3> QED BY <3>2, WholeLive
  <2>3. CASE m \notin {y, new, dir, older}
    BY <1>6, <2>1, <2>3
  <2> QED BY <2>2, <2>3
<1>11. PICK q : q = vfs_free(r, y)
  OBVIOUS
<1>12. /\ Passes(r, q) /\ q.stale = r.stale /\ \A m \in Nodes \ {y} : q.ino[m] = r.ino[m]
       /\ q.ino[y] = Blank
  <2>1. r.ino[y].live /\ r.ino[y].parent = None /\ r.ino[y].users = 0 /\ r.ino[y].refs = 1
    BY <1>1, <1>6, <1>7, <1>8 DEF Keep
  <2>2. Down(y, r.ino[y]) = Blank
    BY <2>1 DEF Down
  <2>3. /\ Passes(r, q) /\ (r.ino[y].live => q.stale = r.stale) /\ (r.stale => q.stale)
        /\ \A m \in Nodes \ {y} : q.ino[m] = r.ino[m]
        /\ q.ino[y] = IF r.ino[y].live /\ r.ino[y].parent = None /\ r.ino[y].users = 0
                      THEN Down(y, r.ino[y]) ELSE r.ino[y]
    BY <1>1, <1>7, <1>10, <1>11, Free
  <2> QED BY <2>1, <2>2, <2>3
<1>13. q \in FileSystem /\ Kept(q) /\ q.root = r.root
  BY <1>12 DEF Passes
<1>14. q.ino[new].live /\ q.ino[new].parent # None
  BY <1>1, <1>6, <1>7, <1>9, <1>12 DEF Keep
<1>15. u = q
  <2>1. u = vfs_free(q, new)
    BY <1>5, <1>11
  <2> QED BY <1>14, <2>1 DEF vfs_free, in_vfs_tree
<1>16. /\ \A m \in Nodes \ {y, new, dir} : Alike(t.ino[m], u.ino[m])
       /\ u.ino[dir].parent = t.ino[dir].parent /\ u.ino[dir].older = t.ino[dir].older
       /\ u.ino[dir].child = new /\ u.ino[dir].name = t.ino[dir].name
       /\ u.ino[new].parent = dir /\ u.ino[new].older = older
       /\ u.ino[new].child = None /\ u.ino[new].name = name
  <2>1. v.ino[dir].parent = t.ino[dir].parent /\ v.ino[dir].older = t.ino[dir].older
        /\ v.ino[dir].name = t.ino[dir].name
    BY DEF Linked
  <2>2. \A m \in Nodes \ {y, new, dir} : u.ino[m] = r.ino[m] /\ v.ino[m] = t.ino[m]
    BY <1>2, <1>12, <1>15
  <2>3. u.ino[dir] = r.ino[dir] /\ u.ino[new] = r.ino[new]
    BY <1>1, <1>12, <1>15
  <2> QED BY <1>6, <1>8, <1>9, <2>1, <2>2, <2>3
<1>17. u.ino[y] = Blank /\ ~u.ino[y].live /\ u.ino[y].users = 0 /\ u.ino[y].parent = None
  BY <1>12, <1>15 DEF Blank
<1>18. InTree(u) = InTree(t) \cup {new}
  <2>1. ASSUME NEW m \in Nodes PROVE m \in InTree(u) <=> m \in InTree(t) \/ m = new
    <3>1. CASE m = y
      BY <1>1, <1>17, <3>1 DEF InTree, in_vfs_tree
    <3>2. CASE m = new
      BY <1>1, <1>16, <3>2 DEF InTree, in_vfs_tree
    <3>3. CASE m \notin {y, new}
      <4>1. u.ino[m].parent = t.ino[m].parent
        BY <1>16, <3>3 DEF Alike
      <4> QED BY <3>3, <4>1 DEF InTree, in_vfs_tree
    <3> QED BY <3>1, <3>2, <3>3
  <2> QED BY <1>1, <2>1 DEF InTree
<1>19. Trees(u)
  <2>1. u.root = t.root /\ u.root \in InTree(u)
    BY <1>1, <1>7, <1>13, <1>15, <1>18 DEF Trees
  <2>2. ASSUME NEW n \in InTree(u) PROVE {u.ino[n].child, u.ino[n].older} \subseteq InTree(u) \cup {None}
    <3>1. CASE n = new
      BY <1>4, <1>16, <1>18, <3>1
    <3>2. CASE n = dir
      <4>1. t.ino[dir].older \in InTree(t) \cup {None}
        BY <1>1 DEF Trees
      <4> QED BY <1>16, <1>18, <3>2, <4>1
    <3>3. CASE n \notin {new, dir}
      <4>1. n \in InTree(t) /\ n \in Nodes \ {y, new, dir}
        BY <1>18, <2>2, <3>3 DEF InTree
      <4>2. u.ino[n].child = t.ino[n].child /\ u.ino[n].older = t.ino[n].older
        BY <1>16, <4>1 DEF Alike
      <4>3. t.ino[n].child \in InTree(t) \cup {None} /\ t.ino[n].older \in InTree(t) \cup {None}
        BY <1>1, <4>1 DEF Trees
      <4> QED BY <1>18, <4>2, <4>3
    <3> QED BY <3>1, <3>2, <3>3
  <2>3. ASSUME NEW n \in InTree(u) \ {u.root} PROVE u.ino[n].parent \in InTree(u)
    <3>1. CASE n = new
      BY <1>16, <1>18, <3>1
    <3>2. CASE n # new
      <4>1. n \in InTree(t) \ {t.root} /\ n \in Nodes \ {y, new}
        BY <1>18, <2>1, <2>3, <3>2 DEF InTree
      <4>2. t.ino[n].parent \in InTree(t)
        BY <1>1, <4>1 DEF Trees
      <4>3. u.ino[n].parent = t.ino[n].parent
        BY <1>16, <4>1 DEF Alike
      <4> QED BY <1>18, <4>2, <4>3
    <3> QED BY <3>1, <3>2
  <2>4. InTree(u) \cap Keys = {}
    BY <1>1, <1>18 DEF Trees
  <2> QED BY <2>1, <2>2, <2>3, <2>4 DEF Trees
<1>20. \A m \in Nodes : u.ino[m].users = t.ino[m].users
  <2>1. ASSUME NEW m \in Nodes, m # y PROVE u.ino[m].users = t.ino[m].users
    <3>1. u.ino[m] = r.ino[m]
      BY <1>12, <1>15, <2>1
    <3>2. r.ino[m].users = v.ino[m].users
      BY <1>7 DEF Keep
    <3>3. v.ino[m].users = t.ino[m].users
      BY DEF Linked, Grown
    <3> QED BY <3>1, <3>2, <3>3
  <2> QED BY <1>1, <1>17, <2>1
<1>21. \A m \in Nodes \ TarNodes : u.ino[m].live = t.ino[m].live
  <2> SUFFICES ASSUME NEW m \in Nodes \ TarNodes PROVE u.ino[m].live = t.ino[m].live
    OBVIOUS
  <2>1. u.ino[m] = r.ino[m]
    BY <1>12, <1>15
  <2>2. r.ino[m].live = v.ino[m].live
    BY <1>7 DEF Keep
  <2>3. v.ino[m].live = t.ino[m].live
    BY DEF Linked, Grown
  <2> QED BY <2>1, <2>2, <2>3
<1>22. Settled(u, new)
  <2>1. ASSUME NEW n \in TarNodes \ (InTree(u) \cup {new}) PROVE ~u.ino[n].live /\ u.ino[n].users = 0
    <3>1. CASE n = y
      BY <1>17, <3>1
    <3>2. CASE n # y
      <4>1. n \in TarNodes \ (InTree(t) \cup {new}) /\ n \in Nodes \ {y, new, dir}
        BY <1>18, <2>1, <3>2, NodeNames
      <4> QED BY <1>16, <4>1 DEF Settled, Alike, Keep
    <3> QED BY <3>1, <3>2
  <2> QED BY <1>13, <1>15, <1>19, <2>1 DEF Settled
<1>23. u.ino[u.root].parent = t.ino[t.root].parent
  <2>1. t.root \in InTree(t) /\ t.root \in Nodes \ {y, new}
    BY <1>1 DEF Trees, InTree
  <2> QED BY <1>7, <1>13, <1>15, <1>16, <2>1 DEF Alike
<1>24. Grown(t, u, new)
  BY <1>7, <1>12, <1>13, <1>15, <1>20, <1>21, <1>22, <1>23 DEF Grown
<1>25. \A m \in InTree(t) \ {dir} : Alike(t.ino[m], u.ino[m])
  <2>1. \A m \in InTree(t) \ {dir} : m \in Nodes \ {y, new, dir}
    BY DEF InTree
  <2> QED BY <1>16, <2>1
<1> QED BY <1>3, <1>16, <1>18, <1>24, <1>25 DEF Planted

\* new is made and hangs nowhere yet.
Ready(t, new) == new \in Nodes \ (InTree(t) \cup Keys) /\ t.ino[new].live /\ t.ino[new].child = None

\* A mount below dir, when one name of the path is left, or two
Once(t, u, dir, new, a) ==
    \/ u = t /\ (dir[3] \in Dirs => Append(dir[3], a) \notin Dirs)
    \/ Planted(t, u, dir, new, a)

Twice(t, u, dir, new, a, b, y) ==
    \/ u = t /\ (dir[3] \in Dirs => Append(dir[3], a) \notin Dirs)
    \/ Linked(t, u, dir, y, a, new) /\ (y[3] \in Dirs => Append(y[3], b) \notin Dirs)
    \/ \E v : Linked(t, v, dir, y, a, new) /\ Planted(v, u, y, new, b)

Mounting(w, new, u) ==
    u = IF w.n = None THEN w.t ELSE vfs_free(vfs_free(Replace(w.t, w.n, new), w.n), new)

LEMMA MountOne ==
  ASSUME NEW new, NEW t, Settled(t, new), Ready(t, new), NEW dir \in InTree(t), dir \in TarNodes,
         NEW a, a # ".", a # "..", Sibling(t, t.ino[dir].child, a) = None,
         NEW y, y = Tar(dir[2], Append(dir[3], a)), y \notin InTree(t) \cup {new},
         NEW m, m = TRUE, NEW s, s.t = t, s.n = dir, NEW w, w = WalkTurn(m, s, a),
         NEW u, Mounting(w, new, u)
  PROVE  Once(t, u, dir, new, a)
<1>0. Turned(t, w, dir, y, a, new)
  BY MountTurn
<1>1. \/ w.t = t /\ w.n = None /\ (dir[3] \in Dirs => Append(dir[3], a) \notin Dirs)
      \/ w.n = y /\ y \in TarNodes /\ Linked(t, w.t, dir, y, a, new)
  BY <1>0 DEF Turned
<1>2. CASE w.t = t /\ w.n = None /\ (dir[3] \in Dirs => Append(dir[3], a) \notin Dirs)
  <2>1. u = t
    BY <1>2 DEF Mounting
  <2> QED BY <1>2, <2>1 DEF Once
<1>3. CASE w.n = y /\ y \in TarNodes /\ Linked(t, w.t, dir, y, a, new)
  <2>1. PICK v : v = w.t
    OBVIOUS
  <2>2. y # None
    BY <1>3, NodeNames
  <2>3. u = vfs_free(vfs_free(Replace(v, y, new), y), new)
    BY <1>3, <2>1, <2>2 DEF Mounting
  <2>4. /\ Linked(t, v, dir, y, a, new) /\ y \in TarNodes \ (InTree(t) \cup {new})
        /\ new \in Nodes \ (InTree(t) \cup Keys) /\ t.ino[new].live /\ t.ino[new].child = None
    BY <1>3, <2>1 DEF Ready
  <2>5. Planted(t, u, dir, new, a)
    BY <2>3, <2>4, PlantGrows
  <2> QED BY <2>5 DEF Once
<1> QED BY <1>1, <1>2, <1>3

LEMMA MountTwo ==
  ASSUME NEW new, NEW t, Settled(t, new), Ready(t, new), NEW dir \in InTree(t), dir \in TarNodes,
         NEW a, a # ".", a # "..", NEW b, b # ".", b # "..", Sibling(t, t.ino[dir].child, a) = None,
         NEW y, y = Tar(dir[2], Append(dir[3], a)), y \notin InTree(t) \cup {new},
         NEW z, z = Tar(y[2], Append(y[3], b)), z \notin InTree(t) \cup {new, y},
         NEW m, m = TRUE, NEW s, s.t = t, s.n = dir, NEW w, w = WalkTurn(m, s, a),
         NEW x, x = WalkTurn(m, w, b), NEW u, Mounting(x, new, u)
  PROVE  Twice(t, u, dir, new, a, b, y)
<1>0. Turned(t, w, dir, y, a, new)
  BY MountTurn
<1>1. \/ w.t = t /\ w.n = None /\ (dir[3] \in Dirs => Append(dir[3], a) \notin Dirs)
      \/ w.n = y /\ y \in TarNodes /\ Linked(t, w.t, dir, y, a, new)
  BY <1>0 DEF Turned
<1>2. CASE w.t = t /\ w.n = None /\ (dir[3] \in Dirs => Append(dir[3], a) \notin Dirs)
  <2>1. x = w
    BY <1>2 DEF WalkTurn
  <2>2. u = t
    BY <1>2, <2>1 DEF Mounting
  <2> QED BY <1>2, <2>2 DEF Twice
<1>3. CASE w.n = y /\ y \in TarNodes /\ Linked(t, w.t, dir, y, a, new)
  <2>1. PICK v : v = w.t
    OBVIOUS
  <2>2. Linked(t, v, dir, y, a, new)
    BY <1>3, <2>1
  <2>3. /\ Settled(v, new) /\ InTree(v) = InTree(t) \cup {y} /\ v.ino[y].child = None
        /\ \A i \in Nodes \ {dir, y} : v.ino[i] = t.ino[i]
    BY <2>2 DEF Linked, Grown
  <2>4. Ready(v, new)
    <3>1. new \in Nodes \ {dir, y} /\ new \notin InTree(v)
      BY <2>3 DEF Ready
    <3> QED BY <2>3, <3>1 DEF Ready
  <2>5. y \in InTree(v) /\ z \notin InTree(v) \cup {new}
    BY <2>3
  <2>6. Sibling(v, v.ino[y].child, b) = None
    BY <2>3, SiblingOf
  <2>7. w.t = v /\ w.n = y /\ y \in TarNodes
    BY <1>3, <2>1
  <2>8. Once(v, u, y, new, b)
    BY <2>3, <2>4, <2>5, <2>6, <2>7, MountOne
  <2> QED BY <2>2, <2>8 DEF Once, Twice
<1> QED BY <1>1, <1>2, <1>3

\* The walk of a mount
MountWalk(t, new, u, r, m) ==
    \E f : /\ f[0] = Result(t, r.n) /\ Mounting(f[Len(r.rest)], new, u)
           /\ \A k \in 1..Len(r.rest) : f[k] = WalkTurn(m, f[k - 1], r.rest[k])

LEMMA MountWalks ==
  ASSUME NEW t, NEW path, NEW new, NEW u, u = vfs_mount(t, path, new),
         NEW r, r = vfs_find_root(t, path), NEW S, r.rest \in Seq(S), NEW m, m = TRUE
  PROVE  MountWalk(t, new, u, r, m)
<1>1. Walked(t, path, m, r)
  BY WalkRuns
<1>2. PICK f : /\ f[0] = Result(t, r.n) /\ f[Len(r.rest)] = Walk(t, path, m)
               /\ \A k \in 1..Len(r.rest) : f[k] = WalkTurn(m, f[k - 1], r.rest[k])
  BY <1>1 DEF Walked
<1>3. Mounting(f[Len(r.rest)], new, u)
  BY <1>2 DEF vfs_mount, Mounting
<1> QED BY <1>2, <1>3 DEF MountWalk

LEMMA MountTwice ==
  ASSUME NEW new, NEW t, Settled(t, new), Ready(t, new), NEW dir \in InTree(t), dir \in TarNodes,
         NEW a, a # ".", a # "..", NEW b, b # ".", b # "..", Sibling(t, t.ino[dir].child, a) = None,
         NEW y, y = Tar(dir[2], Append(dir[3], a)), y \notin InTree(t) \cup {new},
         NEW z, z = Tar(y[2], Append(y[3], b)), z \notin InTree(t) \cup {new, y},
         NEW path, NEW u, u = vfs_mount(t, path, new),
         NEW r, r = vfs_find_root(t, path), r.n = dir, r.rest = <<a, b>>
  PROVE  Twice(t, u, dir, new, a, b, y)
<1>1. PICK m : m = TRUE
  OBVIOUS
<1>2. /\ r.rest \in Seq({a, b}) /\ Len(r.rest) = 2 /\ r.rest[1] = a /\ r.rest[2] = b
  OBVIOUS
<1>a. MountWalk(t, new, u, r, m)
  BY <1>1, <1>2, MountWalks
<1>3. PICK f : /\ f[0] = Result(t, r.n) /\ Mounting(f[Len(r.rest)], new, u)
               /\ \A k \in 1..Len(r.rest) : f[k] = WalkTurn(m, f[k - 1], r.rest[k])
  BY <1>a DEF MountWalk
<1>4. 1 \in 1..2 /\ 2 \in 1..2 /\ 1 - 1 = 0 /\ 2 - 1 = 1
  OBVIOUS
<1>5. f[1] = WalkTurn(m, f[0], a) /\ f[2] = WalkTurn(m, f[1], b) /\ Mounting(f[2], new, u)
  BY <1>2, <1>3, <1>4
<1>6. f[0].t = t /\ f[0].n = dir
  BY <1>3 DEF Result
<1>7. PICK s, w, x : s = f[0] /\ w = f[1] /\ x = f[2]
  OBVIOUS
<1>8. /\ s.t = t /\ s.n = dir /\ w = WalkTurn(m, s, a) /\ x = WalkTurn(m, w, b) /\ Mounting(x, new, u)
  BY <1>5, <1>6, <1>7
<1> QED BY <1>1, <1>8, MountTwo

LEMMA MountOnce ==
  ASSUME NEW new, NEW t, Settled(t, new), Ready(t, new), NEW dir \in InTree(t), dir \in TarNodes,
         NEW a, a # ".", a # "..", Sibling(t, t.ino[dir].child, a) = None,
         NEW y, y = Tar(dir[2], Append(dir[3], a)), y \notin InTree(t) \cup {new},
         NEW path, NEW u, u = vfs_mount(t, path, new),
         NEW r, r = vfs_find_root(t, path), r.n = dir, r.rest = <<a>>
  PROVE  Once(t, u, dir, new, a)
<1>1. PICK m : m = TRUE
  OBVIOUS
<1>2. /\ r.rest \in Seq({a}) /\ Len(r.rest) = 1 /\ r.rest[1] = a
  OBVIOUS
<1>a. MountWalk(t, new, u, r, m)
  BY <1>1, <1>2, MountWalks
<1>3. PICK f : /\ f[0] = Result(t, r.n) /\ Mounting(f[Len(r.rest)], new, u)
               /\ \A k \in 1..Len(r.rest) : f[k] = WalkTurn(m, f[k - 1], r.rest[k])
  BY <1>a DEF MountWalk
<1>4. 1 \in 1..1 /\ 1 - 1 = 0
  OBVIOUS
<1>5. f[1] = WalkTurn(m, f[0], a) /\ Mounting(f[1], new, u)
  BY <1>2, <1>3, <1>4
<1>6. f[0].t = t /\ f[0].n = dir
  BY <1>3 DEF Result
<1>7. PICK s, w : s = f[0] /\ w = f[1]
  OBVIOUS
<1>8. s.t = t /\ s.n = dir /\ w = WalkTurn(m, s, a) /\ Mounting(w, new, u)
  BY <1>5, <1>6, <1>7
<1> QED BY <1>1, <1>8, MountOne

-----------------------------------------------------------------------------
(* Boot                                                                    *)

T1  == Tar(1, <<>>)
T2  == Tar(2, <<>>)
Mnt == Tar(1, <<"mnt">>)
Dev == Tar(1, <<"dev">>)

LEMMA ShortPaths ==
  \A a, b : Append(<<>>, a) = <<a>> /\ Append(<<a>>, b) = <<a, b>>
<1> SUFFICES ASSUME NEW a, NEW b PROVE Append(<<>>, a) = <<a>> /\ Append(<<a>>, b) = <<a, b>>
  OBVIOUS
<1>1. PICK S, p0, p1, p2, q1, q2 :
        /\ S = {a, b} /\ p0 = <<>> /\ p1 = <<a>> /\ p2 = <<a, b>> /\ q1 = Append(p0, a) /\ q2 = Append(p1, b)
  OBVIOUS
<1>2. p0 \in Seq(S) /\ Len(p0) = 0
  BY <1>1, EmptySeq
<1>3. p1 \in Seq(S) /\ Len(p1) = 1 /\ p1[1] = a
  BY <1>1
<1>4. p2 \in Seq(S) /\ Len(p2) = 2 /\ p2[1] = a /\ p2[2] = b
  BY <1>1
<1>5. a \in S /\ b \in S
  BY <1>1
<1>6. q1 \in Seq(S) /\ Len(q1) = 1 /\ q1[1] = a
  BY <1>1, <1>2, <1>5, AppendProperties
<1>7. q2 \in Seq(S) /\ Len(q2) = 2 /\ q2[1] = a /\ q2[2] = b
  <2>1. q2 \in Seq(S) /\ Len(q2) = 2
    BY <1>1, <1>3, <1>5, AppendProperties
  <2>2. \A i \in 1..Len(p1) : q2[i] = p1[i]
    BY <1>1, <1>3, <1>5, AppendProperties
  <2>3. q2[Len(p1) + 1] = b
    BY <1>1, <1>3, <1>5, AppendProperties
  <2> QED BY <1>3, <2>1, <2>2, <2>3
<1>8. q1 = p1
  <2>1. \A i \in 1..Len(q1) : q1[i] = p1[i]
    BY <1>3, <1>6
  <2> QED BY <1>3, <1>6, <2>1, SeqEqual
<1>9. q2 = p2
  <2>1. \A i \in 1..Len(q2) : q2[i] = p2[i]
    BY <1>4, <1>7
  <2> QED BY <1>4, <1>7, <2>1, SeqEqual
<1> QED BY <1>1, <1>8, <1>9

LEMMA BootNodes ==
  /\ T1 \in TarNodes /\ T2 \in TarNodes /\ Mnt \in TarNodes
  /\ T1 # T2 /\ T1 # Mnt /\ T2 # Mnt /\ Dev # T1 /\ Dev # T2 /\ Dev # Mnt
  /\ T1[2] = 1 /\ T1[3] = <<>> /\ T1[3] \in Dirs /\ T2[3] = <<>>
  /\ Mnt = Tar(T1[2], Append(T1[3], "mnt")) /\ Append(T1[3], "mnt") \in Dirs
  /\ Mnt[3] \in Dirs /\ Append(Mnt[3], "tarfs") \in Dirs
  /\ Dev = Tar(T1[2], Append(T1[3], "dev")) /\ Dev[2] = 1 /\ Dev[3] = <<"dev">>
  /\ Tar(Mnt[2], Append(Mnt[3], "tarfs")) \notin {T1, T2, Mnt, Dev}
  /\ \A name : Tar(Dev[2], Append(Dev[3], name)) \notin {T1, T2, Mnt, Dev}
<1>1. <<>> \in Dirs /\ <<"mnt">> \in Dirs /\ <<"mnt", "tarfs">> \in Dirs
  BY ImageAssumption
<1>2. \A k, p : Tar(k, p)[2] = k /\ Tar(k, p)[3] = p
  BY DEF Tar
<1>3. Append(<<>>, "mnt") = <<"mnt">> /\ Append(<<"mnt">>, "tarfs") = <<"mnt", "tarfs">>
      /\ Append(<<>>, "dev") = <<"dev">>
  BY ShortPaths
<1>4. T1 \in TarNodes /\ T2 \in TarNodes /\ Mnt \in TarNodes
  BY <1>1 DEF TarNodes, T1, T2, Mnt
<1>5. /\ T1[2] = 1 /\ T1[3] = <<>> /\ T2[2] = 2 /\ T2[3] = <<>> /\ Mnt[2] = 1 /\ Mnt[3] = <<"mnt">>
      /\ Dev[2] = 1 /\ Dev[3] = <<"dev">>
  BY <1>2 DEF T1, T2, Mnt, Dev
<1>6. /\ <<>> # <<"mnt">> /\ <<>> # <<"dev">> /\ <<"mnt">> # <<"dev">>
      /\ <<"mnt", "tarfs">> # <<>> /\ <<"mnt", "tarfs">> # <<"mnt">> /\ <<"mnt", "tarfs">> # <<"dev">>
  OBVIOUS
<1>7. \A name : /\ Append(<<"dev">>, name) # <<>> /\ Append(<<"dev">>, name) # <<"mnt">>
                /\ Append(<<"dev">>, name) # <<"dev">>
  <2> SUFFICES ASSUME NEW name PROVE /\ Append(<<"dev">>, name) # <<>> /\ Append(<<"dev">>, name) # <<"mnt">>
                                     /\ Append(<<"dev">>, name) # <<"dev">>
    OBVIOUS
  <2>1. PICK p, q : p = <<"dev">> /\ q = Append(p, name)
    OBVIOUS
  <2>2. q = <<"dev", name>>
    BY <2>1, ShortPaths
  <2>3. Len(q) = 2
    BY <2>2
  <2>4. Len(<<"mnt">>) = 1 /\ Len(<<"dev">>) = 1
    OBVIOUS
  <2>5. Len(<<>>) = 0
    BY EmptySeq
  <2> QED BY <2>1, <2>3, <2>4, <2>5
<1>8. T1 # T2 /\ T1 # Mnt /\ T2 # Mnt /\ Dev # T1 /\ Dev # T2 /\ Dev # Mnt
  BY <1>5, <1>6
<1>9. Tar(Mnt[2], Append(Mnt[3], "tarfs")) \notin {T1, T2, Mnt, Dev}
  <2>1. PICK n, k, p : n = Tar(k, p) /\ k = Mnt[2] /\ p = Append(Mnt[3], "tarfs")
    OBVIOUS
  <2>2. p = <<"mnt", "tarfs">>
    BY <1>3, <1>5, <2>1
  <2>3. n[3] = <<"mnt", "tarfs">>
    BY <1>2, <2>1, <2>2
  <2> QED BY <1>5, <1>6, <2>1, <2>3
<1>10. \A name : Tar(Dev[2], Append(Dev[3], name)) \notin {T1, T2, Mnt, Dev}
  <2> SUFFICES ASSUME NEW name PROVE Tar(Dev[2], Append(Dev[3], name)) \notin {T1, T2, Mnt, Dev}
    OBVIOUS
  <2>1. PICK n, k, p : n = Tar(k, p) /\ k = Dev[2] /\ p = Append(Dev[3], name)
    OBVIOUS
  <2>2. p = Append(<<"dev">>, name)
    BY <1>5, <2>1
  <2>3. n[3] = Append(<<"dev">>, name)
    BY <1>2, <2>1, <2>2
  <2> QED BY <1>5, <1>7, <2>1, <2>3
<1>11. Mnt = Tar(T1[2], Append(T1[3], "mnt")) /\ Dev = Tar(T1[2], Append(T1[3], "dev"))
  BY <1>3, <1>5 DEF Mnt, Dev
<1> QED BY <1>1, <1>3, <1>4, <1>5, <1>8, <1>9, <1>10, <1>11

\* No inode is open.
Idle(t) == ~t.stale /\ \A n \in Nodes : t.ino[n].users = 0

\* The mount tree before the second, third and fourth mount: the device
\* hangs below /dev, if the image has that.
Tree2(t) == InTree(t) = {T1} /\ t.ino[T1].child = None
Tree3(t) ==
    /\ InTree(t) = {T1, Mnt, T2} /\ t.ino[T1].child = Mnt
    /\ t.ino[Mnt].name = "mnt" /\ t.ino[Mnt].older = None
Tree4(t) ==
    /\ T1 \in InTree(t) /\ InTree(t) \subseteq {T1, Mnt, T2, Dev, Debug}
    /\ \/ /\ t.ino[T1].child = Mnt /\ t.ino[Mnt].name = "mnt" /\ t.ino[Mnt].older = None
          /\ Dev \notin InTree(t)
       \/ /\ t.ino[T1].child = Dev /\ t.ino[Dev].name = "dev" /\ Dev \in InTree(t) /\ Dev \in TarNodes
          /\ \/ t.ino[Dev].child = None
             \/ t.ino[Dev].child = Debug /\ t.ino[Debug].name = "debug" /\ t.ino[Debug].older = None

Boot(t, k) ==
    /\ k = 1 => \E image \in Images : t = vfs_init(image)
    /\ k > 1 => /\ Settled(t, None) /\ Idle(t) /\ Rooted(t) /\ t.root = T1
                /\ \A n \in PipeNodes : ~t.ino[n].live
                /\ k < 4 => ~t.ino[Debug].live
    /\ k = 2 => Tree2(t)
    /\ k = 3 => Tree3(t)
    /\ k = 4 => Tree4(t)

\* A file system of the image is made.
LEMMA TarfsIs ==
  ASSUME NEW t \in FileSystem, Kept(t), NEW k \in {1, 2}, NEW n, n = Tar(k, <<>>), ~t.ino[n].live,
         NEW u, u = tarfs_init(t, k)
  PROVE  /\ Passes(t, u) /\ u.stale = t.stale /\ (\A m \in Nodes \ {n} : u.ino[m] = t.ino[m])
         /\ u.ino[n].live /\ u.ino[n].users = 0 /\ u.ino[n].parent = None
         /\ u.ino[n].child = None /\ u.ino[n].older = None /\ u.ino[n].younger = None
<1>1. n \in TarNodes /\ n[3] = <<>>
  BY ImageAssumption, NodeNames
<1>2. u = tar_get_inode(t, n)
  BY <1>1 DEF tarfs_init, tar_get_inode
<1>3. PICK y : y = Up(n, t.ino[n])
  OBVIOUS
<1>4. y = [Blank EXCEPT !.live = TRUE, !.refs = 1, !.name = "tarfs"]
  BY <1>1, <1>3 DEF Up
<1>5. /\ y.live /\ y.users = 0 /\ y.parent = None /\ y.child = None /\ y.older = None
      /\ y.younger = None
  BY <1>4 DEF Blank
<1>6. /\ Passes(t, u) /\ u.stale = t.stale /\ u.ino[n] = Up(n, t.ino[n]) /\ u.ino[n].live
      /\ \A m \in Nodes \ {n} : u.ino[m] = t.ino[m]
  BY <1>1, <1>2, GetInode
<1> QED BY <1>3, <1>5, <1>6

LEMMA ParentSet ==
  ASSUME NEW live, NEW name, NEW zero, NEW v,
         NEW y, y = [live |-> live, name |-> name, users |-> zero, refs |-> zero,
                     parent |-> None, child |-> None, older |-> None, younger |-> None],
         NEW z, z = [live |-> live, name |-> name, users |-> zero, refs |-> zero,
                     parent |-> v, child |-> None, older |-> None, younger |-> None]
  PROVE  z = [y EXCEPT !.parent = v]
OBVIOUS

LEMMA InitIs ==
  ASSUME NEW image \in Images, NEW t, t = vfs_init(image)
  PROVE  /\ t \in FileSystem /\ Kept(t) /\ Trees(t) /\ Idle(t) /\ t.root = Root0
         /\ \A m \in Nodes \ {Root0} : t.ino[m] = Blank
         /\ t.ino[Root0].live /\ t.ino[Root0].parent = Root0 /\ t.ino[Root0].child = None
         /\ t.ino[Root0].older = None /\ t.ino[Root0].younger = None /\ InTree(t) = {Root0}
<1>1. PICK z, f, x : /\ z = [live |-> TRUE, name |-> "/", users |-> 0, refs |-> 0,
                             parent |-> Root0, child |-> None, older |-> None, younger |-> None]
                     /\ f = [n \in Nodes |-> Blank]
                     /\ x = [ino |-> f, root |-> Root0, stale |-> FALSE, image |-> image]
  OBVIOUS
<1>2. Root0 \in Nodes /\ None \notin Nodes /\ Root0 # None /\ ~IsTar(Root0) /\ Root0 \notin Keys
  <2>1. Root0 \in Nodes /\ None \notin Nodes /\ Root0 \notin TarNodes
    BY NodeNames
  <2>2. ~IsTar(Root0)
    BY <2>1, NodeNames
  <2>3. "w" \in {"r", "w"} /\ 0 \in Pipes /\ 1 \in Pipes
    BY ImageAssumption
  <2>4. End(0, "w") # Root0 /\ End(1, "w") # Root0
    BY <2>3, NodeNames
  <2> QED BY <2>1, <2>2, <2>4 DEF Keys
<1>3. z \in Record /\ z.live /\ z.users = 0 /\ z.parent = Root0 /\ z.child = None /\ z.older = None
      /\ z.younger = None
  BY <1>1, <1>2 DEF Record, Names
<1>4. x \in FileSystem
  BY <1>1, <1>2, BlankRecord DEF FileSystem
<1>5. t = SetIno(x, Root0, z)
  <2>1. PICK y : y = [Blank EXCEPT !.live = TRUE, !.name = "/"]
    OBVIOUS
  <2>2. y = [live |-> TRUE, name |-> "/", users |-> 0, refs |-> 0,
             parent |-> None, child |-> None, older |-> None, younger |-> None]
    BY <2>1 DEF Blank
  <2>3. z = [y EXCEPT !.parent = Root0]
    <3>1. z = [live |-> TRUE, name |-> "/", users |-> 0, refs |-> 0,
               parent |-> Root0, child |-> None, older |-> None, younger |-> None]
      BY <1>1
    <3>2. PICK live, name : live = TRUE /\ name = "/"
      OBVIOUS
    <3>3. y = [live |-> live, name |-> name, users |-> 0, refs |-> 0,
               parent |-> None, child |-> None, older |-> None, younger |-> None]
      BY <2>2, <3>2
    <3>4. z = [live |-> live, name |-> name, users |-> 0, refs |-> 0,
               parent |-> Root0, child |-> None, older |-> None, younger |-> None]
      BY <3>1, <3>2
    <3> QED BY <3>3, <3>4, ParentSet
  <2>4. PICK v : v = [x EXCEPT !.ino[Root0] = y]
    OBVIOUS
  <2>5. t = [v EXCEPT !.ino[Root0].parent = Root0]
    BY <1>1, <2>1, <2>4 DEF vfs_init, Make
  <2>6. v.ino[Root0] = y
    BY <1>1, <1>2, <2>4
  <2>7. [v EXCEPT !.ino[Root0] = z] = [x EXCEPT !.ino[Root0] = z]
    BY <1>1, <1>2, <2>4
  <2>8. t = [v EXCEPT !.ino[Root0] = z]
    BY <2>3, <2>5, <2>6
  <2> QED BY <2>7, <2>8 DEF SetIno
<1>6. /\ t \in FileSystem /\ t.root = x.root /\ t.stale = x.stale /\ t.image = x.image
      /\ t.ino[Root0] = z /\ \A m \in Nodes \ {Root0} : t.ino[m] = x.ino[m]
  BY <1>2, <1>3, <1>4, <1>5, SetInoIs
<1>7. t.root = Root0 /\ ~t.stale /\ \A m \in Nodes \ {Root0} : t.ino[m] = Blank
  BY <1>1, <1>6
<1>8. Kept(t)
  <2> SUFFICES ASSUME NEW m \in Nodes PROVE Whole(m, t.ino[m])
    BY DEF Kept
  <2>1. CASE m = Root0
    BY <1>2, <1>3, <1>6, <2>1, WholeLive
  <2>2. CASE m # Root0
    BY <1>7, <2>2, WholeBlank
  <2> QED BY <2>1, <2>2
<1>9. Blank.parent = None /\ Blank.users = 0
  BY DEF Blank
<1>10. InTree(t) = {Root0}
  BY <1>2, <1>3, <1>6, <1>7, <1>9 DEF InTree, in_vfs_tree
<1>11. Trees(t)
  BY <1>2, <1>3, <1>6, <1>7, <1>10 DEF Trees
<1>12. Idle(t)
  BY <1>3, <1>6, <1>7, <1>9 DEF Idle
<1> QED BY <1>3, <1>6, <1>7, <1>8, <1>10, <1>11, <1>12

LEMMA MountedIs ==
  ASSUME NEW t
  PROVE  /\ Mounted(t, 1) = vfs_mount(tarfs_init(t, 1), <<>>, T1)
         /\ Mounted(t, 2) = vfs_mount(tarfs_init(t, 2), <<"mnt", "tarfs">>, T2)
         /\ Mounted(t, 3) = vfs_mount(debug_dev_init(t), <<"dev", "debug">>, Debug)
         /\ Mounted(t, 4) = vfs_mount(new_pipe(t, 1), <<"dev", "kbdraw">>, End(1, "r"))
<1>1. /\ Mounts[1].path = <<>> /\ Mounts[1].n = T1
      /\ Mounts[2].path = <<"mnt", "tarfs">> /\ Mounts[2].n = T2
      /\ Mounts[3].path = <<"dev", "debug">> /\ Mounts[3].n = Debug
      /\ Mounts[4].path = <<"dev", "kbdraw">> /\ Mounts[4].n = End(1, "r")
  BY DEF Mounts, T1, T2
<1>2. /\ Mounted(t, 1) = vfs_mount(tarfs_init(t, 1), Mounts[1].path, Mounts[1].n)
      /\ Mounted(t, 2) = vfs_mount(tarfs_init(t, 2), Mounts[2].path, Mounts[2].n)
      /\ Mounted(t, 3) = vfs_mount(debug_dev_init(t), Mounts[3].path, Mounts[3].n)
      /\ Mounted(t, 4) = vfs_mount(new_pipe(t, 1), Mounts[4].path, Mounts[4].n)
  BY DEF Mounted
<1> QED BY <1>1, <1>2

\* Where the walk of a mount begins
Rooting(t, path) ==
    \E u : /\ u[0] = [n |-> t.root, rest |-> path] /\ u[Len(path)] = vfs_find_root(t, path)
           /\ \A k \in 1..Len(path) : u[k] = RootTurn(t, path, u[k - 1], k)

LEMMA RootWalk == ASSUME NEW t, NEW S, NEW path \in Seq(S) PROVE Rooting(t, path)
BY RootRuns DEF Rooting

LEMMA RootOfNone ==
  ASSUME NEW t, NEW path, path = <<>>, NEW r, r = vfs_find_root(t, path)
  PROVE  r.n = t.root /\ r.rest = path
<1>1. Len(path) = 0
  BY EmptySeq
<1>3. PICK S : path \in Seq(S)
  BY EmptySeq
<1>4. Rooting(t, path)
  BY <1>3, RootWalk
<1>2. PICK u : /\ u[0] = [n |-> t.root, rest |-> path] /\ u[Len(path)] = vfs_find_root(t, path)
               /\ \A k \in 1..Len(path) : u[k] = RootTurn(t, path, u[k - 1], k)
  BY <1>4 DEF Rooting
<1> QED BY <1>1, <1>2

LEMMA RootOfTwo ==
  ASSUME NEW t, NEW a, NEW b, NEW path, path = <<a, b>>, NEW r, r = vfs_find_root(t, path), NEW d
  PROVE  /\ Sibling(t, t.ino[t.root].child, a) = None => r.n = t.root /\ r.rest = path
         /\ /\ d # None /\ Sibling(t, t.ino[t.root].child, a) = d
            /\ Sibling(t, t.ino[d].child, b) = None
            => r.n = d /\ r.rest = <<b>>
<1>1. Len(path) = 2 /\ path[1] = a /\ path[2] = b
  OBVIOUS
<1>a. PICK S : path \in Seq(S)
  <2>1. path \in Seq({a, b})
    OBVIOUS
  <2> QED BY <2>1
<1>b. Rooting(t, path)
  BY <1>a, RootWalk
<1>2. PICK u : /\ u[0] = [n |-> t.root, rest |-> path] /\ u[Len(path)] = vfs_find_root(t, path)
               /\ \A k \in 1..Len(path) : u[k] = RootTurn(t, path, u[k - 1], k)
  BY <1>b DEF Rooting
<1>3. 1 \in 1..2 /\ 2 \in 1..2 /\ 1 - 1 = 0 /\ 2 - 1 = 1 /\ 2 - 1 + 1 = 2 /\ 2 - 2 + 1 = 1 /\ 1 # 2
  OBVIOUS
<1>4. PICK x, y, z : x = u[0] /\ y = u[1] /\ z = u[2]
  OBVIOUS
<1>5. /\ x.n = t.root /\ x.rest = path /\ r = z
      /\ y = RootTurn(t, path, x, 1) /\ z = RootTurn(t, path, y, 2)
  BY <1>1, <1>2, <1>3, <1>4
<1>6. ASSUME Sibling(t, t.ino[t.root].child, a) = None PROVE r.n = t.root /\ r.rest = path
  <2>1. y = x
    BY <1>1, <1>5, <1>6 DEF RootTurn
  <2>2. z = x
    BY <1>1, <1>3, <1>5, <2>1 DEF RootTurn
  <2> QED BY <1>5, <2>2
<1>7. ASSUME d # None, Sibling(t, t.ino[t.root].child, a) = d, Sibling(t, t.ino[d].child, b) = None
      PROVE  r.n = d /\ r.rest = <<b>>
  <2>1. y = [n |-> d, rest |-> Tail(path)]
    BY <1>1, <1>3, <1>5, <1>7 DEF RootTurn
  <2>2. Tail(path) = <<b>>
    OBVIOUS
  <2>3. y.n = d /\ y.rest = <<b>>
    BY <2>1, <2>2
  <2>4. z = y
    BY <1>1, <1>5, <1>7, <2>3 DEF RootTurn
  <2> QED BY <1>5, <2>3, <2>4
<1> QED BY <1>6, <1>7

Moved(t, old, new, up, older, younger, name) ==
    [t EXCEPT !.ino[new].parent = up, !.ino[old].parent = None, !.ino[new].older = older,
              !.ino[new].younger = younger, !.ino[new].name = name]
WithRoot(t, n) == [t EXCEPT !.root = n]

\* The root of the mount tree has no neighbour.
AtRoot(t, old, new, x) ==
    /\ t.root = old
    /\ x = Moved(t, old, new, t.ino[old].parent, t.ino[old].older, t.ino[old].younger, t.ino[old].name)
    /\ HeadChild(x, t.ino[old].parent, old, new) = x
    /\ YoungerOf(x, t.ino[old].older, old) = x /\ OlderOf(x, t.ino[old].younger, old) = x

LEMMA ReplaceAtRoot ==
  ASSUME NEW t, NEW old, NEW new, NEW x, AtRoot(t, old, new, x)
  PROVE  Replace(t, old, new) = WithRoot(x, new)
BY DEF AtRoot, Replace, Moved, WithRoot

LEMMA ReplaceAlone ==
  ASSUME NEW t, NEW old, NEW new, NEW up, NEW older, NEW younger, NEW name,
         up = t.ino[old].parent, older = t.ino[old].older, younger = t.ino[old].younger,
         name = t.ino[old].name, older = None, younger = None, t.root = old,
         NEW x, x = Moved(t, old, new, up, older, younger, name), x.ino[up].child # old
  PROVE  Replace(t, old, new) = WithRoot(x, new)
<1>1. HeadChild(x, up, old, new) = x /\ YoungerOf(x, older, old) = x /\ OlderOf(x, younger, old) = x
  BY DEF HeadChild, YoungerOf, OlderOf
<1>2. /\ HeadChild(x, t.ino[old].parent, old, new) = x /\ YoungerOf(x, t.ino[old].older, old) = x
      /\ OlderOf(x, t.ino[old].younger, old) = x
  BY <1>1
<1>3. x = Moved(t, old, new, t.ino[old].parent, t.ino[old].older, t.ino[old].younger, t.ino[old].name)
  OBVIOUS
<1>4. AtRoot(t, old, new, x)
  BY <1>2, <1>3 DEF AtRoot
<1> QED BY <1>4, ReplaceAtRoot

\* The file system of the image takes the place of the first root.
LEMMA ReplaceRoot ==
  ASSUME NEW t \in FileSystem, NEW new \in Nodes, new # Root0, t.root = Root0,
         t.ino[Root0].parent = Root0, t.ino[Root0].child = None, t.ino[Root0].older = None,
         t.ino[Root0].younger = None, NEW u, u = Replace(t, Root0, new)
  PROVE  /\ u \in FileSystem /\ u.root = new /\ u.stale = t.stale
         /\ \A m \in Nodes : Keep(t.ino[m], u.ino[m])
         /\ \A m \in Nodes \ {Root0, new} : u.ino[m] = t.ino[m]
         /\ u.ino[Root0].parent = None
         /\ u.ino[new].parent = Root0 /\ u.ino[new].older = None /\ u.ino[new].child = t.ino[new].child
<1>1. PICK name, old : name = t.ino[Root0].name /\ old = Root0
  OBVIOUS
<1>0. name \in Names /\ None \in Nodes \cup {None} /\ old \in Nodes /\ new \in Nodes \cup {None}
      /\ old \in Nodes \cup {None} /\ old # None
  BY <1>1, Fields, NodeNames
<1>2. PICK t1, t2, t3, t4, t5 :
        /\ t1 = SetParent(t, new, old) /\ t2 = SetParent(t1, old, None) /\ t3 = SetOlder(t2, new, None)
        /\ t4 = SetYounger(t3, new, None) /\ t5 = SetName(t4, new, name)
  OBVIOUS
<1>3. LinksAt(t, t1, new, old, t.ino[new].child, t.ino[new].older, t.ino[new].name)
  BY <1>0, <1>2, SetIs
<1>4. t1 \in FileSystem
  BY <1>3 DEF LinksAt, Relinked
<1>5. LinksAt(t1, t2, old, None, t1.ino[old].child, t1.ino[old].older, t1.ino[old].name)
  BY <1>0, <1>2, <1>4, SetIs
<1>6. t2 \in FileSystem
  BY <1>5 DEF LinksAt, Relinked
<1>7. LinksAt(t2, t3, new, t2.ino[new].parent, t2.ino[new].child, None, t2.ino[new].name)
  BY <1>0, <1>2, <1>6, SetIs
<1>8. t3 \in FileSystem
  BY <1>7 DEF LinksAt, Relinked
<1>9. LinksAt(t3, t4, new, t3.ino[new].parent, t3.ino[new].child, t3.ino[new].older, t3.ino[new].name)
  BY <1>0, <1>2, <1>8, SetIs
<1>10. t4 \in FileSystem
  BY <1>9 DEF LinksAt, Relinked
<1>11. LinksAt(t4, t5, new, t4.ino[new].parent, t4.ino[new].child, t4.ino[new].older, name)
  BY <1>0, <1>2, <1>10, SetNameIs
<1>12. Relinked(t, t5)
  BY <1>3, <1>5, <1>7, <1>9, <1>11, RelinkedTrans DEF LinksAt
<1>13. /\ \A m \in Nodes \ {old, new} : t5.ino[m] = t.ino[m]
       /\ t5.ino[old].parent = None
       /\ t5.ino[new].parent = old /\ t5.ino[new].older = None /\ t5.ino[new].child = t.ino[new].child
  BY <1>0, <1>1, <1>3, <1>5, <1>7, <1>9, <1>11 DEF LinksAt
<1>14. u = [t5 EXCEPT !.root = new]
  <2>1. [t EXCEPT !.ino[new].parent = old] = t1
    BY <1>2 DEF SetParent, SetIno, WithParent
  <2>2. [t1 EXCEPT !.ino[old].parent = None] = t2
    BY <1>2 DEF SetParent, SetIno, WithParent
  <2>3. [t2 EXCEPT !.ino[new].older = None] = t3
    BY <1>2 DEF SetOlder, SetIno, WithOlder
  <2>4. [t3 EXCEPT !.ino[new].younger = None] = t4
    BY <1>2 DEF SetYounger, SetIno, WithYounger
  <2>5. [t4 EXCEPT !.ino[new].name = name] = t5
    BY <1>2 DEF SetName, SetIno, WithName
  <2>7. [t EXCEPT !.ino[new].parent = old, !.ino[old].parent = None,
                  !.ino[new].older = None, !.ino[new].younger = None, !.ino[new].name = name] = t5
    BY <2>1, <2>2, <2>3, <2>4, <2>5
  <2>8. t5.ino[old].child = None
    <3>1. t5.ino[old].child = t1.ino[old].child
      BY <1>0, <1>1, <1>5, <1>7, <1>9, <1>11 DEF LinksAt
    <3>2. t1.ino[old] = t.ino[old]
      BY <1>0, <1>1, <1>3 DEF LinksAt
    <3> QED BY <1>1, <3>1, <3>2
  <2>9. t.ino[old].parent = old /\ t.ino[old].older = None /\ t.ino[old].younger = None
        /\ t.ino[old].name = name /\ t.root = old /\ u = Replace(t, old, new)
    BY <1>1
  <2>11. PICK up, none : up = old /\ none = None
    OBVIOUS
  <2>12. /\ up = t.ino[old].parent /\ none = t.ino[old].older /\ none = t.ino[old].younger
         /\ name = t.ino[old].name /\ none = None /\ t.root = old /\ t5.ino[up].child # old
    BY <1>0, <2>8, <2>9, <2>11
  <2>13. t5 = Moved(t, old, new, up, none, none, name)
    BY <2>7, <2>11 DEF Moved
  <2>14. Replace(t, old, new) = WithRoot(t5, new)
    BY <2>12, <2>13, ReplaceAlone
  <2> QED BY <2>9, <2>14 DEF WithRoot
<1>15. /\ u \in FileSystem /\ u.root = new /\ u.stale = t5.stale /\ u.ino = t5.ino
  <2>1. t5 \in FileSystem
    BY <1>12 DEF Relinked
  <2> QED BY <1>14, <2>1 DEF FileSystem
<1> QED BY <1>1, <1>12, <1>13, <1>15 DEF Relinked

LEMMA MountFirst ==
  ASSUME NEW t, Boot(t, 1), NEW u, u = Mounted(t, 1)
  PROVE  Boot(u, 2)
<1>1. PICK image \in Images : t = vfs_init(image)
  BY DEF Boot
<1>2. /\ t \in FileSystem /\ Kept(t) /\ Trees(t) /\ Idle(t) /\ t.root = Root0
      /\ \A m \in Nodes \ {Root0} : t.ino[m] = Blank
      /\ t.ino[Root0].live /\ t.ino[Root0].parent = Root0 /\ t.ino[Root0].child = None
      /\ t.ino[Root0].older = None /\ t.ino[Root0].younger = None /\ InTree(t) = {Root0}
  BY <1>1, InitIs
<1>3. /\ T1 \in TarNodes /\ T1 \in Nodes /\ T1 # Root0 /\ Root0 \in Nodes /\ T1 = Tar(1, <<>>) /\ Root0 # None
      /\ Root0 \notin TarNodes /\ ~IsTar(Root0) /\ T1 # None
  <2>1. T1 \in TarNodes /\ T1 = Tar(1, <<>>)
    BY BootNodes DEF T1
  <2> QED BY <2>1, NodeNames
<1>4. ~t.ino[T1].live
  BY <1>2, <1>3, BlankRecord
<1>5. PICK v : v = tarfs_init(t, 1)
  OBVIOUS
<1>6. /\ Passes(t, v) /\ v.stale = t.stale /\ (\A m \in Nodes \ {T1} : v.ino[m] = t.ino[m])
      /\ v.ino[T1].live /\ v.ino[T1].users = 0 /\ v.ino[T1].parent = None
      /\ v.ino[T1].child = None /\ v.ino[T1].older = None /\ v.ino[T1].younger = None
  <2>1. 1 \in {1, 2}
    OBVIOUS
  <2> QED BY <1>2, <1>3, <1>4, <1>5, <2>1, TarfsIs
<1>7. v \in FileSystem /\ Kept(v) /\ v.root = Root0 /\ v.ino[Root0] = t.ino[Root0]
  BY <1>2, <1>3, <1>6 DEF Passes
<1>8. PICK path, m : path = <<>> /\ m = TRUE
  OBVIOUS
<1>9. u = vfs_mount(v, path, T1)
  BY <1>5, <1>8, MountedIs
<1>10. PICK q : q = vfs_find_root(v, path)
  OBVIOUS
<1>11. q.n = Root0 /\ q.rest = path /\ path \in Seq({}) /\ Len(path) = 0
  BY <1>7, <1>8, <1>10, RootOfNone, EmptySeq
<1>12. MountWalk(v, T1, u, q, m)
  BY <1>8, <1>9, <1>10, <1>11, MountWalks
<1>13. PICK f : f[0] = Result(v, Root0) /\ Mounting(f[0], T1, u)
  BY <1>11, <1>12 DEF MountWalk
<1>14. PICK x : x = Replace(v, Root0, T1)
  OBVIOUS
<1>15. u = vfs_free(vfs_free(x, Root0), T1)
  BY <1>3, <1>13, <1>14 DEF Result, Mounting
<1>16. /\ x \in FileSystem /\ x.root = T1 /\ x.stale = v.stale
       /\ \A n \in Nodes : Keep(v.ino[n], x.ino[n])
       /\ \A n \in Nodes \ {Root0, T1} : x.ino[n] = v.ino[n]
       /\ x.ino[Root0].parent = None
       /\ x.ino[T1].parent = Root0 /\ x.ino[T1].older = None /\ x.ino[T1].child = v.ino[T1].child
  BY <1>2, <1>3, <1>7, <1>14, ReplaceRoot
<1>17. Kept(x)
  <2> SUFFICES ASSUME NEW n \in Nodes PROVE Whole(n, x.ino[n])
    BY DEF Kept
  <2>1. Whole(n, v.ino[n])
    BY <1>7 DEF Kept
  <2>2. CASE n \in {Root0, T1}
    <3>1. v.ino[n].live
      BY <1>2, <1>6, <1>7, <2>2
    <3>2. x.ino[n].live /\ (IsTar(n) => x.ino[n].refs >= 1)
      BY <1>16, <2>1, <3>1 DEF Keep, Whole
    <3> QED BY <3>2, WholeLive
  <2>3. CASE n \notin {Root0, T1}
    BY <1>16, <2>1, <2>3
  <2> QED BY <2>2, <2>3
<1>18. PICK y : y = vfs_free(x, Root0)
  OBVIOUS
<1>19. /\ Passes(x, y) /\ y.stale = x.stale /\ (\A n \in Nodes \ {Root0} : y.ino[n] = x.ino[n])
       /\ y.ino[Root0] = Blank
  <2>1. x.ino[Root0].live /\ x.ino[Root0].parent = None /\ x.ino[Root0].users = 0
    BY <1>2, <1>3, <1>7, <1>16 DEF Keep, Idle
  <2>2. Down(Root0, x.ino[Root0]) = Blank
    BY <1>3 DEF Down
  <2>3. /\ Passes(x, y) /\ (x.ino[Root0].live => y.stale = x.stale) /\ (x.stale => y.stale)
        /\ \A n \in Nodes \ {Root0} : y.ino[n] = x.ino[n]
        /\ y.ino[Root0] = IF x.ino[Root0].live /\ x.ino[Root0].parent = None /\ x.ino[Root0].users = 0
                          THEN Down(Root0, x.ino[Root0]) ELSE x.ino[Root0]
    BY <1>3, <1>16, <1>17, <1>18, Free
  <2> QED BY <2>1, <2>2, <2>3
<1>20. y.ino[T1].live /\ y.ino[T1].parent = Root0 /\ y.ino[T1].child = None /\ y.ino[T1].older = None
       /\ y.ino[T1].users = 0
  BY <1>3, <1>6, <1>16, <1>19 DEF Keep
<1>21. u = y
  <2>1. u = vfs_free(y, T1)
    BY <1>15, <1>18
  <2>2. in_vfs_tree(y, T1)
    BY <1>3, <1>20 DEF in_vfs_tree
  <2> QED BY <1>20, <2>1, <2>2 DEF vfs_free
<1>22. /\ u \in FileSystem /\ Kept(u) /\ u.root = T1 /\ ~u.stale
       /\ \A n \in Nodes \ {T1} : u.ino[n] = Blank
  <2>1. \A n \in Nodes \ {T1, Root0} : u.ino[n] = Blank
    BY <1>2, <1>6, <1>16, <1>19, <1>21
  <2> QED BY <1>2, <1>6, <1>16, <1>19, <1>21, <2>1 DEF Passes, Idle
<1>23. InTree(u) = {T1}
  <2>1. \A n \in Nodes : n \in InTree(u) <=> n = T1
    BY <1>3, <1>20, <1>21, <1>22, BlankRecord DEF InTree, in_vfs_tree
  <2> QED BY <1>3, <2>1 DEF InTree
<1>24. Trees(u)
  <2>1. T1 \notin Keys
    BY <1>3, NodeNames
  <2> QED BY <1>20, <1>21, <1>22, <1>23, <2>1 DEF Trees
<1>25. Settled(u, None) /\ Idle(u)
  <2>1. \A n \in Nodes \ {T1} : ~u.ino[n].live /\ u.ino[n].users = 0
    BY <1>22, BlankRecord
  <2>2. TarNodes \subseteq Nodes
    BY NodeNames
  <2> QED BY <1>20, <1>21, <1>22, <1>23, <1>24, <2>1, <2>2 DEF Settled, Idle
<1>26. Rooted(u)
  BY <1>3, <1>20, <1>21, <1>22, BlankRecord DEF Rooted
<1>27. (\A n \in PipeNodes : ~u.ino[n].live) /\ ~u.ino[Debug].live
  <2>1. Debug \in Nodes \ {T1} /\ PipeNodes \subseteq Nodes \ {T1}
    <3>1. \A n \in PipeNodes : n \in Nodes /\ ~IsTar(n)
      BY NodeNames DEF PipeNodes
    <3>2. \A n \in PipeNodes : n \notin TarNodes
      BY <3>1, NodeNames
    <3> QED BY <1>3, <3>1, <3>2, NodeNames
  <2> QED BY <1>22, <2>1, BlankRecord
<1> QED BY <1>20, <1>21, <1>22, <1>23, <1>25, <1>26, <1>27 DEF Boot, Tree2

\* Entries of the image are no device and no pipe.
LEMMA TarApart ==
  \A k, p : /\ IsTar(Tar(k, p)) /\ Tar(k, p) # None /\ Tar(k, p) # Debug
            /\ \A i, side : Tar(k, p) # End(i, side)
<1>1. \A k, p : Tar(k, p)[1] = "tar"
  BY DEF Tar
<1>2. None[1] = "none" /\ Debug[1] = "debug" /\ \A i, side : End(i, side)[1] = "pipe"
  BY DEF None, Debug, End
<1> QED BY <1>1, <1>2 DEF IsTar

\* What is to be mounted is made.
LEMMA MadeBoot ==
  ASSUME NEW t, Settled(t, None), Idle(t), Rooted(t), t.root = T1,
         NEW new \in Nodes \ (InTree(t) \cup Keys), new # Root0,
         NEW v, Passes(t, v), v.stale = t.stale, \A m \in Nodes \ {new} : v.ino[m] = t.ino[m],
         v.ino[new].live, v.ino[new].child = None, v.ino[new].users = 0
  PROVE  /\ Settled(v, new) /\ Ready(v, new) /\ Idle(v) /\ Rooted(v) /\ v.root = T1
         /\ InTree(v) = InTree(t) /\ (\A m \in InTree(t) : v.ino[m] = t.ino[m])
<1>1. t \in FileSystem /\ Kept(t) /\ Trees(t)
  BY DEF Settled
<1>2. v \in FileSystem /\ Kept(v) /\ v.root = t.root
  BY DEF Passes
<1>3. InTree(v) = InTree(t) /\ Trees(v) /\ SameTree(t, v)
  BY <1>1, PassesTrees
<1>4. \A m \in InTree(t) : v.ino[m] = t.ino[m]
  BY DEF InTree
<1>5. None \notin TarNodes /\ TarNodes \subseteq Nodes
  BY NodeNames
<1>6. Settled(v, new)
  BY <1>2, <1>3, <1>5 DEF Settled
<1>7. Ready(v, new)
  BY <1>3 DEF Ready
<1>8. Idle(v)
  BY DEF Idle
<1>9. Rooted(v)
  BY <1>1, StaysRooted
<1> QED BY <1>2, <1>3, <1>4, <1>6, <1>7, <1>8, <1>9

LEMMA GrownBoot ==
  ASSUME NEW new, NEW t, NEW u, Grown(t, u, new), Idle(t), Rooted(t), t.root = T1
  PROVE  Idle(u) /\ Rooted(u) /\ u.root = T1 /\ \A n \in Nodes \ TarNodes : u.ino[n].live = t.ino[n].live
<1>1. Root0 \in Nodes \ TarNodes
  BY NodeNames
<1>2. Rooted(u)
  BY <1>1 DEF Grown, Rooted
<1> QED BY <1>2 DEF Grown, Idle

LEMMA NoneMounted ==
  ASSUME NEW u, NEW new, Settled(u, new), new \notin TarNodes \/ new \in InTree(u)
  PROVE  Settled(u, None)
BY DEF Settled

LEMMA MountSecond ==
  ASSUME NEW t, Boot(t, 2), NEW u, u = Mounted(t, 2)
  PROVE  Boot(u, 3)
<1>1. /\ Settled(t, None) /\ Idle(t) /\ Rooted(t) /\ t.root = T1
      /\ (\A n \in PipeNodes : ~t.ino[n].live) /\ ~t.ino[Debug].live
      /\ InTree(t) = {T1} /\ t.ino[T1].child = None
  BY DEF Boot, Tree2
<1>2. t \in FileSystem /\ Kept(t) /\ Trees(t)
  BY <1>1 DEF Settled
<1>3. /\ T1 \in TarNodes /\ T2 \in TarNodes /\ Mnt \in TarNodes /\ T1 # T2 /\ T1 # Mnt /\ T2 # Mnt
      /\ Mnt = Tar(T1[2], Append(T1[3], "mnt")) /\ T1[3] \in Dirs /\ Append(T1[3], "mnt") \in Dirs
      /\ Mnt[3] \in Dirs /\ Append(Mnt[3], "tarfs") \in Dirs
      /\ Tar(Mnt[2], Append(Mnt[3], "tarfs")) \notin {T1, T2, Mnt}
  BY BootNodes
<1>4. T2 \in Nodes /\ T2 \notin Keys /\ T2 # Root0 /\ T2 # None
  BY <1>3, NodeNames
<1>5. PICK v : v = tarfs_init(t, 2)
  OBVIOUS
<1>6. ~t.ino[T2].live
  BY <1>1, <1>3, <1>4 DEF Settled
<1>7. /\ Passes(t, v) /\ v.stale = t.stale /\ (\A m \in Nodes \ {T2} : v.ino[m] = t.ino[m])
      /\ v.ino[T2].live /\ v.ino[T2].users = 0 /\ v.ino[T2].child = None
  <2>1. 2 \in {1, 2} /\ T2 = Tar(2, <<>>)
    BY DEF T2
  <2> QED BY <1>2, <1>5, <1>6, <2>1, TarfsIs
<1>8. /\ Settled(v, T2) /\ Ready(v, T2) /\ Idle(v) /\ Rooted(v) /\ v.root = T1
      /\ InTree(v) = InTree(t) /\ (\A m \in InTree(t) : v.ino[m] = t.ino[m])
  <2>1. T2 \in Nodes \ (InTree(t) \cup Keys)
    BY <1>1, <1>3, <1>4
  <2> QED BY <1>1, <1>4, <1>7, <2>1, MadeBoot
<1>9. PICK a, b, path : a = "mnt" /\ b = "tarfs" /\ path = <<a, b>>
  OBVIOUS
<1>10. a # "." /\ a # ".." /\ b # "." /\ b # ".."
  BY <1>9
<1>11. u = vfs_mount(v, path, T2)
  BY <1>5, <1>9, MountedIs
<1>12. PICK r : r = vfs_find_root(v, path)
  OBVIOUS
<1>13. InTree(v) = {T1} /\ v.ino[T1].child = None
  BY <1>1, <1>8
<1>14. Sibling(v, v.ino[T1].child, a) = None
  BY <1>13, SiblingOf
<1>15. r.n = T1 /\ r.rest = <<a, b>>
  BY <1>8, <1>9, <1>12, <1>14, RootOfTwo
<1>16. Twice(v, u, T1, T2, a, b, Mnt)
  <2>1. PICK z : z = Tar(Mnt[2], Append(Mnt[3], b))
    OBVIOUS
  <2>2. z \notin InTree(v) \cup {T2, Mnt} /\ Mnt \notin InTree(v) \cup {T2} /\ T1 \in InTree(v)
    BY <1>3, <1>9, <1>13, <2>1
  <2>3. Mnt = Tar(T1[2], Append(T1[3], a))
    BY <1>3, <1>9
  <2> QED BY <1>3, <1>8, <1>10, <1>11, <1>12, <1>14, <1>15, <2>1, <2>2, <2>3, MountTwice
<1>17. PICK w : Linked(v, w, T1, Mnt, a, T2) /\ Planted(w, u, Mnt, T2, b)
  BY <1>3, <1>9, <1>16 DEF Twice
<1>18. /\ Grown(v, w, T2) /\ InTree(w) = InTree(v) \cup {Mnt} /\ w.ino[T1].child = Mnt
       /\ w.ino[Mnt].name = a /\ w.ino[Mnt].older = None
  BY <1>13, <1>17 DEF Linked
<1>19. /\ Grown(w, u, T2) /\ InTree(u) = InTree(w) \cup {T2}
       /\ (\A m \in InTree(w) \ {Mnt} : Alike(w.ino[m], u.ino[m]))
       /\ u.ino[Mnt].older = w.ino[Mnt].older /\ u.ino[Mnt].name = w.ino[Mnt].name
  BY <1>17 DEF Planted
<1>20. /\ Idle(w) /\ Rooted(w) /\ w.root = T1
       /\ \A n \in Nodes \ TarNodes : w.ino[n].live = v.ino[n].live
  BY <1>8, <1>18, GrownBoot
<1>21. /\ Idle(u) /\ Rooted(u) /\ u.root = T1
       /\ \A n \in Nodes \ TarNodes : u.ino[n].live = w.ino[n].live
  BY <1>19, <1>20, GrownBoot
<1>22. Settled(u, None)
  <2>1. Settled(u, T2) /\ T2 \in InTree(u)
    BY <1>19 DEF Grown
  <2> QED BY <2>1, NoneMounted
<1>23. Tree3(u)
  <2>1. InTree(u) = {T1, Mnt, T2}
    BY <1>13, <1>18, <1>19
  <2>2. T1 \in InTree(w) \ {Mnt}
    BY <1>3, <1>13, <1>18
  <2>3. u.ino[T1].child = Mnt
    BY <1>18, <1>19, <2>2 DEF Alike
  <2> QED BY <1>9, <1>18, <1>19, <2>1, <2>3 DEF Tree3
<1>24. (\A n \in PipeNodes : ~u.ino[n].live) /\ ~u.ino[Debug].live
  <2>1. Debug \in Nodes \ TarNodes /\ PipeNodes \subseteq Nodes \ TarNodes
    <3>1. \A n \in PipeNodes : n \in Nodes /\ ~IsTar(n)
      BY NodeNames DEF PipeNodes
    <3> QED BY <3>1, NodeNames
  <2>2. \A n \in Nodes \ TarNodes : v.ino[n] = t.ino[n]
    BY <1>3, <1>7
  <2> QED BY <1>1, <1>20, <1>21, <2>1, <2>2
<1> QED BY <1>21, <1>22, <1>23, <1>24 DEF Boot

LEMMA MountThird ==
  ASSUME NEW t, Boot(t, 3), NEW u, u = Mounted(t, 3)
  PROVE  Boot(u, 4)
<1>1. /\ Settled(t, None) /\ Idle(t) /\ Rooted(t) /\ t.root = T1
      /\ (\A n \in PipeNodes : ~t.ino[n].live) /\ ~t.ino[Debug].live
      /\ InTree(t) = {T1, Mnt, T2} /\ t.ino[T1].child = Mnt
      /\ t.ino[Mnt].name = "mnt" /\ t.ino[Mnt].older = None
  BY DEF Boot, Tree3
<1>2. t \in FileSystem /\ Kept(t) /\ Trees(t)
  BY <1>1 DEF Settled
<1>3. /\ T1 \in TarNodes /\ T1 # Mnt /\ Dev # T1 /\ Dev # T2 /\ Dev # Mnt
      /\ Dev = Tar(T1[2], Append(T1[3], "dev"))
      /\ Tar(Dev[2], Append(Dev[3], "debug")) \notin {T1, T2, Mnt, Dev}
  BY BootNodes
<1>4. T1 # Debug /\ Mnt # Debug /\ T2 # Debug /\ Dev # Debug /\ Tar(Dev[2], Append(Dev[3], "debug")) # Debug
      /\ IsTar(Dev) /\ Mnt # None
  BY TarApart DEF T1, T2, Mnt, Dev
<1>5. Debug \in Nodes /\ Debug \notin TarNodes /\ Debug # Root0 /\ ~IsTar(Debug) /\ Debug \notin Keys
  <2>1. Debug \in Nodes /\ Debug \notin TarNodes /\ Debug # Root0
    BY NodeNames
  <2>2. ~IsTar(Debug)
    BY <2>1, NodeNames
  <2>3. "w" \in {"r", "w"} /\ 0 \in Pipes /\ 1 \in Pipes
    BY ImageAssumption
  <2>4. End(0, "w") # Debug /\ End(1, "w") # Debug
    BY <2>3, NodeNames
  <2> QED BY <2>1, <2>2, <2>4 DEF Keys
<1>6. PICK v : v = debug_dev_init(t)
  OBVIOUS
<1>7. /\ Passes(t, v) /\ v.stale = t.stale /\ (\A m \in Nodes \ {Debug} : v.ino[m] = t.ino[m])
      /\ v.ino[Debug].live /\ v.ino[Debug].users = 0 /\ v.ino[Debug].child = None
  <2>1. PICK name : name = "debug"
    OBVIOUS
  <2>2. name \in Names /\ v = Make(t, Debug, name)
    BY <1>6, <2>1 DEF Names, debug_dev_init
  <2> QED BY <1>1, <1>2, <1>5, <2>2, MakeIs
<1>8. /\ Settled(v, Debug) /\ Ready(v, Debug) /\ Idle(v) /\ Rooted(v) /\ v.root = T1
      /\ InTree(v) = InTree(t) /\ (\A m \in InTree(t) : v.ino[m] = t.ino[m])
  <2>1. Debug \in Nodes \ (InTree(t) \cup Keys)
    BY <1>1, <1>4, <1>5
  <2> QED BY <1>1, <1>5, <1>7, <2>1, MadeBoot
<1>9. PICK a, b, path : a = "dev" /\ b = "debug" /\ path = <<a, b>>
  OBVIOUS
<1>10. a # "." /\ a # ".." /\ b # "." /\ b # ".." /\ a # "mnt"
  BY <1>9
<1>11. u = vfs_mount(v, path, Debug)
  BY <1>6, <1>9, MountedIs
<1>12. PICK r : r = vfs_find_root(v, path)
  OBVIOUS
<1>13. /\ InTree(v) = {T1, Mnt, T2} /\ v.ino[T1].child = Mnt
       /\ v.ino[Mnt].name # a /\ v.ino[Mnt].name = "mnt" /\ v.ino[Mnt].older = None
  BY <1>1, <1>8, <1>10
<1>14. Sibling(v, v.ino[T1].child, a) = None
  BY <1>4, <1>13, SiblingOf
<1>15. r.n = T1 /\ r.rest = <<a, b>>
  BY <1>8, <1>9, <1>12, <1>14, RootOfTwo
<1>16. Twice(v, u, T1, Debug, a, b, Dev)
  <2>1. PICK z : z = Tar(Dev[2], Append(Dev[3], b))
    OBVIOUS
  <2>2. z \notin InTree(v) \cup {Debug, Dev} /\ Dev \notin InTree(v) \cup {Debug} /\ T1 \in InTree(v)
    BY <1>3, <1>4, <1>9, <1>13, <2>1
  <2>3. Dev = Tar(T1[2], Append(T1[3], a))
    BY <1>3, <1>9
  <2> QED BY <1>3, <1>8, <1>10, <1>11, <1>12, <1>14, <1>15, <2>1, <2>2, <2>3, MountTwice
<1>17. PipeNodes \subseteq Nodes \ (TarNodes \cup {Debug})
  <2>1. \A n \in PipeNodes : n \in Nodes /\ ~IsTar(n) /\ n # Debug
    BY NodeNames DEF PipeNodes
  <2> QED BY <2>1, NodeNames
<1>18. \A n \in PipeNodes : ~v.ino[n].live
  BY <1>1, <1>7, <1>17
<1>19. CASE u = v
  <2>1. Settled(u, None)
    BY <1>5, <1>8, <1>19, NoneMounted
  <2>2. Tree4(u)
    BY <1>3, <1>13, <1>19 DEF Tree4
  <2> QED BY <1>8, <1>18, <1>19, <2>1, <2>2 DEF Boot
<1>20. ASSUME NEW w, Linked(v, w, T1, Dev, a, Debug)
       PROVE  /\ Settled(w, None) /\ Idle(w) /\ Rooted(w) /\ w.root = T1
              /\ (\A n \in PipeNodes : ~w.ino[n].live) /\ InTree(w) = {T1, Mnt, T2, Dev} /\ Dev \in TarNodes
              /\ w.ino[T1].child = Dev /\ w.ino[Dev].name = a /\ w.ino[Dev].child = None
  <2>1. /\ Grown(v, w, Debug) /\ InTree(w) = InTree(v) \cup {Dev} /\ w.ino[T1].child = Dev
        /\ w.ino[Dev].name = a /\ w.ino[Dev].child = None
    BY <1>20 DEF Linked
  <2>2. Idle(w) /\ Rooted(w) /\ w.root = T1 /\ \A n \in Nodes \ TarNodes : w.ino[n].live = v.ino[n].live
    BY <1>8, <2>1, GrownBoot
  <2>3. Settled(w, None)
    BY <1>5, <2>1, NoneMounted DEF Grown
  <2>4. Dev \in Nodes
    BY <2>1 DEF InTree
  <2>5. Dev \in TarNodes
    BY <1>4, <2>4, NodeNames
  <2> QED BY <1>13, <1>17, <1>18, <2>1, <2>2, <2>3, <2>5
<1>21. CASE Linked(v, u, T1, Dev, a, Debug)
  <2>1. /\ Settled(u, None) /\ Idle(u) /\ Rooted(u) /\ u.root = T1
        /\ (\A n \in PipeNodes : ~u.ino[n].live) /\ InTree(u) = {T1, Mnt, T2, Dev} /\ Dev \in TarNodes
        /\ u.ino[T1].child = Dev /\ u.ino[Dev].name = a /\ u.ino[Dev].child = None
    BY <1>20, <1>21
  <2>2. Tree4(u)
    BY <1>9, <2>1 DEF Tree4
  <2> QED BY <2>1, <2>2 DEF Boot
<1>22. CASE \E w : Linked(v, w, T1, Dev, a, Debug) /\ Planted(w, u, Dev, Debug, b)
  <2>1. PICK w : Linked(v, w, T1, Dev, a, Debug) /\ Planted(w, u, Dev, Debug, b)
    BY <1>22
  <2>2. /\ Settled(w, None) /\ Idle(w) /\ Rooted(w) /\ w.root = T1
        /\ (\A n \in PipeNodes : ~w.ino[n].live) /\ InTree(w) = {T1, Mnt, T2, Dev} /\ Dev \in TarNodes
        /\ w.ino[T1].child = Dev /\ w.ino[Dev].name = a /\ w.ino[Dev].child = None
    BY <1>20, <2>1
  <2>3. /\ Grown(w, u, Debug) /\ InTree(u) = InTree(w) \cup {Debug}
        /\ (\A m \in InTree(w) \ {Dev} : Alike(w.ino[m], u.ino[m]))
        /\ u.ino[Dev].child = Debug /\ u.ino[Dev].name = w.ino[Dev].name
        /\ u.ino[Debug].name = b /\ u.ino[Debug].older = w.ino[Dev].child
    BY <2>1 DEF Planted
  <2>4. Idle(u) /\ Rooted(u) /\ u.root = T1 /\ \A n \in Nodes \ TarNodes : u.ino[n].live = w.ino[n].live
    BY <2>2, <2>3, GrownBoot
  <2>5. Settled(u, None)
    BY <1>5, <2>3, NoneMounted DEF Grown
  <2>6. T1 \in InTree(w) \ {Dev}
    BY <1>3, <2>2
  <2>7. u.ino[T1].child = Dev
    BY <2>2, <2>3, <2>6 DEF Alike
  <2>8. Tree4(u)
    BY <1>9, <2>2, <2>3, <2>7 DEF Tree4
  <2>9. \A n \in PipeNodes : ~u.ino[n].live
    BY <1>17, <2>2, <2>4
  <2> QED BY <2>4, <2>5, <2>8, <2>9 DEF Boot
<1> QED BY <1>16, <1>19, <1>21, <1>22 DEF Twice

\* The ends of the keyboard's pipes
LEMMA KeyNodes ==
  /\ \A i \in {0, 1}, side \in {"r", "w"} :
        /\ End(i, side) \in PipeNodes /\ End(i, side) \in Nodes \ TarNodes /\ End(i, side) # Root0
        /\ \A k, p : Tar(k, p) # End(i, side)
        /\ Debug # End(i, side) /\ None # End(i, side)
  /\ \A i, j \in {0, 1}, a, b \in {"r", "w"} : End(i, a) = End(j, b) => i = j /\ a = b
  /\ Keys = {End(0, "w"), End(1, "w")} /\ Keys \subseteq Nodes \ TarNodes
<1>1. \A i \in {0, 1}, side \in {"r", "w"} : i \in Pipes
  BY ImageAssumption
<1>2. \A i \in {0, 1}, side \in {"r", "w"} :
         /\ End(i, side) \in Nodes /\ ~IsTar(End(i, side)) /\ End(i, side) # Root0 /\ Debug # End(i, side)
  BY <1>1, NodeNames
<1>3. \A i \in {0, 1}, side \in {"r", "w"} : End(i, side) \in PipeNodes
  BY <1>1 DEF PipeNodes
<1>4. \A i \in {0, 1}, side \in {"r", "w"} : End(i, side) \notin TarNodes
  BY <1>2, NodeNames
<1>5. \A i \in {0, 1}, side \in {"r", "w"} : None # End(i, side)
  BY <1>2, NodeNames
<1>6. \A i \in {0, 1}, side \in {"r", "w"} : \A k, p : Tar(k, p) # End(i, side)
  BY TarApart
<1>7. \A i, j \in {0, 1}, a, b \in {"r", "w"} : End(i, a) = End(j, b) => i = j /\ a = b
  BY <1>1, NodeNames
<1>8. Keys = {End(0, "w"), End(1, "w")}
  BY DEF Keys
<1> QED BY <1>2, <1>3, <1>4, <1>5, <1>6, <1>7, <1>8

\* The users that the keyboard driver gives to the ends W and R of its first pipe
LEMMA KeyPipe ==
  ASSUME NEW t, Boot(t, 4), NEW W, W = End(0, "w"), NEW R, R = End(0, "r"),
         NEW u, u = vfs_open(vfs_open(new_pipe(t, 0), W), R)
  PROVE  /\ u \in FileSystem /\ Kept(u) /\ SameTree(t, u) /\ u.stale = t.stale
         /\ \A n \in Nodes \ {W, R} : u.ino[n] = t.ino[n]
         /\ \A n \in {W, R} : u.ino[n].live /\ u.ino[n].users = 1
<1>1. Settled(t, None) /\ \A n \in PipeNodes : ~t.ino[n].live
  BY DEF Boot
<1>2. t \in FileSystem /\ Kept(t) /\ Trees(t)
  BY <1>1 DEF Settled
<1>3. W # R /\ W \in PipeNodes /\ R \in PipeNodes /\ 0 \in Pipes
  BY KeyNodes, ImageAssumption
<1>4. PICK v : v = new_pipe(t, 0)
  OBVIOUS
<1>5. /\ Passes(t, v) /\ v.stale = t.stale /\ (\A n \in Nodes \ {W, R} : v.ino[n] = t.ino[n])
      /\ \A n \in {W, R} : n \in Nodes /\ v.ino[n].live /\ v.ino[n].users = 0
  <2>1. ~t.ino[End(0, "r")].live /\ ~t.ino[End(0, "w")].live
    BY <1>1, <1>3
  <2> QED BY <1>2, <1>3, <1>4, <2>1, NewPipeIs
<1>6. v \in FileSystem /\ Kept(v) /\ SameTree(t, v)
  BY <1>2, <1>5, PassesTrees DEF Passes
<1>7. PICK w : w = vfs_open(v, W)
  OBVIOUS
<1>8. /\ w \in FileSystem /\ Kept(w) /\ SameTree(v, w) /\ w.stale = v.stale
      /\ (\A m \in Nodes : w.ino[m].live = v.ino[m].live)
      /\ (\A m \in Nodes \ {W} : w.ino[m] = v.ino[m]) /\ w.ino[W].users = v.ino[W].users + 1
  BY <1>5, <1>6, <1>7, OpenIs
<1>9. u = vfs_open(w, R)
  BY <1>4, <1>7
<1>10. /\ u \in FileSystem /\ Kept(u) /\ SameTree(w, u) /\ u.stale = w.stale
       /\ (\A m \in Nodes : u.ino[m].live = w.ino[m].live)
       /\ (\A m \in Nodes \ {R} : u.ino[m] = w.ino[m]) /\ u.ino[R].users = w.ino[R].users + 1
  <2>1. R \in Nodes /\ w.ino[R].live
    BY <1>5, <1>8
  <2> QED BY <1>8, <1>9, <2>1, OpenIs
<1>11. SameTree(t, w)
  BY <1>6, <1>8 DEF SameTree, InTree, in_vfs_tree
<1>12. SameTree(t, u)
  BY <1>10, <1>11 DEF SameTree, InTree, in_vfs_tree
<1>13. w.ino[W].users = 1 /\ u.ino[R].users = 1
  <2>1. v.ino[W].users = 0 /\ v.ino[R].users = 0 /\ w.ino[R] = v.ino[R]
    BY <1>3, <1>5, <1>8
  <2> QED BY <1>8, <1>10, <2>1
<1>14. u.ino[W] = w.ino[W]
  BY <1>3, <1>5, <1>10
<1>15. \A n \in {W, R} : u.ino[n].live /\ u.ino[n].users = 1
  BY <1>5, <1>8, <1>10, <1>13, <1>14
<1>16. \A n \in Nodes \ {W, R} : u.ino[n] = t.ino[n]
  BY <1>5, <1>8, <1>10
<1> QED BY <1>5, <1>8, <1>10, <1>12, <1>15, <1>16

\* The second pipe is made, and its read end E is to be mounted.
KeyMade(t, v, W, R, E, X) ==
    /\ Settled(v, E) /\ Ready(v, E) /\ v.stale = FALSE /\ Rooted(v) /\ v.root = T1
    /\ InTree(v) = InTree(t) /\ (\A m \in Nodes \ {W, R, E, X} : v.ino[m] = t.ino[m])
    /\ \A n \in {W, R, E, X} : v.ino[n].live
    /\ v.ino[W].users = 1 /\ v.ino[R].users = 1
    /\ \A n \in Nodes \ {W, R} : v.ino[n].users = 0

LEMMA KeyReady ==
  ASSUME NEW t, Boot(t, 4), NEW W, W = End(0, "w"), NEW R, R = End(0, "r"),
         NEW u, u = vfs_open(vfs_open(new_pipe(t, 0), W), R),
         NEW E, E = End(1, "r"), NEW X, X = End(1, "w"), NEW v, v = new_pipe(u, 1)
  PROVE  KeyMade(t, v, W, R, E, X)
<1>1. /\ Settled(t, None) /\ Idle(t) /\ Rooted(t) /\ t.root = T1
      /\ \A n \in PipeNodes : ~t.ino[n].live
  BY DEF Boot
<1>2. t \in FileSystem /\ Kept(t) /\ Trees(t)
  BY <1>1 DEF Settled
<1>3. /\ {W, R, E, X} \subseteq PipeNodes /\ {W, R, E, X} \subseteq Nodes \ TarNodes
      /\ Root0 \notin {W, R, E, X} /\ W # R /\ W # E /\ W # X /\ R # E /\ R # X /\ E # X /\ E \notin Keys
      /\ None # E
  <2>1. W \in PipeNodes /\ R \in PipeNodes /\ E \in PipeNodes /\ X \in PipeNodes /\ None # E
    BY KeyNodes
  <2>2. /\ W \in Nodes \ TarNodes /\ R \in Nodes \ TarNodes /\ E \in Nodes \ TarNodes
        /\ X \in Nodes \ TarNodes
    BY KeyNodes
  <2>3. Root0 # W /\ Root0 # R /\ Root0 # E /\ Root0 # X
    BY KeyNodes
  <2>4. W # R /\ W # E /\ W # X /\ R # E /\ R # X /\ E # X
    BY KeyNodes
  <2> QED BY <2>1, <2>2, <2>3, <2>4, KeyNodes
<1>4. /\ u \in FileSystem /\ Kept(u) /\ SameTree(t, u) /\ u.stale = t.stale
      /\ (\A n \in Nodes \ {W, R} : u.ino[n] = t.ino[n])
      /\ \A n \in {W, R} : u.ino[n].live /\ u.ino[n].users = 1
  BY KeyPipe
<1>5. InTree(u) = InTree(t) /\ Trees(u)
  BY <1>2, <1>4, SameTreeTrees
<1>6. /\ Passes(u, v) /\ v.stale = u.stale /\ (\A n \in Nodes \ {E, X} : v.ino[n] = u.ino[n])
      /\ (\A n \in {E, X} : v.ino[n].live /\ v.ino[n].users = 0 /\ v.ino[n].parent = None
                            /\ v.ino[n].child = None)
  <2>1. ~u.ino[E].live /\ ~u.ino[X].live /\ 1 \in Pipes
    BY <1>1, <1>3, <1>4, ImageAssumption
  <2> QED BY <1>4, <2>1, NewPipeIs
<1>7. v \in FileSystem /\ Kept(v) /\ v.root = u.root /\ InTree(v) = InTree(u) /\ Trees(v)
  BY <1>5, <1>6, PassesTrees DEF Passes
<1>8. v.root = T1 /\ v.stale = FALSE
  BY <1>1, <1>4, <1>6, <1>7 DEF SameTree, Idle
<1>9. \A m \in Nodes \ {W, R, E, X} : v.ino[m] = t.ino[m]
  BY <1>4, <1>6
<1>10. \A n \in TarNodes : n \in Nodes \ {W, R, E, X} /\ n # None
  BY <1>3, NodeNames
<1>11. Settled(v, E)
  BY <1>1, <1>5, <1>7, <1>9, <1>10 DEF Settled
<1>12. Ready(v, E)
  <2>1. E \notin InTree(v)
    BY <1>6 DEF InTree, in_vfs_tree
  <2> QED BY <1>3, <1>6, <2>1 DEF Ready
<1>13. T1 \in TarNodes /\ Root0 \in Nodes
  BY BootNodes, NodeNames
<1>14. Rooted(v)
  <2>1. v.ino[Root0] = t.ino[Root0] /\ v.ino[T1] = t.ino[T1]
    BY <1>3, <1>9, <1>10, <1>13
  <2> QED BY <1>1, <1>8, <2>1 DEF Rooted
<1>15. v.ino[W] = u.ino[W] /\ v.ino[R] = u.ino[R]
  BY <1>3, <1>6
<1>16. \A n \in {W, R, E, X} : v.ino[n].live
  BY <1>4, <1>6, <1>15
<1>17. \A n \in Nodes \ {W, R} : v.ino[n].users = 0
  BY <1>1, <1>6, <1>9 DEF Idle
<1>18. v.ino[W].users = 1 /\ v.ino[R].users = 1
  BY <1>4, <1>15
<1> QED BY <1>5, <1>7, <1>8, <1>9, <1>11, <1>12, <1>14, <1>16, <1>17, <1>18 DEF KeyMade

\* What the mount of E leads to
Reached(v, u, E) ==
    /\ u \in FileSystem /\ Kept(u) /\ Trees(u) /\ u.root = v.root /\ u.stale = v.stale
    /\ \A n \in Nodes : u.ino[n].users = v.ino[n].users
    /\ \A n \in Nodes \ TarNodes : u.ino[n].live = v.ino[n].live
    /\ u.ino[u.root].parent = v.ino[v.root].parent

LEMMA GrownReached ==
  ASSUME NEW v, NEW w, NEW u, NEW E
  PROVE  /\ Grown(v, w, E) => Reached(v, w, E)
         /\ Settled(v, E) => Reached(v, v, E)
         /\ Reached(v, w, E) /\ Reached(w, u, E) => Reached(v, u, E)
<1>1. Grown(v, w, E) => Reached(v, w, E)
  BY DEF Grown, Reached, Settled
<1>2. Settled(v, E) => Reached(v, v, E)
  BY DEF Reached, Settled
<1>3. Reached(v, w, E) /\ Reached(w, u, E) => Reached(v, u, E)
  BY DEF Reached
<1> QED BY <1>1, <1>2, <1>3

LEMMA OnceReached ==
  ASSUME NEW v, NEW u, NEW dir, NEW E, NEW a, Settled(v, E), Once(v, u, dir, E, a)
  PROVE  Reached(v, u, E)
<1>1. CASE u = v
  BY <1>1, GrownReached
<1>2. CASE Planted(v, u, dir, E, a)
  <2>1. Grown(v, u, E)
    BY <1>2 DEF Planted
  <2> QED BY <2>1, GrownReached
<1> QED BY <1>1, <1>2 DEF Once

LEMMA TwiceReached ==
  ASSUME NEW v, NEW u, NEW dir, NEW E, NEW a, NEW b, NEW y, Settled(v, E),
         Twice(v, u, dir, E, a, b, y)
  PROVE  Reached(v, u, E)
<1>1. CASE u = v
  BY <1>1, GrownReached
<1>2. CASE Linked(v, u, dir, y, a, E)
  <2>1. Grown(v, u, E)
    BY <1>2 DEF Linked
  <2> QED BY <2>1, GrownReached
<1>3. CASE \E w : Linked(v, w, dir, y, a, E) /\ Planted(w, u, y, E, b)
  <2>1. PICK w : Linked(v, w, dir, y, a, E) /\ Planted(w, u, y, E, b)
    BY <1>3
  <2>2. Grown(v, w, E) /\ Grown(w, u, E)
    BY <2>1 DEF Linked, Planted
  <2> QED BY <2>2, GrownReached
<1> QED BY <1>1, <1>2, <1>3 DEF Twice

LEMMA MountFourth ==
  ASSUME NEW t, Boot(t, 4), NEW W, W = End(0, "w"), NEW R, R = End(0, "r"),
         NEW k0, k0 = vfs_open(vfs_open(new_pipe(t, 0), W), R),
         NEW E, E = End(1, "r"), NEW X, X = End(1, "w"), NEW v, v = new_pipe(k0, 1),
         NEW u, u = Mounted(k0, 4)
  PROVE  Reached(v, u, E)
<1>1. /\ Settled(v, E) /\ Ready(v, E) /\ v.root = T1 /\ InTree(v) = InTree(t)
      /\ (\A m \in Nodes \ {W, R, E, X} : v.ino[m] = t.ino[m])
  <2>1. KeyMade(t, v, W, R, E, X)
    BY KeyReady
  <2> QED BY <2>1 DEF KeyMade
<1>2. Tree4(t)
  BY DEF Boot
<1>3. /\ T1 \in TarNodes /\ Dev # T1 /\ T1 # Mnt /\ Dev = Tar(T1[2], Append(T1[3], "dev"))
      /\ (\A name : Tar(Dev[2], Append(Dev[3], name)) \notin {T1, T2, Mnt, Dev})
  BY BootNodes
<1>4. /\ T1 # E /\ Dev # E /\ Mnt # E /\ Mnt # None /\ Dev # None /\ Debug # E
      /\ \A name : Tar(Dev[2], Append(Dev[3], name)) \notin {Debug, E}
  BY TarApart, KeyNodes DEF T1, Dev, Mnt
<1>5. \A m \in {T1, Mnt, Dev, Debug} : m \in Nodes => v.ino[m] = t.ino[m]
  <2>1. \A m \in {T1, Mnt, Dev, Debug} : m \notin {W, R, E, X}
    BY TarApart, KeyNodes DEF T1, Dev, Mnt
  <2> QED BY <1>1, <2>1
<1>6. T1 \in Nodes /\ Mnt \in Nodes /\ Debug \in Nodes
  BY BootNodes, NodeNames
<1>7. PICK a, b, path : a = "dev" /\ b = "kbdraw" /\ path = <<a, b>>
  OBVIOUS
<1>8. a # "." /\ a # ".." /\ b # "." /\ b # ".." /\ a # "mnt" /\ b # "debug"
  BY <1>7
<1>9. u = vfs_mount(v, path, E)
  BY <1>7, MountedIs
<1>10. PICK r : r = vfs_find_root(v, path)
  OBVIOUS
<1>11. PICK z : z = Tar(Dev[2], Append(Dev[3], b))
  OBVIOUS
<1>12. z \notin InTree(v) \cup {E, Dev} /\ T1 \in InTree(v)
  <2>1. InTree(v) \subseteq {T1, Mnt, T2, Dev, Debug} /\ T1 \in InTree(v)
    BY <1>1, <1>2 DEF Tree4
  <2>2. z \notin {T1, T2, Mnt, Dev, Debug, E}
    BY <1>3, <1>4, <1>11
  <2> QED BY <2>1, <2>2
<1>13. CASE t.ino[T1].child = Mnt /\ t.ino[Mnt].name = "mnt" /\ t.ino[Mnt].older = None /\ Dev \notin InTree(t)
  <2>1. v.ino[T1].child = Mnt /\ v.ino[Mnt].name # a /\ v.ino[Mnt].older = None /\ Dev \notin InTree(v)
    BY <1>1, <1>5, <1>6, <1>8, <1>13
  <2>2. Sibling(v, v.ino[T1].child, a) = None
    BY <1>4, <2>1, SiblingOf
  <2>3. r.n = T1 /\ r.rest = <<a, b>>
    BY <1>1, <1>7, <1>10, <2>2, RootOfTwo
  <2>4. Twice(v, u, T1, E, a, b, Dev)
    <3>1. Dev = Tar(T1[2], Append(T1[3], a)) /\ Dev \notin InTree(v) \cup {E}
      BY <1>3, <1>4, <1>7, <2>1
    <3> QED BY <1>1, <1>3, <1>8, <1>9, <1>10, <1>11, <1>12, <2>2, <2>3, <3>1, MountTwice
  <2> QED BY <1>1, <2>4, TwiceReached
<1>14. CASE /\ t.ino[T1].child = Dev /\ t.ino[Dev].name = "dev" /\ Dev \in InTree(t) /\ Dev \in TarNodes
            /\ \/ t.ino[Dev].child = None
               \/ t.ino[Dev].child = Debug /\ t.ino[Debug].name = "debug" /\ t.ino[Debug].older = None
  <2>1. /\ v.ino[T1].child = Dev /\ v.ino[Dev].name = a /\ Dev \in InTree(v) /\ Dev \in TarNodes
        /\ \/ v.ino[Dev].child = None
           \/ v.ino[Dev].child = Debug /\ v.ino[Debug].name # b /\ v.ino[Debug].older = None
    <3>1. Dev \in Nodes
      BY <1>14 DEF InTree
    <3> QED BY <1>1, <1>5, <1>6, <1>7, <1>8, <1>14, <3>1
  <2>2. Sibling(v, v.ino[v.root].child, a) = Dev
    BY <1>1, <1>4, <2>1, SiblingOf
  <2>3. Sibling(v, v.ino[Dev].child, b) = None
    <3>1. Debug # None
      BY <1>6, NodeNames
    <3> QED BY <2>1, <3>1, SiblingOf
  <2>4. r.n = Dev /\ r.rest = <<b>>
    BY <1>4, <1>7, <1>10, <2>2, <2>3, RootOfTwo
  <2>5. Once(v, u, Dev, E, b)
    BY <1>1, <1>8, <1>9, <1>10, <1>11, <1>12, <2>1, <2>3, <2>4, MountOnce
  <2> QED BY <1>1, <2>5, OnceReached
<1> QED BY <1>2, <1>13, <1>14 DEF Tree4

\* What keyboard_init makes of the file system
KeyboardMade(u, W, R, X) ==
    /\ u \in FileSystem /\ Kept(u) /\ Trees(u) /\ Rooted(u) /\ u.stale = FALSE
    /\ \A n \in {W, R, X} : u.ino[n].live /\ u.ino[n].users = 1
    /\ \A n \in Nodes \ {W, R, X} : u.ino[n].users = 0

LEMMA KeyboardIs ==
  ASSUME NEW t, Boot(t, 4), NEW W, W = End(0, "w"), NEW R, R = End(0, "r"), NEW X, X = End(1, "w"),
         NEW k0, k0 = vfs_open(vfs_open(new_pipe(t, 0), W), R),
         NEW u, u = vfs_open(Mounted(k0, 4), X)
  PROVE  KeyboardMade(u, W, R, X)
<1>1. PICK E : E = End(1, "r")
  OBVIOUS
<1>2. PICK v : v = new_pipe(k0, 1)
  OBVIOUS
<1>3. PICK w : w = Mounted(k0, 4)
  OBVIOUS
<1>4. Reached(v, w, E)
  BY <1>1, <1>2, <1>3, MountFourth
<1>5. /\ Settled(v, E) /\ v.stale = FALSE /\ Rooted(v)
      /\ (\A n \in {W, R, E, X} : v.ino[n].live)
      /\ v.ino[W].users = 1 /\ v.ino[R].users = 1
      /\ \A n \in Nodes \ {W, R} : v.ino[n].users = 0
  <2>1. KeyMade(t, v, W, R, E, X)
    BY <1>1, <1>2, KeyReady
  <2> QED BY <2>1 DEF KeyMade
<1>6. /\ W \in Nodes \ TarNodes /\ R \in Nodes \ TarNodes /\ X \in Nodes \ TarNodes
      /\ W # R /\ W # X /\ R # X
  BY KeyNodes
<1>7. Root0 \in Nodes \ TarNodes
  BY NodeNames
<1>8. /\ w \in FileSystem /\ Kept(w) /\ Trees(w) /\ w.stale = FALSE
      /\ (\A n \in Nodes : w.ino[n].users = v.ino[n].users)
      /\ (\A n \in Nodes \ TarNodes : w.ino[n].live = v.ino[n].live)
      /\ w.ino[w.root].parent = v.ino[v.root].parent
  BY <1>4, <1>5 DEF Reached
<1>9. Rooted(w)
  BY <1>5, <1>7, <1>8 DEF Rooted
<1>10. w.ino[W].live /\ w.ino[R].live /\ w.ino[X].live
  BY <1>5, <1>6, <1>8
<1>11. /\ u \in FileSystem /\ Kept(u) /\ SameTree(w, u) /\ u.stale = w.stale
       /\ (\A m \in Nodes : u.ino[m].live = w.ino[m].live)
       /\ (\A m \in Nodes \ {X} : u.ino[m] = w.ino[m]) /\ u.ino[X].users = w.ino[X].users + 1
  BY <1>3, <1>6, <1>8, <1>10, OpenIs
<1>12. Trees(u) /\ Rooted(u)
  BY <1>8, <1>9, <1>11, SameTreeTrees, StaysRooted
<1>13. w.ino[X].users = 0 /\ w.ino[W].users = 1 /\ w.ino[R].users = 1
  BY <1>5, <1>6, <1>8
<1>14. \A n \in {W, R, X} : u.ino[n].live /\ u.ino[n].users = 1
  BY <1>6, <1>10, <1>11, <1>13
<1>15. \A n \in Nodes \ {W, R, X} : u.ino[n].users = 0
  BY <1>5, <1>8, <1>11
<1> QED BY <1>8, <1>11, <1>12, <1>14, <1>15 DEF KeyboardMade

\* Before the keyboard driver starts, no slot is in use and no inode is open.
Vacant(s) == (\A h \in Slots : At(s, h) = NoDesc) /\ s.duped = {}

LEMMA VacantHolders ==
  ASSUME NEW s, Vacant(s), NEW n
  PROVE  HoldersIn(s, n) = {} /\ Cardinality(HoldersIn(s, n)) = 0
<1>1. HoldersIn(s, n) = {}
  BY SlotFacts DEF Vacant
<1> QED BY <1>1, FS_EmptySet

LEMMA VacantKeeps ==
  ASSUME NEW k \in 1..4, NEW s \in States, Shared(s), Vacant(s), NEW t, t = s.fs, Kept(t), Trees(t),
         Idle(t), k > 1 => Rooted(t)
  PROVE  SInv(s, k)
<1>1. Leading(s)
  BY DEF Vacant, Leading
<1>2. Counted(s, k)
  <2>1. SUFFICES ASSUME NEW n \in Nodes
                 PROVE  Counts(s.fs.ino[n], Cardinality(HoldersIn(s, n)) + DriverAt(k, n))
    BY DEF Counted
  <2>2. Cardinality(HoldersIn(s, n)) = 0 /\ DriverAt(k, n) = 0
    BY VacantHolders DEF DriverAt
  <2>3. s.fs.ino[n].users = 0
    BY DEF Idle
  <2> QED BY <2>2, <2>3 DEF Counts
<1>3. Late(s)
  BY DEF Late, Idle
<1> QED BY <1>1, <1>2, <1>3 DEF SInv

\* Of the first steps of kinit
LEMMA BootFs ==
  ASSUME NEW t, NEW k \in 1..4, Boot(t, k)
  PROVE  t \in FileSystem /\ Kept(t) /\ Trees(t) /\ Idle(t) /\ (k > 1 => Rooted(t))
<1>1. CASE k = 1
  <2>1. PICK image \in Images : t = vfs_init(image)
    BY <1>1 DEF Boot
  <2> QED BY <1>1, <2>1, InitIs
<1>2. CASE k > 1
  BY <1>2 DEF Boot, Settled
<1> QED BY <1>1, <1>2

LEMMA MountBoot ==
  ASSUME NEW t, NEW k \in 1..3, Boot(t, k), NEW u, u = Mounted(t, k)
  PROVE  Boot(u, k + 1)
<1>1. CASE k = 1
  <2>1. Boot(u, 2)
    BY <1>1, MountFirst
  <2> QED BY <1>1, <2>1
<1>2. CASE k = 2
  <2>1. Boot(u, 3)
    BY <1>2, MountSecond
  <2> QED BY <1>2, <2>1
<1>3. CASE k = 3
  <2>1. Boot(u, 4)
    BY <1>3, MountThird
  <2> QED BY <1>3, <2>1
<1> QED BY <1>1, <1>2, <1>3

\* The keyboard driver gets a slot of the first process.
LEMMA KeyboardSlot ==
  ASSUME NEW s \in States, Shared(s), Vacant(s), NEW W, W = End(0, "w"), NEW R, R = End(0, "r"),
         NEW X, X = End(1, "w"), NEW k1, KeyboardMade(k1, W, R, X),
         NEW x, x = NewDesc(s, Init1, 0, R), NEW u, u = [x EXCEPT !.fs = k1]
  PROVE  SInv(u, 5) /\ u.duped = {} /\ Spares(s, u, Init1)
<1>1. /\ k1 \in FileSystem /\ Kept(k1) /\ Trees(k1) /\ Rooted(k1) /\ k1.stale = FALSE
      /\ (\A n \in {W, R, X} : k1.ino[n].live /\ k1.ino[n].users = 1)
      /\ \A n \in Nodes \ {W, R, X} : k1.ino[n].users = 0
  BY DEF KeyboardMade
<1>2. /\ W \in Nodes /\ R \in Nodes /\ X \in Nodes /\ R # W /\ R # X /\ W # X /\ Keys = {W, X}
  BY KeyNodes
<1>3. Init1 \in Pid /\ 0 \in Slot
  BY FilesAssumption DEF Slot
<1>4. PICK h : h = <<Init1, 0>>
  OBVIOUS
<1>5. h \in Slots /\ At(s, h) = NoDesc /\ s.fd[Init1][0] = NoDesc
  BY <1>3, <1>4, SlotFacts DEF At, Vacant
<1>6. PICK d \in Desc : s.desc[d].users = 0 /\ x = Put(s, Init1, 0, d, R, s.fs, s.duped)
  BY <1>3, <1>5, NewDescIs
<1>7. s.desc[d].users = 0 \/ s.desc[d].ino = R
  BY <1>6
<1>8. x \in States /\ x.fs = s.fs /\ x.duped = s.duped /\ Attached(s, x, h, d, R)
  <2>1. s.fs \in FileSystem /\ s.duped \in SUBSET (Nodes \ Keys) /\ R \in Nodes \cup {None}
    BY <1>2, StateFields
  <2> QED BY <1>3, <1>4, <1>6, <2>1, PutIs
<1>9. x \in States /\ k1 \in FileSystem
  BY <1>1, <1>8
<1>10. /\ u \in States /\ u.fs = k1 /\ u.fd = x.fd /\ u.desc = x.desc /\ u.duped = x.duped
       /\ (\A g \in Slots : At(u, g) = At(x, g)) /\ (Shared(x) => Shared(u))
  BY <1>9, WithFs
<1>11. Shared(u)
  BY <1>5, <1>8, <1>10, AttachShared
<1>12. Attached(s, u, h, d, R)
  BY <1>8, <1>10 DEF Attached
<1>13. Leading(s)
  BY DEF Leading, Vacant
<1>14. /\ Leading(u)
       /\ \A m : HoldersIn(u, m) = IF m = R THEN HoldersIn(s, R) \cup {h} ELSE HoldersIn(s, m)
       /\ \A m : h \notin HoldersIn(s, m)
  <2>1. R \in Nodes \ Keys
    BY <1>2
  <2> QED BY <1>5, <1>7, <1>12, <1>13, <2>1, AttachHolders
<1>15. Cardinality(HoldersIn(u, R)) = 1
  <2>1. HoldersIn(u, R) = {h}
    BY <1>14, VacantHolders
  <2> QED BY <2>1, FS_Singleton
<1>16. \A m : m # R => Cardinality(HoldersIn(u, m)) = 0
  BY <1>14, VacantHolders
<1>17. Counted(u, 5)
  <2>1. SUFFICES ASSUME NEW n \in Nodes
                 PROVE  Counts(u.fs.ino[n], Cardinality(HoldersIn(u, n)) + DriverAt(5, n))
    BY DEF Counted
  <2>2. CASE n = R
    <3>1. DriverAt(5, n) = 0
      BY <1>2, <2>2 DEF DriverAt
    <3> QED BY <1>1, <1>10, <1>15, <2>2, <3>1 DEF Counts
  <2>3. CASE n \in {W, X}
    <3>1. DriverAt(5, n) = 1 /\ n # R
      BY <1>2, <2>3 DEF DriverAt
    <3> QED BY <1>1, <1>10, <1>16, <2>3, <3>1 DEF Counts
  <2>4. CASE n \notin {W, R, X}
    <3>1. DriverAt(5, n) = 0 /\ n # R
      BY <1>2, <2>4 DEF DriverAt
    <3> QED BY <1>1, <1>10, <1>16, <2>4, <3>1 DEF Counts
  <2> QED BY <2>2, <2>3, <2>4
<1>18. Late(u)
  BY <1>1, <1>10 DEF Late
<1>19. SInv(u, 5)
  BY <1>1, <1>10, <1>11, <1>14, <1>17, <1>18 DEF SInv
<1>20. Spares(s, u, Init1)
  BY <1>3, <1>4, <1>12, SlotSpares
<1> QED BY <1>8, <1>10, <1>19, <1>20 DEF Vacant

LEMMA KeyboardKeeps ==
  ASSUME NEW s \in States, Shared(s), Vacant(s), NEW t, t = s.fs, Boot(t, 4),
         NEW W, W = End(0, "w"), NEW R, R = End(0, "r"), NEW X, X = End(1, "w"),
         NEW k0, k0 = vfs_open(vfs_open(new_pipe(t, 0), W), R),
         NEW k1, k1 = vfs_open(Mounted(k0, 4), X),
         NEW u, u = [NewDesc(s, Init1, 0, R) EXCEPT !.fs = k1]
  PROVE  SInv(u, 5) /\ u.duped = {} /\ Spares(s, u, Init1)
<1>1. KeyboardMade(k1, W, R, X)
  BY KeyboardIs
<1> QED BY <1>1, KeyboardSlot

\* After that the driver keeps what it has.
LEMMA NextStep ==
  ASSUME NEW k \in 5..7, NEW s, SInv(s, k)
  PROVE  SInv(s, k + 1)
<1>1. \A n : DriverAt(k + 1, n) = DriverAt(k, n)
  BY DEF DriverAt
<1>2. k > 1 /\ k + 1 > 1
  OBVIOUS
<1>3. Counted(s, k) <=> Counted(s, k + 1)
  BY <1>1 DEF Counted
<1> QED BY <1>2, <1>3 DEF SInv

-----------------------------------------------------------------------------
(* The invariant                                                           *)

\* No program uses the file system in a way that is known to break it: .. of
\* the root leads to the inode that the root was mounted on, which is freed,
\* and a pipe that finds one free slot leaves a descriptor without inode.
Careful ==
    /\ {"root_parent", "pipe_full"} \cap Cases = {}
    /\ \A path \in Looked \cup {Executable} : ".." \notin ToSet(path)

IInv ==
    /\ step \in 1..8 /\ SInv(files, step)
    /\ alive \subseteq Pid /\ Init1 \in alive
    /\ \A p \in Pid \ alive, i \in Slot : files.fd[p][i] = NoDesc
    /\ step < 8 => files.duped = {}
    /\ step <= 4 => Boot(files.fs, step) /\ Vacant(files)

LEMMA FilesAre ==
  /\ files.fs = fs /\ files.fd = fd /\ files.desc = desc /\ files.duped = duped
  /\ files' = [fs |-> fs', fd |-> fd', desc |-> desc', duped |-> duped']
BY DEF files

LEMMA InitIInv == ASSUME Init PROVE IInv
<1>1. PICK image \in Images : fs = vfs_init(image)
  BY DEF Init
<1>2. /\ fs \in FileSystem /\ Kept(fs) /\ Trees(fs) /\ Idle(fs)
  BY <1>1, InitIs
<1>3. PICK s : s = files
  OBVIOUS
<1>4. s.fs = fs /\ s.fd = fd /\ s.desc = desc /\ s.duped = duped
  BY <1>3, FilesAre
<1>5. /\ fd = [p \in Pid |-> [i \in Slot |-> NoDesc]] /\ desc = [d \in Desc |-> Unused]
      /\ duped = {} /\ step = 1 /\ alive = {Init1}
  BY DEF Init
<1>6. Unused \in [ino : Nodes \cup {None}, users : Nat] /\ Unused.users = 0
  BY DEF Unused
<1>7. s \in States
  <2>1. fd \in [Pid -> [Slot -> Desc \cup {NoDesc}]]
    BY <1>5
  <2>2. desc \in [Desc -> [ino : Nodes \cup {None}, users : Nat]]
    BY <1>5, <1>6
  <2>3. s = [fs |-> fs, fd |-> fd, desc |-> desc, duped |-> duped]
    BY <1>3 DEF files
  <2>4. duped \in SUBSET (Nodes \ Keys)
    BY <1>5
  <2> QED BY <1>2, <2>1, <2>2, <2>3, <2>4 DEF States
<1>8. Vacant(s)
  <2>1. \A p \in Pid, i \in Slot : s.fd[p][i] = NoDesc
    BY <1>4, <1>5
  <2>2. \A h \in Slots : At(s, h) = NoDesc
    BY <2>1, SlotFacts DEF At
  <2> QED BY <1>4, <1>5, <2>2 DEF Vacant
<1>9. Shared(s)
  <2>1. SUFFICES ASSUME NEW d \in Desc
                 PROVE  s.desc[d].users = Cardinality(SlotsOf(s, d))
    BY DEF Shared
  <2>2. s.desc[d].users = 0
    BY <1>4, <1>5, <1>6
  <2>3. SlotsOf(s, d) = {}
    BY <1>8, SlotFacts DEF Vacant, SlotsOf
  <2> QED BY <2>2, <2>3, FS_EmptySet
<1>10. SInv(s, 1)
  <2>1. 1 \in 1..4 /\ ~(1 > 1)
    OBVIOUS
  <2> QED BY <1>2, <1>4, <1>7, <1>8, <1>9, <2>1, VacantKeeps
<1>11. Boot(s.fs, 1)
  BY <1>1, <1>4 DEF Boot
<1>12. \A p \in Pid, i \in Slot : s.fd[p][i] = NoDesc
  BY <1>4, <1>5
<1>13. Init1 \in Pid
  BY FilesAssumption
<1> QED BY <1>3, <1>4, <1>5, <1>8, <1>10, <1>11, <1>12, <1>13 DEF IInv

\* What an action makes of the state
LEMMA AfterStep ==
  ASSUME NEW k \in 1..8, NEW s, SInv(s, k), Becomes(s), step' = k,
         alive' \subseteq Pid, Init1 \in alive',
         \A p \in Pid \ alive', i \in Slot : s.fd[p][i] = NoDesc,
         k < 8 => s.duped = {}, k <= 4 => Boot(s.fs, k) /\ Vacant(s)
  PROVE  IInv'
<1>1. s \in States
  BY DEF SInv
<1>2. PICK w : w = files'
  OBVIOUS
<1>3. w \in States /\ Renames(s, w)
  BY <1>1, <1>2, BecomesRenames
<1>4. SInv(w, k) /\ \A h \in Slots : At(w, h) = NoDesc <=> At(s, h) = NoDesc
  BY <1>3, RenamesKeeps
<1>5. w.fs = s.fs /\ w.duped \subseteq s.duped
  BY <1>3 DEF Renames
<1>6. \A p \in Pid \ alive', i \in Slot : w.fd[p][i] = NoDesc
  <2>1. SUFFICES ASSUME NEW p \in Pid \ alive', NEW i \in Slot
                 PROVE  w.fd[p][i] = NoDesc
    OBVIOUS
  <2>2. PICK h : h = <<p, i>>
    OBVIOUS
  <2>3. h \in Slots /\ h[1] = p /\ h[2] = i
    BY <2>2, SlotFacts
  <2> QED BY <1>4, <2>3 DEF At
<1>7. k < 8 => w.duped = {}
  BY <1>5
<1>8. k <= 4 => Boot(w.fs, k) /\ Vacant(w)
  BY <1>4, <1>5 DEF Vacant
<1> QED BY <1>2, <1>4, <1>6, <1>7, <1>8 DEF IInv

LEMMA AfterCall ==
  ASSUME IInv, step = 8, step' = 8, NEW p \in alive, NEW s, s = files, NEW u, SInv(u, 8),
         Spares(s, u, p), Becomes(u), alive' = alive
  PROVE  IInv'
<1>1. alive \subseteq Pid /\ Init1 \in alive /\ \A q \in Pid \ alive, i \in Slot : s.fd[q][i] = NoDesc
  BY DEF IInv
<1>2. \A q \in Pid \ alive, i \in Slot : u.fd[q][i] = NoDesc
  BY <1>1 DEF Spares
<1>3. 8 \in 1..8 /\ ~(8 < 8) /\ ~(8 <= 4)
  OBVIOUS
<1> QED BY <1>1, <1>2, <1>3, AfterStep

\* Calls that only look at the file system
LEMMA AfterLook ==
  ASSUME IInv, step = 8, step' = 8, NEW p \in alive, NEW s, s = files, NEW u, SInv(u, 8),
         u.fd = s.fd, Becomes(u), alive' = alive
  PROVE  IInv'
<1>1. Spares(s, u, p)
  BY DEF Spares
<1> QED BY <1>1, AfterCall

LEMMA NotStale ==
  ASSUME NEW k, NEW s, SInv(s, k), s.duped = {}
  PROVE  ~s.fs.stale
BY DEF SInv, Late

LEMMA BootMountI == ASSUME IInv, BootMount PROVE IInv'
<1>1. PICK k \in 1..3 : Booting(k) /\ Becomes([files EXCEPT !.fs = Mounted(@, k)])
  BY DEF BootMount
<1>2. step = k /\ step' = k + 1 /\ alive' = alive
  BY <1>1 DEF Booting
<1>3. PICK s : s = files
  OBVIOUS
<1>4. /\ SInv(s, k) /\ Boot(s.fs, k) /\ Vacant(s) /\ alive \subseteq Pid /\ Init1 \in alive
      /\ \A p \in Pid \ alive, i \in Slot : s.fd[p][i] = NoDesc
  BY <1>2, <1>3 DEF IInv
<1>5. s \in States /\ Shared(s)
  BY <1>4 DEF SInv
<1>6. PICK t : t = Mounted(s.fs, k)
  OBVIOUS
<1>7. Boot(t, k + 1)
  BY <1>4, <1>6, MountBoot
<1>8. k + 1 \in 1..4 /\ k + 1 > 1 /\ k + 1 \in 1..8 /\ k + 1 < 8 /\ k + 1 <= 4
  OBVIOUS
<1>9. t \in FileSystem /\ Kept(t) /\ Trees(t) /\ Idle(t) /\ Rooted(t)
  BY <1>7, <1>8, BootFs
<1>10. PICK u : u = [s EXCEPT !.fs = t]
  OBVIOUS
<1>11. /\ u \in States /\ u.fs = t /\ u.fd = s.fd /\ u.desc = s.desc /\ u.duped = s.duped
       /\ (\A h \in Slots : At(u, h) = At(s, h)) /\ (Shared(s) => Shared(u))
  BY <1>5, <1>9, <1>10, WithFs
<1>12. Vacant(u)
  BY <1>4, <1>11 DEF Vacant
<1>13. SInv(u, k + 1)
  BY <1>5, <1>8, <1>9, <1>11, <1>12, VacantKeeps
<1>14. Becomes(u)
  BY <1>1, <1>3, <1>6, <1>10
<1>15. u.duped = {}
  BY <1>12 DEF Vacant
<1>16. /\ alive' \subseteq Pid /\ Init1 \in alive'
       /\ \A p \in Pid \ alive', i \in Slot : u.fd[p][i] = NoDesc
  BY <1>2, <1>4, <1>11
<1>17. Boot(u.fs, k + 1)
  BY <1>7, <1>11
<1> QED BY <1>2, <1>8, <1>12, <1>13, <1>14, <1>15, <1>16, <1>17, AfterStep

\* The steps after the mounts, of which the first process is the actor
LEMMA AfterBoot ==
  ASSUME IInv, NEW k \in 4..7, Booting(k), NEW s, s = files, NEW u, SInv(u, k + 1), u.duped = {},
         Spares(s, u, Init1), Becomes(u)
  PROVE  IInv'
<1>1. step = k /\ step' = k + 1 /\ alive' = alive
  BY DEF Booting
<1>2. alive \subseteq Pid /\ Init1 \in alive /\ \A p \in Pid \ alive, i \in Slot : s.fd[p][i] = NoDesc
  BY DEF IInv
<1>3. \A p \in Pid \ alive', i \in Slot : u.fd[p][i] = NoDesc
  BY <1>1, <1>2 DEF Spares
<1>4. k + 1 \in 1..8 /\ ~(k + 1 <= 4)
  OBVIOUS
<1> QED BY <1>1, <1>2, <1>3, <1>4, AfterStep

LEMMA KeyboardI == ASSUME IInv, keyboard_init PROVE IInv'
<1>1. Booting(4)
  BY DEF keyboard_init
<1>2. PICK s : s = files
  OBVIOUS
<1>3. SInv(s, 4) /\ Boot(s.fs, 4) /\ Vacant(s)
  BY <1>1, <1>2 DEF IInv, Booting
<1>4. s \in States /\ Shared(s) /\ s.fs = fs
  BY <1>2, <1>3, FilesAre DEF SInv
<1>5. PICK W, R, X : W = End(0, "w") /\ R = End(0, "r") /\ X = End(1, "w")
  OBVIOUS
<1>6. PICK t : t = fs
  OBVIOUS
<1>7. PICK k0 : k0 = vfs_open(vfs_open(new_pipe(t, 0), W), R)
  OBVIOUS
<1>8. PICK k1 : k1 = vfs_open(Mounted(k0, 4), X)
  OBVIOUS
<1>9. PICK u : u = [NewDesc(s, Init1, 0, R) EXCEPT !.fs = k1]
  OBVIOUS
<1>10. t = s.fs /\ Boot(t, 4)
  BY <1>3, <1>4, <1>6
<1>11. SInv(u, 5) /\ u.duped = {} /\ Spares(s, u, Init1)
  BY <1>3, <1>4, <1>5, <1>7, <1>8, <1>9, <1>10, KeyboardKeeps
<1>12. Becomes(u)
  BY <1>2, <1>5, <1>6, <1>7, <1>8, <1>9 DEF keyboard_init
<1>13. 4 \in 4..7 /\ 4 + 1 = 5
  OBVIOUS
<1> QED BY <1>1, <1>2, <1>11, <1>12, <1>13, AfterBoot

LEMMA BootOpenI == ASSUME IInv, BootOpen PROVE IInv'
<1>1. PICK k : k = step
  OBVIOUS
<1>2. k \in 5..7 /\ k \in 4..7 /\ k \in 1..8 /\ k < 8 /\ Booting(k)
  BY <1>1 DEF BootOpen
<1>3. PICK s : s = files
  OBVIOUS
<1>4. SInv(s, k) /\ s.duped = {}
  BY <1>1, <1>2, <1>3 DEF IInv
<1>5. PICK path : path = <<"dev", "debug">>
  OBVIOUS
<1>6. path \in Seq(Word)
  <2>1. PICK a, b : a = "dev" /\ b = "debug"
    OBVIOUS
  <2>2. a \in Word /\ b \in Word
    BY <2>1 DEF Word
  <2>3. path = <<a, b>>
    BY <1>5, <2>1
  <2> QED BY <2>2, <2>3
<1>7. PICK u : u = open(s, Init1, path)
  OBVIOUS
<1>8. ~s.fs.stale /\ Init1 \in Pid
  BY <1>4, NotStale, FilesAssumption
<1>9. SInv(u, k) /\ Spares(s, u, Init1) /\ u.duped = s.duped
  BY <1>4, <1>6, <1>7, <1>8, OpenKeeps
<1>10. SInv(u, k + 1)
  BY <1>2, <1>9, NextStep
<1>11. Becomes(u)
  BY <1>3, <1>5, <1>7 DEF BootOpen
<1> QED BY <1>2, <1>3, <1>4, <1>9, <1>10, <1>11, AfterBoot

LEMMA BootExecI == ASSUME IInv, Careful, BootExec PROVE IInv'
<1>1. Booting(7) /\ step = 7
  BY DEF BootExec, Booting
<1>2. PICK s : s = files
  OBVIOUS
<1>3. SInv(s, 7) /\ s.duped = {}
  BY <1>1, <1>2 DEF IInv
<1>4. Executable \in Seq(Ahead)
  BY FilesAssumption, StringPaths, NoClimbAhead DEF Careful
<1>5. PICK u : u = [s EXCEPT !.fs = vfs_namei(@, Executable).t]
  OBVIOUS
<1>6. ~s.fs.stale
  BY <1>3, NotStale
<1>7. SInv(u, 7) /\ u.fd = s.fd /\ u.duped = s.duped
  BY <1>3, <1>4, <1>5, <1>6, ExecKeeps
<1>8. 7 \in 5..7 /\ 7 \in 4..7
  OBVIOUS
<1>9. SInv(u, 7 + 1)
  BY <1>7, <1>8, NextStep
<1>10. Spares(s, u, Init1)
  BY <1>7 DEF Spares
<1>11. Becomes(u)
  BY <1>2, <1>5 DEF BootExec
<1> QED BY <1>1, <1>2, <1>3, <1>7, <1>8, <1>9, <1>10, <1>11, AfterBoot

-----------------------------------------------------------------------------
(* System calls *)

\* What a call starts from
LEMMA CallIs ==
  ASSUME IInv, NEW p \in Pid, Call(p), NEW s, s = files
  PROVE  /\ step = 8 /\ step' = 8 /\ p \in alive /\ SInv(s, 8) /\ s \in States /\ ~s.fs.stale
         /\ s.fs = fs
         /\ \A q \in Pid, i \in Slot :
               s.fd[q][i] # NoDesc => InoOf(s, q, i) \in Nodes \ Keys /\ s.fs.ino[InoOf(s, q, i)].live
<1>1. step = 8 /\ step' = 8 /\ p \in alive /\ Intact(s) /\ ~fs.stale
  BY DEF Call
<1>2. SInv(s, 8) /\ s.fs = fs
  BY <1>1, FilesAre DEF IInv
<1>3. \A q \in Pid, i \in Slot :
         s.fd[q][i] # NoDesc => InoOf(s, q, i) \in Nodes \ Keys /\ s.fs.ino[InoOf(s, q, i)].live
  <2>1. SUFFICES ASSUME NEW q \in Pid, NEW i \in Slot, s.fd[q][i] # NoDesc
                 PROVE  InoOf(s, q, i) \in Nodes \ Keys /\ s.fs.ino[InoOf(s, q, i)].live
    OBVIOUS
  <2>2. PICK n : n = InoOf(s, q, i)
    OBVIOUS
  <2>3. PICK d : d = s.fd[q][i]
    OBVIOUS
  <2>4. n \in Nodes \ Keys
    BY <1>2, <2>1, <2>2, <2>3, HeldSlot
  <2>5. n # None
    BY <2>4, NodeNames
  <2>6. n = None \/ s.fs.ino[n].live
    BY <1>1, <2>1, <2>2 DEF Intact, InUse
  <2> QED BY <2>2, <2>4, <2>5, <2>6
<1>4. s \in States
  BY <1>2 DEF SInv
<1> QED BY <1>1, <1>2, <1>3, <1>4

LEMMA OpenI == ASSUME IInv, NEW p \in Pid, Open(p) PROVE IInv'
<1>1. PICK path \in Opened : Call(p) /\ Does(open(files, p, path))
  BY DEF Open
<1>2. PICK s : s = files
  OBVIOUS
<1>3. step = 8 /\ step' = 8 /\ p \in alive /\ SInv(s, 8) /\ ~s.fs.stale
  BY <1>1, <1>2, CallIs
<1>4. PICK u : u = open(s, p, path)
  OBVIOUS
<1>5. path \in Seq(Word)
  BY FilesAssumption, StringPaths
<1>6. SInv(u, 8) /\ Spares(s, u, p)
  BY <1>3, <1>4, <1>5, OpenKeeps
<1>7. Becomes(u) /\ alive' = alive
  BY <1>1, <1>2, <1>4 DEF Does
<1> QED BY <1>2, <1>3, <1>6, <1>7, AfterCall

LEMMA CloseI == ASSUME IInv, NEW p \in Pid, Close(p) PROVE IInv'
<1>1. PICK i \in Slot : Call(p) /\ InUse(files, p, i) /\ Does(close(files, p, i))
  BY DEF Close
<1>2. PICK s : s = files
  OBVIOUS
<1>3. step = 8 /\ step' = 8 /\ p \in alive /\ SInv(s, 8)
  BY <1>1, <1>2, CallIs
<1>4. PICK u : u = close(s, p, i)
  OBVIOUS
<1>5. s.fd[p][i] # NoDesc
  BY <1>1, <1>2 DEF InUse
<1>6. SInv(u, 8) /\ Spares(s, u, p)
  BY <1>3, <1>4, <1>5, CloseKeeps
<1>7. Becomes(u) /\ alive' = alive
  BY <1>1, <1>2, <1>4 DEF Does
<1> QED BY <1>2, <1>3, <1>6, <1>7, AfterCall

LEMMA DupI == ASSUME IInv, NEW p \in Pid, Dup(p) PROVE IInv'
<1>1. PICK i \in Slot : Call(p) /\ InUse(files, p, i) /\ Does(dup(files, p, i))
  BY DEF Dup
<1>2. PICK s : s = files
  OBVIOUS
<1>3. step = 8 /\ step' = 8 /\ p \in alive /\ SInv(s, 8)
  BY <1>1, <1>2, CallIs
<1>4. PICK u : u = dup(s, p, i)
  OBVIOUS
<1>5. s.fd[p][i] # NoDesc
  BY <1>1, <1>2 DEF InUse
<1>6. SInv(u, 8) /\ Spares(s, u, p)
  BY <1>3, <1>4, <1>5, DupKeeps
<1>7. Becomes(u) /\ alive' = alive
  BY <1>1, <1>2, <1>4 DEF Does
<1> QED BY <1>2, <1>3, <1>6, <1>7, AfterCall

LEMMA Dup2I == ASSUME IInv, NEW p \in Pid, Dup2(p) PROVE IInv'
<1>1. PICK i \in Slot, j \in Slot : Call(p) /\ InUse(files, p, i) /\ Does(dup2(files, p, i, j))
  BY DEF Dup2
<1>2. PICK s : s = files
  OBVIOUS
<1>3. step = 8 /\ step' = 8 /\ p \in alive /\ SInv(s, 8)
  BY <1>1, <1>2, CallIs
<1>4. PICK u : u = dup2(s, p, i, j)
  OBVIOUS
<1>5. s.fd[p][i] # NoDesc
  BY <1>1, <1>2 DEF InUse
<1>6. SInv(u, 8) /\ Spares(s, u, p)
  BY <1>3, <1>4, <1>5, Dup2Keeps
<1>7. Becomes(u) /\ alive' = alive
  BY <1>1, <1>2, <1>4 DEF Does
<1> QED BY <1>2, <1>3, <1>6, <1>7, AfterCall

LEMMA PipeI == ASSUME IInv, Careful, NEW p \in Pid, Pipe(p) PROVE IInv'
<1>1. /\ Call(p)
      /\ Cardinality({i \in Slot : ~InUse(files, p, i)}) # 1 \/ "pipe_full" \in Cases
      /\ \E k \in Pipes \ {0, 1} : /\ ~fs.ino[End(k, "r")].live /\ ~fs.ino[End(k, "w")].live
                                   /\ Does(pipe(files, p, k))
  BY DEF Pipe
<1>2. PICK k \in Pipes \ {0, 1} : /\ ~fs.ino[End(k, "r")].live /\ ~fs.ino[End(k, "w")].live
                                  /\ Does(pipe(files, p, k))
  BY <1>1
<1>3. PICK s : s = files
  OBVIOUS
<1>4. step = 8 /\ step' = 8 /\ p \in alive /\ SInv(s, 8) /\ ~s.fs.stale /\ s.fs = fs
  BY <1>1, <1>3, CallIs
<1>5. Cardinality({i \in Slot : ~InUse(s, p, i)}) # 1
  BY <1>1, <1>3 DEF Careful
<1>6. PICK u : u = pipe(s, p, k)
  OBVIOUS
<1>7. SInv(u, 8) /\ Spares(s, u, p)
  BY <1>2, <1>4, <1>5, <1>6, PipeKeeps
<1>8. Becomes(u) /\ alive' = alive
  BY <1>2, <1>3, <1>6 DEF Does
<1> QED BY <1>3, <1>4, <1>7, <1>8, AfterCall

LEMMA StatI == ASSUME IInv, Careful, NEW p \in Pid, Stat(p) PROVE IInv'
<1>1. PICK path \in Looked : 
        /\ Call(p)
        /\ Does([files EXCEPT !.fs = IF vfs_namei(fs, path).n = None THEN vfs_namei(fs, path).t
                                     ELSE vfs_free(vfs_namei(fs, path).t, vfs_namei(fs, path).n)])
  BY DEF Stat
<1>2. PICK s : s = files
  OBVIOUS
<1>3. step = 8 /\ step' = 8 /\ p \in alive /\ SInv(s, 8) /\ ~s.fs.stale /\ s.fs = fs
  BY <1>1, <1>2, CallIs
<1>4. PICK r : r = vfs_namei(fs, path)
  OBVIOUS
<1>5. PICK t : t = IF r.n = None THEN r.t ELSE vfs_free(r.t, r.n)
  OBVIOUS
<1>6. PICK u : u = [s EXCEPT !.fs = t]
  OBVIOUS
<1>7. path \in Seq(Ahead)
  BY FilesAssumption, StringPaths, NoClimbAhead DEF Careful
<1>8. r = vfs_namei(s.fs, path)
  BY <1>3, <1>4
<1>9. SInv(u, 8) /\ u.fd = s.fd
  BY <1>3, <1>5, <1>6, <1>7, <1>8, StatKeeps
<1>10. Becomes(u) /\ alive' = alive
  BY <1>1, <1>2, <1>4, <1>5, <1>6 DEF Does
<1> QED BY <1>2, <1>3, <1>9, <1>10, AfterLook

LEMMA ReaddirI == ASSUME IInv, Careful, NEW p \in Pid, Readdir(p) PROVE IInv'
<1>0. PICK n \in {InoOf(files, p, i) : i \in {j \in Slot : InUse(files, p, j)}} \ {None},
           k \in Entries :
        /\ Call(p)
        /\ n # fs.root \/ k # 1 \/ "root_parent" \in Cases
        /\ LET r == vfs_readdir(fs, n, k)
           IN  Does([files EXCEPT !.fs = IF r.n = None THEN r.t ELSE vfs_free(r.t, r.n)])
  BY DEF Readdir
<1>1. PICK r :
        /\ Call(p) /\ r = vfs_readdir(fs, n, k)
        /\ n # fs.root \/ k # 1 \/ "root_parent" \in Cases
        /\ Does([files EXCEPT !.fs = IF r.n = None THEN r.t ELSE vfs_free(r.t, r.n)])
  BY <1>0
<1>2. PICK s : s = files
  OBVIOUS
<1>3. step = 8 /\ step' = 8 /\ p \in alive /\ SInv(s, 8) /\ ~s.fs.stale /\ s.fs = fs
  BY <1>1, <1>2, CallIs
<1>4. PICK i \in Slot : InUse(s, p, i) /\ n = InoOf(s, p, i)
  BY <1>0, <1>2
<1>5. n \in Nodes /\ s.fs.ino[n].live
  <2>1. s.fd[p][i] # NoDesc
    BY <1>4 DEF InUse
  <2>2. \A q \in Pid, j \in Slot :
           s.fd[q][j] # NoDesc => InoOf(s, q, j) \in Nodes \ Keys /\ s.fs.ino[InoOf(s, q, j)].live
    BY <1>1, <1>2, CallIs
  <2> QED BY <1>4, <2>1, <2>2
<1>6. PICK t : t = IF r.n = None THEN r.t ELSE vfs_free(r.t, r.n)
  OBVIOUS
<1>7. PICK u : u = [s EXCEPT !.fs = t]
  OBVIOUS
<1>8. r = vfs_readdir(s.fs, n, k) /\ (n # s.fs.root \/ k # 1) /\ k \in Nat
  BY <1>0, <1>1, <1>2, <1>3, FilesAssumption DEF Careful
<1>9. SInv(u, 8) /\ u.fd = s.fd
  BY <1>3, <1>5, <1>6, <1>7, <1>8, ReaddirKeeps
<1>10. Becomes(u) /\ alive' = alive
  BY <1>1, <1>2, <1>6, <1>7 DEF Does
<1> QED BY <1>2, <1>3, <1>9, <1>10, AfterLook

LEMMA ExecI == ASSUME IInv, Careful, NEW p \in Pid, Exec(p) PROVE IInv'
<1>1. Call(p) /\ Does([files EXCEPT !.fs = vfs_namei(@, Executable).t])
  BY DEF Exec
<1>2. PICK s : s = files
  OBVIOUS
<1>3. step = 8 /\ step' = 8 /\ p \in alive /\ SInv(s, 8) /\ ~s.fs.stale
  BY <1>1, <1>2, CallIs
<1>4. PICK u : u = [s EXCEPT !.fs = vfs_namei(@, Executable).t]
  OBVIOUS
<1>5. Executable \in Seq(Ahead)
  BY FilesAssumption, StringPaths, NoClimbAhead DEF Careful
<1>6. SInv(u, 8) /\ u.fd = s.fd
  BY <1>3, <1>4, <1>5, ExecKeeps
<1>7. Becomes(u) /\ alive' = alive
  BY <1>1, <1>2, <1>4 DEF Does
<1> QED BY <1>2, <1>3, <1>6, <1>7, AfterLook

LEMMA ForkI == ASSUME IInv, NEW p \in Pid, Fork(p) PROVE IInv'
<1>1. PICK c \in Pid \ alive :
        Call(p) /\ Becomes(fork_files(files, p, c)) /\ alive' = alive \cup {c}
  BY DEF Fork
<1>2. PICK s : s = files
  OBVIOUS
<1>3. /\ step = 8 /\ step' = 8 /\ p \in alive /\ SInv(s, 8)
      /\ \A q \in Pid, i \in Slot :
            s.fd[q][i] # NoDesc => InoOf(s, q, i) \in Nodes \ Keys /\ s.fs.ino[InoOf(s, q, i)].live
  <2>1. step = 8 /\ step' = 8 /\ p \in alive /\ SInv(s, 8)
    BY <1>1, <1>2, CallIs
  <2>2. \A q \in Pid, i \in Slot :
           s.fd[q][i] # NoDesc => InoOf(s, q, i) \in Nodes \ Keys /\ s.fs.ino[InoOf(s, q, i)].live
    BY <1>1, <1>2, CallIs
  <2> QED BY <2>1, <2>2
<1>4. alive \subseteq Pid /\ Init1 \in alive /\ \A q \in Pid \ alive, i \in Slot : s.fd[q][i] = NoDesc
  BY <1>2 DEF IInv
<1>5. PICK u : u = fork_files(s, p, c)
  OBVIOUS
<1>6. p # c /\ (\A i \in Slot : s.fd[c][i] = NoDesc)
      /\ \A i \in Slot : s.fd[p][i] # NoDesc => s.fs.ino[InoOf(s, p, i)].live
  BY <1>1, <1>3, <1>4
<1>7. SInv(u, 8) /\ Spares(s, u, c)
  BY <1>3, <1>5, <1>6, ForkKeeps
<1>8. Becomes(u)
  BY <1>1, <1>2, <1>5
<1>9. /\ alive' \subseteq Pid /\ Init1 \in alive'
      /\ \A q \in Pid \ alive', i \in Slot : u.fd[q][i] = NoDesc
  BY <1>1, <1>4, <1>7 DEF Spares
<1>10. 8 \in 1..8 /\ ~(8 < 8) /\ ~(8 <= 4)
  OBVIOUS
<1> QED BY <1>3, <1>7, <1>8, <1>9, <1>10, AfterStep

LEMMA ExitI == ASSUME IInv, NEW p \in Pid, Exit(p) PROVE IInv'
<1>1. Call(p) /\ p # Init1 /\ Becomes(close_all(files, p)) /\ alive' = alive \ {p}
  BY DEF Exit
<1>2. PICK s : s = files
  OBVIOUS
<1>3. step = 8 /\ step' = 8 /\ p \in alive /\ SInv(s, 8)
  BY <1>1, <1>2, CallIs
<1>4. alive \subseteq Pid /\ Init1 \in alive /\ \A q \in Pid \ alive, i \in Slot : s.fd[q][i] = NoDesc
  BY <1>2 DEF IInv
<1>5. PICK u : u = close_all(s, p)
  OBVIOUS
<1>6. SInv(u, 8) /\ Spares(s, u, p) /\ \A j \in Slot : u.fd[p][j] = NoDesc
  BY <1>3, <1>5, ExitKeeps
<1>7. Becomes(u)
  BY <1>1, <1>2, <1>5
<1>8. /\ alive' \subseteq Pid /\ Init1 \in alive'
      /\ \A q \in Pid \ alive', i \in Slot : u.fd[q][i] = NoDesc
  BY <1>1, <1>4, <1>6 DEF Spares
<1>9. 8 \in 1..8 /\ ~(8 < 8) /\ ~(8 <= 4)
  OBVIOUS
<1> QED BY <1>3, <1>6, <1>7, <1>8, <1>9, AfterStep

LEMMA StutterI == ASSUME IInv, UNCHANGED vars PROVE IInv'
<1>1. files' = files /\ step' = step /\ alive' = alive
  BY DEF vars, files
<1> QED BY <1>1 DEF IInv

LEMMA StepI == ASSUME Careful, IInv, [Next]_vars PROVE IInv'
<1>1. CASE BootMount
  BY <1>1, BootMountI
<1>2. CASE keyboard_init
  BY <1>2, KeyboardI
<1>3. CASE BootOpen
  BY <1>3, BootOpenI
<1>4. CASE BootExec
  BY <1>4, BootExecI
<1>5. ASSUME NEW p \in Pid, \/ Open(p) \/ Close(p) \/ Dup(p) \/ Dup2(p) \/ Pipe(p)
                            \/ Stat(p) \/ Readdir(p) \/ Exec(p) \/ Fork(p) \/ Exit(p)
      PROVE  IInv'
  <2>1. CASE Open(p)
    BY <2>1, OpenI
  <2>2. CASE Close(p)
    BY <2>2, CloseI
  <2>3. CASE Dup(p)
    BY <2>3, DupI
  <2>4. CASE Dup2(p)
    BY <2>4, Dup2I
  <2>5. CASE Pipe(p)
    BY <2>5, PipeI
  <2>6. CASE Stat(p)
    BY <2>6, StatI
  <2>7. CASE Readdir(p)
    BY <2>7, ReaddirI
  <2>8. CASE Exec(p)
    BY <2>8, ExecI
  <2>9. CASE Fork(p)
    BY <2>9, ForkI
  <2>10. CASE Exit(p)
    BY <2>10, ExitI
  <2> QED BY <1>5, <2>1, <2>2, <2>3, <2>4, <2>5, <2>6, <2>7, <2>8, <2>9, <2>10
<1>6. CASE UNCHANGED vars
  BY <1>6, StutterI
<1> QED BY <1>1, <1>2, <1>3, <1>4, <1>5, <1>6 DEF Next

LEMMA Invariance == ASSUME Careful PROVE Spec => []IInv
<1>1. Init => IInv
  BY InitIInv
<1>2. IInv /\ [Next]_vars => IInv'
  BY StepI
<1> QED BY <1>1, <1>2, PTL DEF Spec

-----------------------------------------------------------------------------
(* What the runs check, for every image and any number of processes,       *)
(* descriptors and pipes, without the bounds of the runs.                  *)

\* All variables stay in their types: no call reaches a slot, a descriptor or
\* an inode that is none (sys_fs.c, vfs.c, tarfs.c), and no lookup leaves the
\* inodes there are.
THEOREM TypesKept == ASSUME Careful PROVE Spec => []TypeOK
<1>1. ASSUME IInv PROVE TypeOK
  <2>1. PICK s : s = files
    OBVIOUS
  <2>2. s \in States /\ step \in 1..8 /\ alive \subseteq Pid
    BY <1>1, <2>1 DEF IInv, SInv
  <2>3. s.fs = fs /\ s.fd = fd /\ s.desc = desc /\ s.duped = duped
    BY <2>1, FilesAre
  <2>4. /\ fs \in FileSystem /\ fd \in [Pid -> [Slot -> Desc \cup {NoDesc}]]
        /\ desc \in [Desc -> [ino : Nodes \cup {None}, users : Nat]] /\ duped \subseteq Nodes
    BY <2>2, <2>3, StateFields
  <2>5. fs.ino \in [Nodes -> Record] /\ fs.root \in Nodes /\ fs.stale \in BOOLEAN /\ fs.image \in Images
    BY <2>4, Fields
  <2> QED BY <2>2, <2>4, <2>5 DEF TypeOK, Record
<1> QED BY <1>1, Invariance, PTL

\* A descriptor counts the slots that share it, and an inode the slots that lead
\* to it and the opens of the keyboard driver, after whatever order of open,
\* close, pipe, fork and exit (fork_process opens each inode again, _exit closes
\* them), but for inodes of which a descriptor was duplicated.
THEOREM UsersCountedSafe == ASSUME Careful PROVE Spec => []UsersCounted
<1>1. ASSUME IInv PROVE UsersCounted
  <2>1. PICK s : s = files
    OBVIOUS
  <2>2. Shared(s) /\ Counted(s, step)
    BY <1>1, <2>1 DEF IInv, SInv
  <2>3. s.fs = fs /\ s.fd = fd /\ s.desc = desc /\ s.duped = duped
    BY <2>1, FilesAre
  <2>4. ASSUME NEW d \in Desc
        PROVE  desc[d].users = Cardinality({h \in Pid \X Slot : fd[h[1]][h[2]] = d})
    <3>1. SlotsOf(s, d) = {h \in Pid \X Slot : fd[h[1]][h[2]] = d}
      BY <2>3 DEF SlotsOf, Slots, At
    <3> QED BY <2>2, <2>3, <3>1 DEF Shared
  <2>5. ASSUME NEW n \in Nodes \ duped, fs.ino[n].live
        PROVE  fs.ino[n].users = Cardinality(Holders(n)) + Driver(n)
    <3>1. Counts(fs.ino[n], Cardinality(HoldersIn(s, n)) + DriverAt(step, n))
      BY <2>2, <2>3 DEF Counted
    <3>2. HoldersIn(s, n) = Holders(n)
      BY <2>1 DEF Holders
    <3>3. DriverAt(step, n) = Driver(n)
      BY DEF DriverAt, Driver, Keys
    <3> QED BY <2>5, <3>1, <3>2, <3>3 DEF Counts
  <2> QED BY <2>4, <2>5 DEF UsersCounted
<1> QED BY <1>1, Invariance, PTL

\* No slot leads to an inode that vfs_free has freed, and no code looks into
\* one, whoever closes what in whichever order, unless a descriptor of it was
\* duplicated by dup or dup2.
THEOREM NoDanglingInodeSafe == ASSUME Careful PROVE Spec => []NoDanglingInode
<1>1. ASSUME IInv PROVE NoDanglingInode
  <2>1. PICK s : s = files
    OBVIOUS
  <2>2. Counted(s, step) /\ Late(s)
    BY <1>1, <2>1 DEF IInv, SInv
  <2>3. s.fs = fs /\ s.duped = duped
    BY <2>1, FilesAre
  <2>4. ASSUME NEW n \in Nodes \ duped, Holders(n) # {}, ~fs.ino[n].live
        PROVE  FALSE
    <3>1. HoldersIn(s, n) # {}
      BY <2>1, <2>4 DEF Holders
    <3>2. Cardinality(HoldersIn(s, n)) \in Nat /\ Cardinality(HoldersIn(s, n)) >= 1
      BY <3>1, HoldersFinite
    <3>3. Cardinality(HoldersIn(s, n)) + DriverAt(step, n) = 0
      BY <2>2, <2>3, <2>4 DEF Counted, Counts
    <3>4. DriverAt(step, n) \in {0, 1}
      BY DEF DriverAt
    <3> QED BY <3>2, <3>3, <3>4
  <2>5. fs.stale => duped # {}
    BY <2>2, <2>3 DEF Late
  <2> QED BY <2>4, <2>5 DEF NoDanglingInode
<1> QED BY <1>1, Invariance, PTL

\* While no file of an image is open, a stat leaves no inode behind, of the file
\* or of the directories on the way, and takes none away (vfs_namei_mount gives
\* back each directory, sys_stat the result), for every path a program can name,
\* with .. in it or not.
THEOREM LookupNeutralSafe == ASSUME Careful PROVE Spec => []LookupNeutral
<1>1. ASSUME IInv PROVE LookupNeutral
  <2>1. PICK s : s = files
    OBVIOUS
  <2>2. SUFFICES ASSUME step = 8, \A n \in TarNodes : fs.ino[n].users = 0, NEW path \in Paths,
                        NEW r, r = vfs_namei(fs, path), r.n # None, NEW n \in Nodes,
                        ~in_vfs_tree(fs, n)
                 PROVE  vfs_free(r.t, r.n).ino[n] = fs.ino[n]
    BY DEF LookupNeutral
  <2>3. SInv(s, 8) /\ s.fs = fs
    BY <1>1, <2>1, <2>2, FilesAre DEF IInv
  <2>4. s \in States /\ Kept(fs) /\ Trees(fs) /\ Rooted(fs)
    BY <2>3 DEF SInv
  <2>5. fs \in FileSystem /\ ~fs.ino[Root0].live /\ fs.ino[fs.root].parent = Root0
    BY <2>3, <2>4, StateFields DEF Rooted
  <2>6. path \in Seq(Word)
    BY FilesAssumption, StringPaths
  <2> QED BY <2>2, <2>4, <2>5, <2>6, NameiNeutral
<1> QED BY <1>1, Invariance, PTL
==============================================================================
