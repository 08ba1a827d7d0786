-------------------------- MODULE FileNumbersProofs --------------------------
(***************************************************************************)
(* The proof of NumbersNameTheirFile, for any workers, paths and objects:  *)
(* as long as no rename has replaced a name or moved a directory, a number *)
(* is one file to the kernel.                                              *)
(***************************************************************************)
EXTENDS PassthroughFsProofs, FiniteSetTheorems, SequenceTheorems

-----------------------------------------------------------------------------
(***************************************************************************)
(* The inductive invariant, in parts.                                      *)
(*                                                                         *)
(* A request holds a name p, in the directory of number i: the name is one *)
(* it looks up or changes, and it has the lock of the directory.           *)
(***************************************************************************)
HoldsName(r, i, p) ==
  \/ r.op \in NameOps \cup {"lookup"} /\ i = r.ino /\ p \in {r.old, r.new}
  \/ r.op = "link" /\ i = r.ino /\ p = r.new
  \/ r.op = "rename" /\ ((i = r.ino /\ p = r.old) \/ (i = r.dir /\ p = r.new))

Removing == {"unlink", "rmdir", "rename"}

(* Two requests have one lock only when both leave the names as they are. *)
LockInv ==
  \A v, w \in Worker : v # w /\ Locks(v) \cap Locks(w) # {}
                         => req[v].op \in Shared /\ req[w].op \in Shared

(* The kernel was told nothing of a number that was not given yet. *)
ToldInv == \A i \in Ino : i >= next => told[i] = {}

(* What exists is in directories. *)
TreeInv == \A p, q \in Path : Below(p, q) /\ p # q /\ Exists(q) => IsDir(p)

(* The path of a number has this number. *)
BackInv == \A i \in Ino : paths[i] # NoPath => byPath[paths[i]] = i

(***************************************************************************)
(* A path with a number exists, or a request that has removed it is about  *)
(* to tell the table.                                                      *)
(***************************************************************************)
Removed(r, p) == r.at = "table" /\ r.op \in Removing /\ r.old = p

LiveInv == \A p \in Path : byPath[p] # NoIno /\ ~Exists(p) =>
             \E w \in Worker : Removed(req[w], p)

FileInv == \A i \in Ino : Knows(i) =>
             /\ \E o \in Obj : told[i] = {o}
             /\ paths[i] # NoPath /\ Exists(paths[i]) => told[i] = {tree[paths[i]]}

(***************************************************************************)
(* What a request knew when it came, or has done, is still true: its paths *)
(* are in the directories it has the locks of, no link is where it         *)
(* creates, and what it has found, made or moved is there.                 *)
(***************************************************************************)
NamesOK(r) ==
  /\ \A i \in Ino, p \in Path : HoldsName(r, i, p) => paths[i] = Parent(p) /\ KnowsDir(i)
  /\ r.op = "readdir" => paths[r.ino] = r.old /\ KnowsDir(r.ino)
  /\ r.op = "rmdir" /\ byPath[r.old] # NoIno => r.dir = byPath[r.old]
  /\ r.op = "create" => ~IsLink(r.old)

DoneOK(r) ==
  r.at = "table" =>
    /\ r.op \in {"lookup", "create"} => tree[r.old] = r.obj
    /\ r.op = "unlink" /\ byPath[r.old] # NoIno => told[byPath[r.old]] \cap Dir = {}
    /\ r.op = "rename" =>
         /\ Exists(r.new) /\ ~IsDir(r.new) /\ byPath[r.new] = NoIno
         /\ byPath[r.old] # NoIno => told[byPath[r.old]] \subseteq {tree[r.new]}

HoldOK(r) == NamesOK(r) /\ DoneOK(r)

HoldInv == \A w \in Worker : HoldOK(req[w])

CalmInv == TreeInv /\ BackInv /\ LiveInv /\ FileInv /\ HoldInv

NumbersInv == Inv /\ TableInv /\ LockInv /\ ToldInv /\ (~displaced => CalmInv)

-----------------------------------------------------------------------------
(* Paths. *)
LEMMA ParentIsAbove ==
  ASSUME NEW q \in Path, q # Root
  PROVE  /\ Parent(q) \in Path /\ Parent(q) # q /\ Below(Parent(q), q)
         /\ \A p \in Path : Below(p, q) /\ p # q => Below(p, Parent(q))
<1> DEFINE s == SubSeq(q, 1, Len(q) - 1)
<1>1. q \in Seq(Name) /\ q # << >> /\ Root = << >>
  BY NamesArePaths
<1>2. Len(q) \in Nat /\ Len(q) >= 1 /\ \A k \in 1..Len(q) : q[k] \in Name
  BY <1>1
<1>3. s \in Seq(Name) /\ Len(s) = Len(q) - 1
  BY <1>2, SubSeqProperties
<1>4. s \in Path /\ s # q /\ Parent(q) = s
  BY <1>1, <1>2, <1>3, PathsClosed DEF Parent
<1>5. Below(s, q)
  BY <1>2, <1>3 DEF Below
<1>6. ASSUME NEW p \in Path, Below(p, q), p # q
      PROVE  Below(p, s)
  <2>1. p \in Seq(Name) /\ Len(p) \in Nat /\ Len(p) <= Len(q) /\ SubSeq(q, 1, Len(p)) = p
    BY <1>6, NamesArePaths DEF Below
  <2>2. Len(p) # Len(q)
    BY <1>1, <1>6, <2>1
  <2>3. Len(p) <= Len(q) - 1
    BY <1>2, <2>1, <2>2
  <2>4. SubSeq(s, 1, Len(p)) = SubSeq(q, 1, Len(p))
    <3>1. CASE Len(p) = 0
      BY <3>1, SubSeqEmpty
    <3>2. CASE Len(p) # 0
      BY <1>1, <1>2, <2>1, <2>3, <3>2, SubSeqOfSubSeq
    <3>3. QED
      BY <3>1, <3>2
  <2>5. QED
    BY <1>3, <2>1, <2>3, <2>4 DEF Below
<1>7. QED
  BY <1>4, <1>5, <1>6

LEMMA BelowItself ==
  ASSUME NEW p \in Path
  PROVE  Below(p, p)
  BY NamesArePaths DEF Below

LEMMA ParentOfName ==
  ASSUME NEW p \in Path, NEW n \in Name
  PROVE  Parent(Append(p, n)) = p
  BY NamesArePaths DEF Parent

(* What is moved along with old is old itself, or below it. *)
LEMMA MovedIsBelow ==
  ASSUME NEW p \in Path, NEW old \in Path, NEW new \in Path, Below(new, p)
  PROVE  /\ Below(old, Moved(p, new, old))
         /\ Moved(p, new, old) = old <=> p = new
<1> DEFINE rest == SubSeq(p, Len(new) + 1, Len(p))
<1>1. /\ old \in Seq(Name) /\ new \in Seq(Name) /\ p \in Seq(Name)
      /\ Len(old) \in Nat /\ Len(new) \in Nat /\ Len(p) \in Nat /\ Len(new) <= Len(p)
      /\ SubSeq(p, 1, Len(new)) = new /\ \A k \in 1..Len(p) : p[k] \in Name
  BY NamesArePaths DEF Below
<1>2. rest \in Seq(Name) /\ Len(rest) = IF Len(new) + 1 <= Len(p) THEN Len(p) - Len(new) ELSE 0
  <2>1. \A k \in (Len(new) + 1)..Len(p) : p[k] \in Name
    BY <1>1
  <2>2. /\ rest \in Seq(Name)
        /\ Len(rest) = IF Len(new) + 1 <= Len(p) THEN Len(p) - (Len(new) + 1) + 1 ELSE 0
    BY <1>1, <2>1, SubSeqProperties
  <2>3. QED
    BY <1>1, <2>2
<1>3. Len(rest) = 0 <=> p = new
  <2>1. CASE Len(p) = Len(new)
    BY <1>1, <1>2, <2>1
  <2>2. CASE Len(p) # Len(new)
    BY <1>1, <1>2, <2>2
  <2>3. QED
    BY <2>1, <2>2
<1> HIDE DEF rest
<1>4. Len(rest) \in Nat /\ Len(old \o rest) = Len(old) + Len(rest)
  <2>1. rest \in Seq(Name) /\ old \in Seq(Name)
    BY <1>1, <1>2
  <2>2. QED
    BY <2>1, ConcatProperties
<1>5. SubSeq(old \o rest, 1, Len(old)) = old
  <2>1. CASE Len(old) = 0
    BY <1>1, <2>1
  <2>2. CASE Len(old) # 0
    BY <1>1, <1>2, <2>2, SubSeqOfConcat1, SubSeqFull
  <2>3. QED
    BY <2>1, <2>2
<1>6. old \o rest = old <=> Len(rest) = 0
  BY <1>1, <1>2, ConcatEqualIffEmpty
<1>7. QED
  BY <1>1, <1>3, <1>4, <1>5, <1>6 DEF Below, Moved, rest

-----------------------------------------------------------------------------
(***************************************************************************)
(* Locks.  Who holds a name has the lock of its directory, so of two       *)
(* requests that hold one name both only look it up, and no name of a      *)
(* directory that is being listed is being changed.                        *)
(***************************************************************************)
LEMMA HolderLocks ==
  ASSUME Inv, NEW w \in Worker, NEW i \in Ino, NEW p \in Path, HoldsName(req[w], i, p)
  PROVE  i \in Locks(w) /\ p # Root /\ req[w].op \notin PathOps \cup {"readdir", "idle"}
<1>1. req[w].op \notin PathOps \cup {"readdir", "idle"}
  BY DEF HoldsName, PathOps, NameOps
<1>2. RequestOK(req[w])
  BY DEF Inv, RequestInv
<1>3. p # Root
  BY <1>1, <1>2 DEF HoldsName, RequestOK, NameOps, PathOps
<1>4. QED
  BY <1>1, <1>3 DEF Locks, HoldsName

LEMMA SameName ==
  ASSUME Inv, LockInv, BackInv, HoldInv,
         NEW v \in Worker, NEW w \in Worker, v # w,
         NEW i \in Ino, NEW j \in Ino, NEW p \in Path,
         HoldsName(req[v], i, p), HoldsName(req[w], j, p)
  PROVE  req[v].op = "lookup" /\ req[w].op = "lookup"
<1>1. p # Root /\ paths[i] = Parent(p) /\ paths[j] = Parent(p)
  BY HolderLocks DEF HoldInv, HoldOK, NamesOK
<1>2. i = j
  BY <1>1, ParentIsAbove, NoPathIsNone DEF BackInv
<1>3. i \in Locks(v) \cap Locks(w)
  BY <1>2, HolderLocks
<1>4. req[v].op \in Shared /\ req[w].op \in Shared
  BY <1>3 DEF LockInv
<1>5. QED
  BY <1>4, HolderLocks DEF Shared

LEMMA ListedName ==
  ASSUME Inv, LockInv, BackInv, HoldInv,
         NEW v \in Worker, NEW w \in Worker, v # w,
         NEW i \in Ino, NEW p \in Path,
         HoldsName(req[v], i, p), req[w].op = "readdir", Parent(p) = req[w].old
  PROVE  req[v].op = "lookup"
<1>1. p # Root /\ paths[i] = Parent(p) /\ paths[req[w].ino] = Parent(p)
  BY HolderLocks DEF HoldInv, HoldOK, NamesOK
<1>2. req[w].ino \in Ino
  BY DEF Inv, FsTypeOK, Idle, Request
<1>3. i = req[w].ino
  BY <1>1, <1>2, ParentIsAbove, NoPathIsNone DEF BackInv
<1>4. i \in Locks(v) \cap Locks(w)
  BY <1>3, HolderLocks DEF Locks, PathOps
<1>5. req[v].op \in Shared
  BY <1>4 DEF LockInv
<1>6. QED
  BY <1>5, HolderLocks DEF Shared

(***************************************************************************)
(* A request keeps its locks until it is answered.                         *)
(***************************************************************************)
LEMMA LocksKept ==
  ASSUME LockInv,
         \A w \in Worker : \/ req'[w].op = "idle"
                           \/ /\ req'[w].op = req[w].op /\ req'[w].ino = req[w].ino
                              /\ req'[w].dir = req[w].dir
  PROVE  LockInv'
<1>1. \A w \in Worker : Locks(w)' # {} => Locks(w)' = Locks(w) /\ req'[w].op = req[w].op
  BY DEF Locks
<1>2. QED
  BY <1>1 DEF LockInv

LEMMA LocksTaken ==
  ASSUME Inv, LockInv, NEW w \in Worker, NEW op, NEW i \in Ino, NEW d \in Ino, NEW old, NEW new,
         req[w] = Idle, op \in PathOps \/ CanLock(op, {i, d}), Accept(w, op, i, d, old, new)
  PROVE  LockInv'
<1> DEFINE r == [op |-> op, at |-> IF op \in Shared THEN "backing" ELSE "authorize",
                 ino |-> i, dir |-> d, old |-> old, new |-> new, obj |-> NoObj]
<1>1. /\ req' = [req EXCEPT ![w] = r]
      /\ r.op = op /\ r.ino = i /\ r.dir = d
  BY DEF Accept
<1> HIDE DEF r
<1>2. /\ req'[w] = r
      /\ \A v \in Worker \ {w} : req'[v] = req[v]
  BY <1>1 DEF Inv, FsTypeOK
<1>3. \A v \in Worker \ {w} : Locks(v)' = Locks(v)
  BY <1>2 DEF Locks
<1>4. Locks(w)' # {} => Locks(w)' = {i, d} /\ CanLock(op, {i, d})
  BY <1>1, <1>2 DEF Locks
<1>5. ASSUME NEW u \in Worker, NEW v \in Worker, u # v, Locks(u)' \cap Locks(v)' # {}
      PROVE  req'[u].op \in Shared /\ req'[v].op \in Shared
  <2>1. CASE u # w /\ v # w
    BY <1>2, <1>3, <1>5, <2>1 DEF LockInv
  <2>2. CASE u = w
    BY <1>1, <1>2, <1>3, <1>4, <1>5, <2>2 DEF CanLock
  <2>3. CASE v = w
    BY <1>1, <1>2, <1>3, <1>4, <1>5, <2>3 DEF CanLock
  <2>4. QED
    BY <2>1, <2>2, <2>3
<1>6. QED
  BY <1>5 DEF LockInv

-----------------------------------------------------------------------------
(***************************************************************************)
(* A step that changes nothing but the request of one worker.              *)
(***************************************************************************)
LEMMA QuietKeepsCalm ==
  ASSUME Inv, CalmInv, NEW w \in Worker, NEW r,
         req' = [req EXCEPT ![w] = r], HoldOK(r),
         req[w].at = "table" => req[w].op \notin Removing,
         UNCHANGED <<table_vars, tree, told>>
  PROVE  CalmInv'
<1> USE DEF CalmInv
<1>1. /\ req'[w] = r
      /\ \A v \in Worker \ {w} : req'[v] = req[v]
  BY DEF Inv, FsTypeOK
<1>2. UNCHANGED <<paths, byPath, next, tree, told>>
  BY DEF table_vars
<1>3. TreeInv' /\ BackInv' /\ FileInv'
  BY <1>2 DEF TreeInv, BackInv, FileInv, Exists, IsDir, Knows
<1>4. LiveInv'
  BY <1>1, <1>2 DEF LiveInv, Removed, Exists
<1>5. \A q : HoldOK(q) => HoldOK(q)'
  BY <1>2 DEF HoldOK, NamesOK, DoneOK, HoldsName, KnowsDir, Exists, IsDir, IsLink
<1>6. HoldInv'
  BY <1>1, <1>5 DEF HoldInv
<1>7. QED
  BY <1>3, <1>4, <1>6

(***************************************************************************)
(* A step on the backing directory, which changes only names it holds.     *)
(***************************************************************************)
LEMMA TreeKeepsCalm ==
  ASSUME Inv, LockInv, CalmInv, NEW w \in Worker, NEW r,
         req[w].at = "backing", req[w].op # "lookup",
         req' = [req EXCEPT ![w] = r], HoldOK(r)',
         UNCHANGED <<table_vars, told>>, TreeInv',
         \A p \in Path : tree'[p] # tree[p] =>
           /\ \E i \in Ino : HoldsName(req[w], i, p)
           /\ IF Exists(p) THEN ~Exists(p)' /\ Removed(r, p) ELSE Exists(p)'
  PROVE  CalmInv'
<1> USE DEF CalmInv
<1>1. /\ req'[w] = r
      /\ \A v \in Worker \ {w} : req'[v] = req[v]
  BY DEF Inv, FsTypeOK
<1>2. UNCHANGED <<paths, byPath, next, told>>
  BY DEF table_vars
<1>3. BackInv'
  BY <1>2 DEF BackInv
<1>4. \A p \in Path : \A v \in Worker : Removed(req[v], p) => v # w
  BY DEF Removed
<1>5. LiveInv'
  <2>1. SUFFICES ASSUME NEW p \in Path, byPath[p] # NoIno, ~Exists(p)'
                 PROVE  \E v \in Worker : Removed(req'[v], p)
    BY <1>2 DEF LiveInv, Removed
  <2>2. CASE Exists(p)
    <3>1. tree'[p] # tree[p]
      BY <2>1, <2>2 DEF Exists
    <3>2. QED
      BY <1>1, <2>2, <3>1
  <2>3. CASE ~Exists(p)
    BY <1>1, <1>4, <2>1, <2>3 DEF LiveInv
  <2>4. QED
    BY <2>2, <2>3
<1>6. FileInv'
  <2>1. SUFFICES ASSUME NEW i \in Ino, Knows(i), paths[i] # NoPath, Exists(paths[i])'
                 PROVE  told[i] = {tree'[paths[i]]}
    BY <1>2 DEF FileInv, Knows
  <2>2. PICK p \in Path : /\ p = paths[i] /\ byPath[p] = i /\ i # NoIno
                          /\ Exists(p)'
    BY <1>2, <2>1, InoIsNat DEF BackInv, Inv, FsTypeOK, TableTypeOK, Exists
  <2>3. CASE tree'[p] = tree[p]
    BY <2>1, <2>2, <2>3 DEF FileInv, Exists
  <2>4. CASE tree'[p] # tree[p]
    <3>1. ~Exists(p) /\ \E j \in Ino : HoldsName(req[w], j, p)
      BY <2>1, <2>2, <2>4
    <3>2. PICK v \in Worker : Removed(req[v], p)
      BY <2>2, <3>1 DEF LiveInv
    <3>3. v # w /\ HoldsName(req[v], req[v].ino, p) /\ req[v].ino \in Ino
      BY <1>4, <2>2, <3>2 DEF Removed, Removing, HoldsName, NameOps, Inv, FsTypeOK, Request, Idle
    <3>4. QED
      BY <2>2, <3>1, <3>3, SameName
  <2>5. QED
    BY <2>3, <2>4
<1>7. HoldInv'
  <2>1. ASSUME NEW v \in Worker \ {w} PROVE HoldOK(req[v])'
    <3>1. /\ req'[v] = req[v] /\ HoldOK(req[v])
          /\ req[v] \in Request \cup {Idle}
      BY <1>1 DEF HoldInv, Inv, FsTypeOK
    <3>2. ASSUME NEW i \in Ino, NEW p \in Path, HoldsName(req[v], i, p)
          PROVE  tree'[p] = tree[p]
      BY <3>2, SameName
    <3>3. req[v].op \in {"lookup", "create"} => tree'[req[v].old] = tree[req[v].old]
      BY <3>1, <3>2 DEF HoldsName, NameOps, Request, Idle
    <3>4. req[v].op = "rename" => tree'[req[v].new] = tree[req[v].new]
      BY <3>1, <3>2 DEF HoldsName, Request, Idle
    <3>5. QED
      BY <1>2, <3>1, <3>3, <3>4
      DEF HoldOK, NamesOK, DoneOK, HoldsName, KnowsDir, Exists, IsDir, IsLink
  <2>2. QED
    BY <1>1, <2>1 DEF HoldInv
<1>8. QED
  BY <1>3, <1>5, <1>6, <1>7

(***************************************************************************)
(* A step on the table.  It gives or takes the numbers of names it holds,  *)
(* or lists, and of directories that nothing is at work in.                *)
(***************************************************************************)
LEMMA TableKeepsHolds ==
  ASSUME Inv, TableInv, LockInv, BackInv, HoldInv, NEW w \in Worker, NEW v \in Worker, v # w,
         req'[v] = req[v], TableTypeOK', NumbersLeadBack', tree' = tree,
         told' \in [Ino -> SUBSET Obj],
         \A p \in Path : byPath'[p] # byPath[p] =>
           \/ \E i \in Ino : HoldsName(req[w], i, p)
           \/ req[w].op = "readdir" /\ Parent(p) = req[w].old,
         \A i \in Ino : paths'[i] # paths[i] =>
           paths[i] = NoPath \/ i \notin Locks(v) \/ ~KnowsDir(i),
         \A i \in Ino : told'[i] # told[i] =>
           /\ told[i] \subseteq told'[i]
           /\ \E p \in Path, j \in Ino : HoldsName(req[w], j, p) /\ byPath'[p] = i
  PROVE  HoldOK(req[v])'
<1>1. PICK r \in Request \cup {Idle} : r = req[v] /\ r = req'[v] /\ HoldOK(r)
  BY DEF HoldInv, Inv, FsTypeOK
<1>2. \A i \in Ino : KnowsDir(i) => KnowsDir(i)'
  BY DEF KnowsDir
<1>3. ASSUME NEW i \in Ino, paths[i] \in Path, i \in Locks(v), KnowsDir(i)
      PROVE  paths'[i] = paths[i]
  BY <1>3, NoPathIsNone
<1>4. ASSUME NEW i \in Ino, NEW p \in Path, HoldsName(r, i, p)
      PROVE  paths'[i] = Parent(p) /\ KnowsDir(i)'
  <2>1. paths[i] = Parent(p) /\ KnowsDir(i)
    BY <1>1, <1>4 DEF HoldOK, NamesOK
  <2>2. i \in Locks(v) /\ Parent(p) \in Path
    BY <1>1, <1>4, HolderLocks, ParentIsAbove
  <2>3. QED
    BY <1>2, <1>3, <2>1, <2>2
<1>5. r.op = "readdir" => paths'[r.ino] = r.old /\ KnowsDir(r.ino)'
  <2>1. SUFFICES ASSUME r.op = "readdir"
                 PROVE  paths'[r.ino] = r.old /\ KnowsDir(r.ino)'
    OBVIOUS
  <2>2. r.ino \in Ino /\ r.old \in Path /\ r.ino \in Locks(v)
    BY <1>1, <2>1 DEF Request, Idle, Locks, PathOps
  <2>3. QED
    BY <1>1, <1>2, <1>3, <2>1, <2>2 DEF HoldOK, NamesOK
<1>6. ASSUME NEW i \in Ino, NEW p \in Path, HoldsName(r, i, p), r.op # "lookup"
      PROVE  byPath'[p] = byPath[p]
  BY <1>1, <1>6, SameName, ListedName
<1>7. r.op \in Removing => r.ino \in Ino /\ r.old \in Path /\ HoldsName(r, r.ino, r.old)
  BY <1>1 DEF Removing, HoldsName, NameOps, Request, Idle
<1>8. r.op \in Removing => byPath'[r.old] = byPath[r.old]
  BY <1>6, <1>7 DEF Removing
<1>9. r.op \in Removing /\ byPath[r.old] # NoIno =>
        byPath[r.old] \in Ino /\ told'[byPath[r.old]] = told[byPath[r.old]]
  <2>1. SUFFICES ASSUME r.op \in Removing, byPath[r.old] # NoIno, byPath[r.old] \in Ino,
                        told'[byPath[r.old]] # told[byPath[r.old]]
                 PROVE  FALSE
    BY <1>7 DEF Inv, FsTypeOK, TableTypeOK
  <2>2. PICK p \in Path, j \in Ino : HoldsName(req[w], j, p) /\ byPath'[p] = byPath[r.old]
    BY <2>1
  <2>3. paths'[byPath[r.old]] = p /\ paths'[byPath[r.old]] = r.old
    BY <1>7, <1>8, <2>1, <2>2 DEF NumbersLeadBack
  <2>4. QED
    BY <1>1, <1>7, <2>1, <2>2, <2>3, SameName DEF Removing
<1>10. r.op = "rename" => byPath'[r.new] = byPath[r.new]
  <2>1. r.op = "rename" => r.dir \in Ino /\ r.new \in Path /\ HoldsName(r, r.dir, r.new)
    BY <1>1 DEF HoldsName, Request, Idle
  <2>2. QED
    BY <1>6, <2>1
<1>11. HoldOK(r)'
  <2>1. \A i \in Ino, p \in Path : HoldsName(r, i, p)' => HoldsName(r, i, p)
    BY DEF HoldsName
  <2>2. r.op \in {"lookup", "create"} => tree'[r.old] = tree[r.old]
    OBVIOUS
  <2>3. QED
    BY <1>1, <1>4, <1>5, <1>8, <1>9, <1>10, <2>1, <2>2
    DEF HoldOK, NamesOK, DoneOK, Exists, IsDir, IsLink, Removing
<1>12. QED
  BY <1>1, <1>11

-----------------------------------------------------------------------------
(***************************************************************************)
(* How a step changes the request it serves.                               *)
(***************************************************************************)
LEMMA Advanced ==
  ASSUME Inv, NEW w \in Worker, req[w].at # "idle", NEW at, NEW o, Advance(w, at, o)
  PROVE  \E r : /\ req' = [req EXCEPT ![w] = r]
                /\ r.op = req[w].op /\ r.at = at /\ r.obj = o
                /\ r.ino = req[w].ino /\ r.dir = req[w].dir
                /\ r.old = req[w].old /\ r.new = req[w].new
<1> DEFINE r == [req[w] EXCEPT !.at = at, !.obj = o]
<1>1. req[w] \in Request
  BY Serving
<1>2. /\ r.op = req[w].op /\ r.at = at /\ r.obj = o
      /\ r.ino = req[w].ino /\ r.dir = req[w].dir
      /\ r.old = req[w].old /\ r.new = req[w].new
  BY <1>1 DEF Request
<1>3. req' = [req EXCEPT ![w] = r]
  BY DEF Advance, Inv, FsTypeOK
<1>4. QED
  BY <1>2, <1>3

LEMMA AdvanceKeepsLocks ==
  ASSUME Inv, LockInv, NEW w \in Worker, req[w].at # "idle", NEW at, NEW o, Advance(w, at, o)
  PROVE  LockInv'
<1>1. \A v \in Worker : /\ req'[v].op = req[v].op /\ req'[v].ino = req[v].ino
                        /\ req'[v].dir = req[v].dir
  BY Advanced DEF Inv, FsTypeOK
<1>2. QED
  BY <1>1, LocksKept

LEMMA ReplyKeepsLocks ==
  ASSUME Inv, LockInv, NEW w \in Worker, Reply(w)
  PROVE  LockInv'
<1>1. \A v \in Worker : req'[v].op = "idle" \/ req'[v] = req[v]
  BY DEF Reply, Idle, Inv, FsTypeOK
<1>2. QED
  BY <1>1, LocksKept

LEMMA IdleHolds == HoldOK(Idle) /\ HoldOK(Idle)'
  BY DEF HoldOK, NamesOK, DoneOK, HoldsName, Idle, NameOps

(***************************************************************************)
(* The steps that leave the backing directory and the table alone.         *)
(***************************************************************************)
LEMMA QuietCalm ==
  ASSUME Inv, CalmInv, NEW w \in Worker,
         \/ Authorized(w) \/ Refused(w) \/ BackingFails(w) \/ Open(w)
         \/ Setattr(w) \/ Lookup(w) \/ TableMadeFails(w)
  PROVE  CalmInv'
<1>1. /\ UNCHANGED <<table_vars, tree, told>>
      /\ req[w].at = "table" => req[w].op \notin Removing
      /\ req[w].at # "idle"
  BY DEF Authorized, Refused, BackingFails, Open, Setattr, Lookup, TableMadeFails, Removing
<1>2. HoldOK(req[w])
  BY DEF CalmInv, HoldInv
<1>3. CASE Reply(w)
  BY <1>1, <1>3, IdleHolds, QuietKeepsCalm DEF Reply
<1>4. CASE Authorized(w)
  <2>1. PICK r : /\ req' = [req EXCEPT ![w] = r]
                 /\ r.op = req[w].op /\ r.at = "backing"
                 /\ r.ino = req[w].ino /\ r.dir = req[w].dir
                 /\ r.old = req[w].old /\ r.new = req[w].new
    BY <1>1, <1>4, Advanced DEF Authorized
  <2>2. HoldOK(r)
    BY <1>2, <2>1 DEF HoldOK, NamesOK, DoneOK, HoldsName
  <2>3. QED
    BY <1>1, <2>1, <2>2, QuietKeepsCalm
<1>5. CASE Lookup(w)
  <2>1. PICK r : /\ req' = [req EXCEPT ![w] = r]
                 /\ r.op = "lookup" /\ r.at = "table" /\ r.obj = tree[req[w].old]
                 /\ r.ino = req[w].ino /\ r.dir = req[w].dir
                 /\ r.old = req[w].old /\ r.new = req[w].new
    BY <1>1, <1>5, Advanced DEF Lookup
  <2>2. HoldOK(r)
    BY <1>2, <1>5, <2>1 DEF Lookup, HoldOK, NamesOK, DoneOK, HoldsName
  <2>3. QED
    BY <1>1, <2>1, <2>2, QuietKeepsCalm
<1>6. QED
  BY <1>3, <1>4, <1>5 DEF Refused, BackingFails, Open, Setattr, TableMadeFails

(***************************************************************************)
(* A request is received: its paths are those of the directories it locks. *)
(***************************************************************************)
LEMMA ReceiveCalm ==
  ASSUME Inv, LockInv, NEW w \in Worker, Receive(w)
  PROVE  LockInv' /\ (CalmInv => CalmInv')
<1> DEFINE R(op, i, d, old, new) ==
             [op |-> op, at |-> IF op \in Shared THEN "backing" ELSE "authorize",
              ino |-> i, dir |-> d, old |-> old, new |-> new, obj |-> NoObj]
<1>1. req[w] = Idle /\ req[w].at # "table"
  BY DEF Receive, Idle
<1>2. ASSUME NEW op, NEW i, NEW d, NEW old, NEW new, Accept(w, op, i, d, old, new),
             HoldOK(R(op, i, d, old, new))
      PROVE  CalmInv => CalmInv'
  BY <1>1, <1>2, QuietKeepsCalm DEF Accept
<1>3. ASSUME NEW i \in Ino, paths[i] # NoPath
      PROVE  paths[i] \in Path /\ \A n \in Name : Parent(Append(paths[i], n)) = paths[i]
  BY <1>3, ParentOfName DEF Inv, FsTypeOK, TableTypeOK
<1>4. ASSUME NEW i \in Ino, NEW op \in PathOps, ReceivePathOp(w, op, i)
      PROVE  LockInv' /\ (CalmInv => CalmInv')
  <2>1. HoldOK(R(op, i, i, paths[i], paths[i]))
    BY DEF HoldOK, NamesOK, DoneOK, HoldsName, PathOps, NameOps, Shared
  <2>2. QED
    BY <1>1, <1>2, <1>4, <2>1, LocksTaken DEF ReceivePathOp
<1>5. ASSUME NEW i \in Ino, ReceiveReaddir(w, i)
      PROVE  LockInv' /\ (CalmInv => CalmInv')
  <2>1. HoldOK(R("readdir", i, i, paths[i], paths[i]))
    BY <1>5 DEF ReceiveReaddir, HoldOK, NamesOK, DoneOK, HoldsName, NameOps, Shared
  <2>2. {i, i} = {i}
    OBVIOUS
  <2>3. QED
    BY <1>1, <1>2, <1>5, <2>1, <2>2, LocksTaken DEF ReceiveReaddir
<1>6. ASSUME NEW i \in Ino, NEW n \in Name, NEW op \in NameOps \cup {"lookup"},
             ReceiveNameOp(w, op, i, n)
      PROVE  LockInv' /\ (CalmInv => CalmInv')
  <2>1. PICK p : p = Append(paths[i], n)
    OBVIOUS
  <2>2. PICK d : d = IF op = "rmdir" /\ p \in Path /\ byPath[p] # NoIno THEN byPath[p] ELSE i
    OBVIOUS
  <2>3. /\ CanLock(op, {i, d}) /\ Accept(w, op, i, d, p, p)
        /\ KnowsDir(i) /\ paths[i] # NoPath /\ p \in Path
        /\ op = "create" => ~IsLink(p)
    BY <1>6, <2>1, <2>2 DEF ReceiveNameOp, Accept
  <2>4. d \in Ino
    BY <2>2, <2>3 DEF Inv, FsTypeOK, TableTypeOK
  <2>5. Parent(p) = paths[i]
    BY <1>3, <2>1, <2>3
  <2>6. HoldOK(R(op, i, d, p, p))
    BY <2>2, <2>3, <2>5 DEF HoldOK, NamesOK, DoneOK, HoldsName, NameOps, Shared
  <2>7. QED
    BY <1>1, <1>2, <2>3, <2>4, <2>6, LocksTaken
<1>7. ASSUME NEW i \in Ino, NEW d \in Ino, NEW n \in Name, ReceiveLink(w, i, d, n)
      PROVE  LockInv' /\ (CalmInv => CalmInv')
  <2>1. HoldOK(R("link", d, d, paths[i], Append(paths[d], n)))
    BY <1>3, <1>7 DEF ReceiveLink, HoldOK, NamesOK, DoneOK, HoldsName, NameOps, Shared
  <2>2. {d, d} = {d}
    OBVIOUS
  <2>3. QED
    BY <1>1, <1>2, <1>7, <2>1, <2>2, LocksTaken DEF ReceiveLink
<1>8. ASSUME NEW i \in Ino, NEW d \in Ino, NEW n \in Name, NEW m \in Name,
             ReceiveRename(w, i, n, d, m)
      PROVE  LockInv' /\ (CalmInv => CalmInv')
  <2>1. HoldOK(R("rename", i, d, Append(paths[i], n), Append(paths[d], m)))
    BY <1>3, <1>8 DEF ReceiveRename, HoldOK, NamesOK, DoneOK, HoldsName, NameOps, Shared
  <2>2. QED
    BY <1>1, <1>2, <1>8, <2>1, LocksTaken DEF ReceiveRename
<1>9. QED
  BY <1>4, <1>5, <1>6, <1>7, <1>8 DEF Receive

-----------------------------------------------------------------------------
(***************************************************************************)
(* The steps on the backing directory.  What exists stays in directories:  *)
(* an entry is made in one, and a directory that goes is empty.            *)
(***************************************************************************)
LEMMA TreeInvKept ==
  ASSUME TreeInv,
         \A p \in Path : tree'[p] # tree[p] =>
           IF Exists(p) THEN ~Exists(p)' /\ (~IsDir(p) \/ Empty(p))
                        ELSE /\ p # Root /\ IsDir(Parent(p))
                             /\ tree'[Parent(p)] = tree[Parent(p)]
  PROVE  TreeInv'
<1>1. SUFFICES ASSUME NEW p \in Path, NEW q \in Path, Below(p, q), p # q, Exists(q)'
               PROVE  IsDir(p)'
  BY DEF TreeInv
<1>2. CASE Exists(q)
  <2>1. IsDir(p) /\ ~Empty(p) /\ Exists(p)
    BY <1>1, <1>2, ObjectsDistinct DEF TreeInv, Empty, IsDir, Exists
  <2>2. QED
    BY <2>1 DEF IsDir
<1>3. CASE ~Exists(q)
  <2>1. q # Root /\ IsDir(Parent(q)) /\ tree'[Parent(q)] = tree[Parent(q)]
    BY <1>1, <1>3 DEF Exists
  <2>2. Parent(q) \in Path /\ Exists(Parent(q)) /\ Below(p, Parent(q))
    BY <1>1, <2>1, ParentIsAbove, ObjectsDistinct DEF IsDir, Exists
  <2>3. CASE p = Parent(q)
    BY <2>1, <2>3 DEF IsDir
  <2>4. CASE p # Parent(q)
    <3>1. IsDir(p) /\ ~Empty(p) /\ Exists(p)
      BY <2>2, <2>4, ObjectsDistinct DEF TreeInv, Empty, IsDir, Exists
    <3>2. QED
      BY <3>1 DEF IsDir
  <2>5. QED
    BY <2>3, <2>4
<1>4. QED
  BY <1>2, <1>3

(***************************************************************************)
(* The number of a path that exists is the file there, if it is known.     *)
(***************************************************************************)
LEMMA NumberOfFile ==
  ASSUME Inv, TableInv, FileInv, NEW p \in Path, Exists(p), byPath[p] # NoIno
  PROVE  told[byPath[p]] \subseteq {tree[p]}
<1>1. byPath[p] \in Ino /\ paths[byPath[p]] = p /\ p # NoPath
  BY NoPathIsNone DEF TableInv, NumbersLeadBack, TableTypeOK
<1>2. QED
  BY <1>1 DEF FileInv, Knows

LEMMA AppearsCalm ==
  ASSUME Inv, LockInv, CalmInv, NEW w \in Worker, NEW r, NEW i \in Ino, NEW p \in Path, NEW o \in Obj,
         req[w].at = "backing", req[w].op # "lookup", HoldsName(req[w], i, p),
         req' = [req EXCEPT ![w] = r], HoldOK(r)',
         UNCHANGED <<table_vars, told>>,
         ~Exists(p), IsDir(Parent(p)), tree' = [tree EXCEPT ![p] = o]
  PROVE  CalmInv'
<1>1. /\ tree'[p] = o
      /\ \A q \in Path \ {p} : tree'[q] = tree[q]
  BY DEF Inv, FsTypeOK
<1>2. p # Root /\ Parent(p) \in Path /\ Parent(p) # p
  BY HolderLocks, ParentIsAbove
<1>3. TreeInv'
  BY <1>1, <1>2, TreeInvKept DEF CalmInv
<1>4. Exists(p)'
  BY <1>1, ObjectsDistinct DEF Exists
<1>5. QED
  BY <1>1, <1>3, <1>4, TreeKeepsCalm

(***************************************************************************)
(* The directory of a name that a request holds is there: who removes it   *)
(* must have its lock, and who moves it displaces it.                      *)
(***************************************************************************)
LEMMA DirectoryThere ==
  ASSUME Inv, TableInv, LockInv, CalmInv, NEW w \in Worker, NEW i \in Ino, NEW p \in Path,
         HoldsName(req[w], i, p)
  PROVE  IsDir(Parent(p)) /\ Parent(p) \in Path
<1>1. /\ p # Root /\ i \in Locks(w) /\ req[w].op # "readdir"
      /\ paths[i] = Parent(p) /\ KnowsDir(i)
  BY HolderLocks DEF CalmInv, HoldInv, HoldOK, NamesOK
<1>2. PICK d \in Path : d = Parent(p) /\ paths[i] = d /\ byPath[d] = i /\ i # NoIno
  BY <1>1, ParentIsAbove, NoPathIsNone, InoIsNat DEF CalmInv, BackInv
<1>3. Exists(d)
  <2>1. SUFFICES ASSUME NEW v \in Worker, Removed(req[v], d)
                 PROVE  FALSE
    BY <1>2 DEF CalmInv, LiveInv
  <2>2. HoldOK(req[v]) /\ told[i] \cap Dir # {}
    BY <1>1 DEF CalmInv, HoldInv, KnowsDir
  <2>3. CASE req[v].op = "unlink"
    BY <1>2, <2>1, <2>2, <2>3 DEF Removed, HoldOK, DoneOK
  <2>4. CASE req[v].op = "rename"
    BY <1>2, <2>1, <2>2, <2>4 DEF Removed, HoldOK, DoneOK, IsDir
  <2>5. CASE req[v].op = "rmdir"
    <3>1. i \in Locks(v)
      BY <1>2, <2>1, <2>2, <2>5 DEF Removed, HoldOK, NamesOK, Locks, PathOps
    <3>2. ASSUME v = w PROVE FALSE
      <4>1. HoldsName(req[w], i, d)
        BY <2>1, <2>5, <3>2 DEF Removed, HoldsName, NameOps
      <4>2. d # Root /\ paths[i] = Parent(d)
        BY <4>1, HolderLocks DEF CalmInv, HoldInv, HoldOK, NamesOK
      <4>3. QED
        BY <1>2, <4>2, ParentIsAbove
    <3>3. QED
      BY <1>1, <2>5, <3>1, <3>2 DEF LockInv, Shared
  <2>6. QED
    BY <2>1, <2>3, <2>4, <2>5 DEF Removed, Removing
<1>4. told[i] = {tree[d]}
  BY <1>1, <1>2, <1>3, NoPathIsNone DEF CalmInv, FileInv, Knows, KnowsDir
<1>5. QED
  BY <1>1, <1>2, <1>4 DEF KnowsDir, IsDir

(* So a create that holds a name that is no link leads nowhere else. *)
LEMMA CreateInPlace ==
  ASSUME Inv, TableInv, LockInv, CalmInv, NEW w \in Worker, req[w].op = "create", req[w].at # "idle"
  PROVE  Follow(req[w].old) = {req[w].old}
<1>1. /\ req[w] \in Request /\ ~IsLink(req[w].old)
      /\ HoldsName(req[w], req[w].ino, req[w].old) /\ req[w].ino \in Ino
  BY Serving DEF CalmInv, HoldInv, HoldOK, NamesOK, HoldsName, NameOps, Request
<1>2. PICK p \in Path : p = req[w].old
  BY <1>1 DEF Request
<1>3. IsDir(Parent(p)) /\ Parent(p) \in Path /\ p # Root
  BY <1>1, <1>2, DirectoryThere, HolderLocks
<1>4. ASSUME NEW q \in Path, Below(q, p), q # p
      PROVE  ~IsLink(q)
  <2>1. Below(q, Parent(p))
    BY <1>3, <1>4, ParentIsAbove
  <2>2. IsDir(q)
    BY <1>3, <2>1, ObjectsDistinct DEF CalmInv, TreeInv, IsDir, Exists
  <2>3. QED
    BY <2>2, ObjectsDistinct DEF IsDir, IsLink
<1>5. QED
  BY <1>1, <1>2, <1>4 DEF Follow

LEMMA MakeCalm ==
  ASSUME Inv, TableInv, LockInv, CalmInv, NEW w \in Worker, NEW o \in Obj,
         Create(w, o) \/ MakeEntry(w, o)
  PROVE  CalmInv'
<1>1. /\ req[w] \in Request /\ req[w].at = "backing" /\ req[w].op \in {"create", "mkdir", "symlink"}
      /\ UNCHANGED <<table_vars, told>>
  BY Serving DEF Create, MakeEntry
<1>2. NamesOK(req[w])
  BY DEF CalmInv, HoldInv, HoldOK
<1>3. PICK r : /\ req' = [req EXCEPT ![w] = r]
               /\ \/ r = Idle
                  \/ /\ r.op = req[w].op /\ r.ino = req[w].ino /\ r.dir = req[w].dir
                     /\ r.old = req[w].old /\ r.new = req[w].new
                     /\ r.op = "create" => r.obj = o
  BY <1>1, Advanced DEF Create, MakeEntry, Reply
<1>4. /\ Make(req[w].old, o) \/ (o = tree[req[w].old] /\ UNCHANGED tree)
      /\ req[w].op = "create" => o \in File
  <2>1. CASE Create(w, o)
    BY <1>1, <2>1, CreateInPlace DEF Create
  <2>2. CASE MakeEntry(w, o)
    BY <2>2 DEF MakeEntry
  <2>3. QED
    BY <2>1, <2>2
<1>5. tree'[req[w].old] = o => HoldOK(r)'
  <2>1. CASE r = Idle
    BY <2>1, IdleHolds
  <2>2. CASE r # Idle
    BY <1>1, <1>2, <1>3, <1>4, <2>2
    DEF HoldOK, NamesOK, DoneOK, HoldsName, KnowsDir, table_vars, IsLink, File
  <2>3. QED
    BY <2>1, <2>2
<1>6. CASE Make(req[w].old, o)
  <2>1. PICK p \in Path : p = req[w].old
    BY <1>1 DEF Request
  <2>2. HoldsName(req[w], req[w].ino, p) /\ req[w].ino \in Ino
    BY <1>1, <2>1 DEF HoldsName, NameOps, Request
  <2>3. ~Exists(p) /\ IsDir(Parent(p)) /\ tree' = [tree EXCEPT ![p] = o]
    BY <1>6, <2>1 DEF Make
  <2>4. HoldOK(r)'
    BY <1>5, <2>1, <2>3 DEF Inv, FsTypeOK
  <2>5. QED
    BY <1>1, <1>3, <2>2, <2>3, <2>4, AppearsCalm
<1>7. CASE o = tree[req[w].old] /\ UNCHANGED tree
  <2>1. HoldOK(r)'
    BY <1>5, <1>7
  <2>2. TreeInv'
    BY <1>7 DEF CalmInv, TreeInv, Exists, IsDir
  <2>3. QED
    BY <1>1, <1>3, <1>7, <2>1, <2>2, TreeKeepsCalm
<1>8. QED
  BY <1>4, <1>6, <1>7

LEMMA LinkCalm ==
  ASSUME Inv, LockInv, CalmInv, NEW w \in Worker, Link(w)
  PROVE  CalmInv'
<1>1. /\ req[w] \in Request /\ req[w].at = "backing" /\ req[w].op = "link"
      /\ UNCHANGED <<table_vars, told>>
  BY Serving DEF Link
<1>2. NamesOK(req[w])
  BY DEF CalmInv, HoldInv, HoldOK
<1>3. PICK r : /\ req' = [req EXCEPT ![w] = r]
               /\ r.op = "link" /\ r.ino = req[w].ino /\ r.dir = req[w].dir
               /\ r.old = req[w].old /\ r.new = req[w].new
  BY <1>1, Advanced DEF Link
<1>4. HoldOK(r)'
  BY <1>1, <1>2, <1>3 DEF HoldOK, NamesOK, DoneOK, HoldsName, KnowsDir, table_vars
<1>5. PICK p \in Path, o \in Obj : p = req[w].new /\ o = tree[req[w].old]
  BY <1>1 DEF Request, Link, Exists, Inv, FsTypeOK
<1>6. HoldsName(req[w], req[w].ino, p) /\ req[w].ino \in Ino
  BY <1>1, <1>5 DEF HoldsName, Request
<1>7. QED
  BY <1>1, <1>3, <1>4, <1>5, <1>6, AppearsCalm DEF Link

LEMMA RemoveCalm ==
  ASSUME Inv, TableInv, LockInv, CalmInv, NEW w \in Worker, Remove(w)
  PROVE  CalmInv'
<1>1. /\ req[w] \in Request /\ req[w].at = "backing" /\ req[w].op \in {"unlink", "rmdir"}
      /\ UNCHANGED <<table_vars, told>>
  BY Serving DEF Remove
<1>2. NamesOK(req[w])
  BY DEF CalmInv, HoldInv, HoldOK
<1>3. PICK r : /\ req' = [req EXCEPT ![w] = r]
               /\ r.op = req[w].op /\ r.at = "table" /\ r.ino = req[w].ino /\ r.dir = req[w].dir
               /\ r.old = req[w].old /\ r.new = req[w].new
  BY <1>1, Advanced DEF Remove
<1>4. PICK p \in Path : p = req[w].old
  BY <1>1 DEF Request
<1>5. HoldsName(req[w], req[w].ino, p) /\ req[w].ino \in Ino
  BY <1>1, <1>4 DEF HoldsName, NameOps, Request
<1>6. /\ Exists(p) /\ (~IsDir(p) \/ Empty(p)) /\ (r.op = "unlink" => ~IsDir(p))
      /\ tree' = [tree EXCEPT ![p] = NoObj]
  BY <1>1, <1>3, <1>4 DEF Remove
<1>7. ~Exists(p)' /\ \A q \in Path \ {p} : tree'[q] = tree[q]
  BY <1>6 DEF Exists, Inv, FsTypeOK
<1>8. TreeInv'
  BY <1>6, <1>7, TreeInvKept DEF CalmInv
<1>9. r.op = "unlink" /\ byPath[p] # NoIno => told[byPath[p]] \cap Dir = {}
  BY <1>6, NumberOfFile DEF CalmInv, IsDir
<1>10. HoldOK(r)'
  BY <1>1, <1>2, <1>3, <1>4, <1>9 DEF HoldOK, NamesOK, DoneOK, HoldsName, KnowsDir, table_vars
<1>11. Removed(r, p)
  BY <1>1, <1>3, <1>4 DEF Removed, Removing
<1>12. QED
  BY <1>1, <1>3, <1>5, <1>6, <1>7, <1>8, <1>10, <1>11, TreeKeepsCalm

(***************************************************************************)
(* A rename that replaces nothing and moves no directory changes the two   *)
(* names only.                                                             *)
(***************************************************************************)
LEMMA PlainRename ==
  ASSUME Inv, TreeInv, NEW w \in Worker, Rename(w), ~displaced'
  PROVE  /\ Exists(req[w].old) /\ ~IsDir(req[w].old)
         /\ ~Exists(req[w].new) /\ IsDir(Parent(req[w].new))
         /\ tree' = [tree EXCEPT ![req[w].old] = NoObj, ![req[w].new] = tree[req[w].old]]
<1>1. PICK old \in Path, new \in Path : old = req[w].old /\ new = req[w].new
  BY Serving DEF Rename
<1>2. Exists(old) /\ ~IsDir(old) /\ ~Exists(new) /\ IsDir(Parent(new)) /\ old # new
  BY <1>1 DEF Rename
<1>3. tree' = [p \in Path |-> IF Below(new, p) /\ Moved(p, new, old) \in Path
                              THEN tree[Moved(p, new, old)]
                              ELSE IF Below(old, p) THEN NoObj ELSE tree[p]]
  BY <1>1, <1>2 DEF Rename, Exists
<1>4. ASSUME NEW p \in Path, Below(old, p), p # old PROVE tree[p] = NoObj
  BY <1>2, <1>4 DEF TreeInv, Exists
<1>5. ASSUME NEW p \in Path, Below(new, p), p # new PROVE tree[p] = NoObj
  BY <1>2, <1>5, ObjectsDistinct DEF TreeInv, Exists, IsDir
<1>6. ASSUME NEW p \in Path
      PROVE  tree'[p] = IF p = new THEN tree[old] ELSE IF p = old THEN NoObj ELSE tree[p]
  <2>1. CASE Below(new, p) /\ Moved(p, new, old) \in Path
    <3>1. CASE p = new
      BY <1>3, <2>1, <3>1, MovedIsBelow
    <3>2. CASE p # new
      BY <1>2, <1>3, <1>4, <1>5, <2>1, <3>2, MovedIsBelow DEF Exists
    <3>3. QED
      BY <3>1, <3>2
  <2>2. CASE ~(Below(new, p) /\ Moved(p, new, old) \in Path)
    <3>1. p # new
      BY <2>2, BelowItself, MovedIsBelow
    <3>2. QED
      BY <1>3, <1>4, <2>2, <3>1, BelowItself
  <2>3. QED
    BY <2>1, <2>2
<1>7. tree' = [tree EXCEPT ![old] = NoObj, ![new] = tree[old]]
  BY <1>2, <1>3, <1>6 DEF Inv, FsTypeOK
<1>8. QED
  BY <1>1, <1>2, <1>7

LEMMA RenameCalm ==
  ASSUME Inv, TableInv, LockInv, CalmInv, NEW w \in Worker, Rename(w), ~displaced'
  PROVE  CalmInv'
<1>1. /\ req[w] \in Request /\ req[w].at = "backing" /\ req[w].op = "rename"
      /\ UNCHANGED <<table_vars, told>>
  BY Serving DEF Rename
<1>2. NamesOK(req[w])
  BY DEF CalmInv, HoldInv, HoldOK
<1>3. PICK r : /\ req' = [req EXCEPT ![w] = r]
               /\ r.op = "rename" /\ r.at = "table" /\ r.ino = req[w].ino /\ r.dir = req[w].dir
               /\ r.old = req[w].old /\ r.new = req[w].new
  BY <1>1, Advanced DEF Rename
<1>4. PICK old \in Path, new \in Path : old = req[w].old /\ new = req[w].new
  BY <1>1 DEF Request
<1>5. /\ HoldsName(req[w], req[w].ino, old) /\ req[w].ino \in Ino
      /\ HoldsName(req[w], req[w].dir, new) /\ req[w].dir \in Ino
  BY <1>1, <1>4 DEF HoldsName, Request
<1>6. /\ Exists(old) /\ ~IsDir(old) /\ ~Exists(new) /\ IsDir(Parent(new))
      /\ tree' = [tree EXCEPT ![old] = NoObj, ![new] = tree[old]]
  BY <1>4, PlainRename DEF CalmInv
<1>7. /\ old # new /\ tree'[old] = NoObj /\ tree'[new] = tree[old]
      /\ \A q \in Path \ {old, new} : tree'[q] = tree[q]
  BY <1>6 DEF Inv, FsTypeOK
<1>8. ~Exists(old)' /\ Exists(new)' /\ ~IsDir(new)'
  BY <1>6, <1>7 DEF Exists, IsDir
<1>9. new # Root /\ Parent(new) \in Path /\ Parent(new) \notin {old, new}
  BY <1>5, <1>6, HolderLocks, ParentIsAbove
<1>10. TreeInv'
  BY <1>6, <1>7, <1>8, <1>9, TreeInvKept DEF CalmInv
<1>11. byPath[new] = NoIno
  <2>1. SUFFICES ASSUME NEW v \in Worker, Removed(req[v], new) PROVE FALSE
    BY <1>6 DEF CalmInv, LiveInv
  <2>2. v # w /\ HoldsName(req[v], req[v].ino, new) /\ req[v].ino \in Ino
    BY <1>1, <2>1, Serving DEF Removed, Removing, HoldsName, NameOps, Request
  <2>3. QED
    BY <1>1, <1>5, <2>2, SameName DEF CalmInv
<1>12. byPath[old] # NoIno => told[byPath[old]] \subseteq {tree'[new]}
  BY <1>6, <1>7, NumberOfFile DEF CalmInv
<1>13. HoldOK(r)'
  BY <1>1, <1>2, <1>3, <1>4, <1>8, <1>11, <1>12
  DEF HoldOK, NamesOK, DoneOK, HoldsName, KnowsDir, table_vars
<1>14. Removed(r, old)
  BY <1>3, <1>4 DEF Removed, Removing
<1>15. QED
  BY <1>1, <1>3, <1>5, <1>6, <1>7, <1>8, <1>10, <1>13, <1>14, TreeKeepsCalm

-----------------------------------------------------------------------------
(***************************************************************************)
(* The steps on the table.                                                 *)
(***************************************************************************)
LEMMA TableKeepsCalm ==
  ASSUME Inv, TableInv, LockInv, CalmInv, NEW w \in Worker, NEW r,
         req' = [req EXCEPT ![w] = r], HoldOK(r)', TableInv', tree' = tree,
         told' \in [Ino -> SUBSET Obj], BackInv', FileInv',
         \A p \in Path : byPath'[p] # byPath[p] =>
           \/ \E i \in Ino : HoldsName(req[w], i, p)
           \/ req[w].op = "readdir" /\ Parent(p) = req[w].old,
         \A p \in Path : byPath'[p] # NoIno =>
           Exists(p) \/ (byPath[p] # NoIno /\ ~Removed(req[w], p)),
         \A v \in Worker \ {w}, i \in Ino : paths'[i] # paths[i] =>
           paths[i] = NoPath \/ i \notin Locks(v) \/ ~KnowsDir(i),
         \A i \in Ino : told'[i] # told[i] =>
           /\ told[i] \subseteq told'[i]
           /\ \E p \in Path, j \in Ino : HoldsName(req[w], j, p) /\ byPath'[p] = i
  PROVE  CalmInv'
<1>1. /\ req'[w] = r
      /\ \A v \in Worker \ {w} : req'[v] = req[v]
  BY DEF Inv, FsTypeOK
<1>2. TreeInv'
  BY DEF CalmInv, TreeInv, Exists, IsDir
<1>3. LiveInv'
  BY <1>1 DEF CalmInv, LiveInv, Exists, Removed
<1>4. TableTypeOK' /\ NumbersLeadBack'
  BY DEF TableInv
<1>5. ASSUME NEW v \in Worker \ {w} PROVE HoldOK(req[v])'
  BY <1>1, <1>4, TableKeepsHolds DEF CalmInv
<1>6. HoldInv'
  BY <1>1, <1>5 DEF HoldInv
<1>7. QED
  BY <1>2, <1>3, <1>6 DEF CalmInv

LEMMA NumbersAreGiven ==
  ASSUME TableInv, NEW p \in Path, byPath[p] # NoIno
  PROVE  byPath[p] \in Ino /\ paths[byPath[p]] = p /\ byPath[p] < next
<1>1. byPath[p] \in Ino /\ paths[byPath[p]] = p
  BY DEF TableInv, TableTypeOK, NumbersLeadBack
<1>2. byPath[p] \in Nat /\ next \in Nat /\ ~(byPath[p] >= next)
  BY <1>1, NoPathIsNone, InoIsNat DEF TableInv, TableTypeOK
<1>3. QED
  BY <1>1, <1>2

(***************************************************************************)
(* An entry reply gives a path a number if it had none, and the kernel is  *)
(* told that this number is the file at the path.                          *)
(***************************************************************************)
Numbered(i, p, o) ==
  /\ i # NoIno /\ byPath' = [byPath EXCEPT ![p] = i] /\ paths' = [paths EXCEPT ![i] = p]
  /\ told' = [told EXCEPT ![i] = @ \cup {o}]
  /\ \/ byPath[p] = i /\ paths[i] = p
     \/ byPath[p] = NoIno /\ paths[i] = NoPath /\ told[i] = {}
  /\ i < next' /\ next <= next'

LEMMA EntryNumber ==
  ASSUME Inv, TableInv, ToldInv, NEW w \in Worker, NEW p \in Path, NEW o, ReplyEntry(w, p, o)
  PROVE  \E i \in Ino : Numbered(i, p, o)
<1>1. next \in Nat /\ Ino \subseteq Nat /\ NoIno \notin Ino
  BY InoIsNat DEF TableInv, TableTypeOK
<1>2. CASE byPath[p] # NoIno
  <2>1. PICK i \in Ino : i = byPath[p] /\ i # NoIno /\ paths[i] = p /\ i < next
    BY <1>2, NumbersAreGiven
  <2>2. paths' = paths /\ byPath' = byPath /\ next' = next
    BY <1>2 DEF ReplyEntry, InoFor, table_vars
  <2>3. byPath' = [byPath EXCEPT ![p] = i] /\ paths' = [paths EXCEPT ![i] = p]
    BY <2>1, <2>2 DEF TableInv, TableTypeOK
  <2>4. told' = [told EXCEPT ![i] = @ \cup {o}]
    BY <2>1, <2>2 DEF ReplyEntry
  <2>5. i < next' /\ next <= next'
    BY <1>1, <2>1, <2>2
  <2>6. QED
    BY <2>1, <2>3, <2>4, <2>5 DEF Numbered
<1>3. CASE byPath[p] = NoIno
  <2>1. PICK i \in Ino : /\ i = next /\ i # NoIno /\ next' = i + 1
                         /\ byPath' = [byPath EXCEPT ![p] = i] /\ paths' = [paths EXCEPT ![i] = p]
                         /\ paths[i] = NoPath /\ told[i] = {}
    BY <1>1, <1>3 DEF ReplyEntry, InoFor, Allocate, TableInv, ToldInv
  <2>2. told' = [told EXCEPT ![i] = @ \cup {o}]
    BY <2>1 DEF ReplyEntry, TableInv, TableTypeOK
  <2>3. i < next' /\ next <= next'
    BY <1>1, <2>1
  <2>4. QED
    BY <1>3, <2>1, <2>2, <2>3 DEF Numbered
<1>4. QED
  BY <1>2, <1>3

LEMMA EntryCalm ==
  ASSUME Inv, TableInv, LockInv, ToldInv, CalmInv, NEW w \in Worker, TableInv',
         TableEntry(w) \/ TableMade(w)
  PROVE  CalmInv'
<1>1. /\ req[w] \in Request /\ req[w].at = "table" /\ RequestOK(req[w])
      /\ req[w].op \in {"lookup", "create", "mkdir", "symlink", "link"}
  BY Serving DEF TableEntry, TableMade
<1>2. NamesOK(req[w]) /\ DoneOK(req[w])
  BY DEF CalmInv, HoldInv, HoldOK
<1>3. PICK p \in Path : /\ Exists(p) /\ ReplyEntry(w, p, tree[p])
                        /\ HoldsName(req[w], req[w].ino, p)
  <2>1. CASE TableEntry(w)
    <3>1. req[w].old \in Path /\ tree[req[w].old] = req[w].obj /\ req[w].obj \in Obj
      BY <1>1, <1>2, <2>1 DEF TableEntry, RequestOK, DoneOK, Request
    <3>2. QED
      BY <2>1, <3>1, ObjectsDistinct DEF TableEntry, HoldsName, NameOps, Exists
  <2>2. CASE TableMade(w)
    BY <1>1, <2>2 DEF TableMade, HoldsName, NameOps, Request
  <2>3. QED
    BY <2>1, <2>2
<1>4. PICK i \in Ino : Numbered(i, p, tree[p])
  BY <1>3, EntryNumber
<1>5. told[i] \subseteq {tree[p]} /\ tree[p] \in Obj /\ told \in [Ino -> SUBSET Obj]
  BY <1>3, <1>4, NumberOfFile DEF Numbered, CalmInv, Inv, FsTypeOK, Exists
<1>6. /\ told' \in [Ino -> SUBSET Obj] /\ told'[i] = {tree[p]} /\ told[i] \subseteq told'[i]
      /\ \A j \in Ino \ {i} : told'[j] = told[j]
  BY <1>4, <1>5 DEF Numbered
<1>7. /\ byPath'[p] = i /\ \A q \in Path \ {p} : byPath'[q] = byPath[q]
      /\ paths'[i] = p /\ \A j \in Ino \ {i} : paths'[j] = paths[j]
  BY <1>4 DEF Numbered, Inv, FsTypeOK, TableTypeOK
<1>8. tree' = tree /\ req' = [req EXCEPT ![w] = Idle] /\ req[w].ino \in Ino
  BY <1>1, <1>3 DEF ReplyEntry, Reply, Request
<1>9. BackInv'
  <2>1. ASSUME NEW j \in Ino, j # i, paths[j] # NoPath
        PROVE  byPath'[paths[j]] = j
    <3>1. paths[j] \in Path /\ byPath[paths[j]] = j /\ j # NoIno
      BY <2>1, InoIsNat DEF CalmInv, BackInv, Inv, FsTypeOK, TableTypeOK
    <3>2. paths[j] # p
      BY <1>4, <2>1, <3>1 DEF Numbered
    <3>3. QED
      BY <1>7, <3>1, <3>2
  <2>2. QED
    BY <1>7, <2>1 DEF BackInv
<1>10. FileInv'
  <2>1. SUFFICES ASSUME NEW j \in Ino, Knows(j)'
                 PROVE  /\ \E o \in Obj : told'[j] = {o}
                        /\ paths'[j] # NoPath /\ tree'[paths'[j]] # NoObj
                             => told'[j] = {tree'[paths'[j]]}
    BY DEF FileInv, Exists
  <2>2. CASE j = i
    BY <1>5, <1>6, <1>7, <1>8, <2>2
  <2>3. CASE j # i
    BY <1>6, <1>7, <1>8, <2>1, <2>3 DEF CalmInv, FileInv, Exists, Knows
  <2>4. QED
    BY <2>2, <2>3
<1>11. \A q \in Path : byPath'[q] # NoIno => Exists(q) \/ (byPath[q] # NoIno /\ ~Removed(req[w], q))
  BY <1>1, <1>3, <1>7 DEF Removed, Removing
<1>12. \A q \in Path : byPath'[q] # byPath[q] => \E j \in Ino : HoldsName(req[w], j, q)
  BY <1>3, <1>7, <1>8
<1>13. \A j \in Ino : paths'[j] # paths[j] => paths[j] = NoPath
  BY <1>4, <1>7 DEF Numbered
<1>14. \A j \in Ino : told'[j] # told[j] =>
         /\ told[j] \subseteq told'[j]
         /\ \E q \in Path, k \in Ino : HoldsName(req[w], k, q) /\ byPath'[q] = j
  BY <1>3, <1>6, <1>7, <1>8
<1>15. QED
  BY <1>6, <1>8, <1>9, <1>10, <1>11, <1>12, <1>13, <1>14, IdleHolds, TableKeepsCalm

(***************************************************************************)
(* A path is forgotten: it was removed, by this request.  Nothing is at    *)
(* work in a directory that was removed, its lock was taken.               *)
(***************************************************************************)
LEMMA ForgetCalm ==
  ASSUME Inv, TableInv, LockInv, CalmInv, NEW w \in Worker, TableInv', TableForget(w)
  PROVE  CalmInv'
<1>1. /\ req[w] \in Request /\ req[w].at = "table" /\ req[w].op \in {"unlink", "rmdir"}
      /\ tree' = tree /\ told' = told /\ req' = [req EXCEPT ![w] = Idle]
  BY Serving DEF TableForget, Reply
<1>2. NamesOK(req[w]) /\ DoneOK(req[w])
  BY DEF CalmInv, HoldInv, HoldOK
<1>3. PICK p \in Path : p = req[w].old /\ ForgetPath(p)
  BY <1>1 DEF TableForget, Request
<1>4. HoldsName(req[w], req[w].ino, p) /\ req[w].ino \in Ino
  BY <1>1, <1>3 DEF HoldsName, NameOps, Request
<1>5. byPath'[p] = NoIno /\ \A q \in Path \ {p} : byPath'[q] = byPath[q]
  BY <1>3 DEF ForgetPath, Inv, FsTypeOK, TableTypeOK
<1>6. ASSUME NEW i \in Ino, paths'[i] # paths[i]
      PROVE  byPath[p] = i /\ i # NoIno /\ paths'[i] = NoPath
  BY <1>3, <1>6 DEF ForgetPath, Inv, FsTypeOK, TableTypeOK
<1>7. ASSUME NEW i \in Ino, paths'[i] # paths[i], NEW v \in Worker \ {w}
      PROVE  i \notin Locks(v) \/ ~KnowsDir(i)
  <2>1. byPath[p] = i /\ i # NoIno
    BY <1>6, <1>7
  <2>2. CASE req[w].op = "unlink"
    BY <1>1, <1>2, <1>3, <2>1, <2>2 DEF DoneOK, KnowsDir
  <2>3. CASE req[w].op = "rmdir"
    <3>1. i \in Locks(w)
      BY <1>2, <1>3, <2>1, <2>3 DEF NamesOK, Locks, PathOps
    <3>2. QED
      BY <2>3, <3>1 DEF LockInv, Shared
  <2>4. QED
    BY <1>1, <2>2, <2>3
<1>8. BackInv'
  <2>1. SUFFICES ASSUME NEW i \in Ino, paths'[i] # NoPath
                 PROVE  byPath'[paths'[i]] = i
    BY DEF BackInv
  <2>2. paths'[i] = paths[i] /\ byPath[paths[i]] = i /\ i # NoIno /\ paths[i] \in Path
    BY <1>6, <2>1, InoIsNat DEF CalmInv, BackInv, Inv, FsTypeOK, TableTypeOK
  <2>3. paths[i] # p
    BY <1>3, <2>1, <2>2 DEF ForgetPath, Inv, FsTypeOK, TableTypeOK
  <2>4. QED
    BY <1>5, <2>2, <2>3
<1>9. FileInv'
  BY <1>1, <1>6 DEF CalmInv, FileInv, Knows, Exists
<1>10. \A q \in Path : byPath'[q] # NoIno => byPath[q] # NoIno /\ ~Removed(req[w], q)
  BY <1>3, <1>5 DEF Removed
<1>11. told' \in [Ino -> SUBSET Obj]
  BY <1>1 DEF Inv, FsTypeOK
<1>12. \A q \in Path : byPath'[q] # byPath[q] => \E i \in Ino : HoldsName(req[w], i, q)
  BY <1>4, <1>5
<1>13. \A v \in Worker \ {w}, i \in Ino : paths'[i] # paths[i] => i \notin Locks(v) \/ ~KnowsDir(i)
  BY <1>7
<1>14. HoldOK(Idle)'
  BY IdleHolds
<1>15. QED
  BY <1>1, <1>8, <1>9, <1>10, <1>11, <1>12, <1>13, <1>14, TableKeepsCalm

(***************************************************************************)
(* A number follows the file that was renamed.  It is not a directory, and *)
(* the new name had no number.                                             *)
(***************************************************************************)
LEMMA MoveCalm ==
  ASSUME Inv, TableInv, LockInv, CalmInv, NEW w \in Worker, TableInv', TableMove(w)
  PROVE  CalmInv'
<1>1. /\ req[w] \in Request /\ req[w].at = "table" /\ req[w].op = "rename"
      /\ tree' = tree /\ told' = told /\ req' = [req EXCEPT ![w] = Idle]
  BY Serving DEF TableMove, Reply
<1>2. PICK old \in Path, new \in Path :
        old = req[w].old /\ new = req[w].new /\ TableRename(old, new)
  BY <1>1 DEF TableMove, Request
<1>3. /\ HoldsName(req[w], req[w].ino, old) /\ req[w].ino \in Ino
      /\ HoldsName(req[w], req[w].dir, new) /\ req[w].dir \in Ino
  BY <1>1, <1>2 DEF HoldsName, Request
<1>4. /\ Exists(new) /\ ~IsDir(new) /\ byPath[new] = NoIno
      /\ byPath[old] # NoIno => told[byPath[old]] \subseteq {tree[new]}
  BY <1>1, <1>2 DEF CalmInv, HoldInv, HoldOK, DoneOK
<1>5. told' \in [Ino -> SUBSET Obj]
  BY <1>1 DEF Inv, FsTypeOK
<1>6. byPath[old] = NoIno => paths' = paths /\ byPath' = byPath
  BY <1>2 DEF TableRename
<1>7. ASSUME byPath[old] # NoIno
      PROVE  /\ byPath[old] \in Ino /\ paths[byPath[old]] = old /\ old # new
             /\ byPath'[old] = NoIno /\ byPath'[new] = byPath[old]
             /\ \A q \in Path \ {old, new} : byPath'[q] = byPath[q]
             /\ paths'[byPath[old]] = new
             /\ \A i \in Ino \ {byPath[old]} : paths'[i] = paths[i]
  <2>1. PICK i \in Ino : i = byPath[old] /\ i # NoIno /\ paths[i] = old
    BY <1>7, NumbersAreGiven
  <2>2. paths' = [paths EXCEPT ![i] = new] /\ byPath' = [byPath EXCEPT ![old] = NoIno, ![new] = i]
    BY <1>2, <1>7, <2>1 DEF TableRename
  <2>3. old # new
    BY <1>4, <1>7
  <2>4. QED
    BY <2>1, <2>2, <2>3 DEF TableInv, TableTypeOK
<1>8. \A q \in Path : byPath'[q] # byPath[q] => q \in {old, new}
  BY <1>6, <1>7
<1>9. \A i \in Ino : paths'[i] # paths[i] => ~KnowsDir(i)
  BY <1>4, <1>6, <1>7 DEF KnowsDir, IsDir
<1>10. BackInv'
  <2>1. SUFFICES ASSUME NEW i \in Ino, paths'[i] # NoPath, byPath[old] # NoIno, i # byPath[old]
                 PROVE  byPath'[paths'[i]] = i
    BY <1>6, <1>7 DEF CalmInv, BackInv
  <2>2. paths'[i] = paths[i] /\ byPath[paths[i]] = i /\ i # NoIno /\ paths[i] \in Path
    BY <1>7, <2>1, InoIsNat DEF CalmInv, BackInv, Inv, FsTypeOK, TableTypeOK
  <2>3. paths[i] \notin {old, new}
    BY <1>4, <2>1, <2>2
  <2>4. QED
    BY <1>7, <2>1, <2>2, <2>3
<1>11. FileInv'
  <2>1. SUFFICES ASSUME NEW i \in Ino, Knows(i)
                 PROVE  /\ \E o \in Obj : told[i] = {o}
                        /\ paths'[i] # NoPath /\ tree[paths'[i]] # NoObj
                             => told[i] = {tree[paths'[i]]}
    BY <1>1 DEF FileInv, Exists, Knows
  <2>2. CASE byPath[old] # NoIno /\ i = byPath[old]
    BY <1>4, <1>7, <2>1, <2>2 DEF CalmInv, FileInv
  <2>3. CASE ~(byPath[old] # NoIno /\ i = byPath[old])
    BY <1>6, <1>7, <2>1, <2>3 DEF CalmInv, FileInv, Exists
  <2>4. QED
    BY <2>2, <2>3
<1>12. \A q \in Path : byPath'[q] # NoIno => Exists(q) \/ (byPath[q] # NoIno /\ ~Removed(req[w], q))
  BY <1>2, <1>4, <1>6, <1>7 DEF Removed
<1>13. QED
  BY <1>1, <1>3, <1>5, <1>8, <1>9, <1>10, <1>11, <1>12, IdleHolds, TableKeepsCalm

(***************************************************************************)
(* An entry is listed: a new number, which the kernel is told nothing of.  *)
(***************************************************************************)
LEMMA ReaddirCalm ==
  ASSUME Inv, TableInv, LockInv, ToldInv, CalmInv, NEW w \in Worker, NEW p \in Path, TableInv',
         ReaddirEntry(w, p)
  PROVE  CalmInv'
<1>1. /\ req[w].op = "readdir" /\ req[w].at = "backing" /\ Parent(p) = req[w].old
      /\ Exists(p) /\ byPath[p] = NoIno
      /\ tree' = tree /\ told' = told /\ req' = req
  BY DEF ReaddirEntry
<1>2. PICK i \in Ino :
        /\ i # NoIno /\ byPath' = [byPath EXCEPT ![p] = i] /\ paths' = [paths EXCEPT ![i] = p]
        /\ paths[i] = NoPath /\ told[i] = {}
  <2>1. next \in Ino /\ next # NoIno /\ next >= next
    BY InoIsNat DEF ReaddirEntry, Allocate
  <2>2. QED
    BY <2>1 DEF ReaddirEntry, Allocate, TableInv, ToldInv
<1>3. /\ byPath'[p] = i /\ \A q \in Path \ {p} : byPath'[q] = byPath[q]
      /\ paths'[i] = p /\ \A j \in Ino \ {i} : paths'[j] = paths[j]
  BY <1>2 DEF Inv, FsTypeOK, TableTypeOK
<1>4. PICK r \in Request : r = req[w] /\ HoldOK(r)
  BY <1>1, Serving DEF CalmInv, HoldInv
<1>5. HoldOK(r)'
  <2>1. r.ino \in Ino /\ paths[r.ino] \in Path
    BY <1>1, <1>4 DEF HoldOK, NamesOK, Request
  <2>2. paths'[r.ino] = paths[r.ino]
    BY <1>2, <1>3, <2>1, NoPathIsNone
  <2>3. QED
    BY <1>1, <1>4, <2>2 DEF HoldOK, NamesOK, DoneOK, HoldsName, NameOps, KnowsDir, IsLink
<1>6. req' = [req EXCEPT ![w] = r]
  BY <1>1, <1>4 DEF Inv, FsTypeOK
<1>7. BackInv'
  <2>1. ASSUME NEW j \in Ino, j # i, paths[j] # NoPath
        PROVE  byPath'[paths[j]] = j
    <3>1. paths[j] \in Path /\ byPath[paths[j]] = j /\ j # NoIno
      BY <2>1, InoIsNat DEF CalmInv, BackInv, Inv, FsTypeOK, TableTypeOK
    <3>2. QED
      BY <1>1, <1>3, <3>1
  <2>2. QED
    BY <1>3, <2>1 DEF BackInv
<1>8. FileInv'
  <2>1. ~Knows(i)
    BY <1>2 DEF Knows
  <2>2. QED
    BY <1>1, <1>3, <2>1 DEF CalmInv, FileInv, Knows, Exists
<1>9. told' \in [Ino -> SUBSET Obj]
  BY <1>1 DEF Inv, FsTypeOK
<1>10. \A q \in Path : byPath'[q] # NoIno => Exists(q) \/ (byPath[q] # NoIno /\ ~Removed(req[w], q))
  BY <1>1, <1>3 DEF Removed
<1>11. QED
  BY <1>1, <1>2, <1>3, <1>5, <1>6, <1>7, <1>8, <1>9, <1>10, TableKeepsCalm

-----------------------------------------------------------------------------
(***************************************************************************)
(* The invariant holds at the start.                                       *)
(***************************************************************************)
LEMMA NumbersInit == FsInit => NumbersInv
<1> SUFFICES ASSUME FsInit PROVE NumbersInv
  OBVIOUS
<1>1. Inv /\ TableInv
  BY InvInit, TableInvInit DEF FsInit
<1>2. LockInv /\ HoldInv
  BY IdleHolds DEF FsInit, LockInv, Locks, Idle, HoldInv
<1>3. ToldInv
  BY InoIsNat DEF FsInit, TableInit, ToldInv, ROOT
<1>4. TreeInv
  <2>1. ASSUME NEW p \in Path, Below(p, Root) PROVE p = Root
    BY <2>1, NamesArePaths DEF Below
  <2>2. Whitelist \in Path /\ Whitelist # Root /\ Parent(Whitelist) = Root
    <3>1. Root \in Path /\ WhitelistName \in Name /\ Append(Root, WhitelistName) = Whitelist
      BY NamesArePaths, RootIsPath DEF Whitelist
    <3>2. QED
      BY <3>1, ParentOfName, WhitelistIsProtected
  <2>3. ASSUME NEW p \in Path, Below(p, Whitelist), p # Whitelist PROVE p = Root
    BY <2>1, <2>2, <2>3, ParentIsAbove
  <2>4. \A q \in Path : Exists(q) => q = Root \/ q = Whitelist
    BY DEF FsInit, Exists
  <2>5. IsDir(Root)
    BY RootIsPath, ObjectsDistinct DEF FsInit, IsDir
  <2>6. QED
    BY <2>1, <2>3, <2>4, <2>5 DEF TreeInv
<1>5. BackInv
  BY RootIsPath DEF FsInit, TableInit, BackInv
<1>6. tree[Root] = RootObj /\ Exists(Root)
  BY RootIsPath, ObjectsDistinct DEF FsInit, Exists
<1>7. LiveInv
  BY <1>6 DEF FsInit, TableInit, LiveInv
<1>8. FileInv
  <2>1. ASSUME NEW i \in Ino, Knows(i) PROVE told[i] = {RootObj} /\ paths[i] = Root
    BY <2>1 DEF FsInit, TableInit, Knows
  <2>2. QED
    BY <1>6, <2>1, ObjectsDistinct DEF FileInv
<1>9. QED
  BY <1>1, <1>2, <1>3, <1>4, <1>5, <1>7, <1>8 DEF NumbersInv, CalmInv

(***************************************************************************)
(* Every step keeps it.                                                    *)
(***************************************************************************)
LEMMA LockStep ==
  ASSUME Inv, LockInv, [FsNext]_fs_vars
  PROVE  LockInv'
<1>1. CASE req' = req
  BY <1>1, LocksKept
<1>2. ASSUME NEW w \in Worker, Reply(w) PROVE LockInv'
  BY <1>2, ReplyKeepsLocks
<1>3. ASSUME NEW w \in Worker, req[w].at # "idle", \E at, o : Advance(w, at, o) PROVE LockInv'
  BY <1>3, AdvanceKeepsLocks
<1>4. ASSUME NEW w \in Worker, Receive(w) PROVE LockInv'
  BY <1>4, ReceiveCalm
<1>5. ASSUME NEW w \in Worker, Authorized(w) \/ Refused(w) \/ Backing(w) PROVE LockInv'
  BY <1>2, <1>3, <1>5
  DEF Authorized, Refused, Backing, BackingFails, Open, Setattr, Create, MakeEntry,
      Link, Remove, Rename, Lookup
<1>6. ASSUME NEW w \in Worker, Table(w) PROVE LockInv'
  BY <1>1, <1>2, <1>6
  DEF Table, TableEntry, TableMade, TableMadeFails, TableForget, TableMove, ReplyEntry, ReaddirEntry
<1>7. QED
  BY <1>1, <1>4, <1>5, <1>6 DEF FsNext, Release, fs_vars

LEMMA ToldStep ==
  ASSUME Inv, TableInv, ToldInv, [FsNext]_fs_vars
  PROVE  ToldInv'
<1>1. next \in Nat /\ Ino \subseteq Nat
  BY InoIsNat DEF TableInv, TableTypeOK
<1>2. ASSUME UNCHANGED told, next' = next \/ next' = next + 1 PROVE ToldInv'
  <2>1. ASSUME NEW i \in Ino, i >= next' PROVE told'[i] = {}
    <3>1. i >= next
      BY <1>1, <1>2, <2>1
    <3>2. QED
      BY <1>2, <3>1 DEF ToldInv
  <2>2. QED
    BY <2>1 DEF ToldInv
<1>3. ASSUME NEW w \in Worker, NEW p \in Path, NEW o, ReplyEntry(w, p, o) PROVE ToldInv'
  <2>1. PICK i \in Ino : told' = [told EXCEPT ![i] = @ \cup {o}] /\ i < next' /\ next <= next'
    BY <1>3, EntryNumber DEF Numbered
  <2>2. next' \in Nat
    BY <1>1, <1>3 DEF ReplyEntry, InoFor, Allocate, table_vars
  <2>3. ASSUME NEW j \in Ino, j >= next' PROVE told'[j] = {}
    <3>1. j # i /\ j >= next
      BY <1>1, <2>1, <2>2, <2>3
    <3>2. QED
      BY <2>1, <3>1 DEF ToldInv, Inv, FsTypeOK
  <2>4. QED
    BY <2>3 DEF ToldInv
<1>4. ASSUME NEW w \in Worker, Receive(w) PROVE UNCHANGED <<table_vars, told>>
  <2>1. \A op, i, d, old, new : Accept(w, op, i, d, old, new) => UNCHANGED <<table_vars, told>>
    BY DEF Accept
  <2>2. QED
    BY <1>4, <2>1 DEF Receive, ReceiveReaddir, ReceivePathOp, ReceiveNameOp, ReceiveLink,
                      ReceiveRename
<1>5. ASSUME NEW w \in Worker, Authorized(w) \/ Refused(w) \/ Backing(w)
      PROVE  UNCHANGED <<table_vars, told>>
  BY <1>5 DEF Authorized, Refused, Backing, BackingFails, Open, Setattr, Create, MakeEntry,
              Link, Remove, Rename, Lookup
<1>6. ASSUME NEW w \in Worker, Table(w) PROVE ToldInv'
  <2>1. CASE TableEntry(w) \/ TableMade(w)
    <3>1. req[w].old \in Path /\ req[w].new \in Path
      BY <2>1, Serving DEF TableEntry, TableMade
    <3>2. QED
      BY <1>3, <2>1, <3>1 DEF TableEntry, TableMade
  <2>2. CASE ~(TableEntry(w) \/ TableMade(w))
    BY <1>2, <1>6, <2>2
    DEF Table, TableMadeFails, TableForget, ForgetPath, TableMove, TableRename, ReaddirEntry,
        Allocate, table_vars
  <2>3. QED
    BY <2>1, <2>2
<1>7. QED
  BY <1>2, <1>4, <1>5, <1>6 DEF FsNext, Release, fs_vars, table_vars

LEMMA CalmStep ==
  ASSUME Inv, TableInv, TableInv', LockInv, ToldInv, CalmInv, [FsNext]_fs_vars, ~displaced'
  PROVE  CalmInv'
<1>1. CASE UNCHANGED <<table_vars, tree, told, req>>
  BY <1>1 DEF table_vars, CalmInv, TreeInv, BackInv, LiveInv, FileInv, HoldInv, HoldOK, NamesOK,
              DoneOK, HoldsName, Removed, KnowsDir, Knows, Exists, IsDir, IsLink
<1>2. ASSUME NEW w \in Worker, Backing(w) PROVE CalmInv'
  BY <1>2, QuietCalm, MakeCalm, LinkCalm, RemoveCalm, RenameCalm DEF Backing
<1>3. ASSUME NEW w \in Worker, Table(w) PROVE CalmInv'
  BY <1>3, QuietCalm, EntryCalm, ForgetCalm, MoveCalm, ReaddirCalm DEF Table
<1>4. QED
  BY <1>1, <1>2, <1>3, ReceiveCalm, QuietCalm DEF FsNext, Release, fs_vars

LEMMA NumbersStep ==
  ASSUME NumbersInv, [FsNext]_fs_vars
  PROVE  NumbersInv'
<1> USE DEF NumbersInv
<1>1. Inv' /\ TableInv'
  BY InvStep, StepIsTableStep, TableInvStep
<1>2. ~displaced' => ~displaced
  <2>1. ASSUME NEW w \in Worker, Receive(w) PROVE UNCHANGED displaced
    <3>1. \A op, i, d, old, new : Accept(w, op, i, d, old, new) => UNCHANGED displaced
      BY DEF Accept
    <3>2. QED
      BY <2>1, <3>1 DEF Receive, ReceiveReaddir, ReceivePathOp, ReceiveNameOp, ReceiveLink,
                        ReceiveRename
  <2>2. ASSUME NEW w \in Worker, Authorized(w) \/ Refused(w) \/ Backing(w)
        PROVE  displaced => displaced'
    BY <2>2 DEF Authorized, Refused, Backing, BackingFails, Open, Setattr, Create, MakeEntry,
                Link, Remove, Rename, Lookup
  <2>3. ASSUME NEW w \in Worker, Table(w) PROVE UNCHANGED displaced
    BY <2>3 DEF Table, TableEntry, TableMade, TableMadeFails, TableForget, TableMove, ReplyEntry,
                ReaddirEntry
  <2>4. QED
    BY <2>1, <2>2, <2>3 DEF FsNext, Release, fs_vars
<1>3. QED
  BY <1>1, <1>2, LockStep, ToldStep, CalmStep

(***************************************************************************)
(* A number is one file to the kernel, and the path the table has for it   *)
(* leads to that file or to nothing, whatever the workers do at once.      *)
(***************************************************************************)
THEOREM NumbersAreFiles == FsSpec => []NumbersNameTheirFile
<1>1. NumbersInv => NumbersNameTheirFile
  <2>1. \A i \in Ino : (\E o \in Obj : told[i] = {o}) => Cardinality(told[i]) = 1
    BY FS_Singleton
  <2>2. QED
    BY <2>1 DEF NumbersInv, CalmInv, FileInv, NumbersNameTheirFile
<1>2. QED
  BY <1>1, NumbersInit, NumbersStep, PTL DEF FsSpec

=============================================================================
