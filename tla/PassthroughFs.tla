---------------------------- MODULE PassthroughFs ----------------------------
(***************************************************************************)
(* PassthroughFs (attache-gate/src/passthrough_fs.rs): the FUSE requests   *)
(* served by several worker threads at once.  A request is answered in     *)
(* steps: the inode number is turned into a path (path_of), the access is  *)
(* authorized, which may take as long as a dialog, the backing directory   *)
(* is operated on through that path, and the inode table is updated.       *)
(* Other workers run between any two of these steps.                       *)
(*                                                                         *)
(* The kernel is external: it knows a file by the number an entry reply    *)
(* gave it, and holds the lock of the parent directory while a request     *)
(* that looks up or changes a name is being served.                        *)
(***************************************************************************)
EXTENDS Sequences, FiniteSets, InodeTable

CONSTANTS Worker,     \* the FUSE dispatch threads
          Name,       \* file names
          WhitelistName,  \* WHITELIST_FILENAME
          Obj,        \* files and directories of the backing directory
          Dir,        \* those that are directories
          Symlink,    \* those that are symbolic links
          RootObj, WhitelistObj, NoObj,
          MaxFh       \* bound: file handles ever allocated

ASSUME NamesArePaths == /\ Path \subseteq Seq(Name) /\ Root = << >>
                        /\ WhitelistName \in Name /\ <<WhitelistName>> \in Path
ASSUME ObjectsDistinct == /\ Dir \subseteq Obj /\ Symlink \subseteq Obj \ Dir
                          /\ RootObj \in Dir /\ NoObj \notin Obj
                          /\ WhitelistObj \in Obj \ (Dir \cup Symlink)
ASSUME MaxFhIsNat == MaxFh \in Nat

VARIABLES
  tree,       \* the backing directory: Path -> Obj, or NoObj
  made,       \* objects that exist or have existed
  handles,    \* the open handles: records of the number and the object
  nextFh,     \* the next handle number
  req,        \* the request each worker serves
  told,       \* (kernel) the objects each inode number was given for
  displaced,  \* history: a rename replaced a name or moved a directory
  altered     \* history: the whitelist file was truncated or got other attributes

fs_vars == <<table_vars, tree, made, handles, nextFh, req, told, displaced, altered>>

Parent(p) == SubSeq(p, 1, Len(p) - 1)
ASSUME PathsClosed == \A p \in Path \ {<< >>} : Parent(p) \in Path

Below(p, q) == Len(p) <= Len(q) /\ SubSeq(q, 1, Len(p)) = p  \* q is p or inside p
Moved(p, old, new) == new \o SubSeq(p, Len(old) + 1, Len(p))

File == Obj \ (Dir \cup Symlink)

Exists(p) == tree[p] # NoObj
IsDir(p)  == tree[p] \in Dir
IsFile(p) == tree[p] \in File
IsLink(p) == tree[p] \in Symlink
Empty(p)  == \A q \in Path : Below(p, q) /\ q # p => ~Exists(q)

(***************************************************************************)
(* Where a system call that follows links may end.  Who makes a link       *)
(* chooses its text, so behind a link, or behind a directory that was      *)
(* replaced by one, lies any path.                                         *)
(***************************************************************************)
Follow(p) == IF \E q \in Path : Below(q, p) /\ IsLink(q) THEN Path ELSE {p}

Whitelist == <<WhitelistName>>  \* the whitelist file of the vault

is_protected(p) == p # Root /\ p[Len(p)] = WhitelistName

PathOps == {"open", "setattr"}  \* act on a number
NameOps == {"create", "mkdir", "symlink", "unlink", "rmdir"}
Idle    == [op |-> "idle", at |-> "idle", ino |-> NoIno, dir |-> NoIno,
            old |-> NoPath, new |-> NoPath, obj |-> NoObj]

Request == [op : PathOps \cup NameOps \cup {"link", "rename", "lookup", "readdir"},
            at : {"authorize", "backing", "table"}, ino : Ino, dir : Ino,
            old : Path, new : Path, obj : Obj \cup {NoObj}]

FsTypeOK ==
  /\ TableTypeOK
  /\ tree \in [Path -> Obj \cup {NoObj}]
  /\ made \in SUBSET Obj
  /\ handles \in SUBSET [fh : 1..MaxFh, obj : Obj]
  /\ nextFh \in 1..(MaxFh + 1)
  /\ req \in [Worker -> Request \cup {Idle}]
  /\ told \in [Ino -> SUBSET Obj]
  /\ displaced \in BOOLEAN /\ altered \in BOOLEAN

FsInit ==
  /\ TableInit
  /\ tree = [p \in Path |-> IF p = Root THEN RootObj
                            ELSE IF p = Whitelist THEN WhitelistObj ELSE NoObj]
  /\ made \in {{RootObj, WhitelistObj} \cup gone : gone \in SUBSET (Obj \ {RootObj, WhitelistObj})}
  /\ handles = {} /\ nextFh = 1
  /\ req = [w \in Worker |-> Idle]
  /\ told = [i \in Ino |-> IF i = ROOT THEN {RootObj} ELSE {}]
  /\ displaced = FALSE /\ altered = FALSE

-----------------------------------------------------------------------------
(***************************************************************************)
(* What the kernel may send: a request for a number it was given, with the *)
(* lock of every directory whose names the request reads or changes.       *)
(***************************************************************************)
Knows(i)     == told[i] # {}
KnowsDir(i)  == told[i] \cap Dir # {}
KnowsFile(i) == told[i] \cap File # {}

Shared == {"lookup", "readdir"}
Locks(w) == IF req[w].op \in PathOps \cup {"idle"} THEN {} ELSE {req[w].ino, req[w].dir}

CanLock(op, dirs) ==
  \A w \in Worker : Locks(w) \cap dirs # {} => op \in Shared /\ req[w].op \in Shared

(***************************************************************************)
(* The first step of every handler: the paths are computed once, and the   *)
(* whitelist file is refused.  A number without a path is answered ENOENT, *)
(* a protected path EACCES or ENOENT; neither changes anything.            *)
(***************************************************************************)
AcceptUnlessOld(w, op, i, d, old, new) ==  \* MUTANT: the new name is not looked at
  /\ old \in Path /\ new \in Path
  /\ ~is_protected(old)
  /\ req' = [req EXCEPT ![w] =
               [op |-> op, at |-> IF op \in Shared THEN "backing" ELSE "authorize",
                ino |-> i, dir |-> d, old |-> old, new |-> new, obj |-> NoObj]]
  /\ UNCHANGED <<table_vars, tree, made, handles, nextFh, told, displaced, altered>>

Accept(w, op, i, d, old, new) ==
  /\ old \in Path /\ new \in Path
  /\ ~is_protected(old) /\ ~is_protected(new)
  /\ req' = [req EXCEPT ![w] =
               [op |-> op, at |-> IF op \in Shared THEN "backing" ELSE "authorize",
                ino |-> i, dir |-> d, old |-> old, new |-> new, obj |-> NoObj]]
  /\ UNCHANGED <<table_vars, tree, made, handles, nextFh, told, displaced, altered>>

ReceivePathOp(w, op, i) ==  \* open, setattr
  /\ Knows(i) /\ (op = "open" => KnowsFile(i)) /\ paths[i] # NoPath
  /\ Accept(w, op, i, i, paths[i], paths[i])

ReceiveReaddir(w, i) ==
  /\ KnowsDir(i) /\ paths[i] # NoPath
  /\ CanLock("readdir", {i})
  /\ Accept(w, "readdir", i, i, paths[i], paths[i])

(***************************************************************************)
(* lookup, create, mkdir, symlink, unlink, rmdir.  Of a directory that is  *)
(* removed the kernel holds the lock as well: nothing is at work in it.    *)
(* Before a create it has looked the name up under the lock: a link that   *)
(* it found there it follows itself.                                       *)
(***************************************************************************)
ReceiveNameOp(w, op, i, n) ==
  /\ KnowsDir(i) /\ paths[i] # NoPath
  /\ LET p == Append(paths[i], n)
         d == IF op = "rmdir" /\ p \in Path /\ byPath[p] # NoIno THEN byPath[p] ELSE i
     IN CanLock(op, {i, d}) /\ Accept(w, op, i, d, p, p) /\ (op = "create" => ~IsLink(p))

ReceiveLink(w, i, d, n) ==
  /\ Knows(i) /\ ~KnowsDir(i) /\ KnowsDir(d)
  /\ paths[i] # NoPath /\ paths[d] # NoPath
  /\ CanLock("link", {d})
  /\ Accept(w, "link", d, d, paths[i], Append(paths[d], n))

ReceiveRename(w, i, n, d, m) ==
  /\ KnowsDir(i) /\ KnowsDir(d) /\ paths[i] # NoPath /\ paths[d] # NoPath
  /\ CanLock("rename", {i, d})
  /\ LET old == Append(paths[i], n)
         new == Append(paths[d], m)
     IN old # new /\ ~Below(old, new) /\ Accept(w, "rename", i, d, old, new)

-----------------------------------------------------------------------------
Reply(w) == req' = [req EXCEPT ![w] = Idle]

Advance(w, at, o) == req' = [req EXCEPT ![w].at = at, ![w].obj = o]

(***************************************************************************)
(* authorize(): however long it takes, the paths are not computed again.   *)
(***************************************************************************)
Authorized(w) ==
  /\ req[w].at = "authorize"
  /\ Advance(w, "backing", NoObj)
  /\ UNCHANGED <<table_vars, tree, made, handles, nextFh, told, displaced, altered>>

Refused(w) ==
  /\ req[w].at = "authorize"
  /\ Reply(w)
  /\ UNCHANGED <<table_vars, tree, made, handles, nextFh, told, displaced, altered>>

(***************************************************************************)
(* The system call on the backing directory.  It fails when the paths no   *)
(* longer allow it (and may fail at any time, for lack of space or by an   *)
(* I/O error): the error is the reply and the table is left alone.         *)
(***************************************************************************)
BackingFails(w) ==
  /\ req[w].at = "backing"
  /\ Reply(w)
  /\ UNCHANGED <<table_vars, tree, made, handles, nextFh, told, displaced, altered>>

OpenHandle(obj) ==
  /\ nextFh <= MaxFh
  /\ handles' = handles \cup {[fh |-> nextFh, obj |-> obj]}
  /\ nextFh' = nextFh + 1

(***************************************************************************)
(* open and setattr work through the path that was computed before the     *)
(* dialog, and follow a link that is there by now; setattr comes for a     *)
(* link as well, as by chown -h.  Of what it changes (size, mode, owner,   *)
(* times) only that it changes the whitelist file is kept.                 *)
(***************************************************************************)
Open(w) ==
  /\ req[w].at = "backing" /\ req[w].op = "open"
  /\ \E p \in Follow(req[w].old) : IsFile(p) /\ OpenHandle(tree[p])
  /\ Reply(w)
  /\ UNCHANGED <<table_vars, tree, made, told, displaced, altered>>

Setattr(w) ==
  /\ req[w].at = "backing" /\ req[w].op = "setattr"
  /\ \E p \in Follow(req[w].old) :
       Exists(p) /\ altered' = (altered \/ tree[p] = WhitelistObj)
  /\ Reply(w)
  /\ UNCHANGED <<table_vars, tree, made, handles, nextFh, told, displaced>>

(***************************************************************************)
(* A new object appears at p, in a directory that exists.                  *)
(***************************************************************************)
Make(p, o) ==
  /\ ~Exists(p) /\ Exists(Parent(p)) /\ IsDir(Parent(p))
  /\ o \in Obj \ made
  /\ tree' = [tree EXCEPT ![p] = o]
  /\ made' = made \cup {o}

(***************************************************************************)
(* create(true).truncate(true): a file that is there already is opened and *)
(* emptied, also behind a link.  When the opened file cannot be examined   *)
(* the reply is an error although the file was made.                       *)
(***************************************************************************)
Create(w, o) ==
  /\ req[w].at = "backing" /\ req[w].op = "create"
  /\ o \in File
  /\ \E p \in Follow(req[w].old) :
       Make(p, o) \/ (o = tree[p] /\ UNCHANGED <<tree, made>>)
  /\ altered' = (altered \/ o = WhitelistObj)
  /\ Advance(w, "table", o) \/ Reply(w)
  /\ UNCHANGED <<table_vars, handles, nextFh, told, displaced>>

MakeEntry(w, o) ==  \* mkdir, symlink
  /\ req[w].at = "backing"
  /\ \/ req[w].op = "mkdir" /\ o \in Dir
     \/ req[w].op = "symlink" /\ o \in Symlink
  /\ Make(req[w].old, o)
  /\ Advance(w, "table", NoObj)
  /\ UNCHANGED <<table_vars, handles, nextFh, told, displaced, altered>>

Link(w) ==
  /\ req[w].at = "backing" /\ req[w].op = "link"
  /\ Exists(req[w].old) /\ ~IsDir(req[w].old)
  /\ ~Exists(req[w].new) /\ IsDir(Parent(req[w].new))
  /\ tree' = [tree EXCEPT ![req[w].new] = tree[req[w].old]]
  /\ Advance(w, "table", NoObj)
  /\ UNCHANGED <<table_vars, made, handles, nextFh, told, displaced, altered>>

Remove(w) ==  \* unlink, rmdir
  /\ req[w].at = "backing"
  /\ Exists(req[w].old)
  /\ \/ req[w].op = "unlink" /\ ~IsDir(req[w].old)
     \/ req[w].op = "rmdir" /\ IsDir(req[w].old) /\ Empty(req[w].old)
  /\ tree' = [tree EXCEPT ![req[w].old] = NoObj]
  /\ Advance(w, "table", NoObj)
  /\ UNCHANGED <<table_vars, made, handles, nextFh, told, displaced, altered>>

(***************************************************************************)
(* fs::rename: everything below old moves along; a file at new, or an      *)
(* empty directory, is replaced.  Two names of one file are both kept.     *)
(***************************************************************************)
Rename(w) ==
  LET old == req[w].old
      new == req[w].new
  IN /\ req[w].at = "backing" /\ req[w].op = "rename"
     /\ Exists(old) /\ IsDir(Parent(new))
     /\ Exists(new) => (IsDir(old) <=> IsDir(new)) /\ Empty(new)
     /\ \A p \in Path : Below(old, p) /\ Exists(p) => Moved(p, old, new) \in Path
     /\ tree' = IF tree[old] = tree[new] THEN tree
                ELSE [p \in Path |->
                        IF Below(new, p) /\ Moved(p, new, old) \in Path
                        THEN tree[Moved(p, new, old)]
                        ELSE IF Below(old, p) THEN NoObj ELSE tree[p]]
     /\ displaced' = (displaced \/ Exists(new) \/ IsDir(old))
     /\ Advance(w, "table", NoObj)
     /\ UNCHANGED <<table_vars, made, handles, nextFh, told, altered>>

LookupUnexamined(w) ==  \* MUTANT: whether the entry exists is not asked
  /\ req[w].at = "backing" /\ req[w].op = "lookup"
  /\ Advance(w, "table", tree[req[w].old])
  /\ UNCHANGED <<table_vars, tree, made, handles, nextFh, told, displaced, altered>>

Lookup(w) ==  \* symlink_metadata finds the entry
  /\ req[w].at = "backing" /\ req[w].op = "lookup"
  /\ Exists(req[w].old)
  /\ Advance(w, "table", tree[req[w].old])
  /\ UNCHANGED <<table_vars, tree, made, handles, nextFh, told, displaced, altered>>

-----------------------------------------------------------------------------
(***************************************************************************)
(* The table is updated and the reply sent.  An entry reply tells the      *)
(* kernel that the number is the file that was just found or made.         *)
(***************************************************************************)
ReplyEntry(w, p, o) ==
  /\ InoFor(p)
  /\ told' = [told EXCEPT ![byPath'[p]] = @ \cup {o}]
  /\ Reply(w)
  /\ UNCHANGED <<tree, made, displaced, altered>>

TableEntry(w) ==  \* lookup; create also opens a handle
  /\ req[w].at = "table"
  /\ \/ req[w].op = "lookup" /\ UNCHANGED <<handles, nextFh>>
     \/ req[w].op = "create" /\ OpenHandle(req[w].obj)
  /\ ReplyEntry(w, req[w].old, req[w].obj)

TableMade(w) ==  \* mkdir, symlink, link examine what is at the path by now
  /\ req[w].at = "table"
  /\ req[w].op \in {"mkdir", "symlink", "link"}
  /\ Exists(req[w].new)
  /\ ReplyEntry(w, req[w].new, tree[req[w].new])
  /\ UNCHANGED <<handles, nextFh>>

TableMadeFails(w) ==
  /\ req[w].at = "table"
  /\ req[w].op \in {"mkdir", "symlink", "link"}
  /\ Reply(w)
  /\ UNCHANGED <<table_vars, tree, made, handles, nextFh, told, displaced, altered>>

TableForgetNothing(w) ==  \* MUTANT: the removed path keeps its number
  /\ req[w].at = "table" /\ req[w].op \in {"unlink", "rmdir"}
  /\ Reply(w)
  /\ UNCHANGED <<table_vars, tree, made, handles, nextFh, told, displaced, altered>>

TableForgetFiles(w) ==  \* MUTANT: a directory that is removed keeps its number
  /\ req[w].at = "table" /\ req[w].op \in {"unlink", "rmdir"}
  /\ IF req[w].op = "unlink" THEN ForgetPath(req[w].old) ELSE UNCHANGED table_vars
  /\ Reply(w)
  /\ UNCHANGED <<tree, made, handles, nextFh, told, displaced, altered>>

TableForget(w) ==  \* unlink, rmdir
  /\ req[w].at = "table" /\ req[w].op \in {"unlink", "rmdir"}
  /\ ForgetPath(req[w].old)
  /\ Reply(w)
  /\ UNCHANGED <<tree, made, handles, nextFh, told, displaced, altered>>

TableMove(w) ==
  /\ req[w].at = "table" /\ req[w].op = "rename"
  /\ TableRename(req[w].old, req[w].new)
  /\ Reply(w)
  /\ UNCHANGED <<tree, made, handles, nextFh, told, displaced, altered>>

(***************************************************************************)
(* readdir numbers the entries one at a time, in any order, skipping the   *)
(* whitelist file.  Its reply gives the kernel no references.              *)
(***************************************************************************)
ReaddirEntryAnew(w, p) ==  \* MUTANT: every listing numbers its entries anew
  /\ req[w].at = "backing" /\ req[w].op = "readdir"
  /\ p # Root /\ Parent(p) = req[w].old /\ Exists(p) /\ ~is_protected(p)
  /\ Allocate(p)
  /\ UNCHANGED <<tree, made, handles, nextFh, req, told, displaced, altered>>

ReaddirEntry(w, p) ==
  /\ req[w].at = "backing" /\ req[w].op = "readdir"
  /\ p # Root /\ Parent(p) = req[w].old /\ Exists(p) /\ ~is_protected(p)
  /\ Allocate(p) /\ byPath[p] = NoIno
  /\ UNCHANGED <<tree, made, handles, nextFh, req, told, displaced, altered>>

Release(h) ==
  /\ h \in handles
  /\ handles' = handles \ {h}
  /\ UNCHANGED <<table_vars, tree, made, nextFh, req, told, displaced, altered>>

-----------------------------------------------------------------------------
Receive(w) ==
  /\ req[w] = Idle
  /\ \/ \E i \in Ino : ReceiveReaddir(w, i) \/ \E op \in PathOps : ReceivePathOp(w, op, i)
     \/ \E i \in Ino, n \in Name : \E op \in NameOps \cup {"lookup"} : ReceiveNameOp(w, op, i, n)
     \/ \E i, d \in Ino, n \in Name : ReceiveLink(w, i, d, n)
     \/ \E i, d \in Ino, n, m \in Name : ReceiveRename(w, i, n, d, m)

Backing(w) ==
  \/ BackingFails(w) \/ Open(w) \/ Setattr(w)
  \/ \E o \in Obj : Create(w, o) \/ MakeEntry(w, o)
  \/ Link(w) \/ Remove(w) \/ Rename(w) \/ Lookup(w)

Table(w) == \/ TableEntry(w) \/ TableMade(w) \/ TableMadeFails(w)
            \/ TableForget(w) \/ TableMove(w)
            \/ \E p \in Path : ReaddirEntry(w, p)

FsNext == \/ \E w \in Worker : Receive(w) \/ Authorized(w) \/ Refused(w) \/ Backing(w) \/ Table(w)
          \/ \E h \in handles : Release(h)

FsSpec == FsInit /\ [][FsNext]_fs_vars

-----------------------------------------------------------------------------
(***************************************************************************)
(* As long as no rename has replaced a name or moved a directory, an inode *)
(* number is one file to the kernel, and the path the table has for it     *)
(* leads to that file or to nothing, through any interleaving of lookups,  *)
(* creations, links, removals and plain renames.                           *)
(***************************************************************************)
NumbersNameTheirFile ==
  ~displaced =>
    \A i \in Ino : Knows(i) =>
      /\ Cardinality(told[i]) = 1
      /\ paths[i] # NoPath /\ Exists(paths[i]) => told[i] = {tree[paths[i]]}

(***************************************************************************)
(* No request takes the name of the whitelist file through the mount: the  *)
(* file is never moved, removed, replaced, given a second name or a        *)
(* number, whatever other names are moved around it (is_protected,         *)
(* passthrough_fs.rs:26-33).  A link may still lead to it, see below.      *)
(***************************************************************************)
WhitelistUntouched ==
  /\ \A p \in Path : tree[p] = WhitelistObj <=> p = Whitelist
  /\ \A i \in Ino : paths[i] # Whitelist

(***************************************************************************)
(* README.md:242-244: the file system "refuses all access to the whitelist *)
(* file through the mount": it is neither opened nor changed, by its name  *)
(* or through a link.  TLC refutes it.                                     *)
(***************************************************************************)
WhitelistOutOfReach == ~altered /\ \A h \in handles : h.obj # WhitelistObj
=============================================================================
