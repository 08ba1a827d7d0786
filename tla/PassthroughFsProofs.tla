------------------------- MODULE PassthroughFsProofs -------------------------
(***************************************************************************)
(* Proofs about PassthroughFs, for any workers, paths and objects.  What   *)
(* is proved of the inode table alone (InodeTableProofs) holds of the      *)
(* table in the file system, because FsSpec implements TableSpec.          *)
(***************************************************************************)
EXTENDS PassthroughFs, InodeTableProofs

(***************************************************************************)
(* The inductive invariant, in parts.  A request at work has passed        *)
(* Accept: it names nothing protected, and the root only where it acts on  *)
(* a number.  What it found or made is a file or a directory.              *)
(***************************************************************************)
RequestOK(r) ==
  r.op # "idle" =>
    /\ ~is_protected(r.old) /\ ~is_protected(r.new)
    /\ r.op \notin PathOps \cup {"readdir"} => r.new # Root
    /\ r.op \notin PathOps \cup {"readdir", "link"} => r.old # Root
    /\ r.at = "table" /\ r.op \in {"lookup", "create"} => r.obj \in Obj

RequestInv == \A w \in Worker : RequestOK(req[w])

Inv == FsTypeOK /\ RequestInv /\ WhitelistObj \in made /\ WhitelistUntouched

(***************************************************************************)
(* Paths.  Only the whitelist file and what has its name are protected:    *)
(* a path that is neither the root nor protected is not the whitelist's,   *)
(* is not above it, and what is moved below such a path is not either.     *)
(***************************************************************************)
LEMMA WhitelistIsProtected ==
  /\ Whitelist \in Path /\ is_protected(Whitelist) /\ Whitelist # Root
  BY NamesArePaths DEF is_protected, Whitelist

LEMMA NotBelow ==
  ASSUME NEW p \in Path, p # Root, ~is_protected(p)
  PROVE  ~Below(p, Whitelist)
<1> USE NamesArePaths
<1>1. Len(p) # 0
  BY p \in Seq(Name)
<1>2. SUFFICES ASSUME Len(p) = 1
               PROVE  SubSeq(Whitelist, 1, 1) # p
  BY <1>1 DEF Below, Whitelist
<1>3. p[1] # WhitelistName
  BY <1>2 DEF is_protected
<1>4. QED
  BY <1>2, <1>3 DEF Whitelist

LEMMA NotMovedThere ==
  ASSUME NEW p \in Path, NEW old \in Path, NEW new \in Path,
         old # Root, ~is_protected(old), Below(new, p)
  PROVE  Moved(p, new, old) # Whitelist
<1> USE NamesArePaths
<1>1. Len(old) # 0 /\ Len(old) \in Nat /\ old \in Seq(Name) /\ p \in Seq(Name) /\ new \in Seq(Name)
  OBVIOUS
<1> DEFINE rest == SubSeq(p, Len(new) + 1, Len(p))
<1>2. rest \in Seq(Name) /\ Len(rest) \in Nat
  BY <1>1 DEF Below
<1> HIDE DEF rest
<1>3. SUFFICES ASSUME old \o rest = Whitelist
               PROVE  FALSE
  BY DEF Moved, rest
<1>4. Len(old \o rest) = Len(old) + Len(rest) /\ (old \o rest)[1] = old[1]
  BY <1>1, <1>2
<1>5. Len(old \o rest) = 1 /\ (old \o rest)[1] = WhitelistName
  BY <1>3 DEF Whitelist
<1>6. Len(old) = 1 /\ old[1] = WhitelistName
  BY <1>1, <1>2, <1>4, <1>5
<1>7. QED
  BY <1>6 DEF is_protected

(***************************************************************************)
(* A step that only changes what one worker is serving.                    *)
(***************************************************************************)
LEMMA RequestStep ==
  ASSUME Inv, NEW w \in Worker, NEW r \in Request \cup {Idle}, RequestOK(r),
         req' = [req EXCEPT ![w] = r],
         UNCHANGED <<table_vars, tree, made, handles, nextFh, told, displaced, altered>>
  PROVE  Inv'
<1>1. FsTypeOK'
  BY DEF Inv, FsTypeOK, TableTypeOK, table_vars
<1>2. RequestInv'
  BY DEF Inv, FsTypeOK, RequestInv, RequestOK
<1>3. QED
  BY <1>1, <1>2 DEF Inv, WhitelistUntouched, table_vars

LEMMA IdleIsOK == Idle \in Request \cup {Idle} /\ RequestOK(Idle)
  BY DEF RequestOK, Idle

(***************************************************************************)
(* A worker that is past its first step serves a request.                  *)
(***************************************************************************)
LEMMA Serving ==
  ASSUME Inv, NEW w \in Worker, req[w].at # "idle"
  PROVE  /\ req[w] \in Request /\ req[w].op # "idle"
         /\ req[w].old \in Path /\ req[w].new \in Path
         /\ RequestOK(req[w])
<1>1. req[w] \in Request
  BY DEF Inv, FsTypeOK, Idle
<1>2. QED
  BY <1>1 DEF Inv, RequestInv, Request, PathOps, NameOps

(***************************************************************************)
(* Accept, for the paths the receiving actions give it.                    *)
(***************************************************************************)
LEMMA AcceptStep ==
  ASSUME Inv, NEW w \in Worker, NEW i \in Ino, NEW d \in Ino, NEW old, NEW new,
         NEW op \in PathOps \cup NameOps \cup {"link", "rename", "lookup", "readdir"},
         op \notin PathOps \cup {"readdir"} => new # Root,
         op \notin PathOps \cup {"readdir", "link"} => old # Root,
         Accept(w, op, i, d, old, new)
  PROVE  Inv'
<1> DEFINE r == [op |-> op, at |-> IF op \in Shared THEN "backing" ELSE "authorize",
                 ino |-> i, dir |-> d, old |-> old, new |-> new, obj |-> NoObj]
<1>1. r \in Request
  BY DEF Accept, Request
<1>2. RequestOK(r)
  BY DEF Accept, RequestOK
<1>3. QED
  BY <1>1, <1>2, RequestStep DEF Accept

LEMMA ReceiveStep ==
  ASSUME Inv, NEW w \in Worker, Receive(w)
  PROVE  Inv'
<1>1. ASSUME NEW i \in Ino, paths[i] # NoPath, NEW n \in Name
      PROVE  Append(paths[i], n) # Root
  <2>1. paths[i] \in Seq(Name)
    BY <1>1, NamesArePaths DEF Inv, FsTypeOK, TableTypeOK
  <2>2. Len(Append(paths[i], n)) = Len(paths[i]) + 1 /\ Len(paths[i]) \in Nat
    BY <2>1
  <2>3. Len(Root) = 0
    BY NamesArePaths
  <2>4. QED
    BY <2>2, <2>3
<1>2. ASSUME NEW i \in Ino, ReceiveReaddir(w, i) PROVE Inv'
  BY <1>2, AcceptStep DEF ReceiveReaddir
<1>3. ASSUME NEW i \in Ino, NEW op \in PathOps, ReceivePathOp(w, op, i) PROVE Inv'
  BY <1>3, AcceptStep DEF ReceivePathOp
<1>4. ASSUME NEW i \in Ino, NEW n \in Name, NEW op \in NameOps \cup {"lookup"},
             ReceiveNameOp(w, op, i, n)
      PROVE  Inv'
  <2> DEFINE p == Append(paths[i], n)
             d == IF op = "rmdir" /\ p \in Path /\ byPath[p] # NoIno THEN byPath[p] ELSE i
  <2>1. op \in PathOps \cup NameOps \cup {"link", "rename", "lookup", "readdir"}
    OBVIOUS
  <2>2. d \in Ino
    BY DEF Inv, FsTypeOK, TableTypeOK
  <2>3. p # Root /\ Accept(w, op, i, d, p, p)
    BY <1>1, <1>4 DEF ReceiveNameOp
  <2> HIDE DEF p, d
  <2>4. QED
    BY <2>1, <2>2, <2>3, AcceptStep
<1>5. ASSUME NEW i \in Ino, NEW d \in Ino, NEW n \in Name, ReceiveLink(w, i, d, n) PROVE Inv'
  BY <1>1, <1>5, AcceptStep DEF ReceiveLink
<1>6. ASSUME NEW i \in Ino, NEW d \in Ino, NEW n \in Name, NEW m \in Name,
             ReceiveRename(w, i, n, d, m)
      PROVE  Inv'
  BY <1>1, <1>6, AcceptStep DEF ReceiveRename
<1>7. QED
  BY <1>2, <1>3, <1>4, <1>5, <1>6 DEF Receive

(***************************************************************************)
(* The steps after the first that leave everything but the request alone.  *)
(***************************************************************************)
LEMMA AdvanceIsOK ==
  ASSUME Inv, NEW w \in Worker, req[w].at # "idle", NEW at \in {"backing", "table"},
         NEW o \in Obj \cup {NoObj}, Advance(w, at, o),
         at = "table" /\ req[w].op \in {"lookup", "create"} => o \in Obj
  PROVE  \E r \in Request \cup {Idle} : RequestOK(r) /\ req' = [req EXCEPT ![w] = r]
<1> DEFINE r == [req[w] EXCEPT !.at = at, !.obj = o]
<1>1. req[w] \in Request /\ RequestOK(req[w])
  BY Serving
<1>2. r \in Request
  BY <1>1 DEF Request
<1>3. RequestOK(r)
  BY <1>1 DEF RequestOK, Request
<1>4. req' = [req EXCEPT ![w] = r]
  BY DEF Advance, Inv, FsTypeOK
<1>5. QED
  BY <1>2, <1>3, <1>4

LEMMA ReplyIsOK ==
  ASSUME NEW w \in Worker, Reply(w)
  PROVE  \E r \in Request \cup {Idle} : RequestOK(r) /\ req' = [req EXCEPT ![w] = r]
  BY IdleIsOK DEF Reply

(***************************************************************************)
(* The file at a path that is not protected is not the whitelist file.     *)
(***************************************************************************)
LEMMA OtherObject ==
  ASSUME Inv, NEW p \in Path, ~is_protected(p)
  PROVE  p # Whitelist /\ tree[p] # WhitelistObj /\ tree[p] \in Obj \cup {NoObj}
  BY WhitelistIsProtected DEF Inv, FsTypeOK, WhitelistUntouched

(***************************************************************************)
(* The steps that change the backing directory.                            *)
(***************************************************************************)
LEMMA TreeStep ==
  ASSUME Inv, NEW w \in Worker, NEW r \in Request \cup {Idle}, RequestOK(r),
         req' = [req EXCEPT ![w] = r],
         tree' \in [Path -> Obj \cup {NoObj}], made' \in SUBSET Obj, made \subseteq made',
         displaced' \in BOOLEAN, altered' \in BOOLEAN,
         \A p \in Path : tree'[p] = WhitelistObj <=> p = Whitelist,
         UNCHANGED <<table_vars, handles, nextFh, told>>
  PROVE  Inv'
<1>1. FsTypeOK'
  BY DEF Inv, FsTypeOK, TableTypeOK, table_vars
<1>2. RequestInv'
  BY DEF Inv, FsTypeOK, RequestInv, RequestOK
<1>3. QED
  BY <1>1, <1>2 DEF Inv, WhitelistUntouched, table_vars

LEMMA FollowedIsPath ==
  ASSUME NEW p \in Path
  PROVE  Follow(p) \subseteq Path
  BY DEF Follow

LEMMA OpenStep ==
  ASSUME Inv, NEW w \in Worker, Open(w)
  PROVE  Inv'
<1>1. req[w].old \in Path
  BY Serving DEF Open
<1>2. PICK o \in Obj : OpenHandle(o)
  BY <1>1, FollowedIsPath DEF Open, IsFile, File
<1>3. FsTypeOK'
  BY <1>2, MaxFhIsNat DEF Open, OpenHandle, Reply, Inv, FsTypeOK, TableTypeOK, table_vars
<1>4. RequestInv'
  BY IdleIsOK DEF Open, Reply, Inv, FsTypeOK, RequestInv, RequestOK
<1>5. QED
  BY <1>3, <1>4 DEF Inv, WhitelistUntouched, Open, table_vars

LEMMA SetattrStep ==
  ASSUME Inv, NEW w \in Worker, Setattr(w)
  PROVE  Inv'
<1>1. altered' \in BOOLEAN
  BY DEF Setattr, Inv, FsTypeOK
<1>2. UNCHANGED <<table_vars, tree, made, handles, nextFh, told, displaced>>
  BY DEF Setattr
<1>3. \E r \in Request \cup {Idle} : RequestOK(r) /\ req' = [req EXCEPT ![w] = r]
  BY ReplyIsOK DEF Setattr
<1>4. QED
  BY <1>1, <1>2, <1>3, TreeStep DEF Inv, FsTypeOK, WhitelistUntouched

(***************************************************************************)
(* What is made is new, and where it is made was nothing: neither is the   *)
(* whitelist's, wherever the path has led.                                 *)
(***************************************************************************)
LEMMA MakeKeepsWhitelist ==
  ASSUME Inv, NEW p \in Path, NEW o \in Obj, Make(p, o)
  PROVE  /\ tree' \in [Path -> Obj \cup {NoObj}]
         /\ made' \in SUBSET Obj /\ made \subseteq made'
         /\ \A q \in Path : tree'[q] = WhitelistObj <=> q = Whitelist
<1>1. p # Whitelist /\ o # WhitelistObj
  BY ObjectsDistinct DEF Make, Exists, Inv, WhitelistUntouched
<1>2. QED
  BY <1>1 DEF Make, Inv, FsTypeOK, WhitelistUntouched

LEMMA CreateStep ==
  ASSUME Inv, NEW w \in Worker, NEW o \in Obj, Create(w, o)
  PROVE  Inv'
<1>1. req[w].at # "idle" /\ req[w].old \in Path
  BY Serving DEF Create
<1>2. /\ tree' \in [Path -> Obj \cup {NoObj}]
      /\ made' \in SUBSET Obj /\ made \subseteq made'
      /\ \A q \in Path : tree'[q] = WhitelistObj <=> q = Whitelist
  <2>1. PICK p \in Path : Make(p, o) \/ UNCHANGED <<tree, made>>
    BY <1>1, FollowedIsPath DEF Create
  <2>2. CASE Make(p, o)
    BY <2>2, MakeKeepsWhitelist
  <2>3. CASE UNCHANGED <<tree, made>>
    BY <2>3 DEF Inv, FsTypeOK, WhitelistUntouched
  <2>4. QED
    BY <2>1, <2>2, <2>3
<1>3. \E r \in Request \cup {Idle} : RequestOK(r) /\ req' = [req EXCEPT ![w] = r]
  BY <1>1, AdvanceIsOK, ReplyIsOK DEF Create
<1>4. displaced' \in BOOLEAN /\ altered' \in BOOLEAN
  BY DEF Create, Inv, FsTypeOK
<1>5. QED
  BY <1>2, <1>3, <1>4, TreeStep DEF Create

LEMMA MakeEntryStep ==
  ASSUME Inv, NEW w \in Worker, NEW o \in Obj, MakeEntry(w, o)
  PROVE  Inv'
<1>1. req[w].at # "idle" /\ req[w].old \in Path /\ ~is_protected(req[w].old)
  BY Serving DEF MakeEntry, RequestOK
<1>2. req[w].op \notin {"lookup", "create"}
  BY DEF MakeEntry
<1>3. \E r \in Request \cup {Idle} : RequestOK(r) /\ req' = [req EXCEPT ![w] = r]
  BY <1>1, <1>2, AdvanceIsOK DEF MakeEntry
<1>4. displaced' \in BOOLEAN /\ altered' \in BOOLEAN
  BY DEF MakeEntry, Inv, FsTypeOK
<1>5. QED
  BY <1>1, <1>3, <1>4, MakeKeepsWhitelist, TreeStep DEF MakeEntry

LEMMA LinkStep ==
  ASSUME Inv, NEW w \in Worker, Link(w)
  PROVE  Inv'
<1>1. /\ req[w].at # "idle"
      /\ req[w].old \in Path /\ ~is_protected(req[w].old)
      /\ req[w].new \in Path /\ ~is_protected(req[w].new)
  BY Serving DEF Link, RequestOK
<1>2. /\ tree' \in [Path -> Obj \cup {NoObj}]
      /\ \A q \in Path : tree'[q] = WhitelistObj <=> q = Whitelist
  BY <1>1, OtherObject DEF Link, Inv, FsTypeOK, WhitelistUntouched
<1>3. \E r \in Request \cup {Idle} : RequestOK(r) /\ req' = [req EXCEPT ![w] = r]
  BY <1>1, AdvanceIsOK DEF Link
<1>4. /\ displaced' \in BOOLEAN /\ altered' \in BOOLEAN
      /\ made' \in SUBSET Obj /\ made \subseteq made'
  BY DEF Link, Inv, FsTypeOK
<1>5. QED
  BY <1>2, <1>3, <1>4, TreeStep DEF Link

LEMMA RemoveStep ==
  ASSUME Inv, NEW w \in Worker, Remove(w)
  PROVE  Inv'
<1>1. req[w].at # "idle" /\ req[w].old \in Path /\ ~is_protected(req[w].old)
  BY Serving DEF Remove, RequestOK
<1>2. /\ tree' \in [Path -> Obj \cup {NoObj}]
      /\ \A q \in Path : tree'[q] = WhitelistObj <=> q = Whitelist
  BY <1>1, OtherObject, ObjectsDistinct DEF Remove, Inv, FsTypeOK, WhitelistUntouched
<1>3. \E r \in Request \cup {Idle} : RequestOK(r) /\ req' = [req EXCEPT ![w] = r]
  BY <1>1, AdvanceIsOK DEF Remove
<1>4. /\ displaced' \in BOOLEAN /\ altered' \in BOOLEAN
      /\ made' \in SUBSET Obj /\ made \subseteq made'
  BY DEF Remove, Inv, FsTypeOK
<1>5. QED
  BY <1>2, <1>3, <1>4, TreeStep DEF Remove

(***************************************************************************)
(* A rename neither takes the whitelist file along nor puts another file   *)
(* in its place: neither name is above it, and what was below the old name *)
(* never lands on it.                                                      *)
(***************************************************************************)
LEMMA RenameStep ==
  ASSUME Inv, NEW w \in Worker, Rename(w)
  PROVE  Inv'
<1> DEFINE old == req[w].old
           new == req[w].new
<1>1. /\ req[w].at # "idle"
      /\ old \in Path /\ ~is_protected(old) /\ old # Root
      /\ new \in Path /\ ~is_protected(new) /\ new # Root
  BY Serving DEF Rename, RequestOK, PathOps
<1>2. \E r \in Request \cup {Idle} : RequestOK(r) /\ req' = [req EXCEPT ![w] = r]
  BY <1>1, AdvanceIsOK DEF Rename
<1>3. /\ displaced' \in BOOLEAN /\ altered' \in BOOLEAN
      /\ made' \in SUBSET Obj /\ made \subseteq made'
      /\ UNCHANGED <<table_vars, handles, nextFh, told>>
  BY DEF Rename, Inv, FsTypeOK
<1>4. CASE tree[old] = tree[new]
  BY <1>2, <1>3, <1>4, TreeStep DEF Rename, Inv, FsTypeOK, WhitelistUntouched
<1>5. CASE tree[old] # tree[new]
  <2>1. tree' = [p \in Path |-> IF Below(new, p) /\ Moved(p, new, old) \in Path
                                THEN tree[Moved(p, new, old)]
                                ELSE IF Below(old, p) THEN NoObj ELSE tree[p]]
    BY <1>5 DEF Rename
  <2>2. tree' \in [Path -> Obj \cup {NoObj}]
    BY <2>1 DEF Inv, FsTypeOK
  <2>3. ~Below(new, Whitelist) /\ ~Below(old, Whitelist)
    BY <1>1, NotBelow
  <2>4. tree'[Whitelist] = WhitelistObj
    BY <2>1, <2>3, WhitelistIsProtected DEF Inv, WhitelistUntouched
  <2>5. ASSUME NEW p \in Path, p # Whitelist PROVE tree'[p] # WhitelistObj
    <3>1. CASE Below(new, p) /\ Moved(p, new, old) \in Path
      <4>1. Moved(p, new, old) # Whitelist
        BY <1>1, <3>1, NotMovedThere
      <4>2. QED
        BY <2>1, <3>1, <4>1 DEF Inv, WhitelistUntouched
    <3>2. CASE ~(Below(new, p) /\ Moved(p, new, old) \in Path)
      BY <2>1, <2>5, <3>2, ObjectsDistinct DEF Inv, WhitelistUntouched
    <3>3. QED
      BY <3>1, <3>2
  <2>6. \A p \in Path : tree'[p] = WhitelistObj <=> p = Whitelist
    BY <2>4, <2>5
  <2>7. QED
    BY <1>2, <1>3, <2>2, <2>6, TreeStep
<1>6. QED
  BY <1>4, <1>5

(***************************************************************************)
(* The steps that leave the backing directory and the table alone.         *)
(***************************************************************************)
LEMMA QuietStep ==
  ASSUME Inv, NEW w \in Worker,
         Authorized(w) \/ Refused(w) \/ BackingFails(w) \/ Lookup(w) \/ TableMadeFails(w)
  PROVE  Inv'
<1>1. \E r \in Request \cup {Idle} : RequestOK(r) /\ req' = [req EXCEPT ![w] = r]
  <2>1. CASE Authorized(w)
    BY <2>1, AdvanceIsOK DEF Authorized
  <2>2. CASE Lookup(w)
    <3>1. req[w].at # "idle" /\ req[w].old \in Path /\ ~is_protected(req[w].old)
      BY <2>2, Serving DEF Lookup, RequestOK
    <3>2. tree[req[w].old] \in Obj
      BY <2>2, <3>1, OtherObject DEF Lookup, Exists
    <3>3. QED
      BY <2>2, <3>1, <3>2, AdvanceIsOK DEF Lookup
  <2>3. QED
    BY <2>1, <2>2, ReplyIsOK DEF Refused, BackingFails, TableMadeFails
<1>2. UNCHANGED <<table_vars, tree, made, handles, nextFh, told, displaced, altered>>
  BY DEF Authorized, Refused, BackingFails, Lookup, TableMadeFails
<1>3. QED
  BY <1>1, <1>2, RequestStep

LEMMA BackingStep ==
  ASSUME Inv, NEW w \in Worker, Backing(w)
  PROVE  Inv'
  BY QuietStep, OpenStep, SetattrStep, CreateStep, MakeEntryStep, LinkStep, RemoveStep, RenameStep
  DEF Backing

(***************************************************************************)
(* The steps that change the table.                                        *)
(***************************************************************************)
LEMMA TableStep ==
  ASSUME Inv, NEW w \in Worker, NEW r \in Request \cup {Idle}, RequestOK(r),
         req' = [req EXCEPT ![w] = r],
         TableTypeOK', \A i \in Ino : paths'[i] # Whitelist,
         handles' \in SUBSET [fh : 1..MaxFh, obj : Obj],
         nextFh' \in 1..(MaxFh + 1),
         told' \in [Ino -> SUBSET Obj],
         UNCHANGED <<tree, made, displaced, altered>>
  PROVE  Inv'
<1>1. FsTypeOK'
  BY DEF Inv, FsTypeOK
<1>2. RequestInv'
  BY DEF Inv, FsTypeOK, RequestInv, RequestOK
<1>3. QED
  BY <1>1, <1>2 DEF Inv, WhitelistUntouched

LEMMA InoForTypeOK ==
  ASSUME Inv, NEW p \in Path, p # Whitelist, InoFor(p)
  PROVE  /\ TableTypeOK' /\ byPath'[p] \in Ino
         /\ \A i \in Ino : paths'[i] # Whitelist
<1>1. CASE byPath[p] # NoIno
  BY <1>1 DEF InoFor, table_vars, Inv, FsTypeOK, TableTypeOK, WhitelistUntouched
<1>2. CASE byPath[p] = NoIno
  BY <1>2 DEF InoFor, Allocate, Inv, FsTypeOK, TableTypeOK, WhitelistUntouched
<1>3. QED
  BY <1>1, <1>2

LEMMA ReplyEntryStep ==
  ASSUME Inv, NEW w \in Worker, NEW p \in Path, NEW o \in Obj,
         ~is_protected(p), ReplyEntry(w, p, o),
         \/ UNCHANGED <<handles, nextFh>>
         \/ OpenHandle(o)
  PROVE  Inv'
<1>1. /\ TableTypeOK' /\ byPath'[p] \in Ino
      /\ \A i \in Ino : paths'[i] # Whitelist
  BY OtherObject, InoForTypeOK DEF ReplyEntry
<1>2. told' \in [Ino -> SUBSET Obj]
  BY <1>1 DEF ReplyEntry, Inv, FsTypeOK
<1>3. /\ handles' \in SUBSET [fh : 1..MaxFh, obj : Obj]
      /\ nextFh' \in 1..(MaxFh + 1)
  BY MaxFhIsNat DEF OpenHandle, Inv, FsTypeOK
<1>4. QED
  BY <1>1, <1>2, <1>3, IdleIsOK, TableStep DEF ReplyEntry, Reply

LEMMA TableStepKeepsInv ==
  ASSUME Inv, NEW w \in Worker, Table(w)
  PROVE  Inv'
<1>1. CASE TableEntry(w)
  <2>1. /\ req[w].old \in Path /\ ~is_protected(req[w].old)
        /\ req[w].obj \in Obj
    BY <1>1, Serving DEF TableEntry, RequestOK
  <2>2. QED
    BY <1>1, <2>1, ReplyEntryStep DEF TableEntry
<1>2. CASE TableMade(w)
  <2>1. req[w].new \in Path /\ ~is_protected(req[w].new)
    BY <1>2, Serving DEF TableMade, RequestOK
  <2>2. tree[req[w].new] \in Obj
    BY <1>2, <2>1, OtherObject DEF TableMade, Exists
  <2>3. QED
    BY <1>2, <2>1, <2>2, ReplyEntryStep DEF TableMade
<1>3. CASE TableMadeFails(w)
  BY <1>3, QuietStep
<1>4. CASE TableForget(w)
  <2>1. req[w].old \in Path
    BY <1>4, Serving DEF TableForget
  <2>2. TableTypeOK' /\ \A i \in Ino : paths'[i] # Whitelist
    BY <1>4, <2>1, WhitelistIsProtected, NoPathIsNone
    DEF TableForget, ForgetPath, Inv, FsTypeOK, TableTypeOK, WhitelistUntouched
  <2>3. QED
    BY <1>4, <2>2, IdleIsOK, TableStep
    DEF TableForget, Reply, Inv, FsTypeOK, WhitelistUntouched
<1>5. CASE TableMove(w)
  <2>1. req[w].old \in Path /\ req[w].new \in Path /\ req[w].new # Whitelist
    BY <1>5, Serving, WhitelistIsProtected DEF TableMove, RequestOK
  <2>2. TableTypeOK' /\ \A i \in Ino : paths'[i] # Whitelist
    BY <1>5, <2>1 DEF TableMove, TableRename, Inv, FsTypeOK, TableTypeOK, WhitelistUntouched
  <2>3. QED
    BY <1>5, <2>2, IdleIsOK, TableStep
    DEF TableMove, Reply, Inv, FsTypeOK, WhitelistUntouched
<1>6. ASSUME NEW p \in Path, ReaddirEntry(w, p) PROVE Inv'
  <2>1. TableTypeOK' /\ \A i \in Ino : paths'[i] # Whitelist
    BY <1>6, OtherObject
    DEF ReaddirEntry, Allocate, Inv, FsTypeOK, TableTypeOK, WhitelistUntouched
  <2>2. QED
    BY <1>6, <2>1 DEF ReaddirEntry, Inv, FsTypeOK, RequestInv, WhitelistUntouched
<1>7. QED
  BY <1>1, <1>2, <1>3, <1>4, <1>5, <1>6 DEF Table

LEMMA InvInit == FsInit => Inv
<1>1. SUFFICES ASSUME FsInit PROVE Inv
  OBVIOUS
<1>2. TableTypeOK
  BY <1>1, RootIsPath, InoIsNat DEF FsInit, TableInit, TableTypeOK, ROOT, NoIno
<1>3. made \in SUBSET Obj /\ WhitelistObj \in made
  BY <1>1, ObjectsDistinct DEF FsInit
<1>4. /\ tree \in [Path -> Obj \cup {NoObj}]
      /\ \A p \in Path : tree[p] = WhitelistObj <=> p = Whitelist
  BY <1>1, WhitelistIsProtected, ObjectsDistinct DEF FsInit
<1>5. handles = {} /\ nextFh \in 1..(MaxFh + 1)
  BY <1>1, MaxFhIsNat DEF FsInit
<1>6. req \in [Worker -> Request \cup {Idle}] /\ RequestInv
  BY <1>1, IdleIsOK DEF FsInit, RequestInv
<1>7. told \in [Ino -> SUBSET Obj]
  BY <1>1, ObjectsDistinct DEF FsInit
<1>8. \A i \in Ino : paths[i] # Whitelist
  <2>1. Root # Whitelist /\ NoPath # Whitelist
    BY WhitelistIsProtected, NoPathIsNone
  <2>2. QED
    BY <1>1, <2>1 DEF FsInit, TableInit
<1>9. QED
  BY <1>1, <1>2, <1>3, <1>4, <1>5, <1>6, <1>7, <1>8 DEF Inv, FsTypeOK, WhitelistUntouched, FsInit

LEMMA InvStep ==
  ASSUME Inv, [FsNext]_fs_vars
  PROVE  Inv'
<1>1. CASE UNCHANGED fs_vars
  BY <1>1 DEF fs_vars, table_vars, Inv, FsTypeOK, TableTypeOK, RequestInv, WhitelistUntouched
<1>2. ASSUME NEW h \in handles, Release(h) PROVE Inv'
  BY <1>2 DEF Release, table_vars, Inv, FsTypeOK, TableTypeOK, RequestInv, WhitelistUntouched
<1>3. QED
  BY <1>1, <1>2, ReceiveStep, QuietStep, BackingStep, TableStepKeepsInv DEF FsNext

(***************************************************************************)
(* Type correctness of the file system.                                    *)
(***************************************************************************)
THEOREM FsTypeCorrect == FsSpec => []FsTypeOK
<1>1. Inv => FsTypeOK
  BY DEF Inv
<1>2. QED
  BY <1>1, InvInit, InvStep, PTL DEF FsSpec

(***************************************************************************)
(* No request, alone or between the steps of others, takes the name of the *)
(* whitelist file: no path it computed before the dialog becomes the       *)
(* whitelist's by what was moved around meanwhile, and no link leads a     *)
(* create to replacing it.                                                 *)
(***************************************************************************)
THEOREM WhitelistKept == FsSpec => []WhitelistUntouched
<1>1. Inv => WhitelistUntouched
  BY DEF Inv
<1>2. QED
  BY <1>1, InvInit, InvStep, PTL DEF FsSpec

(***************************************************************************)
(* The workers use the table as TableSpec allows: every step of theirs is  *)
(* one call of the table, never for the root, or leaves it alone.          *)
(***************************************************************************)
LEMMA StepIsTableStep ==
  ASSUME Inv, [FsNext]_fs_vars
  PROVE  [TableNext]_table_vars
<1>1. CASE UNCHANGED fs_vars
  BY <1>1 DEF fs_vars
<1>2. ASSUME NEW w \in Worker, Receive(w) PROVE UNCHANGED table_vars
  <2>1. \A op, i, d, old, new : Accept(w, op, i, d, old, new) => UNCHANGED table_vars
    BY DEF Accept
  <2>2. QED
    BY <1>2, <2>1 DEF Receive, ReceiveReaddir, ReceivePathOp, ReceiveNameOp, ReceiveLink,
                      ReceiveRename
<1>3. ASSUME NEW w \in Worker, Authorized(w) \/ Refused(w) \/ Backing(w)
      PROVE  UNCHANGED table_vars
  BY <1>3 DEF Authorized, Refused, Backing, BackingFails, Open, Setattr, Create, MakeEntry,
              Link, Remove, Rename, Lookup
<1>4. ASSUME NEW w \in Worker, Table(w) PROVE [TableNext]_table_vars
  <2>1. CASE TableEntry(w) \/ TableMade(w) \/ TableForget(w) \/ TableMove(w)
    <3>1. /\ req[w].old \in Path /\ req[w].new \in Path
          /\ req[w].new # Root /\ (req[w].op # "link" => req[w].old # Root)
      BY <2>1, Serving DEF TableEntry, TableMade, TableForget, TableMove, RequestOK, PathOps
    <3>2. QED
      BY <2>1, <3>1 DEF TableEntry, TableMade, TableForget, TableMove, ReplyEntry, TableNext
  <2>2. CASE TableMadeFails(w)
    BY <2>2 DEF TableMadeFails
  <2>3. ASSUME NEW p \in Path, ReaddirEntry(w, p) PROVE TableNext
    BY <2>3 DEF ReaddirEntry, InoFor, TableNext
  <2>4. QED
    BY <1>4, <2>1, <2>2, <2>3 DEF Table
<1>5. ASSUME NEW h \in handles, Release(h) PROVE UNCHANGED table_vars
  BY <1>5 DEF Release
<1>6. QED
  BY <1>1, <1>2, <1>3, <1>4, <1>5 DEF FsNext

THEOREM FsImplementsTable == FsSpec => TableSpec
<1>1. FsInit => TableInit
  BY DEF FsInit
<1>2. QED
  BY <1>1, InvInit, InvStep, StepIsTableStep, PTL DEF FsSpec, TableSpec

(***************************************************************************)
(* So what holds of the table holds in the file system: a number the table *)
(* answers with leads back to its name, and none is given out twice.       *)
(***************************************************************************)
THEOREM FsNumbersLeadBack == FsSpec => []NumbersLeadBack
  BY FsImplementsTable, TableLeadsBack, PTL

THEOREM FsNumbersNotReused == FsSpec => NumbersNotReused
  BY FsImplementsTable, TableNeverReuses
=============================================================================
