----------------------------- MODULE InodeTable -----------------------------
(***************************************************************************)
(* InodeTable (attache-gate/src/inode_table.rs): the numbers the kernel    *)
(* knows files by, and the backing paths they stand for.  Each operation   *)
(* runs under one mutex, so each is one step.                              *)
(***************************************************************************)
EXTENDS Naturals

CONSTANTS Path,   \* the backing paths
          Root,   \* the path of the backing directory
          NoPath, \* what a number the table does not have stands for
          Ino     \* the numbers; a bound when it is finite

ROOT  == 1
NoIno == 0

ASSUME RootIsPath   == Root \in Path
ASSUME NoPathIsNone == NoPath \notin Path
ASSUME InoIsNat     == Ino \subseteq Nat \ {NoIno} /\ ROOT \in Ino

VARIABLES paths,   \* number -> path, or NoPath
          byPath,  \* path -> number, or NoIno
          next     \* the next number to give

table_vars == <<paths, byPath, next>>

TableTypeOK == /\ paths \in [Ino -> Path \cup {NoPath}]
               /\ byPath \in [Path -> Ino \cup {NoIno}]
               /\ next \in Nat

TableInit == /\ paths = [i \in Ino |-> IF i = ROOT THEN Root ELSE NoPath]
             /\ byPath = [p \in Path |-> IF p = Root THEN ROOT ELSE NoIno]
             /\ next = ROOT + 1

(***************************************************************************)
(* ino_for: the number of a path is byPath'[p] afterwards.                 *)
(***************************************************************************)
Allocate(p) == /\ next \in Ino
               /\ paths' = [paths EXCEPT ![next] = p]
               /\ byPath' = [byPath EXCEPT ![p] = next]
               /\ next' = next + 1

InoFor(p) == IF byPath[p] # NoIno THEN UNCHANGED table_vars ELSE Allocate(p)

(***************************************************************************)
(* rename: the number moves to the new path.  What the table knew of the   *)
(* new path is overwritten in byPath only, and of nothing below old.       *)
(***************************************************************************)
TableRenameCopies(old, new) ==  \* MUTANT: the old path keeps the number
  /\ IF byPath[old] = NoIno
     THEN UNCHANGED <<paths, byPath>>
     ELSE /\ paths' = [paths EXCEPT ![byPath[old]] = new]
          /\ byPath' = [byPath EXCEPT ![new] = byPath[old]]
  /\ UNCHANGED next

TableRename(old, new) ==
  /\ IF byPath[old] = NoIno
     THEN UNCHANGED <<paths, byPath>>
     ELSE /\ paths' = [paths EXCEPT ![byPath[old]] = new]
          /\ byPath' = [byPath EXCEPT ![old] = NoIno, ![new] = byPath[old]]
  /\ UNCHANGED next

ForgetPathReuses(p) ==  \* MUTANT: the next path gets the number that was given back
  /\ IF byPath[p] = NoIno
     THEN UNCHANGED table_vars
     ELSE /\ paths' = [paths EXCEPT ![byPath[p]] = NoPath]
          /\ byPath' = [byPath EXCEPT ![p] = NoIno]
          /\ next' = byPath[p]

ForgetPath(p) ==
  /\ IF byPath[p] = NoIno
     THEN UNCHANGED <<paths, byPath>>
     ELSE /\ paths' = [paths EXCEPT ![byPath[p]] = NoPath]
          /\ byPath' = [byPath EXCEPT ![p] = NoIno]
  /\ UNCHANGED next

(***************************************************************************)
(* The table alone: any calls in any order, none of them for the root,     *)
(* which has no name in a parent directory.                                *)
(***************************************************************************)
TableNext == \E p \in Path \ {Root} :
               \/ InoFor(p) \/ ForgetPath(p)
               \/ \E q \in Path \ {Root} : TableRename(p, q)

TableSpec == TableInit /\ [][TableNext]_table_vars

(***************************************************************************)
(* A path the table answers a lookup from has a number that leads back to  *)
(* this path: no rename or forget leaves a name pointing to a number of    *)
(* another path, so two names never share a number.                        *)
(***************************************************************************)
NumbersLeadBack == \A p \in Path : byPath[p] # NoIno => paths[byPath[p]] = p

(***************************************************************************)
(* A number that stood for a path and was forgotten is never given out     *)
(* again.  The kernel may still hold it, and every reply says generation   *)
(* 0, so it could not tell the new file from the old.                      *)
(***************************************************************************)
NumbersNotReused ==
  [][/\ next <= next'
     /\ \A i \in Ino : i < next /\ paths[i] = NoPath => paths'[i] = NoPath]_table_vars
=============================================================================
