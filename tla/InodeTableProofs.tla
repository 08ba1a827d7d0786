-------------------------- MODULE InodeTableProofs --------------------------
(***************************************************************************)
(* Proofs about InodeTable, for any set of paths and of numbers.           *)
(***************************************************************************)
EXTENDS InodeTable, TLAPS

(***************************************************************************)
(* The inductive invariant: a number stands for a path only if it was      *)
(* given out, and every number in byPath leads back to its path.           *)
(***************************************************************************)
TableInv == /\ TableTypeOK
            /\ next > ROOT
            /\ \A i \in Ino : i >= next => paths[i] = NoPath
            /\ NumbersLeadBack

LEMMA TableInvInit == TableInit => TableInv
  BY RootIsPath, InoIsNat DEF TableInit, TableInv, TableTypeOK, NumbersLeadBack, ROOT, NoIno

(***************************************************************************)
(* Two paths never share a number.                                         *)
(***************************************************************************)
LEMMA NumbersDistinct ==
  ASSUME TableInv, NEW p \in Path, NEW q \in Path,
         byPath[p] # NoIno, byPath[p] = byPath[q]
  PROVE  p = q
  BY DEF TableInv, NumbersLeadBack

(***************************************************************************)
(* Each operation keeps the invariant.                                     *)
(***************************************************************************)
LEMMA InoForKeepsInv ==
  ASSUME TableInv, NEW p \in Path, InoFor(p)
  PROVE  TableInv'
<1>1. CASE byPath[p] # NoIno
  BY <1>1 DEF InoFor, table_vars, TableInv, TableTypeOK, NumbersLeadBack
<1>2. CASE byPath[p] = NoIno
  <2>1. /\ next \in Ino /\ next' = next + 1
        /\ paths' = [paths EXCEPT ![next] = p]
        /\ byPath' = [byPath EXCEPT ![p] = next]
    BY <1>2 DEF InoFor, Allocate
  <2>2. TableTypeOK' /\ (next > ROOT)'
    BY <2>1 DEF TableInv, TableTypeOK, ROOT
  <2>3. (\A i \in Ino : i >= next => paths[i] = NoPath)'
    BY <2>1, InoIsNat DEF TableInv, TableTypeOK
  <2>4. NumbersLeadBack'
    <3>1. SUFFICES ASSUME NEW q \in Path, byPath'[q] # NoIno
                   PROVE  paths'[byPath'[q]] = q
      BY DEF NumbersLeadBack
    <3>2. CASE q = p
      BY <2>1, <3>2 DEF TableInv, TableTypeOK
    <3>3. CASE q # p
      <4>1. byPath'[q] = byPath[q] /\ paths[byPath[q]] = q
        BY <2>1, <3>1, <3>3 DEF TableInv, TableTypeOK, NumbersLeadBack
      <4>2. paths[next] = NoPath
        BY <2>1 DEF TableInv, TableTypeOK
      <4>3. byPath[q] # next
        BY <4>1, <4>2, NoPathIsNone
      <4>4. QED  BY <2>1, <3>1, <4>1, <4>3 DEF TableInv, TableTypeOK
    <3>4. QED  BY <3>2, <3>3
  <2>5. QED  BY <2>2, <2>3, <2>4 DEF TableInv
<1>3. QED  BY <1>1, <1>2

LEMMA ForgetPathKeepsInv ==
  ASSUME TableInv, NEW p \in Path, ForgetPath(p)
  PROVE  TableInv'
<1>1. CASE byPath[p] = NoIno
  BY <1>1 DEF ForgetPath, TableInv, TableTypeOK, NumbersLeadBack
<1>2. CASE byPath[p] # NoIno
  <2>1. /\ paths' = [paths EXCEPT ![byPath[p]] = NoPath]
        /\ byPath' = [byPath EXCEPT ![p] = NoIno]
        /\ next' = next
        /\ byPath[p] \in Ino
    BY <1>2 DEF ForgetPath, TableInv, TableTypeOK
  <2>2. TableTypeOK' /\ (next > ROOT)'
    BY <2>1 DEF TableInv, TableTypeOK
  <2>3. (\A i \in Ino : i >= next => paths[i] = NoPath)'
    BY <2>1 DEF TableInv, TableTypeOK
  <2>4. NumbersLeadBack'
    <3>1. SUFFICES ASSUME NEW q \in Path, byPath'[q] # NoIno
                   PROVE  paths'[byPath'[q]] = q
      BY DEF NumbersLeadBack
    <3>2. q # p /\ byPath'[q] = byPath[q] /\ byPath[q] # byPath[p]
      BY <2>1, <3>1, <1>2, NumbersDistinct DEF TableInv, TableTypeOK
    <3>3. QED  BY <2>1, <3>1, <3>2 DEF TableInv, TableTypeOK, NumbersLeadBack
  <2>5. QED  BY <2>2, <2>3, <2>4 DEF TableInv
<1>3. QED  BY <1>1, <1>2

LEMMA RenameKeepsInv ==
  ASSUME TableInv, NEW old \in Path, NEW new \in Path, TableRename(old, new)
  PROVE  TableInv'
<1>1. CASE byPath[old] = NoIno
  BY <1>1 DEF TableRename, TableInv, TableTypeOK, NumbersLeadBack
<1>2. CASE byPath[old] # NoIno
  <2>1. /\ paths' = [paths EXCEPT ![byPath[old]] = new]
        /\ byPath' = [byPath EXCEPT ![old] = NoIno, ![new] = byPath[old]]
        /\ next' = next
        /\ byPath[old] \in Ino
    BY <1>2 DEF TableRename, TableInv, TableTypeOK
  <2>2. TableTypeOK' /\ (next > ROOT)'
    BY <2>1 DEF TableInv, TableTypeOK
  <2>3. byPath[old] < next
    BY <1>2, <2>1, InoIsNat, NoPathIsNone DEF TableInv, TableTypeOK, NumbersLeadBack
  <2>4. (\A i \in Ino : i >= next => paths[i] = NoPath)'
    BY <2>1, <2>3, InoIsNat DEF TableInv, TableTypeOK
  <2>5. NumbersLeadBack'
    <3>1. SUFFICES ASSUME NEW q \in Path, byPath'[q] # NoIno
                   PROVE  paths'[byPath'[q]] = q
      BY DEF NumbersLeadBack
    <3>2. CASE q = new
      BY <2>1, <3>2 DEF TableInv, TableTypeOK
    <3>3. CASE q # new
      <4>1. q # old /\ byPath'[q] = byPath[q] /\ byPath[q] # byPath[old]
        BY <2>1, <3>1, <3>3, <1>2, NumbersDistinct DEF TableInv, TableTypeOK
      <4>2. QED  BY <2>1, <3>1, <4>1 DEF TableInv, TableTypeOK, NumbersLeadBack
    <3>4. QED  BY <3>2, <3>3
  <2>6. QED  BY <2>2, <2>4, <2>5 DEF TableInv
<1>3. QED  BY <1>1, <1>2

LEMMA TableInvStep ==
  ASSUME TableInv, [TableNext]_table_vars
  PROVE  TableInv'
<1>1. CASE UNCHANGED table_vars
  BY <1>1 DEF table_vars, TableInv, TableTypeOK, NumbersLeadBack
<1>2. CASE TableNext
  BY <1>2, InoForKeepsInv, ForgetPathKeepsInv, RenameKeepsInv DEF TableNext
<1>3. QED  BY <1>1, <1>2

(***************************************************************************)
(* A path the table knows has a number that leads back to it, whatever     *)
(* lookups, creations, removals and renames went before.                   *)
(***************************************************************************)
THEOREM TableLeadsBack == TableSpec => [](TableTypeOK /\ NumbersLeadBack)
<1>1. TableInv => TableTypeOK /\ NumbersLeadBack
  BY DEF TableInv
<1>2. QED  BY <1>1, TableInvInit, TableInvStep, PTL DEF TableSpec

(***************************************************************************)
(* A forgotten number is never given out again.                            *)
(***************************************************************************)
THEOREM TableNeverReuses == TableSpec => NumbersNotReused
<1> DEFINE NoReuse == /\ next <= next'
                      /\ \A i \in Ino : i < next /\ paths[i] = NoPath => paths'[i] = NoPath
<1>1. ASSUME TableInv, [TableNext]_table_vars PROVE NoReuse \/ UNCHANGED table_vars
  <2> USE NoPathIsNone, InoIsNat DEF TableInv, TableTypeOK, NumbersLeadBack, NoIno
  <2>1. ASSUME NEW p \in Path, InoFor(p) PROVE NoReuse \/ UNCHANGED table_vars
    BY <1>1, <2>1 DEF InoFor, Allocate
  <2>2. ASSUME NEW p \in Path, ForgetPath(p) PROVE NoReuse
    BY <1>1, <2>2 DEF ForgetPath
  <2>3. ASSUME NEW p \in Path, NEW q \in Path, TableRename(p, q) PROVE NoReuse
    BY <1>1, <2>3 DEF TableRename
  <2>4. QED  BY <1>1, <2>1, <2>2, <2>3 DEF TableNext
<1>2. QED  BY <1>1, TableInvInit, TableInvStep, PTL DEF TableSpec, NumbersNotReused
=============================================================================
