------------------------- MODULE ExportImportProofs -------------------------
(***************************************************************************)
(* Proofs about ExportImport, for any names and any contents.              *)
(***************************************************************************)
EXTENDS ExportImport, TLAPS

(***************************************************************************)
(* The inductive invariant, in parts.  As long as the disc has not rotted, *)
(* it holds the stage of its export and the sums of it.                    *)
(***************************************************************************)
DiscInv ==
  /\ exporter = "burn" => manifest = Sums(stage)
  /\ burned => exporter = "idle"
  /\ importer # "idle" \/ restored => burned
  /\ burned /\ rotted = "no" => files = origin /\ manifest = Sums(origin)

(***************************************************************************)
(* What an import has done by the step it is at.                           *)
(***************************************************************************)
CopyInv ==
  /\ importer # "copy" => left = {}
  /\ restored => importer = "idle"
  /\ importer # "idle" /\ rotted # "since" => Verifies
  /\ importer \in {"copy", "tools"} /\ rotted # "since"
       => \A n \in Name \ left : manifest[n] # Absent => dest[n] = manifest[n]
  /\ importer \in {"copy", "tools"} /\ rotted = "no"
       => \A n \in Present(origin) \ left : dest[n] = origin[n]
  /\ importer = "copy" /\ ~force => \A n \in left : dest[n] = Absent

Inv == ImportTypeOK /\ DiscInv /\ CopyInv /\ InstalledIsExported

(***************************************************************************)
(* The vault in use.                                                       *)
(***************************************************************************)
LEMMA UseStep ==
  ASSUME Inv, InUse
  PROVE  Inv'
<1> USE KindsDistinct DEF Inv, ImportTypeOK, Entry, Nothing, Present, source,
  export, disc, import, home
<1>1. CASE OpenVault
  BY <1>1 DEF OpenVault, DiscInv, CopyInv, InstalledIsExported, Verifies, Sums
<1>2. CASE CloseVault
  BY <1>2 DEF CloseVault, DiscInv, CopyInv, InstalledIsExported, Verifies, Sums
<1>3. CASE HelperRuns
  BY <1>3 DEF HelperRuns, DiscInv, CopyInv, InstalledIsExported, Verifies, Sums
<1>4. CASE HelperEnds
  BY <1>4 DEF HelperEnds, DiscInv, CopyInv, InstalledIsExported, Verifies, Sums
<1>5. ASSUME NEW n \in Name, NEW e \in Entry, Change(n, e)
      PROVE  Inv'
  BY <1>5 DEF Change, DiscInv, CopyInv, InstalledIsExported, Verifies, Sums
<1>6. QED
  BY <1>1, <1>2, <1>3, <1>4, <1>5 DEF InUse

(***************************************************************************)
(* att export.                                                             *)
(***************************************************************************)
LEMMA ExportStep ==
  ASSUME Inv, Exporting
  PROVE  Inv'
<1> USE KindsDistinct DEF Inv, ImportTypeOK, Entry, Nothing, Present, source,
  export, disc, import, home
<1>1. CASE Export
  BY <1>1 DEF Export, DiscInv, CopyInv, InstalledIsExported, Verifies, Sums
<1>2. CASE CopyTools
  BY <1>2 DEF CopyTools, DiscInv, CopyInv, InstalledIsExported, Verifies, Sums
<1>3. CASE WriteManifest
  BY <1>3 DEF WriteManifest, Verifies, Sums, DiscInv, CopyInv,
    InstalledIsExported
<1>4. CASE Burn
  <2>1. ImportTypeOK'
    BY <1>4 DEF Burn, DiscInv, Verifies, Sums
  <2>2. DiscInv'
    BY <1>4 DEF Burn, DiscInv, Verifies, Sums
  <2>3. CopyInv'
    BY <1>4 DEF Burn, DiscInv, CopyInv, Verifies, Sums
  <2>4. InstalledIsExported'
    BY <1>4 DEF Burn, DiscInv, CopyInv, InstalledIsExported, Verifies, Sums
  <2>5. QED
    BY <2>1, <2>2, <2>3, <2>4
<1>5. CASE ExportFails
  BY <1>5 DEF ExportFails, DiscInv, CopyInv, InstalledIsExported, Verifies, Sums
<1>6. ASSUME NEW n \in Name, CopyToStage(n)
      PROVE  Inv'
  BY <1>6 DEF CopyToStage, DiscInv, CopyInv, InstalledIsExported, Verifies, Sums
<1>7. QED
  BY <1>1, <1>2, <1>3, <1>4, <1>5, <1>6 DEF Exporting

(***************************************************************************)
(* The disc rots.                                                          *)
(***************************************************************************)
LEMMA RotStep ==
  ASSUME Inv, NEW n \in Name, Rot(n)
  PROVE  Inv'
<1> USE KindsDistinct DEF Inv, ImportTypeOK, Entry, Nothing, Present, source,
  export, disc, import, home
<1>1. QED
  BY DEF Rot, Rots, DiscInv, CopyInv, InstalledIsExported, Verifies, Sums

(***************************************************************************)
(* attache-import, once the disc has verified.                             *)
(***************************************************************************)
LEMMA RestoreStep ==
  ASSUME Inv, Restoring
  PROVE  Inv'
<1> USE KindsDistinct DEF Inv, ImportTypeOK, Entry, Nothing, Present, source,
  export, disc, import, home
<1>1. CASE check_destination
  BY <1>1 DEF check_destination, IsClear, DiscInv, CopyInv, InstalledIsExported,
    Verifies, Sums
<1>2. CASE InstallTools
  BY <1>2 DEF InstallTools, DiscInv, CopyInv, InstalledIsExported, Verifies,
    Sums
<1>3. CASE Success
  BY <1>3 DEF Success, DiscInv, CopyInv, InstalledIsExported, Verifies, Sums
<1>4. ASSUME NEW n \in Name, CopyEntry(n)
      PROVE  Inv'
  BY <1>4 DEF CopyEntry, DiscInv, CopyInv, InstalledIsExported, Verifies, Sums
<1>5. ASSUME NEW n \in Name, LinkIsNotCopied(n)
      PROVE  Inv'
  BY <1>5 DEF LinkIsNotCopied, Aborts, DiscInv, CopyInv, InstalledIsExported,
    Verifies, Sums
<1>6. ASSUME NEW n \in Name, CannotOverwrite(n)
      PROVE  Inv'
  BY <1>6 DEF CannotOverwrite, Aborts, DiscInv, CopyInv, InstalledIsExported,
    Verifies, Sums
<1>7. QED
  BY <1>1, <1>2, <1>3, <1>4, <1>5, <1>6 DEF Restoring

(***************************************************************************)
(* Its start, its failures, and what is done about them.                   *)
(***************************************************************************)
LEMMA OtherStep ==
  ASSUME Inv, Import \/ ImportFails \/ TidyUp
  PROVE  Inv'
<1> USE KindsDistinct DEF Inv, ImportTypeOK, Entry, Nothing, Present, source,
  export, disc, import, home
<1>1. CASE Import
  <2>1. ImportTypeOK'
    BY <1>1 DEF Import, DiscInv, Verifies, Sums
  <2>2. DiscInv'
    BY <1>1 DEF Import, DiscInv, Verifies, Sums
  <2>3. CopyInv'
    BY <1>1 DEF Import, DiscInv, CopyInv, Verifies, Sums
  <2>4. InstalledIsExported'
    BY <1>1 DEF Import, DiscInv, CopyInv, InstalledIsExported, Verifies, Sums
  <2>5. QED
    BY <2>1, <2>2, <2>3, <2>4
<1>2. CASE ImportFails
  BY <1>2 DEF ImportFails, Aborts, DiscInv, CopyInv, InstalledIsExported,
    Verifies, Sums
<1>3. CASE TidyUp
  <2>1. ImportTypeOK'
    <3>1. dest' \in [Name -> Data \cup {Absent, Torn}] /\ readonly' \subseteq Present(dest')
      BY <1>3 DEF TidyUp
    <3>2. QED
      BY <1>3, <3>1 DEF TidyUp
  <2>2. DiscInv'
    BY <1>3 DEF TidyUp, DiscInv, Verifies, Sums
  <2>3. CopyInv'
    BY <1>3 DEF TidyUp, DiscInv, CopyInv, Verifies, Sums
  <2>4. InstalledIsExported'
    BY <1>3 DEF TidyUp, DiscInv, CopyInv, InstalledIsExported, Verifies, Sums
  <2>5. QED
    BY <2>1, <2>2, <2>3, <2>4
<1>4. QED
  BY <1>1, <1>2, <1>3

-----------------------------------------------------------------------------
LEMMA InvInductive == Spec => []Inv
<1>1. Init => Inv
  <2> SUFFICES ASSUME Init PROVE Inv
    OBVIOUS
  <2> USE KindsDistinct DEF Init, Nothing, Entry, Present
  <2>1. ImportTypeOK
    BY DEF ImportTypeOK
  <2>2. DiscInv /\ CopyInv /\ InstalledIsExported
    BY DEF DiscInv, CopyInv, InstalledIsExported
  <2>3. QED
    BY <2>1, <2>2 DEF Inv
<1>2. Inv /\ [Next]_vars => Inv'
  <2> SUFFICES ASSUME Inv, [Next]_vars
               PROVE  Inv'
    OBVIOUS
  <2>1. CASE UNCHANGED vars
    BY <2>1 DEF Inv, ImportTypeOK, DiscInv, CopyInv, InstalledIsExported,
      Verifies, Sums, Present, vars, source, export, disc, import, home
  <2>2. QED
    BY <2>1, UseStep, ExportStep, RotStep, RestoreStep, OtherStep,
      RottingAreNames DEF Next
<1>3. QED
  BY <1>1, <1>2, PTL DEF Spec

(***************************************************************************)
(* The variables keep their types.                                         *)
(***************************************************************************)
THEOREM TypeCorrect == Spec => []ImportTypeOK
<1>1. Inv => ImportTypeOK
  BY DEF Inv
<1>2. QED
  BY InvInductive, <1>1, PTL

(***************************************************************************)
(* However the vault was used during an export, a disc that has not rotted *)
(* passes the verification of attache-import (att:573).                    *)
(***************************************************************************)
THEOREM BurnedVerifies == Spec => []DiscVerifies
<1>1. Inv => DiscVerifies
  BY KindsDistinct DEF Inv, ImportTypeOK, Entry, DiscInv, DiscVerifies,
    Verifies, Sums
<1>2. QED
  BY InvInductive, <1>1, PTL

(***************************************************************************)
(* After a reported success what the manifest lists is at the destination, *)
(* and so is all of the export if the disc has not rotted, also after a    *)
(* forced import over the remains of another (lib.rs:76-112).              *)
(***************************************************************************)
THEOREM ImportedIsExported == Spec => []InstalledIsExported
<1>1. Inv => InstalledIsExported
  BY DEF Inv
<1>2. QED
  BY InvInductive, <1>1, PTL

(***************************************************************************)
(* Without --force an import changes nothing that is at the destination    *)
(* (install.rs:22-34).                                                     *)
(***************************************************************************)
THEOREM UnforcedKeeps == Spec => DestinationKept
<1> DEFINE Kept == importer # "idle" /\ ~force => \A n \in Present(dest) : dest'[n] = dest[n]
<1>1. Inv /\ [Next]_vars => [Kept]_vars
  <2> SUFFICES ASSUME Inv, Next, importer # "idle", ~force, NEW m \in Present(dest)
               PROVE  dest'[m] = dest[m]
    OBVIOUS
  <2> USE DEF Inv, ImportTypeOK, Present, home
  <2>1. CASE dest' = dest
    BY <2>1
  <2>2. CASE ImportFails
    BY <2>2 DEF ImportFails, CopyInv
  <2>3. ASSUME NEW n \in Name, CopyEntry(n)
        PROVE  dest'[m] = dest[m]
    BY <2>3 DEF CopyEntry, CopyInv
  <2>4. dest' = dest \/ ImportFails \/ \E n \in Name : CopyEntry(n)
    BY DEF Next, InUse, Exporting, Restoring, OpenVault, CloseVault, HelperRuns,
      HelperEnds, Change, Export, CopyToStage, CopyTools, WriteManifest, Burn,
      ExportFails, Rot, Import, check_destination, LinkIsNotCopied,
      CannotOverwrite, InstallTools, Success, TidyUp
  <2>5. QED
    BY <2>1, <2>2, <2>3, <2>4
<1>2. QED
  BY InvInductive, <1>1, PTL DEF Spec, DestinationKept
=============================================================================
