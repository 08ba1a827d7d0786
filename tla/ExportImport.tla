---------------------------- MODULE ExportImport ----------------------------
(***************************************************************************)
(* `att export', the disc it writes, and attache-import, which restores a  *)
(* vault from it: while programs and the maintenance commands use the      *)
(* vault, while the disc rots, and over what an earlier import left.       *)
(*                                                                         *)
(* A directory is a function from the names below it to what is there.     *)
(* The bundled programs are copied to the disc and from it like the vault, *)
(* but the manifest does not list them; here they can only fail to copy.   *)
(***************************************************************************)
EXTENDS Naturals, FiniteSets

CONSTANTS Name,     \* the paths below CIPHERDIR
          Data,     \* what a regular file may hold
          Link,     \* a symbolic link; its encrypted target leads nowhere
          Absent,
          Torn,     \* a file that holds anything else
          MaxSeen,  \* bound: the states of the vault during one export
          Rotting   \* bound: the names at which the disc rots

ASSUME KindsDistinct == /\ Link \notin Data /\ Absent \notin Data /\ Torn \notin Data
                        /\ Link # Absent /\ Link # Torn /\ Absent # Torn

ASSUME RottingAreNames == Rotting \subseteq Name

VARIABLES
  vault,     \* CIPHERDIR on the machine that exports
  opened,    \* is_mounted
  helping,   \* gocryptfs runs for a maintenance command (run_helper_with_password)
  exporter, todo, stage,        \* cmd_export: its step, what cp has left, $stage/attache
  burned, files, manifest,      \* the disc: attache/ and MANIFEST.sha256
  importer, force, left,        \* run: its step, --force, the entries left to copy
  dest, readonly                \* ~/.attache where it imports; files not writable

\* History.
VARIABLES
  seen,      \* the states of the vault since the export began
  origin,    \* what the disc was to hold
  rotted,    \* "no", "before" or "since" the last import verified the disc
  fault,     \* the import at work met an I/O error or was ended
  restored   \* the last import reported success

source  == <<vault, opened, helping>>
export  == <<exporter, todo, stage, seen>>
disc    == <<burned, files, manifest, origin, rotted>>
import  == <<importer, force, left, fault, restored>>
home    == <<dest, readonly>>
vars    == <<source, export, disc, import, home>>

Entry   == Data \cup {Link, Absent}
Nothing == [n \in Name |-> Absent]
Present(dir) == {n \in Name : dir[n] # Absent}

ImportTypeOK ==
  /\ vault \in [Name -> Entry] /\ opened \in BOOLEAN /\ helping \in BOOLEAN
  /\ exporter \in {"idle", "copy", "sum", "burn"} /\ todo \subseteq Name
  /\ stage \in [Name -> Entry] /\ origin \in [Name -> Entry]
  /\ burned \in BOOLEAN /\ files \in [Name -> Entry \cup {Torn}]
  /\ manifest \in [Name -> Data \cup {Absent, Torn}]
  /\ importer \in {"idle", "check", "copy", "tools"} /\ force \in BOOLEAN
  /\ left \subseteq Name /\ readonly \subseteq Present(dest)
  /\ dest \in [Name -> Data \cup {Absent, Torn}]
  /\ seen \subseteq [Name -> Entry]
  /\ rotted \in {"no", "before", "since"} /\ fault \in BOOLEAN /\ restored \in BOOLEAN

Init ==
  /\ vault \in [Name -> Entry] /\ opened = FALSE /\ helping = FALSE
  /\ exporter = "idle" /\ todo = {} /\ stage = Nothing /\ seen = {}
  /\ burned = FALSE /\ files = Nothing /\ manifest = Nothing
  /\ origin = Nothing /\ rotted = "no"
  /\ importer = "idle" /\ force = FALSE /\ left = {} /\ fault = FALSE /\ restored = FALSE
  /\ dest \in [Name -> {Absent, Torn}] /\ readonly \in SUBSET Present(dest)

-----------------------------------------------------------------------------
(***************************************************************************)
(* The vault in use: while it is open, or while a maintenance command has  *)
(* the backing directory mounted, which is_mounted does not see.  Bounds:  *)
(* it changes at most MaxSeen - 1 times during an export, and once the     *)
(* disc is burned this machine is not followed any further.                *)
(***************************************************************************)
OpenVault ==
  /\ ~burned /\ ~opened /\ opened' = TRUE
  /\ UNCHANGED <<vault, helping, export, disc, import, home>>

CloseVault ==
  /\ ~burned /\ opened /\ opened' = FALSE
  /\ UNCHANGED <<vault, helping, export, disc, import, home>>

HelperRuns ==
  /\ ~burned /\ ~opened /\ ~helping /\ helping' = TRUE
  /\ UNCHANGED <<vault, opened, export, disc, import, home>>

HelperEnds ==
  /\ ~burned /\ helping /\ helping' = FALSE
  /\ UNCHANGED <<vault, opened, export, disc, import, home>>

Change(n, e) ==
  /\ ~burned /\ (opened \/ helping) /\ Cardinality(seen) < MaxSeen
  /\ vault' = [vault EXCEPT ![n] = e]
  /\ seen' = IF exporter = "idle" THEN {} ELSE seen \cup {vault'}
  /\ UNCHANGED <<opened, helping, exporter, todo, stage, disc, import, home>>

-----------------------------------------------------------------------------
(***************************************************************************)
(* cmd_export.  Any failure ends it (set -e), and the stage is removed.    *)
(***************************************************************************)
Export ==
  /\ exporter = "idle" /\ ~burned /\ ~opened
  /\ exporter' = "copy" /\ todo' = Name /\ stage' = Nothing
  /\ seen' = {vault}
  /\ UNCHANGED <<source, disc, import, home>>

\* cp -a, one entry after the other; of a file that has changed since the export
\* began it may get a mixture.
CopyToStage(n) ==
  /\ exporter = "copy" /\ n \in todo /\ todo' = todo \ {n}
  /\ \E e \in Data \cup {vault[n]} :
       /\ e = vault[n] \/ (vault[n] \in Data /\ \E old \in seen : old[n] \in Data \ {vault[n]})
       /\ stage' = [stage EXCEPT ![n] = e]
  /\ UNCHANGED <<exporter, seen, source, disc, import, home>>

CopyTools ==
  /\ exporter = "copy" /\ todo = {} /\ exporter' = "sum"
  /\ UNCHANGED <<todo, stage, seen, source, disc, import, home>>

\* find -type f -exec sha256sum: regular files only.
Sums(dir) == [n \in Name |-> IF dir[n] \in Data THEN dir[n] ELSE Absent]

WriteManifestOfVault ==  \* MUTANT of WriteManifest: sums up CIPHERDIR, not its copy
  /\ exporter = "sum" /\ exporter' = "burn"
  /\ manifest' = Sums(vault)
  /\ UNCHANGED <<todo, stage, seen, burned, files, origin, rotted, source, import, home>>

WriteManifest ==
  /\ exporter = "sum" /\ exporter' = "burn"
  /\ manifest' = Sums(stage)
  /\ UNCHANGED <<todo, stage, seen, burned, files, origin, rotted, source, import, home>>

\* From here on nothing reads the variables of this machine; they are cleared.
Burn ==
  /\ exporter = "burn" /\ exporter' = "idle"
  /\ burned' = TRUE /\ files' = stage /\ origin' = stage
  /\ stage' = Nothing /\ seen' = {}
  /\ vault' = Nothing /\ opened' = FALSE /\ helping' = FALSE
  /\ UNCHANGED <<todo, manifest, rotted, import, home>>

ExportFails ==
  /\ exporter # "idle" /\ exporter' = "idle"
  /\ todo' = {} /\ stage' = Nothing /\ seen' = {}
  /\ manifest' = Nothing /\ UNCHANGED <<source, burned, files, origin, rotted, import, home>>

-----------------------------------------------------------------------------
(***************************************************************************)
(* External: the disc gets old, or is tampered with.  Below attache/ and   *)
(* in the manifest, which nobody signs, anything may become anything: a    *)
(* file may change or go, its line too, and both together.                 *)
(***************************************************************************)
Rots == rotted' = IF importer = "idle" /\ ~restored /\ rotted # "since"
                  THEN "before" ELSE "since"

Rot(n) ==
  /\ burned /\ Rots
  /\ \E file \in Entry \cup {Torn}, line \in Data \cup {Absent, Torn} :
       /\ files' = [files EXCEPT ![n] = file]
       /\ manifest' = [manifest EXCEPT ![n] = line]
  /\ UNCHANGED <<burned, origin, source, export, import, home>>

-----------------------------------------------------------------------------
(***************************************************************************)
(* attache-import: verify, check_destination, copy_dir_recursive and the   *)
(* bundled programs.  Every error ends it and leaves what it has written.  *)
(***************************************************************************)
Verifies == \A n \in Name : manifest[n] # Absent => manifest[n] \in Data /\ files[n] = manifest[n]

Import ==
  /\ importer = "idle" /\ burned
  /\ force' \in BOOLEAN /\ restored' = FALSE /\ fault' = FALSE
  /\ rotted' = IF rotted = "no" THEN "no" ELSE "before"
  /\ importer' = IF Verifies THEN "check" ELSE "idle"
  /\ UNCHANGED <<left, burned, files, manifest, origin, source, export, home>>

IsNoVault(dir) == \E n \in Name : dir[n] = Absent  \* MUTANT of IsClear: half a vault is no vault

IsClear(dir) == Present(dir) = {}

check_destination ==
  /\ importer = "check"
  /\ IF IsClear(dest) \/ force
     THEN importer' = "copy" /\ left' = Present(files)
     ELSE importer' = "idle" /\ UNCHANGED left
  /\ UNCHANGED <<force, fault, restored, source, export, disc, home>>

(***************************************************************************)
(* std::fs::copy, as an ordinary user: it needs a file it can write, and   *)
(* gives it the mode of the disc, where `mkisofs -r' (att:612) has removed *)
(* the permission to write.  It follows links.                             *)
(***************************************************************************)
CopyLinks(n) ==  \* MUTANT of CopyEntry: a link is copied as a link
  /\ importer = "copy" /\ n \in left /\ left' = left \ {n} /\ n \notin readonly
  /\ dest' = [dest EXCEPT ![n] = files[n]] /\ readonly' = readonly \cup {n}
  /\ UNCHANGED <<importer, force, fault, restored, source, export, disc>>

CopyIfNew(n) ==  \* MUTANT of CopyEntry: what is there already is taken as copied
  /\ importer = "copy" /\ n \in left /\ left' = left \ {n}
  /\ files[n] \in Data \cup {Torn} /\ n \notin readonly
  /\ IF dest[n] # Absent THEN UNCHANGED dest ELSE dest' = [dest EXCEPT ![n] = files[n]]
  /\ readonly' = readonly \cup {n}
  /\ UNCHANGED <<importer, force, fault, restored, source, export, disc>>

CopyEntry(n) ==
  /\ importer = "copy" /\ n \in left /\ left' = left \ {n}
  /\ files[n] \in Data \cup {Torn} /\ n \notin readonly
  /\ dest' = [dest EXCEPT ![n] = files[n]] /\ readonly' = readonly \cup {n}
  /\ UNCHANGED <<importer, force, fault, restored, source, export, disc>>

Aborts == importer' = "idle" /\ left' = {}

LinkIsNotCopied(n) ==
  /\ importer = "copy" /\ n \in left /\ files[n] = Link /\ Aborts
  /\ UNCHANGED <<force, fault, restored, source, export, disc, home>>

CannotOverwrite(n) ==
  /\ importer = "copy" /\ n \in left /\ n \in readonly /\ Aborts
  /\ UNCHANGED <<force, fault, restored, source, export, disc, home>>

InstallTools ==
  /\ importer = "copy" /\ left = {} /\ importer' = "tools"
  /\ UNCHANGED <<force, left, fault, restored, source, export, disc, home>>

Success ==
  /\ importer = "tools" /\ importer' = "idle" /\ restored' = TRUE
  /\ UNCHANGED <<force, left, fault, source, export, disc, home>>

\* An I/O error, or the end of the process, possibly amid a file.
ImportFails ==
  /\ importer # "idle" /\ Aborts /\ fault' = TRUE
  /\ \/ UNCHANGED home
     \/ \E n \in left \ readonly :
          /\ importer = "copy" /\ files[n] # Link
          /\ dest' = [dest EXCEPT ![n] = Torn] /\ readonly' = readonly \cup {n}
  /\ UNCHANGED <<force, restored, source, export, disc>>

(***************************************************************************)
(* External: before another attempt, somebody makes the files writable, or *)
(* removes them.                                                           *)
(***************************************************************************)
TidyUp ==
  /\ importer = "idle" /\ readonly # {} /\ readonly' = {} /\ restored' = FALSE
  /\ dest' \in {dest, Nothing}
  /\ UNCHANGED <<importer, force, left, fault, source, export, disc>>

-----------------------------------------------------------------------------
InUse == \/ OpenVault \/ CloseVault \/ HelperRuns \/ HelperEnds
         \/ \E n \in Name, e \in Entry : Change(n, e)
Exporting == \/ Export \/ CopyTools \/ WriteManifest \/ Burn \/ ExportFails
             \/ \E n \in Name : CopyToStage(n)
Restoring == \/ check_destination \/ InstallTools \/ Success
             \/ \E n \in Name : CopyEntry(n) \/ LinkIsNotCopied(n) \/ CannotOverwrite(n)

Next == \/ InUse \/ Exporting \/ \E n \in Rotting : Rot(n)
        \/ Import \/ Restoring \/ ImportFails \/ TidyUp

Spec == Init /\ [][Next]_vars

\* attache-import waits for nobody.
FairSpec == Spec /\ WF_vars(Restoring)

-----------------------------------------------------------------------------
(***************************************************************************)
(* Whatever happened to the vault during the export, the disc it wrote     *)
(* passes its own verification as long as it has not rotted (att:573).     *)
(***************************************************************************)
DiscVerifies == burned /\ rotted = "no" => Verifies

(***************************************************************************)
(* After a reported success every file the manifest lists is at the        *)
(* destination with what is listed, and if the disc has not rotted at all, *)
(* so is everything the export saw, also when it was forced over the       *)
(* remains of another import (lib.rs:76-112).  A file whose line is gone   *)
(* from the disc, or was changed with it, is installed as it is: the       *)
(* verification knows nothing but the lines it finds (manifest.rs:69-86).  *)
(***************************************************************************)
InstalledIsExported ==
  restored /\ rotted # "since" =>
    /\ \A n \in Name : manifest[n] # Absent => dest[n] = manifest[n]
    /\ rotted = "no" => \A n \in Present(origin) : dest[n] = origin[n]

(***************************************************************************)
(* Without --force an import changes nothing that is at the destination,   *)
(* its own files included (install.rs:22-34).                              *)
(***************************************************************************)
DestinationKept ==
  [][importer # "idle" /\ ~force => \A n \in Present(dest) : dest'[n] = dest[n]]_vars

(***************************************************************************)
(* A disc without symbolic links that verified is restored to a clear      *)
(* destination, unless an I/O error or more rot comes (lib.rs:72-102).     *)
(***************************************************************************)
HasLinks == \E n \in Name : files[n] = Link

CleanRestore == (importer = "copy" /\ ~force /\ ~HasLinks) ~> (restored \/ fault \/ rotted = "since")

-----------------------------------------------------------------------------
(***************************************************************************)
(* att:539-546: "is_mounted alone is sufficient", "so the export is a      *)
(* consistent snapshot".  So what is burned is the vault as it was, all at *)
(* once, at some time of the export.                                       *)
(***************************************************************************)
ExportIsSnapshot == [][Burn => stage \in seen]_vars

(***************************************************************************)
(* lib.rs:63: the destination has an Attache; "pass --force to overwrite". *)
(***************************************************************************)
ForceOverwrites == [][\A n \in Name : ~(force /\ CannotOverwrite(n))]_vars
=============================================================================
