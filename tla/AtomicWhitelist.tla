--------------------------- MODULE AtomicWhitelist --------------------------
(***************************************************************************)
(* What Whitelist (attache-gate/src/whitelist.rs) promises to the rest of  *)
(* the system: a set of hashes in memory while a process has the vault, a  *)
(* set of hashes on disk, and a disk that changes in one indivisible step, *)
(* to exactly what is in memory, or to nothing when the closed vault's     *)
(* whitelist is removed.  No torn file, no temporary file, no system call. *)
(***************************************************************************)
CONSTANT Hash

VARIABLES loaded,  \* a process has the vault
          mem,     \* its entries
          disk     \* the entries the next process will load

avars == <<loaded, mem, disk>>

Closed == loaded = FALSE /\ mem = {}

AInit == Closed /\ disk = {}

ALoad   == ~loaded /\ loaded' = TRUE /\ mem' = disk /\ UNCHANGED disk

ALoadAdd(h) ==  \* a helper loads and adds before anyone can look
  ~loaded /\ loaded' = TRUE /\ mem' = disk \cup {h} /\ UNCHANGED disk

AAdd(h) == loaded /\ mem' = mem \cup {h} /\ UNCHANGED <<loaded, disk>>
AClear  == loaded /\ mem' = {} /\ UNCHANGED <<loaded, disk>>
ACommit == loaded /\ disk' = mem /\ UNCHANGED <<loaded, mem>>
ARemove == ~loaded /\ disk' = {} /\ UNCHANGED <<loaded, mem>>
AClose  == loaded /\ Closed' /\ UNCHANGED disk

ANext == \/ ALoad \/ AClear \/ ACommit \/ ARemove \/ AClose
         \/ \E h \in Hash : AAdd(h) \/ ALoadAdd(h)

ASpec == AInit /\ [][ANext]_avars
=============================================================================
