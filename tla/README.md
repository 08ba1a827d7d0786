# Attache in TLA+

A verification development for Attache: TLA+ modules translated from the source,
the TLC runs that check them on small instances, and TLAPS proofs of what holds
for every instance. `PROJECT.json` lists the components, the runs, the source
lines each definition stands for, the hazards and the theorems.

## 1. The system

Attache keeps a gocryptfs vault (`~/.attache`). While it is open, the decrypted
view is mounted in a private mount namespace and reached only through a FUSE
mount served by `attache-gate`, which asks the user before a program it does not
know may open, create, change or remove anything.

| component | state | operations | talks to |
|---|---|---|---|
| `policy.rs` AuthPolicy | session cache: hash -> allow / deny | `decide` | whitelist (mutex), zenity dialog |
| `whitelist.rs` Whitelist | list of approved hashes; `.attache-gate-whitelist.json` | `load`, `is_allowed`, `add`, `clear`, `persist` | the vault's directory |
| `control.rs` | none of its own | ALLOW-ALWAYS, RESET-WHITELIST, LIST-WHITELIST, STATUS, one connection at a time | whitelist, activity clock, zenity confirmation |
| `process_info.rs` | none | `resolve`: pid -> hash of the binary | /proc |
| `passthrough_fs.rs` | open handles, next handle, activity clock | the FUSE requests, on 4 to 16 worker threads | inode table, AuthPolicy, the vault's directory |
| `inode_table.rs` | number <-> path, next number | `ino_for`, `rename`, `forget_path`, `path` | passthrough_fs (mutex) |
| `main.rs` | none | start the control thread, mount, serve, unmount | all of the above |
| `attache-mount-helper.rs` | mount namespace | `setup`, `run` (execs the gate), `allow-always`, `reset-whitelist`, `list-whitelist` | gocryptfs, whitelist file |
| `att` (life cycle) | pid file, password fifo, mount table | `open`, `close`, the manager with its idle timeout | helper, gate, control socket, logind |
| `att`, `duress.rs` | duress hash | `duress`, `oblivion`, the duress branch of `open` | life cycle, gocryptfs |
| `att`, `attache-import` | export directory, manifest | `export`, `attache-import` | files |

What is hard about it, and what each part must guarantee:

* **Access decision.** Several workers decide at once, a decision may wait for a
  human for minutes with no lock held, and the control thread changes the same
  whitelist. No access without an approval; an approval the user was told is
  recorded is honoured from then on; no program waits for a dialog about another.
* **Whitelist.** The process may end between any two system calls of `persist`,
  and each of them may fail. The file must always be a complete old or new list.
* **File system.** A request computes its paths first, waits for the decision,
  then acts on the directory, then updates the inode table; other workers run in
  between. The kernel must never be told that one number is two files, and no
  request may take the name of the whitelist file, whatever is moved around it. A
  symbolic link at a path that was computed earlier is followed, to any file.
* **Life cycle.** The manager polls the gate and unmounts later; `open`, `close`,
  the helper and the manager overlap. The vault closes when idle and not while in
  use; one process has the whitelist file at a time.
* **Duress and oblivion.** Only a password that was saved next to the real one
  destroys the vault, the key goes first, and a destruction that has begun ends.
* **Export and import.** The disc passes its own verification, even when the vault
  changes under the copy; a reported import has installed what the manifest lists,
  and an import that fails or is repeated destroys nothing that was there.

`PROJECT.json` "hazards" names the line where each of these bites.

## 2. The modules

### WhitelistFile, AtomicWhitelist

`WhitelistFile` holds what the whitelist file can contain (absent, torn, complete)
and what `load` makes of it. Entries are sets of hashes: `add` replaces an entry
of the same hash and nothing but the hash is ever compared, so the list's order
and labels decide nothing.

`AtomicWhitelist` is the promise: a set in memory, a set on disk, and a disk that
changes in one step to exactly what is in memory (or is removed while closed).

### AuthPolicy

One action per stretch of code between two points where another thread can run.

| code | actions |
|---|---|
| `authorize`, `resolve` | `Authorize`, `Unresolved`, `Reply` |
| `decide`: whitelist under its mutex | `CheckWhitelist` |
| `decide`: cache under its mutex | `CheckCache`, `StoreDecision` |
| `ask`, no lock held | `AnswerAllowOnce`, `AnswerAllowAlways`, `AnswerDeny`, `AutoDeny` |
| `add`, `clear` and `persist` with the mutex held | `AddToWhitelist`, `CtlAdds`, `CtlClears`, then `PersistOpen`, `PersistWrite`, `PersistRename` or `PersistFails` |
| `handle_connection` | `CtlReceive`, `CtlConfirmed`, `CtlRefused`, `CtlHashes`, `CtlHashFails`, `CtlLists` |
| `PassthroughFs::new`, end of the process at any point | `Start`, `Exit` |
| helper on a closed vault | `HelperAllow`, `HelperReset` |

`holder` is the thread inside the whitelist mutex, `step` the next system call of
`persist`. The cache mutex is never held across anything, so its critical
sections are single steps. `once`, `always`, `durable` and `dirty` are history:
what the user answered and what the code acknowledged. A reset revokes `always`
only when it completes; an "Always Allow" that was answered before and still
waits for the mutex is not revoked by it, because it will be added afterwards.
AutoDeny covers the timeout, the missing graphical session and a zenity that
cannot be run, which all return `Deny`.

`AuthPolicyClaims` adds the history needed to state what a comment and a dialog say
of a reset and the code does not do. `MCAuthLiveness` is the instance in which
liveness is checked: one session of the gate with two binaries (section 3).

### InodeTable

The two maps and the counter; each operation is one step, as it runs under one
mutex. A missing number is `NoIno`, a missing path `NoPath`.

### PassthroughFs

The requests of several workers over the inode table and a small directory tree.
Each request goes through `Receive...` (paths computed, the whitelist file
refused), `Authorized` or `Refused`, one action on the backing directory
(`BackingFails` whenever the call fails), and one action on the table with the
reply. `readdir` numbers its entries one by one. A lookup and a listing are not
authorized.

The kernel and the backing directory are external. Of the kernel, the model keeps
what the safety of the table depends on: it sends a request only for a number an
entry reply gave it, never looks up a name in something that is not a directory,
and holds the parent's lock while a name in it is looked up (shared) or changed
(exclusive). Of a directory that is removed it holds the lock too, so that nothing
is at work in it: without this one the number of a directory that is made again
under the same name can be told for both. `told` is what the kernel was told each number is. Which binary asks
and how it is decided is AuthPolicy's business: here authorization ends with
either answer after any delay. Not in the tree: the temporary file of `persist`,
contents and attributes of files.

The handlers call `open`, `truncate`, `chmod`, `chown` and `utimens` on a path, and
these follow a symbolic link that is there by then. Whoever makes a link chooses
its text, so `Follow` lets `Open`, `Setattr` and `Create` end at any path when the
last name, or a directory on the way, is a link. `setattr` is sent for a link
itself (`chown -h`). A `create` is never sent for a name that is a link: the kernel
has looked the name up under the directory's lock, and follows the link itself.
`altered` remembers that the whitelist file was truncated or got other attributes.

### VaultLifecycle

The processes around one vault and what they share without a lock: the pid file,
the password fifo, the mount table, the control socket and the signals.

| code | actions |
|---|---|
| `open_attache` | `OpenVault`, `SpawnManager`, `PasswordTyped` or `NoPassword`, `OpenSucceeds`, `OpenGivesUp`, `AwaitsEnd`, `OpenFails` |
| `feed_password` | `FeedPassword`, `FeedBlocks`, `FeedTimesOut` |
| `close_attache` | `CloseVault`, `Closed`, `ForceClose` |
| `do_shutdown`, in a manager or in `close` | `UnmountVault`, `DetachVault`, `ReapGate`, `CleanUp` |
| `cmd_manager` and its traps | `ManagerStarts`, `Trap`, `SeesMount`, `WaitFails`, `Loop`, `Wake` |
| `has_activity`, `status` | `AskClock`, `AskHandles`, `NoAnswer`, `Search` |
| `start_event_watch`, logout | `SessionEnds` |
| helper `run`, then the gate | `OpenFifo`, `GateMounts`, `GateEnds`, `GateCrashes` |
| programs (external), the idle window | `OpenFile`, `ReadWrite`, `CloseFile`, `IdleWindowPasses` |

`pc` is where each command and each manager is; the managers are identified by
themselves (a process number that is never used again) and `gate[m]` is the child
`GATE_PID` of manager m. `mounts` is the stack of attache-gate mounts: the code
reads only the topmost, as `is_mounted` does, and a mount whose gate is gone stays
listed. A helper that had opened the fifo keeps it when it is removed (`orphan`).
Files of a gate are one flag, `inUse`; `recent` stands for a last activity within
`CHECK_INTERVAL_MIN`, `modified` for a file newer than `STAMPFILE`.

The bash commands of a step run one after the other in the code; one action is
what lies between two points where what another process does can matter. A trap
waits for the command in progress, so it is not taken in `check`, `handles` and
`search`; of these only the search can last (`lsof +D` over a mount whose workers
may wait for dialogs), and it is what makes the 5 seconds of `open` and `close` run
out (`Busy`). All other waits end early at any moment, except that 10 s and 60 s
are longer than a process needs to start.

### DuressOpen

`open` seen from its password: it is tried, the vault is mounted or not, and only
then the duress file is asked. The processes of VaultLifecycle are one step here
(`Mounts`, `NotMounted`), because the code looks at nothing but the outcome.

| code | actions |
|---|---|
| `open_attache` | `OpenVault`, `TypePassword` or `NoPassword`, `Mounts`, `Opened`, `NotMounted`, `CheckDuress` |
| `destroy_vault` | `ShredKey` (one file after the other), `ShredHash`, `DeletePayload`, `DeleteState`; `DeleteGraveyard` in the background |
| `duress_open` | `InitDecoy`, `ReopenVault`; `Interruptible` is its trap |
| `cmd_oblivion` | `Oblivion`, `ConfirmOblivion`, `ReportOblivion` |
| `cmd_duress`, `duress.rs` `set` and `matches` | `SetDuress`, `VerifyReal`, `CreateTmp`, `WriteTmp`, `RenameTmp`, `SetFails`, `SelfTest`, `RemoveDuress`; `Matches` |
| `cmd_init`, `close_attache` | `cmd_init`, `CloseVault` |
| `gocryptfs -passwd`, a damaged file, Ctrl-C, the end of power | `ChangePassword`, `DamageDuress`, `Interrupt`, `PowerCut` |

`keys` is what `gocryptfs.conf*` stands for: the password each copy of the master
key is wrapped with. `payload` says that there is ciphertext, `grave` what was
moved aside and whether a key went along. Every step of a destruction may fail and
the next is taken all the same; `faults` remembers what went wrong. `confirmed`
and `armed` are history too: which passwords somebody who knew the real one wanted
as duress passwords, and which one the program last reported as set.

### ExportImport

`att export`, the disc, and `attache-import`, each entry of the vault copied in a
step of its own.

| code | actions |
|---|---|
| the vault in use: `is_mounted`, `run_helper_with_password` | `OpenVault`, `CloseVault`, `HelperRuns`, `HelperEnds`, `Change` |
| `cmd_export` | `Export`, `CopyToStage`, `CopyTools`, `WriteManifest`, `Burn`, `ExportFails` |
| the disc (external) | `Rot` |
| `run`, `manifest::verify`, `check_destination` | `Import` with `Verifies`, `check_destination` |
| `copy_dir_recursive`, the bundled programs | `CopyEntry`, `LinkIsNotCopied`, `CannotOverwrite`, `InstallTools`, `Success`, `ImportFails` |

A directory is a function from names to what is there: contents, a symbolic link,
nothing, or something torn. What the disc holds of a checksum is the content it is
the sum of (`Sums`): two contents with one SHA-256 are left out. `readonly` are
the files at the destination that an ordinary user cannot write: `mkisofs -r`
takes the write permission from everything on the disc and `std::fs::copy` passes
the mode on. `Rot` covers age and tampering alike: nobody signs the manifest, so a
file and its line may become anything, or go, one without the other or together.
`Verifies` then says what `manifest.rs` does: it holds of the lines it finds.

### How they are put together

PassthroughFs EXTENDS InodeTable and drives its operations; it is checked and
proved to implement `TableSpec`. AuthPolicy implements AtomicWhitelist by
`INSTANCE`. DuressOpen and ExportImport stand on an abstraction of what
VaultLifecycle has in detail: an open that mounts or does not, and a vault that is
in use or not.

The operators whose comment says MUTANT change one definition the way a plausible
bug would. Nothing uses them; putting one in the place of its original makes TLC
report the property it is meant to break (`PROJECT.json` "mutants").

## 3. The runs

| run | instance | shows |
|---|---|---|
| auth_policy_safety | 2 workers, 2 binaries | the safety of decisions and of the whitelist, and that it implements AtomicWhitelist |
| auth_policy_liveness | 2 workers, 2 binaries, one session | with no human at all every request is decided if prompts time out, and a decided one waits for no dialog, about its own binary or another, even if they do not |
| passthrough_fs | 2 workers; 2 names, a name below each, a file and either a directory or a link to be made; or 1 name, a name below it, 2 files and 2 directories to be made | files never confused, whitelist untouched by its name, table used as specified, its numbers right and never reused |
| vault_lifecycle | 1 command at a time, 2 managers | nothing left behind: password, unused vault, waiting command, gate after a signal; no idle close on a held file |
| duress_open | 1 terminal that opens, 1 that runs duress and oblivion, 2 passwords | who destroys, what is left wherever it stops, that it ends |
| export_import | 2 names, 2 contents, a link; up to 2 changes during an export; one disc that rots at one name, any number of imports | the disc verifies, what an import has installed, kept and must achieve |

Two workers and the control thread give every pair of threads that can meet at a
lock; a third worker repeats the role of one of them (the theorems cover any
number). Two binaries are what it takes for a decision to reach the wrong one.
It is what liveness needs as well, for a prompt about one binary must not hold up a
request of the other. `MCAuthLiveness` restricts the rest: one session, in which the
first worker and the control thread deal with the first binary and the second worker
with both; and either both are asked about and every `persist` succeeds, or only the
first is, `persist` may fail, and nobody presses "Allow Once". Worker sets are
symmetric in the safety runs, and only there.

In PassthroughFs the numbers, the handle and the objects to be made are bounds
(`Ino`, `MaxNumber`, `MaxFh`, `Obj`): the model stops handing out what is used up,
which is why this run does not check for deadlock. Its initial states are of two
vaults (`top`). The wide one has two names, for renames and links between two
others' steps, and room for a name to be removed and made again with another
object. What it leaves out is a directory made twice with requests in flight for
the first; the deep one has it, with one name, two directories, two files and four
numbers. It is also the smallest vault in which the lock of the removed directory
matters: without it (`ReceiveNameOp` locking the parent alone) TLC finds
`NumbersNameTheirFile` violated there. A behaviour is not followed once `altered` is
set: no guard reads it, so that another behaviour does the same without it.

In VaultLifecycle two managers let one that ends late meet the next one, at every
point of both; no third is started, which is why the run does not check for
deadlock. One command runs at a time. For the two safety properties these are not
bounds: they are proved for any number of commands and managers (section 4). They
bound what liveness is checked for. Larger instances are why two exceptions are in
the safety properties: the mount of a killed gate makes an `open` report success
and leave its password behind (`PasswordNotLeft`), and a manager whose mount is
covered by another's asks the wrong gate for activity
(`IdleCloseSparesHeldFiles`). Both have the cause that `claim_open_is_closable`
shows in the smallest case: nothing keeps two managers, or two commands, from
working on the same files.

DuressOpen has one terminal that opens and one that changes the duress password or
destroys, which gives each pair of a destruction and something else; two
destructions at once, and two `att duress`, which share a temporary file, are kept
out by the guards (`NoneDestroys`, `SetDuress`). Two passwords let the real one be
changed to the duress one. In ExportImport a second content and a second name are
what a copy needs to be a mixture of two states; `MaxSeen` bounds the changes of
one export, and the machine is not followed once its disc is burned. The disc rots
at one of the two names (`Rotting`), in every way: its file, its line, or both; the
theorems have it rot anywhere.

Fairness (`CodeRuns`): a thread that can run does, and system calls return (weak
fairness of `Persist`, of the cache steps and of the reply); a thread waiting for
the whitelist mutex gets it eventually although others take it in between (strong
fairness: the mutex is a futex with a woken waiter in competition, and starvation
by an endless stream of others is excluded by assumption). `PromptsTimeOut`, a
premise of `RequestDecided` alone, is justified by `zenity --timeout` (policy.rs:222-249, 120 s unless configured).
No human action is fair, and neither is a confirmation, which has no timeout.
In VaultLifecycle (`Fairness`) the steps of commands, managers, helpers and gates
are weakly fair: they are processes of their own, and each wait has a timeout. So
is the passing of the idle window. Users, programs, crashes and the end of the
session are not fair.
In DuressOpen a destruction and what follows it in `att open` go on (they wait for
nobody), and so does the deletion in the background; in ExportImport the steps of
`attache-import` do. Failures, rot and interruptions are never fair.
A STATUS or LIST connection that never sends its line would hold the control
thread as well; it holds no lock, so no worker depends on it.

Six runs expect a violation. Each checks one sentence of a comment, a help text,
a message or the documentation, quoted in the comment of its property and in
`PROJECT.json` "findings":

* a reset does not touch session approvals;
* a manager that ends late removes the pid file of the next one, and the open vault
  has no manager that `close` or `open` knows of;
* the real password destroys the vault when it was changed to the duress password
  and mounting fails for another reason;
* a symbolic link leads `setattr` to the whitelist file, and so does one that took the
  place of a file whose `open` waited for its dialog;
* the disc is a mixture of two states of the vault when a maintenance command has the
  vault mounted during the copy, which `is_mounted` does not see;
* a forced import cannot overwrite what an earlier import has installed.

Met while modelling, and stated with the hazards only: an unanswered prompt denies its
binary for the whole session, where the help text speaks of that one access
(att:1089); a symbolic link in the vault ends the import of a disc that verified,
which is why `CleanRestore` speaks of discs without links; "catching disc rot or
tampering" (README.md:310) is true of the lines the disc still has, and a manifest
that lost lines, or whose line was changed with its file, verifies
(manifest.rs:17-26, 69-86); a failed `persist` leaves
memory and file different until the next restart; the contents of a renamed
directory lose their numbers; an `open` that waited for its dialog may open what
has got the name since; a gate that mounts while its manager shuts down is killed
while mounted.

## 4. The proofs

Every safety invariant and action property that a passing run checks is proved,
in seven modules: `AuthPolicyProofs`, `InodeTableProofs`, `PassthroughFsProofs`,
`FileNumbersProofs`, `VaultLifecycleProofs`, `DuressOpenProofs` and
`ExportImportProofs`.

The first two, for any set of workers, binaries, paths and numbers, start from
the assumptions that the named threads are distinct (`ThreadsDistinct`), that
`NoHash` and `NoPath` are not values (`NoHashIsNone`, `NoPathIsNone`), and that
numbers are positive with the root's among them.

The safety properties of AuthPolicy are not inductive: that the file only holds
approved hashes depends on what is about to be renamed over it, and that depends
on who is inside the mutex. `Inv` is their strengthening, in five parts:

* `ProcessInv`: no thread is anywhere when its process is down;
* `LockInv`: being inside `persist` and holding the mutex are the same;
* `HashInv`: a thread that decides or adds has a hash;
* `ApprovalInv`: entries, file, pending adds and cached permissions were approved;
* `PersistInv`: between write and rename the temporary file is the list in memory;
  the holder's hash is in it (or the list is empty, in a reset); what was
  acknowledged is in the file and in memory.

Each group of actions keeps `Inv` (`PersistKeepsInv`, `DecideKeepsInv`,
`ControlKeepsInv`, `LifecycleKeepsInv`), one step per action and one per part
under it. From `Inv` follow `TypeCorrect`, `ApprovalsAreDurable` and
`MemoryIsInSync`; with one lemma per kind of step, the action properties
`AllowedIsApproved` and `AcknowledgedIsHonoured`; and `ImplementsAtomic`, where
every step is mapped to a step of AtomicWhitelist or to none.

`TableLeadsBack` and `TableNeverReuses` rest on `TableInv`: besides leading back,
no number at or above the counter is in use.

`PassthroughFsProofs` shows that every step of the file system is one call of the
table, never for the root, or leaves it alone (`FsImplementsTable`): the table
theorems then hold in the file system. `WhitelistKept` is the other main result: the
whitelist file is at its name and no other, and has no number. It says nothing of
what is opened or changed through a link, where the claim fails.
It is not inductive, because a request carries paths that were computed long
before they are used. `Inv` adds what `Accept` established and nothing later takes
back: no path of a request at work is protected, and none that names an entry is
the root (`RequestInv`). That this is enough for a rename rests on two facts about
paths: nothing that is neither the root nor protected is above the whitelist file
(`NotBelow`), and nothing moved below such a path lands on it (`NotMovedThere`).

`DuressOpenProofs`: `Inv` says which command can be where (`CommandInv`), that one
destroys and one saves at a time (`OneAtATime`, the bound of the model), what a
destruction has done by each of its steps unless that step failed (`ProgressInv`),
and that every hash in the duress file, or on its way there, is of a confirmed
password (`ConfirmedInv`). `KeyGoesFirst` needs the second and third,
`OnlyConfirmedDestroys` the last. From the
assumption that `None`, `Torn` and the passwords are distinct.

`ExportImportProofs`: `DiscInv` says that a disc that never rotted holds the stage and
its sums, `CopyInv` what an import has copied by each of its steps: the copied part of
the destination is what the disc holds, as long as the disc has not rotted since it
was verified, and verification makes that what the manifest lists. Without
`--force` the part left to copy is empty at the destination, which is why nothing
is overwritten. From the assumption that the kinds of entries are distinct.

`VaultLifecycleProofs`: the password may lie in a plain file in the middle of an
open, and which process will remove it changes. The invariant names the places:
while the file is there, something is mounted or some process is between the point
where the password can be written and its own `rm` of the fifo (`Cleaning`,
`PasswordInv`). A trap inside that stretch leads to `do_shutdown`, which has the
`rm`; whoever kills a manager does its cleaning; whoever takes the last mount away
is in `do_shutdown` itself; and an `open` that leaves the stretch successfully has
seen a mount. `PasswordIsRemoved` follows. `IdleCheckSpares` needs that a held file
is in use (`HeldInv`) and that nothing but the answer of a gate, or a search, ends
an idle check with closing (`OnlyChecksClose`). From the assumption that commands
and managers are distinct processes.

`FileNumbersProofs` is about the one property of the file system that neither the
table nor a single request is responsible for: `NumbersNameTheirFile`. Its
invariant (`NumbersInv`) has a part that always holds,

* `LockInv`: two requests share a directory's lock only when both just read names;
* `ToldInv`: the kernel was told nothing of a number that was not given out;

and a part (`CalmInv`) that holds until a rename replaces a name or moves a
directory,

* `TreeInv`: what exists is in directories;
* `BackInv`: the path of a number has this number, the converse of
  `NumbersLeadBack`;
* `LiveInv`: a path with a number exists, or the request that has removed it is
  just about to tell the table;
* `FileInv`: a known number is one file, the one at its path if there is one;
* `HoldInv`: what a request computed when it came is still so. Its names are in the
  directories it has the locks of, the directory it removes is the one it has
  locked, what it has found, made or moved is where it was, and where it creates
  there is no link.

The steps fall into three kinds, each with a lemma of its own: those that change
only a request (`QuietKeepsCalm`), those on the backing directory, which change
only names the request holds (`TreeKeepsCalm`), and those on the table
(`TableKeepsHolds`, `TableKeepsCalm`). The central fact is `SameName`: of two
requests that hold one name, both only look it up, because the name determines the
directory, the directory its number (`BackInv`) and the number the lock. A listing
needs the same (`ListedName`). A path that loses its number is one nobody else
holds; a number that loses its path is not a directory, or one whose lock the
request has. `PlainRename` shows what is left of `fs::rename` in a calm tree: two
names change and nothing else. Links do not disturb this: the directory of a name
that is held exists and is no link (`DirectoryThere`), so a create makes or opens
the file at its own path (`CreateInPlace`). Used besides the assumptions above: a path's parent
is a path (`PathsClosed`).

Only model-checked: liveness (`RequestDecided`, `DecidedNeverWaits`,
`UnusedVaultCloses`, `CommandsReturn`, `SignalCloses`, `DestructionFinishes`,
`CleanRestore`), which needs fairness and ENABLED and so is beyond the prover.

## 5. What is not modelled

* Power loss: `persist` does not call fsync, so what survives depends on disks and
  gocryptfs. A crash here is the end of a process.
* In the life cycle: liveness with two commands at a time (the module allows them
  and its theorems are about any number, the runs have one), a wall clock that is set back, reuse of process numbers, the
  private backing mount a killed gate leaves behind, and `note` driving open and
  close.
* In the duress path: the shredding of logs and directory IVs, a `~/.attache` that
  is a link to another disk, what a disk keeps of an overwritten file, and two
  destructions or two `att duress` at once.
* In export and import: the bundled programs as contents (the manifest does not
  list them), an importing user who is root (for whom no file is read-only), other
  writers at the destination, and any disc but the first.
* Attributes and contents of files (but for the whitelist file's, see `altered`) and
  the flags of `rename`. After a directory was replaced by a link, only `Open`,
  `Setattr` and `Create` go through it, the other requests fail there. Left out
  altogether are the requests that change nothing: getattr, readlink, statfs,
  opendir, releasedir, flush.
* A poisoned mutex: no code panics with one held.
* A helper and a gate at once: `att` checks that nothing is mounted before it runs
  the helper, and AuthPolicy takes this check as if it were atomic. Two processes
  with one whitelist file would share its temporary file as well.
* Installation scripts, CI, `note`, `status`, `denied`, `help`.

## 6. Plan

Done, in this order: WhitelistFile, AtomicWhitelist and AuthPolicy; InodeTable;
PassthroughFs on top of it; VaultLifecycle; DuressOpen; ExportImport; the proofs
of section 4.

Left:

* CrossProcess: the helper and the gate, or two helpers, on one whitelist file
  without the atomic check. Abstract specification: AtomicWhitelist with two
  memories.
