----------------------------- MODULE AuthPolicy -----------------------------
(***************************************************************************)
(* The access decision of attache-gate: AuthPolicy::decide (policy.rs) run *)
(* by the FUSE worker threads, the persistent Whitelist it shares with the *)
(* control thread (whitelist.rs, control.rs), the end and the restart of   *)
(* the gate at any instruction, and the maintenance commands `att' runs    *)
(* through attache-mount-helper while the vault is closed.                 *)
(*                                                                         *)
(* Every step between two points where another thread can run is an        *)
(* action: taking the whitelist mutex, the cache mutex, the prompt (no     *)
(* lock held), and each system call of Whitelist::persist, which runs with *)
(* the whitelist mutex held.                                               *)
(***************************************************************************)
EXTENDS WhitelistFile

CONSTANTS Worker,   \* the FUSE dispatch threads of one gate
          Control,  \* its control-socket thread
          Helper,   \* the thread of a maintenance helper
          NoOne,    \* the whitelist mutex is free
          NoHash    \* no binary

ASSUME ThreadsDistinct == /\ Control \notin Worker /\ Helper \notin Worker
                          /\ NoOne \notin Worker
                          /\ Control # Helper /\ Control # NoOne /\ Helper # NoOne
ASSUME NoHashIsNone == NoHash \notin Hash

VARIABLES
  up,       \* the process that has the vault: "none", "gate" or "helper"
  entries,  \* its Whitelist.entries
  holder,   \* the thread that holds the whitelist mutex
  step,     \* the next system call of the persist() in progress, or "idle"
  file,     \* the whitelist file
  tmp,      \* the temporary file next to it
  cache,    \* AuthPolicy.cache: a Decision per hash, or "none"
  pc,       \* where each worker is in authorize() / decide()
  hash,     \* the ProcessIdentity.sha256 each worker decides about
  ctl,      \* where the control thread is in handle_connection()
  ctlCmd,   \* the command the control thread or the helper executes
  ctlHash,  \* the hash it is about to add
  \* History of what the user was told and what the user said.
  once,     \* hashes answered "Allow Once" since the gate started
  always,   \* hashes approved for always, and not revoked by a completed reset
  durable,  \* hashes whose add() returned Ok, until the next reset begins
  dirty     \* the last persist() of this process returned an error

file_vars  == <<file, tmp>>
list_vars  == <<entries, holder, step>>
work_vars  == <<cache, pc, hash>>
ctl_vars   == <<ctl, ctlCmd, ctlHash>>
ghost_vars == <<once, always, durable, dirty>>
vars == <<up, file_vars, list_vars, work_vars, ctl_vars, ghost_vars>>

Decision  == {"allow", "deny"}
WorkerPC  == {"idle", "whitelist", "cache", "ask", "storeAllow", "storeDeny",
              "lock", "persist", "allow", "deny"}
ControlPC == {"accept", "confirm", "hash", "lock", "persist"}
Command   == {"ALLOW-ALWAYS", "RESET-WHITELIST", "LIST-WHITELIST"}

TypeOK ==
  /\ up \in {"none", "gate", "helper"}
  /\ entries \in SUBSET Hash
  /\ holder \in Worker \cup {Control, Helper, NoOne}
  /\ step \in {"idle", "open", "write", "rename"}
  /\ file \in FileContent
  /\ tmp \in FileContent
  /\ cache \in [Hash -> Decision \cup {"none"}]
  /\ pc \in [Worker -> WorkerPC]
  /\ hash \in [Worker -> Hash \cup {NoHash}]
  /\ ctl \in ControlPC
  /\ ctlCmd \in Command \cup {"none"}
  /\ ctlHash \in Hash \cup {NoHash}
  /\ once \in SUBSET Hash
  /\ always \in SUBSET Hash
  /\ durable \in SUBSET Hash
  /\ dirty \in BOOLEAN

(***************************************************************************)
(* What a process that does not run has in memory.                         *)
(***************************************************************************)
NoProcess ==
  /\ up = "none"
  /\ entries = {} /\ holder = NoOne /\ step = "idle"
  /\ cache = [h \in Hash |-> "none"]
  /\ pc = [w \in Worker |-> "idle"] /\ hash = [w \in Worker |-> NoHash]
  /\ ctl = "accept" /\ ctlCmd = "none" /\ ctlHash = NoHash
  /\ once = {} /\ dirty = FALSE

Init == /\ NoProcess
        /\ file = Absent /\ tmp = Absent
        /\ always = {} /\ durable = {}

-----------------------------------------------------------------------------
(***************************************************************************)
(* Whitelist::add and Whitelist::clear change the entries in memory first, *)
(* then persist.  Both run to the end with the mutex held by `thread'.     *)
(***************************************************************************)
BeginAdd(thread, h) ==
  /\ entries' = entries \cup {h}
  /\ holder' = thread
  /\ step' = "open"
  /\ UNCHANGED durable

BeginClear(thread) ==
  /\ entries' = {}
  /\ holder' = thread
  /\ step' = "open"
  /\ durable' = {}

(***************************************************************************)
(* The hash the holder of the mutex adds.                                  *)
(***************************************************************************)
Adding == IF holder \in Worker THEN hash[holder] ELSE ctlHash

Resetting == holder = Control /\ ctlCmd = "RESET-WHITELIST"

(***************************************************************************)
(* Approvals for always that are still on their way to the whitelist.      *)
(***************************************************************************)
PendingAlways == {hash[w] : w \in {v \in Worker : pc[v] = "lock"}}

(***************************************************************************)
(* persist() returns and the mutex is released.  decide() logs an error    *)
(* and answers Allow all the same; the control thread replies OK or ERROR. *)
(***************************************************************************)
PersistReturns(ok) ==
  /\ step' = "idle"
  /\ holder' = NoOne
  /\ pc' = [w \in Worker |-> IF w = holder THEN "allow" ELSE pc[w]]
  /\ IF holder = Control
     THEN ctl' = "accept" /\ ctlCmd' = "none" /\ ctlHash' = NoHash
     ELSE UNCHANGED ctl_vars
  /\ dirty' = ~ok
  /\ durable' = IF ok /\ ~Resetting THEN durable \cup {Adding} ELSE durable
  /\ always' = IF ok /\ Resetting THEN PendingAlways ELSE always
  /\ UNCHANGED <<up, entries, cache, hash, once>>

PersistOpenInPlace ==  \* MUTANT: the whitelist file itself is truncated
  /\ step = "open"
  /\ file' = Torn
  /\ step' = "write"
  /\ UNCHANGED <<up, tmp, entries, holder, work_vars, ctl_vars, ghost_vars>>

PersistOpen ==  \* fs::write creates or truncates the temporary file
  /\ step = "open"
  /\ tmp' = Torn
  /\ step' = "write"
  /\ UNCHANGED <<up, file, entries, holder, work_vars, ctl_vars, ghost_vars>>

PersistWrite ==  \* and writes all of it
  /\ step = "write"
  /\ tmp' = Json(entries)
  /\ step' = "rename"
  /\ UNCHANGED <<up, file, entries, holder, work_vars, ctl_vars, ghost_vars>>

PersistRename ==
  /\ step = "rename"
  /\ file' = tmp
  /\ tmp' = Absent
  /\ PersistReturns(TRUE)

PersistFails ==  \* any of the three calls returns an error
  /\ step # "idle"
  /\ PersistReturns(FALSE)
  /\ UNCHANGED file_vars

-----------------------------------------------------------------------------
(***************************************************************************)
(* A gated request reaches authorize(): the caller's binary is hashed, or  *)
(* cannot be and the request is denied.                                    *)
(***************************************************************************)
Authorize(w, h) ==
  /\ up = "gate" /\ pc[w] = "idle"
  /\ pc' = [pc EXCEPT ![w] = "whitelist"]
  /\ hash' = [hash EXCEPT ![w] = h]
  /\ UNCHANGED <<up, file_vars, list_vars, cache, ctl_vars, ghost_vars>>

Unresolved(w) ==
  /\ up = "gate" /\ pc[w] = "idle"
  /\ pc' = [pc EXCEPT ![w] = "deny"]
  /\ UNCHANGED <<up, file_vars, list_vars, cache, hash, ctl_vars, ghost_vars>>

CheckWhitelistAfterCache(w) ==  \* MUTANT: the session cache is served first
  /\ pc[w] = "whitelist" /\ holder = NoOne
  /\ pc' = [pc EXCEPT ![w] = IF cache[hash[w]] # "none" THEN cache[hash[w]]
                             ELSE IF hash[w] \in entries THEN "allow" ELSE "cache"]
  /\ UNCHANGED <<up, file_vars, list_vars, cache, hash, ctl_vars, ghost_vars>>

CheckWhitelistBehindPrompt(w) ==  \* MUTANT: the mutex is held across ask()
  /\ pc[w] = "whitelist" /\ holder = NoOne
  /\ \A v \in Worker : pc[v] # "ask"
  /\ pc' = [pc EXCEPT ![w] = IF hash[w] \in entries THEN "allow" ELSE "cache"]
  /\ UNCHANGED <<up, file_vars, list_vars, cache, hash, ctl_vars, ghost_vars>>

CheckWhitelist(w) ==
  /\ pc[w] = "whitelist" /\ holder = NoOne
  /\ pc' = [pc EXCEPT ![w] = IF hash[w] \in entries THEN "allow" ELSE "cache"]
  /\ UNCHANGED <<up, file_vars, list_vars, cache, hash, ctl_vars, ghost_vars>>

CheckCacheByLabel(w) ==  \* MUTANT: the cache is keyed on a name two binaries share
  /\ pc[w] = "cache"
  /\ \E h \in Hash : pc' = [pc EXCEPT ![w] = IF cache[h] = "none" THEN "ask" ELSE cache[h]]
  /\ UNCHANGED <<up, file_vars, list_vars, cache, hash, ctl_vars, ghost_vars>>

CheckCacheUnset(w) ==  \* MUTANT: a missing decision is returned as one
  /\ pc[w] = "cache"
  /\ pc' = [pc EXCEPT ![w] = cache[hash[w]]]
  /\ UNCHANGED <<up, file_vars, list_vars, cache, hash, ctl_vars, ghost_vars>>

CheckCache(w) ==
  /\ pc[w] = "cache"
  /\ pc' = [pc EXCEPT ![w] = IF cache[hash[w]] = "none" THEN "ask" ELSE cache[hash[w]]]
  /\ UNCHANGED <<up, file_vars, list_vars, cache, hash, ctl_vars, ghost_vars>>

(***************************************************************************)
(* The prompt, shown with no lock held.  The user presses one of its three *)
(* buttons, or the gate denies by itself: the dialog times out, there is   *)
(* no graphical session to show it on, or zenity cannot be run.            *)
(***************************************************************************)
AnswerAllowOnce(w) ==
  /\ pc[w] = "ask"
  /\ pc' = [pc EXCEPT ![w] = "storeAllow"]
  /\ once' = once \cup {hash[w]}
  /\ UNCHANGED <<up, file_vars, list_vars, cache, hash, ctl_vars, always, durable, dirty>>

AnswerAllowAlways(w) ==
  /\ pc[w] = "ask"
  /\ pc' = [pc EXCEPT ![w] = "lock"]
  /\ always' = always \cup {hash[w]}
  /\ UNCHANGED <<up, file_vars, list_vars, cache, hash, ctl_vars, once, durable, dirty>>

Deny(w) ==
  /\ pc[w] = "ask"
  /\ pc' = [pc EXCEPT ![w] = "storeDeny"]
  /\ UNCHANGED <<up, file_vars, list_vars, cache, hash, ctl_vars, ghost_vars>>

AnswerDeny(w) == Deny(w)  \* the user presses the button

AutoDeny(w) == Deny(w)    \* nobody does

CacheDecision(w, decision) ==
  /\ cache' = [cache EXCEPT ![hash[w]] = decision]
  /\ pc' = [pc EXCEPT ![w] = decision]
  /\ UNCHANGED <<up, file_vars, list_vars, hash, ctl_vars, ghost_vars>>

StoreDecision(w) == \/ pc[w] = "storeAllow" /\ CacheDecision(w, "allow")
                    \/ pc[w] = "storeDeny" /\ CacheDecision(w, "deny")

AddToWhitelist(w) ==
  /\ pc[w] = "lock" /\ holder = NoOne
  /\ BeginAdd(w, hash[w])
  /\ pc' = [pc EXCEPT ![w] = "persist"]
  /\ UNCHANGED <<up, file_vars, cache, hash, ctl_vars, once, always, dirty>>

Reply(w) ==  \* the decision is handed to the file operation
  /\ pc[w] \in Decision
  /\ pc' = [pc EXCEPT ![w] = "idle"]
  /\ hash' = [hash EXCEPT ![w] = NoHash]
  /\ UNCHANGED <<up, file_vars, list_vars, cache, ctl_vars, ghost_vars>>

Decide(w) == \/ Unresolved(w) \/ \E h \in Hash : Authorize(w, h)
             \/ CheckWhitelist(w) \/ CheckCache(w)
             \/ AnswerAllowOnce(w) \/ AnswerAllowAlways(w) \/ AnswerDeny(w) \/ AutoDeny(w)
             \/ StoreDecision(w) \/ AddToWhitelist(w) \/ Reply(w)

-----------------------------------------------------------------------------
(***************************************************************************)
(* The control thread serves one connection at a time.  STATUS, an unknown *)
(* command and a path that does not exist are answered at once and change  *)
(* nothing here.  The confirmation dialog has no timeout.                  *)
(***************************************************************************)
CtlReplies == ctl' = "accept" /\ ctlCmd' = "none" /\ ctlHash' = NoHash

CtlReceiveLocked(cmd) ==  \* MUTANT: the whitelist is locked before the dialog
  /\ up = "gate" /\ ctl = "accept" /\ holder = NoOne
  /\ ctlCmd' = cmd
  /\ ctl' = IF cmd = "LIST-WHITELIST" THEN "lock" ELSE "confirm"
  /\ holder' = IF cmd = "LIST-WHITELIST" THEN holder ELSE Control
  /\ UNCHANGED <<up, file_vars, entries, step, work_vars, ctlHash, ghost_vars>>

CtlReceive(cmd) ==
  /\ up = "gate" /\ ctl = "accept"
  /\ ctlCmd' = cmd
  /\ ctl' = IF cmd = "LIST-WHITELIST" THEN "lock" ELSE "confirm"
  /\ UNCHANGED <<up, file_vars, list_vars, work_vars, ctlHash, ghost_vars>>

CtlConfirmed ==
  /\ ctl = "confirm"
  /\ ctl' = IF ctlCmd = "ALLOW-ALWAYS" THEN "hash" ELSE "lock"
  /\ UNCHANGED <<up, file_vars, list_vars, work_vars, ctlCmd, ctlHash, ghost_vars>>

CtlRefused ==
  /\ ctl = "confirm"
  /\ CtlReplies
  /\ UNCHANGED <<up, file_vars, list_vars, work_vars, ghost_vars>>

CtlHashes(h) ==  \* the binary is hashed after the dialog
  /\ ctl = "hash"
  /\ ctl' = "lock"
  /\ ctlHash' = h
  /\ always' = always \cup {h}
  /\ UNCHANGED <<up, file_vars, list_vars, work_vars, ctlCmd, once, durable, dirty>>

CtlHashFails ==
  /\ ctl = "hash"
  /\ CtlReplies
  /\ UNCHANGED <<up, file_vars, list_vars, work_vars, ghost_vars>>

CtlLocks(cmd) == ctl = "lock" /\ ctlCmd = cmd /\ holder = NoOne

CtlAdds ==
  /\ CtlLocks("ALLOW-ALWAYS")
  /\ BeginAdd(Control, ctlHash)
  /\ ctl' = "persist"
  /\ UNCHANGED <<up, file_vars, work_vars, ctlCmd, ctlHash, once, always, dirty>>

CtlClears ==
  /\ CtlLocks("RESET-WHITELIST")
  /\ BeginClear(Control)
  /\ ctl' = "persist"
  /\ UNCHANGED <<up, file_vars, work_vars, ctlCmd, ctlHash, once, always, dirty>>

CtlLists ==
  /\ CtlLocks("LIST-WHITELIST")
  /\ CtlReplies
  /\ UNCHANGED <<up, file_vars, list_vars, work_vars, ghost_vars>>

ControlThread ==
  \/ \E cmd \in Command : CtlReceive(cmd)
  \/ CtlConfirmed \/ CtlRefused
  \/ \E h \in Hash : CtlHashes(h)
  \/ CtlHashFails \/ CtlAdds \/ CtlClears \/ CtlLists

-----------------------------------------------------------------------------
(***************************************************************************)
(* The vault is opened: PassthroughFs::new loads the whitelist and starts  *)
(* an empty session cache.                                                 *)
(***************************************************************************)
Start ==
  /\ up = "none"
  /\ up' = "gate"
  /\ entries' = Load(file)
  /\ UNCHANGED <<file_vars, holder, step, work_vars, ctl_vars, ghost_vars>>

(***************************************************************************)
(* The gate or the helper ends, whatever its threads are doing: the vault  *)
(* is closed (main returns from fuser::mount and the control thread dies   *)
(* where it is), the manager kills the gate, or the process crashes.       *)
(* Only the files survive.                                                 *)
(***************************************************************************)
Exit ==
  /\ up # "none"
  /\ up' = "none"
  /\ entries' = {} /\ holder' = NoOne /\ step' = "idle"
  /\ cache' = [h \in Hash |-> "none"]
  /\ pc' = [w \in Worker |-> "idle"] /\ hash' = [w \in Worker |-> NoHash]
  /\ CtlReplies
  /\ once' = {} /\ dirty' = FALSE
  /\ UNCHANGED <<file_vars, always, durable>>

(***************************************************************************)
(* `att allow --always' on a closed vault: the helper mounts the backing   *)
(* directory, loads the whitelist, adds the binary and exits.  Asking for  *)
(* it is the approval.                                                     *)
(***************************************************************************)
HelperAllow(h) ==
  /\ up = "none"
  /\ up' = "helper"
  /\ entries' = Load(file) \cup {h}
  /\ holder' = Helper
  /\ step' = "open"
  /\ ctlCmd' = "ALLOW-ALWAYS" /\ ctlHash' = h
  /\ always' = always \cup {h}
  /\ UNCHANGED <<file_vars, work_vars, ctl, once, durable, dirty>>

(***************************************************************************)
(* `att reset-whitelist' on a closed vault removes the file, by one        *)
(* system call that either succeeds or changes nothing.                    *)
(***************************************************************************)
HelperResetUnderGate ==  \* MUTANT: the file is removed under a live gate
  /\ up # "helper"
  /\ file' = Absent
  /\ always' = {} /\ durable' = {}
  /\ UNCHANGED <<up, tmp, list_vars, work_vars, ctl_vars, once, dirty>>

HelperReset ==
  /\ up = "none"
  /\ file' = Absent
  /\ always' = {} /\ durable' = {}
  /\ UNCHANGED <<up, tmp, list_vars, work_vars, ctl_vars, once, dirty>>

-----------------------------------------------------------------------------
Persist == PersistOpen \/ PersistWrite \/ PersistRename \/ PersistFails

Lifecycle == Start \/ Exit \/ HelperReset \/ \E h \in Hash : HelperAllow(h)

Next == Persist \/ (\E w \in Worker : Decide(w)) \/ ControlThread \/ Lifecycle

Spec == Init /\ [][Next]_vars

(***************************************************************************)
(* Fairness.  A thread that can run does run, and a system call returns.   *)
(* The mutex lets every waiting thread in eventually (it is released again *)
(* and again, so this is strong fairness).  No human is fair: nobody need  *)
(* ever press a button, confirm, or ask for anything.                      *)
(***************************************************************************)
CodeRuns ==
  /\ WF_vars(Persist)
  /\ \A w \in Worker :
       /\ WF_vars(CheckCache(w)) /\ WF_vars(StoreDecision(w)) /\ WF_vars(Reply(w))
       /\ SF_vars(CheckWhitelist(w)) /\ SF_vars(AddToWhitelist(w))
  /\ WF_vars(CtlHashFails \/ \E h \in Hash : CtlHashes(h))
  /\ SF_vars(CtlAdds \/ CtlClears \/ CtlLists)

(***************************************************************************)
(* zenity --timeout ends a prompt nobody answers.  Only RequestDecided     *)
(* relies on it.                                                           *)
(***************************************************************************)
PromptsTimeOut == \A w \in Worker : WF_vars(AutoDeny(w))

FairSpec == Spec /\ CodeRuns

-----------------------------------------------------------------------------
(***************************************************************************)
(* No request is allowed without an approval of the very binary that made  *)
(* it: "Allow Once" in this session, or an approval for always that no     *)
(* completed reset has revoked, in this session or an earlier one.  It     *)
(* rules out a decision for one hash served to another, an approval that   *)
(* a crash in the middle of a reset resurrects after the user was told     *)
(* "OK", and a session decision that outlives its session.                 *)
(***************************************************************************)
AllowNeedsApproval ==
  [][\A w \in Worker : pc'[w] = "allow" /\ pc[w] # "allow"
                         => hash'[w] \in once' \cup always']_vars

(***************************************************************************)
(* An approval the user was told has been recorded decides the next        *)
(* request of that binary, whatever was answered for it before and         *)
(* through every restart: the whitelist is consulted on every call, before *)
(* the session cache and the prompt.                                       *)
(***************************************************************************)
ApprovalHonoured ==
  [][\A w \in Worker : pc[w] = "whitelist" /\ pc'[w] # "whitelist" /\ hash[w] \in durable
                         => pc'[w] = "allow" \/ up' = "none"]_vars

(***************************************************************************)
(* What add() acknowledged is on disk and stays there, at every point      *)
(* where the process can die, until a reset begins: persist() replaces the *)
(* file by a complete one and never drops another thread's entry.          *)
(***************************************************************************)
DurableApprovals == durable \subseteq Load(file)

(***************************************************************************)
(* The live whitelist and the file agree whenever no thread is inside      *)
(* add() or clear(), as long as no persist() has failed.                   *)
(***************************************************************************)
InSync == up # "none" /\ holder = NoOne /\ ~dirty => entries = Load(file)

(***************************************************************************)
(* Every request a worker accepts is decided (or the gate ends), although  *)
(* nobody need answer any dialog: prompts time out, the mutex is never     *)
(* held across a dialog, and the confirmation of a control request, which  *)
(* has no timeout, blocks no worker.                                       *)
(***************************************************************************)
RequestDecided ==
  PromptsTimeOut => \A w \in Worker : pc[w] # "idle" ~> pc[w] = "idle"

(***************************************************************************)
(* A request whose binary is whitelisted or has a cached decision, and     *)
(* stays so, does not wait for any dialog, not even one that never times   *)
(* out: neither a prompt for another binary freezes it nor another prompt  *)
(* for its own, begun before it was decided, nor a confirmation.           *)
(***************************************************************************)
Decided(h) == h \in durable \/ cache[h] # "none"

DecidedNeverWaits ==
  \A w \in Worker : \A h \in Hash :
    pc[w] = "whitelist" /\ hash[w] = h /\ Decided(h)
      ~> pc[w] = "idle" \/ ~Decided(h)

(***************************************************************************)
(* Whitelist, with its file replaced in three system calls and the process *)
(* ending between any two of them, implements the atomic whitelist: what   *)
(* the next process loads only ever changes to exactly what was in memory, *)
(* "so a crash mid-write can't leave a truncated/corrupt whitelist".       *)
(***************************************************************************)
Atomic == INSTANCE AtomicWhitelist
            WITH loaded <- up # "none", mem <- entries, disk <- Load(file)

WhitelistIsAtomic == Atomic!ASpec
=============================================================================
