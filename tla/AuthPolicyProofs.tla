-------------------------- MODULE AuthPolicyProofs --------------------------
(***************************************************************************)
(* Proofs about AuthPolicy, for any set of worker threads and of binaries. *)
(***************************************************************************)
EXTENDS AuthPolicy, TLAPS

(***************************************************************************)
(* The inductive invariant, in parts.  Which threads can be where in which *)
(* process:                                                                *)
(***************************************************************************)
ProcessInv ==
  /\ up # "gate" => /\ \A w \in Worker : pc[w] = "idle"
                    /\ ctl = "accept"
  /\ up = "none" => entries = {} /\ holder = NoOne
  /\ holder = Helper => up = "helper"

(***************************************************************************)
(* A thread is inside persist() exactly when it holds the mutex.           *)
(***************************************************************************)
LockInv ==
  /\ holder = NoOne <=> step = "idle"
  /\ \A w \in Worker : pc[w] = "persist" => holder = w
  /\ holder \in Worker => pc[holder] = "persist"
  /\ holder = Control <=> ctl = "persist"
  /\ ctl = "persist" => ctlCmd \in {"ALLOW-ALWAYS", "RESET-WHITELIST"}
  /\ ctl \in {"confirm", "hash"} => ctlCmd # "LIST-WHITELIST"
  /\ ctl = "hash" => ctlCmd = "ALLOW-ALWAYS"
  /\ holder = Helper => ctlCmd = "ALLOW-ALWAYS"

(***************************************************************************)
(* A thread that decides about or adds a binary has its hash.              *)
(***************************************************************************)
HashInv ==
  /\ \A w \in Worker : pc[w] \notin {"idle", "deny"} => hash[w] \in Hash
  /\ ctl \in {"lock", "persist"} /\ ctlCmd = "ALLOW-ALWAYS" => ctlHash \in Hash
  /\ holder = Helper => ctlHash \in Hash

(***************************************************************************)
(* Whatever can let a request through was approved: the entries in memory, *)
(* on disk and on their way there for always, the cache for this session.  *)
(***************************************************************************)
ApprovalInv ==
  /\ entries \subseteq always
  /\ Load(file) \subseteq always
  /\ \A w \in Worker : pc[w] \in {"lock", "persist"} => hash[w] \in always
  /\ ctl = "lock" /\ ctlCmd = "ALLOW-ALWAYS" => ctlHash \in always
  /\ \A h \in Hash : cache[h] = "allow" => h \in once
  /\ \A w \in Worker : pc[w] = "storeAllow" => hash[w] \in once

(***************************************************************************)
(* What persist() writes, for whom.                                        *)
(***************************************************************************)
PersistInv ==
  /\ step = "rename" => tmp = Json(entries)
  /\ holder \notin {NoOne} /\ ~Resetting => Adding \in entries
  /\ Resetting => entries = {} /\ durable = {}
  /\ durable \subseteq Load(file)
  /\ up # "none" => durable \subseteq entries
  /\ InSync

Inv == TypeOK /\ ProcessInv /\ LockInv /\ HashInv /\ ApprovalInv /\ PersistInv

(***************************************************************************)
(* The steps of persist().                                                 *)
(***************************************************************************)
LEMMA PersistKeepsInv ==
  ASSUME Inv, Persist
  PROVE  Inv'
<1>1. CASE PersistOpen
  <2>1. TypeOK'
    BY <1>1
      DEF Inv, TypeOK, PersistOpen, work_vars, ctl_vars, ghost_vars, FileContent
  <2>2. ProcessInv' /\ LockInv' /\ HashInv'
    BY <1>1
      DEF Inv, ProcessInv, LockInv, HashInv, PersistOpen, work_vars, ctl_vars
  <2>3. ApprovalInv'
    BY <1>1 DEF Inv, ApprovalInv, PersistOpen, work_vars, ctl_vars, ghost_vars
  <2>4. PersistInv'
    BY <1>1
      DEF Inv, PersistInv, PersistOpen, work_vars, ctl_vars, ghost_vars,
          Adding, Resetting, InSync
  <2>5. QED  BY <2>1, <2>2, <2>3, <2>4 DEF Inv
<1>2. CASE PersistWrite
  <2>1. TypeOK'
    BY <1>2
      DEF Inv, TypeOK, PersistWrite, work_vars, ctl_vars, ghost_vars,
          FileContent
  <2>2. ProcessInv' /\ LockInv' /\ HashInv'
    BY <1>2
      DEF Inv, ProcessInv, LockInv, HashInv, PersistWrite, work_vars, ctl_vars
  <2>3. ApprovalInv'
    BY <1>2 DEF Inv, ApprovalInv, PersistWrite, work_vars, ctl_vars, ghost_vars
  <2>4. PersistInv'
    BY <1>2
      DEF Inv, PersistInv, PersistWrite, work_vars, ctl_vars, ghost_vars,
          Adding, Resetting, InSync
  <2>5. QED  BY <2>1, <2>2, <2>3, <2>4 DEF Inv
<1>3. CASE PersistRename
  <2>1. TypeOK'
    BY <1>3
      DEF Inv, TypeOK, LockInv, HashInv, PersistInv, PersistRename,
          PersistReturns, ctl_vars, PendingAlways, FileContent, WorkerPC,
          ControlPC
  <2>2. ProcessInv' /\ LockInv' /\ HashInv'
    BY <1>3, ThreadsDistinct
      DEF Inv, ProcessInv, LockInv, HashInv, PersistRename, PersistReturns,
          ctl_vars
  <2>3. ApprovalInv'
    BY <1>3
      DEF Inv, LockInv, ApprovalInv, PersistInv, PersistRename, PersistReturns,
          ctl_vars, Resetting, PendingAlways, Load, Json
  <2>4. PersistInv'
    BY <1>3, ThreadsDistinct
      DEF Inv, ProcessInv, LockInv, PersistInv, PersistRename, PersistReturns,
          Resetting, InSync, Load, Json
  <2>5. QED  BY <2>1, <2>2, <2>3, <2>4 DEF Inv
<1>4. CASE PersistFails
  <2>1. TypeOK'
    BY <1>4
      DEF Inv, TypeOK, PersistFails, PersistReturns, file_vars, ctl_vars,
          WorkerPC, ControlPC
  <2>2. ProcessInv' /\ LockInv' /\ HashInv'
    BY <1>4, ThreadsDistinct
      DEF Inv, ProcessInv, LockInv, HashInv, PersistFails, PersistReturns,
          ctl_vars
  <2>3. ApprovalInv'
    BY <1>4
      DEF Inv, ApprovalInv, PersistFails, PersistReturns, file_vars, ctl_vars
  <2>4. PersistInv'
    BY <1>4, ThreadsDistinct
      DEF Inv, PersistInv, PersistFails, PersistReturns, file_vars, Resetting,
          InSync
  <2>5. QED  BY <2>1, <2>2, <2>3, <2>4 DEF Inv
<1>5. QED  BY <1>1, <1>2, <1>3, <1>4 DEF Persist

(***************************************************************************)
(* The steps of a FUSE worker.                                             *)
(***************************************************************************)
LEMMA DecideKeepsInv ==
  ASSUME Inv, NEW w \in Worker, Decide(w)
  PROVE  Inv'
<1>1. CASE Unresolved(w)
  <2>1. TypeOK'
    BY <1>1
      DEF Inv, TypeOK, Unresolved, file_vars, list_vars, ctl_vars, ghost_vars,
          WorkerPC
  <2>2. ProcessInv' /\ LockInv' /\ HashInv'
    BY <1>1
      DEF Inv, ProcessInv, LockInv, HashInv, Unresolved, list_vars, ctl_vars
  <2>3. ApprovalInv'
    BY <1>1
      DEF Inv, ApprovalInv, Unresolved, file_vars, list_vars, ctl_vars,
          ghost_vars
  <2>4. PersistInv'
    BY <1>1
      DEF Inv, PersistInv, Unresolved, file_vars, list_vars, ctl_vars,
          ghost_vars, Adding, Resetting, InSync
  <2>5. QED  BY <2>1, <2>2, <2>3, <2>4 DEF Inv
<1>2. ASSUME NEW h \in Hash, Authorize(w, h) PROVE Inv'
  <2>1. TypeOK'
    BY <1>2
      DEF Inv, TypeOK, Authorize, file_vars, list_vars, ctl_vars, ghost_vars,
          WorkerPC
  <2>2. ProcessInv' /\ LockInv' /\ HashInv'
    BY <1>2
      DEF Inv, TypeOK, ProcessInv, LockInv, HashInv, Authorize, list_vars,
          ctl_vars
  <2>3. ApprovalInv'
    BY <1>2
      DEF Inv, ApprovalInv, Authorize, file_vars, list_vars, ctl_vars,
          ghost_vars
  <2>4. PersistInv'
    BY <1>2
      DEF Inv, LockInv, PersistInv, Authorize, file_vars, list_vars, ctl_vars,
          ghost_vars, Adding, Resetting, InSync
  <2>5. QED  BY <2>1, <2>2, <2>3, <2>4 DEF Inv
<1>3. CASE CheckWhitelist(w)
  <2>1. TypeOK'
    BY <1>3
      DEF Inv, TypeOK, CheckWhitelist, file_vars, list_vars, ctl_vars,
          ghost_vars, WorkerPC
  <2>2. ProcessInv' /\ LockInv' /\ HashInv'
    BY <1>3
      DEF Inv, ProcessInv, LockInv, HashInv, CheckWhitelist, list_vars, ctl_vars
  <2>3. ApprovalInv'
    BY <1>3
      DEF Inv, ApprovalInv, CheckWhitelist, file_vars, list_vars, ctl_vars,
          ghost_vars
  <2>4. PersistInv'
    BY <1>3, ThreadsDistinct
      DEF Inv, PersistInv, CheckWhitelist, file_vars, list_vars, ghost_vars,
          Resetting, InSync
  <2>5. QED  BY <2>1, <2>2, <2>3, <2>4 DEF Inv
<1>4. CASE CheckCache(w)
  <2>1. TypeOK'
    BY <1>4
      DEF Inv, TypeOK, HashInv, CheckCache, file_vars, list_vars, ctl_vars,
          ghost_vars, Decision, WorkerPC
  <2>2. ProcessInv' /\ LockInv' /\ HashInv'
    BY <1>4
      DEF Inv, TypeOK, ProcessInv, LockInv, HashInv, CheckCache, list_vars,
          ctl_vars, Decision
  <2>3. ApprovalInv'
    BY <1>4
      DEF Inv, TypeOK, HashInv, ApprovalInv, CheckCache, file_vars, list_vars,
          ctl_vars, ghost_vars, Decision
  <2>4. PersistInv'
    BY <1>4
      DEF Inv, PersistInv, CheckCache, file_vars, list_vars, ctl_vars,
          ghost_vars, Adding, Resetting, InSync
  <2>5. QED  BY <2>1, <2>2, <2>3, <2>4 DEF Inv
<1>5. CASE AnswerAllowOnce(w)
  <2>1. TypeOK'
    BY <1>5
      DEF Inv, TypeOK, HashInv, AnswerAllowOnce, file_vars, list_vars,
          ctl_vars, WorkerPC
  <2>2. ProcessInv' /\ LockInv' /\ HashInv'
    BY <1>5
      DEF Inv, ProcessInv, LockInv, HashInv, AnswerAllowOnce, list_vars,
          ctl_vars
  <2>3. ApprovalInv'
    BY <1>5
      DEF Inv, ApprovalInv, AnswerAllowOnce, file_vars, list_vars, ctl_vars
  <2>4. PersistInv'
    BY <1>5
      DEF Inv, PersistInv, AnswerAllowOnce, file_vars, list_vars, ctl_vars,
          Adding, Resetting, InSync
  <2>5. QED  BY <2>1, <2>2, <2>3, <2>4 DEF Inv
<1>6. CASE AnswerAllowAlways(w)
  <2>1. TypeOK'
    BY <1>6
      DEF Inv, TypeOK, HashInv, AnswerAllowAlways, file_vars, list_vars,
          ctl_vars, WorkerPC
  <2>2. ProcessInv' /\ LockInv' /\ HashInv'
    BY <1>6
      DEF Inv, ProcessInv, LockInv, HashInv, AnswerAllowAlways, list_vars,
          ctl_vars
  <2>3. ApprovalInv'
    BY <1>6
      DEF Inv, ApprovalInv, AnswerAllowAlways, file_vars, list_vars, ctl_vars
  <2>4. PersistInv'
    BY <1>6
      DEF Inv, PersistInv, AnswerAllowAlways, file_vars, list_vars, ctl_vars,
          Adding, Resetting, InSync
  <2>5. QED  BY <2>1, <2>2, <2>3, <2>4 DEF Inv
<1>7. CASE AnswerDeny(w) \/ AutoDeny(w)
  <2>1. TypeOK'
    BY <1>7
      DEF Inv, TypeOK, AnswerDeny, AutoDeny, Deny, file_vars, list_vars,
          ctl_vars, ghost_vars, WorkerPC
  <2>2. ProcessInv' /\ LockInv' /\ HashInv'
    BY <1>7
      DEF Inv, TypeOK, ProcessInv, LockInv, HashInv, AnswerDeny, AutoDeny,
          Deny, list_vars, ctl_vars
  <2>3. ApprovalInv'
    BY <1>7
      DEF Inv, TypeOK, ApprovalInv, AnswerDeny, AutoDeny, Deny, file_vars,
          list_vars, ctl_vars, ghost_vars
  <2>4. PersistInv'
    BY <1>7
      DEF Inv, PersistInv, AnswerDeny, AutoDeny, Deny, file_vars, list_vars,
          ctl_vars, ghost_vars, Adding, Resetting, InSync
  <2>5. QED  BY <2>1, <2>2, <2>3, <2>4 DEF Inv
<1>8. CASE StoreDecision(w)
  <2>1. TypeOK'
    BY <1>8
      DEF Inv, TypeOK, StoreDecision, CacheDecision, file_vars, list_vars,
          ctl_vars, ghost_vars, Decision, WorkerPC
  <2>2. ProcessInv' /\ LockInv' /\ HashInv'
    BY <1>8
      DEF Inv, TypeOK, ProcessInv, LockInv, HashInv, StoreDecision,
          CacheDecision, list_vars, ctl_vars
  <2>3. ApprovalInv'
    BY <1>8
      DEF Inv, TypeOK, ApprovalInv, StoreDecision, CacheDecision, file_vars,
          list_vars, ctl_vars, ghost_vars
  <2>4. PersistInv'
    BY <1>8
      DEF Inv, PersistInv, StoreDecision, CacheDecision, file_vars, list_vars,
          ctl_vars, ghost_vars, Adding, Resetting, InSync
  <2>5. QED  BY <2>1, <2>2, <2>3, <2>4 DEF Inv
<1>9. CASE AddToWhitelist(w)
  <2>1. TypeOK'
    BY <1>9
      DEF Inv, TypeOK, HashInv, AddToWhitelist, BeginAdd, file_vars, ctl_vars,
          WorkerPC
  <2>2. ProcessInv' /\ LockInv' /\ HashInv'
    BY <1>9, ThreadsDistinct
      DEF Inv, TypeOK, ProcessInv, LockInv, HashInv, AddToWhitelist, BeginAdd,
          ctl_vars
  <2>3. ApprovalInv'
    BY <1>9 DEF Inv, ApprovalInv, AddToWhitelist, BeginAdd, file_vars, ctl_vars
  <2>4. PersistInv'
    BY <1>9, ThreadsDistinct
      DEF Inv, PersistInv, AddToWhitelist, BeginAdd, file_vars, Adding,
          Resetting, InSync
  <2>5. QED  BY <2>1, <2>2, <2>3, <2>4 DEF Inv
<1>10. CASE Reply(w)
  <2>1. TypeOK'
    BY <1>10
      DEF Inv, TypeOK, Reply, file_vars, list_vars, ctl_vars, ghost_vars,
          WorkerPC
  <2>2. ProcessInv' /\ LockInv' /\ HashInv'
    BY <1>10
      DEF Inv, TypeOK, ProcessInv, LockInv, HashInv, Reply, list_vars,
          ctl_vars, Decision
  <2>3. ApprovalInv'
    BY <1>10
      DEF Inv, TypeOK, ApprovalInv, Reply, file_vars, list_vars, ctl_vars,
          ghost_vars
  <2>4. PersistInv'
    BY <1>10
      DEF Inv, LockInv, PersistInv, Reply, file_vars, list_vars, ctl_vars,
          ghost_vars, Decision, Adding, Resetting, InSync
  <2>5. QED  BY <2>1, <2>2, <2>3, <2>4 DEF Inv
<1>11. QED  BY <1>1, <1>2, <1>3, <1>4, <1>5, <1>6, <1>7, <1>8, <1>9, <1>10 DEF Decide

(***************************************************************************)
(* The steps of the control thread.                                        *)
(***************************************************************************)
LEMMA ControlKeepsInv ==
  ASSUME Inv, ControlThread
  PROVE  Inv'
<1>1. ASSUME NEW cmd \in Command, CtlReceive(cmd) PROVE Inv'
  <2>1. TypeOK'
    BY <1>1
      DEF Inv, TypeOK, CtlReceive, file_vars, list_vars, work_vars, ghost_vars,
          ControlPC
  <2>2. ProcessInv' /\ LockInv' /\ HashInv'
    BY <1>1
      DEF Inv, ProcessInv, LockInv, HashInv, CtlReceive, list_vars, work_vars
  <2>3. ApprovalInv'
    BY <1>1
      DEF Inv, ApprovalInv, CtlReceive, file_vars, list_vars, work_vars,
          ghost_vars
  <2>4. PersistInv'
    BY <1>1
      DEF Inv, LockInv, PersistInv, CtlReceive, file_vars, list_vars,
          work_vars, ghost_vars, Adding, Resetting, InSync
  <2>5. QED  BY <2>1, <2>2, <2>3, <2>4 DEF Inv
<1>2. CASE CtlConfirmed
  <2>1. TypeOK'
    BY <1>2
      DEF Inv, TypeOK, CtlConfirmed, file_vars, list_vars, work_vars,
          ghost_vars, ControlPC
  <2>2. ProcessInv' /\ LockInv' /\ HashInv'
    BY <1>2
      DEF Inv, ProcessInv, LockInv, HashInv, CtlConfirmed, list_vars, work_vars
  <2>3. ApprovalInv'
    BY <1>2
      DEF Inv, ApprovalInv, CtlConfirmed, file_vars, list_vars, work_vars,
          ghost_vars
  <2>4. PersistInv'
    BY <1>2
      DEF Inv, PersistInv, CtlConfirmed, file_vars, list_vars, work_vars,
          ghost_vars, Adding, Resetting, InSync
  <2>5. QED  BY <2>1, <2>2, <2>3, <2>4 DEF Inv
<1>3. CASE CtlRefused
  <2>1. TypeOK'
    BY <1>3
      DEF Inv, TypeOK, CtlRefused, CtlReplies, file_vars, list_vars, work_vars,
          ghost_vars, ControlPC
  <2>2. ProcessInv' /\ LockInv' /\ HashInv'
    BY <1>3
      DEF Inv, ProcessInv, LockInv, HashInv, CtlRefused, CtlReplies, list_vars,
          work_vars
  <2>3. ApprovalInv'
    BY <1>3
      DEF Inv, ApprovalInv, CtlRefused, CtlReplies, file_vars, list_vars,
          work_vars, ghost_vars
  <2>4. PersistInv'
    BY <1>3
      DEF Inv, TypeOK, ProcessInv, LockInv, PersistInv, CtlRefused, CtlReplies,
          file_vars, list_vars, work_vars, ghost_vars, Adding, Resetting, InSync
  <2>5. QED  BY <2>1, <2>2, <2>3, <2>4 DEF Inv
<1>4. ASSUME NEW h \in Hash, CtlHashes(h) PROVE Inv'
  <2>1. TypeOK'
    BY <1>4
      DEF Inv, TypeOK, CtlHashes, file_vars, list_vars, work_vars, ControlPC
  <2>2. ProcessInv' /\ LockInv' /\ HashInv'
    BY <1>4
      DEF Inv, ProcessInv, LockInv, HashInv, CtlHashes, list_vars, work_vars
  <2>3. ApprovalInv'
    BY <1>4 DEF Inv, ApprovalInv, CtlHashes, file_vars, list_vars, work_vars
  <2>4. PersistInv'
    BY <1>4
      DEF Inv, TypeOK, ProcessInv, LockInv, PersistInv, CtlHashes, file_vars,
          list_vars, work_vars, Adding, Resetting, InSync
  <2>5. QED  BY <2>1, <2>2, <2>3, <2>4 DEF Inv
<1>5. CASE CtlHashFails
  <2>1. TypeOK'
    BY <1>5
      DEF Inv, TypeOK, CtlHashFails, CtlReplies, file_vars, list_vars,
          work_vars, ghost_vars, ControlPC
  <2>2. ProcessInv' /\ LockInv' /\ HashInv'
    BY <1>5
      DEF Inv, ProcessInv, LockInv, HashInv, CtlHashFails, CtlReplies,
          list_vars, work_vars
  <2>3. ApprovalInv'
    BY <1>5
      DEF Inv, ApprovalInv, CtlHashFails, CtlReplies, file_vars, list_vars,
          work_vars, ghost_vars
  <2>4. PersistInv'
    BY <1>5
      DEF Inv, TypeOK, ProcessInv, LockInv, PersistInv, CtlHashFails,
          CtlReplies, file_vars, list_vars, work_vars, ghost_vars, Adding,
          Resetting, InSync
  <2>5. QED  BY <2>1, <2>2, <2>3, <2>4 DEF Inv
<1>6. CASE CtlAdds
  <2>1. TypeOK'
    BY <1>6
      DEF Inv, TypeOK, HashInv, CtlAdds, CtlLocks, BeginAdd, file_vars,
          work_vars, ControlPC
  <2>2. ProcessInv' /\ LockInv' /\ HashInv'
    BY <1>6, ThreadsDistinct
      DEF Inv, ProcessInv, LockInv, HashInv, CtlAdds, CtlLocks, BeginAdd,
          work_vars
  <2>3. ApprovalInv'
    BY <1>6
      DEF Inv, ApprovalInv, CtlAdds, CtlLocks, BeginAdd, file_vars, work_vars
  <2>4. PersistInv'
    BY <1>6, ThreadsDistinct
      DEF Inv, PersistInv, CtlAdds, CtlLocks, BeginAdd, file_vars, Adding,
          Resetting, InSync
  <2>5. QED  BY <2>1, <2>2, <2>3, <2>4 DEF Inv
<1>7. CASE CtlClears
  <2>1. TypeOK'
    BY <1>7
      DEF Inv, TypeOK, CtlClears, CtlLocks, BeginClear, file_vars, work_vars,
          ControlPC
  <2>2. ProcessInv' /\ LockInv' /\ HashInv'
    BY <1>7, ThreadsDistinct
      DEF Inv, ProcessInv, LockInv, HashInv, CtlClears, CtlLocks, BeginClear,
          work_vars
  <2>3. ApprovalInv'
    BY <1>7
      DEF Inv, ApprovalInv, CtlClears, CtlLocks, BeginClear, file_vars,
          work_vars
  <2>4. PersistInv'
    BY <1>7, ThreadsDistinct
      DEF Inv, PersistInv, CtlClears, CtlLocks, BeginClear, Resetting, InSync
  <2>5. QED  BY <2>1, <2>2, <2>3, <2>4 DEF Inv
<1>8. CASE CtlLists
  <2>1. TypeOK'
    BY <1>8
      DEF Inv, TypeOK, CtlLists, CtlLocks, CtlReplies, file_vars, list_vars,
          work_vars, ghost_vars, ControlPC
  <2>2. ProcessInv' /\ LockInv' /\ HashInv'
    BY <1>8
      DEF Inv, ProcessInv, LockInv, HashInv, CtlLists, CtlLocks, CtlReplies,
          list_vars, work_vars
  <2>3. ApprovalInv'
    BY <1>8
      DEF Inv, ApprovalInv, CtlLists, CtlLocks, CtlReplies, file_vars,
          list_vars, work_vars, ghost_vars
  <2>4. PersistInv'
    BY <1>8
      DEF Inv, PersistInv, CtlLists, CtlLocks, CtlReplies, file_vars,
          list_vars, ghost_vars, Resetting, InSync
  <2>5. QED  BY <2>1, <2>2, <2>3, <2>4 DEF Inv
<1>9. QED  BY <1>1, <1>2, <1>3, <1>4, <1>5, <1>6, <1>7, <1>8 DEF ControlThread

(***************************************************************************)
(* The processes that come and go.                                         *)
(***************************************************************************)
LEMMA LifecycleKeepsInv ==
  ASSUME Inv, Lifecycle
  PROVE  Inv'
<1>1. CASE Start
  <2>1. TypeOK'
    BY <1>1
      DEF Inv, TypeOK, ApprovalInv, Start, file_vars, work_vars, ctl_vars,
          ghost_vars
  <2>2. ProcessInv' /\ LockInv' /\ HashInv'
    BY <1>1 DEF Inv, ProcessInv, LockInv, HashInv, Start, work_vars, ctl_vars
  <2>3. ApprovalInv'
    BY <1>1
      DEF Inv, ApprovalInv, Start, file_vars, work_vars, ctl_vars, ghost_vars
  <2>4. PersistInv'
    BY <1>1
      DEF Inv, ProcessInv, LockInv, PersistInv, Start, file_vars, ghost_vars,
          Resetting, InSync
  <2>5. QED  BY <2>1, <2>2, <2>3, <2>4 DEF Inv
<1>2. CASE Exit
  <2>1. TypeOK'
    BY <1>2 DEF Inv, TypeOK, Exit, CtlReplies, file_vars, WorkerPC, ControlPC
  <2>2. ProcessInv' /\ LockInv' /\ HashInv'
    BY <1>2, ThreadsDistinct
      DEF Inv, ProcessInv, LockInv, HashInv, Exit, CtlReplies
  <2>3. ApprovalInv'
    BY <1>2 DEF Inv, ApprovalInv, Exit, CtlReplies, file_vars
  <2>4. PersistInv'
    BY <1>2 DEF Inv, PersistInv, Exit, CtlReplies, file_vars, Resetting, InSync
  <2>5. QED  BY <2>1, <2>2, <2>3, <2>4 DEF Inv
<1>3. CASE HelperReset
  <2>1. TypeOK'
    BY <1>3
      DEF Inv, TypeOK, HelperReset, list_vars, work_vars, ctl_vars, FileContent
  <2>2. ProcessInv' /\ LockInv' /\ HashInv'
    BY <1>3
      DEF Inv, ProcessInv, LockInv, HashInv, HelperReset, list_vars, work_vars,
          ctl_vars
  <2>3. ApprovalInv'
    BY <1>3
      DEF Inv, ProcessInv, ApprovalInv, HelperReset, list_vars, work_vars,
          ctl_vars, Load, Absent
  <2>4. PersistInv'
    BY <1>3 DEF Inv, ProcessInv, PersistInv, HelperReset, list_vars, InSync
  <2>5. QED  BY <2>1, <2>2, <2>3, <2>4 DEF Inv
<1>4. ASSUME NEW h \in Hash, HelperAllow(h) PROVE Inv'
  <2>1. TypeOK'
    BY <1>4
      DEF Inv, TypeOK, ApprovalInv, HelperAllow, file_vars, work_vars, Command
  <2>2. ProcessInv' /\ LockInv' /\ HashInv'
    BY <1>4, ThreadsDistinct
      DEF Inv, ProcessInv, LockInv, HashInv, HelperAllow, work_vars
  <2>3. ApprovalInv'
    BY <1>4 DEF Inv, ApprovalInv, HelperAllow, file_vars, work_vars
  <2>4. PersistInv'
    BY <1>4, ThreadsDistinct
      DEF Inv, PersistInv, HelperAllow, file_vars, Adding, Resetting, InSync
  <2>5. QED  BY <2>1, <2>2, <2>3, <2>4 DEF Inv
<1>5. QED  BY <1>1, <1>2, <1>3, <1>4 DEF Lifecycle

-----------------------------------------------------------------------------
LEMMA InitHasInv == Init => Inv
<1> SUFFICES ASSUME Init PROVE Inv  OBVIOUS
<1>1. TypeOK
  <2>1. cache \in [Hash -> Decision \cup {"none"}]
    BY DEF Init, NoProcess
  <2>2. pc \in [Worker -> WorkerPC] /\ hash \in [Worker -> Hash \cup {NoHash}]
    BY DEF Init, NoProcess, WorkerPC
  <2>3. file \in FileContent /\ tmp \in FileContent
    BY DEF Init, FileContent
  <2>4. QED  BY <2>1, <2>2, <2>3 DEF Init, NoProcess, TypeOK, ControlPC
<1>2. ProcessInv /\ LockInv /\ HashInv
  BY ThreadsDistinct
     DEF Init, NoProcess, ProcessInv, LockInv, HashInv
<1>3. ApprovalInv /\ PersistInv
  BY ThreadsDistinct
     DEF Init, NoProcess, ApprovalInv, PersistInv, InSync, Adding, Resetting,
         Absent, Load
<1>4. QED  BY <1>1, <1>2, <1>3 DEF Inv

LEMMA NextKeepsInv ==
  ASSUME Inv, [Next]_vars
  PROVE  Inv'
<1>1. CASE UNCHANGED vars
  BY <1>1
     DEF Inv, TypeOK, ProcessInv, LockInv, HashInv, ApprovalInv, PersistInv,
         InSync, Adding, Resetting, vars, file_vars, list_vars, work_vars,
         ctl_vars, ghost_vars
<1>2. CASE Next
  BY <1>2, PersistKeepsInv, DecideKeepsInv, ControlKeepsInv, LifecycleKeepsInv
     DEF Next
<1>3. QED  BY <1>1, <1>2

(***************************************************************************)
(* Every variable has its type, and the invariant holds: what a worker, a  *)
(* control request or a file can let through was approved.                 *)
(***************************************************************************)
THEOREM TypeCorrect == Spec => []TypeOK
<1>1. Inv => TypeOK
  BY DEF Inv
<1>2. QED  BY <1>1, InitHasInv, NextKeepsInv, PTL DEF Spec

(***************************************************************************)
(* An acknowledged approval is on disk at every point where the process    *)
(* can die, until a reset begins.                                          *)
(***************************************************************************)
THEOREM ApprovalsAreDurable == Spec => []DurableApprovals
<1>1. Inv => DurableApprovals
  BY DEF Inv, PersistInv, DurableApprovals
<1>2. QED  BY <1>1, InitHasInv, NextKeepsInv, PTL DEF Spec

(***************************************************************************)
(* Memory and disk agree whenever the mutex is free, unless a persist()    *)
(* has failed.                                                             *)
(***************************************************************************)
THEOREM MemoryIsInSync == Spec => []InSync
<1>1. Inv => InSync
  BY DEF Inv, PersistInv
<1>2. QED  BY <1>1, InitHasInv, NextKeepsInv, PTL DEF Spec

-----------------------------------------------------------------------------
(***************************************************************************)
(* Only four steps let a request through: finding the hash in the          *)
(* whitelist or in the cache, caching "Allow Once", and the return of      *)
(* persist() to the worker that answered "Always Allow".                   *)
(***************************************************************************)
LEMMA AllowStepIsApproved ==
  ASSUME Inv, [Next]_vars, NEW w \in Worker, pc'[w] = "allow", pc[w] # "allow"
  PROVE  hash'[w] \in once' \cup always'
<1> USE DEF Inv
<1>1. CASE Persist
  <2>1. pc[w] = "persist" /\ holder = w /\ hash' = hash
    BY <1>1 DEF TypeOK, LockInv, Persist, PersistOpen, PersistWrite, PersistRename,
                PersistFails, PersistReturns, work_vars
  <2>2. ~Resetting /\ hash[w] \in always
    BY <2>1, ThreadsDistinct DEF Resetting, ApprovalInv
  <2>3. always \subseteq always'
    BY <1>1, <2>2 DEF Persist, PersistOpen, PersistWrite, PersistRename,
                      PersistFails, PersistReturns, ghost_vars
  <2>4. QED  BY <2>1, <2>2, <2>3
<1>2. ASSUME NEW v \in Worker, Decide(v) PROVE hash'[w] \in once' \cup always'
  <2>1. CASE CheckWhitelist(v)
    BY <2>1 DEF CheckWhitelist, TypeOK, ApprovalInv, ghost_vars
  <2>2. CASE CheckCache(v)
    BY <2>2 DEF CheckCache, TypeOK, HashInv, ApprovalInv, Decision, ghost_vars
  <2>3. CASE StoreDecision(v)
    BY <2>3 DEF StoreDecision, CacheDecision, TypeOK, ApprovalInv, ghost_vars
  <2>4. ASSUME \/ Unresolved(v) \/ \E h \in Hash : Authorize(v, h)
               \/ AnswerAllowOnce(v) \/ AnswerAllowAlways(v)
               \/ AnswerDeny(v) \/ AutoDeny(v) \/ AddToWhitelist(v) \/ Reply(v)
        PROVE  FALSE
    BY <2>4 DEF Unresolved, Authorize, AnswerAllowOnce, AnswerAllowAlways,
                AnswerDeny, AutoDeny, Deny, AddToWhitelist, Reply, TypeOK
  <2>5. QED  BY <1>2, <2>1, <2>2, <2>3, <2>4 DEF Decide
<1>3. CASE ControlThread
  BY <1>3 DEF ControlThread, CtlReceive, CtlConfirmed, CtlRefused, CtlHashes,
              CtlHashFails, CtlAdds, CtlClears, CtlLists, work_vars
<1>4. CASE Lifecycle
  BY <1>4 DEF Lifecycle, Start, Exit, HelperReset, HelperAllow, work_vars
<1>5. CASE UNCHANGED vars
  BY <1>5 DEF vars, work_vars
<1>6. QED  BY <1>1, <1>2, <1>3, <1>4, <1>5 DEF Next

(***************************************************************************)
(* No request is allowed without an approval of that very binary, in this  *)
(* session or for always, across every crash, restart, failed write and    *)
(* interleaving with a reset.                                              *)
(***************************************************************************)
THEOREM AllowedIsApproved == Spec => AllowNeedsApproval
<1> DEFINE Approved == \A w \in Worker : pc'[w] = "allow" /\ pc[w] # "allow"
                                           => hash'[w] \in once' \cup always'
<1>1. ASSUME Inv, [Next]_vars PROVE Approved \/ UNCHANGED vars
  BY <1>1, AllowStepIsApproved
<1>2. QED  BY <1>1, InitHasInv, NextKeepsInv, PTL DEF Spec, AllowNeedsApproval

-----------------------------------------------------------------------------
(***************************************************************************)
(* A worker leaves the whitelist check by the check itself or with the     *)
(* process, and what add() acknowledged is in memory while a process runs. *)
(***************************************************************************)
LEMMA WhitelistCheckHonours ==
  ASSUME Inv, [Next]_vars, NEW w \in Worker,
         pc[w] = "whitelist", pc'[w] # "whitelist", hash[w] \in durable
  PROVE  pc'[w] = "allow" \/ up' = "none"
<1> USE DEF Inv
<1>1. CASE Persist
  BY <1>1 DEF Persist, PersistOpen, PersistWrite, PersistRename, PersistFails,
              PersistReturns, LockInv, work_vars
<1>2. ASSUME NEW v \in Worker, Decide(v) PROVE pc'[w] = "allow"
  <2>1. v = w
    BY <1>2 DEF Decide, Unresolved, Authorize, CheckWhitelist, CheckCache,
                AnswerAllowOnce, AnswerAllowAlways, AnswerDeny, AutoDeny, Deny,
                StoreDecision, CacheDecision, AddToWhitelist, Reply, TypeOK
  <2>2. CheckWhitelist(w)
    BY <1>2, <2>1 DEF Decide, Unresolved, Authorize, CheckCache, AnswerAllowOnce,
                      AnswerAllowAlways, AnswerDeny, AutoDeny, Deny, StoreDecision,
                      AddToWhitelist, Reply, Decision
  <2>3. up # "none"
    BY DEF ProcessInv
  <2>4. hash[w] \in entries
    BY <2>3 DEF PersistInv
  <2>5. QED  BY <2>2, <2>4 DEF CheckWhitelist, TypeOK
<1>3. CASE ControlThread
  BY <1>3 DEF ControlThread, CtlReceive, CtlConfirmed, CtlRefused, CtlHashes,
              CtlHashFails, CtlAdds, CtlClears, CtlLists, work_vars
<1>4. CASE Lifecycle
  BY <1>4 DEF Lifecycle, Start, Exit, HelperReset, HelperAllow, work_vars
<1>5. CASE UNCHANGED vars
  BY <1>5 DEF vars, work_vars
<1>6. QED  BY <1>1, <1>2, <1>3, <1>4, <1>5 DEF Next

(***************************************************************************)
(* An approval that was acknowledged decides the next request of its       *)
(* binary, whatever the session cache says.                                *)
(***************************************************************************)
THEOREM AcknowledgedIsHonoured == Spec => ApprovalHonoured
<1> DEFINE Honoured ==
      \A w \in Worker : pc[w] = "whitelist" /\ pc'[w] # "whitelist" /\ hash[w] \in durable
                           => pc'[w] = "allow" \/ up' = "none"
<1>1. ASSUME Inv, [Next]_vars PROVE Honoured \/ UNCHANGED vars
  BY <1>1, WhitelistCheckHonours
<1>2. QED  BY <1>1, InitHasInv, NextKeepsInv, PTL DEF Spec, ApprovalHonoured

-----------------------------------------------------------------------------
(***************************************************************************)
(* Refinement.  Taking the mutex with a new hash is AAdd, with a reset     *)
(* AClear, the rename is ACommit; every other step of a running process    *)
(* is invisible to the atomic whitelist.                                   *)
(***************************************************************************)
LEMMA StepIsAtomicStep ==
  ASSUME Inv, [Next]_vars
  PROVE  [Atomic!ANext]_(Atomic!avars)
<1> USE DEF Inv, Atomic!avars
<1>1. CASE Persist
  <2>1. CASE PersistRename
    <3>1. up' = up /\ entries' = entries /\ Load(file') = entries /\ up # "none"
      BY <2>1 DEF PersistRename, PersistReturns, PersistInv, ProcessInv, LockInv, Load, Json
    <3>2. QED  BY <3>1 DEF Atomic!ANext, Atomic!ACommit
  <2>2. CASE PersistOpen \/ PersistWrite \/ PersistFails
    BY <2>2 DEF PersistOpen, PersistWrite, PersistFails, PersistReturns, file_vars, Load
  <2>3. QED  BY <1>1, <2>1, <2>2 DEF Persist
<1>2. ASSUME NEW w \in Worker, Decide(w) PROVE [Atomic!ANext]_(Atomic!avars)
  <2>1. CASE AddToWhitelist(w)
    <3>1. up' = up /\ file' = file /\ entries' = entries \cup {hash[w]} /\ up # "none"
      BY <2>1 DEF AddToWhitelist, BeginAdd, file_vars, ProcessInv
    <3>2. hash[w] \in Hash
      BY <2>1 DEF AddToWhitelist, HashInv
    <3>3. QED  BY <3>1, <3>2 DEF Atomic!ANext, Atomic!AAdd, Load
  <2>2. \/ up' = up /\ file' = file /\ entries' = entries
        \/ AddToWhitelist(w)
    BY <1>2 DEF Decide, Unresolved, Authorize, CheckWhitelist, CheckCache,
                AnswerAllowOnce, AnswerAllowAlways, AnswerDeny, AutoDeny, Deny,
                StoreDecision, CacheDecision, Reply, file_vars, list_vars
  <2>3. QED  BY <2>1, <2>2 DEF Load
<1>3. CASE ControlThread
  <2>1. CASE CtlAdds
    <3>1. up' = up /\ file' = file /\ entries' = entries \cup {ctlHash} /\ up # "none"
      BY <2>1 DEF CtlAdds, CtlLocks, BeginAdd, file_vars, ProcessInv
    <3>2. ctlHash \in Hash
      BY <2>1 DEF CtlAdds, CtlLocks, HashInv
    <3>3. QED  BY <3>1, <3>2 DEF Atomic!ANext, Atomic!AAdd, Load
  <2>2. CASE CtlClears
    <3>1. up' = up /\ file' = file /\ entries' = {} /\ up # "none"
      BY <2>2 DEF CtlClears, CtlLocks, BeginClear, file_vars, ProcessInv
    <3>2. QED  BY <3>1 DEF Atomic!ANext, Atomic!AClear, Load
  <2>3. \/ up' = up /\ file' = file /\ entries' = entries
        \/ CtlAdds \/ CtlClears
    BY <1>3 DEF ControlThread, CtlReceive, CtlConfirmed, CtlRefused, CtlHashes,
                CtlHashFails, CtlLists, file_vars, list_vars
  <2>4. QED  BY <2>1, <2>2, <2>3 DEF Load
<1>4. CASE Lifecycle
  <2>1. CASE Start
    BY <2>1 DEF Start, file_vars, Load, Atomic!ANext, Atomic!ALoad
  <2>2. CASE Exit
    BY <2>2 DEF Exit, file_vars, Load, Atomic!ANext, Atomic!AClose, Atomic!Closed
  <2>3. CASE HelperReset
    BY <2>3 DEF HelperReset, list_vars, Load, Absent, Atomic!ANext, Atomic!ARemove
  <2>4. ASSUME NEW h \in Hash, HelperAllow(h) PROVE [Atomic!ANext]_(Atomic!avars)
    BY <2>4 DEF HelperAllow, file_vars, Load, Atomic!ANext, Atomic!ALoadAdd
  <2>5. QED  BY <1>4, <2>1, <2>2, <2>3, <2>4 DEF Lifecycle
<1>5. CASE UNCHANGED vars
  BY <1>5 DEF vars, file_vars, list_vars, Load
<1>6. QED  BY <1>1, <1>2, <1>3, <1>4, <1>5 DEF Next

(***************************************************************************)
(* The whitelist, persisted by three system calls any of which can fail or *)
(* be the last thing the process does, implements the atomic whitelist.    *)
(***************************************************************************)
THEOREM ImplementsAtomic == Spec => WhitelistIsAtomic
<1>1. Init => Atomic!AInit
  BY DEF Init, NoProcess, Atomic!AInit, Atomic!Closed, Load, Absent
<1>2. QED
  BY <1>1, InitHasInv, NextKeepsInv, StepIsAtomicStep, PTL
     DEF Spec, WhitelistIsAtomic, Atomic!ASpec
=============================================================================
