------------------------- MODULE VaultLifecycleProofs -------------------------
(***************************************************************************)
(* Proofs about VaultLifecycle, for any number of commands and managers.   *)
(***************************************************************************)
EXTENDS VaultLifecycle, TLAPS

USE DEF Goto, Signal, Unused

(* The steps of a command, of a manager and of a gate. *)
LEMMA CommandStep ==
  ASSUME LifecycleTypeOK, NEW a \in Att,
         OpenVault(a) \/ SpawnManager(a) \/ PasswordTyped(a)
           \/ NoPassword(a) \/ FeedPassword(a) \/ FeedBlocks(a)
           \/ FeedTimesOut(a) \/ OpenSucceeds(a) \/ OpenGivesUp(a)
           \/ AwaitsEnd(a) \/ OpenFails(a) \/ CloseVault(a)
           \/ Closed(a) \/ ForceClose(a)
  PROVE  LifecycleTypeOK'
<1> USE ProcessesDistinct DEF LifecycleTypeOK, AttPc, ManagerPc, ShutPc, GateState
<1>1. CASE OpenVault(a)
  BY <1>1 DEF OpenVault
<1>2. CASE SpawnManager(a)
  BY <1>2 DEF SpawnManager
<1>3. CASE PasswordTyped(a)
  BY <1>3 DEF PasswordTyped
<1>4. CASE NoPassword(a)
  BY <1>4 DEF NoPassword, RemovesFifo
<1>5. CASE FeedPassword(a)
  BY <1>5 DEF FeedPassword
<1>6. CASE FeedBlocks(a)
  BY <1>6 DEF FeedBlocks
<1>7. CASE FeedTimesOut(a)
  BY <1>7 DEF FeedTimesOut
<1>8. CASE OpenSucceeds(a)
  BY <1>8 DEF OpenSucceeds
<1>9. CASE OpenGivesUp(a)
  BY <1>9 DEF OpenGivesUp
<1>10. CASE AwaitsEnd(a)
  BY <1>10 DEF AwaitsEnd
<1>11. CASE OpenFails(a)
  BY <1>11 DEF OpenFails, RemovesFifo
<1>12. CASE CloseVault(a)
  BY <1>12 DEF CloseVault
<1>13. CASE Closed(a)
  BY <1>13 DEF Closed
<1>14. CASE ForceClose(a)
  BY <1>14 DEF ForceClose, Busy
<1>15. QED
  BY <1>1, <1>2, <1>3, <1>4, <1>5, <1>6, <1>7, <1>8, <1>9, <1>10,
     <1>11, <1>12, <1>13, <1>14

LEMMA ManagerStep ==
  ASSUME LifecycleTypeOK, NEW m \in Manager,
         ManagerStarts(m) \/ Trap(m) \/ SeesMount(m) \/ WaitFails(m)
           \/ Loop(m) \/ Wake(m) \/ AskClock(m) \/ AskHandles(m)
           \/ NoAnswer(m) \/ Search(m) \/ ReapGate(m) \/ SessionEnds(m)
  PROVE  LifecycleTypeOK'
<1> USE ProcessesDistinct DEF LifecycleTypeOK, AttPc, ManagerPc, ShutPc, GateState
<1>1. CASE ManagerStarts(m)
  BY <1>1 DEF ManagerStarts
<1>2. CASE Trap(m)
  BY <1>2 DEF Trap
<1>3. CASE SeesMount(m)
  BY <1>3 DEF SeesMount, RemovesFifo
<1>4. CASE WaitFails(m)
  BY <1>4 DEF WaitFails
<1>5. CASE Loop(m)
  BY <1>5 DEF Loop
<1>6. CASE Wake(m)
  BY <1>6 DEF Wake
<1>7. CASE AskClock(m)
  <2>1. socket \in Manager
    BY <1>7 DEF AskClock, Answers
  <2>2. CASE socket \in recent
    BY <1>7, <2>2 DEF AskClock, Decides
  <2>3. CASE socket \notin recent
    BY <1>7, <2>1, <2>3 DEF AskClock
  <2>4. QED
    BY <2>2, <2>3
<1>8. CASE AskHandles(m)
  BY <1>8 DEF AskHandles, Decides
<1>9. CASE NoAnswer(m)
  BY <1>9 DEF NoAnswer
<1>10. CASE Search(m)
  BY <1>10 DEF Search, Decides
<1>11. CASE ReapGate(m)
  BY <1>11 DEF ReapGate
<1>12. CASE SessionEnds(m)
  BY <1>12 DEF SessionEnds
<1>13. QED
  BY <1>1, <1>2, <1>3, <1>4, <1>5, <1>6, <1>7, <1>8, <1>9, <1>10,
     <1>11, <1>12

LEMMA GateStep ==
  ASSUME LifecycleTypeOK, NEW m \in Manager,
         OpenFifo(m) \/ GateMounts(m) \/ GateEnds(m) \/ GateCrashes(m)
           \/ OpenFile(m) \/ ReadWrite(m) \/ CloseFile(m)
           \/ IdleWindowPasses(m)
  PROVE  LifecycleTypeOK'
<1> USE ProcessesDistinct DEF LifecycleTypeOK, AttPc, ManagerPc, ShutPc, GateState
<1>1. CASE OpenFifo(m)
  BY <1>1 DEF OpenFifo
<1>2. CASE GateMounts(m)
  BY <1>2 DEF GateMounts
<1>3. CASE GateEnds(m)
  BY <1>3 DEF GateEnds
<1>4. CASE GateCrashes(m)
  BY <1>4 DEF GateCrashes
<1>5. CASE OpenFile(m)
  BY <1>5 DEF OpenFile
<1>6. CASE ReadWrite(m)
  BY <1>6 DEF ReadWrite
<1>7. CASE CloseFile(m)
  BY <1>7 DEF CloseFile
<1>8. CASE IdleWindowPasses(m)
  BY <1>8 DEF IdleWindowPasses
<1>9. QED
  BY <1>1, <1>2, <1>3, <1>4, <1>5, <1>6, <1>7, <1>8

(* do_shutdown, in a command or in a manager. *)
LEMMA FrontIsSeq ==
  ASSUME LifecycleTypeOK, is_mounted
  PROVE  Front(mounts) \in Seq(Manager)
<1>1. mounts \in Seq(Manager) /\ Len(mounts) > 0
  BY DEF LifecycleTypeOK, is_mounted
<1>2. QED
  BY <1>1 DEF Front

LEMMA ShutdownStep ==
  ASSUME LifecycleTypeOK, NEW p \in Att \cup Manager,
         UnmountVault(p) \/ DetachVault(p) \/ CleanUp(p)
  PROVE  LifecycleTypeOK'
<1> USE ProcessesDistinct DEF LifecycleTypeOK, AttPc, ManagerPc, ShutPc, GateState
<1>1. CASE UnmountVault(p)
  <2>1. mounts' \in Seq(Manager)
    BY <1>1, FrontIsSeq DEF UnmountVault
  <2>2. QED
    BY <1>1, <2>1 DEF UnmountVault
<1>2. CASE DetachVault(p)
  <2>1. mounts' \in Seq(Manager)
    BY <1>2, FrontIsSeq DEF DetachVault
  <2>2. QED
    BY <1>2, <2>1 DEF DetachVault
<1>3. CASE CleanUp(p)
  BY <1>3 DEF CleanUp, RemovesFifo
<1>4. QED
  BY <1>1, <1>2, <1>3

(***************************************************************************)
(* Type correctness: every step of every process leaves the pid file, the  *)
(* fifo, the mount table and the gates in states the model knows.          *)
(***************************************************************************)
THEOREM LifecycleTypes == Spec => []LifecycleTypeOK
<1>1. Init => LifecycleTypeOK
  <2> SUFFICES ASSUME Init PROVE LifecycleTypeOK
    OBVIOUS
  <2>1. /\ pc \in [Att \cup Manager -> AttPc \cup ManagerPc \cup ShutPc]
        /\ \A a \in Att : pc[a] \in AttPc \cup ShutPc
        /\ \A m \in Manager : pc[m] \in ManagerPc \cup ShutPc
    BY ProcessesDistinct DEF Init, AttPc, ManagerPc
  <2>2. mounts \in Seq(Manager)
    <3>1. << >> \in Seq(Manager)
      OBVIOUS
    <3>2. mounts = << >>
      BY Zenon DEF Init
    <3>3. QED
      BY <3>1, <3>2, Zenon
  <2>3. /\ gate \in [Manager -> GateState]
        /\ asked \in [Manager -> Manager \cup {None}]
    BY DEF Init, GateState
  <2>4. QED
    BY <2>1, <2>2, <2>3 DEF Init, LifecycleTypeOK
<1>2. LifecycleTypeOK /\ [Next]_vars => LifecycleTypeOK'
  <2>1. SUFFICES ASSUME LifecycleTypeOK, [Next]_vars PROVE LifecycleTypeOK'
    OBVIOUS
  <2>2. CASE UNCHANGED vars
    BY <2>1, <2>2 DEF vars, LifecycleTypeOK
  <2>3. ASSUME NEW a \in Att, AttRuns(a) \/ User(a) PROVE LifecycleTypeOK'
    BY <2>1, <2>3, CommandStep, ShutdownStep DEF AttRuns, User, Shutdown
  <2>4. ASSUME NEW m \in Manager, ManagerRuns(m) PROVE LifecycleTypeOK'
    BY <2>1, <2>4, ManagerStep, ShutdownStep DEF ManagerRuns, Shutdown
  <2>5. ASSUME NEW m \in Manager,
               GateRuns(m) \/ Program(m) \/ GateCrashes(m) \/ SessionEnds(m)
                 \/ IdleWindowPasses(m)
        PROVE  LifecycleTypeOK'
    BY <2>1, <2>5, ManagerStep, GateStep DEF GateRuns, Program
  <2>6. QED
    BY <2>1, <2>2, <2>3, <2>4, <2>5 DEF Next
<1>3. QED
  BY <1>1, <1>2, PTL DEF Spec

(***************************************************************************)
(* The inductive invariant.  A process that is past the point where the    *)
(* password can be written into a plain file and before its own rm of the  *)
(* fifo (Cleaning) never ends without that rm: a trap leads it to          *)
(* do_shutdown, and who kills it does its cleaning.  So while the password *)
(* lies in a file, somebody is still to remove it, or there is a mount,    *)
(* and who takes the last mount away is cleaning up then.                  *)
(***************************************************************************)
Cleaning == {"poll", "ending", "tidy", "waiting", "loop", "interval", "check", "handles",
             "search", "reap"} \cup ShutPc

PasswordInv == fifo = "file" /\ ~is_mounted => \E p \in Att \cup Manager : pc[p] \in Cleaning

HeldInv == held \subseteq inUse

Inv == LifecycleTypeOK /\ PasswordInv /\ HeldInv

(* A process that goes from one step to another and does not leave Cleaning. *)
LEMMA MovesOn ==
  ASSUME LifecycleTypeOK, PasswordInv, NEW p \in Att \cup Manager, NEW at,
         pc' = [pc EXCEPT ![p] = at], pc[p] \in Cleaning => at \in Cleaning,
         UNCHANGED <<fifo, mounts>>
  PROVE  PasswordInv'
<1>1. \A q \in Att \cup Manager : pc[q] \in Cleaning => pc'[q] \in Cleaning
  BY DEF LifecycleTypeOK
<1>2. QED
  BY <1>1 DEF PasswordInv, is_mounted

(* A process that is cleaning up after the step, whatever the step did. *)
LEMMA IsCleaning ==
  ASSUME NEW p \in Att \cup Manager, pc'[p] \in Cleaning
  PROVE  PasswordInv'
  BY DEF PasswordInv

LEMMA CommandKeepsPassword ==
  ASSUME LifecycleTypeOK, PasswordInv, NEW a \in Att, AttRuns(a) \/ User(a), ~Shutdown(a)
  PROVE  PasswordInv'
<1> USE DEF Cleaning, ShutPc
<1>1. CASE OpenVault(a)
  BY <1>1, MovesOn DEF OpenVault
<1>2. CASE SpawnManager(a) \/ NoPassword(a) \/ OpenFails(a)
  <2>1. fifo' # "file"
    BY <1>2 DEF SpawnManager, NoPassword, OpenFails, RemovesFifo
  <2>2. QED
    BY <2>1 DEF PasswordInv
<1>3. CASE PasswordTyped(a)
  BY <1>3, MovesOn DEF PasswordTyped
<1>4. CASE FeedPassword(a)
  BY <1>4, IsCleaning DEF FeedPassword, LifecycleTypeOK
<1>5. CASE FeedBlocks(a) \/ FeedTimesOut(a)
  BY <1>5, MovesOn DEF FeedBlocks, FeedTimesOut
<1>6. CASE OpenSucceeds(a)
  BY <1>6 DEF OpenSucceeds, PasswordInv, is_mounted
<1>7. CASE OpenGivesUp(a) \/ AwaitsEnd(a)
  BY <1>7, MovesOn DEF OpenGivesUp, AwaitsEnd
<1>8. CASE CloseVault(a) \/ Closed(a)
  BY <1>8, MovesOn DEF CloseVault, Closed, ShutPc
<1>9. CASE ForceClose(a)
  <2>1. pidfile \in Manager /\ pidfile # a
    BY <1>9, ProcessesDistinct DEF ForceClose, Busy, LifecycleTypeOK
  <2>2. pc'[a] = "unmount"
    BY <1>9, <2>1 DEF ForceClose, LifecycleTypeOK
  <2>3. QED
    BY <2>2, IsCleaning DEF ShutPc
<1>10. QED
  BY <1>1, <1>2, <1>3, <1>4, <1>5, <1>6, <1>7, <1>8, <1>9 DEF AttRuns, User

LEMMA ManagerKeepsPassword ==
  ASSUME LifecycleTypeOK, PasswordInv, NEW m \in Manager, ManagerRuns(m), ~Shutdown(m)
  PROVE  PasswordInv'
<1> USE DEF Cleaning, ShutPc
<1>1. CASE ManagerStarts(m)
  BY <1>1, MovesOn DEF ManagerStarts
<1>2. CASE Trap(m)
  BY <1>2, MovesOn DEF Trap
<1>3. CASE SeesMount(m)
  BY <1>3 DEF SeesMount, RemovesFifo, PasswordInv
<1>4. CASE WaitFails(m) \/ Loop(m) \/ Wake(m)
  BY <1>4, MovesOn DEF WaitFails, Loop, Wake
<1>5. CASE AskClock(m) \/ AskHandles(m) \/ NoAnswer(m) \/ Search(m)
  BY <1>5, MovesOn DEF AskClock, AskHandles, NoAnswer, Search, Decides
<1>6. CASE ReapGate(m)
  BY <1>6, MovesOn DEF ReapGate
<1>7. QED
  BY <1>1, <1>2, <1>3, <1>4, <1>5, <1>6 DEF ManagerRuns

LEMMA ShutdownKeepsPassword ==
  ASSUME LifecycleTypeOK, PasswordInv, NEW p \in Att \cup Manager, Shutdown(p)
  PROVE  PasswordInv'
<1>1. CASE UnmountVault(p) \/ DetachVault(p)
  BY <1>1, IsCleaning DEF UnmountVault, DetachVault, LifecycleTypeOK, Cleaning, ShutPc
<1>2. CASE CleanUp(p)
  BY <1>2 DEF CleanUp, RemovesFifo, PasswordInv
<1>3. QED
  BY <1>1, <1>2 DEF Shutdown

LEMMA GateKeepsPassword ==
  ASSUME LifecycleTypeOK, PasswordInv, NEW m \in Manager,
         GateRuns(m) \/ Program(m) \/ GateCrashes(m) \/ SessionEnds(m) \/ IdleWindowPasses(m)
  PROVE  PasswordInv'
<1>1. CASE GateMounts(m)
  <2>1. mounts' = mounts \/ mounts' = Append(mounts, m)
    BY <1>1 DEF GateMounts
  <2>2. mounts' = << >> => mounts = << >>
    BY <2>1 DEF LifecycleTypeOK
  <2>3. QED
    BY <1>1, <2>2 DEF GateMounts, PasswordInv, is_mounted
<1>2. CASE UNCHANGED <<pc, fifo, mounts>>
  BY <1>2 DEF PasswordInv, is_mounted
<1>3. QED
  BY <1>1, <1>2 DEF GateRuns, Program, OpenFifo, GateEnds, GateCrashes, SessionEnds,
    OpenFile, ReadWrite, CloseFile, IdleWindowPasses

LEMMA StepKeepsHeld ==
  ASSUME HeldInv, [Next]_vars
  PROVE  HeldInv'
<1> USE DEF HeldInv
<1>1. CASE UNCHANGED vars
  BY <1>1 DEF vars
<1>2. ASSUME NEW a \in Att, AttRuns(a) \/ User(a) PROVE HeldInv'
  BY <1>2 DEF AttRuns, User, Shutdown, OpenVault, SpawnManager, PasswordTyped, NoPassword,
    FeedPassword, FeedBlocks, FeedTimesOut, OpenSucceeds, OpenGivesUp, AwaitsEnd, OpenFails,
    CloseVault, Closed, ForceClose, UnmountVault, DetachVault, CleanUp
<1>3. ASSUME NEW m \in Manager, ManagerRuns(m) PROVE HeldInv'
  BY <1>3 DEF ManagerRuns, Shutdown, ManagerStarts, Trap, SeesMount, WaitFails, Loop, Wake,
    AskClock, AskHandles, NoAnswer, Search, Decides, ReapGate, UnmountVault, DetachVault, CleanUp
<1>4. ASSUME NEW m \in Manager,
             GateRuns(m) \/ Program(m) \/ GateCrashes(m) \/ SessionEnds(m)
               \/ IdleWindowPasses(m)
      PROVE  HeldInv'
  BY <1>4 DEF GateRuns, Program, OpenFifo, GateMounts, GateEnds, GateCrashes, SessionEnds,
    OpenFile, ReadWrite, CloseFile, IdleWindowPasses
<1>5. QED
  BY <1>1, <1>2, <1>3, <1>4 DEF Next

LEMMA InvInductive == Spec => []Inv
<1>1. Init => PasswordInv /\ HeldInv
  BY DEF Init, PasswordInv, HeldInv
<1>2. LifecycleTypeOK /\ PasswordInv /\ HeldInv /\ [Next]_vars => (PasswordInv /\ HeldInv)'
  <2> SUFFICES ASSUME LifecycleTypeOK, PasswordInv, HeldInv, [Next]_vars
               PROVE  PasswordInv'
    BY StepKeepsHeld
  <2>1. CASE UNCHANGED vars
    BY <2>1 DEF vars, PasswordInv, is_mounted
  <2>2. ASSUME NEW a \in Att, AttRuns(a) \/ User(a) PROVE PasswordInv'
    BY <2>2, CommandKeepsPassword, ShutdownKeepsPassword
  <2>3. ASSUME NEW m \in Manager, ManagerRuns(m) PROVE PasswordInv'
    BY <2>3, ManagerKeepsPassword, ShutdownKeepsPassword
  <2>4. ASSUME NEW m \in Manager,
               GateRuns(m) \/ Program(m) \/ GateCrashes(m) \/ SessionEnds(m)
                 \/ IdleWindowPasses(m)
        PROVE  PasswordInv'
    BY <2>4, GateKeepsPassword
  <2>5. QED
    BY <2>1, <2>2, <2>3, <2>4 DEF Next
<1>3. QED
  BY <1>1, <1>2, LifecycleTypes, PTL DEF Spec, Inv

(***************************************************************************)
(* However many commands and managers overlap, when all have ended and     *)
(* nothing is mounted the password does not lie on the disk (att:423).     *)
(***************************************************************************)
THEOREM PasswordIsRemoved == Spec => []PasswordNotLeft
<1>1. Inv => PasswordNotLeft
  BY DEF Inv, PasswordInv, PasswordNotLeft, Resting, Alive, Cleaning, ShutPc
<1>2. QED
  BY <1>1, InvInductive, PTL

(***************************************************************************)
(* Only the answer of a gate, or a search, ends an idle check with closing *)
(* the vault.                                                              *)
(***************************************************************************)
LEMMA OnlyChecksClose ==
  ASSUME LifecycleTypeOK, Next, NEW m \in Manager,
         pc[m] \in {"handles", "search"}, pc'[m] = "unmount"
  PROVE  AskHandles(m) \/ Search(m)
<1>1. ASSUME NEW a \in Att, AttRuns(a) \/ User(a) PROVE FALSE
  <2>1. m # a
    BY ProcessesDistinct
  <2>2. CASE SpawnManager(a)
    BY <2>1, <2>2 DEF SpawnManager, LifecycleTypeOK
  <2>3. CASE ForceClose(a)
    BY <2>1, <2>3 DEF ForceClose, LifecycleTypeOK
  <2>4. CASE ~SpawnManager(a) /\ ~ForceClose(a)
    <3>1. \E at : pc' = [pc EXCEPT ![a] = at]
      BY <1>1, <2>4 DEF AttRuns, User, Shutdown, OpenVault, PasswordTyped, NoPassword,
        FeedPassword, FeedBlocks, FeedTimesOut, OpenSucceeds, OpenGivesUp, AwaitsEnd,
        OpenFails, CloseVault, Closed, UnmountVault, DetachVault, CleanUp
    <3>2. QED
      BY <2>1, <3>1 DEF LifecycleTypeOK
  <2>5. QED
    BY <2>2, <2>3, <2>4
<1>2. ASSUME NEW g \in Manager, ManagerRuns(g), ~(AskHandles(m) \/ Search(m)) PROVE FALSE
  <2>1. \E at : pc' = [pc EXCEPT ![g] = at]
    BY <1>2 DEF ManagerRuns, Shutdown, ManagerStarts, Trap, SeesMount, WaitFails, Loop, Wake,
      AskClock, AskHandles, NoAnswer, Search, Decides, ReapGate, UnmountVault, DetachVault,
      CleanUp
  <2>2. g = m
    BY <2>1 DEF LifecycleTypeOK
  <2>3. CASE NoAnswer(m)
    BY <2>3 DEF NoAnswer, LifecycleTypeOK
  <2>4. CASE ~NoAnswer(m)
    BY <1>2, <2>2, <2>4 DEF ManagerRuns, Shutdown, ManagerStarts, Trap, SeesMount, WaitFails,
      Loop, Wake, AskClock, ReapGate, UnmountVault, DetachVault, CleanUp
  <2>5. QED
    BY <2>3, <2>4
<1>3. ASSUME NEW g \in Manager,
             GateRuns(g) \/ Program(g) \/ GateCrashes(g) \/ SessionEnds(g)
               \/ IdleWindowPasses(g)
      PROVE  FALSE
  BY <1>3 DEF GateRuns, Program, OpenFifo, GateMounts, GateEnds, GateCrashes, SessionEnds,
    OpenFile, ReadWrite, CloseFile, IdleWindowPasses
<1>4. QED
  BY <1>1, <1>2, <1>3 DEF Next

(***************************************************************************)
(* No idle check closes the vault on a program whose file was open before  *)
(* it began and still is, unless another gate serves as well: a file that  *)
(* is held is in use, and that is what the gate answers and the search     *)
(* finds (att:146, control.rs:156-158).                                    *)
(***************************************************************************)
THEOREM IdleCheckSpares == Spec => IdleCloseSparesHeldFiles
<1> DEFINE Spares == \A m \in Manager : pc[m] \in {"handles", "search"} /\ pc'[m] = "unmount"
                       => m \notin held \/ ~Open(m) \/ \E g \in Manager \ {m} : Serving(g)
<1>1. Inv /\ [Next]_vars => [Spares]_vars
  <2> SUFFICES ASSUME Inv, Next, NEW m \in Manager,
                      pc[m] \in {"handles", "search"}, pc'[m] = "unmount",
                      m \in held, Open(m), ~\E g \in Manager \ {m} : Serving(g)
               PROVE  FALSE
    OBVIOUS
  <2>1. LifecycleTypeOK /\ m \in inUse
    BY DEF Inv, HeldInv
  <2>2. CASE AskHandles(m)
    <3>1. asked[m] = m
      BY <2>1, <2>2 DEF AskHandles, Answers, LifecycleTypeOK
    <3>2. pc'[m] = "loop"
      BY <2>1, <2>2, <3>1 DEF AskHandles, Decides, LifecycleTypeOK
    <3>3. QED
      BY <3>2
  <2>3. CASE Search(m)
    BY <2>1, <2>3 DEF Search, Decides, Open, LifecycleTypeOK
  <2>4. QED
    BY <2>1, <2>2, <2>3, OnlyChecksClose
<1>2. QED
  BY <1>1, InvInductive, PTL DEF Spec, IdleCloseSparesHeldFiles
=============================================================================
