--------------------------- MODULE VaultLifecycle ---------------------------
(***************************************************************************)
(* The life of an open vault (att, attache-mount-helper.rs, main.rs): the  *)
(* commands `att open' and `att close', the manager each open starts, and  *)
(* the helper the manager starts, which waits for the password and then    *)
(* becomes attache-gate.  They share the pid file, the password fifo, the  *)
(* mount table and the control socket, and no lock.                        *)
(*                                                                         *)
(* Time is abstract.  A bounded wait ends when what it waits for happens,  *)
(* or runs out at any moment before that.  Only the 5 seconds a command    *)
(* gives the manager are compared with something: every step of the        *)
(* manager is short except its search of the mount (Busy).                 *)
(***************************************************************************)
EXTENDS Sequences, SequencesExt

CONSTANTS Att,      \* att commands that may run at the same time
          Manager,  \* bound: the manager processes ever started
          None

ASSUME ProcessesDistinct == Att \cap Manager = {} /\ None \notin Att \cup Manager

VARIABLES
  pc,        \* where each command and each manager is
  sig,       \* managers with a trapped signal pending
  gate,      \* the helper, later gate, each manager started
  pidfile,   \* MANAGER_PIDFILE: a manager or None
  fifo,      \* PWFIFO: "none", "fifo", or "file" once written as a plain file
  mounts,    \* attache-gate mounts on REAL_MOUNTPOINT, the topmost last
  socket,    \* the gate that answers on CONTROL_SOCKET
  inUse,     \* gates some program holds a file of open
  recent,    \* gates whose last activity is within the idle window
  modified,  \* something in the vault is newer than STAMPFILE
  asked,     \* the gate a manager's STATUS is connected to, or None
  held       \* history: gates with a file open since their manager's check began

vars == <<pc, sig, gate, pidfile, fifo, mounts, socket, inUse, recent, modified,
          asked, held>>

AttPc     == {"idle", "setup", "prompt", "feed", "blocked", "poll", "ending", "tidy",
              "closing"}
ManagerPc == {"none", "launched", "waiting", "loop", "interval", "check", "handles",
              "search", "reap", "gone", "killed"}
ShutPc    == {"unmount", "detach", "clean"}  \* do_shutdown, in either
GateState == {"none", "starting", "reading", "orphan", "mounting", "serving",
              "dead", "crashed"}

LifecycleTypeOK ==
  /\ pc \in [Att \cup Manager -> AttPc \cup ManagerPc \cup ShutPc]
  /\ \A a \in Att : pc[a] \in AttPc \cup ShutPc
  /\ \A m \in Manager : pc[m] \in ManagerPc \cup ShutPc
  /\ sig \subseteq Manager /\ gate \in [Manager -> GateState]
  /\ pidfile \in Manager \cup {None} /\ fifo \in {"none", "fifo", "file"}
  /\ mounts \in Seq(Manager) /\ socket \in Manager \cup {None}
  /\ inUse \subseteq Manager /\ recent \subseteq Manager /\ modified \in BOOLEAN
  /\ asked \in [Manager -> Manager \cup {None}] /\ held \subseteq Manager

Alive(m)     == pc[m] \notin {"none", "gone", "killed"}
Gone(m)      == gate[m] \in {"dead", "crashed"}  \* kill -0 $GATE_PID fails
Serving(m)   == gate[m] = "serving"
is_mounted   == mounts # << >>  \* a mount is listed whether or not its gate lives
manager_running == pidfile # None /\ Alive(pidfile)
Stale        == is_mounted /\ Gone(Last(mounts))
Open(m)      == is_mounted /\ Last(mounts) = m /\ Serving(m)  \* programs reach m

Goto(p, at)  == pc' = [pc EXCEPT ![p] = at]
Signal(m)    == sig' = IF m # None /\ Alive(m) THEN sig \cup {m} ELSE sig
Unused       == UNCHANGED <<inUse, recent, modified, asked, held>>

(***************************************************************************)
(* rm of the fifo.  A helper already reading it keeps the removed one.     *)
(***************************************************************************)
RemovesFifo ==
  /\ fifo' = "none"
  /\ gate' = [m \in Manager |-> IF gate[m] = "reading" THEN "orphan" ELSE gate[m]]

Init ==
  /\ pc = [p \in Att \cup Manager |-> IF p \in Att THEN "idle" ELSE "none"]
  /\ sig = {} /\ gate = [m \in Manager |-> "none"]
  /\ pidfile = None /\ fifo = "none" /\ mounts = << >> /\ socket = None
  /\ inUse = {} /\ recent = {} /\ modified = FALSE
  /\ asked = [m \in Manager |-> None] /\ held = {}

-----------------------------------------------------------------------------
(***************************************************************************)
(* open_attache.  mkdir -p fails on a mount whose gate has died, and the   *)
(* command with it.                                                        *)
(***************************************************************************)
OpenVault(a) ==
  /\ pc[a] = "idle" /\ ~manager_running /\ ~Stale
  /\ \E m \in Manager : pc[m] = "none"  \* bound
  /\ Goto(a, "setup")
  /\ UNCHANGED <<sig, gate, pidfile, fifo, mounts, socket>> /\ Unused

SpawnWritesOwnPid(a) ==  \* MUTANT of SpawnManager: $$ for $!
  /\ pc[a] = "setup"
  /\ \E m \in Manager : pc[m] = "none" /\ pc' = [pc EXCEPT ![a] = "prompt", ![m] = "launched"]
  /\ pidfile' = a /\ fifo' = "fifo"
  /\ UNCHANGED <<sig, gate, mounts, socket>> /\ Unused

SpawnManager(a) ==
  /\ pc[a] = "setup"
  /\ \E m \in Manager : /\ pc[m] = "none"
                        /\ pc' = [pc EXCEPT ![a] = "prompt", ![m] = "launched"]
                        /\ pidfile' = m
  /\ fifo' = "fifo"
  /\ gate' = [m \in Manager |-> IF gate[m] = "reading" THEN "orphan" ELSE gate[m]]
  /\ UNCHANGED <<sig, mounts, socket>> /\ Unused

PasswordTyped(a) ==
  /\ pc[a] = "prompt" /\ Goto(a, "feed")
  /\ UNCHANGED <<sig, gate, pidfile, fifo, mounts, socket>> /\ Unused

NoPassword(a) ==
  /\ pc[a] = "prompt" /\ Goto(a, "idle")
  /\ Signal(pidfile) /\ pidfile' = None
  /\ RemovesFifo
  /\ UNCHANGED <<mounts, socket>> /\ Unused

(***************************************************************************)
(* feed_password: opening the fifo waits for a reader, one that opened the *)
(* same fifo, for 30 s.  One of the helpers that read it gets the password *)
(* and its gocryptfs accepts it or not; the others read an end of file.    *)
(* When the fifo is gone the password goes into a new file of its name.    *)
(***************************************************************************)
Reading == {m \in Manager : gate[m] = "reading"}

FeedPassword(a) ==
  /\ pc[a] \in {"feed", "blocked"} /\ Goto(a, "poll")
  /\ \/ /\ fifo = "fifo"
        /\ \E m \in Reading, unlocks \in BOOLEAN :
             gate' = [g \in Manager |-> IF g = m /\ unlocks THEN "mounting"
                                        ELSE IF g \in Reading THEN "dead" ELSE gate[g]]
        /\ UNCHANGED fifo
     \/ /\ fifo # "fifo" /\ pc[a] = "feed" /\ fifo' = "file" /\ UNCHANGED gate
  /\ UNCHANGED <<sig, pidfile, mounts, socket>> /\ Unused

FeedBlocks(a) ==
  /\ pc[a] = "feed" /\ fifo = "fifo" /\ Reading = {}
  /\ Goto(a, "blocked")
  /\ UNCHANGED <<sig, gate, pidfile, fifo, mounts, socket>> /\ Unused

FeedStuck(a) ==  \* MUTANT of FeedTimesOut: no timeout around cat
  pc[a] = "blocked" /\ UNCHANGED vars

FeedTimesOut(a) ==
  /\ pc[a] = "blocked" /\ Goto(a, "poll")
  /\ UNCHANGED <<sig, gate, pidfile, fifo, mounts, socket>> /\ Unused

Busy(m) == m # None /\ pc[m] = "search"  \* answers no signal, for any time

OpenSucceeds(a) ==
  /\ pc[a] = "poll" /\ is_mounted /\ Goto(a, "idle")
  /\ UNCHANGED <<sig, gate, pidfile, fifo, mounts, socket>> /\ Unused

OpenGivesUp(a) ==  \* after 10 s, or at once without a manager
  /\ pc[a] = "poll" /\ ~is_mounted
  /\ IF manager_running THEN /\ pc[pidfile] # "launched"  \* 10 s ago
                             /\ Signal(pidfile) /\ Goto(a, "ending")
                        ELSE UNCHANGED sig /\ Goto(a, "tidy")
  /\ UNCHANGED <<gate, pidfile, fifo, mounts, socket>> /\ Unused

AwaitsEnd(a) ==
  /\ pc[a] = "ending" /\ (~manager_running \/ Busy(pidfile))
  /\ Goto(a, "tidy")
  /\ UNCHANGED <<sig, gate, pidfile, fifo, mounts, socket>> /\ Unused

OpenFailsLeavingFifo(a) ==  \* MUTANT of OpenFails: rm of the pid file only
  /\ pc[a] = "tidy" /\ Goto(a, "idle")
  /\ pidfile' = None
  /\ UNCHANGED <<sig, gate, fifo, mounts, socket>> /\ Unused

OpenFails(a) ==
  /\ pc[a] = "tidy" /\ Goto(a, "idle")
  /\ pidfile' = None /\ RemovesFifo
  /\ UNCHANGED <<sig, mounts, socket>> /\ Unused

-----------------------------------------------------------------------------
(***************************************************************************)
(* close_attache: end the manager, or clean up after one that is no more.  *)
(***************************************************************************)
CloseVault(a) ==
  /\ pc[a] = "idle"
  /\ \/ manager_running /\ Signal(pidfile) /\ Goto(a, "closing")
     \/ ~manager_running /\ is_mounted /\ UNCHANGED sig /\ Goto(a, "unmount")
  /\ UNCHANGED <<gate, pidfile, fifo, mounts, socket>> /\ Unused

Closed(a) ==
  /\ pc[a] = "closing" /\ ~manager_running /\ Goto(a, "idle")
  /\ UNCHANGED <<sig, gate, pidfile, fifo, mounts, socket>> /\ Unused

ForceClose(a) ==  \* kill -KILL; what the manager started lives on
  /\ pc[a] = "closing" /\ Busy(pidfile)
  /\ pc' = [pc EXCEPT ![a] = "unmount", ![pidfile] = "killed"]
  /\ sig' = sig \ {pidfile} /\ pidfile' = None
  /\ UNCHANGED <<gate, fifo, mounts, socket>> /\ Unused

-----------------------------------------------------------------------------
(***************************************************************************)
(* do_shutdown, in a manager or in a command.  fusermount -u fails while a *)
(* file is open; what is still mounted after 2 s is detached lazily.  Then *)
(* a manager waits for its gate, or ends it.                               *)
(***************************************************************************)
UnmountVault(p) ==
  /\ pc[p] = "unmount" /\ p \notin sig
  /\ IF is_mounted THEN Goto(p, "detach")
     ELSE Goto(p, IF p \in Manager THEN "reap" ELSE "clean")
  /\ mounts' = IF is_mounted /\ Last(mounts) \notin inUse THEN Front(mounts) ELSE mounts
  /\ UNCHANGED <<sig, gate, pidfile, fifo, socket>> /\ Unused

DetachVault(p) ==
  /\ pc[p] = "detach" /\ p \notin sig
  /\ Goto(p, IF p \in Manager THEN "reap" ELSE "clean")
  /\ mounts' = IF is_mounted THEN Front(mounts) ELSE mounts
  /\ UNCHANGED <<sig, gate, pidfile, fifo, socket>> /\ Unused

ReapGently(m) ==  \* MUTANT of ReapGate: waits 2 s and leaves the gate alone
  /\ pc[m] = "reap" /\ m \notin sig /\ Goto(m, "clean")
  /\ UNCHANGED <<sig, gate, pidfile, fifo, mounts, socket>> /\ Unused

ReapGate(m) ==
  /\ pc[m] = "reap" /\ m \notin sig /\ Goto(m, "clean")
  /\ gate' = [gate EXCEPT ![m] = IF Gone(m) THEN @ ELSE "dead"]
  /\ recent' = recent \ {m}
  /\ UNCHANGED <<sig, pidfile, fifo, mounts, socket, inUse, modified, asked, held>>

CleanUp(p) ==
  /\ pc[p] = "clean" /\ p \notin sig
  /\ Goto(p, IF p \in Manager THEN "gone" ELSE "idle")
  /\ pidfile' = None /\ RemovesFifo
  /\ UNCHANGED <<sig, mounts, socket>> /\ Unused

-----------------------------------------------------------------------------
(***************************************************************************)
(* cmd_manager.  A trap runs between two commands of the script, so not    *)
(* while the manager waits for an answer or for the search to end.         *)
(***************************************************************************)
ManagerStarts(m) ==
  /\ pc[m] = "launched" /\ m \notin sig /\ Goto(m, "waiting")
  /\ gate' = [gate EXCEPT ![m] = "starting"]
  /\ UNCHANGED <<sig, pidfile, fifo, mounts, socket>> /\ Unused

Trap(m) ==  \* before the traps are set the signal kills the script
  /\ m \in sig /\ pc[m] \notin {"check", "handles", "search"}
  /\ Goto(m, IF pc[m] = "launched" THEN "gone" ELSE "unmount")
  /\ sig' = sig \ {m}
  /\ UNCHANGED <<gate, pidfile, fifo, mounts, socket>> /\ Unused

SeesMount(m) ==
  /\ pc[m] = "waiting" /\ m \notin sig /\ is_mounted /\ Goto(m, "loop")
  /\ RemovesFifo
  /\ modified' = FALSE
  /\ UNCHANGED <<sig, pidfile, mounts, socket, inUse, recent, asked, held>>

WaitFails(m) ==  \* the helper has ended, or has been given 60 s
  /\ pc[m] = "waiting" /\ m \notin sig /\ ~is_mounted /\ gate[m] # "starting"
  /\ Goto(m, "unmount")
  /\ UNCHANGED <<sig, gate, pidfile, fifo, mounts, socket>> /\ Unused

Loop(m) ==
  /\ pc[m] = "loop" /\ m \notin sig
  /\ Goto(m, IF is_mounted /\ ~Gone(m) THEN "interval" ELSE "unmount")
  /\ UNCHANGED <<sig, gate, pidfile, fifo, mounts, socket>> /\ Unused

Wake(m) ==
  /\ pc[m] = "interval" /\ m \notin sig
  /\ Goto(m, IF is_mounted THEN "check" ELSE "unmount")
  /\ held' = IF Open(m) /\ m \in inUse THEN held \cup {m} ELSE held
  /\ UNCHANGED <<sig, gate, pidfile, fifo, mounts, socket, inUse, recent, modified, asked>>

(***************************************************************************)
(* has_activity: STATUS, which reads the clock and then the handles, or,   *)
(* when no answer comes (no socat, no socket, or a confirmation before it  *)
(* in the control thread), the search with find and lsof.                  *)
(***************************************************************************)
Answers(g) == g # None /\ Serving(g)

DecidesUnstamped(m, active) ==  \* MUTANT of Decides: STAMPFILE is not touched
  /\ Goto(m, IF active THEN "loop" ELSE "unmount")
  /\ asked' = [asked EXCEPT ![m] = None] /\ held' = held \ {m}
  /\ UNCHANGED modified

Decides(m, active) ==  \* active: touch STAMPFILE and go on; otherwise close
  /\ Goto(m, IF active THEN "loop" ELSE "unmount")
  /\ modified' = (modified /\ ~active)
  /\ asked' = [asked EXCEPT ![m] = None] /\ held' = held \ {m}

AskClock(m) ==
  /\ pc[m] = "check" /\ Answers(socket)
  /\ IF socket \in recent
     THEN Decides(m, TRUE)
     ELSE /\ Goto(m, "handles") /\ asked' = [asked EXCEPT ![m] = socket]
          /\ UNCHANGED <<modified, held>>
  /\ UNCHANGED <<sig, gate, pidfile, fifo, mounts, socket, inUse, recent>>

AskNoHandles(m) ==  \* MUTANT of AskHandles: STATUS tells the idle time only
  /\ pc[m] = "handles" /\ Answers(asked[m])
  /\ Decides(m, FALSE)
  /\ UNCHANGED <<sig, gate, pidfile, fifo, mounts, socket, inUse, recent>>

AskHandles(m) ==
  /\ pc[m] = "handles" /\ Answers(asked[m])
  /\ Decides(m, asked[m] \in inUse)
  /\ UNCHANGED <<sig, gate, pidfile, fifo, mounts, socket, inUse, recent>>

NoAnswer(m) ==
  /\ pc[m] = "check" \/ (pc[m] = "handles" /\ ~Answers(asked[m]))
  /\ Goto(m, "search")
  /\ UNCHANGED <<sig, gate, pidfile, fifo, mounts, socket>> /\ Unused

Search(m) ==
  /\ pc[m] = "search"
  /\ Decides(m, is_mounted /\ Serving(Last(mounts))
                   /\ (modified \/ Last(mounts) \in inUse))
  /\ UNCHANGED <<sig, gate, pidfile, fifo, mounts, socket, inUse, recent>>

(***************************************************************************)
(* (environment) Logout, shutdown or an event of logind, while the vault   *)
(* is watched.                                                             *)
(***************************************************************************)
SessionEnds(m) ==
  /\ pc[m] \in {"loop", "interval", "check", "handles", "search"}
  /\ sig' = sig \cup {m}
  /\ UNCHANGED <<pc, gate, pidfile, fifo, mounts, socket>> /\ Unused

-----------------------------------------------------------------------------
(***************************************************************************)
(* The helper: gocryptfs opens whatever the fifo's name is at that moment. *)
(* Then attache-gate, which cannot start on a mountpoint it cannot stat.   *)
(***************************************************************************)
OpenFifo(m) ==
  /\ gate[m] = "starting"
  /\ \E s \in CASE fifo = "none" -> {"dead"} [] fifo = "fifo" -> {"reading"}
                [] fifo = "file" -> {"mounting", "dead"} :
       gate' = [gate EXCEPT ![m] = s]
  /\ UNCHANGED <<pc, sig, pidfile, fifo, mounts, socket>> /\ Unused

GateMounts(m) ==
  /\ gate[m] = "mounting"
  /\ IF Stale
     THEN /\ gate' = [gate EXCEPT ![m] = "dead"]
          /\ UNCHANGED <<mounts, socket, recent>>
     ELSE /\ gate' = [gate EXCEPT ![m] = "serving"]
          /\ mounts' = Append(mounts, m)
          /\ socket' = m
          /\ recent' = recent \cup {m}
  /\ UNCHANGED <<pc, sig, pidfile, fifo, inUse, modified, asked, held>>

GateEnds(m) ==  \* unmounted and released; removes the socket file by its name
  /\ Serving(m) /\ m \notin ToSet(mounts) \cup inUse
  /\ gate' = [gate EXCEPT ![m] = "dead"]
  /\ socket' = None /\ recent' = recent \ {m}
  /\ UNCHANGED <<pc, sig, pidfile, fifo, mounts, inUse, modified, asked, held>>

GateCrashes(m) ==
  /\ gate[m] \in {"mounting", "serving"}
  /\ gate' = [gate EXCEPT ![m] = "crashed"] /\ recent' = recent \ {m}
  /\ UNCHANGED <<pc, sig, pidfile, fifo, mounts, socket, inUse, modified, asked, held>>

(***************************************************************************)
(* Programs with files of the vault open, and time passing without use.    *)
(***************************************************************************)
OpenFile(m) ==
  /\ Open(m)
  /\ inUse' = inUse \cup {m} /\ recent' = recent \cup {m}
  /\ UNCHANGED <<pc, sig, gate, pidfile, fifo, mounts, socket, modified, asked, held>>

ReadWrite(m) ==
  /\ Serving(m) /\ m \in inUse
  /\ recent' = recent \cup {m} /\ modified' \in {modified, TRUE}
  /\ UNCHANGED <<pc, sig, gate, pidfile, fifo, mounts, socket, inUse, asked, held>>

CloseFile(m) ==
  /\ m \in inUse /\ inUse' = inUse \ {m}
  /\ held' = held \ {m}
  /\ UNCHANGED <<pc, sig, gate, pidfile, fifo, mounts, socket, recent, modified, asked>>

IdleWindowPasses(m) ==
  /\ m \in recent /\ recent' = recent \ {m}
  /\ UNCHANGED <<pc, sig, gate, pidfile, fifo, mounts, socket, inUse, modified, asked, held>>

-----------------------------------------------------------------------------
Shutdown(p) == UnmountVault(p) \/ DetachVault(p) \/ CleanUp(p)

AttRuns(a) ==  \* what a command does without its user
  \/ SpawnManager(a) \/ FeedPassword(a) \/ FeedBlocks(a) \/ FeedTimesOut(a)
  \/ OpenSucceeds(a) \/ OpenGivesUp(a) \/ AwaitsEnd(a) \/ OpenFails(a)
  \/ Closed(a) \/ ForceClose(a) \/ Shutdown(a)

User(a) == OpenVault(a) \/ PasswordTyped(a) \/ NoPassword(a) \/ CloseVault(a)

ManagerRuns(m) ==
  \/ ManagerStarts(m) \/ Trap(m) \/ SeesMount(m) \/ WaitFails(m) \/ Loop(m) \/ Wake(m)
  \/ AskClock(m) \/ AskHandles(m) \/ NoAnswer(m) \/ Search(m)
  \/ ReapGate(m) \/ Shutdown(m)

GateRuns(m) == OpenFifo(m) \/ GateMounts(m) \/ GateEnds(m)

Program(m) == OpenFile(m) \/ ReadWrite(m) \/ CloseFile(m)

Next ==
  \/ \E a \in Att : AttRuns(a) \/ User(a)
  \/ \E m \in Manager : \/ ManagerRuns(m) \/ GateRuns(m) \/ Program(m)
                        \/ GateCrashes(m) \/ SessionEnds(m) \/ IdleWindowPasses(m)

(***************************************************************************)
(* Processes run, timeouts run out and time passes.  Users, programs,      *)
(* crashes and the session do what they like.                              *)
(***************************************************************************)
Fairness ==
  /\ \A a \in Att : WF_vars(AttRuns(a))
  /\ \A m \in Manager : /\ WF_vars(ManagerRuns(m))
                        /\ WF_vars(GateRuns(m))
                        /\ WF_vars(IdleWindowPasses(m))

Spec == Init /\ [][Next]_vars /\ Fairness

-----------------------------------------------------------------------------
(***************************************************************************)
(* When every command and every manager has ended and nothing is mounted,  *)
(* the password is not left on disk: feed_password writes it into a plain  *)
(* file when the fifo was removed under it (att:423).  The mount of a dead *)
(* gate is an exception of the code: the next open takes it for its own,   *)
(* reports success and leaves the file, until the next close.              *)
(***************************************************************************)
Resting == (\A a \in Att : pc[a] = "idle") /\ (\A m \in Manager : ~Alive(m))

PasswordNotLeft == Resting /\ ~is_mounted => fifo # "file"

(***************************************************************************)
(* A manager's idle check never closes its vault on a program whose file   *)
(* was open before the check began and still is (att:146,                  *)
(* control.rs:156-158), unless a gate of another manager serves as well:   *)
(* its answer may be the one the check gets.                               *)
(***************************************************************************)
IdleCloseSparesHeldFiles ==
  [][\A m \in Manager : pc[m] \in {"handles", "search"} /\ pc'[m] = "unmount"
       => m \notin held \/ ~Open(m) \/ \E g \in Manager \ {m} : Serving(g)]_vars

(***************************************************************************)
(* A vault nobody uses and no command works on is closed in the end,       *)
(* whatever happened before: no gate goes on serving it (README.md:13).    *)
(***************************************************************************)
Unattended == inUse = {} /\ \A a \in Att : pc[a] = "idle"

UnusedVaultCloses == <>[]Unattended => <>[](\A m \in Manager : ~Serving(m))

(***************************************************************************)
(* A command that needs nothing more from its user ends, although it waits *)
(* for readers, mounts and managers that may never come or go.             *)
(***************************************************************************)
CommandsReturn ==
  \A a \in Att : pc[a] \notin {"idle", "prompt"} ~> pc[a] \in {"idle", "prompt"}

(***************************************************************************)
(* A signalled manager takes the vault away although programs still hold   *)
(* files open in it: its gate does not outlive the session (README.md:13). *)
(* The exception is a manager killed before it came to it.                 *)
(***************************************************************************)
SignalCloses ==
  \A m \in Manager : m \in sig /\ Serving(m) ~> ~Serving(m) \/ pc[m] = "killed"

-----------------------------------------------------------------------------
(***************************************************************************)
(* What comments say and TLC refutes.                                      *)
(*                                                                         *)
(* att:245: the manager is "the single background process `open' starts    *)
(* and `close' stops": while no command runs and the vault can be reached, *)
(* and every manager waits for its next check, the pid file names one, or  *)
(* close has nothing to stop and open starts another.                      *)
(***************************************************************************)
Settled == /\ \A a \in Att : pc[a] = "idle"
           /\ \A m \in Manager : Alive(m) => pc[m] = "interval" /\ m \notin sig

OpenIsClosable == Settled /\ (\E m \in Manager : Open(m)) => manager_running
=============================================================================
