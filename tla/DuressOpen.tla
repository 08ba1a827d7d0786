----------------------------- MODULE DuressOpen -----------------------------
(***************************************************************************)
(* What `att open' does when the vault did not open, and everything else   *)
(* that decides about it: the duress password (att duress, duress.rs), the *)
(* destruction it shares with `att oblivion', the empty vault that takes   *)
(* the place of the destroyed one, and a change of the password.           *)
(*                                                                         *)
(* Mounting is one step here (VaultLifecycle has its processes): an open   *)
(* tries its password, and the vault is mounted, refuses it, or is not     *)
(* mounted in time for any other reason.                                   *)
(***************************************************************************)
CONSTANTS Opener,    \* terminals that run att open, and
          Keeper,    \* terminals that run att duress and att oblivion
          Password,
          None,      \* no file
          Torn       \* a duress file that is no hash of any password

Att == Opener \cup Keeper

ASSUME ValuesDistinct == None # Torn /\ None \notin Password /\ Torn \notin Password

VARIABLES
  pc, cmd,   \* where each command is, and which it is
  typed,     \* the password it was given, for open and duress
  why,       \* why an open did not mount: "-", "refused" or "failed"
  keys,      \* the files gocryptfs.conf*: the password each is wrapped with
  payload,   \* CIPHERDIR holds ciphertext
  grave,     \* the graveyard: "none", "noise", or with a key in it: "readable",
             \* or "spared" if shred had failed
  is_mounted,
  managed,   \* MANAGER_PIDFILE names a live manager
  duress,    \* DURESS_FILE: None, Torn, or the password it is the hash of
  tmp        \* its temporary file

\* History.
VARIABLES
  confirmed, \* the passwords an att duress that unlocked the vault was to save,
             \* as far as they may still be in the file
  armed,     \* the password last reported as set, until something revokes it
  faults     \* what went wrong in the last destruction

keyFiles == <<keys, payload, grave>>
duressFiles == <<duress, tmp>>
process == <<pc, cmd, typed, why>>
history == <<confirmed, armed, faults>>
vars == <<process, keyFiles, is_mounted, managed, duressFiles, history>>

ConfFile  == {"conf", "bak"}  \* gocryptfs.conf, and a copy a password change left
DestroyPc == {"shred", "hash", "payload", "state"}  \* destroy_vault
TrappedPc == DestroyPc \cup {"init"}                \* duress_open ignores signals
SetPc     == {"verify", "create", "write", "rename", "selftest"}
Fault     == {"shred", "rm", "init", "cut"}
Pc        == {"idle", "prompt", "trying", "check", "reopen", "confirm", "report"}
               \cup TrappedPc \cup SetPc

DuressTypeOK ==
  /\ pc \in [Att -> Pc] /\ cmd \in [Att -> {"none", "open", "duress", "oblivion"}]
  /\ typed \in [Att -> Password \cup {None}]
  /\ keys \in [ConfFile -> Password \cup {None}]
  /\ payload \in BOOLEAN /\ grave \in {"none", "noise", "readable", "spared"}
  /\ is_mounted \in BOOLEAN /\ managed \in BOOLEAN
  /\ duress \in Password \cup {None, Torn} /\ tmp \in Password \cup {None, Torn}
  /\ why \in [Att -> {"-", "refused", "failed"}] /\ confirmed \subseteq Password
  /\ armed \in Password \cup {None} /\ faults \subseteq Fault

Init ==
  /\ pc = [a \in Att |-> "idle"] /\ cmd = [a \in Att |-> "none"]
  /\ typed = [a \in Att |-> None]
  /\ payload = TRUE /\ grave = "none"
  /\ is_mounted = FALSE /\ managed = FALSE
  /\ \E p \in Password : keys = [f \in ConfFile |-> IF f = "conf" THEN p ELSE None]
  /\ duress \in {None, Torn} /\ tmp = None
  /\ why = [a \in Att |-> "-"] /\ confirmed = {} /\ armed = None /\ faults = {}

Goto(a, at) == pc' = [pc EXCEPT ![a] = at] /\ UNCHANGED <<cmd, typed, why>>
Starts(a, c, p, at) == /\ pc' = [pc EXCEPT ![a] = at] /\ cmd' = [cmd EXCEPT ![a] = c]
                       /\ typed' = [typed EXCEPT ![a] = p] /\ why' = [why EXCEPT ![a] = "-"]
Returns(a)  == Starts(a, "none", None, "idle")
NoKeys      == [f \in ConfFile |-> None]
Unlocks(p)  == keys["conf"] = p /\ payload  \* gocryptfs accepts p

-----------------------------------------------------------------------------
(***************************************************************************)
(* open_attache.                                                           *)
(***************************************************************************)
OpenVault(a) ==
  /\ pc[a] = "idle" /\ ~managed
  /\ Starts(a, "open", None, "prompt") /\ managed' = TRUE
  /\ UNCHANGED <<keyFiles, is_mounted, duressFiles, history>>

TypePassword(a) ==
  /\ pc[a] = "prompt" /\ \E p \in Password : Starts(a, "open", p, "trying")
  /\ UNCHANGED <<keyFiles, is_mounted, managed, duressFiles, history>>

NoPassword(a) ==
  /\ pc[a] = "prompt" /\ Returns(a) /\ managed' = FALSE
  /\ UNCHANGED <<keyFiles, is_mounted, duressFiles, history>>

Mounts(a) ==
  /\ pc[a] = "trying" /\ Unlocks(typed[a]) /\ ~is_mounted /\ is_mounted' = TRUE
  /\ UNCHANGED <<process, keyFiles, managed, duressFiles, history>>

\* Whoever mounted it.
Opened(a) ==
  /\ pc[a] = "trying" /\ is_mounted /\ Returns(a)
  /\ UNCHANGED <<keyFiles, is_mounted, managed, duressFiles, history>>

(***************************************************************************)
(* The manager ended because gocryptfs refused the password, or ended, or  *)
(* was ended after 10 s, for any other reason.                             *)
(***************************************************************************)
NotMounted(a) ==
  /\ pc[a] = "trying" /\ ~is_mounted /\ managed' = FALSE
  /\ pc' = [pc EXCEPT ![a] = "check"]
  /\ why' = [why EXCEPT ![a] = IF Unlocks(typed[a]) THEN "failed" ELSE "refused"]
  /\ UNCHANGED <<cmd, typed, keyFiles, is_mounted, duressFiles, history>>

MatchesBroken(p) == duress \in {p, Torn}  \* MUTANT of Matches: a broken file matches

\* is_duress_password and duress.rs matches.
Matches(p) == duress = p

PayloadGoesFirst(a) ==  \* MUTANT of CheckDuress: the payload is moved before the key is shredded
  /\ pc[a] = "check" /\ IF Matches(typed[a]) THEN Goto(a, "payload") ELSE Returns(a)
  /\ faults' = {} /\ UNCHANGED <<keyFiles, is_mounted, managed, duressFiles, confirmed, armed>>

\* Bound: one destruction at a time, and no other hand on the key file meanwhile.
NoneDestroys == \A a \in Att : pc[a] \notin TrappedPc \cup {"report"}

CheckDuress(a) ==
  /\ pc[a] = "check"
  /\ IF Matches(typed[a])
     THEN NoneDestroys /\ Starts(a, "open", typed[a], "shred") /\ faults' = {}
     ELSE Returns(a) /\ UNCHANGED faults
  /\ UNCHANGED <<keyFiles, is_mounted, managed, duressFiles, confirmed, armed>>

-----------------------------------------------------------------------------
(***************************************************************************)
(* destroy_vault, quiet for duress_open and verbose for oblivion.  A step  *)
(* that fails does not stop it.                                            *)
(***************************************************************************)
ShredConfOnly(a) ==  \* MUTANT of ShredKey: gocryptfs.conf without the *
  /\ pc[a] = "shred" /\ Goto(a, "hash") /\ keys' = [keys EXCEPT !["conf"] = None]
  /\ UNCHANGED <<payload, grave, is_mounted, managed, duressFiles, history>>

ShredKey(a) ==
  /\ pc[a] = "shred"
  /\ \/ /\ \E f \in ConfFile : keys[f] # None /\ keys' = [keys EXCEPT ![f] = None]
        /\ UNCHANGED <<process, faults>>
     \/ /\ keys = NoKeys /\ Goto(a, "hash") /\ UNCHANGED <<keys, faults>>
     \/ /\ keys # NoKeys /\ Goto(a, "hash") /\ faults' = faults \cup {"shred"}
        /\ UNCHANGED keys
  /\ UNCHANGED <<payload, grave, is_mounted, managed, duressFiles, confirmed, armed>>

ShredHash(a) ==
  /\ pc[a] = "hash" /\ Goto(a, "payload")
  /\ \/ duress' = None
     \/ duress # None /\ duress' \in {duress, Torn}
  /\ armed' = None
  /\ UNCHANGED <<keyFiles, is_mounted, managed, tmp, confirmed, faults>>

(***************************************************************************)
(* mv to a graveyard that is deleted in the background; without one, or    *)
(* verbose, rm -rf, which may fail.                                        *)
(***************************************************************************)
DeletePayload(a) ==
  /\ pc[a] = "payload" /\ Goto(a, "state")
  /\ \/ /\ cmd[a] = "open" /\ payload
        /\ grave' = IF keys # NoKeys
                    THEN IF "shred" \in faults THEN "spared" ELSE "readable"
                    ELSE IF grave = "none" THEN "noise" ELSE grave
        /\ keys' = NoKeys /\ payload' = FALSE /\ UNCHANGED faults
     \/ keys' = NoKeys /\ payload' = FALSE /\ UNCHANGED <<grave, faults>>
     \/ payload /\ faults' = faults \cup {"rm"} /\ UNCHANGED <<keys, payload, grave>>
  /\ UNCHANGED <<is_mounted, managed, duressFiles, confirmed, armed>>

\* rm -rf of the state directory, with the duress files and the pid file, may fail.
DeleteState(a) ==
  /\ pc[a] = "state" /\ Goto(a, IF cmd[a] = "open" THEN "init" ELSE "report")
  /\ \/ duress' = None /\ tmp' = None /\ managed' = FALSE
     \/ UNCHANGED <<duressFiles, managed>>
  /\ armed' = None /\ UNCHANGED <<keyFiles, is_mounted, confirmed, faults>>

DeleteGraveyard ==
  /\ grave # "none" /\ grave' = "none"
  /\ UNCHANGED <<process, keys, payload, is_mounted, managed, duressFiles, history>>

(***************************************************************************)
(* duress_open: gocryptfs -init, which wants an empty directory, and the   *)
(* second open_attache, which asks for no password.                        *)
(***************************************************************************)
CreatesVault(p) ==
  /\ ~payload /\ keys = NoKeys
  /\ payload' = TRUE /\ keys' = [keys EXCEPT !["conf"] = p]

InitMustSucceed(a) ==  \* MUTANT of InitDecoy: a failed -init is not handled
  /\ pc[a] = "init" /\ CreatesVault(typed[a]) /\ Goto(a, "reopen")
  /\ UNCHANGED <<grave, is_mounted, managed, duressFiles, history>>

InitDecoy(a) ==
  /\ pc[a] = "init"
  /\ \/ CreatesVault(typed[a]) /\ Goto(a, "reopen") /\ faults' = {}
     \/ /\ Returns(a) /\ faults' = {"init"}
        /\ UNCHANGED <<keys, payload>>
  /\ UNCHANGED <<grave, is_mounted, managed, duressFiles, confirmed, armed>>

ReopenVault(a) ==
  /\ pc[a] = "reopen"
  /\ IF managed THEN Returns(a) ELSE Starts(a, "open", typed[a], "trying")
  /\ managed' = TRUE /\ UNCHANGED <<keyFiles, is_mounted, duressFiles, history>>

-----------------------------------------------------------------------------
(***************************************************************************)
(* att oblivion.                                                           *)
(***************************************************************************)
Oblivion(a) ==
  /\ pc[a] = "idle" /\ ~is_mounted /\ (payload \/ keys # NoKeys)
  /\ Starts(a, "oblivion", None, "confirm")
  /\ UNCHANGED <<keyFiles, is_mounted, managed, duressFiles, history>>

ConfirmOblivion(a) ==
  /\ pc[a] = "confirm"
  /\ \/ NoneDestroys /\ Goto(a, "shred") /\ faults' = {}
     \/ Returns(a) /\ UNCHANGED faults
  /\ UNCHANGED <<keyFiles, is_mounted, managed, duressFiles, confirmed, armed>>

SaysComplete(a) == pc[a] = "report" /\ keys["conf"] = None

ReportOblivion(a) ==
  /\ pc[a] = "report" /\ Returns(a)
  /\ UNCHANGED <<keyFiles, is_mounted, managed, duressFiles, history>>

-----------------------------------------------------------------------------
(***************************************************************************)
(* att duress: the real password is checked by unlocking the vault, and    *)
(* differs from the new one.  set writes a temporary file and renames it.  *)
(* Two att duress at once would share that file: one at a time (bound).    *)
(***************************************************************************)
SetDuress(a) ==
  /\ pc[a] = "idle" /\ \A b \in Att : cmd[b] # "duress"
  /\ \E p \in Password : Starts(a, "duress", p, "verify")
  /\ UNCHANGED <<keyFiles, is_mounted, managed, duressFiles, history>>

VerifyReal(a) ==
  /\ pc[a] = "verify"
  /\ \/ /\ ~is_mounted /\ \E real \in Password \ {typed[a]} : Unlocks(real)
        /\ Goto(a, "create") /\ confirmed' = {typed[a]} \cup (confirmed \cap {duress})
     \/ Returns(a) /\ UNCHANGED confirmed
  /\ UNCHANGED <<keyFiles, is_mounted, managed, duressFiles, armed, faults>>

CreateInPlace(a) ==  \* MUTANT of CreateTmp: the hash file itself is truncated
  /\ pc[a] = "create" /\ Goto(a, "write") /\ duress' = Torn /\ tmp' = Torn
  /\ UNCHANGED <<keyFiles, is_mounted, managed, history>>

CreateTmp(a) ==
  /\ pc[a] = "create" /\ Goto(a, "write") /\ tmp' = Torn
  /\ UNCHANGED <<keyFiles, is_mounted, managed, duress, history>>

\* The directory may be gone by now.
WriteTmp(a) ==
  /\ pc[a] = "write" /\ Goto(a, "rename") /\ tmp' = IF tmp = None THEN None ELSE typed[a]
  /\ UNCHANGED <<keyFiles, is_mounted, managed, duress, history>>

RenameTmp(a) ==
  /\ pc[a] = "rename" /\ tmp # None /\ Goto(a, "selftest")
  /\ duress' = tmp /\ tmp' = None /\ armed' = None
  /\ UNCHANGED <<keyFiles, is_mounted, managed, confirmed, faults>>

SetFails(a) ==
  /\ pc[a] \in {"create", "write", "rename"} /\ Returns(a)
  /\ UNCHANGED <<keyFiles, is_mounted, managed, duressFiles, history>>

ReportsSet(a) ==  \* MUTANT of SelfTest: reports whatever the file holds
  /\ pc[a] = "selftest" /\ Returns(a) /\ armed' = duress
  /\ UNCHANGED <<keyFiles, is_mounted, managed, duressFiles, confirmed, faults>>

SelfTest(a) ==
  /\ pc[a] = "selftest" /\ Returns(a)
  /\ IF Matches(typed[a]) THEN armed' = typed[a] /\ UNCHANGED duress
                          ELSE duress' = None /\ armed' = None
  /\ UNCHANGED <<keyFiles, is_mounted, managed, tmp, confirmed, faults>>

RemoveDuress(a) ==
  /\ pc[a] = "idle" /\ duress # None /\ duress' = None /\ armed' = None
  /\ UNCHANGED <<process, keyFiles, is_mounted, managed, tmp, confirmed, faults>>

-----------------------------------------------------------------------------
(***************************************************************************)
(* External: gocryptfs -passwd, which may leave a copy; att init and att   *)
(* close; a duress file that is damaged; Ctrl-C; and the end of power.     *)
(***************************************************************************)
ChangePassword ==
  /\ NoneDestroys /\ ~is_mounted /\ keys["conf"] # None /\ payload
  /\ \E p \in Password, bak \in {None, keys["conf"]} :
       keys' = [f \in ConfFile |-> IF f = "conf" THEN p ELSE bak]
  /\ UNCHANGED <<process, payload, grave, is_mounted, managed, duressFiles, history>>

cmd_init ==
  /\ NoneDestroys /\ \E p \in Password : CreatesVault(p)
  /\ faults' = {}
  /\ UNCHANGED <<process, grave, is_mounted, managed, duressFiles, confirmed, armed>>

CloseVault ==
  /\ is_mounted /\ is_mounted' = FALSE /\ managed' = FALSE
  /\ UNCHANGED <<process, keyFiles, duressFiles, history>>

DamageDuress ==
  /\ duress \in Password /\ duress' = Torn /\ armed' = None
  /\ UNCHANGED <<process, keyFiles, is_mounted, managed, tmp, confirmed, faults>>

InterruptAlways(a) == pc[a] # "idle"  \* MUTANT of Interruptible: no trap
Interruptible(a) == pc[a] # "idle" /\ ~(cmd[a] = "open" /\ pc[a] \in TrappedPc)

\* The manager of an interrupted open ends by itself.
Interrupt(a) ==
  /\ Interruptible(a) /\ Returns(a)
  /\ managed' = IF pc[a] \in {"prompt", "trying"} THEN is_mounted ELSE managed
  /\ faults' = IF cmd[a] = "oblivion" /\ pc[a] \in DestroyPc THEN {"cut"} ELSE faults
  /\ UNCHANGED <<keyFiles, is_mounted, duressFiles, confirmed, armed>>

PowerCut ==
  /\ pc' = [a \in Att |-> "idle"] /\ cmd' = [a \in Att |-> "none"]
  /\ typed' = [a \in Att |-> None] /\ why' = [a \in Att |-> "-"]
  /\ is_mounted' = FALSE /\ managed' = FALSE /\ faults' = {"cut"}
  /\ UNCHANGED <<keyFiles, duressFiles, confirmed, armed>>

-----------------------------------------------------------------------------
Open(a)    == \/ OpenVault(a) \/ TypePassword(a) \/ NoPassword(a)
              \/ Mounts(a) \/ Opened(a) \/ NotMounted(a) \/ CheckDuress(a)
Destroy(a) == ShredKey(a) \/ ShredHash(a) \/ DeletePayload(a) \/ DeleteState(a)
Decoy(a)   == InitDecoy(a) \/ ReopenVault(a)
Oblivious(a) == Oblivion(a) \/ ConfirmOblivion(a) \/ ReportOblivion(a)
Duress(a)  == \/ SetDuress(a) \/ VerifyReal(a) \/ CreateTmp(a) \/ WriteTmp(a)
              \/ RenameTmp(a) \/ SetFails(a) \/ SelfTest(a) \/ RemoveDuress(a)
External   == \/ ChangePassword \/ cmd_init \/ CloseVault \/ DamageDuress \/ PowerCut
              \/ DeleteGraveyard

Next == \/ \E a \in Opener : Open(a) \/ Decoy(a)
        \/ \E a \in Keeper : Oblivious(a) \/ Duress(a)
        \/ \E a \in Att : Destroy(a) \/ Interrupt(a)
        \/ External

Spec == Init /\ [][Next]_vars

(***************************************************************************)
(* A command that has nobody to wait for goes on, and so does deletion in  *)
(* the background.  People, failures and interruptions are not fair.       *)
(***************************************************************************)
Fairness == /\ \A a \in Att : WF_vars(Destroy(a) \/ Decoy(a))
            /\ WF_vars(DeleteGraveyard)

FairSpec == Spec /\ Fairness

-----------------------------------------------------------------------------
StartsDestruction(a) == cmd[a] = "open" /\ pc[a] = "check" /\ pc'[a] \in DestroyPc

(***************************************************************************)
(* Only a password that an att duress saved, next to a real password that  *)
(* unlocked the vault, ever destroys one: no broken duress file does, and  *)
(* no half-written one (duress.rs:46-49, att:806-809).                     *)
(***************************************************************************)
OnlyConfirmedDestroys ==
  [][\A a \in Att : StartsDestruction(a) => typed[a] \in confirmed]_vars

(***************************************************************************)
(* att:402-405: "a real password can then never trigger destruction,       *)
(* whatever the duress file says (tampered with, or the real password      *)
(* later changed to match it)".                                            *)
(***************************************************************************)
RealNeverDestroys == [][\A a \in Att : StartsDestruction(a) => why[a] = "refused"]_vars

(***************************************************************************)
(* Wherever a destruction stops, ciphertext that was moved away has no key *)
(* beside it, unless shred failed (att:641-672).                           *)
(***************************************************************************)
KeyGoesFirst == grave # "readable"

(***************************************************************************)
(* Unless a step failed or the power did, no destruction is left halfway:  *)
(* CIPHERDIR has its payload and its key, or neither (att:735).            *)
(***************************************************************************)
NoHalfDestruction ==
  faults = {} /\ (\A a \in Att : pc[a] \notin TrappedPc)
    => (payload <=> keys["conf"] # None)

(***************************************************************************)
(* A duress password that was reported as set stays in force until it is   *)
(* removed, replaced or used, whatever later att duress fail on the way    *)
(* (att:811-823, duress.rs:30-44).                                         *)
(***************************************************************************)
ArmedStays == armed # None => Matches(armed)

(***************************************************************************)
(* att oblivion reports success only when no copy of the key is left,      *)
(* unless both the overwriting and the deletion failed (att:683, 712).     *)
(***************************************************************************)
OblivionMeansGone ==
  \A a \in Att : SaysComplete(a) => keys = NoKeys \/ {"shred", "rm"} \subseteq faults

(***************************************************************************)
(* Once begun, a destruction at att open ends in the new vault being       *)
(* opened, or in an answer like that of a failed open (att:741-754).       *)
(***************************************************************************)
DestructionFinishes ==
  \A a \in Att : (cmd[a] = "open" /\ pc[a] \in DestroyPc)
                   ~> pc[a] \in {"idle", "trying"}
=============================================================================
