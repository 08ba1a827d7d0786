-------------------------- MODULE DuressOpenProofs --------------------------
(***************************************************************************)
(* Proofs about DuressOpen, for any terminals and any passwords.           *)
(***************************************************************************)
EXTENDS DuressOpen, TLAPS

(***************************************************************************)
(* The inductive invariant, in parts.  Which command can be where, and     *)
(* from where on it has a password:                                        *)
(***************************************************************************)
CommandInv ==
  /\ \A a \in Att : pc[a] \in SetPc => cmd[a] = "duress"
  /\ \A a \in Att : pc[a] \in {"prompt", "trying", "check", "init", "reopen"} => cmd[a] = "open"
  /\ \A a \in Att : pc[a] \in {"confirm", "report"} => cmd[a] = "oblivion"
  /\ \A a \in Att : pc[a] \in DestroyPc => cmd[a] \in {"open", "oblivion"}
  /\ \A a \in Att : cmd[a] = "duress" => pc[a] \in SetPc /\ typed[a] \in Password
  /\ \A a \in Att : cmd[a] = "open" /\ pc[a] # "prompt" => typed[a] \in Password

(***************************************************************************)
(* One destruction and one att duress at a time, the bounds of the model.  *)
(***************************************************************************)
OneAtATime ==
  /\ \A a, b \in Att :
       pc[a] \in TrappedPc \cup {"report"} /\ pc[b] \in TrappedPc \cup {"report"} => a = b
  /\ \A a, b \in Att : cmd[a] = "duress" /\ cmd[b] = "duress" => a = b

(***************************************************************************)
(* What a destruction has done by the step it is at, unless that failed.   *)
(***************************************************************************)
ProgressInv ==
  /\ \A a \in Att : pc[a] \in {"hash", "payload"} => keys = NoKeys \/ "shred" \in faults
  /\ \A a \in Att : pc[a] \in {"state", "report"}
                      => keys = NoKeys \/ {"shred", "rm"} \subseteq faults
  /\ \A a \in Att : pc[a] \in {"state", "init", "report"} /\ faults = {}
                      => ~payload /\ keys = NoKeys

(***************************************************************************)
(* Every password whose hash is in the duress file, or on its way there,   *)
(* is one that an att duress with the real password was to save.           *)
(***************************************************************************)
ConfirmedInv ==
  /\ duress \in Password => duress \in confirmed
  /\ \A a \in Att : pc[a] \in SetPc \ {"verify"} => typed[a] \in confirmed
  /\ \A a \in Att : pc[a] = "write" => tmp \in {None, Torn}
  /\ \A a \in Att : pc[a] = "rename" => tmp \in {None, typed[a]}

Inv == /\ DuressTypeOK /\ CommandInv /\ OneAtATime /\ ProgressInv /\ ConfirmedInv
       /\ KeyGoesFirst /\ NoHalfDestruction /\ ArmedStays

(***************************************************************************)
(* att open, up to the duress check.                                       *)
(***************************************************************************)
LEMMA OpenStep ==
  ASSUME Inv, NEW a \in Att, Open(a)
  PROVE  Inv'
<1> USE ValuesDistinct DEF Inv, DuressTypeOK, CommandInv, OneAtATime, Att, Pc,
    ConfFile, Fault, TrappedPc, SetPc, DestroyPc, process, keyFiles,
    duressFiles, history, Starts, Goto, Returns, NoKeys
<1>1. CASE OpenVault(a)
  BY <1>1 DEF OpenVault, ProgressInv, KeyGoesFirst, NoHalfDestruction,
      ConfirmedInv, ArmedStays, Matches
<1>2. CASE TypePassword(a)
  BY <1>2 DEF TypePassword, ProgressInv, KeyGoesFirst, NoHalfDestruction,
      ConfirmedInv, ArmedStays, Matches
<1>3. CASE NoPassword(a)
  <2>1. DuressTypeOK'
    BY <1>3 DEF NoPassword
  <2>2. CommandInv' /\ OneAtATime'
    BY <1>3 DEF NoPassword
  <2>3. ProgressInv' /\ KeyGoesFirst' /\ NoHalfDestruction'
    BY <1>3 DEF NoPassword, ProgressInv, KeyGoesFirst, NoHalfDestruction
  <2>4. ConfirmedInv' /\ ArmedStays'
    BY <1>3 DEF NoPassword, ConfirmedInv, ArmedStays, Matches
  <2>5. QED
    BY <2>1, <2>2, <2>3, <2>4 DEF Inv
<1>4. CASE Mounts(a)
  BY <1>4 DEF Mounts, Unlocks, ProgressInv, KeyGoesFirst, NoHalfDestruction,
      ConfirmedInv, ArmedStays, Matches
<1>5. CASE Opened(a)
  BY <1>5 DEF Opened, ProgressInv, KeyGoesFirst, NoHalfDestruction,
      ConfirmedInv, ArmedStays, Matches
<1>6. CASE NotMounted(a)
  <2>1. DuressTypeOK'
    BY <1>6 DEF NotMounted, Unlocks
  <2>2. CommandInv' /\ OneAtATime'
    BY <1>6 DEF NotMounted, Unlocks
  <2>3. ProgressInv' /\ KeyGoesFirst' /\ NoHalfDestruction'
    BY <1>6 DEF NotMounted, Unlocks, ProgressInv, KeyGoesFirst,
        NoHalfDestruction
  <2>4. ConfirmedInv' /\ ArmedStays'
    BY <1>6 DEF NotMounted, Unlocks, ConfirmedInv, ArmedStays, Matches
  <2>5. QED
    BY <2>1, <2>2, <2>3, <2>4 DEF Inv
<1>7. CASE CheckDuress(a)
  <2>1. DuressTypeOK'
    <3>1. faults' \subseteq Fault
      BY <1>7 DEF CheckDuress, Matches, NoneDestroys
    <3>2. QED
      BY <1>7, <3>1 DEF CheckDuress, Matches, NoneDestroys
  <2>2. CommandInv' /\ OneAtATime'
    BY <1>7 DEF CheckDuress, Matches, NoneDestroys
  <2>3. ProgressInv' /\ KeyGoesFirst' /\ NoHalfDestruction'
    BY <1>7 DEF CheckDuress, Matches, NoneDestroys, ProgressInv, KeyGoesFirst,
        NoHalfDestruction
  <2>4. ConfirmedInv' /\ ArmedStays'
    BY <1>7 DEF CheckDuress, Matches, NoneDestroys, ConfirmedInv, ArmedStays
  <2>5. QED
    BY <2>1, <2>2, <2>3, <2>4 DEF Inv
<1>8. QED
  BY <1>1, <1>2, <1>3, <1>4, <1>5, <1>6, <1>7 DEF Open

(***************************************************************************)
(* The destruction of a vault.                                             *)
(***************************************************************************)
LEMMA DestroyStep ==
  ASSUME Inv, NEW a \in Att, Destroy(a)
  PROVE  Inv'
<1> USE ValuesDistinct DEF Inv, DuressTypeOK, CommandInv, OneAtATime, Att, Pc,
    ConfFile, Fault, TrappedPc, SetPc, DestroyPc, process, keyFiles,
    duressFiles, history, Starts, Goto, Returns, NoKeys
<1>1. CASE ShredKey(a)
  <2>1. DuressTypeOK'
    <3>1. faults' \subseteq Fault
      BY <1>1 DEF ShredKey
    <3>2. QED
      BY <1>1, <3>1 DEF ShredKey
  <2>2. CommandInv' /\ OneAtATime'
    BY <1>1 DEF ShredKey
  <2>3. ProgressInv' /\ KeyGoesFirst' /\ NoHalfDestruction'
    BY <1>1 DEF ShredKey, ProgressInv, KeyGoesFirst, NoHalfDestruction
  <2>4. ConfirmedInv' /\ ArmedStays'
    BY <1>1 DEF ShredKey, ConfirmedInv, ArmedStays, Matches
  <2>5. QED
    BY <2>1, <2>2, <2>3, <2>4 DEF Inv
<1>2. CASE ShredHash(a)
  BY <1>2 DEF ShredHash, ProgressInv, KeyGoesFirst, NoHalfDestruction,
      ConfirmedInv, ArmedStays, Matches
<1>3. CASE DeletePayload(a)
  <2>1. DuressTypeOK'
    <3>1. faults' \subseteq Fault
      BY <1>3 DEF DeletePayload
    <3>2. keys' \in [ConfFile -> Password \cup {None}]
      BY <1>3 DEF DeletePayload
    <3>3. payload' \in BOOLEAN /\ grave' \in {"none", "noise", "readable", "spared"}
      BY <1>3 DEF DeletePayload
    <3>4. QED
      BY <1>3, <3>1, <3>2, <3>3 DEF DeletePayload
  <2>2. CommandInv' /\ OneAtATime'
    BY <1>3 DEF DeletePayload
  <2>3. ProgressInv' /\ KeyGoesFirst' /\ NoHalfDestruction'
    BY <1>3 DEF DeletePayload, ProgressInv, KeyGoesFirst, NoHalfDestruction
  <2>4. ConfirmedInv' /\ ArmedStays'
    BY <1>3 DEF DeletePayload, ConfirmedInv, ArmedStays, Matches
  <2>5. QED
    BY <2>1, <2>2, <2>3, <2>4 DEF Inv
<1>4. CASE DeleteState(a)
  <2>1. DuressTypeOK'
    BY <1>4 DEF DeleteState
  <2>2. CommandInv' /\ OneAtATime'
    BY <1>4 DEF DeleteState
  <2>3. ProgressInv' /\ KeyGoesFirst' /\ NoHalfDestruction'
    BY <1>4 DEF DeleteState, ProgressInv, KeyGoesFirst, NoHalfDestruction
  <2>4. ConfirmedInv' /\ ArmedStays'
    BY <1>4 DEF DeleteState, ConfirmedInv, ArmedStays, Matches
  <2>5. QED
    BY <2>1, <2>2, <2>3, <2>4 DEF Inv
<1>5. QED
  BY <1>1, <1>2, <1>3, <1>4 DEF Destroy

(***************************************************************************)
(* The vault that takes its place.                                         *)
(***************************************************************************)
LEMMA DecoyStep ==
  ASSUME Inv, NEW a \in Att, Decoy(a)
  PROVE  Inv'
<1> USE ValuesDistinct DEF Inv, DuressTypeOK, CommandInv, OneAtATime, Att, Pc,
    ConfFile, Fault, TrappedPc, SetPc, DestroyPc, process, keyFiles,
    duressFiles, history, Starts, Goto, Returns, NoKeys
<1>1. CASE InitDecoy(a)
  <2>1. DuressTypeOK'
    <3>1. faults' \subseteq Fault
      BY <1>1 DEF InitDecoy, CreatesVault
    <3>2. keys' \in [ConfFile -> Password \cup {None}]
      BY <1>1 DEF InitDecoy, CreatesVault
    <3>3. payload' \in BOOLEAN /\ grave' \in {"none", "noise", "readable", "spared"}
      BY <1>1 DEF InitDecoy, CreatesVault
    <3>4. QED
      BY <1>1, <3>1, <3>2, <3>3 DEF InitDecoy, CreatesVault
  <2>2. CommandInv' /\ OneAtATime'
    BY <1>1 DEF InitDecoy, CreatesVault
  <2>3. ProgressInv' /\ KeyGoesFirst' /\ NoHalfDestruction'
    BY <1>1 DEF InitDecoy, CreatesVault, ProgressInv, KeyGoesFirst,
        NoHalfDestruction
  <2>4. ConfirmedInv' /\ ArmedStays'
    BY <1>1 DEF InitDecoy, CreatesVault, ConfirmedInv, ArmedStays, Matches
  <2>5. QED
    BY <2>1, <2>2, <2>3, <2>4 DEF Inv
<1>2. CASE ReopenVault(a)
  BY <1>2 DEF ReopenVault, ProgressInv, KeyGoesFirst, NoHalfDestruction,
      ConfirmedInv, ArmedStays, Matches
<1>3. QED
  BY <1>1, <1>2 DEF Decoy

(***************************************************************************)
(* att oblivion.                                                           *)
(***************************************************************************)
LEMMA ObliviousStep ==
  ASSUME Inv, NEW a \in Att, Oblivious(a)
  PROVE  Inv'
<1> USE ValuesDistinct DEF Inv, DuressTypeOK, CommandInv, OneAtATime, Att, Pc,
    ConfFile, Fault, TrappedPc, SetPc, DestroyPc, process, keyFiles,
    duressFiles, history, Starts, Goto, Returns, NoKeys
<1>1. CASE Oblivion(a)
  BY <1>1 DEF Oblivion, ProgressInv, KeyGoesFirst, NoHalfDestruction,
      ConfirmedInv, ArmedStays, Matches
<1>2. CASE ConfirmOblivion(a)
  <2>1. DuressTypeOK'
    <3>1. faults' \subseteq Fault
      BY <1>2 DEF ConfirmOblivion, NoneDestroys
    <3>2. QED
      BY <1>2, <3>1 DEF ConfirmOblivion, NoneDestroys
  <2>2. CommandInv' /\ OneAtATime'
    BY <1>2 DEF ConfirmOblivion, NoneDestroys
  <2>3. ProgressInv' /\ KeyGoesFirst' /\ NoHalfDestruction'
    BY <1>2 DEF ConfirmOblivion, NoneDestroys, ProgressInv, KeyGoesFirst,
        NoHalfDestruction
  <2>4. ConfirmedInv' /\ ArmedStays'
    BY <1>2 DEF ConfirmOblivion, NoneDestroys, ConfirmedInv, ArmedStays,
        Matches
  <2>5. QED
    BY <2>1, <2>2, <2>3, <2>4 DEF Inv
<1>3. CASE ReportOblivion(a)
  BY <1>3 DEF ReportOblivion, ProgressInv, KeyGoesFirst, NoHalfDestruction,
      ConfirmedInv, ArmedStays, Matches
<1>4. QED
  BY <1>1, <1>2, <1>3 DEF Oblivious

(***************************************************************************)
(* att duress.                                                             *)
(***************************************************************************)
LEMMA DuressStep ==
  ASSUME Inv, NEW a \in Att, Duress(a)
  PROVE  Inv'
<1> USE ValuesDistinct DEF Inv, DuressTypeOK, CommandInv, OneAtATime, Att, Pc,
    ConfFile, Fault, TrappedPc, SetPc, DestroyPc, process, keyFiles,
    duressFiles, history, Starts, Goto, Returns, NoKeys
<1>1. CASE SetDuress(a)
  BY <1>1 DEF SetDuress, ProgressInv, KeyGoesFirst, NoHalfDestruction,
      ConfirmedInv, ArmedStays, Matches
<1>2. CASE VerifyReal(a)
  BY <1>2 DEF VerifyReal, Unlocks, ProgressInv, KeyGoesFirst,
      NoHalfDestruction, ConfirmedInv, ArmedStays, Matches
<1>3. CASE CreateTmp(a)
  BY <1>3 DEF CreateTmp, ProgressInv, KeyGoesFirst, NoHalfDestruction,
      ConfirmedInv, ArmedStays, Matches
<1>4. CASE WriteTmp(a)
  BY <1>4 DEF WriteTmp, ProgressInv, KeyGoesFirst, NoHalfDestruction,
      ConfirmedInv, ArmedStays, Matches
<1>5. CASE RenameTmp(a)
  BY <1>5 DEF RenameTmp, ProgressInv, KeyGoesFirst, NoHalfDestruction,
      ConfirmedInv, ArmedStays, Matches
<1>6. CASE SetFails(a)
  BY <1>6 DEF SetFails, ProgressInv, KeyGoesFirst, NoHalfDestruction,
      ConfirmedInv, ArmedStays, Matches
<1>7. CASE SelfTest(a)
  BY <1>7 DEF SelfTest, Matches, ProgressInv, KeyGoesFirst, NoHalfDestruction,
      ConfirmedInv, ArmedStays
<1>8. CASE RemoveDuress(a)
  BY <1>8 DEF RemoveDuress, ProgressInv, KeyGoesFirst, NoHalfDestruction,
      ConfirmedInv, ArmedStays, Matches
<1>9. QED
  BY <1>1, <1>2, <1>3, <1>4, <1>5, <1>6, <1>7, <1>8 DEF Duress

(***************************************************************************)
(* A command that is interrupted, whatever it is at.                       *)
(***************************************************************************)
LEMMA InterruptStep ==
  ASSUME Inv, NEW a \in Att, Interrupt(a)
  PROVE  Inv'
<1> USE ValuesDistinct DEF Inv, DuressTypeOK, CommandInv, OneAtATime, Att, Pc,
    ConfFile, Fault, TrappedPc, SetPc, DestroyPc, process, keyFiles,
    duressFiles, history, Starts, Goto, Returns, NoKeys
<1>1. QED
  BY DEF Interrupt, Interruptible, ProgressInv, KeyGoesFirst,
      NoHalfDestruction, ConfirmedInv, ArmedStays, Matches

(***************************************************************************)
(* The rest of the world.                                                  *)
(***************************************************************************)
LEMMA ExternalStep ==
  ASSUME Inv, External
  PROVE  Inv'
<1> USE ValuesDistinct DEF Inv, DuressTypeOK, CommandInv, OneAtATime, Att, Pc,
    ConfFile, Fault, TrappedPc, SetPc, DestroyPc, process, keyFiles,
    duressFiles, history, Starts, Goto, Returns, NoKeys
<1>1. CASE ChangePassword
  BY <1>1 DEF ChangePassword, NoneDestroys, ProgressInv, KeyGoesFirst,
      NoHalfDestruction, ConfirmedInv, ArmedStays, Matches
<1>2. CASE cmd_init
  BY <1>2 DEF cmd_init, NoneDestroys, CreatesVault, ProgressInv, KeyGoesFirst,
      NoHalfDestruction, ConfirmedInv, ArmedStays, Matches
<1>3. CASE CloseVault
  <2>1. DuressTypeOK'
    BY <1>3 DEF CloseVault
  <2>2. CommandInv' /\ OneAtATime'
    BY <1>3 DEF CloseVault
  <2>3. ProgressInv' /\ KeyGoesFirst' /\ NoHalfDestruction'
    BY <1>3 DEF CloseVault, ProgressInv, KeyGoesFirst, NoHalfDestruction
  <2>4. ConfirmedInv' /\ ArmedStays'
    BY <1>3 DEF CloseVault, ConfirmedInv, ArmedStays, Matches
  <2>5. QED
    BY <2>1, <2>2, <2>3, <2>4 DEF Inv
<1>4. CASE DamageDuress
  BY <1>4 DEF DamageDuress, ProgressInv, KeyGoesFirst, NoHalfDestruction,
      ConfirmedInv, ArmedStays, Matches
<1>5. CASE PowerCut
  BY <1>5 DEF PowerCut, ProgressInv, KeyGoesFirst, NoHalfDestruction,
      ConfirmedInv, ArmedStays, Matches
<1>6. CASE DeleteGraveyard
  BY <1>6 DEF DeleteGraveyard, ProgressInv, KeyGoesFirst, NoHalfDestruction,
      ConfirmedInv, ArmedStays, Matches
<1>7. QED
  BY <1>1, <1>2, <1>3, <1>4, <1>5, <1>6 DEF External

-----------------------------------------------------------------------------
LEMMA InvInductive == Spec => []Inv
<1>1. Init => Inv
  <2> SUFFICES ASSUME Init PROVE Inv
    OBVIOUS
  <2> USE ValuesDistinct DEF Init, Att
  <2>1. keys \in [ConfFile -> Password \cup {None}] /\ keys["conf"] # None
    BY DEF ConfFile
  <2>2. DuressTypeOK
    BY <2>1 DEF DuressTypeOK, Pc
  <2>3. CommandInv /\ OneAtATime /\ ProgressInv /\ ConfirmedInv
    BY DEF CommandInv, OneAtATime, ProgressInv, ConfirmedInv, DestroyPc, TrappedPc,
      SetPc
  <2>4. KeyGoesFirst /\ NoHalfDestruction /\ ArmedStays
    BY <2>1 DEF KeyGoesFirst, NoHalfDestruction, ArmedStays
  <2>5. QED
    BY <2>2, <2>3, <2>4 DEF Inv
<1>2. Inv /\ [Next]_vars => Inv'
  <2> SUFFICES ASSUME Inv, [Next]_vars
               PROVE  Inv'
    OBVIOUS
  <2>1. ASSUME NEW a \in Opener, Open(a) \/ Decoy(a)
        PROVE  Inv'
    BY <2>1, OpenStep, DecoyStep DEF Att
  <2>2. ASSUME NEW a \in Keeper, Oblivious(a) \/ Duress(a)
        PROVE  Inv'
    BY <2>2, ObliviousStep, DuressStep DEF Att
  <2>3. ASSUME NEW a \in Att, Destroy(a) \/ Interrupt(a)
        PROVE  Inv'
    BY <2>3, DestroyStep, InterruptStep
  <2>4. CASE External
    BY <2>4, ExternalStep
  <2>5. CASE UNCHANGED vars
    BY <2>5
      DEF Inv, DuressTypeOK, CommandInv, OneAtATime, ProgressInv, ConfirmedInv,
          KeyGoesFirst, NoHalfDestruction, ArmedStays, Matches, NoKeys, vars,
          process, keyFiles, duressFiles, history
  <2>6. QED
    BY <2>1, <2>2, <2>3, <2>4, <2>5 DEF Next
<1>3. QED
  BY <1>1, <1>2, PTL DEF Spec

(***************************************************************************)
(* The variables keep their types.                                         *)
(***************************************************************************)
THEOREM TypeCorrect == Spec => []DuressTypeOK
<1>1. Inv => DuressTypeOK
  BY DEF Inv
<1>2. QED
  BY InvInductive, <1>1, PTL

(***************************************************************************)
(* No ciphertext is ever moved to a graveyard together with a key that shred*)
(* was able to overwrite (att:641-672).                                    *)
(***************************************************************************)
THEOREM KeyIsGoneFirst == Spec => []KeyGoesFirst
<1>1. Inv => KeyGoesFirst
  BY DEF Inv
<1>2. QED
  BY InvInductive, <1>1, PTL

(***************************************************************************)
(* A destruction that met no failure and no power cut leaves the payload and*)
(* the key, or neither, wherever signals arrive (att:735).                 *)
(***************************************************************************)
THEOREM NothingHalfDestroyed == Spec => []NoHalfDestruction
<1>1. Inv => NoHalfDestruction
  BY DEF Inv
<1>2. QED
  BY InvInductive, <1>1, PTL

(***************************************************************************)
(* A duress password reported as set is the one the file holds until it is *)
(* removed, replaced or used (att:811-823, duress.rs:30-44).               *)
(***************************************************************************)
THEOREM ArmedStaysInForce == Spec => []ArmedStays
<1>1. Inv => ArmedStays
  BY DEF Inv
<1>2. QED
  BY InvInductive, <1>1, PTL

(***************************************************************************)
(* When att oblivion reports success no copy of the key is left, unless both*)
(* its overwriting and its deletion failed (att:683, 712).                 *)
(***************************************************************************)
THEOREM OblivionErases == Spec => []OblivionMeansGone
<1>1. Inv => OblivionMeansGone
  BY DEF Inv, ProgressInv, OblivionMeansGone, SaysComplete
<1>2. QED
  BY InvInductive, <1>1, PTL

(***************************************************************************)
(* The only step that takes an att open from the check to a destruction is *)
(* the check itself.                                                       *)
(***************************************************************************)
LEMMA DestructionStarts ==
  ASSUME Inv, [Next]_vars, NEW a \in Att, StartsDestruction(a)
  PROVE  Matches(typed[a])
<1> USE DEF Inv, DuressTypeOK, StartsDestruction, Att
<1>1. ASSUME NEW b \in Opener, Open(b) \/ Decoy(b)
      PROVE  Matches(typed[a])
  BY <1>1 DEF Open, Decoy, OpenVault, TypePassword, NoPassword, Mounts, Opened,
    NotMounted, CheckDuress, InitDecoy, ReopenVault, Starts, Returns, Goto,
    DestroyPc, Pc, TrappedPc, SetPc, process
<1>2. ASSUME NEW b \in Keeper, Oblivious(b) \/ Duress(b)
      PROVE  Matches(typed[a])
  BY <1>2 DEF Oblivious, Duress, Oblivion, ConfirmOblivion, ReportOblivion,
    SetDuress, VerifyReal, CreateTmp, WriteTmp, RenameTmp, SetFails, SelfTest,
    RemoveDuress, Starts, Returns, Goto, DestroyPc, Pc, TrappedPc, SetPc, process,
    CommandInv
<1>3. ASSUME NEW b \in Att, Destroy(b) \/ Interrupt(b)
      PROVE  Matches(typed[a])
  BY <1>3 DEF Destroy, ShredKey, ShredHash, DeletePayload, DeleteState, Interrupt,
    Starts, Returns, Goto, DestroyPc, Pc, TrappedPc, SetPc, process
<1>4. CASE External \/ UNCHANGED vars
  BY <1>4 DEF External, ChangePassword, cmd_init, CloseVault, DamageDuress,
    PowerCut, DeleteGraveyard, vars, process, DestroyPc
<1>5. QED
  BY <1>1, <1>2, <1>3, <1>4 DEF Next

(***************************************************************************)
(* Only a password that an att duress with the real password was to save   *)
(* destroys anything (duress.rs:46-49, att:806-809).                       *)
(***************************************************************************)
THEOREM ConfirmedDestroys == Spec => OnlyConfirmedDestroys
<1>1. ASSUME Inv, [Next]_vars, NEW a \in Att, StartsDestruction(a)
      PROVE  typed[a] \in confirmed
  <2>1. Matches(typed[a]) /\ typed[a] \in Password
    BY <1>1, DestructionStarts DEF Inv, CommandInv, StartsDestruction
  <2>2. QED
    BY <1>1, <2>1 DEF Inv, ConfirmedInv, Matches
<1>2. Inv /\ [Next]_vars
        => [\A a \in Att : StartsDestruction(a) => typed[a] \in confirmed]_vars
  BY <1>1
<1>3. QED
  BY InvInductive, <1>2, PTL DEF Spec, OnlyConfirmedDestroys
=============================================================================
