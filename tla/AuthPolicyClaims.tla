-------------------------- MODULE AuthPolicyClaims --------------------------
(***************************************************************************)
(* What the help text and a dialog of the repository say of AuthPolicy,    *)
(* and the history needed to state it.  TLC refutes it.                    *)
(***************************************************************************)
EXTENDS AuthPolicy

VARIABLES
  revoked,  \* hashes approved before the last completed reset and not since
  late      \* workers whose request began when its hash was revoked

claim_vars == <<vars, revoked, late>>

ClaimsInit == Init /\ revoked = {} /\ late = {}

(***************************************************************************)
(* A reset completes in this step: the reply is going to be OK.            *)
(***************************************************************************)
ResetCompletes == Resetting /\ holder' = NoOne /\ ~dirty' /\ up' = "gate"

Revoke ==
  revoked' = CASE up' = "none" -> {}
               [] up' # "none" /\ ResetCompletes ->
                    (revoked \cup once \cup always) \ PendingAlways
               [] OTHER -> revoked \ ((once' \ once) \cup (always' \ always))

Begin ==
  late' = {w \in Worker : IF pc[w] = "idle" THEN hash'[w] \in revoked'
                          ELSE w \in late /\ pc'[w] # "idle" /\ hash[w] \in revoked'}

ClaimsNext == Next /\ Revoke /\ Begin

ClaimsSpec == ClaimsInit /\ [][ClaimsNext]_claim_vars

-----------------------------------------------------------------------------
(***************************************************************************)
(* att:899-901, control.rs:170-171: after a reset "every app will need to  *)
(* be re-approved on its next access": a request begun after a completed   *)
(* reset is not allowed on an approval given before it.                    *)
(***************************************************************************)
ResetMeansReapproval ==
  [][\A w \in late : pc'[w] = "allow" => hash[w] \notin revoked]_claim_vars
=============================================================================
