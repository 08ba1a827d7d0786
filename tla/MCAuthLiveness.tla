--------------------------- MODULE MCAuthLiveness ---------------------------
(***************************************************************************)
(* AuthPolicy for TLC's liveness run: one session of the gate, from its    *)
(* start on.  It never ends here, which would release every request that   *)
(* waits.  Bounds: the first worker and the control thread deal with one   *)
(* binary, the second worker with both; and either both binaries are asked *)
(* about and every persist() succeeds, or only the first one is, persist() *)
(* may fail, and nobody presses "Allow Once".                              *)
(***************************************************************************)
EXTENDS AuthPolicy

CONSTANTS h1, h2, w1, w2

VARIABLE asked  \* the binaries that are asked about

Within ==
  /\ up' = "gate" /\ hash'[w1] # h2 /\ ctlHash' # h2
  /\ IF h2 \in asked THEN ~dirty' ELSE hash'[w2] # h2 /\ once' = {}

SessionNext == Next /\ Within /\ UNCHANGED asked

SessionSpec == /\ Init /\ asked \in {{h1}, {h1, h2}}
               /\ [][SessionNext]_<<vars, asked>>
               /\ CodeRuns
=============================================================================
