---------------------------- MODULE MCAuthPolicy ----------------------------
(***************************************************************************)
(* AuthPolicy for TLC.  Workers and hashes are interchangeable; the        *)
(* symmetry is used by the safety run only, liveness is checked without.   *)
(***************************************************************************)
EXTENDS AuthPolicy, TLC

Symmetry == Permutations(Worker) \cup Permutations(Hash)
=============================================================================
