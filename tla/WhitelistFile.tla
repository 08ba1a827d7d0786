--------------------------- MODULE WhitelistFile ---------------------------
(***************************************************************************)
(* The contents of `.attache-gate-whitelist.json' and of the temporary     *)
(* file Whitelist::persist writes next to it (attache-gate/src/            *)
(* whitelist.rs).  An entry is matched on the SHA-256 of a binary and on   *)
(* nothing else, so the list of entries is the set of its hashes; path,    *)
(* comm and added_at are labels no decision reads.                         *)
(***************************************************************************)
CONSTANT Hash  \* the content hashes of the binaries that may ask for access

Absent  == [kind |-> "absent", hashes |-> {}]  \* no such file
Torn    == [kind |-> "torn", hashes |-> {}]    \* created or truncated, not yet fully written
Json(S) == [kind |-> "json", hashes |-> S]     \* the complete serialisation of S

FileContent == {Absent, Torn} \cup {Json(S) : S \in SUBSET Hash}

(***************************************************************************)
(* Whitelist::load: a missing, unreadable or corrupt file is an empty      *)
(* whitelist, never an error.                                              *)
(***************************************************************************)
Load(f) == IF f.kind = "json" THEN f.hashes ELSE {}
=============================================================================
