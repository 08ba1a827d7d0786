--------------------------- MODULE MCPassthroughFs ---------------------------
(***************************************************************************)
(* Two small vaults for TLC, told apart by the names at their top; a name  *)
(* that is a directory can have one name in it.                            *)
(*   wide: two names and three numbers.  There is a file to be made, and a *)
(*     directory or a symbolic link.                                       *)
(*   deep: one name and four numbers.  Two files and two directories let   *)
(*     it be removed and made again while requests are at work in it.      *)
(* What is to be made twice is made in order, which takes the place of a   *)
(* symmetry of the objects.                                                *)
(***************************************************************************)
EXTENDS PassthroughFs, TLC

CONSTANTS a, b, x, f1, f2, d1, d2, s1

MCRoot  == << >>
MCPath  == {<< >>, <<WhitelistName>>, <<a>>, <<b>>, <<a, x>>, <<b, x>>}
MCName  == {a, b, x, WhitelistName}
MCObj   == {RootObj, WhitelistObj, f1, f2, d1, d2, s1}
MCDir   == {RootObj, d1, d2}
MCLink  == {s1}
Numbers == 1..4

VARIABLE top  \* the names at the top of the vault

Wide == top = {a, b}
MaxNumber == IF Wide THEN 3 ELSE 4  \* bound: inode numbers ever allocated

Fits == /\ next <= MaxNumber + 1
        /\ \A w \in Worker, n \in {a, b} \ top :
             {req[w].old, req[w].new} \cap {<<n>>, <<n, x>>} = {}
        /\ ~Wide => (f2 \in made => f1 \in made) /\ (d2 \in made => d1 \in made)

MCInit == /\ FsInit /\ top \in {{a, b}, {a}, {b}}
          /\ IF Wide THEN \E o \in {d1, s1} : made = MCObj \ {f1, o}
                     ELSE made = {RootObj, WhitelistObj, s1}

(* No guard reads altered: what a behaviour does after it was set, another *)
(* does that did not set it.                                               *)
MCNext == ~altered /\ FsNext /\ UNCHANGED top /\ Fits'

MCSpec == MCInit /\ [][MCNext]_<<fs_vars, top>>

Symmetry == Permutations(Worker) \cup Permutations({a, b})
=============================================================================
