--------------------------- MODULE AuthorizedList ---------------------------
(***************************************************************************)
(* What the building relies on: the membership database goes through a     *)
(* sequence of authorized lists, and whoever enforces access holds one of  *)
(* them, whole, and never goes back to an earlier one.  A revoked fob      *)
(* therefore stays revoked at the edge once the edge has seen the          *)
(* revocation (edgeproxy/main.go, putFobs).                                *)
(***************************************************************************)
EXTENDS Integers

CONSTANTS Lists, NoList, MaxRev

VARIABLES
    rev,      \* the database's revision
    hist,     \* the authorized list of every revision so far
    heldRev,  \* the revision in force, -1 before the first
    held      \* the list in force

Init ==
    /\ rev = 0
    /\ hist \in [{0} -> Lists]
    /\ heldRev = -1 /\ held = NoList

Change ==
    /\ rev < MaxRev
    /\ rev' = rev + 1
    /\ \E l \in Lists : hist' = [r \in 0..rev' |-> IF r = rev' THEN l ELSE hist[r]]
    /\ UNCHANGED <<heldRev, held>>

Adopt ==
    /\ heldRev' \in 0..rev /\ heldRev' >= heldRev
    /\ held' = hist[heldRev']
    /\ UNCHANGED <<rev, hist>>

Next == Change \/ Adopt

Spec == Init /\ [][Next]_<<rev, hist, heldRev, held>>

=============================================================================
