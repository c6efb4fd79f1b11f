---------------------------- MODULE MCAccessTask ----------------------------
(* AccessTask with two cards; the first can be listed by either of its ids. *)
EXTENDS AccessTask

CONSTANTS card, stranger, fob, uid, other

MCIdsOf(read) == IF read = card THEN {fob, uid} ELSE {other}
=============================================================================
