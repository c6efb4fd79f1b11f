----------------------------- MODULE MCPrinters ------------------------------
(* Two printers, one of which never answers.  The forms add both, change   *)
(* the first, and remove the second.                                       *)
EXTENDS Printers

CONSTANTS s1, s2, c1, c2

MCSerials == {s1, s2}
MCSettings == {c1, c2}
MCReachable == {s1}

Form(x, y) == [s \in MCSerials |-> IF s = s1 THEN x ELSE y]

MCForms == {Form(c1, c1), Form(c2, c1), Form(c2, None)}
=============================================================================
