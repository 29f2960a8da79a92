--------------------------- MODULE MCPsbtQueue ---------------------------
(* Two relayers, both of whom are needed; a withdrawal, and rollbacks of   *)
(* the only output of a deposit, of one that is another's, and of one past *)
(* the end of the outputs.                                                 *)
EXTENDS PsbtQueue

CONSTANTS r1, r2

Rollback(vout, matches) ==
    [rollback |-> TRUE, outs |-> 1, vout |-> vout, matches |-> matches]
MCRequests ==
    {[Rollback(0, TRUE) EXCEPT !.rollback = FALSE], Rollback(0, TRUE), Rollback(0, FALSE),
     Rollback(1, TRUE), Rollback(2, TRUE)}
=============================================================================
