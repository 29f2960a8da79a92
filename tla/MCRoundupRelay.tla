-------------------------- MODULE MCRoundupRelay --------------------------
(* The instance of RoundupRelay: two external chains, and a relayer that   *)
(* is not selected for the last round.                                     *)
EXTENDS RoundupRelay

MCSelectedFirst == {0, 1}
=============================================================================
