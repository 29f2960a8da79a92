---------------------------- MODULE MCBootstrap ----------------------------
(* Instances of Bootstrap for TLC: one native chain, one or two external   *)
(* ones and Bitcoin; the relayer was selected for the first round only.    *)
EXTENDS Bootstrap

MCSelectedIn == {0, 1}
=============================================================================
