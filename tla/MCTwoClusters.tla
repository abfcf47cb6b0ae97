----------------------------- MODULE MCTwoClusters -----------------------------
(* TwoClusters for model checking.                                         *)
EXTENDS TwoClusters
==============================================================================
