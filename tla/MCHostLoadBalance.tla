--------------------------- MODULE MCHostLoadBalance ---------------------------
(* HostLoadBalance for model checking.                                     *)
EXTENDS HostLoadBalance
==============================================================================
