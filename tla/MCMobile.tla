------------------------------ MODULE MCMobile ------------------------------
(***************************************************************************)
(* Small instances of Mobile for TLC.                                      *)
(***************************************************************************)
EXTENDS Mobile
=============================================================================
