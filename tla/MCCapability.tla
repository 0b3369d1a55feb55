---------------------------- MODULE MCCapability ----------------------------
(***************************************************************************)
(* Small instances of Capability for TLC.                                  *)
(***************************************************************************)
EXTENDS Capability, TLC

\* The client's clock behind the relay's: it uses a grant that has ended there.
Clocks == {-1}
=============================================================================
